------------------------- MODULE LiveVerificationProofs -------------------------
(***************************************************************************)
(* What a recorded verification rests on, for any agents, repositories,    *)
(* sessions, settings, executables, hooks and verifiers.                   *)
(***************************************************************************)
EXTENDS LiveVerification, TLAPS

Confirming == Rereading \union {"confirmed"}
Evaluating == {"poll"} \union Polling \union Confirming
Opened     == {"open", "arming"} \union Evaluating

\* What a verifier has read and holds, at each place where it is used.
HasRead(v) ==
    /\ pc[v] # "idle" => /\ request[v] \in Request
                         /\ RootOf[request[v].directory] \in Repositories
    /\ pc[v] \in {"files", "commands", "refiles", "recommands"} => reading[v].runtime \in Runtimes
    /\ pc[v] \in {"commands", "recommands"} => reading[v].content \in Settings
    /\ pc[v] \in Opened => first[v] \in Configuration
    /\ pc[v] \in Evaluating => state[v] \in State /\ state[v].session \in Sessions

LiveTyped ==
    /\ TypeOK
    /\ DOMAIN under = Captures /\ under = [c \in Captures |-> under[c]]
    /\ reading = [v \in Verifiers |-> reading[v]]
    /\ \A v \in Verifiers : HasRead(v)

-----------------------------------------------------------------------------
\* Types

\* The initial configuration, events and verifiers are well typed.
LEMMA InitTyped == Init => LiveTyped
  <1> SUFFICES ASSUME Init PROVE LiveTyped
    OBVIOUS
  <1>1. PICK w \in Initially : settings = w[1] /\ runtime = w[2] /\ policy = w[3]
    BY DEF Init
  <1>2. settings \in [Agents -> Settings] /\ runtime \in [Agents -> Runtimes] /\ policy \in Policies
    BY <1>1, LiveAssumption
  <1>3. /\ executable \in [Executables -> Builds \union {NoBuild}]
        /\ captured \in [Captures -> Nat] /\ rows \in Seq(Captures) /\ failures \in [Sessions -> Nat]
        /\ pending \in [Keys -> State \union {NoState}] /\ verified \in [Keys -> State \union {NoState}]
    BY DEF Init, Each
  <1>4. /\ pc \in [Verifiers -> {"idle", "open", "arming", "poll", "confirmed"}
                              \union Reading \union Rereading \union Polling \union Exited]
        /\ stage \in [Verifiers -> Stages]
    BY DEF Init, Each, Stages
  <1>5. /\ request \in [Verifiers -> Request \union {NoState}]
        /\ first \in [Verifiers -> Configuration \union {NoConfiguration}]
        /\ state \in [Verifiers -> State \union {NoState}]
    BY DEF Init, Each
  <1>6. /\ watermark \in [Verifiers -> Nat] /\ deadline \in [Verifiers -> Nat]
        /\ old \in [Verifiers -> BOOLEAN] /\ failed \in [Verifiers -> Nat]
    BY DEF Init, Each
  <1>7. TypeOK
    BY <1>2, <1>3, <1>4, <1>5, <1>6 DEF Init, TypeOK
  <1>8. QED
    BY <1>7 DEF Init, LiveTyped, HasRead, Each, Opened, Evaluating, Confirming, Polling, Rereading

\* A reading of the configuration yields one.
LEMMA FoundTyped ==
    ASSUME LiveTyped, NEW v \in Verifiers, request[v] \in Request,
           reading[v].runtime \in Runtimes, reading[v].content \in Settings,
           Configured(settings[AgentOf(v)])
    PROVE  Found(v) \in Configuration
  <1>1. AgentOf(v) \in Agents
    BY DEF AgentOf, Request
  <1>2. PICK c : c = settings[AgentOf(v)]
    OBVIOUS
  <1>3. c \in Content
    BY <1>1, <1>2, LiveAssumption DEF LiveTyped, TypeOK
  <1>4. Dependencies(c) \in SUBSET Executables
    BY <1>3 DEF Dependencies, Content
  <1>5. Digests(c) \in [Dependencies(c) -> Builds]
    BY <1>2, <1>4 DEF Digests, Configured, LiveTyped, TypeOK
  <1>6. <<reading[v].content, Digests(c)>> \in Fingerprint
    BY <1>4, <1>5 DEF Fingerprint
  <1>7. QED
    BY <1>2, <1>6 DEF Found, Configuration

\* A request names a session of those asked for and a directory that is a repository.
LEMMA BeginTyped ==
    ASSUME LiveTyped, NEW v \in Verifiers, NEW a \in Agents, NEW d \in Directories, NEW c \in Clients,
           NEW s \in Asked[v], NEW w \in Waits, Begin(v, a, d, c, s, w)
    PROVE  LiveTyped'
  <1>1. s \in Sessions \union {None}
    BY LiveAssumption
  <1>2. PICK r : r = [agent |-> a, directory |-> d, client |-> c, session |-> s, wait |-> w]
    OBVIOUS
  <1>3. r \in Request /\ r.directory = d /\ RootOf[d] \in Repositories
    BY <1>1, <1>2, LiveAssumption DEF Request, Begin
  <1>4. request' = [request EXCEPT ![v] = r]
    BY <1>2 DEF Begin
  <1>5. TypeOK'
    BY <1>3, <1>4 DEF Begin, LiveTyped, TypeOK, Goto, configVars, captureVars, metadataVars, pollVars,
       Reading, Exited
  <1>6. QED
    BY <1>3, <1>4, <1>5 DEF Begin, LiveTyped, TypeOK, HasRead, Goto, configVars, captureVars, metadataVars, pollVars,
       Opened, Evaluating, Confirming, Polling, Rereading

\* A step of one verifier needs to be checked for that verifier only.
LEMMA MoveTyped ==
    ASSUME LiveTyped, NEW v \in Verifiers, TypeOK', UNCHANGED under, HasRead(v)',
           reading' = [u \in Verifiers |-> reading'[u]],
           \A u \in Verifiers \ {v} :
              /\ pc'[u] = pc[u] /\ request'[u] = request[u] /\ reading'[u] = reading[u]
              /\ first'[u] = first[u] /\ state'[u] = state[u]
    PROVE  LiveTyped'
  <1>1. ASSUME NEW u \in Verifiers, u # v
        PROVE  HasRead(u)'
    BY <1>1 DEF LiveTyped, HasRead
  <1>2. QED
    BY <1>1 DEF LiveTyped

\* Steps that move a verifier, or read what is no record.
LEMMA LocalTyped ==
    ASSUME LiveTyped, NEW v \in Verifiers,
           \/ ReadFiles(v) \/ LiveWatermark(v) \/ CheckWindow(v) \/ QueryOld(v)
           \/ Stop(v) \/ Wait(v) \/ Wake(v) \/ Cancel(v)
    PROVE  LiveTyped'
  <1>1. CASE ReadFiles(v)
    <2>1. AgentOf(v) \in Agents /\ settings[AgentOf(v)] \in Settings
      BY <1>1 DEF ReadFiles, AgentOf, Request, LiveTyped, TypeOK, HasRead
    <2>2. TypeOK'
      BY <1>1 DEF ReadFiles, LiveTyped, TypeOK, Goto, configVars, captureVars, metadataVars, pollVars, localVars, Reading, Rereading
    <2>3. HasRead(v)'
      BY <1>1, <2>1 DEF ReadFiles, LiveTyped, TypeOK, HasRead, Goto, pollVars, localVars,
         Opened, Evaluating, Confirming, Polling, Rereading, Reading, Exited
    <2>4. QED
      BY <1>1, <2>2, <2>3, MoveTyped DEF ReadFiles, LiveTyped, TypeOK, Goto, captureVars
  <1>2. CASE LiveWatermark(v)
    <2>1. TypeOK'
      BY <1>2 DEF LiveWatermark, LiveTyped, TypeOK, Goto, configVars, captureVars, metadataVars, pollVars, localVars,
         Polling, Exited
    <2>2. HasRead(v)'
      BY <1>2 DEF LiveWatermark, LiveTyped, TypeOK, HasRead, Goto, configVars, captureVars, metadataVars, pollVars, localVars,
         Opened, Evaluating, Confirming, Polling, Rereading, Reading, Exited
    <2>3. QED
      BY <1>2, <2>1, <2>2, MoveTyped DEF LiveWatermark, LiveTyped, TypeOK, Goto, configVars, captureVars, metadataVars, pollVars, localVars
  <1>3. CASE CheckWindow(v)
    <2>1. TypeOK'
      BY <1>3 DEF CheckWindow, LiveTyped, TypeOK, Goto, configVars, captureVars, metadataVars, pollVars, localVars,
         Polling, Exited
    <2>2. HasRead(v)'
      BY <1>3 DEF CheckWindow, LiveTyped, TypeOK, HasRead, Goto, configVars, captureVars, metadataVars, pollVars, localVars,
         Opened, Evaluating, Confirming, Polling, Rereading, Reading, Exited
    <2>3. QED
      BY <1>3, <2>1, <2>2, MoveTyped DEF CheckWindow, LiveTyped, TypeOK, Goto, configVars, captureVars, metadataVars, pollVars, localVars
  <1>4. CASE QueryOld(v)
    <2>1. TypeOK'
      BY <1>4 DEF QueryOld, LiveTyped, TypeOK, Goto, configVars, captureVars, metadataVars, pollVars, localVars,
         Polling, Exited
    <2>2. HasRead(v)'
      BY <1>4 DEF QueryOld, LiveTyped, TypeOK, HasRead, Goto, configVars, captureVars, metadataVars, pollVars, localVars,
         Opened, Evaluating, Confirming, Polling, Rereading, Reading, Exited
    <2>3. QED
      BY <1>4, <2>1, <2>2, MoveTyped DEF QueryOld, LiveTyped, TypeOK, Goto, configVars, captureVars, metadataVars, pollVars, localVars
  <1>5. CASE Stop(v)
    <2>1. TypeOK'
      BY <1>5 DEF Stop, LiveTyped, TypeOK, Goto, configVars, captureVars, metadataVars, pollVars, localVars,
         Polling, Exited
    <2>2. HasRead(v)'
      BY <1>5 DEF Stop, LiveTyped, TypeOK, HasRead, Goto, configVars, captureVars, metadataVars, pollVars, localVars,
         Opened, Evaluating, Confirming, Polling, Rereading, Reading, Exited
    <2>3. QED
      BY <1>5, <2>1, <2>2, MoveTyped DEF Stop, LiveTyped, TypeOK, Goto, configVars, captureVars, metadataVars, pollVars, localVars
  <1>6. CASE Wait(v)
    <2>1. TypeOK'
      BY <1>6 DEF Wait, LiveTyped, TypeOK, Goto, configVars, captureVars, metadataVars, pollVars, localVars,
         Polling, Exited
    <2>2. HasRead(v)'
      BY <1>6 DEF Wait, LiveTyped, TypeOK, HasRead, Goto, configVars, captureVars, metadataVars, pollVars, localVars,
         Opened, Evaluating, Confirming, Polling, Rereading, Reading, Exited
    <2>3. QED
      BY <1>6, <2>1, <2>2, MoveTyped DEF Wait, LiveTyped, TypeOK, Goto, configVars, captureVars, metadataVars, pollVars, localVars
  <1>7. CASE Wake(v)
    <2>1. clock' \in Nat
      BY <1>7 DEF Wake, LiveTyped, TypeOK
    <2>2. TypeOK'
      BY <1>7, <2>1 DEF Wake, LiveTyped, TypeOK, Goto, configVars, captureVars, metadataVars, pollVars, localVars, Polling
    <2>3. QED
      BY <1>7, <2>2 DEF Wake, LiveTyped, TypeOK, Goto, configVars, captureVars, metadataVars, pollVars, localVars,
         HasRead, Opened, Evaluating, Confirming, Polling, Rereading, Reading, Exited
  <1>8. CASE Cancel(v)
    <2>1. TypeOK'
      BY <1>8 DEF Cancel, LiveTyped, TypeOK, Goto, configVars, captureVars, metadataVars, pollVars, localVars,
         Polling, Exited
    <2>2. HasRead(v)'
      BY <1>8 DEF Cancel, LiveTyped, TypeOK, HasRead, Goto, configVars, captureVars, metadataVars, pollVars, localVars,
         Opened, Evaluating, Confirming, Polling, Rereading, Reading, Exited
    <2>3. QED
      BY <1>8, <2>1, <2>2, MoveTyped DEF Cancel, LiveTyped, TypeOK, Goto, configVars, captureVars, metadataVars, pollVars, localVars
  <1>9. QED
    BY <1>1, <1>2, <1>3, <1>4, <1>5, <1>6, <1>7, <1>8

\* The version found for the agent is a runtime.
LEMMA ValidateTyped ==
    ASSUME LiveTyped, NEW v \in Verifiers, Validate(v)
    PROVE  LiveTyped'
  <1>1. AgentOf(v) \in Agents /\ runtime[AgentOf(v)] \in Runtimes
    BY DEF Validate, AgentOf, Request, LiveTyped, TypeOK, HasRead
  <1>2. PICK r : r = [runtime |-> runtime[AgentOf(v)]]
    OBVIOUS
  <1>3. r.runtime \in Runtimes
    BY <1>1, <1>2
  <1>4. reading' = reading \/ reading' = [reading EXCEPT ![v] = r]
    BY <1>2 DEF Validate
  <1>5. Configured(settings[AgentOf(v)]) => reading' = [reading EXCEPT ![v] = r]
    BY <1>2 DEF Validate
  <1>6. TypeOK'
    BY DEF Validate, Goto, LiveTyped, TypeOK, configVars, captureVars, metadataVars, pollVars, localVars, Rereading, Reading, Exited
  <1>7. \A u \in Verifiers : HasRead(u)'
    BY <1>3, <1>4, <1>5 DEF Validate, LiveTyped, TypeOK, Goto, configVars, captureVars, metadataVars, pollVars, localVars,
       HasRead, Opened, Evaluating, Confirming, Polling, Rereading, Reading, Exited
  <1>8. QED
    BY <1>4, <1>6, <1>7 DEF Validate, LiveTyped, configVars, captureVars, metadataVars, pollVars, localVars

\* The deadline is the clock and the wait asked for.
LEMMA SetDeadlineTyped ==
    ASSUME LiveTyped, NEW v \in Verifiers, SetDeadline(v)
    PROVE  LiveTyped'
  <1>1. request[v].wait \in Nat /\ clock' \in Nat
    BY LiveAssumption DEF SetDeadline, Stamp, Request, HasRead, Opened, Evaluating, Confirming, Polling, Rereading, Reading, Exited, LiveTyped, TypeOK
  <1>2. PICK n \in Nat : n = clock' + request[v].wait
    BY <1>1
  <1>3. deadline' = [deadline EXCEPT ![v] = n]
    BY <1>2 DEF SetDeadline
  <1>4. TypeOK'
    <2>1. deadline' \in [Verifiers -> Nat]
      BY <1>3 DEF LiveTyped, TypeOK
    <2>2. QED
      BY <1>1, <2>1 DEF SetDeadline, LiveTyped, TypeOK, Goto, configVars, captureVars, metadataVars, pollVars, localVars, Polling
  <1>5. QED
    BY <1>4 DEF SetDeadline, LiveTyped, TypeOK, Goto, configVars, captureVars, metadataVars, pollVars, localVars,
       HasRead, Opened, Evaluating, Confirming, Polling, Rereading, Reading, Exited

\* A verifier that evaluates has a session whose failures it can count.
LEMMA QueryFailuresTyped ==
    ASSUME LiveTyped, NEW v \in Verifiers, QueryFailures(v)
    PROVE  LiveTyped'
  <1>1. state[v].session \in Sessions
    BY DEF QueryFailures, LiveTyped, HasRead, Opened, Evaluating, Confirming, Polling, Rereading, Reading, Exited
  <1>2. PICK n \in Nat : n = failures[state[v].session]
    BY <1>1 DEF LiveTyped, TypeOK
  <1>3. failed' = [failed EXCEPT ![v] = n]
    BY <1>2 DEF QueryFailures
  <1>4. QED
    BY <1>3 DEF QueryFailures, LiveTyped, TypeOK, HasRead, Goto, configVars, captureVars, metadataVars, pollVars, localVars,
       Opened, Evaluating, Confirming, Polling, Rereading, Reading, Exited

\* With the digests of the executables the first reading is a configuration.
LEMMA ReadCommandsTyped ==
    ASSUME LiveTyped, NEW v \in Verifiers, ReadCommands(v)
    PROVE  LiveTyped'
  <1>1. CASE Configured(settings[AgentOf(v)])
    <2>1. request[v] \in Request /\ reading[v].runtime \in Runtimes /\ reading[v].content \in Settings
      BY DEF ReadCommands, LiveTyped, HasRead
    <2>2. PICK f \in Configuration : f = Found(v)
      BY <1>1, <2>1, FoundTyped
    <2>3. first' = [first EXCEPT ![v] = f]
      BY <1>1, <2>2 DEF ReadCommands
    <2>4. TypeOK'
      BY <1>1, <2>3 DEF ReadCommands, LiveTyped, TypeOK, Goto, configVars, captureVars, metadataVars, pollVars, localVars
    <2>5. QED
      BY <1>1, <2>3, <2>4 DEF ReadCommands, LiveTyped, TypeOK, Goto, configVars, captureVars, metadataVars, pollVars, localVars,
         HasRead, Opened, Evaluating, Confirming, Polling, Rereading, Reading, Exited
  <1>2. CASE ~Configured(settings[AgentOf(v)])
    <2>1. /\ first' = first /\ reading' = reading /\ request' = request /\ state' = state
          /\ under' = under /\ pc' = [pc EXCEPT ![v] = pc'[v]] /\ pc'[v] \in Exited
      BY <1>2 DEF ReadCommands, LiveTyped, TypeOK, Goto, configVars, captureVars, metadataVars, pollVars, localVars, Exited
    <2>2. TypeOK'
      BY <1>2, <2>1 DEF ReadCommands, LiveTyped, TypeOK, Goto, configVars, captureVars, metadataVars, pollVars, localVars
    <2>3. \A u \in Verifiers : HasRead(u)'
      <3>1. ASSUME NEW u \in Verifiers, u # v
            PROVE  HasRead(u)'
        <4>1. pc'[u] = pc[u]
          BY <2>1, <3>1 DEF LiveTyped, TypeOK
        <4>2. QED
          BY <2>1, <4>1 DEF LiveTyped, HasRead
      <3>2. HasRead(v)'
        BY <2>1 DEF LiveTyped, HasRead, ReadCommands, Opened, Evaluating, Confirming, Polling, Rereading, Exited
      <3>3. QED
        BY <3>1, <3>2
    <2>4. QED
      BY <2>1, <2>2, <2>3 DEF LiveTyped
  <1>3. QED
    BY <1>1, <1>2

\* The key of a request names a row of the metadata table.
LEMMA KeyTyped ==
    ASSUME LiveTyped, NEW v \in Verifiers, pc[v] # "idle"
    PROVE  /\ KeyOf(v) \in Keys /\ AgentOf(v) \in Agents
           /\ RootOf[request[v].directory] \in Repositories
           /\ KeyOf(v) = <<AgentOf(v), RootOf[request[v].directory]>>
  BY DEF LiveTyped, HasRead, KeyOf, AgentOf, Keys, Request

\* The armed window is a state.
LEMMA ArmTyped ==
    ASSUME LiveTyped, NEW v \in Verifiers, Arm(v)
    PROVE  LiveTyped'
  <1>1. first[v] \in Configuration /\ request[v] \in Request /\ KeyOf(v) \in Keys
    BY KeyTyped DEF Arm, LiveTyped, HasRead, Opened, Evaluating, Confirming, Polling, Rereading, Reading, Exited
  <1>2. clock' \in Nat /\ watermark[v] \in Nat /\ VersionOf[v] \in Versions
    BY LiveAssumption DEF Arm, Stamp, LiveTyped, TypeOK
  <1>3. RootOf[request[v].directory] \in Repositories /\ AgentOf(v) \in Agents
    BY KeyTyped DEF Arm
  <1>4. PICK s : s = Armed(v)
    OBVIOUS
  <1>5. s \in State
    BY <1>1, <1>2, <1>3, <1>4 DEF Armed, State, Request, Configuration
  <1>6. pending' = [pending EXCEPT ![KeyOf(v)] = s]
    BY <1>4 DEF Arm
  <1>7. TypeOK'
    BY <1>2, <1>5, <1>6 DEF Arm, LiveTyped, TypeOK, Goto, configVars, captureVars, metadataVars, pollVars, localVars, Exited
  <1>8. QED
    BY <1>7 DEF Arm, LiveTyped, TypeOK, Goto, configVars, captureVars, metadataVars, pollVars, localVars,
       HasRead, Opened, Evaluating, Confirming, Polling, Rereading, Reading, Exited

\* So is a window that was armed before and is taken up with a session.
LEMMA ReadPendingTyped ==
    ASSUME LiveTyped, NEW v \in Verifiers, ReadPending(v)
    PROVE  LiveTyped'
  <1>1. first[v] \in Configuration /\ request[v] \in Request /\ KeyOf(v) \in Keys
    BY KeyTyped DEF ReadPending, LiveTyped, HasRead, Opened, Evaluating, Confirming, Polling, Rereading, Reading, Exited
  <1>2. PICK s : s = pending[KeyOf(v)]
    OBVIOUS
  <1>3. s \in State \union {NoState}
    BY <1>1, <1>2 DEF LiveTyped, TypeOK
  <1>4. PICK x : x = Compare(v, s)
    OBVIOUS
  <1>5. x \in {"poll"} \union Exited
    BY <1>4 DEF Compare, Exited
  <1>6. x = "poll" => s \in State
    BY <1>3, <1>4 DEF Compare
  <1>7. PICK t : t = IF x = "poll" THEN [s EXCEPT !.session = request[v].session] ELSE NoState
    OBVIOUS
  <1>8. t \in State \union {NoState} /\ (x = "poll" => t \in State)
    BY <1>1, <1>6, <1>7 DEF State, Request
  <1>9. state' = [state EXCEPT ![v] = t] /\ pc' = [pc EXCEPT ![v] = x]
    BY <1>2, <1>4, <1>7 DEF ReadPending, Goto
  <1>10. TypeOK'
    <2>1. pc' \in [Verifiers -> {"idle", "open", "arming", "poll", "confirmed"}
                              \union Reading \union Rereading \union Polling \union Exited]
      BY <1>5, <1>9 DEF LiveTyped, TypeOK
    <2>2. state' \in [Verifiers -> State \union {NoState}]
      BY <1>8, <1>9 DEF LiveTyped, TypeOK
    <2>3. QED
      BY <2>1, <2>2 DEF ReadPending, LiveTyped, TypeOK, configVars, captureVars, metadataVars, pollVars, localVars
  <1>11. x = "poll" => t.session \in Sessions
    BY <1>1, <1>6, <1>7 DEF ReadPending, State, Request
  <1>12. HasRead(v)'
    <2>1. pc'[v] = x /\ state'[v] = t /\ request' = request /\ first' = first /\ reading' = reading
      BY <1>9 DEF ReadPending, LiveTyped, TypeOK
    <2>2. x # "idle" /\ x \notin {"files", "commands", "refiles", "recommands", "open", "arming"}
          /\ (x \in Evaluating => x = "poll") /\ (x \in Opened => x = "poll")
      BY <1>5 DEF Opened, Evaluating, Confirming, Polling, Rereading, Exited
    <2>3. pc[v] = "open" /\ HasRead(v)
      BY DEF ReadPending, LiveTyped
    <2>4. QED
      BY <1>1, <1>8, <1>11, <2>1, <2>2, <2>3 DEF HasRead
  <1>13. ASSUME NEW u \in Verifiers \ {v}
         PROVE  HasRead(u)'
    BY <1>9 DEF ReadPending, LiveTyped, TypeOK, HasRead
  <1>14. QED
    BY <1>10, <1>12, <1>13 DEF ReadPending, LiveTyped, configVars, captureVars, metadataVars, pollVars, localVars

\* The evidence that Evaluate returns names three rows.
LEMMA EvaluateTyped ==
    ASSUME LiveTyped, NEW v \in Verifiers, Evaluate(v)
    PROVE  LiveTyped'
  <1>1. EvaluatedStage(v, state[v]) \in Stages
    BY DEF EvaluatedStage, Stages
  <1>2. PICK g \in Stages : g = EvaluatedStage(v, state[v])
    BY <1>1
  <1>3. stage' = [stage EXCEPT ![v] = g] /\ stage'[v] = g
    BY <1>2 DEF Evaluate, LiveTyped, TypeOK
  <1>4. stage' \in [Verifiers -> Stages]
    BY <1>3 DEF LiveTyped, TypeOK
  <1>5. CASE g = "tool_round_trip"
    <2>1. PICK t \in RoundTrips(state[v]) :
            /\ state' = [state EXCEPT ![v] = [state[v] EXCEPT !.evidence = t]]
            /\ Goto(v, "revalidate")
      BY <1>3, <1>5 DEF Evaluate
    <2>2. t \in Observed(state[v]) \X Observed(state[v]) \X Observed(state[v])
      BY DEF RoundTrips
    <2>3. Observed(state[v]) \subseteq Nat
      BY DEF Observed, RowsOf, LiveTyped, TypeOK
    <2>4. PICK i \in Nat, j \in Nat, l \in Nat : t = <<i, j, l>>
      BY <2>2, <2>3
    <2>5. PICK s : s = [state[v] EXCEPT !.evidence = <<i, j, l>>]
      OBVIOUS
    <2>6. state[v] \in State /\ state[v].session \in Sessions
      BY DEF Evaluate, LiveTyped, HasRead, Evaluating, Polling
    <2>7. <<i, j, l>> \in Seq(Nat)
      OBVIOUS
    <2>8. s \in State /\ s.session = state[v].session
      BY <2>5, <2>6, <2>7 DEF State
    <2>9. state' = [state EXCEPT ![v] = s]
      BY <2>1, <2>4, <2>5
    <2>10. state' \in [Verifiers -> State \union {NoState}]
      BY <2>8, <2>9 DEF LiveTyped, TypeOK
    <2>11. pc' = [pc EXCEPT ![v] = "revalidate"]
      BY <2>1 DEF Goto
    <2>12. TypeOK'
      BY <1>4, <2>10, <2>11 DEF Evaluate, LiveTyped, TypeOK, configVars, captureVars, metadataVars, pollVars, localVars, Rereading
    <2>13. HasRead(v)'
      BY <2>6, <2>8, <2>9, <2>11, <2>12 DEF Evaluate, LiveTyped, TypeOK,
         HasRead, Opened, Evaluating, Confirming, Polling, Rereading, Reading, Exited
    <2>14. reading' = reading /\ request' = request /\ first' = first /\ under' = under
      BY DEF Evaluate, captureVars
    <2>15. \A u \in Verifiers \ {v} : pc'[u] = pc[u] /\ state'[u] = state[u]
      BY <2>9, <2>11 DEF LiveTyped, TypeOK
    <2>16. QED
      BY <2>12, <2>13, <2>14, <2>15, MoveTyped DEF LiveTyped
  <1>6. CASE g # "tool_round_trip"
    <2>1. pc' = [pc EXCEPT ![v] = "evaluated"] /\ state' = state
      BY <1>3, <1>6 DEF Evaluate, Goto
    <2>2. TypeOK'
      BY <1>4, <2>1 DEF Evaluate, LiveTyped, TypeOK, configVars, captureVars, metadataVars, pollVars, localVars, Polling
    <2>3. QED
      BY <2>1, <2>2 DEF Evaluate, LiveTyped, TypeOK, configVars, captureVars, metadataVars, pollVars, localVars,
         HasRead, Opened, Evaluating, Confirming, Polling, Rereading, Reading, Exited
  <1>7. QED
    BY <1>5, <1>6

\* The time of the verification completes the state.
LEMMA ConfirmTyped ==
    ASSUME LiveTyped, NEW v \in Verifiers, Confirm(v)
    PROVE  LiveTyped'
  <1>1. CASE Configured(settings[AgentOf(v)]) /\ Found(v) = first[v]
    <2>1. PICK n \in Nat : n = clock'
      BY <1>1 DEF Confirm, LiveTyped, TypeOK
    <2>2. PICK s : s = [state[v] EXCEPT !.verifiedAt = n]
      OBVIOUS
    <2>3. s \in State /\ s.session = state[v].session /\ state[v].session \in Sessions
      BY <2>2 DEF Confirm, LiveTyped, HasRead, Opened, Evaluating, Confirming, Polling, Rereading, Reading, Exited, State
    <2>4. state' = [state EXCEPT ![v] = s] /\ clock' = n
      BY <1>1, <2>1, <2>2 DEF Confirm
    <2>5. TypeOK'
      BY <1>1, <2>1, <2>3, <2>4 DEF Confirm, LiveTyped, TypeOK, Goto, configVars, captureVars, metadataVars, pollVars, localVars
    <2>6. HasRead(v)'
      BY <1>1, <2>3, <2>4, <2>5 DEF Confirm, LiveTyped, TypeOK, Goto,
         HasRead, Opened, Evaluating, Confirming, Polling, Rereading, Reading, Exited
    <2>7. QED
      BY <2>4, <2>5, <2>6, MoveTyped DEF Confirm, LiveTyped, TypeOK, Goto, captureVars
  <1>2. CASE ~(Configured(settings[AgentOf(v)]) /\ Found(v) = first[v])
    <2>1. clock' = clock /\ state' = state /\ pc' = [pc EXCEPT ![v] = pc'[v]] /\ pc'[v] \in Exited
      BY <1>2 DEF Confirm, LiveTyped, TypeOK, Goto, Exited
    <2>2. TypeOK'
      BY <2>1 DEF Confirm, LiveTyped, TypeOK, configVars, captureVars, metadataVars, pollVars, localVars
    <2>3. HasRead(v)'
      BY <2>1 DEF Confirm, LiveTyped, TypeOK, HasRead,
         Opened, Evaluating, Confirming, Polling, Rereading, Reading, Exited
    <2>4. QED
      BY <2>1, <2>2, <2>3, MoveTyped DEF Confirm, LiveTyped, TypeOK, captureVars
  <1>3. QED
    BY <1>1, <1>2

\* What is recorded is the state that the verifier holds.
LEMMA WriteVerifiedTyped ==
    ASSUME LiveTyped, NEW v \in Verifiers, WriteVerified(v)
    PROVE  LiveTyped'
  <1>1. KeyOf(v) \in Keys /\ state[v] \in State
    BY KeyTyped DEF WriteVerified, LiveTyped, HasRead, Opened, Evaluating, Confirming, Polling, Rereading, Reading, Exited
  <1>2. PICK k \in Keys, s \in State : k = KeyOf(v) /\ s = state[v]
    BY <1>1
  <1>3. verified' = [verified EXCEPT ![k] = s]
    BY <1>2 DEF WriteVerified
  <1>4. TypeOK'
    BY <1>3 DEF WriteVerified, LiveTyped, TypeOK, Goto, configVars, captureVars, metadataVars, pollVars, localVars, Exited
  <1>5. QED
    BY <1>4 DEF WriteVerified, LiveTyped, TypeOK, Goto, configVars, captureVars, metadataVars, pollVars, localVars,
       HasRead, Opened, Evaluating, Confirming, Polling, Rereading, Reading, Exited

\* A hook stamps its event with a later clock and the configuration in force.
LEMMA CaptureTyped ==
    ASSUME LiveTyped, NEW c \in Captures, Capture(c) \/ Store(c) \/ Reject(c) \/ Lose(c)
    PROVE  LiveTyped'
  <1>1. CASE Capture(c)
    <2>1. PICK n \in Nat : n = clock'
      BY <1>1 DEF Capture, Stamp, LiveTyped, TypeOK
    <2>2. PICK x : x = InForce(EventOf[c].agent)
      OBVIOUS
    <2>3. clock' = n /\ captured' = [captured EXCEPT ![c] = n] /\ under' = [under EXCEPT ![c] = x]
      BY <1>1, <2>1, <2>2 DEF Capture
    <2>4. captured' \in [Captures -> Nat] /\ DOMAIN under' = Captures
          /\ under' = [d \in Captures |-> under'[d]]
      BY <2>3 DEF LiveTyped, TypeOK
    <2>5. QED
      BY <1>1, <2>3, <2>4 DEF Capture, LiveTyped, TypeOK, HasRead, configVars, captureVars, metadataVars, pollVars, localVars
  <1>2. CASE Store(c)
    <2>1. rows' \in Seq(Captures)
      BY <1>2 DEF Store, LiveTyped, TypeOK
    <2>2. QED
      BY <1>2, <2>1 DEF Store, LiveTyped, TypeOK, HasRead, configVars, captureVars, metadataVars, pollVars, localVars
  <1>3. CASE Reject(c)
    <2>1. PICK s \in Sessions : s = EventOf[c].session
      BY LiveAssumption DEF Metadata
    <2>2. failures' = [failures EXCEPT ![s] = @ + 1]
      BY <1>3, <2>1 DEF Reject
    <2>3. failures' \in [Sessions -> Nat]
      BY <2>2 DEF LiveTyped, TypeOK
    <2>4. QED
      BY <1>3, <2>3 DEF Reject, LiveTyped, TypeOK, HasRead, configVars, captureVars, metadataVars, pollVars, localVars
  <1>4. CASE Lose(c)
    BY <1>4 DEF Lose, LiveTyped, TypeOK, HasRead, configVars, captureVars, metadataVars, pollVars, localVars
  <1>5. QED
    BY <1>1, <1>2, <1>3, <1>4

\* The user and the clock leave everything of its type.
LEMMA UserTyped ==
    ASSUME LiveTyped,
           \/ \E a \in Agents : \E c \in Settings : EditSettings(a, c)
           \/ \E p \in Executables : \E b \in Builds \union {NoBuild} : ReplaceExecutable(p, b)
           \/ \E a \in Agents : \E n \in Runtimes : UpgradeRuntime(a, n)
           \/ \E p \in Policies : ChangeScope(p)
           \/ Lapse
    PROVE  LiveTyped'
  <1>1. ASSUME NEW a \in Agents, NEW c \in Settings, EditSettings(a, c)
        PROVE  LiveTyped'
    BY <1>1 DEF EditSettings, Replace, LiveTyped, TypeOK, HasRead, configVars, captureVars, metadataVars, pollVars, localVars
  <1>2. ASSUME NEW p \in Executables, NEW b \in Builds \union {NoBuild}, ReplaceExecutable(p, b)
        PROVE  LiveTyped'
    BY <1>2 DEF ReplaceExecutable, Replace, LiveTyped, TypeOK, HasRead, configVars, captureVars, metadataVars, pollVars, localVars
  <1>3. ASSUME NEW a \in Agents, NEW n \in Runtimes, UpgradeRuntime(a, n)
        PROVE  LiveTyped'
    BY <1>3 DEF UpgradeRuntime, Replace, LiveTyped, TypeOK, HasRead, configVars, captureVars, metadataVars, pollVars, localVars
  <1>4. ASSUME NEW p \in Policies, ChangeScope(p)
        PROVE  LiveTyped'
    BY <1>4 DEF ChangeScope, LiveTyped, TypeOK, HasRead, configVars, captureVars, metadataVars, pollVars, localVars
  <1>5. CASE Lapse
    <2>1. clock' \in Nat
      BY <1>5, LiveAssumption DEF Lapse, LiveTyped, TypeOK
    <2>2. QED
      BY <1>5, <2>1 DEF Lapse, LiveTyped, TypeOK, HasRead, configVars, captureVars, metadataVars, pollVars, localVars
  <1>6. QED
    BY <1>1, <1>2, <1>3, <1>4, <1>5

\* Every step.
LEMMA StepTyped == LiveTyped /\ [Next]_vars => LiveTyped'
  <1> SUFFICES ASSUME LiveTyped, [Next]_vars PROVE LiveTyped'
    OBVIOUS
  <1>1. ASSUME NEW v \in Verifiers, NEW a \in Agents, NEW d \in Directories, NEW c \in Clients,
               NEW s \in Asked[v], NEW w \in Waits, Begin(v, a, d, c, s, w)
        PROVE  LiveTyped'
    BY <1>1, BeginTyped
  <1>2. ASSUME NEW v \in Verifiers, Step(v) \/ Cancel(v)
        PROVE  LiveTyped'
    BY <1>2, ValidateTyped, ReadCommandsTyped, ArmTyped, ReadPendingTyped, SetDeadlineTyped,
       QueryFailuresTyped, EvaluateTyped, ConfirmTyped, WriteVerifiedTyped, LocalTyped DEF Step
  <1>3. ASSUME NEW c \in Captures, Capture(c) \/ Store(c) \/ Reject(c) \/ Lose(c)
        PROVE  LiveTyped'
    BY <1>3, CaptureTyped
  <1>4. CASE UNCHANGED vars
    BY <1>4 DEF vars, LiveTyped, TypeOK, HasRead, configVars, captureVars, metadataVars, pollVars, localVars
  <1>5. QED
    BY <1>1, <1>2, <1>3, <1>4, UserTyped DEF Next

\* Every variable keeps its type, and a verifier at work holds a whole request,
\* configuration and window.
THEOREM LiveTypeCorrect == Spec => []LiveTyped
  <1>1. Init => LiveTyped
    BY InitTyped
  <1>2. LiveTyped /\ [Next]_vars => LiveTyped'
    BY StepTyped
  <1>3. QED
    BY <1>1, <1>2, PTL DEF Spec

-----------------------------------------------------------------------------
\* The inductive invariant.  A value of a file, an executable or a runtime that
\* was read is the current one or a former one; without a reinstatement the
\* current one is never a former one, so what is read twice with one value had
\* that value all the time in between.

\* The part x of the configuration was replaced when it had this value.
Was(x, value) == <<x, value>> \in former

\* No value in force is one that was replaced.
NoneFormer ==
    /\ \A a \in Agents : ~Was(<<"settings", a>>, settings[a])
    /\ \A a \in Agents : ~Was(<<"runtime", a>>, runtime[a])
    /\ \A p \in Executables : ~Was(<<"executable", p>>, executable[p])

\* The configuration f of agent a was read at some time.
Seen(a, f) ==
    /\ f.runtime = runtime[a] \/ Was(<<"runtime", a>>, f.runtime)
    /\ f.fingerprint[1] = settings[a] \/ Was(<<"settings", a>>, f.fingerprint[1])
    /\ \A p \in DOMAIN f.fingerprint[2] :
          f.fingerprint[2][p] = executable[p] \/ Was(<<"executable", p>>, f.fingerprint[2][p])
    /\ \/ DOMAIN f.fingerprint[2] = Dependencies(f.fingerprint[1])
       \/ Was(<<"settings", a>>, f.fingerprint[1])

\* Event c was captured under the configuration of window s, but for its parts
\* that are former values by now.
RuntimeMatches(c, s) ==
    under[c].runtime = s.runtime \/ Was(<<"runtime", s.agent>>, s.runtime)
Alike(c, s) ==
    /\ under[c].fingerprint[1] = s.fingerprint[1]
    /\ DOMAIN under[c].fingerprint[2] = DOMAIN s.fingerprint[2]
    /\ \A p \in DOMAIN s.fingerprint[2] :
          \/ under[c].fingerprint[2][p] = s.fingerprint[2][p]
          \/ Was(<<"executable", p>>, s.fingerprint[2][p])
FilesMatch(c, s) == Alike(c, s) \/ Was(<<"settings", s.agent>>, s.fingerprint[1])

\* Event c of the agent was captured since s was armed: it saw the configuration of s.
SinceArming(c, s) == captured[c] # 0 /\ captured[c] >= s.started /\ EventOf[c].agent = s.agent
WindowHolds(s) ==
    /\ s.started <= clock /\ s.watermark <= Len(rows)
    /\ Seen(s.agent, s)
    /\ \A c \in Captures : SinceArming(c, s) => RuntimeMatches(c, s) /\ FilesMatch(c, s)

\* Nothing of the session was stored before the window was armed.
Fresh(s) == \A i \in RowsOf(s.session) : i > s.watermark

\* The three events of s are what Sound says, verifiedAt apart.
Witnessed(s) ==
    /\ Len(s.evidence) = 3
    /\ \A n \in 1..3 :
        LET i == s.evidence[n]
            e == EventOf[rows[i]]
        IN  /\ i \in DOMAIN rows /\ i > s.watermark
            /\ e.session = s.session /\ e.agent = s.agent
            /\ RootOf[e.directory] = s.repository
            /\ s.started <= captured[rows[i]]
    /\ EventOf[rows[s.evidence[1]]].phase = "session_start"
    /\ EventOf[rows[s.evidence[2]]].phase = "pre"
    /\ EventOf[rows[s.evidence[3]]].phase = "post"
    /\ SameCall(s.evidence[2], s.evidence[3])

\* The evidence was captured before the time given, and under the configuration recorded.
Before(s, time) == \A n \in 1..3 : captured[rows[s.evidence[n]]] < time
Under(s) ==
    \A n \in 1..3 :
        under[rows[s.evidence[n]]] = [fingerprint |-> s.fingerprint, runtime |-> s.runtime]

\* What the events table says of the hook processes.
Shaped(f) ==
    /\ f = [fingerprint |-> <<f.fingerprint[1], f.fingerprint[2]>>, runtime |-> f.runtime]
    /\ f.fingerprint[2] = [p \in DOMAIN f.fingerprint[2] |-> f.fingerprint[2][p]]
EventsHold ==
    /\ \A c \in Captures : captured[c] <= clock
    /\ \A c \in Captures : captured[c] # 0 => Shaped(under[c])
    /\ \A i \in DOMAIN rows : captured[rows[i]] # 0

\* The two rows of the metadata table.
PendingHolds(k) ==
    pending[k] # NoState =>
        k = <<pending[k].agent, pending[k].repository>> /\ WindowHolds(pending[k])
VerifiedHolds(k) ==
    verified[k] # NoState => Sound(k, verified[k]) /\ (reinstated \/ Under(verified[k]))

\* The verifier, while it reads the first configuration,
FirstReading(v) ==
    /\ pc[v] \in {"files", "commands"} =>
          reading[v].runtime = runtime[AgentOf(v)] \/ Was(<<"runtime", AgentOf(v)>>, reading[v].runtime)
    /\ pc[v] = "commands" =>
          reading[v].content = settings[AgentOf(v)] \/ Was(<<"settings", AgentOf(v)>>, reading[v].content)
    /\ pc[v] \in {"open", "arming"} => Seen(AgentOf(v), first[v])
    /\ pc[v] = "arming" => watermark[v] <= Len(rows)

\* while it evaluates the window,
Evaluation(v) ==
    /\ pc[v] \in Evaluating =>
          /\ KeyOf(v) = <<state[v].agent, state[v].repository>>
          /\ first[v] = [fingerprint |-> state[v].fingerprint, runtime |-> state[v].runtime]
          /\ WindowHolds(state[v])
    /\ pc[v] \in {"failures", "records"} => old[v] \/ Fresh(state[v])
    /\ pc[v] \in Confirming => Fresh(state[v]) /\ Witnessed(state[v])

\* and while it reads the configuration again.
Confirmation(v) ==
    /\ pc[v] \in {"refiles", "recommands"} =>
          \/ reinstated \/ reading[v].runtime # state[v].runtime
          \/ \A n \in 1..3 : under[rows[state[v].evidence[n]]].runtime = state[v].runtime
    /\ pc[v] = "recommands" =>
          \/ reinstated \/ reading[v].content # state[v].fingerprint[1]
          \/ \A n \in 1..3 : Alike(rows[state[v].evidence[n]], state[v])
    /\ pc[v] = "confirmed" =>
          /\ state[v].started < state[v].verifiedAt /\ Before(state[v], state[v].verifiedAt)
          /\ reinstated \/ Under(state[v])

\* Together they are inductive.
LiveInv ==
    /\ EventsHold
    /\ reinstated \/ NoneFormer
    /\ \A k \in Keys : PendingHolds(k) /\ VerifiedHolds(k)
    /\ \A v \in Verifiers : FirstReading(v) /\ Evaluation(v) /\ Confirmation(v)

-----------------------------------------------------------------------------
\* What every step respects

\* Time and log go on, an event is stamped once, with what is in force at that
\* moment, and a value that is replaced becomes a former one.
Onward ==
    /\ clock <= clock'
    /\ Len(rows) <= Len(rows')
    /\ \A i \in DOMAIN rows : i \in DOMAIN rows' /\ rows'[i] = rows[i]
    /\ \A c \in Captures :
         \/ captured'[c] = captured[c] /\ under'[c] = under[c]
         \/ /\ captured[c] = 0 /\ captured'[c] = clock' /\ clock < clock'
            /\ under'[c] = InForce(EventOf[c].agent)
    /\ \A i \in DOMAIN rows' : i \notin DOMAIN rows => captured[rows'[i]] # 0
    /\ former \subseteq former' /\ (reinstated => reinstated')
    /\ \A a \in Agents :
         /\ settings'[a] = settings[a] \/ <<<<"settings", a>>, settings[a]>> \in former'
         /\ runtime'[a] = runtime[a] \/ <<<<"runtime", a>>, runtime[a]>> \in former'
    /\ \A p \in Executables :
         executable'[p] = executable[p] \/ <<<<"executable", p>>, executable[p]>> \in former'

\* The user's edits.
LEMMA UserOnward ==
    ASSUME LiveTyped,
           \/ \E a \in Agents : \E c \in Settings : EditSettings(a, c)
           \/ \E p \in Executables : \E b \in Builds \union {NoBuild} : ReplaceExecutable(p, b)
           \/ \E a \in Agents : \E n \in Runtimes : UpgradeRuntime(a, n)
           \/ \E p \in Policies : ChangeScope(p)
           \/ Lapse
    PROVE  Onward
  <1>1. captured' = captured /\ under' = under /\ rows' = rows
    BY DEF EditSettings, ReplaceExecutable, UpgradeRuntime, ChangeScope, Lapse, captureVars
  <1>2. former \subseteq former' /\ (reinstated => reinstated')
    <2>1. ASSUME NEW x, NEW was, NEW now, Replace(x, was, now)
          PROVE  former \subseteq former' /\ (reinstated => reinstated')
      BY <2>1 DEF Replace
    <2>2. CASE former' = former /\ reinstated' = reinstated
      BY <2>2
    <2>3. QED
      BY <2>1, <2>2 DEF EditSettings, ReplaceExecutable, UpgradeRuntime, ChangeScope, Lapse, configVars
  <1>7. clock <= clock'
    <2>1. CASE Lapse
      BY <2>1, LiveAssumption DEF Lapse, LiveTyped, TypeOK
    <2>2. CASE clock' = clock
      BY <2>2 DEF LiveTyped, TypeOK
    <2>3. QED
      BY <2>1, <2>2 DEF EditSettings, ReplaceExecutable, UpgradeRuntime, ChangeScope
  <1>3. \A a \in Agents : settings'[a] = settings[a] \/ <<<<"settings", a>>, settings[a]>> \in former'
    BY DEF EditSettings, ReplaceExecutable, UpgradeRuntime, ChangeScope, Lapse, Replace, configVars,
       LiveTyped, TypeOK
  <1>4. \A a \in Agents : runtime'[a] = runtime[a] \/ <<<<"runtime", a>>, runtime[a]>> \in former'
    BY DEF EditSettings, ReplaceExecutable, UpgradeRuntime, ChangeScope, Lapse, Replace, configVars,
       LiveTyped, TypeOK
  <1>5. \A p \in Executables :
          executable'[p] = executable[p] \/ <<<<"executable", p>>, executable[p]>> \in former'
    BY DEF EditSettings, ReplaceExecutable, UpgradeRuntime, ChangeScope, Lapse, Replace, configVars,
       LiveTyped, TypeOK
  <1>6. rows \in Seq(Captures)
    BY DEF LiveTyped, TypeOK
  <1>8. QED
    BY <1>1, <1>2, <1>3, <1>4, <1>5, <1>6, <1>7 DEF Onward

\* The hooks' steps.
LEMMA CaptureOnward ==
    ASSUME LiveTyped, NEW c \in Captures, Capture(c) \/ Store(c) \/ Reject(c) \/ Lose(c)
    PROVE  Onward
  <1>1. /\ settings' = settings /\ runtime' = runtime /\ executable' = executable
        /\ former' = former /\ reinstated' = reinstated
    BY DEF Capture, Store, Reject, Lose, configVars
  <1>2. CASE Capture(c)
    <2>1. clock' = clock + 1 /\ clock \in Nat /\ rows' = rows /\ captured[c] = 0
      BY <1>2 DEF Capture, Stamp, LiveTyped, TypeOK
    <2>2. PICK x : x = InForce(EventOf[c].agent)
      OBVIOUS
    <2>3. captured' = [captured EXCEPT ![c] = clock'] /\ under' = [under EXCEPT ![c] = x]
      BY <1>2, <2>2 DEF Capture
    <2>4. \A d \in Captures :
            \/ captured'[d] = captured[d] /\ under'[d] = under[d]
            \/ /\ captured[d] = 0 /\ captured'[d] = clock' /\ clock < clock'
               /\ under'[d] = InForce(EventOf[d].agent)
      BY <2>1, <2>2, <2>3 DEF LiveTyped, TypeOK
    <2>5. QED
      BY <1>1, <2>1, <2>4 DEF Onward
  <1>3. CASE Store(c)
    <2>1. rows' = Append(rows, c) /\ rows \in Seq(Captures) /\ captured[c] # 0
      BY <1>3 DEF Store, InFlight, LiveTyped, TypeOK
    <2>2. captured' = captured /\ under' = under /\ clock' = clock /\ clock \in Nat
      BY <1>3 DEF Store, LiveTyped, TypeOK
    <2>3. QED
      BY <1>1, <2>1, <2>2 DEF Onward
  <1>4. CASE Reject(c) \/ Lose(c)
    BY <1>1, <1>4 DEF Reject, Lose, Onward, LiveTyped, TypeOK
  <1>5. QED
    BY <1>2, <1>3, <1>4

\* And all the others, which leave events and configuration alone.
LEMMA StepOnward == LiveTyped /\ [Next]_vars => Onward
  <1> SUFFICES ASSUME LiveTyped, [Next]_vars PROVE Onward
    OBVIOUS
  <1>1. ASSUME NEW v \in Verifiers,
               \/ \E a \in Agents, d \in Directories, c \in Clients, s \in Asked[v], w \in Waits :
                    Begin(v, a, d, c, s, w)
               \/ Step(v) \/ Cancel(v)
        PROVE  Onward
    <2>1. configVars' = configVars /\ captureVars' = captureVars
      BY <1>1 DEF Begin, Step, Validate, ReadFiles, ReadCommands, LiveWatermark, Arm, ReadPending, SetDeadline, CheckWindow, QueryOld, QueryFailures, Evaluate, Confirm, WriteVerified, Stop, Wait, Wake, Cancel
    <2>2. clock <= clock'
      BY <1>1 DEF Begin, Step, Stamp, LiveTyped, TypeOK,
         Validate, ReadFiles, ReadCommands, LiveWatermark, Arm, ReadPending, SetDeadline, CheckWindow, QueryOld, QueryFailures, Evaluate, Confirm, WriteVerified, Stop, Wait, Wake, Cancel
    <2>3. QED
      BY <2>1, <2>2 DEF Onward, configVars, captureVars, LiveTyped, TypeOK
  <1>2. CASE UNCHANGED vars
    BY <1>2 DEF Onward, vars, configVars, captureVars, LiveTyped, TypeOK
  <1>3. QED
    BY <1>1, <1>2, CaptureOnward, UserOnward DEF Next

\* What was read stays a current or a former value.
LEMMA SeenStays ==
    ASSUME LiveTyped, Onward, NEW a \in Agents, NEW f, Seen(a, f),
           DOMAIN f.fingerprint[2] \subseteq Executables
    PROVE  Seen(a, f)'
  BY DEF Seen, Was, Onward, LiveTyped, TypeOK

\* The window of s stays what it is, whatever is captured or replaced.
LEMMA WindowStays ==
    ASSUME LiveTyped, LiveTyped', LiveInv, Onward, NEW s \in State, WindowHolds(s)
    PROVE  WindowHolds(s)'
  <1>1. s.agent \in Agents /\ s.started \in Nat /\ s.watermark \in Nat
        /\ DOMAIN s.fingerprint[2] \subseteq Executables
    BY DEF State, Fingerprint
  <1>2. Seen(s.agent, s)'
    BY <1>1, SeenStays DEF WindowHolds
  <1>3. s.started <= clock' /\ s.watermark <= Len(rows')
    BY <1>1 DEF WindowHolds, Onward, LiveTyped, TypeOK
  <1>4. ASSUME NEW c \in Captures, SinceArming(c, s)'
        PROVE  RuntimeMatches(c, s)' /\ FilesMatch(c, s)'
    <2>1. CASE captured'[c] = captured[c] /\ under'[c] = under[c]
      <3>1. RuntimeMatches(c, s) /\ FilesMatch(c, s)
        BY <1>4, <2>1 DEF WindowHolds, SinceArming
      <3>2. QED
        BY <2>1, <3>1 DEF RuntimeMatches, FilesMatch, Alike, Was, Onward
    <2>2. CASE under'[c] = InForce(EventOf[c].agent)
      <3>1. PICK a \in Agents : a = s.agent
        BY <1>1
      <3>2. under'[c] = InForce(a)
        BY <1>4, <2>2, <3>1 DEF SinceArming
      <3>3. /\ under'[c].runtime = runtime[a] /\ under'[c].fingerprint[1] = settings[a]
            /\ under'[c].fingerprint[2] = Digests(settings[a])
        BY <3>2 DEF InForce
      <3>4. Seen(a, s)
        BY <3>1 DEF WindowHolds
      <3>5. RuntimeMatches(c, s)'
        BY <3>1, <3>3, <3>4 DEF Seen, RuntimeMatches, Was, Onward
      <3>6. CASE Was(<<"settings", a>>, s.fingerprint[1])
        <4>1. Was(<<"settings", s.agent>>, s.fingerprint[1])'
          BY <3>1, <3>6 DEF Was, Onward
        <4>2. QED
          BY <3>5, <4>1 DEF FilesMatch, Alike, Was
      <3>7. CASE ~Was(<<"settings", a>>, s.fingerprint[1])
        <4>1. PICK F : F = s.fingerprint[2]
          OBVIOUS
        <4>2. s.fingerprint[1] = settings[a] /\ DOMAIN F = Dependencies(settings[a])
          BY <3>4, <3>7, <4>1 DEF Seen
        <4>3. \A p \in DOMAIN F : F[p] = executable[p] \/ Was(<<"executable", p>>, F[p])
          BY <3>4, <4>1 DEF Seen
        <4>4. PICK G : G = Digests(settings[a])
          OBVIOUS
        <4>5. DOMAIN G = Dependencies(settings[a]) /\ \A p \in DOMAIN G : G[p] = executable[p]
          BY <4>4 DEF Digests
        <4>6. \A p \in DOMAIN F : G[p] = F[p] \/ <<<<"executable", p>>, F[p]>> \in former'
          BY <4>2, <4>3, <4>5 DEF Was, Onward
        <4>7. Alike(c, s)'
          BY <3>3, <4>1, <4>2, <4>4, <4>5, <4>6 DEF Alike, Was
        <4>8. QED
          BY <3>5, <4>7 DEF FilesMatch, Alike, Was
      <3>8. QED
        BY <3>5, <3>6, <3>7
    <2>3. QED
      BY <2>1, <2>2 DEF Onward
  <1>5. QED
    BY <1>2, <1>3, <1>4 DEF WindowHolds

\* A stored event and its captured_at stay what they are.
LEMMA RowStays ==
    ASSUME LiveTyped, LiveInv, Onward, NEW i \in DOMAIN rows
    PROVE  /\ i \in Nat /\ i \in DOMAIN rows' /\ rows'[i] = rows[i] /\ rows[i] \in Captures
           /\ captured[rows[i]] # 0
           /\ captured'[rows[i]] = captured[rows[i]] /\ under'[rows[i]] = under[rows[i]]
  <1>1. i \in Nat /\ rows[i] \in Captures
    BY DEF LiveTyped, TypeOK
  <1>2. captured[rows[i]] # 0
    BY DEF LiveInv, EventsHold
  <1>3. QED
    BY <1>1, <1>2 DEF Onward

\* Rows are added above the watermark.
LEMMA FreshStays ==
    ASSUME LiveTyped, LiveInv, Onward, NEW s \in State, Fresh(s), s.watermark <= Len(rows)
    PROVE  Fresh(s)'
  <1>1. s.watermark \in Nat /\ rows \in Seq(Captures)
    BY DEF State, LiveTyped, TypeOK
  <1>2. ASSUME NEW i \in RowsOf(s.session)'
        PROVE  i > s.watermark
    <2>1. CASE i \in DOMAIN rows
      <3>1. i \in RowsOf(s.session)
        BY <1>2, <2>1, RowStays DEF RowsOf
      <3>2. QED
        BY <3>1 DEF Fresh
    <2>2. CASE i \notin DOMAIN rows
      <3>1. i \in Nat \ {0}
        BY <1>2 DEF RowsOf, LiveTyped, TypeOK, Onward
      <3>2. i > Len(rows)
        BY <1>1, <2>2, <3>1
      <3>3. QED
        BY <1>1, <3>1, <3>2
    <2>3. QED
      BY <2>1, <2>2
  <1>3. QED
    BY <1>2 DEF Fresh

\* The evidence of a window stays in place, as it was captured.
LEMMA WitnessedStays ==
    ASSUME LiveTyped, LiveInv, Onward, NEW s \in State, Witnessed(s)
    PROVE  /\ Witnessed(s)'
           /\ \A n \in 1..3 : s.evidence[n] \in DOMAIN rows /\ rows'[s.evidence[n]] = rows[s.evidence[n]]
           /\ \A n \in 1..3 : captured'[rows[s.evidence[n]]] = captured[rows[s.evidence[n]]]
           /\ \A n \in 1..3 : under'[rows[s.evidence[n]]] = under[rows[s.evidence[n]]]
  <1>1. \A n \in 1..3 : s.evidence[n] \in DOMAIN rows
    BY DEF Witnessed
  <1>2. /\ \A n \in 1..3 : s.evidence[n] \in DOMAIN rows' /\ rows'[s.evidence[n]] = rows[s.evidence[n]]
        /\ \A n \in 1..3 : captured'[rows[s.evidence[n]]] = captured[rows[s.evidence[n]]]
        /\ \A n \in 1..3 : under'[rows[s.evidence[n]]] = under[rows[s.evidence[n]]]
    BY <1>1, RowStays
  <1>3. Witnessed(s)'
    <2>1. PICK a, b, c : a = s.evidence[1] /\ b = s.evidence[2] /\ c = s.evidence[3]
      OBVIOUS
    <2>2. rows'[a] = rows[a] /\ rows'[b] = rows[b] /\ rows'[c] = rows[c]
      BY <1>2, <2>1
    <2>3. /\ EventOf[rows'[a]].phase = "session_start" /\ EventOf[rows'[b]].phase = "pre"
          /\ EventOf[rows'[c]].phase = "post"
      BY <2>1, <2>2 DEF Witnessed
    <2>4. SameCall(b, c)'
      BY <2>1, <2>2 DEF Witnessed, SameCall
    <2>5. ASSUME NEW n \in 1..3
          PROVE  /\ s.evidence[n] \in DOMAIN rows' /\ s.evidence[n] > s.watermark
                 /\ EventOf[rows'[s.evidence[n]]].session = s.session
                 /\ EventOf[rows'[s.evidence[n]]].agent = s.agent
                 /\ RootOf[EventOf[rows'[s.evidence[n]]].directory] = s.repository
                 /\ s.started <= captured'[rows'[s.evidence[n]]]
      BY <1>2 DEF Witnessed
    <2>6. QED
      BY <2>1, <2>3, <2>4, <2>5 DEF Witnessed, SameCall
  <1>4. QED
    BY <1>1, <1>2, <1>3

\* So do its times and its configuration.
LEMMA UnderStays ==
    ASSUME LiveTyped, LiveInv, Onward, NEW s \in State, Witnessed(s)
    PROVE  /\ Under(s) => Under(s)'
           /\ \A time \in Nat : Before(s, time) => Before(s, time)'
  BY WitnessedStays DEF Under, Before

\* Sound, in its parts.
LEMMA SoundIs ==
    ASSUME NEW k, NEW s
    PROVE  Sound(k, s) <=> /\ k = <<s.agent, s.repository>> /\ s.started < s.verifiedAt
                           /\ Witnessed(s) /\ Before(s, s.verifiedAt) /\ Fresh(s)
  BY DEF Sound, Witnessed, Before, Fresh

\* A sound row stays sound.
LEMMA SoundStays ==
    ASSUME LiveTyped, LiveTyped', LiveInv, Onward, NEW k, NEW s \in State, Sound(k, s)
    PROVE  Sound(k, s)'
  <1>1. /\ k = <<s.agent, s.repository>> /\ s.started < s.verifiedAt
        /\ Witnessed(s) /\ Before(s, s.verifiedAt) /\ Fresh(s)
    BY SoundIs
  <1>2. s.verifiedAt \in Nat /\ s.watermark \in Nat /\ s.evidence \in Seq(Nat)
    BY DEF State
  <1>3. s.watermark <= Len(rows)
    <2>1. s.evidence[1] \in DOMAIN rows /\ s.evidence[1] > s.watermark
      BY <1>1 DEF Witnessed
    <2>2. QED
      BY <1>2, <2>1 DEF LiveTyped, TypeOK
  <1>4. Witnessed(s)' /\ Before(s, s.verifiedAt)' /\ Fresh(s)'
    BY <1>1, <1>2, <1>3, WitnessedStays, UnderStays, FreshStays
  <1>5. QED
    BY <1>1, <1>4 DEF Sound, Witnessed, Before, Fresh

\* So does the table of events.
LEMMA EventsStay ==
    ASSUME LiveTyped, LiveTyped', LiveInv, Onward
    PROVE  EventsHold'
  <1>1. ASSUME NEW c \in Captures
        PROVE  captured'[c] <= clock'
    <2>1. captured[c] \in Nat /\ clock \in Nat /\ clock' \in Nat /\ captured[c] <= clock
      BY DEF LiveInv, EventsHold, LiveTyped, TypeOK
    <2>2. clock <= clock' /\ (captured'[c] = captured[c] \/ captured'[c] = clock')
      BY DEF Onward
    <2>3. QED
      BY <2>1, <2>2
  <1>2. ASSUME NEW c \in Captures, captured'[c] # 0
        PROVE  Shaped(under[c])'
    <2>1. CASE captured'[c] = captured[c] /\ under'[c] = under[c]
      BY <1>2, <2>1 DEF LiveInv, EventsHold, Shaped
    <2>2. CASE under'[c] = InForce(EventOf[c].agent)
      <3>1. PICK C : C = settings[EventOf[c].agent]
        OBVIOUS
      <3>2. PICK D : D = Dependencies(C)
        OBVIOUS
      <3>3. PICK G : G = Digests(C)
        OBVIOUS
      <3>4. G = [p \in D |-> executable[p]]
        BY <3>2, <3>3 DEF Digests
      <3>5. PICK n : n = runtime[EventOf[c].agent]
        OBVIOUS
      <3>6. PICK u : u = under'[c]
        OBVIOUS
      <3>7. u = [fingerprint |-> <<C, G>>, runtime |-> n]
        BY <2>2, <3>1, <3>3, <3>5, <3>6 DEF InForce
      <3>8. u.fingerprint[2] = G /\ u.fingerprint[1] = C /\ u.runtime = n
        BY <3>7
      <3>9. G = [p \in DOMAIN G |-> G[p]]
        BY <3>4
      <3>10. u = [fingerprint |-> <<u.fingerprint[1], u.fingerprint[2]>>, runtime |-> u.runtime]
        BY <3>7, <3>8
      <3>11. QED
        BY <3>6, <3>8, <3>9, <3>10 DEF Shaped
    <2>3. QED
      BY <2>1, <2>2 DEF Onward
  <1>3. ASSUME NEW i \in DOMAIN rows'
        PROVE  captured'[rows'[i]] # 0
    <2>1. CASE i \in DOMAIN rows
      BY <2>1, RowStays
    <2>2. CASE i \notin DOMAIN rows
      <3>1. rows'[i] \in Captures
        BY DEF LiveTyped, TypeOK
      <3>2. QED
        BY <2>2, <3>1 DEF Onward
    <2>3. QED
      BY <2>1, <2>2
  <1>4. QED
    BY <1>1, <1>2, <1>3 DEF EventsHold

\* A replaced value is not brought back.
LEMMA NoneFormerStays ==
    ASSUME LiveTyped, LiveInv, [Next]_vars
    PROVE  (reinstated \/ NoneFormer)'
  <1>1. ASSUME NEW a \in Agents, NEW c \in Settings, EditSettings(a, c), ~reinstated'
        PROVE  NoneFormer'
    BY <1>1 DEF EditSettings, Replace, NoneFormer, Was, LiveInv, LiveTyped, TypeOK
  <1>2. ASSUME NEW p \in Executables, NEW b \in Builds \union {NoBuild}, ReplaceExecutable(p, b), ~reinstated'
        PROVE  NoneFormer'
    BY <1>2 DEF ReplaceExecutable, Replace, NoneFormer, Was, LiveInv, LiveTyped, TypeOK
  <1>3. ASSUME NEW a \in Agents, NEW n \in Runtimes, UpgradeRuntime(a, n), ~reinstated'
        PROVE  NoneFormer'
    BY <1>3 DEF UpgradeRuntime, Replace, NoneFormer, Was, LiveInv, LiveTyped, TypeOK
  <1>4. CASE UNCHANGED <<settings, executable, runtime, former, reinstated>>
    BY <1>4 DEF NoneFormer, Was, LiveInv
  <1>5. ASSUME NEW p \in Policies, ChangeScope(p)
        PROVE  UNCHANGED <<settings, executable, runtime, former, reinstated>>
    BY <1>5 DEF ChangeScope
  <1>6. ASSUME NEW v \in Verifiers,
               \/ \E a \in Agents, d \in Directories, c \in Clients, s \in Asked[v], w \in Waits :
                    Begin(v, a, d, c, s, w)
               \/ Step(v) \/ Cancel(v)
        PROVE  UNCHANGED <<settings, executable, runtime, former, reinstated>>
    BY <1>6 DEF Begin, Step, Validate, ReadFiles, ReadCommands, LiveWatermark, Arm, ReadPending, SetDeadline,
       CheckWindow, QueryOld, QueryFailures, Evaluate, Confirm, WriteVerified, Stop, Wait, Wake, Cancel, configVars
  <1>7. CASE Lapse \/ \E c \in Captures : Capture(c) \/ Store(c) \/ Reject(c) \/ Lose(c)
    <2>1. UNCHANGED <<settings, executable, runtime, former, reinstated>>
      BY <1>7 DEF Lapse, Capture, Store, Reject, Lose, configVars
    <2>2. QED
      BY <1>4, <2>1
  <1>8. CASE UNCHANGED vars
    BY <1>4, <1>8 DEF vars, configVars
  <1>9. QED
    BY <1>1, <1>2, <1>3, <1>4, <1>5, <1>6, <1>7, <1>8 DEF Next

\* What holds of a window that is not touched goes on holding.
LEMMA KeysStay ==
    ASSUME LiveTyped, LiveTyped', LiveInv, Onward, NEW k \in Keys
    PROVE  /\ pending'[k] = pending[k] => PendingHolds(k)'
           /\ verified'[k] = verified[k] => VerifiedHolds(k)'
  <1>1. ASSUME pending'[k] = pending[k], pending[k] # NoState
        PROVE  PendingHolds(k)'
    <2>1. PICK s \in State : s = pending[k]
      BY <1>1 DEF LiveTyped, TypeOK
    <2>2. k = <<s.agent, s.repository>> /\ WindowHolds(s)
      BY <1>1, <2>1 DEF LiveInv, PendingHolds
    <2>3. WindowHolds(s)'
      BY <2>2, WindowStays
    <2>4. pending'[k] = s
      BY <1>1, <2>1
    <2>5. WindowHolds(pending[k])'
      BY <2>3, <2>4 DEF WindowHolds, Seen, SinceArming, RuntimeMatches, FilesMatch, Alike, Was
    <2>6. QED
      BY <2>2, <2>4, <2>5 DEF PendingHolds
  <1>2. ASSUME verified'[k] = verified[k], verified[k] # NoState
        PROVE  VerifiedHolds(k)'
    <2>1. PICK s \in State : s = verified[k]
      BY <1>2 DEF LiveTyped, TypeOK
    <2>2. Sound(k, s) /\ (reinstated \/ Under(s))
      BY <1>2, <2>1 DEF LiveInv, VerifiedHolds
    <2>3. Sound(k, s)' /\ (Under(s) => Under(s)')
      BY <2>2, SoundStays, SoundIs, UnderStays
    <2>4. reinstated => reinstated'
      BY DEF Onward
    <2>5. verified'[k] = s
      BY <1>2, <2>1
    <2>6. Sound(k, verified[k])' /\ (Under(s)' => Under(verified[k])')
      BY <2>3, <2>5 DEF Sound, Under, RowsOf, SameCall
    <2>7. QED
      BY <2>2, <2>3, <2>4, <2>6 DEF VerifiedHolds
  <1>3. QED
    BY <1>1, <1>2 DEF PendingHolds, VerifiedHolds

\* What the invariant says of one verifier.
VerifierHolds(v) == FirstReading(v) /\ Evaluation(v) /\ Confirmation(v)

\* The window in hand keeps what is known of it.
LEMMA EvaluationStays ==
    ASSUME LiveTyped, LiveTyped', LiveInv, Onward, NEW v \in Verifiers, pc[v] \in Evaluating,
           request'[v] = request[v], first'[v] = first[v], state'[v] = state[v]
    PROVE  /\ KeyOf(v)' = <<state'[v].agent, state'[v].repository>>
           /\ first'[v] = [fingerprint |-> state'[v].fingerprint, runtime |-> state'[v].runtime]
           /\ WindowHolds(state[v])'
           /\ Fresh(state[v]) => Fresh(state[v])'
           /\ Witnessed(state[v]) => Witnessed(state[v])'
  <1>1. PICK s \in State : s = state[v]
    BY DEF LiveTyped, HasRead
  <1>2. /\ KeyOf(v) = <<s.agent, s.repository>>
        /\ first[v] = [fingerprint |-> s.fingerprint, runtime |-> s.runtime]
        /\ WindowHolds(s)
    BY <1>1 DEF LiveInv, Evaluation
  <1>3. WindowHolds(s)' /\ s.watermark <= Len(rows)
    BY <1>2, WindowStays DEF WindowHolds
  <1>4. Fresh(s) => Fresh(s)'
    BY <1>3, FreshStays
  <1>5. Witnessed(s) => Witnessed(s)'
    BY WitnessedStays
  <1>6. state'[v] = s
    BY <1>1
  <1>7. WindowHolds(state[v])'
    BY <1>3, <1>6 DEF WindowHolds, Seen, SinceArming, RuntimeMatches, FilesMatch, Alike, Was
  <1>8. Fresh(state[v]) => Fresh(state[v])'
    BY <1>1, <1>4, <1>6 DEF Fresh, RowsOf
  <1>9. Witnessed(state[v]) => Witnessed(state[v])'
    BY <1>1, <1>5, <1>6 DEF Witnessed, SameCall
  <1>10. QED
    BY <1>2, <1>6, <1>7, <1>8, <1>9 DEF KeyOf

\* What the evidence of a window was captured under stays what it is.
LEMMA ConfirmationStays ==
    ASSUME LiveTyped, LiveInv, Onward, NEW s \in State, Witnessed(s)
    PROVE  /\ (\A n \in 1..3 : under[rows[s.evidence[n]]].runtime = s.runtime) =>
                \A n \in 1..3 : under'[rows'[s.evidence[n]]].runtime = s.runtime
           /\ (\A n \in 1..3 : Alike(rows[s.evidence[n]], s)) =>
                \A n \in 1..3 : Alike(rows[s.evidence[n]], s)'
  <1>1. /\ \A n \in 1..3 : rows'[s.evidence[n]] = rows[s.evidence[n]]
        /\ \A n \in 1..3 : under'[rows[s.evidence[n]]] = under[rows[s.evidence[n]]]
    BY WitnessedStays
  <1>2. former \subseteq former'
    BY DEF Onward
  <1>3. ASSUME NEW n \in 1..3, Alike(rows[s.evidence[n]], s)
        PROVE  Alike(rows[s.evidence[n]], s)'
    <2>1. PICK c : c = rows[s.evidence[n]]
      OBVIOUS
    <2>2. rows'[s.evidence[n]] = c /\ under'[c] = under[c]
      BY <1>1, <2>1
    <2>3. Alike(c, s)'
      BY <1>2, <1>3, <2>1, <2>2 DEF Alike, Was
    <2>4. QED
      BY <2>1, <2>2, <2>3 DEF Alike, Was
  <1>4. QED
    BY <1>1, <1>3

\* The frame: a verifier that does not move keeps all of it.
LEMMA Untouched ==
    ASSUME LiveTyped, LiveTyped', LiveInv, Onward, NEW v \in Verifiers,
           pc'[v] = pc[v], request'[v] = request[v], reading'[v] = reading[v], first'[v] = first[v],
           watermark'[v] = watermark[v], state'[v] = state[v], old'[v] = old[v]
    PROVE  VerifierHolds(v)'
  <1>1. FirstReading(v) /\ Evaluation(v) /\ Confirmation(v)
    BY DEF LiveInv
  <1>2. AgentOf(v)' = AgentOf(v) /\ KeyOf(v)' = KeyOf(v)
    BY DEF AgentOf, KeyOf
  <1>3. pc[v] # "idle" => AgentOf(v) \in Agents
    BY KeyTyped
  <1>4. FirstReading(v)'
    <2>1. ASSUME pc[v] \in {"files", "commands"}
          PROVE  reading'[v].runtime = runtime'[AgentOf(v)]
                   \/ <<<<"runtime", AgentOf(v)>>, reading'[v].runtime>> \in former'
      BY <1>1, <1>3, <2>1 DEF FirstReading, Was, Onward
    <2>2. ASSUME pc[v] = "commands"
          PROVE  reading'[v].content = settings'[AgentOf(v)]
                   \/ <<<<"settings", AgentOf(v)>>, reading'[v].content>> \in former'
      BY <1>1, <1>3, <2>2 DEF FirstReading, Was, Onward
    <2>3. ASSUME pc[v] \in {"open", "arming"}
          PROVE  Seen(AgentOf(v), first[v])'
      <3>1. PICK f \in Configuration : f = first[v]
        BY <2>3 DEF LiveTyped, HasRead, Opened
      <3>2. DOMAIN f.fingerprint[2] \subseteq Executables
        BY DEF Configuration, Fingerprint
      <3>3. PICK a \in Agents : a = AgentOf(v)
        BY <1>3, <2>3
      <3>4. Seen(a, f)'
        BY <1>1, <2>3, <3>1, <3>2, <3>3, SeenStays DEF FirstReading
      <3>5. QED
        BY <1>2, <3>1, <3>3, <3>4 DEF Seen, Was
    <2>4. ASSUME pc[v] = "arming"
          PROVE  watermark[v] <= Len(rows')
      BY <1>1, <2>4 DEF FirstReading, Onward, LiveTyped, TypeOK
    <2>5. QED
      BY <1>2, <2>1, <2>2, <2>3, <2>4 DEF FirstReading, Was
  <1>5. Evaluation(v)'
    BY <1>1, EvaluationStays DEF Evaluation, Evaluating, Polling, Confirming, Rereading
  <1>6. Confirmation(v)'
    <2>1. CASE pc[v] \notin Confirming
      BY <2>1 DEF Confirmation, Confirming, Rereading
    <2>2. CASE pc[v] \in Confirming
      <3>1. PICK s \in State : s = state[v]
        BY <2>2 DEF LiveTyped, HasRead, Evaluating
      <3>2. Witnessed(s)
        BY <1>1, <2>2, <3>1 DEF Evaluation
      <3>3. /\ (\A n \in 1..3 : under[rows[s.evidence[n]]].runtime = s.runtime) =>
                  \A n \in 1..3 : under'[rows'[s.evidence[n]]].runtime = s.runtime
            /\ (\A n \in 1..3 : Alike(rows[s.evidence[n]], s)) =>
                  \A n \in 1..3 : Alike(rows[s.evidence[n]], s)'
        BY <3>2, ConfirmationStays
      <3>4. s.verifiedAt \in Nat /\ (reinstated => reinstated') /\ state'[v] = s
        BY <3>1 DEF State, Onward
      <3>5. /\ Under(s) => Under(s)'
            /\ Before(s, s.verifiedAt) => Before(s, s.verifiedAt)'
        BY <3>2, <3>4, UnderStays
      <3>6. pc'[v] \in {"refiles", "recommands"} =>
              \/ reinstated' \/ reading'[v].runtime # s.runtime
              \/ \A n \in 1..3 : under'[rows'[s.evidence[n]]].runtime = s.runtime
        BY <1>1, <3>1, <3>3, <3>4 DEF Confirmation
      <3>7. pc'[v] = "recommands" =>
              \/ reinstated' \/ reading'[v].content # s.fingerprint[1]
              \/ \A n \in 1..3 : Alike(rows[s.evidence[n]], s)'
        BY <1>1, <3>1, <3>3, <3>4 DEF Confirmation
      <3>8. pc'[v] = "confirmed" =>
              /\ s.started < s.verifiedAt /\ Before(s, s.verifiedAt)'
              /\ reinstated' \/ Under(s)'
        BY <1>1, <3>1, <3>4, <3>5 DEF Confirmation
      <3>9. QED
        BY <3>4, <3>6, <3>7, <3>8 DEF Confirmation, Before, Under, Alike, Was
    <2>3. QED
      BY <2>1, <2>2
  <1>7. QED
    BY <1>4, <1>5, <1>6 DEF VerifierHolds

-----------------------------------------------------------------------------
\* The steps of a verifier

\* A place where nothing is held yet, or no more.
LEMMA NothingHeld ==
    ASSUME NEW v \in Verifiers,
           pc'[v] \in {"idle", "validate"} \union Exited
    PROVE  VerifierHolds(v)'
  BY DEF VerifierHolds, FirstReading, Evaluation, Confirmation, Opened, Evaluating, Confirming, Polling, Rereading, Reading, Exited

\* Steps that only wait, look at the clock or leave.
LEMMA WaitingHolds ==
    ASSUME LiveTyped, LiveTyped', LiveInv, Onward, NEW v \in Verifiers,
           \/ SetDeadline(v) \/ CheckWindow(v) \/ QueryFailures(v)
           \/ Stop(v) \/ Wait(v) \/ Wake(v) \/ Cancel(v)
    PROVE  VerifierHolds(v)'
  <1>1. /\ request'[v] = request[v] /\ first'[v] = first[v] /\ state'[v] = state[v]
        /\ old'[v] = old[v] /\ pc[v] \in Evaluating
    BY DEF SetDeadline, CheckWindow, QueryFailures, Stop, Wait, Wake, Cancel, localVars, pollVars,
       Evaluating, Polling
  <1>2. Evaluation(v)
    BY DEF LiveInv
  <1>3. \/ pc'[v] \in {"window", "old", "waiting"} \union Exited
        \/ pc[v] = "failures" /\ pc'[v] = "records"
    BY DEF SetDeadline, CheckWindow, QueryFailures, Stop, Wait, Wake, Cancel, Goto, LiveTyped, TypeOK, Exited
  <1>4. FirstReading(v)' /\ Confirmation(v)'
    BY <1>3 DEF FirstReading, Confirmation, Exited
  <1>5. Evaluation(v)'
    BY <1>1, <1>2, <1>3, EvaluationStays DEF Evaluation, Opened, Evaluating, Confirming, Polling, Rereading, Reading, Exited
  <1>6. QED
    BY <1>4, <1>5 DEF VerifierHolds

\* A count of zero older rows makes the window fresh.
LEMMA QueryOldHolds ==
    ASSUME LiveTyped, LiveTyped', LiveInv, Onward, NEW v \in Verifiers, QueryOld(v)
    PROVE  VerifierHolds(v)'
  <1>1. /\ request'[v] = request[v] /\ first'[v] = first[v] /\ state'[v] = state[v]
        /\ pc[v] \in Evaluating /\ pc'[v] = "failures" /\ rows' = rows
    BY DEF QueryOld, captureVars, pollVars, Evaluating, Polling, Goto, LiveTyped, TypeOK
  <1>2. FirstReading(v)' /\ Confirmation(v)'
    BY <1>1 DEF FirstReading, Confirmation
  <1>3. PICK s \in State : s = state[v]
    BY <1>1 DEF LiveTyped, HasRead
  <1>4. old'[v] = (\E i \in RowsOf(s.session) : i <= s.watermark)
    BY <1>3 DEF QueryOld, LiveTyped, TypeOK
  <1>5. RowsOf(s.session) \subseteq Nat /\ s.watermark \in Nat
    <2>1. rows \in Seq(Captures)
      BY DEF LiveTyped, TypeOK
    <2>2. RowsOf(s.session) \subseteq Nat
      BY <2>1 DEF RowsOf
    <2>3. QED
      BY <2>2 DEF State
  <1>6. ~old'[v] => Fresh(s)
    <2>1. ASSUME ~old'[v], NEW i \in RowsOf(s.session)
          PROVE  i > s.watermark
      <3>1. ~(i <= s.watermark)
        BY <1>4, <2>1
      <3>2. QED
        BY <1>5, <3>1
    <2>2. QED
      BY <2>1 DEF Fresh
  <1>7. old'[v] \/ Fresh(state[v])'
    BY <1>1, <1>3, <1>6 DEF Fresh, RowsOf
  <1>8. Evaluation(v)'
    BY <1>1, <1>7, EvaluationStays DEF Evaluation, Confirming, Rereading
  <1>9. QED
    BY <1>2, <1>8 DEF VerifierHolds

\* The evidence of an open window was captured since its arming.
LEMMA EvidenceMatches ==
    ASSUME LiveTyped, LiveInv, NEW s \in State, WindowHolds(s), Witnessed(s), NEW n \in 1..3
    PROVE  RuntimeMatches(rows[s.evidence[n]], s) /\ FilesMatch(rows[s.evidence[n]], s)
  <1>1. PICK i : i = s.evidence[n]
    OBVIOUS
  <1>2. i \in DOMAIN rows /\ EventOf[rows[i]].agent = s.agent /\ s.started <= captured[rows[i]]
    BY <1>1 DEF Witnessed
  <1>3. PICK c \in Captures : c = rows[i]
    BY <1>2 DEF LiveTyped, TypeOK
  <1>4. captured[c] # 0 /\ captured[c] \in Nat /\ s.started \in Nat
    BY <1>2, <1>3 DEF LiveInv, EventsHold, LiveTyped, TypeOK, State
  <1>5. SinceArming(c, s)
    BY <1>2, <1>3, <1>4 DEF SinceArming
  <1>6. QED
    BY <1>1, <1>3, <1>5 DEF WindowHolds

\* At every place of an evaluation, in the terms of its window.
LEMMA Evaluated ==
    ASSUME LiveTyped, LiveInv, NEW v \in Verifiers, pc[v] \in Evaluating
    PROVE  \E s \in State :
              /\ s = state[v] /\ WindowHolds(s) /\ s.agent \in Agents /\ s.agent = AgentOf(v)
              /\ KeyOf(v) = <<s.agent, s.repository>> /\ KeyOf(v) \in Keys
              /\ first[v] = [fingerprint |-> s.fingerprint, runtime |-> s.runtime]
  <1>1. PICK s \in State : s = state[v]
    BY DEF LiveTyped, HasRead
  <1>2. /\ KeyOf(v) = <<s.agent, s.repository>> /\ WindowHolds(s)
        /\ first[v] = [fingerprint |-> s.fingerprint, runtime |-> s.runtime]
    BY <1>1 DEF LiveInv, Evaluation
  <1>3. pc[v] # "idle"
    BY DEF Opened, Evaluating, Confirming, Polling, Rereading, Reading, Exited
  <1>4. KeyOf(v) \in Keys /\ AgentOf(v) = s.agent /\ s.agent \in Agents
    BY <1>2, <1>3, KeyTyped
  <1>5. QED
    BY <1>1, <1>2, <1>4

\* The version that is found again was found before: the events saw it.
LEMMA ValidateHolds ==
    ASSUME LiveTyped, LiveTyped', LiveInv, Onward, NEW v \in Verifiers, Validate(v)
    PROVE  VerifierHolds(v)'
  <1>1. /\ request' = request /\ first' = first /\ state' = state /\ old' = old /\ rows' = rows
        /\ under' = under /\ runtime' = runtime /\ reinstated' = reinstated
    BY DEF Validate, configVars, captureVars, metadataVars, pollVars, localVars
  <1>2. CASE ~Configured(settings[AgentOf(v)])
    <2>1. pc'[v] \in Exited
      BY <1>2 DEF Validate, Goto, Exited, LiveTyped, TypeOK
    <2>2. QED
      BY <2>1, NothingHeld
  <1>3. CASE Configured(settings[AgentOf(v)])
    <2>1. PICK r : r = [runtime |-> runtime[AgentOf(v)]]
      OBVIOUS
    <2>2. reading'[v] = r /\ r.runtime = runtime[AgentOf(v)]
      BY <1>3, <2>1 DEF Validate, LiveTyped
    <2>3. CASE pc[v] = "validate"
      <3>1. pc'[v] = "files"
        BY <1>3, <2>3 DEF Validate, Goto, LiveTyped, TypeOK
      <3>2. QED
        BY <1>1, <2>2, <3>1 DEF VerifierHolds, FirstReading, Evaluation, Confirmation, AgentOf, Opened, Evaluating, Confirming, Polling, Rereading, Reading, Exited
    <2>4. CASE pc[v] = "revalidate"
      <3>1. pc'[v] = "refiles" /\ pc[v] \in Evaluating /\ pc[v] \in Confirming
        BY <1>3, <2>4 DEF Validate, Goto, LiveTyped, TypeOK, Opened, Evaluating, Confirming, Polling, Rereading, Reading, Exited
      <3>2. PICK s \in State :
              s = state[v] /\ WindowHolds(s) /\ s.agent \in Agents /\ s.agent = AgentOf(v)
        BY <3>1, Evaluated
      <3>3. Witnessed(s) /\ Fresh(s)
        BY <3>1, <3>2 DEF LiveInv, Evaluation
      <3>4. ASSUME ~reinstated, r.runtime = s.runtime, NEW n \in 1..3
            PROVE  under[rows[s.evidence[n]]].runtime = s.runtime
        <4>1. ~Was(<<"runtime", s.agent>>, s.runtime)
          BY <2>2, <3>2, <3>4 DEF LiveInv, NoneFormer
        <4>2. QED
          BY <3>2, <3>3, <4>1, EvidenceMatches DEF RuntimeMatches
      <3>5. Confirmation(v)'
        BY <1>1, <2>2, <3>1, <3>2, <3>4 DEF Confirmation
      <3>6. Evaluation(v)'
        BY <1>1, <3>1, <3>2, <3>3, EvaluationStays DEF Evaluation
      <3>7. QED
        BY <3>1, <3>5, <3>6 DEF VerifierHolds, FirstReading
    <2>5. QED
      BY <2>3, <2>4 DEF Validate
  <1>4. QED
    BY <1>2, <1>3

\* And so for the settings,
LEMMA ReadFilesHolds ==
    ASSUME LiveTyped, LiveTyped', LiveInv, Onward, NEW v \in Verifiers, ReadFiles(v)
    PROVE  VerifierHolds(v)'
  <1>1. /\ request' = request /\ first' = first /\ state' = state /\ old' = old /\ rows' = rows
        /\ under' = under /\ runtime' = runtime /\ settings' = settings /\ former' = former
        /\ reinstated' = reinstated
    BY DEF ReadFiles, configVars, captureVars, metadataVars, pollVars, localVars
  <1>2. PICK r : r = [runtime |-> reading[v].runtime, content |-> settings[AgentOf(v)]]
    OBVIOUS
  <1>3. reading'[v] = r /\ r.runtime = reading[v].runtime /\ r.content = settings[AgentOf(v)]
    BY <1>2 DEF ReadFiles, LiveTyped
  <1>4. FirstReading(v) /\ Confirmation(v)
    BY DEF LiveInv
  <1>5. CASE pc[v] = "files"
    <2>1. pc'[v] = "commands"
      BY <1>5 DEF ReadFiles, Goto, LiveTyped, TypeOK
    <2>2. FirstReading(v)'
      BY <1>1, <1>3, <1>4, <1>5, <2>1 DEF FirstReading, AgentOf, Was
    <2>3. QED
      BY <2>1, <2>2 DEF VerifierHolds, Evaluation, Confirmation, Opened, Evaluating, Confirming, Polling, Rereading, Reading, Exited
  <1>6. CASE pc[v] = "refiles"
    <2>1. pc'[v] = "recommands" /\ pc[v] \in Evaluating /\ pc[v] \in Confirming
      BY <1>6 DEF ReadFiles, Goto, LiveTyped, TypeOK, Opened, Evaluating, Confirming, Polling, Rereading, Reading, Exited
    <2>2. PICK s \in State :
            s = state[v] /\ WindowHolds(s) /\ s.agent \in Agents /\ s.agent = AgentOf(v)
      BY <2>1, Evaluated
    <2>3. Witnessed(s) /\ Fresh(s)
      BY <2>1, <2>2 DEF LiveInv, Evaluation
    <2>4. ASSUME ~reinstated, r.content = s.fingerprint[1], NEW n \in 1..3
          PROVE  Alike(rows[s.evidence[n]], s)
      <3>1. ~Was(<<"settings", s.agent>>, s.fingerprint[1])
        BY <1>3, <2>2, <2>4 DEF LiveInv, NoneFormer
      <3>2. QED
        BY <2>2, <2>3, <3>1, EvidenceMatches DEF FilesMatch
    <2>5. \A n \in 1..3 : Alike(rows[s.evidence[n]], s)' <=> Alike(rows[s.evidence[n]], s)
      BY <1>1 DEF Alike, Was
    <2>6. \/ reinstated' \/ reading'[v].content # state'[v].fingerprint[1]
          \/ \A n \in 1..3 : Alike(rows[s.evidence[n]], s)'
      BY <1>1, <1>3, <2>2, <2>4, <2>5
    <2>7. Confirmation(v)'
      BY <1>1, <1>3, <1>4, <1>6, <2>1, <2>2, <2>6 DEF Confirmation, Alike, Was
    <2>8. Evaluation(v)'
      BY <1>1, <2>1, <2>2, <2>3, EvaluationStays DEF Evaluation
    <2>9. QED
      BY <2>1, <2>7, <2>8 DEF VerifierHolds, FirstReading
  <1>7. QED
    BY <1>5, <1>6 DEF ReadFiles

\* and the executables of the first reading.
LEMMA ReadCommandsHolds ==
    ASSUME LiveTyped, LiveTyped', LiveInv, Onward, NEW v \in Verifiers, ReadCommands(v)
    PROVE  VerifierHolds(v)'
  <1>1. CASE ~Configured(settings[AgentOf(v)])
    <2>1. pc'[v] \in Exited
      BY <1>1 DEF ReadCommands, Goto, Exited, LiveTyped, TypeOK
    <2>2. QED
      BY <2>1, NothingHeld
  <1>2. CASE Configured(settings[AgentOf(v)])
    <2>1. /\ request' = request /\ settings' = settings /\ runtime' = runtime
          /\ executable' = executable /\ former' = former /\ pc'[v] = "open"
      BY <1>2 DEF ReadCommands, Goto, configVars, captureVars, metadataVars, pollVars, localVars, LiveTyped, TypeOK
    <2>2. PICK a \in Agents : a = AgentOf(v)
      BY KeyTyped DEF ReadCommands
    <2>3. PICK c, n : c = reading[v].content /\ n = reading[v].runtime
      OBVIOUS
    <2>4. PICK G : G = Digests(settings[a])
      OBVIOUS
    <2>5. DOMAIN G = Dependencies(settings[a]) /\ \A p \in DOMAIN G : G[p] = executable[p]
      BY <2>4 DEF Digests
    <2>6. PICK f : f = [fingerprint |-> <<c, G>>, runtime |-> n]
      OBVIOUS
    <2>7. f.runtime = n /\ f.fingerprint[1] = c /\ f.fingerprint[2] = G
      BY <2>6
    <2>8. first'[v] = f
      BY <1>2, <2>2, <2>3, <2>4, <2>6 DEF ReadCommands, Found, LiveTyped, TypeOK
    <2>9. /\ n = runtime[a] \/ Was(<<"runtime", a>>, n)
          /\ c = settings[a] \/ Was(<<"settings", a>>, c)
      BY <2>2, <2>3 DEF LiveInv, FirstReading, ReadCommands
    <2>10. Seen(a, f)
      BY <2>5, <2>7, <2>9 DEF Seen
    <2>11. Seen(AgentOf(v), first[v])'
      BY <2>1, <2>2, <2>8, <2>10 DEF Seen, Was, AgentOf
    <2>12. QED
      BY <2>1, <2>11 DEF VerifierHolds, FirstReading, Evaluation, Confirmation, Opened, Evaluating, Confirming, Polling, Rereading, Reading, Exited
  <1>3. QED
    BY <1>1, <1>2

\* The watermark is no more than the number of rows.
LEMMA LiveWatermarkHolds ==
    ASSUME LiveTyped, LiveTyped', LiveInv, Onward, NEW v \in Verifiers, LiveWatermark(v)
    PROVE  VerifierHolds(v)'
  <1>1. /\ request' = request /\ settings' = settings /\ runtime' = runtime /\ first' = first
        /\ executable' = executable /\ former' = former /\ pc'[v] = "arming" /\ rows' = rows
        /\ watermark'[v] = Len(rows)
    BY DEF LiveWatermark, Goto, configVars, captureVars, metadataVars, pollVars, localVars, LiveTyped, TypeOK
  <1>2. Seen(AgentOf(v), first[v])
    BY DEF LiveInv, FirstReading, LiveWatermark
  <1>3. Seen(AgentOf(v), first[v])'
    BY <1>1, <1>2 DEF Seen, Was, AgentOf
  <1>4. Len(rows) <= Len(rows)
    BY DEF LiveTyped, TypeOK
  <1>5. QED
    BY <1>1, <1>3, <1>4 DEF VerifierHolds, FirstReading, Evaluation, Confirmation, Opened, Evaluating, Confirming, Polling, Rereading, Reading, Exited

\* A window is armed after everything that was captured so far.
LEMMA ArmHolds ==
    ASSUME LiveTyped, LiveTyped', LiveInv, Onward, NEW v \in Verifiers, Arm(v)
    PROVE  VerifierHolds(v)' /\ PendingHolds(KeyOf(v))' /\ KeyOf(v) \in Keys
  <1>1. KeyOf(v) \in Keys /\ AgentOf(v) \in Agents
        /\ KeyOf(v) = <<AgentOf(v), RootOf[request[v].directory]>>
    BY KeyTyped DEF Arm
  <1>2. VerifierHolds(v)'
    <2>1. pc'[v] \in Exited
      BY DEF Arm, Goto, Exited, LiveTyped, TypeOK
    <2>2. QED
      BY <2>1, NothingHeld
  <1>3. PICK s : s = Armed(v)
    OBVIOUS
  <1>4. /\ s.started = clock' /\ s.agent = AgentOf(v) /\ s.repository = RootOf[request[v].directory]
        /\ s.watermark = watermark[v]
        /\ s.fingerprint = first[v].fingerprint /\ s.runtime = first[v].runtime
    BY <1>3 DEF Armed
  <1>5. pending'[KeyOf(v)] = s
    BY <1>1, <1>3 DEF Arm, LiveTyped, TypeOK
  <1>6. /\ rows' = rows /\ captured' = captured /\ settings' = settings /\ runtime' = runtime
        /\ executable' = executable /\ former' = former /\ clock' = clock + 1 /\ clock \in Nat
    BY DEF Arm, Stamp, configVars, captureVars, metadataVars, pollVars, localVars, LiveTyped, TypeOK
  <1>7. Seen(s.agent, s)
    BY <1>4 DEF Seen, LiveInv, FirstReading, Arm
  <1>8. Seen(s.agent, s)'
    BY <1>6, <1>7 DEF Seen, Was
  <1>9. s.watermark <= Len(rows) /\ s.started <= clock'
    <2>1. s.watermark <= Len(rows)
      BY <1>4 DEF LiveInv, FirstReading, Arm
    <2>2. s.started <= clock'
      BY <1>4, <1>6
    <2>3. QED
      BY <2>1, <2>2
  <1>10. \A c \in Captures : ~SinceArming(c, s)'
    <2>1. ASSUME NEW c \in Captures
          PROVE  captured[c] \in Nat /\ captured[c] <= clock
      BY DEF LiveInv, EventsHold, LiveTyped, TypeOK
    <2>2. QED
      BY <1>4, <1>6, <2>1 DEF SinceArming
  <1>11. WindowHolds(s)'
    BY <1>6, <1>8, <1>9, <1>10 DEF WindowHolds
  <1>12. PICK k \in Keys : k = KeyOf(v)
    BY <1>1
  <1>13. pending'[k] = s /\ k = <<s.agent, s.repository>>
    BY <1>1, <1>4, <1>5, <1>12
  <1>14. PendingHolds(k)'
    BY <1>11, <1>13 DEF PendingHolds, WindowHolds, Seen, SinceArming, RuntimeMatches, FilesMatch, Alike, Was
  <1>15. PendingHolds(KeyOf(v))'
    <2>1. KeyOf(v)' = KeyOf(v)
      BY DEF Arm, KeyOf, localVars
    <2>2. QED
      BY <1>12, <1>14, <2>1 DEF PendingHolds, WindowHolds, Seen, SinceArming, RuntimeMatches, FilesMatch, Alike, Was
  <1>16. QED
    BY <1>1, <1>2, <1>15

\* A window that is found with the configuration that was read is evaluated.
LEMMA ReadPendingHolds ==
    ASSUME LiveTyped, LiveTyped', LiveInv, Onward, NEW v \in Verifiers, ReadPending(v)
    PROVE  VerifierHolds(v)'
  <1>1. PICK k \in Keys : k = KeyOf(v)
    BY KeyTyped DEF ReadPending
  <1>2. PICK p \in State \union {NoState} : p = pending[k]
    BY DEF LiveTyped, TypeOK
  <1>3. CASE Compare(v, p) # "poll"
    <2>1. pc'[v] \in Exited
      BY <1>1, <1>2, <1>3 DEF ReadPending, Goto, Compare, Exited, LiveTyped, TypeOK
    <2>2. QED
      BY <2>1, NothingHeld
  <1>4. CASE Compare(v, p) = "poll"
    <2>1. p # NoState /\ p.fingerprint = first[v].fingerprint /\ p.runtime = first[v].runtime
      BY <1>4 DEF Compare
    <2>2. p \in State
      BY <1>2, <2>1
    <2>3. pc'[v] = "poll" /\ first'[v] = first[v] /\ request'[v] = request[v]
      BY <1>1, <1>2, <1>4 DEF ReadPending, Goto, LiveTyped, TypeOK
    <2>4. PICK s : s = [p EXCEPT !.session = request[v].session]
      OBVIOUS
    <2>5. state'[v] = s
      BY <1>1, <1>2, <1>4, <2>4 DEF ReadPending, LiveTyped, TypeOK
    <2>6. /\ s.started = p.started /\ s.watermark = p.watermark /\ s.agent = p.agent
          /\ s.repository = p.repository /\ s.fingerprint = p.fingerprint /\ s.runtime = p.runtime
      BY <2>2, <2>4 DEF State
    <2>7. k = <<p.agent, p.repository>> /\ WindowHolds(p)
      BY <1>2, <2>1 DEF LiveInv, PendingHolds
    <2>8. WindowHolds(s)
      BY <2>6, <2>7 DEF WindowHolds, Seen, SinceArming, RuntimeMatches, FilesMatch, Alike
    <2>9. s \in State
      BY <2>3, <2>5 DEF LiveTyped, HasRead, Opened, Evaluating, Confirming, Polling, Rereading, Reading, Exited
    <2>10. WindowHolds(s)'
      BY <2>8, <2>9, WindowStays
    <2>11. WindowHolds(state[v])'
      BY <2>5, <2>10 DEF WindowHolds, Seen, SinceArming, RuntimeMatches, FilesMatch, Alike, Was
    <2>12. KeyOf(v)' = <<s.agent, s.repository>>
      BY <1>1, <2>3, <2>6, <2>7 DEF KeyOf
    <2>13. first[v] = [fingerprint |-> s.fingerprint, runtime |-> s.runtime]
      <3>1. first[v] \in Configuration
        BY DEF ReadPending, LiveTyped, HasRead, Opened
      <3>2. QED
        BY <2>1, <2>6, <3>1 DEF Configuration
    <2>14. QED
      BY <2>3, <2>5, <2>11, <2>12, <2>13 DEF VerifierHolds, FirstReading, Evaluation, Confirmation, Opened, Evaluating, Confirming, Polling, Rereading, Reading, Exited
  <1>5. QED
    BY <1>3, <1>4

\* The rows that Evaluate accepts are evidence.
LEMMA RoundTripWitnessed ==
    ASSUME LiveTyped, NEW r, NEW s, NEW a, NEW b, NEW c, <<a, b, c>> \in RoundTrips(r),
           s.session = r.session, s.watermark = r.watermark, s.agent = r.agent,
           s.started = r.started, s.repository = r.repository, s.evidence = <<a, b, c>>
    PROVE  Witnessed(s)
  <1>1. /\ a \in Observed(r) /\ b \in Observed(r) /\ c \in Observed(r)
        /\ a \in Of("session_start", r) /\ b \in Keyed("pre", r) /\ c \in Keyed("post", r)
        /\ SameCall(b, c)
    BY DEF RoundTrips, IsLastOf
  <1>2. /\ EventOf[rows[a]].phase = "session_start" /\ EventOf[rows[b]].phase = "pre"
        /\ EventOf[rows[c]].phase = "post"
    BY <1>1 DEF Of, Keyed
  <1>3. ASSUME NEW i \in Observed(r)
        PROVE  /\ i \in DOMAIN rows /\ i > r.watermark
               /\ EventOf[rows[i]].session = r.session /\ EventOf[rows[i]].agent = r.agent
               /\ RootOf[EventOf[rows[i]].directory] = r.repository
               /\ captured[rows[i]] >= r.started
    BY DEF Observed, RowsOf
  <1>4. PICK e : e = <<a, b, c>>
    OBVIOUS
  <1>5. Len(e) = 3 /\ e[1] = a /\ e[2] = b /\ e[3] = c /\ s.evidence = e
    BY <1>4
  <1>6. \A n \in 1..3 : e[n] \in Observed(r)
    BY <1>1, <1>5
  <1>7. \A x, y : x >= y => y <= x
    OBVIOUS
  <1>8. QED
    BY <1>1, <1>2, <1>3, <1>5, <1>6, <1>7 DEF Witnessed

\* Only a round trip that Evaluate has found in the window is confirmed.
LEMMA EvaluateHolds ==
    ASSUME LiveTyped, LiveTyped', LiveInv, Onward, NEW v \in Verifiers, Evaluate(v)
    PROVE  VerifierHolds(v)'
  <1>1. pc[v] = "records" /\ pc[v] \in Evaluating
    BY DEF Evaluate, Opened, Evaluating, Confirming, Polling, Rereading, Reading, Exited
  <1>2. PICK r \in State :
          r = state[v] /\ WindowHolds(r) /\ KeyOf(v) = <<r.agent, r.repository>>
            /\ first[v] = [fingerprint |-> r.fingerprint, runtime |-> r.runtime]
    BY <1>1, Evaluated
  <1>3. PICK g : g = EvaluatedStage(v, r)
    OBVIOUS
  <1>4. stage'[v] = g
    BY <1>2, <1>3 DEF Evaluate, LiveTyped, TypeOK
  <1>5. /\ request' = request /\ first' = first /\ rows' = rows /\ captured' = captured
    BY DEF Evaluate, configVars, captureVars, metadataVars, pollVars, localVars
  <1>6. CASE g # "tool_round_trip"
    <2>1. pc'[v] = "evaluated" /\ state' = state
      BY <1>4, <1>6 DEF Evaluate, Goto, LiveTyped, TypeOK
    <2>2. Evaluation(v)'
      BY <1>1, <1>5, <2>1, EvaluationStays DEF Evaluation, Opened, Evaluating, Confirming, Polling, Rereading, Reading, Exited
    <2>3. QED
      BY <2>1, <2>2 DEF VerifierHolds, FirstReading, Confirmation
  <1>7. CASE g = "tool_round_trip"
    <2>1. PICK t \in RoundTrips(r) :
            state' = [state EXCEPT ![v] = [r EXCEPT !.evidence = t]] /\ Goto(v, "revalidate")
      BY <1>2, <1>4, <1>7 DEF Evaluate
    <2>2. PICK a, b, c : t = <<a, b, c>>
      BY DEF RoundTrips
    <2>3. PICK s : s = [r EXCEPT !.evidence = <<a, b, c>>]
      OBVIOUS
    <2>4. state'[v] = s
      BY <2>1, <2>2, <2>3 DEF LiveTyped, TypeOK
    <2>5. pc'[v] = "revalidate"
      BY <2>1 DEF Goto, LiveTyped, TypeOK
    <2>6. /\ s.session = r.session /\ s.watermark = r.watermark /\ s.agent = r.agent
          /\ s.started = r.started /\ s.repository = r.repository
          /\ s.fingerprint = r.fingerprint /\ s.runtime = r.runtime /\ s.evidence = <<a, b, c>>
      BY <2>3 DEF State
    <2>7. s \in State
      BY <2>4, <2>5 DEF LiveTyped, HasRead, Opened, Evaluating, Confirming, Polling, Rereading, Reading, Exited
    <2>8. Witnessed(s)
      BY <2>1, <2>2, <2>6, RoundTripWitnessed
    <2>9. ~old[v]
      BY <1>3, <1>7 DEF EvaluatedStage
    <2>10. Fresh(r) /\ r.watermark <= Len(rows)
      BY <1>1, <1>2, <2>9 DEF LiveInv, Evaluation, WindowHolds
    <2>11. Fresh(s)
      BY <2>6, <2>10 DEF Fresh
    <2>12. WindowHolds(s)
      BY <1>2, <2>6 DEF WindowHolds, Seen, SinceArming, RuntimeMatches, FilesMatch, Alike
    <2>13. WindowHolds(s)' /\ Witnessed(s)' /\ Fresh(s)'
      BY <2>6, <2>7, <2>8, <2>10, <2>11, <2>12, WindowStays, WitnessedStays, FreshStays
    <2>14. WindowHolds(state[v])'
      BY <2>4, <2>13 DEF WindowHolds, Seen, SinceArming, RuntimeMatches, FilesMatch, Alike, Was
    <2>15. Fresh(state[v])'
      BY <2>4, <2>13 DEF Fresh, RowsOf
    <2>16. Witnessed(state[v])'
      BY <2>4, <2>13 DEF Witnessed, SameCall
    <2>17. KeyOf(v)' = <<s.agent, s.repository>>
            /\ first'[v] = [fingerprint |-> s.fingerprint, runtime |-> s.runtime]
      BY <1>2, <1>5, <2>6 DEF KeyOf
    <2>18. Evaluation(v)'
      BY <2>4, <2>5, <2>14, <2>15, <2>16, <2>17 DEF Evaluation
    <2>19. QED
      BY <2>5, <2>18 DEF VerifierHolds, FirstReading, Confirmation
  <1>8. QED
    BY <1>6, <1>7

\* Evidence captured under one configuration, read alike before and after.
LEMMA UnderAlike ==
    ASSUME NEW u, NEW f \in Fingerprint, NEW n, Shaped(u),
           u.runtime = n, u.fingerprint[1] = f[1],
           DOMAIN u.fingerprint[2] = DOMAIN f[2],
           \A p \in DOMAIN f[2] : u.fingerprint[2][p] = f[2][p]
    PROVE  u = [fingerprint |-> f, runtime |-> n]
  <1>1. f = <<f[1], f[2]>> /\ f[2] = [p \in DOMAIN f[2] |-> f[2][p]]
    BY DEF Fingerprint
  <1>2. PICK G : G = u.fingerprint[2]
    OBVIOUS
  <1>3. PICK F : F = f[2]
    OBVIOUS
  <1>4. G = [p \in DOMAIN G |-> G[p]] /\ F = [p \in DOMAIN F |-> F[p]]
    BY <1>1, <1>2, <1>3 DEF Shaped
  <1>5. G = F
    BY <1>2, <1>3, <1>4
  <1>6. QED
    BY <1>1, <1>2, <1>3, <1>5 DEF Shaped

\* The second fingerprint is the first: the events were captured under it.
LEMMA ConfirmHolds ==
    ASSUME LiveTyped, LiveTyped', LiveInv, Onward, NEW v \in Verifiers, Confirm(v)
    PROVE  VerifierHolds(v)'
  <1>1. CASE ~(Configured(settings[AgentOf(v)]) /\ Found(v) = first[v])
    <2>1. pc'[v] \in Exited
      BY <1>1 DEF Confirm, Goto, Exited, LiveTyped, TypeOK
    <2>2. QED
      BY <2>1, NothingHeld
  <1>2. CASE Configured(settings[AgentOf(v)]) /\ Found(v) = first[v]
    <2>1. pc[v] = "recommands" /\ pc[v] \in Evaluating /\ pc[v] \in Confirming
      BY DEF Confirm, Opened, Evaluating, Confirming, Polling, Rereading, Reading, Exited
    <2>2. PICK r \in State :
            /\ r = state[v] /\ WindowHolds(r) /\ r.agent = AgentOf(v)
            /\ KeyOf(v) = <<r.agent, r.repository>>
            /\ first[v] = [fingerprint |-> r.fingerprint, runtime |-> r.runtime]
      BY <2>1, Evaluated
    <2>3. Witnessed(r) /\ Fresh(r) /\ r.watermark <= Len(rows)
      BY <2>1, <2>2 DEF LiveInv, Evaluation, WindowHolds
    <2>4. PICK n \in Nat : n = clock'
      BY DEF LiveTyped, TypeOK
    <2>5. PICK s : s = [r EXCEPT !.verifiedAt = n]
      OBVIOUS
    <2>6. state'[v] = s /\ pc'[v] = "confirmed"
      BY <1>2, <2>2, <2>4, <2>5 DEF Confirm, Goto, LiveTyped, TypeOK
    <2>7. /\ s.session = r.session /\ s.watermark = r.watermark /\ s.agent = r.agent
          /\ s.started = r.started /\ s.repository = r.repository
          /\ s.fingerprint = r.fingerprint /\ s.runtime = r.runtime /\ s.evidence = r.evidence
          /\ s.verifiedAt = n
      BY <2>5 DEF State
    <2>8. s \in State
      BY <2>6 DEF LiveTyped, HasRead, Opened, Evaluating, Confirming, Polling, Rereading, Reading, Exited
    <2>9. /\ request' = request /\ first' = first /\ rows' = rows /\ captured' = captured
          /\ under' = under /\ reinstated' = reinstated /\ clock' = clock + 1 /\ clock \in Nat
      BY <1>2 DEF Confirm, configVars, captureVars, metadataVars, pollVars, localVars, LiveTyped, TypeOK
    <2>10. Witnessed(s) /\ Fresh(s) /\ s.watermark <= Len(rows)
      BY <2>3, <2>7 DEF Witnessed, Fresh
    <2>11. WindowHolds(s)
      BY <2>2, <2>7 DEF WindowHolds, Seen, SinceArming, RuntimeMatches, FilesMatch, Alike
    <2>12. WindowHolds(s)' /\ Witnessed(s)' /\ Fresh(s)'
      BY <2>8, <2>10, <2>11, WindowStays, WitnessedStays, FreshStays
    <2>13. \A i \in 1..3 : s.evidence[i] \in DOMAIN rows /\ rows[s.evidence[i]] \in Captures
      <3>1. \A i \in 1..3 : s.evidence[i] \in DOMAIN rows
        BY <2>10 DEF Witnessed
      <3>2. rows \in Seq(Captures)
        BY DEF LiveTyped, TypeOK
      <3>3. QED
        BY <3>1, <3>2
    <2>14. Before(s, n)
      <3>1. \A c \in Captures : captured[c] \in Nat /\ captured[c] <= clock
        BY DEF LiveInv, EventsHold, LiveTyped, TypeOK
      <3>2. \A c \in Captures : captured[c] < n
        BY <2>4, <2>9, <3>1
      <3>3. QED
        BY <2>13, <3>2 DEF Before
    <2>15. s.started < n
      <3>1. s.started \in Nat /\ s.started <= clock
        BY <2>8, <2>11 DEF State, WindowHolds
      <3>2. QED
        BY <2>4, <2>9, <3>1
    <2>16. ASSUME ~reinstated, NEW i \in 1..3
           PROVE  under[rows[s.evidence[i]]] = [fingerprint |-> s.fingerprint, runtime |-> s.runtime]
      <3>1. PICK c \in Captures : c = rows[s.evidence[i]]
        BY <2>13
      <3>2. PICK f \in Fingerprint : f = s.fingerprint
        BY <2>8 DEF State
      <3>3. PICK G : G = Digests(settings[AgentOf(v)])
        OBVIOUS
      <3>4. Found(v) = [fingerprint |-> <<reading[v].content, G>>, runtime |-> reading[v].runtime]
        BY <3>3 DEF Found
      <3>5. reading[v].content = f[1] /\ G = f[2] /\ reading[v].runtime = s.runtime
        BY <1>2, <2>2, <2>7, <3>2, <3>4
      <3>6. under[c].runtime = s.runtime
        BY <2>1, <2>2, <2>7, <2>16, <3>1, <3>5 DEF LiveInv, Confirmation
      <3>7. Alike(c, r)
        BY <2>1, <2>2, <2>7, <2>16, <3>1, <3>2, <3>5 DEF LiveInv, Confirmation
      <3>8. /\ under[c].fingerprint[1] = f[1] /\ DOMAIN under[c].fingerprint[2] = DOMAIN f[2]
            /\ \A p \in DOMAIN f[2] :
                  under[c].fingerprint[2][p] = f[2][p] \/ Was(<<"executable", p>>, f[2][p])
        BY <2>7, <3>2, <3>7 DEF Alike
      <3>9. \A p \in DOMAIN f[2] : f[2][p] = executable[p] /\ p \in Executables
        BY <3>3, <3>5 DEF Digests, Fingerprint
      <3>10. \A p \in DOMAIN f[2] : ~Was(<<"executable", p>>, f[2][p])
        BY <2>16, <3>9 DEF LiveInv, NoneFormer
      <3>11. Shaped(under[c])
        <4>1. captured[c] # 0
          BY <2>13, <3>1 DEF LiveInv, EventsHold
        <4>2. QED
          BY <4>1 DEF LiveInv, EventsHold
      <3>12. PICK u : u = under[c]
        OBVIOUS
      <3>13. u = [fingerprint |-> f, runtime |-> s.runtime]
        BY <3>6, <3>8, <3>10, <3>11, <3>12, UnderAlike
      <3>14. QED
        BY <3>1, <3>2, <3>12, <3>13
    <2>17. Before(state[v], state[v].verifiedAt)'
      BY <2>6, <2>7, <2>9, <2>14 DEF Before
    <2>18. reinstated' \/ Under(state[v])'
      BY <2>6, <2>9, <2>16 DEF Under
    <2>19. Confirmation(v)'
      BY <2>6, <2>7, <2>15, <2>17, <2>18 DEF Confirmation
    <2>20. WindowHolds(state[v])'
      BY <2>6, <2>12 DEF WindowHolds, Seen, SinceArming, RuntimeMatches, FilesMatch, Alike, Was
    <2>21. Fresh(state[v])'
      BY <2>6, <2>12 DEF Fresh, RowsOf
    <2>22. Witnessed(state[v])'
      BY <2>6, <2>12 DEF Witnessed, SameCall
    <2>23. KeyOf(v)' = <<s.agent, s.repository>>
            /\ first'[v] = [fingerprint |-> s.fingerprint, runtime |-> s.runtime]
      BY <2>2, <2>7, <2>9 DEF KeyOf
    <2>24. Evaluation(v)'
      BY <2>6, <2>20, <2>21, <2>22, <2>23 DEF Evaluation
    <2>25. QED
      BY <2>6, <2>19, <2>24 DEF VerifierHolds, FirstReading
  <1>3. QED
    BY <1>1, <1>2

\* What was confirmed is recorded.
LEMMA WriteVerifiedHolds ==
    ASSUME LiveTyped, LiveTyped', LiveInv, Onward, NEW v \in Verifiers, WriteVerified(v)
    PROVE  VerifierHolds(v)' /\ VerifiedHolds(KeyOf(v))' /\ KeyOf(v) \in Keys
  <1>1. pc[v] = "confirmed" /\ pc[v] \in Evaluating /\ pc[v] \in Confirming
    BY DEF WriteVerified, Opened, Evaluating, Confirming, Polling, Rereading, Reading, Exited
  <1>2. PICK s \in State :
          s = state[v] /\ KeyOf(v) = <<s.agent, s.repository>> /\ KeyOf(v) \in Keys
    BY <1>1, Evaluated
  <1>3. PICK k \in Keys : k = KeyOf(v)
    BY <1>2
  <1>4. /\ s.started < s.verifiedAt /\ Before(s, s.verifiedAt) /\ Witnessed(s) /\ Fresh(s)
        /\ reinstated \/ Under(s)
    BY <1>1, <1>2 DEF LiveInv, Evaluation, Confirmation
  <1>5. Sound(k, s)
    BY <1>2, <1>3, <1>4, SoundIs
  <1>6. verified'[k] = s
    BY <1>2, <1>3 DEF WriteVerified, LiveTyped, TypeOK
  <1>7. Sound(k, s)' /\ (reinstated' \/ Under(s)')
    BY <1>4, <1>5, SoundStays, UnderStays DEF Onward
  <1>8. KeyOf(v)' = k
    BY <1>3 DEF WriteVerified, KeyOf, localVars
  <1>9. VerifiedHolds(KeyOf(v))'
    BY <1>6, <1>7, <1>8 DEF VerifiedHolds, Sound, Under, RowsOf, SameCall
  <1>10. pc'[v] \in Exited
    BY DEF WriteVerified, Goto, Exited, LiveTyped, TypeOK
  <1>11. QED
    BY <1>2, <1>9, <1>10, NothingHeld

-----------------------------------------------------------------------------
\* Every step

\* A step of one verifier leaves the others' locals alone.
LEMMA OtherVerifiers ==
    ASSUME LiveTyped, NEW v \in Verifiers, NEW u \in Verifiers, u # v,
           \/ \E a \in Agents, d \in Directories, c \in Clients, s \in Asked[v], w \in Waits :
                Begin(v, a, d, c, s, w)
           \/ Step(v) \/ Cancel(v)
    PROVE  /\ pc'[u] = pc[u] /\ request'[u] = request[u] /\ reading'[u] = reading[u]
           /\ first'[u] = first[u] /\ watermark'[u] = watermark[u] /\ state'[u] = state[u]
           /\ old'[u] = old[u]
  <1>1. pc'[u] = pc[u] /\ request'[u] = request[u]
    BY DEF Begin, Step, Goto, LiveTyped, TypeOK, localVars, pollVars,
       Validate, ReadFiles, ReadCommands, LiveWatermark, Arm, ReadPending, SetDeadline,
       CheckWindow, QueryOld, QueryFailures, Evaluate, Confirm, WriteVerified, Stop, Wait, Wake, Cancel
  <1>2. reading'[u] = reading[u] /\ first'[u] = first[u]
    BY DEF Begin, Step, LiveTyped, TypeOK, localVars, pollVars,
       Validate, ReadFiles, ReadCommands, LiveWatermark, Arm, ReadPending, SetDeadline,
       CheckWindow, QueryOld, QueryFailures, Evaluate, Confirm, WriteVerified, Stop, Wait, Wake, Cancel
  <1>3. watermark'[u] = watermark[u] /\ state'[u] = state[u]
    BY DEF Begin, Step, LiveTyped, TypeOK, localVars, pollVars,
       Validate, ReadFiles, ReadCommands, LiveWatermark, Arm, ReadPending, SetDeadline,
       CheckWindow, QueryOld, QueryFailures, Evaluate, Confirm, WriteVerified, Stop, Wait, Wake, Cancel
  <1>4. old'[u] = old[u]
    BY DEF Begin, Step, LiveTyped, TypeOK, localVars, pollVars,
       Validate, ReadFiles, ReadCommands, LiveWatermark, Arm, ReadPending, SetDeadline,
       CheckWindow, QueryOld, QueryFailures, Evaluate, Confirm, WriteVerified, Stop, Wait, Wake, Cancel
  <1>5. QED
    BY <1>1, <1>2, <1>3, <1>4

\* Its own step keeps what is known of it.
LEMMA VerifierStep ==
    ASSUME LiveTyped, LiveTyped', LiveInv, Onward, NEW v \in Verifiers,
           \/ \E a \in Agents, d \in Directories, c \in Clients, s \in Asked[v], w \in Waits :
                Begin(v, a, d, c, s, w)
           \/ Step(v) \/ Cancel(v)
    PROVE  VerifierHolds(v)'
  <1>1. ASSUME NEW a \in Agents, NEW d \in Directories, NEW c \in Clients, NEW s \in Asked[v],
               NEW w \in Waits, Begin(v, a, d, c, s, w)
        PROVE  VerifierHolds(v)'
    <2>1. pc'[v] \in {"idle", "validate"} \union Exited
      BY <1>1 DEF Begin, Goto, Exited, LiveTyped, TypeOK
    <2>2. QED
      BY <2>1, NothingHeld
  <1>2. QED
    BY <1>1, ValidateHolds, ReadFilesHolds, ReadCommandsHolds, LiveWatermarkHolds, ArmHolds,
       ReadPendingHolds, WaitingHolds, QueryOldHolds, EvaluateHolds, ConfirmHolds, WriteVerifiedHolds
       DEF Step

\* Every step preserves the invariant.
LEMMA LiveStep == LiveTyped /\ LiveTyped' /\ LiveInv /\ [Next]_vars => LiveInv'
  <1> SUFFICES ASSUME LiveTyped, LiveTyped', LiveInv, [Next]_vars PROVE LiveInv'
    OBVIOUS
  <1>1. Onward
    BY StepOnward
  <1>2. EventsHold' /\ (reinstated \/ NoneFormer)'
    BY <1>1, EventsStay, NoneFormerStays
  <1>3. CASE \E v \in Verifiers :
               \/ \E a \in Agents, d \in Directories, c \in Clients, s \in Asked[v], w \in Waits :
                    Begin(v, a, d, c, s, w)
               \/ Step(v) \/ Cancel(v)
    <2>1. PICK v \in Verifiers :
               \/ \E a \in Agents, d \in Directories, c \in Clients, s \in Asked[v], w \in Waits :
                    Begin(v, a, d, c, s, w)
               \/ Step(v) \/ Cancel(v)
      BY <1>3
    <2>2. ASSUME NEW u \in Verifiers
          PROVE  VerifierHolds(u)'
      <3>1. CASE u = v
        BY <1>1, <2>1, <3>1, VerifierStep
      <3>2. CASE u # v
        BY <1>1, <2>1, <3>2, OtherVerifiers, Untouched
      <3>3. QED
        BY <3>1, <3>2
    <2>3. ASSUME NEW k \in Keys
          PROVE  PendingHolds(k)'
      <3>1. CASE pending'[k] = pending[k]
        BY <1>1, <3>1, KeysStay
      <3>2. CASE pending'[k] # pending[k]
        <4>1. Arm(v)
          BY <2>1, <3>2 DEF Begin, Step, metadataVars,
             Validate, ReadFiles, ReadCommands, LiveWatermark, Arm, ReadPending, SetDeadline,
       CheckWindow, QueryOld, QueryFailures, Evaluate, Confirm, WriteVerified, Stop, Wait, Wake, Cancel
        <4>2. KeyOf(v) = k /\ KeyOf(v)' = KeyOf(v)
          BY <3>2, <4>1 DEF Arm, LiveTyped, TypeOK, KeyOf, localVars
        <4>3. PendingHolds(KeyOf(v))'
          BY <1>1, <4>1, ArmHolds
        <4>4. QED
          BY <4>2, <4>3 DEF PendingHolds, WindowHolds, Seen, SinceArming, RuntimeMatches, FilesMatch,
             Alike, Was
      <3>3. QED
        BY <3>1, <3>2
    <2>4. ASSUME NEW k \in Keys
          PROVE  VerifiedHolds(k)'
      <3>1. CASE verified'[k] = verified[k]
        BY <1>1, <3>1, KeysStay
      <3>2. CASE verified'[k] # verified[k]
        <4>1. WriteVerified(v)
          BY <2>1, <3>2 DEF Begin, Step, metadataVars,
             Validate, ReadFiles, ReadCommands, LiveWatermark, Arm, ReadPending, SetDeadline,
       CheckWindow, QueryOld, QueryFailures, Evaluate, Confirm, WriteVerified, Stop, Wait, Wake, Cancel
        <4>2. KeyOf(v) = k /\ KeyOf(v)' = KeyOf(v)
          BY <3>2, <4>1 DEF WriteVerified, LiveTyped, TypeOK, KeyOf, localVars
        <4>3. VerifiedHolds(KeyOf(v))'
          BY <1>1, <4>1, WriteVerifiedHolds
        <4>4. QED
          BY <4>2, <4>3 DEF VerifiedHolds, Sound, Under, RowsOf, SameCall
      <3>3. QED
        BY <3>1, <3>2
    <2>5. QED
      BY <1>2, <2>2, <2>3, <2>4 DEF LiveInv, VerifierHolds
  <1>4. CASE UNCHANGED <<metadataVars, pc, localVars>>
    <2>1. ASSUME NEW k \in Keys
          PROVE  PendingHolds(k)' /\ VerifiedHolds(k)'
      BY <1>1, <1>4, KeysStay DEF metadataVars
    <2>2. ASSUME NEW u \in Verifiers
          PROVE  VerifierHolds(u)'
      BY <1>1, <1>4, Untouched DEF localVars, pollVars
    <2>3. QED
      BY <1>2, <2>1, <2>2 DEF LiveInv, VerifierHolds
  <1>5. ASSUME \E c \in Captures : Capture(c) \/ Store(c) \/ Reject(c) \/ Lose(c)
        PROVE  UNCHANGED <<metadataVars, pc, localVars>>
    BY <1>5 DEF Capture, Store, Reject, Lose
  <1>6. ASSUME \/ \E a \in Agents : \E c \in Settings : EditSettings(a, c)
               \/ \E p \in Executables : \E b \in Builds \union {NoBuild} : ReplaceExecutable(p, b)
               \/ \E a \in Agents : \E n \in Runtimes : UpgradeRuntime(a, n)
               \/ \E p \in Policies : ChangeScope(p)
               \/ Lapse
        PROVE  UNCHANGED <<metadataVars, pc, localVars>>
    BY <1>6 DEF EditSettings, ReplaceExecutable, UpgradeRuntime, ChangeScope, Lapse
  <1>7. ASSUME UNCHANGED vars
        PROVE  UNCHANGED <<metadataVars, pc, localVars>>
    BY <1>7 DEF vars
  <1>8. QED
    BY <1>3, <1>4, <1>5, <1>6, <1>7 DEF Next

\* It holds where nothing is armed, captured or replaced.
LEMMA InitLive == Init => LiveInv
  <1> SUFFICES ASSUME Init PROVE LiveInv
    OBVIOUS
  <1>1. EventsHold
    BY DEF Init, Each, EventsHold
  <1>2. NoneFormer
    BY DEF Init, NoneFormer, Was
  <1>3. \A k \in Keys : PendingHolds(k) /\ VerifiedHolds(k)
    BY DEF Init, Each, PendingHolds, VerifiedHolds
  <1>4. \A v \in Verifiers : FirstReading(v) /\ Evaluation(v) /\ Confirmation(v)
    BY DEF Init, Each, FirstReading, Evaluation, Confirmation, Opened, Evaluating, Confirming, Polling, Rereading, Reading, Exited
  <1>5. QED
    BY <1>1, <1>2, <1>3, <1>4 DEF LiveInv

\* And so it always holds.
LEMMA LiveInvariant == Spec => [](LiveTyped /\ LiveInv)
  <1>1. Init => LiveTyped /\ LiveInv
    BY InitTyped, InitLive
  <1>2. LiveTyped /\ LiveInv /\ [Next]_vars => (LiveTyped /\ LiveInv)'
    BY StepTyped, LiveStep
  <1>3. QED
    BY <1>1, <1>2, PTL DEF Spec

\* A verification is recorded only for a stored session_start, request and result
\* of that session, agent and repository, the two of one call, all captured between
\* the arming and the verification, of a session that had nothing stored before.
THEOREM VerificationIsEvidenced == Spec => []VerifiedIsEvidenced
  <1>1. LiveTyped /\ LiveInv => VerifiedIsEvidenced
    BY DEF LiveInv, VerifiedHolds, VerifiedIsEvidenced
  <1>2. QED
    BY <1>1, LiveInvariant, PTL

\* Without a reinstated value, the recorded fingerprint and runtime are the ones in
\* force when each of the three events was captured, although the verifier read them
\* in pieces, minutes before and after.
THEOREM FingerprintIsEvidence == Spec => []EvidenceUnderFingerprint
  <1>1. LiveTyped /\ LiveInv => EvidenceUnderFingerprint
    BY DEF LiveInv, VerifiedHolds, Under, EvidenceUnderFingerprint
  <1>2. QED
    BY <1>1, LiveInvariant, PTL

\* Status calls a verification current only in a configuration its events were
\* captured under.
THEOREM LabelIsEarned == Spec => []CurrentLabelIsEarned
  <1>1. EvidenceUnderFingerprint => CurrentLabelIsEarned
    <2> SUFFICES ASSUME EvidenceUnderFingerprint, ~reinstated, NEW k \in Keys, NEW n \in Versions,
                        Label(k[1], k[2], n) = "last_verified", NEW i \in 1..3
                 PROVE  under[rows[verified[k].evidence[i]]] = InForce(k[1])
      BY DEF CurrentLabelIsEarned
    <2>1. k = <<k[1], k[2]>>
      BY DEF Keys
    <2>2. PICK s : s = verified[k]
      OBVIOUS
    <2>3. s # NoState /\ InForce(k[1]) = [fingerprint |-> s.fingerprint, runtime |-> s.runtime]
      BY <2>1, <2>2 DEF Label
    <2>4. QED
      BY <2>2, <2>3 DEF EvidenceUnderFingerprint
  <1>2. QED
    BY <1>1, FingerprintIsEvidence, PTL

================================================================================
