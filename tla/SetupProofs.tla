------------------------------- MODULE SetupProofs -------------------------------
(***************************************************************************)
(* What setup does to hooks and to the configuration file, for any         *)
(* repositories, inits, hooks and failures.                                *)
(***************************************************************************)
EXTENDS Setup, TLAPS

\* The user's hook has been moved aside, and the receipt hook is not there yet.
Moved(c) == pc[c] = "install" /\ raw[c] \in Versions

\* What an init that works alone on its repository knows of the hook and its backup.
Place(c) ==
    /\ pc[c] \in {"check", "move"} => hook[Of(c)] = raw[c]
    /\ pc[c] = "move" => backup[Of(c)] = NoFile
    /\ pc[c] = "install" => hook[Of(c)] \notin Versions
    /\ Moved(c) => hook[Of(c)] = NoFile /\ backup[Of(c)] = raw[c]
    /\ pc[c] \in {"stat", "restore", "remove"} => hook[Of(c)] = Managed
    /\ pc[c] = "restore" => backup[Of(c)] # NoFile
    /\ pc[c] = "remove" => backup[Of(c)] = NoFile

\* How the mode that it has read or was given has led it there.
Chosen(c) ==
    /\ pc[c] \in {"check", "move", "install"} => cfg[c][Of(c)].mode # "explicit"
    /\ pc[c] \in {"stat", "restore", "remove"} => cfg[c][Of(c)].mode = "explicit"
    /\ pc[c] # "idle" => cfg[c][Of(c)].mode \in {"explicit", "automatic"}
    /\ pc[c] \in {"save", "write"} =>
         (cfg[c][Of(c)].mode = "automatic" <=> hook[Of(c)] = Managed)

Sole(r) ==
    \A c \in Commands, d \in Commands :
        pc[c] # "idle" /\ pc[d] # "idle" /\ Of(c) = r /\ Of(d) = r => c = d

\* What holds of a repository where nothing has overlapped.
HookSound(r) ==
    /\ written[r] \subseteq {hook[r], backup[r]}
    /\ backup[r] # Managed
    /\ r \notin hurt => RunsUsers(r) \/ \E c \in Commands : Of(c) = r /\ Moved(c)
    /\ Sole(r)
    /\ \A c \in Commands : Of(c) = r => Place(c) /\ Chosen(c)

HookInv == TypeOK /\ \A r \in Repositories \ overlapped : HookSound(r)

\* A configuration says automatic where the receipt hook is, but where the user has
\* replaced it.
Fits(configuration, r) ==
    hook[r] \notin Versions =>
        (configuration[r].mode = "automatic" <=> hook[r] = Managed)

\* What holds of the configuration file while no two inits have overlapped.
FileSound ==
    /\ \A c \in Commands, d \in Commands : pc[c] # "idle" /\ pc[d] # "idle" => c = d
    /\ \A c \in Commands : pc[c] # "idle" => (pc[c] = "write" <=> config = Torn)

\* Of an init, its copy of the file.
CopySound(c) ==
    /\ pc[c] \notin {"idle", "write"} =>
         \A r \in Repositories \ {Of(c)} : cfg[c][r] = config[r]
    /\ pc[c] # "idle" => \A r \in keyed : cfg[c][r].key
    /\ pc[c] # "idle" /\ Wanted[c].key => cfg[c][Of(c)].key
    /\ pc[c] = "write" =>
         \A r \in Repositories \ (overlapped \union hurt \union {Of(c)}) : Fits(cfg[c], r)

FileInv ==
    ~raced =>
        /\ FileSound /\ \A c \in Commands : CopySound(c)
        /\ config # Torn =>
             /\ \A r \in keyed : config[r].key
             /\ \A r \in Repositories \ (overlapped \union hurt) :
                  Fits(config, r) \/ \E c \in Commands :
                                       Of(c) = r /\ (Moved(c) \/ pc[c] = "save")

SetupInv == HookInv /\ FileInv

-----------------------------------------------------------------------------
\* Frames

LEMMA OfType ==
    ASSUME NEW c \in Commands
    PROVE  Of(c) \in Repositories /\ Wanted[c].mode \in Modes /\ Wanted[c].key \in BOOLEAN
  BY SetupAssumption DEF Of, Flags

\* A step of c changes only its locals and its repository.
Own(c) ==
    /\ \A d \in Commands \ {c} : pc'[d] = pc[d] /\ cfg'[d] = cfg[d] /\ raw'[d] = raw[d]
    /\ \A r \in Repositories \ {Of(c)} :
         hook'[r] = hook[r] /\ backup'[r] = backup[r] /\ (r \in hurt' <=> r \in hurt)
    /\ written' = written /\ overlapped \subseteq overlapped'

LEMMA OtherRepository ==
    ASSUME NEW c \in Commands, Own(c), NEW r \in Repositories, r # Of(c), HookSound(r)
    PROVE  HookSound(r)'
  <1>1. \A d \in Commands : Of(d) = r => d # c
    OBVIOUS
  <1>2. \A d \in Commands : Of(d) = r => (Place(d)' <=> Place(d)) /\ (Chosen(d)' <=> Chosen(d))
    BY <1>1 DEF Own, Place, Chosen, Moved
  <1>3. Sole(r)'
    BY <1>1 DEF Own, HookSound, Sole
  <1>4. r \notin hurt' => RunsUsers(r)' \/ \E d \in Commands : Of(d) = r /\ Moved(d)'
    BY <1>1 DEF Own, HookSound, RunsUsers, Runs, Moved
  <1>5. QED
    BY <1>2, <1>3, <1>4 DEF Own, HookSound

\* What remains to be shown of a step of c.
LEMMA HookStep ==
    ASSUME HookInv, NEW c \in Commands, Own(c), TypeOK',
           Of(c) \notin overlapped' => HookSound(Of(c))'
    PROVE  HookInv'
  <1>1. ASSUME NEW r \in Repositories \ overlapped', r # Of(c)
        PROVE  HookSound(r)'
    BY <1>1, OtherRepository DEF HookInv, Own
  <1>2. QED
    BY <1>1 DEF HookInv

\* In its own repository c is alone: other inits of it have yet to start.
LEMMA SoleStep ==
    ASSUME HookInv, NEW c \in Commands, Own(c), Of(c) \notin overlapped,
           pc[c] # "idle" \/ \A d \in Commands : Of(d) = Of(c) => pc[d] = "idle",
           written[Of(c)] \subseteq {hook'[Of(c)], backup'[Of(c)]},
           backup'[Of(c)] # Managed, Place(c)', Chosen(c)',
           Of(c) \notin hurt' => RunsUsers(Of(c))' \/ Moved(c)'
    PROVE  HookSound(Of(c))'
  <1>1. HookSound(Of(c))
    BY OfType DEF HookInv
  <1>2. \A d \in Commands \ {c} : Of(d) = Of(c) => pc'[d] = "idle"
    BY <1>1 DEF HookSound, Sole, Own
  <1>3. \A d \in Commands \ {c} : Of(d) = Of(c) => Place(d)' /\ Chosen(d)'
    BY <1>2 DEF Place, Chosen, Moved
  <1>4. Sole(Of(c))'
    BY <1>2 DEF Sole
  <1>5. QED
    BY <1>3, <1>4 DEF HookSound, Own

-----------------------------------------------------------------------------
\* Types

LEMMA FaultCount ==
    ASSUME TypeOK, Fault \/ UNCHANGED faults
    PROVE  faults' \in 0 .. MaxFaults
  <1>1. faults \in 0 .. MaxFaults /\ MaxFaults \in Nat
    BY SetupAssumption DEF TypeOK
  <1>2. QED
    BY <1>1 DEF Fault

LEMMA LocalType == Local \in Config
  BY DEF Local, Config, Integration, Modes

\* What an init makes of the file that it has read: its own entry has a mode, and
\* keeps or gets a key; the others are as they were.
LEMMA ConfiguredEntry ==
    ASSUME NEW c \in Commands, config \in Config
    PROVE  /\ Configured(c) \in Config
           /\ Configured(c)[Of(c)].mode \in {"explicit", "automatic"}
           /\ Configured(c)[Of(c)].key = (config[Of(c)].key \/ Wanted[c].key)
           /\ \A r \in Repositories \ {Of(c)} : Configured(c)[r] = config[r]
  <1>1. Of(c) \in Repositories /\ Wanted[c].mode \in Modes /\ Wanted[c].key \in BOOLEAN
    BY OfType
  <1>2. config[Of(c)] \in Integration
    BY <1>1 DEF Config
  <1>3. ModeFor(c, config[Of(c)]) \in {"explicit", "automatic"}
    BY <1>1, <1>2 DEF ModeFor, Modes, Integration
  <1>4. Configured(c) = [config EXCEPT ![Of(c)] =
                           [mode |-> ModeFor(c, config[Of(c)]),
                            key |-> (config[Of(c)].key \/ Wanted[c].key)]]
    BY DEF Configured
  <1>5. (config[Of(c)].key \/ Wanted[c].key) \in BOOLEAN
    BY <1>1, <1>2 DEF Integration
  <1>6. [mode |-> ModeFor(c, config[Of(c)]),
         key |-> (config[Of(c)].key \/ Wanted[c].key)] \in Integration
    BY <1>3, <1>5 DEF Integration, Modes
  <1>7. QED
    BY <1>1, <1>3, <1>4, <1>6 DEF Config

LEMMA LoadType ==
    ASSUME TypeOK, NEW c \in Commands, Load(c)
    PROVE  TypeOK'
  <1>1. Configured(c) \in Config
    BY ConfiguredEntry DEF TypeOK, Load
  <1>2. overlapped' \subseteq Repositories
    BY OfType DEF TypeOK, Load
  <1>3. raced' \in BOOLEAN
    BY DEF TypeOK, Load
  <1>4. QED
    BY <1>1, <1>2, <1>3 DEF TypeOK, Load, Goto, files

LEMMA HookType ==
    ASSUME TypeOK, NEW c \in Commands,
           \/ ReadHook(c) \/ CheckBackup(c) \/ GiveUp(c) \/ MoveAside(c) \/ Install(c)
           \/ InstallFails(c) \/ StatBackup(c) \/ RestoreHook(c) \/ RemoveHook(c)
    PROVE  TypeOK'
  <1>1. Of(c) \in Repositories /\ Managed \in Hooks /\ NoFile \in Hooks /\ Local \in Config
    BY OfType, LocalType DEF Hooks
  <1>2. CASE ReadHook(c)
    BY <1>1, <1>2 DEF TypeOK, ReadHook, HookOnly, Goto, history, Hooks
  <1>3. CASE CheckBackup(c)
    BY <1>1, <1>3 DEF TypeOK, CheckBackup, HookOnly, Goto, history
  <1>4. CASE GiveUp(c)
    BY <1>1, <1>4 DEF TypeOK, GiveUp, Exit, files, Goto, history
  <1>5. CASE MoveAside(c)
    BY <1>1, <1>5 DEF TypeOK, MoveAside, HookOnly, Goto, history
  <1>6. CASE Install(c)
    BY <1>1, <1>6 DEF TypeOK, Install, HookOnly, Goto, history
  <1>7. CASE InstallFails(c)
    <2>1. faults' \in 0 .. MaxFaults
      BY <1>7, FaultCount DEF InstallFails
    <2>2. hook' \in [Repositories -> Hooks] /\ backup' \in [Repositories -> Hooks]
      BY <1>1, <1>7 DEF TypeOK, InstallFails
    <2>3. QED
      BY <1>1, <1>7, <2>1, <2>2 DEF TypeOK, InstallFails, Exit, Goto, history
  <1>8. CASE StatBackup(c)
    BY <1>1, <1>8 DEF TypeOK, StatBackup, HookOnly, Goto, history
  <1>9. CASE RestoreHook(c)
    BY <1>1, <1>9 DEF TypeOK, RestoreHook, HookOnly, Goto, history
  <1>10. CASE RemoveHook(c)
    BY <1>1, <1>10 DEF TypeOK, RemoveHook, HookOnly, Goto, history
  <1>11. QED
    BY <1>2, <1>3, <1>4, <1>5, <1>6, <1>7, <1>8, <1>9, <1>10

LEMMA SaveType ==
    ASSUME TypeOK, NEW c \in Commands, Truncate(c) \/ WriteConfig(c) \/ Kill(c)
    PROVE  TypeOK'
  <1>1. Of(c) \in Repositories /\ NoFile \in Hooks /\ Local \in Config
    BY OfType, LocalType DEF Hooks
  <1>2. CASE Truncate(c)
    BY <1>2 DEF TypeOK, Truncate, Goto, history
  <1>3. CASE WriteConfig(c)
    BY <1>1, <1>3 DEF TypeOK, WriteConfig, Exit, Goto
  <1>4. CASE Kill(c)
    <2>1. faults' \in 0 .. MaxFaults
      BY <1>4, FaultCount DEF Kill
    <2>2. QED
      BY <1>1, <1>4, <2>1 DEF TypeOK, Kill, Exit, Goto, files
  <1>5. QED
    BY <1>2, <1>3, <1>4

LEMMA UserType ==
    ASSUME TypeOK, NEW r \in Edited, NEW v \in Versions, UserInstalls(r, v)
    PROVE  TypeOK'
  <1>1. r \in Repositories /\ v \in Hooks
    BY SetupAssumption DEF Hooks
  <1>2. overlapped' \subseteq Repositories
    BY <1>1 DEF TypeOK, UserInstalls
  <1>3. QED
    BY <1>1, <1>2 DEF TypeOK, UserInstalls

-----------------------------------------------------------------------------
\* The steps of an init in its repository

\* What an init that is alone in its repository can rely on.
LEMMA BeforeStep ==
    ASSUME HookInv, NEW c \in Commands, pc[c] # "idle", Of(c) \notin overlapped
    PROVE  /\ HookSound(Of(c)) /\ Place(c) /\ Chosen(c) /\ Of(c) \in Repositories
           /\ Of(c) \notin hurt => RunsUsers(Of(c)) \/ Moved(c)
  <1>1. HookSound(Of(c)) /\ Of(c) \in Repositories
    BY OfType DEF HookInv
  <1>2. \A d \in Commands : Of(d) = Of(c) /\ Moved(d) => d = c
    BY <1>1 DEF HookSound, Sole, Moved
  <1>3. QED
    BY <1>1, <1>2 DEF HookSound

\* What it has to leave: the user's hooks, and its own picture of the place.
LeavesSound(c) ==
    /\ Place(c)' /\ Chosen(c)'
    /\ written[Of(c)] \subseteq {hook'[Of(c)], backup'[Of(c)]} /\ backup'[Of(c)] # Managed
    /\ Of(c) \notin hurt' => RunsUsers(Of(c))' \/ Moved(c)'

LEMMA AfterStep ==
    ASSUME HookInv, NEW c \in Commands, Own(c), pc[c] # "idle", UNCHANGED overlapped, TypeOK',
           Of(c) \notin overlapped => LeavesSound(c)
    PROVE  HookInv'
  BY SoleStep, HookStep DEF LeavesSound

LEMMA ReadHookSound ==
    ASSUME HookInv, NEW c \in Commands, ReadHook(c), TypeOK'
    PROVE  HookInv'
  <1>1. Own(c) /\ pc[c] # "idle" /\ UNCHANGED overlapped
    BY DEF HookInv, TypeOK, ReadHook, HookOnly, Goto, history, Own
  <1>2. ASSUME Of(c) \notin overlapped
        PROVE  LeavesSound(c)
    <2>1. Place(c)' /\ Chosen(c)'
      BY <1>1, <1>2, BeforeStep, SetupAssumption
      DEF HookInv, TypeOK, HookSound, Place, Chosen, Moved, ReadHook, HookOnly, Goto,
          history
    <2>2. /\ written[Of(c)] \subseteq {hook'[Of(c)], backup'[Of(c)]}
          /\ backup'[Of(c)] # Managed
      BY <1>1, <1>2, BeforeStep, SetupAssumption
      DEF HookInv, TypeOK, HookSound, Place, Moved, ReadHook, HookOnly, Goto, history
    <2>3. Of(c) \notin hurt' => RunsUsers(Of(c))' \/ Moved(c)'
      BY <1>1, <1>2, <2>2, BeforeStep, SetupAssumption
      DEF HookInv, TypeOK, Place, Chosen, Moved, RunsUsers, Runs, ReadHook, HookOnly,
          Goto, history
    <2>4. QED
      BY <2>1, <2>2, <2>3 DEF LeavesSound
  <1>3. QED
    BY <1>1, <1>2, AfterStep

LEMMA CheckBackupSound ==
    ASSUME HookInv, NEW c \in Commands, CheckBackup(c), TypeOK'
    PROVE  HookInv'
  <1>1. Own(c) /\ pc[c] # "idle" /\ UNCHANGED overlapped
    BY DEF HookInv, TypeOK, CheckBackup, HookOnly, Goto, history, Own
  <1>2. ASSUME Of(c) \notin overlapped
        PROVE  LeavesSound(c)
    <2>1. Place(c)' /\ Chosen(c)'
      BY <1>1, <1>2, BeforeStep, SetupAssumption
      DEF HookInv, TypeOK, HookSound, Place, Chosen, Moved, CheckBackup, HookOnly,
          Goto, history
    <2>2. /\ written[Of(c)] \subseteq {hook'[Of(c)], backup'[Of(c)]}
          /\ backup'[Of(c)] # Managed
      BY <1>1, <1>2, BeforeStep, SetupAssumption
      DEF HookInv, TypeOK, HookSound, Place, Moved, CheckBackup, HookOnly, Goto, history
    <2>3. Of(c) \notin hurt' => RunsUsers(Of(c))' \/ Moved(c)'
      BY <1>1, <1>2, <2>2, BeforeStep, SetupAssumption
      DEF HookInv, TypeOK, Place, Chosen, Moved, RunsUsers, Runs, CheckBackup,
          HookOnly, Goto, history
    <2>4. QED
      BY <2>1, <2>2, <2>3 DEF LeavesSound
  <1>3. QED
    BY <1>1, <1>2, AfterStep

LEMMA GiveUpSound ==
    ASSUME HookInv, NEW c \in Commands, GiveUp(c), TypeOK'
    PROVE  HookInv'
  <1>1. Own(c) /\ pc[c] # "idle" /\ UNCHANGED overlapped
    BY DEF HookInv, TypeOK, GiveUp, Exit, Goto, files, history, Own
  <1>2. ASSUME Of(c) \notin overlapped
        PROVE  LeavesSound(c)
    <2>1. Place(c)' /\ Chosen(c)'
      BY <1>1, <1>2, BeforeStep, SetupAssumption
      DEF HookInv, TypeOK, HookSound, Place, Chosen, Moved, GiveUp, Exit, Goto, files,
          history
    <2>2. /\ written[Of(c)] \subseteq {hook'[Of(c)], backup'[Of(c)]}
          /\ backup'[Of(c)] # Managed
      BY <1>1, <1>2, BeforeStep, SetupAssumption
      DEF HookInv, TypeOK, HookSound, Place, Moved, GiveUp, Exit, Goto, files, history
    <2>3. Of(c) \notin hurt' => RunsUsers(Of(c))' \/ Moved(c)'
      BY <1>1, <1>2, <2>2, BeforeStep, SetupAssumption
      DEF HookInv, TypeOK, Place, Chosen, Moved, RunsUsers, Runs, GiveUp, Exit, Goto,
          files, history
    <2>4. QED
      BY <2>1, <2>2, <2>3 DEF LeavesSound
  <1>3. QED
    BY <1>1, <1>2, AfterStep

\* The backup that was not there cannot have been a hook of the user's.
LEMMA MoveAsideSound ==
    ASSUME HookInv, NEW c \in Commands, MoveAside(c), TypeOK'
    PROVE  HookInv'
  <1>1. Own(c) /\ pc[c] # "idle" /\ UNCHANGED overlapped
    BY DEF HookInv, TypeOK, MoveAside, HookOnly, Goto, history, Own
  <1>2. ASSUME Of(c) \notin overlapped
        PROVE  LeavesSound(c)
    <2>1. Place(c)' /\ Chosen(c)'
      BY <1>1, <1>2, BeforeStep, SetupAssumption
      DEF HookInv, TypeOK, HookSound, Place, Chosen, Moved, MoveAside, HookOnly, Goto,
          history
    <2>2. /\ written[Of(c)] \subseteq {hook'[Of(c)], backup'[Of(c)]}
          /\ backup'[Of(c)] # Managed
      BY <1>1, <1>2, BeforeStep, SetupAssumption
      DEF HookInv, TypeOK, HookSound, Place, Moved, MoveAside, HookOnly, Goto, history
    <2>3. Of(c) \notin hurt' => RunsUsers(Of(c))' \/ Moved(c)'
      BY <1>1, <1>2, <2>2, BeforeStep, SetupAssumption
      DEF HookInv, TypeOK, Place, Chosen, Moved, RunsUsers, Runs, MoveAside, HookOnly,
          Goto, history
    <2>4. QED
      BY <2>1, <2>2, <2>3 DEF LeavesSound
  <1>3. QED
    BY <1>1, <1>2, AfterStep

\* What it replaces is no hook of the user's: that is in the backup.
LEMMA InstallSound ==
    ASSUME HookInv, NEW c \in Commands, Install(c), TypeOK'
    PROVE  HookInv'
  <1>1. Own(c) /\ pc[c] # "idle" /\ UNCHANGED overlapped
    BY DEF HookInv, TypeOK, Install, HookOnly, Goto, history, Own
  <1>2. ASSUME Of(c) \notin overlapped
        PROVE  LeavesSound(c)
    <2>1. Place(c)' /\ Chosen(c)'
      BY <1>1, <1>2, BeforeStep, SetupAssumption
      DEF HookInv, TypeOK, HookSound, Place, Chosen, Moved, Install, HookOnly, Goto,
          history
    <2>2. /\ written[Of(c)] \subseteq {hook'[Of(c)], backup'[Of(c)]}
          /\ backup'[Of(c)] # Managed
      BY <1>1, <1>2, BeforeStep, SetupAssumption
      DEF HookInv, TypeOK, HookSound, Place, Moved, Install, HookOnly, Goto, history
    <2>3. Of(c) \notin hurt' => RunsUsers(Of(c))' \/ Moved(c)'
      BY <1>1, <1>2, <2>2, BeforeStep, SetupAssumption
      DEF HookInv, TypeOK, Place, Chosen, Moved, RunsUsers, Runs, Install, HookOnly,
          Goto, history
    <2>4. QED
      BY <2>1, <2>2, <2>3 DEF LeavesSound
  <1>3. QED
    BY <1>1, <1>2, AfterStep

LEMMA InstallFailsSound ==
    ASSUME HookInv, NEW c \in Commands, InstallFails(c), TypeOK'
    PROVE  HookInv'
  <1>1. Own(c) /\ pc[c] # "idle" /\ UNCHANGED overlapped
    BY DEF HookInv, TypeOK, InstallFails, Exit, Goto, history, Own
  <1>2. ASSUME Of(c) \notin overlapped
        PROVE  LeavesSound(c)
    <2>1. Place(c)' /\ Chosen(c)'
      BY <1>1, <1>2, BeforeStep, SetupAssumption
      DEF HookInv, TypeOK, HookSound, Place, Chosen, Moved, InstallFails, Exit, Goto,
          history
    <2>2. /\ written[Of(c)] \subseteq {hook'[Of(c)], backup'[Of(c)]}
          /\ backup'[Of(c)] # Managed
      BY <1>1, <1>2, BeforeStep, SetupAssumption
      DEF HookInv, TypeOK, HookSound, Place, Moved, InstallFails, Exit, Goto, history
    <2>3. Of(c) \notin hurt' => RunsUsers(Of(c))' \/ Moved(c)'
      BY <1>1, <1>2, <2>2, BeforeStep, SetupAssumption
      DEF HookInv, TypeOK, Place, Chosen, Moved, RunsUsers, Runs, InstallFails, Exit,
          Goto, history
    <2>4. QED
      BY <2>1, <2>2, <2>3 DEF LeavesSound
  <1>3. QED
    BY <1>1, <1>2, AfterStep

LEMMA StatBackupSound ==
    ASSUME HookInv, NEW c \in Commands, StatBackup(c), TypeOK'
    PROVE  HookInv'
  <1>1. Own(c) /\ pc[c] # "idle" /\ UNCHANGED overlapped
    BY DEF HookInv, TypeOK, StatBackup, HookOnly, Goto, history, Own
  <1>2. ASSUME Of(c) \notin overlapped
        PROVE  LeavesSound(c)
    <2>1. Place(c)' /\ Chosen(c)'
      BY <1>1, <1>2, BeforeStep, SetupAssumption
      DEF HookInv, TypeOK, HookSound, Place, Chosen, Moved, StatBackup, HookOnly, Goto,
          history
    <2>2. /\ written[Of(c)] \subseteq {hook'[Of(c)], backup'[Of(c)]}
          /\ backup'[Of(c)] # Managed
      BY <1>1, <1>2, BeforeStep, SetupAssumption
      DEF HookInv, TypeOK, HookSound, Place, Moved, StatBackup, HookOnly, Goto, history
    <2>3. Of(c) \notin hurt' => RunsUsers(Of(c))' \/ Moved(c)'
      BY <1>1, <1>2, <2>2, BeforeStep, SetupAssumption
      DEF HookInv, TypeOK, Place, Chosen, Moved, RunsUsers, Runs, StatBackup, HookOnly,
          Goto, history
    <2>4. QED
      BY <2>1, <2>2, <2>3 DEF LeavesSound
  <1>3. QED
    BY <1>1, <1>2, AfterStep

LEMMA RestoreHookSound ==
    ASSUME HookInv, NEW c \in Commands, RestoreHook(c), TypeOK'
    PROVE  HookInv'
  <1>1. Own(c) /\ pc[c] # "idle" /\ UNCHANGED overlapped
    BY DEF HookInv, TypeOK, RestoreHook, HookOnly, Goto, history, Own
  <1>2. ASSUME Of(c) \notin overlapped
        PROVE  LeavesSound(c)
    <2>1. Place(c)' /\ Chosen(c)'
      BY <1>1, <1>2, BeforeStep, SetupAssumption
      DEF HookInv, TypeOK, HookSound, Place, Chosen, Moved, RestoreHook, HookOnly,
          Goto, history
    <2>2. /\ written[Of(c)] \subseteq {hook'[Of(c)], backup'[Of(c)]}
          /\ backup'[Of(c)] # Managed
      BY <1>1, <1>2, BeforeStep, SetupAssumption
      DEF HookInv, TypeOK, HookSound, Place, Moved, RestoreHook, HookOnly, Goto, history
    <2>3. Of(c) \notin hurt' => RunsUsers(Of(c))' \/ Moved(c)'
      BY <1>1, <1>2, <2>2, BeforeStep, SetupAssumption
      DEF HookInv, TypeOK, Place, Chosen, Moved, RunsUsers, Runs, RestoreHook,
          HookOnly, Goto, history
    <2>4. QED
      BY <2>1, <2>2, <2>3 DEF LeavesSound
  <1>3. QED
    BY <1>1, <1>2, AfterStep

\* Without a backup there is nothing to restore, and the user has no hook.
LEMMA RemoveHookSound ==
    ASSUME HookInv, NEW c \in Commands, RemoveHook(c), TypeOK'
    PROVE  HookInv'
  <1>1. Own(c) /\ pc[c] # "idle" /\ UNCHANGED overlapped
    BY DEF HookInv, TypeOK, RemoveHook, HookOnly, Goto, history, Own
  <1>2. ASSUME Of(c) \notin overlapped
        PROVE  LeavesSound(c)
    <2>1. Place(c)' /\ Chosen(c)'
      BY <1>1, <1>2, BeforeStep, SetupAssumption
      DEF HookInv, TypeOK, HookSound, Place, Chosen, Moved, RemoveHook, HookOnly, Goto,
          history
    <2>2. /\ written[Of(c)] \subseteq {hook'[Of(c)], backup'[Of(c)]}
          /\ backup'[Of(c)] # Managed
      BY <1>1, <1>2, BeforeStep, SetupAssumption
      DEF HookInv, TypeOK, HookSound, Place, Moved, RemoveHook, HookOnly, Goto, history
    <2>3. Of(c) \notin hurt' => RunsUsers(Of(c))' \/ Moved(c)'
      BY <1>1, <1>2, <2>2, BeforeStep, SetupAssumption
      DEF HookInv, TypeOK, Place, Chosen, Moved, RunsUsers, Runs, RemoveHook, HookOnly,
          Goto, history
    <2>4. QED
      BY <2>1, <2>2, <2>3 DEF LeavesSound
  <1>3. QED
    BY <1>1, <1>2, AfterStep

LEMMA TruncateSound ==
    ASSUME HookInv, NEW c \in Commands, Truncate(c), TypeOK'
    PROVE  HookInv'
  <1>1. Own(c) /\ pc[c] # "idle" /\ UNCHANGED overlapped
    BY DEF HookInv, TypeOK, Truncate, Goto, history, Own
  <1>2. ASSUME Of(c) \notin overlapped
        PROVE  LeavesSound(c)
    <2>1. Place(c)' /\ Chosen(c)'
      BY <1>1, <1>2, BeforeStep, SetupAssumption
      DEF HookInv, TypeOK, HookSound, Place, Chosen, Moved, Truncate, Goto, history
    <2>2. /\ written[Of(c)] \subseteq {hook'[Of(c)], backup'[Of(c)]}
          /\ backup'[Of(c)] # Managed
      BY <1>1, <1>2, BeforeStep, SetupAssumption
      DEF HookInv, TypeOK, HookSound, Place, Moved, Truncate, Goto, history
    <2>3. Of(c) \notin hurt' => RunsUsers(Of(c))' \/ Moved(c)'
      BY <1>1, <1>2, <2>2, BeforeStep, SetupAssumption
      DEF HookInv, TypeOK, Place, Chosen, Moved, RunsUsers, Runs, Truncate, Goto, history
    <2>4. QED
      BY <2>1, <2>2, <2>3 DEF LeavesSound
  <1>3. QED
    BY <1>1, <1>2, AfterStep

\* An init for automatic receipts that ends well has repaired what a kill had left.
LEMMA WriteConfigSound ==
    ASSUME HookInv, NEW c \in Commands, WriteConfig(c), TypeOK'
    PROVE  HookInv'
  <1>1. Own(c) /\ pc[c] # "idle" /\ UNCHANGED overlapped
    BY DEF HookInv, TypeOK, WriteConfig, Exit, Goto, Own
  <1>2. ASSUME Of(c) \notin overlapped
        PROVE  LeavesSound(c)
    <2>1. Place(c)' /\ Chosen(c)'
      BY <1>1, <1>2, BeforeStep, SetupAssumption
      DEF HookInv, TypeOK, HookSound, Place, Chosen, Moved, WriteConfig, Exit, Goto
    <2>2. /\ written[Of(c)] \subseteq {hook'[Of(c)], backup'[Of(c)]}
          /\ backup'[Of(c)] # Managed
      BY <1>1, <1>2, BeforeStep, SetupAssumption
      DEF HookInv, TypeOK, HookSound, Place, Moved, WriteConfig, Exit, Goto
    <2>3. Of(c) \notin hurt' => RunsUsers(Of(c))' \/ Moved(c)'
      BY <1>1, <1>2, <2>2, BeforeStep, SetupAssumption
      DEF HookInv, TypeOK, Place, Chosen, Moved, RunsUsers, Runs, WriteConfig, Exit, Goto
    <2>4. QED
      BY <2>1, <2>2, <2>3 DEF LeavesSound
  <1>3. QED
    BY <1>1, <1>2, AfterStep

LEMMA KillSound ==
    ASSUME HookInv, NEW c \in Commands, Kill(c), TypeOK'
    PROVE  HookInv'
  <1>1. Own(c) /\ pc[c] # "idle" /\ UNCHANGED overlapped
    BY DEF HookInv, TypeOK, Kill, Exit, Goto, files, Running, Own
  <1>2. ASSUME Of(c) \notin overlapped
        PROVE  LeavesSound(c)
    <2>1. Place(c)' /\ Chosen(c)'
      BY <1>1, <1>2, BeforeStep, SetupAssumption
      DEF HookInv, TypeOK, HookSound, Place, Chosen, Moved, Kill, Exit, Goto, files,
          Running
    <2>2. /\ written[Of(c)] \subseteq {hook'[Of(c)], backup'[Of(c)]}
          /\ backup'[Of(c)] # Managed
      BY <1>1, <1>2, BeforeStep, SetupAssumption
      DEF HookInv, TypeOK, HookSound, Place, Moved, Kill, Exit, Goto, files, Running
    <2>3. Of(c) \notin hurt' => RunsUsers(Of(c))' \/ Moved(c)'
      BY <1>1, <1>2, <2>2, BeforeStep, SetupAssumption
      DEF HookInv, TypeOK, Place, Chosen, Moved, RunsUsers, Runs, Kill, Exit, Goto,
          files, Running
    <2>4. QED
      BY <2>1, <2>2, <2>3 DEF LeavesSound
  <1>3. QED
    BY <1>1, <1>2, AfterStep

\* An init that starts where no other runs has nothing in hand yet.
LEMMA LoadSound ==
    ASSUME HookInv, NEW c \in Commands, Load(c), TypeOK'
    PROVE  HookInv'
  <1>1. Own(c) /\ pc'[c] = "read" /\ Of(c) \in Repositories /\ config \in Config
    BY OfType DEF HookInv, TypeOK, Load, Goto, files, Own
  <1>2. ASSUME Of(c) \notin overlapped'
        PROVE  HookSound(Of(c))'
    <2>1. /\ Of(c) \notin overlapped
          /\ \A d \in Commands : Of(d) = Of(c) => pc[d] = "idle"
      BY <1>2 DEF Load, RunningIn, Running
    <2>2. HookSound(Of(c)) /\ \A d \in Commands : Of(d) = Of(c) => ~Moved(d)
      BY <1>1, <2>1 DEF HookInv, Moved
    <2>3. cfg'[c] = Configured(c)
      BY DEF HookInv, TypeOK, Load
    <2>4. Place(c)' /\ Chosen(c)'
      BY <1>1, <2>3, ConfiguredEntry DEF Place, Chosen, Moved
    <2>5. Of(c) \notin hurt' => RunsUsers(Of(c))'
      BY <2>2 DEF HookSound, RunsUsers, Runs, Load, files
    <2>6. QED
      BY <1>1, <2>1, <2>2, <2>4, <2>5, SoleStep DEF HookSound, Load, files
  <1>3. QED
    BY <1>1, <1>2, HookStep

\* The user's new hook takes the place of the one that was there.
LEMMA UserSound ==
    ASSUME HookInv, NEW r \in Edited, NEW v \in Versions, UserInstalls(r, v), TypeOK'
    PROVE  HookInv'
  <1>1. r \in Repositories
    BY SetupAssumption
  <1>2. /\ hook'[r] = v /\ written'[r] = (written[r] \ {hook[r]}) \union {v}
        /\ \A q \in Repositories \ {r} : hook'[q] = hook[q] /\ written'[q] = written[q]
        /\ UNCHANGED <<backup, pc, cfg, raw, hurt>> /\ overlapped \subseteq overlapped'
    BY <1>1 DEF HookInv, TypeOK, UserInstalls
  <1>3. ASSUME NEW q \in Repositories \ overlapped', q # r
        PROVE  HookSound(q)'
    <2>1. HookSound(q)
      BY <1>2, <1>3 DEF HookInv
    <2>2. \A c \in Commands : Of(c) = q =>
            (Place(c)' <=> Place(c)) /\ (Chosen(c)' <=> Chosen(c)) /\ (Moved(c)' <=> Moved(c))
      BY <1>2, <1>3 DEF Place, Chosen, Moved
    <2>3. (RunsUsers(q)' <=> RunsUsers(q)) /\ (Sole(q)' <=> Sole(q))
      BY <1>2, <1>3 DEF RunsUsers, Runs, Sole
    <2>4. QED
      BY <1>2, <1>3, <2>1, <2>2, <2>3 DEF HookSound
  <1>4. ASSUME r \notin overlapped'
        PROVE  HookSound(r)'
    <2>1. r \notin overlapped /\ \A c \in Commands : Of(c) = r => pc[c] = "idle"
      BY <1>4 DEF UserInstalls, RunningIn, Running
    <2>2. HookSound(r)
      BY <1>1, <2>1 DEF HookInv
    <2>3. \A c \in Commands : Of(c) = r => Place(c)' /\ Chosen(c)'
      BY <1>2, <2>1 DEF Place, Chosen, Moved
    <2>4. RunsUsers(r)' /\ Sole(r)'
      BY <1>2, <2>1, SetupAssumption DEF RunsUsers, Runs, Sole
    <2>5. QED
      BY <1>2, <2>2, <2>3, <2>4 DEF HookSound
  <1>5. QED
    BY <1>3, <1>4 DEF HookInv

LEMMA InitHook == Init => HookInv
  <1> SUFFICES ASSUME Init PROVE HookInv
    OBVIOUS
  <1>1. TypeOK
    <2>1. 0 \in 0 .. MaxFaults
      BY SetupAssumption
    <2>2. /\ FirstHook \in [Repositories -> Hooks] /\ NoFile \in Hooks
          /\ \A r \in Repositories : {FirstHook[r]} \ {NoFile} \subseteq Versions
      BY SetupAssumption DEF Hooks
    <2>3. written \in [Repositories -> SUBSET Versions]
      BY <2>2 DEF Init
    <2>4. QED
      BY <2>1, <2>2, <2>3, LocalType DEF Init, TypeOK
  <1>2. ASSUME NEW r \in Repositories
        PROVE  HookSound(r)
    <2>1. \A c \in Commands : Place(c) /\ Chosen(c)
      BY DEF Init, Place, Chosen, Moved
    <2>2. FirstHook[r] \in Versions \union {NoFile} /\ hook[r] = FirstHook[r]
          /\ backup[r] = NoFile /\ written[r] = {FirstHook[r]} \ {NoFile}
      BY SetupAssumption DEF Init
    <2>3. RunsUsers(r) /\ Sole(r)
      BY <2>2, SetupAssumption DEF Init, RunsUsers, Runs, Sole
    <2>4. QED
      BY <2>1, <2>2, <2>3, SetupAssumption DEF HookSound
  <1>3. QED
    BY <1>1, <1>2 DEF HookInv

-----------------------------------------------------------------------------
\* The configuration file

LEMMA InitFile == Init => FileInv
  <1> SUFFICES ASSUME Init PROVE FileInv
    OBVIOUS
  <1>1. \A r \in Repositories : Fits(config, r)
    BY SetupAssumption DEF Init, Fits, Local
  <1>2. QED
    BY <1>1 DEF Init, FileInv, FileSound, CopySound

\* A step of an init that is the only one, and that leaves the file alone.
LEMMA FileStep ==
    ASSUME SetupInv, NEW c \in Commands, Own(c), pc[c] # "idle", pc'[c] # "write",
           pc[c] = "write" => pc'[c] = "idle", pc'[c] = "idle" \/ cfg'[c] = cfg[c],
           UNCHANGED <<config, keyed, raced, overlapped>>, hurt \subseteq hurt',
           Of(c) \notin overlapped \union hurt' =>
               (Fits(config, Of(c)) \/ Moved(c) \/ pc[c] = "save" =>
                    Fits(config, Of(c))' \/ Moved(c)' \/ pc'[c] = "save")
    PROVE  FileInv'
  <1> SUFFICES ASSUME ~raced
               PROVE  /\ FileSound' /\ \A d \in Commands : CopySound(d)'
                      /\ config' # Torn =>
                           /\ \A r \in keyed' : config'[r].key
                           /\ \A r \in Repositories \ (overlapped' \union hurt') :
                                Fits(config, r)' \/ \E d \in Commands :
                                  Of(d) = r /\ (Moved(d)' \/ pc'[d] = "save")
    BY DEF FileInv
  <1>1. FileSound /\ CopySound(c)
    BY DEF SetupInv, FileInv
  <1>2. \A d \in Commands \ {c} : pc[d] = "idle" /\ pc'[d] = "idle"
    BY <1>1 DEF FileSound, Own
  <1>3. FileSound'
    BY <1>1, <1>2 DEF FileSound, Own
  <1>4. \A d \in Commands : CopySound(d)'
    BY <1>1, <1>2 DEF CopySound, Own
  <1>5. ASSUME config' # Torn, NEW r \in Repositories \ (overlapped' \union hurt')
        PROVE  Fits(config, r)' \/ \E d \in Commands :
                 Of(d) = r /\ (Moved(d)' \/ pc'[d] = "save")
    <2>1. Fits(config, r) \/ (Of(c) = r /\ (Moved(c) \/ pc[c] = "save"))
      BY <1>2, <1>5 DEF SetupInv, FileInv, Moved
    <2>2. CASE r = Of(c)
      BY <1>5, <2>1, <2>2
    <2>3. CASE r # Of(c)
      BY <2>1, <2>3 DEF Own, Fits
    <2>4. QED
      BY <2>2, <2>3
  <1>6. config' # Torn => \A r \in keyed' : config'[r].key
    BY DEF SetupInv, FileInv
  <1>7. QED
    BY <1>3, <1>4, <1>5, <1>6

LEMMA TruncateFile ==
    ASSUME SetupInv, NEW c \in Commands, Truncate(c)
    PROVE  FileInv'
  <1> SUFFICES ASSUME ~raced
               PROVE  FileSound' /\ config' = Torn /\ \A d \in Commands : CopySound(d)'
    BY DEF FileInv, Truncate, history
  <1>1. FileSound /\ CopySound(c)
    BY DEF SetupInv, FileInv
  <1>2. \A d \in Commands \ {c} : pc[d] = "idle" /\ pc'[d] = "idle"
    BY <1>1 DEF SetupInv, HookInv, TypeOK, FileSound, Truncate, Goto
  <1>3. pc'[c] = "write" /\ config # Torn
    BY <1>1 DEF SetupInv, HookInv, TypeOK, FileSound, Truncate, Goto
  <1>4. \A r \in Repositories \ (overlapped \union hurt \union {Of(c)}) :
          Fits(config, r) /\ cfg[c][r] = config[r]
    BY <1>1, <1>2, <1>3 DEF SetupInv, FileInv, CopySound, Moved, Truncate
  <1>5. CopySound(c)'
    BY <1>1, <1>3, <1>4 DEF CopySound, Fits, Truncate, history
  <1>6. \A d \in Commands \ {c} : CopySound(d)'
    BY <1>2 DEF CopySound
  <1>7. FileSound' /\ config' = Torn
    BY <1>2, <1>3 DEF FileSound, Truncate
  <1>8. QED
    BY <1>5, <1>6, <1>7

\* The new file has what the old one had, and what this init has added.
LEMMA WriteFile ==
    ASSUME SetupInv, NEW c \in Commands, WriteConfig(c)
    PROVE  FileInv'
  <1> SUFFICES ASSUME ~raced
               PROVE  /\ FileSound' /\ \A d \in Commands : CopySound(d)'
                      /\ \A r \in keyed' : config'[r].key
                      /\ \A r \in Repositories \ (overlapped' \union hurt') :
                           Fits(config, r)'
    BY DEF FileInv, WriteConfig
  <1>1. FileSound /\ CopySound(c)
    BY DEF SetupInv, FileInv
  <1>2. \A d \in Commands : pc'[d] = "idle"
    BY <1>1 DEF SetupInv, HookInv, TypeOK, FileSound, WriteConfig, Exit, Goto
  <1>3. FileSound' /\ \A d \in Commands : CopySound(d)'
    BY <1>2 DEF FileSound, CopySound
  <1>4. config' = cfg[c] /\ \A r \in keyed' : config'[r].key
    BY <1>1 DEF CopySound, WriteConfig
  <1>5. ASSUME NEW r \in Repositories \ (overlapped' \union hurt')
        PROVE  Fits(config, r)'
    <2>1. CASE r = Of(c)
      <3>1. Chosen(c)
        BY <1>5, <2>1 DEF SetupInv, HookInv, HookSound, WriteConfig
      <3>2. QED
        BY <2>1, <3>1 DEF Chosen, Fits, WriteConfig
    <2>2. CASE r # Of(c)
      BY <1>1, <1>5, <2>2 DEF CopySound, Fits, WriteConfig
    <2>3. QED
      BY <2>1, <2>2
  <1>6. QED
    BY <1>3, <1>4, <1>5

\* What an init reads, while no other runs, is in the file until it writes.
LEMMA LoadFile ==
    ASSUME SetupInv, NEW c \in Commands, Load(c)
    PROVE  FileInv'
  <1> SUFFICES ASSUME ~raced'
               PROVE  /\ FileSound' /\ \A d \in Commands : CopySound(d)'
                      /\ \A r \in keyed' : config'[r].key
                      /\ \A r \in Repositories \ (overlapped' \union hurt') :
                           Fits(config, r)'
    BY DEF FileInv, Load
  <1>1. ~raced /\ config # Torn /\ \A d \in Commands : pc[d] = "idle"
    BY DEF Load, Running
  <1>2. pc'[c] = "read" /\ \A d \in Commands \ {c} : pc'[d] = "idle"
    BY <1>1 DEF SetupInv, HookInv, TypeOK, Load, Goto
  <1>3. /\ \A r \in keyed : config[r].key /\ r \in Repositories
        /\ \A r \in Repositories \ (overlapped \union hurt) : Fits(config, r)
    BY <1>1 DEF SetupInv, FileInv, HookInv, TypeOK, Moved
  <1>4. cfg'[c] = Configured(c) /\ config \in Config
    BY <1>1 DEF SetupInv, HookInv, TypeOK, Load
  <1>5. CopySound(c)'
    <2>1. \A r \in Repositories \ {Of(c)} : cfg'[c][r] = config[r]
      BY <1>4, ConfiguredEntry
    <2>2. cfg'[c][Of(c)].key = (config[Of(c)].key \/ Wanted[c].key)
      BY <1>4, ConfiguredEntry
    <2>3. \A r \in keyed : cfg'[c][r].key
      BY <1>3, <2>1, <2>2
    <2>4. QED
      BY <1>2, <2>1, <2>2, <2>3 DEF CopySound, Load, files
  <1>6. \A d \in Commands \ {c} : CopySound(d)'
    BY <1>2 DEF CopySound
  <1>7. FileSound'
    BY <1>1, <1>2 DEF FileSound, Load, files
  <1>8. QED
    BY <1>3, <1>5, <1>6, <1>7 DEF Load, files, Fits

LEMMA UserFile ==
    ASSUME SetupInv, NEW r \in Edited, NEW v \in Versions, UserInstalls(r, v)
    PROVE  FileInv'
  <1>1. r \in Repositories
    BY SetupAssumption
  <1>2. /\ hook'[r] = v /\ \A q \in Repositories \ {r} : hook'[q] = hook[q]
        /\ UNCHANGED <<config, pc, cfg, raw, keyed, raced, hurt>>
        /\ overlapped \subseteq overlapped'
    BY <1>1 DEF SetupInv, HookInv, TypeOK, UserInstalls
  <1>3. \A q \in Repositories : /\ Fits(config, q) => Fits(config, q)'
                                /\ \A c \in Commands : Fits(cfg[c], q) => Fits(cfg[c], q)'
    BY <1>2 DEF Fits
  <1>4. FileSound => FileSound'
    BY <1>2 DEF FileSound
  <1>5. \A c \in Commands : CopySound(c) => CopySound(c)'
    BY <1>2, <1>3 DEF CopySound
  <1>6. QED
    BY <1>2, <1>3, <1>4, <1>5 DEF SetupInv, FileInv, Moved

\* Everything else that an init does leaves the file alone.
LEMMA OtherFile ==
    ASSUME SetupInv, NEW c \in Commands,
           \/ ReadHook(c) \/ CheckBackup(c) \/ GiveUp(c) \/ MoveAside(c) \/ Install(c)
           \/ InstallFails(c) \/ StatBackup(c) \/ RestoreHook(c) \/ RemoveHook(c) \/ Kill(c)
    PROVE  FileInv'
  <1>1. CASE ReadHook(c)
    <2>1. /\ Own(c) /\ pc[c] # "idle" /\ UNCHANGED <<config, keyed, raced, overlapped>>
          /\ hurt \subseteq hurt' /\ pc'[c] # "write" /\ (pc[c] = "write" => pc'[c] = "idle")
          /\ pc'[c] = "idle" \/ cfg'[c] = cfg[c]
      BY <1>1 DEF SetupInv, HookInv, TypeOK, Own, ReadHook, HookOnly, Goto, history
    <2>2. ASSUME Of(c) \notin overlapped \union hurt',
                 Fits(config, Of(c)) \/ Moved(c) \/ pc[c] = "save"
          PROVE  Fits(config, Of(c))' \/ Moved(c)' \/ pc'[c] = "save"
      BY <1>1, <2>1, <2>2, BeforeStep, SetupAssumption
      DEF SetupInv, HookInv, TypeOK, Place, Fits, Moved, ReadHook, HookOnly, Goto, history
    <2>3. QED
      BY <2>1, <2>2, FileStep
  <1>2. CASE CheckBackup(c)
    <2>1. /\ Own(c) /\ pc[c] # "idle" /\ UNCHANGED <<config, keyed, raced, overlapped>>
          /\ hurt \subseteq hurt' /\ pc'[c] # "write" /\ (pc[c] = "write" => pc'[c] = "idle")
          /\ pc'[c] = "idle" \/ cfg'[c] = cfg[c]
      BY <1>2 DEF SetupInv, HookInv, TypeOK, Own, CheckBackup, HookOnly, Goto, history
    <2>2. ASSUME Of(c) \notin overlapped \union hurt',
                 Fits(config, Of(c)) \/ Moved(c) \/ pc[c] = "save"
          PROVE  Fits(config, Of(c))' \/ Moved(c)' \/ pc'[c] = "save"
      BY <1>2, <2>1, <2>2, BeforeStep, SetupAssumption
      DEF SetupInv, HookInv, TypeOK, Place, Fits, Moved, CheckBackup, HookOnly, Goto,
          history
    <2>3. QED
      BY <2>1, <2>2, FileStep
  <1>3. CASE GiveUp(c)
    <2>1. /\ Own(c) /\ pc[c] # "idle" /\ UNCHANGED <<config, keyed, raced, overlapped>>
          /\ hurt \subseteq hurt' /\ pc'[c] # "write" /\ (pc[c] = "write" => pc'[c] = "idle")
          /\ pc'[c] = "idle" \/ cfg'[c] = cfg[c]
      BY <1>3 DEF SetupInv, HookInv, TypeOK, Own, GiveUp, Exit, Goto, files, history
    <2>2. ASSUME Of(c) \notin overlapped \union hurt',
                 Fits(config, Of(c)) \/ Moved(c) \/ pc[c] = "save"
          PROVE  Fits(config, Of(c))' \/ Moved(c)' \/ pc'[c] = "save"
      BY <1>3, <2>1, <2>2, BeforeStep, SetupAssumption
      DEF SetupInv, HookInv, TypeOK, Place, Fits, Moved, GiveUp, Exit, Goto, files,
          history
    <2>3. QED
      BY <2>1, <2>2, FileStep
  <1>4. CASE MoveAside(c)
    <2>1. /\ Own(c) /\ pc[c] # "idle" /\ UNCHANGED <<config, keyed, raced, overlapped>>
          /\ hurt \subseteq hurt' /\ pc'[c] # "write" /\ (pc[c] = "write" => pc'[c] = "idle")
          /\ pc'[c] = "idle" \/ cfg'[c] = cfg[c]
      BY <1>4 DEF SetupInv, HookInv, TypeOK, Own, MoveAside, HookOnly, Goto, history
    <2>2. ASSUME Of(c) \notin overlapped \union hurt',
                 Fits(config, Of(c)) \/ Moved(c) \/ pc[c] = "save"
          PROVE  Fits(config, Of(c))' \/ Moved(c)' \/ pc'[c] = "save"
      BY <1>4, <2>1, <2>2, BeforeStep, SetupAssumption
      DEF SetupInv, HookInv, TypeOK, Place, Fits, Moved, MoveAside, HookOnly, Goto,
          history
    <2>3. QED
      BY <2>1, <2>2, FileStep
  <1>5. CASE Install(c)
    <2>1. /\ Own(c) /\ pc[c] # "idle" /\ UNCHANGED <<config, keyed, raced, overlapped>>
          /\ hurt \subseteq hurt' /\ pc'[c] # "write" /\ (pc[c] = "write" => pc'[c] = "idle")
          /\ pc'[c] = "idle" \/ cfg'[c] = cfg[c]
      BY <1>5 DEF SetupInv, HookInv, TypeOK, Own, Install, HookOnly, Goto, history
    <2>2. ASSUME Of(c) \notin overlapped \union hurt',
                 Fits(config, Of(c)) \/ Moved(c) \/ pc[c] = "save"
          PROVE  Fits(config, Of(c))' \/ Moved(c)' \/ pc'[c] = "save"
      BY <1>5, <2>1, <2>2, BeforeStep, SetupAssumption
      DEF SetupInv, HookInv, TypeOK, Place, Fits, Moved, Install, HookOnly, Goto, history
    <2>3. QED
      BY <2>1, <2>2, FileStep
  <1>6. CASE InstallFails(c)
    <2>1. /\ Own(c) /\ pc[c] # "idle" /\ UNCHANGED <<config, keyed, raced, overlapped>>
          /\ hurt \subseteq hurt' /\ pc'[c] # "write" /\ (pc[c] = "write" => pc'[c] = "idle")
          /\ pc'[c] = "idle" \/ cfg'[c] = cfg[c]
      BY <1>6 DEF SetupInv, HookInv, TypeOK, Own, InstallFails, Exit, Goto, history
    <2>2. ASSUME Of(c) \notin overlapped \union hurt',
                 Fits(config, Of(c)) \/ Moved(c) \/ pc[c] = "save"
          PROVE  Fits(config, Of(c))' \/ Moved(c)' \/ pc'[c] = "save"
      BY <1>6, <2>1, <2>2, BeforeStep, SetupAssumption
      DEF SetupInv, HookInv, TypeOK, Place, Fits, Moved, InstallFails, Exit, Goto, history
    <2>3. QED
      BY <2>1, <2>2, FileStep
  <1>7. CASE StatBackup(c)
    <2>1. /\ Own(c) /\ pc[c] # "idle" /\ UNCHANGED <<config, keyed, raced, overlapped>>
          /\ hurt \subseteq hurt' /\ pc'[c] # "write" /\ (pc[c] = "write" => pc'[c] = "idle")
          /\ pc'[c] = "idle" \/ cfg'[c] = cfg[c]
      BY <1>7 DEF SetupInv, HookInv, TypeOK, Own, StatBackup, HookOnly, Goto, history
    <2>2. ASSUME Of(c) \notin overlapped \union hurt',
                 Fits(config, Of(c)) \/ Moved(c) \/ pc[c] = "save"
          PROVE  Fits(config, Of(c))' \/ Moved(c)' \/ pc'[c] = "save"
      BY <1>7, <2>1, <2>2, BeforeStep, SetupAssumption
      DEF SetupInv, HookInv, TypeOK, Place, Fits, Moved, StatBackup, HookOnly, Goto,
          history
    <2>3. QED
      BY <2>1, <2>2, FileStep
  <1>8. CASE RestoreHook(c)
    <2>1. /\ Own(c) /\ pc[c] # "idle" /\ UNCHANGED <<config, keyed, raced, overlapped>>
          /\ hurt \subseteq hurt' /\ pc'[c] # "write" /\ (pc[c] = "write" => pc'[c] = "idle")
          /\ pc'[c] = "idle" \/ cfg'[c] = cfg[c]
      BY <1>8 DEF SetupInv, HookInv, TypeOK, Own, RestoreHook, HookOnly, Goto, history
    <2>2. ASSUME Of(c) \notin overlapped \union hurt',
                 Fits(config, Of(c)) \/ Moved(c) \/ pc[c] = "save"
          PROVE  Fits(config, Of(c))' \/ Moved(c)' \/ pc'[c] = "save"
      BY <1>8, <2>1, <2>2, BeforeStep, SetupAssumption
      DEF SetupInv, HookInv, TypeOK, Place, Fits, Moved, RestoreHook, HookOnly, Goto,
          history
    <2>3. QED
      BY <2>1, <2>2, FileStep
  <1>9. CASE RemoveHook(c)
    <2>1. /\ Own(c) /\ pc[c] # "idle" /\ UNCHANGED <<config, keyed, raced, overlapped>>
          /\ hurt \subseteq hurt' /\ pc'[c] # "write" /\ (pc[c] = "write" => pc'[c] = "idle")
          /\ pc'[c] = "idle" \/ cfg'[c] = cfg[c]
      BY <1>9 DEF SetupInv, HookInv, TypeOK, Own, RemoveHook, HookOnly, Goto, history
    <2>2. ASSUME Of(c) \notin overlapped \union hurt',
                 Fits(config, Of(c)) \/ Moved(c) \/ pc[c] = "save"
          PROVE  Fits(config, Of(c))' \/ Moved(c)' \/ pc'[c] = "save"
      BY <1>9, <2>1, <2>2, BeforeStep, SetupAssumption
      DEF SetupInv, HookInv, TypeOK, Place, Fits, Moved, RemoveHook, HookOnly, Goto,
          history
    <2>3. QED
      BY <2>1, <2>2, FileStep
  <1>10. CASE Kill(c)
    <2>1. /\ Own(c) /\ pc[c] # "idle" /\ UNCHANGED <<config, keyed, raced, overlapped>>
          /\ hurt \subseteq hurt' /\ pc'[c] # "write" /\ (pc[c] = "write" => pc'[c] = "idle")
          /\ pc'[c] = "idle" \/ cfg'[c] = cfg[c]
      BY <1>10 DEF SetupInv, HookInv, TypeOK, Own, Kill, Exit, Goto, files, Running
    <2>2. ASSUME Of(c) \notin overlapped \union hurt',
                 Fits(config, Of(c)) \/ Moved(c) \/ pc[c] = "save"
          PROVE  Fits(config, Of(c))' \/ Moved(c)' \/ pc'[c] = "save"
      BY <1>10, <2>1, <2>2, BeforeStep, SetupAssumption
      DEF SetupInv, HookInv, TypeOK, Place, Fits, Moved, Kill, Exit, Goto, files, Running
    <2>3. QED
      BY <2>1, <2>2, FileStep
  <1>11. QED
    BY <1>1, <1>2, <1>3, <1>4, <1>5, <1>6, <1>7, <1>8, <1>9, <1>10

-----------------------------------------------------------------------------
\* Every step

LEMMA SetupStutters == SetupInv /\ UNCHANGED vars => SetupInv'
  <1> SUFFICES ASSUME SetupInv, UNCHANGED vars PROVE SetupInv'
    OBVIOUS
  <1>1. TypeOK'
    BY DEF SetupInv, HookInv, TypeOK, vars, files, history
  <1>2. \A c \in Commands : /\ Place(c)' <=> Place(c)
                            /\ Chosen(c)' <=> Chosen(c)
                            /\ Moved(c)' <=> Moved(c)
                            /\ CopySound(c)' <=> CopySound(c)
    BY DEF Place, Chosen, Moved, CopySound, Fits, vars, files, history
  <1>3. \A r \in Repositories : /\ RunsUsers(r)' <=> RunsUsers(r)
                                /\ Sole(r)' <=> Sole(r)
                                /\ Fits(config, r)' <=> Fits(config, r)
    BY DEF RunsUsers, Runs, Sole, Fits, vars, files, history
  <1>4. HookInv'
    BY <1>1, <1>2, <1>3 DEF SetupInv, HookInv, HookSound, vars, files, history
  <1>5. FileInv'
    BY <1>2, <1>3 DEF SetupInv, FileInv, FileSound, vars, files, history
  <1>6. QED
    BY <1>4, <1>5 DEF SetupInv

LEMMA SetupStep == SetupInv /\ [Next]_vars => SetupInv'
  <1> SUFFICES ASSUME SetupInv, [Next]_vars PROVE SetupInv'
    OBVIOUS
  <1>1. TypeOK /\ HookInv
    BY DEF SetupInv, HookInv
  <1>2. CASE \E c \in Commands : Load(c)
    BY <1>1, <1>2, LoadType, LoadSound, LoadFile DEF SetupInv
  <1>3. CASE \E c \in Commands :
               \/ ReadHook(c) \/ CheckBackup(c) \/ GiveUp(c) \/ MoveAside(c) \/ Install(c)
               \/ InstallFails(c) \/ StatBackup(c) \/ RestoreHook(c) \/ RemoveHook(c)
    BY <1>1, <1>3, HookType, OtherFile, ReadHookSound, CheckBackupSound, GiveUpSound,
       MoveAsideSound, InstallSound, InstallFailsSound, StatBackupSound, RestoreHookSound,
       RemoveHookSound
    DEF SetupInv
  <1>4. CASE \E c \in Commands : Truncate(c) \/ WriteConfig(c) \/ Kill(c)
    BY <1>1, <1>4, SaveType, TruncateFile, WriteFile, OtherFile, TruncateSound,
       WriteConfigSound, KillSound
    DEF SetupInv
  <1>5. CASE \E r \in Edited, v \in Versions : UserInstalls(r, v)
    BY <1>1, <1>5, UserType, UserSound, UserFile DEF SetupInv
  <1>6. CASE UNCHANGED vars
    BY <1>6, SetupStutters
  <1>7. QED
    BY <1>2, <1>3, <1>4, <1>5, <1>6 DEF Next, Step

LEMMA SetupInvariant == Spec => []SetupInv
  <1>1. Init => SetupInv
    BY InitHook, InitFile DEF SetupInv
  <1>2. QED
    BY <1>1, SetupStep, PTL DEF Spec

-----------------------------------------------------------------------------
\* The theorems

\* Files, inits and the history have their types.
THEOREM SetupTypes == Spec => []TypeOK
  <1>1. SetupInv => TypeOK
    BY DEF SetupInv, HookInv
  <1>2. QED
    BY <1>1, SetupInvariant, PTL

\* ConfigureHook never loses a hook that the user wrote: it is the pre-push hook or
\* its backup, between any two file operations and after any kill or error.
THEOREM HooksAreKept == Spec => []HookKept
  <1>1. SetupInv => HookKept
    BY DEF SetupInv, HookInv, HookSound, HookKept
  <1>2. QED
    BY <1>1, SetupInvariant, PTL

\* Once an init has ended, well or with an error of its own, a push runs the user's
\* hook, and after a kill it does so once an init for automatic receipts has ended.
THEOREM PushRunsUsersHook == Spec => []SetupLeavesHook
  <1>1. SetupInv => SetupLeavesHook
    <2> SUFFICES ASSUME SetupInv, NEW r \in Repositories \ (overlapped \union hurt),
                        RunningIn(r) = {}
                 PROVE  RunsUsers(r)
      BY DEF SetupLeavesHook
    <2>1. \A c \in Commands : Of(c) = r => pc[c] = "idle"
      BY DEF RunningIn, Running
    <2>2. QED
      BY <2>1 DEF SetupInv, HookInv, HookSound, Moved
  <1>2. QED
    BY <1>1, SetupInvariant, PTL

\* The receipt hook is where the configuration says automatic, although ConfigureHook
\* and Save are separate and Save writes the entries of all repositories.
THEOREM HookFollowsMode == Spec => []ModeIsHook
  <1>1. SetupInv => ModeIsHook
    <2> SUFFICES ASSUME SetupInv, ~raced, config # Torn,
                        NEW r \in Repositories \ (overlapped \union hurt),
                        RunningIn(r) = {}, hook[r] \notin Versions
                 PROVE  config[r].mode = "automatic" <=> hook[r] = Managed
      BY DEF ModeIsHook
    <2>1. \A c \in Commands : Of(c) = r => pc[c] = "idle"
      BY DEF RunningIn, Running
    <2>2. Fits(config, r)
      BY <2>1 DEF SetupInv, FileInv, Moved
    <2>3. QED
      BY <2>2 DEF Fits
  <1>2. QED
    BY <1>1, SetupInvariant, PTL

\* Inits that do not overlap never take a key away, their own repository's or another.
THEOREM KeysAreKept == Spec => []IntegrationKept
  <1>1. SetupInv => IntegrationKept
    BY DEF SetupInv, FileInv, IntegrationKept
  <1>2. QED
    BY <1>1, SetupInvariant, PTL
================================================================================
