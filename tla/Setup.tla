---------------------------------- MODULE Setup ----------------------------------
(***************************************************************************)
(* `secuarden init`: one configuration file for all repositories, which is *)
(* read, changed in memory and written over without a lock, and the        *)
(* pre-push hook of each repository, which is moved aside for the receipt  *)
(* hook and moved back (cmd/init.go, cmd/receipt_setup.go, internal/config *)
(* and internal/changereceipt/hooks.go).  Inits may overlap, fail and be   *)
(* killed, and the user installs hooks.                                    *)
(***************************************************************************)
EXTENDS Integers

CONSTANTS Repositories,
          Commands,
          Wanted,     \* [Commands -> Flags]
          Versions,   \* hooks that the user may write
          Managed,    \* the receipt hook, which is recognised by its marker
          NoFile,
          FirstHook,  \* [Repositories -> Versions \union {NoFile}]
          Edited,     \* repositories where the user writes hooks while the model runs
          Torn,       \* the configuration file between truncation and write
          MaxFaults   \* bound on kills and errors

Modes == {"", "explicit", "automatic"}
Flags == [repository : Repositories, mode : Modes, key : BOOLEAN]
Hooks == Versions \union {Managed, NoFile}
Integration == [mode : Modes, key : BOOLEAN]
Config == [Repositories -> Integration]

ASSUME SetupAssumption ==
    /\ Wanted \in [Commands -> Flags]
    /\ FirstHook \in [Repositories -> Versions \union {NoFile}]
    /\ Edited \subseteq Repositories
    /\ Managed # NoFile /\ {Managed, NoFile} \intersect Versions = {}
    /\ Torn \notin Config
    /\ MaxFaults \in Nat

VARIABLES config,           \* ~/.secuarden/config.json
          hook, backup,     \* pre-push and pre-push.secuarden-original, in each repository
          pc, cfg, raw,     \* an init's place, its configuration, the hook that it read
          faults,
          \* what follows is not in the code
          written,          \* the user's hooks, but for those that the user replaced
          keyed,            \* repositories for which an init with a key has ended well
          overlapped,       \* repositories where two inits, or init and user, have overlapped
          raced,            \* two inits of any repositories have overlapped
          hurt              \* repositories where an init was killed, and none with
                            \*   automatic receipts has ended well since

history == <<written, keyed, overlapped, raced, hurt>>
files   == <<config, hook, backup>>
vars == <<files, pc, cfg, raw, faults, history>>

Local == [r \in Repositories |-> [mode |-> "", key |-> FALSE]]

Of(c) == Wanted[c].repository
Running == {c \in Commands : pc[c] # "idle"}
RunningIn(r) == {c \in Running : Of(c) = r}

TypeOK ==
    /\ config \in Config \union {Torn}
    /\ hook \in [Repositories -> Hooks] /\ backup \in [Repositories -> Hooks]
    /\ pc \in [Commands -> {"idle", "read", "check", "move", "install", "stat", "restore",
                            "remove", "save", "write"}]
    /\ cfg \in [Commands -> Config] /\ raw \in [Commands -> Hooks]
    /\ \A c \in Commands :
         /\ pc[c] \in {"check", "move"} => raw[c] \in Versions
         /\ pc[c] \in {"stat", "restore", "remove"} => raw[c] = Managed
    /\ faults \in 0 .. MaxFaults
    /\ written \in [Repositories -> SUBSET Versions] /\ keyed \subseteq Repositories
    /\ overlapped \subseteq Repositories /\ raced \in BOOLEAN /\ hurt \subseteq Repositories

Init ==
    /\ config = Local
    /\ hook = FirstHook /\ backup = [r \in Repositories |-> NoFile]
    /\ pc = [c \in Commands |-> "idle"] /\ cfg = [c \in Commands |-> Local]
    /\ raw = [c \in Commands |-> NoFile]
    /\ faults = 0
    /\ written = [r \in Repositories |-> {FirstHook[r]} \ {NoFile}]
    /\ keyed = {} /\ overlapped = {} /\ raced = FALSE /\ hurt = {}

Fault == faults < MaxFaults /\ faults' = faults + 1
Goto(c, label) == pc' = [pc EXCEPT ![c] = label]

\* The end of an init, well or with an error; its locals go.
Exit(c) ==
    /\ Goto(c, "idle")
    /\ cfg' = [cfg EXCEPT ![c] = Local] /\ raw' = [raw EXCEPT ![c] = NoFile]

-----------------------------------------------------------------------------
\* The configuration in memory

\* A later run without --receipt-mode keeps the mode, and explicit is the default.
ModeFor(c, integration) ==
    IF Wanted[c].mode # "" THEN Wanted[c].mode
    ELSE IF integration.mode # "" THEN integration.mode
    ELSE "explicit"

\* ConfigureIntegration without its test for a key.
Configured_Always(c) ==
    [config EXCEPT ![Of(c)] = [mode |-> ModeFor(c, @), key |-> Wanted[c].key]]

\* A later run without --api-key keeps the key.
Configured(c) ==
    [config EXCEPT ![Of(c)] = [mode |-> ModeFor(c, @), key |-> @.key \/ Wanted[c].key]]

Load(c) ==
    /\ pc[c] = "idle" /\ config # Torn
    /\ cfg' = [cfg EXCEPT ![c] = Configured(c)]
    /\ Goto(c, "read")
    /\ raced' = (raced \/ Running # {})
    /\ overlapped' = overlapped \union {r \in {Of(c)} : RunningIn(r) # {}}
    /\ UNCHANGED <<files, raw, faults, written, keyed, hurt>>

-----------------------------------------------------------------------------
\* ConfigureHook

HookOnly == UNCHANGED <<config, cfg, faults, history>>

\* Only automatic receipts look at the hook that is there.
ReadHook_ExplicitReturns(c) ==
    /\ pc[c] = "read"
    /\ raw' = [raw EXCEPT ![c] = hook[Of(c)]]
    /\ Goto(c, IF cfg[c][Of(c)].mode = "explicit" THEN "save"
               ELSE IF hook[Of(c)] \in Versions THEN "check"
               ELSE "install")
    /\ UNCHANGED <<hook, backup>> /\ HookOnly

ReadHook(c) ==
    /\ pc[c] = "read"
    /\ raw' = [raw EXCEPT ![c] = hook[Of(c)]]
    /\ Goto(c, IF cfg[c][Of(c)].mode = "explicit"
               THEN IF hook[Of(c)] = Managed THEN "stat" ELSE "save"
               ELSE IF hook[Of(c)] \in Versions THEN "check" ELSE "install")
    /\ UNCHANGED <<hook, backup>> /\ HookOnly

CheckBackup_Skipped(c) ==
    /\ pc[c] = "check"
    /\ Goto(c, "move")
    /\ UNCHANGED <<hook, backup, raw>> /\ HookOnly

CheckBackup(c) ==
    /\ pc[c] = "check" /\ backup[Of(c)] = NoFile
    /\ Goto(c, "move")
    /\ UNCHANGED <<hook, backup, raw>> /\ HookOnly

\* A backup that exists requires manual review; a file that has gone cannot be
\* renamed or removed.
GiveUp(c) ==
    /\ \/ pc[c] = "check" /\ backup[Of(c)] # NoFile
       \/ pc[c] \in {"move", "remove"} /\ hook[Of(c)] = NoFile
       \/ pc[c] = "restore" /\ backup[Of(c)] = NoFile
    /\ Exit(c)
    /\ UNCHANGED <<files, faults, history>>

MoveAside(c) ==
    /\ pc[c] = "move" /\ hook[Of(c)] # NoFile
    /\ backup' = [backup EXCEPT ![Of(c)] = hook[Of(c)]]
    /\ hook' = [hook EXCEPT ![Of(c)] = NoFile]
    /\ Goto(c, "install")
    /\ UNCHANGED raw /\ HookOnly

Install(c) ==
    /\ pc[c] = "install"
    /\ hook' = [hook EXCEPT ![Of(c)] = Managed]
    /\ Goto(c, "save")
    /\ UNCHANGED <<backup, raw>> /\ HookOnly

InstallFails_NoRestore(c) ==
    /\ pc[c] = "install" /\ Fault
    /\ Exit(c)
    /\ UNCHANGED <<files, history>>

\* Writing the new hook fails: what was moved aside is moved back.
InstallFails(c) ==
    /\ pc[c] = "install" /\ Fault
    /\ IF raw[c] \in Versions /\ backup[Of(c)] # NoFile
       THEN /\ hook' = [hook EXCEPT ![Of(c)] = backup[Of(c)]]
            /\ backup' = [backup EXCEPT ![Of(c)] = NoFile]
       ELSE UNCHANGED <<hook, backup>>
    /\ Exit(c)
    /\ UNCHANGED <<config, history>>

StatBackup(c) ==
    /\ pc[c] = "stat"
    /\ Goto(c, IF backup[Of(c)] # NoFile THEN "restore" ELSE "remove")
    /\ UNCHANGED <<hook, backup, raw>> /\ HookOnly

RestoreHook(c) ==
    /\ pc[c] = "restore" /\ backup[Of(c)] # NoFile
    /\ hook' = [hook EXCEPT ![Of(c)] = backup[Of(c)]]
    /\ backup' = [backup EXCEPT ![Of(c)] = NoFile]
    /\ Goto(c, "save")
    /\ UNCHANGED raw /\ HookOnly

RemoveHook(c) ==
    /\ pc[c] = "remove" /\ hook[Of(c)] # NoFile
    /\ hook' = [hook EXCEPT ![Of(c)] = NoFile]
    /\ Goto(c, "save")
    /\ UNCHANGED <<backup, raw>> /\ HookOnly

-----------------------------------------------------------------------------
\* Save: os.WriteFile truncates the file and then writes it

Truncate(c) ==
    /\ pc[c] = "save"
    /\ config' = Torn
    /\ Goto(c, "write")
    /\ UNCHANGED <<hook, backup, cfg, raw, faults, history>>

WriteConfig(c) ==
    /\ pc[c] = "write"
    /\ config' = cfg[c]
    /\ keyed' = keyed \union {r \in {Of(c)} : Wanted[c].key}
    /\ hurt' = hurt \ {r \in {Of(c)} : cfg[c][r].mode = "automatic"}
    /\ Exit(c)
    /\ UNCHANGED <<hook, backup, faults, written, overlapped, raced>>

-----------------------------------------------------------------------------
\* A kill, or an error of any step but the writing of the hook.
Kill(c) ==
    /\ c \in Running /\ Fault
    /\ hurt' = hurt \union {Of(c)}
    /\ Exit(c)
    /\ UNCHANGED <<files, written, keyed, overlapped, raced>>

\* The user, or another tool, writes a pre-push hook over whatever is there.
UserInstalls(r, v) ==
    /\ v \notin written[r] /\ v \notin {hook[r], backup[r]}
    /\ hook' = [hook EXCEPT ![r] = v]
    /\ written' = [written EXCEPT ![r] = (@ \ {hook[r]}) \union {v}]
    /\ overlapped' = overlapped \union {q \in {r} : RunningIn(r) # {}}
    /\ UNCHANGED <<config, backup, pc, cfg, raw, faults, keyed, raced, hurt>>

Step(c) ==
    \/ Load(c) \/ ReadHook(c) \/ CheckBackup(c) \/ GiveUp(c) \/ MoveAside(c) \/ Install(c)
    \/ InstallFails(c) \/ StatBackup(c) \/ RestoreHook(c) \/ RemoveHook(c) \/ Truncate(c)
    \/ WriteConfig(c) \/ Kill(c)

Next ==
    \/ \E c \in Commands : Step(c)
    \/ \E r \in Edited, v \in Versions : UserInstalls(r, v)

Spec == Init /\ [][Next]_vars

-----------------------------------------------------------------------------
\* Properties

\* What a push runs of the user's hooks: the receipt hook runs its backup first.
Runs(r) == IF hook[r] = Managed THEN {backup[r]} ELSE {hook[r]}
RunsUsers(r) == written[r] # {} => Runs(r) \intersect written[r] # {}

\* No setup destroys a hook that the user wrote, whatever fails or is killed at any
\* point, unless another setup or the user works on the same repository meanwhile.
HookKept ==
    \A r \in Repositories \ overlapped : written[r] \subseteq {hook[r], backup[r]}

\* Between setups that were not killed, a push runs the user's hook; and setup with
\* automatic receipts repairs what a kill has left.
SetupLeavesHook ==
    \A r \in Repositories \ (overlapped \union hurt) : RunningIn(r) = {} => RunsUsers(r)

\* Between setups that were not killed, the receipt hook is installed exactly where
\* the configuration says automatic, but where the user has replaced it, although
\* the two are written apart and the file is written over by all repositories.
ModeIsHook ==
    ~raced /\ config # Torn =>
        \A r \in Repositories \ (overlapped \union hurt) :
            RunningIn(r) = {} /\ hook[r] \notin Versions =>
                (config[r].mode = "automatic" <=> hook[r] = Managed)

\* A repository that was given a key stays integrated through later setups of any
\* repository, unless two of them overlap or one dies while it saves.
IntegrationKept ==
    ~raced /\ config # Torn => \A r \in keyed : config[r].key
=================================================================================
