------------------------------ MODULE AgentHooks ------------------------------
(***************************************************************************)
(* The commands that edit the agents' own files: init, hooks refresh,      *)
(* uninstall and ledger capture hooks (cmd/init.go, cmd/hooks.go,          *)
(* cmd/uninstall.go, internal/agent/claudecode.go, internal/agent/codex.go *)
(* and internal/observationcapture/hooks.go).                              *)
(*                                                                         *)
(* The files are the user's: Claude Code's settings.json, Codex's          *)
(* hooks.json, which the observer of the change ledger shares, and Codex's *)
(* config.toml.  A command reads a file, changes it in memory, and writes  *)
(* it over in place, without a lock; it may be killed at any point, also   *)
(* between the truncation and the write.  Commands overlap with each other *)
(* and with the user's editor.                                             *)
(*                                                                         *)
(* Data: a matcher group is the sequence of its handlers; a handler of     *)
(* ours is the binary it runs; the lines of config.toml keep what the code *)
(* reads of them.  An event that has no groups and one that is not in the  *)
(* file are the same.                                                      *)
(***************************************************************************)
EXTENDS Naturals, Sequences, FiniteSets

CONSTANTS Events,
          OurEvents,      \* [Agents -> SUBSET Events], the events of each template
          ObserverEvents,
          Binaries,       \* a handler of ours is one of these
          Others,         \* handlers of the user and of other tools
          Observer,       \* the handler of the observation inbox
          Commands,
          Wanted,         \* [Commands -> Command]
          Issued,         \* the sets of commands of which one is given
          ClaudeExtension, CodexExtension,
          CodexFeature,   \* the feature the Codex CLI advertises; no CLI; or none
          Edited,         \* agents whose hooks the user edits while the model runs
          Trusted,        \* whether Codex trusts the project
          FirstHooks,     \* the hooks files there may be at first
          FirstConfig,    \* the contents config.toml may have at first
          None, Unknown,
          ConfigFile,     \* stands for config.toml among the files
          MaxSecond,      \* bound on the seconds that pass
          MaxEdits,       \* bound on the user's edits
          MaxKills        \* bound on the commands that are killed

Agents == {"claude-code", "codex"}
Handlers == Binaries \union Others \union {Observer}
Hooks == [Events -> Seq(Seq(Handlers))]
NoHooks == [e \in Events |-> <<>>]

\* A hooks file; an empty one is what a kill leaves, a broken one is no JSON.
Content ==
    {content \in [state : {"absent", "empty", "whole", "broken"}, hooks : Hooks] :
        content.state \in {"absent", "empty"} => content.hooks = NoHooks}
Absent == [state |-> "absent", hooks |-> NoHooks]
Empty  == [state |-> "empty", hooks |-> NoHooks]
Whole(hooks) == [state |-> "whole", hooks |-> hooks]
Readable(content) == content.state # "broken"

\* config.toml: headers, the feature keys, other keys, and whether the last line
\* ends in a newline; off holds the [hooks.state] tables with enabled = false.
Headers == {"[features]", "[table]"}
FeatureKeys == {"hooks", "codex_hooks"}
Line == [text : Headers \union FeatureKeys \union {"other", "garbled"}, on : BOOLEAN]
Config == [lines : Seq(Line), ended : BOOLEAN, off : SUBSET (Events \X Nat \X Nat)]

NoConfig == [lines |-> <<>>, ended |-> TRUE, off |-> {}]

Command ==
    [kind : {"init", "refresh", "uninstall", "restore", "observe"}, binary : Binaries,
     agent : {"auto", "claude-code", "codex"}, enable : BOOLEAN, purge : BOOLEAN]

Seconds == 0 .. MaxSecond

ASSUME HooksAssumption ==
    /\ OurEvents \in [Agents -> SUBSET Events] /\ ObserverEvents \subseteq Events
    /\ Binaries \intersect (Others \union {Observer}) = {} /\ Observer \notin Others
    /\ {None, Unknown} \intersect Handlers = {} /\ ConfigFile \notin Agents
    /\ Wanted \in [Commands -> Command] /\ Issued \subseteq SUBSET Commands
    /\ ClaudeExtension \in BOOLEAN /\ CodexExtension \in BOOLEAN /\ Trusted \in BOOLEAN
    /\ CodexFeature \in FeatureKeys \union {"no_cli", "unsupported"}
    /\ Edited \subseteq Agents
    /\ FirstHooks \subseteq [Agents -> Content]
    /\ FirstConfig \subseteq Config
    /\ MaxSecond \in Nat /\ MaxEdits \in Nat /\ MaxKills \in Nat

VARIABLES file,       \* the hooks file of each agent
          toml,       \* ~/.codex/config.toml
          backup,     \* by agent and second; Absent where there is none
          second,
          edits, kills,
          \* the variables of each command
          pc,
          state,      \* codexStatus.State
          found,      \* claudeDetected
          todo,       \* the agents not done yet; in init, claudeInstalled and codexInstalled
          copy,       \* the hooks file in memory
          config,     \* config.toml in memory
          over,       \* what happened to the file that the command has truncated
          \* what follows is not in the code
          unrelated,  \* each file's handlers that are not ours, as user and tools left them
          rest,       \* what enabling the feature leaves alone in config.toml
          expected,   \* the binary that each file's handlers of ours should run
          excused,    \* files of which nothing is promised: two changes of it have
                      \*   overlapped, or its only good copy is gone
          refused     \* commands that ended with `no supported agent detected'

fileVars  == <<file, toml, backup>>
localVars == <<state, found, todo, copy, config, over>>
ghostVars == <<unrelated, rest, expected, excused, refused>>
vars == <<fileVars, second, edits, kills, pc, localVars, ghostVars>>

-----------------------------------------------------------------------------
\* Groups of handlers

Own(handler) == handler \in Binaries
Members(s) == {s[i] : i \in DOMAIN s}

\* The elements of s that are in S, in their order.
Filter(s, S) ==
    LET kept[n \in 0 .. Len(s)] ==
            IF n = 0 THEN <<>>
            ELSE IF s[n] \in S THEN Append(kept[n - 1], s[n]) ELSE kept[n - 1]
    IN  kept[Len(s)]

Theirs(group) == Filter(group, Handlers \ Binaries)

\* isSecuardenEntry
IsEntry(group) == \E h \in Members(group) : Own(h)

\* removeSecuardenEntries, were groups removed as a whole.
RemoveEntries_Groups(groups) == Filter(groups, Seq(Handlers \ Binaries))

\* removeSecuardenEntries: a group that others share keeps their handlers.
RemoveEntries(groups) ==
    LET kept == Filter(groups, Seq(Handlers) \ (Seq(Binaries) \ {<<>>}))
    IN  [i \in DOMAIN kept |-> Theirs(kept[i])]

\* Not in the code: the groups without our handlers.
TheirGroups(groups) == Filter([i \in DOMAIN groups |-> Theirs(groups[i])], Seq(Handlers) \ {<<>>})
TheirPart(h) == [e \in Events |-> TheirGroups(h[e])]
OwnAt(groups) ==
    UNION {{<<i, j>> : j \in {k \in DOMAIN groups[i] : Own(groups[i][k])}} : i \in DOMAIN groups}

\* InstallHooks and InstallCodexHooks, in memory, without the removal.
Installed_Twice(a, h, binary) ==
    [e \in Events |-> IF e \in OurEvents[a] THEN Append(h[e], <<binary>>) ELSE h[e]]

\* InstallHooks and InstallCodexHooks, in memory: ours is one group at the end.
Installed(a, h, binary) ==
    [e \in Events |->
        IF e \in OurEvents[a] THEN Append(RemoveEntries(h[e]), <<binary>>) ELSE h[e]]

\* RemoveHooks and RemoveCodexHooks, in memory.
Removed(a, h) ==
    [e \in Events |-> IF e \in OurEvents[a] THEN RemoveEntries(h[e]) ELSE h[e]]

\* MergeHooks, in memory: an entry that is there already is not added again.
Merged(h) ==
    [e \in Events |->
        IF e \in ObserverEvents /\ <<Observer>> \notin Members(h[e])
        THEN Append(h[e], <<Observer>>) ELSE h[e]]

\* HooksInstalled and CodexHooksInstalled.
HooksInstalled(a) ==
    /\ Readable(file[a])
    /\ \E e \in OurEvents[a] : \E g \in Members(file[a].hooks[e]) : IsEntry(g)

-----------------------------------------------------------------------------
\* config.toml

InFeatures(ls, i) ==
    \E h \in 1 .. i - 1 :
        /\ ls[h].text = "[features]"
        /\ \A k \in h + 1 .. i - 1 : ls[k].text \notin Headers

FeatureLines(ls, feature) == {i \in DOMAIN ls : InFeatures(ls, i) /\ ls[i].text = feature}
Parses(ls) == \A f \in FeatureKeys : Cardinality(FeatureLines(ls, f)) <= 1
Tables(ls) == {i \in DOMAIN ls : ls[i].text = "[features]"}
On(ls, feature) == \E i \in FeatureLines(ls, feature) : ls[i].on

\* setCodexFeature: the key is set where it is, or added to its table, before the
\* next header or at the very end, or with a table of its own.  A text that does
\* not end in a newline swallows what is added at the very end.
Key(feature) == [text |-> feature, on |-> TRUE]
Stops(ls, feature) ==
    {i \in DOMAIN ls : /\ \E h \in 1 .. i - 1 : ls[h].text = "[features]"
                       /\ ls[i].text \in {"[table]", feature}}
First(S) == CHOOSE i \in S : \A j \in S : i <= j

\* setCodexFeature that writes over the next header instead of moving it down.
SetFeature_OverHeader(c, feature) ==
    LET ls == c.lines
        stops == Stops(ls, feature)
        at == First(stops)
    IN  IF Tables(ls) = {}
        THEN [c EXCEPT !.lines = ls \o <<[text |-> "[features]", on |-> FALSE], Key(feature)>>,
                       !.ended = TRUE]
        ELSE IF stops = {}
        THEN [c EXCEPT !.lines = Append(ls, Key(feature))]
        ELSE [c EXCEPT !.lines = [ls EXCEPT ![at] = Key(feature)]]

SetFeature(c, feature) ==
    LET ls == c.lines
        stops == Stops(ls, feature)
        at == First(stops)
    IN  IF Tables(ls) = {}
        THEN [c EXCEPT !.lines = ls \o <<[text |-> "[features]", on |-> FALSE], Key(feature)>>,
                       !.ended = TRUE]
        ELSE IF stops = {} /\ c.ended
        THEN [c EXCEPT !.lines = Append(ls, Key(feature))]
        ELSE IF stops = {}
        THEN [c EXCEPT !.lines = [ls EXCEPT ![Len(ls)] = [text |-> "garbled", on |-> FALSE]],
                       !.ended = TRUE]
        ELSE IF ls[at].text = feature
        THEN [c EXCEPT !.lines = [ls EXCEPT ![at] = Key(feature)]]
        ELSE [c EXCEPT !.lines = SubSeq(ls, 1, at - 1) \o <<Key(feature)>>
                                   \o SubSeq(ls, at, Len(ls))]

\* disabledCodexHooks: by position, and only where a handler of ours stands.
DisabledOwn(h) == {p \in toml.off : <<p[2], p[3]>> \in OwnAt(h[p[1]])}

HasCLI == CodexFeature # "no_cli"
Feature ==
    IF HasCLI THEN CodexFeature
    ELSE IF FeatureLines(toml.lines, "codex_hooks") # {} THEN "codex_hooks" ELSE "hooks"

\* InspectCodex and inspectCodexExtension.
CodexState ==
    IF ~HasCLI /\ ~CodexExtension THEN "unavailable"
    ELSE IF CodexFeature = "unsupported" \/ ~Parses(toml.lines) THEN "unsupported"
    ELSE IF ~Trusted THEN "untrusted"
    ELSE IF ~On(toml.lines, Feature) THEN "disabled"
    ELSE IF Readable(file["codex"]) /\ DisabledOwn(file["codex"].hooks) # {} THEN "disabled"
    ELSE "enabled"

\* DetectClaudeCode
ClaudeFound == file["claude-code"].state # "absent" \/ ClaudeExtension

-----------------------------------------------------------------------------
\* Not in the code: what setCodexFeature should leave alone, that is the lines but
\* those of the feature, and whether the text can be read.
OtherLines(ls) == Filter(ls, {l \in Line : l.text \notin {"[features]"} \union FeatureKeys})
Rest(ls) == [others |-> OtherLines(ls), parses |-> Parses(ls)]

\* Where nothing is promised: what is added would be swallowed, or two tables of one
\* name make the text no TOML, which the code does not notice.
Unfit(c, feature) ==
    \/ Tables(c.lines) # {} /\ Stops(c.lines, feature) = {} /\ ~c.ended
    \/ Cardinality(Tables(c.lines)) > 1

TypeOK ==
    /\ file \in [Agents -> Content] /\ toml \in Config
    /\ backup \in [Agents -> [Seconds -> Content]]
    /\ second \in Seconds /\ edits \in 0 .. MaxEdits /\ kills \in 0 .. MaxKills
    /\ pc \in [Commands -> {"idle", "enable", "truncate_config", "fill_config", "select",
                            "decide", "look", "read", "backup", "truncate", "fill", "merge",
                            "purge", "done", "failed", "killed"}]
    /\ state \in [Commands -> {"none", "unavailable", "unsupported", "untrusted", "disabled",
                               "enabled"}]
    /\ found \in [Commands -> BOOLEAN]
    /\ todo \in [Commands -> SUBSET Agents]
    /\ copy \in [Commands -> Content] /\ config \in [Commands -> Config]
    /\ \A c \in Commands :
         pc[c] \in {"look", "read", "backup", "truncate", "fill", "merge"} => todo[c] # {}
    /\ over \in [Commands -> {"no", "written", "replaced"}]
    /\ unrelated \in [Agents -> Hooks]
    /\ rest \in [others : Seq(Line), parses : BOOLEAN]
    /\ expected \in [Agents -> Binaries \union {None, Unknown}]
    /\ excused \subseteq Agents \union {ConfigFile} /\ refused \subseteq Commands

Init ==
    /\ file \in FirstHooks /\ toml \in FirstConfig
    /\ backup = [a \in Agents |-> [s \in Seconds |-> Absent]]
    /\ second = 0 /\ edits = 0 /\ kills = 0
    /\ \E cs \in Issued : pc = [c \in Commands |-> IF c \in cs THEN "idle" ELSE "done"]
    /\ state = [c \in Commands |-> "none"]
    /\ found = [c \in Commands |-> FALSE]
    /\ todo = [c \in Commands |-> {}]
    /\ copy = [c \in Commands |-> Absent] /\ config = [c \in Commands |-> NoConfig]
    /\ over = [c \in Commands |-> "no"]
    /\ unrelated = [a \in Agents |-> TheirPart(file[a].hooks)] /\ rest = Rest(toml.lines)
    /\ expected = [a \in Agents |-> Unknown] /\ excused = {} /\ refused = {}

Goto(c, label) == pc' = [pc EXCEPT ![c] = label]
Is(c, kinds) == Wanted[c].kind \in kinds

\* The agent at hand: Claude Code comes first.
Current(c) == IF "claude-code" \in todo[c] THEN "claude-code" ELSE "codex"

\* Commands that have read a file and will write it.
Holding(a) ==
    {c \in Commands : pc[c] \in {"backup", "truncate", "fill", "merge"} /\ Current(c) = a}
HoldingConfig == {c \in Commands : pc[c] \in {"truncate_config", "fill_config"}}

\* The next agent, or the end of the command.
Advance(c) ==
    LET left == todo[c] \ {Current(c)}
    IN  /\ todo' = [todo EXCEPT ![c] = left]
        /\ Goto(c, IF left # {} THEN IF Is(c, {"init"}) THEN "read" ELSE "look"
                   ELSE IF Is(c, {"uninstall"}) /\ Wanted[c].purge THEN "purge"
                   ELSE "done")

-----------------------------------------------------------------------------
\* runInit, up to the choice of the agents

FilesOnly == UNCHANGED <<second, edits, kills>>
Asks(c, agents) == Wanted[c].agent \in agents

Enables(c) == Wanted[c].enable /\ Asks(c, {"auto", "codex"})

\* The agents are detected.  At a terminal, where the Codex extension is found with
\* its hooks disabled, the user is asked whether to enable them.
StartInit(c) ==
    /\ pc[c] = "idle" /\ Is(c, {"init"})
    /\ state' = [state EXCEPT ![c] = CodexState]
    /\ found' = [found EXCEPT ![c] = ClaudeFound]
    /\ \E yes \in BOOLEAN :
         Goto(c, IF /\ ~Wanted[c].enable /\ CodexExtension /\ CodexState = "disabled"
                    /\ Asks(c, {"auto", "codex"}) /\ yes
                 THEN "enable" ELSE "select")
    /\ UNCHANGED <<fileVars, todo, copy, config, over, ghostVars>> /\ FilesOnly

\* Which agents are installed is settled before the flag enables Codex's hooks.
\* Without any agent the user is asked, which fails without a terminal.
Select(c) ==
    /\ pc[c] = "select"
    /\ todo' = [todo EXCEPT ![c] =
         {a \in Agents : Asks(c, {"auto", a}) /\ IF a = "codex" THEN state[c] = "enabled" ELSE found[c]}]
    /\ \E answered \in BOOLEAN :
         Goto(c, IF \/ Asks(c, {"auto"}) /\ ~found[c] /\ state[c] # "enabled" /\ ~answered
                    \/ Asks(c, {"claude-code"}) /\ ~found[c]
                    \/ Enables(c) /\ state[c] = "untrusted" THEN "failed"
                 ELSE IF Enables(c) /\ state[c] = "disabled" THEN "enable"
                 ELSE "decide")
    /\ UNCHANGED <<fileVars, state, copy, config, over, ghostVars>> /\ FilesOnly
    /\ found' = [found EXCEPT ![c] = FALSE]

\* The configuration of Secuarden, which is saved here, is in Setup.
Decide(c) ==
    LET unfit == Asks(c, {"codex"}) /\ state[c] # "enabled"
    IN  /\ pc[c] = "decide"
        /\ Goto(c, IF unfit \/ todo[c] = {} THEN "failed" ELSE "read")
        /\ refused' = IF ~unfit /\ todo[c] = {} THEN refused \union {c} ELSE refused
        /\ UNCHANGED <<fileVars, localVars, unrelated, rest, expected, excused>> /\ FilesOnly

\* EnableCodexHooks.
ReadConfig(c) ==
    /\ pc[c] = "enable"
    /\ IF Parses(toml.lines)
       THEN /\ config' = [config EXCEPT ![c] = SetFeature(toml, Feature)]
            /\ excused' = IF HoldingConfig # {} \/ Unfit(toml, Feature)
                          THEN excused \union {ConfigFile} ELSE excused
            /\ Goto(c, "truncate_config")
       ELSE Goto(c, "failed") /\ UNCHANGED <<config, excused>>
    /\ UNCHANGED <<fileVars, state, found, todo, copy, over>>
    /\ UNCHANGED <<unrelated, rest, expected, refused>> /\ FilesOnly

TruncateConfig(c) ==
    /\ pc[c] = "truncate_config"
    /\ toml' = NoConfig
    /\ Goto(c, "fill_config")
    /\ UNCHANGED <<file, backup, localVars, ghostVars>> /\ FilesOnly

\* The write, after which Codex is inspected again.
FillConfig(c) ==
    /\ pc[c] = "fill_config"
    /\ toml' = config[c] /\ UNCHANGED file
    /\ Goto(c, IF Wanted[c].enable THEN "decide" ELSE "select")
    /\ state' = [state EXCEPT ![c] = CodexState']
    /\ config' = [config EXCEPT ![c] = NoConfig]
    /\ UNCHANGED <<backup, found, todo, copy, over, ghostVars>> /\ FilesOnly

-----------------------------------------------------------------------------
\* hooks refresh, uninstall

StartBoth(c) ==
    /\ pc[c] = "idle" /\ Is(c, {"refresh", "uninstall"})
    /\ todo' = [todo EXCEPT ![c] = Agents]
    /\ Goto(c, "look")
    /\ UNCHANGED <<fileVars, state, found, copy, config, over, ghostVars>> /\ FilesOnly

\* A refresh, and an uninstall of Codex's hooks, go on where hooks are installed.
Look(c) ==
    /\ pc[c] = "look"
    /\ IF (Is(c, {"uninstall"}) /\ Current(c) = "claude-code") \/ HooksInstalled(Current(c))
       THEN Goto(c, "read") /\ UNCHANGED todo
       ELSE Advance(c)
    /\ UNCHANGED <<fileVars, state, found, copy, config, over, ghostVars>> /\ FilesOnly

-----------------------------------------------------------------------------
\* InstallHooks, InstallCodexHooks, RemoveHooks, RemoveCodexHooks

\* readSettings.  A file without hooks needs no removal.
ReadSettings(c) ==
    LET a == Current(c)
        content == file[a]
        removes == Is(c, {"uninstall"})
    IN  /\ pc[c] = "read"
        /\ IF ~Readable(content)
           THEN Goto(c, "failed") /\ UNCHANGED <<todo, copy, excused>>
           ELSE IF removes /\ content.hooks = NoHooks
           THEN Advance(c) /\ UNCHANGED <<copy, excused>>
           ELSE /\ copy' = [copy EXCEPT ![c] = content]
                /\ excused' = IF Holding(a) # {} THEN excused \union {a} ELSE excused
                /\ Goto(c, IF removes THEN "truncate" ELSE "backup")
                /\ UNCHANGED todo
        /\ UNCHANGED <<fileVars, state, found, config, over>>
        /\ UNCHANGED <<unrelated, rest, expected, refused>> /\ FilesOnly

\* Not in the code: a damaged file whose backup would be overwritten.
Clash(a) == backup[a][second] # Absent /\ file[a].state # "whole"

\* backupSettings and backupCodexHooks read the file once more; of two backups in
\* one second the later one stays.
Backup(c) ==
    LET a == Current(c)
    IN  /\ pc[c] = "backup"
        /\ backup' = IF file[a].state = "absent" THEN backup
                     ELSE [backup EXCEPT ![a][second] = file[a]]
        /\ excused' = IF Clash(a) THEN excused \union {a} ELSE excused
        /\ Goto(c, "truncate")
        /\ UNCHANGED <<file, toml, localVars, unrelated, rest, expected, refused>> /\ FilesOnly

\* os.WriteFile: the file is empty before it is written.
Truncate(c) ==
    /\ pc[c] = "truncate"
    /\ file' = [file EXCEPT ![Current(c)] = Empty]
    /\ over' = [over EXCEPT ![c] = "no"]
    /\ Goto(c, "fill")
    /\ UNCHANGED <<toml, backup, state, found, todo, copy, config, ghostVars>> /\ FilesOnly

Written(c) ==
    LET a == Current(c)
    IN  CASE Is(c, {"restore"})   -> copy[c]
          [] Is(c, {"uninstall"}) -> Whole(Removed(a, copy[c].hooks))
          [] OTHER                -> Whole(Installed(a, copy[c].hooks, Wanted[c].binary))

\* Others than c that have truncated the file will write over what is there.
Overwrite(c, a, how) ==
    over' = [d \in Commands |-> IF d = c THEN "no"
                               ELSE IF pc[d] = "fill" /\ Current(d) = a THEN how
                               ELSE over[d]]

\* Two writes at the beginning of one file may leave the end of the longer one; what
\* is written to a file that was replaced is gone.
Fill(c) ==
    LET a == Current(c)
    IN  /\ pc[c] = "fill"
        /\ \/ over[c] # "replaced" /\ file' = [file EXCEPT ![a] = Written(c)]
           \/ over[c] = "written" /\ file' = [file EXCEPT ![a] = [Written(c) EXCEPT !.state = "broken"]]
           \/ over[c] = "replaced" /\ UNCHANGED file
        /\ Overwrite(c, a, IF over[c] = "replaced" THEN "replaced" ELSE "written")
        /\ expected' = [expected EXCEPT ![a] =
             CASE Is(c, {"restore"})   -> Unknown
               [] Is(c, {"uninstall"}) -> None
               [] OTHER                -> Wanted[c].binary]
        /\ copy' = [copy EXCEPT ![c] = Absent] /\ Advance(c)
        /\ UNCHANGED <<toml, backup, state, found, config>>
        /\ UNCHANGED <<unrelated, rest, excused, refused>> /\ FilesOnly

\* uninstall --purge
Purge(c) ==
    /\ pc[c] = "purge"
    /\ backup' = [a \in Agents |-> [s \in Seconds |-> Absent]]
    /\ excused' = excused
         \union {a \in Agents : TheirPart(file[a].hooks) # unrelated[a] \/ Holding(a) # {}}
    /\ Goto(c, "done")
    /\ UNCHANGED <<file, toml, localVars, unrelated, rest, expected, refused>> /\ FilesOnly

-----------------------------------------------------------------------------
\* uninstall --restore-backup, ledger capture hooks --install

Backups(a) == {s \in Seconds : backup[a][s] # Absent}

LastBackup(a) == backup[a][CHOOSE s \in Backups(a) : \A t \in Backups(a) : t <= s]

\* restoreBackup takes the last name: the backups of Codex's hooks sort first.
Latest == LastBackup(IF Backups("claude-code") # {} THEN "claude-code" ELSE "codex")

\* Not in the code: whether the most recent backup of settings.json, which the flag
\* promises, is there and has the handlers as they were left.
WorthRestoring ==
    /\ Backups("claude-code") # {}
    /\ TheirPart(LastBackup("claude-code").hooks) = unrelated["claude-code"]

StartRestore(c) ==
    /\ pc[c] = "idle" /\ Is(c, {"restore"})
    /\ IF \E a \in Agents : Backups(a) # {}
       THEN /\ copy' = [copy EXCEPT ![c] = Latest]
            /\ todo' = [todo EXCEPT ![c] = {"claude-code"}]
            /\ excused' = IF Holding("claude-code") # {} \/ ~WorthRestoring
                          THEN excused \union {"claude-code"} ELSE excused
            /\ Goto(c, "truncate")
       ELSE Goto(c, "failed") /\ UNCHANGED <<copy, todo, excused>>
    /\ UNCHANGED <<fileVars, state, found, config, over>>
    /\ UNCHANGED <<unrelated, rest, expected, refused>> /\ FilesOnly

\* MergeHooks takes an empty file for an error.
StartMerge(c) ==
    /\ pc[c] = "idle" /\ Is(c, {"observe"})
    /\ IF file["codex"].state \in {"absent", "whole"}
       THEN /\ copy' = [copy EXCEPT ![c] = file["codex"]]
            /\ todo' = [todo EXCEPT ![c] = {"codex"}]
            /\ excused' = IF Holding("codex") # {} THEN excused \union {"codex"} ELSE excused
            /\ Goto(c, "merge")
       ELSE Goto(c, "failed") /\ UNCHANGED <<copy, todo, excused>>
    /\ UNCHANGED <<fileVars, state, found, config, over>>
    /\ UNCHANGED <<unrelated, rest, expected, refused>> /\ FilesOnly

\* Not in the code: what was left, and the observer's handler where it is missing.
WithObserver(left, h) ==
    [e \in Events |->
        IF e \in ObserverEvents /\ <<Observer>> \notin Members(h[e])
        THEN Append(left[e], <<Observer>>) ELSE left[e]]

\* WriteDurable replaces the file.
Merge(c) ==
    LET h == copy[c].hooks
        left == unrelated["codex"]
    IN  /\ pc[c] = "merge"
        /\ file' = [file EXCEPT !["codex"] = Whole(Merged(h))]
        /\ unrelated' = [unrelated EXCEPT !["codex"] = WithObserver(left, h)]
        /\ excused' = IF TheirPart(h) # left THEN excused \union {"codex"} ELSE excused
        /\ Overwrite(c, "codex", "replaced")
        /\ copy' = [copy EXCEPT ![c] = Absent] /\ Advance(c)
        /\ UNCHANGED <<toml, backup, state, found, config>>
        /\ UNCHANGED <<rest, expected, refused>> /\ FilesOnly

-----------------------------------------------------------------------------
\* Kills, the clock and the user

\* A command is killed, or a call fails.  A file that uninstall had truncated is not
\* in a backup; neither is config.toml.  The backup that is being written may be torn,
\* and with it one of the same second.
Kill(c) ==
    LET a == Current(c)
    IN  /\ kills < MaxKills /\ kills' = kills + 1
        /\ pc[c] \notin {"idle", "done", "failed", "killed"}
        /\ Goto(c, "killed")
        /\ \/ UNCHANGED backup
           \/ /\ pc[c] = "backup" /\ file[a].state # "absent"
              /\ backup' = [backup EXCEPT ![a][second] = Empty]
        /\ excused' = excused
             \union (IF pc[c] = "fill" /\ Is(c, {"uninstall", "restore"}) THEN {a} ELSE {})
             \union (IF pc[c] = "fill_config" THEN {ConfigFile} ELSE {})
             \union (IF backup' # backup /\ Clash(a) THEN {a} ELSE {})
        /\ copy' = [copy EXCEPT ![c] = Absent] /\ config' = [config EXCEPT ![c] = NoConfig]
        /\ todo' = [todo EXCEPT ![c] = {}] /\ over' = [over EXCEPT ![c] = "no"]
        /\ found' = [found EXCEPT ![c] = FALSE]
        /\ UNCHANGED <<file, toml, second, edits, state>>
        /\ UNCHANGED <<unrelated, rest, expected, refused>>

Tick ==
    /\ second < MaxSecond /\ second' = second + 1
    /\ UNCHANGED <<fileVars, edits, kills, pc, localVars, ghostVars>>

\* What the user leaves is what should be kept from now on.
UserSaves(a, content) ==
    /\ edits < MaxEdits /\ edits' = edits + 1
    /\ file' = [file EXCEPT ![a] = content]
    /\ unrelated' = [unrelated EXCEPT ![a] = TheirPart(content.hooks)]
    /\ excused' = IF Holding(a) # {} THEN excused \union {a} ELSE excused \ {a}
    /\ expected' = IF a \in excused \/ file[a].state = "empty" THEN [expected EXCEPT ![a] = Unknown] ELSE expected
    /\ Overwrite(None, a, "written")
    /\ UNCHANGED <<toml, backup, second, kills, pc, state, found, todo, copy, config, rest, refused>>

\* A handler in a group of its own, or in a group with another.
UserAdds(a, e, h) ==
    LET groups == file[a].hooks[e]
        used == UNION {Members(g) : g \in Members(groups)}
    IN  /\ file[a].state # "broken" /\ h \notin used
        /\ \/ UserSaves(a, Whole([file[a].hooks EXCEPT ![e] = Append(@, <<h>>)]))
           \/ /\ groups # <<>>
              /\ UserSaves(a, Whole([file[a].hooks EXCEPT ![e][1] = Append(@, h)]))

UserBreaks(a)  == file[a].state = "whole" /\ UserSaves(a, [file[a] EXCEPT !.state = "broken"])
UserRepairs(a) == file[a].state = "broken" /\ UserSaves(a, [file[a] EXCEPT !.state = "whole"])

\* Codex records by position that the user has disabled a handler.
UserDisables(e, i, j) ==
    /\ edits < MaxEdits /\ edits' = edits + 1 /\ HoldingConfig = {} /\ "codex" \in Edited
    /\ i \in DOMAIN file["codex"].hooks[e] /\ j \in DOMAIN file["codex"].hooks[e][i]
    /\ toml' = [toml EXCEPT !.off = @ \union {<<e, i, j>>}]
    /\ UNCHANGED <<file, backup, second, kills, pc, localVars, ghostVars>>

Done == \A c \in Commands : pc[c] \in {"done", "failed", "killed"}

Next ==
    \/ \E c \in Commands :
         \/ StartInit(c) \/ Select(c) \/ Decide(c)
         \/ ReadConfig(c) \/ TruncateConfig(c) \/ FillConfig(c)
         \/ StartBoth(c) \/ Look(c) \/ ReadSettings(c) \/ Backup(c)
         \/ Truncate(c) \/ Fill(c) \/ Purge(c)
         \/ StartRestore(c) \/ StartMerge(c) \/ Merge(c) \/ Kill(c)
    \/ Tick
    \/ \E a \in Edited : \/ UserBreaks(a) \/ UserRepairs(a)
                         \/ \E e \in Events, h \in Others : UserAdds(a, e, h)
    \/ \E e \in Events, i, j \in 1 .. 2 : UserDisables(e, i, j)

Spec == Init /\ [][Next]_vars

-----------------------------------------------------------------------------
\* Properties

\* Whatever is killed, the handlers of the user and of other tools, among them the
\* observer's, are in the file as the user and the tools left them, or in memory of the
\* command that is writing it; or the file has none of them, and a backup has them all.
\* A restore puts them back.  Excused, until the user saves the file again, are
\*   - files two of whose changes overlapped;
\*   - those that a killed uninstall or restore left empty;
\*   - damaged ones whose backup was purged, or overwritten or torn within its second,
\*     or to which the observer's handlers were added before anything was restored;
\*   - a settings.json that was restored although its most recent backup did not have
\*     them: they are newer, the backup is torn or itself of a damaged file, or there is
\*     none and restoreBackup took one of Codex's hooks.
UnrelatedKept ==
    \A a \in Agents \ excused :
        LET left == unrelated[a]
            inFile == TheirPart(file[a].hooks)
        IN  \/ inFile = left
            \/ \E c \in Commands : pc[c] = "fill" /\ Current(c) = a
            \/ inFile = NoHooks /\ \E s \in Seconds : TheirPart(backup[a][s].hooks) = left

\* Each event of a file has exactly one handler of ours, which
\* runs the binary of the last command that wrote the file, and none after an uninstall,
\* however often hooks were installed and whatever groups they shared with others.
OwnAsReported ==
    \A a \in Agents \ excused :
        file[a].state = "whole" /\ expected[a] # Unknown =>
            \A e \in OurEvents[a] :
                LET groups == file[a].hooks[e]
                IN  IF expected[a] = None THEN OwnAt(groups) = {}
                    ELSE \E p \in OwnAt(groups) :
                             OwnAt(groups) = {p} /\ groups[p[1]][p[2]] = expected[a]

\* Enabling Codex's hooks keeps the other lines of config.toml, in their order, and
\* leaves a text that can be read one that can.  Excused are a kill in the middle, two
\* commands that overlap, a [features] table at the end of a text without a last
\* newline, and a text that has two of them.
ConfigKept ==
    ConfigFile \notin excused /\ HoldingConfig = {} => Rest(toml.lines) = rest

\* `No supported AI coding agent detected; Claude Code settings or a supported Codex
\* hook feature are required' is not the answer to an init for Codex that has found
\* its hooks enabled.
RefusedOnlyWithoutAgent ==
    \A c \in refused : Asks(c, {"auto", "codex"}) => state[c] # "enabled"
===============================================================================
