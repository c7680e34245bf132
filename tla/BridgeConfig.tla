---------------------------- MODULE BridgeConfig ----------------------------
(***************************************************************************)
(* The configuration of the Go bridge: in memory under the lock of the     *)
(* service, and in the file CONFIG_PATH, which is written without it       *)
(* (SetConfig and GetConfig of internal/bridge/service.go, the PUT handler *)
(* of internal/api/api.go, internal/config/config.go, and main).           *)
(*                                                                         *)
(* Grain.  The section under s.mu is one step, and so is each call of      *)
(* os.WriteFile to the system: open and truncate, then write.  Requests    *)
(* overlap, and the process may die at any point.                          *)
(*                                                                         *)
(* Data.  endpoint stands for the three fields that the environment can    *)
(* override.  The number of mappings decides how long the document is: a   *)
(* file is a sequence of blocks, each of one document.  Documents that do  *)
(* not decode are refused before anything happens and left out.            *)
(***************************************************************************)
EXTENDS Naturals, Sequences

CONSTANTS
    Handlers,     \* requests that can be in progress at once
    Endpoints,    \* values of the fields with an environment variable
    DefaultEndpoint,
    MaxMappings,  \* bound: mappings in a configuration
    Unset,        \* an environment variable that is not set
    NoConfig      \* none

Config  == [endpoint : Endpoints, mappings : 0..MaxMappings]
Default == [endpoint |-> DefaultEndpoint, mappings |-> 0]

ASSUME ConfigAssumption ==
    /\ MaxMappings \in Nat /\ DefaultEndpoint \in Endpoints
    /\ Unset \notin Endpoints /\ NoConfig \notin Config

VARIABLES
    up,        \* the process runs
    path,      \* CONFIG_PATH is set
    env,       \* the environment variable, or Unset
    mem,       \* s.cfg
    file,      \* the contents of the file: blocks <<configuration, index>>
    pc,        \* what each handler does next
    arg,       \* the configuration it was sent
    alone,     \* history: no other save has overlapped the one in progress
    kept       \* history: what such a save has acknowledged, until the next save

vars == <<up, path, env, mem, file, pc, arg, alone, kept>>

Block == Config \X (0..MaxMappings)
TypeOK ==
    /\ up \in BOOLEAN /\ path \in BOOLEAN
    /\ env \in Endpoints \cup {Unset}
    /\ mem \in Config
    /\ file \in Seq(Block)
    /\ pc \in [Handlers -> {"idle", "open", "write", "answer"}]
    /\ arg \in [Handlers -> Config]
    /\ alone \in [Handlers -> BOOLEAN]
    /\ kept \in Config \cup {NoConfig}

-----------------------------------------------------------------------------
\* json.MarshalIndent: one block, and one more for each mapping.
Document(c) == [i \in 1..(c.mappings + 1) |-> <<c, i - 1>>]

\* What a write at the beginning of a file makes of it.
Over(d, f) == [i \in 1..(IF Len(d) > Len(f) THEN Len(d) ELSE Len(f)) |->
                 IF i <= Len(d) THEN d[i] ELSE f[i]]

\* LoadFile.  A document loads as itself; a part of one, or nothing, does not
\* load; what two documents are mixed into may load as anything or not.
IsPart(f) == \A i, j \in 1..Len(f) : f[i][1] = f[j][1]
Loads(f)  ==
    IF \E c \in Config : f = Document(c) THEN {c \in Config : f = Document(c)}
    ELSE {NoConfig} \cup (IF IsPart(f) THEN {} ELSE Config)

\* Fault: a variable that is not set overrides all the same.
OverriddenAlways(c, e) == [c EXCEPT !.endpoint = e]

\* The environment has the last word.
Overridden(c, e) == IF e = Unset THEN c ELSE [c EXCEPT !.endpoint = e]

Idle == /\ pc' = [h \in Handlers |-> "idle"]
        /\ alone' = [h \in Handlers |-> FALSE]

\* Fault: the file is read, but what it says is not used.
StartIgnoresFile(e, p) ==
    /\ ~up /\ up' = TRUE
    /\ path' = p /\ env' = e
    /\ mem' = Overridden(Default, e)
    /\ UNCHANGED <<file, pc, arg, alone, kept>>

\* main, in any environment.
Start(e, p) ==
    /\ ~up /\ up' = TRUE
    /\ path' = p /\ env' = e
    /\ \E c \in (IF p THEN Loads(file) ELSE {NoConfig}) :
          mem' = Overridden(IF c = NoConfig THEN Default ELSE c, e)
    /\ UNCHANGED <<file, pc, arg, alone, kept>>

Crash ==
    /\ up /\ up' = FALSE
    /\ Idle
    /\ UNCHANGED <<path, env, mem, file, arg, kept>>

Saving == \E h \in Handlers : pc[h] \in {"open", "write"}

\* PUT /api/config, decoded; SetConfig up to the unlock.
SetConfig(h, c) ==
    /\ up /\ pc[h] = "idle"
    /\ mem' = c
    /\ arg' = [arg EXCEPT ![h] = c]
    /\ pc' = [pc EXCEPT ![h] = IF path THEN "open" ELSE "answer"]
    /\ alone' = [g \in Handlers |-> g = h /\ ~Saving]
    /\ kept' = NoConfig
    /\ UNCHANGED <<up, path, env, file>>

\* An answer 500: what is in memory stays.
Fail(h) == pc' = [pc EXCEPT ![h] = "idle"] /\ alone' = [alone EXCEPT ![h] = FALSE]

\* Fault: the file is opened without being truncated.
OpenKeepsContents(h) ==
    /\ pc[h] = "open"
    /\ \/ pc' = [pc EXCEPT ![h] = "write"] /\ UNCHANGED alone
       \/ Fail(h)
    /\ UNCHANGED <<up, path, env, mem, file, arg, kept>>

\* os.WriteFile opens and truncates.
Open(h) ==
    /\ pc[h] = "open"
    /\ \/ /\ file' = << >>
          /\ pc' = [pc EXCEPT ![h] = "write"]
          /\ UNCHANGED alone
       \/ Fail(h) /\ UNCHANGED file
    /\ UNCHANGED <<up, path, env, mem, arg, kept>>

\* It writes at its own offset, whatever others have written meanwhile; a
\* write that fails has written a part.
Write(h) ==
    /\ pc[h] = "write"
    /\ LET d == Document(arg[h]) IN
         \/ /\ file' = Over(d, file)
            /\ pc' = [pc EXCEPT ![h] = "answer"]
            /\ UNCHANGED alone
         \/ /\ Fail(h)
            /\ \E n \in 0..(Len(d) - 1) : file' = Over(SubSeq(d, 1, n), file)
    /\ UNCHANGED <<up, path, env, mem, arg, kept>>

\* An answer 200, with what GetConfig returns by then.
Answer(h) ==
    /\ pc[h] = "answer"
    /\ pc' = [pc EXCEPT ![h] = "idle"]
    /\ alone' = [alone EXCEPT ![h] = FALSE]
    /\ kept' = IF alone[h] /\ path THEN mem ELSE kept
    /\ UNCHANGED <<up, path, env, mem, file, arg>>

Init ==
    /\ up = FALSE /\ path = FALSE /\ env = Unset
    /\ mem = Default
    /\ file = << >>
    /\ pc = [h \in Handlers |-> "idle"]
    /\ arg = [h \in Handlers |-> Default]
    /\ alone = [h \in Handlers |-> FALSE]
    /\ kept = NoConfig

Save(h) == Open(h) \/ Write(h) \/ Answer(h)
Next ==
    \/ \E e \in Endpoints \cup {Unset}, p \in BOOLEAN : Start(e, p)
    \/ Crash
    \/ \E h \in Handlers : Save(h) \/ \E c \in Config : SetConfig(h, c)

Spec == Init /\ [][Next]_vars

-----------------------------------------------------------------------------
\* "Written on Save from the UI": when a save that no other has overlapped is
\* acknowledged, the file is the configuration in memory, however damaged it
\* was before by crashes, failed writes and overlapping saves.
LoneSaveIsWhole ==
    \A h \in Handlers : pc[h] = "answer" /\ alone[h] /\ path => file = Document(mem)

\* "Loaded at startup": what such a save has acknowledged is what the bridge
\* runs with after any number of crashes and starts in any environment, but
\* for what the environment overrides, until the next save begins.
AcknowledgedSurvives ==
    kept # NoConfig /\ up /\ path =>
        /\ mem.mappings = kept.mappings
        /\ mem.endpoint = kept.endpoint \/ (env # Unset /\ mem.endpoint = env)
=============================================================================
