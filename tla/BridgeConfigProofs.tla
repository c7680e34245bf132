------------------------- MODULE BridgeConfigProofs -------------------------
(* What an acknowledged save is worth, for any number of requests, crashes *)
(* and restarts: the proofs of the invariants of BridgeConfig.             *)
EXTENDS BridgeConfig, TLAPS

\* While a save is alone, memory and then the file are what it was sent.
AloneInv ==
    \A h \in Handlers : alone[h] =>
        /\ pc[h] \in {"open", "write", "answer"}
        /\ mem = arg[h]
        /\ \A g \in Handlers \ {h} : pc[g] \notin {"open", "write"}
        /\ pc[h] = "write" => file = << >>
        /\ pc[h] = "answer" /\ path => file = Document(arg[h])

\* What has been acknowledged stays in the file while nobody saves.
KeptInv ==
    kept # NoConfig => /\ kept \in Config
                       /\ file = Document(kept)
                       /\ ~Saving

\* Handlers run only in a process that is up; they save only with a file.
UpInv == \A h \in Handlers : /\ ~up => pc[h] = "idle"
                             /\ pc[h] \in {"open", "write"} => path

Inv == TypeOK /\ UpInv /\ AloneInv /\ KeptInv /\ AcknowledgedSurvives

-----------------------------------------------------------------------------
\* A document is a sequence of one block more than it has mappings.
LEMMA DocumentIsFile ==
    ASSUME NEW c \in Config
    PROVE  Document(c) \in Seq(Block) /\ Len(Document(c)) = c.mappings + 1
<1>1. c.mappings \in 0..MaxMappings
    BY DEF Config
<1>2. \A i \in 1..(c.mappings + 1) : <<c, i - 1>> \in Block
    BY <1>1, ConfigAssumption DEF Block
<1>3. Document(c) \in [1..(c.mappings + 1) -> Block]
    BY <1>2 DEF Document
<1>4. c.mappings + 1 \in Nat /\ DOMAIN Document(c) = 1..(c.mappings + 1)
    BY <1>1, ConfigAssumption DEF Document
<1>5. Document(c) \in Seq(Block)
    BY <1>3, <1>4
<1> QED
    BY <1>4, <1>5

\* A document tells which configuration it is of.
LEMMA DocumentLoads ==
    ASSUME NEW c \in Config
    PROVE  Loads(Document(c)) = {c}
<1>1. ASSUME NEW d \in Config, Document(d) = Document(c) PROVE d = c
  <2>1. c.mappings \in Nat /\ d.mappings \in Nat
      BY ConfigAssumption DEF Config
  <2>2. Document(c)[1] = <<c, 0>> /\ Document(d)[1] = <<d, 0>>
      BY <2>1 DEF Document
  <2> QED
      BY <2>2, <1>1
<1> QED
    BY <1>1 DEF Loads

\* Writing to an empty file leaves what was written.
LEMMA OverEmpty ==
    ASSUME NEW c \in Config
    PROVE  Over(Document(c), << >>) = Document(c)
<1>1. Len(Document(c)) = c.mappings + 1 /\ c.mappings \in Nat
    BY DocumentIsFile, ConfigAssumption DEF Config
<1>2. Len(<< >>) = 0
    OBVIOUS
<1>3. Over(Document(c), << >>) = [i \in 1..(c.mappings + 1) |-> Document(c)[i]]
    BY <1>1, <1>2 DEF Over
<1> QED
    BY <1>3 DEF Document

\* Writing keeps a file a sequence of blocks.
LEMMA OverIsFile ==
    ASSUME NEW d \in Seq(Block), NEW f \in Seq(Block)
    PROVE  Over(d, f) \in Seq(Block)
<1> DEFINE n == IF Len(d) > Len(f) THEN Len(d) ELSE Len(f)
<1>1. n \in Nat
    OBVIOUS
<1>2. \A i \in 1..n : (IF i <= Len(d) THEN d[i] ELSE f[i]) \in Block
    OBVIOUS
<1>3. Over(d, f) \in [1..n -> Block]
    BY <1>2 DEF Over
<1> QED
    BY <1>1, <1>3

\* The environment makes a configuration of a configuration.
LEMMA OverriddenIsConfig ==
    ASSUME NEW c \in Config, NEW e \in Endpoints \cup {Unset}
    PROVE  Overridden(c, e) \in Config
BY DEF Overridden, Config

\* Whatever the file contains, a start gets a configuration.
LEMMA LoadsConfig == \A f : Loads(f) \subseteq Config \cup {NoConfig}
BY DEF Loads

-----------------------------------------------------------------------------
\* Requests, crashes and starts keep the types.
LEMMA TypeNext == TypeOK /\ [Next]_vars => TypeOK'
<1> SUFFICES ASSUME TypeOK, [Next]_vars PROVE TypeOK'
    OBVIOUS
<1> USE DEF TypeOK
<1>1. ASSUME NEW e \in Endpoints \cup {Unset}, NEW p \in BOOLEAN, Start(e, p)
      PROVE  TypeOK'
  <2>1. Default \in Config
      BY ConfigAssumption DEF Default, Config
  <2>2. mem' \in Config
      BY <1>1, <2>1, LoadsConfig, OverriddenIsConfig DEF Start
  <2>3. UNCHANGED <<file, pc, arg, alone, kept>> /\ env' = e
      BY <1>1 DEF Start
  <2>4. up' \in BOOLEAN /\ path' \in BOOLEAN
      BY <1>1, Zenon DEF Start
  <2> QED
      BY <2>2, <2>3, <2>4
<1>2. CASE Crash
    BY <1>2 DEF Crash, Idle
<1>3. ASSUME NEW h \in Handlers, NEW c \in Config, SetConfig(h, c)
      PROVE  TypeOK'
    BY <1>3 DEF SetConfig
<1>4. ASSUME NEW h \in Handlers, Open(h) PROVE TypeOK'
  <2>1. << >> \in Seq(Block)
      OBVIOUS
  <2> QED
      BY <1>4, <2>1 DEF Open, Fail
<1>5. ASSUME NEW h \in Handlers, Write(h) PROVE TypeOK'
  <2> DEFINE d == Document(arg[h])
  <2>1. d \in Seq(Block)
      BY DocumentIsFile
  <2>2. \A n \in 0..(Len(d) - 1) : SubSeq(d, 1, n) \in Seq(Block)
      BY <2>1
  <2>3. file' \in Seq(Block)
      BY <1>5, <2>1, <2>2, OverIsFile DEF Write
  <2>4. /\ pc' \in [Handlers -> {"idle", "open", "write", "answer"}]
        /\ alone' \in [Handlers -> BOOLEAN]
      BY <1>5 DEF Write, Fail
  <2>5. UNCHANGED <<up, path, env, mem, arg, kept>>
      BY <1>5 DEF Write
  <2> QED
      BY <2>3, <2>4, <2>5
<1>6. ASSUME NEW h \in Handlers, Answer(h) PROVE TypeOK'
    BY <1>6 DEF Answer
<1>7. CASE UNCHANGED vars
    BY <1>7 DEF vars
<1> QED
    BY <1>1, <1>2, <1>3, <1>4, <1>5, <1>6, <1>7 DEF Next, Save

\* Before the first start nothing has been sent, saved or acknowledged.
LEMMA InitInv == Init => Inv
<1> SUFFICES ASSUME Init PROVE Inv
    OBVIOUS
<1>1. Default \in Config
    BY ConfigAssumption DEF Default, Config
<1>2. TypeOK
  <2>1. << >> \in Seq(Block)
      OBVIOUS
  <2>2. up \in BOOLEAN /\ path \in BOOLEAN
      BY Zenon DEF Init
  <2> QED
      BY <1>1, <2>1, <2>2 DEF Init, TypeOK
<1> QED
    BY <1>2 DEF Init, Inv, UpInv, AloneInv, KeptInv, AcknowledgedSurvives

\* UpInv is inductive under the types.
LEMMA UpNext == TypeOK /\ UpInv /\ [Next]_vars => UpInv'
BY DEF TypeOK, UpInv, Next, Save, vars, Start, Crash, Idle, SetConfig, Open, Fail, Write, Answer

\* A save that stays alone finds the file as it has left it.
LEMMA AloneNext == TypeOK /\ UpInv /\ AloneInv /\ [Next]_vars => AloneInv'
<1> SUFFICES ASSUME TypeOK, UpInv, AloneInv, [Next]_vars PROVE AloneInv'
    OBVIOUS
<1> USE DEF TypeOK, AloneInv
<1>1. ASSUME NEW e \in Endpoints \cup {Unset}, NEW p \in BOOLEAN, Start(e, p)
      PROVE  AloneInv'
    BY <1>1 DEF Start, UpInv
<1>2. CASE Crash
    BY <1>2 DEF Crash, Idle
<1>3. ASSUME NEW h \in Handlers, NEW c \in Config, SetConfig(h, c)
      PROVE  AloneInv'
    BY <1>3 DEF SetConfig, Saving
<1>4. ASSUME NEW h \in Handlers, Open(h) PROVE AloneInv'
    BY <1>4 DEF Open, Fail
<1>5. ASSUME NEW h \in Handlers, Write(h) PROVE AloneInv'
    BY <1>5, OverEmpty DEF Write, Fail
<1>6. ASSUME NEW h \in Handlers, Answer(h) PROVE AloneInv'
    BY <1>6 DEF Answer
<1>7. CASE UNCHANGED vars
    BY <1>7 DEF vars
<1> QED
    BY <1>1, <1>2, <1>3, <1>4, <1>5, <1>6, <1>7 DEF Next, Save

\* Nobody touches an acknowledged file before the next save begins, and a
\* start loads it.
LEMMA KeptNext == Inv /\ [Next]_vars => (KeptInv /\ AcknowledgedSurvives)'
<1> SUFFICES ASSUME Inv, [Next]_vars PROVE (KeptInv /\ AcknowledgedSurvives)'
    OBVIOUS
<1> USE DEF Inv, TypeOK, KeptInv, AcknowledgedSurvives, Saving
<1>1. ASSUME NEW e \in Endpoints \cup {Unset}, NEW p \in BOOLEAN, Start(e, p)
      PROVE  (KeptInv /\ AcknowledgedSurvives)'
  <2>1. KeptInv'
      BY <1>1 DEF Start
  <2>2. ASSUME kept # NoConfig, p = TRUE PROVE mem' = Overridden(kept, e)
      BY <1>1, <2>2, DocumentLoads, ConfigAssumption DEF Start
  <2>3. ASSUME kept # NoConfig, path' PROVE mem' = Overridden(kept, e) /\ env' = e
      BY <1>1, <2>2, <2>3 DEF Start
  <2> QED
      BY <1>1, <2>1, <2>3, ConfigAssumption DEF Start, Overridden, Config
<1>2. CASE Crash
    BY <1>2 DEF Crash, Idle
<1>3. ASSUME NEW h \in Handlers, NEW c \in Config, SetConfig(h, c)
      PROVE  (KeptInv /\ AcknowledgedSurvives)'
    BY <1>3 DEF SetConfig
<1>4. ASSUME NEW h \in Handlers, Open(h) PROVE (KeptInv /\ AcknowledgedSurvives)'
    BY <1>4 DEF Open, Fail
<1>5. ASSUME NEW h \in Handlers, Write(h) PROVE (KeptInv /\ AcknowledgedSurvives)'
    BY <1>5 DEF Write, Fail
<1>6. ASSUME NEW h \in Handlers, Answer(h) PROVE (KeptInv /\ AcknowledgedSurvives)'
    BY <1>6 DEF Answer, AloneInv
<1>7. CASE UNCHANGED vars
    BY <1>7 DEF vars
<1> QED
    BY <1>1, <1>2, <1>3, <1>4, <1>5, <1>6, <1>7 DEF Next, Save

-----------------------------------------------------------------------------
\* The inductive invariant holds throughout.
THEOREM Invariant == Spec => []Inv
<1>1. Inv /\ [Next]_vars => Inv'
    BY TypeNext, UpNext, AloneNext, KeptNext DEF Inv
<1> QED
    BY InitInv, <1>1, PTL DEF Spec

\* Memory holds a configuration and the file blocks of documents, whatever
\* fails, overlaps and crashes (the variables of the bridge's configuration).
THEOREM TypeCorrect == Spec => []TypeOK
<1>1. Inv => TypeOK
    BY DEF Inv
<1> QED
    BY Invariant, <1>1, PTL

\* A save that no other overlaps is in the file, whole, when it is
\* acknowledged (SetConfig and SaveFile of the bridge).
THEOREM LoneSaves == Spec => []LoneSaveIsWhole
<1>1. Inv => LoneSaveIsWhole
    BY DEF Inv, AloneInv, LoneSaveIsWhole
<1> QED
    BY Invariant, <1>1, PTL

\* What it has acknowledged comes back after every crash and start, but for
\* what the environment overrides (LoadFile and main of the bridge).
THEOREM Acknowledged == Spec => []AcknowledgedSurvives
<1>1. Inv => AcknowledgedSurvives
    BY DEF Inv
<1> QED
    BY Invariant, <1>1, PTL
=============================================================================
