--------------------------- MODULE BootstrapProofs ---------------------------
EXTENDS VectorBootstrap, TLAPS

\* As long as nothing fails, the process that created the collection is still
\* at work on its indexes, or has made them all.
CreatorAtWork ==
    faults = 0 /\ collection =>
        \/ Complete
        \/ \E p \in Processes :
            /\ process[p].pc = "index"
            /\ \A i \in Fields : i < process[p].field => FIELDS[i] \in indexes

\* A process that has not created the collection begins with the first field.
FromTheFirst ==
    \A p \in Processes : process[p].pc \in {"down", "exists", "create"} => process[p].field = 1

BootstrapInv == TypeOK /\ FromTheFirst /\ CreatorAtWork

\* The step of one process.
Moved(p) == \A q \in Processes \ {p} : process'[q] = process[q]

LEMMA AtPc ==
    ASSUME TypeOK, NEW p \in Processes, NEW pc \in {"create", "index"}, Go(p, pc)
    PROVE  /\ process' \in [Processes -> ProcessState]
           /\ Moved(p)
           /\ process'[p].pc = pc /\ process'[p].field = process[p].field
  BY DEF Go, TypeOK, ProcessState, Moved

LEMMA Served ==
    ASSUME TypeOK, NEW p \in Processes, NEW how \in {"found", "created", "raised"}, Serve(p, how)
    PROVE  /\ process' \in [Processes -> ProcessState]
           /\ Moved(p)
           /\ process'[p].pc = "serving"
  BY DEF Serve, TypeOK, ProcessState, Moved

LEMMA StepOfIndex ==
    ASSUME TypeOK, NEW p \in Processes, CreatePayloadIndex(p)
    PROVE  /\ process' \in [Processes -> ProcessState]
           /\ Moved(p)
           /\ process'[p].pc \in {"index", "serving"}
           /\ indexes' = indexes \union {FIELDS[process[p].field]}
           /\ process'[p].pc = "serving" => process[p].field = 8
           /\ process'[p].pc = "index" => process'[p].field = process[p].field + 1
  <1>0. Len(FIELDS) = 8 /\ process[p].field \in Fields /\ process[p] \in ProcessState
    BY DEF FIELDS, TypeOK, ProcessState
  <1>1. CASE process[p].field = 8
    BY <1>0, <1>1, Served DEF CreatePayloadIndex
  <1>2. CASE process[p].field # 8
    <2>1. process' = [process EXCEPT ![p].field = process[p].field + 1]
      BY <1>0, <1>2 DEF CreatePayloadIndex
    <2>2. process[p].field + 1 \in Fields
      BY <1>0, <1>2 DEF Fields
    <2> QED
      BY <1>0, <1>2, <2>1, <2>2 DEF TypeOK, ProcessState, Moved, CreatePayloadIndex
  <1> QED
    BY <1>1, <1>2

\* A start, or the end in a crash.
LEMMA Renewed ==
    ASSUME TypeOK, NEW p \in Processes, NEW pc \in {"down", "exists"},
           NEW how \in {"no", "crashed"}, process' = [process EXCEPT ![p] = Fresh(pc, how)]
    PROVE  /\ process' \in [Processes -> ProcessState]
           /\ Moved(p)
           /\ process'[p].pc = pc /\ process'[p].field = 1
  BY DEF Fresh, TypeOK, ProcessState, Moved, Fields

\* After a fault the count never returns to zero.
LEMMA FaultCounts ==
    ASSUME TypeOK, Fault
    PROVE  faults' \in 0..MaxFaults /\ faults' # 0
  BY BootstrapAssumption DEF Fault, TypeOK

\* A process that was not at work on the indexes moves; the creator stays.
LEMMA CreatorStays ==
    ASSUME CreatorAtWork, NEW p \in Processes, process[p].pc # "index", Moved(p),
           UNCHANGED <<collection, indexes, faults>>
    PROVE  CreatorAtWork'
  BY DEF CreatorAtWork, Complete, Moved

LEMMA IndexStep ==
    ASSUME TypeOK, CreatorAtWork, NEW p \in Processes, CreatePayloadIndex(p)
    PROVE  CreatorAtWork'
  <1> SUFFICES ASSUME faults' = 0, collection', ~Complete' PROVE
        \E q \in Processes : /\ process'[q].pc = "index"
                             /\ \A i \in Fields : i < process'[q].field => FIELDS[i] \in indexes'
    BY DEF CreatorAtWork, Complete
  <1>1. faults = 0 /\ collection /\ process[p].field \in Fields
    BY DEF CreatePayloadIndex, TypeOK, ProcessState
  <1>2. ~Complete
    BY <1>1, StepOfIndex DEF CreatePayloadIndex, Complete
  <1>3. PICK q \in Processes :
            /\ process[q].pc = "index"
            /\ \A i \in Fields : i < process[q].field => FIELDS[i] \in indexes
    BY <1>1, <1>2 DEF CreatorAtWork
  <1>4. CASE q # p
    BY <1>3, <1>4, StepOfIndex DEF Moved
  <1>5. CASE q = p
    <2>1. \A i \in Fields : i < process[p].field + 1 => FIELDS[i] \in indexes'
      BY <1>1, <1>3, <1>5, StepOfIndex DEF Fields
    <2>2. process'[p].pc # "serving"
      <3> SUFFICES ASSUME process'[p].pc = "serving" PROVE FALSE
        OBVIOUS
      <3>1. \A i \in Fields : FIELDS[i] \in indexes'
        BY <2>1, StepOfIndex DEF Fields
      <3>2. indexes' \subseteq {FIELDS[i] : i \in Fields}
        BY <1>1, StepOfIndex DEF TypeOK
      <3> QED
        BY <3>1, <3>2 DEF Complete
    <2> QED
      BY <2>1, <2>2, StepOfIndex
  <1> QED
    BY <1>4, <1>5

LEMMA BootstrapInit == Init => BootstrapInv
  <1> SUFFICES ASSUME Init PROVE BootstrapInv
    OBVIOUS
  <1>1. Fresh("down", "no") \in ProcessState
    BY DEF Fresh, ProcessState, Fields
  <1>2. TypeOK
    <2>1. faults \in 0..MaxFaults
      BY BootstrapAssumption DEF Init
    <2>2. process \in [Processes -> ProcessState]
      BY <1>1 DEF Init
    <2> QED
      BY <2>1, <2>2 DEF Init, TypeOK
  <1>3. FromTheFirst
    BY DEF Init, FromTheFirst, Fresh
  <1>4. CreatorAtWork
    BY DEF Init, CreatorAtWork
  <1> QED
    BY <1>2, <1>3, <1>4 DEF BootstrapInv

LEMMA BootstrapStep == BootstrapInv /\ [Next]_vars => BootstrapInv'
  <1> SUFFICES ASSUME BootstrapInv, [Next]_vars PROVE BootstrapInv'
    OBVIOUS
  <1>0. TypeOK /\ FromTheFirst /\ CreatorAtWork
    BY DEF BootstrapInv
  <1>1. ASSUME NEW p \in Processes, Start(p) PROVE BootstrapInv'
    <2>1. TypeOK' /\ FromTheFirst'
      BY <1>0, <1>1, Renewed DEF Start, TypeOK, FromTheFirst, Moved
    <2>2. CreatorAtWork'
      BY <1>0, <1>1, Renewed, CreatorStays DEF Start
    <2> QED
      BY <2>1, <2>2 DEF BootstrapInv
  <1>2. ASSUME NEW p \in Processes, CollectionExists(p) PROVE BootstrapInv'
    <2>1. TypeOK' /\ FromTheFirst'
      BY <1>0, <1>2, AtPc, Served DEF CollectionExists, TypeOK, FromTheFirst, Moved
    <2>2. CreatorAtWork'
      BY <1>0, <1>2, AtPc, Served, CreatorStays DEF CollectionExists
    <2> QED
      BY <2>1, <2>2 DEF BootstrapInv
  <1>3. ASSUME NEW p \in Processes, CreateCollection(p) PROVE BootstrapInv'
    <2>1. TypeOK' /\ FromTheFirst'
      BY <1>0, <1>3, AtPc, Served DEF CreateCollection, TypeOK, FromTheFirst, Moved
    <2>2. CASE collection
      BY <1>0, <1>3, <2>1, <2>2, Served, CreatorStays DEF CreateCollection, BootstrapInv
    <2>3. CASE ~collection
      <3>1. process'[p].pc = "index" /\ process'[p].field = 1
        BY <1>0, <1>3, <2>3, AtPc DEF CreateCollection, FromTheFirst
      <3> QED
        BY <2>1, <3>1 DEF BootstrapInv, CreatorAtWork, Fields
    <2> QED
      BY <2>2, <2>3
  <1>4. ASSUME NEW p \in Processes, CreatePayloadIndex(p) PROVE BootstrapInv'
    <2>1. FIELDS[process[p].field] \in {FIELDS[i] : i \in Fields}
      BY <1>0 DEF TypeOK, ProcessState
    <2>2. TypeOK' /\ FromTheFirst'
      BY <1>0, <1>4, <2>1, StepOfIndex DEF CreatePayloadIndex, TypeOK, FromTheFirst, Moved
    <2> QED
      BY <1>0, <1>4, <2>2, IndexStep DEF BootstrapInv
  <1>5. ASSUME NEW p \in Processes, RequestRaises(p) PROVE BootstrapInv'
    <2>1. FIELDS[process[p].field] \in {FIELDS[i] : i \in Fields}
      BY <1>0 DEF TypeOK, ProcessState
    <2>2. TypeOK' /\ FromTheFirst'
      BY <1>0, <1>5, <2>1, Served, FaultCounts DEF RequestRaises, TypeOK, FromTheFirst, Moved
    <2>3. CreatorAtWork'
      BY <1>0, <1>5, FaultCounts DEF RequestRaises, CreatorAtWork
    <2> QED
      BY <2>2, <2>3 DEF BootstrapInv
  <1>6. ASSUME NEW p \in Processes, Crash(p) PROVE BootstrapInv'
    <2>1. TypeOK' /\ FromTheFirst'
      BY <1>0, <1>6, Renewed, FaultCounts DEF Crash, TypeOK, FromTheFirst, Moved
    <2>2. CreatorAtWork'
      BY <1>0, <1>6, FaultCounts DEF Crash, CreatorAtWork
    <2> QED
      BY <2>1, <2>2 DEF BootstrapInv
  <1>7. CASE UNCHANGED vars
    BY <1>0, <1>7 DEF vars, BootstrapInv, TypeOK, FromTheFirst, CreatorAtWork, Complete
  <1> QED
    BY <1>1, <1>2, <1>3, <1>4, <1>5, <1>6, <1>7 DEF Next, Bootstrap

\* Qdrant's state and the processes are well typed, for every set of processes.
THEOREM BootstrapTyped == Spec => []TypeOK
  <1>1. BootstrapInv => TypeOK
    BY DEF BootstrapInv
  <1> QED
    BY <1>1, BootstrapInit, BootstrapStep, PTL DEF Spec

\* However many API processes and workers start at once, their race for the
\* creation alone never leaves the collection without an index.
THEOREM RaceIsHarmless == Spec => []GapHasCause
  <1>1. BootstrapInv => GapHasCause
    BY DEF BootstrapInv, CreatorAtWork, GapHasCause, Starting
  <1> QED
    BY <1>1, BootstrapInit, BootstrapStep, PTL DEF Spec
=============================================================================
