--------------------------- MODULE IngestionProofs ---------------------------
EXTENDS IngestionProperties, TLAPS

Object(c) == c \in [job: JobObject, version: VersionObject, document: DocumentObject]

Loaded(c) == c \in [job: JobRow, version: VersionRow, document: DocumentRow]

\* An attribute the session would flush has a value.
NothingLost(old, new) ==
    /\ \A f \in DOMAIN new.job : new.job[f] = Unloaded => old.job[f] = Unloaded
    /\ \A f \in DOMAIN new.version : new.version[f] = Unloaded => old.version[f] = Unloaded
    /\ \A f \in DOMAIN new.document : new.document[f] = Unloaded => old.document[f] = Unloaded

\* A slot that is not idle has a job, and from its first SELECT on a version
\* and complete objects, until a rollback on the way to the FAILED record.
SlotOK(r) ==
    /\ r.pc # "idle" => r.task \in Jobs
    /\ r.pc \in Live \ {"load"} => VersionOf[r.task] \in Versions
    /\ r.pc \in Live \ {"load", "fail"} => Loaded(r.cache)

TypeInv == TypeOK /\ \A s \in Slots : SlotOK(run[s])

-----------------------------------------------------------------------------

LEMMA FlushJobType ==
    ASSUME NEW row \in JobRow, NEW old \in JobObject, NEW new \in JobObject,
           \A f \in DOMAIN new : new[f] = Unloaded => old[f] = Unloaded
    PROVE  Flush(row, old, new) \in JobRow
<1> DEFINE fields == {"status", "current_stage", "progress", "attempts", "error", "timings", "finished"}
           flushed == Flush(row, old, new)
<1>1. DOMAIN row = fields /\ DOMAIN new = fields
  BY DEF JobRow, JobObject, Cached
<1>2. flushed = [f \in fields |-> IF new[f] = old[f] THEN row[f] ELSE new[f]]
  BY <1>1 DEF Flush
<1>3. ASSUME NEW f \in fields
      PROVE  flushed[f] = row[f] \/ (flushed[f] = new[f] /\ new[f] # Unloaded)
  BY <1>1, <1>2, <1>3
<1>4. flushed.status \in JobStatus
  <2>1. row.status \in JobStatus /\ new.status \in (JobStatus) \union {Unloaded}
    BY DEF JobRow, JobObject, Cached
  <2> HIDE DEF flushed
  <2>2. QED
    BY <1>3, <2>1
<1>5. flushed.current_stage \in StageNames \union {"none"}
  <2>1. row.current_stage \in StageNames \union {"none"} /\ new.current_stage \in (StageNames \union {"none"}) \union {Unloaded}
    BY DEF JobRow, JobObject, Cached
  <2> HIDE DEF flushed
  <2>2. QED
    BY <1>3, <2>1
<1>6. flushed.progress \in 0..100
  <2>1. row.progress \in 0..100 /\ new.progress \in (0..100) \union {Unloaded}
    BY DEF JobRow, JobObject, Cached
  <2> HIDE DEF flushed
  <2>2. QED
    BY <1>3, <2>1
<1>7. flushed.attempts \in Nat
  <2>1. row.attempts \in Nat /\ new.attempts \in (Nat) \union {Unloaded}
    BY DEF JobRow, JobObject, Cached
  <2> HIDE DEF flushed
  <2>2. QED
    BY <1>3, <2>1
<1>8. flushed.error \in StageNames \union {"none"}
  <2>1. row.error \in StageNames \union {"none"} /\ new.error \in (StageNames \union {"none"}) \union {Unloaded}
    BY DEF JobRow, JobObject, Cached
  <2> HIDE DEF flushed
  <2>2. QED
    BY <1>3, <2>1
<1>9. flushed.timings \in SUBSET StageNames
  <2>1. row.timings \in SUBSET StageNames /\ new.timings \in (SUBSET StageNames) \union {Unloaded}
    BY DEF JobRow, JobObject, Cached
  <2> HIDE DEF flushed
  <2>2. QED
    BY <1>3, <2>1
<1>10. flushed.finished \in BOOLEAN
  <2>1. row.finished \in BOOLEAN /\ new.finished \in (BOOLEAN) \union {Unloaded}
    BY DEF JobRow, JobObject, Cached
  <2> HIDE DEF flushed
  <2>2. QED
    BY <1>3, <2>1
<1> HIDE DEF flushed
<1>11. flushed \in JobRow
  BY <1>2, <1>4, <1>5, <1>6, <1>7, <1>8, <1>9, <1>10 DEF JobRow
<1>12. QED
  BY <1>11 DEF flushed

LEMMA FlushVersionType ==
    ASSUME NEW row \in VersionRow, NEW old \in VersionObject, NEW new \in VersionObject,
           \A f \in DOMAIN new : new[f] = Unloaded => old[f] = Unloaded
    PROVE  Flush(row, old, new) \in VersionRow
  BY DEF Flush, VersionRow, VersionObject, Cached

LEMMA FlushDocumentType ==
    ASSUME NEW row \in DocumentRow, NEW old \in DocumentObject, NEW new \in DocumentObject,
           \A f \in DOMAIN new : new[f] = Unloaded => old[f] = Unloaded
    PROVE  Flush(row, old, new) \in DocumentRow
  BY DEF Flush, DocumentRow, DocumentObject, Cached

LEMMA LoadedIsObject ==
    ASSUME NEW c, Loaded(c)
    PROVE  Object(c)
  BY DEF Loaded, Object, JobRow, JobObject, VersionRow, VersionObject, DocumentRow,
         DocumentObject, Cached

LEMMA ExpiredIsObject == Object(Expired)
  BY DEF Object, Expired, JobObject, VersionObject, DocumentObject, Cached

LEMMA LoadedLosesNothing ==
    ASSUME NEW c, NEW new, Loaded(new)
    PROVE  NothingLost(c, new)
  <1>1. \A f \in DOMAIN new.job : new.job[f] # Unloaded
    BY UnloadedAssumption DEF Loaded, JobRow
  <1>2. \A f \in DOMAIN new.version : new.version[f] # Unloaded
    BY UnloadedAssumption DEF Loaded, VersionRow
  <1>3. \A f \in DOMAIN new.document : new.document[f] # Unloaded
    BY UnloadedAssumption DEF Loaded, DocumentRow
  <1> QED
    BY <1>1, <1>2, <1>3 DEF NothingLost

\* A commit of typed objects leaves typed rows.
LEMMA CommitType ==
    ASSUME TypeInv, NEW s \in Slots, HasRows(s), NEW new, Object(new),
           NothingLost(run[s].cache, new), Commit(s, new)
    PROVE  /\ job' \in [Jobs -> JobRow]
           /\ version' \in [Versions -> VersionRow]
           /\ document' \in [Documents -> DocumentRow]
  <1> DEFINE old == run[s].cache
             j == run[s].task
             v == VersionAt(s)
             d == DocumentAt(s)
  <1>1. /\ j \in Jobs /\ v \in Versions /\ d \in Documents
    BY ConstantsAssumption DEF TypeInv, TypeOK, SlotOK, HasRows, Live, DocumentAt, VersionAt
  <1>2. /\ old.job \in JobObject /\ old.version \in VersionObject
        /\ old.document \in DocumentObject
        /\ new.job \in JobObject /\ new.version \in VersionObject
        /\ new.document \in DocumentObject
    BY DEF TypeInv, TypeOK, SlotState, Object
  <1>3. Flush(job[j], old.job, new.job) \in JobRow
    BY <1>1, <1>2, FlushJobType DEF TypeInv, TypeOK, NothingLost
  <1>4. Flush(version[v], old.version, new.version) \in VersionRow
    BY <1>1, <1>2, FlushVersionType DEF TypeInv, TypeOK, NothingLost
  <1>5. Flush(document[d], old.document, new.document) \in DocumentRow
    BY <1>1, <1>2, FlushDocumentType DEF TypeInv, TypeOK, NothingLost
  <1> QED
    BY <1>1, <1>3, <1>4, <1>5 DEF Commit, TypeInv, TypeOK

\* The attributes whose values are numbers, updated one at a time.
LEMMA AttemptsType ==
    ASSUME NEW r \in JobRow, NEW n \in Nat
    PROVE  [r EXCEPT !.attempts = n] \in JobRow
  BY DEF JobRow

LEMMA ProgressType ==
    ASSUME NEW r \in JobRow, NEW n \in 0..100
    PROVE  [r EXCEPT !.progress = n] \in JobRow
  BY DEF JobRow

LEMMA SetStatusType ==
    ASSUME NEW c, Loaded(c), NEW status \in DocumentStatus, NEW jobFields \in JobRow
    PROVE  Loaded(SetStatus(c, status, jobFields))
  BY DEF SetStatus, Loaded, VersionRow, DocumentRow

LEMMA StartedType ==
    ASSUME NEW c, Loaded(c)
    PROVE  Loaded(Started(c))
  <1> DEFINE r == [c.job EXCEPT !.status = "RUNNING", !.error = "none"]
  <1>1. c.job \in JobRow
    BY DEF Loaded
  <1>2. r \in JobRow
    BY <1>1 DEF JobRow, JobStatus
  <1>3. c.job.attempts + 1 \in Nat
    BY <1>1 DEF JobRow
  <1>4. [r EXCEPT !.attempts = c.job.attempts + 1] \in JobRow
    BY <1>2, <1>3, AttemptsType
  <1>5. [c.job EXCEPT !.status = "RUNNING", !.attempts = @ + 1, !.error = "none"] \in JobRow
    BY <1>1, <1>4 DEF JobRow
  <1>6. "PROCESSING" \in DocumentStatus
    BY DEF DocumentStatus, InFlight
  <1> QED
    BY <1>5, <1>6, SetStatusType DEF Started

LEMMA EnteredType ==
    ASSUME NEW c, Loaded(c), NEW i \in Stages
    PROVE  Loaded(Entered(c, PIPELINE[i]))
  <1>1. /\ PIPELINE[i].name \in StageNames
        /\ PIPELINE[i].status \in DocumentStatus
    BY DEF Stages, PIPELINE, StageNames, DocumentStatus, InFlight
  <1>2. [c.job EXCEPT !.current_stage = PIPELINE[i].name] \in JobRow
    BY <1>1 DEF Loaded, JobRow
  <1> QED
    BY <1>1, <1>2, SetStatusType DEF Entered

LEMMA LeftType ==
    ASSUME NEW c, Loaded(c), NEW i \in Stages, NEW timings \in SUBSET StageNames
    PROVE  Loaded(Left(c, PIPELINE[i], timings))
  <1> DEFINE r == [c.job EXCEPT !.timings = timings]
  <1>1. /\ PIPELINE[i].progress \in 0..100
        /\ PIPELINE[i].status \in DocumentStatus
    BY DEF Stages, PIPELINE, DocumentStatus, InFlight
  <1>2. c.job \in JobRow
    BY DEF Loaded
  <1>3. r \in JobRow
    BY <1>2 DEF JobRow
  <1>4. [r EXCEPT !.progress = PIPELINE[i].progress] \in JobRow
    BY <1>1, <1>3, ProgressType
  <1>5. [c.job EXCEPT !.progress = PIPELINE[i].progress, !.timings = timings] \in JobRow
    BY <1>2, <1>4 DEF JobRow
  <1> QED
    BY <1>1, <1>5, SetStatusType DEF Left

LEMMA CompletedType ==
    ASSUME NEW c, Loaded(c)
    PROVE  Loaded(Completed(c))
  <1> DEFINE r == [c.job EXCEPT !.status = "SUCCEEDED", !.current_stage = "none",
                                !.finished = TRUE]
  <1>1. c.job \in JobRow
    BY DEF Loaded
  <1>2. r \in JobRow
    BY <1>1 DEF JobRow, JobStatus
  <1>3. 100 \in 0..100
    OBVIOUS
  <1>4. [r EXCEPT !.progress = 100] \in JobRow
    BY <1>2, <1>3, ProgressType
  <1>5. [c.job EXCEPT !.status = "SUCCEEDED", !.current_stage = "none",
                      !.progress = 100, !.finished = TRUE] \in JobRow
    BY <1>1, <1>4 DEF JobRow
  <1>6. "COMPLETED" \in DocumentStatus
    BY DEF DocumentStatus
  <1> QED
    BY <1>5, <1>6, SetStatusType DEF Completed

\* The FAILED record is assigned to objects that a rollback may have expired.
LEMMA FailedType ==
    ASSUME NEW c, Object(c), NEW i \in Stages, NEW timings \in SUBSET StageNames
    PROVE  /\ Object(Failed(c, PIPELINE[i], timings))
           /\ NothingLost(c, Failed(c, PIPELINE[i], timings))
  <1> DEFINE r == [c.job EXCEPT !.status = "FAILED", !.error = PIPELINE[i].name,
                                !.finished = TRUE, !.timings = timings]
             w == [c.version EXCEPT !.error = TRUE, !.status = "FAILED"]
             d == [c.document EXCEPT !.status = "FAILED"]
  <1>1. Failed(c, PIPELINE[i], timings) = [job |-> r, version |-> w, document |-> d]
    BY DEF Failed, SetStatus, Object, VersionObject
  <1>2. PIPELINE[i].name \in StageNames
    BY DEF Stages, PIPELINE, StageNames
  <1>3. /\ c.job \in JobObject /\ c.version \in VersionObject /\ c.document \in DocumentObject
    BY DEF Object
  <1>4. /\ r \in JobObject
        /\ \A f \in DOMAIN r : r[f] = Unloaded => c.job[f] = Unloaded
    <2>1. r \in JobObject
      BY <1>2, <1>3 DEF JobObject, Cached, JobStatus
    <2>2. /\ "FAILED" # Unloaded /\ PIPELINE[i].name # Unloaded
          /\ TRUE # Unloaded /\ timings # Unloaded
      BY <1>2, UnloadedAssumption DEF JobStatus
    <2> QED
      BY <1>3, <2>1, <2>2 DEF JobObject
  <1>5. /\ w \in VersionObject
        /\ \A f \in DOMAIN w : w[f] = Unloaded => c.version[f] = Unloaded
    BY <1>3, UnloadedAssumption DEF VersionObject, Cached, DocumentStatus
  <1>6. /\ d \in DocumentObject
        /\ \A f \in DOMAIN d : d[f] = Unloaded => c.document[f] = Unloaded
    BY <1>3, UnloadedAssumption DEF DocumentObject, Cached, DocumentStatus
  <1> DEFINE new == Failed(c, PIPELINE[i], timings)
  <1>7. /\ new = [job |-> r, version |-> w, document |-> d]
        /\ new.job = r /\ new.version = w /\ new.document = d
    BY <1>1
  <1> HIDE DEF r, w, d, new
  <1>8. Object(new) /\ NothingLost(c, new)
    BY <1>4, <1>5, <1>6, <1>7 DEF Object, NothingLost
  <1> QED
    BY <1>8 DEF new

LEMMA PromotedType ==
    ASSUME NEW c, Loaded(c), NEW v \in Versions
    PROVE  Loaded(Promoted(c, v))
  BY DEF Promoted, Loaded, DocumentRow

\* Every commit of process_document writes typed objects, from complete ones
\* except after an expiry.
LEMMA WrittenType ==
    ASSUME TypeInv, NEW s \in Slots, HasRows(s), run[s].pc # "exec"
    PROVE  /\ Object(Written(s))
           /\ NothingLost(run[s].cache, Written(s))
           /\ run[s].pc # "fail" => Loaded(Written(s))
  <1> DEFINE c == run[s].cache
             i == run[s].stage
  <1>1. /\ Object(c)
        /\ VersionAt(s) \in Versions
        /\ run[s].timings \in SUBSET StageNames
        /\ i \in Stages
    BY DEF TypeInv, TypeOK, SlotState, SlotOK, HasRows, VersionAt, Object
  <1>2. CASE run[s].pc = "fail"
    <2>1. Written(s) = Failed(c, PIPELINE[i], run[s].timings)
      BY <1>2 DEF Written
    <2> QED
      BY <1>1, <1>2, <2>1, FailedType
  <1>3. CASE run[s].pc # "fail"
    <2>1. Loaded(c)
      BY <1>3 DEF TypeInv, SlotOK, HasRows
    <2>2. /\ run[s].pc = "start" => Written(s) = Started(c)
          /\ run[s].pc = "enter" => Written(s) = Entered(c, PIPELINE[i])
          /\ run[s].pc = "leave" => Written(s) = Left(c, PIPELINE[i], run[s].timings)
          /\ run[s].pc = "complete" => Written(s) = Completed(c)
          /\ run[s].pc = "promote" => Written(s) = Promoted(c, VersionAt(s))
      BY DEF Written
    <2>3. run[s].pc \in {"start", "enter", "leave", "complete", "promote"}
      BY <1>3 DEF HasRows, Live
    <2>4. Loaded(Written(s))
      BY <1>1, <2>1, <2>2, <2>3, StartedType, EnteredType, LeftType, CompletedType, PromotedType
    <2>5. NothingLost(c, Written(s))
      BY <2>4, LoadedLosesNothing
    <2> QED
      BY <1>3, <2>4, <2>5, LoadedIsObject
  <1> QED
    BY <1>2, <1>3

-----------------------------------------------------------------------------

LEMMA SlotUpdate ==
    ASSUME TypeInv, NEW s \in Slots, NEW r \in SlotState, SlotOK(r), Become(s, r)
    PROVE  /\ run' \in [Slots -> SlotState]
           /\ \A t \in Slots : SlotOK(run'[t])
  BY DEF Become, TypeInv, TypeOK

LEMMA IdleSlot ==
    /\ Idle \in SlotState
    /\ SlotOK(Idle)
  BY ExpiredIsObject DEF Idle, Outside, SlotState, SlotOK, Pcs, Live, Stages, Object

\* A run that ends leaves its slot with an outcome for arq.
LEMMA EndedSlot ==
    ASSUME TypeInv, NEW s \in Slots, run[s].pc # "idle",
           NEW outcome \in {"returned", "raised"}
    PROVE  /\ EndRun(s, outcome) \in SlotState
           /\ SlotOK(EndRun(s, outcome))
  <1>1. run[s].task \in Jobs
    BY DEF TypeInv, SlotOK
  <1>2. EndRun(s, outcome) = [pc |-> outcome, task |-> run[s].task, stage |-> 1,
                              timings |-> {}, cache |-> Expired]
    BY DEF EndRun, Outside
  <1>3. outcome \in Pcs /\ 1 \in Stages /\ {} \in SUBSET StageNames
    BY DEF Pcs, Stages
  <1>4. EndRun(s, outcome) \in SlotState
    BY <1>1, <1>2, <1>3, ExpiredIsObject DEF SlotState, Object
  <1>5. SlotOK(EndRun(s, outcome))
    BY <1>1, <1>2 DEF SlotOK, Live
  <1> QED
    BY <1>4, <1>5

\* A run that goes on after a commit.
LEMMA CommittedSlot ==
    ASSUME TypeInv, NEW s \in Slots, HasRows(s), run[s].pc # "fail", run[s].pc # "exec",
           NEW pc \in Live \ {"load"}, NEW stage \in Stages
    PROVE  LET r == [run[s] EXCEPT !.cache = Written(s), !.pc = pc, !.stage = stage]
           IN  r \in SlotState /\ SlotOK(r)
  <1>1. Loaded(Written(s)) /\ Object(Written(s))
    BY WrittenType
  <1>2. run[s] \in SlotState /\ SlotOK(run[s])
    BY DEF TypeInv, TypeOK
  <1> QED
    BY <1>1, <1>2 DEF SlotState, SlotOK, HasRows, Pcs, Live, Object

LEMMA TypeInit == Init => TypeInv
  <1> SUFFICES ASSUME Init PROVE TypeInv
    OBVIOUS
  <1>1. job \in [Jobs -> JobRow]
    BY DEF Init, JobRow, JobStatus
  <1>2. version \in [Versions -> VersionRow] /\ document \in [Documents -> DocumentRow]
    BY DEF Init, VersionRow, DocumentRow, DocumentStatus
  <1>3. run \in [Slots -> SlotState] /\ \A s \in Slots : SlotOK(run[s])
    BY IdleSlot DEF Init
  <1>4. /\ submitted \subseteq Jobs /\ queue \subseteq Jobs /\ leased \subseteq Jobs
        /\ tries \in [Jobs -> Nat] /\ faults \in [FaultKinds -> Nat] /\ indexed \subseteq Versions
    BY DEF Init
  <1> QED
    BY <1>1, <1>2, <1>3, <1>4 DEF TypeInv, TypeOK

LEMMA FaultType ==
    ASSUME TypeInv, NEW k \in FaultKinds, Fault(k)
    PROVE  faults' \in [FaultKinds -> Nat]
  BY DEF Fault, TypeInv, TypeOK

\* A commit after which the run goes on, or ends.
LEMMA CommitAndGoType ==
    ASSUME TypeInv, NEW s \in Slots, HasRows(s), run[s].pc # "fail", run[s].pc # "exec",
           NEW pc \in Live \ {"load"}, NEW stage \in Stages, CommitAndGo(s, pc, stage)
    PROVE  TypeInv'
  <1>1. Object(Written(s)) /\ NothingLost(run[s].cache, Written(s))
    BY WrittenType
  <1>2. /\ job' \in [Jobs -> JobRow]
        /\ version' \in [Versions -> VersionRow]
        /\ document' \in [Documents -> DocumentRow]
    BY <1>1, CommitType DEF CommitAndGo
  <1>3. /\ run' \in [Slots -> SlotState]
        /\ \A t \in Slots : SlotOK(run'[t])
    BY CommittedSlot, SlotUpdate DEF CommitAndGo
  <1> QED
    BY <1>2, <1>3 DEF CommitAndGo, TypeInv, TypeOK, arq

LEMMA CommitAndEndType ==
    ASSUME TypeInv, NEW s \in Slots, HasRows(s), run[s].pc # "exec", Commit(s, Written(s)),
           NEW outcome \in {"returned", "raised"}, Become(s, EndRun(s, outcome)),
           UNCHANGED <<arq, faults, indexed>>
    PROVE  TypeInv'
  <1>1. Object(Written(s)) /\ NothingLost(run[s].cache, Written(s))
    BY WrittenType
  <1>2. /\ job' \in [Jobs -> JobRow]
        /\ version' \in [Versions -> VersionRow]
        /\ document' \in [Documents -> DocumentRow]
    BY <1>1, CommitType
  <1>3. /\ run' \in [Slots -> SlotState]
        /\ \A t \in Slots : SlotOK(run'[t])
    BY EndedSlot, SlotUpdate DEF HasRows, Live
  <1> QED
    BY <1>2, <1>3 DEF TypeInv, TypeOK, arq

LEMMA TypeStep == TypeInv /\ [Next]_vars => TypeInv'
  <1> SUFFICES ASSUME TypeInv, [Next]_vars PROVE TypeInv'
    OBVIOUS
  <1>1. ASSUME NEW s \in Slots, Load(s) PROVE TypeInv'
    <2>1. CASE VersionAt(s) = NoVersion
      <3>1. /\ run' \in [Slots -> SlotState]
            /\ \A t \in Slots : SlotOK(run'[t])
        BY <1>1, <2>1, EndedSlot, SlotUpdate DEF Load
      <3> QED
        BY <1>1, <3>1 DEF Load, TypeInv, TypeOK, arq, rows
    <2>2. CASE VersionAt(s) # NoVersion
      <3> DEFINE c == [job |-> job[run[s].task], version |-> version[VersionAt(s)],
                       document |-> document[DocumentAt(s)]]
                 r == [run[s] EXCEPT !.pc = "start", !.cache = c]
      <3>1. run[s] \in SlotState /\ run[s].task \in Jobs
        BY <1>1 DEF Load, TypeInv, TypeOK, SlotOK
      <3>2. VersionAt(s) \in Versions /\ DocumentAt(s) \in Documents
        BY <2>2, <3>1, ConstantsAssumption DEF VersionAt, DocumentAt
      <3>3. Loaded(c)
        BY <3>1, <3>2 DEF TypeInv, TypeOK, Loaded
      <3>4. r \in SlotState /\ SlotOK(r)
        BY <3>1, <3>2, <3>3, LoadedIsObject DEF SlotState, SlotOK, Pcs, Live, VersionAt, Object
      <3>5. Become(s, r)
        BY <1>1, <2>2 DEF Load
      <3>6. /\ run' \in [Slots -> SlotState]
            /\ \A t \in Slots : SlotOK(run'[t])
        BY <3>4, <3>5, SlotUpdate
      <3> QED
        BY <1>1, <3>6 DEF Load, TypeInv, TypeOK, arq, rows
    <2> QED
      BY <2>1, <2>2
  <1>2. ASSUME NEW s \in Slots, StartAttempt(s) PROVE TypeInv'
    BY <1>2, CommitAndGoType DEF StartAttempt, HasRows, Live, Stages
  <1>3. ASSUME NEW s \in Slots, EnterStage(s) PROVE TypeInv'
    <2>1. run[s].stage \in Stages
      BY DEF TypeInv, TypeOK, SlotState
    <2> QED
      BY <1>3, <2>1, CommitAndGoType DEF EnterStage, HasRows, Live
  <1>4. ASSUME NEW s \in Slots, HandlerReturns(s) PROVE TypeInv'
    <2> DEFINE timings == run[s].timings \union {PIPELINE[run[s].stage].name}
               r == [run[s] EXCEPT !.pc = "leave", !.timings = timings]
    <2>1. run[s] \in SlotState /\ SlotOK(run[s])
      BY DEF TypeInv, TypeOK
    <2>2. PIPELINE[run[s].stage].name \in StageNames
      BY <2>1 DEF SlotState, Stages, PIPELINE, StageNames
    <2>3. r \in SlotState /\ SlotOK(r)
      BY <1>4, <2>1, <2>2 DEF HandlerReturns, SlotState, SlotOK, Pcs, Live
    <2>4. Become(s, r)
      BY <1>4 DEF HandlerReturns
    <2>5. /\ run' \in [Slots -> SlotState]
          /\ \A t \in Slots : SlotOK(run'[t])
      BY <2>3, <2>4, SlotUpdate
    <2>6. indexed' \subseteq Versions
      BY <1>4, <2>1 DEF HandlerReturns, TypeInv, TypeOK, SlotOK, Live, VersionAt
    <2> QED
      BY <1>4, <2>5, <2>6 DEF HandlerReturns, TypeInv, TypeOK, rows, arq
  <1>5. ASSUME NEW s \in Slots, HandlerRaises(s) PROVE TypeInv'
    <2> DEFINE r == [run[s] EXCEPT !.pc = "fail"]
    <2>1. run[s] \in SlotState /\ SlotOK(run[s])
      BY DEF TypeInv, TypeOK
    <2>2. r \in SlotState /\ SlotOK(r)
      BY <1>5, <2>1 DEF HandlerRaises, SlotState, SlotOK, Pcs, Live
    <2>3. /\ run' \in [Slots -> SlotState]
          /\ \A t \in Slots : SlotOK(run'[t])
      BY <1>5, <2>2, SlotUpdate DEF HandlerRaises
    <2>4. faults' \in [FaultKinds -> Nat]
      BY <1>5, FaultType DEF HandlerRaises, FaultKinds
    <2> QED
      BY <1>5, <2>3, <2>4 DEF HandlerRaises, TypeInv, TypeOK, rows, arq
  <1>6. ASSUME NEW s \in Slots, LeaveStage(s) PROVE TypeInv'
    <2>1. run[s].stage \in Stages /\ Len(PIPELINE) = 5
      BY DEF TypeInv, TypeOK, SlotState, PIPELINE
    <2>2. run[s].stage # Len(PIPELINE) => run[s].stage + 1 \in Stages
      BY <2>1 DEF Stages
    <2> QED
      BY <1>6, <2>1, <2>2, CommitAndGoType DEF LeaveStage, HasRows, Live
  <1>7. ASSUME NEW s \in Slots, RecordFailure(s) PROVE TypeInv'
    BY <1>7, CommitAndEndType DEF RecordFailure, HasRows, Live
  <1>8. ASSUME NEW s \in Slots, RecordSuccess(s) PROVE TypeInv'
    <2>1. run[s].stage \in Stages
      BY DEF TypeInv, TypeOK, SlotState
    <2> QED
      BY <1>8, <2>1, CommitAndGoType DEF RecordSuccess, HasRows, Live
  <1>9. ASSUME NEW s \in Slots, PromoteVersion(s) PROVE TypeInv'
    BY <1>9, CommitAndEndType DEF PromoteVersion, HasRows, Live
  <1>10. ASSUME NEW s \in Slots, DatabaseRaises(s) PROVE TypeInv'
    <2>1. /\ job' \in [Jobs -> JobRow]
          /\ version' \in [Versions -> VersionRow]
          /\ document' \in [Documents -> DocumentRow]
      <3>1. CASE UNCHANGED rows
        BY <3>1 DEF rows, TypeInv, TypeOK
      <3>2. CASE run[s].pc # "load" /\ Commit(s, Written(s))
        <4>1. HasRows(s) /\ run[s].pc # "exec"
          BY <1>10, <3>2 DEF DatabaseRaises, HasRows
        <4> QED
          BY <3>2, <4>1, WrittenType, CommitType
      <3> QED
        BY <1>10, <3>1, <3>2 DEF DatabaseRaises
    <2>2. /\ run' \in [Slots -> SlotState]
          /\ \A t \in Slots : SlotOK(run'[t])
      <3>1. CASE run[s].pc \in TryBlock
        <4> DEFINE r == [run[s] EXCEPT !.pc = "fail", !.cache = Expired]
        <4>1. run[s] \in SlotState /\ SlotOK(run[s])
          BY DEF TypeInv, TypeOK
        <4>2. r \in SlotState /\ SlotOK(r)
          BY <3>1, <4>1, ExpiredIsObject DEF TryBlock, SlotState, SlotOK, Pcs, Live, Object
        <4>3. Become(s, r)
          BY <1>10, <3>1 DEF DatabaseRaises, RolledBack
        <4> QED
          BY <4>2, <4>3, SlotUpdate
      <3>2. CASE run[s].pc \notin TryBlock
        <4>1. Become(s, EndRun(s, "raised")) /\ run[s].pc # "idle"
          BY <1>10, <3>2 DEF DatabaseRaises, Live
        <4> QED
          BY <4>1, EndedSlot, SlotUpdate
      <3> QED
        BY <3>1, <3>2
    <2>3. faults' \in [FaultKinds -> Nat]
      BY <1>10, FaultType DEF DatabaseRaises, FaultKinds
    <2> QED
      BY <1>10, <2>1, <2>2, <2>3 DEF DatabaseRaises, TypeInv, TypeOK, arq
  <1>11. ASSUME NEW j \in Jobs, Enqueue(j) PROVE TypeInv'
    BY <1>11 DEF Enqueue, TypeInv, TypeOK, rows
  <1>12. ASSUME NEW s \in Slots, NEW j \in Jobs, Deliver(s, j) PROVE TypeInv'
    <2> DEFINE r == Outside("load", j)
    <2>1. r \in SlotState /\ SlotOK(r)
      BY ExpiredIsObject DEF Outside, SlotState, SlotOK, Pcs, Live, Stages, Object
    <2>2. /\ run' \in [Slots -> SlotState]
          /\ \A t \in Slots : SlotOK(run'[t])
      BY <1>12, <2>1, SlotUpdate DEF Deliver
    <2> QED
      BY <1>12, <2>2 DEF Deliver, TypeInv, TypeOK, rows
  <1>13. ASSUME NEW j \in Jobs, GiveUp(j) PROVE TypeInv'
    BY <1>13 DEF GiveUp, Finish, TypeInv, TypeOK, rows
  <1>14. ASSUME NEW s \in Slots, AckReturned(s) PROVE TypeInv'
    <2>1. /\ run' \in [Slots -> SlotState]
          /\ \A t \in Slots : SlotOK(run'[t])
      BY <1>14, IdleSlot, SlotUpdate DEF AckReturned
    <2> QED
      BY <1>14, <2>1 DEF AckReturned, Finish, TypeInv, TypeOK, rows
  <1>15. ASSUME NEW s \in Slots, AckRaised(s) PROVE TypeInv'
    <2>1. /\ run' \in [Slots -> SlotState]
          /\ \A t \in Slots : SlotOK(run'[t])
      BY <1>15, IdleSlot, SlotUpdate DEF AckRaised
    <2> QED
      BY <1>15, <2>1 DEF AckRaised, Finish, Requeue, TypeInv, TypeOK, rows
  <1>16. ASSUME NEW s \in Slots, Timeout(s) PROVE TypeInv'
    <2>1. run[s].pc # "idle"
      BY <1>16 DEF Timeout, Cancellable, Live
    <2>2. /\ run' \in [Slots -> SlotState]
          /\ \A t \in Slots : SlotOK(run'[t])
      BY <1>16, <2>1, EndedSlot, SlotUpdate DEF Timeout
    <2>3. faults' \in [FaultKinds -> Nat]
      BY <1>16, FaultType DEF Timeout, FaultKinds
    <2> QED
      BY <1>16, <2>2, <2>3 DEF Timeout, TypeInv, TypeOK, rows, arq
  <1>17. ASSUME NEW s \in Slots, Shutdown(s) PROVE TypeInv'
    <2>1. /\ run' \in [Slots -> SlotState]
          /\ \A t \in Slots : SlotOK(run'[t])
      BY <1>17, IdleSlot, SlotUpdate DEF Shutdown
    <2>2. faults' \in [FaultKinds -> Nat]
      BY <1>17, FaultType DEF Shutdown, FaultKinds
    <2> QED
      BY <1>17, <2>1, <2>2 DEF Shutdown, Requeue, TypeInv, TypeOK, rows
  <1>18. ASSUME NEW s \in Slots, Crash(s) PROVE TypeInv'
    <2>1. /\ run' \in [Slots -> SlotState]
          /\ \A t \in Slots : SlotOK(run'[t])
      BY <1>18, IdleSlot, SlotUpdate DEF Crash
    <2>2. faults' \in [FaultKinds -> Nat]
      BY <1>18, FaultType DEF Crash, FaultKinds
    <2> QED
      BY <1>18, <2>1, <2>2 DEF Crash, arq, TypeInv, TypeOK, rows
  <1>19. ASSUME NEW j \in Jobs, LeaseExpires(j) PROVE TypeInv'
    BY <1>19 DEF LeaseExpires, TypeInv, TypeOK, rows
  <1>20. ASSUME NEW j \in Jobs, LeaseLapses(j) PROVE TypeInv'
    BY <1>20, FaultType DEF LeaseLapses, TypeInv, TypeOK, rows, FaultKinds
  <1>21. CASE RedisFlush
    BY <1>21, FaultType DEF RedisFlush, TypeInv, TypeOK, rows, FaultKinds
  <1>22. CASE UNCHANGED vars
    BY <1>22 DEF vars, TypeInv, TypeOK
  <1> QED
    BY <1>1, <1>2, <1>3, <1>4, <1>5, <1>6, <1>7, <1>8, <1>9, <1>10, <1>11, <1>12, <1>13,
       <1>14, <1>15, <1>16, <1>17, <1>18, <1>19, <1>20, <1>21, <1>22
    DEF Next, Work, Queueing, Disturbance

\* The rows, arq's keys and the sessions are well typed; in particular no row
\* takes on an expired attribute, whatever commit fails and wherever.
THEOREM TypeCorrect == Spec => []TypeOK
  <1>1. TypeInv => TypeOK
    BY DEF TypeInv
  <1> QED
    BY <1>1, TypeInit, TypeStep, PTL DEF Spec

-----------------------------------------------------------------------------
(* Who holds a job *)

\* A slot's job has been submitted and, as long as it is queued, is leased; no
\* other slot has it.
Owned ==
    /\ queue \subseteq submitted
    /\ \A s \in Slots :
        run[s].task # NoJob =>
            /\ run[s].task \in submitted
            /\ run[s].task \in queue => run[s].task \in leased
            /\ \A t \in Slots : run[t].task = run[s].task => t = s

OwnershipInv == NoStall => Owned

LEMMA SlotAfter ==
    ASSUME TypeInv, NEW s \in Slots, NEW r, Become(s, r)
    PROVE  /\ run'[s] = r
           /\ \A t \in Slots \ {s} : run'[t] = run[t]
  BY DEF Become, TypeInv, TypeOK

\* A stall is never forgotten.
LEMMA StallCounts ==
    ASSUME TypeInv, NEW k \in FaultKinds, Fault(k)
    PROVE  /\ NoStall' => NoStall
           /\ k = "stall" => ~NoStall'
  BY DEF Fault, TypeInv, TypeOK, NoStall, FaultKinds

LEMMA StallStep ==
    ASSUME TypeInv, Next
    PROVE  NoStall' => NoStall
  <1>1. UNCHANGED faults \/ \E k \in FaultKinds : Fault(k)
    BY DEF Next, Work, Queueing, Disturbance, Load, StartAttempt, EnterStage, HandlerReturns,
           LeaveStage, RecordFailure, RecordSuccess, PromoteVersion, AckReturned, AckRaised,
           CommitAndGo, Enqueue, GiveUp, LeaseExpires, Deliver, HandlerRaises, DatabaseRaises,
           Timeout, Shutdown, Crash, LeaseLapses, RedisFlush, FaultKinds
  <1> QED
    BY <1>1, StallCounts DEF NoStall

\* A slot that keeps its job or gives it up takes nothing from the others.
LEMMA OwnedKept ==
    ASSUME TypeInv, Owned, NEW s \in Slots, NEW r, Become(s, r),
           r.task = run[s].task \/ r.task = NoJob,
           UNCHANGED <<submitted, queue, leased>>
    PROVE  Owned'
  BY SlotAfter DEF Owned

LEMMA OwnedStep ==
    ASSUME TypeInv, OwnershipInv, Next
    PROVE  OwnershipInv'
  <1> SUFFICES ASSUME NoStall' PROVE Owned'
    BY DEF OwnershipInv
  <1>0. Owned
    BY StallStep DEF OwnershipInv
  <1>1. ASSUME NEW s \in Slots, Load(s) PROVE Owned'
    BY <1>0, <1>1, OwnedKept DEF Load, EndRun, Outside, arq, TypeInv, TypeOK, SlotState
  <1>2. ASSUME NEW s \in Slots, NEW pc, NEW stage, CommitAndGo(s, pc, stage) PROVE Owned'
    BY <1>0, <1>2, OwnedKept DEF CommitAndGo, arq, TypeInv, TypeOK, SlotState
  <1>3. ASSUME NEW s \in Slots, HandlerReturns(s) PROVE Owned'
    BY <1>0, <1>3, OwnedKept DEF HandlerReturns, arq, TypeInv, TypeOK, SlotState
  <1>4. ASSUME NEW s \in Slots, HandlerRaises(s) PROVE Owned'
    BY <1>0, <1>4, OwnedKept DEF HandlerRaises, arq, TypeInv, TypeOK, SlotState
  <1>5. ASSUME NEW s \in Slots, NEW outcome, Become(s, EndRun(s, outcome)), UNCHANGED arq
        PROVE Owned'
    BY <1>0, <1>5, OwnedKept DEF EndRun, Outside, arq
  <1>6. ASSUME NEW s \in Slots, DatabaseRaises(s) PROVE Owned'
    BY <1>0, <1>5, <1>6, OwnedKept DEF DatabaseRaises, arq, TypeInv, TypeOK, SlotState
  <1>7. ASSUME NEW j \in Jobs, Enqueue(j) PROVE Owned'
    BY <1>0, <1>7 DEF Enqueue, Owned
  <1>8. ASSUME NEW s \in Slots, NEW j \in Jobs, Deliver(s, j) PROVE Owned'
    BY <1>0, <1>8, SlotAfter, ConstantsAssumption DEF Deliver, Outside, Owned
  <1>9. ASSUME NEW j \in Jobs, GiveUp(j) PROVE Owned'
    BY <1>0, <1>9 DEF GiveUp, Finish, Owned
  <1>10. ASSUME NEW s \in Slots, Become(s, Idle),
                Finish(run[s].task) \/ Requeue(run[s].task) \/ UNCHANGED arq
         PROVE Owned'
    <2>1. run'[s].task = NoJob /\ \A t \in Slots \ {s} : run'[t] = run[t]
      BY <1>10, SlotAfter DEF Idle, Outside
    <2>2. CASE Finish(run[s].task)
      BY <1>0, <2>1, <2>2 DEF Finish, Owned
    <2>3. CASE Requeue(run[s].task)
      BY <1>0, <2>1, <2>3 DEF Requeue, Owned
    <2>4. CASE UNCHANGED arq
      BY <1>0, <2>1, <2>4 DEF arq, Owned
    <2> QED
      BY <1>10, <2>2, <2>3, <2>4
  <1>11. ASSUME NEW j \in Jobs, LeaseExpires(j) PROVE Owned'
    BY <1>0, <1>11 DEF LeaseExpires, Owned
  <1>12. ASSUME NEW j \in Jobs, LeaseLapses(j) PROVE Owned'
    BY <1>12, StallCounts DEF LeaseLapses, FaultKinds
  <1>13. CASE RedisFlush
    BY <1>0, <1>13 DEF RedisFlush, Owned
  <1> QED
    BY <1>1, <1>2, <1>3, <1>4, <1>5, <1>6, <1>7, <1>8, <1>9, <1>10, <1>11, <1>12, <1>13
    DEF Next, Work, Queueing, Disturbance, StartAttempt, EnterStage, LeaveStage, RecordFailure,
        RecordSuccess, PromoteVersion, AckReturned, AckRaised, Timeout, Shutdown, Crash

\* The in-progress key, its expiry and the retry policy never give one job to
\* two slots, for any number of slots and jobs and any faults but a stall.
THEOREM OneRun == Spec => []OneRunPerJob
  <1>1. Init => OwnershipInv
    BY DEF Init, Idle, Outside, OwnershipInv, Owned
  <1>2. TypeInv /\ OwnershipInv /\ [Next]_vars => OwnershipInv'
    <2>1. OwnershipInv /\ UNCHANGED vars => OwnershipInv'
      BY DEF OwnershipInv, Owned, NoStall, vars
    <2> QED
      BY <2>1, OwnedStep
  <1>3. OwnershipInv => OneRunPerJob
    BY DEF OwnershipInv, Owned, OneRunPerJob
  <1> QED
    BY <1>1, <1>2, <1>3, TypeInit, TypeStep, PTL DEF Spec

-----------------------------------------------------------------------------
(* What a session holds *)

\* The job and version of a session in state r are those of the rows.
Current(r) ==
    r.pc \in Live \ {"load"} =>
        /\ Agrees(r.cache.job, job[r.task])
        /\ SoleJob(r.task) => Agrees(r.cache.version, version[VersionOf[r.task]])

SessionsCurrent == \A s \in Slots : Current(run[s])

\* A commit leaves the row as the session has it, if it was so before.
LEMMA FlushAgrees ==
    ASSUME NEW row, NEW old, NEW new, Agrees(old, row)
    PROVE  Agrees(new, Flush(row, old, new))
  BY DEF Agrees, Flush

LEMMA ExpiredAgrees ==
    /\ \A row \in JobRow : Agrees(Expired.job, row)
    /\ \A row \in VersionRow : Agrees(Expired.version, row)
  BY DEF Agrees, Expired, JobRow, VersionRow

\* A step of one slot that writes no row.
LEMMA CurrentKept ==
    ASSUME TypeInv, SessionsCurrent, NEW s \in Slots, NEW r, Become(s, r), Current(r),
           UNCHANGED rows
    PROVE  SessionsCurrent'
  <1>1. \A t \in Slots : Current(run'[t])
    BY SlotAfter DEF SessionsCurrent
  <1> QED
    BY <1>1 DEF SessionsCurrent, Current, rows

\* A commit of slot s, after which s has ended, has expired its objects, or holds
\* what it wrote. The other slots have other jobs, and so other job rows and,
\* unless two jobs share it, another version row.
LEMMA CurrentCommitted ==
    ASSUME TypeInv, Owned, SessionsCurrent, NEW s \in Slots, HasRows(s),
           NEW new, Commit(s, new), NEW r, Become(s, r),
           r.pc \in Live \ {"load"} =>
               r.task = run[s].task /\ (r.cache = new \/ r.cache = Expired),
           job' \in [Jobs -> JobRow], version' \in [Versions -> VersionRow]
    PROVE  SessionsCurrent'
  <1> DEFINE j == run[s].task
             v == VersionOf[j]
  <1>1. j \in Jobs /\ v \in Versions /\ j # NoJob
    BY ConstantsAssumption DEF TypeInv, SlotOK, HasRows, Live
  <1>2. /\ Agrees(run[s].cache.job, job[j])
        /\ SoleJob(j) => Agrees(run[s].cache.version, version[v])
    BY DEF SessionsCurrent, Current, HasRows
  <1>3. /\ job' = [job EXCEPT ![j] = Flush(job[j], run[s].cache.job, new.job)]
        /\ version' = [version EXCEPT ![v] =
                           Flush(version[v], run[s].cache.version, new.version)]
    BY DEF Commit, VersionAt
  <1>4. /\ Agrees(new.job, job'[j])
        /\ SoleJob(j) => Agrees(new.version, version'[v])
    BY <1>1, <1>2, <1>3, FlushAgrees DEF TypeInv, TypeOK
  <1>5. /\ Agrees(Expired.job, job'[j])
        /\ Agrees(Expired.version, version'[v])
    BY <1>1, ExpiredAgrees
  <1>6. Current(r)'
    BY <1>4, <1>5 DEF Current
  <1>7. ASSUME NEW t \in Slots, t # s PROVE Current(run[t])'
    <2>1. run'[t] = run[t]
      BY <1>7, SlotAfter
    <2> SUFFICES ASSUME run[t].pc \in Live \ {"load"}
                 PROVE  /\ Agrees(run[t].cache.job, job'[run[t].task])
                        /\ SoleJob(run[t].task) =>
                               Agrees(run[t].cache.version, version'[VersionOf[run[t].task]])
      BY <2>1 DEF Current
    <2>2. run[t].task \in Jobs /\ VersionOf[run[t].task] \in Versions
      BY DEF TypeInv, SlotOK, Live
    <2>3. run[t].task # j
      BY <1>1, <1>7 DEF Owned
    <2>4. job'[run[t].task] = job[run[t].task]
      BY <1>3, <2>2, <2>3 DEF TypeInv, TypeOK
    <2>5. ASSUME SoleJob(run[t].task)
          PROVE  version'[VersionOf[run[t].task]] = version[VersionOf[run[t].task]]
      BY <1>1, <1>3, <2>2, <2>3, <2>5 DEF SoleJob, TypeInv, TypeOK
    <2> QED
      BY <2>4, <2>5 DEF SessionsCurrent, Current
  <1> QED
    BY <1>6, <1>7, SlotAfter DEF SessionsCurrent, Current

LEMMA CurrentStep ==
    ASSUME TypeInv, TypeInv', Owned, SessionsCurrent, Next
    PROVE  SessionsCurrent'
  <1>0. job' \in [Jobs -> JobRow] /\ version' \in [Versions -> VersionRow]
    BY DEF TypeInv, TypeOK
  <1>1. ASSUME NEW s \in Slots, Load(s) PROVE SessionsCurrent'
    <2>1. CASE VersionAt(s) = NoVersion
      <3>1. Current(EndRun(s, "returned"))
        BY DEF EndRun, Outside, Live, Current
      <3> QED
        BY <1>1, <2>1, <3>1, CurrentKept DEF Load
    <2>2. CASE VersionAt(s) # NoVersion
      <3> DEFINE r == [run[s] EXCEPT !.pc = "start",
                                     !.cache = [job |-> job[run[s].task],
                                                version |-> version[VersionAt(s)],
                                                document |-> document[DocumentAt(s)]]]
      <3>1. run[s] \in SlotState
        BY DEF TypeInv, TypeOK
      <3>2. Current(r)
        BY <3>1 DEF Current, Agrees, SlotState, VersionAt
      <3> QED
        BY <1>1, <2>2, <3>2, CurrentKept DEF Load
    <2> QED
      BY <2>1, <2>2
  <1>2. ASSUME NEW s \in Slots, HasRows(s), NEW pc, NEW stage, CommitAndGo(s, pc, stage)
        PROVE  SessionsCurrent'
    <2> DEFINE r == [run[s] EXCEPT !.cache = Written(s), !.pc = pc, !.stage = stage]
    <2>0. run[s] \in SlotState
      BY DEF TypeInv, TypeOK
    <2>1. r.task = run[s].task /\ r.cache = Written(s)
      BY <2>0 DEF SlotState
    <2>2. Become(s, r) /\ Commit(s, Written(s))
      BY <1>2 DEF CommitAndGo
    <2> HIDE DEF r
    <2> QED
      BY <1>0, <1>2, <2>1, <2>2, CurrentCommitted
  <1>3. ASSUME NEW s \in Slots, HandlerReturns(s) PROVE SessionsCurrent'
    <2> DEFINE r == [run[s] EXCEPT
                         !.pc = "leave",
                         !.timings = run[s].timings \union {PIPELINE[run[s].stage].name}]
    <2>1. r.task = run[s].task /\ r.cache = run[s].cache
      BY DEF TypeInv, TypeOK, SlotState
    <2>2. Become(s, r) /\ run[s].pc = "exec" /\ UNCHANGED rows
      BY <1>3 DEF HandlerReturns
    <2> HIDE DEF r
    <2>3. Current(r)
      BY <2>1, <2>2 DEF SessionsCurrent, Current, Live
    <2> QED
      BY <2>2, <2>3, CurrentKept
  <1>4. ASSUME NEW s \in Slots, HandlerRaises(s) PROVE SessionsCurrent'
    <2> DEFINE r == [run[s] EXCEPT !.pc = "fail"]
    <2>1. r.task = run[s].task /\ r.cache = run[s].cache
      BY DEF TypeInv, TypeOK, SlotState
    <2>2. Become(s, r) /\ run[s].pc = "exec" /\ UNCHANGED rows
      BY <1>4 DEF HandlerRaises
    <2> HIDE DEF r
    <2>3. Current(r)
      BY <2>1, <2>2 DEF SessionsCurrent, Current, Live
    <2> QED
      BY <2>2, <2>3, CurrentKept
  <1>5. ASSUME NEW s \in Slots, HasRows(s), NEW outcome \in {"returned", "raised"},
               Commit(s, Written(s)), Become(s, EndRun(s, outcome))
        PROVE  SessionsCurrent'
    <2>1. EndRun(s, outcome).pc \notin Live
      BY DEF EndRun, Outside, Live
    <2> QED
      BY <1>0, <1>5, <2>1, CurrentCommitted
  <1>6. ASSUME NEW s \in Slots, NEW outcome \in {"returned", "raised"},
               UNCHANGED rows, Become(s, EndRun(s, outcome))
        PROVE  SessionsCurrent'
    <2>1. Current(EndRun(s, outcome))
      BY DEF EndRun, Outside, Live, Current
    <2> QED
      BY <1>6, <2>1, CurrentKept
  <1>7. ASSUME NEW s \in Slots, DatabaseRaises(s) PROVE SessionsCurrent'
    <2>1. CASE run[s].pc \notin TryBlock
      BY <1>5, <1>6, <1>7, <2>1 DEF DatabaseRaises, HasRows
    <2>2. CASE run[s].pc \in TryBlock
      <3> DEFINE r == [run[s] EXCEPT !.pc = "fail", !.cache = Expired]
      <3>1. r.task = run[s].task /\ r.cache = Expired
        BY DEF TypeInv, TypeOK, SlotState
      <3>2. Become(s, r) /\ HasRows(s)
        BY <1>7, <2>2 DEF DatabaseRaises, RolledBack, HasRows, TryBlock
      <3>3. CASE UNCHANGED rows
        <4>1. run[s].task \in Jobs /\ VersionOf[run[s].task] \in Versions
          BY <3>2 DEF TypeInv, SlotOK, HasRows, Live
        <4> HIDE DEF r
        <4>2. Current(r)
          BY <3>1, <4>1, ExpiredAgrees DEF Current, TypeInv, TypeOK
        <4> QED
          BY <3>2, <3>3, <4>2, CurrentKept
      <3>4. CASE Commit(s, Written(s))
        <4> HIDE DEF r
        <4> QED
          BY <1>0, <3>1, <3>2, <3>4, CurrentCommitted
      <3> QED
        BY <1>7, <3>3, <3>4 DEF DatabaseRaises
    <2> QED
      BY <2>1, <2>2
  <1>8. ASSUME NEW s \in Slots, NEW pc \in {"idle", "load"}, NEW j, Become(s, Outside(pc, j)),
               UNCHANGED rows
        PROVE  SessionsCurrent'
    <2>1. Current(Outside(pc, j))
      BY DEF Outside, Live, Current
    <2> QED
      BY <1>8, <2>1, CurrentKept
  <1>9. CASE UNCHANGED <<rows, run>>
    BY <1>9 DEF SessionsCurrent, Current, rows
  <1>10. ASSUME NEW s \in Slots, Work(s) PROVE SessionsCurrent'
    BY <1>1, <1>2, <1>3, <1>5, <1>8, <1>10
    DEF Work, StartAttempt, EnterStage, LeaveStage, RecordFailure, RecordSuccess,
        PromoteVersion, AckReturned, AckRaised, HasRows, Live, Idle
  <1>11. CASE Disturbance
    BY <1>4, <1>6, <1>7, <1>8, <1>9, <1>11
    DEF Disturbance, Timeout, Shutdown, Crash, LeaseLapses, RedisFlush, Idle, arq
  <1>12. ASSUME NEW j \in Jobs, Enqueue(j) \/ Queueing(j) PROVE SessionsCurrent'
    BY <1>8, <1>9, <1>12 DEF Enqueue, Queueing, GiveUp, LeaseExpires, Deliver
  <1> QED
    BY <1>10, <1>11, <1>12 DEF Next

SessionInv == TypeInv /\ OwnershipInv /\ (NoStall => SessionsCurrent)

LEMMA SessionInit == Init => SessionInv
  BY TypeInit DEF Init, Idle, Outside, SessionInv, OwnershipInv, Owned, SessionsCurrent,
                  Current, Live

LEMMA SessionStep == SessionInv /\ [Next]_vars => SessionInv'
  <1>1. SessionInv /\ UNCHANGED vars => SessionInv'
    BY TypeStep DEF SessionInv, OwnershipInv, Owned, NoStall, SessionsCurrent, Current, vars
  <1>2. SessionInv /\ Next => SessionInv'
    BY TypeStep, OwnedStep, StallStep, CurrentStep DEF SessionInv, OwnershipInv
  <1> QED
    BY <1>1, <1>2

\* A session that never re-reads is never out of date about its job and version,
\* whatever commits fail and however often the job is redelivered.
THEOREM SessionCurrent == Spec => []SessionIsCurrent
  <1>1. SessionInv => SessionIsCurrent
    BY DEF SessionInv, SessionsCurrent, Current, SessionIsCurrent, HasRows, VersionAt
  <1> QED
    BY <1>1, SessionInit, SessionStep, PTL DEF Spec

-----------------------------------------------------------------------------
(* How far a run has come *)

Done(i) == {PIPELINE[k].name : k \in 1..i}

\* What a run in state r has behind it, done being the indexed versions: the timings of the stages before its
\* own, the last statuses it wrote and, after the last handler, an indexed version.
Progressed(r, done) ==
    /\ r.pc \in {"load", "start"} => r.timings = {}
    /\ r.pc = "enter" => r.timings = Done(r.stage - 1)
    /\ r.pc = "exec" => r.timings = Done(r.stage - 1)
    /\ r.pc = "leave" =>
        /\ r.timings = Done(r.stage)
        /\ r.stage = Len(PIPELINE) => VersionOf[r.task] \in done
    /\ r.pc \in {"complete", "promote"} => VersionOf[r.task] \in done
    /\ r.pc \in {"enter", "exec", "leave", "complete"} => r.cache.job.status = "RUNNING"
    /\ r.pc \in {"exec", "leave"} =>
        /\ r.cache.job.current_stage = PIPELINE[r.stage].name
        /\ r.cache.version.status = PIPELINE[r.stage].status

RunsProgressed == \A s \in Slots : Progressed(run[s], indexed)

LEMMA DoneSteps ==
    /\ Done(0) = {}
    /\ Done(Len(PIPELINE)) = StageNames
    /\ \A i \in Stages : Done(i - 1) \union {PIPELINE[i].name} = Done(i)
  <1>1. Done(0) = {}
    BY DEF Done
  <1>2. /\ Done(1) = {"parse"} /\ Done(2) = {"parse", "ocr"}
        /\ Done(3) = {"parse", "ocr", "chunk"} /\ Done(4) = {"parse", "ocr", "chunk", "embed"}
        /\ Done(5) = {"parse", "ocr", "chunk", "embed", "index"}
    <2>1. /\ 1..1 = {1} /\ 1..2 = {1, 2} /\ 1..3 = {1, 2, 3} /\ 1..4 = {1, 2, 3, 4}
          /\ 1..5 = {1, 2, 3, 4, 5}
      OBVIOUS
    <2> QED
      BY <2>1 DEF Done, PIPELINE
  <1>3. Len(PIPELINE) = 5
    BY DEF PIPELINE
  <1>4. ASSUME NEW i \in Stages PROVE Done(i - 1) \union {PIPELINE[i].name} = Done(i)
    <2>1. \A k \in 1..i : k = i \/ k \in 1..(i - 1)
      BY DEF Stages
    <2>2. \A k \in 1..(i - 1) : k \in 1..i
      BY DEF Stages
    <2>3. i \in 1..i
      BY DEF Stages
    <2> QED
      BY <2>1, <2>2, <2>3 DEF Done
  <1> QED
    BY <1>1, <1>2, <1>3, <1>4 DEF StageNames

\* What the assignments of a step leave of a slot's state and of a cached job.
LEMMA SlotAtCommit ==
    ASSUME NEW r \in SlotState, NEW cache, NEW pc, NEW stage
    PROVE  LET q == [r EXCEPT !.cache = cache, !.pc = pc, !.stage = stage]
           IN  q.cache = cache /\ q.pc = pc /\ q.stage = stage
               /\ q.task = r.task /\ q.timings = r.timings
  BY DEF SlotState

LEMMA SlotWithCache ==
    ASSUME NEW r \in SlotState, NEW cache, NEW pc
    PROVE  LET q == [r EXCEPT !.pc = pc, !.cache = cache]
           IN  q.cache = cache /\ q.pc = pc /\ q.stage = r.stage
               /\ q.task = r.task /\ q.timings = r.timings
  BY DEF SlotState

LEMMA JobAtStart ==
    ASSUME NEW j \in JobObject, NEW status, NEW attempts, NEW error
    PROVE  [j EXCEPT !.status = status, !.attempts = attempts, !.error = error].status = status
  BY DEF JobObject

LEMMA JobAtLeave ==
    ASSUME NEW j \in JobObject, NEW progress, NEW timings
    PROVE  [j EXCEPT !.progress = progress, !.timings = timings].status = j.status
  BY DEF JobObject

\* What the commits write, of what the properties below look at.
LEMMA WrittenShows ==
    ASSUME TypeInv, NEW s \in Slots
    PROVE  /\ run[s].pc = "start" => Written(s).job.status = "RUNNING"
           /\ run[s].pc = "enter" =>
               /\ Written(s).job.status = run[s].cache.job.status
               /\ Written(s).job.current_stage = PIPELINE[run[s].stage].name
               /\ Written(s).version.status = PIPELINE[run[s].stage].status
           /\ run[s].pc = "leave" => Written(s).job.status = run[s].cache.job.status
           /\ run[s].pc \in {"start", "enter", "leave", "fail", "complete"} =>
               Written(s).document.current = run[s].cache.document.current
           /\ run[s].pc = "promote" => Written(s).document.current = VersionAt(s)
  <1> DEFINE c == run[s].cache
             stage == PIPELINE[run[s].stage]
  <1>1. c \in [job: JobObject, version: VersionObject, document: DocumentObject]
    BY DEF TypeInv, TypeOK, SlotState
  <1>2. c.job \in JobObject /\ c.version \in VersionObject /\ c.document \in DocumentObject
    BY <1>1
  <1>3. ASSUME NEW status, NEW jobFields
        PROVE  LET w == SetStatus(c, status, jobFields)
               IN  w.job = jobFields /\ w.version.status = status
                   /\ w.document.current = c.document.current
    BY <1>2 DEF SetStatus, VersionObject, DocumentObject
  <1>4. CASE run[s].pc = "start"
    <2>1. Written(s) = Started(c)
      BY <1>4 DEF Written
    <2>2. [c.job EXCEPT !.status = "RUNNING", !.attempts = @ + 1, !.error = "none"].status
              = "RUNNING"
      BY <1>2, JobAtStart
    <2>3. /\ Written(s).job = [c.job EXCEPT !.status = "RUNNING", !.attempts = @ + 1,
                                            !.error = "none"]
          /\ Written(s).document.current = c.document.current
      BY <1>3, <2>1 DEF Started
    <2> QED
      BY <1>4, <2>2, <2>3
  <1>5. CASE run[s].pc = "enter"
    <2>1. Written(s) = Entered(c, stage)
      BY <1>5 DEF Written
    <2> QED
      BY <1>2, <1>3, <1>5, <2>1 DEF Entered, JobObject
  <1>6. CASE run[s].pc = "leave"
    <2>1. Written(s) = Left(c, stage, run[s].timings)
      BY <1>6 DEF Written
    <2>2. [c.job EXCEPT !.progress = stage.progress, !.timings = run[s].timings].status
              = c.job.status
      BY <1>2, JobAtLeave
    <2>3. /\ Written(s).job = [c.job EXCEPT !.progress = stage.progress, !.timings = run[s].timings]
          /\ Written(s).document.current = c.document.current
      BY <1>3, <2>1 DEF Left
    <2> QED
      BY <1>6, <2>2, <2>3
  <1>7. CASE run[s].pc = "fail"
    <2>1. Written(s).document = [[c EXCEPT !.version.error = TRUE].document
                                    EXCEPT !.status = "FAILED"]
      BY <1>7 DEF Written, Failed, SetStatus
    <2>2. [c EXCEPT !.version.error = TRUE].document = c.document
      BY <1>1
    <2> QED
      BY <1>2, <1>7, <2>1, <2>2 DEF DocumentObject
  <1>8. CASE run[s].pc = "complete"
    <2>1. Written(s) = Completed(c)
      BY <1>8 DEF Written
    <2> QED
      BY <1>3, <1>8, <2>1 DEF Completed
  <1>9. CASE run[s].pc = "promote"
    <2>1. Written(s) = Promoted(c, VersionAt(s))
      BY <1>9 DEF Written
    <2> QED
      BY <1>1, <1>2, <1>9, <2>1 DEF Promoted, DocumentObject
  <1> QED
    BY <1>4, <1>5, <1>6, <1>7, <1>8, <1>9

\* A step of one slot.
LEMMA ProgressKept ==
    ASSUME TypeInv, RunsProgressed, NEW s \in Slots, NEW r, Become(s, r), Progressed(r, indexed'),
           indexed \subseteq indexed'
    PROVE  RunsProgressed'
  BY SlotAfter DEF RunsProgressed, Progressed

LEMMA ProgressStep ==
    ASSUME TypeInv, RunsProgressed, Next
    PROVE  RunsProgressed'
  <1>0. \A s \in Slots : run[s] \in SlotState
    BY DEF TypeInv, TypeOK
  <1>1. ASSUME NEW s \in Slots, NEW pc \in {"idle", "load", "returned", "raised"}, NEW j,
               Become(s, Outside(pc, j)), UNCHANGED indexed
        PROVE  RunsProgressed'
    <2>1. Progressed(Outside(pc, j), indexed')
      BY DEF Progressed, Outside
    <2> QED
      BY <1>1, <2>1, ProgressKept
  <1>2. ASSUME NEW s \in Slots, NEW pc, NEW stage \in Stages, CommitAndGo(s, pc, stage),
               Progressed([run[s] EXCEPT !.cache = Written(s), !.pc = pc, !.stage = stage], indexed)
        PROVE  RunsProgressed'
    <2> DEFINE r == [run[s] EXCEPT !.cache = Written(s), !.pc = pc, !.stage = stage]
    <2>1. Become(s, r) /\ UNCHANGED indexed
      BY <1>2 DEF CommitAndGo
    <2>2. Progressed(r, indexed)
      BY <1>2
    <2> HIDE DEF r
    <2>3. Progressed(r, indexed')
      BY <2>1, <2>2 DEF Progressed
    <2> QED
      BY <2>1, <2>3, ProgressKept
  <1>3. ASSUME NEW s \in Slots, Load(s) PROVE RunsProgressed'
    <2>1. CASE VersionAt(s) = NoVersion
      BY <1>1, <1>3, <2>1 DEF Load, EndRun
    <2>2. CASE VersionAt(s) # NoVersion
      <3> DEFINE r == [run[s] EXCEPT !.pc = "start",
                                     !.cache = [job |-> job[run[s].task],
                                                version |-> version[VersionAt(s)],
                                                document |-> document[DocumentAt(s)]]]
      <3>1. Become(s, r) /\ UNCHANGED indexed
        BY <1>3, <2>2 DEF Load
      <3>2. r.pc = "start" /\ r.timings = run[s].timings
        BY <1>0, SlotWithCache
      <3> HIDE DEF r
      <3>3. Progressed(r, indexed')
        BY <1>3, <3>2 DEF Load, RunsProgressed, Progressed
      <3> QED
        BY <3>1, <3>3, ProgressKept
    <2> QED
      BY <2>1, <2>2
  <1>4. ASSUME NEW s \in Slots, StartAttempt(s) PROVE RunsProgressed'
    <2> DEFINE r == [run[s] EXCEPT !.cache = Written(s), !.pc = "enter", !.stage = 1]
    <2>1. r.pc = "enter" /\ r.stage = 1 /\ r.timings = run[s].timings /\ r.cache = Written(s)
      BY <1>0, SlotAtCommit
    <2>2. Done(1 - 1) = {}
      BY DoneSteps
    <2>3. Progressed(r, indexed)
      <3> HIDE DEF r
      <3> QED
        BY <1>4, <2>1, <2>2, WrittenShows DEF StartAttempt, RunsProgressed, Progressed
    <2>4. 1 \in Stages
      BY DEF Stages
    <2>5. CommitAndGo(s, "enter", 1)
      BY <1>4 DEF StartAttempt
    <2> QED
      BY <1>2, <2>3, <2>4, <2>5
  <1>5. ASSUME NEW s \in Slots, EnterStage(s) PROVE RunsProgressed'
    <2> DEFINE r == [run[s] EXCEPT !.cache = Written(s), !.pc = "exec", !.stage = run[s].stage]
    <2>0. run[s].stage \in Stages
      BY <1>0 DEF SlotState
    <2>1. /\ r.pc = "exec" /\ r.stage = run[s].stage /\ r.timings = run[s].timings
          /\ r.cache = Written(s)
      BY <1>0, SlotAtCommit
    <2>2. Progressed(r, indexed)
      <3> HIDE DEF r
      <3> QED
        BY <1>5, <2>1, WrittenShows DEF EnterStage, RunsProgressed, Progressed
    <2> QED
      BY <1>2, <1>5, <2>0, <2>2 DEF EnterStage
  <1>6. ASSUME NEW s \in Slots, LeaveStage(s) PROVE RunsProgressed'
    <2>0. run[s].stage \in Stages /\ Len(PIPELINE) = 5
      BY <1>0 DEF SlotState, PIPELINE
    <2>1. CASE run[s].stage = Len(PIPELINE)
      <3> DEFINE r == [run[s] EXCEPT !.cache = Written(s), !.pc = "complete",
                                     !.stage = run[s].stage]
      <3>1. r.pc = "complete" /\ r.task = run[s].task /\ r.cache = Written(s)
        BY <1>0, SlotAtCommit
      <3>2. Progressed(r, indexed)
        <4> HIDE DEF r
        <4> QED
          BY <1>6, <2>1, <3>1, WrittenShows DEF LeaveStage, RunsProgressed, Progressed
      <3> QED
        BY <1>2, <1>6, <2>0, <2>1, <3>2 DEF LeaveStage
    <2>2. CASE run[s].stage # Len(PIPELINE)
      <3> DEFINE r == [run[s] EXCEPT !.cache = Written(s), !.pc = "enter",
                                     !.stage = run[s].stage + 1]
      <3>1. /\ r.pc = "enter" /\ r.stage = run[s].stage + 1 /\ r.timings = run[s].timings
            /\ r.cache = Written(s)
        BY <1>0, SlotAtCommit
      <3>2. r.stage - 1 = run[s].stage
        BY <2>0, <3>1 DEF Stages
      <3>3. Progressed(r, indexed)
        <4> HIDE DEF r
        <4> QED
          BY <1>6, <2>2, <3>1, <3>2, WrittenShows DEF LeaveStage, RunsProgressed, Progressed
      <3>4. run[s].stage + 1 \in Stages
        BY <2>0, <2>2 DEF Stages
      <3> QED
        BY <1>2, <1>6, <2>2, <3>3, <3>4 DEF LeaveStage
    <2> QED
      BY <2>1, <2>2
  <1>7. ASSUME NEW s \in Slots, RecordSuccess(s) PROVE RunsProgressed'
    <2> DEFINE r == [run[s] EXCEPT !.cache = Written(s), !.pc = "promote",
                                   !.stage = run[s].stage]
    <2>0. run[s].stage \in Stages
      BY <1>0 DEF SlotState
    <2>1. r.pc = "promote" /\ r.task = run[s].task
      BY <1>0, SlotAtCommit
    <2>2. Progressed(r, indexed)
      <3> HIDE DEF r
      <3> QED
        BY <1>7, <2>1 DEF RecordSuccess, RunsProgressed, Progressed
    <2> QED
      BY <1>2, <1>7, <2>0, <2>2 DEF RecordSuccess
  <1>8. ASSUME NEW s \in Slots, HandlerReturns(s) PROVE RunsProgressed'
    <2> DEFINE timings == run[s].timings \union {PIPELINE[run[s].stage].name}
               r == [run[s] EXCEPT !.pc = "leave", !.timings = timings]
    <2>1. /\ r.pc = "leave" /\ r.stage = run[s].stage /\ r.timings = timings
          /\ r.cache = run[s].cache /\ r.task = run[s].task /\ run[s].stage \in Stages
      BY <1>0 DEF SlotState
    <2>2. timings = Done(run[s].stage)
      BY <1>8, <2>1, DoneSteps DEF HandlerReturns, RunsProgressed, Progressed
    <2>3. indexed \subseteq indexed'
      BY <1>8 DEF HandlerReturns
    <2>4. run[s].stage = Len(PIPELINE) => VersionOf[run[s].task] \in indexed'
      BY <1>8, <2>2, DoneSteps DEF HandlerReturns, VersionAt
    <2>5. Become(s, r) /\ run[s].pc = "exec"
      BY <1>8 DEF HandlerReturns
    <2>6. Progressed(r, indexed')
      <3> HIDE DEF r, timings
      <3> QED
        BY <2>1, <2>2, <2>4, <2>5 DEF RunsProgressed, Progressed
    <2> QED
      BY <2>3, <2>5, <2>6, ProgressKept
  <1>9. ASSUME NEW s \in Slots, NEW cache, UNCHANGED indexed,
               Become(s, [run[s] EXCEPT !.pc = "fail", !.cache = cache])
        PROVE  RunsProgressed'
    <2> DEFINE r == [run[s] EXCEPT !.pc = "fail", !.cache = cache]
    <2>1. r.pc = "fail"
      BY <1>0 DEF SlotState
    <2>2. Progressed(r, indexed')
      <3> HIDE DEF r
      <3> QED
        BY <2>1 DEF Progressed
    <2> QED
      BY <1>9, <2>2, ProgressKept
  <1>10. ASSUME NEW s \in Slots, HandlerRaises(s) PROVE RunsProgressed'
    <2>1. [run[s] EXCEPT !.pc = "fail"] = [run[s] EXCEPT !.pc = "fail", !.cache = run[s].cache]
      BY <1>0 DEF SlotState
    <2> QED
      BY <1>9, <1>10, <2>1 DEF HandlerRaises
  <1>11. ASSUME NEW s \in Slots, DatabaseRaises(s) PROVE RunsProgressed'
    BY <1>1, <1>9, <1>11 DEF DatabaseRaises, EndRun
  <1>12. CASE UNCHANGED <<run, indexed>>
    BY <1>12 DEF RunsProgressed, Progressed
  <1>13. ASSUME NEW s \in Slots, Work(s) PROVE RunsProgressed'
    BY <1>1, <1>3, <1>4, <1>5, <1>6, <1>7, <1>8, <1>13
    DEF Work, RecordFailure, PromoteVersion, AckReturned, AckRaised, EndRun, Idle
  <1>14. CASE Disturbance
    BY <1>1, <1>10, <1>11, <1>12, <1>14
    DEF Disturbance, Timeout, Shutdown, Crash, LeaseLapses, RedisFlush, EndRun, Idle
  <1>15. ASSUME NEW j \in Jobs, Enqueue(j) \/ Queueing(j) PROVE RunsProgressed'
    BY <1>1, <1>12, <1>15 DEF Enqueue, Queueing, GiveUp, LeaseExpires, Deliver
  <1> QED
    BY <1>13, <1>14, <1>15 DEF Next

\* The status a user reads from the job row, and from the version row when one
\* job writes it, is the stage being executed; for every choice of jobs,
\* versions, documents and slots, and any faults but a stalled event loop.
THEOREM StageShown == Spec => []ShownStageIsExecuting
  <1>1. Init => RunsProgressed
    BY DEF Init, Idle, Outside, RunsProgressed, Progressed
  <1>2. TypeInv /\ RunsProgressed /\ [Next]_vars => RunsProgressed'
    <2>1. RunsProgressed /\ UNCHANGED vars => RunsProgressed'
      BY DEF RunsProgressed, Progressed, vars
    <2> QED
      BY <2>1, ProgressStep
  <1>3. SessionInv /\ RunsProgressed => ShownStageIsExecuting
    <2> SUFFICES ASSUME SessionInv, RunsProgressed, NoStall,
                        NEW s \in Slots, run[s].pc = "exec"
                 PROVE  LET j == run[s].task
                            stage == PIPELINE[run[s].stage]
                        IN  /\ job[j].status = "RUNNING"
                            /\ job[j].current_stage = stage.name
                            /\ SoleJob(j) => version[VersionOf[j]].status = stage.status
      BY DEF ShownStageIsExecuting
    <2> DEFINE j == run[s].task
               v == VersionOf[j]
               c == run[s].cache
    <2>1. /\ j \in Jobs /\ v \in Versions
          /\ job[j] \in JobRow /\ version[v] \in VersionRow
          /\ c.job \in JobRow /\ c.version \in VersionRow
      BY DEF SessionInv, TypeInv, TypeOK, SlotOK, Live, Loaded
    <2>2. /\ Agrees(c.job, job[j])
          /\ SoleJob(j) => Agrees(c.version, version[v])
      BY DEF SessionInv, SessionsCurrent, Current, Live
    <2>3. /\ job[j].status = c.job.status
          /\ job[j].current_stage = c.job.current_stage
      BY <2>1, <2>2, UnloadedAssumption DEF Agrees, JobRow
    <2>4. SoleJob(j) => version[v].status = c.version.status
      BY <2>1, <2>2, UnloadedAssumption DEF Agrees, VersionRow
    <2> QED
      BY <2>3, <2>4 DEF RunsProgressed, Progressed
  <1> QED
    BY <1>1, <1>2, <1>3, SessionInit, SessionStep, TypeInit, TypeStep, PTL DEF Spec

-----------------------------------------------------------------------------
(* The current version *)

\* Only the last commit of a run assigns current_version_id.
LEMMA CommitKeepsIndexed ==
    ASSUME TypeInv, RunsProgressed, CurrentVersionIsIndexed, NEW s \in Slots,
           HasRows(s), run[s].pc # "exec", Commit(s, Written(s))
    PROVE  \A d \in Documents :
               document'[d].current # NoVersion =>
                   document'[d].current \in indexed /\ DocumentOf[document'[d].current] = d
  <1> DEFINE e == DocumentAt(s)
             old == run[s].cache.document
             new == Written(s).document
  <1>1. /\ VersionAt(s) \in Versions /\ e \in Documents
        /\ document \in [Documents -> DocumentRow] /\ document[e] \in DocumentRow
    BY ConstantsAssumption DEF TypeInv, TypeOK, SlotOK, HasRows, VersionAt, DocumentAt
  <1>2. document' = [document EXCEPT ![e] = Flush(document[e], old, new)]
    BY DEF Commit
  <1>3. Flush(document[e], old, new).current =
            IF new.current = old.current THEN document[e].current ELSE new.current
    BY <1>1 DEF Flush, DocumentRow
  <1>4. new.current = old.current \/ (new.current = VersionAt(s) /\ VersionAt(s) \in indexed)
    BY WrittenShows DEF RunsProgressed, Progressed, HasRows, Live, VersionAt
  <1>5. \A d \in Documents \ {e} : document'[d] = document[d]
    BY <1>1, <1>2
  <1>6. document'[e].current \in {document[e].current, VersionAt(s)}
        /\ (document'[e].current = VersionAt(s) /\ document'[e].current # document[e].current
                => VersionAt(s) \in indexed)
    BY <1>1, <1>2, <1>3, <1>4
  <1> QED
    BY <1>1, <1>5, <1>6 DEF CurrentVersionIsIndexed, DocumentAt

LEMMA IndexedStep ==
    ASSUME TypeInv, RunsProgressed, CurrentVersionIsIndexed, Next
    PROVE  CurrentVersionIsIndexed'
  <1>1. CASE UNCHANGED document /\ indexed \subseteq indexed'
    BY <1>1 DEF CurrentVersionIsIndexed
  <1>2. ASSUME NEW s \in Slots, HasRows(s), run[s].pc # "exec", Commit(s, Written(s)),
               UNCHANGED indexed
        PROVE  CurrentVersionIsIndexed'
    BY <1>2, CommitKeepsIndexed DEF CurrentVersionIsIndexed
  <1>3. ASSUME NEW s \in Slots, Work(s) PROVE CurrentVersionIsIndexed'
    BY <1>1, <1>2, <1>3
    DEF Work, Load, StartAttempt, EnterStage, HandlerReturns, LeaveStage, RecordFailure,
        RecordSuccess, PromoteVersion, AckReturned, AckRaised, CommitAndGo, HasRows, Live, rows
  <1>4. CASE Disturbance
    BY <1>1, <1>2, <1>4
    DEF Disturbance, HandlerRaises, DatabaseRaises, Timeout, Shutdown, Crash, LeaseLapses,
        RedisFlush, HasRows, rows
  <1>5. ASSUME NEW j \in Jobs, Enqueue(j) \/ Queueing(j) PROVE CurrentVersionIsIndexed'
    BY <1>1, <1>5 DEF Enqueue, Queueing, GiveUp, LeaseExpires, Deliver, rows
  <1> QED
    BY <1>3, <1>4, <1>5 DEF Next

\* current_version_id only ever names a version of the document that one attempt
\* took through all handlers, even when runs of a job overlap or share a version.
THEOREM CurrentVersionSound == Spec => []CurrentVersionIsIndexed
  <1>1. Init => RunsProgressed /\ CurrentVersionIsIndexed
    BY DEF Init, Idle, Outside, RunsProgressed, Progressed, CurrentVersionIsIndexed
  <1>2. /\ RunsProgressed /\ CurrentVersionIsIndexed /\ TypeInv /\ [Next]_vars
               => RunsProgressed' /\ CurrentVersionIsIndexed'
    <2>1. RunsProgressed /\ CurrentVersionIsIndexed /\ UNCHANGED vars
              => RunsProgressed' /\ CurrentVersionIsIndexed'
      BY DEF RunsProgressed, Progressed, CurrentVersionIsIndexed, vars
    <2> QED
      BY <2>1, ProgressStep, IndexedStep
  <1> QED
    BY <1>1, <1>2, TypeInit, TypeStep, PTL DEF Spec
=============================================================================
