-------------------------- MODULE IngestionOutcomes --------------------------
EXTENDS IngestionProofs, FiniteSetTheorems

-----------------------------------------------------------------------------
(* What the rows show of a settled job *)

\* The two outcomes, for one job.
SuccessShown(j) ==
    job[j].status = "SUCCEEDED" =>
        /\ job[j].progress = 100 /\ job[j].finished
        /\ job[j].current_stage = "none" /\ job[j].error = "none"
        /\ job[j].timings = StageNames
        /\ VersionOf[j] \in indexed
        /\ SoleJob(j) => version[VersionOf[j]].status = "COMPLETED"

FailureShown(j) ==
    /\ job[j].status = "FAILED" <=> job[j].error # "none"
    /\ job[j].status = "FAILED" =>
        \E i \in Stages :
            /\ job[j].error = PIPELINE[i].name
            /\ job[j].timings \in {Done(i - 1), Done(i - 1) \union {PIPELINE[i].name}}
            /\ SoleJob(j) => version[VersionOf[j]].status = "FAILED"

OutcomesShown == \A j \in Jobs : SuccessShown(j) /\ FailureShown(j)

\* What the rows of the job of a run in state r show meanwhile, in the tables
\* jobs and versions.
Reported(r, jobs, versions) ==
    /\ r.pc \in {"enter", "exec", "leave", "fail", "complete"} => jobs[r.task].status = "RUNNING"
    /\ r.pc = "fail" => r.timings \in {Done(r.stage - 1), Done(r.stage)}
    /\ r.pc = "complete" => jobs[r.task].timings = StageNames
    /\ r.pc = "promote" => jobs[r.task].status = "SUCCEEDED"
    /\ SoleJob(r.task) =>
        LET shown == versions[VersionOf[r.task]].status
        IN  /\ r.pc = "enter" =>
                shown = PIPELINE[IF r.stage = 1 THEN 1 ELSE r.stage - 1].status
            /\ r.pc \in {"exec", "leave"} => shown = PIPELINE[r.stage].status
            /\ r.pc = "complete" => shown = "INDEXING"
            /\ r.pc = "fail" => shown \in InFlight

RunsReported == \A s \in Slots : Reported(run[s], job, version)

OutcomeInv ==
    /\ SessionInv
    /\ RunsProgressed
    /\ NoStall => OutcomesShown /\ RunsReported

-----------------------------------------------------------------------------
(* What a commit leaves in the rows *)

\* A flush writes the attributes the session has a value for, and only changes.
LEMMA FlushedAttribute ==
    ASSUME NEW row, NEW old, NEW new, NEW f \in DOMAIN row, Agrees(old, row)
    PROVE  /\ new[f] # Unloaded => Flush(row, old, new)[f] = new[f]
           /\ new[f] = old[f] => Flush(row, old, new)[f] = row[f]
  BY DEF Agrees, Flush

LEMMA FlushedJob ==
    ASSUME NEW row \in JobRow, NEW old, NEW new, Agrees(old, row)
    PROVE  \A f \in {"status", "current_stage", "progress", "attempts", "error", "timings",
                     "finished"} :
               /\ new[f] # Unloaded => Flush(row, old, new)[f] = new[f]
               /\ new[f] = old[f] => Flush(row, old, new)[f] = row[f]
  BY FlushedAttribute DEF JobRow

\* The attributes the commits assign.
LEMMA StartAssigns ==
    ASSUME NEW c, Object(c)
    PROVE  /\ Started(c).job.status = "RUNNING"
           /\ Started(c).job.error = "none"
           /\ Started(c).job.attempts = c.job.attempts + 1
           /\ Started(c).version.status = "PROCESSING"
  <1> DEFINE n == c.job.attempts + 1
             r == [c.job EXCEPT !.status = "RUNNING", !.attempts = n, !.error = "none"]
  <1>1. Started(c).job = r
    BY DEF Started, SetStatus
  <1>2. Started(c).version.status = "PROCESSING"
    BY DEF Started, SetStatus, Object, VersionObject
  <1> HIDE DEF n
  <1>3. r.status = "RUNNING" /\ r.error = "none" /\ r.attempts = n
    BY DEF Object, JobObject
  <1> QED
    BY <1>1, <1>2, <1>3 DEF n

LEMMA CommitAssigns ==
    ASSUME NEW c, Object(c)
    PROVE  /\ \A stage : Entered(c, stage).version.status = stage.status
           /\ \A stage, timings : Left(c, stage, timings).version.status = stage.status
           /\ \A stage, timings : Failed(c, stage, timings).version.status = "FAILED"
           /\ Completed(c).version.status = "COMPLETED"
           /\ \A v : Promoted(c, v).job = c.job /\ Promoted(c, v).version = c.version
  <1>0. /\ \A stage : Entered(c, stage).version.status = stage.status
        /\ \A stage, timings : Left(c, stage, timings).version.status = stage.status
    BY DEF Entered, Left, SetStatus, Object, VersionObject
  <1>1. \A stage, timings : Failed(c, stage, timings).version.status = "FAILED"
    BY DEF Failed, SetStatus, Object, VersionObject
  <1>2. Completed(c).version.status = "COMPLETED"
    BY DEF Completed, SetStatus, Object, VersionObject
  <1>3. \A v : Promoted(c, v).job = c.job /\ Promoted(c, v).version = c.version
    BY DEF Promoted, Object
  <1> QED
    BY <1>0, <1>1, <1>2, <1>3

\* Every commit of process_document, attribute by attribute.
LEMMA CommitShows ==
    ASSUME TypeInv, SessionsCurrent, NEW s \in Slots, HasRows(s), run[s].pc # "exec",
           Commit(s, Written(s))
    PROVE  LET j == run[s].task
               v == VersionOf[j]
               stage == PIPELINE[run[s].stage]
           IN  /\ run[s].pc = "start" =>
                   /\ job'[j].status = "RUNNING" /\ job'[j].error = "none"
                   /\ job'[j].attempts = job[j].attempts + 1
                   /\ SoleJob(j) => version'[v].status = "PROCESSING"
               /\ run[s].pc \in {"enter", "leave"} =>
                   /\ job'[j].status = job[j].status /\ job'[j].error = job[j].error
                   /\ SoleJob(j) => version'[v].status = stage.status
               /\ run[s].pc = "leave" => job'[j].timings = run[s].timings
               /\ run[s].pc = "fail" =>
                   /\ job'[j].status = "FAILED" /\ job'[j].error = stage.name
                   /\ job'[j].timings = run[s].timings
                   /\ SoleJob(j) => version'[v].status = "FAILED"
               /\ run[s].pc = "complete" =>
                   /\ job'[j].status = "SUCCEEDED" /\ job'[j].current_stage = "none"
                   /\ job'[j].progress = 100 /\ job'[j].finished
                   /\ job'[j].error = job[j].error /\ job'[j].timings = job[j].timings
                   /\ SoleJob(j) => version'[v].status = "COMPLETED"
               /\ run[s].pc = "promote" =>
                   /\ job'[j] = job[j]
                   /\ version'[v] = version[v]
  <1> DEFINE j == run[s].task
             v == VersionOf[j]
             i == run[s].stage
             stage == PIPELINE[i]
             c == run[s].cache
             w == Written(s)
  <1>1. /\ j \in Jobs /\ v \in Versions /\ i \in Stages /\ Object(c)
        /\ run[s].timings \in SUBSET StageNames
        /\ c.job \in JobObject /\ job[j] \in JobRow /\ version[v] \in VersionRow
    <2>1. /\ run[s] \in SlotState /\ SlotOK(run[s]) /\ run[s].pc \in Live \ {"load"}
          /\ job \in [Jobs -> JobRow] /\ version \in [Versions -> VersionRow]
      BY DEF TypeInv, TypeOK, HasRows
    <2>2. run[s].pc # "idle"
      BY <2>1 DEF Live
    <2>3. j \in Jobs /\ v \in Versions
      BY <2>1, <2>2 DEF SlotOK
    <2> QED
      BY <2>1, <2>3 DEF SlotState, Object
  <1>2. /\ Agrees(c.job, job[j])
        /\ SoleJob(j) => Agrees(c.version, version[v])
    BY DEF SessionsCurrent, Current, HasRows
  <1>3. /\ job'[j] = Flush(job[j], c.job, w.job)
        /\ version'[v] = Flush(version[v], c.version, w.version)
    BY <1>1 DEF Commit, VersionAt, TypeInv, TypeOK
  <1>4. \A f \in {"status", "current_stage", "progress", "attempts", "error", "timings",
                  "finished"} :
            /\ w.job[f] # Unloaded => job'[j][f] = w.job[f]
            /\ w.job[f] = c.job[f] => job'[j][f] = job[j][f]
    BY <1>1, <1>2, <1>3, FlushedJob
  <1>5. SoleJob(j) /\ w.version.status # Unloaded => version'[v].status = w.version.status
    BY <1>1, <1>2, <1>3, FlushedAttribute DEF VersionRow
  <1>6. /\ "RUNNING" # Unloaded /\ "FAILED" # Unloaded /\ "SUCCEEDED" # Unloaded
        /\ "COMPLETED" # Unloaded /\ "none" # Unloaded /\ 100 # Unloaded /\ TRUE # Unloaded
        /\ run[s].timings # Unloaded /\ stage.name # Unloaded
        /\ "PROCESSING" # Unloaded /\ stage.status # Unloaded
    <2>1. /\ stage.name \in StageNames /\ stage.status \in DocumentStatus
          /\ 100 \in Nat /\ TRUE \in BOOLEAN
      BY <1>1 DEF Stages, PIPELINE, StageNames, DocumentStatus, InFlight
    <2> QED
      BY <1>1, <2>1, UnloadedAssumption DEF JobStatus, DocumentStatus, InFlight
  <1> HIDE DEF w
  <1>7. CASE run[s].pc = "start"
    <2>0. w = Started(c)
      BY <1>7 DEF Written, w
    <2>1. w.job.status = "RUNNING" /\ w.job.error = "none"
          /\ w.job.attempts = c.job.attempts + 1 /\ w.version.status = "PROCESSING"
      BY <1>1, <2>0, StartAssigns
    <2>2. Loaded(c)
      BY <1>7 DEF TypeInv, SlotOK, Live
    <2>3. c.job.attempts = job[j].attempts /\ c.job.attempts \in Nat
      BY <1>1, <1>2, <2>2, UnloadedAssumption DEF Agrees, Loaded, JobRow
    <2>4. w.job.attempts # Unloaded
      BY <2>1, <2>3, UnloadedAssumption
    <2> QED
      BY <1>4, <1>5, <1>6, <1>7, <2>1, <2>3, <2>4
  <1>8. CASE run[s].pc = "enter"
    <2>0. w = Entered(c, stage)
      BY <1>8 DEF Written, w
    <2>1. /\ w.job = [c.job EXCEPT !.current_stage = stage.name]
          /\ w.version.status = stage.status
      BY <1>1, <2>0, CommitAssigns DEF Entered, SetStatus
    <2>2. w.job.status = c.job.status /\ w.job.error = c.job.error
      BY <1>1, <2>1 DEF JobObject
    <2> QED
      BY <1>4, <1>5, <1>6, <1>8, <2>1, <2>2
  <1>9. CASE run[s].pc = "leave"
    <2>0. w = Left(c, stage, run[s].timings)
      BY <1>9 DEF Written, w
    <2>1. /\ w.job = [c.job EXCEPT !.progress = stage.progress, !.timings = run[s].timings]
          /\ w.version.status = stage.status
      BY <1>1, <2>0, CommitAssigns DEF Left, SetStatus
    <2>2. /\ w.job.status = c.job.status /\ w.job.error = c.job.error
          /\ w.job.timings = run[s].timings
      BY <1>1, <2>1 DEF JobObject
    <2> QED
      BY <1>4, <1>5, <1>6, <1>9, <2>1, <2>2
  <1>10. CASE run[s].pc = "fail"
    <2>0. w = Failed(c, stage, run[s].timings)
      BY <1>10 DEF Written, w
    <2>1. /\ w.job = [c.job EXCEPT !.status = "FAILED", !.error = stage.name,
                                   !.finished = TRUE, !.timings = run[s].timings]
          /\ w.version.status = "FAILED"
      BY <1>1, <2>0, CommitAssigns DEF Failed, SetStatus
    <2>2. /\ w.job.status = "FAILED" /\ w.job.error = stage.name
          /\ w.job.timings = run[s].timings
      BY <1>1, <2>1 DEF JobObject
    <2> QED
      BY <1>4, <1>5, <1>6, <1>10, <2>1, <2>2
  <1>11. CASE run[s].pc = "complete"
    <2>0. w = Completed(c)
      BY <1>11 DEF Written, w
    <2>1. /\ w.job = [c.job EXCEPT !.status = "SUCCEEDED", !.current_stage = "none",
                                   !.progress = 100, !.finished = TRUE]
          /\ w.version.status = "COMPLETED"
      BY <1>1, <2>0, CommitAssigns DEF Completed, SetStatus
    <2>2. /\ w.job.status = "SUCCEEDED" /\ w.job.current_stage = "none"
          /\ w.job.progress = 100 /\ w.job.finished = TRUE
          /\ w.job.error = c.job.error /\ w.job.timings = c.job.timings
      BY <1>1, <2>1 DEF JobObject
    <2>3. /\ job'[j].status = "SUCCEEDED" /\ job'[j].current_stage = "none"
          /\ job'[j].progress = 100 /\ job'[j].finished = TRUE
      BY <1>4, <1>6, <2>2
    <2>4. job'[j].error = job[j].error /\ job'[j].timings = job[j].timings
      BY <1>4, <2>2
    <2>5. SoleJob(j) => version'[v].status = "COMPLETED"
      BY <1>5, <1>6, <2>1
    <2> QED
      BY <1>11, <2>3, <2>4, <2>5
  <1>12. CASE run[s].pc = "promote"
    <2>0. w = Promoted(c, VersionAt(s))
      BY <1>12 DEF Written, w
    <2>1. w.job = c.job /\ w.version = c.version
      BY <1>1, <2>0, CommitAssigns
    <2>2. Flush(job[j], c.job, c.job) = job[j] /\ Flush(version[v], c.version, c.version) = version[v]
      BY <1>1 DEF Flush, JobRow, VersionRow
    <2> QED
      BY <1>3, <1>12, <2>1, <2>2
  <1> QED
    BY <1>7, <1>8, <1>9, <1>10, <1>11, <1>12 DEF HasRows, Live

-----------------------------------------------------------------------------
(* The outcomes, step by step *)

\* A step of one slot that writes no row.
LEMMA OutcomesKept ==
    ASSUME TypeInv, OutcomesShown, RunsReported, NEW s \in Slots, NEW r, Become(s, r),
           Reported(r, job, version), UNCHANGED rows, indexed \subseteq indexed'
    PROVE  OutcomesShown' /\ RunsReported'
  <1>1. RunsReported'
    BY SlotAfter DEF RunsReported, Reported, rows
  <1>2. OutcomesShown'
    BY DEF OutcomesShown, SuccessShown, FailureShown, rows
  <1> QED
    BY <1>1, <1>2

\* The row a commit writes shows an outcome only if its attempt has it.
LEMMA CommittedRowSound ==
    ASSUME TypeInv, SessionsCurrent, OutcomesShown, RunsReported, RunsProgressed,
           NEW s \in Slots, HasRows(s), run[s].pc # "exec", Commit(s, Written(s)),
           UNCHANGED indexed, NEW j \in Jobs, run[s].task = j
    PROVE  SuccessShown(j)' /\ FailureShown(j)'
  <1> DEFINE v == VersionOf[j]
             i == run[s].stage
  <1>0. /\ i \in Stages /\ PIPELINE[i].name \in StageNames /\ "none" \notin StageNames
        /\ Done(i - 1) \union {PIPELINE[i].name} = Done(i)
    BY DoneSteps DEF TypeInv, TypeOK, SlotState, Stages, PIPELINE, StageNames
  <1>1. SuccessShown(j) /\ FailureShown(j) /\ Reported(run[s], job, version) /\ Progressed(run[s], indexed)
    BY DEF OutcomesShown, RunsReported, RunsProgressed
  <1>2. CASE run[s].pc \in {"start", "enter", "leave"}
    <2>1. job'[j].status = "RUNNING" /\ job'[j].error = "none"
      BY <1>1, <1>2, CommitShows DEF Reported, FailureShown
    <2> QED
      BY <2>1 DEF SuccessShown, FailureShown
  <1>3. CASE run[s].pc = "fail"
    <2>1. /\ job'[j].status = "FAILED" /\ job'[j].error = PIPELINE[i].name
          /\ job'[j].timings \in {Done(i - 1), Done(i)}
          /\ SoleJob(j) => version'[v].status = "FAILED"
      BY <1>1, <1>3, CommitShows DEF Reported
    <2> QED
      BY <1>0, <2>1 DEF SuccessShown, FailureShown
  <1>4. CASE run[s].pc = "complete"
    <2>1. /\ job'[j].status = "SUCCEEDED" /\ job'[j].current_stage = "none"
          /\ job'[j].progress = 100 /\ job'[j].finished
          /\ job'[j].error = "none" /\ job'[j].timings = StageNames
          /\ SoleJob(j) => version'[v].status = "COMPLETED"
      BY <1>1, <1>4, CommitShows DEF Reported, FailureShown
    <2>2. v \in indexed
      BY <1>1, <1>4 DEF Progressed
    <2> QED
      BY <2>1, <2>2 DEF SuccessShown, FailureShown
  <1>5. CASE run[s].pc = "promote"
    <2>1. job'[j] = job[j] /\ version'[v] = version[v]
      BY <1>5, CommitShows
    <2> QED
      BY <1>1, <2>1 DEF SuccessShown, FailureShown
  <1> QED
    BY <1>2, <1>3, <1>4, <1>5 DEF HasRows, Live

\* A commit of one slot.
LEMMA OutcomesCommitted ==
    ASSUME TypeInv, Owned, SessionsCurrent, OutcomesShown, RunsReported, RunsProgressed,
           NEW s \in Slots, HasRows(s), run[s].pc # "exec", Commit(s, Written(s)),
           UNCHANGED indexed, NEW r, Become(s, r), Reported(r, job', version')
    PROVE  OutcomesShown' /\ RunsReported'
  <1> DEFINE e == run[s].task
             v == VersionOf[e]
  <1>1. /\ e \in Jobs /\ e # NoJob /\ v \in Versions
    BY ConstantsAssumption DEF TypeInv, SlotOK, HasRows, Live
  <1>2. /\ \A k \in Jobs \ {e} : job'[k] = job[k]
        /\ \A u \in Versions \ {v} : version'[u] = version[u]
        /\ \A u : u \notin Versions => version'[u] = version[u]
    BY <1>1 DEF Commit, VersionAt, TypeInv, TypeOK
  <1>3. ASSUME NEW j \in Jobs PROVE SuccessShown(j)' /\ FailureShown(j)'
    <2>1. CASE j = e
      BY <2>1, CommittedRowSound
    <2>2. CASE j # e
      <3>1. job'[j] = job[j]
        BY <1>2, <2>2
      <3>2. SoleJob(j) => version'[VersionOf[j]] = version[VersionOf[j]]
        BY <1>1, <1>2, <2>2 DEF SoleJob
      <3> QED
        BY <3>1, <3>2 DEF OutcomesShown, SuccessShown, FailureShown
    <2> QED
      BY <2>1, <2>2
  <1>4. ASSUME NEW t \in Slots PROVE Reported(run'[t], job', version')
    <2>1. CASE t = s
      BY <2>1, SlotAfter
    <2>2. CASE t # s
      <3>1. run'[t] = run[t]
        BY <2>2, SlotAfter
      <3>2. run[t].pc \in Live \ {"load"} => run[t].task \in Jobs \ {e}
        BY <1>1, <2>2 DEF Owned, TypeInv, SlotOK, Live
      <3>3. run[t].pc \in Live \ {"load"} =>
                /\ job'[run[t].task] = job[run[t].task]
                /\ SoleJob(run[t].task) =>
                       version'[VersionOf[run[t].task]] = version[VersionOf[run[t].task]]
        BY <1>1, <1>2, <3>2 DEF SoleJob
      <3> QED
        BY <3>1, <3>3 DEF RunsReported, Reported, Live
    <2> QED
      BY <2>1, <2>2
  <1> QED
    BY <1>3, <1>4 DEF OutcomesShown, RunsReported

LEMMA StageIsInFlight ==
    /\ \A i \in Stages : PIPELINE[i].status \in InFlight
    /\ PIPELINE[1].status = "PROCESSING" /\ PIPELINE[Len(PIPELINE)].status = "INDEXING"
  BY DEF Stages, PIPELINE, InFlight

LEMMA OutcomesStep ==
    ASSUME TypeInv, Owned, SessionsCurrent, RunsProgressed, OutcomesShown, RunsReported, Next
    PROVE  OutcomesShown' /\ RunsReported'
  <1> DEFINE Goal == OutcomesShown' /\ RunsReported'
  <1>0. \A s \in Slots : run[s] \in SlotState
    BY DEF TypeInv, TypeOK
  <1>1. ASSUME NEW s \in Slots, NEW pc \in {"idle", "load", "returned", "raised"}, NEW j,
               Become(s, Outside(pc, j)), UNCHANGED indexed,
               \/ UNCHANGED rows
               \/ HasRows(s) /\ run[s].pc # "exec" /\ Commit(s, Written(s))
        PROVE  Goal
    <2>1. Reported(Outside(pc, j), job, version)
          /\ Reported(Outside(pc, j), job', version')
      BY DEF Reported, Outside
    <2> QED
      BY <1>1, <2>1, OutcomesKept, OutcomesCommitted
  <1>2. ASSUME NEW s \in Slots, NEW r, Become(s, r), UNCHANGED rows, indexed \subseteq indexed',
               r.pc \in {"start", "leave", "fail"}, r.task = run[s].task,
               r.pc = "leave" => run[s].pc = "exec" /\ r.stage = run[s].stage,
               r.pc = "fail" => /\ run[s].pc \in {"enter", "exec", "leave"}
                                /\ r.timings = run[s].timings /\ r.stage = run[s].stage
        PROVE  Goal
    <2> DEFINE shown == version[VersionOf[run[s].task]].status
    <2>1. Reported(run[s], job, version) /\ Progressed(run[s], indexed) /\ run[s].stage \in Stages
      BY <1>0 DEF RunsReported, RunsProgressed, SlotState
    <2>2. (IF run[s].stage = 1 THEN 1 ELSE run[s].stage - 1) \in Stages
      BY <2>1 DEF Stages
    <2>3. SoleJob(run[s].task) =>
            /\ run[s].pc = "exec" => shown = PIPELINE[run[s].stage].status
            /\ run[s].pc \in {"enter", "exec", "leave"} => shown \in InFlight
      BY <2>1, <2>2, StageIsInFlight DEF Reported
    <2>4. /\ r.pc \in {"leave", "fail"} => job[r.task].status = "RUNNING"
          /\ r.pc = "fail" => r.timings \in {Done(r.stage - 1), Done(r.stage)}
      BY <1>2, <2>1 DEF Reported, Progressed
    <2>5. Reported(r, job, version)
      BY <1>2, <2>3, <2>4 DEF Reported
    <2> QED
      BY <1>2, <2>5, OutcomesKept
  <1>3. ASSUME NEW s \in Slots, HasRows(s), run[s].pc # "exec", Commit(s, Written(s)),
               UNCHANGED indexed, NEW r, Become(s, r), r.task = run[s].task,
               r.timings = run[s].timings,
               \/ run[s].pc = "start" /\ r.pc = "enter" /\ r.stage = 1
               \/ run[s].pc = "enter" /\ r.pc = "exec" /\ r.stage = run[s].stage
               \/ run[s].pc = "leave" /\ r.pc = "enter" /\ r.stage = run[s].stage + 1
               \/ run[s].pc = "leave" /\ r.pc = "complete" /\ run[s].stage = Len(PIPELINE)
               \/ run[s].pc = "complete" /\ r.pc = "promote"
               \/ run[s].pc \in {"enter", "leave"} /\ r.pc = "fail" /\ r.stage = run[s].stage
        PROVE  Goal
    <2>1. Reported(run[s], job, version) /\ Progressed(run[s], indexed) /\ run[s].stage \in Stages
      BY <1>0 DEF RunsReported, RunsProgressed, SlotState
    <2>2. /\ r.pc \in {"enter", "exec", "leave", "fail", "complete"} =>
              job'[r.task].status = "RUNNING"
          /\ r.pc = "fail" => r.timings \in {Done(r.stage - 1), Done(r.stage)}
          /\ r.pc = "complete" => job'[r.task].timings = StageNames
          /\ r.pc = "promote" => job'[r.task].status = "SUCCEEDED"
      <3>1. /\ run[s].pc = "start" => job'[r.task].status = "RUNNING"
            /\ run[s].pc \in {"enter", "leave"} => job'[r.task].status = job[r.task].status
            /\ run[s].pc = "leave" => job'[r.task].timings = run[s].timings
            /\ run[s].pc = "complete" => job'[r.task].status = "SUCCEEDED"
        BY <1>3, CommitShows
      <3>2. run[s].pc \in {"enter", "leave"} => job[r.task].status = "RUNNING"
        BY <1>3, <2>1 DEF Reported
      <3>3. /\ run[s].pc = "enter" => r.timings = Done(run[s].stage - 1)
            /\ run[s].pc = "leave" => r.timings = Done(run[s].stage)
        BY <1>3, <2>1 DEF Progressed
      <3>4. r.pc = "fail" => r.timings \in {Done(r.stage - 1), Done(r.stage)}
        BY <1>3, <3>3
      <3>5. r.pc = "complete" => job'[r.task].timings = StageNames
        BY <1>3, <2>1, <3>1, <3>3, DoneSteps
      <3> QED
        BY <1>3, <3>1, <3>2, <3>4, <3>5
    <2>3. ASSUME SoleJob(r.task)
          PROVE  LET shown == version'[VersionOf[r.task]].status
                 IN  /\ r.pc = "enter" =>
                         shown = PIPELINE[IF r.stage = 1 THEN 1 ELSE r.stage - 1].status
                     /\ r.pc \in {"exec", "leave"} => shown = PIPELINE[r.stage].status
                     /\ r.pc = "complete" => shown = "INDEXING"
                     /\ r.pc = "fail" => shown \in InFlight
      <3> DEFINE shown == version'[VersionOf[run[s].task]].status
                 i == run[s].stage
      <3>1. /\ run[s].pc = "start" => shown = PIPELINE[1].status
            /\ run[s].pc \in {"enter", "leave"} => shown = PIPELINE[i].status
        <4>1. /\ run[s].pc = "start" => shown = "PROCESSING"
              /\ run[s].pc \in {"enter", "leave"} => shown = PIPELINE[i].status
          BY <1>3, <2>3, CommitShows
        <4>2. PIPELINE[1].status = "PROCESSING"
          BY DEF PIPELINE
        <4> QED
          BY <4>1, <4>2
      <3>2. i \in Stages /\ (IF i + 1 = 1 THEN 1 ELSE i + 1 - 1) = i
            /\ PIPELINE[i].status \in InFlight /\ (i = Len(PIPELINE) => PIPELINE[i].status = "INDEXING")
        <4>1. i \in Stages /\ i \in Nat \ {0}
          BY <2>1 DEF Stages
        <4> HIDE DEF i
        <4>2. (IF i + 1 = 1 THEN 1 ELSE i + 1 - 1) = i
          BY <4>1
        <4> QED
          BY <4>1, <4>2, StageIsInFlight
      <3> HIDE DEF shown, i
      <3> SUFFICES /\ r.pc = "enter" =>
                         shown = PIPELINE[IF r.stage = 1 THEN 1 ELSE r.stage - 1].status
                   /\ r.pc \in {"exec", "leave"} => shown = PIPELINE[r.stage].status
                   /\ r.pc = "complete" => shown = "INDEXING"
                   /\ r.pc = "fail" => shown \in InFlight
        BY <1>3 DEF shown
      <3>3. CASE run[s].pc = "start" /\ r.pc = "enter" /\ r.stage = 1
        BY <3>1, <3>3
      <3>4. CASE run[s].pc = "leave" /\ r.pc = "enter" /\ r.stage = i + 1
        <4>1. (IF r.stage = 1 THEN 1 ELSE r.stage - 1) = i
          BY <3>2, <3>4 DEF Stages
        <4> QED
          BY <3>1, <3>4, <4>1
      <3>5. CASE run[s].pc \in {"enter", "leave", "complete"} /\ r.pc # "enter"
        BY <1>3, <3>1, <3>2, <3>5 DEF i
      <3> QED
        BY <1>3, <3>3, <3>4, <3>5 DEF i
    <2>4. Reported(r, job', version')
      BY <2>2, <2>3 DEF Reported
    <2> QED
      BY <1>3, <2>4, OutcomesCommitted
  <1>4. ASSUME NEW s \in Slots, NEW pc, NEW stage, CommitAndGo(s, pc, stage),
               \/ run[s].pc = "start" /\ pc = "enter" /\ stage = 1
               \/ run[s].pc = "enter" /\ pc = "exec" /\ stage = run[s].stage
               \/ run[s].pc = "leave" /\ pc = "enter" /\ stage = run[s].stage + 1
               \/ run[s].pc = "leave" /\ pc = "complete" /\ run[s].stage = Len(PIPELINE)
               \/ run[s].pc = "complete" /\ pc = "promote"
        PROVE  Goal
    <2> DEFINE r == [run[s] EXCEPT !.cache = Written(s), !.pc = pc, !.stage = stage]
    <2>1. r.pc = pc /\ r.stage = stage /\ r.task = run[s].task /\ r.timings = run[s].timings
      BY <1>0, SlotAtCommit
    <2>2. Become(s, r) /\ Commit(s, Written(s)) /\ UNCHANGED indexed
      BY <1>4 DEF CommitAndGo
    <2>3. HasRows(s) /\ run[s].pc # "exec"
      BY <1>4 DEF HasRows, Live
    <2> HIDE DEF r
    <2> QED
      BY <1>3, <1>4, <2>1, <2>2, <2>3
  <1>5. ASSUME NEW s \in Slots, Load(s) PROVE Goal
    <2>1. CASE VersionAt(s) = NoVersion
      BY <1>1, <1>5, <2>1 DEF Load, EndRun
    <2>2. CASE VersionAt(s) # NoVersion
      <3> DEFINE r == [run[s] EXCEPT !.pc = "start",
                                     !.cache = [job |-> job[run[s].task],
                                                version |-> version[VersionAt(s)],
                                                document |-> document[DocumentAt(s)]]]
      <3>1. Become(s, r) /\ UNCHANGED <<rows, indexed>>
        BY <1>5, <2>2 DEF Load
      <3>2. r.pc = "start" /\ r.task = run[s].task
        BY <1>0, SlotWithCache
      <3> HIDE DEF r
      <3> QED
        BY <1>2, <3>1, <3>2
    <2> QED
      BY <2>1, <2>2
  <1>6. ASSUME NEW s \in Slots, HandlerReturns(s) PROVE Goal
    <2> DEFINE timings == run[s].timings \union {PIPELINE[run[s].stage].name}
               r == [run[s] EXCEPT !.pc = "leave", !.timings = timings]
    <2>1. r.pc = "leave" /\ r.task = run[s].task /\ r.stage = run[s].stage
      BY <1>0 DEF SlotState
    <2>2. /\ Become(s, r) /\ run[s].pc = "exec" /\ UNCHANGED rows
          /\ indexed \subseteq indexed'
      BY <1>6 DEF HandlerReturns
    <2> HIDE DEF r
    <2> QED
      BY <1>2, <2>1, <2>2
  <1>7. ASSUME NEW s \in Slots, run[s].pc \in {"enter", "exec", "leave"}, NEW r, Become(s, r),
               r.pc = "fail", r.task = run[s].task, r.timings = run[s].timings,
               r.stage = run[s].stage, UNCHANGED indexed,
               \/ UNCHANGED rows
               \/ HasRows(s) /\ run[s].pc # "exec" /\ Commit(s, Written(s))
        PROVE  Goal
    <2>1. CASE UNCHANGED rows
      BY <1>2, <1>7, <2>1
    <2>2. CASE HasRows(s) /\ run[s].pc # "exec" /\ Commit(s, Written(s))
      BY <1>3, <1>7, <2>2
    <2> QED
      BY <1>7, <2>1, <2>2
  <1>8. ASSUME NEW s \in Slots, HandlerRaises(s) PROVE Goal
    <2> DEFINE r == [run[s] EXCEPT !.pc = "fail"]
    <2>1. /\ r.pc = "fail" /\ r.task = run[s].task /\ r.timings = run[s].timings
          /\ r.stage = run[s].stage
      BY <1>0 DEF SlotState
    <2>2. Become(s, r) /\ run[s].pc = "exec" /\ UNCHANGED <<rows, indexed>>
      BY <1>8 DEF HandlerRaises
    <2> HIDE DEF r
    <2> QED
      BY <1>7, <2>1, <2>2
  <1>9. ASSUME NEW s \in Slots, DatabaseRaises(s) PROVE Goal
    <2>1. \/ UNCHANGED rows
          \/ HasRows(s) /\ run[s].pc # "exec" /\ Commit(s, Written(s))
      BY <1>9 DEF DatabaseRaises, HasRows
    <2>2. CASE run[s].pc \in TryBlock
      <3> DEFINE r == [run[s] EXCEPT !.pc = "fail", !.cache = Expired]
      <3>1. /\ r.pc = "fail" /\ r.task = run[s].task /\ r.timings = run[s].timings
            /\ r.stage = run[s].stage
        BY <1>0, SlotWithCache
      <3>2. Become(s, r) /\ run[s].pc \in {"enter", "exec", "leave"} /\ UNCHANGED indexed
        BY <1>9, <2>2 DEF DatabaseRaises, RolledBack, TryBlock
      <3> HIDE DEF r
      <3> QED
        BY <1>7, <2>1, <3>1, <3>2
    <2>3. CASE run[s].pc \notin TryBlock
      BY <1>1, <1>9, <2>1, <2>3 DEF DatabaseRaises, EndRun
    <2> QED
      BY <2>2, <2>3
  <1>10. CASE UNCHANGED <<rows, run, indexed>>
    BY <1>10 DEF OutcomesShown, SuccessShown, FailureShown, RunsReported, rows
  <1>11. ASSUME NEW s \in Slots, Work(s) PROVE Goal
    BY <1>1, <1>4, <1>5, <1>6, <1>11
    DEF Work, StartAttempt, EnterStage, LeaveStage, RecordFailure, RecordSuccess,
        PromoteVersion, AckReturned, AckRaised, EndRun, Idle, HasRows, Live
  <1>12. CASE Disturbance
    BY <1>1, <1>8, <1>9, <1>10, <1>12
    DEF Disturbance, Timeout, Shutdown, Crash, LeaseLapses, RedisFlush, EndRun, Idle
  <1>13. ASSUME NEW j \in Jobs, Enqueue(j) \/ Queueing(j) PROVE Goal
    BY <1>1, <1>10, <1>13 DEF Enqueue, Queueing, GiveUp, LeaseExpires, Deliver
  <1> QED
    BY <1>11, <1>12, <1>13 DEF Next

LEMMA OutcomeInit == Init => OutcomeInv
  <1> SUFFICES ASSUME Init PROVE OutcomeInv
    OBVIOUS
  <1>1. RunsProgressed /\ RunsReported
    BY DEF Init, Idle, Outside, RunsProgressed, Progressed, RunsReported, Reported
  <1>2. OutcomesShown
    BY DEF Init, OutcomesShown, SuccessShown, FailureShown
  <1> QED
    BY <1>1, <1>2, SessionInit DEF OutcomeInv

LEMMA OutcomeStep == OutcomeInv /\ [Next]_vars => OutcomeInv'
  <1> SUFFICES ASSUME OutcomeInv, [Next]_vars PROVE OutcomeInv'
    OBVIOUS
  <1>1. SessionInv'
    BY SessionStep DEF OutcomeInv
  <1>2. CASE Next
    <2>1. RunsProgressed'
      BY <1>2, ProgressStep DEF OutcomeInv, SessionInv
    <2>2. ASSUME NoStall' PROVE OutcomesShown' /\ RunsReported'
      BY <1>2, <2>2, StallStep, OutcomesStep DEF OutcomeInv, SessionInv, OwnershipInv
    <2> QED
      BY <1>1, <2>1, <2>2 DEF OutcomeInv
  <1>3. CASE UNCHANGED vars
    <2>1. RunsProgressed'
      BY <1>3 DEF OutcomeInv, RunsProgressed, Progressed, vars
    <2>2. ASSUME NoStall' PROVE OutcomesShown' /\ RunsReported'
      BY <1>3, <2>2 DEF OutcomeInv, NoStall, OutcomesShown, SuccessShown, FailureShown,
                        RunsReported, Reported, vars
    <2> QED
      BY <1>1, <2>1, <2>2 DEF OutcomeInv
  <1> QED
    BY <1>2, <1>3

\* A SUCCEEDED row is the row of one whole attempt, for every choice of jobs,
\* versions, documents and slots, and any faults but a stalled event loop.
THEOREM SuccessWhole == Spec => []SuccessIsWhole
  <1>1. OutcomeInv => SuccessIsWhole
    BY DEF OutcomeInv, OutcomesShown, SuccessShown, SuccessIsWhole
  <1> QED
    BY <1>1, OutcomeInit, OutcomeStep, PTL DEF Spec

\* A FAILED row names the stage that failed and times the stages before it, and
\* no row but a FAILED one has an error message, across retries and lost commits.
THEOREM FailureNamed == Spec => []FailureNamesStage
  <1>1. OutcomeInv => FailureNamesStage
    BY DEF OutcomeInv, OutcomesShown, FailureShown, FailureNamesStage, Done
  <1> QED
    BY <1>1, OutcomeInit, OutcomeStep, PTL DEF Spec

-----------------------------------------------------------------------------
(* What reopens a settled job *)

\* The rows are written by the commits of process_document, and by nothing else.
LEMMA OnlyCommitsWrite ==
    ASSUME Next
    PROVE  \/ UNCHANGED rows
           \/ \E s \in Slots : HasRows(s) /\ run[s].pc # "exec" /\ Commit(s, Written(s))
  <1>1. ASSUME NEW s \in Slots, Work(s)
        PROVE  UNCHANGED rows \/ (HasRows(s) /\ run[s].pc # "exec" /\ Commit(s, Written(s)))
    BY <1>1 DEF Work, Load, StartAttempt, EnterStage, HandlerReturns, LeaveStage, RecordFailure,
                RecordSuccess, PromoteVersion, AckReturned, AckRaised, CommitAndGo, HasRows,
                Live
  <1>2. ASSUME NEW s \in Slots, DatabaseRaises(s)
        PROVE  UNCHANGED rows \/ (HasRows(s) /\ run[s].pc # "exec" /\ Commit(s, Written(s)))
    BY <1>2 DEF DatabaseRaises, HasRows
  <1>3. Disturbance => \/ UNCHANGED rows
                       \/ \E s \in Slots : HasRows(s) /\ run[s].pc # "exec" /\ Commit(s, Written(s))
    BY <1>2 DEF Disturbance, HandlerRaises, Timeout, Shutdown, Crash, LeaseLapses, RedisFlush
  <1>4. ASSUME NEW j \in Jobs, Enqueue(j) \/ Queueing(j) PROVE UNCHANGED rows
    BY <1>4 DEF Enqueue, Queueing, GiveUp, LeaseExpires, Deliver
  <1> QED
    BY <1>1, <1>3, <1>4 DEF Next

LEMMA CommitReopens ==
    ASSUME TypeInv, SessionsCurrent, RunsReported, NEW s \in Slots, HasRows(s),
           run[s].pc # "exec", Commit(s, Written(s)),
           NEW j \in Jobs, job[j].status \in Settled, job'[j].status # job[j].status
    PROVE  job'[j].status = "RUNNING" /\ job'[j].attempts = job[j].attempts + 1
  <1>1. run[s].task = j
    BY DEF Commit, TypeInv, TypeOK
  <1>2. job[j].status # "RUNNING"
    BY DEF Settled
  <1>3. run[s].pc \in {"start", "promote"}
    BY <1>1, <1>2 DEF RunsReported, Reported, HasRows, Live
  <1> QED
    BY <1>1, <1>3, CommitShows

\* A settled row changes its status only by the start of another attempt, which
\* it counts: no commit that was delayed, lost or retried reopens it.
THEOREM SettledStays == Spec => OnlyAnAttemptReopens
  <1>1. OutcomeInv /\ Next =>
            \A j \in Jobs :
                NoStall /\ job[j].status \in Settled /\ job'[j].status # job[j].status =>
                    job'[j].status = "RUNNING" /\ job'[j].attempts = job[j].attempts + 1
    <2> SUFFICES ASSUME OutcomeInv, Next, NoStall, NEW j \in Jobs, job[j].status \in Settled,
                        job'[j].status # job[j].status
                 PROVE  job'[j].status = "RUNNING" /\ job'[j].attempts = job[j].attempts + 1
      OBVIOUS
    <2>1. PICK s \in Slots : HasRows(s) /\ run[s].pc # "exec" /\ Commit(s, Written(s))
      BY OnlyCommitsWrite DEF rows
    <2> QED
      BY <2>1, CommitReopens DEF OutcomeInv, SessionInv
  <1> QED
    BY <1>1, OutcomeInit, OutcomeStep, PTL DEF Spec, OnlyAnAttemptReopens

-----------------------------------------------------------------------------
(* How often a job is attempted *)

\* The slots that will start an attempt of a job, having been given it.
Waiting(j) == {s \in Slots : run[s].task = j /\ run[s].pc \in {"load", "start"}}

\* The attempts arq allows so far: its deliveries, and max_tries once it has
\* forgotten them.
Allowed(j) == IF j \in queue THEN tries[j] ELSE MaxTries

\* n recorded attempts of a job leave room for those that wait.
Room(n, j) == n + Cardinality(Waiting(j)) <= Allowed(j)

\* The count of a row and the copies that a start will write back, of runs that
\* may overlap, all leave room.
AttemptsCounted ==
    /\ queue \subseteq submitted
    /\ \A s \in Slots : run[s].pc # "idle" => run[s].task \in submitted
    /\ \A j \in Jobs :
        /\ tries[j] <= MaxTries
        /\ j \notin submitted => tries[j] = 0 /\ job[j].attempts = 0
        /\ IsFiniteSet(Waiting(j))
        /\ Room(job[j].attempts, j)
        /\ \A s \in Slots :
            run[s].pc = "start" /\ run[s].task = j => Room(run[s].cache.job.attempts, j)

\* Only the first commit of an attempt writes the count.
LEMMA CommitCounts ==
    ASSUME TypeInv, NEW s \in Slots, HasRows(s), run[s].pc # "exec", Commit(s, Written(s))
    PROVE  /\ run[s].task \in Jobs
           /\ \A j \in Jobs \ {run[s].task} : job'[j] = job[j]
           /\ run[s].pc = "start" =>
               /\ run[s].cache.job.attempts \in Nat
               /\ job'[run[s].task].attempts = run[s].cache.job.attempts + 1
           /\ run[s].pc # "start" => job'[run[s].task].attempts = job[run[s].task].attempts
  <1> DEFINE j == run[s].task
             c == run[s].cache
             i == run[s].stage
             w == Written(s)
  <1>1. /\ run[s] \in SlotState /\ SlotOK(run[s]) /\ run[s].pc \in Live \ {"load"}
        /\ job \in [Jobs -> JobRow]
    BY DEF TypeInv, TypeOK, HasRows
  <1>2. j \in Jobs /\ Object(c) /\ c.job \in JobObject /\ job[j] \in JobRow
    BY <1>1 DEF SlotOK, Live, SlotState, Object
  <1>3. job' = [job EXCEPT ![j] = Flush(job[j], c.job, w.job)]
    BY DEF Commit
  <1>4. job'[j].attempts =
            IF w.job.attempts = c.job.attempts THEN job[j].attempts ELSE w.job.attempts
    BY <1>1, <1>2, <1>3 DEF Flush, JobRow
  <1>5. ASSUME run[s].pc = "start"
        PROVE  c.job.attempts \in Nat /\ job'[j].attempts = c.job.attempts + 1
    <2>1. w = Started(c)
      BY <1>5 DEF Written
    <2>2. w.job.attempts = c.job.attempts + 1
      BY <1>2, <2>1, StartAssigns
    <2>3. c.job.attempts \in Nat
      BY <1>1, <1>5 DEF SlotOK, Live, Loaded, JobRow
    <2> HIDE DEF w
    <2> QED
      BY <1>4, <2>2, <2>3
  <1>6. ASSUME run[s].pc # "start" PROVE w.job.attempts = c.job.attempts
    <2>1. CASE run[s].pc = "enter"
      <3>1. w.job = [c.job EXCEPT !.current_stage = PIPELINE[i].name]
        BY <2>1 DEF Written, Entered, SetStatus
      <3> QED
        BY <1>2, <3>1 DEF JobObject
    <2>2. CASE run[s].pc = "leave"
      <3>1. w.job = [c.job EXCEPT !.progress = PIPELINE[i].progress, !.timings = run[s].timings]
        BY <2>2 DEF Written, Left, SetStatus
      <3> QED
        BY <1>2, <3>1 DEF JobObject
    <2>3. CASE run[s].pc = "fail"
      <3>1. w.job = [c.job EXCEPT !.status = "FAILED", !.error = PIPELINE[i].name,
                                  !.finished = TRUE, !.timings = run[s].timings]
        BY <2>3 DEF Written, Failed, SetStatus
      <3> QED
        BY <1>2, <3>1 DEF JobObject
    <2>4. CASE run[s].pc = "complete"
      <3>1. w.job = [c.job EXCEPT !.status = "SUCCEEDED", !.current_stage = "none",
                                  !.progress = 100, !.finished = TRUE]
        BY <2>4 DEF Written, Completed, SetStatus
      <3> QED
        BY <1>2, <3>1 DEF JobObject
    <2>5. CASE run[s].pc = "promote"
      <3>1. w = Promoted(c, VersionAt(s))
        BY <2>5 DEF Written
      <3> QED
        BY <1>2, <3>1, CommitAssigns
    <2> QED
      BY <1>1, <1>6, <2>1, <2>2, <2>3, <2>4, <2>5 DEF Live
  <1> HIDE DEF w
  <1> QED
    BY <1>1, <1>2, <1>3, <1>4, <1>5, <1>6

LEMMA WaitingCount ==
    ASSUME TypeInv, AttemptsCounted, NEW j \in Jobs
    PROVE  Cardinality(Waiting(j)) \in Nat /\ job[j].attempts \in Nat /\ tries[j] \in Nat
           /\ Allowed(j) \in Nat /\ Allowed(j) <= MaxTries
  <1>1. Cardinality(Waiting(j)) \in Nat
    BY FS_CardinalityType DEF AttemptsCounted
  <1>2. job[j].attempts \in Nat /\ tries[j] \in Nat
    BY DEF TypeInv, TypeOK, JobRow
  <1> QED
    BY <1>1, <1>2, ConstantsAssumption DEF AttemptsCounted, Allowed

\* A step after which no more slots wait, no more is recorded, and no less is allowed.
LEMMA CountKept ==
    ASSUME TypeInv, AttemptsCounted, TypeInv', UNCHANGED submitted, queue' \subseteq queue,
           \A j \in Jobs : tries'[j] = tries[j] \/ (tries'[j] = 0 /\ j \notin queue'),
           \A j \in Jobs : job'[j].attempts = job[j].attempts,
           \A t \in Slots :
               \/ run'[t] = run[t]
               \/ /\ run'[t].pc # "idle" => run[t].pc # "idle" /\ run'[t].task = run[t].task
                  /\ run'[t].pc \notin {"load", "start"}
               \/ /\ run[t].pc = "load" /\ run'[t].pc = "start" /\ run'[t].task = run[t].task
                  /\ run'[t].cache.job.attempts = job[run[t].task].attempts
    PROVE  AttemptsCounted'
  <1>1. \A j \in Jobs : Waiting(j)' \subseteq Waiting(j)
    BY DEF Waiting
  <1>2. ASSUME NEW j \in Jobs
        PROVE  /\ IsFiniteSet(Waiting(j)')
               /\ Cardinality(Waiting(j)') <= Cardinality(Waiting(j))
               /\ Cardinality(Waiting(j)') \in Nat
    <2>1. IsFiniteSet(Waiting(j)) /\ Waiting(j)' \in SUBSET Waiting(j)
      BY <1>1 DEF AttemptsCounted
    <2> HIDE DEF Waiting
    <2> QED
      BY <2>1, FS_Subset, FS_CardinalityType
  <1>3. \A j \in Jobs : Allowed(j) <= Allowed(j)'
    BY ConstantsAssumption, WaitingCount DEF Allowed, AttemptsCounted, TypeInv, TypeOK
  <1>4. ASSUME NEW j \in Jobs, NEW n \in Nat, Room(n, j)
        PROVE  n + Cardinality(Waiting(j)') <= Allowed(j)'
    <2>1. Allowed(j)' \in Nat
      BY ConstantsAssumption DEF Allowed, TypeInv, TypeOK
    <2> QED
      BY <1>2, <1>3, <1>4, <2>1, WaitingCount DEF Room
  <1>5. ASSUME NEW j \in Jobs
        PROVE  job'[j].attempts + Cardinality(Waiting(j)') <= Allowed(j)'
    BY <1>4, WaitingCount DEF AttemptsCounted
  <1>6. ASSUME NEW j \in Jobs, NEW s \in Slots, run'[s].pc = "start", run'[s].task = j
        PROVE  run'[s].cache.job.attempts + Cardinality(Waiting(j)') <= Allowed(j)'
    <2>1. CASE run'[s] = run[s]
      <3>1. run[s].cache.job.attempts \in Nat
        BY <1>6, <2>1 DEF TypeInv, SlotOK, Live, Loaded, JobRow
      <3>2. Room(run[s].cache.job.attempts, j)
        BY <1>6, <2>1 DEF AttemptsCounted
      <3> QED
        BY <1>4, <2>1, <3>1, <3>2
    <2>2. CASE /\ run[s].pc = "load" /\ run'[s].task = run[s].task
               /\ run'[s].cache.job.attempts = job[run[s].task].attempts
      BY <1>5, <1>6, <2>2
    <2> QED
      BY <1>6, <2>1, <2>2
  <1>7. /\ queue' \subseteq submitted'
        /\ \A s \in Slots : run'[s].pc # "idle" => run'[s].task \in submitted'
    BY DEF AttemptsCounted
  <1>8. ASSUME NEW j \in Jobs
        PROVE  /\ tries'[j] <= MaxTries
               /\ j \notin submitted' => tries'[j] = 0 /\ job'[j].attempts = 0
    BY ConstantsAssumption DEF AttemptsCounted
  <1>9. ASSUME NEW j \in Jobs
        PROVE  /\ Room(job[j].attempts, j)'
               /\ \A s \in Slots :
                   run'[s].pc = "start" /\ run'[s].task = j =>
                       Room(run[s].cache.job.attempts, j)'
    BY <1>5, <1>6 DEF Room
  <1> QED
    BY <1>2, <1>7, <1>8, <1>9 DEF AttemptsCounted

\* The first commit of an attempt: one slot less waits, one attempt more is recorded.
LEMMA CountStarted ==
    ASSUME TypeInv, AttemptsCounted, NEW s \in Slots, run[s].pc = "start", Commit(s, Written(s)),
           NEW r, Become(s, r), r.pc \notin {"load", "start"},
           r.pc # "idle" => r.task = run[s].task, UNCHANGED arq
    PROVE  AttemptsCounted'
  <1> DEFINE e == run[s].task
             n == run[s].cache.job.attempts
  <1>1. /\ e \in Jobs /\ n \in Nat /\ job'[e].attempts = n + 1
        /\ \A j \in Jobs \ {e} : job'[j] = job[j]
    BY CommitCounts DEF HasRows, Live
  <1>2. run'[s] = r /\ \A t \in Slots \ {s} : run'[t] = run[t]
    BY SlotAfter
  <1>3. ASSUME NEW j \in Jobs
        PROVE  /\ IsFiniteSet(Waiting(j)')
               /\ Cardinality(Waiting(j)') =
                      IF j = e THEN Cardinality(Waiting(j)) - 1 ELSE Cardinality(Waiting(j))
    <2>1. IsFiniteSet(Waiting(j)) /\ (s \in Waiting(j) <=> j = e)
      BY <1>1 DEF AttemptsCounted, Waiting
    <2>2. Waiting(j)' = Waiting(j) \ {s}
      BY <1>2 DEF Waiting
    <2> HIDE DEF Waiting
    <2> QED
      BY <2>1, <2>2, FS_RemoveElement
  <1>4. ASSUME NEW j \in Jobs PROVE Allowed(j)' = Allowed(j)
    BY DEF Allowed, arq
  <1>5. ASSUME NEW j \in Jobs
        PROVE  job'[j].attempts + Cardinality(Waiting(j)') <= Allowed(j)'
    <2>1. CASE j = e
      <3>1. n + Cardinality(Waiting(j)) <= Allowed(j)
        BY <2>1 DEF AttemptsCounted, Room
      <3> QED
        BY <1>1, <1>3, <1>4, <2>1, <3>1, WaitingCount
    <2>2. CASE j # e
      BY <1>1, <1>3, <1>4, <2>2, WaitingCount DEF AttemptsCounted, Room
    <2> QED
      BY <2>1, <2>2
  <1>6. ASSUME NEW j \in Jobs, NEW t \in Slots, run'[t].pc = "start", run'[t].task = j
        PROVE  run'[t].cache.job.attempts + Cardinality(Waiting(j)') <= Allowed(j)'
    <2>1. run'[t] = run[t]
      BY <1>2, <1>6
    <2>2. run[t].cache.job.attempts \in Nat
      BY <1>6, <2>1 DEF TypeInv, SlotOK, Live, Loaded, JobRow
    <2>3. run[t].cache.job.attempts + Cardinality(Waiting(j)) <= Allowed(j)
      BY <1>6, <2>1 DEF AttemptsCounted, Room
    <2> QED
      BY <1>3, <1>4, <2>1, <2>2, <2>3, WaitingCount
  <1>7. /\ queue' \subseteq submitted'
        /\ \A t \in Slots : run'[t].pc # "idle" => run'[t].task \in submitted'
    BY <1>2 DEF AttemptsCounted, arq
  <1>8. ASSUME NEW j \in Jobs
        PROVE  /\ tries'[j] <= MaxTries
               /\ j \notin submitted' => tries'[j] = 0 /\ job'[j].attempts = 0
    BY <1>1 DEF AttemptsCounted, arq
  <1>9. ASSUME NEW j \in Jobs
        PROVE  /\ Room(job[j].attempts, j)'
               /\ \A t \in Slots :
                   run'[t].pc = "start" /\ run'[t].task = j =>
                       Room(run[t].cache.job.attempts, j)'
    BY <1>5, <1>6 DEF Room
  <1> QED
    BY <1>3, <1>7, <1>8, <1>9 DEF AttemptsCounted

\* A delivery: one slot more waits, one attempt more is allowed.
LEMMA CountDelivered ==
    ASSUME TypeInv, AttemptsCounted, NEW s \in Slots, NEW e \in Jobs, Deliver(s, e)
    PROVE  AttemptsCounted'
  <1>1. /\ run[s].pc = "idle" /\ e \in queue /\ tries[e] < MaxTries
        /\ tries'[e] = tries[e] + 1 /\ \A j \in Jobs \ {e} : tries'[j] = tries[j]
        /\ UNCHANGED <<job, submitted, queue>>
    BY DEF Deliver, rows, TypeInv, TypeOK
  <1>2. /\ run'[s].pc = "load" /\ run'[s].task = e
        /\ \A t \in Slots \ {s} : run'[t] = run[t]
    BY SlotAfter DEF Deliver, Outside
  <1>3. ASSUME NEW j \in Jobs
        PROVE  /\ IsFiniteSet(Waiting(j)')
               /\ Cardinality(Waiting(j)') =
                      IF j = e THEN Cardinality(Waiting(j)) + 1 ELSE Cardinality(Waiting(j))
    <2>1. IsFiniteSet(Waiting(j)) /\ s \notin Waiting(j)
      BY <1>1 DEF AttemptsCounted, Waiting
    <2>2. Waiting(j)' = IF j = e THEN Waiting(j) \union {s} ELSE Waiting(j)
      BY <1>1, <1>2 DEF Waiting
    <2> HIDE DEF Waiting
    <2> QED
      BY <2>1, <2>2, FS_AddElement
  <1>4. ASSUME NEW j \in Jobs
        PROVE  Allowed(j)' = IF j = e THEN Allowed(j) + 1 ELSE Allowed(j)
    BY <1>1 DEF Allowed
  <1>5. ASSUME NEW j \in Jobs, NEW n \in Nat, n + Cardinality(Waiting(j)) <= Allowed(j)
        PROVE  n + Cardinality(Waiting(j)') <= Allowed(j)'
    BY <1>3, <1>4, <1>5, WaitingCount
  <1>6. ASSUME NEW j \in Jobs
        PROVE  job'[j].attempts + Cardinality(Waiting(j)') <= Allowed(j)'
    BY <1>1, <1>5, WaitingCount DEF AttemptsCounted, Room
  <1>7. ASSUME NEW j \in Jobs, NEW t \in Slots, run'[t].pc = "start", run'[t].task = j
        PROVE  run'[t].cache.job.attempts + Cardinality(Waiting(j)') <= Allowed(j)'
    <2>1. run'[t] = run[t]
      BY <1>2, <1>7
    <2>2. run[t].cache.job.attempts \in Nat
      BY <1>7, <2>1 DEF TypeInv, SlotOK, Live, Loaded, JobRow
    <2> QED
      BY <1>5, <1>7, <2>1, <2>2 DEF AttemptsCounted, Room
  <1>8. /\ queue' \subseteq submitted'
        /\ \A t \in Slots : run'[t].pc # "idle" => run'[t].task \in submitted'
    BY <1>1, <1>2 DEF AttemptsCounted
  <1>9. ASSUME NEW j \in Jobs
        PROVE  /\ tries'[j] <= MaxTries
               /\ j \notin submitted' => tries'[j] = 0 /\ job'[j].attempts = 0
    <2>1. tries[e] + 1 <= MaxTries
      BY <1>1, ConstantsAssumption, WaitingCount
    <2> QED
      BY <1>1, <2>1 DEF AttemptsCounted
  <1>10. ASSUME NEW j \in Jobs
        PROVE  /\ Room(job[j].attempts, j)'
               /\ \A t \in Slots :
                   run'[t].pc = "start" /\ run'[t].task = j =>
                       Room(run[t].cache.job.attempts, j)'
    BY <1>6, <1>7 DEF Room
  <1> QED
    BY <1>3, <1>8, <1>9, <1>10 DEF AttemptsCounted

\* A job enters the queue once, before any slot has it.
LEMMA CountEnqueued ==
    ASSUME TypeInv, AttemptsCounted, NEW e \in Jobs, Enqueue(e)
    PROVE  AttemptsCounted'
  <1>1. /\ e \notin submitted /\ submitted' = submitted \union {e}
        /\ queue' = queue \union {e} /\ UNCHANGED <<job, run, tries>>
    BY DEF Enqueue, rows
  <1>2. tries[e] = 0 /\ job[e].attempts = 0 /\ \A s \in Slots : run[s].pc # "idle" => run[s].task # e
    BY <1>1 DEF AttemptsCounted
  <1>3. \A j \in Jobs : Waiting(j)' = Waiting(j)
    BY <1>1 DEF Waiting
  <1>4. Waiting(e) = {}
    BY <1>2 DEF Waiting
  <1>5. Cardinality(Waiting(e)) = 0
    BY <1>4, FS_EmptySet
  <1>6. Allowed(e)' = 0 /\ \A j \in Jobs \ {e} : Allowed(j)' = Allowed(j)
    BY <1>1, <1>2 DEF Allowed
  <1>7. ASSUME NEW j \in Jobs
        PROVE  /\ Room(job[j].attempts, j)'
               /\ \A s \in Slots :
                   run'[s].pc = "start" /\ run'[s].task = j =>
                       Room(run[s].cache.job.attempts, j)'
    <2>1. CASE j = e
      BY <1>1, <1>2, <1>3, <1>5, <1>6, <2>1 DEF Room
    <2>2. CASE j # e
      BY <1>1, <1>3, <1>6, <2>2 DEF AttemptsCounted, Room
    <2> QED
      BY <2>1, <2>2
  <1> QED
    BY <1>1, <1>3, <1>7 DEF AttemptsCounted

LEMMA AttemptsStep ==
    ASSUME TypeInv, TypeInv', AttemptsCounted, Next
    PROVE  AttemptsCounted'
  <1>0. \A s \in Slots : run[s] \in SlotState
    BY DEF TypeInv, TypeOK
  <1>1. ASSUME NEW s \in Slots, NEW r, Become(s, r), r.pc \notin {"load", "start"},
               r.pc # "idle" => run[s].pc # "idle" /\ r.task = run[s].task,
               \/ UNCHANGED job
               \/ HasRows(s) /\ run[s].pc \notin {"exec", "start"} /\ Commit(s, Written(s)),
               UNCHANGED submitted, queue' \subseteq queue,
               \A j \in Jobs : tries'[j] = tries[j] \/ (tries'[j] = 0 /\ j \notin queue')
        PROVE  AttemptsCounted'
    <2>1. \A j \in Jobs : job'[j].attempts = job[j].attempts
      BY <1>1, CommitCounts
    <2> QED
      BY <1>1, <2>1, SlotAfter, CountKept
  <1>2. ASSUME NEW s \in Slots, NEW r, Become(s, r), r.pc \notin {"load", "start"},
               r.pc # "idle" => r.task = run[s].task, HasRows(s), run[s].pc # "exec",
               Commit(s, Written(s)), UNCHANGED arq
        PROVE  AttemptsCounted'
    <2>1. CASE run[s].pc = "start"
      BY <1>2, <2>1, CountStarted
    <2>2. CASE run[s].pc # "start"
      BY <1>1, <1>2, <2>2 DEF arq, HasRows, Live
    <2> QED
      BY <2>1, <2>2
  <1>3. ASSUME NEW s \in Slots, NEW pc \in {"enter", "exec", "complete", "promote"}, NEW stage,
               HasRows(s), run[s].pc # "exec", CommitAndGo(s, pc, stage)
        PROVE  AttemptsCounted'
    <2> DEFINE r == [run[s] EXCEPT !.cache = Written(s), !.pc = pc, !.stage = stage]
    <2>1. r.pc = pc /\ r.task = run[s].task
      BY <1>0, SlotAtCommit
    <2>2. Become(s, r) /\ Commit(s, Written(s)) /\ UNCHANGED arq
      BY <1>3 DEF CommitAndGo
    <2> HIDE DEF r
    <2> QED
      BY <1>2, <1>3, <2>1, <2>2
  <1>4. ASSUME NEW s \in Slots, Load(s) PROVE AttemptsCounted'
    <2>1. CASE VersionAt(s) = NoVersion
      <3>1. /\ EndRun(s, "returned").pc = "returned" /\ EndRun(s, "returned").task = run[s].task
            /\ Become(s, EndRun(s, "returned")) /\ UNCHANGED <<rows, arq>>
            /\ run[s].pc = "load"
        BY <1>4, <2>1 DEF Load, EndRun, Outside
      <3> QED
        BY <1>1, <3>1 DEF arq, rows
    <2>2. CASE VersionAt(s) # NoVersion
      <3> DEFINE c == [job |-> job[run[s].task], version |-> version[VersionAt(s)],
                       document |-> document[DocumentAt(s)]]
                 r == [run[s] EXCEPT !.pc = "start", !.cache = c]
      <3>1. Become(s, r) /\ UNCHANGED <<rows, arq>> /\ run[s].pc = "load"
        BY <1>4, <2>2 DEF Load
      <3>2. r.pc = "start" /\ r.task = run[s].task /\ r.cache = c /\ c.job = job[run[s].task]
        BY <1>0, SlotWithCache
      <3> HIDE DEF r, c
      <3> QED
        BY <3>1, <3>2, SlotAfter, CountKept DEF arq, rows
    <2> QED
      BY <2>1, <2>2
  <1>5. ASSUME NEW s \in Slots, HandlerReturns(s) \/ HandlerRaises(s) PROVE AttemptsCounted'
    <2>1. \E r : /\ Become(s, r) /\ r.pc \in {"leave", "fail"} /\ r.task = run[s].task
                 /\ run[s].pc = "exec" /\ UNCHANGED <<rows, arq>>
      <3>1. CASE HandlerReturns(s)
        <4> DEFINE timings == run[s].timings \union {PIPELINE[run[s].stage].name}
                   r == [run[s] EXCEPT !.pc = "leave", !.timings = timings]
        <4>1. Become(s, r) /\ run[s].pc = "exec" /\ UNCHANGED <<rows, arq>>
          BY <3>1 DEF HandlerReturns
        <4>2. r.pc = "leave" /\ r.task = run[s].task
          BY <1>0 DEF SlotState
        <4> HIDE DEF r
        <4> QED
          BY <4>1, <4>2
      <3>2. CASE HandlerRaises(s)
        <4> DEFINE r == [run[s] EXCEPT !.pc = "fail"]
        <4>1. Become(s, r) /\ run[s].pc = "exec" /\ UNCHANGED <<rows, arq>>
          BY <3>2 DEF HandlerRaises
        <4>2. r.pc = "fail" /\ r.task = run[s].task
          BY <1>0 DEF SlotState
        <4> HIDE DEF r
        <4> QED
          BY <4>1, <4>2
      <3> QED
        BY <1>5, <3>1, <3>2
    <2> QED
      BY <1>1, <2>1 DEF rows, arq
  <1>6. ASSUME NEW s \in Slots, NEW outcome \in {"returned", "raised"}, run[s].pc # "idle",
               Become(s, EndRun(s, outcome)), UNCHANGED arq,
               \/ UNCHANGED rows
               \/ HasRows(s) /\ run[s].pc # "exec" /\ Commit(s, Written(s))
        PROVE  AttemptsCounted'
    <2>1. EndRun(s, outcome).pc = outcome /\ EndRun(s, outcome).task = run[s].task
      BY DEF EndRun, Outside
    <2> QED
      BY <1>1, <1>2, <1>6, <2>1 DEF arq, rows
  <1>7. ASSUME NEW s \in Slots, DatabaseRaises(s) PROVE AttemptsCounted'
    <2>1. /\ \/ UNCHANGED rows
             \/ HasRows(s) /\ run[s].pc # "exec" /\ Commit(s, Written(s))
          /\ run[s].pc # "idle" /\ UNCHANGED arq
      BY <1>7 DEF DatabaseRaises, HasRows, Live
    <2>2. CASE run[s].pc \in TryBlock
      <3> DEFINE r == [run[s] EXCEPT !.pc = "fail", !.cache = Expired]
      <3>1. r.pc = "fail" /\ r.task = run[s].task
        BY <1>0, SlotWithCache
      <3>2. Become(s, r)
        BY <1>7, <2>2 DEF DatabaseRaises, RolledBack
      <3> HIDE DEF r
      <3> QED
        BY <1>1, <1>2, <2>1, <3>1, <3>2 DEF arq, rows
    <2>3. CASE run[s].pc \notin TryBlock
      BY <1>6, <1>7, <2>1, <2>3 DEF DatabaseRaises
    <2> QED
      BY <2>2, <2>3
  <1>8. ASSUME NEW s \in Slots, Become(s, Idle), UNCHANGED rows,
               Finish(run[s].task) \/ Requeue(run[s].task) \/ UNCHANGED arq
        PROVE  AttemptsCounted'
    <2>1. Idle.pc = "idle"
      BY DEF Idle, Outside
    <2>2. /\ UNCHANGED submitted /\ queue' \subseteq queue
          /\ \A j \in Jobs : tries'[j] = tries[j] \/ (tries'[j] = 0 /\ j \notin queue')
      BY <1>8 DEF Finish, Requeue, arq, TypeInv, TypeOK
    <2> QED
      BY <1>1, <1>8, <2>1, <2>2 DEF rows
  <1>9. ASSUME UNCHANGED <<job, run, submitted>>, queue' \subseteq queue,
               \A j \in Jobs : tries'[j] = tries[j] \/ (tries'[j] = 0 /\ j \notin queue')
        PROVE  AttemptsCounted'
    BY <1>9, CountKept
  <1>10. ASSUME NEW j \in Jobs, GiveUp(j) \/ LeaseExpires(j) \/ LeaseLapses(j)
         PROVE  AttemptsCounted'
    BY <1>9, <1>10 DEF GiveUp, Finish, LeaseExpires, LeaseLapses, rows, TypeInv, TypeOK
  <1>11. CASE RedisFlush
    BY <1>9, <1>11 DEF RedisFlush, rows
  <1>12. ASSUME NEW s \in Slots, Work(s) PROVE AttemptsCounted'
    <2>1. CASE StartAttempt(s) \/ EnterStage(s) \/ LeaveStage(s) \/ RecordSuccess(s)
      BY <1>3, <2>1 DEF StartAttempt, EnterStage, LeaveStage, RecordSuccess, HasRows, Live
    <2>2. CASE RecordFailure(s) \/ PromoteVersion(s)
      BY <1>6, <2>2 DEF RecordFailure, PromoteVersion, HasRows, Live
    <2>3. CASE AckReturned(s) \/ AckRaised(s)
      BY <1>8, <2>3 DEF AckReturned, AckRaised
    <2> QED
      BY <1>4, <1>5, <1>12, <2>1, <2>2, <2>3 DEF Work
  <1>13. CASE Disturbance
    <2>1. ASSUME NEW s \in Slots, Timeout(s) PROVE AttemptsCounted'
      BY <1>6, <2>1 DEF Timeout, Cancellable, Live
    <2>2. ASSUME NEW s \in Slots, Shutdown(s) \/ Crash(s) PROVE AttemptsCounted'
      BY <1>8, <2>2 DEF Shutdown, Crash
    <2> QED
      BY <1>5, <1>7, <1>10, <1>11, <1>13, <2>1, <2>2 DEF Disturbance
  <1> QED
    BY <1>10, <1>12, <1>13, CountDelivered, CountEnqueued DEF Next, Queueing

LEMMA AttemptsInit == Init => AttemptsCounted
  <1> SUFFICES ASSUME Init PROVE AttemptsCounted
    OBVIOUS
  <1>1. \A j \in Jobs : Waiting(j) = {}
    BY DEF Init, Idle, Outside, Waiting
  <1>2. \A j \in Jobs : IsFiniteSet(Waiting(j)) /\ Cardinality(Waiting(j)) = 0
    BY <1>1, FS_EmptySet
  <1> QED
    BY <1>2, ConstantsAssumption
    DEF Init, Idle, Outside, AttemptsCounted, Room, Allowed

LEMMA AttemptsKept == TypeInv /\ AttemptsCounted /\ [Next]_vars => AttemptsCounted'
  <1> SUFFICES ASSUME TypeInv, AttemptsCounted, [Next]_vars PROVE AttemptsCounted'
    OBVIOUS
  <1>1. TypeInv'
    BY TypeStep
  <1>2. CASE UNCHANGED vars
    BY <1>1, <1>2, CountKept DEF vars
  <1> QED
    BY <1>1, <1>2, AttemptsStep

\* arq's retries never start a job more than max_tries times, even when a lease
\* lapses and runs of the job overlap, each with its own copy of the count.
THEOREM AttemptsBounded == Spec => []AttemptsWithinTries
  <1>1. TypeInv /\ AttemptsCounted => AttemptsWithinTries
    <2> SUFFICES ASSUME TypeInv, AttemptsCounted, NEW j \in Jobs
                 PROVE  job[j].attempts <= MaxTries
      BY DEF AttemptsWithinTries
    <2> QED
      BY WaitingCount, ConstantsAssumption DEF AttemptsCounted, Room
  <1> QED
    BY <1>1, AttemptsInit, AttemptsKept, TypeInit, TypeStep, PTL DEF Spec

-----------------------------------------------------------------------------
(* The rows implement the lifecycle *)

\* What the lifecycle knows of the rows.
Entry(j) == [status |-> job[j].status, shown |-> version[VersionOf[j]].status,
             attempts |-> job[j].attempts]

Ledger == [j \in Tracked |-> Entry(j)]

LEMMA StartIsAllowed ==
    ASSUME TypeInv, AttemptsCounted, NEW s \in Slots, run[s].pc = "start",
           NEW j \in Jobs, run[s].task = j
    PROVE  job[j].attempts < MaxTries
  <1>1. s \in Waiting(j) /\ IsFiniteSet(Waiting(j))
    BY DEF Waiting, AttemptsCounted
  <1>2. Cardinality(Waiting(j)) # 0
    <2> HIDE DEF Waiting
    <2> QED
      BY <1>1, FS_EmptySet
  <1>3. job[j].attempts + Cardinality(Waiting(j)) <= Allowed(j)
    BY DEF AttemptsCounted, Room
  <1> QED
    BY <1>2, <1>3, WaitingCount, ConstantsAssumption

\* A commit moves the entry of its job by a step of the lifecycle, or not at all.
LEMMA CommitMoves ==
    ASSUME TypeInv, SessionsCurrent, RunsReported, AttemptsCounted,
           NEW s \in Slots, HasRows(s), run[s].pc # "exec", Commit(s, Written(s)),
           NEW e \in Tracked, run[s].task = e, SoleJob(e)
    PROVE  \/ Entry(e)' = Entry(e)
           \/ /\ job[e].attempts < MaxTries
              /\ Entry(e)' = [status |-> "RUNNING", shown |-> "PROCESSING",
                              attempts |-> Entry(e).attempts + 1]
           \/ /\ Entry(e).status = "RUNNING" /\ Entry(e).shown \in DOMAIN Lifecycle!Successor
              /\ Entry(e)' = [status |-> "RUNNING",
                              shown |-> Lifecycle!Successor[Entry(e).shown],
                              attempts |-> Entry(e).attempts]
           \/ /\ Entry(e).status = "RUNNING" /\ Entry(e).shown = "INDEXING"
              /\ Entry(e)' = [status |-> "SUCCEEDED", shown |-> "COMPLETED",
                              attempts |-> Entry(e).attempts]
           \/ /\ Entry(e).status = "RUNNING" /\ Entry(e).shown \in Lifecycle!Stages
              /\ Entry(e)' = [status |-> "FAILED", shown |-> "FAILED",
                              attempts |-> Entry(e).attempts]
  <1> DEFINE v == VersionOf[e]
             i == run[s].stage
             shown == version[v].status
  <1>1. /\ e \in Jobs /\ i \in Stages /\ Reported(run[s], job, version)
        /\ run[s].pc \in {"start", "enter", "leave", "fail", "complete", "promote"}
    BY DEF Tracked, TypeInv, TypeOK, SlotState, RunsReported, HasRows, Live
  <1>2. run[s].pc # "start" => job'[e].attempts = job[e].attempts
    BY CommitCounts
  <1>3. CASE run[s].pc = "start"
    <2>1. job[e].attempts < MaxTries
      BY <1>1, <1>3, StartIsAllowed
    <2> QED
      BY <1>3, <2>1, CommitShows DEF Entry
  <1>4. CASE run[s].pc = "enter"
    <2>1. /\ job[e].status = "RUNNING" /\ job'[e].status = "RUNNING"
          /\ shown = PIPELINE[IF i = 1 THEN 1 ELSE i - 1].status
          /\ version'[v].status = PIPELINE[i].status
      BY <1>1, <1>4, CommitShows DEF Reported
    <2>2. \/ version'[v].status = shown
          \/ /\ shown \in DOMAIN Lifecycle!Successor
             /\ version'[v].status = Lifecycle!Successor[shown]
      BY <1>1, <2>1 DEF Stages, PIPELINE, Lifecycle!Successor
    <2> QED
      BY <1>2, <1>4, <2>1, <2>2 DEF Entry
  <1>5. CASE run[s].pc = "leave"
    BY <1>1, <1>2, <1>5, CommitShows DEF Entry, Reported
  <1>6. CASE run[s].pc = "fail"
    <2>1. job[e].status = "RUNNING" /\ shown \in InFlight
      BY <1>1, <1>6 DEF Reported
    <2>2. shown \in Lifecycle!Stages
      BY <2>1 DEF InFlight, Lifecycle!Stages, Lifecycle!Successor
    <2> QED
      BY <1>2, <1>6, <2>1, <2>2, CommitShows DEF Entry
  <1>7. CASE run[s].pc = "complete"
    BY <1>1, <1>2, <1>7, CommitShows DEF Entry, Reported
  <1>8. CASE run[s].pc = "promote"
    BY <1>8, CommitShows DEF Entry
  <1> QED
    BY <1>1, <1>3, <1>4, <1>5, <1>6, <1>7, <1>8

\* The lifecycle's steps, in terms of the entries.
LEMMA EntryOf ==
    ASSUME NEW e \in Tracked
    PROVE  /\ Ledger[e] = Entry(e)
           /\ Entry(e).status = job[e].status
           /\ Entry(e).shown = version[VersionOf[e]].status
           /\ Entry(e).attempts = job[e].attempts
  BY DEF Ledger, Entry

LEMMA LifecycleStep ==
    ASSUME NEW e \in Tracked
    PROVE  /\ Lifecycle!Begin(e) <=>
                /\ Ledger[e].attempts < MaxTries
                /\ Ledger' = [Ledger EXCEPT ![e] = [status |-> "RUNNING", shown |-> "PROCESSING",
                                                    attempts |-> Ledger[e].attempts + 1]]
           /\ Lifecycle!Advance(e) <=>
                /\ Ledger[e].status = "RUNNING"
                /\ Ledger[e].shown \in DOMAIN Lifecycle!Successor
                /\ Ledger' = [Ledger EXCEPT ![e] =
                                  [status |-> "RUNNING",
                                   shown |-> Lifecycle!Successor[Ledger[e].shown],
                                   attempts |-> Ledger[e].attempts]]
           /\ Lifecycle!Succeed(e) <=>
                /\ Ledger[e].status = "RUNNING"
                /\ Ledger[e].shown = "INDEXING"
                /\ Ledger' = [Ledger EXCEPT ![e] = [status |-> "SUCCEEDED", shown |-> "COMPLETED",
                                                    attempts |-> Ledger[e].attempts]]
           /\ Lifecycle!Fail(e) <=>
                /\ Ledger[e].status = "RUNNING"
                /\ Ledger[e].shown \in Lifecycle!Stages
                /\ Ledger' = [Ledger EXCEPT ![e] = [status |-> "FAILED", shown |-> "FAILED",
                                                    attempts |-> Ledger[e].attempts]]
  <1>1. Lifecycle!Begin(e) <=>
            /\ Ledger[e].attempts < MaxTries
            /\ Ledger' = [Ledger EXCEPT ![e] = [status |-> "RUNNING", shown |-> "PROCESSING",
                                                attempts |-> Ledger[e].attempts + 1]]
    BY DEF Lifecycle!Begin, Lifecycle!Record, Ledger, Entry
  <1>2. Lifecycle!Advance(e) <=>
            /\ Ledger[e].status = "RUNNING"
            /\ Ledger[e].shown \in DOMAIN Lifecycle!Successor
            /\ Ledger' = [Ledger EXCEPT ![e] =
                              [status |-> "RUNNING",
                               shown |-> Lifecycle!Successor[Ledger[e].shown],
                               attempts |-> Ledger[e].attempts]]
    BY DEF Lifecycle!Advance, Lifecycle!Record, Ledger, Entry
  <1>3. Lifecycle!Succeed(e) <=>
            /\ Ledger[e].status = "RUNNING"
            /\ Ledger[e].shown = "INDEXING"
            /\ Ledger' = [Ledger EXCEPT ![e] = [status |-> "SUCCEEDED", shown |-> "COMPLETED",
                                                attempts |-> Ledger[e].attempts]]
    BY DEF Lifecycle!Succeed, Lifecycle!Record, Ledger, Entry
  <1>4. Lifecycle!Fail(e) <=>
            /\ Ledger[e].status = "RUNNING"
            /\ Ledger[e].shown \in Lifecycle!Stages
            /\ Ledger' = [Ledger EXCEPT ![e] = [status |-> "FAILED", shown |-> "FAILED",
                                                attempts |-> Ledger[e].attempts]]
    BY DEF Lifecycle!Fail, Lifecycle!Record, Ledger, Entry
  <1> QED
    BY <1>1, <1>2, <1>3, <1>4

LEMMA CommitRefines ==
    ASSUME TypeInv, SessionsCurrent, RunsReported, AttemptsCounted,
           \A j \in Tracked : SoleJob(j),
           NEW s \in Slots, HasRows(s), run[s].pc # "exec", Commit(s, Written(s)),
           NEW e \in Tracked, run[s].task = e
    PROVE  Lifecycle!Next \/ UNCHANGED Ledger
  <1>1. ASSUME NEW k \in Tracked, k # e PROVE Entry(k)' = Entry(k)
    <2>1. job'[k] = job[k]
      BY <1>1, CommitCounts DEF Tracked
    <2>2. VersionOf[k] # VersionOf[e]
      BY <1>1 DEF SoleJob, Tracked
    <2>3. version'[VersionOf[k]] = version[VersionOf[k]]
      BY <2>2 DEF Commit, VersionAt, TypeInv, TypeOK
    <2> QED
      BY <2>1, <2>3 DEF Entry
  <1>2. Ledger' = [Ledger EXCEPT ![e] = Entry(e)']
    BY <1>1 DEF Ledger
  <1>3. Ledger = [j \in Tracked |-> Entry(j)]
    BY DEF Ledger
  <1>4. CASE Entry(e)' = Entry(e)
    BY <1>2, <1>3, <1>4
  <1>5. CASE /\ Ledger[e].attempts < MaxTries
             /\ Entry(e)' = [status |-> "RUNNING",
                             shown |-> "PROCESSING",
                             attempts |-> Ledger[e].attempts + 1]
    <2>1. Ledger' = [Ledger EXCEPT ![e] = [status |-> "RUNNING",
                                           shown |-> "PROCESSING",
                                           attempts |-> Ledger[e].attempts + 1]]
      BY <1>2, <1>5
    <2>2. Lifecycle!Begin(e)
      BY <1>3, <1>5, <2>1, LifecycleStep
    <2> QED
      BY <2>2 DEF Lifecycle!Next
  <1>6. CASE /\ Ledger[e].status = "RUNNING" /\ Ledger[e].shown \in DOMAIN Lifecycle!Successor
             /\ Entry(e)' = [status |-> "RUNNING",
                             shown |-> Lifecycle!Successor[Ledger[e].shown],
                             attempts |-> Ledger[e].attempts]
    <2>1. Ledger' = [Ledger EXCEPT ![e] = [status |-> "RUNNING",
                                           shown |-> Lifecycle!Successor[Ledger[e].shown],
                                           attempts |-> Ledger[e].attempts]]
      BY <1>2, <1>6
    <2>2. Lifecycle!Advance(e)
      BY <1>3, <1>6, <2>1, LifecycleStep
    <2> QED
      BY <2>2 DEF Lifecycle!Next
  <1>7. CASE /\ Ledger[e].status = "RUNNING" /\ Ledger[e].shown = "INDEXING"
             /\ Entry(e)' = [status |-> "SUCCEEDED",
                             shown |-> "COMPLETED",
                             attempts |-> Ledger[e].attempts]
    <2>1. Ledger' = [Ledger EXCEPT ![e] = [status |-> "SUCCEEDED",
                                           shown |-> "COMPLETED",
                                           attempts |-> Ledger[e].attempts]]
      BY <1>2, <1>7
    <2>2. Lifecycle!Succeed(e)
      BY <1>3, <1>7, <2>1, LifecycleStep
    <2> QED
      BY <2>2 DEF Lifecycle!Next
  <1>8. CASE /\ Ledger[e].status = "RUNNING" /\ Ledger[e].shown \in Lifecycle!Stages
             /\ Entry(e)' = [status |-> "FAILED",
                             shown |-> "FAILED",
                             attempts |-> Ledger[e].attempts]
    <2>1. Ledger' = [Ledger EXCEPT ![e] = [status |-> "FAILED",
                                           shown |-> "FAILED",
                                           attempts |-> Ledger[e].attempts]]
      BY <1>2, <1>8
    <2>2. Lifecycle!Fail(e)
      BY <1>3, <1>8, <2>1, LifecycleStep
    <2> QED
      BY <2>2 DEF Lifecycle!Next
  <1>9. Entry(e) = Ledger[e] /\ job[e].attempts = Ledger[e].attempts
    BY EntryOf
  <1> QED
    BY <1>4, <1>5, <1>6, <1>7, <1>8, <1>9, CommitMoves

\* Where the environment may not stall an event loop, none stalls.
LEMMA NeverStalls ==
    ASSUME TypeInv, MaxFaults["stall"] = 0, NoStall, Next
    PROVE  NoStall'
  <1>1. UNCHANGED faults \/ \E k \in FaultKinds : Fault(k)
    BY DEF Next, Work, Queueing, Disturbance, Load, StartAttempt, EnterStage, HandlerReturns,
           LeaveStage, RecordFailure, RecordSuccess, PromoteVersion, AckReturned, AckRaised,
           CommitAndGo, Enqueue, GiveUp, LeaseExpires, Deliver, HandlerRaises, DatabaseRaises,
           Timeout, Shutdown, Crash, LeaseLapses, RedisFlush, FaultKinds
  <1>2. ASSUME NEW k \in FaultKinds, Fault(k) PROVE NoStall'
    BY <1>2 DEF Fault, NoStall, TypeInv, TypeOK, FaultKinds
  <1> QED
    BY <1>1, <1>2 DEF NoStall

\* Where no lease lapses and no two jobs share a version, every step of queue,
\* workers and database sessions, for any number of each and any other faults,
\* moves the rows by a step of the lifecycle or leaves it unmoved.
THEOREM Refinement ==
    ASSUME \A j \in Tracked : SoleJob(j), MaxFaults["stall"] = 0
    PROVE  Spec => ImplementsLifecycle
  <1>1. Init => NoStall
    BY DEF Init, NoStall, FaultKinds
  <1>2. TypeInv /\ NoStall /\ [Next]_vars => NoStall'
    BY NeverStalls DEF NoStall, vars
  <1>3. Init => Lifecycle!Init
    BY ConstantsAssumption DEF Init, Lifecycle!Init, Tracked
  <1>4. OutcomeInv /\ AttemptsCounted /\ NoStall /\ [Next]_vars
            => Lifecycle!Next \/ UNCHANGED Ledger
    <2> SUFFICES ASSUME OutcomeInv, AttemptsCounted, NoStall, [Next]_vars
                 PROVE  Lifecycle!Next \/ UNCHANGED Ledger
      OBVIOUS
    <2>1. CASE UNCHANGED vars
      BY <2>1 DEF vars, Ledger, Entry
    <2>2. ASSUME NEW s \in Slots, HasRows(s), run[s].pc # "exec", Commit(s, Written(s))
          PROVE  Lifecycle!Next \/ UNCHANGED Ledger
      <3>1. PICK e \in Tracked : run[s].task = e
        BY <2>2, ConstantsAssumption
        DEF Tracked, OutcomeInv, SessionInv, TypeInv, SlotOK, HasRows, Live
      <3> QED
        BY <2>2, <3>1, CommitRefines DEF OutcomeInv, SessionInv
    <2> QED
      BY <2>1, <2>2, OnlyCommitsWrite DEF rows, Ledger, Entry
  <1>5. UNCHANGED Ledger =>
            UNCHANGED [j \in Tracked |-> [status |-> job[j].status,
                                         shown |-> version[VersionOf[j]].status,
                                         attempts |-> job[j].attempts]]
    BY DEF Ledger, Entry
  <1> QED
    BY <1>1, <1>2, <1>3, <1>4, <1>5, OutcomeInit, OutcomeStep, AttemptsInit, AttemptsKept, TypeInit,
       TypeStep, PTL
    DEF Spec, ImplementsLifecycle, Lifecycle!Spec

-----------------------------------------------------------------------------
(* Versions that share a document *)

\* A version u that d's row shows: also when the next commit of u's run finds its
\* copy of the document row to be as it wants it, and flushes nothing.
Witness(d, u) ==
    /\ DocumentOf[u] = d
    /\ document[d].status = version[u].status
    /\ \A s \in Slots :
        run[s].pc = "start" /\ VersionAt(s) = u =>
            run[s].cache.document.status = document[d].status

DocumentsWitnessed ==
    \A d \in Documents :
        (\E v \in Versions : DocumentOf[v] = d) => \E u \in Versions : Witness(d, u)

\* After its first commit a session holds one status for version and document.
Matched(r) ==
    r.pc \in Live \ {"load", "start"} => r.cache.document.status = r.cache.version.status

RunsMatched == \A s \in Slots : Matched(run[s])

DocumentInv ==
    /\ SessionInv
    /\ RunsMatched
    /\ NoStall => DocumentsWitnessed

\* What a commit writes: one status in both objects, or, with the promotion,
\* neither status anew.
LEMMA OneStatusWritten ==
    ASSUME TypeInv, NEW s \in Slots, HasRows(s), run[s].pc # "exec"
    PROVE  LET c == run[s].cache
               w == Written(s)
           IN  /\ run[s].pc # "promote" =>
                    /\ w.document.status = w.version.status
                    /\ w.version.status # Unloaded
               /\ run[s].pc = "promote" =>
                    /\ w.document.status = c.document.status
                    /\ w.version.status = c.version.status
  <1> DEFINE c == run[s].cache
             stage == PIPELINE[run[s].stage]
             w == Written(s)
  <1>1. /\ Object(c) /\ run[s].stage \in Stages
        /\ c.version \in VersionObject /\ c.document \in DocumentObject
    BY DEF TypeInv, TypeOK, SlotState, Object
  <1>2. ASSUME NEW x, x.version \in VersionObject, x.document \in DocumentObject,
               NEW status, NEW jobFields
        PROVE  LET q == SetStatus(x, status, jobFields)
               IN  q.version.status = status /\ q.document.status = status
    BY <1>2 DEF SetStatus, VersionObject, DocumentObject
  <1>3. /\ "PROCESSING" # Unloaded /\ "COMPLETED" # Unloaded /\ "FAILED" # Unloaded
        /\ stage.status # Unloaded
    <2>1. stage.status \in DocumentStatus
      BY <1>1 DEF Stages, PIPELINE, DocumentStatus, InFlight
    <2> QED
      BY <2>1, UnloadedAssumption DEF DocumentStatus, InFlight
  <1>4. CASE run[s].pc = "start"
    <2>1. w = Started(c)
      BY <1>4 DEF Written
    <2> QED
      BY <1>1, <1>2, <1>3, <1>4, <2>1 DEF Started
  <1>5. CASE run[s].pc = "enter"
    <2>1. w = Entered(c, stage)
      BY <1>5 DEF Written
    <2> QED
      BY <1>1, <1>2, <1>3, <1>5, <2>1 DEF Entered
  <1>6. CASE run[s].pc = "leave"
    <2>1. w = Left(c, stage, run[s].timings)
      BY <1>6 DEF Written
    <2> QED
      BY <1>1, <1>2, <1>3, <1>6, <2>1 DEF Left
  <1>7. CASE run[s].pc = "fail"
    <2> DEFINE x == [c EXCEPT !.version.error = TRUE]
               fields == [c.job EXCEPT !.status = "FAILED", !.error = stage.name,
                                       !.finished = TRUE, !.timings = run[s].timings]
    <2>1. w = SetStatus(x, "FAILED", fields)
      BY <1>7 DEF Written, Failed
    <2>2. /\ x.version = [c.version EXCEPT !.error = TRUE]
          /\ x.document = c.document
      BY <1>1 DEF Object
    <2>3. x.version \in VersionObject
      BY <1>1, <2>2 DEF VersionObject, Cached
    <2>4. x.document \in DocumentObject
      BY <1>1, <2>2
    <2> HIDE DEF x, fields
    <2> QED
      BY <1>2, <1>3, <1>7, <2>1, <2>3, <2>4
  <1>8. CASE run[s].pc = "complete"
    <2>1. w = Completed(c)
      BY <1>8 DEF Written
    <2> QED
      BY <1>1, <1>2, <1>3, <1>8, <2>1 DEF Completed
  <1>9. CASE run[s].pc = "promote"
    <2>1. w = Promoted(c, VersionAt(s))
      BY <1>9 DEF Written
    <2>2. /\ w.version = c.version
          /\ w.document = [c.document EXCEPT !.current = VersionAt(s)]
      BY <1>1, <2>1 DEF Promoted, Object
    <2> QED
      BY <1>1, <1>9, <2>2 DEF DocumentObject
  <1> QED
    BY <1>4, <1>5, <1>6, <1>7, <1>8, <1>9 DEF HasRows, Live

\* What a commit leaves in the two status columns.
LEMMA StatusesFlushed ==
    ASSUME TypeInv, NEW s \in Slots, HasRows(s), Commit(s, Written(s))
    PROVE  LET v == VersionAt(s)
               d == DocumentAt(s)
               c == run[s].cache
               w == Written(s)
           IN  /\ v \in Versions /\ d \in Documents
               /\ version'[v].status = IF w.version.status = c.version.status
                                       THEN version[v].status ELSE w.version.status
               /\ document'[d].status = IF w.document.status = c.document.status
                                        THEN document[d].status ELSE w.document.status
               /\ \A u \in Versions \ {v} : version'[u] = version[u]
               /\ \A e \in Documents \ {d} : document'[e] = document[e]
  <1>1. /\ VersionAt(s) \in Versions /\ DocumentAt(s) \in Documents
        /\ version \in [Versions -> VersionRow] /\ document \in [Documents -> DocumentRow]
    BY ConstantsAssumption DEF TypeInv, TypeOK, SlotOK, HasRows, VersionAt, DocumentAt
  <1>2. /\ "status" \in DOMAIN version[VersionAt(s)]
        /\ "status" \in DOMAIN document[DocumentAt(s)]
    BY <1>1 DEF VersionRow, DocumentRow
  <1> QED
    BY <1>1, <1>2 DEF Commit, Flush

\* A commit by slot s, the only run of its version: it makes its version the
\* witness or, if it flushes no status of the document, leaves the witness one.
LEMMA WitnessCommitted ==
    ASSUME TypeInv, Owned, SessionsCurrent, RunsMatched, DocumentsWitnessed,
           \A j \in Jobs : SoleJob(j),
           NEW s \in Slots, HasRows(s), run[s].pc # "exec", Commit(s, Written(s)),
           NEW r, Become(s, r), r.pc # "start",
           NEW v, v = VersionAt(s), NEW e, e = DocumentAt(s)
    PROVE  DocumentsWitnessed'
  <1> DEFINE c == run[s].cache
             w == Written(s)
  <1>1. /\ v \in Versions /\ e \in Documents /\ DocumentOf[v] = e
        /\ \A u \in Versions \ {v} : version'[u] = version[u]
        /\ \A d \in Documents \ {e} : document'[d] = document[d]
    BY StatusesFlushed DEF DocumentAt
  <1>2. run'[s] = r /\ \A t \in Slots \ {s} : run'[t] = run[t]
    BY SlotAfter
  <1>3. ASSUME NEW t \in Slots, run'[t].pc = "start"
        PROVE  t # s /\ run'[t] = run[t] /\ VersionOf[run'[t].task] # v
    <2>1. t # s /\ run'[t] = run[t]
      BY <1>2, <1>3
    <2>2. run[t].task \in Jobs /\ run[s].task \in Jobs
      BY <1>3, <2>1 DEF TypeInv, SlotOK, HasRows, Live
    <2>3. run[t].task # run[s].task
      BY <2>1, <2>2, ConstantsAssumption DEF Owned
    <2> QED
      BY <2>1, <2>2, <2>3 DEF SoleJob, VersionAt
  <1>4. ASSUME NEW d \in Documents, NEW u \in Versions, Witness(d, u), u # v,
               document'[d].status = document[d].status
        PROVE  Witness(d, u)'
    BY <1>1, <1>3, <1>4 DEF Witness, VersionAt
  <1>5. ASSUME document'[e].status = version'[v].status
        PROVE  Witness(e, v)'
    BY <1>1, <1>3, <1>5 DEF Witness, VersionAt
  <1>6. run[s].pc # "start" => c.document.status = c.version.status
    BY DEF RunsMatched, Matched, HasRows
  <1>7. /\ run[s].pc # "promote" =>
              w.document.status = w.version.status /\ w.version.status # Unloaded
        /\ run[s].pc = "promote" =>
              w.document.status = c.document.status /\ w.version.status = c.version.status
    BY OneStatusWritten
  <1>8. /\ version'[v].status = IF w.version.status = c.version.status
                                THEN version[v].status ELSE w.version.status
        /\ document'[e].status = IF w.document.status = c.document.status
                                 THEN document[e].status ELSE w.document.status
    BY StatusesFlushed
  <1>9. \/ c.version.status = version[v].status
        \/ c.version.status = Unloaded
    <2>1. SoleJob(run[s].task) /\ version[v] \in VersionRow
      BY <1>1 DEF TypeInv, TypeOK, SlotOK, HasRows, Live
    <2> QED
      BY <2>1 DEF SessionsCurrent, Current, HasRows, Agrees, VersionAt, VersionRow
  <1> HIDE DEF w, c
  <1>10. \E u \in Versions : Witness(e, u)'
    <2>1. PICK u \in Versions : Witness(e, u)
      BY <1>1 DEF DocumentsWitnessed
    <2>2. CASE w.document.status # c.document.status
      \* The document is flushed, with the status that the version row has or gets.
      <3>1. document'[e].status = version'[v].status
        BY <1>7, <1>8, <1>9, <2>2
      <3> QED
        BY <1>1, <1>5, <3>1
    <2>3. CASE w.document.status = c.document.status /\ u # v
      BY <1>1, <1>4, <1>8, <2>1, <2>3
    <2>4. CASE w.document.status = c.document.status /\ u = v
      <3>1. document'[e].status = document[e].status /\ document[e].status = version[v].status
        BY <1>8, <2>1, <2>4 DEF Witness
      <3>2. version'[v].status = document[e].status
        <4>1. CASE run[s].pc = "start"
          <5>1. c.document.status = document[e].status
            BY <2>1, <2>4, <4>1 DEF Witness, c
          <5> QED
            BY <1>7, <1>8, <2>4, <3>1, <4>1, <5>1
        <4>2. CASE run[s].pc # "start"
          BY <1>6, <1>7, <1>8, <2>4, <3>1, <4>2
        <4> QED
          BY <4>1, <4>2
      <3> QED
        BY <1>1, <1>5, <3>1, <3>2
    <2> QED
      BY <2>2, <2>3, <2>4
  <1>11. ASSUME NEW d \in Documents, d # e, \E u \in Versions : DocumentOf[u] = d
         PROVE  \E u \in Versions : Witness(d, u)'
    <2>1. PICK u \in Versions : Witness(d, u)
      BY <1>11 DEF DocumentsWitnessed
    <2>2. u # v
      BY <1>1, <1>11, <2>1 DEF Witness
    <2> QED
      BY <1>1, <1>4, <1>11, <2>1, <2>2
  <1> QED
    BY <1>10, <1>11 DEF DocumentsWitnessed

\* A step of one slot that writes no row.
LEMMA WitnessKept ==
    ASSUME TypeInv, DocumentsWitnessed, UNCHANGED rows, NEW s \in Slots, NEW r, Become(s, r),
           r.pc = "start" =>
               r.cache.document.status = document[DocumentOf[VersionOf[r.task]]].status
    PROVE  DocumentsWitnessed'
  <1>1. ASSUME NEW d \in Documents, NEW u \in Versions, Witness(d, u)
        PROVE  Witness(d, u)'
    <2>1. ASSUME NEW t \in Slots, run'[t].pc = "start", VersionOf[run'[t].task] = u
          PROVE  run'[t].cache.document.status = document[d].status
      <3>1. CASE t = s
        BY <1>1, <2>1, <3>1, SlotAfter DEF Witness
      <3>2. CASE t # s
        BY <1>1, <2>1, <3>2, SlotAfter DEF Witness, VersionAt
      <3> QED
        BY <3>1, <3>2
    <2> QED
      BY <1>1, <2>1 DEF Witness, VersionAt, rows
  <1> QED
    BY <1>1 DEF DocumentsWitnessed

LEMMA WitnessStep ==
    ASSUME TypeInv, Owned, SessionsCurrent, RunsMatched, DocumentsWitnessed,
           \A j \in Jobs : SoleJob(j), Next
    PROVE  DocumentsWitnessed'
  <1>0. \A s \in Slots : run[s] \in SlotState
    BY DEF TypeInv, TypeOK
  <1>1. ASSUME NEW s \in Slots, NEW pc \in {"idle", "load", "returned", "raised"}, NEW j,
               Become(s, Outside(pc, j)),
               \/ UNCHANGED rows
               \/ HasRows(s) /\ run[s].pc # "exec" /\ Commit(s, Written(s))
        PROVE  DocumentsWitnessed'
    <2> DEFINE r == Outside(pc, j)
    <2>1. r.pc # "start"
      BY DEF Outside
    <2> HIDE DEF r
    <2> QED
      BY <1>1, <2>1, WitnessKept, WitnessCommitted DEF r
  <1>2. ASSUME NEW s \in Slots, NEW pc \in Live \ {"start"}, NEW stage,
               HasRows(s), run[s].pc # "exec", CommitAndGo(s, pc, stage)
        PROVE  DocumentsWitnessed'
    <2> DEFINE r == [run[s] EXCEPT !.cache = Written(s), !.pc = pc, !.stage = stage]
    <2>1. r.pc # "start"
      BY <1>0, SlotAtCommit
    <2>2. Become(s, r) /\ Commit(s, Written(s))
      BY <1>2 DEF CommitAndGo
    <2> HIDE DEF r
    <2> QED
      BY <1>2, <2>1, <2>2, WitnessCommitted
  <1>3. ASSUME NEW s \in Slots, NEW r, Become(s, r), r.pc \in {"leave", "fail"},
               \/ UNCHANGED rows
               \/ HasRows(s) /\ run[s].pc # "exec" /\ Commit(s, Written(s))
        PROVE  DocumentsWitnessed'
    BY <1>3, WitnessKept, WitnessCommitted
  <1>4. ASSUME NEW s \in Slots, Load(s) PROVE DocumentsWitnessed'
    <2>1. CASE VersionAt(s) = NoVersion
      BY <1>1, <1>4, <2>1 DEF Load, EndRun
    <2>2. CASE VersionAt(s) # NoVersion
      <3> DEFINE cache == [job |-> job[run[s].task], version |-> version[VersionAt(s)],
                           document |-> document[DocumentAt(s)]]
                 r == [run[s] EXCEPT !.pc = "start", !.cache = cache]
      <3>1. r.cache = cache /\ r.task = run[s].task
        BY <1>0, SlotWithCache
      <3>2. cache.document = document[DocumentOf[VersionOf[run[s].task]]]
        BY DEF DocumentAt, VersionAt
      <3>3. Become(s, r) /\ UNCHANGED rows
        BY <1>4, <2>2 DEF Load
      <3> HIDE DEF r, cache
      <3> QED
        BY <3>1, <3>2, <3>3, WitnessKept
    <2> QED
      BY <2>1, <2>2
  <1>5. ASSUME NEW s \in Slots, NEW cache,
               \/ UNCHANGED rows
               \/ HasRows(s) /\ run[s].pc # "exec" /\ Commit(s, Written(s)),
               Become(s, [run[s] EXCEPT !.pc = "fail", !.cache = cache])
        PROVE  DocumentsWitnessed'
    <2>1. [run[s] EXCEPT !.pc = "fail", !.cache = cache].pc = "fail"
      BY <1>0, SlotWithCache
    <2> QED
      BY <1>3, <1>5, <2>1
  <1>6. ASSUME NEW s \in Slots, HandlerReturns(s) \/ HandlerRaises(s) PROVE DocumentsWitnessed'
    <2>1. CASE HandlerReturns(s)
      <3> DEFINE r == [run[s] EXCEPT
                           !.pc = "leave",
                           !.timings = run[s].timings \union {PIPELINE[run[s].stage].name}]
      <3>1. r.pc = "leave"
        BY <1>0 DEF SlotState
      <3>2. Become(s, r) /\ UNCHANGED rows
        BY <2>1 DEF HandlerReturns
      <3> HIDE DEF r
      <3> QED
        BY <1>3, <3>1, <3>2
    <2>2. CASE HandlerRaises(s)
      <3>1. [run[s] EXCEPT !.pc = "fail"].pc = "fail"
        BY <1>0 DEF SlotState
      <3> QED
        BY <1>3, <2>2, <3>1 DEF HandlerRaises
    <2> QED
      BY <1>6, <2>1, <2>2
  <1>7. ASSUME NEW s \in Slots, DatabaseRaises(s) PROVE DocumentsWitnessed'
    BY <1>1, <1>5, <1>7 DEF DatabaseRaises, EndRun, HasRows
  <1>8. CASE UNCHANGED <<rows, run>>
    BY <1>8 DEF DocumentsWitnessed, Witness, VersionAt, rows
  <1>9. ASSUME NEW s \in Slots, Work(s) PROVE DocumentsWitnessed'
    <2>1. CASE StartAttempt(s) \/ EnterStage(s) \/ LeaveStage(s) \/ RecordSuccess(s)
      BY <1>2, <2>1 DEF StartAttempt, EnterStage, LeaveStage, RecordSuccess, HasRows, Live
    <2>2. CASE RecordFailure(s) \/ PromoteVersion(s)
      BY <1>1, <2>2 DEF RecordFailure, PromoteVersion, EndRun, HasRows, Live
    <2>3. CASE AckReturned(s) \/ AckRaised(s)
      BY <1>1, <2>3 DEF AckReturned, AckRaised, Idle
    <2> QED
      BY <1>4, <1>6, <1>9, <2>1, <2>2, <2>3 DEF Work
  <1>10. CASE Disturbance
    BY <1>1, <1>6, <1>7, <1>8, <1>10
    DEF Disturbance, Timeout, Shutdown, Crash, LeaseLapses, RedisFlush, EndRun, Idle
  <1>11. ASSUME NEW j \in Jobs, Enqueue(j) \/ Queueing(j) PROVE DocumentsWitnessed'
    BY <1>1, <1>8, <1>11 DEF Enqueue, Queueing, GiveUp, LeaseExpires, Deliver
  <1> QED
    BY <1>9, <1>10, <1>11 DEF Next

LEMMA MatchedStep ==
    ASSUME TypeInv, RunsMatched, Next
    PROVE  RunsMatched'
  <1>0. \A s \in Slots : run[s] \in SlotState
    BY DEF TypeInv, TypeOK
  <1>1. ASSUME NEW s \in Slots, NEW r, Become(s, r), Matched(r) PROVE RunsMatched'
    BY <1>1, SlotAfter DEF RunsMatched, Matched
  <1>2. ASSUME NEW s \in Slots, NEW pc \in {"idle", "load", "returned", "raised"}, NEW j,
               Become(s, Outside(pc, j))
        PROVE  RunsMatched'
    <2>1. Matched(Outside(pc, j))
      BY DEF Matched, Outside, Live
    <2> QED
      BY <1>1, <1>2, <2>1
  <1>3. ASSUME NEW s \in Slots, NEW pc, NEW stage, HasRows(s), run[s].pc \notin {"exec", "promote"},
               CommitAndGo(s, pc, stage)
        PROVE  RunsMatched'
    <2> DEFINE r == [run[s] EXCEPT !.cache = Written(s), !.pc = pc, !.stage = stage]
    <2>1. r.cache = Written(s)
      BY <1>0, SlotAtCommit
    <2>2. Become(s, r)
      BY <1>3 DEF CommitAndGo
    <2> HIDE DEF r
    <2>3. Matched(r)
      BY <1>3, <2>1, OneStatusWritten DEF Matched
    <2> QED
      BY <1>1, <2>2, <2>3
  <1>4. ASSUME NEW s \in Slots, Load(s) PROVE RunsMatched'
    <2>1. CASE VersionAt(s) = NoVersion
      BY <1>2, <1>4, <2>1 DEF Load, EndRun
    <2>2. CASE VersionAt(s) # NoVersion
      <3> DEFINE cache == [job |-> job[run[s].task], version |-> version[VersionAt(s)],
                           document |-> document[DocumentAt(s)]]
                 r == [run[s] EXCEPT !.pc = "start", !.cache = cache]
      <3>1. r.pc = "start"
        BY <1>0, SlotWithCache
      <3>2. Become(s, r)
        BY <1>4, <2>2 DEF Load
      <3> HIDE DEF r
      <3> QED
        BY <1>1, <3>1, <3>2 DEF Matched
    <2> QED
      BY <2>1, <2>2
  <1>5. ASSUME NEW s \in Slots, NEW r, Become(s, r), run[s].pc = "exec", r.cache = run[s].cache
        PROVE  RunsMatched'
    <2>1. Matched(r)
      BY <1>5 DEF RunsMatched, Matched, Live
    <2> QED
      BY <1>1, <1>5, <2>1
  <1>6. ASSUME NEW s \in Slots, HandlerReturns(s) \/ HandlerRaises(s) PROVE RunsMatched'
    <2>1. CASE HandlerReturns(s)
      <3> DEFINE r == [run[s] EXCEPT
                           !.pc = "leave",
                           !.timings = run[s].timings \union {PIPELINE[run[s].stage].name}]
      <3>1. r.cache = run[s].cache
        BY <1>0 DEF SlotState
      <3>2. Become(s, r) /\ run[s].pc = "exec"
        BY <2>1 DEF HandlerReturns
      <3> HIDE DEF r
      <3> QED
        BY <1>5, <3>1, <3>2
    <2>2. CASE HandlerRaises(s)
      <3>1. [run[s] EXCEPT !.pc = "fail"].cache = run[s].cache
        BY <1>0 DEF SlotState
      <3> QED
        BY <1>5, <2>2, <3>1 DEF HandlerRaises
    <2> QED
      BY <1>6, <2>1, <2>2
  <1>7. ASSUME NEW s \in Slots, DatabaseRaises(s) PROVE RunsMatched'
    <2>1. CASE run[s].pc \in TryBlock
      <3> DEFINE r == [run[s] EXCEPT !.pc = "fail", !.cache = Expired]
      <3>1. r.cache = Expired
        BY <1>0, SlotWithCache
      <3>2. Become(s, r)
        BY <1>7, <2>1 DEF DatabaseRaises, RolledBack
      <3> HIDE DEF r
      <3>3. Matched(r)
        BY <3>1 DEF Matched, Expired
      <3> QED
        BY <1>1, <3>2, <3>3
    <2>2. CASE run[s].pc \notin TryBlock
      BY <1>2, <1>7, <2>2 DEF DatabaseRaises, EndRun
    <2> QED
      BY <2>1, <2>2
  <1>8. CASE UNCHANGED run
    BY <1>8 DEF RunsMatched, Matched
  <1>9. ASSUME NEW s \in Slots, Work(s) PROVE RunsMatched'
    <2>1. CASE StartAttempt(s) \/ EnterStage(s) \/ LeaveStage(s) \/ RecordSuccess(s)
      BY <1>3, <2>1 DEF StartAttempt, EnterStage, LeaveStage, RecordSuccess, HasRows, Live
    <2> QED
      BY <1>2, <1>4, <1>6, <1>9, <2>1
      DEF Work, RecordFailure, PromoteVersion, AckReturned, AckRaised, EndRun, Idle
  <1>10. CASE Disturbance
    BY <1>2, <1>6, <1>7, <1>8, <1>10
    DEF Disturbance, Timeout, Shutdown, Crash, LeaseLapses, RedisFlush, EndRun, Idle
  <1>11. ASSUME NEW j \in Jobs, Enqueue(j) \/ Queueing(j) PROVE RunsMatched'
    BY <1>2, <1>8, <1>11 DEF Enqueue, Queueing, GiveUp, LeaseExpires, Deliver
  <1> QED
    BY <1>9, <1>10, <1>11 DEF Next

\* Any number of versions of a document may be processed side by side, by sessions
\* that never see each other's writes and with any faults but a stall: the status
\* of the document row is at every step the status of one of its versions.
THEOREM DocumentHonest == Spec => []DocumentShowsSomeVersion
  <1> DEFINE Sole == \A j \in Jobs : SoleJob(j)
             Inv == Sole => DocumentInv
  <1>1. Init => DocumentInv
    <2> SUFFICES ASSUME Init PROVE DocumentInv
      OBVIOUS
    <2>1. \A s \in Slots : run[s].pc = "idle"
      BY DEF Init, Idle, Outside
    <2>2. RunsMatched
      BY <2>1 DEF RunsMatched, Matched, Live
    <2>3. \A d \in Documents, u \in Versions :
              document[d].status = "UPLOADED" /\ version[u].status = "UPLOADED"
      BY DEF Init
    <2>4. DocumentsWitnessed
      BY <2>1, <2>3 DEF DocumentsWitnessed, Witness
    <2> QED
      BY <2>2, <2>4, SessionInit DEF DocumentInv
  <1>2. Inv /\ [Next]_vars => Inv'
    <2> SUFFICES ASSUME Sole, DocumentInv, [Next]_vars PROVE DocumentInv'
      OBVIOUS
    <2>1. SessionInv'
      BY SessionStep DEF DocumentInv
    <2>2. CASE UNCHANGED vars
      BY <2>1, <2>2 DEF DocumentInv, RunsMatched, Matched, DocumentsWitnessed, Witness, VersionAt,
                        NoStall, vars
    <2>3. CASE Next
      <3>1. RunsMatched'
        BY <2>3, MatchedStep DEF DocumentInv, SessionInv
      <3>2. ASSUME NoStall' PROVE DocumentsWitnessed'
        <4>1. NoStall
          BY <2>3, <3>2, StallStep DEF DocumentInv, SessionInv
        <4>2. TypeInv /\ Owned /\ SessionsCurrent /\ RunsMatched /\ DocumentsWitnessed
          BY <4>1 DEF DocumentInv, SessionInv, OwnershipInv
        <4> QED
          BY <2>3, <4>2, WitnessStep
      <3> QED
        BY <2>1, <3>1, <3>2 DEF DocumentInv
    <2> QED
      BY <2>2, <2>3
  <1>3. Inv => DocumentShowsSomeVersion
    BY DEF DocumentInv, DocumentsWitnessed, Witness, DocumentShowsSomeVersion
  <1>4. Init => Inv
    BY <1>1
  <1> HIDE DEF Inv
  <1> QED
    BY <1>2, <1>3, <1>4, PTL DEF Spec



-----------------------------------------------------------------------------
(* The outcome that remains *)

\* Deliveries of any job that came to nothing, by a handler or with their worker.
Spoiled == faults["handler"] + faults["crash"] + faults["shutdown"]

\* The environment these rows are safe in: handlers fail, workers crash and are
\* shut down, but less often than arq delivers a job; nothing else goes wrong.
OnlySpoiled ==
    /\ \A k \in {"database", "timeout", "stall", "flush"} : MaxFaults[k] = 0
    /\ MaxFaults["handler"] + MaxFaults["crash"] + MaxFaults["shutdown"] < MaxTries

FaultsWithin == \A k \in FaultKinds : faults[k] <= MaxFaults[k]

\* A slot has its job from the queue, and arq hears of an outcome that the row shows.
EndSound ==
    \A s \in Slots :
        /\ run[s].pc = "idle" => run[s].task = NoJob
        /\ run[s].task # NoJob => run[s].task \in queue
        /\ run[s].pc = "returned" /\ VersionAt(s) # NoVersion =>
               job[run[s].task].status = "SUCCEEDED"
        /\ run[s].pc = "raised" => job[run[s].task].status = "FAILED"

\* A delivery that is not spoiled yet.
InHand(j) == \E s \in Slots : run[s].task = j /\ run[s].pc \notin {"fail", "raised"}

\* Every delivery that arq counts against a job is in hand, or was spoiled.
DeliveriesAccounted ==
    \A j \in Jobs : tries[j] <= Spoiled \/ (tries[j] = Spoiled + 1 /\ InHand(j))

EndInv == FaultsWithin /\ EndSound /\ DeliveriesAccounted /\ RowReflectsOutcome


LEMMA EndTyped ==
    ASSUME TypeInv
    PROVE  /\ Spoiled \in Nat /\ MaxTries \in Nat
           /\ \A j \in Jobs : tries[j] \in Nat
           /\ \A k \in FaultKinds : faults[k] \in Nat /\ MaxFaults[k] \in Nat
  <1>1. \A k \in FaultKinds : faults[k] \in Nat /\ MaxFaults[k] \in Nat
    BY ConstantsAssumption DEF TypeInv, TypeOK
  <1> QED
    BY <1>1, ConstantsAssumption DEF TypeInv, TypeOK, Spoiled, FaultKinds

\* The faults that do not happen, and what the others count.
LEMMA EndFaults ==
    ASSUME TypeInv, FaultsWithin, OnlySpoiled, NEW k \in FaultKinds, Fault(k)
    PROVE  /\ k \in {"handler", "crash", "shutdown"}
           /\ FaultsWithin' /\ Spoiled' = Spoiled + 1
  <1>1. /\ \A i \in FaultKinds : faults[i] \in Nat /\ MaxFaults[i] \in Nat
        /\ faults \in [FaultKinds -> Nat]
    BY EndTyped DEF TypeInv, TypeOK
  <1>2. k \notin {"database", "timeout", "stall", "flush"}
    BY <1>1 DEF Fault, OnlySpoiled
  <1>3. k \in {"handler", "crash", "shutdown"}
    BY <1>2 DEF FaultKinds
  <1>4. \A i \in FaultKinds : faults'[i] = IF i = k THEN faults[k] + 1 ELSE faults[i]
    BY <1>1 DEF Fault
  <1>5. FaultsWithin'
    BY <1>1, <1>4 DEF Fault, FaultsWithin
  <1>6. Spoiled' = Spoiled + 1
    <2>1. CASE k = "handler"
      BY <1>1, <1>4, <2>1 DEF Spoiled, FaultKinds
    <2>2. CASE k = "crash"
      BY <1>1, <1>4, <2>2 DEF Spoiled, FaultKinds
    <2>3. CASE k = "shutdown"
      BY <1>1, <1>4, <2>3 DEF Spoiled, FaultKinds
    <2> QED
      BY <1>3, <2>1, <2>2, <2>3
  <1> QED
    BY <1>3, <1>5, <1>6

LEMMA FewSpoiled ==
    ASSUME TypeInv, FaultsWithin, OnlySpoiled
    PROVE  Spoiled < MaxTries
  <1>1. /\ faults["handler"] <= MaxFaults["handler"] /\ faults["crash"] <= MaxFaults["crash"]
        /\ faults["shutdown"] <= MaxFaults["shutdown"]
    BY DEF FaultsWithin, FaultKinds
  <1>2. /\ faults["handler"] \in Nat /\ faults["crash"] \in Nat /\ faults["shutdown"] \in Nat
        /\ MaxFaults["handler"] \in Nat /\ MaxFaults["crash"] \in Nat
        /\ MaxFaults["shutdown"] \in Nat /\ MaxTries \in Nat
    BY EndTyped DEF FaultKinds
  <1> QED
    BY <1>1, <1>2 DEF OnlySpoiled, Spoiled

\* The run of slot s goes on as r, with or without a commit.
LEMMA EndMoved ==
    ASSUME TypeInv, EndInv, NEW s \in Slots, NEW r, Become(s, r),
           r.task = run[s].task, run[s].task # NoJob, r.pc # "idle", UNCHANGED arq,
           \A j \in Jobs \ {run[s].task} : job'[j] = job[j],
           \A t \in Slots \ {s} : run[t].task # run[s].task,
           r.pc = "returned" /\ VersionOf[r.task] # NoVersion =>
               job'[r.task].status = "SUCCEEDED",
           r.pc = "raised" => job'[r.task].status = "FAILED",
           FaultsWithin',
           \/ Spoiled' = Spoiled + 1
           \/ Spoiled' = Spoiled /\ (r.pc \in {"fail", "raised"} => run[s].pc \in {"fail", "raised"})
    PROVE  EndInv'
  <1>1. run'[s] = r /\ \A t \in Slots \ {s} : run'[t] = run[t]
    BY SlotAfter
  <1>2. \A t \in Slots : run'[t].task = run[t].task
    BY <1>1
  <1>3. /\ Spoiled \in Nat /\ \A j \in Jobs : tries[j] \in Nat
        /\ \A t \in Slots : run[t].task # NoJob => run[t].task \in Jobs
    BY EndTyped DEF TypeInv, TypeOK, SlotState
  <1>4. EndSound'
    <2>1. ASSUME NEW t \in Slots, t # s
          PROVE  /\ run'[t].pc = "idle" => run'[t].task = NoJob
                 /\ run'[t].task # NoJob => run'[t].task \in queue'
                 /\ run'[t].pc = "returned" /\ VersionOf[run'[t].task] # NoVersion =>
                        job'[run'[t].task].status = "SUCCEEDED"
                 /\ run'[t].pc = "raised" => job'[run'[t].task].status = "FAILED"
      <3>1. run'[t] = run[t] /\ run[t].task # run[s].task
        BY <1>1, <2>1
      <3>2. run[t].pc \in {"returned", "raised"} => run[t].task \in Jobs
        BY DEF TypeInv, SlotOK
      <3> QED
        BY <3>1, <3>2 DEF EndInv, EndSound, VersionAt, arq
    <2> QED
      BY <1>1, <2>1 DEF EndInv, EndSound, VersionAt, arq
  <1>5. DeliveriesAccounted'
    <2> SUFFICES ASSUME NEW j \in Jobs
                 PROVE  tries'[j] <= Spoiled' \/ (tries'[j] = Spoiled' + 1 /\ InHand(j)')
      BY DEF DeliveriesAccounted
    <2>1. tries'[j] = tries[j] /\ tries[j] \in Nat
      BY <1>3 DEF arq
    <2>2. tries[j] <= Spoiled \/ (tries[j] = Spoiled + 1 /\ InHand(j))
      BY DEF EndInv, DeliveriesAccounted
    <2>3. CASE Spoiled' = Spoiled + 1
      BY <1>3, <2>1, <2>2, <2>3
    <2>4. CASE Spoiled' = Spoiled
               /\ (r.pc \in {"fail", "raised"} => run[s].pc \in {"fail", "raised"})
      <3>1. InHand(j) => InHand(j)'
        BY <1>1, <2>4 DEF InHand
      <3> QED
        BY <2>1, <2>2, <2>4, <3>1
    <2> QED
      BY <2>3, <2>4
  <1>6. RowReflectsOutcome'
    BY <1>2, <1>3 DEF EndInv, RowReflectsOutcome, TypeInv, TypeOK, arq
  <1> QED
    BY <1>4, <1>5, <1>6 DEF EndInv

\* Slot s is idle again: arq has forgotten its job, or will deliver it once more.
LEMMA EndLeft ==
    ASSUME TypeInv, EndInv, NEW s \in Slots, Become(s, Idle), run[s].task # NoJob, UNCHANGED rows,
           \A t \in Slots \ {s} : run[t].task # run[s].task,
           FaultsWithin',
           \/ /\ Finish(run[s].task) /\ Spoiled' = Spoiled
              /\ run[s].pc \in {"returned", "raised"}
           \/ /\ UNCHANGED <<submitted, queue, tries>>
              /\ \/ Spoiled' = Spoiled + 1
                 \/ Spoiled' = Spoiled /\ run[s].pc = "raised"
    PROVE  EndInv'
  <1> DEFINE e == run[s].task
  <1>1. /\ run'[s].task = NoJob /\ run'[s].pc = "idle"
        /\ \A t \in Slots \ {s} : run'[t] = run[t]
    BY SlotAfter DEF Idle, Outside
  <1>2. /\ Spoiled \in Nat /\ \A j \in Jobs : tries[j] \in Nat /\ tries \in [Jobs -> Nat]
        /\ e \in Jobs /\ submitted \subseteq Jobs
    BY EndTyped DEF TypeInv, TypeOK, SlotState
  <1>3. EndSound'
    <2>1. ASSUME NEW t \in Slots, t # s
          PROVE  /\ run'[t].pc = "idle" => run'[t].task = NoJob
                 /\ run'[t].task # NoJob => run'[t].task \in queue'
                 /\ run'[t].pc = "returned" /\ VersionOf[run'[t].task] # NoVersion =>
                        job'[run'[t].task].status = "SUCCEEDED"
                 /\ run'[t].pc = "raised" => job'[run'[t].task].status = "FAILED"
      <3>1. run'[t] = run[t] /\ run[t].task # e
        BY <1>1, <2>1
      <3> QED
        BY <3>1 DEF EndInv, EndSound, VersionAt, Finish, rows
    <2> QED
      BY <1>1, <2>1 DEF EndSound, VersionAt
  <1>4. \A j \in Jobs \ {e} : InHand(j) => InHand(j)'
    BY <1>1 DEF InHand
  <1>5. run[s].pc = "raised" => ~InHand(e)
    BY DEF InHand
  <1>6. DeliveriesAccounted'
    <2> SUFFICES ASSUME NEW j \in Jobs
                 PROVE  tries'[j] <= Spoiled' \/ (tries'[j] = Spoiled' + 1 /\ InHand(j)')
      BY DEF DeliveriesAccounted
    <2>1. tries[j] \in Nat /\ (tries[j] <= Spoiled \/ (tries[j] = Spoiled + 1 /\ InHand(j)))
      BY <1>2 DEF EndInv, DeliveriesAccounted
    <2>2. CASE j = e /\ Finish(e) /\ Spoiled' = Spoiled
      <3>1. tries'[j] = 0
        BY <1>2, <2>2 DEF Finish
      <3> QED
        BY <1>2, <2>2, <3>1
    <2>3. CASE j # e /\ Spoiled' = Spoiled
      <3>1. tries'[j] = tries[j]
        BY <1>2, <2>3 DEF Finish
      <3> QED
        BY <1>4, <2>1, <2>3, <3>1
    <2>4. CASE UNCHANGED tries /\ Spoiled' = Spoiled + 1
      BY <1>2, <2>1, <2>4
    <2>5. CASE UNCHANGED tries /\ Spoiled' = Spoiled /\ j = e /\ run[s].pc = "raised"
      BY <1>5, <2>1, <2>5
    <2> QED
      BY <2>2, <2>3, <2>4, <2>5
  <1>7. RowReflectsOutcome'
    <2> SUFFICES ASSUME NEW j \in submitted', VersionOf[j] # NoVersion, j \notin queue',
                        \A t \in Slots : run'[t].task # j
                 PROVE  job'[j].status \in Settled
      BY DEF RowReflectsOutcome
    <2>0. j \in submitted /\ job' = job
      BY DEF Finish, rows
    <2>1. CASE j = e
      <3>1. e \in queue
        BY DEF EndInv, EndSound
      <3>2. run[s].pc \in {"returned", "raised"}
        BY <2>1, <3>1
      <3> QED
        BY <2>0, <2>1, <3>2 DEF EndInv, EndSound, VersionAt, Settled
    <2>2. CASE j # e
      <3>1. j \notin queue /\ \A t \in Slots : run[t].task # j
        BY <1>1, <2>2 DEF Finish
      <3> QED
        BY <2>0, <3>1 DEF EndInv, RowReflectsOutcome
    <2> QED
      BY <2>1, <2>2
  <1> QED
    BY <1>3, <1>6, <1>7 DEF EndInv


\* An idle slot is given a job that no other slot has.
LEMMA EndDelivered ==
    ASSUME TypeInv, Owned, EndInv, NEW s \in Slots, NEW j \in Jobs, Deliver(s, j)
    PROVE  EndInv'
  <1>1. /\ run'[s].task = j /\ run'[s].pc = "load"
        /\ \A t \in Slots \ {s} : run'[t] = run[t]
    BY SlotAfter DEF Deliver, Outside
  <1>2. /\ Spoiled \in Nat /\ \A k \in Jobs : tries[k] \in Nat /\ tries \in [Jobs -> Nat]
        /\ run[s].pc = "idle" /\ j \in queue /\ j \notin leased
    BY EndTyped DEF TypeInv, TypeOK, Deliver
  <1>3. run[s].task = NoJob
    BY <1>2 DEF EndInv, EndSound
  <1>4. \A t \in Slots : run[t].task # j
    BY <1>2, ConstantsAssumption DEF Owned
  <1>5. EndSound'
    BY <1>1, <1>2 DEF EndInv, EndSound, VersionAt, Deliver, rows
  <1>6. DeliveriesAccounted'
    <2> SUFFICES ASSUME NEW k \in Jobs
                 PROVE  tries'[k] <= Spoiled' \/ (tries'[k] = Spoiled' + 1 /\ InHand(k)')
      BY DEF DeliveriesAccounted
    <2>1. tries[k] \in Nat /\ (tries[k] <= Spoiled \/ (tries[k] = Spoiled + 1 /\ InHand(k)))
      BY <1>2 DEF EndInv, DeliveriesAccounted
    <2>2. Spoiled' = Spoiled
      BY DEF Deliver, Spoiled
    <2>3. CASE k = j
      <3>1. tries[k] <= Spoiled
        BY <1>4, <2>1, <2>3 DEF InHand
      <3>2. tries'[k] = tries[k] + 1
        BY <1>2, <2>3 DEF Deliver
      <3>3. InHand(k)'
        BY <1>1, <2>3 DEF InHand
      <3> QED
        BY <1>2, <2>1, <2>2, <3>1, <3>2, <3>3
    <2>4. CASE k # j
      <3>1. tries'[k] = tries[k]
        BY <1>2, <2>4 DEF Deliver
      <3>2. InHand(k) => InHand(k)'
        BY <1>1, <1>3, <2>4, ConstantsAssumption DEF InHand
      <3> QED
        BY <2>1, <2>2, <3>1, <3>2
    <2> QED
      BY <2>3, <2>4
  <1>7. RowReflectsOutcome'
    <2> SUFFICES ASSUME NEW k \in submitted', VersionOf[k] # NoVersion, k \notin queue',
                        \A t \in Slots : run'[t].task # k
                 PROVE  job'[k].status \in Settled
      BY DEF RowReflectsOutcome
    <2>1. k \in submitted /\ k \notin queue /\ k # NoJob
      BY ConstantsAssumption DEF Deliver, TypeInv, TypeOK
    <2>2. \A t \in Slots : run[t].task # k
      BY <1>1, <1>3, <2>1
    <2> QED
      BY <2>1, <2>2 DEF EndInv, RowReflectsOutcome, Deliver, rows
  <1>8. FaultsWithin'
    BY DEF Deliver, FaultsWithin, EndInv
  <1> QED
    BY <1>5, <1>6, <1>7, <1>8 DEF EndInv

\* The queue does not give up: a job it could give up is in no slot's hands.
LEMMA NothingGivenUp ==
    ASSUME TypeInv, Owned, EndInv, OnlySpoiled, NEW j \in Jobs
    PROVE  ~GiveUp(j)
  <1> SUFFICES ASSUME GiveUp(j) PROVE FALSE
    OBVIOUS
  <1>1. /\ Spoiled \in Nat /\ tries[j] \in Nat /\ MaxTries \in Nat /\ Spoiled < MaxTries
        /\ tries[j] >= MaxTries
    BY EndTyped, FewSpoiled DEF EndInv, GiveUp
  <1>2. ~InHand(j)
    BY ConstantsAssumption DEF GiveUp, Owned, InHand
  <1>3. tries[j] <= Spoiled
    BY <1>2 DEF EndInv, DeliveriesAccounted
  <1> QED
    BY <1>1, <1>3

LEMMA EndStep ==
    ASSUME TypeInv, Owned, SessionsCurrent, RunsReported, EndInv, OnlySpoiled, Next
    PROVE  EndInv'
  <1>0. /\ FaultsWithin
        /\ \A s \in Slots : run[s] \in SlotState
        /\ \A s \in Slots : run[s].pc # "idle" => run[s].task # NoJob /\ run[s].task \in Jobs
    BY ConstantsAssumption DEF EndInv, TypeInv, TypeOK, SlotOK
  <1>1. \A s \in Slots : run[s].task # NoJob => \A t \in Slots \ {s} : run[t].task # run[s].task
    BY DEF Owned
  <1>2. \A k \in FaultKinds : Fault(k) =>
            /\ k \in {"handler", "crash", "shutdown"}
            /\ FaultsWithin' /\ Spoiled' = Spoiled + 1
    BY <1>0, EndFaults
  <1>3. UNCHANGED faults => FaultsWithin' /\ Spoiled' = Spoiled
    BY <1>0 DEF FaultsWithin, Spoiled
  <1>4. ASSUME NEW s \in Slots, Commit(s, Written(s))
        PROVE  \A j \in Jobs \ {run[s].task} : job'[j] = job[j]
    BY <1>4 DEF Commit, TypeInv, TypeOK
  \* A run that goes on inside process_document.
  <1>5. ASSUME NEW s \in Slots, NEW r, Become(s, r), r.task = run[s].task,
               run[s].pc # "idle", r.pc \in Live \ {"fail"}, UNCHANGED <<arq, faults>>,
               UNCHANGED rows \/ Commit(s, Written(s))
        PROVE  EndInv'
    <2>1. \A j \in Jobs \ {run[s].task} : job'[j] = job[j]
      BY <1>4, <1>5 DEF rows
    <2>2. r.pc \notin {"idle", "returned", "raised", "fail"}
      BY <1>5 DEF Live
    <2>3. run[s].task # NoJob /\ \A t \in Slots \ {s} : run[t].task # run[s].task
      BY <1>0, <1>1, <1>5
    <2>4. FaultsWithin' /\ Spoiled' = Spoiled /\ UNCHANGED arq
      BY <1>3, <1>5
    <2>5. Become(s, r) /\ r.task = run[s].task
      BY <1>5
    <2> QED
      BY <2>1, <2>2, <2>3, <2>4, <2>5, EndMoved
  <1>6. ASSUME NEW s \in Slots, Load(s) PROVE EndInv'
    <2>1. CASE VersionAt(s) = NoVersion
      <3> DEFINE r == EndRun(s, "returned")
      <3>1. Become(s, r) /\ UNCHANGED <<rows, arq, faults>> /\ run[s].pc = "load"
        BY <1>6, <2>1 DEF Load
      <3>2. r.task = run[s].task /\ r.pc = "returned" /\ VersionOf[r.task] = NoVersion
        BY <2>1 DEF EndRun, Outside, VersionAt
      <3> HIDE DEF r
      <3> QED
        BY <1>0, <1>1, <1>3, <3>1, <3>2, EndMoved DEF rows
    <2>2. CASE VersionAt(s) # NoVersion
      <3> DEFINE r == [run[s] EXCEPT !.pc = "start",
                                     !.cache = [job |-> job[run[s].task],
                                                version |-> version[VersionAt(s)],
                                                document |-> document[DocumentAt(s)]]]
      <3>1. Become(s, r) /\ UNCHANGED <<rows, arq, faults>> /\ run[s].pc = "load"
        BY <1>6, <2>2 DEF Load
      <3>2. r.pc = "start" /\ r.task = run[s].task
        BY <1>0, SlotWithCache
      <3> HIDE DEF r
      <3> QED
        BY <1>5, <3>1, <3>2 DEF Live
    <2> QED
      BY <2>1, <2>2
  <1>7. ASSUME NEW s \in Slots, NEW pc \in {"enter", "exec", "complete", "promote"}, NEW stage,
               run[s].pc # "idle", CommitAndGo(s, pc, stage)
        PROVE  EndInv'
    <2> DEFINE r == [run[s] EXCEPT !.cache = Written(s), !.pc = pc, !.stage = stage]
    <2>1. r.pc = pc /\ r.task = run[s].task
      BY <1>0, SlotAtCommit
    <2>2. Become(s, r) /\ Commit(s, Written(s)) /\ UNCHANGED <<arq, faults>>
      BY <1>7 DEF CommitAndGo
    <2> HIDE DEF r
    <2> QED
      BY <1>5, <1>7, <2>1, <2>2 DEF Live
  <1>8. ASSUME NEW s \in Slots, HandlerReturns(s) PROVE EndInv'
    <2> DEFINE timings == run[s].timings \union {PIPELINE[run[s].stage].name}
               r == [run[s] EXCEPT !.pc = "leave", !.timings = timings]
    <2>1. r.pc = "leave" /\ r.task = run[s].task
      BY <1>0 DEF SlotState
    <2>2. Become(s, r) /\ run[s].pc = "exec" /\ UNCHANGED <<rows, arq, faults>>
      BY <1>8 DEF HandlerReturns
    <2> HIDE DEF r
    <2> QED
      BY <1>5, <2>1, <2>2 DEF Live
  <1>9. ASSUME NEW s \in Slots, RecordFailure(s) PROVE EndInv'
    <2> DEFINE r == EndRun(s, "raised")
    <2>1. /\ Become(s, r) /\ Commit(s, Written(s)) /\ UNCHANGED <<arq, faults>>
          /\ run[s].pc = "fail"
      BY <1>9 DEF RecordFailure
    <2>2. r.task = run[s].task /\ r.pc = "raised"
      BY DEF EndRun, Outside
    <2>3. job'[run[s].task].status = "FAILED"
      BY <2>1, CommitShows DEF HasRows, Live
    <2> HIDE DEF r
    <2> QED
      BY <1>0, <1>1, <1>3, <1>4, <2>1, <2>2, <2>3, EndMoved
  <1>10. ASSUME NEW s \in Slots, PromoteVersion(s) PROVE EndInv'
    <2> DEFINE r == EndRun(s, "returned")
    <2>1. /\ Become(s, r) /\ Commit(s, Written(s)) /\ UNCHANGED <<arq, faults>>
          /\ run[s].pc = "promote"
      BY <1>10 DEF PromoteVersion
    <2>2. r.task = run[s].task /\ r.pc = "returned"
      BY DEF EndRun, Outside
    <2>3. job[run[s].task].status = "SUCCEEDED"
      BY <2>1 DEF RunsReported, Reported
    <2>4. job'[run[s].task].status = "SUCCEEDED"
      BY <2>1, <2>3, CommitShows DEF HasRows, Live
    <2> HIDE DEF r
    <2> QED
      BY <1>0, <1>1, <1>3, <1>4, <2>1, <2>2, <2>4, EndMoved
  <1>11. ASSUME NEW s \in Slots, AckReturned(s) \/ AckRaised(s) PROVE EndInv'
    <2>1. /\ Become(s, Idle) /\ UNCHANGED <<rows, faults>>
          /\ run[s].pc \in {"returned", "raised"}
          /\ \/ Finish(run[s].task)
             \/ UNCHANGED <<submitted, queue, tries>> /\ run[s].pc = "raised"
      BY <1>11 DEF AckReturned, AckRaised, Requeue
    <2> QED
      BY <1>0, <1>1, <1>3, <2>1, EndLeft
  <1>12. ASSUME NEW s \in Slots, HandlerRaises(s) PROVE EndInv'
    <2> DEFINE r == [run[s] EXCEPT !.pc = "fail"]
    <2>1. r.pc = "fail" /\ r.task = run[s].task
      BY <1>0 DEF SlotState
    <2>2. Become(s, r) /\ run[s].pc = "exec" /\ UNCHANGED <<rows, arq>> /\ Fault("handler")
      BY <1>12 DEF HandlerRaises
    <2>3. FaultsWithin' /\ Spoiled' = Spoiled + 1
      BY <1>2, <2>2 DEF FaultKinds
    <2> HIDE DEF r
    <2> QED
      BY <1>0, <1>1, <2>1, <2>2, <2>3, EndMoved DEF rows
  <1>13. ASSUME NEW s \in Slots, Shutdown(s) \/ Crash(s) PROVE EndInv'
    <2>1. /\ Become(s, Idle) /\ UNCHANGED <<rows, submitted, queue, tries>>
          /\ run[s].pc # "idle" /\ (Fault("shutdown") \/ Fault("crash"))
      BY <1>13 DEF Shutdown, Crash, Requeue, Cancellable, Live, arq
    <2>2. FaultsWithin' /\ Spoiled' = Spoiled + 1
      BY <1>2, <2>1 DEF FaultKinds
    <2> QED
      BY <1>0, <1>1, <2>1, <2>2, EndLeft
  \* What the environment does not do.
  <1>14. /\ \A s \in Slots : ~DatabaseRaises(s) /\ ~Timeout(s)
         /\ \A j \in Jobs : ~LeaseLapses(j)
         /\ ~RedisFlush
    BY <1>2 DEF DatabaseRaises, Timeout, LeaseLapses, RedisFlush, FaultKinds
  <1>15. ASSUME NEW j \in Jobs, Enqueue(j) PROVE EndInv'
    BY <1>3, <1>15 DEF Enqueue, EndInv, EndSound, DeliveriesAccounted, InHand, RowReflectsOutcome,
                       VersionAt, rows
  <1>16. ASSUME NEW j \in Jobs, LeaseExpires(j) PROVE EndInv'
    BY <1>3, <1>16 DEF LeaseExpires, EndInv, EndSound, DeliveriesAccounted, InHand,
                       RowReflectsOutcome, VersionAt, rows
  <1>17. ASSUME NEW s \in Slots, Work(s) PROVE EndInv'
    BY <1>6, <1>7, <1>8, <1>9, <1>10, <1>11, <1>17
    DEF Work, StartAttempt, EnterStage, LeaveStage, RecordSuccess
  <1>18. CASE Disturbance
    BY <1>12, <1>13, <1>14, <1>18 DEF Disturbance
  <1>19. ASSUME NEW j \in Jobs, Enqueue(j) \/ Queueing(j) PROVE EndInv'
    BY <1>15, <1>16, <1>19, EndDelivered, NothingGivenUp DEF Queueing
  <1> QED
    BY <1>17, <1>18, <1>19 DEF Next

\* "The DB row always reflects the final outcome": it does, for any jobs, versions,
\* slots and max_tries, where handlers fail, workers crash and are shut down less
\* often than max_tries and nothing else goes wrong. (A timeout alone refutes it.)
THEOREM OutcomeReflected ==
    ASSUME OnlySpoiled
    PROVE  Spec => []RowReflectsOutcome
  <1> DEFINE Inv == OutcomeInv /\ EndInv
  <1>1. Init => Inv
    <2> SUFFICES ASSUME Init PROVE EndInv
      BY OutcomeInit
    <2>1. FaultsWithin
      BY ConstantsAssumption DEF Init, FaultsWithin
    <2>2. ASSUME NEW j \in Jobs PROVE tries[j] <= Spoiled
      <3>1. tries[j] = 0
        BY DEF Init
      <3>2. Spoiled = 0
        BY DEF Init, Spoiled, FaultKinds
      <3> QED
        BY <3>1, <3>2
    <2>3. DeliveriesAccounted
      BY <2>2, Zenon DEF DeliveriesAccounted
    <2> QED
      BY <2>1, <2>3 DEF Init, EndInv, EndSound, RowReflectsOutcome, Idle, Outside
  <1>2. Inv /\ [Next]_vars => Inv'
    <2> SUFFICES ASSUME Inv, [Next]_vars PROVE EndInv'
      BY OutcomeStep
    <2>1. CASE UNCHANGED vars
      BY <2>1 DEF EndInv, FaultsWithin, EndSound, DeliveriesAccounted, Spoiled, InHand,
                  RowReflectsOutcome, VersionAt, vars
    <2>2. CASE Next
      <3>1. NoStall
        <4>1. faults["stall"] <= 0 /\ faults["stall"] \in Nat
          BY EndTyped DEF EndInv, FaultsWithin, OnlySpoiled, FaultKinds, OutcomeInv, SessionInv
        <4> QED
          BY <4>1 DEF NoStall
      <3> QED
        BY <2>2, <3>1, EndStep DEF OutcomeInv, SessionInv, OwnershipInv
    <2> QED
      BY <2>1, <2>2
  <1>3. Inv => RowReflectsOutcome
    BY DEF EndInv
  <1> HIDE DEF Inv
  <1> QED
    BY <1>1, <1>2, <1>3, PTL DEF Spec
=============================================================================
