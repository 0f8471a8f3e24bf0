---------------------------- MODULE JobLifecycle ----------------------------
(***************************************************************************)
(* What a ProcessingJob row and the status of its document version promise *)
(* to a reader, whatever happens to queue, workers and database sessions:  *)
(* the row is moved by whole attempts, at most MaxTries of them; one       *)
(* attempt shows the stages one after the other and in order; and only an  *)
(* attempt that has shown the last stage may report success.               *)
(*                                                                         *)
(* An attempt may also stop without a word: that is a stuttering step here *)
(* and the row keeps its RUNNING status.                                   *)
(***************************************************************************)
EXTENDS Naturals

CONSTANTS Jobs, MaxTries

VARIABLE ledger  \* job -> status of the job, status shown for its version, attempts

Successor ==
    [PROCESSING |-> "OCR_PROCESSING", OCR_PROCESSING |-> "CHUNKING",
     CHUNKING |-> "EMBEDDING", EMBEDDING |-> "INDEXING"]

Stages == DOMAIN Successor \union {"INDEXING"}

Init == ledger = [j \in Jobs |-> [status |-> "PENDING", shown |-> "UPLOADED", attempts |-> 0]]

Record(j, status, shown, attempts) ==
    ledger' = [ledger EXCEPT ![j] = [status |-> status, shown |-> shown, attempts |-> attempts]]

Begin(j) ==
    /\ ledger[j].attempts < MaxTries
    /\ Record(j, "RUNNING", "PROCESSING", ledger[j].attempts + 1)

Advance(j) ==
    /\ ledger[j].status = "RUNNING"
    /\ ledger[j].shown \in DOMAIN Successor
    /\ Record(j, "RUNNING", Successor[ledger[j].shown], ledger[j].attempts)

Succeed(j) ==
    /\ ledger[j].status = "RUNNING"
    /\ ledger[j].shown = "INDEXING"
    /\ Record(j, "SUCCEEDED", "COMPLETED", ledger[j].attempts)

Fail(j) ==
    /\ ledger[j].status = "RUNNING"
    /\ ledger[j].shown \in Stages
    /\ Record(j, "FAILED", "FAILED", ledger[j].attempts)

Next == \E j \in Jobs : Begin(j) \/ Advance(j) \/ Succeed(j) \/ Fail(j)

Spec == Init /\ [][Next]_ledger
=============================================================================
