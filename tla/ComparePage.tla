----------------------------- MODULE ComparePage -----------------------------
(*
Comparing two versions of a contract: features/compare/compare-view.tsx over
analysisService.compare. The contracts to choose from are the demo documents with
more than one version, also when the API answers. The rows the page shows carry
no mark of the pair they were made for; the model keeps it beside them.

Left out: titles, notes and risk badges. The "only differences" box is no state:
it changes nothing else, and the rows are defined for both its settings.
*)
EXTENDS Navigation, WordDiff

CONSTANTS
    Words,       \* external: the tokens of the texts of the tenant's contracts
    TextOf,      \* external: for each version, its text of each topic
    MaxCompares  \* bound: comparisons in flight at once

versioned == {id \in demoIds : Len(demoVersions[id]) > 1}
versionsToCompare == UNION {ToSet(demoVersions[id]) : id \in versioned}

\* The versions of a contract have the same topics.
ASSUME TextAssumption ==
    /\ TextOf \in [versionsToCompare -> Seq(Seq(Words))]
    /\ \A id \in versioned : \A v, w \in ToSet(demoVersions[id]) :
         DOMAIN TextOf[v] = DOMAIN TextOf[w]

Pair(id) == <<demoVersions[id][1], Last(demoVersions[id])>>

CompareView ==
    LET docId == "d-100"
    IN [at |-> "compare", docId |-> docId, left |-> Pair(docId)[1], right |-> Pair(docId)[2],
        hook |-> Mounted(Pair(docId))]

(***************************************************************************)
(* Comparisons                                                             *)
(***************************************************************************)

\* External: the API aligns two versions topic by topic; a topic one of them does
\* not have is "missing".
Aligned(left, right) ==
    [topic \in DOMAIN TextOf[left] |->
       LET l == TextOf[left][topic]
           r == TextOf[right][topic]
       IN Row(IF l = r THEN "same" ELSE IF l = <<>> \/ r = <<>> THEN "missing" ELSE "changed", l, r)]

\* compare: in demo mode the fixtures, whatever the pair.
Comparison(pair) ==
    [pair |-> pair, rows |-> IF useDemoData THEN demoComparison ELSE Aligned(pair[1], pair[2])]

(***************************************************************************)
(* The page                                                                *)
(***************************************************************************)

\* A new pair is a new dependency of the hook.
Selected(docId, left, right) ==
    /\ Cardinality(view.hook.open) < MaxCompares
    /\ Becomes([view EXCEPT !.docId = docId, !.left = left, !.right = right,
                            !.hook = Called(view.hook, <<left, right>>)])

\* (Mutant: the versions of the contract that was selected before stay.)
SelectDocumentOnly(id) ==
    /\ id # view.docId
    /\ Selected(id, view.left, view.right)
SelectDocument(id) ==
    /\ id # view.docId
    /\ Selected(id, Pair(id)[1], Pair(id)[2])

SelectLeft(v) ==
    /\ v # view.left
    /\ Selected(view.docId, v, view.right)

\* (Mutant: the hook does not depend on the right version.)
SelectRightUnwatched(v) ==
    /\ v # view.right
    /\ Becomes([view EXCEPT !.right = v])
SelectRight(v) ==
    /\ v # view.right
    /\ Selected(view.docId, view.left, v)

RetryCompare ==
    /\ view.hook.error # Null
    /\ Selected(view.docId, view.left, view.right)

CompareSettles(request) ==
    \E outcome \in Results(Comparison(request.arg)) :
      Becomes([view EXCEPT !.hook = Settled(view.hook, request, outcome)])

\* What is drawn below the banner: the count of differences, and for each row that
\* is shown its two sides, with the words marked where both have the topic.
Rows(onlyChanges) ==
    IF view.hook.data = Null THEN {}
    ELSE {i \in DOMAIN view.hook.data.rows : ~onlyChanges \/ view.hook.data.rows[i].diff # "same"}
changed == Cardinality(Rows(TRUE))

Sides(row) ==
    IF row.diff = "changed"
    THEN wordDiff(row.left, row.right)
    ELSE LET Whole(text) == IF text = <<>> THEN <<>> ELSE <<[text |-> text, kind |-> "same"]>>
         IN [left |-> Whole(row.left), right |-> Whole(row.right)]

CompareBody(onlyChanges) ==
    IF view.hook.loading THEN <<>>
    ELSE [i \in Rows(onlyChanges) |-> Sides(view.hook.data.rows[i])]

CompareNext ==
    /\ view.at = "compare"
    /\ \/ \E id \in versioned : SelectDocument(id)
       \/ \E v \in ToSet(demoVersions[view.docId]) : SelectLeft(v) \/ SelectRight(v)
       \/ RetryCompare
       \/ \E request \in view.hook.open : CompareSettles(request)

CompareInit ==
    /\ ClientInit
    /\ view = CompareView

CompareSpec == CompareInit /\ [][CompareNext]_<<clientVars, view>>

(***************************************************************************)
(* What the page keeps                                                     *)
(***************************************************************************)

\* Rows that are drawn under the labels of two versions are the comparison of
\* these two; after a failed request, when the rows of an earlier pair stand under
\* the new labels, the error banner is above them.
MismatchIsFlagged ==
    view.at = "compare" /\ ~view.hook.loading /\ view.hook.error = Null =>
      view.hook.data.pair = <<view.left, view.right>>

\* Two versions that are compared belong to the contract that is selected, so that
\* their labels are found.
PairOfOneContract ==
    view.at = "compare" => {view.left, view.right} \subseteq ToSet(demoVersions[view.docId])

\* What the page marks in a changed row is an exact and shortest difference of the
\* two texts: nothing that was kept is marked, nothing that changed is not.
DiffIsExact ==
    view.at = "compare" /\ ~view.hook.loading =>
      \A i \in Rows(FALSE) :
        LET row == view.hook.data.rows[i]
        IN row.diff = "missing" \/ IsExactDiff(CompareBody(FALSE)[i], row.left, row.right)
=============================================================================
