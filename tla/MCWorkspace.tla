----------------------------- MODULE MCWorkspace -----------------------------
(* An instance of Workspace for TLC. *)
EXTENDS Workspace, TLC

\* A question, and one too short to be asked.
SomeTyped == {[text |-> "q1", length |-> 9], [text |-> "q2", length |-> 2]}

\* An answer without sources, and one that cites the second source first.
SomeAnswers ==
    {[citations |-> <<>>, marks |-> {}], [citations |-> <<2, 1>>, marks |-> {1, 2}]}

\* Texts of two topics. The first pair of contract d-104 has a shortest difference
\* that a greedy walk misses; one version lacks a topic.
SomeTextOf ==
    [v \in {"v-100-1", "v-100-2", "v-104-1", "v-104-2", "v-104-3"} |->
       CASE v = "v-100-1" -> <<<<"a", "b">>, <<"c">>>>
         [] v = "v-100-2" -> <<<<"x", "a", "b">>, <<"c">>>>
         [] v = "v-104-1" -> <<<<"a", "b", "a">>, <<>>>>
         [] v = "v-104-2" -> <<<<"b", "a", "b">>, <<"d">>>>
         [] v = "v-104-3" -> <<<<"b", "a", "b">>, <<"d", "d">>>>]

\* A contract that returns to a section, and one without clauses.
SomeLibrary ==
    [id \in {"k-1", "k-2"} |->
       IF id = "k-1"
       THEN <<Clause("1", "Term", ""), Clause("2", "Fees", "high"), Clause("3", "Term", "")>>
       ELSE <<>>]
SomeDocs == <<Doc("k-1", "COMPLETED", 100), Doc("k-2", "FAILED", 25)>>
SomeFindings ==
    <<Finding("f1", "low", "k-1", "open"), Finding("f2", "high", "k-2", "open"),
      Finding("f3", "medium", "k-1", "accepted")>>
=============================================================================
