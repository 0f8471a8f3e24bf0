------------------------------- MODULE WordDiff -------------------------------
(*
utils/diff.ts: a word diff by longest common subsequence. A text is the sequence
of its tokens; the words and the white space that tokenize keeps apart are both
tokens. A loop of the code is a function over the rounds it makes.
*)
EXTENDS Integers, Sequences, FiniteSets

\* (Mutant: the table is never filled.)
dpTableEmpty(a, b) == [p \in (1..Len(a) + 1) \X (1..Len(b) + 1) |-> 0]

\* dp[<<i, j>>]: how many tokens the tails of a and b from i and j have in common.
dpTable(a, b) ==
    LET dp[p \in (1..Len(a) + 1) \X (1..Len(b) + 1)] ==
          LET i == p[1]
              j == p[2]
          IN IF i > Len(a) \/ j > Len(b) THEN 0
             ELSE IF a[i] = b[j] THEN dp[<<i + 1, j + 1>>] + 1
             ELSE IF dp[<<i + 1, j>>] >= dp[<<i, j + 1>>] THEN dp[<<i + 1, j>>]
             ELSE dp[<<i, j + 1>>]
    IN dp

\* A token extends the last segment if that is of its kind.
Push(list, text, kind) ==
    IF list # <<>> /\ list[Len(list)].kind = kind
    THEN [list EXCEPT ![Len(list)].text = Append(@, text)]
    ELSE Append(list, [text |-> <<text>>, kind |-> kind])

\* One round of the loops that walk over the table; when both texts are used up,
\* nothing changes any more.
WalkOn(a, b, dp, s) ==
    LET i == s.i
        j == s.j
    IN IF i <= Len(a) /\ j <= Len(b) /\ a[i] = b[j]
       THEN [i |-> i + 1, j |-> j + 1, left |-> Push(s.left, a[i], "same"),
             right |-> Push(s.right, b[j], "same")]
       ELSE IF i <= Len(a) /\ (j > Len(b) \/ dp[<<i + 1, j>>] >= dp[<<i, j + 1>>])
       THEN [s EXCEPT !.i = i + 1, !.left = Push(s.left, a[i], "del")]
       ELSE IF j <= Len(b)
       THEN [s EXCEPT !.j = j + 1, !.right = Push(s.right, b[j], "add")]
       ELSE s

wordDiff(a, b) ==
    LET dp == dpTable(a, b)
        rounds == Len(a) + Len(b)
        walk[n \in 0..rounds] ==
          IF n = 0 THEN [i |-> 1, j |-> 1, left |-> <<>>, right |-> <<>>]
          ELSE WalkOn(a, b, dp, walk[n - 1])
    IN [left |-> walk[rounds].left, right |-> walk[rounds].right]

(***************************************************************************)
(* What a diff is                                                          *)
(***************************************************************************)

\* What the segments of some kinds read.
Text(segments, kinds) ==
    LET text[n \in 0..Len(segments)] ==
          IF n = 0 THEN <<>>
          ELSE IF segments[n].kind \in kinds THEN text[n - 1] \o segments[n].text
          ELSE text[n - 1]
    IN text[Len(segments)]
Kinds == {"same", "del", "add"}

\* Places where two texts have the same token, and sets of such places that one
\* passes reading both texts forward: the common subsequences of the two.
CommonPlaces(a, b) == {p \in (1..Len(a)) \X (1..Len(b)) : a[p[1]] = b[p[2]]}
InOrder(places) ==
    \A p, q \in places : \/ p = q
                         \/ p[1] < q[1] /\ p[2] < q[2]
                         \/ q[1] < p[1] /\ q[2] < p[2]

\* Both sides read as the texts they stand for, neighbours differ in kind, and
\* what they keep is common to both and as long as it can be.
IsExactDiff(diff, before, after) ==
    /\ Text(diff.left, Kinds) = before
    /\ Text(diff.right, Kinds) = after
    /\ \A side \in {diff.left, diff.right} :
         \A i \in 1..Len(side) - 1 : side[i].kind # side[i + 1].kind
    /\ Text(diff.left, {"same"}) = Text(diff.right, {"same"})
    /\ \A places \in SUBSET CommonPlaces(before, after) :
         InOrder(places) => Cardinality(places) <= Len(Text(diff.left, {"same"}))
=============================================================================
