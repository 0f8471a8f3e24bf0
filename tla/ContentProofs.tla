----------------------------- MODULE ContentProofs -----------------------------
(*
What the pages compute from what they were answered, for every answer: the word
diff of the compare page is exact and as short as can be, the outline of a contract
keeps each clause, the exposure card accounts for each finding, the cards for each
document, and a stepper marks one step.
*)
EXTENDS ReadingPages, WordDiff, UseAsyncProofs, FiniteSetTheorems

\* Induction, for a set of numbers.
LEMMA NatSteps ==
    ASSUME NEW S, 0 \in S, \A n \in Nat : n \in S => n + 1 \in S
    PROVE  \A n \in Nat : n \in S
<1> DEFINE T == {n \in Nat : n \notin S}
<1> SUFFICES ASSUME T # {}
             PROVE  FALSE
  OBVIOUS
<1>1. PICK n \in T : \A m \in T : n <= m
  BY NatLeast, Zenon
<1>2. n # 0 /\ n - 1 \in Nat
  OBVIOUS
<1>3. n - 1 \notin T
  BY <1>1, <1>2
<1>4. n - 1 + 1 \in S
  BY <1>2, <1>3
<1>5. QED
  BY <1>4

(***************************************************************************)
(* The table                                                               *)
(***************************************************************************)

Grid(a, b) == (1..Len(a) + 1) \X (1..Len(b) + 1)

\* What a cell holds, given the others.
Cell(a, b, dp, p) ==
    IF p[1] > Len(a) \/ p[2] > Len(b) THEN 0
    ELSE IF a[p[1]] = b[p[2]] THEN dp[<<p[1] + 1, p[2] + 1>>] + 1
    ELSE IF dp[<<p[1] + 1, p[2]>>] >= dp[<<p[1], p[2] + 1>>] THEN dp[<<p[1] + 1, p[2]>>]
    ELSE dp[<<p[1], p[2] + 1>>]

\* How many tokens lie behind a cell, and a table that is right up to there.
Behind(a, b, p) == (Len(a) + 1 - p[1]) + (Len(b) + 1 - p[2])
Filled(a, b, n, dp) ==
    \A p \in Grid(a, b) : Behind(a, b, p) <= n => dp[p] = Cell(a, b, dp, p)

\* A cell, and the cells it is computed from.
WellPlaced(a, b, p) ==
    /\ p[1] \in 1..Len(a) + 1 /\ p[2] \in 1..Len(b) + 1
    /\ Behind(a, b, p) \in 0..Len(a) + Len(b)
    /\ p[1] <= Len(a) => /\ <<p[1] + 1, p[2]>> \in Grid(a, b)
                         /\ Behind(a, b, <<p[1] + 1, p[2]>>) = Behind(a, b, p) - 1
    /\ p[2] <= Len(b) => /\ <<p[1], p[2] + 1>> \in Grid(a, b)
                         /\ Behind(a, b, <<p[1], p[2] + 1>>) = Behind(a, b, p) - 1
    /\ p[1] <= Len(a) /\ p[2] <= Len(b) =>
         /\ <<p[1] + 1, p[2] + 1>> \in Grid(a, b)
         /\ Behind(a, b, <<p[1] + 1, p[2] + 1>>) = Behind(a, b, p) - 2

LEMMA GridCells ==
    ASSUME NEW a, NEW b, Len(a) \in Nat, Len(b) \in Nat, NEW p \in Grid(a, b)
    PROVE  WellPlaced(a, b, p)
<1>1. PICK i \in 1..Len(a) + 1, j \in 1..Len(b) + 1 : p = <<i, j>>
  BY DEF Grid
<1>2. p[1] = i /\ p[2] = j
  BY <1>1
<1>3. /\ Behind(a, b, p) = (Len(a) + 1 - i) + (Len(b) + 1 - j)
      /\ Behind(a, b, <<i + 1, j>>) = (Len(a) + 1 - (i + 1)) + (Len(b) + 1 - j)
      /\ Behind(a, b, <<i, j + 1>>) = (Len(a) + 1 - i) + (Len(b) + 1 - (j + 1))
      /\ Behind(a, b, <<i + 1, j + 1>>) = (Len(a) + 1 - (i + 1)) + (Len(b) + 1 - (j + 1))
  BY <1>2 DEF Behind
<1>4. \A k \in 1..Len(a) + 1, l \in 1..Len(b) + 1 : <<k, l>> \in Grid(a, b)
  BY DEF Grid
<1>5. Behind(a, b, p) \in 0..Len(a) + Len(b)
  BY <1>3
<1>6. i <= Len(a) => /\ <<i + 1, j>> \in Grid(a, b)
                     /\ Behind(a, b, <<i + 1, j>>) = Behind(a, b, p) - 1
  BY <1>3, <1>4
<1>7. j <= Len(b) => /\ <<i, j + 1>> \in Grid(a, b)
                     /\ Behind(a, b, <<i, j + 1>>) = Behind(a, b, p) - 1
  BY <1>3, <1>4
<1>8. i <= Len(a) /\ j <= Len(b) =>
        /\ <<i + 1, j + 1>> \in Grid(a, b)
        /\ Behind(a, b, <<i + 1, j + 1>>) = Behind(a, b, p) - 2
  BY <1>3, <1>4
<1>9. QED
  BY <1>2, <1>5, <1>6, <1>7, <1>8 DEF WellPlaced

LEMMA FilledFurther ==
    ASSUME NEW a, NEW b, Len(a) \in Nat, Len(b) \in Nat, NEW n \in Nat,
           NEW f, Filled(a, b, n, f)
    PROVE  \E g : Filled(a, b, n + 1, g)
<1> DEFINE g == [p \in Grid(a, b) |-> Cell(a, b, f, p)]
<1>1. \A p \in Grid(a, b) : g[p] = Cell(a, b, f, p)
  OBVIOUS
<1>2. \A p \in Grid(a, b) : Behind(a, b, p) <= n => g[p] = f[p]
  BY <1>1 DEF Filled
<1> HIDE DEF g
<1>3. ASSUME NEW p \in Grid(a, b), Behind(a, b, p) <= n + 1
      PROVE  g[p] = Cell(a, b, g, p)
  <2> DEFINE i == p[1]
             j == p[2]
  <2>1. WellPlaced(a, b, p)
    BY GridCells
  <2>2. i <= Len(a) => g[<<i + 1, j>>] = f[<<i + 1, j>>]
    BY <1>2, <1>3, <2>1 DEF WellPlaced
  <2>3. j <= Len(b) => g[<<i, j + 1>>] = f[<<i, j + 1>>]
    BY <1>2, <1>3, <2>1 DEF WellPlaced
  <2>4. i <= Len(a) /\ j <= Len(b) => g[<<i + 1, j + 1>>] = f[<<i + 1, j + 1>>]
    BY <1>2, <1>3, <2>1 DEF WellPlaced
  <2>5. /\ g[p] = Cell(a, b, f, p)
        /\ i \in 1..Len(a) + 1 /\ j \in 1..Len(b) + 1
    BY <1>1, <2>1 DEF WellPlaced
  <2>6. Cell(a, b, f, p) = Cell(a, b, g, p)
    <3>1. CASE i > Len(a) \/ j > Len(b)
      BY <3>1, Zenon DEF Cell
    <3>2. CASE ~(i > Len(a) \/ j > Len(b))
      <4>1. i <= Len(a) /\ j <= Len(b)
        BY <2>5, <3>2
      <4>2. /\ f[<<i + 1, j>>] = g[<<i + 1, j>>] /\ f[<<i, j + 1>>] = g[<<i, j + 1>>]
            /\ f[<<i + 1, j + 1>>] = g[<<i + 1, j + 1>>]
        BY <2>2, <2>3, <2>4, <4>1
      <4>3. QED
        BY <4>2, Zenon DEF Cell
    <3>3. QED
      BY <3>1, <3>2
  <2>7. QED
    BY <2>5, <2>6
<1>4. QED
  BY <1>3 DEF Filled

LEMMA TableFilled ==
    ASSUME NEW a, NEW b, Len(a) \in Nat, Len(b) \in Nat
    PROVE  \E f : f = [p \in Grid(a, b) |-> Cell(a, b, f, p)]
<1> DEFINE S == {n \in Nat : \E f : Filled(a, b, n, f)}
<1>1. 0 \in S
  <2> DEFINE f == [p \in Grid(a, b) |-> 0]
  <2>1. ASSUME NEW p \in Grid(a, b), Behind(a, b, p) <= 0
        PROVE  f[p] = Cell(a, b, f, p)
    <3>1. p[1] \in 1..Len(a) + 1 /\ p[2] \in 1..Len(b) + 1
      BY GridCells DEF WellPlaced
    <3>2. p[1] > Len(a)
      BY <2>1, <3>1 DEF Behind
    <3>3. QED
      BY <3>2 DEF Cell
  <2>2. QED
    BY <2>1 DEF Filled
<1>2. \A n \in Nat : n \in S => n + 1 \in S
  BY FilledFurther
<1>3. Len(a) + Len(b) \in Nat
  OBVIOUS
<1>4. Len(a) + Len(b) \in S
  <2> HIDE DEF S
  <2>1. QED
    BY <1>1, <1>2, <1>3, NatSteps
<1>5. PICK f : Filled(a, b, Len(a) + Len(b), f)
  BY <1>4
<1> DEFINE g == [p \in Grid(a, b) |-> f[p]]
<1>6. ASSUME NEW p \in Grid(a, b)
      PROVE  g[p] = Cell(a, b, f, p)
  <2>1. WellPlaced(a, b, p)
    BY GridCells
  <2>2. Behind(a, b, p) <= Len(a) + Len(b)
    BY <2>1 DEF WellPlaced
  <2>3. QED
    BY <1>5, <2>2 DEF Filled
<1>7. \A p \in Grid(a, b) : g[p] = f[p]
  OBVIOUS
<1>8. ASSUME NEW p \in Grid(a, b)
      PROVE  Cell(a, b, f, p) = Cell(a, b, g, p)
  <2> HIDE DEF g
  <2>1. WellPlaced(a, b, p)
    BY GridCells
  <2>2. QED
    BY <1>7, <2>1 DEF Cell, WellPlaced
<1>9. g = [p \in Grid(a, b) |-> Cell(a, b, g, p)]
  <2>1. \A p \in Grid(a, b) : g[p] = Cell(a, b, g, p)
    BY <1>6, <1>8
  <2>2. g = [p \in Grid(a, b) |-> g[p]]
    OBVIOUS
  <2> HIDE DEF g
  <2>3. QED
    BY <2>1, <2>2
<1>10. QED
  BY <1>9

LEMMA Table ==
    ASSUME NEW a, NEW b, Len(a) \in Nat, Len(b) \in Nat, NEW p \in Grid(a, b)
    PROVE  dpTable(a, b)[p] = Cell(a, b, dpTable(a, b), p)
<1> DEFINE dp == CHOOSE f : f = [q \in Grid(a, b) |-> Cell(a, b, f, q)]
<1>1. dp = [q \in Grid(a, b) |-> Cell(a, b, dp, q)]
  BY TableFilled
<1>2. dpTable(a, b) = dp
  BY DEF dpTable, Grid, Cell
<1> HIDE DEF dp
<1>3. dp[p] = Cell(a, b, dp, p)
  BY <1>1
<1>4. QED
  BY <1>2, <1>3

\* Common places of two tails.
Places(a, b, p) == {q \in CommonPlaces(a, b) : p[1] <= q[1] /\ p[2] <= q[2]}

\* A cell bounds every set of them that one passes in order.
Bounds(a, b, p, n) ==
    /\ n \in Nat
    /\ \A places \in SUBSET Places(a, b, p) :
         InOrder(places) => IsFiniteSet(places) /\ Cardinality(places) <= n

\* Where the tokens match, at most one of the places is beside the tails that are
\* left; elsewhere the places leave out the token of one of the texts.
LEMMA BoundsMatch ==
    ASSUME NEW a, NEW b, Len(a) \in Nat, Len(b) \in Nat, NEW i \in 1..Len(a), NEW j \in 1..Len(b),
           NEW n, Bounds(a, b, <<i + 1, j + 1>>, n)
    PROVE  Bounds(a, b, <<i, j>>, n + 1)
<1>1. n \in Nat
  BY DEF Bounds
<1>2. ASSUME NEW places \in SUBSET Places(a, b, <<i, j>>), InOrder(places)
      PROVE  IsFiniteSet(places) /\ Cardinality(places) <= n + 1
  <2> DEFINE rest == {q \in places : i + 1 <= q[1] /\ j + 1 <= q[2]}
  <2>1. \A q \in places : q[1] \in 1..Len(a) /\ q[2] \in 1..Len(b) /\ i <= q[1] /\ j <= q[2]
    BY DEF Places, CommonPlaces
  <2>2. rest \in SUBSET Places(a, b, <<i + 1, j + 1>>) /\ InOrder(rest)
    BY <1>2 DEF Places, InOrder
  <2>3. IsFiniteSet(rest) /\ Cardinality(rest) <= n
    BY <2>2 DEF Bounds
  <2>4. ASSUME NEW p \in places, NEW q \in places, p \notin rest, q \notin rest
        PROVE  p = q
    BY <1>2, <2>1, <2>4 DEF InOrder
  <2> HIDE DEF rest
  <2>5. rest \subseteq places
    BY DEF rest
  <2>6. places = rest \/ \E p \in places \ rest : places = rest \cup {p}
    <3>1. ASSUME NEW p \in places, p \notin rest
          PROVE  places = rest \cup {p}
      BY <2>4, <2>5, <3>1
    <3>2. QED
      BY <2>5, <3>1
  <2>7. CASE places = rest
    BY <1>1, <2>3, <2>7, FS_CardinalityType
  <2>8. ASSUME NEW p \in places \ rest, places = rest \cup {p}
        PROVE  IsFiniteSet(places) /\ Cardinality(places) <= n + 1
    <3>1. IsFiniteSet(places) /\ Cardinality(places) = Cardinality(rest) + 1
      BY <2>3, <2>8, FS_AddElement
    <3>2. Cardinality(rest) \in Nat
      BY <2>3, FS_CardinalityType
    <3>3. QED
      BY <1>1, <2>3, <3>1, <3>2
  <2>9. QED
    BY <2>6, <2>7, <2>8
<1>3. QED
  BY <1>1, <1>2 DEF Bounds

LEMMA BoundsMiss ==
    ASSUME NEW a, NEW b, Len(a) \in Nat, Len(b) \in Nat, NEW i \in 1..Len(a), NEW j \in 1..Len(b),
           a[i] # b[j], NEW n, NEW m, Bounds(a, b, <<i + 1, j>>, n), Bounds(a, b, <<i, j + 1>>, m)
    PROVE  Bounds(a, b, <<i, j>>, IF n >= m THEN n ELSE m)
<1> DEFINE top == IF n >= m THEN n ELSE m
<1>1. n \in Nat /\ m \in Nat /\ top \in Nat /\ n <= top /\ m <= top
  BY DEF Bounds
<1> HIDE DEF top
<1>2. ASSUME NEW places \in SUBSET Places(a, b, <<i, j>>), InOrder(places)
      PROVE  IsFiniteSet(places) /\ Cardinality(places) <= top
  <2>1. \A q \in places : /\ q = <<q[1], q[2]>> /\ q[1] \in 1..Len(a) /\ q[2] \in 1..Len(b)
                          /\ i <= q[1] /\ j <= q[2] /\ a[q[1]] = b[q[2]]
    BY DEF Places, CommonPlaces
  <2>2. \A q \in places : ~(q[1] = i /\ q[2] = j)
    BY <2>1
  <2>3. (\A q \in places : q[1] # i) \/ (\A q \in places : q[2] # j)
    <3>1. ASSUME NEW p \in places, NEW q \in places, p[1] = i, q[2] = j
          PROVE  FALSE
      <4>1. p[2] > j /\ q[1] > i
        BY <2>1, <2>2, <3>1
      <4>2. QED
        BY <1>2, <2>1, <3>1, <4>1 DEF InOrder
    <3>2. QED
      BY <3>1
  <2>4. CASE \A q \in places : q[1] # i
    <3>1. places \in SUBSET Places(a, b, <<i + 1, j>>)
      BY <2>1, <2>4 DEF Places
    <3>2. IsFiniteSet(places) /\ Cardinality(places) <= n
      BY <1>2, <3>1 DEF Bounds
    <3>3. QED
      BY <1>1, <3>2, FS_CardinalityType
  <2>5. CASE \A q \in places : q[2] # j
    <3>1. places \in SUBSET Places(a, b, <<i, j + 1>>)
      BY <2>1, <2>5 DEF Places
    <3>2. IsFiniteSet(places) /\ Cardinality(places) <= m
      BY <1>2, <3>1 DEF Bounds
    <3>3. QED
      BY <1>1, <3>2, FS_CardinalityType
  <2>6. QED
    BY <2>3, <2>4, <2>5
<1>3. QED
  BY <1>1, <1>2 DEF Bounds, top

LEMMA BoundsEnd ==
    ASSUME NEW a, NEW b, Len(a) \in Nat, Len(b) \in Nat, NEW p, p[1] > Len(a) \/ p[2] > Len(b),
           p[1] \in Nat, p[2] \in Nat
    PROVE  Bounds(a, b, p, 0)
<1>1. Places(a, b, p) = {}
  BY DEF Places, CommonPlaces
<1>2. ASSUME NEW places \in SUBSET Places(a, b, p)
      PROVE  IsFiniteSet(places) /\ Cardinality(places) <= 0
  <2>1. places = {}
    BY <1>1
  <2>2. IsFiniteSet({}) /\ Cardinality({}) = 0
    BY FS_EmptySet
  <2>3. QED
    BY <2>1, <2>2
<1>3. QED
  BY <1>2 DEF Bounds

LEMMA TableBounds ==
    ASSUME NEW a, NEW b, Len(a) \in Nat, Len(b) \in Nat
    PROVE  \A p \in Grid(a, b) : Bounds(a, b, p, dpTable(a, b)[p])
<1> DEFINE dp == dpTable(a, b)
           S == {n \in Nat : \A p \in Grid(a, b) : Behind(a, b, p) <= n => Bounds(a, b, p, dp[p])}
<1>1. ASSUME NEW p \in Grid(a, b), p[1] > Len(a) \/ p[2] > Len(b)
      PROVE  Bounds(a, b, p, dp[p])
  <2>1. WellPlaced(a, b, p)
    BY GridCells
  <2>2. p[1] \in Nat /\ p[2] \in Nat
    BY <2>1 DEF WellPlaced
  <2>3. dp[p] = 0
    BY <1>1, Table DEF Cell
  <2>4. QED
    BY <1>1, <2>2, <2>3, BoundsEnd
<1>2. 0 \in S
  <2>1. ASSUME NEW p \in Grid(a, b), Behind(a, b, p) <= 0
        PROVE  p[1] > Len(a)
    <3>1. p[1] \in 1..Len(a) + 1 /\ p[2] \in 1..Len(b) + 1
      BY GridCells DEF WellPlaced
    <3>2. QED
      BY <2>1, <3>1 DEF Behind
  <2> HIDE DEF dp
  <2>2. QED
    BY <1>1, <2>1
<1>3. ASSUME NEW n \in Nat, n \in S
      PROVE  n + 1 \in S
  <2>1. ASSUME NEW p \in Grid(a, b), Behind(a, b, p) <= n + 1
        PROVE  Bounds(a, b, p, dp[p])
    <3> DEFINE i == p[1]
               j == p[2]
    <3>0. dp[p] = Cell(a, b, dp, p)
      BY Table
    <3>1. WellPlaced(a, b, p)
      BY GridCells
    <3>2. p = <<i, j>> /\ i \in 1..Len(a) + 1 /\ j \in 1..Len(b) + 1
      BY <3>1 DEF Grid, WellPlaced
    <3> HIDE DEF dp, i, j
    <3>3. CASE i > Len(a) \/ j > Len(b)
      BY <1>1, <3>3 DEF i, j
    <3>4. CASE ~(i > Len(a) \/ j > Len(b))
      <4>1. i \in 1..Len(a) /\ j \in 1..Len(b)
        BY <3>2, <3>4
      <4>2. CASE a[i] = b[j]
        <5>1. Bounds(a, b, <<i + 1, j + 1>>, dp[<<i + 1, j + 1>>])
          BY <1>3, <2>1, <3>1, <4>1 DEF WellPlaced, i, j
        <5>2. dp[p] = dp[<<i + 1, j + 1>>] + 1
          BY <3>0, <3>4, <4>2 DEF Cell, i, j
        <5>3. QED
          BY <3>2, <4>1, <5>1, <5>2, BoundsMatch
      <4>3. CASE a[i] # b[j]
        <5>1. Bounds(a, b, <<i + 1, j>>, dp[<<i + 1, j>>])
          BY <1>3, <2>1, <3>1, <4>1 DEF WellPlaced, i, j
        <5>2. Bounds(a, b, <<i, j + 1>>, dp[<<i, j + 1>>])
          BY <1>3, <2>1, <3>1, <4>1 DEF WellPlaced, i, j
        <5>3. dp[p] = IF dp[<<i + 1, j>>] >= dp[<<i, j + 1>>] THEN dp[<<i + 1, j>>]
                      ELSE dp[<<i, j + 1>>]
          BY <3>0, <3>4, <4>3 DEF Cell, i, j
        <5>4. Bounds(a, b, <<i, j>>, IF dp[<<i + 1, j>>] >= dp[<<i, j + 1>>] THEN dp[<<i + 1, j>>]
                                     ELSE dp[<<i, j + 1>>])
          BY <4>1, <4>3, <5>1, <5>2, BoundsMiss
        <5>5. QED
          BY <3>2, <5>3, <5>4
      <4>4. QED
        BY <4>2, <4>3
    <3>5. QED
      BY <3>3, <3>4
  <2> HIDE DEF dp
  <2>2. QED
    BY <2>1
<1> HIDE DEF S
<1>4. Len(a) + Len(b) \in S
  BY <1>2, <1>3, NatSteps
<1>5. ASSUME NEW p \in Grid(a, b)
      PROVE  Behind(a, b, p) <= Len(a) + Len(b)
  <2>1. WellPlaced(a, b, p)
    BY GridCells
  <2>2. QED
    BY <2>1 DEF WellPlaced
<1>6. QED
  BY <1>4, <1>5 DEF S

(***************************************************************************)
(* What segments read                                                      *)
(***************************************************************************)

SegmentOf(Tok) == [text : Seq(Tok), kind : Kinds]

\* A function that holds what the first segments read.
ReadOn(s, kinds, f, k) ==
    IF k = 0 THEN <<>>
    ELSE IF s[k].kind \in kinds THEN f[k - 1] \o s[k].text
    ELSE f[k - 1]

Reading(s, kinds, n, f) == \A k \in 0..n : f[k] = ReadOn(s, kinds, f, k)

LEMMA ReadExists ==
    ASSUME NEW s, NEW kinds
    PROVE  \A n \in Nat : \E f : f = [k \in 0..n |-> ReadOn(s, kinds, f, k)]
<1> DEFINE S == {n \in Nat : \E f : f = [k \in 0..n |-> ReadOn(s, kinds, f, k)]}
<1>1. 0 \in S
  <2> DEFINE f == [k \in 0..0 |-> <<>>]
  <2>1. \A k \in 0..0 : ReadOn(s, kinds, f, k) = <<>>
    BY DEF ReadOn
  <2>2. f = [k \in 0..0 |-> ReadOn(s, kinds, f, k)]
    BY <2>1
  <2>3. QED
    BY <2>2
<1>2. ASSUME NEW n \in Nat, n \in S
      PROVE  n + 1 \in S
  <2>1. PICK f : f = [k \in 0..n |-> ReadOn(s, kinds, f, k)]
    BY <1>2
  <2> DEFINE top == ReadOn(s, kinds, f, n + 1)
             g == [k \in 0..n + 1 |-> IF k = n + 1 THEN top ELSE f[k]]
  <2>2. \A k \in 0..n : f[k] = ReadOn(s, kinds, f, k)
    BY <2>1
  <2>3. \A k \in 0..n : g[k] = f[k]
    OBVIOUS
  <2>4. g[n + 1] = top
    OBVIOUS
  <2>5. g = [k \in 0..n + 1 |-> g[k]]
    OBVIOUS
  <2> HIDE DEF g
  <2>6. \A k \in 0..n + 1 : ReadOn(s, kinds, g, k) = ReadOn(s, kinds, f, k)
    BY <2>3 DEF ReadOn
  <2>7. \A k \in 0..n + 1 : g[k] = ReadOn(s, kinds, g, k)
    <3>1. \A k \in 0..n + 1 : k \in 0..n \/ k = n + 1
      OBVIOUS
    <3> HIDE DEF top
    <3>2. QED
      BY <2>2, <2>3, <2>4, <2>6, <3>1 DEF top
  <2>8. g = [k \in 0..n + 1 |-> ReadOn(s, kinds, g, k)]
    BY <2>5, <2>7
  <2>9. QED
    BY <2>8
<1> HIDE DEF S
<1>3. \A n \in Nat : n \in S
  BY <1>1, <1>2, NatSteps
<1>4. QED
  BY <1>3 DEF S

LEMMA TextReads ==
    ASSUME NEW s, NEW kinds, Len(s) \in Nat
    PROVE  \E f : /\ Text(s, kinds) = f[Len(s)]
                  /\ Reading(s, kinds, Len(s), f)
<1> DEFINE f == CHOOSE h : h = [k \in 0..Len(s) |-> ReadOn(s, kinds, h, k)]
<1>1. f = [k \in 0..Len(s) |-> ReadOn(s, kinds, f, k)]
  BY ReadExists
<1>2. Text(s, kinds) = f[Len(s)]
  BY DEF Text, ReadOn
<1> HIDE DEF f
<1>3. Reading(s, kinds, Len(s), f)
  BY <1>1 DEF Reading
<1>4. QED
  BY <1>2, <1>3

\* What is read of a text does not depend on what follows.
LEMMA ReadPrefix ==
    ASSUME NEW s, NEW t, NEW kinds, NEW n \in Nat, NEW f, NEW g,
           Reading(s, kinds, n, f), Reading(t, kinds, n, g),
           \A k \in 1..n : s[k] = t[k]
    PROVE  f[n] = g[n]
<1> DEFINE S == {k \in Nat : k \in 0..n => f[k] = g[k]}
<1>1. 0 \in S
  BY DEF ReadOn, Reading
<1>2. ASSUME NEW k \in Nat, k \in S
      PROVE  k + 1 \in S
  <2> SUFFICES ASSUME k + 1 \in 0..n
               PROVE  f[k + 1] = g[k + 1]
    OBVIOUS
  <2>1. f[k] = g[k] /\ s[k + 1] = t[k + 1]
    BY <1>2
  <2>2. f[k + 1] = ReadOn(s, kinds, f, k + 1) /\ g[k + 1] = ReadOn(t, kinds, g, k + 1)
    BY DEF Reading
  <2>3. QED
    BY <2>1, <2>2 DEF ReadOn
<1> HIDE DEF S
<1>3. n \in S
  BY <1>1, <1>2, NatSteps
<1>4. QED
  BY <1>3 DEF S

LEMMA TextType ==
    ASSUME NEW Tok, NEW s \in Seq(SegmentOf(Tok)), NEW kinds
    PROVE  Text(s, kinds) \in Seq(Tok)
<1> PICK f : /\ Text(s, kinds) = f[Len(s)]
             /\ Reading(s, kinds, Len(s), f)
  BY TextReads
<1>0. Len(s) \in Nat
  OBVIOUS
<1> DEFINE S == {k \in Nat : k \in 0..Len(s) => f[k] \in Seq(Tok)}
<1>1. 0 \in S
  <2>1. f[0] = ReadOn(s, kinds, f, 0)
    BY <1>0 DEF Reading
  <2>2. f[0] = <<>>
    BY <2>1 DEF ReadOn
  <2>3. <<>> \in Seq(Tok)
    OBVIOUS
  <2>4. QED
    BY <2>2, <2>3
<1>2. ASSUME NEW k \in Nat, k \in S
      PROVE  k + 1 \in S
  <2> SUFFICES ASSUME k + 1 \in 0..Len(s)
               PROVE  f[k + 1] \in Seq(Tok)
    OBVIOUS
  <2>1. k \in 0..Len(s) /\ k + 1 \in 1..Len(s)
    BY <1>0
  <2>2. f[k] \in Seq(Tok)
    BY <1>2, <2>1
  <2>3. s[k + 1] \in SegmentOf(Tok)
    BY <2>1
  <2>4. s[k + 1].text \in Seq(Tok)
    BY <2>3 DEF SegmentOf
  <2>5. f[k + 1] = ReadOn(s, kinds, f, k + 1)
    BY DEF Reading
  <2>6. QED
    BY <2>2, <2>4, <2>5 DEF ReadOn
<1> HIDE DEF S
<1>3. Len(s) \in S
  BY <1>0, <1>1, <1>2, NatSteps
<1>4. QED
  BY <1>0, <1>3 DEF S

LEMMA TextLast ==
    ASSUME NEW s, NEW t, NEW kinds, Len(s) \in Nat, Len(t) = Len(s) + 1,
           \A k \in 1..Len(s) : s[k] = t[k]
    PROVE  Text(t, kinds) = IF t[Len(t)].kind \in kinds THEN Text(s, kinds) \o t[Len(t)].text
                            ELSE Text(s, kinds)
<1>1. PICK f : /\ Text(s, kinds) = f[Len(s)]
               /\ Reading(s, kinds, Len(s), f)
  BY TextReads
<1>2. PICK g : /\ Text(t, kinds) = g[Len(t)]
               /\ Reading(t, kinds, Len(t), g)
  BY TextReads
<1>3. f[Len(s)] = g[Len(s)]
  <2>1. Reading(t, kinds, Len(s), g)
    BY <1>2 DEF Reading
  <2>2. QED
    BY <1>1, <2>1, ReadPrefix
<1>4. g[Len(t)] = ReadOn(t, kinds, g, Len(t)) /\ Len(t) # 0 /\ Len(t) - 1 = Len(s)
  BY <1>2 DEF Reading
<1>5. QED
  BY <1>1, <1>2, <1>3, <1>4 DEF ReadOn

LEMMA AppendToEnd ==
    ASSUME NEW Tok, NEW x \in Seq(Tok), NEW y \in Seq(Tok), NEW tok \in Tok
    PROVE  x \o Append(y, tok) = Append(x \o y, tok)
  OBVIOUS

Separated(s) == \A i \in 1..Len(s) - 1 : s[i].kind # s[i + 1].kind

\* A token that is pushed is read last.
Pushed(Tok, list, tok, kind, more) ==
    /\ more \in Seq(SegmentOf(Tok))
    /\ Separated(list) => Separated(more)
    /\ \A kinds : Text(more, kinds) = IF kind \in kinds THEN Append(Text(list, kinds), tok)
                                     ELSE Text(list, kinds)

LEMMA PushReads ==
    ASSUME NEW Tok, NEW list \in Seq(SegmentOf(Tok)), NEW tok \in Tok, NEW kind \in Kinds
    PROVE  Pushed(Tok, list, tok, kind, Push(list, tok, kind))
<1> DEFINE n == Len(list)
<1>1. n \in Nat
  OBVIOUS
<1>2. CASE list # <<>> /\ list[n].kind = kind
  <2> DEFINE last == [text |-> Append(list[n].text, tok), kind |-> kind]
             more == [list EXCEPT ![n] = last]
             front == [k \in 1..n - 1 |-> list[k]]
  <2>1. n \in 1..n /\ list[n] \in SegmentOf(Tok)
    BY <1>2
  <2>2. Push(list, tok, kind) = more
    <3>1. list[n] = [text |-> list[n].text, kind |-> kind]
      BY <1>2, <2>1 DEF SegmentOf
    <3>2. [list[n] EXCEPT !.text = Append(@, tok)] = last
      <4>1. ASSUME NEW x, NEW y
            PROVE  [[text |-> x, kind |-> kind] EXCEPT !.text = y] = [text |-> y, kind |-> kind]
        OBVIOUS
      <4>2. [[text |-> list[n].text, kind |-> kind] EXCEPT !.text = Append(list[n].text, tok)] = last
        BY <4>1
      <4>3. QED
        BY <3>1, <4>2, Zenon
    <3>3. Push(list, tok, kind) = [list EXCEPT ![n] = [list[n] EXCEPT !.text = Append(@, tok)]]
      BY <1>2 DEF Push
    <3> HIDE DEF last
    <3>4. QED
      BY <3>2, <3>3
  <2>3. last \in SegmentOf(Tok) /\ last.kind = kind /\ last.text = Append(list[n].text, tok)
    <3>1. list[n].text \in Seq(Tok)
      BY <2>1 DEF SegmentOf
    <3>2. Append(list[n].text, tok) \in Seq(Tok)
      BY <3>1
    <3>3. QED
      BY <3>2 DEF SegmentOf
  <2> HIDE DEF last
  <2>4. more \in Seq(SegmentOf(Tok)) /\ Len(more) = n /\ more[n] = last
        /\ \A k \in 1..n - 1 : more[k] = list[k]
    BY <2>1, <2>3
  <2>5. front \in Seq(SegmentOf(Tok)) /\ Len(front) = n - 1
        /\ \A k \in 1..n - 1 : front[k] = list[k]
    BY <2>1
  <2> HIDE DEF more, front
  <2>6. Separated(list) => Separated(more)
    <3>1. \A k \in 1..n : more[k].kind = list[k].kind
      BY <1>2, <2>3, <2>4
    <3>2. QED
      BY <1>1, <2>4, <3>1 DEF Separated
  <2>7. ASSUME NEW kinds
        PROVE  Text(more, kinds) = IF kind \in kinds THEN Append(Text(list, kinds), tok)
                                   ELSE Text(list, kinds)
    <3>0. Len(front) \in Nat /\ n = Len(front) + 1 /\ \A k \in 1..Len(front) : front[k] = more[k]
      BY <1>1, <2>1, <2>4, <2>5
    <3>1. Text(more, kinds) = IF kind \in kinds THEN Text(front, kinds) \o last.text
                              ELSE Text(front, kinds)
      <4>1. more[Len(more)] = last /\ Len(more) = Len(front) + 1
        BY <2>4, <3>0
      <4>2. QED
        BY <2>3, <3>0, <4>1, TextLast
    <3>2. Text(list, kinds) = IF kind \in kinds THEN Text(front, kinds) \o list[n].text
                              ELSE Text(front, kinds)
      BY <1>1, <1>2, <2>1, <2>5, TextLast
    <3>3. Text(front, kinds) \in Seq(Tok) /\ list[n].text \in Seq(Tok)
      BY <2>1, <2>5, TextType DEF SegmentOf
    <3>4. Text(front, kinds) \o last.text = Append(Text(front, kinds) \o list[n].text, tok)
      <4>1. \A x, y \in Seq(Tok) : x \o Append(y, tok) = Append(x \o y, tok)
        BY AppendToEnd
      <4>2. QED
        BY <2>3, <3>3, <4>1
    <3>5. QED
      BY <3>1, <3>2, <3>4
  <2>8. QED
    BY <2>2, <2>4, <2>6, <2>7 DEF Pushed
<1>3. CASE ~(list # <<>> /\ list[n].kind = kind)
  <2> DEFINE one == [text |-> <<tok>>, kind |-> kind]
             more == Append(list, one)
  <2>1. one \in SegmentOf(Tok) /\ one.kind = kind /\ one.text = <<tok>>
    BY DEF SegmentOf
  <2>2. Push(list, tok, kind) = more
    BY <1>3 DEF Push
  <2> HIDE DEF one
  <2>3. more \in Seq(SegmentOf(Tok)) /\ Len(more) = n + 1 /\ more[n + 1] = one
        /\ \A k \in 1..n : more[k] = list[k]
    BY <2>1
  <2> HIDE DEF more
  <2>4. Separated(list) => Separated(more)
    <3>1. n # 0 => list[n].kind # kind
      BY <1>3
    <3>2. ASSUME Separated(list), NEW i \in 1..n
          PROVE  more[i].kind # more[i + 1].kind
      <4>1. CASE i = n
        BY <2>1, <2>3, <3>1, <4>1
      <4>2. CASE i # n
        <5>1. i \in 1..n - 1 /\ i + 1 \in 1..n
          BY <1>1, <4>2
        <5>2. more[i] = list[i] /\ more[i + 1] = list[i + 1]
          BY <2>3, <5>1
        <5>3. QED
          BY <3>2, <5>1, <5>2 DEF Separated
      <4>3. QED
        BY <4>1, <4>2
    <3>3. Len(more) - 1 = n
      BY <1>1, <2>3
    <3>4. QED
      BY <3>2, <3>3 DEF Separated
  <2>5. ASSUME NEW kinds
        PROVE  Text(more, kinds) = IF kind \in kinds THEN Append(Text(list, kinds), tok)
                                   ELSE Text(list, kinds)
    <3>1. Text(more, kinds) = IF kind \in kinds THEN Text(list, kinds) \o one.text
                              ELSE Text(list, kinds)
      <4>1. Len(more) = n + 1 /\ more[Len(more)] = one /\ \A k \in 1..n : list[k] = more[k]
        BY <2>3
      <4>2. QED
        BY <1>1, <2>1, <4>1, TextLast
    <3>2. Text(list, kinds) \in Seq(Tok)
      BY TextType
    <3>3. Text(list, kinds) \o <<tok>> = Append(Text(list, kinds), tok)
      BY <3>2
    <3>4. QED
      BY <2>1, <3>1, <3>3
  <2>6. QED
    BY <2>2, <2>3, <2>4, <2>5 DEF Pushed
<1>4. QED
  BY <1>2, <1>3

(***************************************************************************)
(* The walk                                                                *)
(***************************************************************************)

StartOfWalk == [i |-> 1, j |-> 1, left |-> <<>>, right |-> <<>>]
WalkedTo(a, b, dp, f, n) == IF n = 0 THEN StartOfWalk ELSE WalkOn(a, b, dp, f[n - 1])

IsWalk(a, b, dp, n, f) == f = [k \in 0..n |-> WalkedTo(a, b, dp, f, k)]

LEMMA WalkExists ==
    ASSUME NEW a, NEW b, NEW dp
    PROVE  \A n \in Nat : \E f : IsWalk(a, b, dp, n, f)
<1> DEFINE S == {n \in Nat : \E f : f = [k \in 0..n |-> WalkedTo(a, b, dp, f, k)]}
<1>1. 0 \in S
  <2> DEFINE f == [k \in 0..0 |-> StartOfWalk]
  <2>1. \A k \in 0..0 : WalkedTo(a, b, dp, f, k) = StartOfWalk
    BY DEF WalkedTo
  <2>2. f = [k \in 0..0 |-> WalkedTo(a, b, dp, f, k)]
    BY <2>1
  <2>3. QED
    BY <2>2
<1>2. ASSUME NEW n \in Nat, n \in S
      PROVE  n + 1 \in S
  <2>1. PICK f : f = [k \in 0..n |-> WalkedTo(a, b, dp, f, k)]
    BY <1>2
  <2> DEFINE top == WalkedTo(a, b, dp, f, n + 1)
             g == [k \in 0..n + 1 |-> IF k = n + 1 THEN top ELSE f[k]]
  <2>2. \A k \in 0..n : f[k] = WalkedTo(a, b, dp, f, k)
    BY <2>1
  <2>3. \A k \in 0..n : g[k] = f[k]
    OBVIOUS
  <2>4. g[n + 1] = top
    OBVIOUS
  <2>5. g = [k \in 0..n + 1 |-> g[k]]
    OBVIOUS
  <2> HIDE DEF g
  <2>6. \A k \in 0..n + 1 : WalkedTo(a, b, dp, g, k) = WalkedTo(a, b, dp, f, k)
    BY <2>3 DEF WalkedTo
  <2>7. \A k \in 0..n + 1 : g[k] = WalkedTo(a, b, dp, g, k)
    <3>1. \A k \in 0..n + 1 : k \in 0..n \/ k = n + 1
      OBVIOUS
    <3> HIDE DEF top
    <3>2. QED
      BY <2>2, <2>3, <2>4, <2>6, <3>1 DEF top
  <2>8. g = [k \in 0..n + 1 |-> WalkedTo(a, b, dp, g, k)]
    BY <2>5, <2>7
  <2>9. QED
    BY <2>8
<1> HIDE DEF S
<1>3. \A n \in Nat : n \in S
  BY <1>1, <1>2, NatSteps
<1>4. QED
  BY <1>3 DEF S, IsWalk

\* What is true of a walk between two rounds: each side reads as the part of its
\* text that was passed, both keep the same, and what they keep and what the cell
\* still promises add up to what the first cell promised.
PrefixOf(text, a, n) == Len(text) = n /\ \A k \in 1..n : text[k] = a[k]
SideOK(Tok, side, a, n) ==
    /\ side \in Seq(SegmentOf(Tok)) /\ Separated(side)
    /\ PrefixOf(Text(side, Kinds), a, n)
Walking(Tok, a, b, s) ==
    /\ s = [i |-> s.i, j |-> s.j, left |-> s.left, right |-> s.right]
    /\ s.i \in 1..Len(a) + 1 /\ s.j \in 1..Len(b) + 1
    /\ SideOK(Tok, s.left, a, s.i - 1) /\ SideOK(Tok, s.right, b, s.j - 1)
    /\ Text(s.left, {"same"}) = Text(s.right, {"same"})
    /\ Len(Text(s.left, {"same"})) + dpTable(a, b)[<<s.i, s.j>>] = dpTable(a, b)[<<1, 1>>]

SideGrown(Tok, side, a, i, kind, more) ==
    /\ SideOK(Tok, more, a, i)
    /\ Text(more, {"same"}) =
         IF kind = "same" THEN Append(Text(side, {"same"}), a[i]) ELSE Text(side, {"same"})

LEMMA SidePushed ==
    ASSUME NEW Tok, NEW a \in Seq(Tok), NEW i \in 1..Len(a), NEW side, SideOK(Tok, side, a, i - 1),
           NEW kind \in Kinds
    PROVE  SideGrown(Tok, side, a, i, kind, Push(side, a[i], kind))
<1> DEFINE pushed == Push(side, a[i], kind)
           x == Text(side, Kinds)
<1>1. /\ pushed \in Seq(SegmentOf(Tok)) /\ Separated(pushed)
      /\ Text(pushed, Kinds) = Append(x, a[i])
      /\ Text(pushed, {"same"}) =
           IF kind = "same" THEN Append(Text(side, {"same"}), a[i]) ELSE Text(side, {"same"})
  <2>1. side \in Seq(SegmentOf(Tok)) /\ Separated(side) /\ a[i] \in Tok
    BY DEF SideOK
  <2>2. Pushed(Tok, side, a[i], kind, pushed)
    BY <2>1, PushReads
  <2> HIDE DEF pushed, x
  <2>3. Text(pushed, Kinds) = Append(x, a[i])
    BY <2>2 DEF x, Pushed
  <2>4. kind \in {"same"} <=> kind = "same"
    OBVIOUS
  <2>5. QED
    BY <2>1, <2>2, <2>3, <2>4 DEF Pushed
<1>2. x \in Seq(Tok) /\ Len(x) = i - 1 /\ \A k \in 1..i - 1 : x[k] = a[k]
  BY TextType DEF SideOK, PrefixOf
<1> HIDE DEF x
<1>3. PrefixOf(Append(x, a[i]), a, i)
  BY <1>2 DEF PrefixOf
<1>4. QED
  BY <1>1, <1>3 DEF SideOK, SideGrown

\* The table, read at a place of the walk.
CellRead(a, b, dp, i, j) ==
    /\ dp[<<i, j>>] \in Nat
    /\ dp[<<i, j>>] = IF i > Len(a) \/ j > Len(b) THEN 0
                      ELSE IF a[i] = b[j] THEN dp[<<i + 1, j + 1>>] + 1
                      ELSE IF dp[<<i + 1, j>>] >= dp[<<i, j + 1>>] THEN dp[<<i + 1, j>>]
                      ELSE dp[<<i, j + 1>>]

LEMMA TableAt ==
    ASSUME NEW a, NEW b, Len(a) \in Nat, Len(b) \in Nat,
           NEW i \in 1..Len(a) + 1, NEW j \in 1..Len(b) + 1
    PROVE  CellRead(a, b, dpTable(a, b), i, j)
<1> DEFINE p == <<i, j>>
<1>1. p \in Grid(a, b)
  BY DEF Grid
<1>2. p[1] = i /\ p[2] = j
  OBVIOUS
<1>3. dpTable(a, b)[p] = Cell(a, b, dpTable(a, b), p)
  BY <1>1, Table
<1>4. dpTable(a, b)[p] \in Nat
  BY <1>1, TableBounds DEF Bounds
<1>5. QED
  BY <1>2, <1>3, <1>4 DEF Cell, CellRead

LEMMA TableEnd ==
    ASSUME NEW a, NEW b, Len(a) \in Nat, Len(b) \in Nat,
           NEW i \in 1..Len(a) + 1, NEW j \in 1..Len(b) + 1, i > Len(a) \/ j > Len(b)
    PROVE  dpTable(a, b)[<<i, j>>] = 0
<1>1. CellRead(a, b, dpTable(a, b), i, j)
  BY TableAt
<1>2. QED
  BY <1>1 DEF CellRead

Finished(a, b, s) == s.i = Len(a) + 1 /\ s.j = Len(b) + 1

LEMMA WalkedOn ==
    ASSUME NEW Tok, NEW a \in Seq(Tok), NEW b \in Seq(Tok), NEW s, Walking(Tok, a, b, s)
    PROVE  LET t == WalkOn(a, b, dpTable(a, b), s)
           IN /\ Walking(Tok, a, b, t)
              /\ Finished(a, b, s) => Finished(a, b, t)
              /\ ~Finished(a, b, s) => t.i + t.j > s.i + s.j
<1> DEFINE dp == dpTable(a, b)
           t == WalkOn(a, b, dp, s)
           i == s.i
           j == s.j
           kept == Text(s.left, {"same"})
<1>0. Len(a) \in Nat /\ Len(b) \in Nat
  OBVIOUS
<1>1. /\ s = [i |-> i, j |-> j, left |-> s.left, right |-> s.right]
      /\ i \in 1..Len(a) + 1 /\ j \in 1..Len(b) + 1
      /\ SideOK(Tok, s.left, a, i - 1) /\ SideOK(Tok, s.right, b, j - 1)
      /\ Text(s.right, {"same"}) = kept
      /\ Len(kept) + dp[<<i, j>>] = dp[<<1, 1>>]
  BY DEF Walking
<1>2. kept \in Seq(Tok)
  BY <1>1, TextType DEF SideOK
<1>3. Len(kept) \in Nat
  BY <1>2
<1>4. \A k \in 1..Len(a) + 1, l \in 1..Len(b) + 1 : dp[<<k, l>>] \in Nat
  <2>1. ASSUME NEW k \in 1..Len(a) + 1, NEW l \in 1..Len(b) + 1
        PROVE  CellRead(a, b, dp, k, l)
    BY <1>0, TableAt
  <2>2. QED
    BY <2>1 DEF CellRead
<1>5. dp[<<i, j>>] = IF i > Len(a) \/ j > Len(b) THEN 0
                     ELSE IF a[i] = b[j] THEN dp[<<i + 1, j + 1>>] + 1
                     ELSE IF dp[<<i + 1, j>>] >= dp[<<i, j + 1>>] THEN dp[<<i + 1, j>>]
                     ELSE dp[<<i, j + 1>>]
  <2>1. CellRead(a, b, dp, i, j)
    BY <1>0, <1>1, TableAt
  <2>2. QED
    BY <2>1 DEF CellRead
<1>6. "same" \in Kinds /\ "del" \in Kinds /\ "add" \in Kinds
  BY DEF Kinds
<1> HIDE DEF dp, i, j, kept, t
<1>7. CASE i <= Len(a) /\ j <= Len(b) /\ a[i] = b[j]
  <2> DEFINE l == Push(s.left, a[i], "same")
             r == Push(s.right, b[j], "same")
  <2>1. t = [i |-> i + 1, j |-> j + 1, left |-> l, right |-> r]
    BY <1>7 DEF WalkOn, t, i, j, dp
  <2>2. i \in 1..Len(a) /\ j \in 1..Len(b)
    BY <1>0, <1>1, <1>7
  <2>3. SideOK(Tok, l, a, i) /\ Text(l, {"same"}) = Append(kept, a[i])
    <3>1. SideOK(Tok, s.left, a, i - 1)
      BY <1>1
    <3>2. SideGrown(Tok, s.left, a, i, "same", l)
      BY <1>6, <2>2, <3>1, SidePushed
    <3>3. QED
      BY <3>2 DEF SideGrown, kept
  <2>4. SideOK(Tok, r, b, j) /\ Text(r, {"same"}) = Append(kept, b[j])
    <3>1. SideOK(Tok, s.right, b, j - 1)
      BY <1>1
    <3>2. SideGrown(Tok, s.right, b, j, "same", r)
      BY <1>6, <2>2, <3>1, SidePushed
    <3>3. QED
      BY <1>1, <3>2 DEF SideGrown
  <2>5. dp[<<i, j>>] = dp[<<i + 1, j + 1>>] + 1 /\ dp[<<i + 1, j + 1>>] \in Nat
    <3>1. i + 1 \in 1..Len(a) + 1 /\ j + 1 \in 1..Len(b) + 1
      BY <1>0, <2>2
    <3>2. ~(i > Len(a) \/ j > Len(b))
      BY <1>0, <2>2
    <3>3. QED
      BY <1>4, <1>5, <1>7, <3>1, <3>2
  <2>6. Len(Append(kept, a[i])) = Len(kept) + 1
    BY <1>2, <2>2
  <2> HIDE DEF l, r
  <2>7. /\ t.i = i + 1 /\ t.j = j + 1 /\ t.left = l /\ t.right = r
        /\ t = [i |-> t.i, j |-> t.j, left |-> t.left, right |-> t.right]
    BY <2>1
  <2>8. i + 1 - 1 = i /\ j + 1 - 1 = j /\ i + 1 \in 1..Len(a) + 1 /\ j + 1 \in 1..Len(b) + 1
    BY <1>0, <2>2
  <2>9. Len(kept) + 1 + dp[<<i + 1, j + 1>>] = dp[<<1, 1>>]
    <3> DEFINE first == dp[<<1, 1>>]
               here == dp[<<i, j>>]
               next == dp[<<i + 1, j + 1>>]
    <3>1. Len(kept) + here = first /\ here = next + 1 /\ next \in Nat
      BY <1>1, <2>5
    <3> HIDE DEF first, here, next
    <3>2. Len(kept) + 1 + next = first
      BY <1>3, <3>1
    <3>3. QED
      BY <3>2 DEF first, next
  <2>10. Walking(Tok, a, b, t)
    <3>1. SideOK(Tok, t.left, a, t.i - 1) /\ SideOK(Tok, t.right, b, t.j - 1)
      <4>1. t.i = i + 1 /\ t.j = j + 1 /\ t.left = l /\ t.right = r
        BY <2>7, Zenon
      <4>2. t.i - 1 = i /\ t.j - 1 = j
        BY <1>0, <2>2, <4>1
      <4>3. QED
        BY <2>3, <2>4, <4>1, <4>2
    <3>2. Text(t.left, {"same"}) = Append(kept, a[i]) /\ Text(t.right, {"same"}) = Append(kept, a[i])
      BY <1>7, <2>3, <2>4, <2>7
    <3>3. Len(Text(t.left, {"same"})) + dp[<<t.i, t.j>>] = dp[<<1, 1>>]
      BY <2>6, <2>7, <2>9, <3>2
    <3>4. QED
      BY <2>7, <2>8, <3>1, <3>2, <3>3 DEF Walking, dp
  <2>11. t.i + t.j > i + j /\ i # Len(a) + 1
    BY <1>0, <2>2, <2>7
  <2>12. QED
    BY <2>10, <2>11 DEF Finished, t, i, j, dp
<1>8. CASE /\ ~(i <= Len(a) /\ j <= Len(b) /\ a[i] = b[j])
           /\ i <= Len(a) /\ (j > Len(b) \/ dp[<<i + 1, j>>] >= dp[<<i, j + 1>>])
  <2> DEFINE l == Push(s.left, a[i], "del")
  <2>1. t = [i |-> i + 1, j |-> j, left |-> l, right |-> s.right]
    <3>1. t = [s EXCEPT !.i = i + 1, !.left = l]
      BY <1>8 DEF WalkOn, t, i, j, dp
    <3>2. QED
      <4> HIDE DEF l
      <4>1. PICK x, y, z, w : s = [i |-> x, j |-> y, left |-> z, right |-> w] /\ y = j /\ w = s.right
        BY <1>1
      <4>2. QED
        BY <3>1, <4>1
  <2>2. i \in 1..Len(a)
    BY <1>0, <1>1, <1>8
  <2>3. SideOK(Tok, l, a, i) /\ Text(l, {"same"}) = kept
    <3>1. SideOK(Tok, s.left, a, i - 1)
      BY <1>1
    <3>2. SideGrown(Tok, s.left, a, i, "del", l)
      BY <1>6, <2>2, <3>1, SidePushed
    <3>3. QED
      BY <3>2 DEF SideGrown, kept
  <2>5. dp[<<i, j>>] = dp[<<i + 1, j>>]
    <3>1. CASE j > Len(b)
      <4>1. dp[<<i + 1, j>>] = 0
        <5>1. i + 1 \in 1..Len(a) + 1 /\ j \in 1..Len(b) + 1
          BY <1>0, <1>1, <2>2
        <5>2. QED
          BY <1>0, <3>1, <5>1, TableEnd DEF dp
      <4>2. QED
        BY <1>5, <3>1, <4>1
    <3>2. CASE ~(j > Len(b))
      BY <1>0, <1>1, <1>5, <1>8, <2>2, <3>2
    <3>3. QED
      BY <3>1, <3>2
  <2> HIDE DEF l
  <2>7. /\ t.i = i + 1 /\ t.j = j /\ t.left = l /\ t.right = s.right
        /\ t = [i |-> t.i, j |-> t.j, left |-> t.left, right |-> t.right]
    BY <2>1
  <2>8. i + 1 - 1 = i /\ i + 1 \in 1..Len(a) + 1
    BY <1>0, <2>2
  <2>10. Walking(Tok, a, b, t)
    BY <1>1, <2>3, <2>5, <2>7, <2>8 DEF Walking, dp
  <2>11. t.i + t.j > i + j /\ i # Len(a) + 1
    BY <1>0, <1>1, <2>2, <2>7
  <2>12. QED
    BY <2>10, <2>11 DEF Finished, t, i, j, dp
<1>9. CASE /\ ~(i <= Len(a) /\ j <= Len(b) /\ a[i] = b[j])
           /\ ~(i <= Len(a) /\ (j > Len(b) \/ dp[<<i + 1, j>>] >= dp[<<i, j + 1>>]))
           /\ j <= Len(b)
  <2> DEFINE r == Push(s.right, b[j], "add")
  <2>1. t = [i |-> i, j |-> j + 1, left |-> s.left, right |-> r]
    <3>1. t = [s EXCEPT !.j = j + 1, !.right = r]
      BY <1>9 DEF WalkOn, t, i, j, dp
    <3>2. QED
      <4> HIDE DEF r
      <4>1. PICK x, y, z, w : s = [i |-> x, j |-> y, left |-> z, right |-> w] /\ x = i /\ z = s.left
        BY <1>1
      <4>2. QED
        BY <3>1, <4>1
  <2>2. j \in 1..Len(b)
    BY <1>0, <1>1, <1>9
  <2>3. SideOK(Tok, r, b, j) /\ Text(r, {"same"}) = kept
    <3>1. SideOK(Tok, s.right, b, j - 1)
      BY <1>1
    <3>2. SideGrown(Tok, s.right, b, j, "add", r)
      BY <1>6, <2>2, <3>1, SidePushed
    <3>3. QED
      BY <1>1, <3>2 DEF SideGrown
  <2>5. dp[<<i, j>>] = dp[<<i, j + 1>>]
    <3>1. CASE i > Len(a)
      <4>1. dp[<<i, j + 1>>] = 0
        <5>1. i \in 1..Len(a) + 1 /\ j + 1 \in 1..Len(b) + 1
          BY <1>0, <1>1, <2>2
        <5>2. QED
          BY <1>0, <3>1, <5>1, TableEnd DEF dp
      <4>2. QED
        BY <1>5, <3>1, <4>1
    <3>2. CASE ~(i > Len(a))
      BY <1>0, <1>1, <1>5, <1>9, <2>2, <3>2
    <3>3. QED
      BY <3>1, <3>2
  <2> HIDE DEF r
  <2>7. /\ t.i = i /\ t.j = j + 1 /\ t.left = s.left /\ t.right = r
        /\ t = [i |-> t.i, j |-> t.j, left |-> t.left, right |-> t.right]
    BY <2>1
  <2>8. j + 1 - 1 = j /\ j + 1 \in 1..Len(b) + 1
    BY <1>0, <2>2
  <2>9. Text(s.left, {"same"}) = kept
    BY DEF kept
  <2>10. Walking(Tok, a, b, t)
    BY <1>1, <2>3, <2>5, <2>7, <2>8, <2>9 DEF Walking, dp
  <2>11. t.i + t.j > i + j /\ j # Len(b) + 1
    BY <1>0, <1>1, <2>2, <2>7
  <2>12. QED
    BY <2>10, <2>11 DEF Finished, t, i, j, dp
<1>10. CASE ~(i <= Len(a)) /\ ~(j <= Len(b))
  <2>1. t = s
    BY <1>10 DEF WalkOn, t, i, j, dp
  <2>2. Finished(a, b, s)
    BY <1>0, <1>1, <1>10 DEF Finished
  <2>3. QED
    BY <2>1, <2>2 DEF t, dp, i, j
<1>11. QED
  <2>1. (j > Len(b) /\ i <= Len(a)) \/ (j > Len(b) /\ ~(i <= Len(a))) \/ j <= Len(b)
    BY <1>0, <1>1
  <2>2. QED
    BY <1>7, <1>8, <1>9, <1>10, <2>1 DEF t, i, j, dp

LEMMA WalkStarts ==
    ASSUME NEW Tok, NEW a \in Seq(Tok), NEW b \in Seq(Tok)
    PROVE  Walking(Tok, a, b, StartOfWalk)
<1>1. /\ StartOfWalk.i = 1 /\ StartOfWalk.j = 1
      /\ StartOfWalk.left = <<>> /\ StartOfWalk.right = <<>>
      /\ StartOfWalk = [i |-> 1, j |-> 1, left |-> <<>>, right |-> <<>>]
  BY DEF StartOfWalk
<1>2. \A kinds : Text(<<>>, kinds) = <<>>
  <2>1. ASSUME NEW kinds
        PROVE  Text(<<>>, kinds) = <<>>
    <3>1. Len(<<>>) = 0
      OBVIOUS
    <3>2. PICK f : Text(<<>>, kinds) = f[Len(<<>>)] /\ Reading(<<>>, kinds, Len(<<>>), f)
      BY <3>1, TextReads
    <3>3. QED
      BY <3>1, <3>2 DEF Reading, ReadOn
  <2>2. QED
    BY <2>1
<1>3. \A text : PrefixOf(<<>>, text, 0) /\ SideOK(Tok, <<>>, text, 0)
  BY <1>2 DEF PrefixOf, SideOK, Separated
<1>4. dpTable(a, b)[<<1, 1>>] \in Nat
  <2>1. Len(a) \in Nat /\ Len(b) \in Nat /\ 1 \in 1..Len(a) + 1 /\ 1 \in 1..Len(b) + 1
    OBVIOUS
  <2>2. CellRead(a, b, dpTable(a, b), 1, 1)
    BY <2>1, TableAt
  <2>3. QED
    BY <2>2 DEF CellRead
<1>5. Len(<<>>) = 0 /\ 1 - 1 = 0
  OBVIOUS
<1>6. 0 + dpTable(a, b)[<<1, 1>>] = dpTable(a, b)[<<1, 1>>]
  BY <1>4
<1>7. QED
  BY <1>1, <1>2, <1>3, <1>5, <1>6 DEF Walking

\* After as many rounds as there are tokens, the walk has read both texts.
LEMMA WalkEnds ==
    ASSUME NEW Tok, NEW a \in Seq(Tok), NEW b \in Seq(Tok)
    PROVE  \E s : /\ Walking(Tok, a, b, s) /\ Finished(a, b, s)
                  /\ wordDiff(a, b) = [left |-> s.left, right |-> s.right]
<1> DEFINE dp == dpTable(a, b)
           rounds == Len(a) + Len(b)
           walk == CHOOSE f : IsWalk(a, b, dp, rounds, f)
           Progress(n, s) == Finished(a, b, s) \/ s.i + s.j >= n + 2
           S == {n \in Nat : n <= rounds => Walking(Tok, a, b, walk[n]) /\ Progress(n, walk[n])}
<1>0. Len(a) \in Nat /\ Len(b) \in Nat /\ rounds \in Nat
  OBVIOUS
<1>1. IsWalk(a, b, dp, rounds, walk)
  BY <1>0, WalkExists
<1>2. wordDiff(a, b) = [left |-> walk[rounds].left, right |-> walk[rounds].right]
  BY DEF wordDiff, WalkedTo, StartOfWalk, IsWalk
<1> HIDE DEF walk
<1>3. \A k \in 0..rounds : walk[k] = WalkedTo(a, b, dp, walk, k)
  BY <1>1 DEF IsWalk
<1>4. 0 \in S
  <2>1. walk[0] = StartOfWalk
    BY <1>0, <1>3 DEF WalkedTo
  <2>2. Walking(Tok, a, b, walk[0])
    BY <2>1, WalkStarts
  <2>3. Progress(0, walk[0])
    BY <2>1 DEF StartOfWalk
  <2>4. QED
    BY <2>2, <2>3
<1>5. ASSUME NEW n \in Nat, n \in S
      PROVE  n + 1 \in S
  <2> SUFFICES ASSUME n + 1 <= rounds
               PROVE  Walking(Tok, a, b, walk[n + 1]) /\ Progress(n + 1, walk[n + 1])
    OBVIOUS
  <2> DEFINE s == walk[n]
             t == WalkOn(a, b, dp, s)
  <2>1. Walking(Tok, a, b, s) /\ Progress(n, s)
    BY <1>0, <1>5
  <2>2. n + 1 \in 0..rounds /\ n + 1 # 0 /\ n + 1 - 1 = n
    BY <1>0
  <2>3. walk[n + 1] = t
    BY <1>3, <2>2 DEF WalkedTo
  <2> HIDE DEF s
  <2>4. /\ Walking(Tok, a, b, t)
        /\ Finished(a, b, s) => Finished(a, b, t)
        /\ ~Finished(a, b, s) => t.i + t.j > s.i + s.j
    BY <2>1, WalkedOn
  <2> HIDE DEF t
  <2>5. s.i \in Nat /\ s.j \in Nat /\ t.i \in Nat /\ t.j \in Nat
    <3>1. s.i \in 1..Len(a) + 1 /\ s.j \in 1..Len(b) + 1
      BY <2>1 DEF Walking
    <3>2. t.i \in 1..Len(a) + 1 /\ t.j \in 1..Len(b) + 1
      BY <2>4 DEF Walking
    <3>3. QED
      BY <1>0, <3>1, <3>2
  <2>6. Progress(n + 1, t)
    BY <2>1, <2>4, <2>5
  <2>7. QED
    BY <2>3, <2>4, <2>6
<1> HIDE DEF S
<1>6. rounds \in S
  BY <1>0, <1>4, <1>5, NatSteps
<1> DEFINE s == walk[rounds]
<1>7. Walking(Tok, a, b, s) /\ (Finished(a, b, s) \/ s.i + s.j >= rounds + 2)
  BY <1>0, <1>6 DEF S
<1> HIDE DEF s
<1>8. s.i \in 1..Len(a) + 1 /\ s.j \in 1..Len(b) + 1
  BY <1>7 DEF Walking
<1>9. Finished(a, b, s)
  BY <1>0, <1>7, <1>8 DEF Finished
<1>10. QED
  BY <1>2, <1>7, <1>9 DEF s

LEMMA WholePrefix ==
    ASSUME NEW Tok, NEW a \in Seq(Tok), NEW x \in Seq(Tok), PrefixOf(x, a, Len(a))
    PROVE  x = a
  BY DEF PrefixOf

\* Two texts, whatever their words: each side of their diff reads as its text,
\* neighbours are of different kinds, both sides keep the same tokens, and no
\* common subsequence is longer than what they keep (utils/diff.ts, wordDiff).
THEOREM DiffExact ==
    ASSUME NEW Tok, NEW a \in Seq(Tok), NEW b \in Seq(Tok)
    PROVE  IsExactDiff(wordDiff(a, b), a, b)
<1>1. PICK s : /\ Walking(Tok, a, b, s) /\ Finished(a, b, s)
               /\ wordDiff(a, b) = [left |-> s.left, right |-> s.right]
  BY WalkEnds
<1> DEFINE dp == dpTable(a, b)
           kept == Text(s.left, {"same"})
<1>0. Len(a) \in Nat /\ Len(b) \in Nat
  OBVIOUS
<1>2. /\ SideOK(Tok, s.left, a, s.i - 1) /\ SideOK(Tok, s.right, b, s.j - 1)
      /\ Text(s.right, {"same"}) = kept
      /\ Len(kept) + dp[<<s.i, s.j>>] = dp[<<1, 1>>]
  BY <1>1 DEF Walking
<1>3. s.i = Len(a) + 1 /\ s.j = Len(b) + 1 /\ s.i - 1 = Len(a) /\ s.j - 1 = Len(b)
  BY <1>0, <1>1 DEF Finished
<1>4. Text(s.left, Kinds) = a
  <2>1. PrefixOf(Text(s.left, Kinds), a, Len(a)) /\ Text(s.left, Kinds) \in Seq(Tok)
    BY <1>2, <1>3, TextType DEF SideOK
  <2>2. QED
    BY <2>1, WholePrefix
<1>5. Text(s.right, Kinds) = b
  <2>1. PrefixOf(Text(s.right, Kinds), b, Len(b)) /\ Text(s.right, Kinds) \in Seq(Tok)
    BY <1>2, <1>3, TextType DEF SideOK
  <2>2. QED
    BY <2>1, WholePrefix
<1>6. Separated(s.left) /\ Separated(s.right)
  BY <1>2 DEF SideOK
<1>7. Len(kept) = dp[<<1, 1>>]
  <2>1. Len(kept) \in Nat
    BY <1>2, TextType DEF SideOK
  <2>2. dp[<<s.i, s.j>>] = 0
    <3>1. s.i \in 1..Len(a) + 1 /\ s.j \in 1..Len(b) + 1 /\ s.i > Len(a)
      BY <1>0, <1>3
    <3>2. QED
      BY <1>0, <3>1, TableEnd
  <2> HIDE DEF dp, kept
  <2>3. QED
    BY <1>2, <2>1, <2>2
<1>8. ASSUME NEW places \in SUBSET CommonPlaces(a, b), InOrder(places)
      PROVE  Cardinality(places) <= dp[<<1, 1>>]
  <2> DEFINE p == <<1, 1>>
  <2>1. p \in Grid(a, b) /\ p[1] = 1 /\ p[2] = 1
    BY <1>0 DEF Grid
  <2>2. Bounds(a, b, p, dp[p])
    BY <1>0, <2>1, TableBounds
  <2>3. places \in SUBSET Places(a, b, p)
    BY <2>1 DEF Places, CommonPlaces
  <2> HIDE DEF p, dp
  <2>4. Cardinality(places) <= dp[p]
    BY <1>8, <2>2, <2>3 DEF Bounds
  <2>5. QED
    BY <2>4 DEF p
<1> DEFINE diff == wordDiff(a, b)
<1>9. diff.left = s.left /\ diff.right = s.right
  BY <1>1
<1> HIDE DEF diff, dp, kept
<1>10. IsExactDiff(diff, a, b)
  <2>1. \A side \in {diff.left, diff.right} :
          \A i \in 1..Len(side) - 1 : side[i].kind # side[i + 1].kind
    BY <1>6, <1>9 DEF Separated
  <2>2. Text(diff.left, {"same"}) = kept /\ Text(diff.right, {"same"}) = kept
    BY <1>2, <1>9 DEF kept
  <2>3. \A places \in SUBSET CommonPlaces(a, b) :
          InOrder(places) => Cardinality(places) <= Len(Text(diff.left, {"same"}))
    BY <1>7, <1>8, <2>2
  <2>4. QED
    BY <1>4, <1>5, <1>9, <2>1, <2>2, <2>3 DEF IsExactDiff
<1>11. QED
  BY <1>10 DEF diff

\* A text that did not change, drawn as one segment.
LEMMA WholeReads ==
    ASSUME NEW Tok, NEW t \in Seq(Tok), NEW kinds, "same" \in kinds
    PROVE  Text(<<[text |-> t, kind |-> "same"]>>, kinds) = t
<1> DEFINE one == [text |-> t, kind |-> "same"]
           s == <<one>>
<1>1. Len(s) = 1 /\ Len(s) \in Nat /\ s[1] = one /\ 1 - 1 = 0
  OBVIOUS
<1>2. one.text = t /\ one.kind = "same"
  OBVIOUS
<1> HIDE DEF s, one
<1>3. PICK f : Text(s, kinds) = f[Len(s)] /\ Reading(s, kinds, Len(s), f)
  BY <1>1, TextReads
<1>4. 0 \in 0..Len(s) /\ 1 \in 0..Len(s)
  BY <1>1
<1>5. f[0] = <<>>
  BY <1>3, <1>4 DEF Reading, ReadOn
<1>6. f[1] = <<>> \o t
  <2>1. f[1] = ReadOn(s, kinds, f, 1)
    BY <1>3, <1>4 DEF Reading
  <2>2. ReadOn(s, kinds, f, 1) = IF s[1].kind \in kinds THEN f[0] \o s[1].text ELSE f[0]
    BY DEF ReadOn
  <2>3. s[1].kind \in kinds /\ s[1].text = t
    BY <1>1, <1>2
  <2>4. QED
    BY <1>5, <2>1, <2>2, <2>3, Zenon
<1>7. <<>> \o t = t
  OBVIOUS
<1>8. Text(s, kinds) = t
  BY <1>1, <1>3, <1>6, <1>7
<1>9. QED
  BY <1>8 DEF s, one

LEMMA NothingReads ==
    ASSUME NEW kinds
    PROVE  Text(<<>>, kinds) = <<>>
<1>1. Len(<<>>) = 0 /\ 0 \in 0..0
  OBVIOUS
<1>2. PICK f : Text(<<>>, kinds) = f[Len(<<>>)] /\ Reading(<<>>, kinds, Len(<<>>), f)
  BY <1>1, TextReads
<1>3. f[0] = <<>>
  BY <1>1, <1>2 DEF Reading, ReadOn
<1>4. QED
  BY <1>1, <1>2, <1>3

\* A text has no more in common with itself than its tokens.
LEMMA ChainsFit ==
    ASSUME NEW Tok, NEW t \in Seq(Tok), NEW places \in SUBSET CommonPlaces(t, t), InOrder(places)
    PROVE  Cardinality(places) <= Len(t)
<1> DEFINE n == Len(t)
           f == [p \in places |-> p[1]]
<1>1. n \in Nat
  OBVIOUS
<1>2. \A p \in places : p[1] \in 1..n /\ p[2] \in 1..n
  BY DEF CommonPlaces
<1>3. f \in [places -> 1..n]
  BY <1>2
<1>4. ASSUME NEW p \in places, NEW q \in places, f[p] = f[q]
      PROVE  p = q
  <2>1. p[1] = q[1]
    BY <1>4
  <2>2. p[1] \in Int
    BY <1>2
  <2>3. QED
    BY <2>1, <2>2 DEF InOrder
<1> HIDE DEF f, n
<1>5. f \in Injection(places, 1..n)
  BY <1>3, <1>4 DEF Injection, IsInjective
<1>6. IsFiniteSet(1..n) /\ Cardinality(1..n) = n
  <2>1. IsFiniteSet(1..n) /\ Cardinality(1..n) = IF 1 > n THEN 0 ELSE n - 1 + 1
    BY <1>1, FS_Interval
  <2>2. QED
    BY <1>1, <2>1
<1>7. QED
  BY <1>5, <1>6, FS_Injection DEF n

LEMMA SameExact ==
    ASSUME NEW Tok, NEW t \in Seq(Tok), NEW side,
           side = IF t = <<>> THEN <<>> ELSE <<[text |-> t, kind |-> "same"]>>
    PROVE  IsExactDiff([left |-> side, right |-> side], t, t)
<1> DEFINE diff == [left |-> side, right |-> side]
<1>1. diff.left = side /\ diff.right = side
  OBVIOUS
<1>2. ASSUME NEW kinds, "same" \in kinds
      PROVE  Text(side, kinds) = t
  BY <1>2, WholeReads, NothingReads
<1>3. Text(side, Kinds) = t /\ Text(side, {"same"}) = t
  BY <1>2 DEF Kinds
<1>4. \A i \in 1..Len(side) - 1 : side[i].kind # side[i + 1].kind
  <2>1. Len(side) \in {0, 1}
    BY DEF Kinds
  <2>2. QED
    BY <2>1
<1> HIDE DEF diff
<1>5. IsExactDiff(diff, t, t)
  BY <1>1, <1>3, <1>4, ChainsFit DEF IsExactDiff
<1>6. QED
  BY <1>5 DEF diff

(***************************************************************************)
(* Loops                                                                   *)
(***************************************************************************)

\* A loop of n rounds, as a function over the rounds.
Rounds(n, base, step, f) ==
    f = [k \in 0..n |-> IF k = 0 THEN base ELSE step[k][f[k - 1]]]

LEMMA LoopRuns ==
    ASSUME NEW n \in Nat, NEW X, NEW base \in X, NEW step \in [1..n -> [X -> X]]
    PROVE  \E f \in [0..n -> X] : Rounds(n, base, step, f)
<1> DEFINE Value(f, k) == IF k = 0 THEN base ELSE step[k][f[k - 1]]
           S == {m \in Nat : m <= n => \E f \in [0..m -> X] : f = [k \in 0..m |-> Value(f, k)]}
<1>1. 0 \in S
  <2> DEFINE f == [k \in 0..0 |-> base]
  <2>1. \A k \in 0..0 : Value(f, k) = base
    OBVIOUS
  <2>2. f \in [0..0 -> X] /\ f = [k \in 0..0 |-> Value(f, k)]
    BY <2>1
  <2>3. QED
    BY <2>2
<1>2. ASSUME NEW m \in Nat, m \in S
      PROVE  m + 1 \in S
  <2> SUFFICES ASSUME m + 1 <= n
               PROVE  \E g \in [0..m + 1 -> X] : g = [k \in 0..m + 1 |-> Value(g, k)]
    OBVIOUS
  <2>1. PICK f \in [0..m -> X] : f = [k \in 0..m |-> Value(f, k)]
    BY <1>2
  <2> DEFINE top == step[m + 1][f[m]]
             g == [k \in 0..m + 1 |-> IF k = m + 1 THEN top ELSE f[k]]
  <2>2. \A k \in 0..m : f[k] = Value(f, k)
    BY <2>1
  <2>3. top \in X
    OBVIOUS
  <2>4. (\A k \in 0..m : g[k] = f[k]) /\ g[m + 1] = top
    OBVIOUS
  <2>5. g \in [0..m + 1 -> X] /\ g = [k \in 0..m + 1 |-> g[k]]
    BY <2>3
  <2> HIDE DEF g, top
  <2>6. \A k \in 0..m + 1 : k \in 0..m \/ k = m + 1
    OBVIOUS
  <2>7. \A k \in 0..m : g[k] = Value(g, k)
    BY <2>2, <2>4
  <2>8. g[m + 1] = Value(g, m + 1)
    BY <2>4 DEF top
  <2>9. \A k \in 0..m + 1 : g[k] = Value(g, k)
    BY <2>6, <2>7, <2>8
  <2> HIDE DEF Value
  <2>10. g = [k \in 0..m + 1 |-> Value(g, k)]
    BY <2>5, <2>9
  <2>11. QED
    BY <2>5, <2>10
<1> HIDE DEF S
<1>3. n \in S
  BY <1>1, <1>2, NatSteps
<1>4. QED
  BY <1>3 DEF S, Rounds

(***************************************************************************)
(* The outline of a contract                                               *)
(***************************************************************************)

\* Clauses and sections with ids, names and risks of some set T.
ClauseType(T) == [id : T, section : T, risk : T]
SectionType(T) == [name : T, clauses : Seq(ClauseType(T))]

\* The clauses of a section among the first ones, as ClausesIn collects them.
PickOn(clauses, section, h, k) ==
    IF k = 0 THEN <<>>
    ELSE IF clauses[k].section = section THEN Append(h[k - 1], clauses[k])
    ELSE h[k - 1]
Picked(clauses, section) ==
    CHOOSE h : h = [k \in 0..Len(clauses) |-> PickOn(clauses, section, h, k)]

LEMMA PickedClauses ==
    ASSUME NEW T, NEW clauses \in Seq(ClauseType(T)), NEW section
    PROVE  /\ \A k \in 0..Len(clauses) :
                /\ Picked(clauses, section)[k] \in Seq(ClauseType(T))
                /\ Picked(clauses, section)[k] =
                     PickOn(clauses, section, Picked(clauses, section), k)
           /\ ClausesIn(clauses, section) = Picked(clauses, section)[Len(clauses)]
<1> DEFINE n == Len(clauses)
           h == Picked(clauses, section)
           step == [k \in 1..n |->
                      [x \in Seq(ClauseType(T)) |->
                         IF clauses[k].section = section THEN Append(x, clauses[k]) ELSE x]]
<1>1. n \in Nat /\ \A k \in 1..n : clauses[k] \in ClauseType(T)
  OBVIOUS
<1>2. step \in [1..n -> [Seq(ClauseType(T)) -> Seq(ClauseType(T))]]
  BY <1>1
<1>3. PICK f \in [0..n -> Seq(ClauseType(T))] : Rounds(n, <<>>, step, f)
  <2>1. <<>> \in Seq(ClauseType(T))
    OBVIOUS
  <2> HIDE DEF step, n
  <2>2. QED
    BY <1>1, <1>2, <2>1, LoopRuns
<1>4. ASSUME NEW k \in 0..n
      PROVE  (IF k = 0 THEN <<>> ELSE step[k][f[k - 1]]) = PickOn(clauses, section, f, k)
  <2>1. CASE k = 0
    BY <2>1 DEF PickOn
  <2>2. CASE k # 0
    <3>1. k \in 1..n /\ k - 1 \in 0..n
      BY <1>1, <2>2
    <3>2. f[k - 1] \in Seq(ClauseType(T))
      BY <3>1
    <3>3. \A x \in Seq(ClauseType(T)) :
            step[k][x] = IF clauses[k].section = section THEN Append(x, clauses[k]) ELSE x
      BY <3>1
    <3> HIDE DEF step, n
    <3>4. QED
      BY <2>2, <3>2, <3>3 DEF PickOn
  <2>3. QED
    BY <2>1, <2>2
<1>5. f = [k \in 0..n |-> PickOn(clauses, section, f, k)]
  <2> HIDE DEF step
  <2>1. QED
    BY <1>3, <1>4 DEF Rounds
<1>6. h = [k \in 0..n |-> PickOn(clauses, section, h, k)]
  BY <1>5 DEF Picked
<1>7. ClausesIn(clauses, section) = h[n]
  BY DEF ClausesIn, Picked, PickOn
<1> HIDE DEF h, n
<1>8. \A k \in 0..n : h[k] = PickOn(clauses, section, h, k)
  BY <1>6
<1> DEFINE S == {k \in Nat : k <= n => h[k] \in Seq(ClauseType(T))}
<1>9. 0 \in S
  <2>1. 0 \in 0..n
    BY <1>1
  <2>2. h[0] = PickOn(clauses, section, h, 0)
    BY <1>8, <2>1
  <2>3. h[0] = <<>>
    BY <2>2 DEF PickOn
  <2>4. h[0] \in Seq(ClauseType(T))
    BY <2>3
  <2>5. QED
    BY <2>4
<1>10. ASSUME NEW k \in Nat, k \in S
       PROVE  k + 1 \in S
  <2> SUFFICES ASSUME k + 1 <= n
               PROVE  h[k + 1] \in Seq(ClauseType(T))
    OBVIOUS
  <2>1. h[k] \in Seq(ClauseType(T)) /\ clauses[k + 1] \in ClauseType(T) /\ k + 1 \in 0..n
    BY <1>1, <1>10
  <2>2. h[k + 1] = IF clauses[k + 1].section = section THEN Append(h[k], clauses[k + 1]) ELSE h[k]
    BY <1>1, <1>8, <2>1 DEF PickOn
  <2>3. QED
    BY <2>1, <2>2
<1> HIDE DEF S
<1>11. \A k \in Nat : k \in S
  BY <1>9, <1>10, NatSteps
<1>12. QED
  BY <1>1, <1>7, <1>8, <1>11 DEF S, h, n


\* A section that was not met yet has no clause.
LEMMA NothingPicked ==
    ASSUME NEW T, NEW clauses \in Seq(ClauseType(T)), NEW section, NEW n \in 0..Len(clauses),
           \A k \in 1..n : clauses[k].section # section
    PROVE  Picked(clauses, section)[n] = <<>>
<1> DEFINE h == Picked(clauses, section)
           S == {k \in Nat : k <= n => h[k] = <<>>}
<1>1. \A k \in 0..Len(clauses) : h[k] = PickOn(clauses, section, h, k)
  BY PickedClauses
<1> HIDE DEF h
<1>2. 0 \in S
  <2>1. h[0] = PickOn(clauses, section, h, 0)
    BY <1>1
  <2>2. h[0] = <<>>
    BY <2>1 DEF PickOn
  <2>3. QED
    BY <2>2
<1>3. ASSUME NEW k \in Nat, k \in S
      PROVE  k + 1 \in S
  <2> SUFFICES ASSUME k + 1 <= n
               PROVE  h[k + 1] = <<>>
    OBVIOUS
  <2>1. k + 1 \in 0..Len(clauses) /\ k + 1 \in 1..n /\ h[k] = <<>>
    BY <1>3
  <2>2. h[k + 1] = PickOn(clauses, section, h, k + 1)
    BY <1>1, <2>1
  <2>3. QED
    BY <2>1, <2>2 DEF PickOn
<1> HIDE DEF S
<1>4. \A k \in Nat : k \in S
  BY <1>2, <1>3, NatSteps
<1>5. QED
  BY <1>4 DEF S, h

\* The outline of the first k clauses.
SectionUpTo(clauses, k, section) ==
    /\ section.clauses = Picked(clauses, section.name)[k]
    /\ section.clauses # <<>>
    /\ \E l \in 1..k : clauses[l].section = section.name
OutlineUpTo(T, clauses, k, outline) ==
    /\ outline \in Seq(SectionType(T))
    /\ \A m \in DOMAIN outline : SectionUpTo(clauses, k, outline[m])
    /\ \A m, l \in DOMAIN outline : outline[m].name = outline[l].name => m = l
    /\ \A l \in 1..k : \E m \in DOMAIN outline : outline[m].name = clauses[l].section

\* What is collected of one more clause.
LEMMA PickedNext ==
    ASSUME NEW T, NEW clauses \in Seq(ClauseType(T)), NEW section,
           NEW k \in Nat, k + 1 <= Len(clauses)
    PROVE  Picked(clauses, section)[k + 1] =
             IF clauses[k + 1].section = section
             THEN Append(Picked(clauses, section)[k], clauses[k + 1])
             ELSE Picked(clauses, section)[k]
<1>1. k + 1 \in 0..Len(clauses) /\ k + 1 # 0 /\ k + 1 - 1 = k
  OBVIOUS
<1>2. Picked(clauses, section)[k + 1] = PickOn(clauses, section, Picked(clauses, section), k + 1)
  BY <1>1, PickedClauses
<1>3. QED
  BY <1>1, <1>2 DEF PickOn

\* A clause of a section that is there already.
LEMMA AddedToOld ==
    ASSUME NEW T, NEW clauses \in Seq(ClauseType(T)), NEW k \in Nat, k + 1 <= Len(clauses),
           NEW outline, OutlineUpTo(T, clauses, k, outline),
           NEW m0 \in DOMAIN outline, outline[m0].name = clauses[k + 1].section
    PROVE  OutlineUpTo(T, clauses, k + 1, AddToSection(outline, clauses[k + 1]))
<1> DEFINE c == clauses[k + 1]
           new == AddToSection(outline, c)
           n == Len(outline)
<1>1. /\ outline \in Seq(SectionType(T)) /\ n \in Nat /\ DOMAIN outline = 1..n
      /\ c \in ClauseType(T) /\ k + 1 \in 1..k + 1
  BY DEF OutlineUpTo
<1>0. /\ \A m \in 1..n : SectionUpTo(clauses, k, outline[m])
      /\ \A m, l \in 1..n : outline[m].name = outline[l].name => m = l
      /\ \A l \in 1..k : \E m \in 1..n : outline[m].name = clauses[l].section
  BY <1>1 DEF OutlineUpTo
<1>2. ASSUME NEW m \in 1..n
      PROVE  /\ outline[m].name \in T /\ outline[m].clauses \in Seq(ClauseType(T))
             /\ outline[m] = [name |-> outline[m].name, clauses |-> outline[m].clauses]
  <2>1. outline[m] \in SectionType(T)
    BY <1>1
  <2>2. QED
    BY <2>1 DEF SectionType
<1>3. new = [m \in 1..n |-> IF outline[m].name = c.section
                            THEN [outline[m] EXCEPT !.clauses = Append(@, c)] ELSE outline[m]]
  BY <1>1 DEF AddToSection
<1> HIDE DEF new, n
<1>4. ASSUME NEW m \in 1..n
      PROVE  /\ new[m].name = outline[m].name
             /\ new[m].clauses = IF outline[m].name = c.section
                                 THEN Append(outline[m].clauses, c) ELSE outline[m].clauses
             /\ new[m] \in SectionType(T)
  <2> DEFINE s == outline[m]
  <2>1. new[m] = IF s.name = c.section THEN [s EXCEPT !.clauses = Append(@, c)] ELSE s
    BY <1>3
  <2>2. /\ s.name \in T /\ s.clauses \in Seq(ClauseType(T))
        /\ s = [name |-> s.name, clauses |-> s.clauses]
    BY <1>2
  <2> HIDE DEF s, c
  <2>3. CASE s.name = c.section
    <3>1. new[m] = [name |-> s.name, clauses |-> Append(s.clauses, c)]
      BY <2>1, <2>2, <2>3
    <3>2. Append(s.clauses, c) \in Seq(ClauseType(T))
      BY <1>1, <2>2
    <3>3. QED
      BY <2>2, <2>3, <3>1, <3>2 DEF SectionType, s
  <2>4. CASE s.name # c.section
    BY <2>1, <2>2, <2>4 DEF SectionType, s
  <2>5. QED
    BY <2>3, <2>4
<1>5. new \in Seq(SectionType(T)) /\ DOMAIN new = 1..n
  <2>1. DOMAIN new = 1..n
    BY <1>3
  <2>2. new = [m \in 1..n |-> new[m]] /\ \A m \in 1..n : new[m] \in SectionType(T)
    BY <1>3, <1>4
  <2>3. new \in [1..n -> SectionType(T)]
    BY <2>1, <2>2
  <2>4. QED
    BY <1>1, <2>1, <2>3
<1>6. ASSUME NEW m \in 1..n
      PROVE  SectionUpTo(clauses, k + 1, new[m])
  <2>1. /\ outline[m].clauses = Picked(clauses, outline[m].name)[k] /\ outline[m].clauses # <<>>
        /\ \E l \in 1..k : clauses[l].section = outline[m].name
    BY <1>0 DEF SectionUpTo
  <2>2. Picked(clauses, outline[m].name)[k + 1] =
          IF c.section = outline[m].name THEN Append(Picked(clauses, outline[m].name)[k], c)
          ELSE Picked(clauses, outline[m].name)[k]
    BY PickedNext
  <2>3. Append(outline[m].clauses, c) # <<>>
    <3>1. outline[m].clauses \in Seq(ClauseType(T))
      BY <1>2
    <3>2. Len(Append(outline[m].clauses, c)) = Len(outline[m].clauses) + 1
          /\ Len(outline[m].clauses) \in Nat
      BY <1>1, <3>1
    <3>3. Len(<<>>) = 0
      OBVIOUS
    <3> DEFINE longer == Append(outline[m].clauses, c)
    <3> HIDE DEF longer
    <3>4. longer # <<>>
      BY <3>2, <3>3 DEF longer
    <3>5. QED
      BY <3>4 DEF longer
  <2>4. new[m].clauses = Picked(clauses, new[m].name)[k + 1] /\ new[m].clauses # <<>>
    BY <1>4, <2>1, <2>2, <2>3
  <2>5. QED
    BY <1>4, <2>1, <2>4 DEF SectionUpTo
<1>7. ASSUME NEW m \in 1..n, NEW l \in 1..n, new[m].name = new[l].name
      PROVE  m = l
  <2>1. outline[m].name = outline[l].name
    BY <1>4, <1>7
  <2>2. QED
    BY <1>0, <2>1
<1>8. ASSUME NEW l \in 1..k + 1
      PROVE  \E m \in 1..n : new[m].name = clauses[l].section
  <2>1. l = k + 1 \/ l \in 1..k
    OBVIOUS
  <2>2. \E m \in 1..n : outline[m].name = clauses[l].section
    BY <1>1, <1>0, <2>1
  <2>3. QED
    BY <1>4, <2>2
<1>9. OutlineUpTo(T, clauses, k + 1, new)
  BY <1>5, <1>6, <1>7, <1>8 DEF OutlineUpTo
<1>10. QED
  BY <1>9 DEF new

\* A clause that begins a section.
LEMMA AddedAsNew ==
    ASSUME NEW T, NEW clauses \in Seq(ClauseType(T)), NEW k \in Nat, k + 1 <= Len(clauses),
           NEW outline, OutlineUpTo(T, clauses, k, outline),
           \A m \in DOMAIN outline : outline[m].name # clauses[k + 1].section
    PROVE  OutlineUpTo(T, clauses, k + 1, AddToSection(outline, clauses[k + 1]))
<1> DEFINE c == clauses[k + 1]
           one == [name |-> c.section, clauses |-> <<c>>]
           new == AddToSection(outline, c)
           n == Len(outline)
<1>1. /\ outline \in Seq(SectionType(T)) /\ n \in Nat /\ DOMAIN outline = 1..n
      /\ c \in ClauseType(T) /\ k + 1 \in 1..k + 1
  BY DEF OutlineUpTo
<1>0. /\ \A m \in 1..n : SectionUpTo(clauses, k, outline[m]) /\ outline[m].name # c.section
      /\ \A m, l \in 1..n : outline[m].name = outline[l].name => m = l
      /\ \A l \in 1..k : \E m \in 1..n : outline[m].name = clauses[l].section
  BY <1>1 DEF OutlineUpTo
<1>2. new = Append(outline, one)
  BY DEF AddToSection
<1>3. one \in SectionType(T) /\ one.name = c.section /\ one.clauses = <<c>> /\ one.clauses # <<>>
  BY <1>1 DEF ClauseType, SectionType
<1> HIDE DEF new, n, one
<1>4. /\ new \in Seq(SectionType(T)) /\ DOMAIN new = 1..n + 1
      /\ new[n + 1] = one /\ \A m \in 1..n : new[m] = outline[m]
  BY <1>1, <1>2, <1>3 DEF n
<1>5. Picked(clauses, c.section)[k + 1] = <<c>>
  <2>1. ASSUME NEW l \in 1..k
        PROVE  clauses[l].section # c.section
    <3>1. PICK m \in 1..n : outline[m].name = clauses[l].section
      BY <1>0
    <3>2. outline[m].name # c.section
      BY <1>0
    <3>3. QED
      BY <3>1, <3>2
  <2>2. Picked(clauses, c.section)[k] = <<>>
    <3>1. k \in 0..Len(clauses)
      OBVIOUS
    <3>2. QED
      BY <2>1, <3>1, NothingPicked
  <2>3. Append(<<>>, c) = <<c>>
    OBVIOUS
  <2>4. Picked(clauses, c.section)[k + 1] = Append(Picked(clauses, c.section)[k], c)
    BY PickedNext
  <2>5. QED
    BY <2>2, <2>3, <2>4
<1>6. ASSUME NEW m \in 1..n + 1
      PROVE  SectionUpTo(clauses, k + 1, new[m])
  <2>1. CASE m = n + 1
    BY <1>1, <1>3, <1>4, <1>5, <2>1 DEF SectionUpTo
  <2>2. CASE m \in 1..n
    <3>1. /\ outline[m].clauses = Picked(clauses, outline[m].name)[k] /\ outline[m].clauses # <<>>
          /\ \E l \in 1..k : clauses[l].section = outline[m].name
          /\ outline[m].name # c.section
      BY <1>0, <2>2 DEF SectionUpTo
    <3>2. outline[m].clauses = Picked(clauses, outline[m].name)[k + 1]
      BY <3>1, PickedNext
    <3>3. QED
      BY <1>4, <2>2, <3>1, <3>2 DEF SectionUpTo
  <2>3. QED
    BY <1>1, <2>1, <2>2
<1>7. ASSUME NEW m \in 1..n + 1, NEW l \in 1..n + 1, new[m].name = new[l].name
      PROVE  m = l
  <2>1. m \in 1..n \/ m = n + 1
    BY <1>1
  <2>2. l \in 1..n \/ l = n + 1
    BY <1>1
  <2>3. CASE m \in 1..n /\ l \in 1..n
    <3>1. outline[m].name = outline[l].name
      BY <1>4, <1>7, <2>3
    <3>2. QED
      BY <1>0, <2>3, <3>1
  <2>4. CASE m \in 1..n /\ l = n + 1
    BY <1>0, <1>3, <1>4, <1>7, <2>4
  <2>5. CASE m = n + 1 /\ l \in 1..n
    BY <1>0, <1>3, <1>4, <1>7, <2>5
  <2>6. QED
    BY <2>1, <2>2, <2>3, <2>4, <2>5
<1>8. ASSUME NEW l \in 1..k + 1
      PROVE  \E m \in 1..n + 1 : new[m].name = clauses[l].section
  <2>1. CASE l = k + 1
    <3>1. n + 1 \in 1..n + 1
      BY <1>1
    <3>2. QED
      BY <1>3, <1>4, <2>1, <3>1
  <2>2. CASE l \in 1..k
    <3>1. PICK m \in 1..n : outline[m].name = clauses[l].section
      BY <1>0, <2>2
    <3>2. m \in 1..n + 1
      BY <1>1
    <3>3. new[m].name = clauses[l].section
      BY <1>4, <3>1
    <3>4. QED
      BY <3>2, <3>3
  <2>3. QED
    BY <2>1, <2>2
<1>9. OutlineUpTo(T, clauses, k + 1, new)
  BY <1>4, <1>6, <1>7, <1>8 DEF OutlineUpTo
<1>10. QED
  BY <1>9 DEF new


LEMMA OutlineGrows ==
    ASSUME NEW T, NEW clauses \in Seq(ClauseType(T)), NEW k \in Nat, k + 1 <= Len(clauses),
           NEW outline, OutlineUpTo(T, clauses, k, outline)
    PROVE  OutlineUpTo(T, clauses, k + 1, AddToSection(outline, clauses[k + 1]))
BY AddedToOld, AddedAsNew

\* Adding a clause to an outline gives one, whatever was added before.
LEMMA OutlineType ==
    ASSUME NEW T, NEW outline \in Seq(SectionType(T)), NEW c \in ClauseType(T)
    PROVE  AddToSection(outline, c) \in Seq(SectionType(T))
<1> DEFINE n == Len(outline)
           new == [m \in 1..n |-> IF outline[m].name = c.section
                                  THEN [outline[m] EXCEPT !.clauses = Append(@, c)] ELSE outline[m]]
           one == [name |-> c.section, clauses |-> <<c>>]
<1>1. n \in Nat /\ DOMAIN outline = 1..n
  OBVIOUS
<1>2. CASE \E k \in DOMAIN outline : outline[k].name = c.section
  <2>1. AddToSection(outline, c) = new
    BY <1>1, <1>2 DEF AddToSection
  <2>2. ASSUME NEW m \in 1..n
        PROVE  new[m] \in SectionType(T)
    <3> DEFINE s == outline[m]
    <3>1. new[m] = IF s.name = c.section THEN [s EXCEPT !.clauses = Append(@, c)] ELSE s
      OBVIOUS
    <3>2. s \in SectionType(T)
      BY <1>1
    <3> HIDE DEF s, new
    <3>3. Append(s.clauses, c) \in Seq(ClauseType(T))
      BY <3>2 DEF SectionType
    <3>4. QED
      BY <3>1, <3>2, <3>3 DEF SectionType
  <2>3. new \in [1..n -> SectionType(T)]
    <3>1. new = [m \in 1..n |-> new[m]]
      OBVIOUS
    <3> HIDE DEF new
    <3>2. QED
      BY <2>2, <3>1
  <2> HIDE DEF new, n
  <2>4. QED
    BY <1>1, <2>1, <2>3
<1>3. CASE ~\E k \in DOMAIN outline : outline[k].name = c.section
  <2>1. AddToSection(outline, c) = Append(outline, one)
    BY <1>3 DEF AddToSection
  <2>2. one \in SectionType(T)
    BY DEF SectionType, ClauseType
  <2> HIDE DEF one
  <2>3. QED
    BY <2>1, <2>2
<1>4. QED
  BY <1>2, <1>3

\* The loop of groupBySection.
GroupOn(clauses, g, k) == IF k = 0 THEN <<>> ELSE AddToSection(g[k - 1], clauses[k])
Grouped(clauses) == CHOOSE g : g = [k \in 0..Len(clauses) |-> GroupOn(clauses, g, k)]

LEMMA GroupsClauses ==
    ASSUME NEW T, NEW clauses \in Seq(ClauseType(T))
    PROVE  /\ \A k \in 0..Len(clauses) :
                Grouped(clauses)[k] = GroupOn(clauses, Grouped(clauses), k)
           /\ groupBySection(clauses) = Grouped(clauses)[Len(clauses)]
<1> DEFINE n == Len(clauses)
           g == Grouped(clauses)
           step == [k \in 1..n |-> [x \in Seq(SectionType(T)) |-> AddToSection(x, clauses[k])]]
<1>1. n \in Nat /\ \A k \in 1..n : clauses[k] \in ClauseType(T)
  OBVIOUS
<1>2. step \in [1..n -> [Seq(SectionType(T)) -> Seq(SectionType(T))]]
  BY <1>1, OutlineType
<1>3. PICK f \in [0..n -> Seq(SectionType(T))] : Rounds(n, <<>>, step, f)
  <2>1. <<>> \in Seq(SectionType(T))
    OBVIOUS
  <2> HIDE DEF step, n
  <2>2. QED
    BY <1>1, <1>2, <2>1, LoopRuns
<1>4. ASSUME NEW k \in 0..n
      PROVE  (IF k = 0 THEN <<>> ELSE step[k][f[k - 1]]) = GroupOn(clauses, f, k)
  <2>1. CASE k = 0
    BY <2>1 DEF GroupOn
  <2>2. CASE k # 0
    <3>1. k \in 1..n /\ k - 1 \in 0..n
      BY <1>1, <2>2
    <3>2. f[k - 1] \in Seq(SectionType(T))
      BY <3>1
    <3>3. \A x \in Seq(SectionType(T)) : step[k][x] = AddToSection(x, clauses[k])
      BY <3>1
    <3> HIDE DEF step, n
    <3>4. QED
      BY <2>2, <3>2, <3>3 DEF GroupOn
  <2>3. QED
    BY <2>1, <2>2
<1>5. f = [k \in 0..n |-> GroupOn(clauses, f, k)]
  <2> HIDE DEF step
  <2>1. QED
    BY <1>3, <1>4 DEF Rounds
<1>6. g = [k \in 0..n |-> GroupOn(clauses, g, k)]
  BY <1>5 DEF Grouped
<1>7. groupBySection(clauses) = g[n]
  BY DEF groupBySection, Grouped, GroupOn
<1> HIDE DEF g, n
<1>8. \A k \in 0..n : g[k] = GroupOn(clauses, g, k)
  BY <1>6
<1>9. QED
  BY <1>7, <1>8 DEF g, n

\* The outline keeps every clause, in its section and in order, for every contract.
THEOREM OutlineExact ==
    ASSUME NEW T, NEW clauses \in Seq(ClauseType(T))
    PROVE  IsOutline(groupBySection(clauses), clauses)
<1> DEFINE n == Len(clauses)
           g == Grouped(clauses)
           S == {k \in Nat : k <= n => OutlineUpTo(T, clauses, k, g[k])}
<1>1. n \in Nat /\ DOMAIN clauses = 1..n
  OBVIOUS
<1>2. \A k \in 0..n : g[k] = GroupOn(clauses, g, k)
  BY GroupsClauses
<1>3. groupBySection(clauses) = g[n]
  BY GroupsClauses
<1> HIDE DEF g
<1>4. 0 \in S
  <2>1. g[0] = GroupOn(clauses, g, 0)
    BY <1>1, <1>2
  <2>2. g[0] = <<>>
    BY <2>1 DEF GroupOn
  <2>3. OutlineUpTo(T, clauses, 0, <<>>)
    BY DEF OutlineUpTo
  <2>4. QED
    BY <2>2, <2>3
<1>5. ASSUME NEW k \in Nat, k \in S
      PROVE  k + 1 \in S
  <2> SUFFICES ASSUME k + 1 <= n
               PROVE  OutlineUpTo(T, clauses, k + 1, g[k + 1])
    OBVIOUS
  <2>1. k + 1 \in 0..n /\ k + 1 # 0 /\ k + 1 - 1 = k
    BY <1>1
  <2>2. g[k + 1] = AddToSection(g[k], clauses[k + 1])
    BY <1>2, <2>1 DEF GroupOn
  <2>3. OutlineUpTo(T, clauses, k, g[k])
    BY <1>1, <1>5
  <2>4. QED
    BY <2>2, <2>3, OutlineGrows
<1> HIDE DEF S
<1>6. \A k \in Nat : k \in S
  BY <1>4, <1>5, NatSteps
<1>7. OutlineUpTo(T, clauses, n, g[n])
  BY <1>1, <1>6 DEF S
<1> DEFINE outline == g[n]
<1> HIDE DEF outline
<1>8. OutlineUpTo(T, clauses, n, outline)
  BY <1>7 DEF outline
<1>9. \A k \in DOMAIN outline : SectionUpTo(clauses, n, outline[k])
  BY <1>8 DEF OutlineUpTo
<1>10. \A k \in DOMAIN outline :
         /\ outline[k].clauses = ClausesIn(clauses, outline[k].name)
         /\ outline[k].clauses # <<>>
  BY <1>9, PickedClauses DEF SectionUpTo
<1>11. {clauses[i].section : i \in DOMAIN clauses} = {outline[k].name : k \in DOMAIN outline}
  <2>1. \A i \in 1..n : \E k \in DOMAIN outline : outline[k].name = clauses[i].section
    BY <1>8 DEF OutlineUpTo
  <2>2. \A k \in DOMAIN outline : \E i \in 1..n : clauses[i].section = outline[k].name
    BY <1>9 DEF SectionUpTo
  <2>3. \A i \in 1..n : clauses[i].section \in {outline[k].name : k \in DOMAIN outline}
    BY <2>1
  <2>4. \A k \in DOMAIN outline : outline[k].name \in {clauses[i].section : i \in 1..n}
    BY <2>2
  <2>5. QED
    BY <1>1, <2>3, <2>4, Zenon
<1>12. IsOutline(outline, clauses)
  BY <1>8, <1>10, <1>11 DEF OutlineUpTo, IsOutline
<1>13. QED
  BY <1>3, <1>12 DEF outline


(***************************************************************************)
(* The exposure card                                                       *)
(***************************************************************************)

\* A strict order in which any two members of a set are comparable, as its pairs.
TotallyOrders(order, R) ==
    /\ \A r \in R : <<r, r>> \notin order
    /\ \A r, s, t \in R : <<r, s>> \in order /\ <<s, t>> \in order => <<r, t>> \in order
    /\ \A r, s \in R : r = s \/ <<r, s>> \in order \/ <<s, r>> \in order

Below(order, R, r) == {s \in R : <<s, r>> \in order}

\* Counting what comes before gives every member of a finite set a place of its own,
\* and every place a member.
LEMMA RankGrows ==
    ASSUME NEW R, IsFiniteSet(R), NEW order, TotallyOrders(order, R),
           NEW r \in R, NEW s \in R, <<r, s>> \in order
    PROVE  Cardinality(Below(order, R, r)) < Cardinality(Below(order, R, s))
<1> DEFINE A == Below(order, R, r)
           B == Below(order, R, s)
<1>1. B \in SUBSET R
  BY DEF Below
<1>2. A \in SUBSET B
  BY DEF Below, TotallyOrders
<1>3. r \in B /\ r \notin A
  BY DEF Below, TotallyOrders
<1> HIDE DEF A, B
<1>4. IsFiniteSet(B)
  BY <1>1, FS_Subset
<1>5. /\ IsFiniteSet(A) /\ Cardinality(A) <= Cardinality(B)
      /\ (Cardinality(B) = Cardinality(A) => B = A)
  BY <1>2, <1>4, FS_Subset
<1>6. Cardinality(A) \in Nat /\ Cardinality(B) \in Nat
  BY <1>4, <1>5, FS_CardinalityType
<1>7. Cardinality(A) < Cardinality(B)
  BY <1>3, <1>5, <1>6
<1>8. QED
  BY <1>7 DEF A, B

LEMMA Ranked ==
    ASSUME NEW R, IsFiniteSet(R), NEW order, TotallyOrders(order, R)
    PROVE  /\ Cardinality(R) \in Nat
           /\ \A r \in R : Cardinality(Below(order, R, r)) \in 0..Cardinality(R) - 1
           /\ \A i \in 0..Cardinality(R) - 1 : \E r \in R : Cardinality(Below(order, R, r)) = i
<1> DEFINE n == Cardinality(R)
           rank == [r \in R |-> Cardinality(Below(order, R, r))]
<1>1. n \in Nat
  BY FS_CardinalityType
<1>2. ASSUME NEW r \in R
      PROVE  Cardinality(Below(order, R, r)) \in 0..n - 1
  <2> DEFINE A == Below(order, R, r)
  <2>1. A \in SUBSET R /\ r \notin A
    BY DEF Below, TotallyOrders
  <2> HIDE DEF A
  <2>2. IsFiniteSet(A) /\ Cardinality(A) <= n /\ (n = Cardinality(A) => R = A)
    BY <2>1, FS_Subset
  <2>3. Cardinality(A) \in Nat
    BY <2>2, FS_CardinalityType
  <2>4. Cardinality(A) \in 0..n - 1
    BY <1>1, <2>1, <2>2, <2>3
  <2>5. QED
    BY <2>4 DEF A
<1>3. rank \in [R -> 0..n - 1]
  BY <1>2
<1>4. ASSUME NEW r \in R, NEW s \in R, rank[r] = rank[s]
      PROVE  r = s
  <2>1. rank[r] \in Int /\ rank[s] \in Int
    BY <1>3
  <2>2. ~(rank[r] < rank[s]) /\ ~(rank[s] < rank[r])
    BY <1>4, <2>1
  <2>3. <<r, s>> \notin order /\ <<s, r>> \notin order
    BY <2>2, RankGrows
  <2>4. QED
    BY <2>3 DEF TotallyOrders
<1>5. rank \in Injection(R, 0..n - 1)
  <2> HIDE DEF rank, n
  <2>1. QED
    BY <1>3, <1>4 DEF Injection, IsInjective
<1>6. IsFiniteSet(0..n - 1) /\ Cardinality(0..n - 1) = n
  <2> HIDE DEF n
  <2>1. 0 \in Int /\ n - 1 \in Int
    BY <1>1
  <2>2. IsFiniteSet(0..n - 1) /\ Cardinality(0..n - 1) = IF 0 > n - 1 THEN 0 ELSE n - 1 - 0 + 1
    BY <2>1, FS_Interval
  <2>3. QED
    BY <1>1, <2>2
<1>7. rank \in Surjection(R, 0..n - 1)
  <2> HIDE DEF rank
  <2>1. QED
    BY <1>5, <1>6, FS_Injection
<1>8. \A i \in 0..n - 1 : \E r \in R : rank[r] = i
  <2> HIDE DEF rank, n
  <2>1. QED
    BY <1>7 DEF Surjection
<1>9. QED
  BY <1>1, <1>2, <1>8


FindingType(D, T) == [id : T, severity : Levels, documentId : D, status : T]
DocumentsOf(findings) == {findings[i].documentId : i \in DOMAIN findings}
FindingsOf(findings, id) == {i \in DOMAIN findings : findings[i].documentId = id}
Worse(findings, rows) ==
    {p \in rows \X rows : Before(findings, p[1], p[2])}
RowsOf(findings, ids) == {Counted(findings, id) : id \in ids}

LEMMA PlacesFinite ==
    ASSUME NEW X, NEW s \in Seq(X)
    PROVE  /\ Len(s) \in Nat /\ DOMAIN s = 1..Len(s)
           /\ IsFiniteSet(DOMAIN s) /\ Cardinality(DOMAIN s) = Len(s)
           /\ \A A \in SUBSET DOMAIN s : IsFiniteSet(A) /\ Cardinality(A) \in Nat
<1> DEFINE n == Len(s)
<1>1. n \in Nat /\ DOMAIN s = 1..n
  OBVIOUS
<1>2. IsFiniteSet(1..n) /\ Cardinality(1..n) = n
  <2> HIDE DEF n
  <2>1. IsFiniteSet(1..n) /\ Cardinality(1..n) = IF 1 > n THEN 0 ELSE n - 1 + 1
    BY <1>1, FS_Interval
  <2>2. QED
    BY <1>1, <2>1
<1>3. \A A \in SUBSET (1..n) : IsFiniteSet(A) /\ Cardinality(A) \in Nat
  BY <1>2, FS_Subset, FS_CardinalityType
<1>4. QED
  BY <1>1, <1>2, <1>3

\* The first finding of a contract that has any.
LEMMA FirstOf ==
    ASSUME NEW D, NEW T, NEW findings \in Seq(FindingType(D, T)), NEW id \in DocumentsOf(findings)
    PROVE  /\ FirstFinding(findings, id) \in DOMAIN findings
           /\ FirstFinding(findings, id) \in Nat
           /\ findings[FirstFinding(findings, id)].documentId = id
<1> DEFINE F == FindingsOf(findings, id)
<1>1. DOMAIN findings = 1..Len(findings) /\ Len(findings) \in Nat
  OBVIOUS
<1>2. F # {} /\ F \in SUBSET Nat
  BY <1>1 DEF DocumentsOf, FindingsOf
<1> HIDE DEF F
<1>3. PICK i \in F : \A j \in F : i <= j
  BY <1>2, NatLeast
<1>4. i \in DOMAIN findings /\ findings[i].documentId = id
  BY DEF F, FindingsOf
<1>5. ASSUME NEW j \in 1..i - 1
      PROVE  findings[j].documentId # id
  <2>1. j \in DOMAIN findings /\ ~(i <= j)
    BY <1>1, <1>4
  <2>2. QED
    BY <1>3, <2>1 DEF F, FindingsOf
<1>6. /\ FirstFinding(findings, id) \in DOMAIN findings
      /\ findings[FirstFinding(findings, id)].documentId = id
  BY <1>4, <1>5 DEF FirstFinding
<1>7. QED
  BY <1>1, <1>6

\* The counts of a line are those of its contract's findings.
LEMMA CountedAll ==
    ASSUME NEW D, NEW T, NEW findings \in Seq(FindingType(D, T)), NEW id
    PROVE  LET row == Counted(findings, id)
           IN /\ row.id = id /\ row.high \in Nat /\ row.medium \in Nat /\ row.low \in Nat
              /\ row.high + row.medium + row.low = Cardinality(FindingsOf(findings, id))
<1> DEFINE At(level) == {i \in OfLevel(findings, level) : findings[i].documentId = id}
           H == At("high")
           M == At("medium")
           L == At("low")
           HM == H \cup M
           row == Counted(findings, id)
<1>1. /\ row.id = id /\ row.high = Cardinality(H) /\ row.medium = Cardinality(M)
      /\ row.low = Cardinality(L)
  BY DEF Counted
<1>2. \A i \in DOMAIN findings : findings[i].severity \in Levels
  <2>1. \A i \in DOMAIN findings : findings[i] \in FindingType(D, T)
    OBVIOUS
  <2>2. QED
    BY <2>1 DEF FindingType
<1>3. /\ H \in SUBSET DOMAIN findings /\ M \in SUBSET DOMAIN findings
      /\ L \in SUBSET DOMAIN findings
      /\ FindingsOf(findings, id) = HM \cup L
      /\ H \cap M = {} /\ HM \cap L = {}
  BY <1>2 DEF OfLevel, FindingsOf, Levels
<1> HIDE DEF H, M, L, HM, row
<1>4. /\ IsFiniteSet(H) /\ IsFiniteSet(M) /\ IsFiniteSet(L)
      /\ Cardinality(H) \in Nat /\ Cardinality(M) \in Nat /\ Cardinality(L) \in Nat
  BY <1>3, PlacesFinite
<1>5. Cardinality(H \cap M) = 0 /\ Cardinality(HM \cap L) = 0
  BY <1>3, FS_EmptySet, Zenon
<1>6. IsFiniteSet(HM) /\ Cardinality(HM) = Cardinality(H) + Cardinality(M)
  <2>1. IsFiniteSet(H \cup M)
        /\ Cardinality(H \cup M) = Cardinality(H) + Cardinality(M) - Cardinality(H \cap M)
    BY <1>4, FS_Union
  <2>2. QED
    BY <1>4, <1>5, <2>1 DEF HM
<1>7. Cardinality(HM \cup L) = Cardinality(HM) + Cardinality(L)
  <2>1. Cardinality(HM \cup L) = Cardinality(HM) + Cardinality(L) - Cardinality(HM \cap L)
    BY <1>4, <1>6, FS_Union
  <2>2. QED
    BY <1>4, <1>5, <1>6, <2>1
<1>8. Cardinality(FindingsOf(findings, id)) = Cardinality(H) + Cardinality(M) + Cardinality(L)
  BY <1>3, <1>6, <1>7
<1>9. QED
  BY <1>1, <1>4, <1>8 DEF row

\* By weight and, among equals, by their first finding, all lines are in an order.
LEMMA LinesOrdered ==
    ASSUME NEW D, NEW T, NEW findings \in Seq(FindingType(D, T))
    PROVE  LET rows == RowsOf(findings, DocumentsOf(findings))
           IN /\ TotallyOrders(Worse(findings, rows), rows)
              /\ \A r \in rows : Weight(r) \in Nat
<1> DEFINE rows == RowsOf(findings, DocumentsOf(findings))
           order == Worse(findings, rows)
           first(r) == FirstFinding(findings, r.id)
<1>1. ASSUME NEW r \in rows
      PROVE  /\ Weight(r) \in Nat /\ first(r) \in Nat
             /\ findings[first(r)].documentId = r.id
             /\ r = Counted(findings, r.id)
  <2>1. PICK id \in DocumentsOf(findings) : r = Counted(findings, id)
    BY DEF RowsOf
  <2>2. r.id = id /\ r.high \in Nat /\ r.medium \in Nat
    BY <2>1, CountedAll
  <2>3. QED
    BY <2>1, <2>2, FirstOf DEF Weight
<1>2. \A r, s \in rows : <<r, s>> \in order <=> Before(findings, r, s)
  BY DEF Worse
<1> HIDE DEF rows, order
<1>3. ASSUME NEW r \in rows
      PROVE  <<r, r>> \notin order
  <2>1. Weight(r) \in Nat /\ first(r) \in Nat
    BY <1>1
  <2>2. ~Before(findings, r, r)
    BY <2>1 DEF Before
  <2>3. QED
    BY <1>2, <2>2
<1>4. ASSUME NEW r \in rows, NEW s \in rows, NEW t \in rows,
             <<r, s>> \in order, <<s, t>> \in order
      PROVE  <<r, t>> \in order
  <2>1. /\ Weight(r) \in Nat /\ first(r) \in Nat /\ Weight(s) \in Nat /\ first(s) \in Nat
        /\ Weight(t) \in Nat /\ first(t) \in Nat
    BY <1>1
  <2>2. Before(findings, r, s) /\ Before(findings, s, t)
    BY <1>2, <1>4
  <2>3. Before(findings, r, t)
    BY <2>1, <2>2 DEF Before
  <2>4. QED
    BY <1>2, <2>3
<1>5. ASSUME NEW r \in rows, NEW s \in rows, r # s
      PROVE  <<r, s>> \in order \/ <<s, r>> \in order
  <2>1. /\ Weight(r) \in Nat /\ first(r) \in Nat /\ Weight(s) \in Nat /\ first(s) \in Nat
    BY <1>1
  <2>2. first(r) # first(s)
    BY <1>1, <1>5
  <2>3. Before(findings, r, s) \/ Before(findings, s, r)
    BY <2>1, <2>2 DEF Before
  <2>4. QED
    BY <1>2, <2>3
<1>6. TotallyOrders(order, rows)
  BY <1>3, <1>4, <1>5 DEF TotallyOrders
<1>7. QED
  BY <1>1, <1>6 DEF rows, order


LEMMA RowsFinite ==
    ASSUME NEW D, NEW T, NEW findings \in Seq(FindingType(D, T))
    PROVE  IsFiniteSet(RowsOf(findings, DocumentsOf(findings)))
<1> DEFINE rows == RowsOf(findings, DocumentsOf(findings))
           f == [i \in DOMAIN findings |-> Counted(findings, findings[i].documentId)]
<1>1. f \in [DOMAIN findings -> rows]
  BY DEF RowsOf, DocumentsOf
<1>2. ASSUME NEW r \in rows
      PROVE  \E i \in DOMAIN findings : f[i] = r
  <2>1. PICK i \in DOMAIN findings : r = Counted(findings, findings[i].documentId)
    BY DEF RowsOf, DocumentsOf
  <2>2. QED
    BY <2>1
<1> HIDE DEF f, rows
<1>3. f \in Surjection(DOMAIN findings, rows)
  BY <1>1, <1>2 DEF Surjection
<1>4. IsFiniteSet(DOMAIN findings)
  BY PlacesFinite
<1>5. IsFiniteSet(rows)
  BY <1>3, <1>4, FS_Surjection
<1>6. QED
  BY <1>5 DEF rows

\* Every line of the card has one place, and those before it are worse.
LEMMA LinesPlaced ==
    ASSUME NEW D, NEW T, NEW findings \in Seq(FindingType(D, T))
    PROVE  LET rows == RowsOf(findings, DocumentsOf(findings))
               lines == RiskExposure(findings)
           IN /\ lines \in Seq(rows)
              /\ \A i, j \in 1..Len(lines) : i < j => Before(findings, lines[i], lines[j])
              /\ \A r \in rows : \E i \in 1..Len(lines) : lines[i] = r
<1> DEFINE rows == RowsOf(findings, DocumentsOf(findings))
           order == Worse(findings, rows)
           lines == RiskExposure(findings)
           n == Cardinality(rows)
           place(r) == Cardinality(Below(order, rows, r))
<1>1. TotallyOrders(order, rows)
  BY LinesOrdered
<1>2. IsFiniteSet(rows)
  BY RowsFinite
<1>3. ASSUME NEW r \in rows
      PROVE  {s \in rows : Before(findings, s, r)} = Below(order, rows, r)
  BY DEF Worse, Below
<1>4. lines = [i \in 1..n |->
                 CHOOSE r \in rows : Cardinality({s \in rows : Before(findings, s, r)}) = i - 1]
  BY DEF RiskExposure, Lines, RowsOf, DocumentsOf
<1>5. \A r, s \in rows : <<r, s>> \in order <=> Before(findings, r, s)
  BY DEF Worse
<1> HIDE DEF rows, order, lines
<1>6. /\ n \in Nat
      /\ \A r \in rows : place(r) \in 0..n - 1
      /\ \A i \in 0..n - 1 : \E r \in rows : place(r) = i
  BY <1>1, <1>2, Ranked
<1>7. ASSUME NEW i \in 1..n
      PROVE  lines[i] \in rows /\ place(lines[i]) = i - 1
  <2>1. lines[i] = CHOOSE r \in rows : Cardinality({s \in rows : Before(findings, s, r)}) = i - 1
    BY <1>4
  <2>2. i - 1 \in 0..n - 1
    BY <1>6
  <2>3. PICK q \in rows : place(q) = i - 1
    BY <1>6, <2>2
  <2>4. Cardinality({s \in rows : Before(findings, s, q)}) = i - 1
    BY <1>3, <2>3, Zenon
  <2>5. lines[i] \in rows /\ Cardinality({s \in rows : Before(findings, s, lines[i])}) = i - 1
    BY <2>1, <2>4, Zenon
  <2>6. QED
    BY <1>3, <2>5, Zenon
<1>8. lines \in [1..n -> rows]
  <2> DEFINE line(i) ==
        CHOOSE r \in rows : Cardinality({s \in rows : Before(findings, s, r)}) = i - 1
  <2>1. lines = [i \in 1..n |-> line(i)]
    BY <1>4
  <2> HIDE DEF line
  <2>2. QED
    BY <1>7, <2>1
<1>9. lines \in Seq(rows) /\ Len(lines) = n
  <2> HIDE DEF n
  <2>1. QED
    BY <1>6, <1>8
<1>10. \A r, s \in rows : <<r, s>> \in order => place(r) < place(s)
  BY <1>1, <1>2, RankGrows
<1>11. \A r, s \in rows : r = s \/ <<r, s>> \in order \/ <<s, r>> \in order
  BY <1>1 DEF TotallyOrders
<1> HIDE DEF place
<1>12. ASSUME NEW i \in 1..n, NEW j \in 1..n, i < j
       PROVE  Before(findings, lines[i], lines[j])
  <2>1. /\ lines[i] \in rows /\ lines[j] \in rows
        /\ place(lines[i]) = i - 1 /\ place(lines[j]) = j - 1
    BY <1>7
  <2> HIDE DEF n
  <2>2. lines[i] # lines[j] /\ ~(place(lines[j]) < place(lines[i]))
    BY <1>6, <1>12, <2>1
  <2>3. <<lines[i], lines[j]>> \in order
    BY <1>10, <1>11, <2>1, <2>2
  <2>4. QED
    BY <1>5, <2>1, <2>3
<1>13. ASSUME NEW r \in rows
       PROVE  \E i \in 1..n : lines[i] = r
  <2> DEFINE i == place(r) + 1
  <2>1. place(r) \in 0..n - 1 /\ i \in 1..n /\ i - 1 = place(r)
    <3>1. place(r) \in 0..n - 1
      BY <1>6 DEF place
    <3> HIDE DEF n
    <3>2. QED
      BY <1>6, <3>1
  <2>2. lines[i] \in rows /\ place(lines[i]) = i - 1
    BY <1>7, <2>1
  <2> HIDE DEF i, n
  <2>3. ~(place(r) < place(lines[i])) /\ ~(place(lines[i]) < place(r))
    BY <1>6, <2>1, <2>2
  <2>4. lines[i] = r
    BY <1>10, <1>11, <2>2, <2>3
  <2>5. QED
    BY <2>1, <2>4
<1>14. QED
  BY <1>9, <1>12, <1>13 DEF rows, lines


\* The sum of the card, line by line.
SumOn(rows, f, k) ==
    IF k = 0 THEN 0 ELSE f[k - 1] + rows[k].high + rows[k].medium + rows[k].low
Summed(rows) == CHOOSE f : f = [k \in 0..Len(rows) |-> SumOn(rows, f, k)]

LEMMA SumsUp ==
    ASSUME NEW rows, Len(rows) \in Nat,
           \A k \in 1..Len(rows) : /\ rows[k].high \in Nat /\ rows[k].medium \in Nat
                                   /\ rows[k].low \in Nat
    PROVE  /\ \A k \in 0..Len(rows) : Summed(rows)[k] = SumOn(rows, Summed(rows), k)
           /\ Exposed(rows) = Summed(rows)[Len(rows)]
<1> DEFINE n == Len(rows)
           g == Summed(rows)
           add(k, x) == x + rows[k].high + rows[k].medium + rows[k].low
           step == [k \in 1..n |-> [x \in Nat |-> add(k, x)]]
<1>1. ASSUME NEW k \in 1..n, NEW x \in Nat
      PROVE  add(k, x) \in Nat
  <2> DEFINE high == rows[k].high
             medium == rows[k].medium
             low == rows[k].low
  <2>1. high \in Nat /\ medium \in Nat /\ low \in Nat
    OBVIOUS
  <2> HIDE DEF high, medium, low
  <2>2. x + high + medium + low \in Nat
    BY <2>1
  <2>3. QED
    BY <2>2 DEF high, medium, low
<1>2. step \in [1..n -> [Nat -> Nat]]
  <2> HIDE DEF add, n
  <2>1. QED
    BY <1>1
<1>3. PICK f \in [0..n -> Nat] : Rounds(n, 0, step, f)
  <2> HIDE DEF step
  <2>1. QED
    BY <1>2, LoopRuns
<1>4. ASSUME NEW k \in 0..n
      PROVE  (IF k = 0 THEN 0 ELSE step[k][f[k - 1]]) = SumOn(rows, f, k)
  <2>1. CASE k = 0
    BY <2>1 DEF SumOn
  <2>2. CASE k # 0
    <3>1. k \in 1..n /\ k - 1 \in 0..n
      BY <2>2
    <3>2. f[k - 1] \in Nat
      BY <3>1
    <3>3. \A x \in Nat : step[k][x] = x + rows[k].high + rows[k].medium + rows[k].low
      BY <3>1
    <3> HIDE DEF step, n
    <3>4. QED
      BY <2>2, <3>2, <3>3 DEF SumOn
  <2>3. QED
    BY <2>1, <2>2
<1>5. f = [k \in 0..n |-> SumOn(rows, f, k)]
  <2> HIDE DEF step
  <2>1. QED
    BY <1>3, <1>4 DEF Rounds
<1>6. g = [k \in 0..n |-> SumOn(rows, g, k)]
  BY <1>5 DEF Summed
<1>7. Exposed(rows) = g[n]
  BY DEF Exposed, Summed, SumOn
<1> HIDE DEF g, n
<1>8. \A k \in 0..n : g[k] = SumOn(rows, g, k)
  BY <1>6
<1>9. QED
  BY <1>7, <1>8 DEF g, n

\* The findings of the contracts on the first k lines.
FoundBy(findings, lines, k) ==
    {i \in DOMAIN findings : \E m \in 1..k : findings[i].documentId = lines[m].id}

LEMMA FoundNext ==
    ASSUME NEW D, NEW T, NEW findings \in Seq(FindingType(D, T)), NEW lines, NEW k \in Nat,
           \A m \in 1..k : lines[m].id # lines[k + 1].id
    PROVE  Cardinality(FoundBy(findings, lines, k + 1)) =
             Cardinality(FoundBy(findings, lines, k))
               + Cardinality(FindingsOf(findings, lines[k + 1].id))
<1> DEFINE A == FoundBy(findings, lines, k)
           B == FindingsOf(findings, lines[k + 1].id)
<1>1. A \in SUBSET DOMAIN findings /\ B \in SUBSET DOMAIN findings /\ A \cap B = {}
  BY DEF FoundBy, FindingsOf
<1>2. FoundBy(findings, lines, k + 1) = A \cup B
  <2>1. \A m \in 1..k + 1 : m \in 1..k \/ m = k + 1
    OBVIOUS
  <2>2. \A m \in 1..k : m \in 1..k + 1
    OBVIOUS
  <2>3. k + 1 \in 1..k + 1
    OBVIOUS
  <2>4. QED
    BY <2>1, <2>2, <2>3 DEF FoundBy, FindingsOf
<1> HIDE DEF A, B
<1>3. /\ IsFiniteSet(A) /\ IsFiniteSet(B) /\ Cardinality(A) \in Nat /\ Cardinality(B) \in Nat
  BY <1>1, PlacesFinite
<1>4. Cardinality(A \cap B) = 0
  BY <1>1, FS_EmptySet, Zenon
<1>5. Cardinality(A \cup B) = Cardinality(A) + Cardinality(B) - Cardinality(A \cap B)
  BY <1>3, FS_Union
<1>6. Cardinality(A \cup B) = Cardinality(A) + Cardinality(B)
  BY <1>3, <1>4, <1>5
<1>7. QED
  BY <1>2, <1>6, Zenon DEF A, B

\* The exposure card accounts for every finding, whatever the API answers.
THEOREM ExposureExact ==
    ASSUME NEW D, NEW T, NEW findings \in Seq(FindingType(D, T))
    PROVE  IsExposure(RiskExposure(findings), findings)
<1> DEFINE rows == RowsOf(findings, DocumentsOf(findings))
           lines == RiskExposure(findings)
           n == Len(lines)
           sum == Summed(lines)
           S == {k \in Nat : k <= n => sum[k] = Cardinality(FoundBy(findings, lines, k))}
<1>1. /\ lines \in Seq(rows)
      /\ \A i, j \in 1..n : i < j => Before(findings, lines[i], lines[j])
      /\ \A r \in rows : \E i \in 1..n : lines[i] = r
  BY LinesPlaced
<1>2. ASSUME NEW r \in rows
      PROVE  /\ r.high \in Nat /\ r.medium \in Nat /\ r.low \in Nat
             /\ r.high + r.medium + r.low = Cardinality(FindingsOf(findings, r.id))
             /\ Weight(r) \in Nat
             /\ r = Counted(findings, r.id)
  <2>1. PICK id \in DocumentsOf(findings) : r = Counted(findings, id)
    BY DEF RowsOf
  <2>2. /\ r.id = id /\ r.high \in Nat /\ r.medium \in Nat /\ r.low \in Nat
        /\ r.high + r.medium + r.low = Cardinality(FindingsOf(findings, id))
    BY <2>1, CountedAll
  <2>3. QED
    BY <2>1, <2>2 DEF Weight
<1>3. ASSUME NEW id \in DocumentsOf(findings)
      PROVE  \E r \in rows : r.id = id
  <2>1. Counted(findings, id).id = id
    BY CountedAll
  <2>2. Counted(findings, id) \in rows
    BY DEF RowsOf
  <2>3. QED
    BY <2>1, <2>2
<1> HIDE DEF rows, lines, sum
<1>4. n \in Nat /\ \A i \in 1..n : lines[i] \in rows
  BY <1>1
<1>5. /\ \A k \in 0..n : sum[k] = SumOn(lines, sum, k)
      /\ Exposed(lines) = sum[n]
  BY <1>2, <1>4, SumsUp DEF sum
<1>6. ASSUME NEW i \in 1..n, NEW j \in 1..n, i < j
      PROVE  lines[i].id # lines[j].id
  <2>1. lines[i] \in rows /\ lines[j] \in rows /\ Before(findings, lines[i], lines[j])
    BY <1>1, <1>4, <1>6
  <2>2. TotallyOrders(Worse(findings, rows), rows)
    BY LinesOrdered DEF rows
  <2>3. lines[i] # lines[j]
    BY <2>1, <2>2 DEF TotallyOrders, Worse
  <2>4. QED
    BY <1>2, <2>1, <2>3
<1>7. 0 \in S
  <2>1. FoundBy(findings, lines, 0) = {}
    BY DEF FoundBy
  <2>2. Cardinality(FoundBy(findings, lines, 0)) = 0
    BY <2>1, FS_EmptySet, Zenon
  <2>3. sum[0] = 0
    BY <1>4, <1>5 DEF SumOn
  <2>4. QED
    BY <2>2, <2>3
<1>8. ASSUME NEW k \in Nat, k \in S
      PROVE  k + 1 \in S
  <2> SUFFICES ASSUME k + 1 <= n
               PROVE  sum[k + 1] = Cardinality(FoundBy(findings, lines, k + 1))
    OBVIOUS
  <2> DEFINE r == lines[k + 1]
  <2>1. k + 1 \in 0..n /\ k + 1 \in 1..n /\ k + 1 # 0 /\ k + 1 - 1 = k /\ k <= n
    BY <1>4
  <2>2. sum[k] = Cardinality(FoundBy(findings, lines, k))
    BY <1>8, <2>1
  <2>3. sum[k + 1] = sum[k] + r.high + r.medium + r.low
    <3>1. sum[k + 1] = SumOn(lines, sum, k + 1)
      BY <1>5, <2>1
    <3>2. QED
      BY <2>1, <3>1 DEF SumOn
  <2>4. \A m \in 1..k : lines[m].id # r.id
    <3>1. \A m \in 1..k : m \in 1..n /\ m < k + 1
      BY <2>1
    <3> HIDE DEF n
    <3>2. QED
      BY <1>6, <2>1, <3>1
  <2>5. Cardinality(FoundBy(findings, lines, k + 1)) =
          Cardinality(FoundBy(findings, lines, k)) + Cardinality(FindingsOf(findings, r.id))
    BY <2>4, FoundNext
  <2>6. /\ r.high \in Nat /\ r.medium \in Nat /\ r.low \in Nat
        /\ r.high + r.medium + r.low = Cardinality(FindingsOf(findings, r.id))
    BY <1>2, <1>4, <2>1
  <2>7. FoundBy(findings, lines, k) \in SUBSET DOMAIN findings
    BY DEF FoundBy
  <2>8. Cardinality(FoundBy(findings, lines, k)) \in Nat
    BY <2>7, PlacesFinite
  <2> HIDE DEF r
  <2>9. QED
    BY <2>2, <2>3, <2>5, <2>6, <2>8
<1> HIDE DEF S
<1>9. \A k \in Nat : k \in S
  BY <1>7, <1>8, NatSteps
<1>10. Exposed(lines) = Cardinality(FoundBy(findings, lines, n))
  BY <1>4, <1>5, <1>9 DEF S
<1>11. FoundBy(findings, lines, n) = DOMAIN findings
  <2>1. ASSUME NEW i \in DOMAIN findings
        PROVE  \E m \in 1..n : findings[i].documentId = lines[m].id
    <3>1. findings[i].documentId \in DocumentsOf(findings)
      BY DEF DocumentsOf
    <3>2. PICK r \in rows : r.id = findings[i].documentId
      BY <1>3, <3>1
    <3>3. QED
      BY <1>1, <3>2
  <2>2. QED
    BY <2>1 DEF FoundBy
<1>12. tiles(findings)["all"] = Cardinality(DOMAIN findings)
  <2>1. OfLevel(findings, "all") = DOMAIN findings
    BY DEF OfLevel
  <2>2. tiles(findings)["all"] = Cardinality(OfLevel(findings, "all"))
    BY DEF tiles
  <2>3. QED
    BY <2>1, <2>2, Zenon
<1>13. ASSUME NEW i \in 1..n - 1
       PROVE  Weight(lines[i]) >= Weight(lines[i + 1])
  <2>1. i \in 1..n /\ i + 1 \in 1..n /\ i < i + 1
    BY <1>4
  <2>2. /\ Weight(lines[i]) \in Nat /\ Weight(lines[i + 1]) \in Nat
        /\ Before(findings, lines[i], lines[i + 1])
    BY <1>1, <1>2, <1>4, <2>1
  <2>3. QED
    BY <2>2 DEF Before
<1>14. Exposed(lines) = tiles(findings)["all"]
  BY <1>10, <1>11, <1>12, Zenon
<1>15. QED
  BY <1>13, <1>14 DEF IsExposure, lines


(***************************************************************************)
(* The cards and the steppers                                              *)
(***************************************************************************)

DocumentType(D) == [id : D, status : DocumentStatus, progress : 0..100]

\* Every document is in one of the counts of the cards and the filters.
LEMMA DocumentsCounted ==
    ASSUME NEW D, NEW docs \in Seq(DocumentType(D)), NEW findings, NEW dates
    PROVE  LET kpis == computeKpis(docs, findings, dates)
           IN kpis.indexed + kpis.processing + Cardinality(WithStatus(docs, {"FAILED"})) = Len(docs)
<1> DEFINE A == WithStatus(docs, {"COMPLETED"})
           B == {i \in DOMAIN docs : isProcessing(docs[i].status)}
           C == WithStatus(docs, {"FAILED"})
           AB == A \cup B
           kpis == computeKpis(docs, findings, dates)
<1>1. kpis.indexed = Cardinality(A) /\ kpis.processing = Cardinality(B)
  BY DEF computeKpis
<1>2. /\ A \in SUBSET DOMAIN docs /\ B \in SUBSET DOMAIN docs /\ C \in SUBSET DOMAIN docs
      /\ AB \cup C = DOMAIN docs /\ A \cap B = {} /\ AB \cap C = {}
  BY DEF WithStatus, isProcessing
<1> HIDE DEF A, B, C, AB, kpis
<1>3. /\ IsFiniteSet(A) /\ IsFiniteSet(B) /\ IsFiniteSet(C)
      /\ Cardinality(A) \in Nat /\ Cardinality(B) \in Nat /\ Cardinality(C) \in Nat
  BY <1>2, PlacesFinite
<1>4. Cardinality(A \cap B) = 0 /\ Cardinality(AB \cap C) = 0
  BY <1>2, FS_EmptySet, Zenon
<1>5. IsFiniteSet(AB) /\ Cardinality(AB) = Cardinality(A) + Cardinality(B)
  <2>1. IsFiniteSet(A \cup B)
        /\ Cardinality(A \cup B) = Cardinality(A) + Cardinality(B) - Cardinality(A \cap B)
    BY <1>3, FS_Union
  <2>2. QED
    BY <1>3, <1>4, <2>1 DEF AB
<1>6. Cardinality(AB \cup C) = Cardinality(AB) + Cardinality(C) - Cardinality(AB \cap C)
  BY <1>3, <1>5, FS_Union
<1>7. Cardinality(DOMAIN docs) = Len(docs)
  BY PlacesFinite
<1>8. Cardinality(AB \cup C) = Len(docs)
  BY <1>2, <1>7, Zenon
<1>9. Cardinality(A) + Cardinality(B) + Cardinality(C) = Len(docs)
  BY <1>3, <1>4, <1>5, <1>6, <1>8
<1>10. QED
  BY <1>1, <1>9 DEF kpis, C

LEMMA StepNames ==
    /\ STEPS[1] = "QUEUED" /\ STEPS[2] = "PROCESSING" /\ STEPS[3] = "OCR_PROCESSING"
    /\ STEPS[4] = "CHUNKING" /\ STEPS[5] = "EMBEDDING" /\ STEPS[6] = "INDEXING"
    /\ STEPS[7] = "COMPLETED"
<1>1. STEPS = [i \in 1..7 |-> DOCUMENT_STATUSES[i + 1]]
  BY DEF STEPS, DOCUMENT_STATUSES
<1>2. QED
  BY <1>1 DEF DOCUMENT_STATUSES

\* A stepper marks the one step a document is at, or none when it is done.
LEMMA StepperMarks ==
    ASSUME NEW status \in DocumentStatus
    PROVE  LET steps == PipelineStepper(status, "PROCESSING")
           IN Cardinality({i \in DOMAIN steps : steps[i] \in {"active", "failed"}}) =
                IF steps[7] = "done" THEN 0 ELSE 1
<1> DEFINE current == CASE status = "FAILED"   -> "PROCESSING"
                        [] status = "UPLOADED" -> "QUEUED"
                        [] OTHER               -> status
           index == CHOOSE i \in 1..7 : STEPS[i] = current
           steps == PipelineStepper(status, "PROCESSING")
           marked == {i \in DOMAIN steps : steps[i] \in {"active", "failed"}}
<1>1. status \in {"UPLOADED", "QUEUED", "PROCESSING", "OCR_PROCESSING", "CHUNKING",
                  "EMBEDDING", "INDEXING", "COMPLETED", "FAILED"}
  BY DEF DocumentStatus, ToSet, DOCUMENT_STATUSES
<1>2. current \in {"QUEUED", "PROCESSING", "OCR_PROCESSING", "CHUNKING", "EMBEDDING",
                   "INDEXING", "COMPLETED"}
  BY <1>1
<1>3. \E i \in 1..7 : STEPS[i] = current
  <2> HIDE DEF current
  <2>1. QED
    BY <1>2, StepNames
<1>4. index \in 1..7
  <2> HIDE DEF current
  <2>1. QED
    BY <1>3
<1>5. steps = [i \in 1..7 |->
                 CASE i < index \/ status = "COMPLETED" -> "done"
                   [] i = index /\ status # "COMPLETED" ->
                        IF status = "FAILED" THEN "failed" ELSE "active"
                   [] OTHER                             -> "todo"]
  BY DEF PipelineStepper
<1> HIDE DEF current, index, steps
<1>6. CASE status = "COMPLETED"
  <2>1. \A i \in 1..7 : steps[i] = "done"
    BY <1>5, <1>6
  <2>2. DOMAIN steps = 1..7
    BY <1>5
  <2>3. marked = {}
    BY <2>1, <2>2
  <2> HIDE DEF marked
  <2>4. Cardinality(marked) = 0
    BY <2>3, FS_EmptySet, Zenon
  <2>5. steps[7] = "done"
    BY <2>1
  <2>6. QED
    BY <2>4, <2>5 DEF steps, marked
<1>7. CASE status # "COMPLETED"
  <2>1. \A i \in 1..7 : steps[i] = IF i < index THEN "done"
                                   ELSE IF i = index
                                   THEN IF status = "FAILED" THEN "failed" ELSE "active"
                                   ELSE "todo"
    BY <1>4, <1>5, <1>7
  <2>2. DOMAIN steps = 1..7
    BY <1>5
  <2>3. marked = {index}
    BY <1>4, <2>1, <2>2
  <2> HIDE DEF marked
  <2>4. Cardinality(marked) = 1
    BY <2>3, FS_Singleton, Zenon
  <2>5. steps[7] # "done"
    BY <1>4, <2>1
  <2>6. QED
    BY <2>4, <2>5 DEF steps, marked
<1>8. QED
  BY <1>6, <1>7
===============================================================================
