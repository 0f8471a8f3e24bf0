---------------------------- MODULE UseAsyncProofs ----------------------------
(*
The lemmas the proofs about pages rest on: induction over what a page computes, and
what the hook of UseAsync keeps whichever page uses it.
*)
EXTENDS UseAsync, NaturalsInduction, WellFoundedInduction, TLAPS

\* Induction without a predicate for a parameter: what fails for some number fails
\* for a least one.
LEMMA NatLeast ==
    ASSUME NEW T \in SUBSET Nat, T # {}
    PROVE  \E n \in T : \A m \in T : n <= m
<1>1. PICK n \in T : \A m \in T : <<m, n>> \notin OpToRel(<, Nat)
  BY WFMin, NatLessThanWellFounded, Zenon
<1>2. \A m \in T : ~(m < n)
  BY <1>1, Zenon DEF OpToRel
<1>3. QED
  BY <1>2

\* The shape of a hook's record and of its requests.
IsRequest(r) ==
    /\ r = [arg |-> r.arg, read |-> r.read, stale |-> r.stale]
    /\ r.stale \in BOOLEAN
IsHook(h) ==
    /\ h = [data |-> h.data, error |-> h.error, loading |-> h.loading, open |-> h.open]
    /\ h.loading \in BOOLEAN
    /\ \A r \in h.open : IsRequest(r)

\* A hook that was just mounted awaits its first call.
LEMMA MountedHook ==
    ASSUME NEW arg
    PROVE  IsHook(Mounted(arg)) /\ LoadingIsAwaiting(Mounted(arg))
           /\ \A r \in Fresh(Mounted(arg)) : r.arg = arg
<1> DEFINE m == Mounted(arg)
           r0 == Request(arg)
<1>1. r0 = [arg |-> arg, read |-> Null, stale |-> FALSE]
  BY DEF Request
<1>2. m = [data |-> Null, error |-> Null, loading |-> TRUE, open |-> {r0}]
  BY DEF Mounted
<1> HIDE DEF m, r0
<1>3. IsRequest(r0) /\ ~r0.stale /\ r0.arg = arg
  BY <1>1 DEF IsRequest
<1>4. m.open = {r0} /\ m.loading = TRUE
  BY <1>2
<1>5. IsHook(m)
  BY <1>2, <1>3, <1>4 DEF IsHook
<1>6. Fresh(m) = {r0}
  BY <1>3, <1>4 DEF Fresh
<1>7. LoadingIsAwaiting(m)
  BY <1>4, <1>6 DEF LoadingIsAwaiting
<1>8. QED
  BY <1>3, <1>5, <1>6, <1>7 DEF m

\* A new call is the only one that counts.
LEMMA CalledHook ==
    ASSUME NEW h, NEW arg, IsHook(h)
    PROVE  IsHook(Called(h, arg)) /\ Called(h, arg).loading
           /\ Fresh(Called(h, arg)) = {Request(arg)}
           /\ LoadingIsAwaiting(Called(h, arg))
<1> DEFINE c == Called(h, arg)
           old == {Overtaken(request) : request \in h.open}
<1>1. c = [data |-> h.data, error |-> h.error, loading |-> TRUE, open |-> old \cup {Request(arg)}]
  <2>1. c = [h EXCEPT !.loading = TRUE, !.open = old \cup {Request(arg)}]
    BY DEF Called
  <2> HIDE DEF c, old
  <2>2. QED
    BY <2>1 DEF IsHook
<1>2. \A r \in old : IsRequest(r) /\ r.stale
  <2>1. ASSUME NEW q
        PROVE  IsRequest(Overtaken(q)) /\ Overtaken(q).stale
    <3>1. Overtaken(q).stale = TRUE
      BY DEF Overtaken
    <3>2. IsRequest(Overtaken(q))
      BY DEF Overtaken, IsRequest
    <3>3. QED
      BY <3>1, <3>2
  <2>2. QED
    BY <2>1
<1>3. IsRequest(Request(arg)) /\ ~Request(arg).stale
  BY DEF IsRequest, Request
<1> HIDE DEF c, old
<1>4. c.open = old \cup {Request(arg)} /\ c.loading = TRUE
  BY <1>1
<1>5. IsHook(c)
  BY <1>1, <1>2, <1>3, <1>4 DEF IsHook
<1>6. Fresh(c) = {Request(arg)}
  BY <1>2, <1>3, <1>4 DEF Fresh
<1>7. LoadingIsAwaiting(c)
  BY <1>4, <1>6 DEF LoadingIsAwaiting
<1>8. QED
  BY <1>4, <1>5, <1>6, <1>7 DEF c

\* What the server reads changes nothing about which call counts.
LEMMA HasReadHook ==
    ASSUME NEW h, NEW r \in h.open, NEW data, IsHook(h), LoadingIsAwaiting(h), ~r.stale
    PROVE  IsHook(HasRead(h, r, data)) /\ LoadingIsAwaiting(HasRead(h, r, data))
<1> DEFINE c == HasRead(h, r, data)
           new == [r EXCEPT !.read = data]
<1>1. /\ IsRequest(r)
      /\ new = [arg |-> r.arg, read |-> data, stale |-> r.stale]
  BY DEF IsHook, IsRequest
<1>2. IsRequest(new) /\ ~new.stale
  BY <1>1 DEF IsRequest
<1>3. c = [data |-> h.data, error |-> h.error, loading |-> h.loading,
           open |-> (h.open \ {r}) \cup {new}]
  BY DEF HasRead, IsHook
<1> HIDE DEF c, new
<1>4. c.open = (h.open \ {r}) \cup {new} /\ c.loading = h.loading
  BY <1>3
<1>5. IsHook(c)
  BY <1>2, <1>3, <1>4 DEF IsHook
<1>6. Fresh(h) = {r}
  BY DEF Fresh, LoadingIsAwaiting
<1>7. Fresh(c) = {new}
  BY <1>2, <1>4, <1>6 DEF Fresh
<1>8. LoadingIsAwaiting(c)
  BY <1>4, <1>6, <1>7 DEF LoadingIsAwaiting
<1>9. QED
  BY <1>5, <1>8 DEF c

\* An answer to the call that counts ends the loading and leaves no such call; any
\* other answer leaves all but its own request as it was.
LEMMA SettledHook ==
    ASSUME NEW h, NEW r \in h.open, NEW outcome, IsHook(h), LoadingIsAwaiting(h)
    PROVE  /\ IsHook(Settled(h, r, outcome))
           /\ LoadingIsAwaiting(Settled(h, r, outcome))
           /\ Fresh(Settled(h, r, outcome)) \subseteq Fresh(h)
<1> DEFINE c == Settled(h, r, outcome)
<1>1. /\ c = [data |-> c.data, error |-> c.error, loading |-> c.loading, open |-> h.open \ {r}]
      /\ c.loading = IF r.stale THEN h.loading ELSE FALSE
  BY DEF Settled, Closed, IsHook
<1> HIDE DEF c
<1>2. c.open = h.open \ {r}
  BY <1>1
<1>3. IsHook(c)
  BY <1>1, <1>2 DEF IsHook
<1>4. Fresh(c) \subseteq Fresh(h)
  BY <1>2 DEF Fresh
<1>5. LoadingIsAwaiting(c)
  <2>1. CASE r.stale
    <3>1. Fresh(c) = Fresh(h)
      BY <1>2, <2>1 DEF Fresh
    <3>2. QED
      BY <1>1, <2>1, <3>1 DEF LoadingIsAwaiting
  <2>2. CASE ~r.stale
    <3>1. Fresh(h) = {r}
      BY <2>2 DEF Fresh, LoadingIsAwaiting
    <3>2. Fresh(c) = {}
      BY <1>2, <1>4, <3>1 DEF Fresh
    <3>3. QED
      BY <1>1, <2>2, <3>2 DEF LoadingIsAwaiting
  <2>3. QED
    BY <2>1, <2>2
<1>6. QED
  BY <1>3, <1>4, <1>5 DEF c

\* What each operation writes, field by field.
LEMMA HookWrites ==
    ASSUME NEW h, IsHook(h)
    PROVE  /\ \A arg :
                /\ Called(h, arg).data = h.data /\ Called(h, arg).error = h.error
                /\ Called(h, arg).open = {Overtaken(r) : r \in h.open} \cup {Request(arg)}
           /\ \A r, data :
                /\ HasRead(h, r, data).data = h.data /\ HasRead(h, r, data).error = h.error
                /\ HasRead(h, r, data).open = (h.open \ {r}) \cup {[r EXCEPT !.read = data]}
           /\ \A r, outcome :
                /\ Settled(h, r, outcome).open = h.open \ {r}
                /\ r.stale => /\ Settled(h, r, outcome).data = h.data
                              /\ Settled(h, r, outcome).error = h.error
                /\ ~r.stale /\ outcome.ok =>
                     /\ Settled(h, r, outcome).data = outcome.data
                     /\ Settled(h, r, outcome).error = Null
                /\ ~r.stale /\ ~outcome.ok =>
                     /\ Settled(h, r, outcome).data = h.data
                     /\ Settled(h, r, outcome).error = outcome.code
<1>1. h = [data |-> h.data, error |-> h.error, loading |-> h.loading, open |-> h.open]
  BY DEF IsHook
<1>2. ASSUME NEW arg
      PROVE  /\ Called(h, arg).data = h.data /\ Called(h, arg).error = h.error
             /\ Called(h, arg).open = {Overtaken(r) : r \in h.open} \cup {Request(arg)}
  <2> DEFINE now == {Overtaken(request) : request \in h.open} \cup {Request(arg)}
  <2>1. Called(h, arg) = [h EXCEPT !.loading = TRUE, !.open = now]
    BY DEF Called
  <2> HIDE DEF now
  <2>2. Called(h, arg).data = h.data /\ Called(h, arg).error = h.error /\ Called(h, arg).open = now
    BY <1>1, <2>1
  <2>3. QED
    BY <2>2 DEF now
<1>3. ASSUME NEW r, NEW data
      PROVE  /\ HasRead(h, r, data).data = h.data /\ HasRead(h, r, data).error = h.error
             /\ HasRead(h, r, data).open = (h.open \ {r}) \cup {[r EXCEPT !.read = data]}
  <2> DEFINE now == (h.open \ {r}) \cup {[r EXCEPT !.read = data]}
  <2>1. HasRead(h, r, data) = [h EXCEPT !.open = now]
    BY DEF HasRead
  <2> HIDE DEF now
  <2>2. HasRead(h, r, data).data = h.data /\ HasRead(h, r, data).error = h.error
        /\ HasRead(h, r, data).open = now
    BY <1>1, <2>1
  <2>3. QED
    BY <2>2 DEF now
<1>4. ASSUME NEW r, NEW outcome
      PROVE  /\ Settled(h, r, outcome).open = h.open \ {r}
             /\ r.stale => /\ Settled(h, r, outcome).data = h.data
                           /\ Settled(h, r, outcome).error = h.error
             /\ ~r.stale /\ outcome.ok =>
                  /\ Settled(h, r, outcome).data = outcome.data
                  /\ Settled(h, r, outcome).error = Null
             /\ ~r.stale /\ ~outcome.ok =>
                  /\ Settled(h, r, outcome).data = h.data
                  /\ Settled(h, r, outcome).error = outcome.code
  <2> DEFINE rest == h.open \ {r}
             closed == Closed(h, r)
             c == Settled(h, r, outcome)
  <2>1. closed = [data |-> h.data, error |-> h.error, loading |-> h.loading, open |-> rest]
    BY <1>1 DEF Closed
  <2>2. CASE r.stale
    <3>1. c = closed
      BY <2>2 DEF Settled
    <3> HIDE DEF closed, rest, c
    <3>2. c.open = rest /\ c.data = h.data /\ c.error = h.error
      BY <2>1, <3>1
    <3>3. QED
      BY <2>2, <3>2 DEF c, rest
  <2>3. CASE ~r.stale /\ outcome.ok
    <3>1. c = [closed EXCEPT !.data = outcome.data, !.error = Null, !.loading = FALSE]
      BY <2>3 DEF Settled
    <3> HIDE DEF closed, rest, c
    <3>2. c.open = rest /\ c.data = outcome.data /\ c.error = Null
      BY <2>1, <3>1
    <3>3. QED
      BY <2>3, <3>2 DEF c, rest
  <2>4. CASE ~r.stale /\ ~outcome.ok
    <3>1. c = [closed EXCEPT !.error = outcome.code, !.loading = FALSE]
      BY <2>4 DEF Settled
    <3> HIDE DEF closed, rest, c
    <3>2. c.open = rest /\ c.data = h.data /\ c.error = outcome.code
      BY <2>1, <3>1
    <3>3. QED
      BY <2>4, <3>2 DEF c, rest
  <2>5. QED
    BY <2>2, <2>3, <2>4
<1>5. QED
  BY <1>2, <1>3, <1>4
=============================================================================
