------------------------------- MODULE UseAsync -------------------------------
(*
The hook hooks/use-async.ts as operators on its state, a record a view keeps for
each use. The code numbers its calls and compares the number of an answer with
the newest one only; the model keeps just the result of that comparison: a
request is stale once another was issued after it. What a stale request has read
makes no difference any more and is forgotten, so the stale ones with one
argument are one. Setting the state and re-running the effect are one step, as
React flushes the effects of a discrete event before the next one.
*)
EXTENDS ApiClient

\* A call in flight: what it was made for, and what the server has read for it.
Request(arg) == [arg |-> arg, read |-> Null, stale |-> FALSE]
\* The same after another call was made.
Overtaken(request) == [arg |-> request.arg, read |-> Null, stale |-> TRUE]

\* The first render and its effect.
Mounted(arg) ==
    [data |-> Null, error |-> Null, loading |-> TRUE, open |-> {Request(arg)}]

\* (Mutant: the call counter is not raised, so older calls stay current.)
CalledUncounted(hook, arg) ==
    [hook EXCEPT !.loading = TRUE, !.open = @ \cup {Request(arg)}]

\* The effect after a change of its dependencies, or after reload().
Called(hook, arg) ==
    [hook EXCEPT !.loading = TRUE,
                 !.open = {Overtaken(request) : request \in @} \cup {Request(arg)}]

\* The server reads its data some time before its answer arrives.
HasRead(hook, request, data) ==
    [hook EXCEPT !.open = (@ \ {request}) \cup {[request EXCEPT !.read = data]}]

Closed(hook, request) == [hook EXCEPT !.open = @ \ {request}]

\* (Mutant: finally ends the loading state whichever call has settled.)
SettledUnguarded(hook, request, outcome) ==
    IF request.stale
    THEN [Closed(hook, request) EXCEPT !.loading = FALSE]
    ELSE IF outcome.ok
    THEN [Closed(hook, request) EXCEPT !.data = outcome.data, !.error = Null, !.loading = FALSE]
    ELSE [Closed(hook, request) EXCEPT !.error = outcome.code, !.loading = FALSE]

\* then, catch and finally of one call: a stale answer is ignored, an error
\* leaves the data of an earlier answer in place.
Settled(hook, request, outcome) ==
    IF request.stale
    THEN Closed(hook, request)
    ELSE IF outcome.ok
    THEN [Closed(hook, request) EXCEPT !.data = outcome.data, !.error = Null, !.loading = FALSE]
    ELSE [Closed(hook, request) EXCEPT !.error = outcome.code, !.loading = FALSE]

Fresh(hook) == {request \in hook.open : ~request.stale}

\* The spinner of a view means that the newest call has not settled, and nothing
\* else: no view spins for ever and none stops before its answer.
LoadingIsAwaiting(hook) ==
    /\ hook.loading <=> Fresh(hook) # {}
    /\ \A r1, r2 \in Fresh(hook) : r1 = r2
=============================================================================
