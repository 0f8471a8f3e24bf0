------------------------------ MODULE SystemPage ------------------------------
(*
The system page: features/system/system-view.tsx over services/health-service.ts,
which never uses the fixtures. The stack it reports on is external: the API and
what it depends on come and go. The probes behind /ready are those of
HealthService, and the reply to an API that is not ready is a 503 that says
success: false and carries the report all the same.

Left out: latencies, names and versions, the time of the last check, the texts of
errors, and the static description of the architecture.
*)
EXTENDS Navigation

CONSTANTS
    Probes,      \* the dependencies that are probed
    Critical     \* those without which the API is not ready

VARIABLE stack   \* external: [api, whether it runs; up, the dependencies that do];
                 \* Null while no page asks about it

Stacks == [api : BOOLEAN, up : SUBSET Probes]

ASSUME StackAssumption == Null \notin Stacks

SystemView == [at |-> "system", live |-> Mounted("health"), ready |-> Mounted("ready")]

(***************************************************************************)
(* The stack                                                               *)
(***************************************************************************)

\* The heartbeat of the worker is a key in redis.
Seen == IF "redis" \in stack.up THEN stack.up ELSE stack.up \ {"worker"}

Report ==
    [status |-> IF ~(Critical \subseteq Seen) THEN "not_ready"
                ELSE IF Seen # Probes THEN "degraded" ELSE "ready",
     up |-> Seen]

ReadyBody(report) == Envelope(report.status # "not_ready", report, Null)

ApiMoves ==
    /\ stack' = [stack EXCEPT !.api = ~@]
    /\ UNCHANGED <<clientVars, view>>

DependencyMoves(p) ==
    /\ stack' = [stack EXCEPT !.up = IF p \in @ THEN @ \ {p} ELSE @ \cup {p}]
    /\ UNCHANGED <<clientVars, view>>

(***************************************************************************)
(* Probing                                                                 *)
(***************************************************************************)

\* A reply to a liveness probe says only that the API runs.
LivenessReplied(request) ==
    /\ stack.api
    /\ Becomes([view EXCEPT !.live =
                  Settled(@, request, apiRequest("replied", Delivered([service |-> "up"]), FALSE))])
    /\ UNCHANGED stack

\* A report is made some time before it arrives.
ReadinessRead(request) ==
    /\ stack.api
    /\ request.read = Null /\ ~request.stale
    /\ Becomes([view EXCEPT !.ready = HasRead(@, request, Report)])
    /\ UNCHANGED stack

ReadinessReplied(request) ==
    /\ request.read # Null
    /\ Becomes([view EXCEPT !.ready =
                  Settled(@, request, apiRequest("replied", ReadyBody(request.read), TRUE))])
    /\ UNCHANGED stack

\* No connection, or no reply in time, whether or not the API runs.
LivenessFails(request) ==
    /\ Becomes([view EXCEPT !.live =
                  Settled(@, request, apiRequest("aborted", NotAnEnvelope, FALSE))])
    /\ UNCHANGED stack

ReadinessFails(request) ==
    /\ Becomes([view EXCEPT !.ready =
                  Settled(@, request, apiRequest("aborted", NotAnEnvelope, TRUE))])
    /\ UNCHANGED stack

\* The button, and the interval of ten seconds.
Refresh ==
    /\ Becomes([view EXCEPT !.live = Called(@, "health"), !.ready = Called(@, "ready")])
    /\ UNCHANGED stack

(***************************************************************************)
(* What is shown                                                           *)
(***************************************************************************)

apiUp == view.live.data # Null

overall ==
    IF ~apiUp THEN "unreachable"
    ELSE IF view.ready.data = Null THEN "checking" ELSE view.ready.data.status

\* The dots of the API and of a dependency.
ApiTile == IF apiUp THEN "up" ELSE IF view.live.loading THEN "unknown" ELSE "down"
Tile(p) ==
    IF view.ready.data = Null THEN "unknown"
    ELSE IF p \in view.ready.data.up THEN "up" ELSE "down"

ProbeStep ==
    \/ \E request \in view.live.open :
         LivenessReplied(request) \/ LivenessFails(request)
    \/ \E request \in view.ready.open :
         ReadinessRead(request) \/ ReadinessReplied(request) \/ ReadinessFails(request)
    \/ Refresh

StackMoves == ApiMoves \/ \E p \in Probes : DependencyMoves(p)

SystemNext ==
    /\ view.at = "system"
    /\ ProbeStep \/ StackMoves

systemVars == <<clientVars, view, stack>>

\* The interval fires; again and again a newest probe of a running API is read and
\* replied to before the next refresh. (A probe times out before the interval is
\* over, so that only the button can overtake it.)
SystemFairness ==
    /\ WF_systemVars(view.at = "system" /\ Refresh)
    /\ SF_systemVars(view.at = "system" /\ \E request \in Fresh(view.live) : LivenessReplied(request))
    /\ SF_systemVars(view.at = "system" /\ \E request \in Fresh(view.ready) : ReadinessRead(request))
    /\ SF_systemVars(view.at = "system" /\ \E request \in Fresh(view.ready) : ReadinessReplied(request))

SystemInit ==
    /\ ClientInit
    /\ view = SystemView
    /\ stack \in Stacks

SystemSpec == SystemInit /\ [][SystemNext]_systemVars

(***************************************************************************)
(* What the page shows of the stack                                        *)
(***************************************************************************)

\* An outage the API itself reports reaches the page and stays there: once a
\* critical dependency is down for good, the 503 of every later probe is read as a
\* report, whatever was shown before and in whatever order probes end.
OutageShown ==
    <>[](view.at = "system" /\ stack.api /\ ~(Critical \subseteq Seen))
      => <>[](view.at = "system" /\ overall = "not_ready")

\* "Health is always live ... so the System page tells the truth about the running
\* stack": when the API is down and the newest liveness probe has failed, the page does
\* not show it as up.
PageTellsTheTruth ==
    view.at = "system" /\ ~stack.api /\ ~view.live.loading /\ view.live.error # Null
      => ApiTile = "down" /\ overall = "unreachable"
=============================================================================
