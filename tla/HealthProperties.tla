-------------------------- MODULE HealthProperties --------------------------
(***************************************************************************)
(* What the health monitor promises the router, the status page and the    *)
(* operator: see module HealthMonitor.                                     *)
(***************************************************************************)
EXTENDS HealthMonitor

\* router.eligible: who may be given a client without a binding.
EligibleUnder(require) ==
    {b \in Backends \ disabled :
        \/ snaps[b].state \in {"healthy", "unknown"}
        \/ snaps[b].state = "degraded" /\ require = "healthy_or_degraded"}

\* Seeded fault: a degraded backend is named whatever new clients require.
IneligibleReasonStrict(s, require) ==
    CASE s.state \in {"healthy", "unknown"} -> ""
      [] s.state = "degraded" -> "degraded_auth_plane"
      [] s.state = "unhealthy" /\ ~s.reach -> "unreachable"
      [] s.state = "unhealthy" /\ s.reach /\ ~s.jf -> "jellyfin_health"
      [] s.state = "unhealthy" /\ s.reach /\ s.jf /\ ~s.info -> "public_info"
      [] OTHER -> "unhealthy"

\* health.IneligibleReason: a layer that failed has an error.
IneligibleReason(s, require) ==
    CASE s.state \in {"healthy", "unknown"} -> ""
      [] s.state = "degraded" -> IF require = "healthy" THEN "degraded_auth_plane" ELSE ""
      [] s.state = "unhealthy" /\ ~s.reach -> "unreachable"
      [] s.state = "unhealthy" /\ s.reach /\ ~s.jf -> "jellyfin_health"
      [] s.state = "unhealthy" /\ s.reach /\ s.jf /\ ~s.info -> "public_info"
      [] OTHER -> "unhealthy"

\* status.backendViews: an operator's disable goes first.
ViewReason(b, require) ==
    IF b \in disabled THEN "disabled" ELSE IneligibleReason(snaps[b], require)

\* Router.Ready with a store that answers: a single backend is enough when it can
\* serve the clients it has, whatever the policy.
ReadyUnder(require) ==
    \/ EligibleUnder(require) # {}
    \/ Len(Order) = 1 /\ disabled = {} /\ snaps[Order[1]].state # "unhealthy"

\* The operator's page and the router read the same snapshots through code of
\* their own (IneligibleReason, eligible) and must agree: a backend is left out
\* of new placements exactly when the page says why, the reason names a layer
\* that failed, and a pool that is not ready has a reason at every backend.
ReasonsAgree ==
    \A require \in {"healthy", "healthy_or_degraded"} :
      /\ \A b \in Backends :
           /\ ViewReason(b, require) = "" <=> b \in EligibleUnder(require)
           /\ ViewReason(b, require) # "unhealthy"
      /\ ~ReadyUnder(require) => \A b \in Backends : ViewReason(b, require) # ""

\* A published state was deserved while the backend was probed, although its
\* requests are seconds apart and failures arrive between them: unhealthy only
\* if an endpoint that is asked was down or the process was stopping, degraded
\* only if the probe's own login could fail or the failures within the window
\* reached the threshold when they were counted, healthy only if they did not.
VerdictsDeserved ==
    \A b \in Backends :
      LET s == snaps[b] IN
      /\ s.state = "unhealthy" =>
           \/ {"public", "stop"} \cap s.cause # {}
           \/ config.jf /\ "health" \in s.cause
      /\ s.state = "degraded" =>
           \/ config.auth /\ {"login", "stop"} \cap s.cause # {}
           \/ "burst" \in s.cause
      /\ s.state = "healthy" => "burst" \notin s.cause

\* The list, pruned and appended to by different goroutines, has every failure
\* still within the window, at its age: counting loses none and keeps none twice.
NoFailureLost ==
    \A b \in Backends : \A a \in 0..Window - 1 : fails[b][a] = log[b][a]

Deserved(b) ==
    IF "public" \notin up[b] \/ (config.jf /\ "health" \notin up[b]) THEN "unhealthy"
    ELSE IF config.auth /\ "login" \notin up[b] THEN "degraded"
    ELSE "healthy"

\* Once the backends stop changing and no more failures come in, every backend
\* ends up, for good, with the state its endpoints deserve: an outage is noticed
\* and forgotten, and a degraded backend that gets no more logins recovers by
\* itself, however slow the probes of the others are.
StatesConverge ==
    <>[]stopping \/ \A b \in Backends : <>[](snaps[b].state = Deserved(b))
=============================================================================
