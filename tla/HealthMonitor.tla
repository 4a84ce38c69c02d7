--------------------------- MODULE HealthMonitor ---------------------------
(***************************************************************************)
(* internal/health: the goroutine that probes the backends one after the   *)
(* other, and the failures the request handlers report to it meanwhile.    *)
(* Every request of a probe is a step, and so is publishing its result.    *)
(*                                                                         *)
(* A backend (external) answers well at some of its Endpoints.  Failures   *)
(* are kept by age, in ticks of the clock, up to Window: one that old is   *)
(* outside the window.                                                     *)
(***************************************************************************)
EXTENDS Naturals, FiniteSets, Sequences, FiniteSetsExt

CONSTANTS
    Order,       \* the backends, in the order of the config
    Configs,     \* settings of health.* under study
    Threshold,   \* passive_auth_failures.threshold
    Window,      \* passive_auth_failures.window, in ticks
    MaxFaults    \* bound on failed logins, hang-ups, changes of the backends, the
                 \* operator's actions and stops

Backends  == {Order[i] : i \in DOMAIN Order}
Endpoints == {"public", "health", "login"}

\* Which layers are on: public_info, jellyfin_health, passive_auth_failures,
\* auth_probe.
Config == [info : BOOLEAN, jf : BOOLEAN, passive : BOOLEAN, auth : BOOLEAN]

ASSUME HealthAssumption ==
    /\ Order \in Seq(Backends) /\ Order # <<>>
    /\ Configs \subseteq Config
    /\ Threshold \in Nat \ {0} /\ Window \in Nat \ {0}
    /\ MaxFaults \in Nat

VARIABLES
    config,   \* the settings of this process
    up,       \* endpoints of each backend that answer 2xx (external)
    fails,    \* Monitor.fails: how many failures of each age are in the list
    snaps,    \* Monitor.snaps
    probe,    \* the probe under way
    disabled, \* backends the operator has disabled
    stopping, \* the context of Run is cancelled
    faults,   \* faults so far, at most MaxFaults
    log       \* history: the failures recorded within the last Window ticks

vars == <<config, up, fails, snaps, probe, disabled, stopping, faults, log>>

States == {"unknown", "healthy", "degraded", "unhealthy"}

\* The layers that came out OK, the count, and as history what went wrong while
\* the backend was probed: endpoints that were down, or a burst of failures.
Snapshot == [state : States, reach : BOOLEAN, info : BOOLEAN, jf : BOOLEAN,
             cause : SUBSET (Endpoints \cup {"burst", "stop"})]

\* at: position of the backend being probed, 0 between two rounds.
Probe == [at : 0..Len(Order), step : {"reach", "info", "health", "count", "auth"},
          info : BOOLEAN, jf : BOOLEAN, n : Nat,
          ill : SUBSET (Endpoints \cup {"burst", "stop"})]

TypeOK ==
    /\ config \in Configs
    /\ up \in [Backends -> SUBSET Endpoints]
    /\ fails \in [Backends -> [0..Window -> 0..MaxFaults]]
    /\ snaps \in [Backends -> Snapshot]
    /\ probe \in Probe
    /\ disabled \subseteq Backends
    /\ stopping \in BOOLEAN
    /\ faults \in 0..MaxFaults
    /\ log \in [Backends -> [0..Window - 1 -> 0..MaxFaults]]

Unknown == [state |-> "unknown", reach |-> FALSE, info |-> FALSE, jf |-> FALSE, cause |-> {}]
Waiting == [at |-> 0, step |-> "reach", info |-> FALSE, jf |-> FALSE, n |-> 0, ill |-> {}]

Init ==
    /\ config \in Configs
    /\ up = [b \in Backends |-> Endpoints]
    /\ fails = [b \in Backends |-> [a \in 0..Window |-> 0]]
    /\ snaps = [b \in Backends |-> Unknown]
    /\ probe = Waiting
    /\ disabled = {}
    /\ stopping = FALSE
    /\ faults = 0
    /\ log = [b \in Backends |-> [a \in 0..Window - 1 |-> 0]]

-----------------------------------------------------------------------------
(* probe. *)

Current == Order[probe.at]

\* A request of the probe: it fails when the endpoint does, or once the context
\* is cancelled.
Answers(e) == e \in up[Current] /\ ~stopping

Ill(b) == (Endpoints \ up[b]) \cup (IF stopping THEN {"stop"} ELSE {})

\* The next backend of the round, or the end of the round.
After(i) ==
    IF i < Len(Order) THEN [Waiting EXCEPT !.at = i + 1, !.ill = Ill(Order[i + 1])]
    ELSE Waiting

\* set, and on to the next backend.
Publish(snap) ==
    /\ snaps' = [snaps EXCEPT ![Current] = snap]
    /\ probe' = After(probe.at)

Probing(step) == probe.at # 0 /\ probe.step = step

\* Run: the first round starts at once, the others with the ticker.  After a stop
\* the select may still take the ticker, or end the loop for good.
StartRound ==
    /\ probe.at = 0
    /\ probe' = After(0)
    /\ UNCHANGED <<config, up, fails, snaps, disabled, stopping, faults, log>>

\* Reachability, GET /System/Info/Public: without it nothing else is asked.
Reach ==
    /\ Probing("reach")
    /\ IF Answers("public")
       THEN probe' = [probe EXCEPT !.step = "info"] /\ UNCHANGED snaps
       ELSE Publish([Unknown EXCEPT !.state = "unhealthy", !.cause = probe.ill])
    /\ UNCHANGED <<config, up, fails, disabled, stopping, faults, log>>

\* A layer that is off counts as OK.
Layer(on, e) == on => Answers(e)

\* Public info: the same URL once more.
Info ==
    /\ Probing("info")
    /\ probe' = [probe EXCEPT !.step = "health", !.info = Layer(config.info, "public")]
    /\ UNCHANGED <<config, up, fails, snaps, disabled, stopping, faults, log>>

JellyfinHealth ==
    /\ Probing("health")
    /\ probe' = [probe EXCEPT !.step = "count", !.jf = Layer(config.jf, "health")]
    /\ UNCHANGED <<config, up, fails, snaps, disabled, stopping, faults, log>>

Total(counts) == SumFunction(counts)

\* Seeded fault: what is kept is appended to the old list, not put in its place.
PrunedTwice(counts) ==
    [a \in 0..Window |-> IF a = Window THEN counts[a] ELSE 2 * counts[a]]

\* Seeded fault: the window is a tick too short and drops failures still in it.
PrunedLate(counts) == [a \in 0..Window |-> IF a < Window - 1 THEN counts[a] ELSE 0]

\* Seeded fault: what is outside the window is counted, but never dropped.
PrunedNever(counts) == counts

\* recentFails keeps what is younger than the window; one on its edge is out.
Pruned(counts) == [counts EXCEPT ![Window] = 0]

\* The passive layer, under the lock: drop the old failures, count the others.
Count ==
    /\ Probing("count")
    /\ fails' = IF config.passive THEN [fails EXCEPT ![Current] = Pruned(@)] ELSE fails
    /\ probe' = [probe EXCEPT !.step = "auth",
                    !.n = IF config.passive THEN Total(fails'[Current]) ELSE 0,
                    !.ill = @ \cup IF Total(log[Current]) >= Threshold THEN {"burst"} ELSE {}]
    /\ UNCHANGED <<config, up, snaps, disabled, stopping, faults, log>>

\* Seeded fault: the threshold must be exceeded, not met.
VerdictAbove(info, jf, n, authFailed) ==
    IF ~jf \/ ~info THEN "unhealthy"
    ELSE IF n > Threshold \/ authFailed THEN "degraded"
    ELSE "healthy"

Verdict(info, jf, n, authFailed) ==
    IF ~jf \/ ~info THEN "unhealthy"
    ELSE IF n >= Threshold \/ authFailed THEN "degraded"
    ELSE "healthy"

\* The optional login of the probe, which is not counted as a failure, and the
\* verdict on all layers.
AuthProbe ==
    /\ Probing("auth")
    /\ Publish([state |-> Verdict(probe.info, probe.jf, probe.n, config.auth /\ ~Answers("login")),
                reach |-> TRUE, info |-> probe.info, jf |-> probe.jf, cause |-> probe.ill])
    /\ UNCHANGED <<config, up, fails, disabled, stopping, faults, log>>

-----------------------------------------------------------------------------
(* The handlers, the backends, the clock and the end of the process. *)

Fault == faults < MaxFaults /\ faults' = faults + 1

\* RecordAuthFailure for each backend of B.
Record(B) ==
    /\ fails' = [b \in Backends |-> IF b \in B /\ config.passive
                                    THEN [fails[b] EXCEPT ![0] = @ + 1] ELSE fails[b]]
    /\ log' = [b \in Backends |-> IF b \in B /\ config.passive
                                  THEN [log[b] EXCEPT ![0] = @ + 1] ELSE log[b]]
    /\ UNCHANGED <<config, up, snaps, probe, disabled, stopping>>

\* A login, or a request under /Users, that the backend fails; it may have been
\* disabled since the request was sent there.
AuthPlaneFails ==
    /\ Fault
    /\ \E b \in Backends : "login" \notin up[b] /\ Record({b})

\* A client that goes away during a login: the hop fails with its context, and
\* so does the hop to every candidate that is left.
ClientLeaves ==
    /\ Fault
    /\ \E B \in SUBSET Backends : B # {} /\ Record(B)

\* The operator disables or enables a backend; it is probed all the same.
Toggle ==
    /\ Fault
    /\ \E b \in Backends :
         disabled' = IF b \in disabled THEN disabled \ {b} ELSE disabled \cup {b}
    /\ UNCHANGED <<config, up, fails, snaps, probe, stopping, log>>

\* An endpoint of a backend breaks or is mended.
Change ==
    /\ Fault
    /\ \E b \in Backends, e \in Endpoints :
         /\ up' = [up EXCEPT ![b] = IF e \in @ THEN @ \ {e} ELSE @ \cup {e}]
         /\ probe' = IF probe.at # 0 /\ Current = b
                     THEN [probe EXCEPT !.ill = @ \cup (Endpoints \ up'[b])] ELSE probe
    /\ UNCHANGED <<config, fails, snaps, disabled, stopping, log>>

\* A tick of the clock: failures age, and collect at Window until the next count.
Tick ==
    /\ fails' = [b \in Backends |->
                   [a \in 0..Window |->
                      IF a = 0 THEN 0
                      ELSE fails[b][a - 1] + (IF a = Window THEN fails[b][a] ELSE 0)]]
    /\ log' = [b \in Backends |-> [a \in 0..Window - 1 |-> IF a = 0 THEN 0 ELSE log[b][a - 1]]]
    /\ UNCHANGED <<config, up, snaps, probe, disabled, stopping, faults>>

\* The process is told to stop.  The round goes on with a cancelled context, and
\* handlers go on deciding for as long as the listeners drain.
Stop ==
    /\ Fault
    /\ ~stopping
    /\ stopping' = TRUE
    /\ probe' = IF probe.at = 0 THEN probe ELSE [probe EXCEPT !.ill = @ \cup {"stop"}]
    /\ UNCHANGED <<config, up, fails, snaps, disabled, log>>

ProbeStep == StartRound \/ Reach \/ Info \/ JellyfinHealth \/ Count \/ AuthProbe

Next == ProbeStep \/ AuthPlaneFails \/ ClientLeaves \/ Toggle \/ Change \/ Tick \/ Stop

\* What must happen: no round has to start after a stop.
ProbeRuns == ProbeStep /\ (stopping => probe.at # 0)

\* Every request of a probe ends, by the client's timeout at the latest, and the
\* ticker and the clock go on.
Spec == Init /\ [][Next]_vars /\ WF_vars(ProbeRuns) /\ WF_vars(Tick)
=============================================================================
