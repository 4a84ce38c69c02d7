------------------------------- MODULE Router -------------------------------
(***************************************************************************)
(* internal/router: which backend a request goes to, and what an unhealthy *)
(* bound backend means under each policy.  Decide, Bound, PickNew and      *)
(* PickEligible return the SET of decisions the code can take: a singleton *)
(* unless least-loaded placement ties (the code breaks ties by name).      *)
(***************************************************************************)
EXTENDS Bindings

CONSTANTS
    Policy,             \* affinity.policy
    GrayPolicy,         \* affinity.graylist.policy
    NewClientsRequire,  \* affinity.new_clients_require
    ConfigDisabled,     \* backends parked by the config file
    Hash(_, _)          \* Hash(key, S): the FNV-1a placement of key among S

Policies == {"force_reauth", "fail_closed", "pin_unhealthy"}
HealthStates == {"unknown", "healthy", "degraded", "unhealthy"}
Kinds == {"none", "token", "device", "anon"}

ASSUME RouterAssumption ==
    /\ Policy \in Policies /\ GrayPolicy \in Policies
    /\ NewClientsRequire \in {"healthy", "healthy_or_degraded"}
    /\ ConfigDisabled \subseteq Backends
    /\ Backends # {}
    /\ \A k \in Devices \cup AnonKeys : \A S \in SUBSET Backends :
          S # {} => Hash(k, S) \in S

VARIABLES
    health,   \* the monitor's last state of each backend
    runtime   \* the operator's overlay: backends disabled at run time

routerVars == <<health, runtime>>

RouterTypeOK ==
    /\ health \in [Backends -> HealthStates]
    /\ runtime \subseteq Backends

RouterInit ==
    /\ health = [b \in Backends |-> "unknown"]
    /\ runtime = {}

-----------------------------------------------------------------------------

Disabled == ConfigDisabled \cup runtime

\* Seeded fault: only a backend that probes fully healthy serves bound clients.
UsableOnlyHealthy(b) == health[b] = "healthy"

\* A bound client may use any backend that is not known to be down.
Usable(b) == health[b] # "unhealthy"

\* Backends a client without a binding may be given.
Eligible ==
    {b \in Backends \ Disabled :
        \/ health[b] \in {"healthy", "unknown"}
        \/ health[b] = "degraded" /\ NewClientsRequire = "healthy_or_degraded"}

LeastLoaded(S) == {b \in S : \A c \in S : Load(b) <= Load(c)}

Decision == [backend : Backends \cup {None}, kind : Kinds, drop : BOOLEAN]

Go(b, kind)  == [backend |-> b, kind |-> kind, drop |-> FALSE]
Refuse       == [backend |-> None, kind |-> "none", drop |-> FALSE]
Drop(d, kind) == [d EXCEPT !.drop = TRUE, !.kind = kind]

\* pickEligible: the cookie's backend, else consistent hash, else least-loaded.
PickEligible(device, hint) ==
    IF Eligible = {} THEN {Refuse}
    ELSE IF hint \in Eligible THEN {Go(hint, "none")}
    ELSE IF device # None THEN {Go(Hash(device, Eligible), "none")}
    ELSE {Go(b, "none") : b \in LeastLoaded(Eligible)}

\* pickNew: pin_unhealthy hashes over the whole pool and refuses a bad home.
PickNew(device, anonKey, hint, policy) ==
    IF policy = "pin_unhealthy"
    THEN LET home == Hash(IF device = None THEN anonKey ELSE device, Backends)
         IN  IF home \in Disabled \/ ~Usable(home) THEN {Refuse} ELSE {Go(home, "none")}
    ELSE PickEligible(device, hint)

\* Seeded fault: pin_unhealthy is honoured before the operator's disable.
BoundPinFirst(b, kind, token, device, policy) ==
    IF policy = "pin_unhealthy" THEN {Go(b, kind)}
    ELSE IF b \in Disabled THEN {Refuse}
    ELSE IF Usable(b) THEN {Go(b, kind)}
    ELSE IF policy = "fail_closed" THEN {Refuse}
    ELSE IF token # None THEN {Drop(Refuse, kind)}
    ELSE {Drop(d, kind) : d \in PickEligible(device, None)}

\* Seeded fault: force_reauth rehomes a request that carries the old token.
BoundRehomesToken(b, kind, token, device, policy) ==
    IF b \in Disabled THEN {Refuse}
    ELSE IF Usable(b) \/ policy = "pin_unhealthy" THEN {Go(b, kind)}
    ELSE IF policy = "fail_closed" THEN {Refuse}
    ELSE {Drop(d, kind) : d \in PickEligible(device, None)}

\* bound: the binding names b.  Disable beats health; an unhealthy b is a matter
\* of policy, and force_reauth never forwards the token it found.
Bound(b, kind, token, device, policy) ==
    IF b \in Disabled THEN {Refuse}
    ELSE IF Usable(b) \/ policy = "pin_unhealthy" THEN {Go(b, kind)}
    ELSE IF policy = "fail_closed" THEN {Refuse}
    ELSE IF token # None THEN {Drop(Refuse, kind)}
    ELSE {Drop(d, kind) : d \in PickEligible(device, None)}

\* Graylisted and policyFor: this request's own client or path, or the client
\* stored with a row it found.
PolicyFor(gray, tRow, dRow) ==
    IF gray \/ (tRow # None /\ tRow.gray) \/ (dRow # None /\ dRow.gray)
    THEN GrayPolicy ELSE Policy

\* hasLiveBinding: any token or device row, expired ones included.
HasLiveBinding(b) == Load(b) > 0

\* The backend header-less media follows: a backed cookie, else the IP glue.
SessionBackend(hint, addr) ==
    IF hint \in Backends /\ HasLiveBinding(hint) THEN hint
    ELSE IF Lookup(sessionRow, addr) # None THEN sessionRow[addr].backend
    ELSE None

\* Decide for a request that carries these identifiers.
Decide(token, device, gray, media, anonKey, addr, hint) ==
    LET tRow   == Lookup(tokenRow, token)
        dRow   == Lookup(deviceRow, device)
        aRow   == Lookup(anonRow, anonKey)
        follow == SessionBackend(hint, addr)
        policy == PolicyFor(gray, tRow, dRow)
    IN  IF tRow # None THEN Bound(tRow.backend, "token", token, device, policy)
        ELSE IF dRow # None THEN Bound(dRow.backend, "device", token, device, policy)
        ELSE IF media /\ follow # None THEN Bound(follow, "anon", token, device, policy)
        ELSE IF aRow # None THEN Bound(aRow.backend, "anon", token, device, policy)
        ELSE PickNew(device, anonKey, hint, policy)
=============================================================================
