------------------------------- MODULE Proxy -------------------------------
(***************************************************************************)
(* internal/proxy on top of internal/router and internal/store: the life   *)
(* of the requests in flight.  Every slot of Requests is one handler       *)
(* goroutine; each of its store statements and each hop is a step of its   *)
(* own, so that handlers, probes, the operator and the clock interleave    *)
(* between any two of them.                                                *)
(*                                                                         *)
(* Modelled from how the handler uses them (external): the Jellyfin        *)
(* backends, which issue tokens and answer hops, and the clients, which    *)
(* send any token they hold.                                               *)
(***************************************************************************)
EXTENDS Router

CONSTANTS
    Requests,     \* handler goroutines that may be in flight together
    GrayDevices,  \* devices whose Client= matches the gray-list
    UserHint,     \* affinity.user_affinity of the user on a device, or None
    Owner,        \* the device a token is issued to
    AnonKeyOf,    \* hash(IP + User-Agent) of a device
    AddrOf,       \* hash(IP) of a device
    Paths,        \* kinds of request the clients send
    MaxFaults     \* bound on probes, operator actions, expiries, store errors

\* "sync": a path of affinity.graylist.paths; the others are on none of them.
AllPaths == {"api", "media", "sync", "login", "logout"}

ASSUME ProxyAssumption ==
    /\ GrayDevices \subseteq Devices
    /\ UserHint \in [Devices -> Backends \cup {None}]
    /\ Owner \in [Tokens -> Devices]
    /\ AnonKeyOf \in [Devices -> AnonKeys]
    /\ AddrOf \in [Devices -> Addrs]
    /\ Paths \subseteq AllPaths
    /\ MaxFaults \in Nat

VARIABLES
    req,        \* the request each goroutine is serving
    issuer,     \* backend that issued a token, None before its login (external)
    held,       \* tokens a login has handed to a client (external)
    forgotten,  \* history: tokens whose row HAP dropped, aged out or never wrote
    faults      \* faults and environment changes so far, at most MaxFaults

vars == <<storeVars, routerVars, req, issuer, held, forgotten, faults>>

Steps == {"idle", "decide", "dropToken", "dropDevice", "bind", "bindToken",
          "bindSession", "hop", "login", "try", "peekToken", "peekDevice",
          "peekSession"}

RequestType ==
    [pc         : Steps,
     path       : AllPaths,
     client     : Devices \cup {None},
     identified : BOOLEAN,                 \* carries DeviceId and Client=
     token      : Tokens \cup {None},
     backend    : Backends \cup {None},    \* Decision.Backend
     kind       : Kinds,                   \* Decision.Kind
     drop       : BOOLEAN,                 \* Decision.DropClient
     cands      : SUBSET Backends,         \* login candidates, frozen
     tried      : SUBSET Backends,         \* candidates that failed
     minted     : Tokens \cup {None},      \* token of the login answer
     parked     : SUBSET Backends]         \* history: disabled since arrival

Idle == [pc |-> "idle", path |-> "api", client |-> None, identified |-> FALSE,
         token |-> None, backend |-> None, kind |-> "none", drop |-> FALSE,
         cands |-> {}, tried |-> {}, minted |-> None, parked |-> {}]

TypeOK ==
    /\ StoreTypeOK
    /\ RouterTypeOK
    /\ req \in [Requests -> RequestType]
    /\ \A r \in Requests : req[r].pc # "idle" => req[r].client \in Devices
    /\ issuer \in [Tokens -> Backends \cup {None}]
    /\ held \subseteq Tokens
    /\ forgotten \subseteq Tokens
    /\ faults \in Nat

Init ==
    /\ StoreInit
    /\ RouterInit
    /\ req = [r \in Requests |-> Idle]
    /\ issuer = [t \in Tokens |-> None]
    /\ held = {}
    /\ forgotten = {}
    /\ faults = 0

-----------------------------------------------------------------------------
(* Helpers. *)

DeviceOf(q) == IF q.identified THEN q.client ELSE None
GrayOf(q)   == q.identified /\ q.client \in GrayDevices

\* MatchesClient or MatchesPath; a row remembers the client's class only.
GrayRequest(q) == GrayOf(q) \/ q.path = "sync"

Goto(r, step) == req' = [req EXCEPT ![r].pc = step]
Finish(r)     == req' = [req EXCEPT ![r] = Idle]

\* One more fault or environment change, within the bound.
Fault   == faults < MaxFaults /\ faults' = faults + 1
NoFault == UNCHANGED faults

Forget(T) == forgotten' = forgotten \cup T

clientVars == <<issuer, held>>

-----------------------------------------------------------------------------
(* ServeHTTP. *)

\* A client sends a request with a token it holds, or with none.  Login and
\* only login is sure to identify the device; logout carries a token.
Arrive(r) ==
    /\ req[r].pc = "idle"
    /\ \E c \in Devices, path \in Paths, identified \in BOOLEAN, t \in held \cup {None} :
         /\ t # None => Owner[t] = c
         /\ path = "login" => identified
         /\ path = "logout" => t # None
         /\ req' = [req EXCEPT ![r] =
              [Idle EXCEPT !.pc = "decide", !.path = path, !.client = c,
                           !.identified = identified, !.token = t,
                           !.parked = Disabled]]
    /\ UNCHANGED <<storeVars, routerVars, clientVars, forgotten, faults>>

\* Seeded fault: a decision without a backend is acted upon.
AfterDecisionUnchecked(q) == IF q.path = "login" THEN "login" ELSE "bind"

\* Where the handler goes once the decision is made and any drop is done.
AfterDecision(q) ==
    IF q.backend = None THEN "idle" ELSE IF q.path = "login" THEN "login" ELSE "bind"

Decided(r, d) ==
    LET q == [req[r] EXCEPT !.backend = d.backend, !.kind = d.kind, !.drop = d.drop]
        step == IF d.drop THEN "dropToken" ELSE AfterDecision(q)
    IN  req' = [req EXCEPT ![r] = IF step = "idle" THEN Idle ELSE [q EXCEPT !.pc = step]]

\* Seeded fault: a failed lookup is taken for a miss.
LookupFailsAsMiss(r) ==
    /\ req[r].pc = "decide"
    /\ Fault
    /\ \E d \in PickNew(DeviceOf(req[r]), AnonKeyOf[req[r].client], None, Policy) :
         Decided(r, d)
    /\ UNCHANGED <<storeVars, routerVars, clientVars, forgotten>>

\* Router.Decide, a lookup errs: 503 store_unavailable.  The lookups before it
\* may have deleted the expired rows they met.
LookupFails(r) ==
    LET q == req[r] IN
    /\ q.pc = "decide"
    /\ Fault
    /\ Decided(r, Refuse)
    /\ tokenRow' \in {tokenRow, Purge(tokenRow, q.token)}
    /\ deviceRow' \in {deviceRow, Purge(deviceRow, DeviceOf(q))}
    /\ UNCHANGED <<anonRow, sessionRow, routerVars, clientVars, forgotten>>

\* Router.Decide: the lookups delete the expired rows they meet, then choose.
\* A delete that fails leaves its row to be found expired again.  hint is the
\* hap_backend cookie.
RouteRequest(r) ==
    LET q == req[r] IN
    /\ q.pc = "decide"
    /\ \E hint \in Backends \cup {None} :
         \E d \in Decide(q.token, DeviceOf(q), GrayRequest(q), q.path = "media",
                         AnonKeyOf[q.client], AddrOf[q.client], hint) :
           Decided(r, d)
    /\ tokenRow' \in {tokenRow, Purge(tokenRow, q.token)}
    /\ deviceRow' \in {deviceRow, Purge(deviceRow, DeviceOf(q))}
    /\ \/ /\ NoFault
          /\ tokenRow' = Purge(tokenRow, q.token)
          /\ deviceRow' = Purge(deviceRow, DeviceOf(q))
       \/ Fault
    /\ UNCHANGED <<anonRow, sessionRow, routerVars, clientVars, forgotten>>

\* The handler goes on after DeleteClient, whatever became of it.
Resume(r) ==
    LET step == AfterDecision(req[r])
    IN  IF step = "idle" THEN Finish(r) ELSE Goto(r, step)

\* DeleteClient, first statement.  If it errs the device row is not touched.
DropToken(r) ==
    LET q == req[r] IN
    /\ q.pc = "dropToken"
    /\ \/ /\ NoFault
          /\ tokenRow' = Delete(tokenRow, q.token)
          /\ Forget(IF q.token = None THEN {} ELSE {q.token})
          /\ Goto(r, "dropDevice")
       \/ /\ Fault
          /\ q.token # None
          /\ Resume(r)
          /\ UNCHANGED <<tokenRow, forgotten>>
    /\ UNCHANGED <<deviceRow, anonRow, sessionRow, routerVars, clientVars>>

\* DeleteClient, second statement; its error is ignored as well.
DropDevice(r) ==
    LET q == req[r] IN
    /\ q.pc = "dropDevice"
    /\ \/ NoFault /\ deviceRow' = Delete(deviceRow, DeviceOf(q))
       \/ Fault /\ q.identified /\ UNCHANGED deviceRow
    /\ Resume(r)
    /\ UNCHANGED <<tokenRow, anonRow, sessionRow, routerVars, clientVars, forgotten>>

\* BindDevice when the request names a device, BindAnon when it does not.
BindPlacement(r) ==
    LET q == req[r]
        anonKey == AnonKeyOf[q.client]
    IN
    /\ q.pc = "bind"
    /\ \/ Fault /\ UNCHANGED <<deviceRow, anonRow>>
       \/ /\ NoFault
          /\ IF q.identified
             THEN /\ deviceRow' = Upsert(deviceRow, q.client, q.backend, GrayOf(q))
                  /\ UNCHANGED anonRow
             ELSE /\ anonRow' = Upsert(anonRow, anonKey, q.backend, FALSE)
                  /\ UNCHANGED deviceRow
    /\ Goto(r, IF q.token = None THEN "hop" ELSE "bindToken")
    /\ UNCHANGED <<tokenRow, sessionRow, routerVars, clientVars, forgotten>>

\* BindToken: the token's row takes the decision's backend.
BindToken(r) ==
    LET q == req[r] IN
    /\ q.pc = "bindToken"
    /\ \/ Fault /\ UNCHANGED tokenRow
       \/ NoFault /\ tokenRow' = Upsert(tokenRow, q.token, q.backend, GrayOf(q))
    /\ Goto(r, "bindSession")
    /\ UNCHANGED <<deviceRow, anonRow, sessionRow, routerVars, clientVars, forgotten>>

\* BindAnon on hash(IP): the session glue for header-less media.
BindSession(r) ==
    LET q == req[r] IN
    /\ q.pc = "bindSession"
    /\ \/ Fault /\ UNCHANGED sessionRow
       \/ NoFault /\ sessionRow' = Upsert(sessionRow, AddrOf[q.client], q.backend, FALSE)
    /\ Goto(r, "hop")
    /\ UNCHANGED <<tokenRow, deviceRow, anonRow, routerVars, clientVars, forgotten>>

-----------------------------------------------------------------------------
(* proxy: the hop to the decided backend. *)

\* The backend answers: ModifyResponse renews the rows that still exist.
HopAnswered(r) ==
    LET q == req[r] IN
    /\ q.pc = "hop"
    /\ tokenRow' = Touch(tokenRow, q.token)
    /\ deviceRow' = Touch(deviceRow, DeviceOf(q))
    /\ Finish(r)
    /\ UNCHANGED <<anonRow, sessionRow, routerVars, clientVars, forgotten, faults>>

\* A 2xx to a logout: ModifyResponse first deletes the token's row.
LogoutAnswered(r) ==
    LET q == req[r] IN
    /\ q.pc = "hop"
    /\ q.path = "logout" /\ q.token # None
    /\ tokenRow' = Delete(tokenRow, q.token)
    /\ Forget({q.token})
    /\ deviceRow' = Touch(deviceRow, DeviceOf(q))
    /\ Finish(r)
    /\ UNCHANGED <<anonRow, sessionRow, routerVars, clientVars, faults>>

\* No answer to work on: the hop failed (503 backend_unreachable), the client
\* left the library queue, or a cache answered before the hop.
HopSkipped(r) ==
    /\ req[r].pc = "hop"
    /\ Finish(r)
    /\ UNCHANGED <<storeVars, routerVars, clientVars, forgotten, faults>>

-----------------------------------------------------------------------------
(* login. *)

\* Seeded fault: the username hint is honoured even behind a live token.
LoginPreferredIgnoresToken(q) ==
    IF UserHint[q.client] # None THEN UserHint[q.client] ELSE q.backend

\* loginPreferred: a token's backend, else the username hint, else the pick.
LoginPreferred(q) ==
    IF q.kind # "token" /\ UserHint[q.client] # None THEN UserHint[q.client] ELSE q.backend

FirstOf(S) == CHOOSE b \in S : \A c \in S : b <= c

\* LoginCandidates' order: the preferred backend, then the config's order.
NextCandidate(q) ==
    LET left == q.cands \ q.tried
    IN  IF LoginPreferred(q) \in left THEN LoginPreferred(q) ELSE FirstOf(left)

\* Seeded fault: the candidates include backends the operator disabled.
LoginStartAll(r) ==
    /\ req[r].pc = "login"
    /\ req' = [req EXCEPT ![r].pc = "try", ![r].cands = Backends]
    /\ UNCHANGED <<storeVars, routerVars, clientVars, forgotten, faults>>

\* login: the candidates are computed once, before the first hop.  No candidate
\* (503 no_eligible_backend) and a body that cannot be read (400) end it.
LoginStart(r) ==
    /\ req[r].pc = "login"
    /\ \/ Finish(r)
       \/ /\ Eligible # {}
          /\ req' = [req EXCEPT ![r].pc = "try", ![r].cands = Eligible]
    /\ UNCHANGED <<storeVars, routerVars, clientVars, forgotten, faults>>

\* Seeded fault: only the last failed candidate is crossed off.
LoginTryFailsForgetful(r) ==
    LET q == req[r]
        tried == {NextCandidate(q)}
    IN
    /\ q.pc = "try"
    /\ IF tried = q.cands THEN Finish(r) ELSE req' = [req EXCEPT ![r].tried = tried]
    /\ UNCHANGED <<storeVars, routerVars, clientVars, forgotten, faults>>

\* The candidate cannot be reached, times out or answers 401: try the next
\* one, or give the client the last answer.
LoginTryFails(r) ==
    LET q == req[r]
        tried == q.tried \cup {NextCandidate(q)}
    IN
    /\ q.pc = "try"
    /\ IF tried = q.cands THEN Finish(r) ELSE req' = [req EXCEPT ![r].tried = tried]
    /\ UNCHANGED <<storeVars, routerVars, clientVars, forgotten, faults>>

\* The candidate answers anything else without a token: it goes to the client.
LoginTryEnds(r) ==
    /\ req[r].pc = "try"
    /\ Finish(r)
    /\ UNCHANGED <<storeVars, routerVars, clientVars, forgotten, faults>>

\* The candidate answers 2xx with a fresh AccessToken.
LoginGranted(r) ==
    LET q == req[r] IN
    /\ q.pc = "try"
    /\ \E u \in Tokens :
         /\ issuer[u] = None
         /\ Owner[u] = q.client
         /\ issuer' = [issuer EXCEPT ![u] = NextCandidate(q)]
         /\ req' = [req EXCEPT ![r].pc = "peekToken", ![r].minted = u]
    /\ UNCHANGED <<storeVars, routerVars, held, forgotten, faults>>

\* Seeded fault: the answer is bound to the decided backend, not to the one
\* that answered.
PeekBackendDecided(q) == q.backend

\* The backend peekLogin binds the answer to.
PeekBackend(q) == NextCandidate(q)

\* peekLogin, first statement: bind the new token.  Its error is ignored.
PeekToken(r) ==
    LET q == req[r] IN
    /\ q.pc = "peekToken"
    /\ \/ /\ NoFault
          /\ tokenRow' = Upsert(tokenRow, q.minted, PeekBackend(q), GrayOf(q))
          /\ UNCHANGED forgotten
       \/ Fault /\ Forget({q.minted}) /\ UNCHANGED tokenRow
    /\ Goto(r, "peekDevice")
    /\ UNCHANGED <<deviceRow, anonRow, sessionRow, routerVars, clientVars>>

\* peekLogin, second statement: the device follows the login.
PeekDevice(r) ==
    LET q == req[r] IN
    /\ q.pc = "peekDevice"
    /\ \/ NoFault /\ deviceRow' = Upsert(deviceRow, q.client, PeekBackend(q), GrayOf(q))
       \/ Fault /\ UNCHANGED deviceRow
    /\ Goto(r, "peekSession")
    /\ UNCHANGED <<tokenRow, anonRow, sessionRow, routerVars, clientVars, forgotten>>

\* peekLogin, third statement, and the answer that gives the client its token.
PeekSession(r) ==
    LET q == req[r] IN
    /\ q.pc = "peekSession"
    /\ \/ NoFault /\ sessionRow' = Upsert(sessionRow, AddrOf[q.client], PeekBackend(q), FALSE)
       \/ Fault /\ UNCHANGED sessionRow
    /\ held' = held \cup {q.minted}
    /\ Finish(r)
    /\ UNCHANGED <<tokenRow, deviceRow, anonRow, routerVars, issuer, forgotten>>

-----------------------------------------------------------------------------
(* The clock, the monitor, the operator and the process. *)

\* A row reaches its TTL.  An expired anon row is one no reader can tell from
\* an absent one.
ExpireToken(t) ==
    /\ tokenRow[t] # None /\ tokenRow[t].live
    /\ Fault
    /\ tokenRow' = Expired(tokenRow, t)
    /\ Forget({t})
    /\ UNCHANGED <<deviceRow, anonRow, sessionRow, routerVars, req, clientVars>>

ExpireDevice(d) ==
    /\ deviceRow[d] # None /\ deviceRow[d].live
    /\ Fault
    /\ deviceRow' = Expired(deviceRow, d)
    /\ UNCHANGED <<tokenRow, anonRow, sessionRow, routerVars, req, clientVars, forgotten>>

ExpireAnon ==
    /\ \/ \E k \in AnonKeys : /\ anonRow[k] # None
                              /\ anonRow' = Delete(anonRow, k)
                              /\ UNCHANGED sessionRow
       \/ \E a \in Addrs : /\ sessionRow[a] # None
                           /\ sessionRow' = Delete(sessionRow, a)
                           /\ UNCHANGED anonRow
    /\ Fault
    /\ UNCHANGED <<tokenRow, deviceRow, routerVars, req, clientVars, forgotten>>

\* A probe ends: the monitor publishes the state it found.
Probe(b) ==
    /\ \E s \in HealthStates \ {"unknown", health[b]} :
         health' = [health EXCEPT ![b] = s]
    /\ Fault
    /\ UNCHANGED <<storeVars, runtime, req, clientVars, forgotten>>

\* POST /hap/backends/{b}/disable.
Disable(b) ==
    /\ b \notin runtime
    /\ runtime' = runtime \cup {b}
    /\ Fault
    /\ UNCHANGED <<storeVars, health, req, clientVars, forgotten>>

\* POST /hap/backends/{b}/enable; 409 for a backend the config parked.
Enable(b) ==
    /\ b \in runtime \ ConfigDisabled
    /\ runtime' = runtime \ {b}
    /\ req' = [r \in Requests |-> [req[r] EXCEPT !.parked = @ \ {b}]]
    /\ Fault
    /\ UNCHANGED <<storeVars, health, clientVars, forgotten>>

\* DeletePinsByUsername, one transaction: the rows that match the username (or
\* the orphans; which rows those are is left open) and every device row on
\* their backends.
Unpin ==
    /\ \E T \in SUBSET {t \in Tokens : tokenRow[t] # None} :
         /\ T # {}
         /\ tokenRow' = [t \in Tokens |-> IF t \in T THEN None ELSE tokenRow[t]]
         /\ deviceRow' = [d \in Devices |->
              IF \E t \in T : d \in RowsOn(deviceRow, tokenRow[t].backend)
              THEN None ELSE deviceRow[d]]
         /\ Forget(T)
    /\ Fault
    /\ UNCHANGED <<anonRow, sessionRow, routerVars, req, clientVars>>

\* HAP stops and starts again: the store and the overlay survive, the requests
\* in flight and the monitor's states do not.
Restart ==
    /\ req' = [r \in Requests |-> Idle]
    /\ health' = [b \in Backends |-> "unknown"]
    /\ Fault
    /\ UNCHANGED <<storeVars, runtime, clientVars, forgotten>>

-----------------------------------------------------------------------------

Handle(r) ==
    \/ LookupFails(r) \/ RouteRequest(r)
    \/ DropToken(r) \/ DropDevice(r)
    \/ BindPlacement(r) \/ BindToken(r) \/ BindSession(r)
    \/ HopAnswered(r) \/ LogoutAnswered(r) \/ HopSkipped(r)
    \/ LoginStart(r) \/ LoginTryFails(r) \/ LoginTryEnds(r) \/ LoginGranted(r)
    \/ PeekToken(r) \/ PeekDevice(r) \/ PeekSession(r)

Environment ==
    \/ \E t \in Tokens : ExpireToken(t)
    \/ \E d \in Devices : ExpireDevice(d)
    \/ ExpireAnon
    \/ \E b \in Backends : Probe(b) \/ Disable(b) \/ Enable(b)
    \/ Unpin
    \/ Restart

Next ==
    \/ \E r \in Requests : Arrive(r) \/ Handle(r)
    \/ Environment

Spec == Init /\ [][Next]_vars
=============================================================================
