------------------------- MODULE AffinityProperties -------------------------
(***************************************************************************)
(* What module Proxy promises its clients and its operator, kept apart     *)
(* from the mechanism.                                                     *)
(***************************************************************************)
EXTENDS Proxy

PeekSteps == {"peekToken", "peekDevice", "peekSession"}

\* The token a request would forward to its backend.
Forwards(r, t) == t # None /\ req[r].token = t /\ req[r].pc = "hop"

\* The backend request r would hop to now.
HopTarget(r, b) ==
    \/ req[r].pc = "hop" /\ b = req[r].backend
    \/ req[r].pc = "try" /\ b = NextCandidate(req[r])

-----------------------------------------------------------------------------
(* Safety. *)

\* A login answer pins its token to the backend that issued it (peekLogin,
\* including after failover), and no other request, drop, probe or restart
\* moves or removes that row: a token a client holds has a row at its issuer
\* until it was forgotten (force_reauth drop, logout, unpin, TTL, a failed bind).
TokenPinnedToIssuer ==
    \A t \in held \ forgotten :
        tokenRow[t] # None /\ tokenRow[t].backend = issuer[t]

\* "A token issued by Server A is never sent to Server B", as far as the code
\* keeps it: a proxied hop forwards a token to a backend that did not issue it
\* only if HAP has forgotten the token since.  (A login hop may, see
\* FailoverForwardsNoToken.)
TokenForwardedToIssuer ==
    \A r \in Requests, t \in Tokens :
        Forwards(r, t) /\ t \notin forgotten => req[r].backend = issuer[t]

\* force_reauth: a request on which the binding is dropped never goes on to a
\* backend with the old token, nor binds it.
DroppedTokenNotForwarded ==
    \A r \in Requests :
        req[r].drop /\ req[r].token # None =>
            req[r].pc \in {"dropToken", "dropDevice"} /\ req[r].backend = None

\* Gray-listing: a device that identified itself at login keeps its token's
\* pin whatever fails.  force_reauth never forgets it, not even on a request
\* that carries the token alone, for the row remembers the client's class; and
\* a request on a gray-listed path drops no binding of any client.
GrayTokenNeverDropped ==
    GrayPolicy # "force_reauth" =>
        \A r \in Requests :
            /\ req[r].pc \in {"dropToken", "dropDevice"} => req[r].path # "sync"
            /\ \A t \in Tokens :
                  /\ req[r].pc = "dropToken" /\ req[r].token = t
                  /\ Owner[t] \in GrayDevices
                  => t \in forgotten

\* Operator disable: a backend that was disabled when a request arrived, and
\* has not been enabled since, is never hopped to on that request's behalf,
\* under any policy, binding, placement or login failover.
ParkedBackendNeverHopped ==
    \A r \in Requests, b \in Backends : HopTarget(r, b) => b \notin req[r].parked

\* "Re-login on the same client stays on the same backend", whatever the
\* user's hint: a client that logs in with a token HAP has not forgotten is sent
\* nowhere else than to the token's issuer, and the token it gets is issued
\* there and bound there, unless that backend was not eligible or failed it.
ReloginStaysHome ==
    \A r \in Requests :
        LET q == req[r]
            home == issuer[q.token]
        IN
        q.token \notin forgotten \cup {None} /\ home \in q.cands \ q.tried =>
            /\ q.pc = "try" => NextCandidate(q) = home
            /\ q.pc \in PeekSteps => issuer[q.minted] = home
            /\ q.pc \in PeekSteps \ {"peekToken"} /\ q.minted \notin forgotten =>
                  tokenRow[q.minted] # None /\ tokenRow[q.minted].backend = home

\* Login failover forwards no existing token (docs/affinity.md): a candidate
\* tried after the first one is not sent a token another backend issued.
FailoverForwardsNoToken ==
    \A r \in Requests :
        LET q == req[r] IN
        q.pc = "try" /\ q.tried # {} /\ q.token # None =>
            issuer[q.token] = NextCandidate(q)

-----------------------------------------------------------------------------
(* The promise. *)

\* Where HAP pins each token it has not forgotten.
PinNow ==
    [t \in Tokens |->
        IF t \notin forgotten /\ tokenRow[t] # None THEN tokenRow[t].backend ELSE None]

\* What request q is sending: its token, to the decided backend or, on a login,
\* to the candidate being tried.
Sends(q) ==
    IF q.token = None THEN {}
    ELSE IF q.pc = "hop" THEN {<<q.token, q.backend, "request">>}
    ELSE IF q.pc = "try" THEN {<<q.token, NextCandidate(q), "login">>}
    ELSE {}

SentNow == UNION {Sends(req[r]) : r \in Requests}

\* The handlers, statement by statement and whatever comes between and fails,
\* do what module Affinity promises: a token is pinned home before its client
\* has it, its pin is lost but never moved, ordinary requests take it home only
\* until then, and logins take it to the backends they try.
Promise == INSTANCE Affinity WITH
    home <- issuer, pin <- PinNow, lost <- forgotten, given <- held, sent <- SentNow

AffinityPromise == Promise!Spec

-----------------------------------------------------------------------------
(* The inductive invariant behind the safety properties. *)

\* A handler has what its next step uses: a backend to bind and hop to, a
\* token to bind, a candidate left to try, a minted token to record.
StepReady(q) ==
    /\ q.pc \in {"bind", "bindToken", "bindSession", "hop"} => q.backend \in Backends
    /\ q.pc \in {"bindToken", "bindSession"} => q.token # None
    /\ IF q.pc \in {"try"} \cup PeekSteps
       THEN q.tried \subseteq q.cands /\ q.tried # q.cands
       ELSE q.tried = {}
    /\ q.pc \in PeekSteps => q.minted \in Tokens
    /\ q.pc \in {"dropToken", "dropDevice"} => q.drop

TypeInv == TypeOK /\ \A r \in Requests : StepReady(req[r])

\* A row that was not forgotten is within its TTL and names the issuer.
RowsAtIssuer ==
    \A t \in Tokens \ forgotten :
        tokenRow[t] # None => tokenRow[t].live /\ tokenRow[t].backend = issuer[t]

\* A token a client holds was issued, and has a row unless it was forgotten.
HeldTokens ==
    \A t \in held : issuer[t] # None /\ (t \in forgotten \/ tokenRow[t] # None)

\* What a handler carries between its steps agrees with the store: the token
\* came from a login, the decision it acts on names that token's issuer, a
\* dropped token goes nowhere, and a login answer is bound where it came from.
CarriesIssuer(q) ==
    /\ q.token \in held \cup {None}
    /\ q.pc \in {"bind", "bindToken", "bindSession", "hop"} =>
          q.token \in forgotten \cup {None} \/ q.backend = issuer[q.token]
    /\ q.drop /\ q.token # None =>
          q.pc \in {"dropToken", "dropDevice"} /\ q.backend = None
    /\ q.pc \in PeekSteps =>
          issuer[q.minted] = NextCandidate(q)
    /\ q.pc \in {"peekDevice", "peekSession"} =>
          q.minted \in forgotten \/ tokenRow[q.minted] # None

AffinityInv ==
    /\ RowsAtIssuer
    /\ HeldTokens
    /\ \A r \in Requests : CarriesIssuer(req[r])

-----------------------------------------------------------------------------
(* Liveness.  The handlers run; hops end (the transports and the login      *)
(* client have timeouts); a client that holds a token keeps using it.       *)

ArriveWith(r, t) == Arrive(r) /\ req'[r].token = t /\ req'[r].path = "api"

FairSpec ==
    /\ Spec
    /\ \A r \in Requests : WF_vars(Handle(r))
    /\ \A t \in Tokens : SF_vars(\E r \in Requests : ArriveWith(r, t))

\* Every request is answered: login failover ends, no drop or bind is left.
EveryRequestAnswered ==
    \A r \in Requests : req[r].pc # "idle" ~> req[r].pc = "idle"

\* "When A recovers, the same token works": once a held, unforgotten token's
\* issuer stays routable, requests with that token keep reaching it.
TokenIssuerServes ==
    \A t \in Tokens :
        LET Routable == /\ t \in held \ forgotten
                        /\ health[issuer[t]] # "unhealthy" /\ issuer[t] \notin Disabled
        IN  <>[](issuer[t] # None /\ Routable) =>
            []<>(\E r \in Requests : Forwards(r, t) /\ req[r].backend = issuer[t])
=============================================================================
