------------------------------ MODULE UserPins ------------------------------
(***************************************************************************)
(* Who a binding belongs to: the user columns of the affinity store, kept  *)
(* up by logins and requests one statement at a time, and the operator's   *)
(* unpin of a user (internal/status), a transaction of several statements  *)
(* that finds its rows by those columns.  With SQLite the store has one    *)
(* connection and a transaction keeps everybody else out; with Postgres it *)
(* reads what is committed and locks only the rows it has deleted.         *)
(*                                                                         *)
(* Left out: TTLs (the transaction looks at none) and the rows of          *)
(* anon_bindings, which it leaves alone.  Ids are the same string in a     *)
(* path and in what a backend lists.                                       *)
(***************************************************************************)
EXTENDS Naturals, Sequences

CONSTANTS
    Backends, Users, Tokens, Devices, Handlers,
    None,
    UserOf,    \* the user a token is issued to (external)
    DeviceOf   \* the device that holds it (external)

\* A user's id at a backend.
UserId == [user : Users, backend : Backends]

ASSUME PinsAssumption ==
    /\ UserOf \in [Tokens -> Users]
    /\ DeviceOf \in [Tokens -> Devices]
    /\ None \notin Users \cup Backends \cup UserId

VARIABLES
    driver,    \* affinity.store
    tokenRow,  \* token_bindings
    deviceRow, \* device_bindings: the backend of each device
    issued,    \* tokens that a login has issued (external)
    todo,      \* statements each handler has still to make
    unpin      \* the operator's request

vars == <<driver, tokenRow, deviceRow, issued, todo, unpin>>

Row == [backend : Backends, username : Users \cup {None}, userId : UserId \cup {None}]

\* What a handler writes: an upsert of a token's row or of a device's.
Statement == [token : Tokens \cup {None}, device : Devices \cup {None}, backend : Backends,
              username : Users \cup {None}, userId : UserId \cup {None}]

UnpinSteps == {"idle", "resolve", "select", "orphans", "tokens", "devices", "commit"}

\* ids and backends are the local variables of DeletePinsByUsername; gone and
\* goneDevices are the rows it has deleted and not committed.
Unpin == [step : UnpinSteps, user : Users \cup {None}, ids : SUBSET UserId,
          backends : SUBSET Backends, orphans : BOOLEAN,
          gone : SUBSET Tokens, goneDevices : SUBSET Devices]

NoUnpin == [step |-> "idle", user |-> None, ids |-> {}, backends |-> {}, orphans |-> FALSE,
            gone |-> {}, goneDevices |-> {}]

TypeOK ==
    /\ driver \in {"sqlite", "postgres"}
    /\ tokenRow \in [Tokens -> Row \cup {None}]
    /\ deviceRow \in [Devices -> Backends \cup {None}]
    /\ issued \subseteq Tokens
    /\ todo \in [Handlers -> Seq(Statement)]
    /\ unpin \in Unpin

Init ==
    /\ driver \in {"sqlite", "postgres"}
    /\ tokenRow = [t \in Tokens |-> None]
    /\ deviceRow = [d \in Devices |-> None]
    /\ issued = {}
    /\ todo = [h \in Handlers |-> <<>>]
    /\ unpin = NoUnpin

-----------------------------------------------------------------------------
(* The handlers. *)

InTransaction == unpin.step \in {"orphans", "tokens", "devices", "commit"}

\* Whether a statement on these rows can go on now.
Free(t, d) ==
    IF driver = "sqlite" THEN ~InTransaction
    ELSE t \notin unpin.gone /\ d \notin unpin.goneDevices

BindToken(t, b, username, userId) ==
    [token |-> t, device |-> None, backend |-> b, username |-> username, userId |-> userId]
BindDevice(d, b) ==
    [token |-> None, device |-> d, backend |-> b, username |-> None, userId |-> None]

\* A login at b: peekLogin binds the token with the user's id and name.
Login(h) ==
    /\ todo[h] = <<>>
    /\ \E t \in Tokens \ issued, b \in Backends :
         /\ issued' = issued \cup {t}
         /\ todo' = [todo EXCEPT ![h] =
              << BindToken(t, b, UserOf[t], [user |-> UserOf[t], backend |-> b]),
                 BindDevice(DeviceOf[t], b) >>]
    /\ UNCHANGED <<driver, tokenRow, deviceRow, unpin>>

\* Where the router sends a request with this token: where its row says, else its
\* device's, else anywhere.
Homes(t) ==
    IF tokenRow[t] # None THEN {tokenRow[t].backend}
    ELSE IF deviceRow[DeviceOf[t]] # None THEN {deviceRow[DeviceOf[t]]}
    ELSE Backends

\* Any other request binds with the id its path names, if any: not always the id
\* of the token's own user.
Visit(h) ==
    /\ todo[h] = <<>>
    /\ \E t \in issued, page \in Users \cup {None} : \E b \in Homes(t) :
         todo' = [todo EXCEPT ![h] =
           << BindDevice(DeviceOf[t], b),
              BindToken(t, b, None, IF page = None THEN None
                                    ELSE [user |-> page, backend |-> b]) >>]
    /\ UNCHANGED <<driver, tokenRow, deviceRow, issued, unpin>>

\* Seeded fault: the upsert's user_id and username are bound in the wrong order.
UpsertedSwapped(old, s) ==
    [backend |-> s.backend, username |-> s.userId, userId |-> s.username]

\* INSERT ... ON CONFLICT: what the statement leaves empty stays as it was.
Upserted(old, s) ==
    [backend  |-> s.backend,
     username |-> IF s.username = None /\ old # None THEN old.username ELSE s.username,
     userId   |-> IF s.userId = None /\ old # None THEN old.userId ELSE s.userId]

\* The handler's next statement.
Execute(h) ==
    /\ todo[h] # <<>>
    /\ LET s == Head(todo[h]) IN
       /\ Free(s.token, s.device)
       /\ tokenRow' = IF s.token = None THEN tokenRow
                      ELSE [tokenRow EXCEPT ![s.token] = Upserted(@, s)]
       /\ deviceRow' = IF s.device = None THEN deviceRow
                       ELSE [deviceRow EXCEPT ![s.device] = s.backend]
    /\ todo' = [todo EXCEPT ![h] = Tail(@)]
    /\ UNCHANGED <<driver, issued, unpin>>

\* DeleteToken, at a logout.
Logout(t) ==
    /\ tokenRow[t] # None
    /\ Free(t, None)
    /\ tokenRow' = [tokenRow EXCEPT ![t] = None]
    /\ UNCHANGED <<driver, deviceRow, issued, todo, unpin>>

-----------------------------------------------------------------------------
(* The unpin. *)

Rows == {t \in Tokens \ unpin.gone : tokenRow[t] # None}

\* pinWhere: the user's name, or one of the ids the backends gave for it.
Matches(t) == tokenRow[t].username = unpin.user \/ tokenRow[t].userId \in unpin.ids

\* Seeded fault: a row without a name counts as an orphan, whatever its id.
OrphanNameless(t) == tokenRow[t].username = None

Orphan(t) == tokenRow[t].username = None /\ tokenRow[t].userId = None

Selected == IF unpin.orphans THEN {t \in Rows : Orphan(t)} ELSE {t \in Rows : Matches(t)}

\* Seeded fault: the query for the backends stops at its first row.
BackendsOfOne(T) == IF T = {} THEN {} ELSE {tokenRow[CHOOSE t \in T : TRUE].backend}

BackendsOf(T) == {tokenRow[t].backend : t \in T}

unpinVars == <<driver, tokenRow, deviceRow, issued, todo>>

UnpinUser ==
    /\ unpin.step = "idle"
    /\ \E u \in Users : unpin' = [NoUnpin EXCEPT !.step = "resolve", !.user = u]
    /\ UNCHANGED unpinVars

\* publicUserIDs: those backends that answer in time and list the user.
Resolve ==
    /\ unpin.step = "resolve"
    /\ \E B \in SUBSET Backends :
         unpin' = [unpin EXCEPT !.step = "select", !.ids = {[user |-> unpin.user, backend |-> b] : b \in B}]
    /\ UNCHANGED unpinVars

\* BeginTx and the backends of the user's rows; without any, those of the orphans
\* are looked for.
Select ==
    /\ unpin.step = "select"
    /\ unpin' = IF Selected = {} THEN [unpin EXCEPT !.step = "orphans", !.orphans = TRUE]
                ELSE [unpin EXCEPT !.step = "tokens", !.backends = BackendsOf(Selected)]
    /\ UNCHANGED unpinVars

SelectOrphans ==
    /\ unpin.step = "orphans"
    /\ unpin' = IF Selected = {} THEN NoUnpin
                ELSE [unpin EXCEPT !.step = "tokens", !.backends = BackendsOf(Selected)]
    /\ UNCHANGED unpinVars

\* DELETE FROM token_bindings, with the same condition evaluated anew.
DeleteTokens ==
    /\ unpin.step = "tokens"
    /\ unpin' = [unpin EXCEPT !.step = "devices", !.gone = Selected]
    /\ UNCHANGED unpinVars

\* DELETE FROM device_bindings, for one backend after the other.
DeleteDevices ==
    /\ unpin.step = "devices"
    /\ unpin' \in
         IF unpin.backends = {} THEN {[unpin EXCEPT !.step = "commit"]}
         ELSE {[unpin EXCEPT !.backends = @ \ {b},
                             !.goneDevices = @ \cup {d \in Devices : deviceRow[d] = b}] :
                 b \in unpin.backends}
    /\ UNCHANGED unpinVars

Commit ==
    /\ unpin.step = "commit"
    /\ tokenRow' = [t \in Tokens |-> IF t \in unpin.gone THEN None ELSE tokenRow[t]]
    /\ deviceRow' = [d \in Devices |-> IF d \in unpin.goneDevices THEN None ELSE deviceRow[d]]
    /\ unpin' = NoUnpin
    /\ UNCHANGED <<driver, issued, todo>>

\* A statement fails, or the operator goes away: nothing of it happened.
Rollback ==
    /\ unpin.step \notin {"idle", "resolve"}
    /\ unpin' = NoUnpin
    /\ UNCHANGED unpinVars

-----------------------------------------------------------------------------

Next ==
    \/ \E h \in Handlers : Login(h) \/ Visit(h) \/ Execute(h)
    \/ \E t \in Tokens : Logout(t)
    \/ UnpinUser \/ Resolve \/ Select \/ SelectOrphans
    \/ DeleteTokens \/ DeleteDevices \/ Commit \/ Rollback

Spec == Init /\ [][Next]_vars

-----------------------------------------------------------------------------

Committing == unpin.step = "commit"

Anonymous(t) == tokenRow[t].username = None /\ tokenRow[t].userId = None

\* Another user's token is unpinned only if its row had lost its user, or if the
\* last page it asked for under /Users was the named user's: the upsert keeps a
\* known name but lets the id of the path overwrite the id of the login.
OthersKeepTokens ==
    Committing =>
      \A t \in unpin.gone :
        \/ UserOf[t] = unpin.user
        \/ Anonymous(t)
        \/ tokenRow[t].userId # None /\ tokenRow[t].userId.user = unpin.user

\* With SQLite an unpin takes, when it commits, every row it can tell to be the
\* user's, whatever the handlers were about to write: no row is left with the name
\* or an id that was resolved, so that a token of the user survives only nameless;
\* one without name and id survives only if some row did match; and no device row
\* is left on a backend that a deleted row named.
UnpinComplete ==
    Committing /\ driver = "sqlite" =>
      /\ \A t \in Tokens \ unpin.gone : tokenRow[t] # None =>
           /\ ~Matches(t)
           /\ UserOf[t] = unpin.user => tokenRow[t].username = None
           /\ Anonymous(t) => \E q \in unpin.gone : Matches(q)
      /\ \A d \in Devices \ unpin.goneDevices :
           deviceRow[d] \notin {tokenRow[t].backend : t \in unpin.gone}
=============================================================================
