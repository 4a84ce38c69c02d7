--------------------------- MODULE UserPinsProofs ---------------------------
(***************************************************************************)
(* Proofs about module UserPins: whose tokens an unpin deletes, and what   *)
(* of the user it leaves with SQLite, for any number of users, tokens,     *)
(* devices, backends and handlers.                                         *)
(***************************************************************************)
EXTENDS UserPins, SequenceTheorems, TLAPS

\* A name is written by a login alone, which knows whose token it is.
NamesOwn ==
    /\ \A h \in Handlers : \A i \in 1..Len(todo[h]) :
         todo[h][i].token # None => todo[h][i].username \in {None, UserOf[todo[h][i].token]}
    /\ \A t \in Tokens : tokenRow[t] # None => tokenRow[t].username \in {None, UserOf[t]}

\* What the operator's request is about, and what each of its steps has done so far.
UnpinShape ==
    /\ unpin.step # "idle" => unpin.user \in Users
    /\ \A id \in unpin.ids : id.user = unpin.user
    /\ unpin.step = "orphans" => unpin.orphans
    /\ unpin.step \in {"resolve", "select"} => ~unpin.orphans
    /\ unpin.step \notin {"devices", "commit"} => unpin.gone = {} /\ unpin.goneDevices = {}
    /\ unpin.step = "commit" => unpin.backends = {}

\* Rows that are deleted and not committed are out of everybody's reach.
GoneStay ==
    \A t \in unpin.gone : tokenRow[t] # None /\ (Matches(t) \/ Anonymous(t))

\* With SQLite nobody writes during the transaction: what it read is still so.
Isolated ==
    driver = "sqlite" =>
      /\ InTransaction /\ unpin.orphans =>
           \A t \in Tokens : tokenRow[t] # None => ~Matches(t)
      /\ unpin.step = "tokens" => unpin.backends = BackendsOf(Selected) /\ Selected # {}
      /\ unpin.step \in {"devices", "commit"} =>
           /\ \A t \in Tokens \ unpin.gone : tokenRow[t] # None =>
                /\ ~Matches(t)
                /\ Anonymous(t) => \E q \in unpin.gone : Matches(q)
           /\ \A d \in Devices \ unpin.goneDevices :
                deviceRow[d] \in BackendsOf(unpin.gone) => deviceRow[d] \in unpin.backends

PinsInv == TypeOK /\ NamesOwn /\ UnpinShape /\ GoneStay /\ Isolated

LEMMA InitPinsInv == Init => PinsInv
  BY PinsAssumption
     DEF Init, PinsInv, TypeOK, NamesOwn, UnpinShape, GoneStay, Isolated, NoUnpin, Unpin,
         UnpinSteps, InTransaction

-----------------------------------------------------------------------------
(* The handlers. *)

\* What they do before their statements concerns the operator in nothing.
LEMMA PlanInv ==
    ASSUME PinsInv, NEW h \in Handlers, NEW s1 \in Statement, NEW s2 \in Statement,
           todo' = [todo EXCEPT ![h] = <<s1, s2>>],
           \A s \in {s1, s2} : s.token # None => s.username \in {None, UserOf[s.token]},
           issued' \subseteq Tokens, UNCHANGED <<driver, tokenRow, deviceRow, unpin>>
    PROVE  PinsInv'
<1>1. TypeOK'
  BY DEF PinsInv, TypeOK
<1>2. NamesOwn'
  <2>1. ASSUME NEW g \in Handlers, NEW i \in 1..Len(todo'[g]), todo'[g][i].token # None
        PROVE  todo'[g][i].username \in {None, UserOf[todo'[g][i].token]}
    <3>1. CASE g = h
      BY <2>1, <3>1 DEF PinsInv, TypeOK
    <3>2. CASE g # h
      BY <2>1, <3>2 DEF PinsInv, TypeOK, NamesOwn
    <3> QED BY <3>1, <3>2
  <2> QED BY <2>1 DEF PinsInv, NamesOwn
<1>3. UnpinShape' /\ GoneStay' /\ Isolated'
  BY DEF PinsInv, UnpinShape, GoneStay, Isolated, Matches, Anonymous, InTransaction,
         Selected, Rows, Orphan, BackendsOf
<1> QED BY <1>1, <1>2, <1>3 DEF PinsInv

LEMMA LoginInv ==
    ASSUME PinsInv, NEW h \in Handlers, Login(h)
    PROVE  PinsInv'
<1>1. PICK t \in Tokens \ issued, b \in Backends :
        /\ issued' = issued \cup {t}
        /\ todo' = [todo EXCEPT ![h] =
             << BindToken(t, b, UserOf[t], [user |-> UserOf[t], backend |-> b]),
                BindDevice(DeviceOf[t], b) >>]
  BY DEF Login
<1> DEFINE s1 == BindToken(t, b, UserOf[t], [user |-> UserOf[t], backend |-> b])
           s2 == BindDevice(DeviceOf[t], b)
<1>2. s1 \in Statement /\ s2 \in Statement
  BY PinsAssumption DEF BindToken, BindDevice, Statement, UserId
<1>3. \A s \in {s1, s2} : s.token # None => s.username \in {None, UserOf[s.token]}
  BY DEF BindToken, BindDevice
<1>4. issued' \subseteq Tokens
  BY <1>1 DEF PinsInv, TypeOK
<1> HIDE DEF s1, s2
<1> QED
  BY <1>1, <1>2, <1>3, <1>4, PlanInv DEF Login, s1, s2

LEMMA VisitInv ==
    ASSUME PinsInv, NEW h \in Handlers, Visit(h)
    PROVE  PinsInv'
<1>1. PICK t \in issued, page \in Users \cup {None} : \E b \in Homes(t) :
        todo' = [todo EXCEPT ![h] =
           << BindDevice(DeviceOf[t], b),
              BindToken(t, b, None, IF page = None THEN None
                                    ELSE [user |-> page, backend |-> b]) >>]
  BY DEF Visit
<1>2. t \in Tokens /\ Homes(t) \subseteq Backends
  BY PinsAssumption DEF PinsInv, TypeOK, Homes, Row
<1>3. PICK b \in Homes(t) :
        todo' = [todo EXCEPT ![h] =
           << BindDevice(DeviceOf[t], b),
              BindToken(t, b, None, IF page = None THEN None
                                    ELSE [user |-> page, backend |-> b]) >>]
  BY <1>1
<1> DEFINE s1 == BindDevice(DeviceOf[t], b)
           s2 == BindToken(t, b, None, IF page = None THEN None
                                       ELSE [user |-> page, backend |-> b])
<1>4. s1 \in Statement /\ s2 \in Statement
  BY <1>2, PinsAssumption DEF BindToken, BindDevice, Statement, UserId
<1>5. \A s \in {s1, s2} : s.token # None => s.username \in {None, UserOf[s.token]}
  BY DEF BindToken, BindDevice
<1>6. issued' \subseteq Tokens
  BY DEF Visit, PinsInv, TypeOK
<1>7. todo' = [todo EXCEPT ![h] = <<s1, s2>>]
  BY <1>3
<1>8. UNCHANGED <<driver, tokenRow, deviceRow, unpin>>
  BY DEF Visit
<1> HIDE DEF s1, s2
<1> QED
  BY <1>4, <1>5, <1>6, <1>7, <1>8, PlanInv

\* A row may be written or deleted outside an SQLite transaction; a row or a device
\* that a transaction has deleted, not before it ends.
LEMMA WriteInv ==
    ASSUME PinsInv, NEW t, NEW d, Free(t, d),
           tokenRow' \in [Tokens -> Row \cup {None}],
           deviceRow' \in [Devices -> Backends \cup {None}],
           todo' \in [Handlers -> Seq(Statement)],
           \A u \in Tokens \ {t} : tokenRow'[u] = tokenRow[u],
           NamesOwn', UNCHANGED <<driver, issued, unpin>>
    PROVE  PinsInv'
<1>1. TypeOK' /\ UnpinShape'
  BY DEF PinsInv, TypeOK, UnpinShape
<1>2. t \notin unpin.gone
  BY DEF Free, InTransaction, PinsInv, UnpinShape
<1>3. GoneStay'
  <2> SUFFICES ASSUME NEW u \in unpin.gone
               PROVE  tokenRow'[u] # None /\ (Matches(u)' \/ Anonymous(u)')
    BY DEF GoneStay
  <2>1. u \in Tokens /\ tokenRow'[u] = tokenRow[u]
    BY <1>2 DEF PinsInv, TypeOK, Unpin
  <2> QED BY <2>1 DEF PinsInv, GoneStay, Matches, Anonymous
<1>4. Isolated'
  BY DEF Isolated, Free, InTransaction
<1> QED BY <1>1, <1>3, <1>4 DEF PinsInv

LEMMA ExecuteInv ==
    ASSUME PinsInv, NEW h \in Handlers, Execute(h)
    PROVE  PinsInv'
<1> DEFINE s == Head(todo[h])
           row == Upserted(tokenRow[s.token], s)
<1>1. /\ todo[h] \in Seq(Statement) /\ todo[h] # <<>>
      /\ todo' = [todo EXCEPT ![h] = Tail(todo[h])]
      /\ tokenRow \in [Tokens -> Row \cup {None}]
      /\ deviceRow \in [Devices -> Backends \cup {None}]
  BY DEF PinsInv, TypeOK, Execute
<1>2. s \in Statement /\ s = todo[h][1] /\ 1 \in 1..Len(todo[h])
  BY <1>1
<1>3. s.token # None => s.username \in {None, UserOf[s.token]} /\ s.token \in Tokens
  BY <1>2 DEF PinsInv, NamesOwn, Statement
<1>4. ASSUME s.token # None
      PROVE  row \in Row /\ row.username \in {None, UserOf[s.token]}
  <2>1. tokenRow[s.token] # None =>
          /\ tokenRow[s.token] \in Row
          /\ tokenRow[s.token].username \in {None, UserOf[s.token]}
    BY <1>1, <1>3, <1>4 DEF PinsInv, NamesOwn
  <2>2. /\ row.username = IF s.username = None /\ tokenRow[s.token] # None
                          THEN tokenRow[s.token].username ELSE s.username
        /\ row = [backend |-> row.backend, username |-> row.username, userId |-> row.userId]
        /\ row.backend = s.backend
        /\ row.userId = IF s.userId = None /\ tokenRow[s.token] # None
                        THEN tokenRow[s.token].userId ELSE s.userId
    BY DEF Upserted
  <2>3. s.username \in Users \cup {None} /\ s.userId \in UserId \cup {None} /\ s.backend \in Backends
    BY <1>2 DEF Statement
  <2>4. row.username \in Users \cup {None} /\ row.userId \in UserId \cup {None}
    BY <2>1, <2>2, <2>3 DEF Row
  <2> HIDE DEF row
  <2> QED BY <1>3, <1>4, <2>1, <2>2, <2>3, <2>4 DEF Row
<1> HIDE DEF row
<1>5. tokenRow' = IF s.token = None THEN tokenRow ELSE [tokenRow EXCEPT ![s.token] = row]
  BY DEF Execute, row
<1>6. tokenRow' \in [Tokens -> Row \cup {None}]
  BY <1>1, <1>4, <1>5
<1>7. deviceRow' \in [Devices -> Backends \cup {None}]
  BY <1>1, <1>2 DEF Execute, Statement
<1>8. todo' \in [Handlers -> Seq(Statement)]
  BY <1>1 DEF PinsInv, TypeOK
<1>9. NamesOwn'
  <2>1. ASSUME NEW g \in Handlers, NEW i \in 1..Len(todo'[g]), todo'[g][i].token # None
        PROVE  todo'[g][i].username \in {None, UserOf[todo'[g][i].token]}
    <3>1. CASE g = h
      <4>1. todo'[g] = Tail(todo[h])
        BY <1>1, <3>1 DEF PinsInv, TypeOK
      <4>2. /\ Len(Tail(todo[h])) = Len(todo[h]) - 1 /\ Len(todo[h]) \in Nat
            /\ \A j \in 1..Len(Tail(todo[h])) : Tail(todo[h])[j] = todo[h][j + 1]
        BY <1>1, HeadTailProperties
      <4>3. i + 1 \in 1..Len(todo[h]) /\ todo'[g][i] = todo[h][i + 1]
        BY <2>1, <4>1, <4>2
      <4> QED BY <2>1, <4>3 DEF PinsInv, NamesOwn
    <3>2. CASE g # h
      BY <1>1, <2>1, <3>2 DEF PinsInv, TypeOK, NamesOwn
    <3> QED BY <3>1, <3>2
  <2>2. ASSUME NEW t \in Tokens, tokenRow'[t] # None
        PROVE  tokenRow'[t].username \in {None, UserOf[t]}
    <3>1. CASE s.token # None /\ t = s.token
      BY <1>1, <1>3, <1>4, <1>5, <3>1
    <3>2. CASE ~(s.token # None /\ t = s.token)
      BY <1>1, <1>3, <1>5, <2>2, <3>2 DEF PinsInv, NamesOwn
    <3> QED BY <3>1, <3>2
  <2> QED BY <2>1, <2>2 DEF NamesOwn
<1>10. \A u \in Tokens \ {s.token} : tokenRow'[u] = tokenRow[u]
  BY <1>1, <1>5
<1> QED
  BY <1>6, <1>7, <1>8, <1>9, <1>10, WriteInv DEF Execute

LEMMA LogoutInv ==
    ASSUME PinsInv, NEW t \in Tokens, Logout(t)
    PROVE  PinsInv'
<1>1. tokenRow' \in [Tokens -> Row \cup {None}] /\ \A u \in Tokens \ {t} : tokenRow'[u] = tokenRow[u]
      /\ tokenRow'[t] = None
  BY DEF PinsInv, TypeOK, Logout
<1>2. NamesOwn'
  BY <1>1 DEF PinsInv, NamesOwn, Logout
<1> QED
  BY <1>1, <1>2, WriteInv DEF Logout, PinsInv, TypeOK

-----------------------------------------------------------------------------
(* The unpin. *)

\* Nothing but the operator's request changes, before a row is deleted or after.
LEMMA OutsideInv ==
    ASSUME PinsInv, UNCHANGED unpinVars, unpin' \in Unpin, UnpinShape',
           unpin'.gone = {}, ~InTransaction'
    PROVE  PinsInv'
  BY DEF PinsInv, TypeOK, unpinVars, NamesOwn, GoneStay, Isolated, InTransaction

LEMMA UnpinUserInv ==
    ASSUME PinsInv, UnpinUser
    PROVE  PinsInv'
<1>1. PICK u \in Users : unpin' = [NoUnpin EXCEPT !.step = "resolve", !.user = u]
  BY DEF UnpinUser
<1>2. unpin' \in Unpin /\ UnpinShape' /\ unpin'.gone = {} /\ ~InTransaction'
  BY <1>1 DEF NoUnpin, Unpin, UnpinSteps, UnpinShape, InTransaction
<1> QED BY <1>2, OutsideInv DEF UnpinUser

LEMMA ResolveInv ==
    ASSUME PinsInv, Resolve
    PROVE  PinsInv'
<1>1. PICK B \in SUBSET Backends :
        unpin' = [unpin EXCEPT !.step = "select",
                               !.ids = {[user |-> unpin.user, backend |-> b] : b \in B}]
  BY DEF Resolve
<1>2. unpin \in Unpin /\ unpin.step = "resolve" /\ unpin.user \in Users /\ UnpinShape
  BY DEF PinsInv, TypeOK, UnpinShape, Resolve
<1>3. {[user |-> unpin.user, backend |-> b] : b \in B} \subseteq UserId
  BY <1>2 DEF UserId
<1>4. unpin' \in Unpin
  BY <1>1, <1>2, <1>3 DEF Unpin, UnpinSteps
<1>5. UnpinShape' /\ unpin'.gone = {} /\ ~InTransaction'
  BY <1>1, <1>2 DEF Unpin, UnpinShape, InTransaction
<1> QED BY <1>4, <1>5, OutsideInv DEF Resolve

LEMMA EndInv ==
    ASSUME PinsInv, UNCHANGED unpinVars, unpin' = NoUnpin
    PROVE  PinsInv'
<1>1. unpin' \in Unpin /\ UnpinShape' /\ unpin'.gone = {} /\ ~InTransaction'
  BY DEF NoUnpin, Unpin, UnpinSteps, UnpinShape, InTransaction
<1> QED BY <1>1, OutsideInv

\* The backends of the rows that will be deleted.
LEMMA SelectedInv ==
    ASSUME PinsInv, UNCHANGED unpinVars, unpin.step \in {"select", "orphans"}, Selected # {},
           unpin' = [unpin EXCEPT !.step = "tokens", !.backends = BackendsOf(Selected)]
    PROVE  PinsInv'
<1>1. /\ unpin \in Unpin /\ UnpinShape /\ unpin.gone = {} /\ unpin.goneDevices = {}
      /\ tokenRow \in [Tokens -> Row \cup {None}]
  BY DEF PinsInv, TypeOK, UnpinShape
<1>2. BackendsOf(Selected) \subseteq Backends
  BY <1>1 DEF BackendsOf, Selected, Rows, Row
<1>3. TypeOK'
  BY <1>1, <1>2 DEF PinsInv, TypeOK, unpinVars, Unpin, UnpinSteps
<1>4. /\ unpin'.step = "tokens" /\ unpin'.user = unpin.user /\ unpin'.ids = unpin.ids
      /\ unpin'.orphans = unpin.orphans /\ unpin'.gone = {} /\ unpin'.goneDevices = {}
      /\ unpin'.backends = BackendsOf(Selected)
  BY <1>1 DEF Unpin
<1>5. UnpinShape' /\ NamesOwn' /\ GoneStay'
  BY <1>1, <1>4 DEF PinsInv, UnpinShape, NamesOwn, GoneStay, unpinVars
<1>6. Selected' = Selected
  BY <1>1, <1>4 DEF unpinVars, Selected, Rows, Matches, Orphan
<1>7. BackendsOf(Selected)' = BackendsOf(Selected)
  BY <1>6 DEF BackendsOf, unpinVars
<1>8. ASSUME driver = "sqlite", unpin.orphans, NEW t \in Tokens, tokenRow[t] # None
      PROVE  ~Matches(t)
  BY <1>1, <1>8 DEF PinsInv, Isolated, InTransaction, UnpinShape
<1>9. Isolated'
  BY <1>4, <1>6, <1>7, <1>8 DEF Isolated, unpinVars, Matches
<1> QED BY <1>3, <1>5, <1>9 DEF PinsInv

LEMMA SelectInv ==
    ASSUME PinsInv, Select
    PROVE  PinsInv'
<1>1. CASE Selected # {}
  BY <1>1, SelectedInv DEF Select
<1>2. CASE Selected = {}
  <2>1. /\ unpin \in Unpin /\ UnpinShape /\ unpin.step = "select" /\ ~unpin.orphans
        /\ unpin.gone = {} /\ unpin.goneDevices = {}
    BY DEF PinsInv, TypeOK, UnpinShape, Select
  <2>2. unpin' = [unpin EXCEPT !.step = "orphans", !.orphans = TRUE]
    BY <1>2 DEF Select
  <2>3. TypeOK'
    BY <2>1, <2>2 DEF PinsInv, TypeOK, Select, unpinVars, Unpin, UnpinSteps
  <2>4. /\ unpin'.step = "orphans" /\ unpin'.user = unpin.user /\ unpin'.ids = unpin.ids
        /\ unpin'.orphans /\ unpin'.gone = {} /\ unpin'.goneDevices = {}
    BY <2>1, <2>2 DEF Unpin
  <2>5. UnpinShape' /\ NamesOwn' /\ GoneStay'
    BY <2>1, <2>4 DEF PinsInv, UnpinShape, NamesOwn, GoneStay, unpinVars, Select
  <2>6. \A t \in Tokens : tokenRow[t] # None => ~Matches(t)
    BY <1>2, <2>1 DEF Selected, Rows
  <2>7. Isolated'
    BY <2>4, <2>6 DEF Isolated, Matches, Select, unpinVars
  <2> QED BY <2>3, <2>5, <2>7 DEF PinsInv
<1> QED BY <1>1, <1>2

LEMMA SelectOrphansInv ==
    ASSUME PinsInv, SelectOrphans
    PROVE  PinsInv'
<1>1. CASE Selected # {}
  BY <1>1, SelectedInv DEF SelectOrphans
<1>2. CASE Selected = {}
  BY <1>2, EndInv DEF SelectOrphans
<1> QED BY <1>1, <1>2

LEMMA DeleteTokensInv ==
    ASSUME PinsInv, DeleteTokens
    PROVE  PinsInv'
<1>1. /\ unpin \in Unpin /\ UnpinShape /\ unpin.gone = {} /\ unpin.goneDevices = {}
      /\ tokenRow \in [Tokens -> Row \cup {None}] /\ unpin.step = "tokens"
  BY DEF PinsInv, TypeOK, UnpinShape, DeleteTokens
<1>2. Selected \subseteq Tokens
  BY DEF Selected, Rows
<1>3. unpin' = [unpin EXCEPT !.step = "devices", !.gone = Selected] /\ UNCHANGED unpinVars
  BY DEF DeleteTokens
<1>4. /\ unpin'.step = "devices" /\ unpin'.user = unpin.user /\ unpin'.ids = unpin.ids
      /\ unpin'.orphans = unpin.orphans /\ unpin'.gone = Selected /\ unpin'.goneDevices = {}
      /\ unpin'.backends = unpin.backends
  BY <1>1, <1>3 DEF Unpin
<1>5. TypeOK'
  BY <1>1, <1>2, <1>3 DEF PinsInv, TypeOK, unpinVars, Unpin, UnpinSteps
<1>6. UnpinShape' /\ NamesOwn'
  BY <1>1, <1>3, <1>4 DEF PinsInv, UnpinShape, NamesOwn, unpinVars
<1>7. \A t : Matches(t)' = Matches(t) /\ Anonymous(t)' = Anonymous(t)
  BY <1>3, <1>4 DEF Matches, Anonymous, unpinVars
<1>8. GoneStay'
  <2>1. \A t \in Selected : tokenRow[t] # None /\ (Matches(t) \/ Anonymous(t))
    BY DEF Selected, Rows, Orphan, Anonymous
  <2> QED BY <1>3, <1>4, <1>7, <2>1 DEF GoneStay, unpinVars
<1>9. ASSUME driver = "sqlite"
      PROVE  \A t \in Tokens \ Selected : tokenRow[t] # None =>
               /\ ~Matches(t)
               /\ Anonymous(t) => \E q \in Selected : Matches(q)
  <2>1. CASE unpin.orphans
    <3>1. \A t \in Tokens : tokenRow[t] # None => ~Matches(t)
      BY <1>1, <1>9, <2>1 DEF PinsInv, Isolated, InTransaction
    <3>2. \A t \in Tokens : tokenRow[t] # None /\ Anonymous(t) => t \in Selected
      BY <1>1, <2>1 DEF Selected, Rows, Orphan, Anonymous
    <3> QED BY <3>1, <3>2
  <2>2. CASE ~unpin.orphans
    <3>1. Selected # {}
      BY <1>1, <1>9 DEF PinsInv, Isolated
    <3>2. Selected = {t \in Rows : Matches(t)}
      BY <2>2 DEF Selected
    <3> QED BY <1>1, <3>1, <3>2 DEF Rows
  <2> QED BY <2>1, <2>2
<1>10. BackendsOf(Selected)' = BackendsOf(Selected') /\ BackendsOf(unpin.gone)' = BackendsOf(Selected)
  BY <1>3, <1>4 DEF BackendsOf, unpinVars
<1>11. driver = "sqlite" => unpin.backends = BackendsOf(Selected)
  BY <1>1 DEF PinsInv, Isolated
<1>12. ASSUME driver = "sqlite", unpin.orphans, NEW t \in Tokens, tokenRow[t] # None
       PROVE  ~Matches(t)
  BY <1>1, <1>12 DEF PinsInv, Isolated, InTransaction
<1>13. Isolated'
  BY <1>3, <1>4, <1>7, <1>9, <1>10, <1>11, <1>12 DEF Isolated, unpinVars
<1> QED BY <1>5, <1>6, <1>8, <1>13 DEF PinsInv

LEMMA DeleteDevicesInv ==
    ASSUME PinsInv, DeleteDevices
    PROVE  PinsInv'
<1>1. /\ unpin \in Unpin /\ UnpinShape /\ unpin.step = "devices" /\ UNCHANGED unpinVars
  BY DEF PinsInv, TypeOK, DeleteDevices
<1>2. /\ unpin' \in Unpin
      /\ unpin'.step \in {"devices", "commit"}
      /\ unpin'.step = "commit" => unpin'.backends = {}
      /\ unpin'.user = unpin.user /\ unpin'.ids = unpin.ids
      /\ unpin'.orphans = unpin.orphans /\ unpin'.gone = unpin.gone
      /\ \A d \in Devices \ unpin'.goneDevices :
           /\ d \notin unpin.goneDevices
           /\ deviceRow[d] \in unpin.backends => deviceRow[d] \in unpin'.backends
  <2>1. CASE unpin.backends = {}
    <3>1. unpin' = [unpin EXCEPT !.step = "commit"]
      BY <2>1 DEF DeleteDevices
    <3> QED BY <1>1, <2>1, <3>1 DEF Unpin, UnpinSteps
  <2>2. CASE unpin.backends # {}
    <3>1. PICK b \in unpin.backends :
            unpin' = [unpin EXCEPT !.backends = @ \ {b},
                        !.goneDevices = @ \cup {d \in Devices : deviceRow[d] = b}]
      BY <2>2 DEF DeleteDevices
    <3>2. unpin' \in Unpin
      BY <1>1, <3>1 DEF Unpin
    <3> QED BY <1>1, <3>1, <3>2 DEF Unpin
  <2> QED BY <2>1, <2>2
<1>3. TypeOK' /\ UnpinShape' /\ NamesOwn'
  BY <1>1, <1>2 DEF PinsInv, TypeOK, UnpinShape, NamesOwn, unpinVars
<1>4. \A t : Matches(t)' = Matches(t) /\ Anonymous(t)' = Anonymous(t)
  BY <1>1, <1>2 DEF Matches, Anonymous, unpinVars
<1>5. GoneStay'
  BY <1>1, <1>2, <1>4 DEF PinsInv, GoneStay, unpinVars
<1>6. BackendsOf(unpin.gone)' = BackendsOf(unpin.gone)
  BY <1>1, <1>2 DEF BackendsOf, unpinVars
<1>7. Isolated'
  BY <1>1, <1>2, <1>4, <1>6 DEF PinsInv, Isolated, InTransaction, unpinVars
<1> QED BY <1>3, <1>5, <1>7 DEF PinsInv

LEMMA CommitInv ==
    ASSUME PinsInv, Commit
    PROVE  PinsInv'
<1>1. /\ tokenRow' \in [Tokens -> Row \cup {None}]
      /\ deviceRow' \in [Devices -> Backends \cup {None}]
      /\ \A t \in Tokens : tokenRow'[t] \in {None, tokenRow[t]}
  BY DEF PinsInv, TypeOK, Commit
<1>2. unpin' = NoUnpin /\ UNCHANGED <<driver, issued, todo>>
  BY DEF Commit
<1>3. unpin' \in Unpin /\ UnpinShape' /\ GoneStay' /\ Isolated'
  BY <1>2 DEF NoUnpin, Unpin, UnpinSteps, UnpinShape, GoneStay, Isolated, InTransaction
<1>4. NamesOwn'
  BY <1>1, <1>2 DEF PinsInv, NamesOwn
<1> QED BY <1>1, <1>2, <1>3, <1>4 DEF PinsInv, TypeOK

-----------------------------------------------------------------------------

LEMMA NextPinsInv == PinsInv /\ [Next]_vars => PinsInv'
<1> SUFFICES ASSUME PinsInv, [Next]_vars
             PROVE  PinsInv'
  OBVIOUS
<1>1. CASE UNCHANGED vars
  BY <1>1
     DEF PinsInv, TypeOK, NamesOwn, UnpinShape, GoneStay, Isolated, InTransaction, Matches,
         Anonymous, Selected, Rows, Orphan, BackendsOf, vars
<1>2. ASSUME NEW h \in Handlers, Login(h) \/ Visit(h) \/ Execute(h)
      PROVE  PinsInv'
  BY <1>2, LoginInv, VisitInv, ExecuteInv
<1>3. ASSUME NEW t \in Tokens, Logout(t)
      PROVE  PinsInv'
  BY <1>3, LogoutInv
<1>4. CASE UnpinUser \/ Resolve \/ Select \/ SelectOrphans
  BY <1>4, UnpinUserInv, ResolveInv, SelectInv, SelectOrphansInv
<1>5. CASE DeleteTokens \/ DeleteDevices \/ Commit
  BY <1>5, DeleteTokensInv, DeleteDevicesInv, CommitInv
<1>6. CASE Rollback
  BY <1>6, EndInv DEF Rollback
<1> QED BY <1>1, <1>2, <1>3, <1>4, <1>5, <1>6 DEF Next

\* Every row, statement and step of an unpin is of its type.
THEOREM PinsTyped == Spec => []TypeOK
<1>1. PinsInv => TypeOK
  BY DEF PinsInv
<1> QED BY InitPinsInv, NextPinsInv, <1>1, PTL DEF Spec

\* An unpin commits no deletion of another user's token, unless its row had lost
\* its user or names the unpinned user's page, with either database.
THEOREM OthersKeep == Spec => []OthersKeepTokens
<1>1. PinsInv => OthersKeepTokens
  <2> SUFFICES ASSUME PinsInv, NEW t \in unpin.gone, Committing
               PROVE  \/ UserOf[t] = unpin.user
                      \/ Anonymous(t)
                      \/ tokenRow[t].userId # None /\ tokenRow[t].userId.user = unpin.user
    BY DEF OthersKeepTokens
  <2>1. /\ t \in Tokens /\ tokenRow[t] # None /\ unpin.user \in Users
        /\ tokenRow[t].username \in {None, UserOf[t]} /\ unpin.ids \subseteq UserId
    BY DEF PinsInv, TypeOK, Unpin, NamesOwn, UnpinShape, GoneStay, Committing
  <2>2. CASE Anonymous(t)
    BY <2>2
  <2>3. CASE tokenRow[t].username = unpin.user
    BY <2>1, <2>3, PinsAssumption
  <2>4. CASE tokenRow[t].userId \in unpin.ids
    BY <2>1, <2>4, PinsAssumption DEF PinsInv, UnpinShape
  <2> QED BY <2>2, <2>3, <2>4 DEF PinsInv, GoneStay, Matches
<1> QED BY InitPinsInv, NextPinsInv, <1>1, PTL DEF Spec

\* With SQLite an unpin that commits leaves no row with the user's name or an id
\* resolved for it, a token of the user only nameless, a row without name and id
\* only if another row matched, and no device row on a backend a deleted row named,
\* whatever the handlers were about to write.
THEOREM UnpinCompletes == Spec => []UnpinComplete
<1>1. PinsInv => UnpinComplete
  <2> SUFFICES ASSUME PinsInv, Committing, driver = "sqlite" PROVE UnpinComplete
    BY DEF UnpinComplete
  <2>1. /\ \A t \in Tokens \ unpin.gone : tokenRow[t] # None =>
             /\ ~Matches(t)
             /\ Anonymous(t) => \E q \in unpin.gone : Matches(q)
        /\ \A d \in Devices \ unpin.goneDevices : deviceRow[d] \notin BackendsOf(unpin.gone)
    BY DEF PinsInv, Isolated, UnpinShape, Committing
  <2>2. \A t \in Tokens : tokenRow[t] # None => tokenRow[t].username \in {None, UserOf[t]}
    BY DEF PinsInv, NamesOwn
  <2> QED BY <2>1, <2>2 DEF UnpinComplete, Matches, BackendsOf
<1> QED BY InitPinsInv, NextPinsInv, <1>1, PTL DEF Spec
=============================================================================
