---------------------------- MODULE ProxyProofs ----------------------------
(***************************************************************************)
(* Theorems about module Proxy, for every set of backends, tokens, devices *)
(* and handlers, every policy and every number of faults.                  *)
(***************************************************************************)
EXTENDS AffinityProperties, TLAPS

USE DEF PeekSteps

-----------------------------------------------------------------------------
(* The store's operators. *)

\* A written row is a row, and the other rows stay what they were.
LEMMA UpsertType ==
    ASSUME NEW K, NEW table \in [K -> Row \cup {None}], NEW key \in K,
           NEW b \in Backends, NEW gray \in BOOLEAN
    PROVE  /\ Upsert(table, key, b, gray) \in [K -> Row \cup {None}]
           /\ Upsert(table, key, b, gray)[key] # None
           /\ Upsert(table, key, b, gray)[key].backend = b
           /\ Upsert(table, key, b, gray)[key].live
           /\ gray \/ (table[key] # None /\ table[key].gray) =>
                 Upsert(table, key, b, gray)[key].gray
           /\ \A k \in K \ {key} : Upsert(table, key, b, gray)[k] = table[k]
<1> DEFINE g == gray \/ (table[key] # None /\ table[key].gray)
           row == [backend |-> b, gray |-> g, live |-> TRUE]
<1>1. Upsert(table, key, b, gray) = [table EXCEPT ![key] = row]
  BY DEF Upsert
<1>2. row.backend = b /\ row.live /\ row.gray = g
  OBVIOUS
<1>a. gray \/ (table[key] # None /\ table[key].gray) => g
  OBVIOUS
<1>3. g \in BOOLEAN
  BY DEF Row
<1> HIDE DEF g
<1>4. row \in Row
  BY <1>3 DEF Row
<1>5. row # None
  BY <1>4, StoreAssumption
<1> HIDE DEF row
<1> QED
  BY <1>1, <1>2, <1>a, <1>4, <1>5

\* The anon tables store no client.
LEMMA UpsertAnonType ==
    ASSUME NEW K, NEW table \in [K -> Row \cup {None}], NEW key \in K, NEW b \in Backends
    PROVE  Upsert(table, key, b, FALSE) \in [K -> Row \cup {None}]
<1>1. \A gray \in BOOLEAN : Upsert(table, key, b, gray) \in [K -> Row \cup {None}]
  BY UpsertType
<1>2. FALSE \in BOOLEAN
  OBVIOUS
<1> QED
  BY <1>1, <1>2, Zenon

LEMMA DeleteType ==
    ASSUME NEW K, NEW table \in [K -> Row \cup {None}], NEW key \in K \cup {None},
           None \notin K
    PROVE  /\ Delete(table, key) \in [K -> Row \cup {None}]
           /\ \A k \in K \ {key} : Delete(table, key)[k] = table[k]
  BY DEF Delete

\* A lookup deletes nothing but the expired row it met.
LEMMA PurgeType ==
    ASSUME NEW K, NEW table \in [K -> Row \cup {None}], NEW key \in K \cup {None},
           None \notin K
    PROVE  /\ Purge(table, key) \in [K -> Row \cup {None}]
           /\ \A k \in K : table[k] # None /\ table[k].live => Purge(table, key)[k] = table[k]
           /\ \A k \in K : Purge(table, key)[k] # None => Purge(table, key)[k] = table[k]
  BY DEF Purge

\* Renewing a row changes neither its existence, its backend nor its class.
LEMMA TouchType ==
    ASSUME NEW K, NEW table \in [K -> Row \cup {None}], NEW key \in K \cup {None},
           None \notin K
    PROVE  /\ Touch(table, key) \in [K -> Row \cup {None}]
           /\ \A k \in K : table[k] = None => Touch(table, key)[k] = None
           /\ \A k \in K : table[k] # None =>
                 /\ Touch(table, key)[k] # None
                 /\ Touch(table, key)[k].backend = table[k].backend
                 /\ Touch(table, key)[k].gray = table[k].gray
                 /\ table[k].live => Touch(table, key)[k].live
<1>1. CASE key # None /\ table[key] # None
  <2>1. table[key] \in Row
    BY <1>1
  <2> DEFINE row == [table[key] EXCEPT !.live = TRUE]
  <2>2. row \in Row /\ row # None /\ row.backend = table[key].backend /\ row.live
        /\ row.gray = table[key].gray
    BY <2>1, StoreAssumption DEF Row
  <2>3. Touch(table, key) = [table EXCEPT ![key] = row]
    BY <1>1 DEF Touch
  <2> HIDE DEF row
  <2> QED
    BY <1>1, <2>2, <2>3
<1>2. CASE ~(key # None /\ table[key] # None)
  BY <1>2 DEF Touch
<1> QED
  BY <1>1, <1>2

LEMMA ExpiredType ==
    ASSUME NEW K, NEW table \in [K -> Row \cup {None}], NEW key \in K, table[key] # None
    PROVE  /\ Expired(table, key) \in [K -> Row \cup {None}]
           /\ \A k \in K \ {key} : Expired(table, key)[k] = table[k]
<1> DEFINE row == [table[key] EXCEPT !.live = FALSE]
<1>1. row \in Row
  BY DEF Row
<1>2. Expired(table, key) = [table EXCEPT ![key] = row]
  BY DEF Expired
<1> HIDE DEF row
<1> QED
  BY <1>1, <1>2

LEMMA LookupType ==
    ASSUME NEW K, NEW table \in [K -> Row \cup {None}], NEW key \in K \cup {None},
           None \notin K
    PROVE  /\ Lookup(table, key) \in Row \cup {None}
           /\ Lookup(table, key) # None =>
                key \in K /\ Lookup(table, key) = table[key] /\ table[key].live
           /\ key \in K /\ table[key] # None /\ table[key].live =>
                Lookup(table, key) = table[key]
  BY DEF Lookup

-----------------------------------------------------------------------------
(* The router's decisions. *)

LEMMA GoType ==
    ASSUME NEW b \in Backends, NEW kind \in Kinds
    PROVE  Go(b, kind) \in Decision /\ Go(b, kind).backend = b /\ ~Go(b, kind).drop
  BY DEF Go, Decision

LEMMA RefuseType ==
    /\ Refuse \in Decision
    /\ Refuse.backend = None
    /\ ~Refuse.drop
  BY DEF Refuse, Decision, Kinds

LEMMA DropType ==
    ASSUME NEW d \in Decision, NEW kind \in Kinds
    PROVE  Drop(d, kind) \in Decision /\ Drop(d, kind).backend = d.backend /\ Drop(d, kind).drop
  BY DEF Drop, Decision

\* A pick never drops the client, and is a decision.
LEMMA PickEligibleType ==
    ASSUME NEW device \in Devices \cup {None}, NEW hint
    PROVE  \A d \in PickEligible(device, hint) : d \in Decision /\ ~d.drop
<1>1. Eligible \subseteq Backends
  BY DEF Eligible
<1>2. LeastLoaded(Eligible) \subseteq Backends
  BY <1>1 DEF LeastLoaded
<1>3. device # None /\ Eligible # {} => Hash(device, Eligible) \in Backends
  BY <1>1, RouterAssumption
<1>4. "none" \in Kinds
  BY DEF Kinds
<1> QED
  BY <1>1, <1>2, <1>3, <1>4, GoType, RefuseType DEF PickEligible

LEMMA PickNewType ==
    ASSUME NEW device \in Devices \cup {None}, NEW anonKey \in AnonKeys, NEW hint, NEW policy
    PROVE  \A d \in PickNew(device, anonKey, hint, policy) : d \in Decision /\ ~d.drop
<1> DEFINE key == IF device = None THEN anonKey ELSE device
           home == Hash(key, Backends)
<1>1. home \in Backends
  BY RouterAssumption
<1>2. "none" \in Kinds
  BY DEF Kinds
<1>3. CASE policy = "pin_unhealthy"
  <2>1. PickNew(device, anonKey, hint, policy) =
          IF home \in Disabled \/ ~Usable(home) THEN {Refuse} ELSE {Go(home, "none")}
    BY <1>3 DEF PickNew
  <2> HIDE DEF home
  <2> QED
    BY <1>1, <1>2, <2>1, GoType, RefuseType
<1>4. CASE policy # "pin_unhealthy"
  BY <1>4, PickEligibleType DEF PickNew
<1> QED
  BY <1>3, <1>4

\* A bound request goes to the backend of its binding or nowhere, unless the
\* binding is dropped; and a drop never takes a token along.
LEMMA BoundType ==
    ASSUME NEW b \in Backends, NEW kind \in Kinds, NEW token \in Tokens \cup {None},
           NEW device \in Devices \cup {None}, NEW policy,
           NEW d \in Bound(b, kind, token, device, policy)
    PROVE  /\ d \in Decision
           /\ ~d.drop => d.backend \in {b, None}
           /\ ~d.drop /\ d.backend # None => d.kind = kind
           /\ d.drop /\ token # None => d.backend = None
<1>1. CASE d = Refuse
  BY <1>1, RefuseType DEF Refuse
<1>2. CASE d = Go(b, kind)
  BY <1>2, GoType DEF Go
<1>3. CASE token # None /\ d = Drop(Refuse, kind)
  BY <1>3, RefuseType, DropType
<1>4. CASE token = None /\ \E e \in PickEligible(device, None) : d = Drop(e, kind)
  BY <1>4, PickEligibleType, DropType
<1> QED
  BY <1>1, <1>2, <1>3, <1>4 DEF Bound

\* Decide returns decisions; a request whose token has a live row goes to that
\* row's backend, on its account, or nowhere; and a drop never takes a token
\* along.
LEMMA DecideType ==
    ASSUME StoreTypeOK,
           NEW token \in Tokens \cup {None}, NEW device \in Devices \cup {None},
           NEW gray \in BOOLEAN, NEW media \in BOOLEAN, NEW anonKey \in AnonKeys,
           NEW addr \in Addrs, NEW hint \in Backends \cup {None},
           NEW d \in Decide(token, device, gray, media, anonKey, addr, hint)
    PROVE  /\ d \in Decision
           /\ d.drop /\ token # None => d.backend = None
           /\ token \in Tokens /\ tokenRow[token] # None /\ tokenRow[token].live =>
                /\ d.backend \in {tokenRow[token].backend, None}
                /\ d.backend # None => d.kind = "token"
<1> DEFINE tRow == Lookup(tokenRow, token)
           dRow == Lookup(deviceRow, device)
           aRow == Lookup(anonRow, anonKey)
           follow == SessionBackend(hint, addr)
           policy == PolicyFor(gray, tRow, dRow)
<1>k. {"token", "device", "anon"} \subseteq Kinds
  BY DEF Kinds
<1>t. /\ tRow \in Row \cup {None}
      /\ token \in Tokens /\ tokenRow[token] # None /\ tokenRow[token].live =>
            tRow = tokenRow[token]
  BY LookupType, StoreAssumption DEF StoreTypeOK
<1>d. dRow \in Row \cup {None} /\ aRow \in Row \cup {None}
  BY LookupType, StoreAssumption DEF StoreTypeOK
<1>f. follow \in Backends \cup {None}
  <2>1. Lookup(sessionRow, addr) # None => sessionRow[addr] \in Row
    BY LookupType, StoreAssumption DEF StoreTypeOK
  <2> QED
    BY <2>1 DEF SessionBackend, Row
<1>dec. d \in IF tRow # None THEN Bound(tRow.backend, "token", token, device, policy)
        ELSE IF dRow # None THEN Bound(dRow.backend, "device", token, device, policy)
        ELSE IF media /\ follow # None THEN Bound(follow, "anon", token, device, policy)
        ELSE IF aRow # None THEN Bound(aRow.backend, "anon", token, device, policy)
        ELSE PickNew(device, anonKey, hint, policy)
  BY DEF Decide
<1> HIDE DEF tRow, dRow, aRow, follow, policy
<1>1. CASE tRow # None
  <2>1. tRow.backend \in Backends /\ d \in Bound(tRow.backend, "token", token, device, policy)
    BY <1>1, <1>t, <1>dec DEF Row
  <2>2. /\ d \in Decision
        /\ ~d.drop => d.backend \in {tRow.backend, None}
        /\ ~d.drop /\ d.backend # None => d.kind = "token"
        /\ d.drop /\ token # None => d.backend = None
    BY <2>1, <1>k, BoundType
  <2> QED
    BY <2>2, <1>t, StoreAssumption DEF Decision
<1>2. CASE tRow = None
  <2>1. ~(token \in Tokens /\ tokenRow[token] # None /\ tokenRow[token].live)
    BY <1>2, <1>t
  <2>2. CASE \E b \in Backends, kind \in Kinds : d \in Bound(b, kind, token, device, policy)
    BY <2>1, <2>2, BoundType
  <2>3. CASE d \in PickNew(device, anonKey, hint, policy)
    BY <2>1, <2>3, PickNewType
  <2> QED
    BY <1>2, <1>k, <1>d, <1>f, <1>dec, <2>2, <2>3 DEF Row
<1> QED
  BY <1>1, <1>2

\* No decision names a disabled backend, whatever binding, cookie, placement or
\* policy it comes from.
LEMMA PickEligibleEnabled ==
    ASSUME RouterTypeOK, NEW device \in Devices \cup {None}, NEW hint
    PROVE  \A d \in PickEligible(device, hint) : d.backend \notin Disabled
<1>1. Eligible \subseteq Backends \ Disabled /\ LeastLoaded(Eligible) \subseteq Eligible
  BY DEF Eligible, LeastLoaded
<1>2. None \notin Disabled
  BY StoreAssumption, RouterAssumption DEF Disabled, RouterTypeOK
<1>3. device # None /\ Eligible # {} => Hash(device, Eligible) \in Eligible
  BY <1>1, RouterAssumption
<1>4. \A b, kind : Go(b, kind).backend = b
  BY DEF Go
<1>5. Refuse.backend = None
  BY DEF Refuse
<1> QED
  BY <1>1, <1>2, <1>3, <1>4, <1>5 DEF PickEligible

LEMMA PickNewEnabled ==
    ASSUME RouterTypeOK, NEW device \in Devices \cup {None}, NEW anonKey \in AnonKeys,
           NEW hint, NEW policy
    PROVE  \A d \in PickNew(device, anonKey, hint, policy) : d.backend \notin Disabled
<1>1. CASE policy = "pin_unhealthy"
  <2> DEFINE home == Hash(IF device = None THEN anonKey ELSE device, Backends)
  <2>1. PickNew(device, anonKey, hint, policy) =
          IF home \in Disabled \/ ~Usable(home) THEN {Refuse} ELSE {Go(home, "none")}
    BY <1>1 DEF PickNew
  <2>2. None \notin Disabled /\ Refuse.backend = None /\ Go(home, "none").backend = home
    BY StoreAssumption, RouterAssumption DEF Disabled, RouterTypeOK, Refuse, Go
  <2> HIDE DEF home
  <2> QED
    BY <2>1, <2>2
<1>2. CASE policy # "pin_unhealthy"
  BY <1>2, PickEligibleEnabled DEF PickNew
<1> QED
  BY <1>1, <1>2

LEMMA BoundEnabled ==
    ASSUME RouterTypeOK, NEW b \in Backends, NEW kind \in Kinds, NEW token,
           NEW device \in Devices \cup {None}, NEW policy
    PROVE  \A d \in Bound(b, kind, token, device, policy) : d.backend \notin Disabled
<1>1. None \notin Disabled
  BY StoreAssumption, RouterAssumption DEF Disabled, RouterTypeOK
<1>2. Go(b, kind).backend = b /\ Refuse.backend = None
  BY DEF Go, Refuse
<1>3. Drop(Refuse, kind).backend = None
  BY RefuseType, DropType
<1>4. \A e \in PickEligible(device, None) : Drop(e, kind).backend \notin Disabled
  BY PickEligibleType, PickEligibleEnabled, DropType
<1> QED
  BY <1>1, <1>2, <1>3, <1>4 DEF Bound

LEMMA DecideEnabled ==
    ASSUME StoreTypeOK, RouterTypeOK,
           NEW token \in Tokens \cup {None}, NEW device \in Devices \cup {None},
           NEW gray \in BOOLEAN, NEW media \in BOOLEAN, NEW anonKey \in AnonKeys,
           NEW addr \in Addrs, NEW hint \in Backends \cup {None},
           NEW d \in Decide(token, device, gray, media, anonKey, addr, hint)
    PROVE  d.backend \notin Disabled
<1> DEFINE tRow == Lookup(tokenRow, token)
           dRow == Lookup(deviceRow, device)
           aRow == Lookup(anonRow, anonKey)
           follow == SessionBackend(hint, addr)
           policy == PolicyFor(gray, tRow, dRow)
<1>1. {tRow, dRow, aRow} \subseteq Row \cup {None}
  BY LookupType, StoreAssumption DEF StoreTypeOK
<1>2. follow \in Backends \cup {None}
  <2>1. Lookup(sessionRow, addr) # None => sessionRow[addr] \in Row
    BY LookupType, StoreAssumption DEF StoreTypeOK
  <2> QED
    BY <2>1 DEF SessionBackend, Row
<1>3. d \in IF tRow # None THEN Bound(tRow.backend, "token", token, device, policy)
        ELSE IF dRow # None THEN Bound(dRow.backend, "device", token, device, policy)
        ELSE IF media /\ follow # None THEN Bound(follow, "anon", token, device, policy)
        ELSE IF aRow # None THEN Bound(aRow.backend, "anon", token, device, policy)
        ELSE PickNew(device, anonKey, hint, policy)
  BY DEF Decide
<1> HIDE DEF tRow, dRow, aRow, follow, policy
<1>4. \A row \in Row : row.backend \in Backends
  BY DEF Row
<1>5. \/ \E b \in Backends, kind \in Kinds : d \in Bound(b, kind, token, device, policy)
      \/ d \in PickNew(device, anonKey, hint, policy)
  <2>1. {"token", "device", "anon"} \subseteq Kinds
    BY DEF Kinds
  <2> QED
    BY <1>1, <1>2, <1>3, <1>4, <2>1
<1> QED
  BY <1>5, BoundEnabled, PickNewEnabled

\* A graylisted client or path, and a live row of a graylisted client, put a
\* request under the graylist's policy, and only force_reauth drops.
LEMMA DecideGrayRequest ==
    ASSUME GrayPolicy # "force_reauth",
           NEW token, NEW device \in Devices \cup {None},
           NEW media, NEW anonKey \in AnonKeys, NEW addr, NEW hint,
           NEW d \in Decide(token, device, TRUE, media, anonKey, addr, hint)
    PROVE  ~d.drop
<1>1. \A tRow, dRow : PolicyFor(TRUE, tRow, dRow) = GrayPolicy
  BY DEF PolicyFor
<1>2. \/ \E b, kind : d \in Bound(b, kind, token, device, GrayPolicy)
      \/ d \in PickNew(device, anonKey, hint, GrayPolicy)
  BY <1>1 DEF Decide
<1>3. GrayPolicy \in {"fail_closed", "pin_unhealthy"}
  BY RouterAssumption DEF Policies
<1>4. ~Refuse.drop /\ \A b, kind : ~Go(b, kind).drop
  BY DEF Go, Refuse
<1>5. \A b, kind : d \in Bound(b, kind, token, device, GrayPolicy) => ~d.drop
  BY <1>3, <1>4 DEF Bound
<1> QED
  BY <1>2, <1>5, PickNewType

LEMMA DecideGray ==
    ASSUME StoreTypeOK, GrayPolicy # "force_reauth",
           NEW token \in Tokens, tokenRow[token] # None,
           tokenRow[token].live, tokenRow[token].gray,
           NEW device \in Devices \cup {None},
           NEW gray, NEW media, NEW anonKey, NEW addr, NEW hint,
           NEW d \in Decide(token, device, gray, media, anonKey, addr, hint)
    PROVE  ~d.drop
<1> DEFINE tRow == tokenRow[token]
           policy == PolicyFor(gray, tRow, Lookup(deviceRow, device))
<1>1. Lookup(tokenRow, token) = tRow
  BY StoreAssumption DEF Lookup
<1>2. d \in Bound(tRow.backend, "token", token, device, policy)
  BY <1>1 DEF Decide
<1>3. policy = GrayPolicy
  BY DEF PolicyFor
<1>4. policy \in {"fail_closed", "pin_unhealthy"}
  BY <1>3, RouterAssumption DEF Policies
<1> HIDE DEF policy, tRow
<1>5. ~Go(tRow.backend, "token").drop /\ ~Refuse.drop
  BY DEF Go, Refuse
<1> QED
  BY <1>2, <1>4, <1>5 DEF Bound

-----------------------------------------------------------------------------
(* How a handler moves. *)

\* Two requests that differ at most in their step.
SameData(p, q) ==
    /\ p.path = q.path /\ p.client = q.client /\ p.identified = q.identified
    /\ p.token = q.token /\ p.backend = q.backend /\ p.kind = q.kind
    /\ p.drop = q.drop /\ p.cands = q.cands /\ p.tried = q.tried
    /\ p.minted = q.minted /\ p.parked = q.parked

LEMMA IdleType == Idle \in RequestType /\ StepReady(Idle)
  BY DEF Idle, RequestType, Steps, AllPaths, Kinds, StepReady

LEMMA FinishEffect ==
    ASSUME req \in [Requests -> RequestType], NEW r \in Requests, Finish(r)
    PROVE  /\ req' \in [Requests -> RequestType]
           /\ req'[r] = Idle
           /\ \A s \in Requests \ {r} : req'[s] = req[s]
  BY IdleType DEF Finish

LEMMA GotoEffect ==
    ASSUME req \in [Requests -> RequestType], NEW r \in Requests, NEW step \in Steps,
           Goto(r, step)
    PROVE  /\ req' \in [Requests -> RequestType]
           /\ req'[r].pc = step /\ SameData(req'[r], req[r])
           /\ \A s \in Requests \ {r} : req'[s] = req[s]
<1> DEFINE q == [req[r] EXCEPT !.pc = step]
<1>1. q \in RequestType /\ q.pc = step /\ SameData(q, req[r])
  BY DEF RequestType, SameData
<1>2. req' = [req EXCEPT ![r] = q]
  BY DEF Goto
<1> HIDE DEF q
<1> QED
  BY <1>1, <1>2

\* Taking a decision: the handler ends, drops, or goes on with its backend.
LEMMA DecidedEffect ==
    ASSUME req \in [Requests -> RequestType], NEW r \in Requests, NEW d \in Decision,
           Decided(r, d)
    PROVE  /\ req' \in [Requests -> RequestType]
           /\ \A s \in Requests \ {r} : req'[s] = req[s]
           /\ \/ req'[r] = Idle
              \/ /\ req'[r].pc = (IF d.drop THEN "dropToken"
                                  ELSE IF req[r].path = "login" THEN "login" ELSE "bind")
                 /\ req'[r].backend = d.backend /\ req'[r].drop = d.drop
                 /\ req'[r].kind = d.kind
                 /\ ~d.drop => d.backend # None
                 /\ req'[r].client = req[r].client /\ req'[r].token = req[r].token
                 /\ req'[r].identified = req[r].identified
                 /\ req'[r].path = req[r].path /\ req'[r].parked = req[r].parked
                 /\ req'[r].tried = req[r].tried /\ req'[r].cands = req[r].cands
<1> DEFINE q == [req[r] EXCEPT !.backend = d.backend, !.kind = d.kind, !.drop = d.drop]
           step == IF d.drop THEN "dropToken" ELSE AfterDecision(q)
           p == [q EXCEPT !.pc = step]
<1>1. q \in RequestType /\ q.backend = d.backend /\ q.path = req[r].path
  BY DEF RequestType, Decision
<1>2. step \in Steps
  BY DEF AfterDecision, Steps
<1>3. p \in RequestType
  BY <1>1, <1>2 DEF RequestType
<1>4. req' = [req EXCEPT ![r] = IF step = "idle" THEN Idle ELSE p]
  BY DEF Decided
<1>5. CASE step = "idle"
  BY <1>4, <1>5, IdleType
<1>6. CASE step # "idle"
  <2>1. /\ p.pc = step /\ p.backend = d.backend /\ p.drop = d.drop /\ p.kind = d.kind
        /\ p.client = req[r].client /\ p.token = req[r].token
        /\ p.identified = req[r].identified
        /\ p.path = req[r].path /\ p.parked = req[r].parked
        /\ p.tried = req[r].tried /\ p.cands = req[r].cands
    BY DEF RequestType
  <2>2. /\ step = (IF d.drop THEN "dropToken"
                   ELSE IF req[r].path = "login" THEN "login" ELSE "bind")
        /\ ~d.drop => d.backend # None
    BY <1>1, <1>6 DEF AfterDecision
  <2> HIDE DEF p, step
  <2> QED
    BY <1>3, <1>4, <1>6, <2>1, <2>2
<1> QED
  BY <1>5, <1>6

\* Going on after a drop: the handler ends or goes on with its backend.
LEMMA ResumeEffect ==
    ASSUME req \in [Requests -> RequestType], NEW r \in Requests, Resume(r)
    PROVE  /\ req' \in [Requests -> RequestType]
           /\ \A s \in Requests \ {r} : req'[s] = req[s]
           /\ \/ req'[r] = Idle
              \/ /\ req'[r].pc = (IF req[r].path = "login" THEN "login" ELSE "bind")
                 /\ SameData(req'[r], req[r])
                 /\ req[r].backend # None
<1>1. AfterDecision(req[r]) \in Steps
  BY DEF AfterDecision, Steps
<1>2. CASE AfterDecision(req[r]) = "idle"
  BY <1>2, FinishEffect DEF Resume
<1>3. CASE AfterDecision(req[r]) # "idle"
  <2>1. Goto(r, AfterDecision(req[r]))
    BY <1>3 DEF Resume
  <2>2. /\ AfterDecision(req[r]) = (IF req[r].path = "login" THEN "login" ELSE "bind")
        /\ req[r].backend # None
    BY <1>3 DEF AfterDecision
  <2> QED
    BY <1>1, <2>1, <2>2, GotoEffect
<1> QED
  BY <1>2, <1>3

\* The next candidate is one of those left.
LEMMA NextCandidateType ==
    ASSUME NEW q \in RequestType, q.cands \ q.tried # {}
    PROVE  NextCandidate(q) \in q.cands \ q.tried /\ NextCandidate(q) \in Backends
<1> DEFINE left == q.cands \ q.tried
<1>1. left \in SUBSET Backends /\ left # {}
  BY DEF RequestType
<1>2. \E b \in left : \A c \in left : b <= c
  BY <1>1, StoreAssumption
<1>3. FirstOf(left) \in left
  BY <1>2 DEF FirstOf
<1>4. NextCandidate(q) = IF LoginPreferred(q) \in left THEN LoginPreferred(q) ELSE FirstOf(left)
  BY DEF NextCandidate
<1> HIDE DEF left
<1> QED
  BY <1>1, <1>3, <1>4 DEF left

-----------------------------------------------------------------------------
(* Type correctness. *)

LEMMA TypeInit == Init => TypeInv
<1> SUFFICES ASSUME Init PROVE TypeInv
  OBVIOUS
<1> USE DEF Init, StoreInit, RouterInit
<1>1. StoreTypeOK
  BY DEF StoreTypeOK
<1>2. RouterTypeOK
  BY DEF RouterTypeOK, HealthStates
<1>3. /\ req \in [Requests -> RequestType]
      /\ \A r \in Requests : req[r].pc = "idle" /\ StepReady(req[r])
  BY IdleType DEF Idle
<1> QED
  BY <1>1, <1>2, <1>3 DEF TypeInv, TypeOK

\* The identifiers a request carries.
LEMMA IdentityType ==
    ASSUME TypeOK, NEW r \in Requests, req[r].pc # "idle"
    PROVE  /\ req[r] \in RequestType
           /\ req[r].client \in Devices
           /\ DeviceOf(req[r]) \in Devices \cup {None}
           /\ GrayOf(req[r]) \in BOOLEAN /\ GrayRequest(req[r]) \in BOOLEAN
           /\ AnonKeyOf[req[r].client] \in AnonKeys
           /\ AddrOf[req[r].client] \in Addrs
           /\ req[r].token \in Tokens \cup {None}
  BY ProxyAssumption DEF TypeOK, DeviceOf, GrayOf, GrayRequest, RequestType

\* What Decide makes of the request a handler carries.
LEMMA RouteDecision ==
    ASSUME TypeOK, NEW r \in Requests, req[r].pc # "idle",
           NEW hint \in Backends \cup {None},
           NEW d \in Decide(req[r].token, DeviceOf(req[r]), GrayRequest(req[r]),
                            req[r].path = "media", AnonKeyOf[req[r].client],
                            AddrOf[req[r].client], hint)
    PROVE  /\ d \in Decision /\ d.backend \notin Disabled
           /\ d.drop /\ req[r].token # None => d.backend = None
           /\ /\ req[r].token \in Tokens /\ tokenRow[req[r].token] # None
              /\ tokenRow[req[r].token].live
              => /\ d.backend \in {tokenRow[req[r].token].backend, None}
                 /\ d.backend # None => d.kind = "token"
           /\ req[r].path = "sync" /\ GrayPolicy # "force_reauth" => ~d.drop
<1> DEFINE token == req[r].token
           device == DeviceOf(req[r])
           gray == GrayRequest(req[r])
           media == req[r].path = "media"
           anonKey == AnonKeyOf[req[r].client]
           addr == AddrOf[req[r].client]
<1>1. /\ token \in Tokens \cup {None} /\ device \in Devices \cup {None}
      /\ gray \in BOOLEAN /\ media \in BOOLEAN
      /\ anonKey \in AnonKeys /\ addr \in Addrs
      /\ StoreTypeOK /\ RouterTypeOK
  BY IdentityType DEF TypeOK
<1>2. req[r].path = "sync" => gray = TRUE
  BY <1>1 DEF GrayRequest
<1>3. d \in Decide(token, device, gray, media, anonKey, addr, hint)
  OBVIOUS
<1> HIDE DEF token, device, gray, media, anonKey, addr
<1>4. /\ d \in Decision
      /\ d.drop /\ token # None => d.backend = None
      /\ token \in Tokens /\ tokenRow[token] # None /\ tokenRow[token].live =>
            /\ d.backend \in {tokenRow[token].backend, None}
            /\ d.backend # None => d.kind = "token"
  BY <1>1, <1>3, DecideType
<1>5. d.backend \notin Disabled
  BY <1>1, <1>3, DecideEnabled
<1>6. gray = TRUE /\ GrayPolicy # "force_reauth" => ~d.drop
  BY <1>1, <1>3, DecideGrayRequest
<1> QED
  BY <1>2, <1>4, <1>5, <1>6 DEF token

\* One handler's step keeps the invariant if the handler's new record is ready
\* and the tables keep their types.
LEMMA TypeStep ==
    ASSUME TypeInv, NEW r \in Requests,
           StoreTypeOK', UNCHANGED <<routerVars>>,
           req' \in [Requests -> RequestType],
           \A s \in Requests \ {r} : req'[s] = req[s],
           req'[r].pc # "idle" => req'[r].client \in Devices,
           StepReady(req'[r]),
           issuer' \in [Tokens -> Backends \cup {None}],
           held' \subseteq Tokens, forgotten' \subseteq Tokens, faults' \in Nat
    PROVE  TypeInv'
<1>1. RouterTypeOK'
  BY DEF TypeInv, TypeOK, RouterTypeOK, routerVars
<1>2. \A s \in Requests : StepReady(req'[s]) /\ (req'[s].pc # "idle" => req'[s].client \in Devices)
  BY DEF TypeInv, TypeOK
<1> QED
  BY <1>1, <1>2 DEF TypeInv, TypeOK

LEMMA ArriveType ==
    ASSUME TypeInv, NEW r \in Requests, Arrive(r)
    PROVE  TypeInv'
<1>1. PICK c \in Devices, path \in Paths, identified \in BOOLEAN, t \in held \cup {None} :
         /\ t # None => Owner[t] = c
         /\ path = "login" => identified
         /\ path = "logout" => t # None
         /\ req' = [req EXCEPT ![r] =
              [Idle EXCEPT !.pc = "decide", !.path = path, !.client = c,
                           !.identified = identified, !.token = t,
                           !.parked = Disabled]]
  BY DEF Arrive
<1> DEFINE q == [Idle EXCEPT !.pc = "decide", !.path = path, !.client = c,
                           !.identified = identified, !.token = t,
                           !.parked = Disabled]
<1>2. Disabled \subseteq Backends
  BY RouterAssumption DEF Disabled, TypeInv, TypeOK, RouterTypeOK
<1>3. q \in RequestType /\ q.client \in Devices /\ StepReady(q)
  BY <1>2, ProxyAssumption
     DEF Idle, RequestType, Steps, AllPaths, Kinds, TypeInv, TypeOK, StepReady
<1>4. req' = [req EXCEPT ![r] = q]
  BY <1>1
<1> HIDE DEF q
<1>5. /\ req' \in [Requests -> RequestType] /\ req'[r] = q
      /\ \A s \in Requests \ {r} : req'[s] = req[s]
  BY <1>3, <1>4 DEF TypeInv, TypeOK
<1>6. StoreTypeOK'
  BY DEF Arrive, storeVars, StoreTypeOK, TypeInv, TypeOK
<1> QED
  BY <1>3, <1>5, <1>6, TypeStep DEF Arrive, clientVars, TypeInv, TypeOK

\* Taking a decision keeps the handler's record in order.
LEMMA DecidedReady ==
    ASSUME TypeInv, NEW r \in Requests, req[r].pc = "decide", NEW d \in Decision,
           Decided(r, d)
    PROVE  /\ req' \in [Requests -> RequestType]
           /\ \A s \in Requests \ {r} : req'[s] = req[s]
           /\ req'[r].pc # "idle" => req'[r].client \in Devices
           /\ StepReady(req'[r])
<1>1. req \in [Requests -> RequestType] /\ req[r].client \in Devices
  BY DEF TypeInv, TypeOK
<1>2. req[r].tried = {}
  BY DEF TypeInv, StepReady
<1>3. CASE req'[r] = Idle
  BY <1>1, <1>3, DecidedEffect, IdleType DEF Idle
<1>4. CASE req'[r] # Idle
  <2>1. /\ req'[r].pc = (IF d.drop THEN "dropToken"
                         ELSE IF req[r].path = "login" THEN "login" ELSE "bind")
        /\ req'[r].backend = d.backend /\ req'[r].drop = d.drop
        /\ ~d.drop => d.backend # None
        /\ req'[r].client = req[r].client /\ req'[r].tried = {}
    BY <1>1, <1>2, <1>4, DecidedEffect
  <2>2. StepReady(req'[r])
    BY <2>1 DEF StepReady, Decision
  <2> QED
    BY <1>1, <2>1, <2>2, DecidedEffect
<1> QED
  BY <1>3, <1>4

LEMMA ResumeReady ==
    ASSUME TypeInv, NEW r \in Requests, req[r].pc \in {"dropToken", "dropDevice"}, Resume(r)
    PROVE  /\ req' \in [Requests -> RequestType]
           /\ \A s \in Requests \ {r} : req'[s] = req[s]
           /\ req'[r].pc # "idle" => req'[r].client \in Devices
           /\ StepReady(req'[r])
<1>1. /\ req \in [Requests -> RequestType] /\ req[r].client \in Devices
      /\ req[r].backend \in Backends \cup {None}
  BY DEF TypeInv, TypeOK, RequestType
<1>2. req[r].tried = {}
  BY DEF TypeInv, StepReady
<1>3. CASE req'[r] = Idle
  BY <1>1, <1>3, ResumeEffect, IdleType DEF Idle
<1>4. CASE req'[r] # Idle
  <2>1. /\ req'[r].pc = (IF req[r].path = "login" THEN "login" ELSE "bind")
        /\ SameData(req'[r], req[r])
        /\ req[r].backend # None
    BY <1>1, <1>4, ResumeEffect
  <2>2. StepReady(req'[r])
    BY <1>1, <1>2, <2>1 DEF StepReady, SameData
  <2> QED
    BY <1>1, <2>1, <2>2, ResumeEffect DEF SameData
<1> QED
  BY <1>3, <1>4

LEMMA FaultType ==
    ASSUME faults \in Nat, Fault \/ NoFault
    PROVE  faults' \in Nat
  BY DEF Fault, NoFault

LEMMA HandleType ==
    ASSUME TypeInv, NEW r \in Requests, Handle(r)
    PROVE  TypeInv'
<1> DEFINE q == req[r]
<1>t. /\ TypeOK /\ StoreTypeOK /\ req \in [Requests -> RequestType]
      /\ StepReady(req[r]) /\ faults \in Nat
      /\ issuer \in [Tokens -> Backends \cup {None}]
      /\ held \subseteq Tokens /\ forgotten \subseteq Tokens
  BY DEF TypeInv, TypeOK
<1>i. req[r].pc # "idle" =>
        /\ req[r] \in RequestType
        /\ req[r].client \in Devices
        /\ DeviceOf(req[r]) \in Devices \cup {None}
        /\ GrayOf(req[r]) \in BOOLEAN /\ GrayRequest(req[r]) \in BOOLEAN
        /\ AnonKeyOf[req[r].client] \in AnonKeys
        /\ AddrOf[req[r].client] \in Addrs
        /\ req[r].token \in Tokens \cup {None}
  BY <1>t, IdentityType
<1>n. None \notin Tokens \cup Devices
  BY StoreAssumption
<1>1. CASE LookupFails(r)
  <2>1. Decided(r, Refuse) /\ req[r].pc = "decide"
    BY <1>1 DEF LookupFails
  <2>2. StoreTypeOK'
    BY <1>1, <1>i, <1>n, <1>t, <2>1, PurgeType DEF LookupFails, StoreTypeOK
  <2> QED
    BY <1>1, <1>t, <2>1, <2>2, RefuseType, DecidedReady, FaultType, TypeStep
       DEF LookupFails, clientVars
<1>2. CASE RouteRequest(r)
  <2>0. PICK hint \in Backends \cup {None} :
          \E d \in Decide(q.token, DeviceOf(q), GrayRequest(q), q.path = "media",
                         AnonKeyOf[q.client], AddrOf[q.client], hint) : Decided(r, d)
    BY <1>2 DEF RouteRequest
  <2>1. PICK d \in Decide(q.token, DeviceOf(q), GrayRequest(q), q.path = "media",
                         AnonKeyOf[q.client], AddrOf[q.client], hint) : Decided(r, d)
    BY <2>0
  <2>2. q.pc = "decide"
    BY <1>2 DEF RouteRequest
  <2>3. d \in Decision
    BY <1>t, <2>1, <2>2, RouteDecision
  <2>4. StoreTypeOK'
    BY <1>2, <1>i, <1>n, <1>t, <2>2, PurgeType DEF RouteRequest, StoreTypeOK
  <2> QED
    BY <1>2, <1>t, <2>1, <2>2, <2>3, <2>4, DecidedReady, FaultType, TypeStep
       DEF RouteRequest, clientVars
<1>3. CASE DropToken(r)
  <2>1. q.pc = "dropToken" /\ "dropDevice" \in Steps
    BY <1>3 DEF DropToken, Steps
  <2>2. StoreTypeOK'
    BY <1>3, <1>i, <1>n, <1>t, <2>1, DeleteType DEF DropToken, StoreTypeOK
  <2>3. forgotten' \subseteq Tokens
    BY <1>3, <1>i, <1>t, <2>1 DEF DropToken, Forget
  <2>4. /\ req' \in [Requests -> RequestType]
        /\ \A s \in Requests \ {r} : req'[s] = req[s]
        /\ req'[r].pc # "idle" => req'[r].client \in Devices
        /\ StepReady(req'[r])
    <3>1. CASE Goto(r, "dropDevice")
      BY <1>i, <1>t, <2>1, <3>1, GotoEffect DEF StepReady, SameData
    <3>2. CASE Resume(r)
      BY <2>1, <3>2, ResumeReady
    <3> QED
      BY <1>3, <3>1, <3>2 DEF DropToken
  <2> QED
    BY <1>3, <1>t, <2>2, <2>3, <2>4, FaultType, TypeStep DEF DropToken, clientVars
<1>4. CASE DropDevice(r)
  <2>1. q.pc = "dropDevice" /\ Resume(r)
    BY <1>4 DEF DropDevice
  <2>2. StoreTypeOK'
    BY <1>4, <1>i, <1>n, <1>t, <2>1, DeleteType DEF DropDevice, StoreTypeOK
  <2> QED
    BY <1>4, <1>t, <2>1, <2>2, ResumeReady, FaultType, TypeStep DEF DropDevice, clientVars
<1>5. CASE BindPlacement(r)
  <2>1. q.pc = "bind" /\ q.backend \in Backends
    BY <1>5, <1>t DEF BindPlacement, StepReady
  <2>a. Upsert(deviceRow, q.client, q.backend, GrayOf(q)) \in [Devices -> Row \cup {None}]
    BY <1>i, <1>t, <2>1, UpsertType DEF StoreTypeOK
  <2>b. Upsert(anonRow, AnonKeyOf[q.client], q.backend, FALSE)
           \in [AnonKeys -> Row \cup {None}]
    BY <1>i, <1>t, <2>1, UpsertAnonType DEF StoreTypeOK
  <2>2. StoreTypeOK'
    BY <1>5, <1>t, <2>a, <2>b DEF BindPlacement, StoreTypeOK
  <2>3. {"hop", "bindToken"} \subseteq Steps
    BY DEF Steps
  <2>4. /\ req' \in [Requests -> RequestType]
        /\ \A s \in Requests \ {r} : req'[s] = req[s]
        /\ req'[r].client \in Devices
        /\ StepReady(req'[r])
    BY <1>5, <1>i, <1>t, <2>1, <2>3, GotoEffect DEF BindPlacement, StepReady, SameData
  <2> QED
    BY <1>5, <1>t, <2>2, <2>4, FaultType, TypeStep DEF BindPlacement, clientVars
<1>6. CASE BindToken(r)
  <2>1. q.pc = "bindToken" /\ q.backend \in Backends /\ q.token \in Tokens
    BY <1>6, <1>i, <1>t DEF BindToken, StepReady
  <2>2. StoreTypeOK'
    BY <1>6, <1>i, <1>t, <2>1, UpsertType DEF BindToken, StoreTypeOK
  <2>3. "bindSession" \in Steps
    BY DEF Steps
  <2>4. /\ req' \in [Requests -> RequestType]
        /\ \A s \in Requests \ {r} : req'[s] = req[s]
        /\ req'[r].client \in Devices
        /\ StepReady(req'[r])
    BY <1>6, <1>i, <1>t, <2>1, <2>3, GotoEffect DEF BindToken, StepReady, SameData
  <2> QED
    BY <1>6, <1>t, <2>2, <2>4, FaultType, TypeStep DEF BindToken, clientVars
<1>7. CASE BindSession(r)
  <2>1. q.pc = "bindSession" /\ q.backend \in Backends
    BY <1>7, <1>t DEF BindSession, StepReady
  <2>a. Upsert(sessionRow, AddrOf[q.client], q.backend, FALSE) \in [Addrs -> Row \cup {None}]
    BY <1>i, <1>t, <2>1, UpsertAnonType DEF StoreTypeOK
  <2>2. StoreTypeOK'
    BY <1>7, <1>t, <2>a DEF BindSession, StoreTypeOK
  <2>3. "hop" \in Steps
    BY DEF Steps
  <2>4. /\ req' \in [Requests -> RequestType]
        /\ \A s \in Requests \ {r} : req'[s] = req[s]
        /\ req'[r].client \in Devices
        /\ StepReady(req'[r])
    BY <1>7, <1>i, <1>t, <2>1, <2>3, GotoEffect DEF BindSession, StepReady, SameData
  <2> QED
    BY <1>7, <1>t, <2>2, <2>4, FaultType, TypeStep DEF BindSession, clientVars
<1>8. CASE HopAnswered(r)
  <2>1. q.pc = "hop" /\ Finish(r)
    BY <1>8 DEF HopAnswered
  <2>2. StoreTypeOK'
    BY <1>8, <1>i, <1>n, <1>t, <2>1, TouchType DEF HopAnswered, StoreTypeOK
  <2> QED
    BY <1>8, <1>t, <2>1, <2>2, FinishEffect, IdleType, TypeStep
       DEF HopAnswered, clientVars, Idle
<1>9. CASE LogoutAnswered(r)
  <2>1. q.pc = "hop" /\ Finish(r) /\ q.token \in Tokens
    BY <1>9, <1>i DEF LogoutAnswered
  <2>2. StoreTypeOK'
    BY <1>9, <1>i, <1>n, <1>t, <2>1, TouchType, DeleteType DEF LogoutAnswered, StoreTypeOK
  <2>3. forgotten' \subseteq Tokens
    BY <1>9, <1>t, <2>1 DEF LogoutAnswered, Forget
  <2> QED
    BY <1>9, <1>t, <2>1, <2>2, <2>3, FinishEffect, IdleType, TypeStep
       DEF LogoutAnswered, clientVars, Idle
<1>10. CASE HopSkipped(r) \/ LoginTryEnds(r)
  <2>1. Finish(r)
    BY <1>10 DEF HopSkipped, LoginTryEnds
  <2> QED
    BY <1>10, <1>t, <2>1, FinishEffect, IdleType, TypeStep
       DEF HopSkipped, LoginTryEnds, clientVars, storeVars, StoreTypeOK, Idle
<1>11. CASE LoginStart(r)
  <2>1. q.pc = "login"
    BY <1>11 DEF LoginStart
  <2>2. CASE Finish(r)
    BY <1>11, <1>t, <2>2, FinishEffect, IdleType, TypeStep
       DEF LoginStart, clientVars, storeVars, StoreTypeOK, Idle
  <2>3. CASE /\ Eligible # {}
             /\ req' = [req EXCEPT ![r].pc = "try", ![r].cands = Eligible]
    <3> DEFINE p == [q EXCEPT !.pc = "try", !.cands = Eligible]
    <3>1. Eligible \subseteq Backends
      BY DEF Eligible
    <3>2. p \in RequestType /\ p.client = q.client /\ p.pc = "try"
          /\ p.cands = Eligible /\ p.tried = q.tried
      BY <1>i, <2>1, <3>1 DEF RequestType, Steps
    <3>3. req' = [req EXCEPT ![r] = p]
      BY <2>3
    <3> HIDE DEF p
    <3>4. q.tried = {}
      BY <1>t, <2>1 DEF StepReady
    <3>5. StepReady(p)
      BY <2>3, <3>2, <3>4 DEF StepReady
    <3>6. /\ req' \in [Requests -> RequestType] /\ req'[r] = p
          /\ \A s \in Requests \ {r} : req'[s] = req[s]
      BY <1>t, <3>2, <3>3
    <3> QED
      BY <1>11, <1>i, <1>t, <2>1, <3>2, <3>5, <3>6, TypeStep
         DEF LoginStart, clientVars, storeVars, StoreTypeOK
  <2> QED
    BY <1>11, <2>2, <2>3 DEF LoginStart
<1>12. CASE LoginTryFails(r)
  <2> DEFINE tried == q.tried \cup {NextCandidate(q)}
             p == [q EXCEPT !.tried = tried]
  <2>1. q.pc = "try" /\ q.tried \subseteq q.cands /\ q.tried # q.cands
    BY <1>12, <1>t DEF LoginTryFails, StepReady
  <2>2. NextCandidate(q) \in q.cands \ q.tried
    BY <1>i, <2>1, NextCandidateType
  <2>3. CASE Finish(r)
    BY <1>12, <1>t, <2>3, FinishEffect, IdleType, TypeStep
       DEF LoginTryFails, clientVars, storeVars, StoreTypeOK, Idle
  <2>4. CASE tried # q.cands /\ req' = [req EXCEPT ![r].tried = tried]
    <3>1. p \in RequestType /\ p.client = q.client /\ p.pc = "try"
          /\ p.cands = q.cands /\ p.tried = tried
      BY <1>i, <2>1, <2>2 DEF RequestType
    <3>2. req' = [req EXCEPT ![r] = p]
      BY <2>4
    <3> HIDE DEF p
    <3>3. StepReady(p)
      BY <2>1, <2>2, <2>4, <3>1 DEF StepReady
    <3>4. /\ req' \in [Requests -> RequestType] /\ req'[r] = p
          /\ \A s \in Requests \ {r} : req'[s] = req[s]
      BY <1>t, <3>1, <3>2
    <3> QED
      BY <1>12, <1>i, <1>t, <2>1, <3>1, <3>3, <3>4, TypeStep
         DEF LoginTryFails, clientVars, storeVars, StoreTypeOK
  <2> QED
    BY <1>12, <2>3, <2>4 DEF LoginTryFails
<1>13. CASE LoginGranted(r)
  <2>1. q.pc = "try" /\ q.tried \subseteq q.cands /\ q.tried # q.cands
    BY <1>13, <1>t DEF LoginGranted, StepReady
  <2>2. NextCandidate(q) \in Backends
    BY <1>i, <2>1, NextCandidateType
  <2>3. PICK u \in Tokens :
          /\ issuer[u] = None
          /\ Owner[u] = q.client
          /\ issuer' = [issuer EXCEPT ![u] = NextCandidate(q)]
          /\ req' = [req EXCEPT ![r].pc = "peekToken", ![r].minted = u]
    BY <1>13 DEF LoginGranted
  <2> DEFINE p == [q EXCEPT !.pc = "peekToken", !.minted = u]
  <2>4. p \in RequestType /\ p.client = q.client /\ p.pc = "peekToken"
        /\ p.cands = q.cands /\ p.tried = q.tried /\ p.minted = u
    BY <1>i, <2>1 DEF RequestType, Steps
  <2>5. req' = [req EXCEPT ![r] = p]
    BY <2>3
  <2> HIDE DEF p
  <2>6. StepReady(p)
    BY <2>1, <2>4 DEF StepReady
  <2>7. /\ req' \in [Requests -> RequestType] /\ req'[r] = p
        /\ \A s \in Requests \ {r} : req'[s] = req[s]
    BY <1>t, <2>4, <2>5
  <2>8. issuer' \in [Tokens -> Backends \cup {None}]
    BY <1>t, <2>2, <2>3
  <2> QED
    BY <1>13, <1>i, <1>t, <2>1, <2>4, <2>6, <2>7, <2>8, TypeStep
       DEF LoginGranted, storeVars, StoreTypeOK
<1>14. CASE PeekToken(r)
  <2>1. /\ q.pc = "peekToken" /\ q.tried \subseteq q.cands /\ q.tried # q.cands
        /\ q.minted \in Tokens
    BY <1>14, <1>t DEF PeekToken, StepReady
  <2>2. PeekBackend(q) \in Backends
    BY <1>i, <2>1, NextCandidateType DEF PeekBackend
  <2>3. StoreTypeOK'
    BY <1>14, <1>i, <1>t, <2>1, <2>2, UpsertType DEF PeekToken, StoreTypeOK
  <2>4. forgotten' \subseteq Tokens
    BY <1>14, <1>t, <2>1 DEF PeekToken, Forget
  <2>5. "peekDevice" \in Steps
    BY DEF Steps
  <2>6. /\ req' \in [Requests -> RequestType]
        /\ \A s \in Requests \ {r} : req'[s] = req[s]
        /\ req'[r].client \in Devices
        /\ StepReady(req'[r])
    BY <1>14, <1>i, <1>t, <2>1, <2>5, GotoEffect DEF PeekToken, StepReady, SameData
  <2> QED
    BY <1>14, <1>t, <2>3, <2>4, <2>6, FaultType, TypeStep DEF PeekToken, clientVars
<1>15. CASE PeekDevice(r)
  <2>1. /\ q.pc = "peekDevice" /\ q.tried \subseteq q.cands /\ q.tried # q.cands
        /\ q.minted \in Tokens
    BY <1>15, <1>t DEF PeekDevice, StepReady
  <2>2. PeekBackend(q) \in Backends
    BY <1>i, <2>1, NextCandidateType DEF PeekBackend
  <2>3. StoreTypeOK'
    BY <1>15, <1>i, <1>t, <2>1, <2>2, UpsertType DEF PeekDevice, StoreTypeOK
  <2>4. "peekSession" \in Steps
    BY DEF Steps
  <2>5. /\ req' \in [Requests -> RequestType]
        /\ \A s \in Requests \ {r} : req'[s] = req[s]
        /\ req'[r].client \in Devices
        /\ StepReady(req'[r])
    BY <1>15, <1>i, <1>t, <2>1, <2>4, GotoEffect DEF PeekDevice, StepReady, SameData
  <2> QED
    BY <1>15, <1>t, <2>3, <2>5, FaultType, TypeStep DEF PeekDevice, clientVars
<1>16. CASE PeekSession(r)
  <2>1. /\ q.pc = "peekSession" /\ q.tried \subseteq q.cands /\ q.tried # q.cands
        /\ q.minted \in Tokens
    BY <1>16, <1>t DEF PeekSession, StepReady
  <2>2. PeekBackend(q) \in Backends
    BY <1>i, <2>1, NextCandidateType DEF PeekBackend
  <2>a. Upsert(sessionRow, AddrOf[q.client], PeekBackend(q), FALSE)
           \in [Addrs -> Row \cup {None}]
    BY <1>i, <1>t, <2>1, <2>2, UpsertAnonType DEF StoreTypeOK
  <2>3. StoreTypeOK'
    BY <1>16, <1>t, <2>a DEF PeekSession, StoreTypeOK
  <2>4. held' \subseteq Tokens /\ Finish(r)
    BY <1>16, <1>t, <2>1 DEF PeekSession
  <2>5. /\ UNCHANGED <<routerVars, issuer, forgotten>>
        /\ faults' \in Nat
    BY <1>16, <1>t, FaultType DEF PeekSession
  <2>6. req'[r] = Idle /\ req' \in [Requests -> RequestType]
        /\ \A s \in Requests \ {r} : req'[s] = req[s]
    BY <1>t, <2>4, FinishEffect
  <2>7. StepReady(req'[r]) /\ req'[r].pc = "idle"
    BY <2>6, IdleType DEF Idle
  <2> QED
    BY <1>t, <2>3, <2>4, <2>5, <2>6, <2>7, TypeStep
<1> QED
  BY <1>1, <1>2, <1>3, <1>4, <1>5, <1>6, <1>7, <1>8, <1>9, <1>10, <1>11, <1>12,
     <1>13, <1>14, <1>15, <1>16 DEF Handle

LEMMA EnvironmentType ==
    ASSUME TypeInv, Environment
    PROVE  TypeInv'
<1>t. /\ TypeOK /\ StoreTypeOK /\ RouterTypeOK /\ req \in [Requests -> RequestType]
      /\ \A r \in Requests : StepReady(req[r])
      /\ \A r \in Requests : req[r].pc # "idle" => req[r].client \in Devices
      /\ issuer \in [Tokens -> Backends \cup {None}]
      /\ held \subseteq Tokens /\ forgotten \subseteq Tokens
  BY DEF TypeInv, TypeOK
<1>f. Fault => faults' \in Nat
  BY FaultType DEF TypeInv, TypeOK
<1>n. None \notin AnonKeys \cup Addrs
  BY StoreAssumption
<1> USE DEF clientVars, routerVars, storeVars
<1>1. ASSUME NEW t \in Tokens, ExpireToken(t) PROVE TypeInv'
  <2>1. StoreTypeOK'
    BY <1>1, <1>t, ExpiredType DEF ExpireToken, StoreTypeOK
  <2> QED
    BY <1>1, <1>t, <1>f, <2>1 DEF ExpireToken, Forget, RouterTypeOK, TypeInv, TypeOK
<1>2. ASSUME NEW d \in Devices, ExpireDevice(d) PROVE TypeInv'
  <2>1. StoreTypeOK'
    BY <1>2, <1>t, ExpiredType DEF ExpireDevice, StoreTypeOK
  <2> QED
    BY <1>2, <1>t, <1>f, <2>1 DEF ExpireDevice, RouterTypeOK, TypeInv, TypeOK
<1>3. CASE ExpireAnon
  <2>1. StoreTypeOK'
    BY <1>3, <1>t, <1>n, DeleteType DEF ExpireAnon, StoreTypeOK
  <2> QED
    BY <1>3, <1>t, <1>f, <2>1 DEF ExpireAnon, RouterTypeOK, TypeInv, TypeOK
<1>4. ASSUME NEW b \in Backends, Probe(b) PROVE TypeInv'
  <2>1. RouterTypeOK'
    BY <1>4, <1>t DEF Probe, RouterTypeOK, HealthStates
  <2> QED
    BY <1>4, <1>t, <1>f, <2>1 DEF Probe, StoreTypeOK, TypeInv, TypeOK
<1>5. ASSUME NEW b \in Backends, Disable(b) PROVE TypeInv'
  <2>1. RouterTypeOK'
    BY <1>5, <1>t DEF Disable, RouterTypeOK
  <2> QED
    BY <1>5, <1>t, <1>f, <2>1 DEF Disable, StoreTypeOK, TypeInv, TypeOK
<1>6. ASSUME NEW b \in Backends, Enable(b) PROVE TypeInv'
  <2>1. RouterTypeOK'
    BY <1>6, <1>t DEF Enable, RouterTypeOK
  <2>2. ASSUME NEW r \in Requests
        PROVE  /\ req'[r] \in RequestType
               /\ req'[r].pc # "idle" => req'[r].client \in Devices
               /\ StepReady(req'[r])
    <3> DEFINE p == [req[r] EXCEPT !.parked = @ \ {b}]
    <3>1. p \in RequestType /\ p.pc = req[r].pc /\ p.client = req[r].client
          /\ p.backend = req[r].backend /\ p.token = req[r].token
          /\ p.cands = req[r].cands /\ p.tried = req[r].tried
          /\ p.minted = req[r].minted /\ p.drop = req[r].drop
      BY <1>t DEF RequestType
    <3>2. req'[r] = p
      BY <1>6 DEF Enable
    <3> HIDE DEF p
    <3> QED
      BY <1>t, <3>1, <3>2 DEF StepReady
  <2>3. req' \in [Requests -> RequestType]
    BY <1>6, <2>2 DEF Enable
  <2> QED
    BY <1>6, <1>t, <1>f, <2>1, <2>2, <2>3 DEF Enable, StoreTypeOK, TypeInv, TypeOK
<1>7. CASE Unpin
  <2>1. StoreTypeOK'
    BY <1>7, <1>t DEF Unpin, StoreTypeOK
  <2> QED
    BY <1>7, <1>t, <1>f, <2>1 DEF Unpin, Forget, RouterTypeOK, TypeInv, TypeOK
<1>8. CASE Restart
  <2>1. RouterTypeOK'
    BY <1>8, <1>t DEF Restart, RouterTypeOK, HealthStates
  <2>2. /\ req' \in [Requests -> RequestType]
        /\ \A r \in Requests : req'[r].pc = "idle" /\ StepReady(req'[r])
    BY <1>8, IdleType DEF Restart, Idle
  <2> QED
    BY <1>8, <1>t, <1>f, <2>1, <2>2 DEF Restart, StoreTypeOK, TypeInv, TypeOK
<1> QED
  BY <1>1, <1>2, <1>3, <1>4, <1>5, <1>6, <1>7, <1>8 DEF Environment

LEMMA StutterType ==
    ASSUME TypeInv, UNCHANGED vars
    PROVE  TypeInv'
  BY DEF vars, storeVars, routerVars, TypeInv, TypeOK, StoreTypeOK, RouterTypeOK

\* Every reachable state is well typed, and every handler holds what its next
\* step needs: no statement is issued for an absent backend, token or candidate.
THEOREM TypeCorrect == Spec => []TypeInv
<1>1. TypeInv /\ [Next]_vars => TypeInv'
  BY ArriveType, HandleType, EnvironmentType, StutterType DEF Next
<1> QED
  BY TypeInit, <1>1, PTL DEF Spec

-----------------------------------------------------------------------------
(* Tokens and their issuers. *)

LEMMA IdleCarries == CarriesIssuer(Idle)
  BY DEF CarriesIssuer, Idle

LEMMA AffinityInit == Init => AffinityInv
  BY IdleCarries
     DEF Init, StoreInit, RowsAtIssuer, HeldTokens, AffinityInv, CarriesIssuer, Idle

\* One handler's step keeps the invariant if it leaves every unforgotten token
\* with a row at its issuer and the handler carries what it should.
LEMMA AffinityStep ==
    ASSUME TypeInv, AffinityInv, NEW r \in Requests,
           \A s \in Requests \ {r} : req'[s] = req[s],
           \A t \in Tokens : issuer[t] # None => issuer'[t] = issuer[t],
           forgotten \subseteq forgotten', held \subseteq held', held' \subseteq Tokens,
           \A t \in held' \ held :
              issuer'[t] # None /\ (t \in forgotten' \/ tokenRow'[t] # None),
           \A t \in Tokens \ forgotten' : tokenRow[t] # None => tokenRow'[t] # None,
           RowsAtIssuer',
           CarriesIssuer(req[r])'
    PROVE  AffinityInv'
<1>1. HeldTokens'
  BY DEF HeldTokens, AffinityInv, TypeInv, TypeOK
<1>2. ASSUME NEW s \in Requests \ {r} PROVE CarriesIssuer(req[s])'
  <2> DEFINE q == req[s]
  <2>1. /\ q \in RequestType /\ StepReady(q) /\ CarriesIssuer(q) /\ req'[s] = q
    BY DEF TypeInv, TypeOK, AffinityInv
  <2>2. q.token \in held => q.token \in Tokens /\ issuer'[q.token] = issuer[q.token]
    BY DEF AffinityInv, HeldTokens, TypeInv, TypeOK
  <2>3. q.pc \in {"peekToken", "peekDevice", "peekSession"} =>
           q.minted \in Tokens /\ issuer'[q.minted] = issuer[q.minted]
    <3> SUFFICES ASSUME q.pc \in {"peekToken", "peekDevice", "peekSession"}
                 PROVE  q.minted \in Tokens /\ issuer'[q.minted] = issuer[q.minted]
      OBVIOUS
    <3>1. q.minted \in Tokens /\ q.cands \ q.tried # {}
      BY <2>1 DEF StepReady
    <3>2. NextCandidate(q) # None
      BY <2>1, <3>1, NextCandidateType, StoreAssumption
    <3> QED
      BY <2>1, <3>1, <3>2 DEF CarriesIssuer
  <2>4. \A t \in Tokens : t \notin forgotten' /\ tokenRow[t] # None => tokenRow'[t] # None
    OBVIOUS
  <2> QED
    BY <2>1, <2>2, <2>3, <2>4 DEF CarriesIssuer
<1> QED
  BY <1>1, <1>2 DEF AffinityInv

\* A step that leaves the token table, the issuers and the history alone.
LEMMA QuietStep ==
    ASSUME TypeInv, AffinityInv, NEW r \in Requests,
           \A s \in Requests \ {r} : req'[s] = req[s],
           UNCHANGED <<tokenRow, issuer, held, forgotten>>,
           CarriesIssuer(req[r])'
    PROVE  AffinityInv'
<1>1. RowsAtIssuer'
  BY DEF RowsAtIssuer, AffinityInv
<1>2. held' \subseteq Tokens
  BY DEF TypeInv, TypeOK
<1> QED
  BY <1>1, <1>2, AffinityStep

\* A step after which the token table holds rows it held before, and lost or
\* aged only forgotten ones.
LEMMA RowsShrink ==
    ASSUME RowsAtIssuer, UNCHANGED issuer, forgotten \subseteq forgotten',
           \A t \in Tokens \ forgotten' : tokenRow'[t] = tokenRow[t]
    PROVE  /\ RowsAtIssuer'
           /\ \A t \in Tokens \ forgotten' : tokenRow[t] # None => tokenRow'[t] # None
  BY DEF RowsAtIssuer

\* A lookup's lazy delete takes no row that was not forgotten.
LEMMA PurgeKeeps ==
    ASSUME RowsAtIssuer, StoreTypeOK, UNCHANGED forgotten,
           NEW token \in Tokens \cup {None},
           tokenRow' = Purge(tokenRow, token)
    PROVE  \A t \in Tokens \ forgotten' : tokenRow'[t] = tokenRow[t]
<1> SUFFICES ASSUME NEW t \in Tokens \ forgotten PROVE tokenRow'[t] = tokenRow[t]
  OBVIOUS
<1>1. CASE tokenRow[t] = None
  BY <1>1 DEF Purge, StoreTypeOK
<1>2. CASE tokenRow[t] # None
  BY <1>2 DEF Purge, StoreTypeOK, RowsAtIssuer
<1> QED
  BY <1>1, <1>2

LEMMA FinishCarries ==
    ASSUME TypeInv, NEW r \in Requests, Finish(r)
    PROVE  /\ CarriesIssuer(req[r])'
           /\ \A s \in Requests \ {r} : req'[s] = req[s]
<1>1. req'[r] = Idle /\ \A s \in Requests \ {r} : req'[s] = req[s]
  BY FinishEffect DEF TypeInv, TypeOK
<1> QED
  BY <1>1 DEF CarriesIssuer, Idle

\* After a drop only a request without a token goes on.
LEMMA ResumeCarries ==
    ASSUME TypeInv, AffinityInv, NEW r \in Requests,
           req[r].pc \in {"dropToken", "dropDevice"}, Resume(r)
    PROVE  /\ CarriesIssuer(req[r])'
           /\ \A s \in Requests \ {r} : req'[s] = req[s]
<1>1. /\ req \in [Requests -> RequestType] /\ req[r].drop
      /\ req[r].token # None => req[r].backend = None
  BY DEF TypeInv, TypeOK, StepReady, AffinityInv, CarriesIssuer
<1>2. CASE req'[r] = Idle
  BY <1>1, <1>2, ResumeEffect DEF CarriesIssuer, Idle
<1>3. CASE req'[r] # Idle
  <2>1. /\ req'[r].pc \in {"login", "bind"} /\ req'[r].token = None
    BY <1>1, <1>3, ResumeEffect DEF SameData
  <2> QED
    BY <1>1, <2>1, ResumeEffect DEF CarriesIssuer
<1> QED
  BY <1>2, <1>3

\* What the invariant says of one handler and of its token.
LEMMA HandlerFacts ==
    ASSUME TypeInv, AffinityInv, NEW r \in Requests
    PROVE  /\ req \in [Requests -> RequestType] /\ req[r] \in RequestType
           /\ StepReady(req[r]) /\ CarriesIssuer(req[r]) /\ RowsAtIssuer
           /\ StoreTypeOK /\ held \subseteq Tokens /\ forgotten \subseteq Tokens
           /\ req[r].token \in Tokens \cup {None}
           /\ req[r].token \in Tokens \ forgotten =>
                 /\ tokenRow[req[r].token] # None
                 /\ tokenRow[req[r].token].live
                 /\ tokenRow[req[r].token].backend = issuer[req[r].token]
                 /\ issuer[req[r].token] \in Backends
<1>1. /\ req \in [Requests -> RequestType] /\ req[r] \in RequestType
      /\ StepReady(req[r]) /\ CarriesIssuer(req[r]) /\ RowsAtIssuer
      /\ StoreTypeOK /\ held \subseteq Tokens /\ forgotten \subseteq Tokens
  BY DEF TypeInv, TypeOK, AffinityInv
<1>2. req[r].token \in Tokens \cup {None}
  BY <1>1 DEF RequestType
<1>3. ASSUME req[r].token \in Tokens \ forgotten
      PROVE  /\ tokenRow[req[r].token] # None
             /\ tokenRow[req[r].token].live
             /\ tokenRow[req[r].token].backend = issuer[req[r].token]
             /\ issuer[req[r].token] \in Backends
  <2>1. req[r].token \in held
    BY <1>1, <1>3, StoreAssumption DEF CarriesIssuer
  <2>2. tokenRow[req[r].token] # None /\ issuer[req[r].token] # None
    BY <1>3, <2>1 DEF AffinityInv, HeldTokens
  <2> QED
    BY <1>1, <1>3, <2>2 DEF RowsAtIssuer, TypeInv, TypeOK
<1> QED
  BY <1>1, <1>2, <1>3

LEMMA ArriveAffinity ==
    ASSUME TypeInv, AffinityInv, NEW r \in Requests, Arrive(r)
    PROVE  AffinityInv'
<1>1. PICK c \in Devices, path \in Paths, identified \in BOOLEAN, t \in held \cup {None} :
         /\ t # None => Owner[t] = c
         /\ path = "login" => identified
         /\ path = "logout" => t # None
         /\ req' = [req EXCEPT ![r] =
              [Idle EXCEPT !.pc = "decide", !.path = path, !.client = c,
                           !.identified = identified, !.token = t,
                           !.parked = Disabled]]
  BY DEF Arrive
<1>2. /\ req'[r].pc = "decide" /\ req'[r].token = t /\ req'[r].drop = FALSE
      /\ \A s \in Requests \ {r} : req'[s] = req[s]
  BY <1>1 DEF TypeInv, TypeOK, Idle
<1>3. UNCHANGED <<tokenRow, issuer, held, forgotten>>
  BY DEF Arrive, storeVars, clientVars
<1>4. CarriesIssuer(req[r])'
  BY <1>2, <1>3 DEF CarriesIssuer
<1> QED
  BY <1>2, <1>3, <1>4, QuietStep

LEMMA RouteAffinity ==
    ASSUME TypeInv, AffinityInv, NEW r \in Requests, RouteRequest(r)
    PROVE  AffinityInv'
<1> DEFINE q == req[r]
<1>q. q.pc = "decide"
  BY DEF RouteRequest
<1>f. /\ req \in [Requests -> RequestType] /\ q \in RequestType
      /\ CarriesIssuer(q) /\ RowsAtIssuer
      /\ StoreTypeOK /\ held \subseteq Tokens /\ forgotten \subseteq Tokens
      /\ q.token \in Tokens \cup {None}
      /\ q.token \in Tokens \ forgotten =>
            /\ tokenRow[q.token] # None /\ tokenRow[q.token].live
            /\ tokenRow[q.token].backend = issuer[q.token]
  BY HandlerFacts
<1>0. PICK hint \in Backends \cup {None} :
        \E d \in Decide(q.token, DeviceOf(q), GrayRequest(q), q.path = "media",
                       AnonKeyOf[q.client], AddrOf[q.client], hint) : Decided(r, d)
  BY DEF RouteRequest
<1>1. PICK d \in Decide(q.token, DeviceOf(q), GrayRequest(q), q.path = "media",
                       AnonKeyOf[q.client], AddrOf[q.client], hint) : Decided(r, d)
  BY <1>0
<1>2. /\ d \in Decision
      /\ d.drop /\ q.token # None => d.backend = None
      /\ q.token \in Tokens /\ tokenRow[q.token] # None /\ tokenRow[q.token].live =>
            d.backend \in {tokenRow[q.token].backend, None}
  BY <1>1, <1>q, RouteDecision DEF TypeInv
<1>3. /\ UNCHANGED <<issuer, held, forgotten>>
      /\ tokenRow' \in {tokenRow, Purge(tokenRow, q.token)}
  BY DEF RouteRequest, clientVars
<1>4. \A t \in Tokens \ forgotten' : tokenRow'[t] = tokenRow[t]
  BY <1>3, <1>f, PurgeKeeps
<1>5. CarriesIssuer(req[r])' /\ \A s \in Requests \ {r} : req'[s] = req[s]
  <2>1. CASE req'[r] = Idle
    BY <1>1, <1>2, <1>f, <2>1, DecidedEffect DEF CarriesIssuer, Idle
  <2>2. CASE req'[r] # Idle
    <3>1. /\ req'[r].pc = (IF d.drop THEN "dropToken"
                           ELSE IF q.path = "login" THEN "login" ELSE "bind")
          /\ req'[r].backend = d.backend /\ req'[r].drop = d.drop
          /\ ~d.drop => d.backend # None
          /\ req'[r].token = q.token
          /\ \A s \in Requests \ {r} : req'[s] = req[s]
      BY <1>1, <1>2, <1>f, <2>2, DecidedEffect
    <3>2. q.token \in held \cup {None}
      BY <1>f DEF CarriesIssuer
    <3>3. ~d.drop => q.token \in forgotten \cup {None} \/ d.backend = issuer[q.token]
      BY <1>2, <1>f, <3>1
    <3> HIDE DEF q
    <3> QED
      BY <1>2, <1>3, <3>1, <3>2, <3>3 DEF CarriesIssuer
  <2> QED
    BY <2>1, <2>2
<1> QED
  BY <1>3, <1>4, <1>5, <1>f, RowsShrink, AffinityStep

LEMMA DropTokenAffinity ==
    ASSUME TypeInv, AffinityInv, NEW r \in Requests, DropToken(r)
    PROVE  AffinityInv'
<1> DEFINE q == req[r]
<1>f. /\ q.pc = "dropToken"
      /\ req \in [Requests -> RequestType] /\ CarriesIssuer(q) /\ RowsAtIssuer
      /\ StoreTypeOK /\ held \subseteq Tokens /\ forgotten \subseteq Tokens
      /\ q.token \in Tokens \cup {None}
      /\ UNCHANGED <<issuer, held>>
  BY HandlerFacts DEF DropToken, clientVars
<1>1. CASE /\ tokenRow' = Delete(tokenRow, q.token)
           /\ Forget(IF q.token = None THEN {} ELSE {q.token})
           /\ Goto(r, "dropDevice")
  <2>1. forgotten \subseteq forgotten' /\ (q.token # None => q.token \in forgotten')
    BY <1>1 DEF Forget
  <2>a. ASSUME q.token = None
        PROVE  \A t \in Tokens \ forgotten' : tokenRow'[t] = tokenRow[t]
    BY <1>1, <2>a DEF Delete
  <2>b. ASSUME q.token \in Tokens
        PROVE  \A t \in Tokens \ forgotten' : tokenRow'[t] = tokenRow[t]
    <3>1. tokenRow \in [Tokens -> Row \cup {None}] /\ q.token # None
      BY <1>f, <2>b, StoreAssumption DEF StoreTypeOK
    <3>2. tokenRow' = [tokenRow EXCEPT ![q.token] = None] /\ q.token \in forgotten'
      BY <1>1, <2>1, <3>1 DEF Delete
    <3> QED
      BY <3>1, <3>2
  <2>2. \A t \in Tokens \ forgotten' : tokenRow'[t] = tokenRow[t]
    BY <1>f, <2>a, <2>b
  <2>3. /\ req'[r].pc = "dropDevice" /\ SameData(req'[r], q)
        /\ \A s \in Requests \ {r} : req'[s] = req[s]
    BY <1>1, <1>f, GotoEffect DEF Steps
  <2>4. CarriesIssuer(req[r])'
    BY <1>f, <2>3 DEF CarriesIssuer, SameData
  <2> QED
    BY <1>f, <2>1, <2>2, <2>3, <2>4, RowsShrink, AffinityStep
<1>2. CASE Resume(r) /\ UNCHANGED <<tokenRow, forgotten>>
  BY <1>2, <1>f, ResumeCarries, QuietStep
<1> QED
  BY <1>1, <1>2 DEF DropToken

\* Binding the request's token: unforgotten, it is bound where it already is.
LEMMA BindTokenAffinity ==
    ASSUME TypeInv, AffinityInv, NEW r \in Requests, BindToken(r)
    PROVE  AffinityInv'
<1> DEFINE q == req[r]
<1>f. /\ q.pc = "bindToken" /\ q.backend \in Backends /\ q.token \in Tokens
      /\ req \in [Requests -> RequestType] /\ q \in RequestType
      /\ CarriesIssuer(q) /\ RowsAtIssuer
      /\ StoreTypeOK /\ held \subseteq Tokens
      /\ UNCHANGED <<issuer, held, forgotten>> /\ Goto(r, "bindSession")
  BY HandlerFacts DEF BindToken, clientVars, StepReady
<1>1. /\ req'[r].pc = "bindSession" /\ SameData(req'[r], q)
      /\ \A s \in Requests \ {r} : req'[s] = req[s]
  BY <1>f, GotoEffect DEF Steps
<1>2. CarriesIssuer(req[r])'
  BY <1>f, <1>1 DEF CarriesIssuer, SameData
<1>3. CASE UNCHANGED tokenRow
  BY <1>f, <1>1, <1>2, <1>3, QuietStep
<1>4. CASE tokenRow' = Upsert(tokenRow, q.token, q.backend, GrayOf(q))
  <2>1. GrayOf(q) \in BOOLEAN
    BY <1>f DEF GrayOf, RequestType
  <2>2. /\ tokenRow'[q.token] # None /\ tokenRow'[q.token].live
        /\ tokenRow'[q.token].backend = q.backend
        /\ \A t \in Tokens \ {q.token} : tokenRow'[t] = tokenRow[t]
    BY <1>4, <1>f, <2>1, UpsertType DEF StoreTypeOK
  <2>3. q.token \in forgotten \/ q.backend = issuer[q.token]
    BY <1>f, StoreAssumption DEF CarriesIssuer
  <2>4. RowsAtIssuer'
    BY <1>f, <2>2, <2>3 DEF RowsAtIssuer
  <2> QED
    BY <1>f, <1>1, <1>2, <2>2, <2>4, AffinityStep
<1> QED
  BY <1>3, <1>4 DEF BindToken

LEMMA HopAnsweredAffinity ==
    ASSUME TypeInv, AffinityInv, NEW r \in Requests, HopAnswered(r)
    PROVE  AffinityInv'
<1> DEFINE q == req[r]
<1>f. /\ RowsAtIssuer /\ StoreTypeOK /\ held \subseteq Tokens
      /\ q.token \in Tokens \cup {None}
      /\ UNCHANGED <<issuer, held, forgotten>> /\ Finish(r)
      /\ tokenRow' = Touch(tokenRow, q.token)
  BY HandlerFacts DEF HopAnswered, clientVars
<1>1. /\ \A t \in Tokens : tokenRow[t] = None => tokenRow'[t] = None
      /\ \A t \in Tokens : tokenRow[t] # None =>
            /\ tokenRow'[t] # None
            /\ tokenRow'[t].backend = tokenRow[t].backend
            /\ tokenRow[t].live => tokenRow'[t].live
  BY <1>f, TouchType, StoreAssumption DEF StoreTypeOK
<1>2. RowsAtIssuer'
  BY <1>f, <1>1 DEF RowsAtIssuer
<1> QED
  BY <1>f, <1>1, <1>2, FinishCarries, AffinityStep

LEMMA LogoutAffinity ==
    ASSUME TypeInv, AffinityInv, NEW r \in Requests, LogoutAnswered(r)
    PROVE  AffinityInv'
<1> DEFINE q == req[r]
<1>f. /\ RowsAtIssuer /\ StoreTypeOK /\ held \subseteq Tokens
      /\ q.token \in Tokens
      /\ UNCHANGED <<issuer, held>> /\ Finish(r)
      /\ tokenRow' = Delete(tokenRow, q.token) /\ Forget({q.token})
  BY HandlerFacts DEF LogoutAnswered, clientVars
<1>1. forgotten \subseteq forgotten' /\ q.token \in forgotten'
  BY <1>f DEF Forget
<1>2. \A t \in Tokens \ forgotten' : tokenRow'[t] = tokenRow[t]
  <2>1. tokenRow \in [Tokens -> Row \cup {None}] /\ q.token # None
    BY <1>f, StoreAssumption DEF StoreTypeOK
  <2>2. tokenRow' = [tokenRow EXCEPT ![q.token] = None]
    BY <1>f, <2>1 DEF Delete
  <2> QED
    BY <1>1, <2>1, <2>2
<1> QED
  BY <1>f, <1>1, <1>2, RowsShrink, FinishCarries, AffinityStep

\* The login steps before the answer is read: nothing a token depends on moves.
LEMMA LoginStepsAffinity ==
    ASSUME TypeInv, AffinityInv, NEW r \in Requests,
           LoginStart(r) \/ LoginTryFails(r)
    PROVE  AffinityInv'
<1> DEFINE q == req[r]
<1>f. /\ req \in [Requests -> RequestType] /\ q \in RequestType /\ CarriesIssuer(q)
      /\ q.pc \in {"login", "try"}
      /\ UNCHANGED <<tokenRow, issuer, held, forgotten>>
  BY HandlerFacts DEF LoginStart, LoginTryFails, clientVars, storeVars
<1>1. CASE Finish(r)
  BY <1>f, <1>1, FinishCarries, QuietStep
<1>2. CASE req' = [req EXCEPT ![r].pc = "try", ![r].cands = Eligible]
  <2>1. /\ req'[r].pc = "try" /\ req'[r].token = q.token /\ req'[r].drop = q.drop
        /\ \A s \in Requests \ {r} : req'[s] = req[s]
    BY <1>2, <1>f DEF RequestType
  <2>2. CarriesIssuer(req[r])'
    BY <1>f, <2>1 DEF CarriesIssuer
  <2> QED
    BY <1>f, <2>1, <2>2, QuietStep
<1>3. CASE q.pc = "try" /\ req' = [req EXCEPT ![r].tried = q.tried \cup {NextCandidate(q)}]
  <2>1. /\ req'[r].pc = "try" /\ req'[r].token = q.token /\ req'[r].drop = q.drop
        /\ \A s \in Requests \ {r} : req'[s] = req[s]
    BY <1>3, <1>f DEF RequestType
  <2>2. CarriesIssuer(req[r])'
    BY <1>f, <2>1 DEF CarriesIssuer
  <2> QED
    BY <1>f, <2>1, <2>2, QuietStep
<1> QED
  BY <1>1, <1>2, <1>3 DEF LoginStart, LoginTryFails

\* A backend issues a token: it had no issuer, so no client holds it and no
\* unforgotten row names it.
LEMMA LoginGrantedAffinity ==
    ASSUME TypeInv, AffinityInv, NEW r \in Requests, LoginGranted(r)
    PROVE  AffinityInv'
<1> DEFINE q == req[r]
<1>f. /\ req \in [Requests -> RequestType] /\ q \in RequestType
      /\ StepReady(q) /\ CarriesIssuer(q) /\ RowsAtIssuer /\ StoreTypeOK
      /\ held \subseteq Tokens /\ issuer \in [Tokens -> Backends \cup {None}]
      /\ q.pc = "try"
      /\ UNCHANGED <<tokenRow, held, forgotten>>
  BY HandlerFacts DEF LoginGranted, storeVars, TypeInv, TypeOK
<1>1. PICK u \in Tokens :
        /\ issuer[u] = None
        /\ Owner[u] = q.client
        /\ issuer' = [issuer EXCEPT ![u] = NextCandidate(q)]
        /\ req' = [req EXCEPT ![r].pc = "peekToken", ![r].minted = u]
  BY DEF LoginGranted
<1>2. /\ req'[r].pc = "peekToken" /\ req'[r].minted = u /\ req'[r].token = q.token
      /\ req'[r].drop = q.drop /\ req'[r].cands = q.cands /\ req'[r].tried = q.tried
      /\ req'[r].kind = q.kind /\ req'[r].client = q.client
      /\ req'[r].backend = q.backend
      /\ \A s \in Requests \ {r} : req'[s] = req[s]
  BY <1>1, <1>f DEF RequestType
<1>3. NextCandidate(req'[r]) = NextCandidate(q)
  BY <1>2 DEF NextCandidate, LoginPreferred
<1>4. \A t \in Tokens \ {u} : issuer'[t] = issuer[t]
  BY <1>1, <1>f
<1>5. issuer'[u] = NextCandidate(q)
  BY <1>1, <1>f
<1>6. CarriesIssuer(req[r])'
  BY <1>f, <1>2, <1>3, <1>5 DEF CarriesIssuer
<1>7. RowsAtIssuer'
  <2> SUFFICES ASSUME NEW t \in Tokens \ forgotten, tokenRow[t] # None
               PROVE  tokenRow[t].live /\ tokenRow[t].backend = issuer'[t]
    BY <1>f DEF RowsAtIssuer
  <2>1. tokenRow[t].live /\ tokenRow[t].backend = issuer[t]
    BY <1>f DEF RowsAtIssuer
  <2>2. issuer[t] # None
    BY <1>f, <2>1, StoreAssumption DEF StoreTypeOK, Row
  <2> QED
    BY <1>1, <1>4, <2>1, <2>2
<1> QED
  BY <1>f, <1>1, <1>2, <1>4, <1>6, <1>7, AffinityStep

\* peekLogin binds the answer to the backend that gave it.
LEMMA PeekTokenAffinity ==
    ASSUME TypeInv, AffinityInv, NEW r \in Requests, PeekToken(r)
    PROVE  AffinityInv'
<1> DEFINE q == req[r]
<1>f. /\ req \in [Requests -> RequestType] /\ q \in RequestType
      /\ StepReady(q) /\ CarriesIssuer(q) /\ RowsAtIssuer /\ StoreTypeOK
      /\ held \subseteq Tokens /\ q.pc = "peekToken"
      /\ UNCHANGED <<issuer, held>> /\ Goto(r, "peekDevice")
  BY HandlerFacts DEF PeekToken, clientVars
<1>1. /\ q.minted \in Tokens /\ issuer[q.minted] = NextCandidate(q)
      /\ NextCandidate(q) \in Backends
  BY <1>f, NextCandidateType DEF StepReady, CarriesIssuer
<1>2. /\ req'[r].pc = "peekDevice" /\ SameData(req'[r], q)
      /\ \A s \in Requests \ {r} : req'[s] = req[s]
  BY <1>f, GotoEffect DEF Steps
<1>3. NextCandidate(req'[r]) = NextCandidate(q)
  BY <1>2 DEF NextCandidate, LoginPreferred, SameData
<1>4. CASE /\ tokenRow' = Upsert(tokenRow, q.minted, PeekBackend(q), GrayOf(q))
           /\ UNCHANGED forgotten
  <2>1. GrayOf(q) \in BOOLEAN /\ PeekBackend(q) = issuer[q.minted]
    BY <1>f, <1>1 DEF GrayOf, RequestType, PeekBackend
  <2>2. /\ tokenRow'[q.minted] # None /\ tokenRow'[q.minted].live
        /\ tokenRow'[q.minted].backend = issuer[q.minted]
        /\ \A t \in Tokens \ {q.minted} : tokenRow'[t] = tokenRow[t]
    BY <1>4, <1>f, <1>1, <2>1, UpsertType DEF StoreTypeOK
  <2>3. RowsAtIssuer'
    BY <1>f, <1>4, <2>2 DEF RowsAtIssuer
  <2>4. CarriesIssuer(req[r])'
    BY <1>f, <1>1, <1>2, <1>3, <1>4, <2>2 DEF CarriesIssuer, SameData
  <2> QED
    BY <1>f, <1>2, <1>4, <2>2, <2>3, <2>4, AffinityStep
<1>5. CASE Forget({q.minted}) /\ UNCHANGED tokenRow
  <2>1. forgotten \subseteq forgotten' /\ q.minted \in forgotten'
    BY <1>5 DEF Forget
  <2>2. CarriesIssuer(req[r])'
    BY <1>f, <1>1, <1>2, <1>3, <2>1 DEF CarriesIssuer, SameData
  <2> QED
    BY <1>f, <1>2, <1>5, <2>1, <2>2, RowsShrink, AffinityStep
<1> QED
  BY <1>4, <1>5 DEF PeekToken

\* Steps that move the handler on and leave the token table alone.
LEMMA MoveOnAffinity ==
    ASSUME TypeInv, AffinityInv, NEW r \in Requests,
           BindPlacement(r) \/ BindSession(r) \/ PeekDevice(r)
    PROVE  AffinityInv'
<1> DEFINE q == req[r]
<1>f. /\ req \in [Requests -> RequestType] /\ CarriesIssuer(q)
      /\ UNCHANGED <<tokenRow, issuer, held, forgotten>>
  BY HandlerFacts DEF BindPlacement, BindSession, PeekDevice, clientVars
<1>1. PICK step \in {"hop", "bindToken", "peekSession"} :
        /\ Goto(r, step)
        /\ \/ q.pc \in {"bind", "bindSession"} /\ step # "peekSession"
           \/ q.pc = "peekDevice" /\ step = "peekSession"
  BY DEF BindPlacement, BindSession, PeekDevice
<1>2. /\ req'[r].pc = step /\ SameData(req'[r], q)
      /\ \A s \in Requests \ {r} : req'[s] = req[s]
  BY <1>f, <1>1, GotoEffect DEF Steps
<1>3. NextCandidate(req'[r]) = NextCandidate(q)
  BY <1>2 DEF NextCandidate, LoginPreferred, SameData
<1>4. CarriesIssuer(req[r])'
  BY <1>f, <1>1, <1>2, <1>3 DEF CarriesIssuer, SameData
<1> QED
  BY <1>f, <1>2, <1>4, QuietStep

\* The client receives its token: it has a row by now, or was forgotten.
LEMMA PeekSessionAffinity ==
    ASSUME TypeInv, AffinityInv, NEW r \in Requests, PeekSession(r)
    PROVE  AffinityInv'
<1> DEFINE q == req[r]
<1>f. /\ q \in RequestType /\ StepReady(q) /\ CarriesIssuer(q) /\ RowsAtIssuer
      /\ held \subseteq Tokens /\ q.pc = "peekSession"
      /\ UNCHANGED <<tokenRow, issuer, forgotten>> /\ Finish(r)
      /\ held' = held \cup {q.minted}
  BY HandlerFacts DEF PeekSession
<1>1. /\ q.minted \in Tokens /\ issuer[q.minted] # None
      /\ q.minted \in forgotten \/ tokenRow[q.minted] # None
  BY <1>f, NextCandidateType, StoreAssumption DEF StepReady, CarriesIssuer
<1>2. RowsAtIssuer'
  BY <1>f DEF RowsAtIssuer
<1> QED
  BY <1>f, <1>1, <1>2, FinishCarries, AffinityStep

LEMMA HandleAffinity ==
    ASSUME TypeInv, AffinityInv, NEW r \in Requests, Handle(r)
    PROVE  AffinityInv'
<1>1. CASE LookupFails(r)
  <2>1. req'[r] = Idle /\ \A s \in Requests \ {r} : req'[s] = req[s]
    BY <1>1, HandlerFacts, RefuseType, DecidedEffect DEF LookupFails
  <2>2. CarriesIssuer(req[r])'
    BY <2>1 DEF CarriesIssuer, Idle
  <2>3. \A t \in Tokens \ forgotten' : tokenRow'[t] = tokenRow[t]
    BY <1>1, HandlerFacts, PurgeKeeps DEF LookupFails
  <2>4. UNCHANGED <<issuer, held, forgotten>> /\ held \subseteq Tokens
    BY <1>1, HandlerFacts DEF LookupFails, clientVars
  <2> QED
    BY <2>1, <2>2, <2>3, <2>4, HandlerFacts, RowsShrink, AffinityStep
<1>2. CASE DropDevice(r)
  BY <1>2, ResumeCarries, QuietStep DEF DropDevice, clientVars
<1>3. CASE HopSkipped(r) \/ LoginTryEnds(r)
  BY <1>3, FinishCarries, QuietStep DEF HopSkipped, LoginTryEnds, storeVars, clientVars
<1> QED
  BY <1>1, <1>2, <1>3, RouteAffinity, DropTokenAffinity, MoveOnAffinity,
     BindTokenAffinity, HopAnsweredAffinity, LogoutAffinity, LoginStepsAffinity,
     LoginGrantedAffinity, PeekTokenAffinity, PeekSessionAffinity DEF Handle

LEMMA EnvironmentAffinity ==
    ASSUME TypeInv, AffinityInv, Environment
    PROVE  AffinityInv'
<1>f. /\ RowsAtIssuer /\ HeldTokens /\ StoreTypeOK
      /\ \A r \in Requests : CarriesIssuer(req[r])
      /\ held \subseteq Tokens /\ forgotten \subseteq Tokens
      /\ req \in [Requests -> RequestType]
  BY DEF TypeInv, TypeOK, AffinityInv
\* The handlers keep their records, and rows are lost only with their memory.
<1>1. ASSUME UNCHANGED <<req, issuer, held>>, forgotten \subseteq forgotten',
             \A t \in Tokens \ forgotten' : tokenRow'[t] = tokenRow[t]
      PROVE  AffinityInv'
  <2>1. RowsAtIssuer' /\ HeldTokens'
    BY <1>1, <1>f, RowsShrink DEF HeldTokens
  <2>2. ASSUME NEW r \in Requests PROVE CarriesIssuer(req[r])'
    <3>1. StepReady(req[r]) /\ CarriesIssuer(req[r])
      BY <1>f DEF TypeInv
    <3> QED
      BY <1>1, <3>1 DEF CarriesIssuer, StepReady
  <2> QED
    BY <2>1, <2>2 DEF AffinityInv
<1>2. ASSUME NEW t \in Tokens, ExpireToken(t) PROVE AffinityInv'
  <2>1. forgotten' = forgotten \cup {t}
    BY <1>2 DEF ExpireToken, Forget
  <2>2. \A u \in Tokens \ forgotten' : tokenRow'[u] = tokenRow[u]
    BY <1>2, <1>f, <2>1, ExpiredType DEF ExpireToken, StoreTypeOK
  <2> QED
    BY <1>1, <1>2, <2>1, <2>2 DEF ExpireToken, clientVars
<1>3. ASSUME NEW d \in Devices, ExpireDevice(d) PROVE AffinityInv'
  BY <1>1, <1>3 DEF ExpireDevice, clientVars
<1>4. CASE ExpireAnon
  BY <1>1, <1>4 DEF ExpireAnon, clientVars
<1>5. ASSUME NEW b \in Backends, Probe(b) \/ Disable(b) PROVE AffinityInv'
  BY <1>1, <1>5 DEF Probe, Disable, clientVars, storeVars
<1>6. ASSUME NEW b \in Backends, Enable(b) PROVE AffinityInv'
  <2>1. UNCHANGED <<tokenRow, issuer, held, forgotten>>
    BY <1>6 DEF Enable, clientVars, storeVars
  <2>2. RowsAtIssuer' /\ HeldTokens'
    BY <1>f, <2>1 DEF RowsAtIssuer, HeldTokens
  <2>3. ASSUME NEW r \in Requests PROVE CarriesIssuer(req[r])'
    <3> DEFINE p == [req[r] EXCEPT !.parked = @ \ {b}]
    <3>1. p.pc = req[r].pc /\ p.token = req[r].token /\ p.drop = req[r].drop
          /\ p.backend = req[r].backend /\ p.minted = req[r].minted
          /\ p.cands = req[r].cands /\ p.tried = req[r].tried
          /\ p.kind = req[r].kind /\ p.client = req[r].client
      BY <1>f DEF RequestType
    <3>2. req'[r] = p
      BY <1>6 DEF Enable
    <3>3. NextCandidate(req'[r]) = NextCandidate(req[r])
      BY <3>1, <3>2 DEF NextCandidate, LoginPreferred
    <3> HIDE DEF p
    <3> QED
      BY <1>f, <2>1, <3>1, <3>2, <3>3 DEF CarriesIssuer
  <2> QED
    BY <2>2, <2>3 DEF AffinityInv
<1>7. CASE Unpin
  <2>1. PICK T \in SUBSET {t \in Tokens : tokenRow[t] # None} :
          /\ tokenRow' = [t \in Tokens |-> IF t \in T THEN None ELSE tokenRow[t]]
          /\ Forget(T)
    BY <1>7 DEF Unpin
  <2>2. forgotten \subseteq forgotten' /\ \A t \in Tokens \ forgotten' : tokenRow'[t] = tokenRow[t]
    BY <2>1 DEF Forget
  <2> QED
    BY <1>1, <1>7, <2>2 DEF Unpin, clientVars
<1>8. CASE Restart
  <2>1. UNCHANGED <<tokenRow, issuer, held, forgotten>>
    BY <1>8 DEF Restart, clientVars, storeVars
  <2>2. RowsAtIssuer' /\ HeldTokens'
    BY <1>f, <2>1 DEF RowsAtIssuer, HeldTokens
  <2>3. \A r \in Requests : req'[r] = Idle
    BY <1>8 DEF Restart
  <2>4. \A r \in Requests : CarriesIssuer(req[r])'
    BY <2>3 DEF CarriesIssuer, Idle
  <2> QED
    BY <2>2, <2>4 DEF AffinityInv
<1> QED
  BY <1>2, <1>3, <1>4, <1>5, <1>6, <1>7, <1>8 DEF Environment

LEMMA StutterAffinity ==
    ASSUME TypeInv, AffinityInv, UNCHANGED vars
    PROVE  AffinityInv'
<1>1. UNCHANGED <<tokenRow, req, issuer, held, forgotten>>
  BY DEF vars, storeVars
<1>2. RowsAtIssuer' /\ HeldTokens'
  BY <1>1 DEF RowsAtIssuer, HeldTokens, AffinityInv
<1>3. \A r \in Requests : CarriesIssuer(req[r])'
  BY <1>1 DEF CarriesIssuer, AffinityInv
<1> QED
  BY <1>2, <1>3 DEF AffinityInv

\* The inductive invariant: the store, the handlers and the clients agree on
\* the issuer of every token HAP has not forgotten.
THEOREM AffinityHolds == Spec => []AffinityInv
<1>1. TypeInv /\ AffinityInv /\ [Next]_vars => AffinityInv'
  BY ArriveAffinity, HandleAffinity, EnvironmentAffinity, StutterAffinity DEF Next
<1> QED
  BY AffinityInit, TypeCorrect, <1>1, PTL DEF Spec

\* A token a client holds stays pinned to the backend that issued it until HAP
\* forgets it, whatever fails and however the handlers interleave.
THEOREM PinnedToIssuer == Spec => []TokenPinnedToIssuer
<1>1. TypeInv /\ AffinityInv => TokenPinnedToIssuer
  BY DEF TypeInv, TypeOK, AffinityInv, RowsAtIssuer, HeldTokens, TokenPinnedToIssuer
<1> QED
  BY <1>1, TypeCorrect, AffinityHolds, PTL

\* A hop forwards a token to a backend that did not issue it only after HAP has
\* forgotten the token.
THEOREM ForwardedToIssuer == Spec => []TokenForwardedToIssuer
<1>1. AffinityInv => TokenForwardedToIssuer
  BY DEF AffinityInv, CarriesIssuer, TokenForwardedToIssuer, Forwards
<1> QED
  BY <1>1, AffinityHolds, PTL

\* A request whose binding force_reauth dropped never goes on with its token.
THEOREM DroppedNotForwarded == Spec => []DroppedTokenNotForwarded
<1>1. AffinityInv => DroppedTokenNotForwarded
  BY DEF AffinityInv, CarriesIssuer, DroppedTokenNotForwarded
<1> QED
  BY <1>1, AffinityHolds, PTL

-----------------------------------------------------------------------------
(* Disabled backends. *)

\* What was disabled when a request arrived and has stayed so: the decision and
\* the login candidates, taken later, name none of it.
ParkedApart(q) ==
    /\ q.parked \subseteq Disabled
    /\ q.backend \notin q.parked
    /\ q.cands \cap q.parked = {}

ParkedInv == \A r \in Requests : ParkedApart(req[r])

\* A login names its device, and only logins reach the steps that bind an
\* answer: the token they bind was issued to that device.
LoginOwn(q) ==
    /\ q.path = "login" /\ q.pc # "idle" => q.identified
    /\ q.pc \in {"login", "try"} \cup PeekSteps => q.path = "login"
    /\ q.pc \in PeekSteps => Owner[q.minted] = q.client

\* The token of a graylisted device, under a policy that never drops.
GrayToken(t) == t \in Tokens /\ Owner[t] \in GrayDevices /\ GrayPolicy # "force_reauth"

\* The row of such a token remembers its client's class; a handler drops such a
\* token only if HAP had forgotten it.
GrayRows ==
    \A t \in Tokens \ forgotten :
        tokenRow[t] # None /\ Owner[t] \in GrayDevices => tokenRow[t].gray

DropDeserved(q) ==
    q.pc = "dropToken" /\ GrayToken(q.token) => q.token \in forgotten

\* A request on a graylisted path drops nothing.
PathKept(q) ==
    q.pc \in {"dropToken", "dropDevice"} /\ GrayPolicy # "force_reauth" => q.path # "sync"

GrayInv ==
    /\ GrayRows
    /\ \A r \in Requests : LoginOwn(req[r]) /\ DropDeserved(req[r]) /\ PathKept(req[r])

\* A login decided while HAP kept its token was decided by the token's row, and
\* for the token's issuer.
LoginHome(q) ==
    q.pc \in {"login", "try"} \cup PeekSteps /\ q.token \notin forgotten \cup {None} =>
        q.kind = "token" /\ q.backend = issuer[q.token]

LoginHomeInv == \A r \in Requests : LoginHome(req[r])

-----------------------------------------------------------------------------
(* What a handler's step does to its record. *)

\* A request keeps what it arrived with.
SameRequest(p, q) ==
    /\ p.path = q.path /\ p.client = q.client /\ p.identified = q.identified
    /\ p.token = q.token /\ p.parked = q.parked

\* The decision is taken ...
MoveDecides(p, q) ==
    /\ q.pc = "decide"
    /\ p.backend \notin Disabled /\ p.cands = q.cands
    /\ p.pc \in {"dropToken", "bind", "login"}
    /\ p.pc = "login" => q.path = "login"
    /\ p.pc = "login" /\ q.token \in Tokens /\ tokenRow[q.token] # None
       /\ tokenRow[q.token].live => p.kind = "token" /\ p.backend = tokenRow[q.token].backend
    /\ p.pc = "dropToken" /\ q.path = "sync" => GrayPolicy = "force_reauth"

\* ... the candidates of a login are frozen ...
MoveFreezes(p, q) ==
    /\ q.pc = "login" /\ p.pc = "try"
    /\ p.backend = q.backend /\ p.kind = q.kind /\ p.cands = Eligible

\* ... and every other step keeps both.
MoveKeeps(p, q) ==
    /\ p.backend = q.backend /\ p.kind = q.kind /\ p.cands = q.cands
    /\ p.pc # "dropToken"
    /\ p.pc = "dropDevice" => q.pc = "dropToken"
    /\ p.pc = "login" =>
          q.path = "login" /\ q.pc \in {"dropToken", "dropDevice"} /\ q.backend # None
    /\ p.pc = "try" => q.pc = "try"
    /\ p.pc \in PeekSteps =>
          \/ q.pc \in PeekSteps /\ p.minted = q.minted
          \/ q.pc = "try" /\ Owner[p.minted] = q.client

\* A step within one request, as the lemmas below use it.
Moved(p, q) ==
    \/ p = Idle
    \/ /\ SameRequest(p, q)
       /\ MoveDecides(p, q) \/ MoveFreezes(p, q) \/ MoveKeeps(p, q)

LEMMA GotoMoves ==
    ASSUME req \in [Requests -> RequestType], NEW r \in Requests,
           NEW step \in Steps \ {"dropToken", "login", "try"},
           step \in PeekSteps => req[r].pc \in PeekSteps,
           step = "dropDevice" => req[r].pc = "dropToken",
           Goto(r, step)
    PROVE  /\ \A s \in Requests \ {r} : req'[s] = req[s]
           /\ Moved(req'[r], req[r])
<1>1. /\ req'[r].pc = step /\ SameData(req'[r], req[r])
      /\ \A s \in Requests \ {r} : req'[s] = req[s]
  BY GotoEffect
<1>2. SameRequest(req'[r], req[r]) /\ MoveKeeps(req'[r], req[r])
  BY <1>1 DEF SameData, SameRequest, MoveKeeps
<1> QED
  BY <1>1, <1>2 DEF Moved

LEMMA ResumeMoves ==
    ASSUME req \in [Requests -> RequestType], NEW r \in Requests, Resume(r),
           req[r].pc \in {"dropToken", "dropDevice"}
    PROVE  /\ \A s \in Requests \ {r} : req'[s] = req[s]
           /\ Moved(req'[r], req[r])
<1>1. CASE req'[r] = Idle
  BY <1>1, ResumeEffect DEF Moved
<1>2. CASE req'[r] # Idle
  <2>1. /\ req'[r].pc = (IF req[r].path = "login" THEN "login" ELSE "bind")
        /\ SameData(req'[r], req[r]) /\ req[r].backend # None
        /\ \A s \in Requests \ {r} : req'[s] = req[s]
    BY <1>2, ResumeEffect
  <2>2. SameRequest(req'[r], req[r]) /\ MoveKeeps(req'[r], req[r])
    BY <2>1 DEF SameData, SameRequest, MoveKeeps
  <2> QED
    BY <2>1, <2>2 DEF Moved
<1> QED
  BY <1>1, <1>2

LEMMA FinishMoves ==
    ASSUME req \in [Requests -> RequestType], NEW r \in Requests, Finish(r)
    PROVE  /\ \A s \in Requests \ {r} : req'[s] = req[s]
           /\ Moved(req'[r], req[r])
  BY FinishEffect DEF Moved

LEMMA HandlerMoves ==
    ASSUME TypeInv, NEW r \in Requests, Handle(r)
    PROVE  /\ \A s \in Requests \ {r} : req'[s] = req[s]
           /\ Moved(req'[r], req[r])
<1> DEFINE q == req[r]
<1>t. /\ TypeOK /\ StoreTypeOK /\ RouterTypeOK
      /\ req \in [Requests -> RequestType] /\ q \in RequestType
  BY DEF TypeInv, TypeOK
<1>1. CASE LookupFails(r)
  <2>1. Decided(r, Refuse) /\ Refuse \in Decision /\ ~Refuse.drop /\ Refuse.backend = None
    BY <1>1, RefuseType DEF LookupFails
  <2> QED
    BY <1>t, <2>1, DecidedEffect DEF Moved
<1>2. CASE RouteRequest(r)
  <2>0. PICK hint \in Backends \cup {None} :
          \E d \in Decide(q.token, DeviceOf(q), GrayRequest(q), q.path = "media",
                         AnonKeyOf[q.client], AddrOf[q.client], hint) : Decided(r, d)
    BY <1>2 DEF RouteRequest
  <2>1. PICK d \in Decide(q.token, DeviceOf(q), GrayRequest(q), q.path = "media",
                         AnonKeyOf[q.client], AddrOf[q.client], hint) : Decided(r, d)
    BY <2>0
  <2>2. q.pc = "decide"
    BY <1>2 DEF RouteRequest
  <2>3. /\ d \in Decision /\ d.backend \notin Disabled
        /\ q.token \in Tokens /\ tokenRow[q.token] # None /\ tokenRow[q.token].live =>
              /\ d.backend \in {tokenRow[q.token].backend, None}
              /\ d.backend # None => d.kind = "token"
        /\ q.path = "sync" /\ GrayPolicy # "force_reauth" => ~d.drop
    BY <1>t, <2>1, <2>2, RouteDecision
  <2>4. CASE req'[r] = Idle
    BY <1>t, <2>1, <2>3, <2>4, DecidedEffect DEF Moved
  <2>5. CASE req'[r] # Idle
    <3>1. /\ req'[r].pc = (IF d.drop THEN "dropToken"
                           ELSE IF q.path = "login" THEN "login" ELSE "bind")
          /\ req'[r].backend = d.backend /\ req'[r].kind = d.kind
          /\ ~d.drop => d.backend # None
          /\ req'[r].client = q.client /\ req'[r].token = q.token
          /\ req'[r].identified = q.identified
          /\ req'[r].path = q.path /\ req'[r].parked = q.parked
          /\ req'[r].cands = q.cands
          /\ \A s \in Requests \ {r} : req'[s] = req[s]
      BY <1>t, <2>1, <2>3, <2>5, DecidedEffect
    <3>2. SameRequest(req'[r], q) /\ MoveDecides(req'[r], q)
      BY <2>2, <2>3, <3>1 DEF SameRequest, MoveDecides
    <3> QED
      BY <3>1, <3>2 DEF Moved
  <2> QED
    BY <2>4, <2>5
<1>3. CASE DropToken(r) \/ DropDevice(r)
  <2>1. /\ q.pc \in {"dropToken", "dropDevice"}
        /\ (Goto(r, "dropDevice") /\ q.pc = "dropToken") \/ Resume(r)
    BY <1>3 DEF DropToken, DropDevice
  <2>2. "dropDevice" \in Steps \ ({"dropToken", "login", "try"} \cup PeekSteps)
    BY DEF Steps
  <2> QED
    BY <1>t, <2>1, <2>2, GotoMoves, ResumeMoves
<1>4. CASE BindPlacement(r) \/ BindToken(r) \/ BindSession(r)
  <2>1. \E step \in {"bindToken", "bindSession", "hop"} : Goto(r, step)
    BY <1>4 DEF BindPlacement, BindToken, BindSession
  <2>2. {"bindToken", "bindSession", "hop"}
           \subseteq Steps \ ({"dropToken", "login", "try"} \cup PeekSteps)
    BY DEF Steps
  <2> QED
    BY <1>t, <2>1, <2>2, GotoMoves
<1>5. CASE HopAnswered(r) \/ LogoutAnswered(r) \/ HopSkipped(r) \/ LoginTryEnds(r)
           \/ PeekSession(r)
  <2>1. Finish(r)
    BY <1>5 DEF HopAnswered, LogoutAnswered, HopSkipped, LoginTryEnds, PeekSession
  <2> QED
    BY <1>t, <2>1, FinishMoves
<1>6. CASE LoginStart(r)
  <2>1. CASE Finish(r)
    BY <1>t, <2>1, FinishMoves
  <2>2. CASE req' = [req EXCEPT ![r].pc = "try", ![r].cands = Eligible]
    <3>1. /\ req'[r].pc = "try" /\ req'[r].cands = Eligible
          /\ req'[r].backend = q.backend /\ req'[r].kind = q.kind
          /\ SameRequest(req'[r], q)
          /\ \A s \in Requests \ {r} : req'[s] = req[s]
      BY <1>t, <2>2 DEF RequestType, SameRequest
    <3> QED
      BY <1>6, <3>1 DEF LoginStart, Moved, MoveFreezes
  <2> QED
    BY <1>6, <2>1, <2>2 DEF LoginStart
<1>7. CASE LoginTryFails(r)
  <2>1. CASE Finish(r)
    BY <1>t, <2>1, FinishMoves
  <2>2. CASE req' = [req EXCEPT ![r].tried = q.tried \cup {NextCandidate(q)}]
    <3>1. /\ req'[r].pc = "try" /\ req'[r].cands = q.cands
          /\ req'[r].backend = q.backend /\ req'[r].kind = q.kind
          /\ SameRequest(req'[r], q)
          /\ \A s \in Requests \ {r} : req'[s] = req[s]
      BY <1>7, <1>t, <2>2 DEF LoginTryFails, RequestType, SameRequest
    <3> QED
      BY <1>7, <3>1 DEF LoginTryFails, Moved, MoveKeeps
  <2> QED
    BY <1>7, <2>1, <2>2 DEF LoginTryFails
<1>8. CASE LoginGranted(r)
  <2>1. PICK u \in Tokens :
          /\ Owner[u] = q.client
          /\ req' = [req EXCEPT ![r].pc = "peekToken", ![r].minted = u]
    BY <1>8 DEF LoginGranted
  <2>2. /\ req'[r].pc = "peekToken" /\ req'[r].minted = u /\ req'[r].cands = q.cands
        /\ req'[r].backend = q.backend /\ req'[r].kind = q.kind
        /\ SameRequest(req'[r], q)
        /\ \A s \in Requests \ {r} : req'[s] = req[s]
    BY <1>t, <2>1 DEF RequestType, SameRequest
  <2> QED
    BY <1>8, <2>1, <2>2 DEF LoginGranted, Moved, MoveKeeps
<1>9. CASE PeekToken(r) \/ PeekDevice(r)
  <2>1. q.pc \in PeekSteps /\ \E step \in {"peekDevice", "peekSession"} : Goto(r, step)
    BY <1>9 DEF PeekToken, PeekDevice
  <2>2. {"peekDevice", "peekSession"} \subseteq Steps \ {"dropToken", "login", "try"}
    BY DEF Steps
  <2> QED
    BY <1>t, <2>1, <2>2, GotoMoves
<1> QED
  BY <1>1, <1>2, <1>3, <1>4, <1>5, <1>6, <1>7, <1>8, <1>9 DEF Handle

-----------------------------------------------------------------------------
(* Disabled backends are never hopped to. *)

LEMMA IdleParked == ParkedApart(Idle)
  BY StoreAssumption DEF ParkedApart, Idle

LEMMA HandleParked ==
    ASSUME TypeInv, ParkedInv, NEW r \in Requests, Handle(r)
    PROVE  ParkedInv'
<1>1. Disabled' = Disabled
  BY DEF Handle, LookupFails, RouteRequest, DropToken, DropDevice, BindPlacement,
         BindToken, BindSession, HopAnswered, LogoutAnswered, HopSkipped, LoginStart,
         LoginTryFails, LoginTryEnds, LoginGranted, PeekToken, PeekDevice, PeekSession,
         routerVars, Disabled
<1>2. (\A s \in Requests \ {r} : req'[s] = req[s]) /\ Moved(req'[r], req[r])
  BY HandlerMoves
<1>3. ParkedApart(req[r])
  BY DEF ParkedInv
<1>4. Eligible \cap Disabled = {}
  BY DEF Eligible
<1>5. ParkedApart(req'[r])
  <2>1. CASE req'[r] = Idle
    BY <2>1, IdleParked
  <2>2. CASE SameRequest(req'[r], req[r]) /\ MoveDecides(req'[r], req[r])
    BY <1>3, <2>2 DEF SameRequest, MoveDecides, ParkedApart
  <2>3. CASE SameRequest(req'[r], req[r]) /\ MoveFreezes(req'[r], req[r])
    BY <1>3, <1>4, <2>3 DEF SameRequest, MoveFreezes, ParkedApart
  <2>4. CASE SameRequest(req'[r], req[r]) /\ MoveKeeps(req'[r], req[r])
    BY <1>3, <2>4 DEF SameRequest, MoveKeeps, ParkedApart
  <2> QED
    BY <1>2, <2>1, <2>2, <2>3, <2>4 DEF Moved
<1>6. \A s \in Requests : ParkedApart(req'[s])
  BY <1>2, <1>5 DEF ParkedInv
<1> QED
  BY <1>1, <1>6 DEF ParkedInv, ParkedApart

LEMMA ArriveParked ==
    ASSUME TypeInv, ParkedInv, NEW r \in Requests, Arrive(r)
    PROVE  ParkedInv'
<1>1. PICK c \in Devices, path \in Paths, identified \in BOOLEAN, t \in held \cup {None} :
         /\ t # None => Owner[t] = c
         /\ path = "login" => identified
         /\ path = "logout" => t # None
         /\ req' = [req EXCEPT ![r] =
              [Idle EXCEPT !.pc = "decide", !.path = path, !.client = c,
                           !.identified = identified, !.token = t,
                           !.parked = Disabled]]
  BY DEF Arrive
<1>2. /\ req'[r].parked = Disabled /\ req'[r].backend = None /\ req'[r].cands = {}
      /\ \A s \in Requests \ {r} : req'[s] = req[s]
  BY <1>1 DEF TypeInv, TypeOK, Idle
<1>3. None \notin Disabled
  BY StoreAssumption, RouterAssumption DEF Disabled, TypeInv, TypeOK, RouterTypeOK
<1>4. \A s \in Requests : ParkedApart(req'[s])
  BY <1>2, <1>3 DEF ParkedInv, ParkedApart
<1>5. Disabled' = Disabled
  BY DEF Arrive, routerVars, Disabled
<1> QED
  BY <1>4, <1>5 DEF ParkedInv, ParkedApart

\* Only an enable takes a backend off the list, and off every request's too.
LEMMA EnvironmentParked ==
    ASSUME TypeInv, ParkedInv, Environment
    PROVE  ParkedInv'
<1>1. CASE UNCHANGED req /\ Disabled \subseteq Disabled'
  BY <1>1 DEF ParkedInv, ParkedApart
<1>2. CASE \/ \E t \in Tokens : ExpireToken(t)
           \/ \E d \in Devices : ExpireDevice(d)
           \/ ExpireAnon \/ Unpin
           \/ \E b \in Backends : Probe(b) \/ Disable(b)
  <2>1. UNCHANGED req /\ runtime \subseteq runtime'
    BY <1>2 DEF ExpireToken, ExpireDevice, ExpireAnon, Unpin, Probe, Disable, routerVars
  <2> QED
    BY <1>1, <2>1 DEF Disabled
<1>3. ASSUME NEW b \in Backends, Enable(b) PROVE ParkedInv'
  <2>1. Disabled' = Disabled \ {b}
    BY <1>3 DEF Enable, Disabled
  <2>2. ASSUME NEW r \in Requests PROVE ParkedApart(req[r])'
    <3> DEFINE p == [req[r] EXCEPT !.parked = @ \ {b}]
    <3>1. p.parked = req[r].parked \ {b} /\ p.backend = req[r].backend
          /\ p.cands = req[r].cands
      BY DEF TypeInv, TypeOK, RequestType
    <3>2. req'[r] = p
      BY <1>3 DEF Enable
    <3>3. ParkedApart(req[r])
      BY DEF ParkedInv
    <3> HIDE DEF p
    <3> QED
      BY <2>1, <3>1, <3>2, <3>3 DEF ParkedApart
  <2> QED
    BY <2>2 DEF ParkedInv
<1>4. CASE Restart
  <2>1. \A r \in Requests : req'[r] = Idle
    BY <1>4 DEF Restart
  <2> QED
    BY <2>1 DEF ParkedInv, ParkedApart, Idle
<1> QED
  BY <1>2, <1>3, <1>4 DEF Environment

\* What a request may still be sent to was enabled when it arrived, or has been
\* enabled since.
THEOREM ParkedHolds == Spec => []ParkedInv
<1>1. Init => ParkedInv
  BY DEF Init, ParkedInv, ParkedApart, Idle
<1>2. TypeInv /\ ParkedInv /\ [Next]_vars => ParkedInv'
  <2>1. ASSUME ParkedInv, UNCHANGED vars PROVE ParkedInv'
    BY <2>1 DEF vars, routerVars, ParkedInv, ParkedApart, Disabled
  <2> QED
    BY <2>1, ArriveParked, HandleParked, EnvironmentParked DEF Next
<1> QED
  BY <1>1, <1>2, TypeCorrect, PTL DEF Spec

\* A backend the operator disabled before a request arrived, and has not enabled
\* since, gets no hop of that request: not by a binding, a placement, a cookie,
\* pin_unhealthy or login failover.
THEOREM ParkedNeverHopped == Spec => []ParkedBackendNeverHopped
<1>1. TypeInv /\ ParkedInv => ParkedBackendNeverHopped
  <2> SUFFICES ASSUME TypeInv, ParkedInv, NEW r \in Requests, NEW b \in Backends,
                      HopTarget(r, b)
               PROVE  b \notin req[r].parked
    BY DEF ParkedBackendNeverHopped
  <2>1. /\ req[r] \in RequestType /\ StepReady(req[r]) /\ ParkedApart(req[r])
    BY DEF TypeInv, TypeOK, ParkedInv
  <2>2. CASE req[r].pc = "hop" /\ b = req[r].backend
    BY <2>1, <2>2 DEF ParkedApart
  <2>3. CASE req[r].pc = "try" /\ b = NextCandidate(req[r])
    <3>1. req[r].cands \ req[r].tried # {}
      BY <2>1, <2>3 DEF StepReady
    <3> QED
      BY <2>1, <2>3, <3>1, NextCandidateType DEF ParkedApart
  <2> QED
    BY <2>2, <2>3 DEF HopTarget
<1> QED
  BY <1>1, TypeCorrect, ParkedHolds, PTL

-----------------------------------------------------------------------------
(* Graylisted devices keep their pins. *)

\* A token HAP has not forgotten is dropped by no decision for a graylisted
\* device: its row is live and says so.
LEMMA RouteDeserved ==
    ASSUME TypeInv, AffinityInv, GrayInv, NEW r \in Requests, RouteRequest(r),
           req'[r].pc = "dropToken", GrayToken(req'[r].token)
    PROVE  req'[r].token \in forgotten
<1> DEFINE q == req[r]
<1>q. q.pc = "decide"
  BY DEF RouteRequest
<1>f. /\ TypeOK /\ StoreTypeOK /\ req \in [Requests -> RequestType]
      /\ q.token \in Tokens \ forgotten =>
            tokenRow[q.token] # None /\ tokenRow[q.token].live
  BY HandlerFacts DEF TypeInv
<1>0. PICK hint \in Backends \cup {None} :
        \E d \in Decide(q.token, DeviceOf(q), GrayRequest(q), q.path = "media",
                       AnonKeyOf[q.client], AddrOf[q.client], hint) : Decided(r, d)
  BY DEF RouteRequest
<1>1. PICK d \in Decide(q.token, DeviceOf(q), GrayRequest(q), q.path = "media",
                       AnonKeyOf[q.client], AddrOf[q.client], hint) : Decided(r, d)
  BY <1>0
<1>2. d \in Decision /\ DeviceOf(q) \in Devices \cup {None}
  BY <1>1, <1>q, <1>f, IdentityType, DecideType
<1>3. d.drop /\ req'[r].token = q.token
  BY <1>1, <1>2, <1>f, DecidedEffect DEF Idle
<1>4. q.token \in Tokens \ forgotten => tokenRow[q.token].gray
  BY <1>3, <1>f DEF GrayInv, GrayRows, GrayToken
<1>5. q.token \in Tokens /\ GrayPolicy # "force_reauth"
  BY <1>3 DEF GrayToken
<1>6. q.token \in Tokens \ forgotten => ~d.drop
  BY <1>1, <1>2, <1>4, <1>5, <1>f, DecideGray
<1> QED
  BY <1>3, <1>5, <1>6

LEMMA IdleGray == LoginOwn(Idle) /\ DropDeserved(Idle) /\ PathKept(Idle)
  BY DEF LoginOwn, DropDeserved, PathKept, Idle

\* The handler's record after its step.
LEMMA HandleLogin ==
    ASSUME TypeInv, AffinityInv, GrayInv, NEW r \in Requests, Handle(r)
    PROVE  /\ LoginOwn(req'[r]) /\ PathKept(req'[r])
           /\ \A s \in Requests \ {r} : req'[s] = req[s]
<1>1. (\A s \in Requests \ {r} : req'[s] = req[s]) /\ Moved(req'[r], req[r])
  BY HandlerMoves
<1>2. LoginOwn(req[r]) /\ PathKept(req[r]) /\ req[r].pc # "idle"
  BY DEF GrayInv, Handle, LookupFails, RouteRequest, DropToken, DropDevice, BindPlacement,
         BindToken, BindSession, HopAnswered, LogoutAnswered, HopSkipped, LoginStart,
         LoginTryFails, LoginTryEnds, LoginGranted, PeekToken, PeekDevice, PeekSession
<1>3. CASE req'[r] = Idle
  BY <1>1, <1>3, IdleGray
<1>4. CASE SameRequest(req'[r], req[r]) /\ MoveDecides(req'[r], req[r])
  BY <1>1, <1>2, <1>4 DEF SameRequest, MoveDecides, LoginOwn, PathKept
<1>5. CASE SameRequest(req'[r], req[r]) /\ MoveFreezes(req'[r], req[r])
  BY <1>1, <1>2, <1>5 DEF SameRequest, MoveFreezes, LoginOwn, PathKept
<1>6. CASE SameRequest(req'[r], req[r]) /\ MoveKeeps(req'[r], req[r])
  BY <1>1, <1>2, <1>6 DEF SameRequest, MoveKeeps, LoginOwn, PathKept
<1> QED
  BY <1>1, <1>3, <1>4, <1>5, <1>6 DEF Moved

\* Only a decision leads to a drop.
LEMMA HandleDrop ==
    ASSUME TypeInv, AffinityInv, GrayInv, NEW r \in Requests, Handle(r)
    PROVE  req'[r].pc = "dropToken" /\ GrayToken(req'[r].token) => req'[r].token \in forgotten
<1>1. CASE RouteRequest(r)
  BY <1>1, RouteDeserved
<1>2. CASE ~RouteRequest(r)
  <2>1. req[r].pc = "decide" => LookupFails(r)
    BY <1>2 DEF Handle, LookupFails, DropToken, DropDevice, BindPlacement,
         BindToken, BindSession, HopAnswered, LogoutAnswered, HopSkipped, LoginStart,
         LoginTryFails, LoginTryEnds, LoginGranted, PeekToken, PeekDevice, PeekSession
  <2>2. LookupFails(r) => req'[r] = Idle
    <3>1. /\ LookupFails(r) => Decided(r, Refuse)
          /\ Refuse \in Decision /\ ~Refuse.drop /\ Refuse.backend = None
      BY RefuseType DEF LookupFails
    <3> QED
      BY <3>1, DecidedEffect DEF TypeInv, TypeOK
  <2>3. req'[r].pc # "dropToken"
    BY <2>1, <2>2, HandlerMoves DEF Moved, MoveDecides, MoveFreezes, MoveKeeps, Idle
  <2> QED
    BY <2>3
<1> QED
  BY <1>1, <1>2

\* A row written for a graylisted device's token says so.
LEMMA HandleRows ==
    ASSUME TypeInv, AffinityInv, GrayInv, NEW r \in Requests, Handle(r)
    PROVE  GrayRows' /\ forgotten \subseteq forgotten'
<1> DEFINE q == req[r]
<1>f. /\ req \in [Requests -> RequestType] /\ q \in RequestType
      /\ StepReady(q) /\ RowsAtIssuer /\ StoreTypeOK
      /\ tokenRow \in [Tokens -> Row \cup {None}]
      /\ q.token \in Tokens \cup {None} /\ None \notin Tokens
      /\ q.token \in Tokens \ forgotten => tokenRow[q.token] # None
      /\ GrayRows /\ LoginOwn(q)
      /\ GrayOf(q) \in BOOLEAN
  BY HandlerFacts, StoreAssumption DEF GrayInv, StoreTypeOK, GrayOf, RequestType
<1>1. ASSUME forgotten \subseteq forgotten',
             \A t \in Tokens \ forgotten' : tokenRow'[t] # None =>
                /\ tokenRow[t] # None
                /\ tokenRow'[t].gray = tokenRow[t].gray
      PROVE  GrayRows' /\ forgotten \subseteq forgotten'
  BY <1>1, <1>f DEF GrayRows
<1>2. CASE UNCHANGED <<tokenRow, forgotten>>
  BY <1>2, <1>1
<1>3. CASE LookupFails(r) \/ RouteRequest(r)
  <2>1. UNCHANGED forgotten /\ tokenRow' \in {tokenRow, Purge(tokenRow, q.token)}
    BY <1>3 DEF LookupFails, RouteRequest
  <2>2. tokenRow' = Purge(tokenRow, q.token) =>
           \A t \in Tokens \ forgotten' : tokenRow'[t] = tokenRow[t]
    BY <2>1, <1>f, PurgeKeeps
  <2> QED
    BY <1>1, <1>2, <2>1, <2>2
<1>4. CASE DropToken(r) \/ LogoutAnswered(r)
  <2>1. CASE /\ tokenRow' = Delete(tokenRow, q.token)
             /\ forgotten \subseteq forgotten'
    <3>1. \A t \in Tokens : tokenRow'[t] # None => tokenRow'[t] = tokenRow[t]
      BY <2>1, <1>f DEF Delete
    <3> QED
      BY <1>1, <2>1, <3>1
  <2> QED
    BY <1>2, <1>4, <2>1 DEF DropToken, LogoutAnswered, Forget
<1>5. CASE BindToken(r)
  <2>1. q.pc = "bindToken" /\ q.backend \in Backends /\ q.token \in Tokens
        /\ UNCHANGED forgotten
    BY <1>5, <1>f DEF BindToken, StepReady
  <2>2. CASE tokenRow' = Upsert(tokenRow, q.token, q.backend, GrayOf(q))
    <3>1. /\ tokenRow[q.token] # None /\ tokenRow[q.token].gray => tokenRow'[q.token].gray
          /\ \A t \in Tokens \ {q.token} : tokenRow'[t] = tokenRow[t]
      BY <2>1, <2>2, <1>f, UpsertType
    <3>2. q.token \in Tokens \ forgotten /\ Owner[q.token] \in GrayDevices =>
             tokenRow'[q.token].gray
      BY <1>f, <3>1 DEF GrayRows
    <3> HIDE DEF q
    <3> QED
      BY <1>f, <2>1, <3>1, <3>2 DEF GrayRows
  <2> QED
    BY <1>2, <1>5, <2>1, <2>2 DEF BindToken
<1>6. CASE HopAnswered(r)
  <2>1. tokenRow' = Touch(tokenRow, q.token) /\ UNCHANGED forgotten
    BY <1>6 DEF HopAnswered
  <2>2. /\ \A t \in Tokens : tokenRow[t] = None => tokenRow'[t] = None
        /\ \A t \in Tokens : tokenRow[t] # None => tokenRow'[t].gray = tokenRow[t].gray
    BY <2>1, <1>f, TouchType
  <2> QED
    BY <1>1, <2>1, <2>2
<1>7. CASE PeekToken(r)
  <2>1. /\ q.pc = "peekToken" /\ q.minted \in Tokens
        /\ q.tried \subseteq q.cands /\ q.tried # q.cands
        /\ q.identified /\ Owner[q.minted] = q.client
    BY <1>7, <1>f DEF PeekToken, StepReady, LoginOwn
  <2>2. PeekBackend(q) \in Backends
    BY <1>f, <2>1, NextCandidateType DEF PeekBackend
  <2>3. Owner[q.minted] \in GrayDevices => GrayOf(q)
    BY <2>1 DEF GrayOf
  <2>4. CASE tokenRow' = Upsert(tokenRow, q.minted, PeekBackend(q), GrayOf(q))
             /\ UNCHANGED forgotten
    <3>1. /\ GrayOf(q) => tokenRow'[q.minted].gray
          /\ \A t \in Tokens \ {q.minted} : tokenRow'[t] = tokenRow[t]
      BY <2>1, <2>2, <2>4, <1>f, UpsertType
    <3> HIDE DEF q
    <3> QED
      BY <1>f, <2>3, <2>4, <3>1 DEF GrayRows
  <2>5. CASE UNCHANGED tokenRow /\ forgotten \subseteq forgotten'
    BY <1>1, <2>5
  <2> QED
    BY <1>7, <2>4, <2>5 DEF PeekToken, Forget
<1>8. CASE \/ DropDevice(r) \/ BindPlacement(r) \/ BindSession(r) \/ HopSkipped(r)
           \/ LoginStart(r) \/ LoginTryFails(r) \/ LoginTryEnds(r) \/ LoginGranted(r)
           \/ PeekDevice(r) \/ PeekSession(r)
  BY <1>2, <1>8 DEF DropDevice, BindPlacement, BindSession, HopSkipped, LoginStart,
     LoginTryFails, LoginTryEnds, LoginGranted, PeekDevice, PeekSession, storeVars
<1> QED
  BY <1>3, <1>4, <1>5, <1>6, <1>7, <1>8 DEF Handle

LEMMA HandleGray ==
    ASSUME TypeInv, AffinityInv, GrayInv, NEW r \in Requests, Handle(r)
    PROVE  GrayInv'
<1>1. GrayRows' /\ forgotten \subseteq forgotten'
  BY HandleRows
<1>2. /\ LoginOwn(req'[r]) /\ PathKept(req'[r])
      /\ \A s \in Requests \ {r} : req'[s] = req[s]
  BY HandleLogin
<1>3. \A s \in Requests : LoginOwn(req'[s]) /\ PathKept(req'[s])
  BY <1>2 DEF GrayInv
<1>4. req'[r].pc = "dropToken" /\ GrayToken(req'[r].token) => req'[r].token \in forgotten'
  BY <1>1, HandleDrop
<1>5. \A s \in Requests \ {r} :
         req'[s].pc = "dropToken" /\ GrayToken(req'[s].token) => req'[s].token \in forgotten'
  BY <1>1, <1>2 DEF GrayInv, DropDeserved
<1> QED
  BY <1>1, <1>3, <1>4, <1>5 DEF GrayInv, LoginOwn, DropDeserved, PathKept, GrayToken

LEMMA ArriveGray ==
    ASSUME TypeInv, GrayInv, NEW r \in Requests, Arrive(r)
    PROVE  GrayInv'
<1>1. PICK c \in Devices, path \in Paths, identified \in BOOLEAN, t \in held \cup {None} :
         /\ t # None => Owner[t] = c
         /\ path = "login" => identified
         /\ path = "logout" => t # None
         /\ req' = [req EXCEPT ![r] =
              [Idle EXCEPT !.pc = "decide", !.path = path, !.client = c,
                           !.identified = identified, !.token = t,
                           !.parked = Disabled]]
  BY DEF Arrive
<1>2. /\ req'[r].pc = "decide" /\ req'[r].path = path /\ req'[r].identified = identified
      /\ \A s \in Requests \ {r} : req'[s] = req[s]
  BY <1>1 DEF TypeInv, TypeOK, Idle
<1>3. UNCHANGED <<tokenRow, forgotten>>
  BY DEF Arrive, storeVars
<1>4. LoginOwn(req'[r]) /\ PathKept(req'[r]) /\ req'[r].pc # "dropToken"
  BY <1>1, <1>2 DEF LoginOwn, PathKept
<1> QED
  BY <1>2, <1>3, <1>4 DEF GrayInv, GrayRows, LoginOwn, DropDeserved, PathKept, GrayToken

LEMMA EnvironmentGray ==
    ASSUME TypeInv, GrayInv, Environment
    PROVE  GrayInv'
<1>1. forgotten \subseteq forgotten'
      /\ \A t \in Tokens \ forgotten' : tokenRow'[t] # None => tokenRow'[t] = tokenRow[t]
  <2>1. ASSUME NEW t \in Tokens, ExpireToken(t)
        PROVE  \A u \in Tokens \ {t} : tokenRow'[u] = tokenRow[u]
    BY <2>1, ExpiredType DEF ExpireToken, TypeInv, TypeOK, StoreTypeOK
  <2>2. CASE \E t \in Tokens : ExpireToken(t)
    BY <2>1, <2>2 DEF ExpireToken, Forget
  <2>3. CASE Unpin
    BY <2>3 DEF Unpin, Forget
  <2>4. CASE \/ \E d \in Devices : ExpireDevice(d)
             \/ ExpireAnon \/ Restart
             \/ \E b \in Backends : Probe(b) \/ Disable(b) \/ Enable(b)
    BY <2>4 DEF ExpireDevice, ExpireAnon, Restart, Probe, Disable, Enable, storeVars
  <2> QED
    BY <2>2, <2>3, <2>4 DEF Environment
<1>2. GrayRows'
  BY <1>1 DEF GrayInv, GrayRows
<1>3. ASSUME NEW r \in Requests
      PROVE  /\ LoginOwn(req'[r]) /\ PathKept(req'[r])
             /\ req'[r].pc = "dropToken" => req[r].pc = "dropToken" /\ req'[r].token = req[r].token
  <2>1. CASE UNCHANGED req
    BY <2>1 DEF GrayInv
  <2>2. ASSUME NEW b \in Backends, Enable(b)
        PROVE  /\ LoginOwn(req'[r]) /\ PathKept(req'[r])
               /\ req'[r].pc = "dropToken" =>
                     req[r].pc = "dropToken" /\ req'[r].token = req[r].token
    <3> DEFINE p == [req[r] EXCEPT !.parked = @ \ {b}]
    <3>1. /\ p.pc = req[r].pc /\ p.path = req[r].path /\ p.client = req[r].client
          /\ p.identified = req[r].identified /\ p.minted = req[r].minted
          /\ p.token = req[r].token
      BY DEF TypeInv, TypeOK, RequestType
    <3>2. req'[r] = p
      BY <2>2 DEF Enable
    <3>3. LoginOwn(req[r]) /\ PathKept(req[r])
      BY DEF GrayInv
    <3> HIDE DEF p
    <3> QED
      BY <3>1, <3>2, <3>3 DEF LoginOwn, PathKept
  <2>3. CASE Restart
    BY <2>3, IdleGray DEF Restart, Idle
  <2> QED
    BY <2>1, <2>2, <2>3
       DEF Environment, ExpireToken, ExpireDevice, ExpireAnon, Probe, Disable, Unpin
<1> QED
  BY <1>1, <1>2, <1>3 DEF GrayInv, LoginOwn, DropDeserved, PathKept, GrayToken

\* The class of a graylisted device survives in its token's row as long as the
\* token is not forgotten.
THEOREM GrayHolds == Spec => []GrayInv
<1>1. Init => GrayInv
  BY IdleGray DEF Init, StoreInit, GrayInv, GrayRows
<1>2. TypeInv /\ AffinityInv /\ GrayInv /\ [Next]_vars => GrayInv'
  <2>1. ASSUME GrayInv, UNCHANGED vars PROVE GrayInv'
    BY <2>1 DEF vars, storeVars, GrayInv, GrayRows, LoginOwn, DropDeserved, PathKept,
       GrayToken
  <2> QED
    BY <2>1, ArriveGray, HandleGray, EnvironmentGray DEF Next
<1> QED
  BY <1>1, <1>2, TypeCorrect, AffinityHolds, PTL DEF Spec

\* Unless the graylist's own policy is force_reauth, no handler drops the pin of
\* a graylisted device's token, however the request identifies itself, and none
\* drops any binding on a graylisted path.
THEOREM GrayNeverDropped == Spec => []GrayTokenNeverDropped
<1>1. GrayInv => GrayTokenNeverDropped
  BY DEF GrayInv, DropDeserved, PathKept, GrayToken, GrayTokenNeverDropped
<1> QED
  BY <1>1, GrayHolds, PTL

-----------------------------------------------------------------------------
(* Types, and logins at home. *)

\* Every reachable state is well typed.
THEOREM ProxyTyped == Spec => []TypeOK
<1>1. TypeInv => TypeOK
  BY DEF TypeInv
<1> QED
  BY <1>1, TypeCorrect, PTL

\* The decision of a login finds the row of its token, if HAP kept it; a drop
\* takes no token on to a login; and no later step changes the decision.
LEMMA HandleLoginHome ==
    ASSUME TypeInv, AffinityInv, LoginHomeInv, NEW r \in Requests, Handle(r)
    PROVE  LoginHomeInv'
<1> DEFINE q == req[r]
<1>1. (\A s \in Requests \ {r} : req'[s] = req[s]) /\ Moved(req'[r], q)
  BY HandlerMoves
<1>2. /\ forgotten \subseteq forgotten'
      /\ \A t \in Tokens : issuer[t] # None => issuer'[t] = issuer[t]
  <2>1. CASE LoginGranted(r)
    <3>1. PICK u \in Tokens :
            issuer[u] = None /\ issuer' = [issuer EXCEPT ![u] = NextCandidate(q)]
      BY <2>1 DEF LoginGranted
    <3>2. issuer \in [Tokens -> Backends \cup {None}] /\ UNCHANGED forgotten
      BY <2>1 DEF LoginGranted, TypeInv, TypeOK
    <3> HIDE DEF q
    <3> QED
      BY <3>1, <3>2
  <2>2. CASE ~LoginGranted(r)
    <3>1. UNCHANGED issuer
      BY <2>2 DEF Handle, LookupFails, RouteRequest, DropToken, DropDevice, BindPlacement,
         BindToken, BindSession, HopAnswered, LogoutAnswered, HopSkipped, LoginStart,
         LoginTryFails, LoginTryEnds, PeekToken, PeekDevice, PeekSession, clientVars
    <3>2. UNCHANGED forgotten \/ \E T : Forget(T)
      BY <2>2 DEF Handle, LookupFails, RouteRequest, DropToken, DropDevice, BindPlacement,
         BindToken, BindSession, HopAnswered, LogoutAnswered, HopSkipped, LoginStart,
         LoginTryFails, LoginTryEnds, PeekToken, PeekDevice, PeekSession
    <3> QED
      BY <3>1, <3>2 DEF Forget
  <2> QED
    BY <2>1, <2>2
<1>3. ASSUME NEW s \in Requests
      PROVE  req[s].token \notin forgotten' \cup {None} =>
                /\ req[s].token \notin forgotten
                /\ issuer'[req[s].token] = issuer[req[s].token]
  BY <1>2, HandlerFacts, StoreAssumption
<1>4. ASSUME NEW s \in Requests \ {r} PROVE LoginHome(req[s])'
  <2>1. LoginHome(req[s])
    BY DEF LoginHomeInv
  <2> QED
    BY <1>1, <1>3, <2>1 DEF LoginHome
<1>5. LoginHome(req[r])'
  <2>0. LoginHome(q) /\ StepReady(q) /\ CarriesIssuer(q)
    BY HandlerFacts DEF LoginHomeInv
  <2>1. CASE req'[r] = Idle
    BY <2>1 DEF LoginHome, Idle
  <2>2. CASE SameRequest(req'[r], q) /\ MoveDecides(req'[r], q)
    <3>1. q.token \in Tokens \ forgotten =>
            /\ tokenRow[q.token] # None /\ tokenRow[q.token].live
            /\ tokenRow[q.token].backend = issuer[q.token]
      BY HandlerFacts
    <3>2. q.token \in Tokens \cup {None}
      BY HandlerFacts
    <3> QED
      BY <1>3, <2>2, <3>1, <3>2 DEF SameRequest, MoveDecides, LoginHome
  <2>3. CASE SameRequest(req'[r], q) /\ MoveFreezes(req'[r], q)
    BY <1>3, <2>0, <2>3 DEF SameRequest, MoveFreezes, LoginHome
  <2>4. CASE SameRequest(req'[r], q) /\ MoveKeeps(req'[r], q)
    <3>1. req'[r].pc = "login" => q.token = None
      BY <2>0, <2>4 DEF MoveKeeps, StepReady, CarriesIssuer
    <3> QED
      BY <1>3, <2>0, <2>4, <3>1 DEF SameRequest, MoveKeeps, LoginHome
  <2> QED
    BY <1>1, <2>1, <2>2, <2>3, <2>4 DEF Moved
<1> QED
  BY <1>4, <1>5 DEF LoginHomeInv

LEMMA OthersLoginHome ==
    ASSUME TypeInv, LoginHomeInv,
           Environment \/ UNCHANGED vars \/ \E r \in Requests : Arrive(r)
    PROVE  LoginHomeInv'
<1>1. UNCHANGED issuer /\ forgotten \subseteq forgotten'
  BY DEF Environment, ExpireToken, ExpireDevice, ExpireAnon, Probe, Disable, Enable, Unpin,
         Restart, Arrive, Forget, clientVars, vars
<1>2. ASSUME NEW r \in Requests
      PROVE  \/ req'[r].pc \in {"idle", "decide"}
             \/ /\ req'[r].pc = req[r].pc /\ req'[r].token = req[r].token
                /\ req'[r].kind = req[r].kind /\ req'[r].backend = req[r].backend
  <2>1. CASE UNCHANGED req
    BY <2>1
  <2>2. ASSUME NEW b \in Backends, Enable(b)
        PROVE  /\ req'[r].pc = req[r].pc /\ req'[r].token = req[r].token
               /\ req'[r].kind = req[r].kind /\ req'[r].backend = req[r].backend
    <3> DEFINE p == [req[r] EXCEPT !.parked = @ \ {b}]
    <3>1. /\ p.pc = req[r].pc /\ p.token = req[r].token
          /\ p.kind = req[r].kind /\ p.backend = req[r].backend
      BY DEF TypeInv, TypeOK, RequestType
    <3>2. req'[r] = p
      BY <2>2 DEF Enable
    <3> QED
      BY <3>1, <3>2
  <2>3. CASE Restart
    BY <2>3 DEF Restart, Idle
  <2>4. ASSUME NEW s \in Requests, Arrive(s)
        PROVE  req'[r].pc = "decide" \/ req'[r] = req[r]
    <3>1. PICK c \in Devices, path \in Paths, identified \in BOOLEAN, t \in held \cup {None} :
         /\ t # None => Owner[t] = c
         /\ path = "login" => identified
         /\ path = "logout" => t # None
         /\ req' = [req EXCEPT ![s] =
              [Idle EXCEPT !.pc = "decide", !.path = path, !.client = c,
                           !.identified = identified, !.token = t,
                           !.parked = Disabled]]
      BY <2>4 DEF Arrive
    <3> QED
      BY <3>1 DEF TypeInv, TypeOK, Idle
  <2> QED
    BY <2>1, <2>2, <2>3, <2>4
       DEF Environment, ExpireToken, ExpireDevice, ExpireAnon, Probe, Disable, Unpin, vars
<1>3. ASSUME NEW r \in Requests PROVE LoginHome(req[r])'
  <2>1. LoginHome(req[r])
    BY DEF LoginHomeInv
  <2> QED
    BY <1>1, <1>2, <2>1 DEF LoginHome
<1> QED
  BY <1>3 DEF LoginHomeInv

\* A login decided while HAP kept its token stays with the decision of the
\* token's row until HAP forgets the token.
THEOREM LoginHomeHolds == Spec => []LoginHomeInv
<1>1. Init => LoginHomeInv
  BY DEF Init, LoginHomeInv, LoginHome, Idle
<1>2. TypeInv /\ AffinityInv /\ LoginHomeInv /\ [Next]_vars => LoginHomeInv'
  BY HandleLoginHome, OthersLoginHome DEF Next
<1> QED
  BY <1>1, <1>2, TypeCorrect, AffinityHolds, PTL DEF Spec

\* Whatever hint its user has, a login with a token HAP has not forgotten is sent
\* nowhere else than to the token's issuer, and the token it gets is issued and
\* bound there, unless that backend was not eligible or failed the login.
THEOREM StaysHome == Spec => []ReloginStaysHome
<1>1. TypeInv /\ AffinityInv /\ LoginHomeInv => ReloginStaysHome
  <2> SUFFICES ASSUME TypeInv, AffinityInv, LoginHomeInv, NEW r \in Requests,
                      req[r].token \notin forgotten \cup {None},
                      issuer[req[r].token] \in req[r].cands \ req[r].tried,
                      req[r].pc \in {"try"} \cup PeekSteps
               PROVE  /\ NextCandidate(req[r]) = issuer[req[r].token]
                      /\ req[r].pc \in PeekSteps =>
                            issuer[req[r].minted] = issuer[req[r].token]
                      /\ /\ req[r].pc \in PeekSteps \ {"peekToken"}
                         /\ req[r].minted \notin forgotten
                         => /\ tokenRow[req[r].minted] # None
                            /\ tokenRow[req[r].minted].backend = issuer[req[r].token]
    BY DEF ReloginStaysHome
  <2>1. NextCandidate(req[r]) = issuer[req[r].token]
    <3>1. req[r].kind = "token" /\ req[r].backend = issuer[req[r].token]
      BY DEF LoginHomeInv, LoginHome
    <3> QED
      BY <3>1 DEF NextCandidate, LoginPreferred
  <2>2. StepReady(req[r]) /\ CarriesIssuer(req[r]) /\ RowsAtIssuer
    BY HandlerFacts
  <2>3. req[r].pc \in PeekSteps =>
           req[r].minted \in Tokens /\ issuer[req[r].minted] = issuer[req[r].token]
    BY <2>1, <2>2 DEF StepReady, CarriesIssuer
  <2> QED
    BY <2>1, <2>2, <2>3 DEF CarriesIssuer, RowsAtIssuer
<1> QED
  BY <1>1, TypeCorrect, AffinityHolds, LoginHomeHolds, PTL

-----------------------------------------------------------------------------
(* The refinement of module Affinity. *)

\* Tokens are sent to a backend from three places: the hop, the first candidate
\* of a login and the next ones.
LEMMA HopEntered ==
    ASSUME TypeInv, NEW r \in Requests, Handle(r),
           req'[r].pc \in {"hop", "try"}, req'[r].token # None
    PROVE  BindSession(r) \/ LoginStart(r) \/ LoginTryFails(r)
<1>t. req \in [Requests -> RequestType]
  BY DEF TypeInv, TypeOK
<1>1. CASE LookupFails(r) \/ RouteRequest(r)
  <2>1. /\ LookupFails(r) => Decided(r, Refuse)
        /\ RouteRequest(r) =>
              \E d \in Decision : Decided(r, d)
    <3>1. RouteRequest(r) => req[r].pc = "decide"
      BY DEF RouteRequest
    <3>2. ASSUME RouteRequest(r) PROVE \E d \in Decision : Decided(r, d)
      <4>1. PICK hint \in Backends \cup {None} :
              \E d \in Decide(req[r].token, DeviceOf(req[r]), GrayRequest(req[r]),
                              req[r].path = "media", AnonKeyOf[req[r].client],
                              AddrOf[req[r].client], hint) : Decided(r, d)
        BY <3>2 DEF RouteRequest
      <4>2. PICK d \in Decide(req[r].token, DeviceOf(req[r]), GrayRequest(req[r]),
                              req[r].path = "media", AnonKeyOf[req[r].client],
                              AddrOf[req[r].client], hint) : Decided(r, d)
        BY <4>1
      <4>3. d \in Decision
        BY <3>1, <3>2, <4>2, RouteDecision DEF TypeInv
      <4> QED
        BY <4>2, <4>3
    <3> QED
      BY <3>2 DEF LookupFails
  <2>2. \A d \in Decision : Decided(r, d) => req'[r].pc \notin {"hop", "try"}
    BY <1>t, DecidedEffect DEF Idle
  <2> QED
    BY <1>1, <2>1, <2>2, RefuseType
<1>2. CASE DropToken(r) \/ DropDevice(r)
  <2>1. Goto(r, "dropDevice") \/ Resume(r)
    BY <1>2 DEF DropToken, DropDevice
  <2> QED
    BY <1>t, <2>1, GotoEffect, ResumeEffect DEF Steps, Idle
<1>3. CASE BindPlacement(r)
  <2>1. Goto(r, IF req[r].token = None THEN "hop" ELSE "bindToken")
    BY <1>3 DEF BindPlacement
  <2> QED
    BY <1>t, <2>1, GotoEffect DEF Steps, SameData
<1>4. CASE BindToken(r) \/ PeekToken(r) \/ PeekDevice(r)
  <2>1. Goto(r, "bindSession") \/ Goto(r, "peekDevice") \/ Goto(r, "peekSession")
    BY <1>4 DEF BindToken, PeekToken, PeekDevice
  <2> QED
    BY <1>t, <2>1, GotoEffect DEF Steps
<1>5. CASE \/ HopAnswered(r) \/ LogoutAnswered(r) \/ HopSkipped(r) \/ LoginTryEnds(r)
           \/ PeekSession(r)
  <2>1. Finish(r)
    BY <1>5 DEF HopAnswered, LogoutAnswered, HopSkipped, LoginTryEnds, PeekSession
  <2> QED
    BY <1>t, <2>1, FinishEffect DEF Idle
<1>6. CASE LoginGranted(r)
  <2>1. PICK u \in Tokens : req' = [req EXCEPT ![r].pc = "peekToken", ![r].minted = u]
    BY <1>6 DEF LoginGranted
  <2> QED
    BY <1>t, <2>1 DEF RequestType
<1> QED
  BY <1>1, <1>2, <1>3, <1>4, <1>5, <1>6 DEF Handle

\* What one handler's step does to the tokens on their way.
LEMMA SentStep ==
    ASSUME NEW r \in Requests, \A s \in Requests \ {r} : req'[s] = req[s]
    PROVE  /\ SentNow' \subseteq SentNow \cup Sends(req'[r])
           /\ Sends(req'[r]) \subseteq SentNow'
           /\ Sends(req[r]) \subseteq Sends(req'[r]) => SentNow \subseteq SentNow'
<1>1. ASSUME NEW p \in SentNow' PROVE p \in SentNow \cup Sends(req'[r])
  <2>1. PICK s \in Requests : p \in Sends(req'[s])
    BY DEF SentNow
  <2> QED
    BY <2>1 DEF SentNow
<1>2. ASSUME NEW p \in Sends(req'[r]) PROVE p \in SentNow'
  BY <1>2 DEF SentNow
<1>3. ASSUME Sends(req[r]) \subseteq Sends(req'[r]), NEW p \in SentNow PROVE p \in SentNow'
  <2>1. PICK s \in Requests : p \in Sends(req[s])
    BY DEF SentNow
  <2>2. CASE s = r
    BY <1>2, <1>3, <2>1, <2>2
  <2>3. CASE s # r
    BY <2>1, <2>3 DEF SentNow
  <2> QED
    BY <2>2, <2>3
<1> QED
  BY <1>1, <1>2, <1>3

\* A step that starts no hop; and one that neither starts nor ends any.
LEMMA NothingSent ==
    ASSUME TypeInv, NEW r \in Requests, Handle(r),
           ~(BindSession(r) \/ LoginStart(r) \/ LoginTryFails(r))
    PROVE  /\ SentNow' \subseteq SentNow
           /\ req[r].pc \notin {"hop", "try"} => SentNow' = SentNow
<1>1. Sends(req'[r]) = {}
  BY HopEntered DEF Sends
<1>2. req[r].pc \notin {"hop", "try"} => Sends(req[r]) = {}
  BY DEF Sends
<1> QED
  BY <1>1, <1>2, HandlerMoves, SentStep

\* A step that keeps every pin, loses none and issues nothing.
LEMMA PinsKept ==
    ASSUME UNCHANGED forgotten,
           \A t \in Tokens \ forgotten : tokenRow'[t] = tokenRow[t]
    PROVE  PinNow' = PinNow
  BY DEF PinNow

LEMMA PinsLost ==
    ASSUME NEW T \in SUBSET Tokens, Forget(T), UNCHANGED <<issuer, held>>,
           \A t \in Tokens \ forgotten' : tokenRow'[t] = tokenRow[t],
           SentNow' \subseteq SentNow
    PROVE  Promise!Next
<1>1. forgotten' = forgotten \cup T
  BY DEF Forget
<1>2. PinNow' = [t \in Tokens |-> IF t \in T THEN None ELSE PinNow[t]]
  BY <1>1 DEF PinNow
<1>3. Promise!Lose(T)
  BY <1>1, <1>2 DEF Promise!Lose
<1> QED
  BY <1>3 DEF Promise!Next

\* Binding a request's token again leaves its pin where it is.
LEMMA BindTokenRefines ==
    ASSUME TypeInv, AffinityInv, NEW r \in Requests, BindToken(r)
    PROVE  PinNow' = PinNow
<1> DEFINE q == req[r]
<1>f. /\ q.pc = "bindToken" /\ q.backend \in Backends /\ q.token \in Tokens
      /\ q \in RequestType /\ CarriesIssuer(q) /\ StoreTypeOK
      /\ q.token \in Tokens \ forgotten =>
            /\ tokenRow[q.token] # None
            /\ tokenRow[q.token].backend = issuer[q.token]
      /\ UNCHANGED forgotten
  BY HandlerFacts DEF BindToken, StepReady
<1>1. CASE UNCHANGED tokenRow
  BY <1>1, <1>f, PinsKept
<1>2. CASE tokenRow' = Upsert(tokenRow, q.token, q.backend, GrayOf(q))
  <2>1. GrayOf(q) \in BOOLEAN
    BY <1>f DEF GrayOf, RequestType
  <2>2. /\ tokenRow'[q.token] # None /\ tokenRow'[q.token].backend = q.backend
        /\ \A t \in Tokens \ {q.token} : tokenRow'[t] = tokenRow[t]
    BY <1>2, <1>f, <2>1, UpsertType DEF StoreTypeOK
  <2>3. q.token \in forgotten \/ q.backend = issuer[q.token]
    BY <1>f, StoreAssumption DEF CarriesIssuer
  <2> HIDE DEF q
  <2> QED
    BY <1>f, <2>2, <2>3 DEF PinNow
<1> QED
  BY <1>1, <1>2 DEF BindToken

LEMMA BindSessionRefines ==
    ASSUME TypeInv, AffinityInv, NEW r \in Requests, BindSession(r)
    PROVE  Promise!Next
<1> DEFINE q == req[r]
<1>f. /\ req \in [Requests -> RequestType]
      /\ q.pc = "bindSession" /\ q.backend \in Backends /\ q.token \in Tokens
      /\ q.token \in held /\ (q.backend = issuer[q.token] \/ q.token \in forgotten)
      /\ UNCHANGED <<tokenRow, issuer, held, forgotten>> /\ Goto(r, "hop")
  BY HandlerFacts, StoreAssumption DEF BindSession, StepReady, CarriesIssuer, clientVars
<1>1. /\ req'[r].pc = "hop" /\ req'[r].token = q.token /\ req'[r].backend = q.backend
      /\ \A s \in Requests \ {r} : req'[s] = req[s]
  BY <1>f, GotoEffect DEF Steps, SameData
<1> HIDE DEF q
<1>2. SentNow' = SentNow \cup {<<q.token, q.backend, "request">>}
  <2>1. Sends(req'[r]) = {<<q.token, q.backend, "request">>} /\ Sends(q) = {}
    BY <1>1, <1>f, StoreAssumption DEF Sends
  <2> QED
    BY <1>1, <2>1, SentStep DEF q
<1>3. PinNow' = PinNow
  BY <1>f, PinsKept
<1>4. Promise!Send(q.token, q.backend)
  BY <1>2, <1>3, <1>f DEF Promise!Send
<1> QED
  BY <1>4, <1>f DEF Promise!Next

\* A login goes to its first candidate or the next one with the token it came
\* with, or ends.
LEMMA LoginTryRefines ==
    ASSUME TypeInv, AffinityInv, NEW r \in Requests, LoginStart(r) \/ LoginTryFails(r)
    PROVE  Promise!Next
<1> DEFINE q == req[r]
           p == req'[r]
<1>f. /\ req \in [Requests -> RequestType] /\ q \in RequestType /\ CarriesIssuer(q)
      /\ UNCHANGED <<tokenRow, issuer, held, forgotten>>
      /\ q.token \in Tokens \cup {None} /\ None \notin Tokens
  BY HandlerFacts, StoreAssumption DEF LoginStart, LoginTryFails, clientVars, storeVars
<1>1. Handle(r) /\ \A s \in Requests \ {r} : req'[s] = req[s]
  BY HandlerMoves DEF Handle
<1>2. TypeInv'
  BY <1>1, HandleType
<1>3. PinNow' = PinNow
  BY <1>f, PinsKept
<1>4. p = Idle \/ (p.pc = "try" /\ p.token = q.token)
  <2>1. CASE Finish(r)
    BY <1>f, <2>1, FinishEffect
  <2>2. CASE req' = [req EXCEPT ![r].pc = "try", ![r].cands = Eligible]
    BY <1>f, <2>2 DEF RequestType
  <2>3. CASE q.pc = "try" /\ req' = [req EXCEPT ![r].tried = q.tried \cup {NextCandidate(q)}]
    BY <1>f, <2>3 DEF RequestType
  <2> QED
    BY <2>1, <2>2, <2>3 DEF LoginStart, LoginTryFails
<1> HIDE DEF p, q
<1>5. CASE p = Idle \/ q.token = None
  <2>1. Sends(p) = {}
    BY <1>4, <1>5 DEF Sends, Idle
  <2>2. SentNow' \subseteq SentNow
    BY <1>1, <2>1, SentStep DEF p
  <2>3. Promise!Answer
    BY <1>f, <1>3, <2>2 DEF Promise!Answer
  <2> QED
    BY <2>3 DEF Promise!Next
<1>6. CASE p # Idle /\ q.token # None
  <2>1. p.pc = "try" /\ p.token = q.token
    BY <1>4, <1>6
  <2>2. Sends(p) = {<<q.token, NextCandidate(p), "login">>}
    BY <1>6, <2>1 DEF Sends
  <2>3. p \in RequestType /\ StepReady(p)
    BY <1>2 DEF TypeInv, TypeOK, p
  <2>4. NextCandidate(p) \in Backends
    BY <2>1, <2>3, NextCandidateType DEF StepReady
  <2>5. q.token \in held /\ q.token \in Tokens
    BY <1>f, <1>6 DEF CarriesIssuer
  <2>6. Promise!Carry(q.token, NextCandidate(p))
    <3>1. /\ <<q.token, NextCandidate(p), "login">> \in SentNow'
          /\ SentNow' \subseteq SentNow \cup {<<q.token, NextCandidate(p), "login">>}
      BY <1>1, <2>2, SentStep DEF p
    <3> QED
      BY <1>f, <1>3, <2>5, <3>1 DEF Promise!Carry
  <2> QED
    BY <2>4, <2>5, <2>6 DEF Promise!Next
<1> QED
  BY <1>5, <1>6

\* The backend's answer: a token that had no home has one.
LEMMA LoginGrantedRefines ==
    ASSUME TypeInv, AffinityInv, NEW r \in Requests, LoginGranted(r)
    PROVE  Promise!Next
<1> DEFINE q == req[r]
<1>f. /\ q \in RequestType /\ StepReady(q) /\ q.pc = "try"
      /\ UNCHANGED <<tokenRow, held, forgotten>>
  BY HandlerFacts DEF LoginGranted, storeVars
<1>1. PICK u \in Tokens :
        issuer[u] = None /\ issuer' = [issuer EXCEPT ![u] = NextCandidate(q)]
  BY DEF LoginGranted
<1>2. NextCandidate(q) \in Backends
  BY <1>f, NextCandidateType DEF StepReady
<1>3. SentNow' \subseteq SentNow
  <2>1. req'[r].pc = "peekToken" /\ \A s \in Requests \ {r} : req'[s] = req[s]
    <3>1. PICK v \in Tokens : req' = [req EXCEPT ![r].pc = "peekToken", ![r].minted = v]
      BY DEF LoginGranted
    <3>2. req \in [Requests -> RequestType]
      BY HandlerFacts
    <3> QED
      BY <3>1, <3>2 DEF RequestType
  <2>2. Sends(req'[r]) = {}
    BY <2>1 DEF Sends
  <2> QED
    BY <2>1, <2>2, SentStep
<1>4. PinNow' = PinNow
  BY <1>f, PinsKept
<1> HIDE DEF q
<1>5. Promise!Issue(u, NextCandidate(q))
  BY <1>1, <1>3, <1>4, <1>f DEF Promise!Issue
<1> QED
  BY <1>2, <1>5 DEF Promise!Next

\* peekLogin's first statement: the token is pinned home, or lost.
LEMMA PeekTokenRefines ==
    ASSUME TypeInv, AffinityInv, NEW r \in Requests, PeekToken(r), SentNow' = SentNow
    PROVE  \/ Promise!Next
           \/ PinNow' = PinNow /\ UNCHANGED <<issuer, forgotten, held>>
<1> DEFINE q == req[r]
<1>f. /\ q \in RequestType /\ StepReady(q) /\ StoreTypeOK /\ q.pc = "peekToken"
      /\ CarriesIssuer(q) /\ UNCHANGED <<issuer, held>>
  BY HandlerFacts DEF PeekToken, clientVars
<1>1. /\ q.minted \in Tokens /\ issuer[q.minted] = NextCandidate(q)
      /\ NextCandidate(q) \in Backends
  BY <1>f, NextCandidateType DEF StepReady, CarriesIssuer
<1>2. CASE /\ tokenRow' = Upsert(tokenRow, q.minted, PeekBackend(q), GrayOf(q))
           /\ UNCHANGED forgotten
  <2>1. GrayOf(q) \in BOOLEAN /\ PeekBackend(q) = issuer[q.minted]
    BY <1>f, <1>1 DEF GrayOf, RequestType, PeekBackend
  <2>2. /\ tokenRow'[q.minted] # None /\ tokenRow'[q.minted].backend = issuer[q.minted]
        /\ \A t \in Tokens \ {q.minted} : tokenRow'[t] = tokenRow[t]
    BY <1>2, <1>f, <1>1, <2>1, UpsertType DEF StoreTypeOK
  <2>3. issuer[q.minted] # None
    BY <1>1, StoreAssumption
  <2> HIDE DEF q
  <2>4. CASE q.minted \in forgotten
    <3>1. PinNow' = PinNow
      BY <1>2, <2>2, <2>4 DEF PinNow
    <3> QED
      BY <1>2, <1>f, <3>1
  <2>5. CASE q.minted \notin forgotten
    <3>1. PinNow' = [PinNow EXCEPT ![q.minted] = issuer[q.minted]]
      BY <1>1, <1>2, <2>2, <2>5 DEF PinNow
    <3>2. Promise!Pin(q.minted)
      BY <1>2, <1>f, <2>3, <2>5, <3>1 DEF Promise!Pin
    <3> QED
      BY <1>1, <3>2 DEF Promise!Next
  <2> QED
    BY <2>4, <2>5
<1>3. CASE Forget({q.minted}) /\ UNCHANGED tokenRow
  BY <1>1, <1>3, <1>f, PinsLost
<1> QED
  BY <1>2, <1>3 DEF PeekToken

\* The login answer reaches its client.
LEMMA PeekSessionRefines ==
    ASSUME TypeInv, AffinityInv, NEW r \in Requests, PeekSession(r), SentNow' = SentNow
    PROVE  Promise!Next
<1> DEFINE q == req[r]
<1>f. /\ q \in RequestType /\ StepReady(q) /\ StoreTypeOK /\ q.pc = "peekSession"
      /\ CarriesIssuer(q) /\ held' = held \cup {q.minted}
      /\ UNCHANGED <<tokenRow, issuer, forgotten>>
  BY HandlerFacts DEF PeekSession
<1>1. /\ q.minted \in Tokens /\ issuer[q.minted] \in Backends
      /\ q.minted \in forgotten \/ tokenRow[q.minted] # None
  BY <1>f, NextCandidateType DEF StepReady, CarriesIssuer
<1>2. PinNow' = PinNow
  BY <1>f, PinsKept
<1> HIDE DEF q
<1>3. q.minted \in forgotten \/ PinNow[q.minted] # None
  BY <1>1, <1>f, StoreAssumption DEF PinNow, StoreTypeOK, Row
<1>4. issuer[q.minted] # None
  BY <1>1, StoreAssumption
<1>5. Promise!Give(q.minted)
  BY <1>2, <1>3, <1>4, <1>f DEF Promise!Give
<1> QED
  BY <1>1, <1>5 DEF Promise!Next

\* Every step of a handler is a step of the promise, or none.
LEMMA HandleRefines ==
    ASSUME TypeInv, AffinityInv, NEW r \in Requests, Handle(r)
    PROVE  \/ Promise!Next
           \/ UNCHANGED <<issuer, PinNow, forgotten, held, SentNow>>
<1> DEFINE q == req[r]
<1>f. /\ StoreTypeOK /\ RowsAtIssuer
      /\ q.token \in Tokens \cup {None} /\ None \notin Tokens
  BY HandlerFacts, StoreAssumption
<1>s. ~(BindSession(r) \/ LoginStart(r) \/ LoginTryFails(r)) =>
        /\ SentNow' \subseteq SentNow
        /\ q.pc \notin {"hop", "try"} => SentNow' = SentNow
  BY NothingSent
<1>1. CASE LookupFails(r) \/ RouteRequest(r)
  <2>1. /\ tokenRow' \in {tokenRow, Purge(tokenRow, q.token)} /\ q.pc = "decide"
        /\ UNCHANGED <<issuer, held, forgotten>>
    BY <1>1 DEF LookupFails, RouteRequest, clientVars
  <2>2. \A t \in Tokens \ forgotten : tokenRow'[t] = tokenRow[t]
    BY <1>f, <2>1, PurgeKeeps
  <2> QED
    BY <1>s, <2>1, <2>2, PinsKept DEF BindSession, LoginStart, LoginTryFails
<1>2. CASE DropToken(r) \/ LogoutAnswered(r)
  <2>1. /\ q.pc \in {"dropToken", "hop"} /\ UNCHANGED <<issuer, held>>
        /\ q.pc = "dropToken" \/ q.token # None
    BY <1>2 DEF DropToken, LogoutAnswered, clientVars
  <2>2. CASE /\ tokenRow' = Delete(tokenRow, q.token)
             /\ Forget(IF q.token = None THEN {} ELSE {q.token})
    <3> DEFINE T == IF q.token = None THEN {} ELSE {q.token}
    <3>1. T \in SUBSET Tokens /\ forgotten' = forgotten \cup T
      BY <1>f, <2>2 DEF Forget
    <3>2. \A t \in Tokens \ forgotten' : tokenRow'[t] = tokenRow[t]
      <4>1. \A t \in Tokens \ {q.token} : tokenRow'[t] = tokenRow[t]
        BY <1>f, <2>2, DeleteType DEF StoreTypeOK
      <4>2. \A t \in Tokens \ forgotten' : t # q.token
        BY <3>1, <1>f
      <4> QED
        BY <4>1, <4>2
    <3>3. SentNow' \subseteq SentNow
      BY <1>s, <2>1 DEF BindSession, LoginStart, LoginTryFails
    <3>4. Forget(T)
      BY <2>2
    <3> HIDE DEF T
    <3> QED
      BY <2>1, <3>1, <3>2, <3>3, <3>4, PinsLost
  <2>3. CASE DropToken(r) /\ UNCHANGED <<tokenRow, forgotten>>
    BY <1>s, <2>1, <2>3, PinsKept DEF BindSession, LoginStart, LoginTryFails, DropToken
  <2> QED
    BY <1>2, <2>1, <2>2, <2>3 DEF DropToken, LogoutAnswered
<1>3. CASE BindToken(r)
  <2>1. q.pc = "bindToken" /\ UNCHANGED <<issuer, held, forgotten>>
    BY <1>3 DEF BindToken, clientVars
  <2> QED
    BY <1>3, <1>s, <2>1, BindTokenRefines DEF BindSession, LoginStart, LoginTryFails
<1>4. CASE BindSession(r)
  BY <1>4, BindSessionRefines
<1>5. CASE (HopAnswered(r) \/ HopSkipped(r) \/ LoginTryEnds(r)) /\ ~LoginTryFails(r)
  <2>1. /\ tokenRow' \in {tokenRow, Touch(tokenRow, q.token)}
        /\ q.pc \in {"hop", "try"} /\ ~LoginTryFails(r)
        /\ UNCHANGED <<issuer, held, forgotten>>
    BY <1>5 DEF HopAnswered, HopSkipped, LoginTryEnds, clientVars, storeVars
  <2>2. PinNow' = PinNow
    <3>1. CASE tokenRow' = Touch(tokenRow, q.token)
      <4>1. /\ \A t \in Tokens : tokenRow[t] = None => tokenRow'[t] = None
            /\ \A t \in Tokens : tokenRow[t] # None =>
                  tokenRow'[t] # None /\ tokenRow'[t].backend = tokenRow[t].backend
        BY <1>f, <3>1, TouchType DEF StoreTypeOK
      <4> QED
        BY <2>1, <4>1 DEF PinNow
    <3>2. CASE UNCHANGED tokenRow
      BY <2>1, <3>2, PinsKept
    <3> QED
      BY <2>1, <3>1, <3>2
  <2>3. Promise!Answer
    BY <1>s, <2>1, <2>2 DEF Promise!Answer, BindSession, LoginStart, LoginTryFails
  <2> QED
    BY <2>3 DEF Promise!Next
<1>6. CASE LoginGranted(r)
  BY <1>6, LoginGrantedRefines
<1>7. CASE PeekToken(r)
  <2>1. SentNow' = SentNow
    BY <1>7, <1>s DEF PeekToken, BindSession, LoginStart, LoginTryFails
  <2> QED
    BY <1>7, <2>1, PeekTokenRefines
<1>8. CASE PeekSession(r)
  <2>1. SentNow' = SentNow
    BY <1>8, <1>s DEF PeekSession, BindSession, LoginStart, LoginTryFails
  <2> QED
    BY <1>8, <2>1, PeekSessionRefines
<1>9. CASE DropDevice(r) \/ BindPlacement(r) \/ PeekDevice(r)
  <2>1. /\ UNCHANGED <<tokenRow, issuer, held, forgotten>>
        /\ q.pc \in {"dropDevice", "bind", "peekDevice"}
    BY <1>9 DEF DropDevice, BindPlacement, PeekDevice, clientVars
  <2> QED
    BY <1>s, <2>1, PinsKept DEF BindSession, LoginStart, LoginTryFails
<1>10. CASE LoginStart(r) \/ LoginTryFails(r)
  BY <1>10, LoginTryRefines
<1> QED
  BY <1>1, <1>2, <1>3, <1>4, <1>5, <1>6, <1>7, <1>8, <1>9, <1>10 DEF Handle

LEMMA ArriveRefines ==
    ASSUME TypeInv, AffinityInv, NEW r \in Requests, Arrive(r)
    PROVE  UNCHANGED <<issuer, PinNow, forgotten, held, SentNow>>
<1>1. PICK c \in Devices, path \in Paths, identified \in BOOLEAN, t \in held \cup {None} :
         /\ t # None => Owner[t] = c
         /\ path = "login" => identified
         /\ path = "logout" => t # None
         /\ req' = [req EXCEPT ![r] =
              [Idle EXCEPT !.pc = "decide", !.path = path, !.client = c,
                           !.identified = identified, !.token = t,
                           !.parked = Disabled]]
  BY DEF Arrive
<1>2. req'[r].pc = "decide" /\ \A s \in Requests \ {r} : req'[s] = req[s]
  BY <1>1 DEF TypeInv, TypeOK, Idle
<1>3. req[r].pc = "idle" /\ UNCHANGED <<tokenRow, issuer, held, forgotten>>
  BY DEF Arrive, storeVars, clientVars
<1>4. Sends(req[r]) = {} /\ Sends(req'[r]) = {}
  BY <1>2, <1>3 DEF Sends
<1> QED
  BY <1>2, <1>3, <1>4, SentStep, PinsKept

LEMMA EnvironmentRefines ==
    ASSUME TypeInv, Environment
    PROVE  \/ Promise!Next
           \/ UNCHANGED <<issuer, PinNow, forgotten, held, SentNow>>
<1>1. ASSUME NEW t \in Tokens, ExpireToken(t) PROVE Promise!Next
  <2>1. \A u \in Tokens \ {t} : tokenRow'[u] = tokenRow[u]
    BY <1>1, ExpiredType DEF ExpireToken, TypeInv, TypeOK, StoreTypeOK
  <2>2. Forget({t}) /\ t \in forgotten' /\ UNCHANGED <<issuer, held, req>>
    BY <1>1 DEF ExpireToken, Forget, clientVars
  <2>3. SentNow' = SentNow
    BY <2>2 DEF SentNow
  <2> QED
    BY <2>1, <2>2, <2>3, PinsLost
<1>2. CASE Unpin
  <2>1. PICK T \in SUBSET {t \in Tokens : tokenRow[t] # None} :
          /\ tokenRow' = [t \in Tokens |-> IF t \in T THEN None ELSE tokenRow[t]]
          /\ Forget(T)
    BY <1>2 DEF Unpin
  <2>2. T \in SUBSET Tokens /\ \A t \in Tokens \ forgotten' : tokenRow'[t] = tokenRow[t]
    BY <2>1 DEF Forget
  <2>3. SentNow' = SentNow /\ UNCHANGED <<issuer, held>>
    BY <1>2 DEF Unpin, clientVars, SentNow
  <2> QED
    BY <2>1, <2>2, <2>3, PinsLost
<1>3. CASE \/ \E d \in Devices : ExpireDevice(d)
           \/ ExpireAnon
           \/ \E b \in Backends : Probe(b) \/ Disable(b)
  <2>1. UNCHANGED <<tokenRow, issuer, held, forgotten, req>>
    BY <1>3 DEF ExpireDevice, ExpireAnon, Probe, Disable, storeVars, clientVars
  <2> QED
    BY <2>1, PinsKept DEF SentNow
<1>4. ASSUME NEW b \in Backends, Enable(b)
      PROVE  UNCHANGED <<issuer, PinNow, forgotten, held, SentNow>>
  <2>1. UNCHANGED <<tokenRow, issuer, held, forgotten>>
    BY <1>4 DEF Enable, storeVars, clientVars
  <2>2. ASSUME NEW r \in Requests PROVE Sends(req'[r]) = Sends(req[r])
    <3> DEFINE p == [req[r] EXCEPT !.parked = @ \ {b}]
    <3>1. /\ p.pc = req[r].pc /\ p.token = req[r].token /\ p.backend = req[r].backend
          /\ p.kind = req[r].kind /\ p.client = req[r].client
          /\ p.cands = req[r].cands /\ p.tried = req[r].tried
      BY DEF TypeInv, TypeOK, RequestType
    <3>2. req'[r] = p
      BY <1>4 DEF Enable
    <3> HIDE DEF p
    <3> QED
      BY <3>1, <3>2 DEF Sends, NextCandidate, LoginPreferred
  <2>3. SentNow' = SentNow
    BY <2>2 DEF SentNow
  <2> QED
    BY <2>1, <2>3, PinsKept
<1>5. CASE Restart
  <2>1. /\ UNCHANGED <<tokenRow, issuer, held, forgotten>>
        /\ \A r \in Requests : req'[r] = Idle
    BY <1>5 DEF Restart, storeVars, clientVars
  <2>2. SentNow' = {}
    BY <2>1 DEF SentNow, Sends, Idle
  <2>3. Promise!Answer
    BY <2>1, <2>2, PinsKept DEF Promise!Answer
  <2> QED
    BY <2>3 DEF Promise!Next
<1> QED
  BY <1>1, <1>2, <1>3, <1>4, <1>5 DEF Environment

\* The handlers, their statements interleaved and failing one by one, implement
\* module Affinity: a token is pinned home before its client has it, its pin is
\* lost but never moved, and until then an ordinary request takes the token home
\* only; a login takes it to each backend it tries.
THEOREM ImplementsAffinity == Spec => AffinityPromise
<1>1. Init => Promise!Init
  <2> SUFFICES ASSUME Init PROVE Promise!Init
    OBVIOUS
  <2>1. PinNow = [t \in Tokens |-> None]
    BY DEF Init, StoreInit, PinNow
  <2>2. SentNow = {}
    BY DEF Init, SentNow, Sends, Idle
  <2> QED
    BY <2>1, <2>2 DEF Init, Promise!Init
<1>2. TypeInv /\ AffinityInv /\ [Next]_vars => [Promise!Next]_(Promise!affinityVars)
  <2> SUFFICES ASSUME TypeInv, AffinityInv, [Next]_vars
               PROVE  \/ Promise!Next
                      \/ UNCHANGED <<issuer, PinNow, forgotten, held, SentNow>>
    BY DEF Promise!affinityVars
  <2>1. ASSUME UNCHANGED vars
        PROVE  UNCHANGED <<issuer, PinNow, forgotten, held, SentNow>>
    BY <2>1 DEF vars, storeVars, PinNow, SentNow
  <2> QED
    BY <2>1, ArriveRefines, HandleRefines, EnvironmentRefines DEF Next
<1> QED
  BY <1>1, <1>2, TypeCorrect, AffinityHolds, PTL DEF Spec, AffinityPromise, Promise!Spec
=============================================================================
