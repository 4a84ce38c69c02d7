--------------------------- MODULE LibraryProofs ---------------------------
(***************************************************************************)
(* Proofs about module Library: nobody gets another's answer, flights are  *)
(* led, slots are conserved, the cache's list, index and counter agree,    *)
(* and a client that wrote reads its write, for all constants that satisfy *)
(* the assumptions.                                                        *)
(***************************************************************************)
EXTENDS LibraryProperties, ListLemmas

LEMMA InitLibraryInv == Init => LibraryInv
  BY LibCacheAssumption, LibraryAssumption
     DEF Init, CacheInit, LibraryInv, DataTypeOK, EntriesOwn, Cached, CallsOwn, CallOwn,
         WarmOwn, FlightsLed, LeadersKnown, Leading, LeadSteps, HopSteps, Idle, WarmOff,
         CallType, WarmType, Steps

\* A step of one handler that leaves the flights alone.
LEMMA CallStep ==
    ASSUME LibraryInv, NEW r \in Requests, NEW c \in CallType,
           call' = [call EXCEPT ![r] = c], UNCHANGED <<coalesce, flight>>,
           CallOwn(c),
           call[r].pc \in LeadSteps => c.pc \in LeadSteps /\ c.key = call[r].key,
           c.pc = "wait" => flight[c.key] \notin {None, r},
           c.pc \in LeadSteps => call[r].pc \in LeadSteps \/ ~coalesce,
           c.pc \in {"join", "wait"} => coalesce
    PROVE  /\ call' \in [Requests -> CallType]
           /\ CallsOwn' /\ FlightsLed' /\ LeadersKnown'
<1>1. call \in [Requests -> CallType] /\ CallsOwn /\ FlightsLed /\ LeadersKnown
      /\ flight \in [Key -> Requests \cup {None}]
  BY DEF LibraryInv, DataTypeOK
<1>2. call'[r] = c /\ \A q \in Requests \ {r} : call'[q] = call[q]
  BY <1>1
<1>3. call' \in [Requests -> CallType]
  BY <1>1
<1>4. CallsOwn'
  BY <1>1, <1>2 DEF CallsOwn, CallOwn
<1>5. FlightsLed'
  BY <1>1, <1>2, LibraryAssumption
     DEF FlightsLed, Leading, LeadSteps, HopSteps, Flight, FlightKey
<1>6. LeadersKnown'
  BY <1>1, <1>2 DEF LeadersKnown, Leading, LeadSteps, HopSteps, Flight, FlightKey
<1> QED BY <1>3, <1>4, <1>5, <1>6

\* What a cache operation may do to the index.
IndexKept == /\ idx' \in [Key -> Entry \cup {None}]
             /\ EntriesOwn'

LEMMA RemoveKeeps ==
    ASSUME idx \in [Key -> Entry \cup {None}], EntriesOwn, NEW K, idx' = Forget(K)
    PROVE  IndexKept
  BY DEF IndexKept, EntriesOwn, Cached, Forget

LEMMA PutKeeps ==
    ASSUME idx \in [Key -> Entry \cup {None}], EntriesOwn,
           NEW key \in Key, NEW reply \in Reply, key.token # None, reply.from = key,
           Put(key, reply)
    PROVE  IndexKept
<1> DEFINE out == Displaced(key, reply.size)
           e == [reply |-> reply, fresh |-> TRUE]
<1>1. CASE UNCHANGED idx
  BY <1>1 DEF IndexKept, EntriesOwn, Cached
<1>2. CASE idx' = Forget(out)
  BY <1>2, RemoveKeeps
<1>3. CASE idx' = [Forget(out) EXCEPT ![key] = e]
  <2>1. Forget(out) \in [Key -> Entry \cup {None}]
    BY DEF Forget
  <2>2. e \in Entry
    BY DEF Entry
  <2>3. \A k \in Key : idx'[k] = IF k = key THEN e ELSE IF k \in out THEN None ELSE idx[k]
    BY <1>3 DEF Forget
  <2>4. idx' \in [Key -> Entry \cup {None}]
    BY <1>3, <2>1, <2>2
  <2>5. EntriesOwn'
    BY <2>3 DEF EntriesOwn, Cached
  <2> QED BY <2>4, <2>5 DEF IndexKept
<1> QED
  BY <1>1, <1>2, <1>3 DEF Put, Remove, cacheVars

LEMMA StoreKeeps ==
    ASSUME idx \in [Key -> Entry \cup {None}], EntriesOwn,
           NEW key \in Key, NEW reply \in Reply, reply.from = key, Store(key, reply)
    PROVE  IndexKept
<1>1. CASE UNCHANGED cacheVars
  BY <1>1 DEF IndexKept, EntriesOwn, Cached, cacheVars
<1>2. CASE key.token # None /\ Put(key, reply)
  BY <1>2, PutKeeps
<1> QED BY <1>1, <1>2 DEF Store

\* The conjuncts that only cache operations, warm-ups and writes can disturb.
LEMMA SameIndex ==
    ASSUME LibraryInv, UNCHANGED idx
    PROVE  IndexKept
  BY DEF LibraryInv, DataTypeOK, IndexKept, EntriesOwn, Cached

LEMMA SameWarm ==
    ASSUME LibraryInv, UNCHANGED warm
    PROVE  WarmOwn' /\ warm' \in [Tokens -> WarmType]
  BY DEF LibraryInv, DataTypeOK, WarmOwn, WarmKey

LEMMA SameCalls ==
    ASSUME LibraryInv, UNCHANGED handlerVars
    PROVE  /\ call' \in [Requests -> CallType]
           /\ CallsOwn' /\ FlightsLed' /\ LeadersKnown'
  BY DEF LibraryInv, DataTypeOK, handlerVars, CallsOwn, CallOwn, FlightsLed, LeadersKnown,
         Leading, Flight, FlightKey

\* What a handler's step finds.
LEMMA CallFacts ==
    ASSUME LibraryInv, NEW r \in Requests
    PROVE  /\ call \in [Requests -> CallType] /\ call[r] \in CallType /\ CallOwn(call[r])
           /\ idx \in [Key -> Entry \cup {None}] /\ EntriesOwn
           /\ coalesce \in BOOLEAN /\ flight \in [Key -> Requests \cup {None}]
           /\ version \in [Backends -> Nat] /\ acked \in [Backends -> [Tokens -> Nat]]
           /\ call[r].pc \in {"join", "wait"} => coalesce
  BY DEF LibraryInv, DataTypeOK, CallsOwn, LeadersKnown

-----------------------------------------------------------------------------
(* Steps of a handler that change its own record only. *)

LEMMA ReadStepInv ==
    ASSUME LibraryInv, NEW r \in Requests, NEW c \in CallType,
           call' = [call EXCEPT ![r] = c], UNCHANGED <<coalesce, flight, warm, dataVars>>,
           IndexKept, CallOwn(c),
           call[r].pc \in LeadSteps => c.pc \in LeadSteps /\ c.key = call[r].key,
           c.pc = "wait" => flight[c.key] \notin {None, r},
           c.pc \in LeadSteps => call[r].pc \in LeadSteps \/ ~coalesce,
           c.pc \in {"join", "wait"} => coalesce
    PROVE  LibraryInv'
<1>1. /\ call' \in [Requests -> CallType]
      /\ CallsOwn' /\ FlightsLed' /\ LeadersKnown'
  BY CallStep
<1>2. WarmOwn' /\ warm' \in [Tokens -> WarmType]
  BY SameWarm
<1> QED
  BY <1>1, <1>2 DEF LibraryInv, DataTypeOK, dataVars, IndexKept

LEMMA ArriveReadInv ==
    ASSUME LibraryInv, NEW r \in Requests, ArriveRead(r)
    PROVE  LibraryInv'
<1>1. PICK key \in Reads :
        call' = [call EXCEPT ![r] = [Idle EXCEPT !.pc = "lookup", !.key = key,
                                                 !.floor = Acked(key)]]
  BY DEF ArriveRead
<1> DEFINE c == [Idle EXCEPT !.pc = "lookup", !.key = key, !.floor = Acked(key)]
<1>2. key \in Key /\ Acked(key) \in Nat
  BY LibraryAssumption, CallFacts DEF Acked, Key
<1>3. c \in CallType /\ CallOwn(c) /\ c.pc = "lookup" /\ call[r].pc = "idle"
  BY <1>2 DEF CallType, Steps, Idle, CallOwn, ArriveRead
<1>4. IndexKept
  BY SameIndex DEF ArriveRead, cacheVars
<1> QED
  BY <1>1, <1>3, <1>4, ReadStepInv DEF LeadSteps, HopSteps, ArriveRead

LEMMA ArriveWriteInv ==
    ASSUME LibraryInv, NEW r \in Requests, ArriveWrite(r)
    PROVE  LibraryInv'
<1>1. PICK key \in Target :
        call' = [call EXCEPT ![r] = [Idle EXCEPT !.pc = "write", !.key = key]]
  BY DEF ArriveWrite
<1> DEFINE c == [Idle EXCEPT !.pc = "write", !.key = key]
<1>3. c \in CallType /\ CallOwn(c) /\ c.pc = "write" /\ call[r].pc = "idle"
  BY DEF CallType, Steps, Idle, CallOwn, ArriveWrite
<1>4. IndexKept
  BY SameIndex DEF ArriveWrite, cacheVars
<1> QED
  BY <1>1, <1>3, <1>4, ReadStepInv DEF LeadSteps, HopSteps, ArriveWrite

LEMMA LeaveInv ==
    ASSUME LibraryInv, NEW r \in Requests, Leave(r)
    PROVE  LibraryInv'
<1> DEFINE c == [call[r] EXCEPT !.gone = TRUE]
<1>1. call' = [call EXCEPT ![r] = c] /\ IndexKept
  BY SameIndex, CallFacts DEF Leave, cacheVars
<1>2. c \in CallType /\ CallOwn(c) /\ c.pc = call[r].pc /\ c.key = call[r].key
      /\ c.pc \in LeadSteps
  BY CallFacts DEF Leave, CallType, CallOwn, LeadSteps, HopSteps
<1> QED
  BY <1>1, <1>2, ReadStepInv DEF LeadSteps, HopSteps, Leave

\* A handler that ends without having led.
LEMMA FinishInv ==
    ASSUME LibraryInv, NEW r \in Requests, call[r].pc \in {"done", "write"},
           Finish(r), UNCHANGED <<cacheVars, coalesce, flight, slots, warm, acked>>,
           version' \in [Backends -> Nat]
    PROVE  LibraryInv'
<1>1. Idle \in CallType /\ CallOwn(Idle) /\ Idle.pc = "idle"
  BY DEF Idle, CallType, Steps, CallOwn
<1>2. /\ call' \in [Requests -> CallType]
      /\ CallsOwn' /\ FlightsLed' /\ LeadersKnown'
  BY <1>1, CallStep DEF LeadSteps, HopSteps, Finish
<1>3. WarmOwn' /\ warm' \in [Tokens -> WarmType] /\ IndexKept
  BY SameWarm, SameIndex DEF cacheVars
<1> QED
  BY <1>2, <1>3 DEF LibraryInv, DataTypeOK, IndexKept

\* A handler that only moves on, without becoming a leader.
LEMMA GotoInv ==
    ASSUME LibraryInv, NEW r \in Requests, NEW step \in Steps,
           Goto(r, step), UNCHANGED <<coalesce, flight, warm, dataVars>>, IndexKept,
           call[r].pc \notin {"idle", "write", "invalidate"},
           step \notin {"idle", "write", "invalidate", "store"},
           step \in {"release", "deliver", "done"} \/ call[r].reply = None,
           call[r].pc \in LeadSteps => step \in LeadSteps,
           step = "wait" => Flight(r) \notin {None, r},
           step \in LeadSteps => call[r].pc \in LeadSteps \/ ~coalesce,
           step \in {"join", "wait"} => coalesce
    PROVE  LibraryInv'
<1> DEFINE c == [call[r] EXCEPT !.pc = step]
<1>1. call' = [call EXCEPT ![r] = c]
  BY CallFacts DEF Goto
<1>2. c \in CallType /\ c.pc = step /\ c.key = call[r].key /\ c.reply = call[r].reply
  BY CallFacts DEF CallType
<1>3. CallOwn(c)
  BY <1>2, CallFacts DEF CallOwn
<1>4. c.pc = "wait" => flight[c.key] \notin {None, r}
  BY <1>2 DEF Flight, FlightKey
<1> QED
  BY <1>1, <1>2, <1>3, <1>4, ReadStepInv

LEMMA LookupHitInv ==
    ASSUME LibraryInv, NEW r \in Requests, LookupHit(r)
    PROVE  LibraryInv'
<1> DEFINE key == call[r].key
           c == [call[r] EXCEPT !.pc = "done", !.reply = idx[key].reply]
<1>1. call[r].pc = "lookup" /\ key \in Key /\ call[r] \in CallType
  BY CallFacts DEF LookupHit, CallOwn
<1>2. idx[key] \in Entry /\ idx[key].reply.from = key
  BY <1>1, CallFacts DEF LookupHit, GetHit, IsHit, EntriesOwn, Cached
<1>3. call' = [call EXCEPT ![r] = c] /\ IndexKept
  BY <1>1, CallFacts, SameIndex DEF LookupHit, GetHit
<1>4. idx[key].reply \in Reply
  BY <1>2 DEF Entry
<1>5. c \in CallType /\ c.pc = "done" /\ c.key = key /\ c.reply = idx[key].reply
  BY <1>1, <1>4 DEF CallType, Steps
<1>6. CallOwn(c)
  BY <1>1, <1>2, <1>5 DEF CallOwn
<1> QED
  BY <1>1, <1>3, <1>5, <1>6, ReadStepInv DEF LeadSteps, HopSteps, LookupHit

LEMMA LookupMissInv ==
    ASSUME LibraryInv, NEW r \in Requests, LookupMiss(r)
    PROVE  LibraryInv'
<1>1. IndexKept
  BY SameIndex, RemoveKeeps, CallFacts DEF LookupMiss, GetMiss, Remove, cacheVars
<1>2. call[r].pc = "lookup" /\ call[r].reply = None
  BY CallFacts DEF LookupMiss, CallOwn
<1>3. CASE coalesce
  BY <1>1, <1>2, <1>3, GotoInv DEF LookupMiss, LeadSteps, HopSteps, Steps
<1>4. CASE ~coalesce
  BY <1>1, <1>2, <1>4, GotoInv DEF LookupMiss, LeadSteps, HopSteps, Steps
<1> QED BY <1>3, <1>4

LEMMA FollowInv ==
    ASSUME LibraryInv, NEW r \in Requests, Follow(r)
    PROVE  LibraryInv'
<1>1. call[r].pc = "join" /\ call[r].reply = None /\ coalesce /\ call[r].key \in Key
  BY CallFacts DEF Follow, CallOwn
<1>2. Flight(r) \notin {None, r}
  BY <1>1 DEF Follow, LibraryInv, FlightsLed, Leading, LeadSteps, HopSteps, Flight, FlightKey
<1>3. IndexKept
  BY SameIndex DEF Follow, cacheVars
<1> QED
  BY <1>1, <1>2, <1>3, GotoInv DEF Follow, LeadSteps, HopSteps, Steps

\* Slots are no part of the invariant.
LEMMA AcquireInv ==
    ASSUME LibraryInv, NEW r \in Requests, Acquire(r) \/ AcquireCancelled(r)
    PROVE  LibraryInv'
<1>1. IndexKept /\ call[r].pc = "acquire" /\ call[r].reply = None
  BY SameIndex, CallFacts DEF Acquire, AcquireCancelled, cacheVars, CallOwn
<1>2. CASE Acquire(r)
  BY <1>1, <1>2, GotoInv DEF Acquire, LeadSteps, HopSteps, Steps
<1>3. CASE AcquireCancelled(r)
  BY <1>1, <1>3, GotoInv DEF AcquireCancelled, LeadSteps, HopSteps, Steps
<1> QED BY <1>2, <1>3

LEMMA AnswersFacts ==
    ASSUME NEW key \in Key, version \in [Backends -> Nat], NEW a \in Answers(key)
    PROVE  a \in Reply /\ a.from = key
  BY DEF Answers, Reply, Key

LEMMA HopAnsweredInv ==
    ASSUME LibraryInv, NEW r \in Requests, HopAnswered(r)
    PROVE  LibraryInv'
<1>1. PICK a \in Answers(call[r].key) :
        call' = [call EXCEPT ![r].pc = "store", ![r].reply = a]
  BY DEF HopAnswered
<1> DEFINE c == [call[r] EXCEPT !.pc = "store", !.reply = a]
<1>2. call[r].pc = "hop" /\ call[r].key \in Key /\ call[r] \in CallType
  BY CallFacts DEF HopAnswered, CallOwn
<1>3. a \in Reply /\ a.from = call[r].key
  BY <1>2, CallFacts, AnswersFacts
<1>4. call' = [call EXCEPT ![r] = c] /\ IndexKept
  BY <1>1, CallFacts, SameIndex DEF HopAnswered, cacheVars
<1>5. c \in CallType /\ c.pc = "store" /\ c.key = call[r].key /\ c.reply = a
  BY <1>2, <1>3 DEF CallType, Steps
<1>6. CallOwn(c)
  BY <1>2, <1>3, <1>5 DEF CallOwn
<1> QED
  BY <1>2, <1>4, <1>5, <1>6, ReadStepInv DEF LeadSteps, HopSteps, HopAnswered

LEMMA HopFailsInv ==
    ASSUME LibraryInv, NEW r \in Requests, HopFails(r)
    PROVE  LibraryInv'
<1>1. call[r].pc = "hop" /\ call[r].key \in Key /\ call[r].reply = None
  BY CallFacts DEF HopFails, CallOwn
<1>2. IndexKept
  BY SameIndex, CallFacts DEF HopFails, cacheVars
<1> QED
  BY <1>1, <1>2, GotoInv DEF HopFails, LeadSteps, HopSteps, Steps

LEMMA StoreReplyInv ==
    ASSUME LibraryInv, NEW r \in Requests, StoreReply(r)
    PROVE  LibraryInv'
<1>1. /\ call[r].pc = "store" /\ call[r].key \in Key /\ call[r].reply \in Reply
      /\ call[r].reply.from = call[r].key
  BY CallFacts DEF StoreReply, CallOwn, CallType
<1>2. IndexKept
  BY <1>1, CallFacts, StoreKeeps DEF StoreReply
<1> QED
  BY <1>1, <1>2, GotoInv DEF StoreReply, LeadSteps, HopSteps, Steps

LEMMA ReleaseInv ==
    ASSUME LibraryInv, NEW r \in Requests, Release(r)
    PROVE  LibraryInv'
<1>1. IndexKept
  BY SameIndex DEF Release, cacheVars
<1> QED
  BY <1>1, GotoInv DEF Release, LeadSteps, HopSteps, Steps

-----------------------------------------------------------------------------
(* Steps that begin or end a flight. *)

LEMMA LeadInv ==
    ASSUME LibraryInv, NEW r \in Requests, Lead(r)
    PROVE  LibraryInv'
<1> DEFINE c == [call[r] EXCEPT !.pc = "acquire"]
           key == call[r].key
<1>1. /\ call[r].pc = "join" /\ key \in Key /\ call[r] \in CallType
      /\ call[r].reply = None /\ coalesce
  BY CallFacts DEF Lead, CallOwn
<1>2. /\ flight[key] = None /\ flight' = [flight EXCEPT ![key] = r]
      /\ call' = [call EXCEPT ![r] = c] /\ UNCHANGED <<coalesce, warm, idx, version, acked>>
  BY <1>1, CallFacts DEF Lead, Flight, FlightKey, Goto, cacheVars, dataVars
<1>3. c \in CallType /\ c.pc = "acquire" /\ c.key = key /\ c.reply = None
  BY <1>1 DEF CallType, Steps
<1>4. CallOwn(c)
  BY <1>1, <1>3 DEF CallOwn
<1>5. /\ call'[r] = c /\ \A q \in Requests \ {r} : call'[q] = call[q]
      /\ flight'[key] = r /\ \A k \in Key \ {key} : flight'[k] = flight[k]
  BY <1>1, <1>2, CallFacts
<1>6. CallsOwn' /\ call' \in [Requests -> CallType]
  BY <1>2, <1>3, <1>4, <1>5, CallFacts DEF CallsOwn, CallOwn
<1>7. flight' \in [Key -> Requests \cup {None}]
  BY <1>2, CallFacts
<1>8. FlightsLed'
  <2>1. ASSUME NEW k \in Key, flight'[k] # None
        PROVE  call'[flight'[k]].pc \in LeadSteps /\ FlightKey(call'[flight'[k]].key) = k
    <3>1. CASE k = key
      BY <3>1, <1>3, <1>5 DEF Leading, LeadSteps, FlightKey
    <3>2. CASE k # key
      <4>1. flight'[k] = flight[k] /\ flight[k] \in Requests
        BY <2>1, <3>2, <1>5, CallFacts
      <4>2. Leading(flight[k]) /\ FlightKey(call[flight[k]].key) = k
        BY <2>1, <4>1 DEF LibraryInv, FlightsLed
      <4>3. flight[k] # r
        BY <4>2, <1>1 DEF Leading, LeadSteps, HopSteps
      <4> QED BY <4>1, <4>2, <4>3, <1>5 DEF Leading
    <3> QED BY <3>1, <3>2
  <2>2. ASSUME NEW q \in Requests, call'[q].pc = "wait"
        PROVE  Flight(q)' \notin {None, q}
    <3>1. q # r /\ call'[q] = call[q]
      BY <2>2, <1>3, <1>5
    <3>2. Flight(q) \notin {None, q} /\ call[q].key \in Key
      BY <2>2, <3>1, CallFacts DEF LibraryInv, FlightsLed, CallOwn
    <3> QED BY <3>1, <3>2, <1>2, <1>5, LibraryAssumption DEF Flight, FlightKey
  <2> QED BY <2>1, <2>2 DEF FlightsLed, Leading
<1>9. LeadersKnown'
  <2>1. ASSUME NEW q \in Requests, Leading(q)'
        PROVE  Flight(q)' = q
    <3>1. CASE q = r
      BY <3>1, <1>3, <1>5 DEF Flight, FlightKey
    <3>2. CASE q # r
      <4>1. Leading(q) /\ call'[q] = call[q]
        BY <2>1, <3>2, <1>5 DEF Leading
      <4>2. Flight(q) = q /\ call[q].key \in Key
        BY <4>1, <1>1, CallFacts
           DEF LibraryInv, LeadersKnown, CallOwn, Leading, LeadSteps, HopSteps
      <4> QED BY <4>1, <4>2, <1>2, <1>5, LibraryAssumption DEF Flight, FlightKey
    <3> QED BY <3>1, <3>2
  <2> QED BY <2>1, <1>1, <1>2 DEF LeadersKnown
<1> QED
  BY <1>2, <1>6, <1>7, <1>8, <1>9, SameWarm, SameIndex, CallFacts
     DEF LibraryInv, DataTypeOK, IndexKept

LEMMA DeliverInv ==
    ASSUME LibraryInv, NEW r \in Requests, Deliver(r)
    PROVE  LibraryInv'
<1> DEFINE D(q) == [call[q] EXCEPT !.pc = "done", !.reply = call[r].reply]
<1>1. /\ call[r].pc = "deliver" /\ call[r].key \in Key /\ call[r] \in CallType
      /\ call[r].reply \in Reply \cup {None}
      /\ call[r].reply # None => call[r].reply.from = call[r].key
  BY CallFacts DEF Deliver, CallOwn, CallType
<1>2. /\ \A q \in Requests : call'[q] = IF q \in Sharers(r) THEN D(q) ELSE call[q]
      /\ \A k \in Key : flight'[k] = IF flight[k] = r THEN None ELSE flight[k]
      /\ UNCHANGED <<coalesce, warm, idx, version, acked>>
  BY DEF Deliver, cacheVars, dataVars
<1>3. /\ r \in Sharers(r)
      /\ \A q \in Sharers(r) : /\ q \in Requests /\ call[q].key = call[r].key
                               /\ call[q].pc \in {"deliver", "wait"}
  BY <1>1 DEF Sharers, FlightKey
<1>4. ASSUME NEW q \in Requests
      PROVE  call'[q] \in CallType /\ CallOwn(call'[q])
  <2>1. CASE q \in Sharers(r)
    <3>1. call'[q] = D(q) /\ call[q] \in CallType /\ call[q].key = call[r].key
      BY <2>1, <1>2, <1>3, CallFacts
    <3>2. D(q) \in CallType /\ D(q).pc = "done" /\ D(q).reply = call[r].reply
          /\ D(q).key = call[r].key
      BY <1>1, <3>1 DEF CallType, Steps
    <3> QED BY <1>1, <3>1, <3>2 DEF CallOwn
  <2>2. CASE q \notin Sharers(r)
    BY <2>2, <1>2, CallFacts
  <2> QED BY <2>1, <2>2
<1>5. call' \in [Requests -> CallType] /\ CallsOwn'
  <2>1. call' = [q \in Requests |-> call'[q]]
    BY DEF Deliver
  <2>2. CallsOwn'
    BY <1>4 DEF CallsOwn, CallOwn
  <2> QED BY <1>4, <2>1, <2>2
<1>6. flight' \in [Key -> Requests \cup {None}]
  BY CallFacts DEF Deliver
<1>7. ASSUME NEW q \in Sharers(r)
      PROVE  call'[q].pc = "done"
  <2>1. call'[q] = D(q) /\ call[q] \in CallType
    BY <1>2, <1>3, CallFacts
  <2> QED BY <2>1 DEF CallType
<1>8. \A q \in Requests : call'[q].pc # "done" => q \notin Sharers(r) /\ call'[q] = call[q]
  BY <1>2, <1>7
<1>9. FlightsLed'
  <2>1. ASSUME NEW k \in Key, flight'[k] # None
        PROVE  call'[flight'[k]].pc \in LeadSteps /\ FlightKey(call'[flight'[k]].key) = k
    <3>1. flight'[k] = flight[k] /\ flight[k] \in Requests /\ flight[k] # r
      BY <2>1, <1>2, CallFacts
    <3>2. Leading(flight[k]) /\ FlightKey(call[flight[k]].key) = k
      BY <2>1, <3>1 DEF LibraryInv, FlightsLed
    <3>3. flight[k] \notin Sharers(r)
      BY <3>1, <3>2 DEF Sharers, Leading, LeadSteps, HopSteps
    <3> QED BY <3>1, <3>2, <3>3, <1>2 DEF Leading
  <2>2. ASSUME NEW q \in Requests, call'[q].pc = "wait"
        PROVE  Flight(q)' \notin {None, q}
    <3>1. q \notin Sharers(r) /\ call'[q] = call[q]
      BY <2>2, <1>8
    <3>2. Flight(q) \notin {None, q} /\ call[q].key \in Key
      BY <2>2, <3>1, CallFacts DEF LibraryInv, FlightsLed, CallOwn
    <3>3. flight[call[q].key] # r
      <4> SUFFICES ASSUME flight[call[q].key] = r PROVE FALSE
        OBVIOUS
      <4>1. call[r].key = call[q].key
        BY <3>2, LibraryAssumption DEF LibraryInv, FlightsLed, FlightKey
      <4> QED BY <2>2, <3>1, <4>1 DEF Sharers, Flight, FlightKey
    <3> QED BY <3>1, <3>2, <3>3, <1>2 DEF Flight, FlightKey
  <2> QED BY <2>1, <2>2 DEF FlightsLed, Leading
<1>10. LeadersKnown'
  <2>1. ASSUME coalesce, NEW q \in Requests, Leading(q)'
        PROVE  Flight(q)' = q
    <3>1. q # r /\ call'[q] = call[q] /\ Leading(q)
      BY <2>1, <1>3, <1>8 DEF Leading, LeadSteps, HopSteps
    <3>2. Flight(q) = q /\ call[q].key \in Key
      BY <2>1, <3>1, CallFacts DEF LibraryInv, LeadersKnown, CallOwn, Leading, LeadSteps, HopSteps
    <3> QED BY <3>1, <3>2, <1>2 DEF Flight, FlightKey
  <2>2. ASSUME ~coalesce, NEW q \in Requests
        PROVE  call'[q].pc \notin {"join", "wait"}
    BY <2>2, <1>8 DEF LibraryInv, LeadersKnown
  <2> QED BY <2>1, <2>2, <1>2 DEF LeadersKnown
<1> QED
  BY <1>2, <1>5, <1>6, <1>9, <1>10, SameWarm, SameIndex, CallFacts
     DEF LibraryInv, DataTypeOK, IndexKept

-----------------------------------------------------------------------------
(* Writes, warm-ups, the clock. *)

LEMMA WriteAnsweredInv ==
    ASSUME LibraryInv, NEW r \in Requests, WriteAnswered(r)
    PROVE  LibraryInv'
<1> DEFINE b == call[r].key.backend
           c == [call[r] EXCEPT !.pc = "invalidate", !.floor = version[b] + 1]
<1>1. /\ call[r].pc = "write" /\ call[r].key \in Target /\ call[r] \in CallType
      /\ call[r].reply = None /\ b \in Backends
  BY CallFacts DEF WriteAnswered, CallOwn, Target
<1>2. call' = [call EXCEPT ![r] = c] /\ version' = [version EXCEPT ![b] = @ + 1]
  BY CallFacts DEF WriteAnswered, BumpVersion
<1>3. version[b] + 1 \in Nat /\ version' \in [Backends -> Nat]
  BY <1>1, <1>2, CallFacts
<1>4. c \in CallType /\ c.pc = "invalidate" /\ c.key = call[r].key /\ c.reply = None
  BY <1>1, <1>3 DEF CallType, Steps
<1>5. CallOwn(c)
  BY <1>1, <1>4 DEF CallOwn
<1>6. /\ call' \in [Requests -> CallType]
      /\ CallsOwn' /\ FlightsLed' /\ LeadersKnown'
  BY <1>1, <1>2, <1>4, <1>5, CallStep DEF LeadSteps, HopSteps, WriteAnswered
<1>7. WarmOwn' /\ warm' \in [Tokens -> WarmType] /\ IndexKept
  BY SameWarm, SameIndex DEF WriteAnswered, cacheVars
<1> QED
  BY <1>3, <1>6, <1>7, CallFacts DEF LibraryInv, DataTypeOK, IndexKept, WriteAnswered

LEMMA WriteEndsInv ==
    ASSUME LibraryInv, NEW r \in Requests, WriteUnanswered(r) \/ WriteRefused(r)
    PROVE  LibraryInv'
<1>1. version' \in [Backends -> Nat]
  <2>1. CASE WriteUnanswered(r)
    <3>1. call[r].key.backend \in Backends
      BY <2>1, CallFacts DEF WriteUnanswered, CallOwn, Target
    <3> QED BY <2>1, <3>1, CallFacts DEF WriteUnanswered, BumpVersion
  <2>2. CASE WriteRefused(r)
    BY <2>2, CallFacts DEF WriteRefused, dataVars
  <2> QED BY <2>1, <2>2
<1> QED
  BY <1>1, FinishInv DEF WriteUnanswered, WriteRefused, dataVars

LEMMA InvalidateInv ==
    ASSUME LibraryInv, NEW r \in Requests, Invalidate(r)
    PROVE  LibraryInv'
<1> DEFINE b == call[r].key.backend
           t == call[r].key.token
<1>1. /\ call[r].pc = "invalidate" /\ b \in Backends /\ t \in Tokens
      /\ call[r].floor \in Nat
  BY CallFacts DEF Invalidate, CallOwn, Target, CallType
<1>2. IndexKept
  BY RemoveKeeps, CallFacts DEF Invalidate, DropToken, Remove
<1>3. acked' \in [Backends -> [Tokens -> Nat]]
  <2>1. acked' = [acked EXCEPT ![b][t] = IF @ < call[r].floor THEN call[r].floor ELSE @]
    BY DEF Invalidate
  <2> QED BY <1>1, <2>1, CallFacts
<1>4. \A q \in Requests : call'[q] =
        CASE q = r -> Idle
          [] InHand(call[q], b, t) -> [call[q] EXCEPT !.reply.late = TRUE]
          [] OTHER -> call[q]
  BY DEF Invalidate
<1>5. ASSUME NEW q \in Requests
      PROVE  /\ call'[q] \in CallType /\ CallOwn(call'[q])
             /\ q = r => call'[q].pc = "idle"
             /\ q # r => call'[q].pc = call[q].pc /\ call'[q].key = call[q].key
  <2>1. CASE q = r
    <3>1. call'[q] = Idle
      BY <2>1, <1>1, <1>4 DEF InHand
    <3> QED BY <2>1, <3>1 DEF Idle, CallType, Steps, CallOwn
  <2>2. CASE q # r /\ InHand(call[q], b, t)
    <3> DEFINE c == [call[q] EXCEPT !.reply.late = TRUE]
    <3>1. call'[q] = c
      BY <2>2, <1>4
    <3>2. call[q] \in CallType /\ CallOwn(call[q]) /\ call[q].reply \in Reply
          /\ call[q].reply.from = call[q].key
      BY <2>2, CallFacts DEF InHand, CallOwn, CallType
    <3>3. [call[q].reply EXCEPT !.late = TRUE] \in Reply
      BY <3>2 DEF Reply
    <3>4. c.reply = [call[q].reply EXCEPT !.late = TRUE] /\ c.reply.from = call[q].key
      BY <3>2 DEF CallType, Reply
    <3>5. c \in CallType /\ c.pc = call[q].pc /\ c.key = call[q].key
      BY <3>2, <3>3 DEF CallType
    <3>6. c.pc \in {"store", "release", "deliver"}
      BY <2>2, <3>5 DEF InHand
    <3> QED BY <2>2, <3>1, <3>2, <3>3, <3>4, <3>5, <3>6 DEF CallOwn
  <2>3. CASE q # r /\ ~InHand(call[q], b, t)
    BY <2>3, <1>4, CallFacts
  <2> QED BY <2>1, <2>2, <2>3
<1>6. call' \in [Requests -> CallType] /\ CallsOwn'
  <2>1. call' = [q \in Requests |-> call'[q]]
    BY DEF Invalidate
  <2>2. CallsOwn'
    BY <1>5 DEF CallsOwn, CallOwn
  <2> QED BY <1>5, <2>1, <2>2
<1>7. UNCHANGED <<coalesce, flight, version>>
  BY DEF Invalidate
<1>8. FlightsLed'
  <2>1. ASSUME NEW k \in Key, flight[k] # None
        PROVE  call'[flight[k]].pc \in LeadSteps /\ FlightKey(call'[flight[k]].key) = k
    <3>1. call[flight[k]].pc \in LeadSteps /\ call[flight[k]].key = k /\ flight[k] \in Requests
      BY <2>1, CallFacts DEF LibraryInv, FlightsLed, Leading, FlightKey
    <3> QED BY <3>1, <1>1, <1>5 DEF LeadSteps, HopSteps, FlightKey
  <2>2. ASSUME NEW q \in Requests, call'[q].pc = "wait"
        PROVE  flight[call'[q].key] \notin {None, q}
    BY <2>2, <1>5 DEF LibraryInv, FlightsLed, Flight, FlightKey
  <2> QED BY <2>1, <2>2, <1>7 DEF FlightsLed, Leading, Flight, FlightKey
<1>9. LeadersKnown'
  <2>1. ASSUME NEW q \in Requests, call'[q].pc # "idle"
        PROVE  call'[q].pc = call[q].pc /\ call'[q].key = call[q].key
    BY <2>1, <1>5
  <2> QED BY <2>1, <1>5, <1>7 DEF LibraryInv, LeadersKnown, Leading, LeadSteps, HopSteps, Flight, FlightKey
<1>10. warm' \in [Tokens -> WarmType] /\ WarmOwn'
  <2>1. warm \in [Tokens -> WarmType] /\ WarmOwn
    BY DEF LibraryInv, DataTypeOK
  <2>2. CASE UNCHANGED warm
    BY <2>2, SameWarm
  <2>3. CASE warm[t].pc = "store" /\ warm' = [warm EXCEPT ![t].reply.late = TRUE]
    <3> DEFINE w == [warm[t] EXCEPT !.reply.late = TRUE]
    <3>1. warm[t] \in WarmType /\ warm[t].reply \in Reply /\ warm[t].reply.from = WarmKey(t)
          /\ warm[t].backend \in Backends /\ warm[t].next \in DOMAIN WarmUrls
      BY <2>1, <2>3, <1>1 DEF WarmOwn
    <3>2. [warm[t].reply EXCEPT !.late = TRUE] \in Reply
      BY <3>1 DEF Reply
    <3>3. /\ w.reply = [warm[t].reply EXCEPT !.late = TRUE] /\ w.reply.from = WarmKey(t)
          /\ w.pc = "store" /\ w.backend = warm[t].backend /\ w.next = warm[t].next
          /\ w \in WarmType
      BY <3>1, <3>2, <2>3 DEF WarmType, Reply
    <3>4. warm' = [warm EXCEPT ![t] = w]
      BY <2>3, <2>1
    <3>5. warm'[t] = w /\ \A u \in Tokens \ {t} : warm'[u] = warm[u]
      BY <2>1, <3>4, <1>1
    <3> QED BY <2>1, <3>1, <3>2, <3>3, <3>4, <3>5 DEF WarmOwn, WarmKey
  <2> QED BY <2>2, <2>3 DEF Invalidate
<1> QED
  BY <1>2, <1>3, <1>6, <1>7, <1>8, <1>9, <1>10, CallFacts DEF LibraryInv, DataTypeOK, IndexKept

\* What a warm-up's step finds.
LEMMA WarmFacts ==
    ASSUME LibraryInv, NEW t \in Tokens
    PROVE  /\ warm \in [Tokens -> WarmType] /\ warm[t] \in WarmType /\ WarmOwn
           /\ warm[t].pc # "off" =>
                /\ warm[t].next \in 1..Len(WarmUrls)
                /\ WarmKey(t) \in Key
<1>1. warm \in [Tokens -> WarmType] /\ WarmOwn
  BY DEF LibraryInv, DataTypeOK
<1>2. ASSUME warm[t].pc # "off"
      PROVE  warm[t].next \in 1..Len(WarmUrls) /\ WarmKey(t) \in Key
  <2>1. warm[t].backend \in Backends /\ warm[t].next \in 1..Len(WarmUrls)
    BY <1>1, <1>2, LibraryAssumption DEF WarmOwn
  <2>2. WarmUrls[warm[t].next] \in Urls
    BY <2>1, LibraryAssumption
  <2> QED BY <2>1, <2>2 DEF WarmKey, Key
<1> QED BY <1>1, <1>2

\* A step of one warm-up, w being what it becomes.
LEMMA WarmStepInv ==
    ASSUME LibraryInv, NEW t \in Tokens, NEW w \in WarmType,
           warm' = [warm EXCEPT ![t] = w], UNCHANGED <<handlerVars, dataVars>>, IndexKept,
           w.pc # "off" => w.backend \in Backends /\ w.next \in 1..Len(WarmUrls),
           w.pc = "store" => /\ w.reply \in Reply /\ w.reply.from = WarmKey(t)
                             /\ w.backend = warm[t].backend /\ w.next = warm[t].next
    PROVE  LibraryInv'
<1>1. warm' \in [Tokens -> WarmType] /\ warm'[t] = w
      /\ \A u \in Tokens \ {t} : warm'[u] = warm[u]
  BY WarmFacts
<1>2. DOMAIN WarmUrls = 1..Len(WarmUrls)
  BY LibraryAssumption
<1>3. WarmOwn'
  BY <1>1, <1>2, WarmFacts DEF WarmOwn, WarmKey
<1> QED
  BY <1>1, <1>3, SameCalls, CallFacts
     DEF LibraryInv, DataTypeOK, IndexKept, handlerVars, dataVars

\* WarmNext ends the warm-up or goes on to the next path.
LEMMA WarmNextInv ==
    ASSUME LibraryInv, NEW t \in Tokens, warm[t].pc # "off", WarmNext(t),
           UNCHANGED <<handlerVars, dataVars>>, IndexKept
    PROVE  LibraryInv'
<1> DEFINE w == IF warm[t].next = Len(WarmUrls) THEN WarmOff
                ELSE [warm[t] EXCEPT !.pc = "read", !.next = @ + 1, !.reply = None]
<1>1. warm' = [warm EXCEPT ![t] = w]
  BY DEF WarmNext
<1>2. /\ warm[t] \in WarmType /\ warm[t].next \in 1..Len(WarmUrls) /\ Len(WarmUrls) \in Nat
      /\ warm[t].backend \in Backends
  BY WarmFacts, LibraryAssumption DEF WarmOwn
<1>3. CASE warm[t].next = Len(WarmUrls)
  <2>1. w = WarmOff /\ w \in WarmType /\ w.pc = "off"
    BY <1>3 DEF WarmOff, WarmType
  <2> QED BY <1>1, <2>1, WarmStepInv
<1>4. CASE warm[t].next # Len(WarmUrls)
  <2>1. warm[t].next + 1 \in 1..Len(WarmUrls) /\ warm[t].next + 1 \in Nat
    BY <1>2, <1>4
  <2>2. /\ w \in WarmType /\ w.pc = "read" /\ w.backend = warm[t].backend
        /\ w.next = warm[t].next + 1
    BY <1>2, <1>4, <2>1 DEF WarmType
  <2> QED BY <1>1, <1>2, <2>1, <2>2, WarmStepInv
<1> QED BY <1>3, <1>4

LEMMA WarmUpInv ==
    ASSUME LibraryInv, NEW t \in Tokens, WarmUp(t)
    PROVE  LibraryInv'
<1>1. CASE WarmStart(t)
  <2>1. PICK b \in Backends :
          warm' = [warm EXCEPT ![t] = [pc |-> "read", backend |-> b, next |-> 1, reply |-> None]]
    BY <1>1 DEF WarmStart
  <2> DEFINE w == [pc |-> "read", backend |-> b, next |-> 1, reply |-> None]
  <2>2. w \in WarmType /\ w.pc = "read" /\ w.backend = b /\ w.next = 1
    BY DEF WarmType
  <2>3. 1 \in 1..Len(WarmUrls)
    BY <1>1, LibraryAssumption DEF WarmStart
  <2> QED
    BY <1>1, <2>1, <2>2, <2>3, SameIndex, WarmStepInv DEF WarmStart, cacheVars
<1>2. CASE WarmAnswered(t)
  <2>1. PICK a \in Answers(WarmKey(t)) :
          warm' = [warm EXCEPT ![t].pc = "store", ![t].reply = a]
    BY <1>2 DEF WarmAnswered
  <2> DEFINE w == [warm[t] EXCEPT !.pc = "store", !.reply = a]
  <2>2. /\ warm[t].pc = "read" /\ warm[t] \in WarmType /\ WarmKey(t) \in Key
        /\ warm[t].backend \in Backends /\ warm[t].next \in 1..Len(WarmUrls)
    BY <1>2, WarmFacts DEF WarmAnswered, WarmOwn
  <2>3. a \in Reply /\ a.from = WarmKey(t)
    <3>1. version \in [Backends -> Nat]
      BY DEF LibraryInv, DataTypeOK
    <3> QED BY <2>2, <3>1, AnswersFacts
  <2>4. /\ w \in WarmType /\ w.pc = "store" /\ w.reply = a
        /\ w.backend = warm[t].backend /\ w.next = warm[t].next
    BY <2>2, <2>3 DEF WarmType
  <2>5. warm' = [warm EXCEPT ![t] = w]
    BY <2>1, WarmFacts
  <2> QED
    BY <1>2, <2>2, <2>3, <2>4, <2>5, SameIndex, WarmStepInv DEF WarmAnswered, cacheVars
<1>3. CASE WarmFails(t)
  BY <1>3, SameIndex, WarmNextInv DEF WarmFails, cacheVars
<1>4. CASE WarmStore(t)
  <2>1. warm[t].reply \in Reply /\ warm[t].reply.from = WarmKey(t) /\ WarmKey(t) \in Key
    BY <1>4, WarmFacts DEF WarmStore, WarmOwn
  <2>2. IndexKept
    BY <1>4, <2>1, StoreKeeps DEF WarmStore, LibraryInv, DataTypeOK
  <2> QED BY <1>4, <2>2, WarmNextInv DEF WarmStore
<1> QED
  BY <1>1, <1>2, <1>3, <1>4 DEF WarmUp

LEMMA ExpiresInv ==
    ASSUME LibraryInv, EntryExpires
    PROVE  LibraryInv'
<1>1. PICK k \in Cached : idx' = [idx EXCEPT ![k].fresh = FALSE]
  BY DEF EntryExpires, Expire
<1>2. idx \in [Key -> Entry \cup {None}] /\ EntriesOwn /\ k \in Key /\ idx[k] # None
  BY DEF LibraryInv, DataTypeOK, Cached
<1> DEFINE e == [idx[k] EXCEPT !.fresh = FALSE]
<1>3. idx[k] \in Entry /\ e \in Entry /\ e.reply = idx[k].reply
  BY <1>2 DEF Entry
<1>4. idx' = [idx EXCEPT ![k] = e]
  BY <1>1, <1>2
<1>5. IndexKept
  BY <1>2, <1>3, <1>4 DEF IndexKept, EntriesOwn, Cached
<1> QED
  BY <1>5, SameCalls, SameWarm
     DEF EntryExpires, LibraryInv, DataTypeOK, IndexKept, handlerVars, dataVars

-----------------------------------------------------------------------------
(* Slots. *)

SlotsInv == SlotsConserved /\ slots \in [Backends -> Nat]

\* Nobody takes a slot or gives one back.
LEMMA SameHolders ==
    ASSUME SlotsInv, UNCHANGED slots,
           \A q \in Requests : /\ HoldsSlot(q)' <=> HoldsSlot(q)
                               /\ HoldsSlot(q) => call'[q].key = call[q].key
    PROVE  SlotsInv'
<1>1. \A b \in Backends : Holders(b)' = Holders(b)
  BY DEF Holders, HoldsSlot
<1> QED BY <1>1 DEF SlotsInv, SlotsConserved

\* A step of one handler that holds a slot after it if it did before.
LEMMA SlotsStep ==
    ASSUME LibraryInv, SlotsInv, NEW r \in Requests, UNCHANGED slots,
           call' = [call EXCEPT ![r] = call'[r]],
           call'[r].pc \in HopSteps <=> call[r].pc \in HopSteps,
           call[r].pc \in HopSteps => call'[r].key = call[r].key
    PROVE  SlotsInv'
<1>1. \A q \in Requests \ {r} : call'[q] = call[q]
  BY CallFacts
<1> QED BY <1>1, SameHolders DEF HoldsSlot

LEMMA AcquireSlots ==
    ASSUME LibraryInv, SlotsInv, NEW r \in Requests, Acquire(r)
    PROVE  SlotsInv'
<1>1. /\ call[r] \in CallType /\ call \in [Requests -> CallType]
      /\ call[r].pc = "acquire"
  BY CallFacts DEF Acquire
<1>a. PICK a \in Backends : a = call[r].key.backend
  BY CallFacts DEF Acquire, CallOwn, Key
<1>2. call' = [call EXCEPT ![r].pc = "hop"] /\ slots' = [slots EXCEPT ![a] = @ + 1]
      /\ slots[a] < MaxSlots
  BY <1>a DEF Acquire, Goto
<1>3. call'[r].pc = "hop" /\ call'[r].key = call[r].key
      /\ \A q \in Requests \ {r} : call'[q] = call[q]
  BY <1>1, <1>2 DEF CallType
<1>4. Holders(a)' = Holders(a) \cup {r} /\ r \notin Holders(a)
  BY <1>1, <1>a, <1>3 DEF Holders, HoldsSlot, HopSteps
<1>5. \A b \in Backends \ {a} : Holders(b)' = Holders(b)
  BY <1>1, <1>a, <1>3 DEF Holders, HoldsSlot, HopSteps
<1>6. IsFiniteSet(Holders(a))
  BY LibraryAssumption, FS_Subset DEF Holders
<1>7. Cardinality(Holders(a)') = Cardinality(Holders(a)) + 1
  BY <1>4, <1>6, FS_AddElement
<1>8. slots'[a] = slots[a] + 1 /\ slots'[a] <= MaxSlots /\ slots' \in [Backends -> Nat]
      /\ \A b \in Backends \ {a} : slots'[b] = slots[b]
  BY <1>1, <1>2, LibraryAssumption DEF SlotsInv
<1> QED BY <1>1, <1>5, <1>7, <1>8 DEF SlotsInv, SlotsConserved

LEMMA ReleaseSlots ==
    ASSUME LibraryInv, SlotsInv, NEW r \in Requests, Release(r)
    PROVE  SlotsInv'
<1>1. /\ call[r] \in CallType /\ call \in [Requests -> CallType]
      /\ call[r].pc = "release"
  BY CallFacts DEF Release
<1>a. PICK a \in Backends : a = call[r].key.backend
  BY CallFacts DEF Release, CallOwn, Key
<1>2. /\ call' = [call EXCEPT ![r].pc = "deliver"]
      /\ slots' = [slots EXCEPT ![a] = IF @ = 0 THEN 0 ELSE @ - 1]
  BY <1>a DEF Release, Goto
<1>3. call'[r].pc = "deliver" /\ \A q \in Requests \ {r} : call'[q] = call[q]
  BY <1>1, <1>2 DEF CallType
<1>4. Holders(a)' = Holders(a) \ {r} /\ r \in Holders(a)
  BY <1>1, <1>a, <1>3 DEF Holders, HoldsSlot, HopSteps
<1>5. \A b \in Backends \ {a} : Holders(b)' = Holders(b)
  BY <1>1, <1>a, <1>3 DEF Holders, HoldsSlot, HopSteps
<1>6. IsFiniteSet(Holders(a))
  BY LibraryAssumption, FS_Subset DEF Holders
<1>7. Cardinality(Holders(a)') = Cardinality(Holders(a)) - 1
      /\ Cardinality(Holders(a)) \in Nat \ {0}
  BY <1>4, <1>6, FS_RemoveElement, FS_EmptySet, FS_CardinalityType
<1>8. slots'[a] = slots[a] - 1 /\ slots'[a] <= MaxSlots /\ slots' \in [Backends -> Nat]
      /\ \A b \in Backends \ {a} : slots'[b] = slots[b]
  <2>1. slots[a] \in Nat \ {0} /\ slots[a] <= MaxSlots /\ slots \in [Backends -> Nat]
    BY <1>1, <1>7 DEF SlotsInv, SlotsConserved
  <2> QED BY <1>1, <1>2, <2>1, LibraryAssumption
<1> QED BY <1>1, <1>5, <1>7, <1>8 DEF SlotsInv, SlotsConserved

\* Followers and their leader hold none before the answer goes out, none after.
LEMMA DeliverSlots ==
    ASSUME LibraryInv, SlotsInv, NEW r \in Requests, Deliver(r)
    PROVE  SlotsInv'
<1>1. \A q \in Requests : call'[q] = IF q \in Sharers(r)
                                     THEN [call[q] EXCEPT !.pc = "done", !.reply = call[r].reply]
                                     ELSE call[q]
  BY DEF Deliver
<1>2. \A q \in Sharers(r) : q \in Requests /\ call[q] \in CallType /\ ~HoldsSlot(q)
  BY CallFacts DEF Sharers, HoldsSlot, HopSteps, Deliver
<1>3. ASSUME NEW q \in Sharers(r)
      PROVE  call'[q].pc = "done"
  BY <1>1, <1>2 DEF CallType
<1>4. \A q \in Requests \ Sharers(r) : call'[q] = call[q]
  BY <1>1
<1>5. \A q \in Requests : /\ HoldsSlot(q)' <=> HoldsSlot(q)
                          /\ HoldsSlot(q) => call'[q].key = call[q].key
  BY <1>2, <1>3, <1>4 DEF HoldsSlot, HopSteps
<1> QED BY <1>5, SameHolders DEF Deliver

\* A write holds no slot, and leaves the reads it overtakes where they are.
LEMMA InvalidateSlots ==
    ASSUME LibraryInv, SlotsInv, NEW r \in Requests, Invalidate(r)
    PROVE  SlotsInv'
<1> DEFINE b == call[r].key.backend
           t == call[r].key.token
<1>1. \A q \in Requests : call'[q] = CASE q = r -> Idle
                        [] InHand(call[q], b, t) -> [call[q] EXCEPT !.reply.late = TRUE]
                        [] OTHER -> call[q]
  BY DEF Invalidate
<1>2. \A q \in Requests \ {r} : call'[q].pc = call[q].pc /\ call'[q].key = call[q].key
  <2> TAKE q \in Requests \ {r}
  <2>1. call[q] \in CallType
    BY CallFacts
  <2>2. CASE InHand(call[q], b, t)
    BY <1>1, <2>1, <2>2 DEF CallType
  <2>3. CASE ~InHand(call[q], b, t)
    BY <1>1, <2>3
  <2> QED BY <2>2, <2>3
<1>3. ~HoldsSlot(r) /\ ~HoldsSlot(r)'
  BY <1>1 DEF Invalidate, HoldsSlot, HopSteps, Idle
<1> QED BY <1>2, <1>3, SameHolders DEF HoldsSlot, Invalidate

\* Every step conserves the slots.
LEMMA NextSlotsInv ==
    ASSUME LibraryInv, SlotsInv, [Next]_vars
    PROVE  SlotsInv'
<1>1. ASSUME NEW r \in Requests, UNCHANGED slots, \E c : call' = [call EXCEPT ![r] = c],
             call[r].pc \notin HopSteps, call'[r].pc \notin HopSteps
      PROVE  SlotsInv'
  <2>1. call' = [call EXCEPT ![r] = call'[r]]
    BY <1>1, CallFacts
  <2> QED BY <1>1, <2>1, SlotsStep
<1>2. ASSUME NEW r \in Requests, ArriveRead(r) \/ ArriveWrite(r)
      PROVE  SlotsInv'
  <2>1. call[r].pc = "idle" /\ call'[r].pc \in {"lookup", "write"}
        /\ UNCHANGED slots /\ \E c : call' = [call EXCEPT ![r] = c]
    BY <1>2, CallFacts DEF ArriveRead, ArriveWrite, Idle
  <2> QED BY <2>1, <1>1 DEF HopSteps
<1>3. ASSUME NEW r \in Requests, Return(r) \/ WriteUnanswered(r) \/ WriteRefused(r)
      PROVE  SlotsInv'
  <2>1. call[r].pc \in {"done", "write"} /\ call' = [call EXCEPT ![r] = Idle]
        /\ UNCHANGED slots
    BY <1>3 DEF Return, WriteUnanswered, WriteRefused, Finish
  <2>2. call'[r].pc = "idle"
    BY <2>1, CallFacts DEF Idle
  <2> QED BY <2>1, <2>2, <1>1 DEF HopSteps
<1>4. ASSUME NEW r \in Requests,
             \/ LookupHit(r) \/ LookupMiss(r) \/ Lead(r) \/ Follow(r)
             \/ AcquireCancelled(r) \/ WriteAnswered(r)
      PROVE  SlotsInv'
  <2>1. call[r].pc \in {"lookup", "join", "acquire", "write"} /\ UNCHANGED slots
    BY <1>4 DEF LookupHit, LookupMiss, Lead, Follow, AcquireCancelled, WriteAnswered
  <2>2. call'[r].pc \in {"done", "join", "acquire", "wait", "deliver", "invalidate"}
        /\ \E c : call' = [call EXCEPT ![r] = c]
    BY <1>4, CallFacts
       DEF LookupHit, LookupMiss, Lead, Follow, AcquireCancelled, WriteAnswered, Goto, CallType
  <2> QED BY <2>1, <2>2, <1>1 DEF HopSteps
<1>5. ASSUME NEW r \in Requests, Leave(r) \/ HopAnswered(r) \/ HopFails(r) \/ StoreReply(r)
      PROVE  SlotsInv'
  <2>1. /\ UNCHANGED slots
        /\ call' = [call EXCEPT ![r] = call'[r]]
        /\ call'[r].key = call[r].key
        /\ call'[r].pc \in HopSteps <=> call[r].pc \in HopSteps
    BY <1>5, CallFacts
       DEF Leave, HopAnswered, HopFails, StoreReply, Goto, CallType, HopSteps
  <2> QED BY <2>1, SlotsStep
<1>6. ASSUME NEW r \in Requests, Handle(r)
      PROVE  SlotsInv'
  BY <1>6, <1>3, <1>4, <1>5, ReleaseSlots, DeliverSlots, InvalidateSlots DEF Handle
<1>7. ASSUME UNCHANGED handlerVars
      PROVE  SlotsInv'
  BY <1>7, SameHolders DEF handlerVars, HoldsSlot
<1>8. ASSUME NEW t \in Tokens, WarmUp(t)
      PROVE  SlotsInv'
  BY <1>8, <1>7 DEF WarmUp, WarmStart, WarmAnswered, WarmFails, WarmStore
<1>9. CASE EntryExpires
  BY <1>9, <1>7 DEF EntryExpires
<1>10. CASE UNCHANGED vars
  BY <1>10, <1>7 DEF vars
<1> QED
  BY <1>2, <1>5, <1>6, <1>8, <1>9, <1>10, AcquireSlots DEF Next

LEMMA InitSlotsInv == Init => SlotsInv
<1> SUFFICES ASSUME Init PROVE SlotsInv
  OBVIOUS
<1>1. \A b \in Backends : Holders(b) = {}
  BY DEF Init, Idle, Holders, HoldsSlot, HopSteps
<1>2. \A b \in Backends : Cardinality(Holders(b)) = 0
  BY <1>1, FS_EmptySet
<1>3. slots \in [Backends -> Nat] /\ \A b \in Backends : slots[b] = 0
  BY DEF Init
<1> QED
  BY <1>2, <1>3, LibraryAssumption DEF SlotsInv, SlotsConserved

-----------------------------------------------------------------------------
(* The list and its counter. *)

\* The list names each key of the index once, and the counter is their bytes.
CacheInv ==
    /\ CacheTypeOK
    /\ Range(order) = Cached /\ Distinct(order)
    /\ bytes = BytesOf(Cached) /\ bytes <= MaxBytes

Size(k) == idx[k].reply.size

LEMMA CacheFacts ==
    ASSUME CacheInv
    PROVE  /\ Cached \subseteq Key /\ IsFiniteSet(Cached)
           /\ \A k \in Cached : idx[k] \in Entry /\ Size(k) \in Nat
           /\ BytesOf(Cached) = SumFunctionOnSet([k \in Cached |-> Size(k)], Cached)
           /\ order \in Seq(Key)
<1>1. order \in Seq(Key) /\ Range(order) = Cached
  BY DEF CacheInv, CacheTypeOK
<1>2. IsFiniteSet(Cached)
  BY <1>1, DistinctLength
<1>3. \A k \in Cached : idx[k] \in Entry /\ Size(k) \in Nat
  BY LibCacheAssumption DEF CacheInv, CacheTypeOK, Cached, Entry, Reply, Size
<1>4. Cached \cap Cached = Cached
  OBVIOUS
<1>5. BytesOf(Cached) = SumFunctionOnSet([k \in Cached |-> Size(k)], Cached)
  BY <1>4 DEF BytesOf, Size
<1> QED BY <1>1, <1>2, <1>3, <1>5 DEF Cached

\* What is left of the counter is the bytes of what is left.
LEMMA LessFacts ==
    ASSUME CacheInv, NEW K
    PROVE  Less(K) = SumFunctionOnSet([k \in Cached |-> Size(k)], Cached \ K)
           /\ Less(K) \in Nat /\ Less(K) <= bytes
<1> DEFINE f == [k \in Cached |-> Size(k)]
           C == Cached
<1>1. IsFiniteSet(C) /\ \A k \in C : f[k] \in Nat
  BY CacheFacts
<1>2. /\ bytes = SumFunctionOnSet(f, C) /\ bytes \in Nat
      /\ BytesOf(K) = SumFunctionOnSet(f, K \cap C)
  BY CacheFacts DEF CacheInv, CacheTypeOK, BytesOf, Size
<1>3. K \cap C = C \cap K
  OBVIOUS
<1> HIDE DEF f, C
<1>4. /\ SumFunctionOnSet(f, C) = SumFunctionOnSet(f, C \cap K) + SumFunctionOnSet(f, C \ K)
      /\ SumFunctionOnSet(f, C \cap K) \in Nat /\ SumFunctionOnSet(f, C \ K) \in Nat
  BY <1>1, SumSplit
<1>5. Less(K) = SumFunctionOnSet(f, C \ K) /\ Less(K) \in Nat /\ Less(K) <= bytes
  <2>1. BytesOf(K) = SumFunctionOnSet(f, C \cap K)
    BY <1>2, <1>3
  <2>2. \A x, y \in Nat : bytes = x + y => bytes >= x /\ bytes - x = y /\ y <= bytes
    BY <1>2
  <2>3. ~(BytesOf(K) > bytes) /\ bytes - BytesOf(K) = SumFunctionOnSet(f, C \ K)
        /\ SumFunctionOnSet(f, C \ K) <= bytes
    BY <1>2, <1>4, <2>1, <2>2
  <2> QED BY <1>4, <2>3 DEF Less
<1> QED BY <1>5 DEF f, C

LEMMA RemoveSound ==
    ASSUME CacheInv, NEW K, Remove(K)
    PROVE  CacheInv'
<1> DEFINE f == [k \in Cached |-> Size(k)]
           g == [k \in Cached' |-> Size(k)']
<1>1. Cached' = Cached \ K /\ \A k \in Cached' : idx'[k] = idx[k]
  BY DEF Cached, Remove, Forget
<1>2. idx' \in [Key -> Entry \cup {None}]
  BY DEF CacheInv, CacheTypeOK, Remove, Forget
<1>3. order' \in Seq(Key) /\ Range(order') = Cached' /\ Distinct(order')
  <2>1. order \in Seq(Key) /\ Range(order) = Cached /\ Distinct(order) /\ order' = Deleted(order, K)
    BY DEF CacheInv, CacheTypeOK, Remove
  <2> QED BY <1>1, <2>1, DeletedFacts
<1>4. /\ bytes' = SumFunctionOnSet(f, Cached') /\ bytes' \in Nat
      /\ bytes' <= bytes
  BY <1>1, LessFacts DEF Remove
<1>5. SumFunctionOnSet(f, Cached') = SumFunctionOnSet(g, Cached')
  <2>1. IsFiniteSet(Cached')
    BY <1>1, CacheFacts, FS_Subset
  <2>2. \A k \in Cached' : f[k] = g[k]
    BY <1>1 DEF Size
  <2> HIDE DEF f, g
  <2> QED BY <2>1, <2>2, SumSame
<1>6. BytesOf(Cached)' = SumFunctionOnSet(g, Cached')
  <2>1. Cached' \cap Cached' = Cached'
    OBVIOUS
  <2> QED BY <2>1 DEF BytesOf, Size
<1>7. bytes' <= MaxBytes
  BY <1>4, LibCacheAssumption DEF CacheInv, CacheTypeOK
<1> QED BY <1>2, <1>3, <1>4, <1>5, <1>6, <1>7 DEF CacheInv, CacheTypeOK

LEMMA PutSound ==
    ASSUME CacheInv, NEW key \in Key, NEW reply \in Reply, Put(key, reply)
    PROVE  CacheInv'
<1> DEFINE out == Displaced(key, reply.size)
           e == [reply |-> reply, fresh |-> TRUE]
<1>1. key \in out
  BY DEF Displaced
<1> HIDE DEF out
<1>2. CASE UNCHANGED cacheVars
  BY <1>2 DEF cacheVars, CacheInv, CacheTypeOK, Cached, BytesOf
<1>3. CASE Remove(out)
  BY <1>3, RemoveSound
<1>4. CASE /\ idx' = [Forget(out) EXCEPT ![key] = e]
           /\ order' = <<key>> \o Deleted(order, out)
           /\ bytes' = Less(out) + reply.size
           /\ ~(Less(out) + reply.size > MaxBytes)
  <2> DEFINE f == [k \in Cached |-> Size(k)]
             g == [k \in Cached' |-> Size(k)']
             R == Cached \ out
  <2>1. \A k \in Key : idx'[k] = IF k = key THEN e ELSE IF k \in out THEN None ELSE idx[k]
    BY <1>4 DEF Forget
  <2>2. e \in Entry /\ e # None
    <3>1. e \in Entry
      BY DEF Entry
    <3>2. e # None
      BY NoneIsNothing, <3>1
    <3> QED BY <3>1, <3>2
  <2>3. idx' \in [Key -> Entry \cup {None}]
    <3>1. Forget(out) \in [Key -> Entry \cup {None}]
      BY DEF CacheInv, CacheTypeOK, Forget
    <3> QED BY <1>4, <2>2, <3>1
  <2>4. Cached' = R \cup {key} /\ key \notin R
    BY <1>1, <2>1, <2>2 DEF Cached
  <2>5. order' \in Seq(Key) /\ Range(order') = Cached' /\ Distinct(order')
    <3> DEFINE rest == Deleted(order, out)
    <3>1. rest \in Seq(Key) /\ Range(rest) = R /\ Distinct(rest)
      BY DeletedFacts DEF CacheInv, CacheTypeOK
    <3> HIDE DEF rest
    <3>2. /\ <<key>> \o rest \in Seq(Key) /\ Range(<<key>> \o rest) = {key} \cup Range(rest)
          /\ Distinct(<<key>> \o rest)
      BY <2>4, <3>1, ConsFacts
    <3> QED BY <1>4, <2>4, <3>1, <3>2 DEF rest
  <2>6. /\ Less(out) = SumFunctionOnSet(f, R) /\ Less(out) \in Nat
    BY LessFacts
  <2>7. /\ IsFiniteSet(R) /\ \A k \in R : f[k] = g[k] /\ g[k] \in Nat
        /\ g[key] = reply.size /\ g[key] \in Nat
    <3>1. IsFiniteSet(R)
      BY CacheFacts, FS_Subset
    <3>2. \A k \in R : idx'[k] = idx[k] /\ k \in Cached /\ k \in Cached'
      BY <2>1, <2>4 DEF Cached
    <3>3. \A k \in R : f[k] = g[k] /\ g[k] \in Nat
      BY <3>2, CacheFacts DEF Size
    <3>4. g[key] = reply.size /\ reply.size \in Nat
      <4>1. idx'[key] = e /\ key \in Cached'
        BY <2>1, <2>4
      <4>2. g[key] = reply.size
        BY <4>1 DEF Size
      <4>3. reply.size \in Nat
        BY LibCacheAssumption DEF Reply
      <4> QED BY <4>2, <4>3
    <3> QED BY <3>1, <3>3, <3>4
  <2>8. BytesOf(Cached)' = SumFunctionOnSet(g, R \cup {key})
    <3>1. Cached' \cap Cached' = R \cup {key}
      BY <2>4
    <3> QED BY <3>1 DEF BytesOf, Size
  <2> HIDE DEF f, g, R
  <2>9. SumFunctionOnSet(g, R \cup {key}) = SumFunctionOnSet(g, R) + g[key]
    BY <2>4, <2>7, SumAdd
  <2>10. SumFunctionOnSet(f, R) = SumFunctionOnSet(g, R)
    BY <2>7, SumSame
  <2>11. bytes' = BytesOf(Cached)' /\ bytes' \in Nat /\ bytes' <= MaxBytes
    BY <1>4, <2>6, <2>7, <2>8, <2>9, <2>10, LibCacheAssumption
  <2> QED BY <2>3, <2>5, <2>11 DEF CacheInv, CacheTypeOK
<1> QED BY <1>2, <1>3, <1>4 DEF Put, out

LEMMA StoreSound ==
    ASSUME CacheInv, NEW key \in Key, NEW reply \in Reply, Store(key, reply)
    PROVE  CacheInv'
<1>1. CASE UNCHANGED cacheVars
  BY <1>1 DEF cacheVars, CacheInv, CacheTypeOK, Cached, BytesOf
<1>2. CASE Put(key, reply)
  BY <1>2, PutSound
<1> QED BY <1>1, <1>2 DEF Store

LEMMA HitSound ==
    ASSUME CacheInv, NEW key \in Key, GetHit(key)
    PROVE  CacheInv'
<1>1. /\ UNCHANGED <<idx, bytes>> /\ key \in Cached
      /\ order' = <<key>> \o Deleted(order, {key})
  BY DEF GetHit, IsHit, Cached
<1> DEFINE rest == Deleted(order, {key})
<1>2. rest \in Seq(Key) /\ Range(rest) = Cached \ {key} /\ Distinct(rest)
  BY DeletedFacts DEF CacheInv, CacheTypeOK
<1>3. order' = <<key>> \o rest
  BY <1>1
<1> HIDE DEF rest
<1>4. order' \in Seq(Key) /\ Range(order') = Cached /\ Distinct(order')
  <2>1. key \notin Range(rest) /\ {key} \cup Range(rest) = Cached
    BY <1>1, <1>2
  <2> QED BY <1>2, <1>3, <2>1, ConsFacts
<1> QED BY <1>1, <1>4 DEF CacheInv, CacheTypeOK, Cached, BytesOf

LEMMA ExpireSound ==
    ASSUME CacheInv, Expire
    PROVE  CacheInv'
<1>1. PICK k \in Cached : idx' = [idx EXCEPT ![k].fresh = FALSE]
  BY DEF Expire
<1> DEFINE e == [idx[k] EXCEPT !.fresh = FALSE]
           f == [q \in Cached |-> Size(q)]
           g == [q \in Cached' |-> Size(q)']
<1>2. k \in Key /\ idx[k] \in Entry /\ idx[k] # None
  BY CacheFacts DEF Cached
<1>3. e \in Entry /\ e.reply = idx[k].reply /\ e # None
  <2>1. e \in Entry /\ e.reply = idx[k].reply
    BY <1>2 DEF Entry
  <2> QED BY <2>1, NoneIsNothing
<1>4. idx' = [idx EXCEPT ![k] = e] /\ idx' \in [Key -> Entry \cup {None}]
  BY <1>1, <1>2, <1>3 DEF CacheInv, CacheTypeOK
<1>5. \A q \in Key : idx'[q] = IF q = k THEN e ELSE idx[q]
  BY <1>4 DEF CacheInv, CacheTypeOK
<1> HIDE DEF e
<1>6. Cached' = Cached
  BY <1>2, <1>3, <1>5 DEF Cached
<1>7. f = g
  BY <1>3, <1>5, <1>6, CacheFacts DEF Size
<1>8. BytesOf(Cached)' = BytesOf(Cached)
  BY <1>6, <1>7 DEF BytesOf, Size
<1>9. UNCHANGED <<order, bytes>>
  BY DEF Expire
<1> QED BY <1>4, <1>6, <1>8, <1>9 DEF CacheInv, CacheTypeOK

LEMMA NextCacheInv ==
    ASSUME LibraryInv, CacheInv, [Next]_vars
    PROVE  CacheInv'
<1>1. ASSUME UNCHANGED cacheVars
      PROVE  CacheInv'
  BY <1>1 DEF cacheVars, CacheInv, CacheTypeOK, Cached, BytesOf
<1>2. ASSUME NEW r \in Requests, LookupHit(r) \/ LookupMiss(r)
      PROVE  CacheInv'
  <2>1. call[r].key \in Key
    BY <1>2, CallFacts DEF LookupHit, LookupMiss, CallOwn
  <2>2. CASE LookupHit(r)
    BY <2>1, <2>2, HitSound DEF LookupHit
  <2>3. CASE LookupMiss(r)
    BY <1>1, <2>3, RemoveSound DEF LookupMiss, GetMiss
  <2> QED BY <1>2, <2>2, <2>3
<1>3. ASSUME NEW r \in Requests, StoreReply(r)
      PROVE  CacheInv'
  <2>1. call[r].key \in Key /\ call[r].reply \in Reply
    BY <1>3, CallFacts DEF StoreReply, CallOwn
  <2> QED BY <1>3, <2>1, StoreSound DEF StoreReply
<1>4. ASSUME NEW r \in Requests, Invalidate(r)
      PROVE  CacheInv'
  BY <1>4, RemoveSound DEF Invalidate, DropToken
<1>5. ASSUME NEW t \in Tokens, WarmStore(t)
      PROVE  CacheInv'
  <2>1. WarmKey(t) \in Key /\ warm[t].reply \in Reply
    BY <1>5, WarmFacts DEF WarmStore, WarmOwn
  <2> QED BY <1>5, <2>1, StoreSound DEF WarmStore
<1>6. CASE EntryExpires
  BY <1>6, ExpireSound DEF EntryExpires
<1>7. ASSUME NEW r \in Requests,
             \/ ArriveRead(r) \/ ArriveWrite(r) \/ Leave(r) \/ Acquire(r) \/ Lead(r) \/ Follow(r)
             \/ AcquireCancelled(r) \/ HopAnswered(r) \/ HopFails(r) \/ Release(r) \/ Deliver(r)
             \/ Return(r) \/ WriteAnswered(r) \/ WriteUnanswered(r) \/ WriteRefused(r)
      PROVE  UNCHANGED cacheVars
  BY <1>7 DEF ArriveRead, ArriveWrite, Leave, Acquire, Lead, Follow, AcquireCancelled,
     HopAnswered, HopFails, Release, Deliver, Return, WriteAnswered, WriteUnanswered, WriteRefused
<1>8. ASSUME NEW t \in Tokens, WarmStart(t) \/ WarmAnswered(t) \/ WarmFails(t)
      PROVE  UNCHANGED cacheVars
  BY <1>8 DEF WarmStart, WarmAnswered, WarmFails
<1>9. CASE UNCHANGED vars
  BY <1>1, <1>9 DEF vars
<1> QED BY <1>1, <1>2, <1>3, <1>4, <1>5, <1>6, <1>7, <1>8, <1>9 DEF Next, Handle, WarmUp

LEMMA InitCacheInv == Init => CacheInv
<1> SUFFICES ASSUME Init PROVE CacheInv
  OBVIOUS
<1>1. idx = [k \in Key |-> None] /\ order = <<>> /\ bytes = 0
  BY DEF Init, CacheInit
<1>2. Cached = {} /\ Range(order) = {} /\ Distinct(order) /\ order \in Seq(Key)
  BY <1>1 DEF Cached, Range, Distinct
<1>3. BytesOf(Cached) = 0
  <2>1. Cached \cap Cached = {}
    BY <1>2
  <2> QED BY <2>1, SumEmpty DEF BytesOf
<1> QED BY <1>1, <1>2, <1>3, LibCacheAssumption DEF CacheInv, CacheTypeOK

-----------------------------------------------------------------------------
(* Freshness. *)

\* An answer older than an acknowledged write was overtaken by it.
FreshFor(reply, key) == reply.version < Acked(key) => reply.late

EntryFresh(k) == idx[k] # None => FreshFor(idx[k].reply, k)
WarmFresh(t)  == warm[t].pc = "store" => FreshFor(warm[t].reply, WarmKey(t))

CallFresh(c) ==
    /\ c.pc = "invalidate" => c.floor <= version[c.key.backend]
    /\ c.pc \notin {"idle", "write", "invalidate", "done"} => c.floor <= Acked(c.key)
    /\ c.pc \in {"store", "release", "deliver"} /\ c.reply # None => FreshFor(c.reply, c.key)
    /\ c.pc = "done" /\ c.reply # None => c.reply.version >= c.floor \/ c.reply.late

\* What is acknowledged took place, and whatever may yet be stored or given to a
\* client is no older than what is acknowledged, or was marked.
FreshInv ==
    /\ \A b \in Backends, t \in Tokens : acked[b][t] <= version[b]
    /\ \A k \in Key : EntryFresh(k)
    /\ \A r \in Requests : CallFresh(call[r])
    /\ \A t \in Tokens : WarmFresh(t)

LEMMA InitFreshInv == Init => FreshInv
<1> SUFFICES ASSUME Init PROVE FreshInv
  OBVIOUS
<1>1. \A b \in Backends, t \in Tokens : acked[b][t] = 0 /\ version[b] = 0
  BY DEF Init
<1>2. \A k \in Key : EntryFresh(k)
  BY DEF Init, CacheInit, EntryFresh
<1>3. \A r \in Requests : CallFresh(call[r])
  BY DEF Init, Idle, CallFresh
<1>4. \A t \in Tokens : WarmFresh(t)
  BY DEF Init, WarmOff, WarmFresh
<1> QED BY <1>1, <1>2, <1>3, <1>4 DEF FreshInv

\* What a backend answers is as new as anything that was acknowledged.
LEMMA AckedFacts ==
    ASSUME LibraryInv, FreshInv, NEW key \in Key
    PROVE  /\ Acked(key) \in Nat /\ version[key.backend] \in Nat
           /\ Acked(key) <= version[key.backend]
<1>1. key.backend \in Backends /\ (key.token # None => key.token \in Tokens)
  BY DEF Key
<1>2. version \in [Backends -> Nat] /\ acked \in [Backends -> [Tokens -> Nat]]
  BY DEF LibraryInv, DataTypeOK
<1> QED BY <1>1, <1>2 DEF FreshInv, Acked

LEMMA AnswerIsFresh ==
    ASSUME LibraryInv, FreshInv, NEW key \in Key, NEW a \in Answers(key)
    PROVE  FreshFor(a, key)
<1>1. a.version = version[key.backend]
  BY DEF Answers
<1> QED BY <1>1, AckedFacts DEF FreshFor

LEMMA PutFresh ==
    ASSUME LibraryInv, FreshInv, NEW key \in Key, NEW reply \in Reply,
           Store(key, reply), FreshFor(reply, key), UNCHANGED acked
    PROVE  \A k \in Key : EntryFresh(k)'
<1> DEFINE out == Displaced(key, reply.size)
<1>1. idx \in [Key -> Entry \cup {None}] /\ \A k \in Key : EntryFresh(k)
  BY DEF LibraryInv, DataTypeOK, FreshInv
<1> HIDE DEF out
<1>2. CASE UNCHANGED cacheVars
  BY <1>1, <1>2 DEF EntryFresh, FreshFor, Acked, cacheVars
<1>3. CASE Remove(out)
  BY <1>1, <1>3 DEF EntryFresh, FreshFor, Acked, Remove, Forget
<1>4. CASE idx' = [Forget(out) EXCEPT ![key] = [reply |-> reply, fresh |-> TRUE]]
  <2>1. \A k \in Key : idx'[k] = IF k = key THEN [reply |-> reply, fresh |-> TRUE]
                                 ELSE IF k \in out THEN None ELSE idx[k]
    BY <1>4 DEF Forget
  <2> QED BY <1>1, <2>1 DEF EntryFresh, FreshFor, Acked
<1> QED BY <1>2, <1>3, <1>4 DEF Store, Put, out

\* Entries that are kept as they are, expire or go.
LEMMA FewerFresh ==
    ASSUME FreshInv, UNCHANGED acked,
           \A k \in Key : idx'[k] = None \/ (idx[k] # None /\ idx'[k].reply = idx[k].reply)
    PROVE  \A k \in Key : EntryFresh(k)'
  BY DEF FreshInv, EntryFresh, FreshFor, Acked

\* A step of one handler.
LEMMA CallStepFresh ==
    ASSUME LibraryInv, FreshInv, UNCHANGED <<version, acked, warm>>,
           \A k \in Key : EntryFresh(k)', NEW r \in Requests, NEW c,
           call' = [call EXCEPT ![r] = c], CallFresh(c)
    PROVE  FreshInv'
<1>1. call \in [Requests -> CallType]
  BY DEF LibraryInv, DataTypeOK
<1>2. \A q \in Requests : call'[q] = IF q = r THEN c ELSE call[q]
  BY <1>1
<1>3. \A q \in Requests : CallFresh(call[q])'
  BY <1>2 DEF FreshInv, CallFresh, FreshFor, Acked
<1>4. \A t \in Tokens : WarmFresh(t)'
  BY DEF FreshInv, WarmFresh, FreshFor, Acked, WarmKey
<1> QED BY <1>3, <1>4 DEF FreshInv

LEMMA SameFresh ==
    ASSUME FreshInv, UNCHANGED <<version, acked, warm, call>>, \A k \in Key : EntryFresh(k)'
    PROVE  FreshInv'
  BY DEF FreshInv, CallFresh, WarmFresh, FreshFor, Acked, WarmKey

LEMMA SameEntriesFresh ==
    ASSUME FreshInv, UNCHANGED <<idx, acked>>
    PROVE  \A k \in Key : EntryFresh(k)'
  BY DEF FreshInv, EntryFresh, FreshFor, Acked

\* Steps of a read that change its own record only.
LEMMA ReadFresh ==
    ASSUME LibraryInv, FreshInv, NEW r \in Requests,
           \/ ArriveRead(r) \/ ArriveWrite(r) \/ Leave(r) \/ Acquire(r) \/ Return(r)
           \/ LookupHit(r) \/ LookupMiss(r) \/ Lead(r) \/ Follow(r) \/ AcquireCancelled(r)
           \/ HopAnswered(r) \/ HopFails(r) \/ StoreReply(r) \/ Release(r) \/ WriteRefused(r)
    PROVE  FreshInv'
<1>1. /\ call[r] \in CallType /\ CallOwn(call[r]) /\ CallFresh(call[r])
      /\ call \in [Requests -> CallType]
  BY CallFacts DEF FreshInv
<1>2. CASE ArriveRead(r)
  <2>1. PICK key \in Reads :
          call' = [call EXCEPT ![r] = [Idle EXCEPT !.pc = "lookup", !.key = key,
                                                   !.floor = Acked(key)]]
    BY <1>2 DEF ArriveRead
  <2> DEFINE c == [Idle EXCEPT !.pc = "lookup", !.key = key, !.floor = Acked(key)]
  <2>2. c.pc = "lookup" /\ c.key = key /\ c.floor = Acked(key) /\ c.reply = None
    BY DEF Idle
  <2>3. Acked(key) \in Nat
    BY AckedFacts, LibraryAssumption
  <2> HIDE DEF c
  <2>4. CallFresh(c)
    BY <2>2, <2>3 DEF CallFresh
  <2>5. call' = [call EXCEPT ![r] = c] /\ UNCHANGED <<idx, version, acked, warm>>
    BY <1>2, <2>1 DEF c, ArriveRead, cacheVars, dataVars
  <2> QED BY <2>4, <2>5, SameEntriesFresh, CallStepFresh
<1>3. CASE ArriveWrite(r)
  <2>1. PICK key \in Target : call' = [call EXCEPT ![r] = [Idle EXCEPT !.pc = "write", !.key = key]]
    BY <1>3 DEF ArriveWrite
  <2> DEFINE c == [Idle EXCEPT !.pc = "write", !.key = key]
  <2>2. c.pc = "write"
    BY DEF Idle
  <2> HIDE DEF c
  <2>3. CallFresh(c)
    BY <2>2 DEF CallFresh
  <2>4. call' = [call EXCEPT ![r] = c] /\ UNCHANGED <<idx, version, acked, warm>>
    BY <1>3, <2>1 DEF c, ArriveWrite, cacheVars, dataVars
  <2> QED BY <2>3, <2>4, SameEntriesFresh, CallStepFresh
<1>4. ASSUME UNCHANGED <<idx, version, acked, warm>>, NEW pc,
             call' = [call EXCEPT ![r] = [call[r] EXCEPT !.pc = pc]],
             call[r].pc \notin {"idle", "write", "invalidate", "done"},
             pc \in {"join", "wait", "acquire", "hop", "release", "deliver"},
             pc \in {"release", "deliver"} =>
               call[r].pc \in {"store", "release"} \/ call[r].reply = None
      PROVE  FreshInv'
  <2> DEFINE c == [call[r] EXCEPT !.pc = pc]
  <2>1. c.pc = pc /\ c.key = call[r].key /\ c.floor = call[r].floor /\ c.reply = call[r].reply
    BY <1>1 DEF CallType
  <2>2. call' = [call EXCEPT ![r] = c]
    BY <1>4
  <2> HIDE DEF c
  <2>3. CallFresh(c)
    BY <1>1, <1>4, <2>1 DEF CallFresh
  <2> QED BY <1>4, <2>2, <2>3, SameEntriesFresh, CallStepFresh
<1>5. CASE Leave(r)
  <2> DEFINE c == [call[r] EXCEPT !.gone = TRUE]
  <2>1. c.pc = call[r].pc /\ c.key = call[r].key /\ c.floor = call[r].floor /\ c.reply = call[r].reply
    BY <1>1 DEF CallType
  <2>2. call' = [call EXCEPT ![r] = c] /\ UNCHANGED <<idx, version, acked, warm>>
    BY <1>1, <1>5 DEF Leave, cacheVars, dataVars
  <2> HIDE DEF c
  <2>3. CallFresh(c)
    BY <1>1, <2>1 DEF CallFresh
  <2> QED BY <2>2, <2>3, SameEntriesFresh, CallStepFresh
<1>6. CASE Acquire(r) \/ Lead(r) \/ Follow(r) \/ AcquireCancelled(r) \/ HopFails(r) \/ Release(r)
  <2>1. PICK pc \in {"wait", "acquire", "hop", "release", "deliver"} :
          /\ call' = [call EXCEPT ![r].pc = pc]
          /\ pc \in {"release", "deliver"} =>
               call[r].pc \in {"store", "release"} \/ call[r].reply = None
    BY <1>1, <1>6 DEF Acquire, Lead, Follow, AcquireCancelled, HopFails, Release, Goto, CallOwn
  <2>2. /\ UNCHANGED <<idx, version, acked, warm>>
        /\ call[r].pc \notin {"idle", "write", "invalidate", "done"}
    BY <1>6 DEF Acquire, Lead, Follow, AcquireCancelled, HopFails, Release, cacheVars, dataVars
  <2>3. call' = [call EXCEPT ![r] = [call[r] EXCEPT !.pc = pc]]
    BY <1>1, <2>1
  <2> QED BY <1>4, <2>1, <2>2, <2>3
<1>7. CASE Return(r) \/ WriteRefused(r)
  <2>1. call' = [call EXCEPT ![r] = Idle] /\ UNCHANGED <<idx, version, acked, warm>>
    BY <1>7 DEF Return, WriteRefused, Finish, cacheVars, dataVars
  <2>2. CallFresh(Idle)
    BY DEF CallFresh, Idle
  <2> QED BY <2>1, <2>2, SameEntriesFresh, CallStepFresh
<1>8. CASE LookupHit(r)
  <2> DEFINE k == call[r].key
             c == [call[r] EXCEPT !.pc = "done", !.reply = idx[k].reply]
  <2>1. /\ call[r].pc = "lookup" /\ k \in Key /\ idx[k] # None /\ idx[k] \in Entry
        /\ UNCHANGED <<idx, version, acked, warm>>
    BY <1>1, <1>8, CallFacts DEF LookupHit, GetHit, IsHit, CallOwn, dataVars
  <2>2. c.pc = "done" /\ c.floor = call[r].floor /\ c.reply = idx[k].reply
    BY <1>1 DEF CallType
  <2>3. call' = [call EXCEPT ![r] = c]
    BY <1>1, <1>8 DEF LookupHit
  <2>4. /\ call[r].floor <= Acked(k) /\ call[r].floor \in Nat /\ Acked(k) \in Nat
        /\ idx[k].reply.version \in Nat /\ FreshFor(idx[k].reply, k)
    <3>1. call[r].floor <= Acked(k) /\ call[r].floor \in Nat
      BY <1>1, <2>1 DEF CallFresh, CallType
    <3>2. idx[k].reply.version \in Nat
      BY <2>1 DEF Entry, Reply
    <3>3. FreshFor(idx[k].reply, k)
      BY <2>1 DEF FreshInv, EntryFresh
    <3>4. Acked(k) \in Nat
      BY <2>1, AckedFacts
    <3> QED BY <3>1, <3>2, <3>3, <3>4
  <2> HIDE DEF c, k
  <2>5. CallFresh(c)
    BY <2>2, <2>4 DEF CallFresh, FreshFor
  <2> QED BY <2>1, <2>3, <2>5, SameEntriesFresh, CallStepFresh
<1>9. CASE LookupMiss(r)
  <2> DEFINE pc == IF coalesce THEN "join" ELSE "acquire"
             c == [call[r] EXCEPT !.pc = pc]
  <2>1. /\ call[r].pc = "lookup" /\ UNCHANGED <<version, acked, warm>>
        /\ call' = [call EXCEPT ![r] = c]
    BY <1>1, <1>9 DEF LookupMiss, Goto, dataVars
  <2>2. /\ c.pc \in {"join", "acquire"} /\ c.key = call[r].key /\ c.floor = call[r].floor
        /\ c.reply = call[r].reply
    BY <1>1 DEF CallType
  <2> HIDE DEF c
  <2>3. CallFresh(c)
    BY <1>1, <2>1, <2>2 DEF CallFresh
  <2>4. \A k \in Key : EntryFresh(k)'
    <3>1. CASE UNCHANGED cacheVars
      BY <2>1, <3>1, SameEntriesFresh DEF cacheVars
    <3>2. CASE GetMiss(call[r].key)
      BY <2>1, <3>2, FewerFresh DEF GetMiss, Remove, Forget
    <3> QED BY <1>9, <3>1, <3>2 DEF LookupMiss
  <2> QED BY <2>1, <2>3, <2>4, CallStepFresh
<1>10. CASE HopAnswered(r)
  <2>1. PICK a \in Answers(call[r].key) :
          call' = [call EXCEPT ![r].pc = "store", ![r].reply = a]
    BY <1>10 DEF HopAnswered
  <2> DEFINE c == [call[r] EXCEPT !.pc = "store", !.reply = a]
  <2>2. /\ call[r].pc = "hop" /\ call[r].key \in Key /\ UNCHANGED <<idx, version, acked, warm>>
    BY <1>1, <1>10 DEF HopAnswered, CallOwn, cacheVars, dataVars
  <2>3. c.pc = "store" /\ c.key = call[r].key /\ c.floor = call[r].floor /\ c.reply = a
    BY <1>1 DEF CallType
  <2>4. call' = [call EXCEPT ![r] = c]
    BY <1>1, <2>1
  <2> HIDE DEF c
  <2>5. FreshFor(a, call[r].key)
    BY <2>2, AnswerIsFresh
  <2>6. CallFresh(c)
    BY <1>1, <2>2, <2>3, <2>5 DEF CallFresh
  <2> QED BY <2>2, <2>4, <2>6, SameEntriesFresh, CallStepFresh
<1>11. CASE StoreReply(r)
  <2> DEFINE c == [call[r] EXCEPT !.pc = "release"]
  <2>1. /\ call[r].pc = "store" /\ call[r].key \in Key /\ call[r].reply \in Reply
        /\ call[r].reply # None
        /\ Store(call[r].key, call[r].reply) /\ UNCHANGED <<version, acked, warm>>
        /\ call' = [call EXCEPT ![r] = c]
    BY <1>1, <1>11, NoneIsNothing DEF StoreReply, Goto, CallOwn, dataVars
  <2>2. /\ c.pc = "release" /\ c.key = call[r].key /\ c.floor = call[r].floor
        /\ c.reply = call[r].reply
    BY <1>1 DEF CallType
  <2> HIDE DEF c
  <2>3. FreshFor(call[r].reply, call[r].key)
    BY <1>1, <2>1 DEF CallFresh
  <2>4. CallFresh(c)
    BY <1>1, <2>1, <2>2 DEF CallFresh
  <2>5. \A k \in Key : EntryFresh(k)'
    BY <2>1, <2>3, PutFresh
  <2> QED BY <2>1, <2>4, <2>5, CallStepFresh
<1> QED BY <1>2, <1>3, <1>5, <1>6, <1>7, <1>8, <1>9, <1>10, <1>11

LEMMA DeliverFresh ==
    ASSUME LibraryInv, FreshInv, NEW r \in Requests, Deliver(r)
    PROVE  FreshInv'
<1> DEFINE a == call[r].reply
<1>1. /\ call[r].pc = "deliver" /\ call[r].key \in Key /\ UNCHANGED <<idx, version, acked, warm>>
      /\ call[r] \in CallType
  BY CallFacts DEF Deliver, CallOwn, cacheVars, dataVars
<1>2. a # None => a \in Reply /\ FreshFor(a, call[r].key)
  BY <1>1 DEF FreshInv, CallFresh, CallType
<1>3. ASSUME NEW q \in Requests
      PROVE  CallFresh(call'[q])
  <2>1. call[q] \in CallType /\ CallOwn(call[q]) /\ CallFresh(call[q])
    BY CallFacts DEF FreshInv
  <2>2. CASE q \in Sharers(r)
    <3> DEFINE c == [call[q] EXCEPT !.pc = "done", !.reply = a]
    <3>1. call'[q] = c
      BY <2>2 DEF Deliver
    <3>2. c.pc = "done" /\ c.floor = call[q].floor /\ c.reply = a
      BY <2>1 DEF CallType
    <3>3. call[q].pc \in {"wait", "deliver"} /\ call[q].key = call[r].key
      BY <1>1, <2>2 DEF Sharers, FlightKey
    <3>4. call[q].floor <= Acked(call[r].key) /\ call[q].floor \in Nat
          /\ Acked(call[r].key) \in Nat
      BY <1>1, <2>1, <3>3, AckedFacts DEF CallFresh, CallType
    <3> HIDE DEF c, a
    <3>5. a # None => a.version >= call[q].floor \/ a.late
      <4>1. a \in Reply => a.version \in Nat
        BY DEF Reply
      <4> QED BY <1>2, <3>4, <4>1 DEF FreshFor
    <3> QED BY <3>1, <3>2, <3>5 DEF CallFresh
  <2>3. CASE q \notin Sharers(r)
    <3>1. call'[q] = call[q]
      BY <2>3 DEF Deliver
    <3> QED BY <2>1, <3>1
  <2> QED BY <2>2, <2>3
<1>4. \A q \in Requests : CallFresh(call[q])'
  BY <1>1, <1>3 DEF CallFresh, FreshFor, Acked
<1>5. (\A t \in Tokens : WarmFresh(t)') /\ (\A k \in Key : EntryFresh(k)')
  BY <1>1, SameEntriesFresh DEF FreshInv, WarmFresh, FreshFor, Acked, WarmKey
<1> QED BY <1>1, <1>4, <1>5 DEF FreshInv

\* A write that the backend has taken.
LEMMA WriteFresh ==
    ASSUME LibraryInv, FreshInv, NEW r \in Requests, WriteAnswered(r) \/ WriteUnanswered(r)
    PROVE  FreshInv'
<1> DEFINE b == call[r].key.backend
<1>1. /\ call[r].pc = "write" /\ b \in Backends /\ call[r] \in CallType
      /\ call \in [Requests -> CallType] /\ version \in [Backends -> Nat]
      /\ acked \in [Backends -> [Tokens -> Nat]]
  BY CallFacts DEF WriteAnswered, WriteUnanswered, CallOwn, Target
<1>2. UNCHANGED <<idx, acked, warm>> /\ version' = [version EXCEPT ![b] = @ + 1]
  BY DEF WriteAnswered, WriteUnanswered, BumpVersion, cacheVars
<1>3. \A d \in Backends : version'[d] \in Nat /\ version[d] \in Nat /\ version[d] <= version'[d]
  BY <1>1, <1>2
<1>4. \A d \in Backends, t \in Tokens : acked'[d][t] <= version'[d]
  <2> TAKE d \in Backends, t \in Tokens
  <2>1. acked[d][t] <= version[d] /\ acked[d][t] \in Nat
    BY <1>1 DEF FreshInv
  <2> QED BY <1>2, <1>3, <2>1
<1>5. \E c : /\ call' = [call EXCEPT ![r] = c]
             /\ \/ c.pc = "invalidate" /\ c.key = call[r].key /\ c.floor = version'[b]
                \/ c.pc = "idle"
  <2>1. CASE WriteAnswered(r)
    <3> DEFINE c == [call[r] EXCEPT !.pc = "invalidate", !.floor = version[b] + 1]
    <3>1. call' = [call EXCEPT ![r] = c]
      BY <1>1, <2>1 DEF WriteAnswered
    <3>2. c.pc = "invalidate" /\ c.key = call[r].key /\ c.floor = version[b] + 1
      BY <1>1 DEF CallType
    <3>3. version'[b] = version[b] + 1
      BY <1>1, <1>2
    <3> QED BY <3>1, <3>2, <3>3
  <2>2. CASE WriteUnanswered(r)
    <3>1. call' = [call EXCEPT ![r] = Idle] /\ Idle.pc = "idle"
      BY <2>2 DEF WriteUnanswered, Finish, Idle
    <3> QED BY <3>1
  <2> QED BY <2>1, <2>2
<1>6. PICK c : /\ call' = [call EXCEPT ![r] = c]
               /\ \/ c.pc = "invalidate" /\ c.key = call[r].key /\ c.floor = version'[b]
                  \/ c.pc = "idle"
  BY <1>5
<1>7. \A q \in Requests : CallFresh(call[q])'
  <2> TAKE q \in Requests
  <2>1. CASE q = r
    <3>1. call'[q] = c
      BY <1>1, <1>6, <2>1
    <3> QED BY <1>1, <1>3, <1>6, <3>1 DEF CallFresh
  <2>2. CASE q # r
    <3>1. call'[q] = call[q] /\ CallFresh(call[q]) /\ CallOwn(call[q]) /\ call[q] \in CallType
      BY <1>1, <1>6, <2>2, CallFacts DEF FreshInv
    <3>2. call[q].pc = "invalidate" =>
            call[q].key.backend \in Backends /\ call[q].floor \in Nat
            /\ call[q].floor <= version[call[q].key.backend]
      BY <3>1 DEF CallOwn, CallFresh, CallType, Target
    <3>3. call[q].pc = "invalidate" => call[q].floor <= version'[call[q].key.backend]
      BY <1>3, <3>2
    <3> QED BY <1>2, <3>1, <3>3 DEF CallFresh, FreshFor, Acked
  <2> QED BY <2>1, <2>2
<1>8. (\A t \in Tokens : WarmFresh(t)') /\ (\A k \in Key : EntryFresh(k)')
  BY <1>2, SameEntriesFresh DEF FreshInv, WarmFresh, FreshFor, Acked, WarmKey
<1> QED BY <1>4, <1>7, <1>8 DEF FreshInv

\* The answer to a write goes out: the token's entries are gone, and what is in
\* hand for it is marked.
LEMMA InvalidateFresh ==
    ASSUME LibraryInv, FreshInv, NEW r \in Requests, Invalidate(r)
    PROVE  FreshInv'
<1> DEFINE b == call[r].key.backend
           t == call[r].key.token
           f == call[r].floor
<1>1. /\ call[r].pc = "invalidate" /\ b \in Backends /\ t \in Tokens /\ t # None
      /\ f \in Nat /\ f <= version[b] /\ call[r] \in CallType
      /\ call \in [Requests -> CallType] /\ version \in [Backends -> Nat]
      /\ acked \in [Backends -> [Tokens -> Nat]]
  BY CallFacts, LibCacheAssumption DEF Invalidate, CallOwn, CallType, Target, FreshInv, CallFresh
<1>2. /\ UNCHANGED version
      /\ acked' = [acked EXCEPT ![b][t] = IF @ < f THEN f ELSE @]
  BY DEF Invalidate
<1> HIDE DEF b, t, f
<1>3. ASSUME NEW d \in Backends, NEW u \in Tokens
      PROVE  /\ acked'[d][u] \in Nat /\ acked[d][u] \in Nat /\ acked[d][u] <= acked'[d][u]
             /\ acked'[d][u] <= version[d]
             /\ d # b \/ u # t => acked'[d][u] = acked[d][u]
  <2>1. acked[d][u] \in Nat /\ acked[d][u] <= version[d] /\ version[d] \in Nat
    BY <1>1 DEF FreshInv
  <2> QED BY <1>1, <1>2, <2>1
<1>4. ASSUME NEW k \in Key
      PROVE  /\ Acked(k) \in Nat /\ Acked(k)' \in Nat /\ Acked(k) <= Acked(k)'
             /\ k.backend # b \/ k.token # t => Acked(k)' = Acked(k)
  <2>1. k.backend \in Backends /\ (k.token = None \/ k.token \in Tokens)
    BY DEF Key
  <2> QED BY <1>3, <2>1 DEF Acked
<1>5. \A k \in Key : EntryFresh(k)'
  <2> TAKE k \in Key
  <2>1. idx'[k] = IF k.backend = b /\ k.token = t THEN None ELSE idx[k]
    BY DEF Invalidate, DropToken, Remove, Forget, KeysOf, b, t
  <2>2. EntryFresh(k)
    BY DEF FreshInv
  <2> QED BY <1>4, <2>1, <2>2 DEF EntryFresh, FreshFor
<1>6. \A q \in Requests : CallFresh(call[q])'
  <2> TAKE q \in Requests
  <2>1. call[q] \in CallType /\ CallOwn(call[q]) /\ CallFresh(call[q])
    BY CallFacts DEF FreshInv
  <2>2. call'[q] = CASE q = r -> Idle
                     [] InHand(call[q], b, t) -> [call[q] EXCEPT !.reply.late = TRUE]
                     [] OTHER -> call[q]
    BY DEF Invalidate, b, t
  <2>3. CASE q = r
    <3>1. call'[q] = Idle
      BY <2>2, <2>3, <1>1 DEF InHand
    <3> QED BY <3>1 DEF Idle, CallFresh
  <2>4. CASE q # r /\ InHand(call[q], b, t)
    <3> DEFINE c == [call[q] EXCEPT !.reply.late = TRUE]
    <3>1. call'[q] = c
      BY <2>2, <2>4
    <3>2. call[q].reply \in Reply /\ call[q].pc \in {"store", "release", "deliver"}
          /\ call[q].key \in Key
      BY <2>1, <2>4 DEF InHand, CallType, CallOwn
    <3>3. c.pc = call[q].pc /\ c.key = call[q].key /\ c.floor = call[q].floor /\ c.reply.late = TRUE
      BY <2>1, <3>2 DEF CallType, Reply
    <3> HIDE DEF c
    <3>4. PICK k \in Key : k = call[q].key
      BY <3>2
    <3>5. call[q].floor <= Acked(k)'
      <4>1. call[q].floor <= Acked(k) /\ call[q].floor \in Nat
        BY <2>1, <3>2, <3>4 DEF CallFresh, CallType
      <4> QED BY <1>4, <4>1
    <3>6. /\ call'[q].pc \in {"store", "release", "deliver"} /\ call'[q].key = k
          /\ call'[q].floor = call[q].floor /\ call'[q].reply.late = TRUE
      BY <3>1, <3>2, <3>3, <3>4
    <3> QED BY <3>5, <3>6 DEF CallFresh, FreshFor, Acked
  <2>5. CASE q # r /\ ~InHand(call[q], b, t)
    <3>1. call'[q] = call[q]
      BY <2>2, <2>5
    <3>2. call[q].pc = "invalidate" => call[q].floor <= version[call[q].key.backend]
      BY <2>1 DEF CallFresh
    <3>3. call[q].pc \notin {"idle", "write", "invalidate", "done"} =>
            call[q].floor <= Acked(call[q].key)'
      <4>1. call[q].pc \notin {"idle", "write", "invalidate", "done"} =>
              call[q].floor <= Acked(call[q].key) /\ call[q].floor \in Nat /\ call[q].key \in Key
        BY <2>1 DEF CallFresh, CallType, CallOwn
      <4>2. SUFFICES ASSUME call[q].pc \notin {"idle", "write", "invalidate", "done"}
                     PROVE  call[q].floor <= Acked(call[q].key)'
        OBVIOUS
      <4>3. PICK k \in Key : k = call[q].key
        BY <4>1, <4>2
      <4>4. call[q].floor <= Acked(k)'
        BY <1>4, <4>1, <4>2, <4>3
      <4>5. Acked(call[q].key)' = Acked(k)'
        BY <3>1, <4>3 DEF Acked
      <4> QED BY <4>4, <4>5
    <3>4. call[q].pc \in {"store", "release", "deliver"} /\ call[q].reply # None =>
            (FreshFor(call[q].reply, call[q].key))'
      <4> SUFFICES ASSUME call[q].pc \in {"store", "release", "deliver"}, call[q].reply # None
                   PROVE  (FreshFor(call[q].reply, call[q].key))'
        OBVIOUS
      <4>1. call[q].key \in Key /\ FreshFor(call[q].reply, call[q].key)
        BY <2>1 DEF CallOwn, CallFresh
      <4>2. call[q].key.backend # b \/ call[q].key.token # t
        BY <2>5 DEF InHand
      <4> QED BY <1>4, <3>1, <4>1, <4>2 DEF FreshFor
    <3> QED BY <1>2, <2>1, <3>1, <3>2, <3>3, <3>4 DEF CallFresh
  <2> QED BY <2>3, <2>4, <2>5
<1>7. \A u \in Tokens : WarmFresh(u)'
  <2> TAKE u \in Tokens
  <2>1. warm \in [Tokens -> WarmType] /\ WarmOwn /\ WarmFresh(u)
    BY DEF LibraryInv, DataTypeOK, FreshInv
  <2>2. warm' = IF warm[t].pc = "store" /\ warm[t].backend = b
                THEN [warm EXCEPT ![t].reply.late = TRUE] ELSE warm
    BY DEF Invalidate, b, t
  <2>3. CASE u = t /\ warm[t].pc = "store" /\ warm[t].backend = b
    <3>1. warm[t].reply \in Reply /\ warm[t] \in WarmType
      BY <1>1, <2>1, <2>3 DEF WarmOwn
    <3>2. warm'[u] = [warm[t] EXCEPT !.reply.late = TRUE]
      BY <1>1, <2>1, <2>2, <2>3
    <3>3. warm'[u].reply.late = TRUE
      BY <3>1, <3>2 DEF WarmType, Reply
    <3> QED BY <3>3 DEF WarmFresh, FreshFor
  <2>4. CASE ~(u = t /\ warm[t].pc = "store" /\ warm[t].backend = b)
    <3>1. warm'[u] = warm[u]
      BY <1>1, <2>1, <2>2, <2>4
    <3>2. SUFFICES ASSUME warm[u].pc = "store"
                   PROVE  (FreshFor(warm[u].reply, WarmKey(u)))'
      BY <3>1 DEF WarmFresh
    <3>3. WarmKey(u) \in Key /\ WarmKey(u)' = WarmKey(u)
      BY <3>1, <3>2, WarmFacts DEF WarmKey
    <3>4. WarmKey(u).backend # b \/ WarmKey(u).token # t
      BY <2>4, <3>2 DEF WarmKey
    <3>5. FreshFor(warm[u].reply, WarmKey(u))
      BY <2>1, <3>2 DEF WarmFresh
    <3>6. Acked(WarmKey(u))' = Acked(WarmKey(u))
      <4> DEFINE k == WarmKey(u)
      <4>1. k \in Key
        BY <3>3
      <4>2. Acked(k)' = Acked(k)
        BY <3>3, <3>4, <1>4
      <4> QED BY <4>2
    <3> QED BY <3>1, <3>3, <3>5, <3>6 DEF FreshFor
  <2> QED BY <2>3, <2>4
<1>8. \A d \in Backends, u \in Tokens : acked'[d][u] <= version'[d]
  BY <1>2, <1>3
<1> QED BY <1>5, <1>6, <1>7, <1>8 DEF FreshInv

LEMMA WarmFreshStep ==
    ASSUME LibraryInv, FreshInv, NEW t \in Tokens, WarmUp(t)
    PROVE  FreshInv'
<1>1. /\ UNCHANGED <<call, version, acked>>
      /\ \A u \in Tokens \ {t} : warm'[u] = warm[u] /\ warm[t] \in WarmType
  BY WarmFacts DEF WarmUp, WarmStart, WarmAnswered, WarmFails, WarmStore, WarmNext,
     handlerVars, dataVars
<1>2. /\ warm \in [Tokens -> WarmType] /\ warm[t] \in WarmType
      /\ warm[t].pc # "off" => WarmKey(t) \in Key
  BY WarmFacts
<1>3. ASSUME warm'[t].pc # "store", \A k \in Key : EntryFresh(k)'
      PROVE  FreshInv'
  <2>1. \A u \in Tokens : WarmFresh(u)'
    BY <1>1, <1>3 DEF FreshInv, WarmFresh, FreshFor, Acked, WarmKey
  <2> QED BY <1>1, <1>3, <2>1 DEF FreshInv, CallFresh, FreshFor, Acked
<1>4. CASE WarmStart(t)
  <2>1. warm'[t].pc = "read" /\ UNCHANGED idx
    BY <1>2, <1>4 DEF WarmStart, cacheVars
  <2> QED BY <1>1, <1>3, <2>1, SameEntriesFresh
<1>5. ASSUME WarmNext(t), \A k \in Key : EntryFresh(k)'
      PROVE  FreshInv'
  <2>1. warm'[t].pc # "store"
    BY <1>2, <1>5 DEF WarmNext, WarmOff, WarmType
  <2> QED BY <1>3, <1>5, <2>1
<1>6. CASE WarmFails(t)
  BY <1>1, <1>5, <1>6, SameEntriesFresh DEF WarmFails, cacheVars
<1>7. CASE WarmStore(t)
  <2>1. WarmKey(t) \in Key /\ warm[t].reply \in Reply /\ FreshFor(warm[t].reply, WarmKey(t))
    BY <1>2, <1>7, WarmFacts DEF WarmStore, WarmOwn, FreshInv, WarmFresh
  <2>2. \A k \in Key : EntryFresh(k)'
    BY <1>1, <1>7, <2>1, PutFresh DEF WarmStore
  <2> QED BY <1>5, <1>7, <2>2 DEF WarmStore
<1>8. CASE WarmAnswered(t)
  <2>1. PICK a \in Answers(WarmKey(t)) :
          warm' = [warm EXCEPT ![t].pc = "store", ![t].reply = a]
    BY <1>8 DEF WarmAnswered
  <2>2. PICK k \in Key : k = WarmKey(t)
    BY <1>2, <1>8 DEF WarmAnswered
  <2>3. FreshFor(a, k) /\ UNCHANGED idx
    BY <1>8, <2>1, <2>2, AnswerIsFresh DEF WarmAnswered, cacheVars
  <2>4. /\ warm'[t].reply = a /\ warm'[t].backend = warm[t].backend
        /\ warm'[t].next = warm[t].next
    BY <1>2, <2>1 DEF WarmType
  <2>5. WarmKey(t)' = k
    BY <2>2, <2>4 DEF WarmKey
  <2>6. WarmFresh(t)'
    BY <1>1, <2>3, <2>4, <2>5 DEF WarmFresh, FreshFor, Acked
  <2>7. \A u \in Tokens : WarmFresh(u)'
    BY <1>1, <2>6 DEF FreshInv, WarmFresh, FreshFor, Acked, WarmKey
  <2>8. \A q \in Key : EntryFresh(q)'
    BY <1>1, <2>3, SameEntriesFresh
  <2> QED BY <1>1, <2>7, <2>8 DEF FreshInv, CallFresh, FreshFor, Acked
<1> QED BY <1>4, <1>6, <1>7, <1>8 DEF WarmUp

LEMMA NextFreshInv ==
    ASSUME LibraryInv, FreshInv, [Next]_vars
    PROVE  FreshInv'
<1>1. CASE EntryExpires
  <2>1. PICK k \in Cached : idx' = [idx EXCEPT ![k].fresh = FALSE]
    BY <1>1 DEF EntryExpires, Expire
  <2>2. idx \in [Key -> Entry \cup {None}] /\ k \in Key /\ idx[k] # None
    BY DEF LibraryInv, DataTypeOK, Cached
  <2>3. idx'[k].reply = idx[k].reply /\ \A q \in Key \ {k} : idx'[q] = idx[q]
    BY <2>1, <2>2 DEF Entry
  <2>4. UNCHANGED <<version, acked, warm, call>>
    BY <1>1 DEF EntryExpires, handlerVars, dataVars
  <2> QED BY <2>2, <2>3, <2>4, FewerFresh, SameFresh
<1>2. CASE UNCHANGED vars
  BY <1>2, SameEntriesFresh, SameFresh DEF vars, cacheVars, handlerVars, dataVars
<1> QED BY <1>1, <1>2, ReadFresh, DeliverFresh, WriteFresh, InvalidateFresh, WarmFreshStep
        DEF Next, Handle

-----------------------------------------------------------------------------
(* The theorems. *)

LEMMA NextLibraryInv ==
    ASSUME LibraryInv, [Next]_vars
    PROVE  LibraryInv'
<1>1. ASSUME NEW r \in Requests,
             ArriveRead(r) \/ ArriveWrite(r) \/ Leave(r) \/ Acquire(r)
      PROVE  LibraryInv'
  BY <1>1, ArriveReadInv, ArriveWriteInv, LeaveInv, AcquireInv
<1>2. ASSUME NEW r \in Requests, Handle(r)
      PROVE  LibraryInv'
  <2>1. CASE Return(r)
    BY <2>1, FinishInv, CallFacts DEF Return, dataVars
  <2> QED
    BY <1>2, <2>1, LookupHitInv, LookupMissInv, LeadInv, FollowInv, AcquireInv, HopAnsweredInv,
       HopFailsInv, StoreReplyInv, ReleaseInv, DeliverInv, WriteAnsweredInv, WriteEndsInv,
       InvalidateInv
       DEF Handle
<1>3. ASSUME NEW t \in Tokens, WarmUp(t)
      PROVE  LibraryInv'
  BY <1>3, WarmUpInv
<1>4. CASE EntryExpires
  BY <1>4, ExpiresInv
<1>5. CASE UNCHANGED vars
  BY <1>5, SameCalls, SameWarm, SameIndex, CallFacts
     DEF vars, cacheVars, handlerVars, dataVars, LibraryInv, DataTypeOK, IndexKept
<1> QED
  BY <1>1, <1>2, <1>3, <1>4, <1>5 DEF Next

\* The inductive invariant holds: an answer stays under the key it was read for.
THEOREM LibraryInvHolds == Spec => []LibraryInv
<1>1. Init => LibraryInv
  BY InitLibraryInv
<1>2. LibraryInv /\ [Next]_vars => LibraryInv'
  BY NextLibraryInv
<1> QED BY <1>1, <1>2, PTL DEF Spec

\* Nobody is given another's answer (libcache.Key, coalesceKey).
THEOREM AnswersAreOwn == Spec => []AnswersOwn
<1>1. LibraryInv => AnswersOwn
  BY DEF LibraryInv, CallsOwn, CallOwn, AnswersOwn, Answered
<1> QED BY <1>1, LibraryInvHolds, PTL

\* The cache holds what its keys say, and nothing read without a token.
THEOREM EntriesAreOwn == Spec => []EntriesOwn
<1>1. LibraryInv => EntriesOwn
  BY DEF LibraryInv
<1> QED BY <1>1, LibraryInvHolds, PTL

\* With coalescing on, one request at a time hops for a key (flight.Do).
THEOREM OneHopAtATime == Spec => []OneHopPerKey
<1>1. LibraryInv => OneHopPerKey
  BY DEF LibraryInv, LeadersKnown, OneHopPerKey, HoldsSlot, Leading, LeadSteps, Flight, FlightKey
<1> QED BY <1>1, LibraryInvHolds, PTL

\* Slots taken are slots held, within the cap (acquireLibrary, releaseLibrary).
THEOREM SlotsAreConserved == Spec => []SlotsConserved
<1>1. Init => SlotsInv
  BY InitSlotsInv
<1>2. LibraryInv /\ SlotsInv /\ [Next]_vars => SlotsInv'
  BY NextSlotsInv
<1>3. SlotsInv => SlotsConserved
  BY DEF SlotsInv
<1> QED BY <1>1, <1>2, <1>3, LibraryInvHolds, PTL DEF Spec

\* Types, of the cache's list and counter too.
THEOREM LibraryTyped == Spec => []TypeOK
<1>1. LibraryInv /\ SlotsInv /\ CacheInv => TypeOK
  BY DEF LibraryInv, DataTypeOK, SlotsInv, CacheInv, TypeOK
<1>2. Init => LibraryInv /\ SlotsInv /\ CacheInv
  BY InitLibraryInv, InitSlotsInv, InitCacheInv
<1>3. LibraryInv /\ SlotsInv /\ CacheInv /\ [Next]_vars => (LibraryInv /\ SlotsInv /\ CacheInv)'
  BY NextLibraryInv, NextSlotsInv, NextCacheInv
<1> QED BY <1>1, <1>2, <1>3, PTL DEF Spec

\* The list and the index agree, the counter is the bytes held, and they stay
\* within max_bytes (removeLocked, Put, DropToken, whatever they evict).
THEOREM CacheIsSound == Spec => []CacheSound
<1>1. CacheInv => CacheSound
  BY DistinctLength DEF CacheInv, CacheTypeOK, CacheSound, Range
<1>2. LibraryInv /\ CacheInv /\ [Next]_vars => CacheInv'
  BY NextCacheInv
<1> QED BY <1>1, <1>2, InitCacheInv, LibraryInvHolds, PTL DEF Spec

\* What a client was told of is in every entry of its token, but for an answer
\* that was already on its way (maybeInvalidateLibrary).
THEOREM EntriesAreFresh == Spec => []EntriesFresh
<1>1. FreshInv => EntriesFresh
  BY DEF FreshInv, EntryFresh, FreshFor, EntriesFresh, Cached
<1>2. LibraryInv /\ FreshInv /\ [Next]_vars => FreshInv'
  BY NextFreshInv
<1> QED BY <1>1, <1>2, InitFreshInv, LibraryInvHolds, PTL DEF Spec

\* And in every answer it is given after, from the cache, a flight or a hop.
THEOREM OwnWritesRead == Spec => []ReadsOwnWrites
<1>1. FreshInv => ReadsOwnWrites
  BY DEF FreshInv, CallFresh, ReadsOwnWrites, Answered
<1>2. LibraryInv /\ FreshInv /\ [Next]_vars => FreshInv'
  BY NextFreshInv
<1> QED BY <1>1, <1>2, InitFreshInv, LibraryInvHolds, PTL DEF Spec
=============================================================================
