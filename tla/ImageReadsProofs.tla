-------------------------- MODULE ImageReadsProofs --------------------------
(***************************************************************************)
(* Proofs about module ImageReads: what the cache keeps is whole, and an   *)
(* answer suits the request it goes to, for any keys, handlers, requests,  *)
(* versions of the images and limits.                                      *)
(***************************************************************************)
EXTENDS ImageReads, TLAPS

\* What is left of one of a backend's answers to this request after the read.
FromHop(a, ask) == \E v \in Versions : \E x \in AnswersTo(ask, v) : a = Read(x)

\* Cut off one byte past the limit.
CutOff(a) ==
    /\ mode.coalesce /\ TooLong(a.version)
    /\ a.body = (IF mode.cache THEN MaxObject ELSE OtherLimit) + 1

\* What a handler has at each of its steps.
CallShape(c) ==
    /\ c.pc \in {"idle", "lookup", "join", "wait", "hop"} => c.reply = None
    /\ c.pc # "done" => c.leader = None
    /\ c.pc \in {"join", "wait", "deliver"} => mode.coalesce
    /\ c.pc = "store" => c.reply # None
    /\ c.pc \in {"store", "deliver"} /\ c.reply # None => FromHop(c.reply, c.ask)
    /\ c.pc = "done" /\ c.reply # None =>
         \/ c.reply \in AnswersTo(c.ask, c.reply.version)
         \/ c.leader \notin {None, c.ask}
         \/ CutOff(c.reply)

Hopping(h) == call[h].pc \in {"hop", "store", "deliver"}

\* A flight has the handler that hops for it, a hop its flight, and nobody waits
\* for nothing.
FlightsLed ==
    /\ \A k \in Keys : flight[k] # None =>
         Hopping(flight[k]) /\ call[flight[k]].key = k /\ mode.coalesce
    /\ \A h \in Handlers :
         /\ mode.coalesce /\ Hopping(h) => flight[call[h].key] = h
         /\ call[h].pc = "wait" => flight[call[h].key] # None

ReadsInv ==
    /\ TypeOK
    /\ EntriesWhole
    /\ FlightsLed
    /\ \A h \in Handlers : CallShape(call[h])

LEMMA InitReadsInv == Init => ReadsInv
  BY ReadsAssumption
     DEF Init, ReadsInv, TypeOK, EntriesWhole, CallShape, FlightsLed, Hopping, Idle, CallType,
         Steps

\* What a step finds.
LEMMA CallFacts ==
    ASSUME ReadsInv, NEW h \in Handlers
    PROVE  /\ call \in [Handlers -> CallType] /\ call[h] \in CallType /\ CallShape(call[h])
           /\ mode \in Mode /\ version \in [Keys -> Versions]
           /\ entry \in [Keys -> Answer \cup {None}]
           /\ flight \in [Keys -> Handlers \cup {None}]
           /\ call[h].pc # "idle" => call[h].key \in Keys /\ call[h].ask \in Asks
  BY ReadsAssumption DEF ReadsInv, TypeOK, CallType

LEMMA AnswersTyped ==
    ASSUME NEW ask \in Asks, NEW v \in Versions
    PROVE  /\ AnswersTo(ask, v) \subseteq Answer
           /\ \A a \in AnswersTo(ask, v) :
                /\ a.version = v
                /\ a.status = "ok" => a.body = BodyOf(ask, v)
                /\ a.status # "ok" => a.body \in {0, 1}
                /\ ask.method = "HEAD" => a.body = 0
  BY ReadsAssumption DEF AnswersTo, Answer, BodyOf, Ask

\* A read leaves an answer as it was, or cuts a body that is too long.
LEMMA ReadFacts ==
    ASSUME mode \in Mode, NEW ask \in Asks, NEW v \in Versions, NEW a \in AnswersTo(ask, v)
    PROVE  /\ Read(a) \in Answer /\ Read(a).version = v
           /\ \/ Read(a) = a
              \/ CutOff(Read(a)) /\ Read(a).status = "ok" /\ ask.method # "HEAD"
<1>1. a \in Answer /\ a.version = v
  BY AnswersTyped
<1>2. CASE ~(mode.coalesce /\ a.body > ReadLimit)
  BY <1>1, <1>2 DEF Read
<1>3. CASE mode.coalesce /\ a.body > ReadLimit
  <2>1. ReadLimit = (IF mode.cache THEN MaxObject ELSE OtherLimit) + 1 /\ ReadLimit \in Nat \ {0}
    BY ReadsAssumption DEF ReadLimit
  <2>2. a.status = "ok" /\ a.body = BodyOf(ask, v) /\ ask.method # "HEAD"
    BY <1>3, <2>1, AnswersTyped
  <2>3. Read(a) = [a EXCEPT !.body = ReadLimit]
    BY <1>3 DEF Read
  <2>4. Read(a) \in Answer /\ Read(a).version = v /\ Read(a).body = ReadLimit /\ Read(a).status = "ok"
    BY <1>1, <2>1, <2>2, <2>3 DEF Answer
  <2>5. TooLong(v)
    BY <1>3, <2>1, <2>2 DEF TooLong, BodyOf
  <2> QED BY <1>3, <2>1, <2>2, <2>4, <2>5 DEF CutOff
<1> QED BY <1>2, <1>3

\* So what comes from a hop is an answer to its request, but for what is cut off.
LEMMA FromHopSuits ==
    ASSUME mode \in Mode, NEW ask \in Asks, NEW a, FromHop(a, ask)
    PROVE  /\ a \in Answer
           /\ \/ a \in AnswersTo(ask, a.version)
              \/ CutOff(a) /\ a.status = "ok" /\ ask.method # "HEAD"
<1>1. PICK v \in Versions : \E x \in AnswersTo(ask, v) : a = Read(x)
  BY DEF FromHop
<1>2. PICK x \in AnswersTo(ask, v) : a = Read(x)
  BY <1>1
<1> QED BY <1>2, ReadFacts

-----------------------------------------------------------------------------
(* Steps of one handler. *)

\* A handler moves on and stays, or stays away from, hopping.
LEMMA CallStep ==
    ASSUME ReadsInv, NEW h \in Handlers, NEW c \in CallType,
           call' = [call EXCEPT ![h] = c], UNCHANGED <<mode, flight, version>>,
           entry' \in [Keys -> Answer \cup {None}], EntriesWhole', CallShape(c),
           c.pc # "idle" => c.key # None /\ c.ask # None,
           mode.coalesce => (Hopping(h) <=> c.pc \in {"hop", "store", "deliver"}),
           Hopping(h) /\ mode.coalesce => c.key = call[h].key,
           c.pc = "wait" => flight[c.key] # None
    PROVE  ReadsInv'
<1>1. call'[h] = c /\ \A g \in Handlers \ {h} : call'[g] = call[g]
  BY CallFacts
<1>2. TypeOK'
  BY <1>1 DEF ReadsInv, TypeOK
<1>3. FlightsLed'
  <2>1. ASSUME NEW k \in Keys, flight'[k] # None
        PROVE  Hopping(flight[k])' /\ call'[flight[k]].key = k /\ mode'.coalesce
    <3>1. /\ flight[k] \in Handlers /\ Hopping(flight[k]) /\ call[flight[k]].key = k
          /\ mode.coalesce
      BY <2>1, CallFacts DEF ReadsInv, FlightsLed
    <3> QED BY <1>1, <3>1 DEF Hopping
  <2>2. ASSUME NEW g \in Handlers
        PROVE  /\ mode'.coalesce /\ Hopping(g)' => flight'[call'[g].key] = g
               /\ call'[g].pc = "wait" => flight'[call'[g].key] # None
    BY <1>1 DEF ReadsInv, FlightsLed, Hopping
  <2> QED BY <2>1, <2>2 DEF FlightsLed
<1>4. ASSUME NEW g \in Handlers
      PROVE  CallShape(call[g])'
  <2>1. CallShape(call'[g])
    BY <1>1 DEF ReadsInv
  <2> QED BY <2>1 DEF CallShape, FromHop, Read, ReadLimit, CutOff, TooLong
<1> QED BY <1>2, <1>3, <1>4 DEF ReadsInv

LEMMA EntriesStay ==
    ASSUME ReadsInv, UNCHANGED <<mode, entry>>
    PROVE  entry' \in [Keys -> Answer \cup {None}] /\ EntriesWhole'
  BY DEF ReadsInv, TypeOK, EntriesWhole

LEMMA ArriveInv ==
    ASSUME ReadsInv, NEW h \in Handlers, Arrive(h)
    PROVE  ReadsInv'
<1>1. PICK k \in Keys, ask \in Asks :
        call' = [call EXCEPT ![h] = [Idle EXCEPT !.pc = "lookup", !.key = k, !.ask = ask]]
  BY DEF Arrive
<1> DEFINE c == [Idle EXCEPT !.pc = "lookup", !.key = k, !.ask = ask]
<1>2. /\ c \in CallType /\ c.pc = "lookup" /\ c.key = k /\ c.ask = ask
      /\ c.reply = None /\ c.leader = None
  BY DEF Idle, CallType, Steps
<1>3. c.key # None /\ c.ask # None
  BY <1>2, ReadsAssumption
<1>4. CallShape(c)
  BY <1>2 DEF CallShape
<1>5. call[h].pc = "idle" /\ UNCHANGED <<mode, entry, flight, version>>
  BY DEF Arrive
<1> HIDE DEF c
<1> QED BY <1>1, <1>2, <1>3, <1>4, <1>5, CallStep, EntriesStay DEF Hopping, c

\* A handler that only goes to another step.
LEMMA GotoInv ==
    ASSUME ReadsInv, NEW h \in Handlers, NEW step \in Steps \ {"idle"},
           Goto(h, step), UNCHANGED <<mode, flight, version>>,
           entry' \in [Keys -> Answer \cup {None}], EntriesWhole',
           call[h].pc # "idle",
           CallShape([call[h] EXCEPT !.pc = step]),
           mode.coalesce => (Hopping(h) <=> step \in {"hop", "store", "deliver"}),
           step = "wait" => flight[call[h].key] # None
    PROVE  ReadsInv'
<1> DEFINE c == [call[h] EXCEPT !.pc = step]
<1>1. call' = [call EXCEPT ![h] = c]
  BY CallFacts DEF Goto
<1>2. /\ c \in CallType /\ c.pc = step /\ c.key = call[h].key /\ c.ask = call[h].ask
  BY CallFacts DEF CallType
<1>3. c.key # None /\ c.ask # None
  BY <1>2 DEF ReadsInv, TypeOK
<1>4. CallShape(c)
  OBVIOUS
<1> HIDE DEF c
<1> QED BY <1>1, <1>2, <1>3, <1>4, CallStep

LEMMA LookupMissInv ==
    ASSUME ReadsInv, NEW h \in Handlers, LookupMiss(h)
    PROVE  ReadsInv'
<1>1. call[h].pc = "lookup" /\ CallShape(call[h]) /\ call[h] \in CallType
  BY CallFacts DEF LookupMiss
<1>2. CASE mode.coalesce
  <2>1. CallShape([call[h] EXCEPT !.pc = "join"])
    BY <1>1, <1>2 DEF CallShape, CallType
  <2> QED BY <1>1, <1>2, <2>1, GotoInv, EntriesStay DEF LookupMiss, Steps, Hopping
<1>3. CASE ~mode.coalesce
  <2>1. CallShape([call[h] EXCEPT !.pc = "hop"])
    BY <1>1 DEF CallShape, CallType
  <2> QED BY <1>1, <1>3, <2>1, GotoInv, EntriesStay DEF LookupMiss, Steps, Hopping
<1> QED BY <1>2, <1>3

LEMMA FollowInv ==
    ASSUME ReadsInv, NEW h \in Handlers, Follow(h)
    PROVE  ReadsInv'
<1>1. call[h].pc = "join" /\ CallShape(call[h]) /\ call[h] \in CallType
  BY CallFacts DEF Follow
<1>2. CallShape([call[h] EXCEPT !.pc = "wait"])
  BY <1>1 DEF CallShape, CallType
<1> QED BY <1>1, <1>2, GotoInv, EntriesStay DEF Follow, Steps, Hopping

LEMMA HopFailsInv ==
    ASSUME ReadsInv, NEW h \in Handlers, HopFails(h)
    PROVE  ReadsInv'
<1>1. call[h].pc = "hop" /\ CallShape(call[h]) /\ call[h] \in CallType
  BY CallFacts DEF HopFails
<1>2. CASE mode.coalesce
  <2>1. CallShape([call[h] EXCEPT !.pc = "deliver"])
    BY <1>1, <1>2 DEF CallShape, CallType
  <2> QED BY <1>1, <1>2, <2>1, GotoInv, EntriesStay DEF HopFails, Steps, Hopping
<1>3. CASE ~mode.coalesce
  <2>1. CallShape([call[h] EXCEPT !.pc = "done"])
    BY <1>1 DEF CallShape, CallType
  <2> QED BY <1>1, <1>3, <2>1, GotoInv, EntriesStay DEF HopFails, Steps, Hopping
<1> QED BY <1>2, <1>3

\* An entry is an answer to whoever asks: a 304 where the client's copy will do.
LEMMA EntrySuits ==
    ASSUME NEW ask \in Asks, NEW e \in Answer, e.status = "ok", e.body = Lengths[e.version]
    PROVE  LET a == IF Unmodified(ask.cond, e.version)
                    THEN [e EXCEPT !.status = "unmodified", !.body = 0]
                    ELSE [e EXCEPT !.body = IF ask.method = "HEAD" THEN 0 ELSE @]
           IN  a \in Answer /\ a.version = e.version /\ a \in AnswersTo(ask, e.version)
<1>1. ask \in Ask /\ e.version \in Versions /\ Versions \subseteq Nat
  BY ReadsAssumption DEF Answer
<1>2. CASE Unmodified(ask.cond, e.version)
  <2> DEFINE a == [status |-> "unmodified", version |-> e.version, body |-> 0]
  <2> DEFINE x == [e EXCEPT !.status = "unmodified"]
  <2>1. [e EXCEPT !.status = "unmodified", !.body = 0] = a
    <3>1. x = [status |-> "unmodified", version |-> e.version, body |-> e.body]
      BY DEF Answer
    <3>2. [e EXCEPT !.status = "unmodified", !.body = 0] = [x EXCEPT !.body = 0]
      OBVIOUS
    <3> HIDE DEF x
    <3>3. [x EXCEPT !.body = 0] = a
      BY <3>1
    <3> QED BY <3>2, <3>3
  <2>2. ask.cond \in Condition /\ ask.cond # None
    BY <1>1, <1>2 DEF Ask, Unmodified
  <2>3. \/ ask.cond.version = e.version
        \/ ask.cond.by = "date" /\ ask.cond.version > e.version
    <3>1. /\ ask.cond.by \in {"etag", "date"}
          /\ ask.cond.version \in Nat /\ e.version \in Nat
      BY <1>1, <2>2 DEF Condition
    <3> QED BY <1>2, <2>2, <3>1 DEF Unmodified
  <2>4. a \in Answer /\ a.version = e.version
    BY <1>1 DEF Answer
  <2>5. a \in AnswersTo(ask, e.version)
    BY <2>2, <2>3 DEF AnswersTo
  <2> HIDE DEF a
  <2> QED BY <1>2, <2>1, <2>4, <2>5
<1>3. CASE ~Unmodified(ask.cond, e.version)
  <2> DEFINE a == [status |-> "ok", version |-> e.version, body |-> BodyOf(ask, e.version)]
  <2>1. [e EXCEPT !.body = IF ask.method = "HEAD" THEN 0 ELSE @] = a
    BY DEF Answer, BodyOf
  <2>2. a \in Answer /\ a.version = e.version
    BY <1>1, ReadsAssumption DEF Answer, BodyOf
  <2>3. a \in AnswersTo(ask, e.version)
    BY DEF AnswersTo
  <2> HIDE DEF a
  <2> QED BY <1>3, <2>1, <2>2, <2>3
<1> QED BY <1>2, <1>3

LEMMA LookupHitInv ==
    ASSUME ReadsInv, NEW h \in Handlers, LookupHit(h)
    PROVE  ReadsInv'
<1> DEFINE e == entry[call[h].key]
           ask == call[h].ask
           a == IF Unmodified(ask.cond, e.version)
                THEN [e EXCEPT !.status = "unmodified", !.body = 0]
                ELSE [e EXCEPT !.body = IF ask.method = "HEAD" THEN 0 ELSE @]
           c == [call[h] EXCEPT !.pc = "done", !.reply = a]
<1>1. /\ call[h].pc = "lookup" /\ e # None
      /\ call[h] \in CallType /\ call[h].key \in Keys /\ ask \in Asks
  BY CallFacts DEF LookupHit
<1>2. e \in Answer /\ e.status = "ok" /\ e.body = Lengths[e.version]
  BY <1>1, CallFacts DEF ReadsInv, EntriesWhole
<1>3. a \in Answer /\ a.version = e.version /\ a \in AnswersTo(ask, e.version)
  BY <1>1, <1>2, EntrySuits
<1>4. call' = [call EXCEPT ![h] = c] /\ UNCHANGED <<mode, entry, flight, version>>
  BY CallFacts DEF LookupHit, Answered
<1> HIDE DEF a, e, ask
<1>5. c \in CallType /\ c.pc = "done" /\ c.key = call[h].key /\ c.ask = ask /\ c.reply = a
  BY <1>1, <1>3 DEF CallType, Steps, ask
<1>6. c.key # None /\ c.ask # None /\ CallShape(c)
  BY <1>1, <1>3, <1>5, ReadsAssumption DEF CallShape
<1> HIDE DEF c
<1> QED BY <1>1, <1>4, <1>5, <1>6, CallStep, EntriesStay DEF Hopping

LEMMA HopAnsweredInv ==
    ASSUME ReadsInv, NEW h \in Handlers, HopAnswered(h)
    PROVE  ReadsInv'
<1>1. PICK a \in AnswersTo(call[h].ask, version[call[h].key]) :
        call' = [call EXCEPT ![h].pc = "store", ![h].reply = Read(a)]
  BY DEF HopAnswered
<1> DEFINE c == [call[h] EXCEPT !.pc = "store", !.reply = Read(a)]
<1>2. /\ call[h].pc = "hop" /\ call[h] \in CallType /\ call[h].key \in Keys
      /\ call[h].ask \in Asks /\ version[call[h].key] \in Versions /\ mode \in Mode
      /\ call[h].leader = None
  BY CallFacts DEF HopAnswered, CallShape
<1>3. Read(a) \in Answer /\ FromHop(Read(a), call[h].ask)
  BY <1>2, ReadFacts DEF FromHop
<1>4. call' = [call EXCEPT ![h] = c] /\ UNCHANGED <<mode, entry, flight, version>>
  BY <1>1, CallFacts DEF HopAnswered
<1>5. /\ c \in CallType /\ c.pc = "store" /\ c.key = call[h].key /\ c.ask = call[h].ask
      /\ c.reply = Read(a) /\ c.leader = None
  BY <1>2, <1>3 DEF CallType, Steps
<1>6. c.key # None /\ c.ask # None /\ CallShape(c)
  BY <1>2, <1>3, <1>5, ReadsAssumption, NoneIsNoAnswer DEF CallShape
<1> HIDE DEF c
<1> QED BY <1>2, <1>4, <1>5, <1>6, CallStep, EntriesStay DEF Hopping

\* What is worth keeping was not cut off.
LEMMA KeepableWhole ==
    ASSUME mode \in Mode, mode.cache, NEW ask \in Asks, NEW a, FromHop(a, ask), Keepable(a)
    PROVE  a \in Answer /\ a.status = "ok" /\ a.body = Lengths[a.version]
<1>1. a \in Answer /\ a.status = "ok" /\ a.body \in 1..MaxObject
  BY FromHopSuits DEF Keepable
<1>2. ~CutOff(a)
  BY <1>1, ReadsAssumption DEF CutOff
<1>3. a \in AnswersTo(ask, a.version) /\ a.version \in Versions
  BY <1>1, <1>2, FromHopSuits DEF Answer
<1>4. a.body = BodyOf(ask, a.version)
  BY <1>1, <1>3, AnswersTyped
<1> QED BY <1>1, <1>4 DEF BodyOf

LEMMA StoreInv ==
    ASSUME ReadsInv, NEW h \in Handlers, Store(h)
    PROVE  ReadsInv'
<1>1. /\ call[h].pc = "store" /\ call[h] \in CallType /\ CallShape(call[h])
      /\ call[h].key \in Keys /\ call[h].ask \in Asks /\ mode \in Mode
      /\ UNCHANGED <<mode, flight, version>>
  BY CallFacts DEF Store
<1>2. FromHop(call[h].reply, call[h].ask)
  BY <1>1 DEF CallShape
<1>3. entry' \in [Keys -> Answer \cup {None}] /\ EntriesWhole'
  <2>1. CASE UNCHANGED entry
    BY <1>1, <2>1, EntriesStay
  <2>2. CASE /\ mode.cache /\ Keepable(call[h].reply)
             /\ entry' = [entry EXCEPT ![call[h].key] = call[h].reply]
    <3>1. /\ call[h].reply \in Answer /\ call[h].reply.status = "ok"
          /\ call[h].reply.body = Lengths[call[h].reply.version]
      BY <1>1, <1>2, <2>2, KeepableWhole
    <3>2. entry' \in [Keys -> Answer \cup {None}]
      BY <2>2, <3>1, CallFacts
    <3>3. \A k \in Keys : entry'[k] = IF k = call[h].key THEN call[h].reply ELSE entry[k]
      BY <2>2, CallFacts
    <3> QED BY <1>1, <2>2, <3>1, <3>2, <3>3 DEF ReadsInv, EntriesWhole
  <2> QED BY <2>1, <2>2 DEF Store
<1>4. CASE mode.coalesce
  <2>1. CallShape([call[h] EXCEPT !.pc = "deliver"])
    BY <1>1, <1>4 DEF CallShape, CallType
  <2> QED BY <1>1, <1>3, <1>4, <2>1, GotoInv DEF Store, Steps, Hopping
<1>5. CASE ~mode.coalesce
  <2>1. ~CutOff(call[h].reply)
    BY <1>5 DEF CutOff
  <2>2. call[h].reply \in AnswersTo(call[h].ask, call[h].reply.version)
    BY <1>1, <1>2, <2>1, FromHopSuits
  <2>3. CallShape([call[h] EXCEPT !.pc = "done"])
    BY <1>1, <1>5, <2>2 DEF CallShape, CallType
  <2> QED BY <1>1, <1>3, <1>5, <2>3, GotoInv DEF Store, Steps, Hopping
<1> QED BY <1>4, <1>5

LEMMA ReturnInv ==
    ASSUME ReadsInv, NEW h \in Handlers, Return(h)
    PROVE  ReadsInv'
<1>1. Idle \in CallType /\ Idle.pc = "idle" /\ CallShape(Idle)
  BY DEF Idle, CallType, Steps, CallShape
<1>2. call[h].pc = "done" /\ call' = [call EXCEPT ![h] = Idle]
      /\ UNCHANGED <<mode, entry, flight, version>>
  BY DEF Return
<1> QED BY <1>1, <1>2, CallStep, EntriesStay DEF Hopping

-----------------------------------------------------------------------------
(* Steps that begin or end a flight. *)

LEMMA LeadInv ==
    ASSUME ReadsInv, NEW h \in Handlers, Lead(h)
    PROVE  ReadsInv'
<1> DEFINE c == [call[h] EXCEPT !.pc = "hop"]
           key == call[h].key
<1>1. /\ call[h].pc = "join" /\ call[h] \in CallType /\ CallShape(call[h]) /\ key \in Keys
      /\ mode.coalesce /\ flight[key] = None
  BY CallFacts DEF Lead, CallShape
<1>2. /\ flight' = [flight EXCEPT ![key] = h] /\ call' = [call EXCEPT ![h] = c]
      /\ UNCHANGED <<mode, entry, version>>
  BY CallFacts DEF Lead, Goto
<1>3. /\ c \in CallType /\ c.pc = "hop" /\ c.key = key /\ c.ask = call[h].ask /\ CallShape(c)
  BY <1>1 DEF CallType, Steps, CallShape
<1>4. /\ call'[h] = c /\ \A g \in Handlers \ {h} : call'[g] = call[g]
      /\ flight'[key] = h /\ \A k \in Keys \ {key} : flight'[k] = flight[k]
  BY <1>1, <1>2, CallFacts
<1> HIDE DEF c
<1>5. TypeOK'
  BY <1>1, <1>2, <1>3, <1>4, CallFacts DEF ReadsInv, TypeOK
<1>6. FlightsLed'
  <2>1. ASSUME NEW k \in Keys, flight'[k] # None
        PROVE  Hopping(flight[k])' /\ call'[flight'[k]].key = k /\ mode'.coalesce
    <3>1. CASE k = key
      BY <3>1, <1>1, <1>2, <1>3, <1>4 DEF Hopping
    <3>2. CASE k # key
      <4>1. flight[k] \in Handlers /\ Hopping(flight[k]) /\ call[flight[k]].key = k
        BY <2>1, <3>2, <1>4, CallFacts DEF ReadsInv, FlightsLed
      <4>2. flight[k] # h
        BY <4>1, <1>1 DEF Hopping
      <4> QED BY <3>2, <4>1, <4>2, <1>1, <1>2, <1>4 DEF Hopping
    <3> QED BY <3>1, <3>2
  <2>2. ASSUME NEW g \in Handlers
        PROVE  /\ mode'.coalesce /\ Hopping(g)' => flight'[call'[g].key] = g
               /\ call'[g].pc = "wait" => flight'[call'[g].key] # None
    <3>1. CASE g = h
      BY <3>1, <1>3, <1>4
    <3>2. CASE g # h
      <4>1. /\ call'[g] = call[g]
            /\ Hopping(g) => flight[call[g].key] = g
            /\ call[g].pc = "wait" => flight[call[g].key] # None
            /\ Hopping(g) \/ call[g].pc = "wait" => call[g].key \in Keys
        BY <3>2, <1>1, <1>4, CallFacts DEF ReadsInv, FlightsLed, Hopping
      <4>2. flight[key] # g
        BY <1>1, ReadsAssumption
      <4>3. h # None
        BY ReadsAssumption
      <4> QED BY <4>1, <4>2, <4>3, <1>4 DEF Hopping
    <3> QED BY <3>1, <3>2
  <2> QED BY <2>1, <2>2 DEF FlightsLed
<1>7. ASSUME NEW g \in Handlers
      PROVE  CallShape(call[g])'
  <2>1. CallShape(call'[g])
    BY <1>3, <1>4 DEF ReadsInv
  <2> QED BY <1>2, <2>1 DEF CallShape, FromHop, Read, ReadLimit, CutOff, TooLong
<1> QED BY <1>2, <1>5, <1>6, <1>7, EntriesStay DEF ReadsInv

\* What the others get is the hopping request's answer; it is an answer to theirs
\* if they asked the same.
LEMMA SharedShape ==
    ASSUME ReadsInv, NEW h \in Handlers, Deliver(h), NEW f \in Sharers(h)
    PROVE  /\ f \in Handlers /\ call'[f] \in CallType /\ call'[f].pc = "done"
           /\ call'[f].key # None /\ call'[f].ask # None /\ CallShape(call'[f])
<1> DEFINE c == call[h]
           reply == IF c.reply # None /\ call[f].ask.method = "HEAD"
                    THEN [c.reply EXCEPT !.body = 0] ELSE c.reply
           leader == IF f = h THEN None ELSE c.ask
<1>1. /\ c.pc = "deliver" /\ c \in CallType /\ CallShape(c) /\ c.ask \in Asks /\ mode \in Mode
      /\ f \in Handlers /\ call[f] \in CallType /\ call[f].pc \in {"wait", "deliver"}
      /\ call[f].key \in Keys /\ call[f].ask \in Asks
  BY CallFacts DEF Deliver, Sharers
<1>2. call'[f] = [call[f] EXCEPT !.pc = "done", !.reply = reply, !.leader = leader]
  BY <1>1 DEF Deliver
<1>3. ASSUME c.reply # None
      PROVE  /\ reply \in Answer /\ reply.version = c.reply.version
             /\ call[f].ask = c.ask => reply \in AnswersTo(c.ask, reply.version) \/ CutOff(reply)
  <2>1. /\ c.reply \in Answer
        /\ \/ c.reply \in AnswersTo(c.ask, c.reply.version)
           \/ CutOff(c.reply) /\ c.ask.method # "HEAD"
    BY <1>1, <1>3, FromHopSuits DEF CallShape
  <2>2. c.reply.version \in Versions
    BY <2>1 DEF Answer
  <2>3. CASE call[f].ask.method # "HEAD"
    BY <2>1, <2>3
  <2>4. CASE call[f].ask.method = "HEAD"
    <3>1. reply = [c.reply EXCEPT !.body = 0]
      BY <1>3, <2>4
    <3>2. reply \in Answer /\ reply.version = c.reply.version
      BY <2>1, <3>1 DEF Answer
    <3>3. ASSUME call[f].ask = c.ask
          PROVE  reply = c.reply
      <4>1. c.reply.body = 0
        BY <1>1, <2>1, <2>2, <2>4, <3>3, AnswersTyped
      <4> QED BY <2>1, <3>1, <4>1 DEF Answer
    <3> HIDE DEF reply
    <3> QED BY <2>1, <2>4, <3>2, <3>3
  <2> QED BY <2>3, <2>4
<1>4. c.reply = None => reply = None
  OBVIOUS
<1> HIDE DEF reply
<1>5. reply \in Answer \cup {None} /\ leader \in Asks \cup {None}
  BY <1>1, <1>3, <1>4
<1> HIDE DEF leader
<1>6. /\ call'[f] \in CallType /\ call'[f].pc = "done" /\ call'[f].reply = reply
      /\ call'[f].leader = leader /\ call'[f].ask = call[f].ask /\ call'[f].key = call[f].key
  BY <1>1, <1>2, <1>5 DEF CallType, Steps
<1>7. call'[f].key # None /\ call'[f].ask # None
  BY <1>1, <1>6, ReadsAssumption
<1>8. leader \in {None, call[f].ask} => call[f].ask = c.ask
  BY <1>1, ReadsAssumption DEF leader
<1>9. CallShape(call'[f])
  BY <1>3, <1>4, <1>6, <1>8 DEF CallShape
<1> QED BY <1>1, <1>6, <1>7, <1>9

LEMMA DeliverInv ==
    ASSUME ReadsInv, NEW h \in Handlers, Deliver(h)
    PROVE  ReadsInv'
<1> DEFINE key == call[h].key
<1>1. /\ call[h].pc = "deliver" /\ key \in Keys /\ mode.coalesce /\ flight[key] = h
      /\ h \in Sharers(h)
  BY CallFacts DEF Deliver, CallShape, ReadsInv, FlightsLed, Hopping, Sharers
<1>2. /\ flight' = [flight EXCEPT ![key] = None] /\ UNCHANGED <<mode, entry, version>>
      /\ DOMAIN call' = Handlers /\ call' = [f \in Handlers |-> call'[f]]
      /\ \A f \in Handlers \ Sharers(h) : call'[f] = call[f]
  BY DEF Deliver
<1>3. \A k \in Keys : flight'[k] = IF k = key THEN None ELSE flight[k]
  BY <1>2, CallFacts
<1>4. \A f \in Sharers(h) :
        /\ f \in Handlers /\ call'[f] \in CallType /\ call'[f].pc = "done"
        /\ call'[f].key # None /\ call'[f].ask # None /\ CallShape(call'[f])
  BY SharedShape
<1>5. call' \in [Handlers -> CallType]
  BY <1>2, <1>4, CallFacts
<1>6. TypeOK'
  BY <1>2, <1>4, <1>5 DEF ReadsInv, TypeOK
<1>7. FlightsLed'
  <2>1. ASSUME NEW k \in Keys, flight'[k] # None
        PROVE  Hopping(flight[k])' /\ call'[flight'[k]].key = k /\ mode'.coalesce
    <3>1. /\ k # key /\ flight'[k] = flight[k] /\ flight[k] \in Handlers
          /\ Hopping(flight[k]) /\ call[flight[k]].key = k
      BY <2>1, <1>3, CallFacts DEF ReadsInv, FlightsLed
    <3>2. flight[k] \notin Sharers(h)
      BY <3>1 DEF Sharers, Hopping
    <3> QED BY <1>1, <1>2, <3>1, <3>2 DEF Hopping
  <2>2. ASSUME NEW g \in Handlers
        PROVE  /\ mode'.coalesce /\ Hopping(g)' => flight'[call'[g].key] = g
               /\ call'[g].pc = "wait" => flight'[call'[g].key] # None
    <3>1. CASE g \in Sharers(h)
      BY <3>1, <1>4 DEF Hopping
    <3>2. CASE g \notin Sharers(h)
      <4>1. /\ call'[g] = call[g] /\ g # h
            /\ Hopping(g) => flight[call[g].key] = g
            /\ call[g].pc = "wait" => flight[call[g].key] # None /\ call[g].key # key
            /\ Hopping(g) \/ call[g].pc = "wait" => call[g].key \in Keys
        BY <3>2, <1>1, <1>2, CallFacts DEF ReadsInv, FlightsLed, Hopping, Sharers
      <4> QED BY <4>1, <1>1, <1>3 DEF Hopping
    <3> QED BY <3>1, <3>2
  <2> QED BY <2>1, <2>2 DEF FlightsLed
<1>8. ASSUME NEW g \in Handlers
      PROVE  CallShape(call[g])'
  <2>1. CallShape(call'[g])
    BY <1>2, <1>4 DEF ReadsInv
  <2> QED BY <1>2, <2>1 DEF CallShape, FromHop, Read, ReadLimit, CutOff, TooLong
<1> QED BY <1>2, <1>6, <1>7, <1>8, EntriesStay DEF ReadsInv

-----------------------------------------------------------------------------

\* Neither the cache's forgetting nor a new image concerns a handler.
LEMMA EvictInv ==
    ASSUME ReadsInv, NEW k \in Keys, Evict(k) \/ Change(k)
    PROVE  ReadsInv'
<1>1. UNCHANGED <<mode, flight, call>>
  BY DEF Evict, Change
<1>2. /\ entry' \in [Keys -> Answer \cup {None}] /\ version' \in [Keys -> Versions]
      /\ EntriesWhole'
  BY DEF ReadsInv, TypeOK, EntriesWhole, Evict, Change
<1>3. TypeOK' /\ FlightsLed'
  BY <1>1, <1>2 DEF ReadsInv, TypeOK, FlightsLed, Hopping
<1>4. \A h \in Handlers : CallShape(call[h])'
  BY <1>1 DEF ReadsInv, CallShape, FromHop, Read, ReadLimit, CutOff, TooLong
<1> QED BY <1>2, <1>3, <1>4 DEF ReadsInv

LEMMA NextReadsInv == ReadsInv /\ [Next]_vars => ReadsInv'
<1> SUFFICES ASSUME ReadsInv, [Next]_vars
             PROVE  ReadsInv'
  OBVIOUS
<1>1. CASE UNCHANGED vars
  <2>1. TypeOK' /\ EntriesWhole' /\ FlightsLed'
    BY <1>1 DEF ReadsInv, TypeOK, EntriesWhole, FlightsLed, Hopping, vars
  <2>2. \A h \in Handlers : CallShape(call[h])'
    BY <1>1
       DEF ReadsInv, CallShape, FromHop, Read, ReadLimit, CutOff, TooLong, vars
  <2> QED BY <2>1, <2>2 DEF ReadsInv
<1>2. ASSUME NEW h \in Handlers, Arrive(h) \/ Handle(h)
      PROVE  ReadsInv'
  <2>1. CASE Arrive(h) \/ LookupHit(h) \/ LookupMiss(h) \/ Lead(h) \/ Follow(h)
    BY <2>1, ArriveInv, LookupHitInv, LookupMissInv, LeadInv, FollowInv
  <2>2. CASE HopAnswered(h) \/ HopFails(h) \/ Store(h) \/ Deliver(h) \/ Return(h)
    BY <2>2, HopAnsweredInv, HopFailsInv, StoreInv, DeliverInv, ReturnInv
  <2> QED BY <1>2, <2>1, <2>2 DEF Handle
<1>3. ASSUME NEW k \in Keys, Evict(k) \/ Change(k)
      PROVE  ReadsInv'
  BY <1>3, EvictInv
<1> QED BY <1>1, <1>2, <1>3 DEF Next

\* Handlers, entries, flights and images are of their types.
THEOREM ReadsTyped == Spec => []TypeOK
<1>1. ReadsInv => TypeOK
  BY DEF ReadsInv
<1> QED BY InitReadsInv, NextReadsInv, <1>1, PTL DEF Spec

\* Nothing but whole images is kept, whoever asked for them and however.
THEOREM WholeImages == Spec => []EntriesWhole
<1>1. ReadsInv => EntriesWhole
  BY DEF ReadsInv
<1> QED BY InitReadsInv, NextReadsInv, <1>1, PTL DEF Spec

\* An answer that comes from the cache, a hop or another request's hop is one to
\* what its client asked, with the two exceptions that the property names.
THEOREM SuitableAnswers == Spec => []AnswersSuit
<1>1. ReadsInv => AnswersSuit
  BY DEF ReadsInv, CallShape, AnswersSuit, Suits, CutOff
<1> QED BY InitReadsInv, NextReadsInv, <1>1, PTL DEF Spec

\* A request that waits does so for a handler that is at its hop, and each key has
\* at most one of these when reads are coalesced.
THEOREM ReadFlightsLed == Spec => []FlightsLed
<1>1. ReadsInv => FlightsLed
  BY DEF ReadsInv
<1> QED BY InitReadsInv, NextReadsInv, <1>1, PTL DEF Spec
=============================================================================
