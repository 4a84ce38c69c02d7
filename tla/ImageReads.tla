----------------------------- MODULE ImageReads -----------------------------
(***************************************************************************)
(* What internal/proxy does with a request for artwork once its backend is *)
(* chosen: the cache, then a hop, which requests with the same cache key   *)
(* share when coalescing is on.  The cache is reduced to what ImageCache   *)
(* promises of it: an answer that was stored, or nothing.                  *)
(*                                                                         *)
(* Requests with one key may still differ: in their method, and in headers *)
(* that ask for less than the image.  The images of a backend (external)   *)
(* change, and with them their length.  Left out: Age and the headers that *)
(* are copied, and the store's touches, which change no binding's backend. *)
(***************************************************************************)
EXTENDS Naturals, FiniteSets

CONSTANTS
    Keys,         \* backend, path with query, and Accept
    Handlers,
    None,
    Modes,        \* settings of cache.enabled and coalesce.enabled under study
    Asks,         \* requests under study
    Lengths,      \* the length of each version of an image
    MaxObject,    \* performance.cache.max_object
    OtherLimit    \* what a coalesced body may have without a cache, 4 MiB

Versions == DOMAIN Lengths
Mode     == [cache : BOOLEAN, coalesce : BOOLEAN]

\* If-None-Match or If-Modified-Since, with the version the client has.
Condition == [by : {"etag", "date"}, version : Versions]

Ask == [method : {"GET", "HEAD"}, cond : Condition \cup {None}, range : BOOLEAN]

ASSUME ReadsAssumption ==
    /\ Asks \subseteq Ask
    /\ Modes \subseteq Mode
    /\ Lengths \in [Versions -> Nat \ {0}]
    /\ Versions \subseteq Nat /\ Versions # {}
    /\ MaxObject \in Nat /\ OtherLimit \in Nat
    /\ None \notin Keys \cup Handlers \cup Ask \cup Condition

VARIABLES
    mode,     \* the settings of this process
    entry,    \* what the cache has for each key
    flight,   \* singleflight: the handler that hops for a key, or None
    call,     \* the handlers
    version   \* the version of each image at its backend (external)

vars == <<mode, entry, flight, call, version>>

\* Status, image and bytes of body.  None stands for no complete answer: a 503 of
\* HAP's own, or a body that breaks off.
Answer == [status : {"ok", "partial", "unmodified", "error"}, version : Versions, body : Nat]

ASSUME NoneIsNoAnswer == None \notin Answer

Steps == {"idle", "lookup", "join", "wait", "hop", "store", "deliver", "done"}

\* A handler; leader, as history, is the request that was sent on for it by another.
CallType == [pc : Steps, key : Keys \cup {None}, ask : Asks \cup {None},
             reply : Answer \cup {None}, leader : Asks \cup {None}]

Idle == [pc |-> "idle", key |-> None, ask |-> None, reply |-> None, leader |-> None]

TypeOK ==
    /\ mode \in Modes
    /\ entry \in [Keys -> Answer \cup {None}]
    /\ flight \in [Keys -> Handlers \cup {None}]
    /\ call \in [Handlers -> CallType]
    /\ \A h \in Handlers : call[h].pc # "idle" => call[h].key # None /\ call[h].ask # None
    /\ version \in [Keys -> Versions]

Init ==
    /\ mode \in Modes
    /\ entry = [k \in Keys |-> None]
    /\ flight = [k \in Keys |-> None]
    /\ call = [h \in Handlers |-> Idle]
    /\ version \in [Keys -> Versions]

-----------------------------------------------------------------------------
(* The backends. *)

BodyOf(ask, v) == IF ask.method = "HEAD" THEN 0 ELSE Lengths[v]

\* Seeded fault: a date is compared like a tag's, the wrong way round.
UnmodifiedSwapped(cond, v) ==
    cond # None /\ (IF cond.by = "etag" THEN cond.version = v ELSE cond.version <= v)

\* FreshFor, for an entry with both validators: the client's copy will do.
Unmodified(cond, v) ==
    cond # None /\ (IF cond.by = "etag" THEN cond.version = v ELSE cond.version >= v)

\* What a backend with version v may answer to a request: a 304 only to a client
\* whose copy is no older, a part only to one that asks for it.
AnswersTo(ask, v) ==
    LET answer(status, body) == [status |-> status, version |-> v, body |-> body]
        current(c) == c.version = v \/ (c.by = "date" /\ c.version > v)
    IN  { answer("error", 0), answer("ok", BodyOf(ask, v)) } \cup
        (IF ask.cond # None /\ current(ask.cond) THEN { answer("unmodified", 0) } ELSE {}) \cup
        (IF ask.range THEN { answer("partial", IF ask.method = "HEAD" THEN 0 ELSE 1) } ELSE {})

-----------------------------------------------------------------------------
(* The handlers. *)

Goto(h, pc) == call' = [call EXCEPT ![h].pc = pc]

Answered(h, reply) == call' = [call EXCEPT ![h].pc = "done", ![h].reply = reply]

\* A GET or HEAD of an item's image, sent on to proxy.
Arrive(h) ==
    /\ call[h].pc = "idle"
    /\ \E k \in Keys, ask \in Asks :
         call' = [call EXCEPT ![h] = [Idle EXCEPT !.pc = "lookup", !.key = k, !.ask = ask]]
    /\ UNCHANGED <<mode, entry, flight, version>>

\* serveCached: the entry, or a 304 for a client whose copy will do.
LookupHit(h) ==
    LET hit == entry[call[h].key]  ask == call[h].ask IN
    /\ call[h].pc = "lookup"
    /\ hit # None
    /\ Answered(h, IF Unmodified(ask.cond, hit.version)
                   THEN [hit EXCEPT !.status = "unmodified", !.body = 0]
                   ELSE [hit EXCEPT !.body = IF ask.method = "HEAD" THEN 0 ELSE @])
    /\ UNCHANGED <<mode, entry, flight, version>>

LookupMiss(h) ==
    /\ call[h].pc = "lookup"
    /\ entry[call[h].key] = None
    /\ Goto(h, IF mode.coalesce THEN "join" ELSE "hop")
    /\ UNCHANGED <<mode, entry, flight, version>>

\* flight.Do: the first with a key hops, with its own method and headers.
Lead(h) ==
    /\ call[h].pc = "join"
    /\ flight[call[h].key] = None
    /\ flight' = [flight EXCEPT ![call[h].key] = h]
    /\ Goto(h, "hop")
    /\ UNCHANGED <<mode, entry, version>>

\* The others wait for that answer, whatever they asked.
Follow(h) ==
    /\ call[h].pc = "join"
    /\ flight[call[h].key] # None
    /\ Goto(h, "wait")
    /\ UNCHANGED <<mode, entry, flight, version>>

\* Seeded fault: the limit leaves no byte to tell a longer body by.
ReadLimitExact == IF mode.cache THEN MaxObject ELSE OtherLimit

\* coalesceReadLimit.
ReadLimit == (IF mode.cache THEN MaxObject ELSE OtherLimit) + 1

\* proxyCoalesced reads no more of a body than that, and says nothing.
Read(a) == IF mode.coalesce /\ a.body > ReadLimit THEN [a EXCEPT !.body = ReadLimit] ELSE a

\* hopOnce, or the reverse proxy: the backend answers.
HopAnswered(h) ==
    LET c == call[h] IN
    /\ c.pc = "hop"
    /\ \E a \in AnswersTo(c.ask, version[c.key]) :
         call' = [call EXCEPT ![h].pc = "store", ![h].reply = Read(a)]
    /\ UNCHANGED <<mode, entry, flight, version>>

\* It does not, or its body breaks off, or the client of the hopping request
\* leaves, whose context the hop has.
HopFails(h) ==
    /\ call[h].pc = "hop"
    /\ Goto(h, IF mode.coalesce THEN "deliver" ELSE "done")
    /\ UNCHANGED <<mode, entry, flight, version>>

\* maybeStoreImage and Put: a 200 whose body is not empty nor longer than
\* max_object.
Keepable(a) == a.status = "ok" /\ a.body \in 1..MaxObject

\* Cache-Control and Content-Type have their say too.
Store(h) ==
    LET c == call[h] IN
    /\ c.pc = "store"
    /\ entry' \in {entry} \cup IF mode.cache /\ Keepable(c.reply)
                               THEN {[entry EXCEPT ![c.key] = c.reply]} ELSE {}
    /\ Goto(h, IF mode.coalesce THEN "deliver" ELSE "done")
    /\ UNCHANGED <<mode, flight, version>>

\* Seeded fault: the result goes to whoever has no answer yet.
SharersNotDone(h) == {f \in Handlers : call[f].pc # "done"}

Sharers(h) == {h} \cup {f \in Handlers : call[f].pc = "wait" /\ call[f].key = call[h].key}

\* Seeded fault: the result goes to one of those who wait.
DeliverToOne(h) ==
    LET c == call[h] IN
    /\ c.pc = "deliver"
    /\ flight' = [flight EXCEPT ![c.key] = None]
    /\ call' = [call EXCEPT ![h].pc = "done"]
    /\ UNCHANGED <<mode, entry, version>>

\* singleflight hands the result, or the error, to everybody who waits; a HEAD is
\* answered without the body.
Deliver(h) ==
    LET c == call[h] IN
    /\ c.pc = "deliver"
    /\ flight' = [flight EXCEPT ![c.key] = None]
    /\ call' = [f \in Handlers |->
         IF f \notin Sharers(h) THEN call[f]
         ELSE [call[f] EXCEPT
                 !.pc = "done",
                 !.reply = IF c.reply # None /\ call[f].ask.method = "HEAD"
                           THEN [c.reply EXCEPT !.body = 0] ELSE c.reply,
                 !.leader = IF f = h THEN None ELSE c.ask]]
    /\ UNCHANGED <<mode, entry, version>>

Return(h) ==
    /\ call[h].pc = "done"
    /\ call' = [call EXCEPT ![h] = Idle]
    /\ UNCHANGED <<mode, entry, flight, version>>

-----------------------------------------------------------------------------
(* The cache forgets an entry; the image changes at its backend.            *)

Evict(k) ==
    /\ entry[k] # None
    /\ entry' = [entry EXCEPT ![k] = None]
    /\ UNCHANGED <<mode, flight, call, version>>

Change(k) ==
    /\ version[k] + 1 \in Versions
    /\ version' = [version EXCEPT ![k] = @ + 1]
    /\ UNCHANGED <<mode, entry, flight, call>>

-----------------------------------------------------------------------------

Handle(h) == \/ LookupHit(h) \/ LookupMiss(h) \/ Lead(h) \/ Follow(h)
             \/ HopAnswered(h) \/ HopFails(h) \/ Store(h) \/ Deliver(h) \/ Return(h)

Next == \/ \E h \in Handlers : Arrive(h) \/ Handle(h)
        \/ \E k \in Keys : Evict(k) \/ Change(k)

\* A handler that can go on does; a hop ends, by the backend's doing or the
\* client's.
Spec == Init /\ [][Next]_vars /\ \A h \in Handlers : WF_vars(Handle(h))

-----------------------------------------------------------------------------
(* What a client can rely on. *)

\* An answer that a backend could give to this very request, at some version.
Suits(h) == call[h].reply \in AnswersTo(call[h].ask, call[h].reply.version)

\* Longer than a shared read takes in.
TooLong(v) == Lengths[v] > (IF mode.cache THEN MaxObject ELSE OtherLimit) + 1

\* Whichever way an answer comes, from the hop, from the cache or from another
\* request's hop, it is one to what its client asked: no 304 to a client whose copy is
\* another, no part for the whole.  The exceptions are those the code has: a
\* request that was answered with what a different request got, and a coalesced
\* body longer than the limit, cut off one byte past it.
AnswersSuit ==
    \A h \in Handlers :
      LET c == call[h] IN
      c.pc = "done" /\ c.reply # None =>
        \/ Suits(h)
        \/ c.leader \notin {None, c.ask}
        \/ /\ mode.coalesce /\ TooLong(c.reply.version)
           /\ c.reply.body = (IF mode.cache THEN MaxObject ELSE OtherLimit) + 1

\* What is kept is a whole image, never the empty body of a HEAD, a part, or a
\* body that was cut off: the limits of the read, of the store and of Put fit
\* together to the byte.
EntriesWhole ==
    \A k \in Keys :
      entry[k] # None =>
        /\ entry[k].status = "ok"
        /\ entry[k].body = Lengths[entry[k].version]
        /\ mode.cache

\* Every request is answered, followers of a leader that fails or whose client
\* leaves included.
EveryImageAnswered == \A h \in Handlers : call[h].pc # "idle" ~> call[h].pc = "idle"

\* "Identical in-flight image/library GETs may be coalesced" (docs/affinity.md:67):
\* a request that shares another's hop gets what it would have got by itself.
SharersAlike ==
    \A h \in Handlers :
      LET c == call[h] IN
      c.pc = "done" /\ c.reply # None /\ c.leader # None =>
        Suits(h) \/ TooLong(c.reply.version)
=============================================================================
