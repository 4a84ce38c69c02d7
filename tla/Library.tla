------------------------------ MODULE Library ------------------------------
(***************************************************************************)
(* Library reads in internal/proxy (proxy_perf.go and the hop of           *)
(* proxy.go): the cache in front of the hop, coalescing of equal reads in  *)
(* flight, the slots that cap library hops per backend, the warm-up after  *)
(* a login, and the writes that invalidate.  Every slot of Requests is one *)
(* handler goroutine that has its backend; other steps may run between any *)
(* two of its own.                                                         *)
(*                                                                         *)
(* Modelled from how the handler uses them (external): the backends, whose *)
(* state is a version number, the clients, and singleflight.               *)
(***************************************************************************)
EXTENDS LibCache

CONSTANTS
    Requests,      \* handler goroutines that may be in flight together
    Reads,         \* the reads that clients send
    CoalesceModes, \* settings of performance.coalesce.enabled to consider
    MaxSlots,      \* performance.library_concurrency.max
    Warmed,        \* tokens whose login is warmed up
    WarmUrls,      \* the paths a warm-up reads, in order
    MaxWrites      \* bound on writes that reach a backend

ASSUME LibraryAssumption ==
    /\ None \notin Requests
    /\ IsFiniteSet(Requests)
    /\ Reads \subseteq Key
    /\ CoalesceModes \subseteq BOOLEAN
    /\ MaxSlots \in Nat \ {0}
    /\ Warmed \subseteq Tokens
    /\ WarmUrls \in Seq(Urls)
    /\ MaxWrites \in Nat

VARIABLES
    coalesce,  \* performance.coalesce.enabled
    call,      \* the request each goroutine is serving
    flight,    \* Handler.flight: the request that hops for a key, or None
    slots,     \* libSem: slots taken per backend
    warm,      \* the warm-up goroutine of each token
    version,   \* state of each backend (external): writes it has taken
    acked      \* history: version of the last write a client was told of

handlerVars == <<coalesce, call, flight, slots>>
dataVars    == <<version, acked>>
vars        == <<cacheVars, handlerVars, warm, dataVars>>

Steps == {"idle", "lookup", "join", "wait", "acquire", "hop", "store",
          "release", "deliver", "write", "invalidate", "done"}

\* Where a write goes; its path is of no consequence.
Target == [backend : Backends, token : Tokens, url : {None}]

CallType ==
    [pc     : Steps,
     key    : Key \cup Target \cup {None},
     reply  : Reply \cup {None},  \* None in the end: HAP's own 503
     gone   : BOOLEAN,            \* the client has left: r.Context() is done
     floor  : Nat]                \* acked on arrival; of a write, its version

Idle == [pc |-> "idle", key |-> None, reply |-> None, gone |-> FALSE, floor |-> 0]

WarmType ==
    [pc : {"off", "read", "store"}, backend : Backends \cup {None},
     next : Nat, reply : Reply \cup {None}]

WarmOff == [pc |-> "off", backend |-> None, next |-> 0, reply |-> None]

TypeOK ==
    /\ CacheTypeOK
    /\ coalesce \in BOOLEAN
    /\ call \in [Requests -> CallType]
    /\ flight \in [Key -> Requests \cup {None}]
    /\ slots \in [Backends -> Nat]
    /\ warm \in [Tokens -> WarmType]
    /\ version \in [Backends -> Nat]
    /\ acked \in [Backends -> [Tokens -> Nat]]

Init ==
    /\ CacheInit
    /\ coalesce \in CoalesceModes
    /\ call = [r \in Requests |-> Idle]
    /\ flight = [k \in Key |-> None]
    /\ slots = [b \in Backends |-> 0]
    /\ warm = [t \in Tokens |-> WarmOff]
    /\ version = [b \in Backends |-> 0]
    /\ acked = [b \in Backends |-> [t \in Tokens |-> 0]]

-----------------------------------------------------------------------------
(* Helpers. *)

Goto(r, step) == call' = [call EXCEPT ![r].pc = step]
Finish(r)     == call' = [call EXCEPT ![r] = Idle]

Acked(key) == IF key.token = None THEN 0 ELSE acked[key.backend][key.token]

\* What a backend may answer to a read at this moment.
Answers(key) ==
    [from : {key}, version : {version[key.backend]}, size : Sizes, late : {FALSE}]

\* Seeded fault: the token is not asked for.
StoreAnyToken(key, reply) ==
    IF reply.size > 0 THEN Put(key, reply) ELSE UNCHANGED cacheVars

\* maybeStoreLibrary, warmOne: a 200 with JSON for a request with a token.
Store(key, reply) ==
    IF reply.size > 0 /\ key.token # None THEN Put(key, reply) ELSE UNCHANGED cacheVars

-----------------------------------------------------------------------------
(* Clients.  A library read is a GET of a home-page list; a write is a POST, *)
(* PUT or DELETE about playback, favourites or ratings.                      *)

ArriveRead(r) ==
    /\ call[r].pc = "idle"
    /\ \E key \in Reads :
         call' = [call EXCEPT ![r] = [Idle EXCEPT !.pc = "lookup", !.key = key,
                                                  !.floor = Acked(key)]]
    /\ UNCHANGED <<cacheVars, coalesce, flight, slots, warm, dataVars>>

ArriveWrite(r) ==
    /\ call[r].pc = "idle"
    /\ \E key \in Target :
         call' = [call EXCEPT ![r] = [Idle EXCEPT !.pc = "write", !.key = key]]
    /\ UNCHANGED <<cacheVars, coalesce, flight, slots, warm, dataVars>>

\* The client of a read leaves, which cancels the request's context.  Only a
\* request that waits for a slot or hops looks at it.
Leave(r) ==
    /\ call[r].pc \in {"acquire", "hop"}
    /\ ~call[r].gone
    /\ call' = [call EXCEPT ![r].gone = TRUE]
    /\ UNCHANGED <<cacheVars, coalesce, flight, slots, warm, dataVars>>

\* A read has been answered: the handler returns.
Return(r) ==
    /\ call[r].pc = "done"
    /\ Finish(r)
    /\ UNCHANGED <<cacheVars, coalesce, flight, slots, warm, dataVars>>

-----------------------------------------------------------------------------
(* A library read: cache, flight, slot, hop. *)

\* serveLibraryCached, hit.
LookupHit(r) ==
    LET key == call[r].key IN
    /\ call[r].pc = "lookup"
    /\ key.token # None
    /\ GetHit(key)
    /\ call' = [call EXCEPT ![r].pc = "done", ![r].reply = idx[key].reply]
    /\ UNCHANGED <<coalesce, flight, slots, warm, dataVars>>

\* serveLibraryCached, miss, or no token.
LookupMiss(r) ==
    /\ call[r].pc = "lookup"
    /\ IF call[r].key.token = None THEN UNCHANGED cacheVars ELSE GetMiss(call[r].key)
    /\ Goto(r, IF coalesce THEN "join" ELSE "acquire")
    /\ UNCHANGED <<coalesce, flight, slots, warm, dataVars>>

\* Seeded fault: the token is left out of the coalescing key.
FlightKeyAnyToken(key) == [key EXCEPT !.token = None]

\* coalesceKey of a library read: the cache's key.
FlightKey(key) == key

Flight(r) == flight[FlightKey(call[r].key)]

\* Seeded fault: the check and the entry into the table are not one step.
LeadUnlocked(r) ==
    /\ call[r].pc = "join"
    /\ flight' = [flight EXCEPT ![FlightKey(call[r].key)] = r]
    /\ Goto(r, "acquire")
    /\ UNCHANGED <<cacheVars, coalesce, slots, warm, dataVars>>

\* flight.Do, nobody hops for this key: become the leader.
Lead(r) ==
    /\ call[r].pc = "join"
    /\ Flight(r) = None
    /\ flight' = [flight EXCEPT ![FlightKey(call[r].key)] = r]
    /\ Goto(r, "acquire")
    /\ UNCHANGED <<cacheVars, coalesce, slots, warm, dataVars>>

\* flight.Do, somebody does: wait for that answer, whatever one's own client does.
Follow(r) ==
    /\ call[r].pc = "join"
    /\ Flight(r) # None
    /\ Goto(r, "wait")
    /\ UNCHANGED <<cacheVars, coalesce, flight, slots, warm, dataVars>>

\* libSem.acquire.
Acquire(r) ==
    /\ call[r].pc = "acquire"
    /\ slots[call[r].key.backend] < MaxSlots
    /\ slots' = [slots EXCEPT ![call[r].key.backend] = @ + 1]
    /\ Goto(r, "hop")
    /\ UNCHANGED <<cacheVars, coalesce, flight, warm, dataVars>>

\* Seeded fault: the leader answers its own client and leaves the flight behind.
AcquireCancelledAlone(r) ==
    /\ call[r].pc = "acquire"
    /\ call[r].gone
    /\ Goto(r, "done")
    /\ UNCHANGED <<cacheVars, coalesce, flight, slots, warm, dataVars>>

\* libSem.acquire, the client leaves first: no slot to give back.
AcquireCancelled(r) ==
    /\ call[r].pc = "acquire"
    /\ call[r].gone
    /\ Goto(r, "deliver")
    /\ UNCHANGED <<cacheVars, coalesce, flight, slots, warm, dataVars>>

\* The backend answers and the body is read.
HopAnswered(r) ==
    /\ call[r].pc = "hop"
    /\ \E a \in Answers(call[r].key) :
         call' = [call EXCEPT ![r].pc = "store", ![r].reply = a]
    /\ UNCHANGED <<cacheVars, coalesce, flight, slots, warm, dataVars>>

\* Seeded fault: an error returns before the slot is given back.
HopFailsKeepsSlot(r) ==
    /\ call[r].pc = "hop"
    /\ Goto(r, "deliver")
    /\ UNCHANGED <<cacheVars, coalesce, flight, slots, warm, dataVars>>

\* The hop errs: the backend fails or times out, or the client has left.
HopFails(r) ==
    /\ call[r].pc = "hop"
    /\ Goto(r, "release")
    /\ UNCHANGED <<cacheVars, coalesce, flight, slots, warm, dataVars>>

StoreReply(r) ==
    /\ call[r].pc = "store"
    /\ Store(call[r].key, call[r].reply)
    /\ Goto(r, "release")
    /\ UNCHANGED <<coalesce, flight, slots, warm, dataVars>>

\* libSem.release.
Release(r) ==
    /\ call[r].pc = "release"
    /\ slots' = [slots EXCEPT ![call[r].key.backend] = IF @ = 0 THEN 0 ELSE @ - 1]
    /\ Goto(r, "deliver")
    /\ UNCHANGED <<cacheVars, coalesce, flight, warm, dataVars>>

\* Handlers that get the answer of r: r itself and, if it led, its followers.
Sharers(r) ==
    {r} \cup {q \in Requests : /\ call[q].pc = "wait"
                               /\ Flight(r) = r
                               /\ FlightKey(call[q].key) = FlightKey(call[r].key)}

\* Seeded fault: an error is handed to the leader only.
DeliverErrorToLeader(r) ==
    /\ call[r].pc = "deliver"
    /\ LET to == IF call[r].reply = None THEN {r} ELSE Sharers(r) IN
       call' = [q \in Requests |->
                  IF q \in to
                  THEN [call[q] EXCEPT !.pc = "done", !.reply = call[r].reply]
                  ELSE call[q]]
    /\ flight' = [k \in Key |-> IF flight[k] = r THEN None ELSE flight[k]]
    /\ UNCHANGED <<cacheVars, coalesce, slots, warm, dataVars>>

\* The answer, or the error, goes out; the flight is over.
Deliver(r) ==
    /\ call[r].pc = "deliver"
    /\ call' = [q \in Requests |->
                  IF q \in Sharers(r)
                  THEN [call[q] EXCEPT !.pc = "done", !.reply = call[r].reply]
                  ELSE call[q]]
    /\ flight' = [k \in Key |-> IF flight[k] = r THEN None ELSE flight[k]]
    /\ UNCHANGED <<cacheVars, coalesce, slots, warm, dataVars>>

-----------------------------------------------------------------------------
(* A write: the hop, then invalidation before the answer goes out. *)

BumpVersion(b) ==
    /\ version[b] < MaxWrites
    /\ version' = [version EXCEPT ![b] = @ + 1]

\* The backend takes the write and its 2xx answer arrives.
WriteAnswered(r) ==
    /\ call[r].pc = "write"
    /\ BumpVersion(call[r].key.backend)
    /\ call' = [call EXCEPT ![r].pc = "invalidate",
                            ![r].floor = version[call[r].key.backend] + 1]
    /\ UNCHANGED <<cacheVars, coalesce, flight, slots, warm, acked>>

\* The backend takes the write, but the answer is lost.
WriteUnanswered(r) ==
    /\ call[r].pc = "write"
    /\ BumpVersion(call[r].key.backend)
    /\ Finish(r)
    /\ UNCHANGED <<cacheVars, coalesce, flight, slots, warm, acked>>

\* The backend is not reached or refuses.
WriteRefused(r) ==
    /\ call[r].pc = "write"
    /\ Finish(r)
    /\ UNCHANGED <<cacheVars, coalesce, flight, slots, warm, dataVars>>

\* A read of b for t whose answer is in hand but may not be stored yet.
InHand(c, b, t) ==
    /\ c.pc \in {"store", "release", "deliver"}
    /\ c.reply # None
    /\ c.key.backend = b /\ c.key.token = t

\* maybeInvalidateLibrary, then the answer.  The history marks the reads that
\* the write overtook.
Invalidate(r) ==
    LET b == call[r].key.backend
        t == call[r].key.token
    IN  /\ call[r].pc = "invalidate"
        /\ DropToken(b, t)
        /\ acked' = [acked EXCEPT ![b][t] = IF @ < call[r].floor THEN call[r].floor ELSE @]
        /\ call' = [q \in Requests |->
                      CASE q = r -> Idle
                        [] InHand(call[q], b, t) -> [call[q] EXCEPT !.reply.late = TRUE]
                        [] OTHER -> call[q]]
        /\ warm' = IF warm[t].pc = "store" /\ warm[t].backend = b
                   THEN [warm EXCEPT ![t].reply.late = TRUE] ELSE warm
        /\ UNCHANGED <<coalesce, flight, slots, version>>

-----------------------------------------------------------------------------
(* warmLogin: its own goroutine, no slot, one path after the other. *)

WarmKey(t) == [backend |-> warm[t].backend, token |-> t, url |-> WarmUrls[warm[t].next]]

\* The path is dealt with; on to the next one, or the end.
WarmNext(t) ==
    warm' = [warm EXCEPT ![t] =
               IF warm[t].next = Len(WarmUrls) THEN WarmOff
               ELSE [warm[t] EXCEPT !.pc = "read", !.next = @ + 1, !.reply = None]]

\* A login has been answered with this token.  Should a backend hand out the
\* same token again, the earlier warm-up is taken to have ended.
WarmStart(t) ==
    /\ t \in Warmed
    /\ warm[t].pc = "off"
    /\ WarmUrls # <<>>
    /\ \E b \in Backends :
         warm' = [warm EXCEPT ![t] = [pc |-> "read", backend |-> b, next |-> 1, reply |-> None]]
    /\ UNCHANGED <<cacheVars, handlerVars, dataVars>>

WarmAnswered(t) ==
    /\ warm[t].pc = "read"
    /\ \E a \in Answers(WarmKey(t)) :
         warm' = [warm EXCEPT ![t].pc = "store", ![t].reply = a]
    /\ UNCHANGED <<cacheVars, handlerVars, dataVars>>

WarmFails(t) ==
    /\ warm[t].pc = "read"
    /\ WarmNext(t)
    /\ UNCHANGED <<cacheVars, handlerVars, dataVars>>

WarmStore(t) ==
    /\ warm[t].pc = "store"
    /\ Store(WarmKey(t), warm[t].reply)
    /\ WarmNext(t)
    /\ UNCHANGED <<handlerVars, dataVars>>

-----------------------------------------------------------------------------

EntryExpires == Expire /\ UNCHANGED <<handlerVars, warm, dataVars>>

\* What the handler does of itself, the wait for a slot apart.
Handle(r) ==
    \/ LookupHit(r) \/ LookupMiss(r) \/ Lead(r) \/ Follow(r)
    \/ AcquireCancelled(r) \/ HopAnswered(r) \/ HopFails(r) \/ StoreReply(r)
    \/ Release(r) \/ Deliver(r) \/ Return(r)
    \/ WriteAnswered(r) \/ WriteUnanswered(r) \/ WriteRefused(r) \/ Invalidate(r)

WarmUp(t) == WarmStart(t) \/ WarmAnswered(t) \/ WarmFails(t) \/ WarmStore(t)

Next ==
    \/ \E r \in Requests : ArriveRead(r) \/ ArriveWrite(r) \/ Leave(r) \/ Acquire(r) \/ Handle(r)
    \/ \E t \in Tokens : WarmUp(t)
    \/ EntryExpires

Spec == Init /\ [][Next]_vars

\* Handlers step, backends finish or break off the answers they begin, and the
\* channel behind a slot serves its waiters in turn.
Fairness ==
    \A r \in Requests : WF_vars(Handle(r)) /\ SF_vars(Acquire(r))

FairSpec == Spec /\ Fairness
=============================================================================
