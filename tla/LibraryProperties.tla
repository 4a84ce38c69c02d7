------------------------- MODULE LibraryProperties -------------------------
(***************************************************************************)
(* What library reads promise, for module Library.                         *)
(***************************************************************************)
EXTENDS Library

Answered(r) == call[r].pc = "done" /\ call[r].reply # None

-----------------------------------------------------------------------------
(* Isolation. *)

\* Every answer a client gets was given by its own backend to its own token for
\* the path it asked, whether it came from the hop, the cache, another request's
\* flight or a warm-up (libcache.Key, coalesceKey).
AnswersOwn ==
    \A r \in Requests : Answered(r) => call[r].reply.from = call[r].key

\* Nothing read without a token is kept, and an entry's body is what its key
\* says (maybeStoreLibrary, warmOne).
EntriesOwn ==
    \A k \in Cached : idx[k].reply.from = k /\ k.token # None

-----------------------------------------------------------------------------
(* Freshness. *)

\* Once a client has been told that its write took place, no entry of its token
\* is older, unless the entry was read before the write and still on its way to
\* the cache when the token's entries were dropped (maybeInvalidateLibrary).
EntriesFresh ==
    \A k \in Cached : idx[k].reply.version < Acked(k) => idx[k].reply.late

\* A client that reads after its write was acknowledged sees the write, with the
\* same exception (cache, flights and warm-up together).
ReadsOwnWrites ==
    \A r \in Requests :
        Answered(r) => call[r].reply.version >= call[r].floor \/ call[r].reply.late

-----------------------------------------------------------------------------
(* Flights and slots. *)

HopSteps  == {"hop", "store", "release"}
LeadSteps == HopSteps \cup {"acquire", "deliver"}

HoldsSlot(r) == call[r].pc \in HopSteps
Leading(r)   == call[r].pc \in LeadSteps
Holders(b)   == {r \in Requests : HoldsSlot(r) /\ call[r].key.backend = b}

\* The slots taken are those of the requests that hop, and never more than
\* library_concurrency.max (acquireLibrary, releaseLibrary on every path).
SlotsConserved ==
    \A b \in Backends : slots[b] = Cardinality(Holders(b)) /\ slots[b] <= MaxSlots

\* A request that waits for another's answer waits for one that is on its way,
\* and a flight's leader hops for the key it leads (proxyCoalesced, flight.Do).
FlightsLed ==
    /\ \A k \in Key : flight[k] # None =>
         Leading(flight[k]) /\ FlightKey(call[flight[k]].key) = k
    /\ \A r \in Requests : call[r].pc = "wait" => Flight(r) \notin {None, r}

\* With coalescing on, one request at a time hops for a key.
OneHopPerKey ==
    coalesce => \A q, r \in Requests :
        HoldsSlot(q) /\ HoldsSlot(r) /\ call[q].key = call[r].key => q = r

\* Every request is answered: followers do not outlive their leader, waiters for
\* a slot get one, errors free what they hold.
EveryReadAnswered == \A r \in Requests : call[r].pc # "idle" ~> call[r].pc = "idle"

-----------------------------------------------------------------------------
(* The inductive invariant behind isolation and coalescing. *)

\* Types, without the list and its counter, which isolation does not rest on.
DataTypeOK ==
    /\ idx \in [Key -> Entry \cup {None}]
    /\ coalesce \in BOOLEAN
    /\ call \in [Requests -> CallType]
    /\ flight \in [Key -> Requests \cup {None}]
    /\ warm \in [Tokens -> WarmType]
    /\ version \in [Backends -> Nat]
    /\ acked \in [Backends -> [Tokens -> Nat]]

\* What a handler has at each step, and that an answer in hand is its own.
CallOwn(c) ==
    /\ c.pc \in {"write", "invalidate"} => c.key \in Target
    /\ c.pc \notin {"idle", "write", "invalidate"} => c.key \in Key
    /\ c.pc \notin {"store", "release", "deliver", "done"} => c.reply = None
    /\ c.pc = "store" => c.reply \in Reply /\ c.reply.from = c.key
    /\ c.reply # None => c.reply.from = c.key

CallsOwn == \A r \in Requests : CallOwn(call[r])

\* The same of a warm-up.
WarmOwn ==
    \A t \in Tokens :
        /\ warm[t].pc # "off" => warm[t].backend \in Backends /\ warm[t].next \in DOMAIN WarmUrls
        /\ warm[t].pc = "store" => warm[t].reply \in Reply /\ warm[t].reply.from = WarmKey(t)

\* With coalescing on, whoever is on the way with a key leads its flight.
LeadersKnown ==
    /\ coalesce => \A r \in Requests : Leading(r) => Flight(r) = r
    /\ ~coalesce => \A r \in Requests : call[r].pc \notin {"join", "wait"}

\* Why a client is never given another's answer: whatever holds an answer, an
\* entry, a handler, a flight or a warm-up, holds it under the key it was read
\* for (serveLibraryCached, proxyCoalesced, warmOne).
LibraryInv ==
    DataTypeOK /\ EntriesOwn /\ CallsOwn /\ WarmOwn /\ FlightsLed /\ LeadersKnown
=============================================================================
