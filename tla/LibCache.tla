------------------------------ MODULE LibCache ------------------------------
(***************************************************************************)
(* internal/libcache: the bounded LRU of library answers.  The cache is a  *)
(* list with an index and a byte counter, three variables here because the *)
(* code keeps them apart.  Every operation holds the mutex and is one      *)
(* step.                                                                   *)
(*                                                                         *)
(* An answer's body is the data it was built from, see Reply.  The clock   *)
(* is abstracted: an entry is fresh until it expires, at any time.         *)
(***************************************************************************)
EXTENDS Lists, FiniteSets, FiniteSetsExt

CONSTANTS
    Backends, Tokens, Urls,
    None,       \* no token, no reply, no request
    Sizes,      \* sizes of the answers backends give, 0 for what is never kept
    MaxBytes,   \* performance.library.max_bytes
    MaxObject   \* performance.library.max_object

ASSUME LibCacheAssumption ==
    /\ None \notin Backends \cup Tokens
    /\ Sizes \subseteq Nat
    /\ MaxBytes \in Nat
    /\ MaxObject \in Nat

VARIABLES
    idx,    \* Cache.idx: the entry under each key, or None
    order,  \* Cache.ll: the keys, most recently used first
    bytes   \* Cache.n

cacheVars == <<idx, order, bytes>>

\* backend + token hash + path + query.  Only GETs leave a body to keep.
Key == [backend : Backends, token : Tokens \cup {None}, url : Urls]

\* A backend's answer: what it was asked, the state it was read from, its size,
\* which is 0 for all but a 200 with JSON.  late is history: a write of this
\* token was acknowledged between the read and the store.
Reply == [from : Key, version : Nat, size : Sizes, late : BOOLEAN]

Entry == [reply : Reply, fresh : BOOLEAN]

ASSUME NoneIsNothing == None \notin Reply \cup Entry

CacheInit ==
    /\ idx = [k \in Key |-> None]
    /\ order = <<>>
    /\ bytes = 0

Cached == {k \in Key : idx[k] # None}

BytesOf(K) == SumFunctionOnSet([k \in Cached |-> idx[k].reply.size], K \cap Cached)

-----------------------------------------------------------------------------
(* removeLocked, for the entries under the keys K. *)

Forget(K) == [k \in Key |-> IF k \in K THEN None ELSE idx[k]]

\* Seeded fault: the caller subtracts what removeLocked has subtracted already.
LessTwice(K) == bytes - 2 * BytesOf(K)

\* The counter never goes below zero.
Less(K) == IF BytesOf(K) > bytes THEN 0 ELSE bytes - BytesOf(K)

Remove(K) ==
    /\ idx' = Forget(K)
    /\ order' = Deleted(order, K)
    /\ bytes' = Less(K)

-----------------------------------------------------------------------------
(* Get. *)

IsHit(key) == idx[key] # None /\ idx[key].fresh

\* A fresh entry moves to the front; the caller gets a copy.
GetHit(key) ==
    /\ IsHit(key)
    /\ order' = <<key>> \o Deleted(order, {key})
    /\ UNCHANGED <<idx, bytes>>

\* A miss removes the entry if there is an expired one.
GetMiss(key) == ~IsHit(key) /\ Remove({key})

-----------------------------------------------------------------------------
(* Put. *)

Storable(reply) == reply.size \in 1..MaxObject /\ reply.size <= MaxBytes

\* The keys that have to go before size bytes can be kept under key: the entry
\* it replaces, and the fewest from the back that leave room.
Displaced(key, size) ==
    LET rest == Deleted(order, {key})
        Back(n) == {rest[i] : i \in (Len(rest) - n + 1)..Len(rest)}
        fitting == {n \in 0..Len(rest) : Less({key} \cup Back(n)) + size <= MaxBytes}
    IN  {key} \cup Back(IF fitting = {} THEN Len(rest) ELSE Min(fitting))

\* Seeded fault: a replaced entry's bytes are not given back.
PutLeaksBytes(key, reply) ==
    LET out == Displaced(key, reply.size) IN
    IF ~Storable(reply) THEN UNCHANGED cacheVars
    ELSE /\ idx' = [Forget(out) EXCEPT ![key] = [reply |-> reply, fresh |-> TRUE]]
         /\ order' = <<key>> \o Deleted(order, out)
         /\ bytes' = Less(out \ {key}) + reply.size

\* Make room, then push the new entry to the front.  The code's last check, that
\* there is room now, cannot fail when the counter is right.
Put(key, reply) ==
    LET out == Displaced(key, reply.size) IN
    IF ~Storable(reply) THEN UNCHANGED cacheVars
    ELSE IF Less(out) + reply.size > MaxBytes THEN Remove(out)
    ELSE /\ idx' = [Forget(out) EXCEPT ![key] = [reply |-> reply, fresh |-> TRUE]]
         /\ order' = <<key>> \o Deleted(order, out)
         /\ bytes' = Less(out) + reply.size

-----------------------------------------------------------------------------
(* DropToken and the clock. *)

\* Seeded fault: the prefix is built from the token, not from its hash.
KeysOfRawToken(b, t) == {}

\* The keys with the prefix DropToken looks for.
KeysOf(b, t) == {k \in Key : k.backend = b /\ k.token = t}

\* Seeded fault: the loop removes an element and then asks it for the next one.
DropTokenStopsEarly(b, t) ==
    LET mine == {i \in DOMAIN order : order[i] \in KeysOf(b, t)}
    IN  Remove(IF mine = {} THEN {} ELSE {order[Min(mine)]})

\* Every entry of the token at the backend goes.
DropToken(b, t) == Remove(KeysOf(b, t))

\* TTL has passed for one entry.
Expire ==
    /\ \E k \in Cached :
         /\ idx[k].fresh
         /\ idx' = [idx EXCEPT ![k].fresh = FALSE]
    /\ UNCHANGED <<order, bytes>>

-----------------------------------------------------------------------------

CacheTypeOK ==
    /\ idx \in [Key -> Entry \cup {None}]
    /\ order \in Seq(Key)
    /\ bytes \in Nat

\* The list holds every indexed key once, the counter is the bytes held, and
\* they stay within max_bytes.
CacheSound ==
    /\ {order[i] : i \in DOMAIN order} = Cached
    /\ Len(order) = Cardinality(Cached)
    /\ bytes = BytesOf(Cached)
    /\ bytes <= MaxBytes
=============================================================================
