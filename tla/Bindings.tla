------------------------------ MODULE Bindings ------------------------------
(***************************************************************************)
(* The affinity store (internal/store): the tables that pin a client to a  *)
(* backend.  A row is [backend, gray, live]: the backend it names, whether *)
(* its stored client class matches the gray-list, and whether it is within *)
(* its TTL.  Hashing of keys, the SQL dialects and the columns no decision *)
(* reads (user, version, last path ...) are left out.                      *)
(*                                                                         *)
(* Every operator below is one SQL statement: the new value of a table.    *)
(* The statements of one request are separate steps of module Proxy.       *)
(***************************************************************************)
EXTENDS Naturals, FiniteSets

CONSTANTS
    Backends,   \* configured backends, numbered by their position in the config
    Tokens,     \* access tokens the backends may issue
    Devices,    \* client devices; a device's DeviceId is the device itself
    AnonKeys,   \* values of hash(client IP + User-Agent)
    Addrs,      \* values of hash(client IP)
    None        \* "no row", "no token", "no backend"

Row == [backend : Backends, gray : BOOLEAN, live : BOOLEAN]

ASSUME StoreAssumption ==
    /\ Backends \subseteq Nat
    /\ \A S \in SUBSET Backends : S # {} => \E b \in S : \A c \in S : b <= c
    /\ None \notin Backends \cup Tokens \cup Devices \cup AnonKeys \cup Addrs \cup Row

VARIABLES
    tokenRow,   \* token_bindings
    deviceRow,  \* device_bindings
    anonRow,    \* anon_bindings, the hash(IP + User-Agent) keys
    sessionRow  \* anon_bindings, the hash(IP) keys ("session IP glue")

storeVars == <<tokenRow, deviceRow, anonRow, sessionRow>>

StoreTypeOK ==
    /\ tokenRow \in [Tokens -> Row \cup {None}]
    /\ deviceRow \in [Devices -> Row \cup {None}]
    /\ anonRow \in [AnonKeys -> Row \cup {None}]
    /\ sessionRow \in [Addrs -> Row \cup {None}]

StoreInit ==
    /\ tokenRow = [t \in Tokens |-> None]
    /\ deviceRow = [d \in Devices |-> None]
    /\ anonRow = [k \in AnonKeys |-> None]
    /\ sessionRow = [a \in Addrs |-> None]

-----------------------------------------------------------------------------
(* Reads. *)

\* What a lookup returns: an expired row reads as no row.
Lookup(table, key) ==
    IF key # None /\ table[key] # None /\ table[key].live THEN table[key] ELSE None

\* Seeded fault: the lazy delete does not look at the TTL again.
PurgeLive(table, key) ==
    IF key # None /\ table[key] # None THEN [table EXCEPT ![key] = None] ELSE table

\* The lazy delete in a lookup, when it succeeds: the row it found expired is
\* gone afterwards.
Purge(table, key) ==
    IF key # None /\ table[key] # None /\ ~table[key].live
    THEN [table EXCEPT ![key] = None]
    ELSE table

RowsOn(table, b) == {k \in DOMAIN table : table[k] # None /\ table[k].backend = b}

\* CountsByBackend plus the sum its callers take: expired rows still count.
Load(b) == Cardinality(RowsOn(tokenRow, b)) + Cardinality(RowsOn(deviceRow, b))

-----------------------------------------------------------------------------
(* Writes. *)

\* Seeded fault: the upsert stores the request's client even when it is empty.
UpsertOverwritesClient(table, key, b, gray) ==
    [table EXCEPT ![key] = [backend |-> b, gray |-> gray, live |-> TRUE]]

\* INSERT ... ON CONFLICT DO UPDATE: the backend and last_seen are overwritten,
\* an empty client does not overwrite a stored one.
Upsert(table, key, b, gray) ==
    [table EXCEPT ![key] =
        [backend |-> b, gray |-> gray \/ (@ # None /\ @.gray), live |-> TRUE]]

Delete(table, key) == IF key = None THEN table ELSE [table EXCEPT ![key] = None]

\* UPDATE ... SET last_seen: renews a row that exists, never creates one.
Touch(table, key) ==
    IF key # None /\ table[key] # None
    THEN [table EXCEPT ![key].live = TRUE]
    ELSE table

\* Time passes the TTL of a row.
Expired(table, key) == [table EXCEPT ![key].live = FALSE]
=============================================================================
