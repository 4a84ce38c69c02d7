---------------------------- MODULE BackendFlags ----------------------------
(***************************************************************************)
(* The operator's disable/enable of a backend at run time: the status      *)
(* handlers (internal/status), Flags (internal/router/flags.go) and the    *)
(* backend_flags table (internal/store).  SetRuntime writes the table and  *)
(* then, under the lock, the map the router reads; the two writes are      *)
(* separate steps, and the status server runs its handlers concurrently.   *)
(***************************************************************************)
EXTENDS Naturals, FiniteSets

CONSTANTS
    Backends,
    ConfigDisabled,  \* backends parked by the config file
    Calls,           \* status handlers that may be in flight together
    None,            \* no backend
    LoadMayFail,     \* may the table be unreadable while HAP starts
    MaxRestarts      \* bound on restarts

ASSUME FlagsAssumption ==
    /\ ConfigDisabled \subseteq Backends
    /\ None \notin Backends
    /\ LoadMayFail \in BOOLEAN
    /\ MaxRestarts \in Nat

VARIABLES
    stored,    \* names with disabled = 1 in backend_flags
    runtime,   \* Flags.runtime
    call,      \* the POST each handler is serving
    restarts,  \* restarts so far, at most MaxRestarts
    asked,     \* history: backends whose last POST was a disable
    open       \* history: backends whose flag nothing has settled since a POST

vars == <<stored, runtime, call, restarts, asked, open>>

\* alone (history): no other POST about the same backend overlaps this one.
CallType ==
    [pc : {"idle", "store", "memory"}, backend : Backends \cup {None},
     disable : BOOLEAN, alone : BOOLEAN]

IdleCall == [pc |-> "idle", backend |-> None, disable |-> FALSE, alone |-> FALSE]

TypeOK ==
    /\ stored \subseteq Backends /\ runtime \subseteq Backends
    /\ call \in [Calls -> CallType]
    /\ restarts \in Nat
    /\ asked \subseteq Backends /\ open \subseteq Backends

Init ==
    /\ stored = {} /\ runtime = {}
    /\ call = [c \in Calls |-> IdleCall]
    /\ restarts = 0
    /\ asked = {} /\ open = {}

With(S, b, on) == IF on THEN S \cup {b} ELSE S \ {b}

InFlight(c, b) == call[c].pc # "idle" /\ call[c].backend = b

\* POST /hap/backends/{b}/disable or /enable.  Enable of a backend the config
\* parked answers 409 and changes nothing.
Post(c) ==
    /\ call[c].pc = "idle"
    /\ \E b \in Backends, disable \in BOOLEAN :
         LET others == {o \in Calls \ {c} : InFlight(o, b)} IN
         /\ disable \/ b \notin ConfigDisabled
         /\ call' = [o \in Calls |->
              IF o = c THEN [pc |-> "store", backend |-> b, disable |-> disable,
                             alone |-> others = {}]
              ELSE IF o \in others THEN [call[o] EXCEPT !.alone = FALSE]
              ELSE call[o]]
         /\ asked' = With(asked, b, disable)
         /\ open' = open \cup {b}
    /\ UNCHANGED <<stored, runtime, restarts>>

\* SetRuntime, the table: SetBackendDisabled or ClearBackendFlag.
WriteStore(c) ==
    /\ call[c].pc = "store"
    /\ stored' = With(stored, call[c].backend, call[c].disable)
    /\ call' = [call EXCEPT ![c].pc = "memory"]
    /\ UNCHANGED <<runtime, restarts, asked, open>>

\* Seeded fault: SetRuntime goes on to the map after a failed statement.
StoreFailsIgnored(c) ==
    /\ call[c].pc = "store"
    /\ stored' \in {stored, With(stored, call[c].backend, call[c].disable)}
    /\ call' = [call EXCEPT ![c].pc = "memory"]
    /\ UNCHANGED <<runtime, restarts, asked, open>>

\* The statement errs, with or without having taken effect: 500, and the map is
\* left alone.
StoreFails(c) ==
    /\ call[c].pc = "store"
    /\ stored' \in {stored, With(stored, call[c].backend, call[c].disable)}
    /\ call' = [call EXCEPT ![c] = IdleCall]
    /\ UNCHANGED <<runtime, restarts, asked, open>>

\* SetRuntime, the map, and the 200.
WriteMemory(c) ==
    LET b == call[c].backend IN
    /\ call[c].pc = "memory"
    /\ runtime' = With(runtime, b, call[c].disable)
    /\ call' = [call EXCEPT ![c] = IdleCall]
    /\ open' = IF call[c].alone THEN open \ {b} ELSE open
    /\ UNCHANGED <<stored, restarts, asked>>

\* Flags.load: the map starts with the rows of the table, or empty when the
\* table cannot be read, which goes unnoticed.
Load ==
    \/ runtime' = stored /\ open' = {}
    \/ LoadMayFail /\ runtime' = {} /\ open' = open \cup stored \cup runtime

\* HAP stops, whatever its handlers were doing, and starts again.
Restart ==
    /\ restarts < MaxRestarts
    /\ restarts' = restarts + 1
    /\ call' = [c \in Calls |-> IdleCall]
    /\ Load
    /\ UNCHANGED <<stored, asked>>

Next ==
    \/ \E c \in Calls : Post(c) \/ WriteStore(c) \/ StoreFails(c) \/ WriteMemory(c)
    \/ Restart

Spec == Init /\ [][Next]_vars

-----------------------------------------------------------------------------
(* What the operator can rely on. *)

\* "A store overlay that survives restart" (docs/health.md): no interleaving of
\* POSTs, failed statement or crash moves a flag that is settled, and an
\* acknowledged POST that met no other settles its flag as it asked.  The one
\* exception is a table that cannot be read at startup: it parks nothing.
Promise == INSTANCE Overlay WITH parked <- runtime, MayForget <- LoadMayFail

OverlayPromise == Promise!Spec

-----------------------------------------------------------------------------
(* The inductive invariant. *)

\* A settled flag is the same in the table and in the map.
SettledAgrees == \A b \in Backends \ open : b \in stored <=> b \in runtime

\* A POST in flight keeps its flag open; one that met no other is the last one
\* asked, and the table has its value by the time it writes the map.
CallCarries(c) ==
    LET k == call[c] IN
    k.pc # "idle" =>
        /\ k.backend \in open
        /\ k.alone =>
              /\ \A o \in Calls \ {c} : ~InFlight(o, k.backend)
              /\ k.disable <=> k.backend \in asked
              /\ k.pc = "memory" => (k.disable <=> k.backend \in stored)

FlagsInv == TypeOK /\ SettledAgrees /\ \A c \in Calls : CallCarries(c)
=============================================================================
