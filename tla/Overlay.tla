------------------------------ MODULE Overlay ------------------------------
(***************************************************************************)
(* What the run-time disable flags promise the operator, without the       *)
(* mechanism: a flag moves only while a request about it is unsettled, and *)
(* a request that settles leaves the flag as it asked.  A restart is no    *)
(* exception, unless it may forget the flags altogether.                   *)
(***************************************************************************)
EXTENDS FiniteSets

CONSTANTS
    Backends,
    MayForget  \* may a restart come up without the flags

VARIABLES
    parked,  \* backends HAP treats as disabled at run time
    asked,   \* backends whose last request was to disable
    open     \* backends with a request that has not settled

overlayVars == <<parked, asked, open>>

Init == parked = {} /\ asked = {} /\ open = {}

\* Only flags of S may differ between the present overlay and the next.
MovesWithin(S) == parked' \subseteq Backends /\ parked' \ S = parked \ S

\* The operator asks for b to be disabled, or to be enabled.
Request(b) ==
    /\ asked' \in {asked \cup {b}, asked \ {b}}
    /\ open' = open \cup {b}
    /\ UNCHANGED parked

\* The request is acknowledged: b is as the operator last asked.
Settle(b) ==
    /\ b \in open
    /\ MovesWithin({b})
    /\ b \in parked' <=> b \in asked
    /\ open' = open \ {b}
    /\ UNCHANGED asked

\* Requests that raced, or failed, may leave their flags either way.
Drift == MovesWithin(open) /\ UNCHANGED <<asked, open>>

\* A restart ends every request: what it left is what holds.
Reload == MovesWithin(open) /\ open' = {} /\ UNCHANGED asked

\* A restart that finds no flags parks nothing; the flags may come back later.
Forget ==
    /\ MayForget
    /\ parked' = {}
    /\ open \cup parked \subseteq open' /\ open' \subseteq Backends
    /\ UNCHANGED asked

Next ==
    \/ \E b \in Backends : Request(b) \/ Settle(b)
    \/ Drift \/ Reload \/ Forget

Spec == Init /\ [][Next]_overlayVars
=============================================================================
