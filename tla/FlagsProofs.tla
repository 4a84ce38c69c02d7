---------------------------- MODULE FlagsProofs ----------------------------
(***************************************************************************)
(* Proofs about module BackendFlags: its invariant, and that it implements *)
(* module Overlay.                                                         *)
(***************************************************************************)
EXTENDS BackendFlags, TLAPS

LEMMA WithType ==
    ASSUME NEW S \in SUBSET Backends, NEW b \in Backends, NEW on \in BOOLEAN
    PROVE  /\ With(S, b, on) \subseteq Backends
           /\ b \in With(S, b, on) <=> on
           /\ \A x : x # b => (x \in With(S, b, on) <=> x \in S)
  BY DEF With

\* The call of one handler, as its step finds it.
LEMMA CallFacts ==
    ASSUME FlagsInv, NEW c \in Calls, call[c].pc # "idle"
    PROVE  /\ call \in [Calls -> CallType] /\ call[c] \in CallType
           /\ call[c].disable \in BOOLEAN /\ call[c].alone \in BOOLEAN
           /\ call[c].backend \in Backends /\ call[c].backend \in open
           /\ stored \subseteq Backends /\ runtime \subseteq Backends
           /\ asked \subseteq Backends /\ open \subseteq Backends
  BY DEF FlagsInv, TypeOK, CallCarries, CallType

-----------------------------------------------------------------------------
(* The invariant, one lemma per action that moves it. *)

LEMMA InitFlagsInv == Init => FlagsInv
  BY FlagsAssumption
     DEF Init, FlagsInv, TypeOK, SettledAgrees, CallCarries, CallType, IdleCall

LEMMA PostInv ==
    ASSUME FlagsInv, NEW c \in Calls, Post(c)
    PROVE  FlagsInv'
<1> PICK b \in Backends, disable \in BOOLEAN :
      /\ call' = [o \in Calls |->
           IF o = c THEN [pc |-> "store", backend |-> b, disable |-> disable,
                          alone |-> {x \in Calls \ {c} : InFlight(x, b)} = {}]
           ELSE IF o \in {x \in Calls \ {c} : InFlight(x, b)}
                THEN [call[o] EXCEPT !.alone = FALSE]
           ELSE call[o]]
      /\ asked' = With(asked, b, disable)
      /\ open' = open \cup {b}
  BY DEF Post
<1>t. TypeOK /\ call \in [Calls -> CallType] /\ UNCHANGED <<stored, runtime, restarts>>
  BY DEF FlagsInv, TypeOK, Post
<1>1. /\ call'[c].pc = "store" /\ call'[c].backend = b /\ call'[c].disable = disable
      /\ call'[c].alone <=> \A x \in Calls \ {c} : ~InFlight(x, b)
  OBVIOUS
<1>2. ASSUME NEW o \in Calls \ {c}
      PROVE  /\ call'[o].pc = call[o].pc /\ call'[o].backend = call[o].backend
             /\ call'[o].disable = call[o].disable
             /\ InFlight(o, b) => ~call'[o].alone
             /\ ~InFlight(o, b) => call'[o] = call[o]
             /\ call'[o] \in CallType
  <2>1. CASE InFlight(o, b)
    <3>1. call'[o] = [call[o] EXCEPT !.alone = FALSE] /\ call[o] \in CallType
      BY <1>t, <2>1
    <3> QED
      BY <2>1, <3>1 DEF CallType
  <2>2. CASE ~InFlight(o, b)
    BY <1>t, <2>2
  <2> QED
    BY <2>1, <2>2
<1>3. TypeOK'
  <2>1. call' \in [Calls -> CallType]
    <3>1. call'[c] \in CallType
      BY DEF CallType
    <3>2. \A o \in Calls : call'[o] \in CallType
      BY <1>2, <3>1
    <3>3. call' = [o \in Calls |-> call'[o]]
      OBVIOUS
    <3> HIDE DEF CallType
    <3> QED
      BY <3>2, <3>3
  <2> QED
    BY <1>t, <2>1, WithType DEF TypeOK
<1>4. SettledAgrees'
  BY <1>t DEF FlagsInv, SettledAgrees
<1>5. ASSUME NEW o \in Calls PROVE CallCarries(o)'
  <2>1. CASE o = c
    <3>1. \A x \in Calls \ {c} : InFlight(x, b)' <=> InFlight(x, b)
      BY <1>2 DEF InFlight
    <3>2. disable <=> b \in asked'
      BY <1>t, WithType DEF TypeOK
    <3> QED
      BY <1>1, <2>1, <3>1, <3>2 DEF CallCarries
  <2>2. CASE o # c /\ InFlight(o, b)
    BY <1>2, <2>2 DEF CallCarries, InFlight
  <2>3. CASE o # c /\ ~InFlight(o, b)
    <3>1. CallCarries(o) /\ call'[o] = call[o]
      BY <1>2, <2>3 DEF FlagsInv
    <3>2. SUFFICES ASSUME call[o].pc # "idle" PROVE CallCarries(o)'
      BY <3>1 DEF CallCarries
    <3>3. call[o].backend # b
      BY <2>3, <3>2 DEF InFlight
    <3>4. \A x \in Calls \ {o} : InFlight(x, call[o].backend)' => InFlight(x, call[o].backend)
      BY <1>1, <1>2, <3>1, <3>3 DEF InFlight
    <3>5. call[o].backend \in asked' <=> call[o].backend \in asked
      BY <1>t, <3>3, WithType DEF TypeOK
    <3> QED
      BY <1>t, <3>1, <3>2, <3>4, <3>5 DEF CallCarries, InFlight
  <2> QED
    BY <2>1, <2>2, <2>3
<1> QED
  BY <1>3, <1>4, <1>5 DEF FlagsInv

\* A handler that writes or leaves the table touches no other backend's row, and
\* a POST about the same backend no longer counts as having met no other.
LEMMA StoreStepInv ==
    ASSUME FlagsInv, NEW c \in Calls, call[c].pc = "store",
           stored' \in {stored, With(stored, call[c].backend, call[c].disable)},
           \/ /\ call' = [call EXCEPT ![c].pc = "memory"]
              /\ stored' = With(stored, call[c].backend, call[c].disable)
           \/ call' = [call EXCEPT ![c] = IdleCall],
           UNCHANGED <<runtime, restarts, asked, open>>
    PROVE  FlagsInv'
<1> DEFINE b == call[c].backend
<1>f. /\ call \in [Calls -> CallType] /\ call[c] \in CallType
      /\ call[c].disable \in BOOLEAN /\ b \in Backends /\ b \in open
      /\ stored \subseteq Backends
  BY CallFacts
<1>1. /\ stored' \subseteq Backends
      /\ \A x \in Backends \ {b} : x \in stored' <=> x \in stored
  BY <1>f, WithType
<1>2. /\ \A o \in Calls \ {c} : call'[o] = call[o]
      /\ call'[c].backend = b \/ call'[c].pc = "idle"
      /\ call' \in [Calls -> CallType]
  <2>1. CASE call' = [call EXCEPT ![c].pc = "memory"]
    <3>1. [call[c] EXCEPT !.pc = "memory"] \in CallType
      BY <1>f DEF CallType
    <3>2. call'[c] = [call[c] EXCEPT !.pc = "memory"]
      BY <1>f, <2>1
    <3>3. call'[c].backend = b
      BY <1>f, <3>2 DEF CallType
    <3> QED
      BY <1>f, <2>1, <3>1, <3>3
  <2>2. CASE call' = [call EXCEPT ![c] = IdleCall]
    <3>1. IdleCall \in CallType /\ IdleCall.pc = "idle"
      BY DEF IdleCall, CallType
    <3> QED
      BY <1>f, <2>2, <3>1
  <2> QED
    BY <2>1, <2>2
<1>i. \A x \in Calls :
        call'[x].pc # "idle" => call[x].pc # "idle" /\ call'[x].backend = call[x].backend
  BY <1>2
<1>3. TypeOK'
  BY <1>1, <1>2 DEF FlagsInv, TypeOK
<1>4. SettledAgrees'
  BY <1>f, <1>1 DEF FlagsInv, SettledAgrees
<1>5. ASSUME NEW o \in Calls PROVE CallCarries(o)'
  <2>1. CASE o # c
    <3>1. CallCarries(o) /\ call'[o] = call[o]
      BY <1>2, <2>1 DEF FlagsInv
    <3>3. call[o].pc # "idle" /\ call[o].alone =>
             call[o].backend \in Backends \ {b}
      BY <1>f, <2>1, <3>1 DEF CallCarries, InFlight, CallType, FlagsInv, TypeOK
    <3> QED
      BY <1>1, <1>i, <3>1, <3>3 DEF CallCarries, InFlight
  <2>2. CASE o = c /\ call'[c].pc = "idle"
    BY <2>2 DEF CallCarries
  <2>3. CASE o = c /\ call'[c].pc # "idle"
    <3>1. call' = [call EXCEPT ![c].pc = "memory"] /\ stored' = With(stored, b, call[c].disable)
      BY <1>f, <2>3 DEF IdleCall
    <3>2. CallCarries(c) /\ (b \in stored' <=> call[c].disable)
      BY <1>f, <3>1, WithType DEF FlagsInv
    <3>3. /\ call'[c].backend = b /\ call'[c].disable = call[c].disable
          /\ call'[c].alone = call[c].alone
      BY <1>f, <3>1 DEF CallType
    <3> QED
      BY <1>f, <1>i, <2>3, <3>2, <3>3 DEF CallCarries, InFlight
  <2> QED
    BY <2>1, <2>2, <2>3
<1> QED
  BY <1>3, <1>4, <1>5 DEF FlagsInv

LEMMA WriteMemoryInv ==
    ASSUME FlagsInv, NEW c \in Calls, WriteMemory(c)
    PROVE  FlagsInv'
<1> DEFINE b == call[c].backend
<1>f. /\ call[c].pc = "memory" /\ call \in [Calls -> CallType]
      /\ call[c].disable \in BOOLEAN /\ b \in Backends /\ b \in open
      /\ stored \subseteq Backends /\ runtime \subseteq Backends /\ open \subseteq Backends
      /\ CallCarries(c)
  BY CallFacts DEF WriteMemory, FlagsInv
<1>1. /\ runtime' = With(runtime, b, call[c].disable)
      /\ call' = [call EXCEPT ![c] = IdleCall]
      /\ open' = (IF call[c].alone THEN open \ {b} ELSE open)
      /\ UNCHANGED <<stored, restarts, asked>>
  BY DEF WriteMemory
<1>2. /\ runtime' \subseteq Backends
      /\ b \in runtime' <=> call[c].disable
      /\ \A x \in Backends \ {b} : x \in runtime' <=> x \in runtime
  BY <1>f, <1>1, WithType
<1>3. /\ \A o \in Calls \ {c} : call'[o] = call[o]
      /\ call'[c] = IdleCall /\ call' \in [Calls -> CallType]
  BY <1>f, <1>1 DEF CallType, IdleCall
<1>4. TypeOK'
  BY <1>f, <1>1, <1>2, <1>3 DEF FlagsInv, TypeOK
<1>5. SettledAgrees'
  BY <1>f, <1>1, <1>2 DEF FlagsInv, SettledAgrees, CallCarries
<1>6. ASSUME NEW o \in Calls PROVE CallCarries(o)'
  <2>1. CASE o = c
    BY <1>3, <2>1 DEF CallCarries, IdleCall
  <2>2. CASE o # c
    <3>1. CallCarries(o) /\ call'[o] = call[o]
      BY <1>3, <2>2 DEF FlagsInv
    <3>2. \A x \in Calls : call'[x].pc # "idle" => call'[x] = call[x]
      BY <1>3 DEF IdleCall
    <3>3. call[o].pc # "idle" => call[o].backend \in open'
      BY <1>1, <1>f, <2>2, <3>1 DEF CallCarries, InFlight
    <3> QED
      BY <1>1, <3>1, <3>2, <3>3 DEF CallCarries, InFlight
  <2> QED
    BY <2>1, <2>2
<1> QED
  BY <1>4, <1>5, <1>6 DEF FlagsInv

LEMMA RestartInv ==
    ASSUME FlagsInv, Restart
    PROVE  FlagsInv'
<1>1. /\ call' = [c \in Calls |-> IdleCall] /\ UNCHANGED <<stored, asked>>
      /\ \/ runtime' = stored /\ open' = {}
         \/ runtime' = {} /\ open' = open \cup stored \cup runtime
  BY DEF Restart, Load
<1>2. TypeOK'
  <2>1. call' \in [Calls -> CallType]
    BY <1>1 DEF CallType, IdleCall
  <2>2. restarts' \in Nat
    BY DEF Restart, FlagsInv, TypeOK
  <2> QED
    BY <1>1, <2>1, <2>2 DEF FlagsInv, TypeOK
<1>3. SettledAgrees'
  BY <1>1 DEF SettledAgrees
<1>4. \A c \in Calls : CallCarries(c)'
  BY <1>1 DEF CallCarries, IdleCall
<1> QED
  BY <1>2, <1>3, <1>4 DEF FlagsInv

\* The invariant holds whatever POSTs overlap, fail or are cut off by a restart.
THEOREM FlagsInvHolds == Spec => []FlagsInv
<1>1. FlagsInv /\ [Next]_vars => FlagsInv'
  <2> SUFFICES ASSUME FlagsInv, [Next]_vars PROVE FlagsInv'
    OBVIOUS
  <2>1. ASSUME NEW c \in Calls, Post(c) PROVE FlagsInv'
    BY <2>1, PostInv
  <2>2. ASSUME NEW c \in Calls, WriteStore(c) \/ StoreFails(c) PROVE FlagsInv'
    BY <2>2, StoreStepInv DEF WriteStore, StoreFails
  <2>3. ASSUME NEW c \in Calls, WriteMemory(c) PROVE FlagsInv'
    BY <2>3, WriteMemoryInv
  <2>4. CASE Restart
    BY <2>4, RestartInv
  <2>5. CASE UNCHANGED vars
    BY <2>5 DEF vars, FlagsInv, TypeOK, SettledAgrees, CallCarries, InFlight
  <2> QED
    BY <2>1, <2>2, <2>3, <2>4, <2>5 DEF Next
<1> QED
  BY <1>1, InitFlagsInv, PTL DEF Spec

-----------------------------------------------------------------------------
(* The refinement. *)

LEMMA PostRefines ==
    ASSUME NEW c \in Calls, Post(c)
    PROVE  Promise!Next
<1> PICK b \in Backends, disable \in BOOLEAN :
      asked' = With(asked, b, disable) /\ open' = open \cup {b}
  BY DEF Post
<1>1. Promise!Request(b)
  BY DEF Post, With, Promise!Request
<1> QED
  BY <1>1 DEF Promise!Next

\* Writing the map settles the flag, or drifts when the POST met another.
LEMMA WriteMemoryRefines ==
    ASSUME FlagsInv, NEW c \in Calls, WriteMemory(c)
    PROVE  Promise!Next
<1> DEFINE b == call[c].backend
<1>f. /\ call[c].pc = "memory" /\ call[c].disable \in BOOLEAN
      /\ b \in Backends /\ b \in open /\ runtime \subseteq Backends
      /\ call[c].alone => (call[c].disable <=> b \in asked)
  BY CallFacts DEF WriteMemory, FlagsInv, CallCarries
<1>1. /\ runtime' \subseteq Backends /\ runtime' \ {b} = runtime \ {b}
      /\ b \in runtime' <=> call[c].disable
  BY <1>f DEF WriteMemory, With
<1>2. CASE call[c].alone
  <2>1. Promise!Settle(b)
    BY <1>f, <1>1, <1>2 DEF WriteMemory, Promise!Settle, Promise!MovesWithin
  <2> QED
    BY <1>f, <2>1 DEF Promise!Next
<1>3. CASE ~call[c].alone
  <2>1. Promise!Drift
    BY <1>f, <1>1, <1>3 DEF WriteMemory, Promise!Drift, Promise!MovesWithin
  <2> QED
    BY <2>1 DEF Promise!Next
<1> QED
  BY <1>2, <1>3

LEMMA RestartRefines ==
    ASSUME FlagsInv, Restart
    PROVE  Promise!Next
<1>t. /\ stored \subseteq Backends /\ runtime \subseteq Backends /\ open \subseteq Backends
      /\ SettledAgrees /\ UNCHANGED asked
  BY DEF FlagsInv, TypeOK, Restart
<1>1. CASE runtime' = stored /\ open' = {}
  BY <1>t, <1>1 DEF SettledAgrees, Promise!Reload, Promise!MovesWithin, Promise!Next
<1>2. CASE LoadMayFail /\ runtime' = {} /\ open' = open \cup stored \cup runtime
  BY <1>t, <1>2 DEF Promise!Forget, Promise!Next
<1> QED
  BY <1>1, <1>2 DEF Restart, Load

\* SetRuntime, its two writes apart and its handlers concurrent, keeps the
\* promise of module Overlay for every number of handlers and of backends.
THEOREM FlagsImplementOverlay == Spec => OverlayPromise
<1>1. Init => Promise!Init
  BY DEF Init, Promise!Init
<1>2. FlagsInv /\ [Next]_vars => [Promise!Next]_(Promise!overlayVars)
  <2> SUFFICES ASSUME FlagsInv, [Next]_vars
               PROVE  Promise!Next \/ UNCHANGED <<runtime, asked, open>>
    BY DEF Promise!overlayVars
  <2>1. ASSUME NEW c \in Calls, Post(c) PROVE Promise!Next
    BY <2>1, PostRefines
  <2>2. ASSUME NEW c \in Calls, WriteStore(c) \/ StoreFails(c)
        PROVE  UNCHANGED <<runtime, asked, open>>
    BY <2>2 DEF WriteStore, StoreFails
  <2>3. ASSUME NEW c \in Calls, WriteMemory(c) PROVE Promise!Next
    BY <2>3, WriteMemoryRefines
  <2>4. CASE Restart
    BY <2>4, RestartRefines
  <2>5. CASE UNCHANGED vars
    BY <2>5 DEF vars
  <2> QED
    BY <2>1, <2>2, <2>3, <2>4, <2>5 DEF Next
<1> QED
  BY <1>1, <1>2, FlagsInvHolds, PTL DEF Spec, OverlayPromise, Promise!Spec
=============================================================================
