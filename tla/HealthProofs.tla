---------------------------- MODULE HealthProofs ----------------------------
(***************************************************************************)
(* Proofs about module HealthMonitor: no failure is lost between the probe *)
(* and the handlers, a verdict is deserved, and the page and the router    *)
(* agree, for any backends, settings, threshold, window and bound.         *)
(***************************************************************************)
EXTENDS HealthProperties, ListLemmas

-----------------------------------------------------------------------------
(* The failures. *)

\* No more failures are in a list than were reported.
FailsBounded == \A b \in Backends : Total(fails[b]) <= faults

\* With the passive layer off, nothing is reported.
OffMeansNone == ~config.passive => \A b \in Backends, a \in 0..Window - 1 : log[b][a] = 0

-----------------------------------------------------------------------------
(* The probe. *)

\* The causes so far have all that is wrong now, and what a layer found wrong.
ProbeShape ==
    probe.at # 0 =>
      /\ Ill(Current) \subseteq probe.ill
      /\ probe.step \in {"health", "count", "auth"} /\ ~probe.info =>
           {"public", "stop"} \cap probe.ill # {}
      /\ probe.step \in {"count", "auth"} /\ ~probe.jf =>
           config.jf /\ {"health", "stop"} \cap probe.ill # {}
      /\ IF probe.step = "auth" THEN probe.n >= Threshold <=> "burst" \in probe.ill
         ELSE "burst" \notin probe.ill

\* An unhealthy backend has a layer that failed.
SnapsShape ==
    \A b \in Backends :
      snaps[b].state = "unhealthy" => ~(snaps[b].reach /\ snaps[b].jf /\ snaps[b].info)

HealthInv ==
    /\ TypeOK /\ FailsBounded /\ OffMeansNone /\ NoFailureLost
    /\ ProbeShape /\ SnapsShape /\ VerdictsDeserved

-----------------------------------------------------------------------------
(* Counting, recording and ageing. *)

LEMMA Ages ==
    /\ IsFiniteSet(0..Window) /\ IsFiniteSet(1..Window)
    /\ IsFiniteSet(0..Window - 1) /\ IsFiniteSet(1..Window - 1)
    /\ (0..Window) \ {Window} = 0..Window - 1 /\ (0..Window) \ {0} = 1..Window
    /\ (1..Window) \ {Window} = 1..Window - 1
    /\ 0 \in 0..Window /\ Window \in 0..Window /\ Window \in 1..Window
<1>1. Window \in Nat \ {0} /\ 0 \in Int /\ 1 \in Int /\ Window \in Int /\ Window - 1 \in Int
  BY HealthAssumption
<1>2. \A m, n \in Int : IsFiniteSet(m..n)
  BY FS_Interval
<1>3. /\ IsFiniteSet(0..Window) /\ IsFiniteSet(1..Window)
      /\ IsFiniteSet(0..Window - 1) /\ IsFiniteSet(1..Window - 1)
  BY <1>1, <1>2
<1>4. (0..Window) \ {Window} = 0..Window - 1
  BY <1>1
<1>5. (0..Window) \ {0} = 1..Window
  BY <1>1
<1>6. (1..Window) \ {Window} = 1..Window - 1
  BY <1>1
<1>7. 0 \in 0..Window /\ Window \in 0..Window /\ Window \in 1..Window
  BY <1>1
<1> QED BY <1>3, <1>4, <1>5, <1>6, <1>7

LEMMA WindowSums ==
    ASSUME NEW c, \A a \in 0..Window : c[a] \in Nat
    PROVE  /\ SumFunctionOnSet(c, 0..Window) = c[0] + SumFunctionOnSet(c, 1..Window)
           /\ SumFunctionOnSet(c, 0..Window) = c[Window] + SumFunctionOnSet(c, 0..Window - 1)
<1>1. IsFiniteSet(0..Window)
  BY Ages
<1>2. \A y \in 0..Window :
        SumFunctionOnSet(c, 0..Window) = c[y] + SumFunctionOnSet(c, (0..Window) \ {y})
  BY <1>1, SumRemove
<1> QED BY <1>2, Ages

LEMMA YoungSum ==
    ASSUME NEW c, \A a \in 1..Window : c[a] \in Nat
    PROVE  SumFunctionOnSet(c, 1..Window) = c[Window] + SumFunctionOnSet(c, 1..Window - 1)
<1>1. IsFiniteSet(1..Window)
  BY Ages
<1>2. \A y \in 1..Window :
        SumFunctionOnSet(c, 1..Window) = c[y] + SumFunctionOnSet(c, (1..Window) \ {y})
  BY <1>1, SumRemove
<1> QED BY <1>2, Ages

LEMMA TotalFacts ==
    ASSUME NEW c \in [0..Window -> Nat]
    PROVE  /\ Total(c) = SumFunctionOnSet(c, 0..Window)
           /\ Total(c) \in Nat
           /\ \A a \in 0..Window : c[a] <= Total(c)
<1>1. Total(c) = SumFunctionOnSet(c, 0..Window)
  BY DEF Total, SumFunction
<1>2. IsFiniteSet(0..Window)
  BY HealthAssumption, FS_Interval
<1>3. SumFunctionOnSet(c, 0..Window) \in Nat
  BY <1>2, SumType
<1>4. \A a \in 0..Window : c[a] <= SumFunctionOnSet(c, 0..Window)
  BY <1>2, SumBounds
<1> QED BY <1>1, <1>3, <1>4

\* What a prune leaves is what the log has.
LEMMA PrunedTotal ==
    ASSUME NEW c \in [0..Window -> Nat], NEW d \in [0..Window - 1 -> Nat],
           \A a \in 0..Window - 1 : c[a] = d[a]
    PROVE  /\ Pruned(c) \in [0..Window -> Nat]
           /\ Total(Pruned(c)) = Total(d)
           /\ Total(Pruned(c)) <= Total(c)
<1> DEFINE p == Pruned(c)
<1>1. /\ p \in [0..Window -> Nat] /\ p[Window] = 0
      /\ \A a \in 0..Window - 1 : p[a] = c[a]
  BY HealthAssumption DEF Pruned
<1>2. /\ IsFiniteSet(0..Window) /\ IsFiniteSet(0..Window - 1)
      /\ (0..Window) \ {Window} = 0..Window - 1
      /\ Window \in 0..Window
  BY Ages
<1> HIDE DEF p
<1>3. /\ SumFunctionOnSet(p, 0..Window) = p[Window] + SumFunctionOnSet(p, 0..Window - 1)
      /\ SumFunctionOnSet(c, 0..Window) = c[Window] + SumFunctionOnSet(c, 0..Window - 1)
  <2>1. (\A a \in 0..Window : p[a] \in Nat) /\ (\A a \in 0..Window : c[a] \in Nat)
    BY <1>1
  <2> QED BY <2>1, WindowSums
<1>4. /\ SumFunctionOnSet(p, 0..Window - 1) = SumFunctionOnSet(c, 0..Window - 1)
      /\ SumFunctionOnSet(c, 0..Window - 1) = SumFunctionOnSet(d, 0..Window - 1)
  BY <1>1, <1>2, SumSame
<1>5. Total(d) = SumFunctionOnSet(d, 0..Window - 1)
  BY DEF Total, SumFunction
<1>6. SumFunctionOnSet(d, 0..Window - 1) \in Nat
  BY <1>2, SumType
<1>7. /\ Total(p) = SumFunctionOnSet(p, 0..Window)
      /\ Total(c) = SumFunctionOnSet(c, 0..Window)
  BY <1>1, TotalFacts
<1>8. c[Window] \in Nat
  BY <1>2
<1>9. Total(p) = Total(d) /\ Total(p) <= Total(c)
  BY <1>1, <1>3, <1>4, <1>5, <1>6, <1>7, <1>8
<1> QED BY <1>1, <1>9 DEF p

LEMMA RecordedTotal ==
    ASSUME NEW c \in [0..Window -> Nat]
    PROVE  /\ [c EXCEPT ![0] = @ + 1] \in [0..Window -> Nat]
           /\ Total([c EXCEPT ![0] = @ + 1]) = Total(c) + 1
<1> DEFINE r == [c EXCEPT ![0] = @ + 1]
<1>1. /\ r \in [0..Window -> Nat] /\ 0 \in 0..Window /\ r[0] = c[0] + 1
      /\ \A a \in (0..Window) \ {0} : c[a] = r[a]
  BY HealthAssumption
<1> HIDE DEF r
<1>2. \A a \in 0..Window : c[a] \in Nat /\ r[a] \in Nat
  BY <1>1
<1>3. SumFunctionOnSet(r, 0..Window) + c[0] = SumFunctionOnSet(c, 0..Window) + r[0]
  BY <1>1, <1>2, SumChange, Ages
<1>4. /\ Total(r) = SumFunctionOnSet(r, 0..Window) /\ Total(r) \in Nat
      /\ Total(c) = SumFunctionOnSet(c, 0..Window) /\ Total(c) \in Nat
  BY <1>1, TotalFacts
<1>5. Total(r) = Total(c) + 1
  BY <1>1, <1>2, <1>3, <1>4
<1> QED BY <1>1, <1>5 DEF r

\* A tick moves every failure up one age, and loses none.
LEMMA AgedTotal ==
    ASSUME NEW c \in [0..Window -> Nat], NEW d \in [0..Window -> Nat],
           d[0] = 0, \A a \in 1..Window - 1 : d[a] = c[a - 1],
           d[Window] = c[Window - 1] + c[Window]
    PROVE  Total(d) = Total(c)
<1> DEFINE e == [a \in 1..Window |-> c[a - 1]]
<1>1. (\A a \in 0..Window : c[a] \in Nat) /\ (\A a \in 0..Window : d[a] \in Nat)
  OBVIOUS
<1>2. (\A a \in 1..Window : e[a] = c[a - 1]) /\ (\A a \in 1..Window : e[a] \in Nat)
  BY HealthAssumption
<1>3. \A a \in 1..Window - 1 : d[a] = e[a]
  BY Ages
<1>4. Window \in Nat /\ e[Window] = c[Window - 1] /\ e[Window] \in Nat /\ c[Window] \in Nat
  BY HealthAssumption
<1> HIDE DEF e
<1>5. SumFunctionOnSet(e, 1..Window) = SumFunctionOnSet(c, 0..Window - 1)
  <2>1. Window \in Nat /\ (\A a \in 0..Window : c[a] \in Nat)
        /\ (\A a \in 1..Window : e[a] = c[a - 1])
    BY <1>1, <1>2, <1>4
  <2> QED BY <2>1, SumShift
<1>6. SumFunctionOnSet(d, 0..Window) = d[0] + SumFunctionOnSet(d, 1..Window)
  BY <1>1, WindowSums
<1>7. SumFunctionOnSet(c, 0..Window) = c[Window] + SumFunctionOnSet(c, 0..Window - 1)
  BY <1>1, WindowSums
<1>8. SumFunctionOnSet(d, 1..Window) = d[Window] + SumFunctionOnSet(d, 1..Window - 1)
  <2>1. \A a \in 1..Window : d[a] \in Nat
    BY <1>1, Ages
  <2> QED BY <2>1, YoungSum
<1>9. SumFunctionOnSet(e, 1..Window) = e[Window] + SumFunctionOnSet(e, 1..Window - 1)
  BY <1>2, YoungSum
<1>10. SumFunctionOnSet(d, 1..Window - 1) = SumFunctionOnSet(e, 1..Window - 1)
  BY <1>3, Ages, SumSame
<1>11. SumFunctionOnSet(e, 1..Window - 1) \in Nat
  <2>1. 1..Window - 1 \in SUBSET (1..Window)
    BY Ages
  <2> QED BY <1>2, <2>1, Ages, SumType
<1>12. Total(d) = SumFunctionOnSet(d, 0..Window) /\ Total(c) = SumFunctionOnSet(c, 0..Window)
  BY TotalFacts
<1> QED BY <1>4, <1>5, <1>6, <1>7, <1>8, <1>9, <1>10, <1>11, <1>12

-----------------------------------------------------------------------------
(* The invariant is kept. *)

LEMMA CurrentType ==
    ASSUME probe \in Probe, probe.at # 0
    PROVE  Current \in Backends
  BY HealthAssumption DEF Probe, Current, Backends

\* The next backend is one of the order, and begins with what is wrong now.
LEMMA AfterFacts ==
    ASSUME TypeOK, NEW i \in 0..Len(Order)
    PROVE  /\ After(i) \in Probe
           /\ After(i).step = "reach"
           /\ After(i).at # 0 => After(i).ill = Ill(Order[After(i).at])
<1>1. Len(Order) \in Nat
  BY HealthAssumption
<1>2. CASE i < Len(Order)
  <2>1. i + 1 \in 0..Len(Order) /\ i + 1 \in DOMAIN Order
    BY <1>1, <1>2, HealthAssumption
  <2>2. Ill(Order[i + 1]) \subseteq Endpoints \cup {"burst", "stop"}
    BY DEF Ill
  <2>3. After(i) = [at |-> i + 1, step |-> "reach", info |-> FALSE, jf |-> FALSE, n |-> 0,
                    ill |-> Ill(Order[i + 1])]
    BY <1>2 DEF After, Waiting
  <2> QED BY <2>1, <2>2, <2>3 DEF Probe
<1>3. CASE ~(i < Len(Order))
  BY <1>1, <1>3 DEF After, Waiting, Probe
<1> QED BY <1>2, <1>3

LEMMA InitHealth == Init => HealthInv
<1> SUFFICES ASSUME Init PROVE HealthInv
  OBVIOUS
<1>1. \A b \in Backends : Total(fails[b]) = 0
  <2> TAKE b \in Backends
  <2>1. fails[b] \in [0..Window -> Nat] /\ \A a \in 0..Window : fails[b][a] = 0
    BY DEF Init
  <2>2. Total(fails[b]) = SumFunctionOnSet(fails[b], 0..Window)
    BY <2>1, TotalFacts
  <2>3. SumFunctionOnSet(fails[b], 0..Window) = 0
    <3>1. IsFiniteSet(0..Window)
      BY Ages
    <3> QED BY <2>1, <3>1, SumZero
  <2> QED BY <2>2, <2>3
<1>2. 0 \in 0..MaxFaults /\ 0 \in 0..Len(Order) /\ \A a \in 0..Window - 1 : a \in 0..Window
  BY HealthAssumption
<1>3. TypeOK
  <2>1. fails \in [Backends -> [0..Window -> 0..MaxFaults]]
    BY <1>2 DEF Init
  <2>2. log \in [Backends -> [0..Window - 1 -> 0..MaxFaults]]
    BY <1>2 DEF Init
  <2>3. snaps \in [Backends -> Snapshot]
    BY DEF Init, Unknown, Snapshot, States
  <2>4. probe \in Probe
    BY <1>2 DEF Init, Waiting, Probe
  <2> QED BY <1>2, <2>1, <2>2, <2>3, <2>4 DEF Init, TypeOK
<1>4. FailsBounded /\ OffMeansNone /\ NoFailureLost
  <2>1. FailsBounded
    <3>1. faults = 0
      BY DEF Init
    <3> QED BY <1>1, <3>1 DEF FailsBounded
  <2>2. OffMeansNone
    BY DEF Init, OffMeansNone
  <2>3. NoFailureLost
    BY <1>2 DEF Init, NoFailureLost
  <2> QED BY <2>1, <2>2, <2>3
<1>5. ProbeShape /\ SnapsShape /\ VerdictsDeserved
  BY DEF Init, ProbeShape, SnapsShape, VerdictsDeserved, Waiting, Unknown
<1> QED BY <1>3, <1>4, <1>5 DEF HealthInv

\* What depends on the lists of failures alone.
Listed ==
    /\ fails \in [Backends -> [0..Window -> 0..MaxFaults]]
    /\ log \in [Backends -> [0..Window - 1 -> 0..MaxFaults]]
    /\ FailsBounded /\ OffMeansNone /\ NoFailureLost

LEMMA ListsType ==
    ASSUME Listed
    PROVE  \A b \in Backends :
             /\ fails[b] \in [0..Window -> 0..MaxFaults] /\ fails[b] \in [0..Window -> Nat]
             /\ log[b] \in [0..Window - 1 -> 0..MaxFaults] /\ log[b] \in [0..Window - 1 -> Nat]
             /\ Total(fails[b]) \in Nat
<1> TAKE b \in Backends
<1>1. fails[b] \in [0..Window -> 0..MaxFaults] /\ log[b] \in [0..Window - 1 -> 0..MaxFaults]
  BY DEF Listed
<1>2. 0..MaxFaults \subseteq Nat
  OBVIOUS
<1> HIDE DEF Listed
<1>3. fails[b] \in [0..Window -> Nat] /\ log[b] \in [0..Window - 1 -> Nat]
  BY <1>1, <1>2
<1> QED BY <1>1, <1>3, TotalFacts

LEMMA HealthListed == HealthInv => Listed
  BY DEF HealthInv, TypeOK, Listed

LEMMA ListedSame ==
    ASSUME Listed, UNCHANGED <<config, fails, log>>, faults \in Nat, faults' \in Nat, faults <= faults'
    PROVE  Listed'
<1>1. \A b \in Backends : Total(fails[b]) \in Nat /\ Total(fails[b]) <= faults
  BY ListsType DEF Listed, FailsBounded
<1>2. \A b \in Backends : Total(fails'[b]) <= faults'
  BY <1>1
<1> QED BY <1>2 DEF Listed, FailsBounded, OffMeansNone, NoFailureLost

LEMMA ListedCount ==
    ASSUME HealthInv, Count
    PROVE  /\ Listed'
           /\ fails'[Current] \in [0..Window -> Nat]
           /\ config.passive => Total(fails'[Current]) = Total(log[Current])
<1>1. Current \in Backends
  BY CurrentType DEF HealthInv, TypeOK, Count, Probing
<1>2. \A b \in Backends :
         /\ fails[b] \in [0..Window -> Nat] /\ log[b] \in [0..Window - 1 -> Nat]
         /\ fails[b] \in [0..Window -> 0..MaxFaults]
         /\ \A a \in 0..Window - 1 : fails[b][a] = log[b][a]
         /\ Total(fails[b]) <= faults /\ Total(fails[b]) \in Nat /\ faults \in Nat
  <2>1. faults \in Nat
    BY DEF HealthInv, TypeOK
  <2> QED BY <2>1, ListsType, HealthListed DEF HealthInv, NoFailureLost, FailsBounded
<1>3. UNCHANGED <<config, log, faults>>
  BY DEF Count
<1>4. CASE ~config.passive
  <2>1. fails' = fails
    BY <1>4 DEF Count
  <2>2. Listed
    BY DEF HealthInv, TypeOK, Listed
  <2> QED BY <1>1, <1>2, <1>3, <1>4, <2>1, <2>2, ListedSame
<1>5. CASE config.passive
  <2>1. fails' = [fails EXCEPT ![Current] = Pruned(@)]
    BY <1>5 DEF Count
  <2>2. /\ Pruned(fails[Current]) \in [0..Window -> Nat]
        /\ Total(Pruned(fails[Current])) = Total(log[Current])
        /\ Total(Pruned(fails[Current])) <= Total(fails[Current])
    BY <1>1, <1>2, PrunedTotal
  <2>3. /\ Pruned(fails[Current]) \in [0..Window -> 0..MaxFaults]
        /\ \A a \in 0..Window - 1 : Pruned(fails[Current])[a] = fails[Current][a]
    <3>1. fails[Current] \in [0..Window -> 0..MaxFaults] /\ 0 \in 0..MaxFaults
      BY <1>1, <1>2, HealthAssumption
    <3>2. Window \in Nat \ {0}
      BY HealthAssumption
    <3> QED BY <3>1, <3>2 DEF Pruned
  <2>4. Total(Pruned(fails[Current])) \in Nat
    BY <2>2, TotalFacts
  <2>5. fails' \in [Backends -> [0..Window -> 0..MaxFaults]]
    BY <1>1, <2>1, <2>3 DEF HealthInv, TypeOK
  <2>6. \A b \in Backends : Total(fails'[b]) <= faults
    <3> TAKE b \in Backends
    <3>1. CASE b = Current
      <4>1. fails'[b] = Pruned(fails[Current])
        BY <1>1, <2>1, <3>1 DEF HealthInv, TypeOK
      <4> QED BY <1>1, <1>2, <2>2, <2>4, <4>1
    <3>2. CASE b # Current
      BY <1>2, <2>1, <3>2 DEF HealthInv, TypeOK
    <3> QED BY <3>1, <3>2
  <2>7. \A b \in Backends : \A a \in 0..Window - 1 : fails'[b][a] = log[b][a]
    BY <1>1, <1>2, <2>1, <2>3 DEF HealthInv, TypeOK
  <2>8. fails'[Current] = Pruned(fails[Current])
    BY <1>1, <2>1 DEF HealthInv, TypeOK
  <2> QED BY <1>3, <1>5, <2>2, <2>5, <2>6, <2>7, <2>8
          DEF HealthInv, TypeOK, Listed, FailsBounded, OffMeansNone, NoFailureLost
<1> QED BY <1>4, <1>5

LEMMA ListedRecord ==
    ASSUME HealthInv, Fault, NEW B \in SUBSET Backends, Record(B)
    PROVE  Listed'
<1>1. /\ faults \in Nat /\ faults' = faults + 1 /\ faults + 1 <= MaxFaults /\ config' = config
      /\ MaxFaults \in Nat
  BY HealthAssumption DEF HealthInv, TypeOK, Fault, Record
<1>2. ASSUME NEW b \in Backends
      PROVE  /\ fails'[b] \in [0..Window -> 0..MaxFaults]
             /\ Total(fails'[b]) <= faults'
             /\ log'[b] \in [0..Window - 1 -> 0..MaxFaults]
             /\ \A a \in 0..Window - 1 : fails'[b][a] = log'[b][a]
             /\ ~config.passive => \A a \in 0..Window - 1 : log'[b][a] = 0
  <2>1. /\ fails[b] \in [0..Window -> 0..MaxFaults] /\ fails[b] \in [0..Window -> Nat]
        /\ log[b] \in [0..Window - 1 -> 0..MaxFaults] /\ log[b] \in [0..Window - 1 -> Nat]
        /\ Total(fails[b]) \in Nat /\ Total(fails[b]) <= faults
        /\ \A a \in 0..Window - 1 : fails[b][a] = log[b][a]
    BY ListsType, HealthListed DEF HealthInv, FailsBounded, NoFailureLost
  <2>2. CASE ~(b \in B /\ config.passive)
    <3>1. fails'[b] = fails[b] /\ log'[b] = log[b]
      BY <2>2 DEF Record
    <3>2. ~config.passive => \A a \in 0..Window - 1 : log[b][a] = 0
      BY DEF HealthInv, OffMeansNone
    <3> QED BY <1>1, <2>1, <3>1, <3>2
  <2>3. CASE b \in B /\ config.passive
    <3>1. /\ fails'[b] = [fails[b] EXCEPT ![0] = @ + 1]
          /\ log'[b] = [log[b] EXCEPT ![0] = @ + 1]
      BY <2>3 DEF Record
    <3>2. fails'[b] \in [0..Window -> Nat] /\ Total(fails'[b]) = Total(fails[b]) + 1
      BY <2>1, <3>1, RecordedTotal
    <3>3. Total(fails'[b]) \in Nat /\ \A a \in 0..Window : fails'[b][a] <= Total(fails'[b])
      BY <3>2, TotalFacts
    <3>4. \A a \in 0..Window : fails'[b][a] \in Nat /\ fails'[b][a] <= MaxFaults
      <4> TAKE a \in 0..Window
      <4>1. fails'[b][a] \in Nat /\ fails'[b][a] <= Total(fails'[b])
        BY <3>2, <3>3
      <4>2. Total(fails'[b]) <= MaxFaults
        BY <1>1, <2>1, <3>2
      <4> QED BY <1>1, <3>3, <4>1, <4>2
    <3>5. fails'[b] \in [0..Window -> 0..MaxFaults]
      <4>1. \A a \in 0..Window : fails'[b][a] \in 0..MaxFaults
        BY <1>1, <3>4
      <4>2. fails'[b] = [a \in 0..Window |-> fails'[b][a]]
        BY <3>2
      <4> QED BY <4>1, <4>2
    <3>6. /\ 0 \in 0..Window - 1 /\ 0 \in 0..Window
          /\ \A a \in 0..Window - 1 : a \in 0..Window
      BY HealthAssumption
    <3>7. \A a \in 0..Window - 1 : fails'[b][a] = log'[b][a]
      <4> TAKE a \in 0..Window - 1
      <4>1. a \in 0..Window /\ fails[b][a] = log[b][a]
        BY <2>1, <3>6
      <4>2. fails'[b][a] = IF a = 0 THEN fails[b][a] + 1 ELSE fails[b][a]
        BY <2>1, <3>1, <4>1
      <4>3. log'[b][a] = IF a = 0 THEN log[b][a] + 1 ELSE log[b][a]
        BY <2>1, <3>1
      <4> QED BY <4>1, <4>2, <4>3
    <3>8. log'[b] \in [0..Window - 1 -> 0..MaxFaults]
      <4>1. \A a \in 0..Window - 1 : log'[b][a] \in 0..MaxFaults
        BY <3>5, <3>6, <3>7
      <4>2. log'[b] = [a \in 0..Window - 1 |-> log'[b][a]]
        BY <2>1, <3>1
      <4> QED BY <4>1, <4>2
    <3> QED BY <1>1, <2>1, <2>3, <3>2, <3>5, <3>7, <3>8
  <2> QED BY <2>2, <2>3
<1>3. fails' = [b \in Backends |-> fails'[b]] /\ log' = [b \in Backends |-> log'[b]]
  BY DEF Record
<1> QED BY <1>1, <1>2, <1>3 DEF Listed, FailsBounded, OffMeansNone, NoFailureLost

LEMMA ListedTick ==
    ASSUME HealthInv, Tick
    PROVE  Listed'
<1>1. faults' = faults /\ faults \in Nat /\ faults <= MaxFaults /\ config' = config
      /\ MaxFaults \in Nat /\ Window \in Nat \ {0}
  BY HealthAssumption DEF HealthInv, TypeOK, Tick
<1>2. ASSUME NEW b \in Backends
      PROVE  /\ fails'[b] \in [0..Window -> 0..MaxFaults]
             /\ Total(fails'[b]) <= faults
             /\ log'[b] \in [0..Window - 1 -> 0..MaxFaults]
             /\ \A a \in 0..Window - 1 : fails'[b][a] = log'[b][a]
             /\ ~config.passive => \A a \in 0..Window - 1 : log'[b][a] = 0
  <2>1. /\ fails[b] \in [0..Window -> 0..MaxFaults] /\ fails[b] \in [0..Window -> Nat]
        /\ log[b] \in [0..Window - 1 -> 0..MaxFaults]
        /\ Total(fails[b]) \in Nat /\ Total(fails[b]) <= faults
        /\ \A a \in 0..Window - 1 : fails[b][a] = log[b][a]
        /\ ~config.passive => \A a \in 0..Window - 1 : log[b][a] = 0
    BY ListsType, HealthListed DEF HealthInv, FailsBounded, NoFailureLost, OffMeansNone
  <2>2. fails'[b] = [a \in 0..Window |->
                       IF a = 0 THEN 0
                       ELSE fails[b][a - 1] + (IF a = Window THEN fails[b][a] ELSE 0)]
    BY DEF Tick
  <2>3. log'[b] = [a \in 0..Window - 1 |-> IF a = 0 THEN 0 ELSE log[b][a - 1]]
    BY DEF Tick
  <2>4. \A a \in 0..Window : fails[b][a] \in Nat /\ (a # 0 => fails[b][a - 1] \in Nat)
    BY <1>1, <2>1
  <2>5. /\ fails'[b] \in [0..Window -> Nat] /\ fails'[b][0] = 0
        /\ \A a \in 1..Window - 1 : fails'[b][a] = fails[b][a - 1]
        /\ fails'[b][Window] = fails[b][Window - 1] + fails[b][Window]
    <3>1. \A a \in 0..Window : fails'[b][a] \in Nat
      BY <2>2, <2>4
    <3>2. fails'[b] \in [0..Window -> Nat]
      BY <2>2, <3>1
    <3>3. fails'[b][0] = 0 /\ fails'[b][Window] = fails[b][Window - 1] + fails[b][Window]
      BY <1>1, <2>2
    <3>4. \A a \in 1..Window - 1 : fails'[b][a] = fails[b][a - 1]
      <4> TAKE a \in 1..Window - 1
      <4>1. a \in 0..Window /\ a # 0 /\ a # Window /\ a - 1 \in 0..Window
        BY <1>1
      <4>2. fails[b][a - 1] \in Nat
        BY <2>4, <4>1
      <4> QED BY <2>2, <4>1, <4>2
    <3> QED BY <3>2, <3>3, <3>4
  <2>6. Total(fails'[b]) = Total(fails[b])
    BY <2>1, <2>5, AgedTotal
  <2>7. \A a \in 0..Window : fails'[b][a] <= Total(fails'[b])
    BY <2>5, TotalFacts
  <2>8. fails'[b] \in [0..Window -> 0..MaxFaults]
    <3>1. \A a \in 0..Window : fails'[b][a] \in Nat
      BY <2>5
    <3>2. \A a \in 0..Window : fails'[b][a] \in 0..MaxFaults
      BY <1>1, <2>1, <2>6, <2>7, <3>1
    <3>3. fails'[b] = [a \in 0..Window |-> fails'[b][a]]
      BY <2>2
    <3> QED BY <3>2, <3>3
  <2>9. \A a \in 0..Window - 1 :
          /\ log'[b][a] = IF a = 0 THEN 0 ELSE log[b][a - 1]
          /\ fails'[b][a] = log'[b][a]
    BY <1>1, <2>1, <2>2, <2>3
  <2>10. log'[b] \in [0..Window - 1 -> 0..MaxFaults]
    <3>1. \A a \in 0..Window - 1 : a # 0 => a - 1 \in 0..Window - 1
      BY <1>1
    <3>2. 0 \in 0..MaxFaults
      BY <1>1
    <3>3. \A a \in 0..Window - 1 : log'[b][a] \in 0..MaxFaults
      BY <2>1, <2>9, <3>1, <3>2
    <3> QED BY <2>3, <3>3
  <2>11. ~config.passive => \A a \in 0..Window - 1 : log'[b][a] = 0
    <3>1. ASSUME ~config.passive, NEW a \in 0..Window - 1
          PROVE  log'[b][a] = 0
      <4>1. a # 0 => a - 1 \in 0..Window - 1
        BY <1>1
      <4> QED BY <2>1, <2>9, <3>1, <4>1
    <3> QED BY <3>1
  <2> QED BY <2>1, <2>6, <2>8, <2>9, <2>10, <2>11
<1>3. fails' = [b \in Backends |-> fails'[b]] /\ log' = [b \in Backends |-> log'[b]]
  BY DEF Tick
<1> QED BY <1>1, <1>2, <1>3 DEF Listed, FailsBounded, OffMeansNone, NoFailureLost

\* The rest of the invariant: the probe and what it has published.
Probed == ProbeShape /\ SnapsShape /\ VerdictsDeserved

\* What no step of the probe or of the others touches but in one place.
Rest ==
    /\ config \in Configs /\ up \in [Backends -> SUBSET Endpoints]
    /\ snaps \in [Backends -> Snapshot] /\ probe \in Probe
    /\ disabled \subseteq Backends /\ stopping \in BOOLEAN /\ faults \in 0..MaxFaults

LEMMA HealthParts == HealthInv <=> Listed /\ Rest /\ Probed
  BY DEF HealthInv, TypeOK, Listed, Rest, Probed

\* The probe moves on within one backend.
LEMMA ProbeGoesOn ==
    ASSUME HealthInv, Info \/ JellyfinHealth \/ Count
    PROVE  Rest' /\ Probed'
<1>1. Current \in Backends /\ probe.at # 0 /\ probe \in Probe
  BY CurrentType DEF HealthInv, TypeOK, Info, JellyfinHealth, Count, Probing
<1>2. /\ UNCHANGED <<config, up, snaps, disabled, stopping, faults>>
      /\ probe'.at = probe.at
  <2>1. CASE Info
    BY <1>1, <2>1 DEF Info, Probe
  <2>2. CASE JellyfinHealth
    BY <1>1, <2>2 DEF JellyfinHealth, Probe
  <2>3. CASE Count
    BY <1>1, <2>3 DEF Count, Probe
  <2> QED BY <2>1, <2>2, <2>3
<1>3. Current' = Current /\ Ill(Current)' = Ill(Current) /\ Ill(Current) \subseteq probe.ill
  BY <1>1, <1>2 DEF Current, Ill, HealthInv, ProbeShape
<1>4. SnapsShape' /\ VerdictsDeserved'
  BY <1>2 DEF HealthInv, SnapsShape, VerdictsDeserved
<1>5. CASE Info
  <2>1. probe' = [probe EXCEPT !.step = "health", !.info = Layer(config.info, "public")]
    BY <1>5 DEF Info
  <2>2. probe' \in Probe
    BY <1>1, <2>1 DEF Probe, Layer, Answers, HealthInv, TypeOK, Config
  <2>3. /\ probe'.step = "health" /\ probe'.ill = probe.ill
        /\ probe'.info = Layer(config.info, "public") /\ probe.step = "info"
    BY <1>1, <1>5, <2>1 DEF Probe, Info, Probing
  <2>4. ~probe'.info => {"public", "stop"} \cap probe.ill # {}
    BY <1>1, <1>3, <2>3 DEF Layer, Answers, Ill, Endpoints
  <2>5. "burst" \notin probe.ill
    BY <1>1, <2>3 DEF HealthInv, ProbeShape
  <2>6. ProbeShape'
    BY <1>2, <1>3, <2>3, <2>4, <2>5 DEF ProbeShape
  <2> QED BY <1>2, <1>4, <2>2, <2>6 DEF HealthInv, TypeOK, Rest, Probed
<1>6. CASE JellyfinHealth
  <2>1. probe' = [probe EXCEPT !.step = "count", !.jf = Layer(config.jf, "health")]
    BY <1>6 DEF JellyfinHealth
  <2>2. probe' \in Probe
    BY <1>1, <2>1 DEF Probe, Layer, Answers
  <2>3. /\ probe'.step = "count" /\ probe'.ill = probe.ill /\ probe'.info = probe.info
        /\ probe'.jf = Layer(config.jf, "health") /\ probe.step = "health"
    BY <1>1, <1>6, <2>1 DEF Probe, JellyfinHealth, Probing
  <2>4. ~probe'.jf => config.jf /\ {"health", "stop"} \cap probe.ill # {}
    BY <1>1, <1>3, <2>3 DEF Layer, Answers, Ill, Endpoints
  <2>5. /\ "burst" \notin probe.ill
        /\ ~probe.info => {"public", "stop"} \cap probe.ill # {}
    BY <1>1, <2>3 DEF HealthInv, ProbeShape
  <2>6. ProbeShape'
    BY <1>2, <1>3, <2>3, <2>4, <2>5 DEF ProbeShape
  <2> QED BY <1>2, <1>4, <2>2, <2>6 DEF HealthInv, TypeOK, Rest, Probed
<1>7. CASE Count
  <2> DEFINE n == IF config.passive THEN Total(fails'[Current]) ELSE 0
             more == IF Total(log[Current]) >= Threshold THEN {"burst"} ELSE {}
  <2>1. probe' = [probe EXCEPT !.step = "auth", !.n = n, !.ill = @ \cup more]
    BY <1>7 DEF Count
  <2>2. n \in Nat
    <3>1. fails'[Current] \in [0..Window -> Nat]
      BY <1>7, ListedCount
    <3> QED BY <3>1, TotalFacts
  <2>3. n >= Threshold <=> Total(log[Current]) >= Threshold
    <3>1. CASE config.passive
      <4>1. Total(fails'[Current]) = Total(log[Current])
        BY <1>7, <3>1, ListedCount
      <4> QED BY <3>1, <4>1
    <3>2. CASE ~config.passive
      <4>1. /\ log[Current] \in [0..Window - 1 -> 0..MaxFaults]
            /\ \A a \in 0..Window - 1 : log[Current][a] = 0
        BY <1>1, <3>2 DEF HealthInv, TypeOK, OffMeansNone
      <4>2. Total(log[Current]) = SumFunctionOnSet(log[Current], 0..Window - 1)
        BY <4>1 DEF Total, SumFunction
      <4>3. SumFunctionOnSet(log[Current], 0..Window - 1) = 0
        <5>1. IsFiniteSet(0..Window - 1)
          BY Ages
        <5> QED BY <4>1, <5>1, SumZero
      <4> QED BY <3>2, <4>2, <4>3
    <3> QED BY <3>1, <3>2
  <2> HIDE DEF n
  <2>4. probe' \in Probe
    BY <1>1, <2>1, <2>2 DEF Probe
  <2>5. /\ probe'.step = "auth" /\ probe'.ill = probe.ill \cup more /\ probe'.info = probe.info
        /\ probe'.jf = probe.jf /\ probe'.n = n /\ probe.step = "count"
    BY <1>1, <1>7, <2>1 DEF Probe, Count, Probing
  <2>6. /\ "burst" \notin probe.ill
        /\ ~probe.info => {"public", "stop"} \cap probe.ill # {}
        /\ ~probe.jf => config.jf /\ {"health", "stop"} \cap probe.ill # {}
    BY <1>1, <2>5 DEF HealthInv, ProbeShape
  <2>7. probe'.n >= Threshold <=> "burst" \in probe'.ill
    BY <2>3, <2>5, <2>6
  <2>8. ProbeShape'
    BY <1>2, <1>3, <2>5, <2>6, <2>7 DEF ProbeShape
  <2> QED BY <1>2, <1>4, <2>4, <2>8 DEF HealthInv, TypeOK, Rest, Probed
<1> QED BY <1>5, <1>6, <1>7

\* A result is published, and the probe moves on to the next backend.
LEMMA ProbePublishes ==
    ASSUME HealthInv, Reach \/ AuthProbe
    PROVE  Rest' /\ Probed'
<1>1. Current \in Backends /\ probe.at # 0 /\ probe \in Probe /\ probe.at \in 0..Len(Order)
  BY CurrentType DEF HealthInv, TypeOK, Reach, AuthProbe, Probing, Probe
<1>2. UNCHANGED <<config, up, disabled, stopping, faults>>
  BY DEF Reach, AuthProbe
<1>3. Ill(Current) \subseteq probe.ill
  BY <1>1 DEF HealthInv, ProbeShape
<1>4. ASSUME NEW snap \in Snapshot, Publish(snap),
             snap.state = "unhealthy" =>
               /\ ~(snap.reach /\ snap.jf /\ snap.info)
               /\ \/ {"public", "stop"} \cap snap.cause # {}
                  \/ config.jf /\ "health" \in snap.cause,
             snap.state = "degraded" =>
               \/ config.auth /\ {"login", "stop"} \cap snap.cause # {}
               \/ "burst" \in snap.cause,
             snap.state = "healthy" => "burst" \notin snap.cause
      PROVE  Rest' /\ Probed'
  <2>1. /\ probe' = After(probe.at) /\ snaps' = [snaps EXCEPT ![Current] = snap]
    BY <1>4 DEF Publish
  <2>2. /\ probe' \in Probe /\ probe'.step = "reach"
        /\ probe'.at # 0 => probe'.ill = Ill(Order[probe'.at])
    BY <1>1, <2>1, AfterFacts DEF HealthInv
  <2>3. ProbeShape'
    <3>1. SUFFICES ASSUME probe'.at # 0
                   PROVE  Ill(Current)' \subseteq probe'.ill /\ "burst" \notin probe'.ill
      BY <2>2 DEF ProbeShape
    <3>2. Ill(Current)' = probe'.ill
      BY <1>2, <2>2, <3>1 DEF Current, Ill
    <3> QED BY <3>2 DEF Ill, Endpoints
  <2>4. snaps' \in [Backends -> Snapshot]
    BY <2>1 DEF HealthInv, TypeOK
  <2>5. \A b \in Backends : snaps'[b] = IF b = Current THEN snap ELSE snaps[b]
    BY <1>1, <2>1 DEF HealthInv, TypeOK
  <2>6. SnapsShape'
    BY <1>4, <2>5 DEF HealthInv, SnapsShape
  <2>7. VerdictsDeserved'
    BY <1>2, <1>4, <2>5 DEF HealthInv, VerdictsDeserved
  <2> QED BY <1>2, <2>2, <2>3, <2>4, <2>6, <2>7 DEF HealthInv, TypeOK, Rest, Probed
<1>5. CASE Reach /\ Answers("public")
  <2>1. probe' = [probe EXCEPT !.step = "info"] /\ snaps' = snaps /\ probe.step = "reach"
    BY <1>5 DEF Reach, Probing
  <2>2. /\ probe' \in Probe /\ probe'.at = probe.at /\ probe'.ill = probe.ill
        /\ probe'.step = "info"
    BY <1>1, <2>1 DEF Probe
  <2>3. "burst" \notin probe.ill
    BY <1>1, <2>1 DEF HealthInv, ProbeShape
  <2>4. Ill(Current)' \subseteq probe'.ill
    BY <1>2, <1>3, <2>2 DEF Current, Ill
  <2>5. ProbeShape'
    BY <2>2, <2>3, <2>4 DEF ProbeShape
  <2>6. SnapsShape' /\ VerdictsDeserved'
    BY <1>2, <2>1 DEF HealthInv, SnapsShape, VerdictsDeserved
  <2> QED BY <1>2, <2>1, <2>2, <2>5, <2>6 DEF HealthInv, TypeOK, Rest, Probed
<1>6. CASE Reach /\ ~Answers("public")
  <2> DEFINE snap == [Unknown EXCEPT !.state = "unhealthy", !.cause = probe.ill]
  <2>1. Publish(snap)
    BY <1>6 DEF Reach
  <2>2. /\ snap \in Snapshot /\ snap.state = "unhealthy" /\ ~snap.reach /\ snap.cause = probe.ill
    BY <1>1 DEF Unknown, Snapshot, States, Probe
  <2>3. {"public", "stop"} \cap probe.ill # {}
    BY <1>3, <1>6 DEF Answers, Ill, Endpoints
  <2> HIDE DEF snap
  <2> QED BY <1>4, <2>1, <2>2, <2>3
<1>7. CASE AuthProbe
  <2> DEFINE failed == config.auth /\ ~Answers("login")
             state == Verdict(probe.info, probe.jf, probe.n, failed)
             snap == [state |-> state, reach |-> TRUE, info |-> probe.info, jf |-> probe.jf,
                      cause |-> probe.ill]
  <2>1. Publish(snap) /\ probe.step = "auth"
    BY <1>7 DEF AuthProbe, Probing
  <2>2. /\ ~probe.info => {"public", "stop"} \cap probe.ill # {}
        /\ ~probe.jf => config.jf /\ {"health", "stop"} \cap probe.ill # {}
        /\ probe.n >= Threshold <=> "burst" \in probe.ill
    BY <1>1, <2>1 DEF HealthInv, ProbeShape
  <2>3. failed => config.auth /\ {"login", "stop"} \cap probe.ill # {}
    BY <1>3 DEF Answers, Ill, Endpoints
  <2> HIDE DEF failed
  <2>4. /\ state \in {"unhealthy", "degraded", "healthy"}
        /\ state = "unhealthy" => ~probe.jf \/ ~probe.info
        /\ state = "degraded" => probe.n >= Threshold \/ failed
        /\ state = "healthy" => ~(probe.n >= Threshold)
    BY DEF Verdict
  <2> HIDE DEF state
  <2>5. /\ snap \in Snapshot /\ snap.state = state /\ snap.info = probe.info
        /\ snap.jf = probe.jf /\ snap.cause = probe.ill
    BY <1>1, <2>4 DEF Snapshot, States, Probe
  <2> HIDE DEF snap
  <2>6. state = "unhealthy" =>
          /\ ~(snap.reach /\ snap.jf /\ snap.info)
          /\ \/ {"public", "stop"} \cap snap.cause # {}
             \/ config.jf /\ "health" \in snap.cause
    BY <2>2, <2>4, <2>5
  <2>7. state = "degraded" =>
          \/ config.auth /\ {"login", "stop"} \cap snap.cause # {}
          \/ "burst" \in snap.cause
    BY <2>2, <2>3, <2>4, <2>5
  <2>8. state = "healthy" => "burst" \notin snap.cause
    BY <2>2, <2>4, <2>5
  <2> QED BY <1>4, <2>1, <2>5, <2>6, <2>7, <2>8
<1> QED BY <1>5, <1>6, <1>7

\* A round starts.
LEMMA RoundStarts ==
    ASSUME HealthInv, StartRound
    PROVE  Rest' /\ Probed'
<1>1. /\ UNCHANGED <<config, up, snaps, disabled, stopping, faults>> /\ probe' = After(0)
  BY DEF StartRound
<1>2. 0 \in 0..Len(Order)
  BY HealthAssumption
<1>3. /\ probe' \in Probe /\ probe'.step = "reach"
      /\ probe'.at # 0 => probe'.ill = Ill(Order[probe'.at])
  BY <1>1, <1>2, AfterFacts DEF HealthInv
<1>4. ProbeShape'
  <2>1. SUFFICES ASSUME probe'.at # 0
                 PROVE  Ill(Current)' \subseteq probe'.ill /\ "burst" \notin probe'.ill
    BY <1>3 DEF ProbeShape
  <2>2. Ill(Current)' = probe'.ill
    BY <1>1, <1>3, <2>1 DEF Current, Ill
  <2> QED BY <2>2 DEF Ill, Endpoints
<1>5. SnapsShape' /\ VerdictsDeserved'
  BY <1>1 DEF HealthInv, SnapsShape, VerdictsDeserved
<1> QED BY <1>1, <1>3, <1>4, <1>5 DEF HealthInv, TypeOK, Rest, Probed

\* The others leave the probe alone, but for what has gone wrong meanwhile.
LEMMA OthersRest ==
    ASSUME HealthInv, faults' \in 0..MaxFaults, UNCHANGED <<config, snaps>>,
           disabled' \subseteq Backends, up' \in [Backends -> SUBSET Endpoints],
           stopping' \in BOOLEAN,
           NEW more \in SUBSET (Endpoints \cup {"stop"}),
           IF probe.at = 0 THEN probe' = probe
           ELSE probe' = [probe EXCEPT !.ill = @ \cup more] /\ Ill(Current)' \subseteq probe.ill \cup more
    PROVE  Rest' /\ Probed'
<1>1. SnapsShape' /\ VerdictsDeserved'
  BY DEF HealthInv, SnapsShape, VerdictsDeserved
<1>2. CASE probe.at = 0
  BY <1>1, <1>2 DEF HealthInv, TypeOK, Rest, Probed, ProbeShape
<1>3. CASE probe.at # 0
  <2>1. probe \in Probe
    BY DEF HealthInv, TypeOK
  <2>2. /\ probe' \in Probe /\ probe'.at = probe.at /\ probe'.step = probe.step
        /\ probe'.info = probe.info /\ probe'.jf = probe.jf /\ probe'.n = probe.n
        /\ probe'.ill = probe.ill \cup more
    BY <1>3, <2>1 DEF Probe
  <2>3. "burst" \in probe'.ill <=> "burst" \in probe.ill
    BY <2>2 DEF Endpoints
  <2>4. ProbeShape'
    BY <1>3, <2>2, <2>3 DEF HealthInv, ProbeShape
  <2> QED BY <1>1, <2>2, <2>4 DEF HealthInv, TypeOK, Rest, Probed
<1> QED BY <1>2, <1>3

LEMMA FaultCounts ==
    ASSUME faults \in 0..MaxFaults, Fault
    PROVE  faults' \in 0..MaxFaults /\ faults <= faults'
  BY HealthAssumption DEF Fault

LEMMA HealthStep == HealthInv /\ [Next]_vars => HealthInv'
<1> SUFFICES ASSUME HealthInv, [Next]_vars PROVE Listed' /\ Rest' /\ Probed'
  BY HealthParts DEF HealthInv, TypeOK, Listed, Rest, Probed
<1>1. Listed /\ Rest /\ Probed /\ faults \in Nat
  BY HealthParts DEF Rest
<1>2. CASE UNCHANGED vars
  <2>1. Listed'
    BY <1>1, <1>2, ListedSame DEF vars
  <2>2. Rest' /\ Probed'
    BY <1>1, <1>2 DEF vars, Rest, Probed, ProbeShape, SnapsShape, VerdictsDeserved, Current, Ill
  <2> QED BY <2>1, <2>2
<1>3. CASE StartRound
  <2>1. Listed'
    BY <1>1, <1>3, ListedSame DEF StartRound
  <2> QED BY <1>3, <2>1, RoundStarts
<1>4. CASE Reach \/ AuthProbe
  <2>1. Listed'
    BY <1>1, <1>4, ListedSame DEF Reach, AuthProbe
  <2> QED BY <1>4, <2>1, ProbePublishes
<1>5. CASE Info \/ JellyfinHealth
  <2>1. Listed'
    BY <1>1, <1>5, ListedSame DEF Info, JellyfinHealth
  <2> QED BY <1>5, <2>1, ProbeGoesOn
<1>6. CASE Count
  BY <1>6, ListedCount, ProbeGoesOn
<1>7. ASSUME NEW B \in SUBSET Backends, Fault, Record(B)
      PROVE  Listed' /\ Rest' /\ Probed'
  <2>1. Listed'
    BY <1>7, ListedRecord
  <2>2. /\ UNCHANGED <<config, up, snaps, probe, disabled, stopping>>
        /\ faults' \in 0..MaxFaults
    BY <1>1, <1>7, FaultCounts DEF Record, Rest
  <2>3. Rest' /\ Probed'
    BY <1>1, <2>2 DEF Rest, Probed, ProbeShape, SnapsShape, VerdictsDeserved, Current, Ill
  <2> QED BY <2>1, <2>3
<1>8. CASE AuthPlaneFails
  BY <1>7, <1>8 DEF AuthPlaneFails
<1>9. CASE ClientLeaves
  BY <1>7, <1>9 DEF ClientLeaves
<1>10. CASE Toggle
  <2>1. /\ UNCHANGED <<config, up, fails, snaps, probe, stopping, log>>
        /\ disabled' \subseteq Backends /\ faults' \in 0..MaxFaults /\ faults <= faults'
    BY <1>1, <1>10, FaultCounts DEF Toggle, Rest
  <2>2. Listed'
    BY <1>1, <2>1, ListedSame
  <2>3. Rest' /\ Probed'
    BY <1>1, <2>1 DEF Rest, Probed, ProbeShape, SnapsShape, VerdictsDeserved, Current, Ill
  <2> QED BY <2>2, <2>3
<1>11. CASE Change
  <2>1. PICK b \in Backends, e \in Endpoints :
          /\ up' = [up EXCEPT ![b] = IF e \in @ THEN @ \ {e} ELSE @ \cup {e}]
          /\ probe' = IF probe.at # 0 /\ Current = b
                      THEN [probe EXCEPT !.ill = @ \cup (Endpoints \ up'[b])] ELSE probe
    BY <1>11 DEF Change
  <2>2. /\ UNCHANGED <<config, fails, snaps, disabled, stopping, log>>
        /\ faults' \in 0..MaxFaults /\ faults <= faults'
    BY <1>1, <1>11, FaultCounts DEF Change, Rest
  <2>3. Listed'
    BY <1>1, <2>2, ListedSame
  <2>4. up' \in [Backends -> SUBSET Endpoints] /\ \A c \in Backends \ {b} : up'[c] = up[c]
    BY <1>1, <2>1 DEF Rest
  <2> DEFINE more == IF Current = b THEN Endpoints \ up'[b] ELSE {}
  <2>5. more \in SUBSET (Endpoints \cup {"stop"})
    OBVIOUS
  <2>6. CASE probe.at = 0
    <3>1. probe' = probe
      BY <2>1, <2>6
    <3> HIDE DEF more
    <3>2. Rest' /\ Probed'
      BY <1>1, <2>2, <2>4, <2>5, <2>6, <3>1, OthersRest DEF Rest
    <3> QED BY <2>3, <3>2
  <2>7. CASE probe.at # 0
    <3>1. Current \in Backends /\ Ill(Current) \subseteq probe.ill
      BY <1>1, <2>7, CurrentType DEF Rest, Probed, ProbeShape
    <3>2. probe'.at = probe.at /\ Current' = Current
      BY <1>1, <2>1 DEF Rest, Probe, Current
    <3>3. Ill(Current)' \subseteq probe.ill \cup more
      BY <2>2, <2>4, <3>1, <3>2 DEF Ill
    <3>4. probe' = [probe EXCEPT !.ill = @ \cup more]
      BY <1>1, <2>1, <2>7 DEF Rest, Probe
    <3> HIDE DEF more
    <3>5. Rest' /\ Probed'
      BY <1>1, <2>2, <2>4, <2>5, <2>7, <3>3, <3>4, OthersRest DEF Rest
    <3> QED BY <2>3, <3>5
  <2> QED BY <2>3, <2>6, <2>7
<1>12. CASE Tick
  <2>1. Listed'
    BY <1>12, ListedTick
  <2>2. UNCHANGED <<config, up, snaps, probe, disabled, stopping, faults>>
    BY <1>12 DEF Tick
  <2>3. Rest' /\ Probed'
    BY <1>1, <2>2 DEF Rest, Probed, ProbeShape, SnapsShape, VerdictsDeserved, Current, Ill
  <2> QED BY <2>1, <2>3
<1>13. CASE Stop
  <2>1. /\ UNCHANGED <<config, up, fails, snaps, disabled, log>> /\ stopping' = TRUE
        /\ probe' = (IF probe.at = 0 THEN probe ELSE [probe EXCEPT !.ill = @ \cup {"stop"}])
        /\ faults' \in 0..MaxFaults /\ faults <= faults'
    BY <1>1, <1>13, FaultCounts DEF Stop, Rest
  <2>2. Listed'
    BY <1>1, <2>1, ListedSame
  <2>3. probe.at # 0 => Ill(Current)' \subseteq probe.ill \cup {"stop"}
    <3> SUFFICES ASSUME probe.at # 0
                 PROVE  Ill(Current)' \subseteq probe.ill \cup {"stop"}
      OBVIOUS
    <3>1. probe'.at = probe.at /\ Current' = Current
      BY <1>1, <2>1 DEF Rest, Probe, Current
    <3> QED BY <1>1, <2>1, <3>1 DEF Ill, Probed, ProbeShape
  <2>4. {"stop"} \in SUBSET (Endpoints \cup {"stop"})
    OBVIOUS
  <2>5. Rest' /\ Probed'
    BY <1>1, <2>1, <2>3, <2>4, OthersRest DEF Rest
  <2> QED BY <2>2, <2>5
<1> QED BY <1>2, <1>3, <1>4, <1>5, <1>6, <1>8, <1>9, <1>10, <1>11, <1>12, <1>13
        DEF Next, ProbeStep

\* The inductive invariant: see the definitions above.
THEOREM HealthInvariant == Spec => []HealthInv
  BY InitHealth, HealthStep, PTL DEF Spec

-----------------------------------------------------------------------------
(* What it gives. *)

\* The monitor's variables keep their types: no count goes past the failures
\* there were, whichever goroutine appended or pruned last.
THEOREM HealthTyped == Spec => []TypeOK
<1>1. HealthInv => TypeOK
  BY DEF HealthInv
<1> QED BY <1>1, HealthInvariant, PTL

\* Every failure within the window is in the list, once, at its age, whatever
\* was appended, pruned or aged between: recentFails loses none and keeps none
\* twice.
THEOREM FailuresKept == Spec => []NoFailureLost
<1>1. HealthInv => NoFailureLost
  BY DEF HealthInv
<1> QED BY <1>1, HealthInvariant, PTL

\* The state a probe publishes was deserved at some time while it ran, although
\* its requests are apart in time and failures arrive between them.
THEOREM VerdictsFair == Spec => []VerdictsDeserved
<1>1. HealthInv => VerdictsDeserved
  BY DEF HealthInv
<1> QED BY <1>1, HealthInvariant, PTL

\* The status page and the router agree on who may be given a new client, and
\* every backend that is left out has a reason that names what failed.
THEOREM PageAndRouterAgree == Spec => []ReasonsAgree
<1>1. ASSUME HealthInv PROVE ReasonsAgree
  <2>1. \A b \in Backends :
          /\ snaps[b].state \in States
          /\ snaps[b].state = "unhealthy" => ~(snaps[b].reach /\ snaps[b].jf /\ snaps[b].info)
          /\ snaps[b].reach \in BOOLEAN /\ snaps[b].jf \in BOOLEAN /\ snaps[b].info \in BOOLEAN
    BY <1>1 DEF HealthInv, TypeOK, SnapsShape, Snapshot
  <2>2. ASSUME NEW require \in {"healthy", "healthy_or_degraded"}, NEW b \in Backends
        PROVE  /\ ViewReason(b, require) = "" <=> b \in EligibleUnder(require)
               /\ ViewReason(b, require) # "unhealthy"
    BY <2>1 DEF ViewReason, IneligibleReason, EligibleUnder, States
  <2>3. ASSUME NEW require \in {"healthy", "healthy_or_degraded"}, ~ReadyUnder(require),
               NEW b \in Backends
        PROVE  ViewReason(b, require) # ""
    BY <2>2, <2>3 DEF ReadyUnder
  <2> QED BY <2>2, <2>3 DEF ReasonsAgree
<1> QED BY <1>1, HealthInvariant, PTL
=============================================================================
