---------------------------- MODULE ImageProofs ----------------------------
(***************************************************************************)
(* Proofs about module ImageCache: the accounts are exact, the index and   *)
(* the directory agree, no answer is given to another request, what is     *)
(* kept is current, and a restart forgets nothing it could have kept, for  *)
(* any keys, handlers, sizes, limits and bounds.                           *)
(***************************************************************************)
EXTENDS ImageProperties, ListLemmas

-----------------------------------------------------------------------------
(* The inductive invariant. *)

\* A list names each key of its index once, and counts its bytes.
Counted(l, Items) ==
    /\ l \in Lists(Items)
    /\ Range(l.order) = Held(l) /\ Distinct(l.order)
    /\ l.n = BytesOf(l, Key)

Accounts ==
    /\ Counted(memory, Kept) /\ memory.n <= MaxMemory
    /\ Counted(disk, Answer) /\ disk.n <= MaxDisk

Writing == {"renameBin", "renameMeta"}
Reads   == {"readMeta", "readBin", "keep"}

\* The key whose files are being written.
Written == {hdl[h].url : h \in {h \in Handlers : hdl[h].pc \in Writing}}

\* One handler writes, it holds the mutex, and it has room for what it writes.
WriterAlone ==
    /\ writer # None => writer \in Handlers /\ hdl[writer].pc \in Writing
    /\ \A h \in Handlers : hdl[h].pc \in Writing =>
         /\ writer = h
         /\ hdl[h].body # None
         /\ disk.at[hdl[h].url] = None
         /\ disk.n + hdl[h].body.size <= MaxDisk
         /\ hdl[h].body.serial = latest[hdl[h].url]
         /\ hdl[h].pc = "renameMeta" => binFile[hdl[h].url] = hdl[h].body

\* Whatever holds an answer holds it under the key it was fetched for.
Own(k, a) == a # None => a.url = k

OwnHandler(r) ==
    /\ r.pc # "idle" => r.url \in Key
    /\ r.pc = "put" => r.body # None
    /\ IF r.pc \in {"readBin", "keep"} THEN r.meta # None
       ELSE r.pc \in {"memory", "index", "readMeta"} => r.meta = None
    /\ r.pc \in {"memory", "index", "readMeta", "readBin"} => r.body = None
    /\ r.pc = "keep" => r.body # None /\ r.body.size = r.meta.size
    /\ Own(r.url, r.meta) /\ Own(r.url, r.body)

HandlersOwn == \A h \in Handlers : OwnHandler(hdl[h])

OwnKept(k, m) ==
    /\ m.meta.url = k /\ m.body.url = k
    /\ m.body.size = m.meta.size /\ m.size = m.body.size

StoresOwn ==
    \A k \in Key :
      /\ Own(k, metaFile[k]) /\ Own(k, binFile[k]) /\ Own(k, disk.at[k])
      /\ memory.at[k] # None => OwnKept(k, memory.at[k])

\* Every key of the index has its files, also while another is written, and every
\* file is of such a key, of the key being written, or left over.
Directory ==
    /\ \A k \in Held(disk) :
         /\ metaFile[k] = disk.at[k]
         /\ binFile[k] # None /\ binFile[k].size = disk.at[k].size
    /\ \A k \in Key : metaFile[k] # None \/ binFile[k] # None =>
         k \in Held(disk) \cup leftover \cup Written

\* What is on disk is current, but for leftovers ...
DiskCurrent ==
    \A k \in Held(disk) :
      IF k \in leftover THEN k \in unsure
      ELSE disk.at[k].serial = latest[k] /\ binFile[k].serial = latest[k]

\* ... what is in memory, but for unsure keys ...
CurrentKept(k, m) == m.meta.serial = latest[k] /\ m.body.serial = latest[k]

MemoryCurrent ==
    \A k \in Held(memory) \ unsure : CurrentKept(k, memory.at[k])

\* ... and what a lookup has read or may still read, but for unsure keys.
CurrentAt(k, a) == a # None => a.serial = latest[k]

CurrentHandler(r) ==
    r.pc \in Reads /\ r.url \notin unsure =>
      /\ CurrentAt(r.url, metaFile[r.url]) /\ CurrentAt(r.url, binFile[r.url])
      /\ CurrentAt(r.url, r.meta) /\ CurrentAt(r.url, r.body)

ReadersCurrent == \A h \in Handlers : CurrentHandler(hdl[h])

ImageInv ==
    /\ TypeOK /\ restarts <= faults
    /\ Accounts /\ WriterAlone /\ HandlersOwn /\ StoresOwn /\ Directory
    /\ DiskCurrent /\ MemoryCurrent /\ ReadersCurrent

-----------------------------------------------------------------------------
(* The operations on a list. *)

\* What is in a list has a size, and is not None.
Sized(Items) == None \notin Items /\ \A i \in Items : i.size \in Nat

SizeIn(l) == [k \in Held(l) |-> l.at[k].size]

LEMMA ItemsSized == Sized(Answer) /\ Sized(Kept)
  BY NoneIsNoAnswer, ImageAssumption DEF Sized, Answer, Kept

LEMMA CountedFacts ==
    ASSUME NEW Items, Sized(Items), NEW l, Counted(l, Items)
    PROVE  /\ Held(l) \subseteq Key /\ IsFiniteSet(Held(l))
           /\ \A k \in Held(l) : l.at[k] \in Items /\ SizeIn(l)[k] \in Nat
           /\ l.n = SumFunctionOnSet(SizeIn(l), Held(l)) /\ l.n \in Nat
           /\ l.at \in [Key -> Items \cup {None}] /\ l.order \in Seq(Key)
           /\ l = [at |-> l.at, order |-> l.order, n |-> l.n]
<1>1. /\ l.at \in [Key -> Items \cup {None}] /\ l.order \in Seq(Key) /\ l.n \in Nat
      /\ l = [at |-> l.at, order |-> l.order, n |-> l.n]
  BY DEF Counted, Lists
<1>2. IsFiniteSet(Held(l))
  BY <1>1, DistinctLength DEF Counted
<1>3. \A k \in Held(l) : l.at[k] \in Items /\ SizeIn(l)[k] \in Nat
  BY <1>1 DEF Held, Sized, SizeIn
<1>4. Key \cap Held(l) = Held(l)
  BY DEF Held
<1>5. l.n = SumFunctionOnSet(SizeIn(l), Held(l))
  BY <1>4 DEF Counted, BytesOf, SizeIn
<1> QED BY <1>1, <1>2, <1>3, <1>4, <1>5

LEMMA WithoutFacts ==
    ASSUME NEW Items, Sized(Items), NEW l, Counted(l, Items), NEW K
    PROVE  /\ Counted(Without(l, K), Items)
           /\ Held(Without(l, K)) = Held(l) \ K
           /\ \A k \in Key : Without(l, K).at[k] = IF k \in K THEN None ELSE l.at[k]
           /\ Without(l, K).n <= l.n /\ Without(l, K).n \in Nat
           /\ Held(l) \subseteq K => Without(l, K).n = 0
<1> DEFINE w == Without(l, K)
           gone == BytesOf(l, K)
           H == Held(l)
           f == SizeIn(l)
<1>1. /\ w.at = [k \in Key |-> IF k \in K THEN None ELSE l.at[k]]
      /\ w.order = Deleted(l.order, K)
      /\ w.n = IF gone > l.n THEN 0 ELSE l.n - gone
      /\ w = [at |-> w.at, order |-> w.order, n |-> w.n]
  BY DEF Without
<1>2. gone = SumFunctionOnSet(f, K \cap H)
  BY DEF BytesOf, SizeIn
<1>3. /\ H \subseteq Key /\ IsFiniteSet(H) /\ \A k \in H : f[k] \in Nat
      /\ l.n = SumFunctionOnSet(f, H) /\ l.n \in Nat
      /\ l.at \in [Key -> Items \cup {None}] /\ l.order \in Seq(Key)
  BY CountedFacts
<1> HIDE DEF w, gone
<1>4. Held(w) = H \ K
  BY <1>1 DEF Held
<1>5. \A k \in Held(w) : SizeIn(w)[k] = f[k]
  BY <1>1, <1>3, <1>4 DEF SizeIn
<1>6. IsFiniteSet(Held(w)) /\ Key \cap Held(w) = Held(w)
  BY <1>3, <1>4, FS_Subset
<1>7. BytesOf(w, Key) = SumFunctionOnSet(SizeIn(w), Held(w))
  BY <1>6 DEF BytesOf, SizeIn
<1> HIDE DEF H, f
<1>8. SumFunctionOnSet(SizeIn(w), Held(w)) = SumFunctionOnSet(f, Held(w))
  BY <1>5, <1>6, SumSame
<1>9. /\ SumFunctionOnSet(f, H) = SumFunctionOnSet(f, H \cap K) + SumFunctionOnSet(f, H \ K)
      /\ SumFunctionOnSet(f, H \cap K) \in Nat /\ SumFunctionOnSet(f, H \ K) \in Nat
  BY <1>3, SumSplit
<1>10. gone = SumFunctionOnSet(f, H \cap K)
  <2>1. K \cap H = H \cap K
    OBVIOUS
  <2> QED BY <1>2, <2>1
<1>11. w.n = SumFunctionOnSet(f, H \ K) /\ w.n \in Nat /\ w.n <= l.n
  <2>1. \A x, y \in Nat : l.n = x + y => ~(x > l.n) /\ l.n - x = y /\ y <= l.n
    OBVIOUS
  <2>2. ~(gone > l.n) /\ l.n - gone = SumFunctionOnSet(f, H \ K)
        /\ SumFunctionOnSet(f, H \ K) <= l.n
    BY <1>3, <1>9, <1>10, <2>1
  <2> QED BY <1>1, <1>9, <2>2
<1>12. w.n = BytesOf(w, Key)
  BY <1>4, <1>7, <1>8, <1>11
<1>13. ASSUME H \subseteq K PROVE w.n = 0
  <2>1. H \ K = {}
    BY <1>13
  <2> QED BY <1>11, <2>1, SumEmpty
<1>14. /\ w.order \in Seq(Key) /\ Range(w.order) = Held(w) /\ Distinct(w.order)
  <2>1. Range(l.order) = H /\ Distinct(l.order)
    BY DEF Counted, H
  <2> QED BY <1>1, <1>3, <1>4, <2>1, DeletedFacts
<1>15. w.at \in [Key -> Items \cup {None}]
  BY <1>1, <1>3
<1>16. w \in Lists(Items)
  BY <1>1, <1>11, <1>14, <1>15 DEF Lists
<1>17. Counted(w, Items)
  BY <1>12, <1>14, <1>16 DEF Counted
<1>18. \A k \in Key : w.at[k] = IF k \in K THEN None ELSE l.at[k]
  BY <1>1
<1> QED BY <1>4, <1>11, <1>13, <1>17, <1>18 DEF w, H

LEMMA ToFrontFacts ==
    ASSUME NEW Items, Sized(Items), NEW l, Counted(l, Items), NEW k \in Held(l)
    PROVE  /\ Counted(ToFront(l, k), Items)
           /\ Held(ToFront(l, k)) = Held(l)
           /\ ToFront(l, k).at = l.at /\ ToFront(l, k).n = l.n
<1> DEFINE rest == Deleted(l.order, {k})
           t == ToFront(l, k)
<1>1. /\ l.at \in [Key -> Items \cup {None}] /\ l.order \in Seq(Key) /\ l.n \in Nat
      /\ l = [at |-> l.at, order |-> l.order, n |-> l.n]
      /\ Range(l.order) = Held(l) /\ Distinct(l.order) /\ l.n = BytesOf(l, Key)
      /\ k \in Key
  BY CountedFacts DEF Counted
<1> HIDE DEF rest
<1>2. /\ t.at = l.at /\ t.n = l.n /\ t.order = <<k>> \o rest
      /\ t = [at |-> t.at, order |-> t.order, n |-> t.n]
  <2>1. t = [l EXCEPT !.order = <<k>> \o rest]
    BY DEF ToFront, rest
  <2> DEFINE o == <<k>> \o rest
             a == l.at
             c == l.n
             b == l.order
  <2> HIDE DEF o, t
  <2>2. t = [l EXCEPT !.order = o] /\ l = [at |-> a, order |-> b, n |-> c]
    BY <1>1, <2>1 DEF o
  <2> HIDE DEF a, b, c
  <2>3. t = [at |-> a, order |-> o, n |-> c]
    BY <2>2
  <2> QED BY <2>3 DEF a, c, o
<1>3. rest \in Seq(Key) /\ Range(rest) = Held(l) \ {k} /\ Distinct(rest)
  BY <1>1, DeletedFacts DEF rest
<1> HIDE DEF t
<1>4. k \notin Range(rest) /\ {k} \cup Range(rest) = Held(l)
  BY <1>3
<1>5. t.order \in Seq(Key) /\ Range(t.order) = Held(l) /\ Distinct(t.order)
  BY <1>1, <1>2, <1>3, <1>4, ConsFacts
<1>6. Held(t) = Held(l) /\ BytesOf(t, Key) = BytesOf(l, Key)
  BY <1>2 DEF Held, BytesOf
<1>7. t \in Lists(Items)
  BY <1>1, <1>2, <1>5 DEF Lists
<1>8. Counted(t, Items)
  BY <1>1, <1>2, <1>5, <1>6, <1>7 DEF Counted
<1> QED BY <1>2, <1>6, <1>8 DEF t

LEMMA PushFacts ==
    ASSUME NEW Items, Sized(Items), NEW l, Counted(l, Items), NEW k \in Key, l.at[k] = None,
           NEW item \in Items
    PROVE  /\ Counted(PushFront(l, k, item), Items)
           /\ Held(PushFront(l, k, item)) = Held(l) \cup {k}
           /\ \A q \in Key : PushFront(l, k, item).at[q] = IF q = k THEN item ELSE l.at[q]
           /\ PushFront(l, k, item).n = l.n + item.size
<1> DEFINE t == PushFront(l, k, item)
           H == Held(l)
           f == SizeIn(l)
           g == SizeIn(t)
<1>1. /\ H \subseteq Key /\ IsFiniteSet(H) /\ \A q \in H : f[q] \in Nat
      /\ l.n = SumFunctionOnSet(f, H) /\ l.n \in Nat
      /\ l.at \in [Key -> Items \cup {None}] /\ l.order \in Seq(Key)
  BY CountedFacts
<1>2. /\ t.at = [l.at EXCEPT ![k] = item] /\ t.n = l.n + item.size /\ t.order = <<k>> \o l.order
      /\ t = [at |-> t.at, order |-> t.order, n |-> t.n]
  BY DEF PushFront
<1> HIDE DEF t
<1>3. /\ \A q \in Key : t.at[q] = IF q = k THEN item ELSE l.at[q]
      /\ t.at \in [Key -> Items \cup {None}]
  BY <1>1, <1>2
<1>4. Held(t) = H \cup {k} /\ k \notin H
  BY <1>3 DEF Held, Sized
<1>5. (\A q \in H : g[q] = f[q]) /\ g[k] = item.size /\ item.size \in Nat
  BY <1>1, <1>3, <1>4 DEF SizeIn, Sized
<1>6. Range(l.order) = H /\ Distinct(l.order)
  BY DEF Counted
<1> HIDE DEF H, f, g
<1>7. t.order \in Seq(Key) /\ Range(t.order) = Held(t) /\ Distinct(t.order)
  <2>1. {k} \cup H = H \cup {k}
    OBVIOUS
  <2> QED BY <1>1, <1>2, <1>4, <1>6, <2>1, ConsFacts
<1>8. SumFunctionOnSet(g, H \cup {k}) = SumFunctionOnSet(g, H) + g[k]
  <2>1. \A q \in H : g[q] \in Nat
    BY <1>1, <1>5
  <2> QED BY <1>1, <1>4, <1>5, <2>1, SumAdd
<1>9. SumFunctionOnSet(g, H) = SumFunctionOnSet(f, H)
  BY <1>1, <1>5, SumSame
<1>10. BytesOf(t, Key) = SumFunctionOnSet(g, H \cup {k})
  <2>1. Key \cap Held(t) = H \cup {k}
    BY <1>1, <1>4
  <2> QED BY <2>1 DEF BytesOf, SizeIn, g
<1>11. t.n = BytesOf(t, Key) /\ t.n \in Nat
  BY <1>1, <1>2, <1>5, <1>8, <1>9, <1>10
<1>12. t \in Lists(Items)
  BY <1>2, <1>3, <1>7, <1>11 DEF Lists
<1>13. Counted(t, Items)
  BY <1>7, <1>11, <1>12 DEF Counted
<1> QED BY <1>2, <1>3, <1>4, <1>13 DEF t, H

\* Evicting from the back makes the room that is asked for, whenever it can be
\* made, and takes nothing when there is room.
LEMMA EvictedFacts ==
    ASSUME NEW Items, Sized(Items), NEW l, Counted(l, Items),
           NEW size \in Nat, NEW max \in Nat, size <= max
    PROVE  /\ Without(l, Evicted(l, size, max)).n + size <= max
           /\ l.n + size <= max => Evicted(l, size, max) = {}
           /\ Evicted(l, size, max) \subseteq Key
<1> DEFINE len == Len(l.order)
           Back(i) == ToSet(SubSeq(l.order, len - i + 1, len))
           enough == {i \in 0..len : Without(l, Back(i)).n + size <= max}
<1>1. l.order \in Seq(Key) /\ len \in Nat /\ Range(l.order) = Held(l)
  BY CountedFacts DEF Counted
<1>2. Evicted(l, size, max) = Back(IF enough = {} THEN len ELSE Min(enough))
  BY DEF Evicted
<1>3. Back(len) = Held(l)
  <2>1. SubSeq(l.order, 1, len) = l.order /\ len - len + 1 = 1
    BY <1>1, SubSeqFull
  <2> QED BY <1>1, <2>1 DEF ToSet, Range
<1>4. Without(l, Back(len)).n + size <= max
  BY <1>3, WithoutFacts
<1>5. len \in enough
  BY <1>1, <1>4
<1>6. enough \subseteq Nat /\ enough # {}
  BY <1>1, <1>5
<1>7. Back(0) = {}
  <2>1. len - 0 + 1 \in Int /\ len \in Int /\ len < len - 0 + 1
    BY <1>1
  <2>2. SubSeq(l.order, len - 0 + 1, len) = << >>
    BY <2>1, SubSeqEmpty
  <2> QED BY <2>2 DEF ToSet
<1>8. \A i \in enough : Without(l, Back(i)).n + size <= max
  OBVIOUS
<1>9. l.n + size <= max => 0 \in enough
  <2> SUFFICES ASSUME l.n + size <= max PROVE 0 \in enough
    OBVIOUS
  <2>1. Without(l, Back(0)).n <= l.n /\ Without(l, Back(0)).n \in Nat /\ l.n \in Nat
    BY WithoutFacts, CountedFacts
  <2> HIDE DEF Back
  <2> QED BY <1>1, <2>1
<1>14. ASSUME NEW i \in 0..len PROVE Back(i) \subseteq Key
  <2>1. len - i + 1 \in 1..len + 1 /\ i \in Nat
    BY <1>1
  <2>2. ASSUME NEW j \in 1..len - (len - i + 1) + 1
        PROVE  SubSeq(l.order, len - i + 1, len)[j] \in Key
    BY <1>1, <2>1, <2>2
  <2>3. DOMAIN SubSeq(l.order, len - i + 1, len) = 1..len - (len - i + 1) + 1
    BY <1>1, <2>1
  <2> QED BY <2>2, <2>3 DEF ToSet
<1> HIDE DEF enough, Back
<1>10. Min(enough) \in enough /\ \A i \in enough : Min(enough) <= i
  BY <1>6, LeastNat DEF Min
<1>11. Evicted(l, size, max) = Back(Min(enough))
  BY <1>2, <1>6
<1>12. Without(l, Evicted(l, size, max)).n + size <= max
  BY <1>8, <1>10, <1>11
<1>13. ASSUME l.n + size <= max PROVE Evicted(l, size, max) = {}
  <2>1. Min(enough) <= 0 /\ Min(enough) \in Nat
    BY <1>6, <1>9, <1>10, <1>13
  <2>2. Min(enough) = 0
    BY <2>1
  <2> QED BY <1>7, <1>11, <2>2
<1>15. Evicted(l, size, max) \subseteq Key
  BY <1>10, <1>11, <1>14 DEF enough
<1> QED BY <1>12, <1>13, <1>15

LEMMA RoomFacts ==
    ASSUME NEW Items, Sized(Items), NEW l, Counted(l, Items), NEW k \in Key,
           NEW size \in Nat, NEW max \in Nat, size <= max
    PROVE  LET room == RoomFor(l, k, size, max) IN
           /\ Counted(room, Items)
           /\ Held(room) \subseteq Held(l) \ {k}
           /\ \A q \in Key : room.at[q] # None => room.at[q] = l.at[q]
           /\ room.n + size <= max /\ room.n \in Nat
<1> DEFINE rest == Without(l, {k})
           out == Evicted(rest, size, max)
           room == Without(rest, out)
<1>1. /\ Counted(rest, Items) /\ Held(rest) = Held(l) \ {k}
      /\ \A q \in Key : rest.at[q] = IF q = k THEN None ELSE l.at[q]
  BY WithoutFacts
<1>2. RoomFor(l, k, size, max) = room
  BY DEF RoomFor
<1> HIDE DEF rest
<1>3. room.n + size <= max
  BY <1>1, EvictedFacts
<1> HIDE DEF out
<1>4. /\ Counted(room, Items) /\ Held(room) = Held(rest) \ out /\ room.n \in Nat
      /\ \A q \in Key : room.at[q] = IF q \in out THEN None ELSE rest.at[q]
  BY <1>1, WithoutFacts
<1> HIDE DEF room
<1> QED BY <1>1, <1>2, <1>3, <1>4

LEMMA EmptyFacts ==
    ASSUME NEW Items, Sized(Items)
    PROVE  /\ Counted(EmptyList, Items) /\ Held(EmptyList) = {}
           /\ EmptyList.n = 0 /\ \A k \in Key : EmptyList.at[k] = None
<1> DEFINE e == EmptyList
<1>1. e.at = [k \in Key |-> None] /\ e.order = <<>> /\ e.n = 0 /\ e \in Lists(Items)
  BY DEF EmptyList, Lists
<1> HIDE DEF e
<1>2. Held(e) = {}
  BY <1>1 DEF Held
<1>3. BytesOf(e, Key) = 0
  <2>1. Key \cap Held(e) = {}
    BY <1>2
  <2> QED BY <2>1, SumEmpty DEF BytesOf
<1>4. Range(e.order) = {} /\ Distinct(e.order)
  BY <1>1 DEF Range, Distinct
<1> QED BY <1>1, <1>2, <1>3, <1>4 DEF Counted, e

\* An answer that goes to memory is there afterwards, whatever was evicted for it.
LEMMA InMemoryFacts ==
    ASSUME Counted(memory, Kept), memory.n <= MaxMemory,
           NEW k \in Key, NEW meta \in Answer, NEW body \in Answer
    PROVE  LET m == InMemory(k, meta, body)
               new == [meta |-> meta, body |-> body, size |-> body.size] IN
           /\ Counted(m, Kept) /\ m.n <= MaxMemory
           /\ \A q \in Key : \/ m.at[q] = None
                             \/ m.at[q] = memory.at[q]
                             \/ q = k /\ m.at[q] = new
           /\ Storable(body) => m.at[k] = new
<1> DEFINE room == RoomFor(memory, k, body.size, MaxMemory)
           new == [meta |-> meta, body |-> body, size |-> body.size]
           m == InMemory(k, meta, body)
<1>1. Sized(Kept) /\ new \in Kept /\ body.size \in Nat /\ MaxMemory \in Nat /\ MaxObject \in Nat
      /\ MaxObject <= MaxMemory
  BY ItemsSized, ImageAssumption DEF Kept, Answer
<1>2. m = IF ~Storable(body) \/ body.size > MaxMemory THEN memory
          ELSE IF room.n + body.size > MaxMemory THEN room
          ELSE PushFront(room, k, new)
  BY DEF InMemory
<1> HIDE DEF m
<1>3. CASE ~Storable(body) \/ body.size > MaxMemory
  <2>1. m = memory /\ ~Storable(body)
    BY <1>1, <1>2, <1>3 DEF Storable
  <2> QED BY <2>1 DEF m
<1>4. CASE Storable(body) /\ ~(body.size > MaxMemory)
  <2>1. body.size <= MaxMemory
    BY <1>1, <1>4
  <2>2. /\ Counted(room, Kept) /\ Held(room) \subseteq Held(memory) \ {k}
        /\ \A q \in Key : room.at[q] # None => room.at[q] = memory.at[q]
        /\ room.n + body.size <= MaxMemory /\ room.n \in Nat
    BY <1>1, <2>1, RoomFacts
  <2> HIDE DEF room
  <2>3. room.at[k] = None
    BY <2>2 DEF Held
  <2>4. m = PushFront(room, k, new)
    BY <1>1, <1>2, <1>4, <2>2
  <2> HIDE DEF new
  <2>5. /\ Counted(m, Kept) /\ m.n = room.n + new.size
        /\ \A q \in Key : m.at[q] = IF q = k THEN new ELSE room.at[q]
    BY <1>1, <2>2, <2>3, <2>4, PushFacts
  <2>6. new.size = body.size
    BY DEF new
  <2> QED BY <2>2, <2>5, <2>6 DEF m, new
<1> QED BY <1>3, <1>4

LEMMA ReverseFacts ==
    ASSUME NEW S, NEW s \in Seq(S)
    PROVE  /\ Reverse(s) \in Seq(S)
           /\ Range(Reverse(s)) = Range(s)
           /\ Distinct(s) => Distinct(Reverse(s))
<1> DEFINE r == Reverse(s)
<1>1. /\ Len(s) \in Nat /\ DOMAIN s = 1..Len(s)
      /\ \A i \in 1..Len(s) : s[i] \in S /\ Len(s) - i + 1 \in 1..Len(s)
  OBVIOUS
<1>2. r = [i \in 1..Len(s) |-> s[Len(s) - i + 1]]
  BY DEF Reverse
<1>3. r \in Seq(S) /\ Len(r) = Len(s) /\ DOMAIN r = 1..Len(s)
      /\ \A i \in 1..Len(s) : r[i] = s[Len(s) - i + 1]
  BY <1>1, <1>2
<1> HIDE DEF r
<1>4. Range(r) \subseteq Range(s)
  BY <1>1, <1>3 DEF Range
<1>5. ASSUME NEW i \in 1..Len(s) PROVE s[i] \in Range(r)
  <2>1. r[Len(s) - i + 1] = s[i]
    BY <1>1, <1>3
  <2> QED BY <1>1, <1>3, <2>1 DEF Range
<1>6. Range(s) \subseteq Range(r)
  BY <1>1, <1>5 DEF Range
<1>7. ASSUME Distinct(s), NEW i \in 1..Len(r), NEW j \in 1..Len(r), r[i] = r[j]
      PROVE  i = j
  <2>1. Len(s) - i + 1 = Len(s) - j + 1
    BY <1>1, <1>3, <1>7 DEF Distinct
  <2> QED BY <1>1, <1>3, <2>1
<1> QED BY <1>3, <1>4, <1>6, <1>7 DEF Distinct, r

\* The index loadDisk builds counts what it takes over.
LEMMA LoadedFacts ==
    ASSUME metaFile \in [Key -> Answer \cup {None}]
    PROVE  /\ Counted(Loaded, Answer)
           /\ Held(Loaded) = {k \in Key : Loadable(k)}
           /\ \A k \in Held(Loaded) : Loaded.at[k] = metaFile[k]
<1> DEFINE item == [k \in Key |-> IF Loadable(k) THEN metaFile[k] ELSE None]
           lost == {k \in Key : ~Loadable(k)}
           e == [EmptyList EXCEPT !.at = item]
           l == Loaded
<1>1. /\ l.at = item /\ l.order = Reverse(Deleted(FileOrder, lost)) /\ l.n = BytesOf(e, Key)
      /\ l = [at |-> l.at, order |-> l.order, n |-> l.n]
  BY DEF Loaded
<1> HIDE DEF l
<1>2. e.at = item
  BY DEF EmptyList
<1> HIDE DEF e
<1>3. /\ item \in [Key -> Answer \cup {None}]
      /\ \A k \in Key : Loadable(k) => item[k] = metaFile[k] /\ metaFile[k] # None
      /\ \A k \in Key : ~Loadable(k) => item[k] = None
  BY DEF Loadable
<1> HIDE DEF item
<1>4. Held(l) = {k \in Key : Loadable(k)} /\ Held(e) = Held(l)
  BY <1>1, <1>2, <1>3 DEF Held
<1>5. FileOrder \in Seq(Key) /\ Range(FileOrder) = Key /\ Distinct(FileOrder)
  <2>1. FileOrder \in Seq(Key) /\ ToSet(FileOrder) = Key /\ IsInjective(FileOrder)
    BY ImageAssumption
  <2> QED BY <2>1 DEF ToSet, Range, IsInjective, Distinct
<1>6. /\ Deleted(FileOrder, lost) \in Seq(Key) /\ Distinct(Deleted(FileOrder, lost))
      /\ Range(Deleted(FileOrder, lost)) = Key \ lost
  BY <1>5, DeletedFacts
<1>7. /\ l.order \in Seq(Key) /\ Distinct(l.order)
      /\ Range(l.order) = Key \ lost
  BY <1>1, <1>6, ReverseFacts
<1>8. Range(l.order) = Held(l)
  BY <1>4, <1>7
<1> HIDE DEF lost
<1>9. IsFiniteSet(Held(l)) /\ Key \cap Held(l) = Held(l)
  BY <1>4, <1>7, <1>8, DistinctLength
<1>10. BytesOf(e, Key) = BytesOf(l, Key)
  BY <1>1, <1>2, <1>4 DEF BytesOf
<1>11. BytesOf(l, Key) \in Nat
  <2> DEFINE f == SizeIn(l)
             H == Held(l)
  <2>1. \A k \in H : f[k] \in Nat
    BY <1>1, <1>3, <1>4, ItemsSized DEF SizeIn, Sized
  <2>2. BytesOf(l, Key) = SumFunctionOnSet(f, H)
    BY <1>9 DEF BytesOf, SizeIn
  <2>3. IsFiniteSet(H)
    BY <1>9
  <2> HIDE DEF f, H
  <2> QED BY <2>1, <2>2, <2>3, SumType
<1>12. l \in Lists(Answer)
  BY <1>1, <1>3, <1>7, <1>10, <1>11 DEF Lists
<1>13. Counted(l, Answer)
  BY <1>1, <1>7, <1>8, <1>10, <1>12 DEF Counted
<1> QED BY <1>1, <1>3, <1>4, <1>13 DEF l

-----------------------------------------------------------------------------
(* The initial states, and the steps of a lookup. *)

LEMMA ImageInit == Init => ImageInv
<1> SUFFICES ASSUME Init PROVE ImageInv
  OBVIOUS
<1>1. /\ memory = EmptyList /\ disk = EmptyList
      /\ metaFile = [k \in Key |-> None] /\ binFile = [k \in Key |-> None]
      /\ writer = None /\ hdl = [h \in Handlers |-> Idle]
      /\ answers = 0 /\ expired = {} /\ faults = 0 /\ restarts = 0
      /\ latest = [k \in Key |-> 0] /\ leftover = {} /\ unsure = {}
  BY DEF Init
<1>2. /\ Counted(memory, Kept) /\ Counted(disk, Answer)
      /\ Held(memory) = {} /\ Held(disk) = {} /\ memory.n = 0 /\ disk.n = 0
      /\ \A k \in Key : memory.at[k] = None /\ disk.at[k] = None
  BY <1>1, ItemsSized, EmptyFacts
<1>3. Idle \in Handler /\ Idle.pc = "idle" /\ Idle.meta = None /\ Idle.body = None
  BY DEF Idle, Handler, Steps
<1>4. \A h \in Handlers : hdl[h].pc = "idle" /\ hdl[h].meta = None /\ hdl[h].body = None
  BY <1>1, <1>3
<1>5. /\ MaxMemory \in Nat /\ MaxDisk \in Nat /\ MaxAnswers \in Nat /\ MaxFaults \in Nat
  BY ImageAssumption
<1>6. TypeOK
  <2>1. hdl \in [Handlers -> Handler]
    BY <1>1, <1>3
  <2>2. memory \in Lists(Kept) /\ disk \in Lists(Answer)
    BY <1>2 DEF Counted
  <2> QED BY <1>1, <1>5, <2>1, <2>2 DEF TypeOK
<1>7. Accounts
  BY <1>2, <1>5 DEF Accounts
<1>8. WriterAlone
  BY <1>1, <1>4 DEF WriterAlone, Writing
<1>9. HandlersOwn
  BY <1>4 DEF HandlersOwn, OwnHandler, Own
<1>10. StoresOwn
  BY <1>1, <1>2 DEF StoresOwn, Own
<1>11. Directory
  BY <1>1, <1>2 DEF Directory
<1>12. DiskCurrent /\ MemoryCurrent
  BY <1>2 DEF DiskCurrent, MemoryCurrent
<1>13. ReadersCurrent
  BY <1>4 DEF ReadersCurrent, CurrentHandler, Reads
<1> QED BY <1>1, <1>6, <1>7, <1>8, <1>9, <1>10, <1>11, <1>12, <1>13 DEF ImageInv

\* With the mutex free, nobody writes.
LEMMA NobodyWrites ==
    ASSUME ImageInv, Unlocked
    PROVE  Written = {} /\ \A h \in Handlers : hdl[h].pc \notin Writing
  BY ImageAssumption DEF ImageInv, WriterAlone, Unlocked, Written

\* A handler that writes no files goes from one step to another.
LEMMA HandlerMoves ==
    ASSUME ImageInv, NEW h \in Handlers, hdl[h].pc \notin Writing,
           NEW r \in Handler, r.pc \notin Writing, OwnHandler(r),
           hdl' = [hdl EXCEPT ![h] = r]
    PROVE  /\ hdl' \in [Handlers -> Handler] /\ HandlersOwn' /\ Written' = Written
           /\ \A q \in Handlers : hdl'[q] = IF q = h THEN r ELSE hdl[q]
           /\ writer' = writer /\ disk' = disk /\ latest' = latest /\ binFile' = binFile
                => WriterAlone'
           /\ writer' = writer /\ Unlocked => WriterAlone'
<1>1. hdl \in [Handlers -> Handler] /\ WriterAlone /\ HandlersOwn
  BY DEF ImageInv, TypeOK
<1>2. \A q \in Handlers : hdl'[q] = IF q = h THEN r ELSE hdl[q]
  BY <1>1
<1>3. hdl' \in [Handlers -> Handler]
  BY <1>1
<1>4. HandlersOwn'
  BY <1>1, <1>2 DEF HandlersOwn
<1>5. \A q \in Handlers : /\ hdl'[q].pc \in Writing <=> hdl[q].pc \in Writing
                          /\ hdl[q].pc \in Writing => hdl'[q] = hdl[q]
  BY <1>2
<1>6. Written' = Written
  BY <1>5 DEF Written
<1>7. ASSUME writer' = writer, disk' = disk, latest' = latest, binFile' = binFile
      PROVE  WriterAlone'
  BY <1>1, <1>5, <1>7 DEF WriterAlone
<1>8. ASSUME writer' = writer, Unlocked PROVE WriterAlone'
  BY <1>5, <1>8, NobodyWrites DEF WriterAlone, Unlocked
<1> QED BY <1>2, <1>3, <1>4, <1>6, <1>7, <1>8

\* A step that changes no list, file or history keeps the invariant when what the
\* handler holds is its own and current.
LEMMA LookupStep ==
    ASSUME ImageInv, NEW h \in Handlers, hdl[h].pc \notin Writing,
           NEW r \in Handler, r.pc \notin Writing, OwnHandler(r), CurrentHandler(r),
           hdl' = [hdl EXCEPT ![h] = r], answers' \in 0..MaxAnswers,
           UNCHANGED <<memory, disk, fileVars, writer, envVars, historyVars>>
    PROVE  ImageInv'
<1>1. /\ memory' = memory /\ disk' = disk /\ metaFile' = metaFile /\ binFile' = binFile
      /\ writer' = writer /\ expired' = expired /\ faults' = faults /\ restarts' = restarts
      /\ latest' = latest /\ leftover' = leftover /\ unsure' = unsure
  BY DEF fileVars, envVars, historyVars
<1>2. /\ TypeOK /\ restarts <= faults /\ Accounts /\ StoresOwn /\ Directory
      /\ DiskCurrent /\ MemoryCurrent /\ ReadersCurrent
  BY DEF ImageInv
<1>3. /\ hdl' \in [Handlers -> Handler] /\ HandlersOwn' /\ Written' = Written /\ WriterAlone'
      /\ \A q \in Handlers : hdl'[q] = IF q = h THEN r ELSE hdl[q]
  BY <1>1, HandlerMoves
<1>4. TypeOK'
  BY <1>1, <1>2, <1>3 DEF TypeOK
<1>5. Accounts' /\ StoresOwn'
  BY <1>1, <1>2 DEF Accounts, StoresOwn
<1>6. Directory'
  BY <1>1, <1>2, <1>3 DEF Directory
<1>7. DiskCurrent' /\ MemoryCurrent'
  BY <1>1, <1>2 DEF DiskCurrent, MemoryCurrent, CurrentKept
<1>8. ReadersCurrent'
  BY <1>1, <1>2, <1>3 DEF ReadersCurrent, CurrentHandler, CurrentAt
<1> QED BY <1>1, <1>2, <1>3, <1>4, <1>5, <1>6, <1>7, <1>8 DEF ImageInv

LEMMA ArriveKeeps ==
    ASSUME ImageInv, NEW h \in Handlers, Arrive(h)
    PROVE  ImageInv'
<1>1. PICK url \in Key : hdl' = [hdl EXCEPT ![h] = [Idle EXCEPT !.pc = "memory", !.url = url]]
  BY DEF Arrive
<1> DEFINE r == [Idle EXCEPT !.pc = "memory", !.url = url]
<1>2. /\ r \in Handler /\ r.pc = "memory" /\ r.url = url
      /\ r.meta = None /\ r.body = None
  BY DEF Handler, Steps, Idle
<1>3. hdl' = [hdl EXCEPT ![h] = r]
  BY <1>1
<1> HIDE DEF r
<1>4. r.pc \notin Writing /\ OwnHandler(r) /\ CurrentHandler(r)
  BY <1>2 DEF Writing, OwnHandler, CurrentHandler, Reads, Own
<1>5. /\ hdl[h].pc = "idle" /\ answers' = answers
      /\ UNCHANGED <<memory, disk, fileVars, writer, envVars, historyVars>>
  BY DEF Arrive
<1>6. answers' \in 0..MaxAnswers /\ hdl[h].pc \notin Writing
  BY <1>5 DEF ImageInv, TypeOK, Writing
<1> QED BY <1>2, <1>3, <1>4, <1>5, <1>6, LookupStep

LEMMA FinishKeeps ==
    ASSUME ImageInv, NEW h \in Handlers, hdl[h].pc \notin Writing, Finish(h),
           answers' \in 0..MaxAnswers,
           UNCHANGED <<memory, disk, fileVars, writer, envVars, historyVars>>
    PROVE  ImageInv'
<1>1. hdl' = [hdl EXCEPT ![h] = Idle]
  BY DEF Finish
<1>2. Idle \in Handler /\ Idle.pc \notin Writing /\ OwnHandler(Idle) /\ CurrentHandler(Idle)
  BY DEF Idle, Handler, Steps, Writing, OwnHandler, CurrentHandler, Reads, Own
<1> QED BY <1>1, <1>2, LookupStep

\* What the invariant says of one handler.
LEMMA HandlerFacts ==
    ASSUME ImageInv, NEW h \in Handlers
    PROVE  /\ hdl \in [Handlers -> Handler] /\ hdl[h] \in Handler
           /\ OwnHandler(hdl[h]) /\ CurrentHandler(hdl[h])
           /\ hdl[h].pc # "idle" =>
                /\ hdl[h].url \in Key
                /\ metaFile[hdl[h].url] \in Answer \cup {None}
                /\ binFile[hdl[h].url] \in Answer \cup {None}
                /\ Own(hdl[h].url, metaFile[hdl[h].url]) /\ Own(hdl[h].url, binFile[hdl[h].url])
           /\ answers \in 0..MaxAnswers
  BY DEF ImageInv, TypeOK, HandlersOwn, ReadersCurrent, OwnHandler, StoresOwn

LEMMA ReadMetaKeeps ==
    ASSUME ImageInv, NEW h \in Handlers, ReadMeta(h)
    PROVE  ImageInv'
<1> DEFINE meta == metaFile[hdl[h].url]
           pc == IF meta = None THEN "drop" ELSE "readBin"
           r == [hdl[h] EXCEPT !.pc = pc, !.meta = meta]
<1>1. /\ hdl[h].pc = "readMeta" /\ hdl' = [hdl EXCEPT ![h].pc = pc, ![h].meta = meta]
      /\ UNCHANGED <<memory, disk, fileVars, writer, answers, envVars, historyVars>>
  BY DEF ReadMeta, KeyOf
<1>2. /\ hdl[h] \in Handler /\ OwnHandler(hdl[h]) /\ CurrentHandler(hdl[h])
      /\ hdl[h].url \in Key /\ meta \in Answer \cup {None} /\ Own(hdl[h].url, meta)
      /\ hdl \in [Handlers -> Handler] /\ answers \in 0..MaxAnswers
  BY <1>1, HandlerFacts
<1>3. hdl' = [hdl EXCEPT ![h] = r]
  BY <1>1, <1>2
<1>4. /\ r \in Handler /\ r.pc = pc /\ r.meta = meta /\ r.url = hdl[h].url
      /\ r.body = hdl[h].body
  BY <1>2 DEF Handler, Steps
<1> HIDE DEF r
<1>5. OwnHandler(r) /\ r.pc \notin Writing
  BY <1>1, <1>2, <1>4 DEF OwnHandler, Writing
<1>6. CurrentHandler(r)
  BY <1>1, <1>2, <1>4 DEF CurrentHandler, CurrentAt, Reads, OwnHandler
<1>7. hdl[h].pc \notin Writing /\ answers' \in 0..MaxAnswers
  BY <1>1, <1>2 DEF Writing
<1> QED BY <1>1, <1>3, <1>4, <1>5, <1>6, <1>7, LookupStep

LEMMA ReadBinKeeps ==
    ASSUME ImageInv, NEW h \in Handlers, ReadBin(h)
    PROVE  ImageInv'
<1> DEFINE meta == hdl[h].meta
           body == binFile[hdl[h].url]
           kept == [hdl[h] EXCEPT !.pc = "keep", !.body = body]
           lost == [hdl[h] EXCEPT !.pc = "drop", !.meta = None]
           r == IF Fits(meta, body) THEN kept ELSE lost
<1>1. /\ hdl[h].pc = "readBin"
      /\ hdl' = IF Fits(meta, body)
                THEN [hdl EXCEPT ![h].pc = "keep", ![h].body = body]
                ELSE [hdl EXCEPT ![h].pc = "drop", ![h].meta = None]
      /\ UNCHANGED <<memory, disk, fileVars, writer, answers, envVars, historyVars>>
  BY DEF ReadBin, KeyOf
<1>2. /\ hdl[h] \in Handler /\ OwnHandler(hdl[h]) /\ CurrentHandler(hdl[h])
      /\ hdl[h].url \in Key /\ body \in Answer \cup {None} /\ Own(hdl[h].url, body)
      /\ hdl \in [Handlers -> Handler] /\ answers \in 0..MaxAnswers
  BY <1>1, HandlerFacts
<1>3. hdl' = [hdl EXCEPT ![h] = r]
  <2>1. /\ [hdl EXCEPT ![h].pc = "keep", ![h].body = body] = [hdl EXCEPT ![h] = kept]
        /\ [hdl EXCEPT ![h].pc = "drop", ![h].meta = None] = [hdl EXCEPT ![h] = lost]
    BY <1>2
  <2> QED BY <1>1, <2>1
<1>4. /\ kept \in Handler /\ kept.pc = "keep" /\ kept.meta = meta /\ kept.url = hdl[h].url
      /\ kept.body = body
  BY <1>2 DEF Handler, Steps
<1>5. /\ lost \in Handler /\ lost.pc = "drop" /\ lost.meta = None /\ lost.url = hdl[h].url
      /\ lost.body = hdl[h].body
  BY <1>2 DEF Handler, Steps
<1> HIDE DEF kept, lost
<1>6. Fits(meta, body) => OwnHandler(kept) /\ CurrentHandler(kept)
  BY <1>1, <1>2, <1>4 DEF OwnHandler, CurrentHandler, CurrentAt, Reads, Fits
<1>7. OwnHandler(lost) /\ CurrentHandler(lost)
  BY <1>1, <1>2, <1>5 DEF OwnHandler, CurrentHandler, Reads, Own
<1>8. r \in Handler /\ OwnHandler(r) /\ CurrentHandler(r) /\ r.pc \notin Writing
  BY <1>4, <1>5, <1>6, <1>7 DEF Writing
<1>9. hdl[h].pc \notin Writing /\ answers' \in 0..MaxAnswers
  BY <1>1, <1>2 DEF Writing
<1> HIDE DEF r
<1> QED BY <1>1, <1>3, <1>8, <1>9, LookupStep

LEMMA FetchKeeps ==
    ASSUME ImageInv, NEW h \in Handlers, Fetch(h) \/ FetchNothing(h)
    PROVE  ImageInv'
<1>1. /\ hdl[h].pc = "fetch"
      /\ UNCHANGED <<memory, disk, fileVars, writer, envVars, historyVars>>
      /\ hdl \in [Handlers -> Handler] /\ hdl[h] \in Handler /\ OwnHandler(hdl[h])
      /\ hdl[h].url \in Key /\ answers \in 0..MaxAnswers /\ MaxAnswers \in Nat
  BY HandlerFacts, ImageAssumption DEF Fetch, FetchNothing, OwnHandler
<1>2. hdl[h].pc \notin Writing /\ answers' \in 0..MaxAnswers
  BY <1>1 DEF Writing, Fetch, FetchNothing
<1>3. CASE Finish(h)
  BY <1>1, <1>2, <1>3, FinishKeeps
<1>4. CASE Fetch(h) /\ ~Finish(h)
  <2>1. answers + 1 \in 1..MaxAnswers
    BY <1>1, <1>4 DEF Fetch
  <2>2. PICK size \in Sizes :
          hdl' = [hdl EXCEPT ![h].pc = "put",
                    ![h].body = [url |-> hdl[h].url, serial |-> answers + 1, size |-> size]]
    BY <1>4 DEF Fetch
  <2> DEFINE a == [url |-> hdl[h].url, serial |-> answers + 1, size |-> size]
             r == [hdl[h] EXCEPT !.pc = "put", !.body = a]
  <2>3. a \in Answer /\ a.url = hdl[h].url
    BY <1>1, <2>1 DEF Answer
  <2>4. a # None
    BY <2>3, NoneIsNoAnswer
  <2>5. hdl' = [hdl EXCEPT ![h] = r]
    BY <1>1, <2>2
  <2> HIDE DEF a
  <2>6. /\ r \in Handler /\ r.pc = "put" /\ r.body = a /\ r.url = hdl[h].url
        /\ r.meta = hdl[h].meta
    BY <1>1, <2>3 DEF Handler, Steps
  <2> HIDE DEF r
  <2>7. OwnHandler(r) /\ CurrentHandler(r) /\ r.pc \notin Writing
    BY <1>1, <2>3, <2>4, <2>6 DEF OwnHandler, CurrentHandler, Reads, Writing, Own
  <2> QED BY <1>1, <1>2, <2>5, <2>6, <2>7, LookupStep
<1>5. FetchNothing(h) => Finish(h)
  BY DEF FetchNothing
<1> QED BY <1>3, <1>4, <1>5

\* A lookup that changes what memory holds, and the order of the disk list at most,
\* with the mutex held.
LEMMA MemoryStep ==
    ASSUME ImageInv, Unlocked, NEW h \in Handlers,
           NEW r \in Handler, r.pc \notin Writing, OwnHandler(r), CurrentHandler(r),
           hdl' = [hdl EXCEPT ![h] = r],
           Counted(memory', Kept), memory'.n <= MaxMemory,
           \A k \in Key : \/ memory'.at[k] = None
                          \/ memory'.at[k] = memory.at[k]
                          \/ /\ OwnKept(k, memory'.at[k])
                             /\ k \notin unsure => CurrentKept(k, memory'.at[k]),
           Counted(disk', Answer), disk'.n <= MaxDisk, disk'.at = disk.at,
           UNCHANGED <<fileVars, writer, answers, envVars, historyVars>>
    PROVE  ImageInv'
<1>1. /\ metaFile' = metaFile /\ binFile' = binFile /\ answers' = answers
      /\ writer' = writer /\ expired' = expired /\ faults' = faults /\ restarts' = restarts
      /\ latest' = latest /\ leftover' = leftover /\ unsure' = unsure
  BY DEF fileVars, envVars, historyVars
<1>2. /\ TypeOK /\ restarts <= faults /\ Accounts /\ StoresOwn /\ Directory
      /\ DiskCurrent /\ MemoryCurrent /\ ReadersCurrent
  BY DEF ImageInv
<1>3. hdl[h].pc \notin Writing
  BY NobodyWrites
<1>4. /\ hdl' \in [Handlers -> Handler] /\ HandlersOwn' /\ Written' = Written /\ WriterAlone'
      /\ \A q \in Handlers : hdl'[q] = IF q = h THEN r ELSE hdl[q]
  BY <1>1, <1>3, HandlerMoves
<1>5. memory' \in Lists(Kept) /\ disk' \in Lists(Answer) /\ Held(disk') = Held(disk)
  BY DEF Counted, Held
<1>6. TypeOK'
  BY <1>1, <1>2, <1>4, <1>5 DEF TypeOK
<1>7. Accounts'
  BY DEF Accounts
<1>8. StoresOwn'
  BY <1>1, <1>2 DEF StoresOwn
<1>9. Directory'
  BY <1>1, <1>2, <1>4, <1>5 DEF Directory
<1>10. DiskCurrent'
  BY <1>1, <1>2, <1>5 DEF DiskCurrent
<1>11. MemoryCurrent'
  BY <1>1, <1>2 DEF MemoryCurrent, CurrentKept, Held
<1>12. ReadersCurrent'
  BY <1>1, <1>2, <1>4 DEF ReadersCurrent, CurrentHandler, CurrentAt
<1> QED BY <1>1, <1>2, <1>4, <1>6, <1>7, <1>8, <1>9, <1>10, <1>11, <1>12 DEF ImageInv

LEMMA IdleFacts ==
    Idle \in Handler /\ Idle.pc \notin Writing /\ OwnHandler(Idle) /\ CurrentHandler(Idle)
  BY DEF Idle, Handler, Steps, Writing, OwnHandler, CurrentHandler, Reads, Own

\* A handler that goes on to a step that reads or writes nothing.
LEMMA GotoFacts ==
    ASSUME ImageInv, NEW h \in Handlers, NEW pc \in {"index", "readMeta", "fetch"},
           hdl[h].pc # "idle",
           pc = "index" => hdl[h].pc = "memory",
           pc = "readMeta" => /\ hdl[h].pc = "index"
                              /\ \/ hdl[h].url \in unsure
                                 \/ /\ CurrentAt(hdl[h].url, metaFile[hdl[h].url])
                                    /\ CurrentAt(hdl[h].url, binFile[hdl[h].url])
    PROVE  LET r == [hdl[h] EXCEPT !.pc = pc] IN
           /\ [hdl EXCEPT ![h].pc = pc] = [hdl EXCEPT ![h] = r]
           /\ r \in Handler /\ r.pc = pc /\ r.pc \notin Writing
           /\ OwnHandler(r) /\ CurrentHandler(r)
<1> DEFINE r == [hdl[h] EXCEPT !.pc = pc]
<1>1. /\ hdl \in [Handlers -> Handler] /\ hdl[h] \in Handler /\ OwnHandler(hdl[h])
      /\ hdl[h].url \in Key
  BY HandlerFacts
<1>2. [hdl EXCEPT ![h].pc = pc] = [hdl EXCEPT ![h] = r]
  BY <1>1
<1>3. /\ r \in Handler /\ r.pc = pc /\ r.url = hdl[h].url /\ r.meta = hdl[h].meta
      /\ r.body = hdl[h].body
  BY <1>1 DEF Handler, Steps
<1> HIDE DEF r
<1>4. OwnHandler(r) /\ r.pc \notin Writing
  BY <1>1, <1>3 DEF OwnHandler, Writing
<1>5. CurrentHandler(r)
  BY <1>1, <1>3 DEF CurrentHandler, CurrentAt, Reads, OwnHandler
<1> QED BY <1>2, <1>3, <1>4, <1>5 DEF r

LEMMA GetMemoryKeeps ==
    ASSUME ImageInv, NEW h \in Handlers, GetMemory(h)
    PROVE  ImageInv'
<1> DEFINE k == hdl[h].url
           hit == memory.at[k] # None /\ ~Expired(memory.at[k].meta)
           r == IF hit THEN Idle ELSE [hdl[h] EXCEPT !.pc = "index"]
<1>1. /\ hdl[h].pc = "memory" /\ Unlocked /\ k \in Key
      /\ IF hit THEN memory' = ToFront(memory, k) /\ hdl' = [hdl EXCEPT ![h] = Idle]
         ELSE memory' = Without(memory, {k}) /\ hdl' = [hdl EXCEPT ![h].pc = "index"]
      /\ disk' = disk
      /\ UNCHANGED <<fileVars, writer, answers, envVars, historyVars>>
  BY HandlerFacts DEF GetMemory, KeyOf, Finish, Goto
<1>2. /\ Counted(memory, Kept) /\ memory.n <= MaxMemory /\ memory.n \in Nat /\ MaxMemory \in Nat
      /\ Counted(disk, Answer) /\ disk.n <= MaxDisk
  BY ItemsSized, CountedFacts, ImageAssumption DEF ImageInv, Accounts
<1>3. /\ Counted(memory', Kept) /\ memory'.n <= MaxMemory
      /\ \A q \in Key : memory'.at[q] = None \/ memory'.at[q] = memory.at[q]
  <2>1. CASE hit
    <3>1. k \in Held(memory)
      BY <1>1, <2>1 DEF Held
    <3> QED BY <1>1, <1>2, <2>1, <3>1, ItemsSized, ToFrontFacts
  <2>2. CASE ~hit
    <3>1. /\ Counted(Without(memory, {k}), Kept)
          /\ \A q \in Key : Without(memory, {k}).at[q] = IF q \in {k} THEN None ELSE memory.at[q]
          /\ Without(memory, {k}).n <= memory.n /\ Without(memory, {k}).n \in Nat
      BY <1>2, ItemsSized, WithoutFacts
    <3> QED BY <1>1, <1>2, <2>2, <3>1
  <2> QED BY <2>1, <2>2
<1>4. r \in Handler /\ r.pc \notin Writing /\ OwnHandler(r) /\ CurrentHandler(r)
      /\ hdl' = [hdl EXCEPT ![h] = r]
  BY <1>1, IdleFacts, GotoFacts
<1> HIDE DEF r
<1> QED BY <1>1, <1>2, <1>3, <1>4, MemoryStep

LEMMA KeepReadKeeps ==
    ASSUME ImageInv, NEW h \in Handlers, KeepRead(h)
    PROVE  ImageInv'
<1> DEFINE k == hdl[h].url
           meta == hdl[h].meta
           body == hdl[h].body
           new == [meta |-> meta, body |-> body, size |-> body.size]
<1>1. /\ hdl[h].pc = "keep" /\ Unlocked
      /\ disk' = IF disk.at[k] = None THEN disk ELSE ToFront(disk, k)
      /\ memory' = InMemory(k, meta, body)
      /\ hdl' = [hdl EXCEPT ![h] = Idle]
      /\ UNCHANGED <<fileVars, writer, answers, envVars, historyVars>>
  BY DEF KeepRead, KeyOf, Finish
<1>2. /\ hdl[h] \in Handler /\ OwnHandler(hdl[h]) /\ CurrentHandler(hdl[h]) /\ k \in Key
      /\ Counted(memory, Kept) /\ memory.n <= MaxMemory
      /\ Counted(disk, Answer) /\ disk.n <= MaxDisk
  BY <1>1, HandlerFacts DEF ImageInv, Accounts
<1>3. meta \in Answer /\ body \in Answer /\ meta # None /\ body # None
  BY <1>1, <1>2 DEF Handler, OwnHandler
<1>4. /\ Counted(memory', Kept) /\ memory'.n <= MaxMemory
      /\ \A q \in Key : \/ memory'.at[q] = None
                        \/ memory'.at[q] = memory.at[q]
                        \/ q = k /\ memory'.at[q] = new
  BY <1>1, <1>2, <1>3, InMemoryFacts
<1>5. OwnKept(k, new) /\ (k \notin unsure => CurrentKept(k, new))
  BY <1>1, <1>2, <1>3 DEF OwnKept, CurrentKept, OwnHandler, Own, CurrentHandler, CurrentAt, Reads
<1>6. Counted(disk', Answer) /\ disk'.n <= MaxDisk /\ disk'.at = disk.at
  <2>1. CASE disk.at[k] = None
    BY <1>1, <1>2, <2>1
  <2>2. CASE disk.at[k] # None
    <3>1. k \in Held(disk)
      BY <1>2, <2>2 DEF Held
    <3> QED BY <1>1, <1>2, <2>2, <3>1, ItemsSized, ToFrontFacts
  <2> QED BY <2>1, <2>2
<1> HIDE DEF new
<1>7. \A q \in Key : \/ memory'.at[q] = None
                     \/ memory'.at[q] = memory.at[q]
                     \/ /\ OwnKept(q, memory'.at[q])
                        /\ q \notin unsure => CurrentKept(q, memory'.at[q])
  BY <1>4, <1>5
<1> QED BY <1>1, <1>4, <1>6, <1>7, IdleFacts, MemoryStep

\* A removal takes files of the keys of K only, and stuck is each key that keeps one.
LEMMA RemovedFacts ==
    ASSUME metaFile \in [Key -> Answer \cup {None}], binFile \in [Key -> Answer \cup {None}],
           NEW K \in SUBSET Key, RemoveFiles(K)
    PROVE  /\ metaFile' \in [Key -> Answer \cup {None}]
           /\ binFile' \in [Key -> Answer \cup {None}]
           /\ \A q \in Key : /\ metaFile'[q] = metaFile[q] \/ (q \in K /\ metaFile'[q] = None)
                             /\ binFile'[q] = binFile[q] \/ (q \in K /\ binFile'[q] = None)
           /\ \A q \in K : metaFile'[q] # None \/ binFile'[q] # None => q \in Stuck(K)
           /\ Stuck(K) \subseteq K
<1>1. PICK M \in SUBSET K : metaFile' = NoFiles(metaFile, K \ M)
  BY DEF RemoveFiles
<1>2. PICK B \in SUBSET K : binFile' = NoFiles(binFile, K \ B)
  BY DEF RemoveFiles
<1>3. /\ metaFile' = [q \in Key |-> IF q \in K \ M THEN None ELSE metaFile[q]]
      /\ binFile' = [q \in Key |-> IF q \in K \ B THEN None ELSE binFile[q]]
  BY <1>1, <1>2 DEF NoFiles
<1> QED BY <1>3 DEF Stuck

\* Files that stay cost a fault at most.
LEMMA StuckCosts ==
    ASSUME ImageInv, NEW K, StuckFault(K)
    PROVE  faults' \in 0..MaxFaults /\ restarts <= faults'
<1>1. faults \in 0..MaxFaults /\ restarts \in 0..MaxFaults /\ restarts <= faults
      /\ MaxFaults \in Nat
  BY ImageAssumption DEF ImageInv, TypeOK
<1>2. faults' = faults \/ Fault
  BY DEF StuckFault, NoFault
<1> QED BY <1>1, <1>2 DEF Fault

\* A key leaves the disk index and its files, but for stuck ones, go; its handler
\* goes on to fetch.
LEMMA DropStep ==
    ASSUME ImageInv, Unlocked, NEW h \in Handlers, hdl[h].pc # "idle", NEW k \in Key,
           disk' = Without(disk, {k}), RemoveFiles({k}), StuckFault({k}),
           leftover' = (leftover \ {k}) \cup Stuck({k}),
           Goto(h, "fetch"),
           UNCHANGED <<memory, writer, answers, expired, restarts, latest, unsure>>
    PROVE  ImageInv'
<1> DEFINE r == [hdl[h] EXCEPT !.pc = "fetch"]
<1>0. /\ metaFile' \in [Key -> Answer \cup {None}] /\ binFile' \in [Key -> Answer \cup {None}]
      /\ \A q \in Key : /\ metaFile'[q] = metaFile[q] \/ (q = k /\ metaFile'[q] = None)
                        /\ binFile'[q] = binFile[q] \/ (q = k /\ binFile'[q] = None)
      /\ metaFile'[k] # None \/ binFile'[k] # None => k \in leftover'
      /\ \A q \in Key : q # k => (q \in leftover' <=> q \in leftover)
      /\ leftover' \subseteq leftover \cup {k}
  <2>1. /\ metaFile \in [Key -> Answer \cup {None}] /\ binFile \in [Key -> Answer \cup {None}]
        /\ {k} \in SUBSET Key
    BY DEF ImageInv, TypeOK
  <2>2. /\ Stuck({k}) \subseteq {k}
        /\ metaFile'[k] # None \/ binFile'[k] # None => k \in Stuck({k})
    BY <2>1, RemovedFacts
  <2>3. /\ metaFile'[k] # None \/ binFile'[k] # None => k \in leftover'
        /\ \A q \in Key : q # k => (q \in leftover' <=> q \in leftover)
        /\ leftover' \subseteq leftover \cup {k}
    BY <2>2
  <2> QED BY <2>1, <2>3, RemovedFacts
<1>1. /\ memory' = memory /\ answers' = answers
      /\ writer' = writer /\ expired' = expired /\ restarts' = restarts
      /\ latest' = latest /\ unsure' = unsure
      /\ faults' \in 0..MaxFaults /\ restarts' <= faults'
  BY StuckCosts
<1>2. /\ TypeOK /\ restarts <= faults /\ Accounts /\ StoresOwn /\ Directory
      /\ DiskCurrent /\ MemoryCurrent /\ ReadersCurrent
      /\ MaxDisk \in Nat
  BY ImageAssumption DEF ImageInv
<1>3. hdl[h].pc \notin Writing
  BY NobodyWrites
<1>4. r \in Handler /\ r.pc = "fetch" /\ r.pc \notin Writing /\ OwnHandler(r)
      /\ hdl' = [hdl EXCEPT ![h] = r]
  BY GotoFacts DEF Goto
<1> HIDE DEF r
<1>5. /\ hdl' \in [Handlers -> Handler] /\ HandlersOwn' /\ Written' = Written /\ WriterAlone'
      /\ \A q \in Handlers : hdl'[q] = IF q = h THEN r ELSE hdl[q]
  BY <1>1, <1>3, <1>4, HandlerMoves
<1>6. /\ Counted(disk, Answer) /\ disk.n <= MaxDisk /\ disk.n \in Nat
  BY <1>2, ItemsSized, CountedFacts DEF Accounts
<1>7. /\ Counted(disk', Answer) /\ Held(disk') = Held(disk) \ {k}
      /\ \A q \in Key : disk'.at[q] = IF q = k THEN None ELSE disk.at[q]
      /\ disk'.n <= disk.n /\ disk'.n \in Nat
  BY <1>6, ItemsSized, WithoutFacts
<1>8. TypeOK'
  <2>1. disk' \in Lists(Answer)
    BY <1>7 DEF Counted
  <2> QED BY <1>0, <1>1, <1>2, <1>5, <2>1 DEF TypeOK
<1>9. Accounts'
  BY <1>1, <1>2, <1>6, <1>7 DEF Accounts
<1>10. StoresOwn'
  BY <1>0, <1>1, <1>2, <1>7 DEF StoresOwn, Own
<1>11. Directory'
  BY <1>0, <1>1, <1>2, <1>5, <1>7 DEF Directory, Held
<1>12. DiskCurrent'
  BY <1>0, <1>1, <1>2, <1>7 DEF DiskCurrent, Held
<1>13. MemoryCurrent'
  BY <1>1, <1>2 DEF MemoryCurrent, CurrentKept
<1>14. ReadersCurrent'
  <2> SUFFICES ASSUME NEW q \in Handlers PROVE CurrentHandler(hdl[q])'
    BY DEF ReadersCurrent
  <2>1. q # h => hdl'[q] = hdl[q] /\ CurrentHandler(hdl[q]) /\ OwnHandler(hdl[q])
    BY <1>2, <1>5 DEF ReadersCurrent, ImageInv, HandlersOwn
  <2>2. q = h => hdl'[q].pc = "fetch"
    BY <1>4, <1>5
  <2> QED BY <1>0, <1>1, <2>1, <2>2 DEF CurrentHandler, CurrentAt, OwnHandler, Reads
<1> QED BY <1>1, <1>2, <1>5, <1>8, <1>9, <1>10, <1>11, <1>12, <1>13, <1>14 DEF ImageInv

LEMMA DropReadKeeps ==
    ASSUME ImageInv, NEW h \in Handlers, DropRead(h)
    PROVE  ImageInv'
<1>1. /\ hdl[h].pc = "drop" /\ Unlocked /\ hdl[h].url \in Key
      /\ disk' = Without(disk, {hdl[h].url}) /\ RemoveFiles({hdl[h].url})
      /\ StuckFault({hdl[h].url}) /\ Goto(h, "fetch")
      /\ leftover' = (leftover \ {hdl[h].url}) \cup Stuck({hdl[h].url})
      /\ UNCHANGED <<memory, writer, answers, expired, restarts, latest, unsure>>
  BY HandlerFacts DEF DropRead, KeyOf
<1> QED BY <1>1, DropStep

LEMMA GetIndexKeeps ==
    ASSUME ImageInv, NEW h \in Handlers, GetIndex(h)
    PROVE  ImageInv'
<1> DEFINE k == hdl[h].url
<1>1. /\ hdl[h].pc = "index" /\ Unlocked /\ k \in Key
      /\ UNCHANGED <<memory, writer, answers, expired, restarts, latest, unsure>>
      /\ answers \in 0..MaxAnswers
  BY HandlerFacts DEF GetIndex
<1>2. CASE disk.at[k] # None /\ Expired(disk.at[k])
  <2>1. /\ disk' = Without(disk, {k}) /\ RemoveFiles({k}) /\ StuckFault({k})
        /\ leftover' = (leftover \ {k}) \cup Stuck({k}) /\ Goto(h, "fetch")
    BY <1>2 DEF GetIndex, KeyOf
  <2> QED BY <1>1, <2>1, DropStep
<1>3. CASE ~(disk.at[k] # None /\ Expired(disk.at[k]))
  <2> DEFINE pc == IF disk.at[k] = None THEN "fetch" ELSE "readMeta"
             r == [hdl[h] EXCEPT !.pc = pc]
  <2>1. hdl' = [hdl EXCEPT ![h].pc = pc] /\ UNCHANGED <<disk, fileVars, faults, leftover>>
    BY <1>3 DEF GetIndex, KeyOf, Goto
  <2>2. disk.at[k] # None => \/ k \in unsure
                             \/ CurrentAt(k, metaFile[k]) /\ CurrentAt(k, binFile[k])
    BY <1>1 DEF ImageInv, Directory, DiskCurrent, Held, CurrentAt
  <2>3. r \in Handler /\ r.pc \notin Writing /\ OwnHandler(r) /\ CurrentHandler(r)
        /\ hdl' = [hdl EXCEPT ![h] = r]
    BY <1>1, <2>1, <2>2, GotoFacts
  <2>4. hdl[h].pc \notin Writing /\ answers' \in 0..MaxAnswers
    BY <1>1 DEF Writing
  <2>5. UNCHANGED <<memory, disk, fileVars, writer, envVars, historyVars>>
    BY <1>1, <2>1 DEF historyVars, envVars
  <2> HIDE DEF r
  <2> QED BY <2>3, <2>4, <2>5, LookupStep
<1> QED BY <1>2, <1>3

-----------------------------------------------------------------------------
(* The steps of a store. *)

\* What Put leaves on disk and in memory of an answer it stores.
LEMMA PutStores ==
    ASSUME ImageInv, NEW h \in Handlers, Put(h), Storable(hdl[h].body)
    PROVE  LET a    == hdl[h].body
               k    == hdl[h].url
               room == RoomFor(disk, k, a.size, MaxDisk)
               out  == (Held(disk) \ Held(room)) \ {k} IN
           /\ hdl[h].pc = "put" /\ Unlocked /\ k \in Key /\ a \in Answer /\ a.url = k
           /\ Counted(memory', Kept) /\ memory'.n <= MaxMemory
           /\ memory'.at[k] = [meta |-> a, body |-> a, size |-> a.size]
           /\ \A q \in Key \ {k} : memory'.at[q] = None \/ memory'.at[q] = memory.at[q]
           /\ Counted(disk', Answer) /\ disk'.n + a.size <= MaxDisk /\ disk'.n <= MaxDisk
           /\ disk'.at[k] = None /\ Held(disk') \subseteq Held(disk) \ {k}
           /\ \A q \in Held(disk') : disk'.at[q] = disk.at[q]
           /\ out = (Held(disk) \ Held(disk')) \ {k}
           /\ RemoveFiles(out)
           /\ latest' = [latest EXCEPT ![k] = a.serial]
           /\ unsure' = IF Reading(k) THEN unsure \cup {k} ELSE unsure \ {k}
           /\ \/ /\ hdl' = [hdl EXCEPT ![h].pc = "renameBin"] /\ writer' = h
                 /\ leftover' = (leftover \ out) \cup Stuck(out) /\ StuckFault(out)
              \/ /\ hdl' = [hdl EXCEPT ![h] = Idle] /\ writer' = writer
                 /\ leftover' = (leftover \ out) \cup Stuck(out) \cup {k} /\ Fault
           /\ answers' = answers /\ expired' = expired /\ restarts' = restarts
<1> DEFINE a == hdl[h].body
           k == hdl[h].url
           room == RoomFor(disk, k, a.size, MaxDisk)
           out == (Held(disk) \ Held(room)) \ {k}
<1>1. hdl[h].pc = "put" /\ Unlocked
  BY DEF Put
<1>2. /\ k \in Key /\ a \in Answer /\ a.url = k
  BY <1>1, HandlerFacts DEF OwnHandler, Own, Handler
<1>3. /\ Counted(memory, Kept) /\ memory.n <= MaxMemory
      /\ Counted(disk, Answer) /\ disk.n <= MaxDisk
  BY DEF ImageInv, Accounts
<1>4. a.size \in Nat /\ MaxDisk \in Nat /\ a.size <= MaxDisk
  BY <1>2, ImageAssumption DEF Answer, Storable
<1>5. /\ Counted(room, Answer) /\ Held(room) \subseteq Held(disk) \ {k}
      /\ \A q \in Key : room.at[q] # None => room.at[q] = disk.at[q]
      /\ room.n + a.size <= MaxDisk /\ room.n \in Nat
  BY <1>2, <1>3, <1>4, ItemsSized, RoomFacts
<1>6. /\ memory' = InMemory(k, a, a) /\ disk' = room
      /\ RemoveFiles(out)
      /\ latest' = [latest EXCEPT ![k] = a.serial]
      /\ unsure' = IF Reading(k) THEN unsure \cup {k} ELSE unsure \ {k}
      /\ \/ /\ hdl' = [hdl EXCEPT ![h].pc = "renameBin"] /\ writer' = h
            /\ leftover' = (leftover \ out) \cup Stuck(out) /\ StuckFault(out)
         \/ /\ hdl' = [hdl EXCEPT ![h] = Idle] /\ writer' = writer
            /\ leftover' = (leftover \ out) \cup Stuck(out) \cup {k} /\ Fault
      /\ answers' = answers /\ expired' = expired /\ restarts' = restarts
  BY DEF Put, KeyOf, Goto, Finish, NoFault
<1> HIDE DEF room
<1>8. /\ Counted(memory', Kept) /\ memory'.n <= MaxMemory
      /\ memory'.at[k] = [meta |-> a, body |-> a, size |-> a.size]
      /\ \A q \in Key \ {k} : memory'.at[q] = None \/ memory'.at[q] = memory.at[q]
  BY <1>2, <1>3, <1>6, InMemoryFacts
<1>9. disk'.n <= MaxDisk
  BY <1>4, <1>5, <1>6
<1>10. disk'.at[k] = None /\ \A q \in Held(disk') : disk'.at[q] = disk.at[q]
  BY <1>2, <1>5, <1>6 DEF Held
<1>11. out = (Held(disk) \ Held(disk')) \ {k}
  BY <1>6
<1> HIDE DEF out
<1> QED BY <1>1, <1>2, <1>5, <1>6, <1>8, <1>9, <1>10, <1>11 DEF out, room

LEMMA PutKeeps ==
    ASSUME ImageInv, NEW h \in Handlers, Put(h)
    PROVE  ImageInv'
<1>1. CASE ~Storable(hdl[h].body)
  <2>1. /\ hdl[h].pc = "put" /\ Finish(h) /\ answers' = answers
        /\ UNCHANGED <<memory, disk, fileVars, writer, envVars, historyVars>>
    BY <1>1 DEF Put, NoFault, envVars
  <2>2. hdl[h].pc \notin Writing /\ answers' \in 0..MaxAnswers
    BY <2>1, HandlerFacts DEF Writing
  <2> QED BY <2>1, <2>2, FinishKeeps
<1>2. CASE Storable(hdl[h].body)
  <2> DEFINE a == hdl[h].body
             k == hdl[h].url
             new == [meta |-> a, body |-> a, size |-> a.size]
             out == (Held(disk) \ Held(disk')) \ {k}
             go == [hdl[h] EXCEPT !.pc = "renameBin"]
             r == IF writer' = h THEN go ELSE Idle
  <2>1. /\ hdl[h].pc = "put" /\ Unlocked /\ k \in Key /\ a \in Answer /\ a.url = k
        /\ Counted(memory', Kept) /\ memory'.n <= MaxMemory
        /\ memory'.at[k] = new
        /\ \A q \in Key \ {k} : memory'.at[q] = None \/ memory'.at[q] = memory.at[q]
        /\ Counted(disk', Answer) /\ disk'.n + a.size <= MaxDisk /\ disk'.n <= MaxDisk
        /\ disk'.at[k] = None /\ Held(disk') \subseteq Held(disk) \ {k}
        /\ \A q \in Held(disk') : disk'.at[q] = disk.at[q]
        /\ RemoveFiles(out)
        /\ latest' = [latest EXCEPT ![k] = a.serial]
        /\ unsure' = IF Reading(k) THEN unsure \cup {k} ELSE unsure \ {k}
        /\ \/ /\ hdl' = [hdl EXCEPT ![h].pc = "renameBin"] /\ writer' = h
              /\ leftover' = (leftover \ out) \cup Stuck(out) /\ StuckFault(out)
           \/ /\ hdl' = [hdl EXCEPT ![h] = Idle] /\ writer' = writer
              /\ leftover' = (leftover \ out) \cup Stuck(out) \cup {k} /\ Fault
        /\ answers' = answers /\ expired' = expired /\ restarts' = restarts
    BY <1>2, PutStores
  <2> HIDE DEF out
  <2>2. /\ TypeOK /\ restarts <= faults /\ StoresOwn /\ Directory /\ HandlersOwn
        /\ DiskCurrent /\ MemoryCurrent /\ ReadersCurrent
        /\ hdl \in [Handlers -> Handler] /\ hdl[h] \in Handler /\ OwnHandler(hdl[h])
        /\ None \notin Handlers
    BY HandlerFacts, ImageAssumption DEF ImageInv
  <2>3. Written = {} /\ \A q \in Handlers : hdl[q].pc \notin Writing
    BY <2>1, NobodyWrites
  <2>4. /\ go \in Handler /\ go.pc = "renameBin" /\ go.url = k /\ go.body = a
        /\ go.meta = hdl[h].meta
        /\ [hdl EXCEPT ![h].pc = "renameBin"] = [hdl EXCEPT ![h] = go]
    BY <2>2 DEF Handler, Steps
  <2> HIDE DEF go
  <2>5. OwnHandler(go)
    BY <2>1, <2>2, <2>4 DEF OwnHandler, Own
  <2>6. /\ hdl' = [hdl EXCEPT ![h] = r] /\ r \in Handler /\ OwnHandler(r) /\ r.pc \notin Reads
    BY <2>1, <2>2, <2>4, <2>5, IdleFacts DEF Unlocked, Reads, Idle
  <2>7. \/ /\ r.pc = "renameBin" /\ r.url = k /\ r.body = a /\ writer' = h
           /\ leftover' = (leftover \ out) \cup Stuck(out) /\ StuckFault(out)
        \/ /\ r.pc \notin Writing /\ writer' = None
           /\ leftover' = (leftover \ out) \cup Stuck(out) \cup {k} /\ Fault
    BY <2>1, <2>2, <2>4, IdleFacts DEF Unlocked
  <2> HIDE DEF r
  <2>8. \A q \in Handlers : hdl'[q] = IF q = h THEN r ELSE hdl[q]
    BY <2>2, <2>6
  <2>9. /\ \A q \in Key : /\ metaFile'[q] = metaFile[q] \/ (q \in out /\ metaFile'[q] = None)
                          /\ binFile'[q] = binFile[q] \/ (q \in out /\ binFile'[q] = None)
        /\ metaFile' \in [Key -> Answer \cup {None}] /\ binFile' \in [Key -> Answer \cup {None}]
        /\ \A q \in out : metaFile'[q] # None \/ binFile'[q] # None => q \in Stuck(out)
        /\ Stuck(out) \subseteq out /\ out \subseteq Key
    <3>1. out \subseteq Key
      BY DEF out, Held
    <3> QED BY <2>1, <2>2, <3>1, RemovedFacts DEF TypeOK
  <2>21. faults' \in 0..MaxFaults /\ restarts <= faults'
    <3>1. faults \in 0..MaxFaults /\ restarts <= faults /\ MaxFaults \in Nat /\ restarts \in 0..MaxFaults
      BY <2>2, ImageAssumption DEF TypeOK
    <3>2. Fault => faults' \in 0..MaxFaults /\ restarts <= faults'
      BY <3>1 DEF Fault
    <3> QED BY <2>7, <3>2, StuckCosts
  <2>10. /\ latest' \in [Key -> 0..MaxAnswers] /\ latest'[k] = a.serial
         /\ \A q \in Key \ {k} : latest'[q] = latest[q]
    <3>1. a.serial \in 0..MaxAnswers /\ latest \in [Key -> 0..MaxAnswers]
      BY <2>1, <2>2 DEF Answer, TypeOK
    <3> QED BY <2>1, <3>1
  <2>11. TypeOK'
    <3>1. memory' \in Lists(Kept) /\ disk' \in Lists(Answer)
      BY <2>1 DEF Counted
    <3>2. hdl' \in [Handlers -> Handler]
      BY <2>2, <2>6
    <3>3. faults' \in 0..MaxFaults /\ writer' \in Handlers \cup {None}
      BY <2>7, <2>21
    <3>4. leftover' \subseteq Key /\ unsure' \subseteq Key
      BY <2>1, <2>2, <2>7, <2>9 DEF TypeOK
    <3> QED BY <2>1, <2>2, <2>9, <2>10, <3>1, <3>2, <3>3, <3>4 DEF TypeOK
  <2>12. (restarts <= faults)'
    BY <2>1, <2>21
  <2>13. Accounts'
    BY <2>1 DEF Accounts
  <2>14. WriterAlone'
    <3>1. \A q \in Handlers : hdl'[q].pc \in Writing => q = h /\ hdl'[q] = r
      BY <2>3, <2>8
    <3>2. a # None
      BY <2>1, NoneIsNoAnswer
    <3> QED BY <2>1, <2>2, <2>7, <2>8, <2>10, <3>1, <3>2 DEF WriterAlone, Writing
  <2>15. HandlersOwn'
    BY <2>2, <2>6, <2>8 DEF HandlersOwn
  <2>16. StoresOwn'
    <3>1. OwnKept(k, new)
      BY <2>1 DEF OwnKept
    <3> HIDE DEF new
    <3> QED BY <2>1, <2>2, <2>9, <3>1 DEF StoresOwn, Own, Held
  <2>17. Directory'
    <3>1. \A q \in Held(disk') : q \in Held(disk) /\ q \notin out /\ q \in Key
      BY <2>1 DEF out, Held
    <3>2. Written' = IF writer' = h THEN {k} ELSE {}
      <4>1. writer' = h => hdl'[h].pc \in Writing /\ hdl'[h].url = k
        BY <2>2, <2>7, <2>8 DEF Writing
      <4>2. writer' # h => hdl'[h].pc \notin Writing
        BY <2>7, <2>8
      <4> QED BY <2>3, <2>8, <4>1, <4>2 DEF Written
    <3>3. ASSUME NEW q \in Key, metaFile'[q] # None \/ binFile'[q] # None
          PROVE  q \in Held(disk') \cup leftover' \cup Written'
      <4>1. metaFile[q] # None \/ binFile[q] # None
        BY <2>9, <3>3
      <4>4. q \in out => q \in leftover'
        BY <2>7, <2>9, <3>3
      <4>2. q \in Held(disk) \cup leftover
        BY <2>2, <2>3, <4>1 DEF Directory
      <4>3. q = k => q \in leftover' \cup Written'
        BY <2>7, <3>2
      <4>5. CASE q \in leftover /\ q \notin out
        BY <2>7, <4>5
      <4>6. CASE q \in Held(disk) /\ q \notin out /\ q # k
        BY <4>6 DEF out
      <4> QED BY <4>2, <4>3, <4>4, <4>5, <4>6
    <3> QED BY <2>1, <2>2, <2>9, <3>1, <3>3 DEF Directory
  <2>18. DiskCurrent'
    <3> SUFFICES ASSUME NEW q \in Held(disk')
                 PROVE  IF q \in leftover' THEN q \in unsure'
                        ELSE disk'.at[q].serial = latest'[q] /\ binFile'[q].serial = latest'[q]
      BY DEF DiskCurrent
    <3>1. q \in Held(disk) /\ q \notin out /\ q \in Key /\ q # k
      BY <2>1 DEF out, Held
    <3>2. (q \in leftover' <=> q \in leftover) /\ (q \in unsure' <=> q \in unsure)
      BY <2>1, <2>7, <2>9, <3>1
    <3> QED BY <2>1, <2>2, <2>9, <2>10, <3>1, <3>2 DEF DiskCurrent
  <2>19. MemoryCurrent'
    <3> SUFFICES ASSUME NEW q \in Held(memory'), q \notin unsure'
                 PROVE  /\ memory'.at[q].meta.serial = latest'[q]
                        /\ memory'.at[q].body.serial = latest'[q]
      BY DEF MemoryCurrent, CurrentKept
    <3>1. CASE q = k
      BY <2>1, <2>10, <3>1
    <3>2. CASE q # k
      <4>1. q \in Key /\ q \notin unsure /\ memory'.at[q] = memory.at[q] /\ q \in Held(memory)
        BY <2>1, <3>2 DEF Held
      <4>2. latest'[q] = latest[q]
        BY <2>10, <3>2, <4>1
      <4> QED BY <2>2, <4>1, <4>2 DEF MemoryCurrent, CurrentKept
    <3> QED BY <3>1, <3>2
  <2>20. ReadersCurrent'
    <3> SUFFICES ASSUME NEW q \in Handlers, hdl'[q].pc \in Reads, hdl'[q].url \notin unsure'
                 PROVE  CurrentHandler(hdl[q])'
      BY DEF ReadersCurrent, CurrentHandler
    <3>1. hdl'[q] = hdl[q] /\ hdl[q].pc \in Reads
      BY <2>6, <2>8
    <3>2. hdl[q].url \in Key
      BY <2>2, <3>1 DEF HandlersOwn, OwnHandler, Reads
    <3>3. hdl[q].url # k
      BY <2>1, <3>1 DEF Reading, Reads, KeyOf
    <3>4. hdl[q].url \notin unsure /\ latest'[hdl[q].url] = latest[hdl[q].url]
      BY <2>1, <2>10, <3>1, <3>2, <3>3
    <3>5. CurrentHandler(hdl[q])
      BY <2>2 DEF ReadersCurrent
    <3> QED BY <2>9, <3>1, <3>2, <3>4, <3>5 DEF CurrentHandler, CurrentAt
  <2> QED BY <2>11, <2>12, <2>13, <2>14, <2>15, <2>16, <2>17, <2>18, <2>19, <2>20 DEF ImageInv
<1> QED BY <1>1, <1>2

LEMMA WriterFacts ==
    ASSUME ImageInv, NEW h \in Handlers, hdl[h].pc \in Writing
    PROVE  /\ hdl[h].url \in Key /\ hdl[h].body \in Answer /\ hdl[h].body.url = hdl[h].url
           /\ writer = h /\ Written = {hdl[h].url}
           /\ \A q \in Handlers : hdl[q].pc \in Writing => q = h
           /\ disk.at[hdl[h].url] = None
           /\ disk.n + hdl[h].body.size <= MaxDisk
           /\ hdl[h].body.serial = latest[hdl[h].url]
           /\ hdl[h].pc = "renameMeta" => binFile[hdl[h].url] = hdl[h].body
           /\ hdl[h].body # None
<1>1. hdl[h] \in Handler /\ OwnHandler(hdl[h]) /\ WriterAlone
  BY HandlerFacts DEF ImageInv
<1>2. /\ writer = h /\ hdl[h].body # None /\ hdl[h].url \in Key
      /\ \A q \in Handlers : hdl[q].pc \in Writing => q = h
  BY <1>1 DEF WriterAlone, OwnHandler, Writing
<1>3. Written = {hdl[h].url}
  BY <1>2 DEF Written
<1> QED BY <1>1, <1>2, <1>3 DEF WriterAlone, OwnHandler, Own, Handler

\* A write that fails leaves its key in neither list of the disk, to leftover.
LEMMA AbandonStep ==
    ASSUME ImageInv, NEW h \in Handlers, hdl[h].pc \in Writing, Abandon(h),
           binFile' \in {binFile, [binFile EXCEPT ![hdl[h].url] = None]},
           UNCHANGED <<memory, disk, metaFile, answers, expired, restarts, latest, unsure>>
    PROVE  ImageInv'
<1> DEFINE k == hdl[h].url
<1>1. /\ memory' = memory /\ disk' = disk /\ metaFile' = metaFile /\ answers' = answers
      /\ expired' = expired /\ restarts' = restarts /\ latest' = latest /\ unsure' = unsure
      /\ Fault /\ hdl' = [hdl EXCEPT ![h] = Idle] /\ writer' = None
      /\ leftover' = leftover \cup {k}
  BY DEF Abandon, Finish, KeyOf
<1>2. /\ TypeOK /\ restarts <= faults /\ Accounts /\ StoresOwn /\ Directory /\ HandlersOwn
      /\ DiskCurrent /\ MemoryCurrent /\ ReadersCurrent
      /\ hdl \in [Handlers -> Handler]
  BY DEF ImageInv, TypeOK
<1>3. /\ k \in Key /\ Written = {k} /\ disk.at[k] = None
      /\ \A q \in Handlers : hdl[q].pc \in Writing => q = h
  BY WriterFacts
<1>4. \A q \in Handlers : hdl'[q] = IF q = h THEN Idle ELSE hdl[q]
  BY <1>1, <1>2
<1>5. /\ binFile' \in [Key -> Answer \cup {None}]
      /\ \A q \in Key : binFile'[q] = binFile[q] \/ (q = k /\ binFile'[q] = None)
  <2>1. binFile \in [Key -> Answer \cup {None}]
    BY <1>2 DEF TypeOK
  <2>2. CASE binFile' = binFile
    BY <2>1, <2>2
  <2>3. CASE binFile' = [binFile EXCEPT ![k] = None]
    BY <2>1, <2>3
  <2> QED BY <2>2, <2>3
<1>6. TypeOK' /\ (restarts <= faults)'
  <2>1. hdl' \in [Handlers -> Handler]
    BY <1>1, <1>2, IdleFacts
  <2>2. faults' \in 0..MaxFaults /\ restarts <= faults'
    BY <1>1, <1>2, ImageAssumption DEF Fault, TypeOK
  <2> QED BY <1>1, <1>2, <1>3, <1>5, <2>1, <2>2 DEF TypeOK
<1>7. Accounts'
  BY <1>1, <1>2 DEF Accounts
<1>8. WriterAlone' /\ Written' = {}
  <2>1. \A q \in Handlers : hdl'[q].pc \notin Writing
    BY <1>3, <1>4, IdleFacts
  <2> QED BY <1>1, <2>1 DEF WriterAlone, Written
<1>9. HandlersOwn'
  BY <1>2, <1>4, IdleFacts DEF HandlersOwn
<1>10. StoresOwn'
  BY <1>1, <1>2, <1>5 DEF StoresOwn, Own
<1>11. Directory'
  BY <1>1, <1>2, <1>3, <1>5, <1>8 DEF Directory, Held
<1>12. DiskCurrent'
  BY <1>1, <1>2, <1>3, <1>5 DEF DiskCurrent, Held
<1>13. MemoryCurrent'
  BY <1>1, <1>2 DEF MemoryCurrent, CurrentKept
<1>14. ReadersCurrent'
  <2> SUFFICES ASSUME NEW q \in Handlers, hdl'[q].pc \in Reads, hdl'[q].url \notin unsure'
               PROVE  CurrentHandler(hdl[q])'
    BY DEF ReadersCurrent, CurrentHandler
  <2>1. hdl'[q] = hdl[q] /\ hdl[q].pc \in Reads
    BY <1>4 DEF Idle, Reads
  <2>2. hdl[q].url \in Key
    BY <1>2, <2>1 DEF HandlersOwn, OwnHandler, Reads
  <2> QED BY <1>1, <1>2, <1>5, <2>1, <2>2 DEF ReadersCurrent, CurrentHandler, CurrentAt
<1> QED BY <1>6, <1>7, <1>8, <1>9, <1>10, <1>11, <1>12, <1>13, <1>14 DEF ImageInv

LEMMA RenameBinKeeps ==
    ASSUME ImageInv, NEW h \in Handlers, RenameBin(h)
    PROVE  ImageInv'
<1> DEFINE k == hdl[h].url
           a == hdl[h].body
           r == [hdl[h] EXCEPT !.pc = "renameMeta"]
<1>1. /\ hdl[h].pc = "renameBin"
      /\ memory' = memory /\ disk' = disk /\ metaFile' = metaFile /\ answers' = answers
      /\ expired' = expired /\ restarts' = restarts /\ latest' = latest /\ unsure' = unsure
  BY DEF RenameBin
<1>2. hdl[h].pc \in Writing
  BY <1>1 DEF Writing
<1>3. CASE Abandon(h) /\ binFile' = binFile
  BY <1>1, <1>2, <1>3, AbandonStep
<1>4. CASE ~(Abandon(h) /\ binFile' = binFile)
  <2>1. /\ binFile' = [binFile EXCEPT ![k] = a]
        /\ hdl' = [hdl EXCEPT ![h].pc = "renameMeta"]
        /\ faults' = faults /\ writer' = writer /\ leftover' = leftover
    BY <1>4 DEF RenameBin, KeyOf, Goto, NoFault
  <2>2. /\ TypeOK /\ restarts <= faults /\ Accounts /\ StoresOwn /\ Directory /\ HandlersOwn
        /\ DiskCurrent /\ MemoryCurrent /\ ReadersCurrent
        /\ hdl \in [Handlers -> Handler] /\ hdl[h] \in Handler /\ OwnHandler(hdl[h])
    BY HandlerFacts DEF ImageInv
  <2>3. /\ k \in Key /\ Written = {k} /\ disk.at[k] = None /\ a \in Answer /\ a.url = k
        /\ \A q \in Handlers : hdl[q].pc \in Writing => q = h
        /\ writer = h /\ disk.n + a.size <= MaxDisk /\ a.serial = latest[k] /\ a # None
    BY <1>2, WriterFacts
  <2>4. /\ r \in Handler /\ r.pc = "renameMeta" /\ r.url = k /\ r.meta = hdl[h].meta
        /\ r.body = a /\ hdl' = [hdl EXCEPT ![h] = r]
    BY <2>1, <2>2 DEF Handler, Steps
  <2> HIDE DEF r
  <2>5. \A q \in Handlers : hdl'[q] = IF q = h THEN r ELSE hdl[q]
    BY <2>2, <2>4
  <2>6. /\ binFile' \in [Key -> Answer \cup {None}]
        /\ binFile'[k] = a /\ \A q \in Key : q # k => binFile'[q] = binFile[q]
    BY <2>1, <2>2, <2>3 DEF TypeOK
  <2>7. TypeOK' /\ (restarts <= faults)'
    <3>1. hdl' \in [Handlers -> Handler]
      BY <2>2, <2>4
    <3> QED BY <1>1, <2>1, <2>2, <2>6, <3>1 DEF TypeOK
  <2>8. Accounts'
    BY <1>1, <2>2 DEF Accounts
  <2>9. WriterAlone' /\ Written' = {k}
    <3>1. \A q \in Handlers : hdl'[q].pc \in Writing => q = h /\ hdl'[q] = r
      BY <2>3, <2>5
    <3>2. hdl'[h] = r /\ r.pc \in Writing
      BY <2>4, <2>5 DEF Writing
    <3>3. Written' = {k}
      BY <2>4, <3>1, <3>2 DEF Written
    <3> QED BY <1>1, <2>1, <2>3, <2>4, <2>6, <3>1, <3>2, <3>3 DEF WriterAlone
  <2>10. HandlersOwn'
    <3>1. OwnHandler(r)
      BY <2>2, <2>3, <2>4 DEF OwnHandler, Own
    <3> QED BY <2>2, <2>5, <3>1 DEF HandlersOwn
  <2>11. StoresOwn'
    BY <1>1, <2>2, <2>3, <2>6 DEF StoresOwn, Own
  <2>12. Directory'
    BY <1>1, <2>1, <2>2, <2>3, <2>6, <2>9 DEF Directory, Held
  <2>13. DiskCurrent'
    BY <1>1, <2>1, <2>2, <2>3, <2>6 DEF DiskCurrent, Held
  <2>14. MemoryCurrent'
    BY <1>1, <2>2 DEF MemoryCurrent, CurrentKept
  <2>15. ReadersCurrent'
    <3> SUFFICES ASSUME NEW q \in Handlers, hdl'[q].pc \in Reads, hdl'[q].url \notin unsure'
                 PROVE  CurrentHandler(hdl[q])'
      BY DEF ReadersCurrent, CurrentHandler
    <3>1. hdl'[q] = hdl[q] /\ hdl[q].pc \in Reads
      BY <2>4, <2>5 DEF Reads
    <3>2. hdl[q].url \in Key
      BY <2>2, <3>1 DEF HandlersOwn, OwnHandler, Reads
    <3> QED BY <1>1, <2>2, <2>3, <2>6, <3>1, <3>2 DEF ReadersCurrent, CurrentHandler, CurrentAt
  <2> QED BY <2>7, <2>8, <2>9, <2>10, <2>11, <2>12, <2>13, <2>14, <2>15 DEF ImageInv
<1> QED BY <1>3, <1>4

LEMMA RenameMetaKeeps ==
    ASSUME ImageInv, NEW h \in Handlers, RenameMeta(h)
    PROVE  ImageInv'
<1> DEFINE k == hdl[h].url
           a == hdl[h].body
<1>1. /\ hdl[h].pc = "renameMeta"
      /\ memory' = memory /\ answers' = answers
      /\ expired' = expired /\ restarts' = restarts /\ latest' = latest /\ unsure' = unsure
  BY DEF RenameMeta
<1>2. hdl[h].pc \in Writing
  BY <1>1 DEF Writing
<1> DEFINE Failed == /\ Abandon(h) /\ binFile' \in {binFile, [binFile EXCEPT ![k] = None]}
                     /\ disk' = disk /\ metaFile' = metaFile
<1>3. CASE Failed
  BY <1>1, <1>2, <1>3, AbandonStep
<1>4. CASE ~Failed
  <2>1. /\ metaFile' = [metaFile EXCEPT ![k] = a]
        /\ disk' = PushFront(disk, k, a)
        /\ hdl' = [hdl EXCEPT ![h] = Idle] /\ leftover' = leftover \ {k}
        /\ faults' = faults /\ writer' = None /\ binFile' = binFile
    BY <1>4 DEF RenameMeta, KeyOf, Finish, NoFault
  <2>2. /\ TypeOK /\ restarts <= faults /\ Accounts /\ StoresOwn /\ Directory /\ HandlersOwn
        /\ DiskCurrent /\ MemoryCurrent /\ ReadersCurrent
        /\ hdl \in [Handlers -> Handler]
    BY HandlerFacts DEF ImageInv
  <2>3. /\ k \in Key /\ Written = {k} /\ disk.at[k] = None /\ a \in Answer /\ a.url = k
        /\ \A q \in Handlers : hdl[q].pc \in Writing => q = h
        /\ disk.n + a.size <= MaxDisk /\ a.serial = latest[k] /\ a # None
        /\ binFile[k] = a
    BY <1>1, <1>2, WriterFacts
  <2>4. /\ Counted(disk', Answer) /\ Held(disk') = Held(disk) \cup {k}
        /\ \A q \in Key : disk'.at[q] = IF q = k THEN a ELSE disk.at[q]
        /\ disk'.n <= MaxDisk
    BY <2>1, <2>2, <2>3, ItemsSized, PushFacts DEF Accounts
  <2>5. \A q \in Handlers : hdl'[q] = IF q = h THEN Idle ELSE hdl[q]
    BY <2>1, <2>2
  <2>6. /\ metaFile' \in [Key -> Answer \cup {None}]
        /\ metaFile'[k] = a /\ \A q \in Key : q # k => metaFile'[q] = metaFile[q]
    BY <2>1, <2>2, <2>3 DEF TypeOK
  <2>7. TypeOK' /\ (restarts <= faults)'
    <3>1. hdl' \in [Handlers -> Handler]
      BY <2>1, <2>2, IdleFacts
    <3>2. disk' \in Lists(Answer)
      BY <2>4 DEF Counted
    <3> QED BY <1>1, <2>1, <2>2, <2>6, <3>1, <3>2 DEF TypeOK
  <2>8. Accounts'
    BY <1>1, <2>2, <2>4 DEF Accounts
  <2>9. WriterAlone' /\ Written' = {}
    <3>1. \A q \in Handlers : hdl'[q].pc \notin Writing
      BY <2>3, <2>5, IdleFacts
    <3> QED BY <2>1, <3>1 DEF WriterAlone, Written
  <2>10. HandlersOwn'
    BY <2>2, <2>5, IdleFacts DEF HandlersOwn
  <2>11. StoresOwn'
    BY <1>1, <2>1, <2>2, <2>3, <2>4, <2>6 DEF StoresOwn, Own
  <2>12. Directory'
    BY <2>1, <2>2, <2>3, <2>4, <2>6, <2>9 DEF Directory, Held
  <2>13. DiskCurrent'
    BY <1>1, <2>1, <2>2, <2>3, <2>4 DEF DiskCurrent, Held
  <2>14. MemoryCurrent'
    BY <1>1, <2>2 DEF MemoryCurrent, CurrentKept
  <2>15. ReadersCurrent'
    <3> SUFFICES ASSUME NEW q \in Handlers, hdl'[q].pc \in Reads, hdl'[q].url \notin unsure'
                 PROVE  CurrentHandler(hdl[q])'
      BY DEF ReadersCurrent, CurrentHandler
    <3>1. hdl'[q] = hdl[q] /\ hdl[q].pc \in Reads
      BY <2>5 DEF Idle, Reads
    <3>2. hdl[q].url \in Key
      BY <2>2, <3>1 DEF HandlersOwn, OwnHandler, Reads
    <3> QED BY <1>1, <2>1, <2>2, <2>3, <2>6, <3>1, <3>2 DEF ReadersCurrent, CurrentHandler, CurrentAt
  <2> QED BY <2>7, <2>8, <2>9, <2>10, <2>11, <2>12, <2>13, <2>14, <2>15 DEF ImageInv
<1> QED BY <1>3, <1>4

-----------------------------------------------------------------------------
(* The clock and restarts. *)

LEMMA ExpireKeeps ==
    ASSUME ImageInv, Expire
    PROVE  ImageInv'
<1>1. /\ memory' = memory /\ disk' = disk /\ metaFile' = metaFile /\ binFile' = binFile
      /\ writer' = writer /\ hdl' = hdl /\ answers' = answers /\ restarts' = restarts
      /\ latest' = latest /\ leftover' = leftover /\ unsure' = unsure /\ Fault
  BY DEF Expire, fileVars, historyVars
<1>2. PICK s \in 1..answers : expired' = expired \cup {s}
  BY DEF Expire
<1>3. TypeOK /\ restarts <= faults /\ MaxFaults \in Nat /\ MaxAnswers \in Nat
  BY ImageAssumption DEF ImageInv
<1>4. faults' \in 0..MaxFaults /\ restarts <= faults'
  BY <1>1, <1>3 DEF Fault, TypeOK
<1>5. expired' \subseteq 1..MaxAnswers
  BY <1>2, <1>3 DEF TypeOK
<1>6. TypeOK'
  BY <1>1, <1>3, <1>4, <1>5 DEF TypeOK
<1>7. Accounts' /\ WriterAlone' /\ HandlersOwn' /\ StoresOwn'
  BY <1>1 DEF ImageInv, Accounts, WriterAlone, HandlersOwn, StoresOwn
<1>8. Directory' /\ DiskCurrent' /\ MemoryCurrent' /\ ReadersCurrent'
  BY <1>1 DEF ImageInv, Directory, Written, DiskCurrent, MemoryCurrent, CurrentKept,
              ReadersCurrent, CurrentHandler, CurrentAt
<1> QED BY <1>1, <1>4, <1>6, <1>7, <1>8 DEF ImageInv

\* What New takes over of the directory and what it removes.
LEMMA RestartFacts ==
    ASSUME ImageInv, Restart
    PROVE  LET out    == Evicted(Loaded, 0, MaxDisk)
               broken == {k \in Key : metaFile[k] # None /\ ~Loadable(k)} IN
           /\ Counted(disk', Answer) /\ disk'.n <= MaxDisk
           /\ Held(disk') = {k \in Key : Loadable(k)} \ out
           /\ \A k \in Held(disk') : disk'.at[k] = metaFile[k]
           /\ RemoveFiles(out \cup broken) /\ out \subseteq Key
           /\ leftover' = ((leftover \cup Written) \ (out \cup broken)) \cup Stuck(out \cup broken)
           /\ unsure' = leftover' \cap Held(disk')
<1> DEFINE out == Evicted(Loaded, 0, MaxDisk)
           broken == {k \in Key : metaFile[k] # None /\ ~Loadable(k)}
           cutOff == {hdl[h].url : h \in {h \in Handlers : writer = h}}
<1>1. /\ disk' = Without(Loaded, out) /\ RemoveFiles(out \cup broken)
      /\ leftover' = ((leftover \cup cutOff) \ (out \cup broken)) \cup Stuck(out \cup broken)
      /\ unsure' = leftover' \cap Held(disk')
  BY DEF Restart, KeyOf
<1>2. metaFile \in [Key -> Answer \cup {None}] /\ MaxDisk \in Nat /\ WriterAlone
      /\ None \notin Handlers
  BY ImageAssumption DEF ImageInv, TypeOK
<1>3. /\ Counted(Loaded, Answer) /\ Held(Loaded) = {k \in Key : Loadable(k)}
      /\ \A k \in Held(Loaded) : Loaded.at[k] = metaFile[k]
  BY <1>2, LoadedFacts
<1>4. Without(Loaded, out).n + 0 <= MaxDisk
  BY <1>2, <1>3, ItemsSized, EvictedFacts
<1>9. out \subseteq Key
  BY <1>2, <1>3, ItemsSized, EvictedFacts
<1> HIDE DEF out
<1>5. /\ Counted(disk', Answer) /\ Held(disk') = Held(Loaded) \ out /\ disk'.n \in Nat
      /\ \A k \in Key : disk'.at[k] = IF k \in out THEN None ELSE Loaded.at[k]
  BY <1>1, <1>3, ItemsSized, WithoutFacts
<1>6. disk'.n <= MaxDisk
  BY <1>1, <1>2, <1>4, <1>5
<1>7. \A k \in Held(disk') : disk'.at[k] = metaFile[k]
  BY <1>3, <1>5
<1>8. cutOff = Written
  BY <1>2 DEF WriterAlone, Written
<1> QED BY <1>1, <1>3, <1>5, <1>6, <1>7, <1>8, <1>9 DEF out

LEMMA RestartInv ==
    ASSUME ImageInv, Restart
    PROVE  ImageInv'
<1> DEFINE out == Evicted(Loaded, 0, MaxDisk)
           broken == {k \in Key : metaFile[k] # None /\ ~Loadable(k)}
           gone == out \cup broken
<1>1. /\ Counted(disk', Answer) /\ disk'.n <= MaxDisk
      /\ Held(disk') = {k \in Key : Loadable(k)} \ out
      /\ \A k \in Held(disk') : disk'.at[k] = metaFile[k]
      /\ RemoveFiles(gone) /\ gone \subseteq Key
      /\ leftover' = ((leftover \cup Written) \ gone) \cup Stuck(gone)
      /\ unsure' = leftover' \cap Held(disk')
  BY RestartFacts
<1> HIDE DEF out
<1>2. /\ Fault /\ restarts' = restarts + 1 /\ memory' = EmptyList /\ writer' = None
      /\ hdl' = [h \in Handlers |-> Idle]
      /\ answers' = answers /\ expired' = expired /\ latest' = latest
  BY DEF Restart
<1>3. /\ TypeOK /\ restarts <= faults /\ StoresOwn /\ Directory /\ HandlersOwn /\ DiskCurrent
      /\ MaxFaults \in Nat /\ MaxMemory \in Nat /\ MaxDisk \in Nat
  BY ImageAssumption DEF ImageInv
<1>4. /\ Counted(memory', Kept) /\ memory'.n = 0 /\ Held(memory') = {}
      /\ \A k \in Key : memory'.at[k] = None
  BY <1>2, ItemsSized, EmptyFacts
<1>5. /\ \A k \in Key : /\ metaFile'[k] = metaFile[k] \/ (k \in gone /\ metaFile'[k] = None)
                        /\ binFile'[k] = binFile[k] \/ (k \in gone /\ binFile'[k] = None)
      /\ metaFile' \in [Key -> Answer \cup {None}] /\ binFile' \in [Key -> Answer \cup {None}]
      /\ \A k \in gone : metaFile'[k] # None \/ binFile'[k] # None => k \in Stuck(gone)
      /\ Stuck(gone) \subseteq gone
  BY <1>1, <1>3, RemovedFacts DEF TypeOK
<1>6. /\ \A h \in Handlers : hdl'[h] = Idle
      /\ Written' = {} /\ WriterAlone' /\ HandlersOwn'
  <2>1. \A h \in Handlers : hdl'[h] = Idle
    BY <1>2
  <2>2. \A h \in Handlers : hdl'[h].pc \notin Writing
    BY <2>1, IdleFacts
  <2> QED BY <1>2, <2>1, <2>2, IdleFacts DEF Written, WriterAlone, HandlersOwn
<1>7. \A k \in Held(disk') : /\ k \in Key /\ k \notin gone /\ Loadable(k)
                             /\ metaFile'[k] = metaFile[k] /\ binFile'[k] = binFile[k]
  BY <1>1, <1>5
<1>8. TypeOK' /\ (restarts <= faults)'
  <2>1. memory' \in Lists(Kept) /\ disk' \in Lists(Answer)
    BY <1>1, <1>4 DEF Counted
  <2>2. hdl' \in [Handlers -> Handler]
    BY <1>2, IdleFacts
  <2>3. /\ faults' \in 0..MaxFaults /\ restarts' \in 0..MaxFaults /\ restarts' <= faults'
    BY <1>2, <1>3 DEF Fault, TypeOK
  <2>4. leftover' \subseteq Key /\ unsure' \subseteq Key
    <3>1. Written \subseteq Key
      BY <1>3 DEF Written, HandlersOwn, OwnHandler, Writing
    <3> QED BY <1>1, <1>3, <1>5, <3>1 DEF TypeOK
  <2> QED BY <1>2, <1>3, <1>5, <2>1, <2>2, <2>3, <2>4 DEF TypeOK
<1>9. Accounts'
  BY <1>1, <1>3, <1>4 DEF Accounts
<1>10. StoresOwn'
  <2>1. \A k \in Key : Own(k, disk'.at[k])
    BY <1>1, <1>3, <1>7 DEF StoresOwn, Own, Held
  <2> QED BY <1>3, <1>4, <1>5, <2>1 DEF StoresOwn, Own
<1>11. Directory'
  <2>1. \A k \in Held(disk') : /\ metaFile'[k] = disk'.at[k]
                               /\ binFile'[k] # None /\ binFile'[k].size = disk'.at[k].size
    BY <1>1, <1>7 DEF Loadable
  <2>2. ASSUME NEW k \in Key, metaFile'[k] # None \/ binFile'[k] # None
        PROVE  k \in Held(disk') \cup leftover' \cup Written'
    <3>1. metaFile[k] # None \/ binFile[k] # None
      BY <1>5, <2>2
    <3>4. CASE k \in gone
      BY <1>1, <1>5, <2>2, <3>4
    <3>2. CASE k \notin gone /\ metaFile[k] # None
      BY <1>1, <3>1, <3>2
    <3>3. CASE k \notin gone /\ metaFile[k] = None
      <4>1. k \notin Held(disk)
        BY <1>3, <3>3 DEF Directory, Held
      <4>2. k \in leftover \cup Written
        BY <1>3, <3>1, <4>1 DEF Directory
      <4> QED BY <1>1, <3>3, <4>2
    <3> QED BY <3>2, <3>3, <3>4
  <2> QED BY <2>1, <2>2 DEF Directory
<1>12. DiskCurrent'
  <2> SUFFICES ASSUME NEW k \in Held(disk')
               PROVE  IF k \in leftover' THEN k \in unsure'
                      ELSE disk'.at[k].serial = latest'[k] /\ binFile'[k].serial = latest'[k]
    BY DEF DiskCurrent
  <2>1. ASSUME k \notin leftover'
        PROVE  disk'.at[k].serial = latest[k] /\ binFile'[k].serial = latest[k]
    <3>1. k \in Key /\ k \notin leftover \cup Written /\ metaFile[k] # None
      BY <1>1, <1>7, <2>1 DEF Loadable
    <3>2. k \in Held(disk) /\ metaFile[k] = disk.at[k]
      BY <1>3, <3>1 DEF Directory
    <3> QED BY <1>1, <1>3, <1>7, <3>1, <3>2 DEF DiskCurrent
  <2> QED BY <1>1, <1>2, <2>1
<1>13. MemoryCurrent'
  BY <1>4 DEF MemoryCurrent
<1>14. ReadersCurrent'
  BY <1>6 DEF ReadersCurrent, CurrentHandler, Idle, Reads
<1> QED BY <1>6, <1>8, <1>9, <1>10, <1>11, <1>12, <1>13, <1>14 DEF ImageInv

-----------------------------------------------------------------------------
(* The theorems. *)

LEMMA ImageStep == ImageInv /\ [Next]_vars => ImageInv'
<1> SUFFICES ASSUME ImageInv, [Next]_vars PROVE ImageInv'
  OBVIOUS
<1>1. ASSUME NEW h \in Handlers, Arrive(h) PROVE ImageInv'
  BY <1>1, ArriveKeeps
<1>2. ASSUME NEW h \in Handlers, Step(h) PROVE ImageInv'
  BY <1>2, GetMemoryKeeps, GetIndexKeeps, ReadMetaKeeps, ReadBinKeeps, KeepReadKeeps,
     DropReadKeeps, FetchKeeps, PutKeeps, RenameBinKeeps, RenameMetaKeeps DEF Step
<1>3. CASE Expire
  BY <1>3, ExpireKeeps
<1>4. CASE Restart
  BY <1>4, RestartInv
<1>5. CASE UNCHANGED vars
  <2>1. /\ memory' = memory /\ disk' = disk /\ metaFile' = metaFile /\ binFile' = binFile
        /\ writer' = writer /\ hdl' = hdl /\ answers' = answers /\ expired' = expired
        /\ faults' = faults /\ restarts' = restarts
        /\ latest' = latest /\ leftover' = leftover /\ unsure' = unsure
    BY <1>5 DEF vars, fileVars, envVars, historyVars
  <2>2. (TypeOK /\ restarts <= faults /\ Accounts /\ WriterAlone /\ HandlersOwn /\ StoresOwn)'
    BY <2>1 DEF ImageInv, TypeOK, Accounts, WriterAlone, HandlersOwn, StoresOwn
  <2>3. (Directory /\ DiskCurrent /\ MemoryCurrent /\ ReadersCurrent)'
    BY <2>1 DEF ImageInv, Directory, Written, DiskCurrent, MemoryCurrent, CurrentKept,
                ReadersCurrent, CurrentHandler, CurrentAt
  <2> QED BY <2>2, <2>3 DEF ImageInv
<1> QED BY <1>1, <1>2, <1>3, <1>4, <1>5 DEF Next

\* What every reachable state of the image cache has.
THEOREM ImageInvariant == Spec => []ImageInv
  BY ImageInit, ImageStep, PTL DEF Spec

\* Lists, files, handlers and counters are of their types.
THEOREM ImageTyped == Spec => []TypeOK
<1>1. ImageInv => TypeOK
  BY DEF ImageInv
<1> QED BY <1>1, ImageInvariant, PTL

LEMMA CountedSound ==
    ASSUME NEW Items, Sized(Items), NEW l, Counted(l, Items), NEW max, l.n <= max
    PROVE  Sound(l, max)
<1>1. l.order \in Seq(Key) /\ Range(l.order) = Held(l) /\ Distinct(l.order) /\ l.n = BytesOf(l, Key)
  BY CountedFacts DEF Counted
<1>2. ToSet(l.order) = Range(l.order)
  BY <1>1 DEF ToSet, Range
<1>3. Cardinality(Held(l)) = Len(l.order)
  BY <1>1, DistinctLength
<1> QED BY <1>1, <1>2, <1>3 DEF Sound

\* Whatever was stored, read back, replaced, evicted, dropped, expired or loaded,
\* the byte counters of both caches are the bytes they hold, within their limits,
\* and each list names the keys of its index once (removeLocked, putMemoryLocked,
\* putDiskLocked, loadDisk).
THEOREM AccountsAreExact == Spec => []AccountsExact
<1>1. ImageInv => AccountsExact
  BY ItemsSized, CountedSound DEF ImageInv, Accounts, AccountsExact
<1> QED BY <1>1, ImageInvariant, PTL

\* No request is answered with the image of another backend, path or Accept, nor
\* with a body of another length than its meta says, however the unlocked reads of
\* getDisk fall between the writes of the same files.
THEOREM AnswersAlwaysFit == Spec => []AnswersFit
<1>1. ImageInv => AnswersFit
  <2> SUFFICES ASSUME ImageInv, NEW h \in Handlers
               PROVE  LET k == KeyOf(hdl[h].url) IN
                      /\ hdl[h].pc = "keep" =>
                           AnswerFits(hdl[h].url, hdl[h].meta, hdl[h].body)
                      /\ hdl[h].pc = "memory" /\ memory.at[k] # None /\ ~Expired(memory.at[k].meta)
                           => AnswerFits(hdl[h].url, memory.at[k].meta, memory.at[k].body)
    BY DEF AnswersFit
  <2>1. OwnHandler(hdl[h]) /\ StoresOwn
    BY HandlerFacts DEF ImageInv
  <2>2. hdl[h].pc = "keep" => AnswerFits(hdl[h].url, hdl[h].meta, hdl[h].body)
    BY <2>1 DEF OwnHandler, Own, AnswerFits
  <2>3. hdl[h].pc = "memory" /\ memory.at[hdl[h].url] # None =>
          AnswerFits(hdl[h].url, memory.at[hdl[h].url].meta, memory.at[hdl[h].url].body)
    BY <2>1 DEF OwnHandler, StoresOwn, OwnKept, AnswerFits
  <2> QED BY <2>2, <2>3 DEF KeyOf
<1> QED BY <1>1, ImageInvariant, PTL

\* With the mutex free, every key of the index has both its files, of the size it
\* counts, and every file is of such a key, of one whose last write failed or was cut
\* off, or of one whose files a removal (os.Remove, errors ignored) left behind: also
\* after restarts at any step.
THEOREM DirectoryAlwaysMatches == Spec => []DirectoryMatches
<1>1. ImageInv => DirectoryMatches
  <2> SUFFICES ASSUME ImageInv, Unlocked PROVE IndexBacked /\ FilesCounted
    BY DEF DirectoryMatches
  <2>1. Directory /\ Written = {}
    BY NobodyWrites DEF ImageInv
  <2> QED BY <2>1 DEF Directory, IndexBacked, FilesCounted, Held
<1> QED BY <1>1, ImageInvariant, PTL

\* Memory, disk and a lookup about to be answered hold the answer last stored for
\* their key, but for a key stored during a lookup's unlocked reads and for what a
\* restart took over from a failed write or removal.
THEOREM CacheIsCurrent == Spec => []CacheCurrent
<1>1. ImageInv => CacheCurrent
  <2> SUFFICES ASSUME ImageInv, NEW k \in Key, k \notin unsure
               PROVE  /\ memory.at[k] # None =>
                           /\ memory.at[k].meta.serial = latest[k]
                           /\ memory.at[k].body.serial = latest[k]
                      /\ disk.at[k] # None =>
                           /\ disk.at[k].serial = latest[k]
                           /\ Unlocked => /\ metaFile[k].serial = latest[k]
                                          /\ binFile[k].serial = latest[k]
                      /\ \A h \in Handlers :
                           hdl[h].pc = "keep" /\ KeyOf(hdl[h].url) = k =>
                             /\ hdl[h].meta.serial = latest[k]
                             /\ hdl[h].body.serial = latest[k]
    BY DEF CacheCurrent
  <2>1. MemoryCurrent /\ DiskCurrent /\ Directory
    BY DEF ImageInv
  <2>2. memory.at[k] # None => /\ memory.at[k].meta.serial = latest[k]
                               /\ memory.at[k].body.serial = latest[k]
    BY <2>1 DEF MemoryCurrent, CurrentKept, Held
  <2>3. disk.at[k] # None => /\ disk.at[k].serial = latest[k]
                             /\ metaFile[k].serial = latest[k]
                             /\ binFile[k].serial = latest[k]
    BY <2>1 DEF DiskCurrent, Directory, Held
  <2>4. ASSUME NEW h \in Handlers, hdl[h].pc = "keep", hdl[h].url = k
        PROVE  hdl[h].meta.serial = latest[k] /\ hdl[h].body.serial = latest[k]
    <3>1. OwnHandler(hdl[h]) /\ CurrentHandler(hdl[h])
      BY HandlerFacts
    <3> QED BY <2>4, <3>1 DEF OwnHandler, CurrentHandler, CurrentAt, Reads
  <2> QED BY <2>2, <2>3, <2>4 DEF KeyOf
<1> QED BY <1>1, ImageInvariant, PTL

\* What a restart finds on disk fits the limit when nothing is left over.
LEMMA LoadedFits ==
    ASSUME ImageInv, Unlocked, leftover = {}
    PROVE  Held(Loaded) \subseteq Held(disk) /\ Evicted(Loaded, 0, MaxDisk) = {}
<1> DEFINE H == Held(disk)
           L == Held(Loaded)
           f == SizeIn(disk)
           g == SizeIn(Loaded)
<1>1. /\ metaFile \in [Key -> Answer \cup {None}] /\ Directory /\ Written = {}
      /\ Counted(disk, Answer) /\ disk.n <= MaxDisk /\ MaxDisk \in Nat
  BY NobodyWrites, ImageAssumption DEF ImageInv, TypeOK, Accounts
<1>2. /\ Counted(Loaded, Answer) /\ L = {k \in Key : Loadable(k)}
      /\ \A k \in L : Loaded.at[k] = metaFile[k]
  BY <1>1, LoadedFacts
<1>3. \A k \in L : k \in H /\ metaFile[k] = disk.at[k]
  BY <1>1, <1>2 DEF Directory, Loadable
<1>4. \A k \in L : g[k] = f[k]
  BY <1>2, <1>3 DEF SizeIn
<1>5. /\ IsFiniteSet(H) /\ disk.n = SumFunctionOnSet(f, H) /\ disk.n \in Nat
      /\ \A k \in H : f[k] \in Nat
  BY <1>1, ItemsSized, CountedFacts
<1>6. /\ IsFiniteSet(L) /\ Loaded.n = SumFunctionOnSet(g, L)
  BY <1>2, ItemsSized, CountedFacts
<1> HIDE DEF H, L, f, g
<1>7. SumFunctionOnSet(g, L) = SumFunctionOnSet(f, L)
  BY <1>4, <1>6, SumSame
<1>8. H \cap L = L
  BY <1>3
<1>9. /\ SumFunctionOnSet(f, H) = SumFunctionOnSet(f, H \cap L) + SumFunctionOnSet(f, H \ L)
      /\ SumFunctionOnSet(f, H \cap L) \in Nat /\ SumFunctionOnSet(f, H \ L) \in Nat
  BY <1>5, SumSplit
<1>10. Loaded.n \in Nat /\ Loaded.n <= disk.n
  <2>1. Loaded.n = SumFunctionOnSet(f, H \cap L)
    BY <1>6, <1>7, <1>8
  <2>2. \A x, y \in Nat : x <= x + y
    OBVIOUS
  <2>3. SumFunctionOnSet(f, H \cap L) <= disk.n
    BY <1>5, <1>9, <2>2
  <2> QED BY <1>9, <2>1, <2>3
<1>11. Loaded.n + 0 <= MaxDisk
  BY <1>1, <1>5, <1>10
<1>12. Evicted(Loaded, 0, MaxDisk) = {}
  <2>1. 0 \in Nat /\ 0 <= MaxDisk
    BY <1>1
  <2> QED BY <1>1, <1>2, <1>11, <2>1, ItemsSized, EvictedFacts
<1> QED BY <1>3, <1>12 DEF H, L

\* A restart with no write under way and nothing left over keeps every answer of
\* the disk that is within its time: New finds its files, and room for all of them.
THEOREM RestartsKeep == Spec => RestartKeeps
<1>1. ASSUME ImageInv, [Next]_vars, restarts' > restarts, Unlocked, leftover = {},
             NEW k \in Held(disk), ~Expired(disk.at[k])
      PROVE  disk'.at[k] = disk.at[k]
  <2>1. restarts \in Nat
    <3>1. restarts \in 0..MaxFaults /\ MaxFaults \in Nat
      BY <1>1, ImageAssumption DEF ImageInv, TypeOK
    <3> QED BY <3>1
  <2>2. restarts' # restarts
    BY <1>1, <2>1
  <2>3. Restart
    BY <1>1, <2>2 DEF Next, Step, Arrive, GetMemory, GetIndex, ReadMeta, ReadBin, KeepRead,
       DropRead, Fetch, FetchNothing, Put, RenameBin, RenameMeta, Expire, vars, envVars
  <2>4. /\ metaFile[k] = disk.at[k] /\ k \in Key /\ binFile[k] # None
        /\ binFile[k].size = disk.at[k].size /\ metaFile[k] # None
    BY <1>1 DEF ImageInv, Directory, Held
  <2>5. Loadable(k)
    BY <1>1, <2>4 DEF Loadable
  <2>6. Held(disk') = {q \in Key : Loadable(q)} /\ \A q \in Held(disk') : disk'.at[q] = metaFile[q]
    BY <1>1, <2>3, RestartFacts, LoadedFits
  <2> QED BY <2>4, <2>5, <2>6
<1>2. ImageInv /\ [Next]_vars =>
        [restarts' > restarts /\ Unlocked /\ leftover = {} =>
           \A k \in Held(disk) : ~Expired(disk.at[k]) => disk'.at[k] = disk.at[k]]_vars
  BY <1>1
<1>3. QED
  BY <1>2, ImageInvariant, PTL DEF Spec, RestartKeeps
=============================================================================
