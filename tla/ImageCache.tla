----------------------------- MODULE ImageCache -----------------------------
(***************************************************************************)
(* internal/imgcache and its use by internal/proxy: artwork kept in memory *)
(* and on disk.  The mutex covers the two lists and every write of files,  *)
(* but a lookup reads the files of an answer with the mutex released, and  *)
(* the process can die between any two steps of a write.                   *)
(*                                                                         *)
(* An answer of a backend (external) is its url, a serial number that      *)
(* stands for its contents and expiry, and its size.  Left out: the .tmp   *)
(* files, which nothing reads, the counters, conditional requests and the  *)
(* headers that are not stored.                                            *)
(***************************************************************************)
EXTENDS Lists, FiniteSets, FiniteSetsExt, SequencesExt

CONSTANTS
    Backends, Images, Accepts,
    Handlers,      \* handler goroutines that may be in flight together
    None,          \* no answer, no handler, no max-age
    Sizes,         \* sizes of the images backends send
    MaxMemory,     \* performance.cache.max_bytes
    MaxDisk,       \* performance.cache.disk.max_bytes
    MaxObject,     \* performance.cache.max_object
    DefaultTTL,    \* performance.cache.default_ttl
    MaxTTL,        \* performance.cache.max_ttl
    FileOrder,     \* the keys in the order of their file names (SHA-256)
    MaxAnswers,    \* bound on the answers of the backends
    MaxFaults      \* bound on expiries, failed writes and removals, and restarts

\* The cache key: backend, path with query, and Accept.
Key == [backend : Backends, image : Images, accept : Accepts]

\* What Validate checks of a configuration with both caches on.
ASSUME ImageAssumption ==
    /\ MaxMemory \in Nat \ {0} /\ MaxDisk \in Nat \ {0}
    /\ MaxObject \in Nat /\ MaxObject <= MaxMemory /\ MaxObject <= MaxDisk
    /\ DefaultTTL \in Nat /\ MaxTTL \in Nat
    /\ Sizes \subseteq Nat
    /\ MaxAnswers \in Nat /\ MaxFaults \in Nat
    /\ None \notin Handlers
    /\ FileOrder \in Seq(Key) /\ ToSet(FileOrder) = Key /\ IsInjective(FileOrder)

VARIABLES
    memory,   \* Cache.ll, idx and n
    disk,     \* Cache.diskLL, diskIdx and diskN
    metaFile, \* the .meta file of each key: the answer it describes, or None
    binFile,  \* the .bin file of each key: the answer whose body it holds, or None
    writer,   \* the handler writing files, which holds the mutex, or None
    hdl,      \* what each handler is doing
    answers,  \* answers the backends have given so far (external)
    expired,  \* serials of the answers whose ExpiresAt has passed
    faults,   \* faults so far, at most MaxFaults
    restarts, \* restarts so far
    latest,   \* history: serial of the answer last given to Put for each key
    leftover, \* history: keys whose last write failed or was cut off, or removal failed
    unsure    \* history: keys stored during a lookup's reads, or loaded from leftovers

fileVars    == <<metaFile, binFile>>
historyVars == <<latest, leftover, unsure>>
envVars     == <<expired, faults, restarts>>
vars == <<memory, disk, fileVars, writer, hdl, answers, envVars, historyVars>>

Answer == [url : Key, serial : 1..MaxAnswers, size : Sizes]

\* What memory holds of a url: a meta and a body, read apart when it came from disk.
Kept == [meta : Answer, body : Answer, size : Sizes]

ASSUME NoneIsNoAnswer == None \notin Key \cup Answer \cup Kept

Steps == {"idle", "memory", "index", "readMeta", "readBin", "keep", "drop",
          "fetch", "put", "renameBin", "renameMeta"}

\* A handler: the url it serves, what it has read from disk, or in body what it
\* has fetched.
Handler == [pc : Steps, url : Key \cup {None},
            meta : Answer \cup {None}, body : Answer \cup {None}]

Idle == [pc |-> "idle", url |-> None, meta |-> None, body |-> None]

Lists(Items) == [at : [Key -> Items \cup {None}], order : Seq(Key), n : Nat]

TypeOK ==
    /\ memory \in Lists(Kept)
    /\ disk \in Lists(Answer)
    /\ metaFile \in [Key -> Answer \cup {None}]
    /\ binFile \in [Key -> Answer \cup {None}]
    /\ writer \in Handlers \cup {None}
    /\ hdl \in [Handlers -> Handler]
    /\ answers \in 0..MaxAnswers
    /\ expired \subseteq 1..MaxAnswers
    /\ faults \in 0..MaxFaults
    /\ restarts \in 0..MaxFaults
    /\ latest \in [Key -> 0..MaxAnswers]
    /\ leftover \subseteq Key /\ unsure \subseteq Key

-----------------------------------------------------------------------------
(* A list with an index and a byte counter; memory and disk are one each.   *)

EmptyList == [at |-> [k \in Key |-> None], order |-> <<>>, n |-> 0]

Held(l)       == {k \in Key : l.at[k] # None}
BytesOf(l, K) == SumFunctionOnSet([k \in Held(l) |-> l.at[k].size], K \cap Held(l))

\* Seeded fault: the bytes are taken off twice, once past the clamp.
WithoutTwice(l, K) ==
    LET gone == BytesOf(l, K) IN
    [at    |-> [k \in Key |-> IF k \in K THEN None ELSE l.at[k]],
     order |-> Deleted(l.order, K),
     n     |-> l.n - 2 * gone]

\* removeLocked, removeDiskIndexLocked: the counter never goes below zero.
Without(l, K) ==
    LET gone == BytesOf(l, K) IN
    [at    |-> [k \in Key |-> IF k \in K THEN None ELSE l.at[k]],
     order |-> Deleted(l.order, K),
     n     |-> IF gone > l.n THEN 0 ELSE l.n - gone]

ToFront(l, k) ==
    [l EXCEPT !.order = <<k>> \o Deleted(@, {k})]

PushFront(l, k, item) ==
    [at |-> [l.at EXCEPT ![k] = item], order |-> <<k>> \o l.order, n |-> l.n + item.size]

\* The fewest keys from the back that must go for size bytes to fit in max.
Evicted(l, size, max) ==
    LET Back(i)  == ToSet(SubSeq(l.order, Len(l.order) - i + 1, Len(l.order)))
        enough   == {i \in 0..Len(l.order) : Without(l, Back(i)).n + size <= max}
    IN  Back(IF enough = {} THEN Len(l.order) ELSE Min(enough))

\* Seeded fault: an entry that is replaced stays counted.
RoomForKeepsOld(l, k, size, max) ==
    LET rest == [Without(l, {k}) EXCEPT !.n = l.n] IN
    Without(rest, Evicted(rest, size, max))

\* The list after the old item of k and what must be evicted are gone.
RoomFor(l, k, size, max) ==
    LET rest == Without(l, {k}) IN Without(rest, Evicted(rest, size, max))

Storable(a) == a.size \in 1..MaxObject

\* Seeded fault: a key that is in memory keeps the answer it has.
InMemoryKeepsOld(k, meta, body) ==
    IF memory.at[k] # None THEN ToFront(memory, k)
    ELSE LET room == RoomFor(memory, k, body.size, MaxMemory) IN
         IF ~Storable(body) \/ room.n + body.size > MaxMemory THEN room
         ELSE PushFront(room, k, [meta |-> meta, body |-> body, size |-> body.size])

\* putMemoryLocked and the first half of Put.
InMemory(k, meta, body) ==
    LET room == RoomFor(memory, k, body.size, MaxMemory) IN
    IF ~Storable(body) \/ body.size > MaxMemory THEN memory
    ELSE IF room.n + body.size > MaxMemory THEN room
    ELSE PushFront(room, k, [meta |-> meta, body |-> body, size |-> body.size])

NoFiles(files, K) == [k \in Key |-> IF k \in K THEN None ELSE files[k]]

\* removeDiskFiles for the keys of K, errors ignored: each file that stays, stays
\* unnoticed.  Restart after such a step is a death between the removals.
RemoveFiles(K) ==
    /\ metaFile' \in {NoFiles(metaFile, K \ metas) : metas \in SUBSET K}
    /\ binFile' \in {NoFiles(binFile, K \ bins) : bins \in SUBSET K}

\* The keys of K that have a file after the step.
Stuck(K) == {k \in K : metaFile'[k] # None \/ binFile'[k] # None}

Fault   == faults < MaxFaults /\ faults' = faults + 1
NoFault == UNCHANGED faults

StuckFault(K) == IF Stuck(K) = {} THEN NoFault ELSE Fault

-----------------------------------------------------------------------------
(* Lookups. *)

Init ==
    /\ memory = EmptyList
    /\ disk = EmptyList
    /\ metaFile = [k \in Key |-> None]
    /\ binFile = [k \in Key |-> None]
    /\ writer = None
    /\ hdl = [h \in Handlers |-> Idle]
    /\ answers = 0
    /\ expired = {}
    /\ faults = 0
    /\ restarts = 0
    /\ latest = [k \in Key |-> 0]
    /\ leftover = {}
    /\ unsure = {}

Unlocked    == writer = None
Goto(h, pc) == hdl' = [hdl EXCEPT ![h].pc = pc]
Finish(h)   == hdl' = [hdl EXCEPT ![h] = Idle]
Expired(a)  == a.serial \in expired

\* Seeded fault: the key leaves out Accept.
KeyWithoutAccept(url) == [url EXCEPT !.accept = CHOOSE a \in Accepts : TRUE]

\* Key.
KeyOf(url) == url

\* A request for artwork reaches the backend chosen for it; Get follows.
Arrive(h) ==
    /\ hdl[h].pc = "idle"
    /\ \E url \in Key : hdl' = [hdl EXCEPT ![h] = [Idle EXCEPT !.pc = "memory", !.url = url]]
    /\ UNCHANGED <<memory, disk, fileVars, writer, answers, envVars, historyVars>>

\* Get, the memory list: a hit is answered from it, an expired entry goes.
GetMemory(h) ==
    LET k == KeyOf(hdl[h].url)  hit == memory.at[k] IN
    /\ hdl[h].pc = "memory"
    /\ Unlocked
    /\ IF hit # None /\ ~Expired(hit.meta)
       THEN memory' = ToFront(memory, k) /\ Finish(h)
       ELSE memory' = Without(memory, {k}) /\ Goto(h, "index")
    /\ UNCHANGED <<disk, fileVars, writer, answers, envVars, historyVars>>

\* getDisk, the index: a key that is not there, or expired, is fetched.
GetIndex(h) ==
    LET k == KeyOf(hdl[h].url)  item == disk.at[k] IN
    /\ hdl[h].pc = "index"
    /\ Unlocked
    /\ IF item = None
       THEN Goto(h, "fetch") /\ UNCHANGED <<disk, fileVars, faults, leftover>>
       ELSE IF Expired(item)
       THEN /\ disk' = Without(disk, {k})
            /\ RemoveFiles({k}) /\ StuckFault({k})
            /\ leftover' = (leftover \ {k}) \cup Stuck({k})
            /\ Goto(h, "fetch")
       ELSE Goto(h, "readMeta") /\ UNCHANGED <<disk, fileVars, faults, leftover>>
    /\ UNCHANGED <<memory, writer, answers, expired, restarts, latest, unsure>>

\* getDisk reads the .meta file without the mutex.
ReadMeta(h) ==
    LET meta == metaFile[KeyOf(hdl[h].url)] IN
    /\ hdl[h].pc = "readMeta"
    /\ hdl' = [hdl EXCEPT ![h].pc = IF meta = None THEN "drop" ELSE "readBin",
                          ![h].meta = meta]
    /\ UNCHANGED <<memory, disk, fileVars, writer, answers, envVars, historyVars>>

\* The checks on what was read.
Fits(meta, body) == body # None /\ body.size = meta.size /\ ~Expired(meta)

\* Then the .bin file, and checks the two against each other.
ReadBin(h) ==
    LET body == binFile[KeyOf(hdl[h].url)] IN
    /\ hdl[h].pc = "readBin"
    /\ hdl' = IF Fits(hdl[h].meta, body)
              THEN [hdl EXCEPT ![h].pc = "keep", ![h].body = body]
              ELSE [hdl EXCEPT ![h].pc = "drop", ![h].meta = None]
    /\ UNCHANGED <<memory, disk, fileVars, writer, answers, envVars, historyVars>>

\* The answer from disk goes to memory, over whatever is there by now.
KeepRead(h) ==
    LET k == KeyOf(hdl[h].url) IN
    /\ hdl[h].pc = "keep"
    /\ Unlocked
    /\ disk' = IF disk.at[k] = None THEN disk ELSE ToFront(disk, k)
    /\ memory' = InMemory(k, hdl[h].meta, hdl[h].body)
    /\ Finish(h)
    /\ UNCHANGED <<fileVars, writer, answers, envVars, historyVars>>

\* Seeded fault: the key leaves the index and its files stay.
DropReadKeepsFiles(h) ==
    LET k == KeyOf(hdl[h].url) IN
    /\ hdl[h].pc = "drop"
    /\ Unlocked
    /\ disk' = Without(disk, {k})
    /\ UNCHANGED fileVars
    /\ leftover' = leftover \ {k}
    /\ Goto(h, "fetch")
    /\ UNCHANGED <<memory, writer, answers, envVars, latest, unsure>>

\* dropDiskKey: the key's files go, whichever answer they hold by now.
DropRead(h) ==
    LET k == KeyOf(hdl[h].url) IN
    /\ hdl[h].pc = "drop"
    /\ Unlocked
    /\ disk' = Without(disk, {k})
    /\ RemoveFiles({k}) /\ StuckFault({k})
    /\ leftover' = (leftover \ {k}) \cup Stuck({k})
    /\ Goto(h, "fetch")
    /\ UNCHANGED <<memory, writer, answers, expired, restarts, latest, unsure>>

-----------------------------------------------------------------------------
(* Stores. *)

CacheControl == [forbids : BOOLEAN, maxAge : {None, 0, MaxTTL + 1}]

\* StoreTTL; 0 when the answer may not be kept.  max_ttl does not bound
\* default_ttl, and a max_ttl of 0 bounds nothing.
StoreTTL(cc) ==
    IF cc.forbids THEN 0
    ELSE IF cc.maxAge = None THEN DefaultTTL
    ELSE IF MaxTTL > 0 /\ cc.maxAge > MaxTTL THEN MaxTTL ELSE cc.maxAge

\* The backend answers with a 200 and an image.  maybeStoreImage keeps it when
\* Cache-Control lets it and it is not longer than max_object.
Fetch(h) ==
    /\ hdl[h].pc = "fetch"
    /\ answers < MaxAnswers
    /\ answers' = answers + 1
    /\ \E size \in Sizes, cc \in CacheControl :
         IF StoreTTL(cc) > 0 /\ size <= MaxObject
         THEN hdl' = [hdl EXCEPT ![h].pc = "put",
                        ![h].body = [url |-> hdl[h].url, serial |-> answers + 1, size |-> size]]
         ELSE Finish(h)
    /\ UNCHANGED <<memory, disk, fileVars, writer, envVars, historyVars>>

\* Any other answer, or none: not a 200, not an image, cut off.
FetchNothing(h) ==
    /\ hdl[h].pc = "fetch"
    /\ Finish(h)
    /\ UNCHANGED <<memory, disk, fileVars, writer, answers, envVars, historyVars>>

Reading(k) == \E h \in Handlers :
                 hdl[h].pc \in {"readMeta", "readBin", "keep"} /\ KeyOf(hdl[h].url) = k

\* Put: memory first, then putDiskLocked makes room on disk, takes the old
\* answer out of the index, not off the disk, and starts writing the files.
Put(h) ==
    LET a    == hdl[h].body
        k    == KeyOf(hdl[h].url)
        room == RoomFor(disk, k, a.size, MaxDisk)
        out  == (Held(disk) \ Held(room)) \ {k}
    IN  /\ hdl[h].pc = "put"
        /\ Unlocked
        /\ IF ~Storable(a)
           THEN Finish(h) /\ NoFault /\ UNCHANGED <<memory, disk, fileVars, writer, historyVars>>
           ELSE /\ memory' = InMemory(k, a, a)
                /\ disk' = room
                /\ RemoveFiles(out)
                /\ latest' = [latest EXCEPT ![k] = a.serial]
                /\ unsure' = IF Reading(k) THEN unsure \cup {k} ELSE unsure \ {k}
                /\ \/ /\ Goto(h, "renameBin")
                      /\ writer' = h
                      /\ leftover' = (leftover \ out) \cup Stuck(out)
                      /\ StuckFault(out)
                   \/ /\ Finish(h)               \* writing the .tmp files failed
                      /\ leftover' = (leftover \ out) \cup Stuck(out) \cup {k}
                      /\ Fault
                      /\ UNCHANGED writer
        /\ UNCHANGED <<answers, expired, restarts>>

Abandon(h) ==
    /\ Fault
    /\ Finish(h)
    /\ writer' = None
    /\ leftover' = leftover \cup {KeyOf(hdl[h].url)}

\* The new body takes the place of the old one ...
RenameBin(h) ==
    LET k == KeyOf(hdl[h].url) IN
    /\ hdl[h].pc = "renameBin"
    /\ \/ /\ binFile' = [binFile EXCEPT ![k] = hdl[h].body]
          /\ Goto(h, "renameMeta")
          /\ NoFault
          /\ UNCHANGED <<writer, leftover>>
       \/ Abandon(h) /\ UNCHANGED binFile
    /\ UNCHANGED <<memory, disk, metaFile, answers, expired, restarts, latest, unsure>>

\* ... then the new meta; addDiskIndex and the end of Put.  If it cannot, the new
\* body is removed, or stays if that fails too.
RenameMeta(h) ==
    LET k == KeyOf(hdl[h].url) IN
    /\ hdl[h].pc = "renameMeta"
    /\ \/ /\ metaFile' = [metaFile EXCEPT ![k] = hdl[h].body]
          /\ disk' = PushFront(disk, k, hdl[h].body)
          /\ leftover' = leftover \ {k}
          /\ writer' = None
          /\ Finish(h)
          /\ NoFault
          /\ UNCHANGED binFile
       \/ /\ Abandon(h)
          /\ binFile' \in {binFile, [binFile EXCEPT ![k] = None]}
          /\ UNCHANGED <<disk, metaFile>>
    /\ UNCHANGED <<memory, answers, expired, restarts, latest, unsure>>

-----------------------------------------------------------------------------
(* The clock and restarts. *)

\* An answer's ExpiresAt passes.
Expire ==
    /\ Fault
    /\ \E s \in (1..answers) \ expired : expired' = expired \cup {s}
    /\ UNCHANGED <<memory, disk, fileVars, writer, hdl, answers, restarts, historyVars>>

\* Seeded fault: loadDisk does not stat the .bin file.
LoadableUnchecked(k) == metaFile[k] # None /\ ~Expired(metaFile[k])

\* Seeded fault: a file of exactly max_object bytes is refused.
LoadableSmaller(k) ==
    /\ metaFile[k] # None
    /\ ~Expired(metaFile[k])
    /\ binFile[k] # None
    /\ binFile[k].size = metaFile[k].size
    /\ metaFile[k].size < MaxObject

\* What loadDisk takes over: a .meta within its time whose .bin has its size.
Loadable(k) ==
    /\ metaFile[k] # None
    /\ ~Expired(metaFile[k])
    /\ binFile[k] # None
    /\ binFile[k].size = metaFile[k].size

\* The list loadDisk builds: the keys in the order of the directory, the last at
\* the front.
Loaded ==
    LET item == [k \in Key |-> IF Loadable(k) THEN metaFile[k] ELSE None]
    IN  [at    |-> item,
         order |-> Reverse(Deleted(FileOrder, {k \in Key : ~Loadable(k)})),
         n     |-> BytesOf([EmptyList EXCEPT !.at = item], Key)]

\* The process dies, at any step, and New loads what is on disk.  A .bin without
\* its .meta is neither loaded nor removed.
Restart ==
    LET out    == Evicted(Loaded, 0, MaxDisk)
        broken == {k \in Key : metaFile[k] # None /\ ~Loadable(k)}
        cutOff == {KeyOf(hdl[h].url) : h \in {h \in Handlers : writer = h}}
    IN  /\ Fault
        /\ restarts' = restarts + 1
        /\ memory' = EmptyList
        /\ disk' = Without(Loaded, out)
        /\ RemoveFiles(out \cup broken)
        /\ writer' = None
        /\ hdl' = [h \in Handlers |-> Idle]
        /\ leftover' = ((leftover \cup cutOff) \ (out \cup broken)) \cup Stuck(out \cup broken)
        /\ unsure' = leftover' \cap Held(disk')
        /\ UNCHANGED <<answers, expired, latest>>

-----------------------------------------------------------------------------

Step(h) == \/ GetMemory(h) \/ GetIndex(h) \/ ReadMeta(h) \/ ReadBin(h)
           \/ KeepRead(h) \/ DropRead(h) \/ Fetch(h) \/ FetchNothing(h)
           \/ Put(h) \/ RenameBin(h) \/ RenameMeta(h)

Next == (\E h \in Handlers : Arrive(h) \/ Step(h)) \/ Expire \/ Restart

Spec == Init /\ [][Next]_vars
=============================================================================
