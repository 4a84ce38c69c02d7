-------------------------- MODULE ImageProperties --------------------------
(***************************************************************************)
(* What the image cache promises: see module ImageCache.                   *)
(***************************************************************************)
EXTENDS ImageCache

\* Memory, disk and a lookup about to be answered from disk hold, for a key,
\* the answer last given to Put for it, meta and body alike.  The exceptions are
\* the two the code has: a lookup whose unlocked file reads (getDisk) overlapped
\* a Put of the same key, whose older or mixed answer goes over the newer one in
\* memory; and what loadDisk took over from a write that failed or was cut off, or
\* from files whose removal failed.
CacheCurrent ==
    \A k \in Key \ unsure :
      /\ memory.at[k] # None =>
           /\ memory.at[k].meta.serial = latest[k]
           /\ memory.at[k].body.serial = latest[k]
      /\ disk.at[k] # None =>
           /\ disk.at[k].serial = latest[k]
           /\ Unlocked => metaFile[k].serial = latest[k] /\ binFile[k].serial = latest[k]
      /\ \A h \in Handlers :
           hdl[h].pc = "keep" /\ KeyOf(hdl[h].url) = k =>
             hdl[h].meta.serial = latest[k] /\ hdl[h].body.serial = latest[k]

\* Even in those cases no request is answered with the image of another
\* backend, path or Accept, nor with a body that is not as long as its meta
\* says: what a disk read mixes, it mixes at equal sizes.
AnswerFits(q, meta, body) == meta.url = q /\ body.url = q /\ body.size = meta.size

AnswersFit ==
    /\ \A h \in Handlers :
         LET k == KeyOf(hdl[h].url) IN
         /\ hdl[h].pc = "keep" => AnswerFits(hdl[h].url, hdl[h].meta, hdl[h].body)
         /\ hdl[h].pc = "memory" /\ memory.at[k] # None /\ ~Expired(memory.at[k].meta) =>
              AnswerFits(hdl[h].url, memory.at[k].meta, memory.at[k].body)

\* The index and the directory agree whenever no write is under way, whatever
\* was evicted, expired, dropped by a lookup that could not read it, failed to be
\* written or removed, or was cut off by a restart: every key of the index has both
\* its files, of the size it counts, and there is no file that the byte budget does
\* not count, save those of a key whose last write failed or was cut off, or one of
\* whose files could not be removed (os.Remove's errors are ignored): of a removal
\* that works nothing stays.
IndexBacked ==
    \A k \in Held(disk) :
      /\ metaFile[k] # None /\ binFile[k] # None
      /\ metaFile[k].size = disk.at[k].size
      /\ binFile[k].size = disk.at[k].size

FilesCounted ==
    \A k \in Key : metaFile[k] # None \/ binFile[k] # None => k \in Held(disk) \cup leftover

DirectoryMatches == Unlocked => IndexBacked /\ FilesCounted

\* The byte counters are the bytes held, within their limits, and the lists and
\* the indexes name the same keys, each once.
Sound(l, max) ==
    /\ ToSet(l.order) = Held(l) /\ Len(l.order) = Cardinality(Held(l))
    /\ l.n = BytesOf(l, Key)
    /\ l.n <= max

AccountsExact == Sound(memory, MaxMemory) /\ Sound(disk, MaxDisk)

\* "persists the same key on disk so a restart does not refetch"
\* (docs/affinity.md:61): a restart forgets no answer that was on disk and within
\* its time, unless it fell into a write or leftovers compete for the budget.
RestartKeeps ==
    [][ restarts' > restarts /\ Unlocked /\ leftover = {} =>
          \A k \in Held(disk) : ~Expired(disk.at[k]) => disk'.at[k] = disk.at[k] ]_vars
=============================================================================
