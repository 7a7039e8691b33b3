------------------------------- MODULE BlockDev ------------------------------
(***************************************************************************)
(* Block devices and their cache: kernel/src/blockdevice/blockdevice.c,    *)
(* over a device that erases (flash) or does not (blkdev_ram.c).           *)
(*                                                                         *)
(* disk is what the device stores.  cache is None or the entries of a      *)
(* cache with the flag cache_read; an entry is None (not present) or a     *)
(* record of the block it stands for, its time stamp, flags and data.      *)
(* Memory that nothing was written to holds Junk.  A call runs to its end: *)
(* the file has no locking (a TODO says so), and callers take turns.       *)
(*                                                                         *)
(* conf.careful restricts the callers to what the code handles: partial    *)
(* writes and erasures are of blocks with an entry (for a partial write,   *)
(* one that is not erased), or find no room in the cache; a cache is       *)
(* replaced with at most one entry to write back; no block is accessed     *)
(* that would get the entry of another one, whose time is up.  A call that *)
(* reads through a null pointer or writes past a buffer ends the run       *)
(* (fault).                                                                *)
(***************************************************************************)
EXTENDS Integers, Sequences, FiniteSets, FiniteSetsExt

CONSTANTS Blocks, Values, FF, Junk, None,
          Bad,       \* a block number past the end
          MaxTime,   \* bound: the clock stops here
          Configs    \* [depths, reads, erases, careful, readonly, io, values, parts, static]

VARIABLES conf, now, open, disk, cache, answer, ec, fault

vars == <<conf, now, open, disk, cache, answer, ec, fault>>

Timeout == 1  \* BLKDEV_WRITE_CACHE_TIMEOUT and BLKDEV_READ_CACHE_TIMEOUT, in seconds
Halves == 1 .. 2
AnyBlock == Blocks \union {Bad}
Whole(v) == [h \in Halves |-> v]
Contents == [Halves -> Values \union {FF, Junk}]

Depth == IF cache = None THEN 0 ELSE Len(cache.entry)
Entry(i) == cache.entry[i]
Present(i) == Entry(i) # None

(***************************************************************************)
(* The cache                                                               *)
(***************************************************************************)
(* blkdev_is_dirty                                                         *)
IsDirty(i) == Present(i) /\ (Entry(i).erase \/ Entry(i).dirty)

Matching(b) == {i \in 1 .. Depth : Present(i) /\ Entry(i).block = b}

(* blkdev_alloc_cache: the entry of the block, else the last vacant one,   *)
(* else the oldest clean one whose time is up; {} for -1.                  *)
Aged == {i \in 1 .. Depth : Present(i) /\ ~IsDirty(i) /\ Entry(i).time < now - Timeout}
VacantFirst(b) ==  \* mutant: a vacant entry is taken before the block's own
  LET vacant == {i \in 1 .. Depth : ~Present(i)} IN
  IF vacant # {} THEN {Max(vacant)} ELSE Matching(b)

AllocCache(b) ==
  LET vacant == {i \in 1 .. Depth : ~Present(i)}
      oldest == {i \in Aged : \A j \in Aged : Entry(i).time <= Entry(j).time}
  IN CASE Matching(b) # {} -> {Min(Matching(b))}
       [] Matching(b) = {} /\ vacant # {} -> {Max(vacant)}
       [] Matching(b) = {} /\ vacant = {} -> IF oldest = {} THEN {} ELSE {Min(oldest)}

NewEntry(b, d, x) == [block |-> b, time |-> now, erase |-> FALSE, dirty |-> d, data |-> x]

KeepsErase(i, b, x) ==  \* mutant: the erase flag is not cleared
  IF Present(i) THEN [Entry(i) EXCEPT !.dirty = TRUE, !.data = x] ELSE NewEntry(b, TRUE, x)

(* The entry i after data x was written to it, for block b; a present      *)
(* entry keeps the block that it stands for.                               *)
DirtyEntry(i, b, x) ==
  IF Present(i) THEN [Entry(i) EXCEPT !.erase = FALSE, !.dirty = TRUE, !.data = x]
  ELSE NewEntry(b, TRUE, x)

(* No access to a block takes the entry of another one.                    *)
Own(b) == "reuse" \in conf.careful => \A i \in AllocCache(b) : Present(i) => Entry(i).block = b

SetEntry(i, e) == cache' = [cache EXCEPT !.entry[i] = e]

(***************************************************************************)
(* The driver: an operation fails with IO where conf.io says so.           *)
(***************************************************************************)
DevFails == conf.io /\ ec' = "IO" /\ UNCHANGED disk
DevWrite(b, x) ==
  \/ disk' = [disk EXCEPT ![b] = x] /\ ec' = "OK"
  \/ DevFails
DevErase(b) ==
  \/ disk' = (IF conf.erases THEN [disk EXCEPT ![b] = Whole(FF)] ELSE disk) /\ ec' = "OK"
  \/ DevFails
Erased(b) == conf.erases => disk[b] = Whole(FF)

(* write_partial of the driver, or of blkdev_write_partial_fallback, which *)
(* reads, changes and writes the block: the outcomes are the same.         *)
DevWritePartial(b, h, v) == DevWrite(b, [disk[b] EXCEPT ![h] = v])

(***************************************************************************)
(* The calls                                                               *)
(***************************************************************************)
NewCache(n, reads) == [reads |-> reads, entry |-> [i \in 1 .. n |-> None]]

(* The cache may be allocated statically.                                  *)
Init ==
  /\ conf \in Configs
  /\ now = 0 /\ open = FALSE /\ answer = <<>> /\ ec = "OK"
  /\ cache = IF conf.static THEN NewCache(Max(conf.depths), conf.reads) ELSE None
  /\ fault = "none"
  /\ disk = [b \in Blocks |-> Whole(FF)]

Runs == fault = "none"
Called == Runs /\ open /\ UNCHANGED <<conf, now, open>>
Fails(e) == ec' = e /\ answer' = <<>> /\ UNCHANGED <<disk, cache, fault>>
Fault(f) == fault' = f /\ answer' = <<>> /\ UNCHANGED <<disk, cache, ec>>
Done == answer' = <<>> /\ UNCHANGED fault

(* The result of a call that changes block a[2]: its arguments, if it did. *)
Result(a) == answer' = (IF ec' = "OK" THEN a ELSE <<>>) /\ UNCHANGED fault

BadArgs(b) ==
  \/ conf.readonly /\ Fails("READONLY")
  \/ ~conf.readonly /\ b = Bad /\ Fails("RANGE")

(* The calls load dev->cache->... before blkdev_alloc_cache tests          *)
(* dev->cache: without a cache the load faults, or was optimised away.     *)
NullCache == cache = None /\ Fault("null")

(* blkdev_open and blkdev_close: nothing but the driver's.                 *)
Open ==
  /\ Runs /\ ~open /\ open' = TRUE
  /\ Fails("OK") /\ UNCHANGED <<conf, now>>

Close ==
  /\ Runs /\ open /\ open' = FALSE
  /\ Fails("OK") /\ UNCHANGED <<conf, now>>

Write(b, v) ==
  /\ Called
  /\ \/ BadArgs(b)
     \/ /\ ~conf.readonly /\ b \in Blocks /\ Own(b)
        /\ \/ NullCache
           \/ \E i \in AllocCache(b) :
                /\ SetEntry(i, DirtyEntry(i, b, Whole(v))) /\ ec' = "OK"
                /\ Result(<<"write", b, v>>) /\ UNCHANGED disk
           \/ /\ AllocCache(b) = {} /\ DevWrite(b, Whole(v)) /\ Result(<<"write", b, v>>)
              /\ UNCHANGED cache

(* The call covers half h of the block; 0 is an empty range and 3 one that *)
(* is not inside the block.                                                *)
BadRange(h) ==
  \/ h = 3 /\ Fails("RANGE")
  \/ h = 0 /\ Fails("OK")

OldData(i) == IF Present(i) THEN Entry(i).data ELSE Whole(Junk)
HasEntry(b) == Matching(b) # {} \/ AllocCache(b) = {}
HasData(b) == HasEntry(b) /\ \A i \in Matching(b) : ~Entry(i).erase
MayErase(b) == "erase" \in conf.careful => HasEntry(b)
MayWritePart(b) == "partial" \in conf.careful => HasData(b)

WritePartial(b, h, v) ==
  /\ Called
  /\ \/ BadArgs(b)
     \/ ~conf.readonly /\ b \in Blocks /\ BadRange(h)
     \/ /\ ~conf.readonly /\ b \in Blocks /\ h \in Halves /\ MayWritePart(b) /\ Own(b)
        /\ \/ NullCache
           \/ \E i \in AllocCache(b) :
                /\ SetEntry(i, DirtyEntry(i, b, [OldData(i) EXCEPT ![h] = v]))
                /\ ec' = "OK" /\ Result(<<"part", b, h, v>>) /\ UNCHANGED disk
           \/ /\ AllocCache(b) = {} /\ DevWritePartial(b, h, v)
              /\ Result(<<"part", b, h, v>>) /\ UNCHANGED cache

(* A new entry for an erasure is marked dirty, not erased.                 *)
Erase(b) ==
  /\ Called
  /\ \/ BadArgs(b)
     \/ /\ ~conf.readonly /\ b \in Blocks /\ MayErase(b) /\ Own(b)
        /\ \/ NullCache
           \/ \E i \in AllocCache(b) :
                /\ SetEntry(i, IF Present(i)
                               THEN [Entry(i) EXCEPT !.erase = TRUE, !.dirty = FALSE]
                               ELSE NewEntry(b, TRUE, Whole(Junk)))
                /\ ec' = "OK" /\ Result(<<"erase", b>>) /\ UNCHANGED disk
           \/ AllocCache(b) = {} /\ DevErase(b) /\ Result(<<"erase", b>>) /\ UNCHANGED cache

(* blkdev_is_erased answers TRUE when it fails.                            *)
IsErased(b) == IF Matching(b) # {} THEN Entry(Min(Matching(b))).erase ELSE Erased(b)

QueryErased(b) ==
  /\ Called /\ UNCHANGED <<disk, cache, fault>>
  /\ \/ conf.readonly /\ ec' = "READONLY" /\ answer' = <<"erased", b, TRUE>>
     \/ ~conf.readonly /\ b = Bad /\ ec' = "RANGE" /\ answer' = <<"erased", b, TRUE>>
     \/ /\ ~conf.readonly /\ b \in Blocks /\ ec' = "OK"
        /\ answer' = <<"erased", b, IsErased(b)>>
     \/ /\ ~conf.readonly /\ b \in Blocks /\ Matching(b) = {} /\ conf.io
        /\ ec' = "IO" /\ answer' = <<"erased", b, TRUE>>

(* What a read of part p (all of the block, or a half) answers.            *)
Part(b, x, p) == IF p \in Halves THEN <<"half", b, p, x[p]>> ELSE <<"read", b, x>>

(* The entry whose data is answered: touched unless it is dirty.           *)
ReadEntry(i, b, p) ==
  /\ answer' = Part(b, IF Entry(i).erase THEN Whole(FF) ELSE Entry(i).data, p)
  /\ IF IsDirty(i) THEN UNCHANGED cache ELSE SetEntry(i, [Entry(i) EXCEPT !.time = now])
  /\ ec' = "OK" /\ UNCHANGED <<disk, fault>>

(* vtable->read into the cache; on an error the entry is made all the      *)
(* same, with whatever the memory held.                                    *)
ReadInto(i, b, p) ==
  /\ UNCHANGED disk
  /\ \/ /\ SetEntry(i, NewEntry(b, FALSE, disk[b])) /\ ec' = "OK"
        /\ answer' = Part(b, disk[b], p)
        /\ UNCHANGED fault
     \/ /\ conf.io /\ SetEntry(i, NewEntry(b, FALSE, Whole(Junk))) /\ ec' = "IO"
        /\ answer' = <<>> /\ fault' = "lost"

ReadDevice(b, p) ==
  /\ UNCHANGED <<disk, cache, fault>>
  /\ \/ ec' = "OK" /\ answer' = Part(b, disk[b], p)
     \/ conf.io /\ ec' = "IO" /\ answer' = <<>>

(* A partial read of an erased block fills a whole block of the buffer.    *)
Overruns(i, p) == p \in Halves /\ Present(i) /\ Entry(i).erase

ReadPart(b, p) ==
  \/ NullCache
  \/ \E i \in AllocCache(b) :
       \/ Overruns(i, p) /\ Fault("overrun")
       \/ Present(i) /\ ~Overruns(i, p) /\ ReadEntry(i, b, p)
       \/ ~Present(i) /\ cache.reads /\ ReadInto(i, b, p)
       \/ ~Present(i) /\ ~cache.reads /\ ReadDevice(b, p)
  \/ AllocCache(b) = {} /\ ReadDevice(b, p)

Read(b) ==
  /\ Called
  /\ \/ b = Bad /\ Fails("RANGE")
     \/ b \in Blocks /\ Own(b) /\ ReadPart(b, 0)

ReadPartial(b, h) ==
  /\ Called
  /\ \/ b = Bad /\ Fails("RANGE")
     \/ b \in Blocks /\ BadRange(h)
     \/ b \in Blocks /\ h \in Halves /\ Own(b) /\ ReadPart(b, h)

(***************************************************************************)
(* Writing back                                                            *)
(***************************************************************************)
(* blkdev_flush_cache clears the flags first, so that a failed write is    *)
(* forgotten.  c and d are the cache and the disk after it.                *)
Dropped(c, i, ok) ==
  LET e == c.entry[i] IN
  [c EXCEPT !.entry[i] = IF e.dirty /\ c.reads
                         THEN [e EXCEPT !.dirty = FALSE, !.erase = FALSE, !.time = now]
                         ELSE None]

WriteBack(d, c, i, ok) ==
  LET e == c.entry[i] IN
  CASE ~ok -> d
    [] ok /\ e.dirty -> [d EXCEPT ![e.block] = e.data]
    [] ok /\ ~e.dirty -> IF conf.erases THEN [d EXCEPT ![e.block] = Whole(FF)] ELSE d

(* The data of a write that failed is gone: fault is "lost".               *)
Written(ok) ==
  /\ ec' = IF ok THEN "OK" ELSE "IO"
  /\ fault' = IF ok THEN fault ELSE "lost"

FlushEntry(i, ok) ==
  /\ cache' = Dropped(cache, i, ok) /\ disk' = WriteBack(disk, cache, i, ok)
  /\ Written(ok)

(* What ec may hold if a call does not set it.                             *)
Unset == {"OK", "IO"}
Oks == {TRUE} \union {~conf.io}
DirtyEntries == {i \in 1 .. Depth : IsDirty(i)}

(* blkdev_flush returns after the first entry: it tests the pointer ec     *)
(* where the result is meant.  ec is not set if nothing was dirty.         *)
Flush ==
  /\ Called
  /\ \/ conf.readonly /\ Fails("READONLY")
     \/ ~conf.readonly /\ NullCache
     \/ /\ ~conf.readonly /\ cache # None /\ answer' = <<>>
        /\ \/ \E ok \in Oks : DirtyEntries # {} /\ FlushEntry(Min(DirtyEntries), ok)
           \/ DirtyEntries = {} /\ ec' \in Unset /\ UNCHANGED <<disk, cache, fault>>

Expired == {i \in DirtyEntries : Entry(i).time < now - Timeout}

(* blkdev_housekeeping: the expired entries, up to the first that fails.   *)
FirstOnly(todo) ==  \* mutant: returns after the first entry, as blkdev_flush does
  IF todo = {} THEN <<disk, cache>>
  ELSE <<WriteBack(disk, cache, Min(todo), TRUE), Dropped(cache, Min(todo), TRUE)>>

FlushAll(todo) ==
  LET flush[i \in 0 .. Depth] ==
        IF i = 0 THEN <<disk, cache>>
        ELSE IF i \notin todo THEN flush[i - 1]
        ELSE <<WriteBack(flush[i - 1][1], flush[i - 1][2], i, TRUE),
               Dropped(flush[i - 1][2], i, TRUE)>>
  IN flush[Depth]

DoHousekeeping ==
  \/ /\ disk' = FlushAll(Expired)[1] /\ cache' = FlushAll(Expired)[2]
     /\ ec' \in IF Expired = {} THEN Unset ELSE {"OK"}
     /\ UNCHANGED fault
  \/ \E i \in Expired : LET s == FlushAll({j \in Expired : j < i}) IN
       /\ conf.io /\ disk' = s[1] /\ cache' = Dropped(s[2], i, FALSE) /\ Written(FALSE)

Housekeeping ==
  /\ Called
  /\ \/ NullCache
     \/ cache # None /\ answer' = <<>> /\ DoHousekeeping

(* The flush that creating and deleting a cache begin with, and its        *)
(* result.  An ec that was not set is what the caller's variable held.     *)
FlushFirst(outcomes) ==
  LET i == Min(DirtyEntries)
      then(d) == disk' = d /\ UNCHANGED fault /\ \E o \in outcomes : cache' = o[1] /\ ec' = o[2]
  IN \/ DirtyEntries = {} /\ then(disk)
     \/ DirtyEntries = {} /\ ec' = "IO" /\ UNCHANGED <<disk, cache, fault>>
     \/ DirtyEntries # {} /\ then(WriteBack(disk, cache, i, TRUE))
     \/ DirtyEntries # {} /\ conf.io /\ FlushEntry(i, FALSE)

Replaceable == "replace" \in conf.careful => Cardinality(DirtyEntries) <= 1

(* The memory of the old cache is not released.  On a read-only device the *)
(* call fails at once, or in the flush of the old cache.                   *)
CreateCache(n, reads) ==
  LET made == {<<NewCache(n, reads), "OK">>, <<None, "NOMEM">>}
  IN /\ Called /\ Replaceable
     /\ \/ conf.readonly /\ Fails("READONLY")
        \/ /\ ~conf.readonly /\ cache = None /\ Done /\ UNCHANGED disk
           /\ \E o \in made : cache' = o[1] /\ ec' = o[2]
        \/ ~conf.readonly /\ cache # None /\ answer' = <<>> /\ FlushFirst(made)

DeleteCache ==
  /\ Called /\ Replaceable
  /\ \/ conf.readonly /\ cache # None /\ Fails("READONLY")
     \/ cache = None /\ Fails("OK")
     \/ ~conf.readonly /\ cache # None /\ answer' = <<>> /\ FlushFirst({<<None, "OK">>})

Tick ==
  /\ Runs /\ now < MaxTime /\ now' = now + 1
  /\ answer' = <<>> /\ UNCHANGED <<conf, open, disk, cache, ec, fault>>

Next ==
  \/ Open \/ Close \/ Flush \/ Housekeeping \/ DeleteCache \/ Tick
  \/ \E b \in AnyBlock : Erase(b) \/ QueryErased(b) \/ Read(b)
  \/ \E b \in AnyBlock, v \in conf.values : Write(b, v)
  \/ \E b \in AnyBlock, h \in conf.parts, v \in conf.values : WritePartial(b, h, v)
  \/ \E b \in AnyBlock, h \in conf.parts : ReadPartial(b, h)
  \/ \E n \in conf.depths : CreateCache(n, conf.reads)

Spec == Init /\ [][Next]_vars

(* The results of a call decide nothing later.                             *)
NoResults == <<conf, now, open, disk, cache, fault>>

(***************************************************************************)
(* Properties                                                              *)
(***************************************************************************)
(* The device, its cache and the result codes have their types.            *)
TypeOK ==
  /\ now \in 0 .. MaxTime /\ open \in BOOLEAN /\ disk \in [Blocks -> Contents]
  /\ ec \in {"OK", "READONLY", "RANGE", "IO", "NOMEM"}
  /\ \A i \in 1 .. Depth : Present(i) =>
       /\ Entry(i).block \in Blocks /\ Entry(i).time \in 0 .. now
       /\ Entry(i).data \in Contents

(* The contents that a reader sees: the cache's, else the device's.        *)
Content == [b \in Blocks |->
  IF Matching(b) = {} THEN disk[b]
  ELSE IF Entry(Min(Matching(b))).erase THEN Whole(FF) ELSE Entry(Min(Matching(b))).data]

Abstract == INSTANCE Disk WITH data <- Content, lost <- (fault = "lost"),
                               answer <- IF answer # <<>> /\ Head(answer) = "erased"
                                         THEN <<>> ELSE answer

(* Reads answer what was written last: neither flushing, housekeeping, a   *)
(* cache that is full nor creating and deleting caches changes what a      *)
(* block holds.  For the callers of conf.careful, which never find more    *)
(* than one entry to write back when a cache is replaced (blkdev_flush     *)
(* writes one), and never get the aged entry of another block.             *)
ImplementsDisk == Abstract!Spec

(* No block has two entries: blkdev_find_cache takes the first it meets.   *)
OneEntryPerBlock == \A b \in Blocks : Cardinality(Matching(b)) <= 1

(* An entry that is not dirty, and so may be dropped at any time, holds    *)
(* what the device holds, unless the device failed.                        *)
CleanMatchesDisk == fault # "lost" =>
  \A i \in 1 .. Depth : Present(i) /\ ~IsDirty(i) => Entry(i).data = disk[Entry(i).block]

(* "Maximum age in microseconds of a write cache entry"                    *)
(* (blockdevice.h:11): housekeeping that succeeds leaves no older one.     *)
HousekeepingWritesBack ==
  [][Housekeeping /\ ec' = "OK" => Expired' = {}]_vars

(* A block that blkdev_is_erased reports as erased reads as FF, where the  *)
(* device erases: the flags in the cache do not contradict the data.       *)
ErasedReadsFF ==
  [][\A b \in Blocks : conf.erases /\ QueryErased(b) /\ ec' = "OK" /\ answer' = <<"erased", b, TRUE>> =>
       Content[b] = Whole(FF)]_vars

(* The cache holds one entry of a block at most, and an entry that is not  *)
(* dirty equals the block on the device, unless an I/O error has lost      *)
(* data.                                                                   *)
CacheSound == TypeOK /\ OneEntryPerBlock /\ CleanMatchesDisk

(* Housekeeping writes back every entry that is older than the time-out,   *)
(* and a block that reports itself erased reads as 0xff.                   *)
StepsSound == HousekeepingWritesBack /\ ErasedReadsFF

(* "Flush write caches and close block device" (blockdevice.h:30).         *)
CloseFlushes == ~open => DirtyEntries = {}

(* "Flush the write cache to the block device" (blockdevice.h:68): after a *)
(* flush without an error nothing is left to write.                        *)
FlushWritesAll == [][Flush /\ ec' = "OK" => DirtyEntries' = {}]_vars

(* "Explicitly erase a block" (blockdevice.h:43), then blkdev_is_erased    *)
(* holds: after an erasure that went to the cache its entry is erased.     *)
EraseErases ==
  [][\A b \in Blocks : Erase(b) /\ ec' = "OK" /\ Matching(b)' # {} =>
       Content'[b] = Whole(FF)]_vars

(* Clearing the flags "before operation for concurrency"                   *)
(* (blockdevice.c:28) does not cost a caller the data of a failed write.   *)
NothingLost == fault # "lost"

(* No call reads through the null pointer of a device without a cache, or  *)
(* writes past the end of the caller's buffer.                             *)
NoFault == fault \in {"none", "lost"}
=============================================================================
