----------------------------- MODULE WriteBack -----------------------------
(***************************************************************************)
(* The path of a write from the mounted filesystem to the host: the chunk  *)
(* cache, the table of dirty chunks and the background sync runner         *)
(* (crates/teleport-daemon/src/fuse.rs, cache.rs, sync_engine.rs,          *)
(* client.rs).                                                             *)
(*                                                                         *)
(* Three kinds of threads work on the same state: the FUSE thread, which   *)
(* serves one kernel call at a time; prefetch threads, which it spawns;    *)
(* and the sync runner.  Disk writes of the cache's second tier run in     *)
(* threads of their own.                                                   *)
(*                                                                         *)
(* Every write changes its own bytes of one chunk, so the data of a chunk  *)
(* is the set of the writes it contains and the host's file is right when  *)
(* its chunks contain every acknowledged write.  A write over several      *)
(* chunks is several writes.                                               *)
(***************************************************************************)
EXTENDS Naturals, Sequences

CONSTANTS
    Chunk,          \* ChunkIds: records with the fields inode and index
    MaxWrites,      \* how many writes applications make
    Batch,          \* chunks per round of the runner (10)
    Locked,         \* inodes on which this client holds a valid exclusive lock
    Prefetcher,     \* prefetch threads (MAX_PREFETCH_CONCURRENT)
    DiskThread,     \* disk write threads (MAX_DISK_WRITE_THREADS)
    Pressure,       \* whether other chunks compete for room in the cache
    None            \* no entry

ASSUME BoundsAssumption ==
    MaxWrites \in Nat /\ Batch \in Nat \ {0} /\ Pressure \in BOOLEAN

VARIABLES
    host,           \* host: the chunks of the shared files
    dirty,          \* SyncEngine::dirty_chunks
    modified,       \* the dirty chunks by modified_at, oldest first
    dirty_inodes,   \* SyncEngine::dirty_inodes
    ram,            \* HybridChunkCache::ram_cache
    disk,           \* HybridChunkCache::disk_cache
    disk_writes,    \* what the disk write threads are about to store
    fuse,           \* the call the FUSE thread is serving
    prefetch,       \* what the prefetch threads are doing
    round,          \* the runner's snapshot: chunks not dealt with yet
    upload,         \* the state of the upload of the first of them
    started,        \* number of writes begun
    acked,          \* for each chunk, the writes acknowledged so far
    overtaken       \* history: chunks written while in the runner's snapshot

engineVars == <<dirty, modified, dirty_inodes>>
cacheVars == <<ram, disk, disk_writes>>
runnerVars == <<round, upload>>
historyVars == <<started, acked, overtaken>>
vars == <<host, engineVars, cacheVars, fuse, prefetch, runnerVars, historyVars>>

Data == SUBSET (1 .. MaxWrites)

ASSUME NoneAssumption == \A data \in Data : data # None

Inodes == {c.inode : c \in Chunk}

IdleThread == [at |-> "idle"]

Copy == [chunk : Chunk, data : Data]

FuseCall ==
    {IdleThread}
    \cup [at : {"cache", "dirty", "fetch"}, op : {"read", "write"}, chunk : Chunk]
    \cup [at : {"fetched", "merge", "insert", "reply"}, op : {"read", "write"},
          chunk : Chunk, data : Data]

PrefetchCall ==
    {IdleThread} \cup [at : {"asked"}, chunk : Chunk]
                 \cup [at : {"got"}, chunk : Chunk, data : Data]

WBTypeOK ==
    /\ host \in [Chunk -> Data]
    /\ dirty \in [Chunk -> Data \cup {None}]
    /\ modified \in Seq(Chunk)
    /\ dirty_inodes \subseteq Inodes
    /\ ram \in [Chunk -> Data \cup {None}]
    /\ disk \in [Chunk -> Data \cup {None}]
    /\ disk_writes \in [DiskThread -> Copy \cup {None}]
    /\ fuse \in FuseCall
    /\ prefetch \in [Prefetcher -> PrefetchCall]
    /\ round \in Seq(Copy)
    /\ upload \in {"idle", "sent", "stored", "failed"}
    /\ upload = "idle" <=> round = <<>>
    /\ started \in 0 .. MaxWrites
    /\ acked \in [Chunk -> Data]
    /\ overtaken \subseteq Chunk

WBInit ==
    /\ host = [c \in Chunk |-> {}]
    /\ dirty = [c \in Chunk |-> None]
    /\ modified = <<>>
    /\ dirty_inodes = {}
    /\ ram = [c \in Chunk |-> None]
    /\ disk = [c \in Chunk |-> None]
    /\ disk_writes = [d \in DiskThread |-> None]
    /\ fuse = IdleThread
    /\ prefetch = [p \in Prefetcher |-> IdleThread]
    /\ round = <<>>
    /\ upload = "idle"
    /\ started = 0
    /\ acked = [c \in Chunk |-> {}]
    /\ overtaken = {}
-----------------------------------------------------------------------------
(* SyncEngine *)

(* The order of the dirty chunks without c, which is in it at most once. *)
Without(order, c) ==
    LET k == CHOOSE j \in 1 .. Len(order) : order[j] = c
    IN  IF \E j \in 1 .. Len(order) : order[j] = c
        THEN [j \in 1 .. Len(order) - 1 |-> order[IF j < k THEN j ELSE j + 1]]
        ELSE order

(* Seeded fault: an entry that exists is left as it is. *)
MarkDirtyOnce(c, data) ==
    /\ dirty' = [dirty EXCEPT ![c] = IF @ = None THEN data ELSE @]
    /\ modified' = Append(Without(modified, c), c)
    /\ dirty_inodes' = dirty_inodes \cup {c.inode}

MarkDirty(c, data) ==
    /\ dirty' = [dirty EXCEPT ![c] = data]
    /\ modified' = Append(Without(modified, c), c)
    /\ dirty_inodes' = dirty_inodes \cup {c.inode}

(* Seeded fault: the other chunks of the file are not looked at. *)
MarkSyncedFile(c) ==
    /\ dirty' = [dirty EXCEPT ![c] = None]
    /\ modified' = Without(modified, c)
    /\ dirty_inodes' = dirty_inodes \ {c.inode}

(* mark_synced removes the entry, whatever data it has by now. *)
MarkSynced(c) ==
    /\ dirty' = [dirty EXCEPT ![c] = None]
    /\ modified' = Without(modified, c)
    /\ dirty_inodes' =
          IF \E d \in Chunk \ {c} : d.inode = c.inode /\ dirty[d] # None
          THEN dirty_inodes ELSE dirty_inodes \ {c.inode}

ChunksToSync ==
    LET oldest == SubSeq(modified, 1, IF Len(modified) < Batch
                                      THEN Len(modified) ELSE Batch)
    IN  [k \in 1 .. Len(oldest) |-> [chunk |-> oldest[k], data |-> dirty[oldest[k]]]]
-----------------------------------------------------------------------------
(* HybridChunkCache *)

(* insert: RAM at once, disk by a thread if one is free, otherwise not. *)
CacheInsert(c, data) ==
    /\ ram' = [ram EXCEPT ![c] = data]
    /\ \/ \E d \in DiskThread :
             /\ disk_writes[d] = None
             /\ disk_writes' = [disk_writes EXCEPT ![d] = [chunk |-> c, data |-> data]]
       \/ /\ \A d \in DiskThread : disk_writes[d] # None
          /\ UNCHANGED disk_writes
    /\ UNCHANGED disk

Cached(c) == ram[c] # None \/ disk[c] # None

CacheGet(c) == IF ram[c] # None THEN ram[c] ELSE disk[c]

(* get, on a hit: a chunk found on disk is promoted to RAM. *)
Promote(c) ==
    /\ ram' = [ram EXCEPT ![c] = CacheGet(c)]
    /\ UNCHANGED <<disk, disk_writes>>

(* A disk write thread stores its copy; a failing write stores nothing. *)
DiskWrite(d) ==
    /\ disk_writes[d] # None
    /\ disk_writes' = [disk_writes EXCEPT ![d] = None]
    /\ \/ disk' = [disk EXCEPT ![disk_writes[d].chunk] = disk_writes[d].data]
       \/ UNCHANGED disk
    /\ UNCHANGED <<host, engineVars, ram, fuse, prefetch, runnerVars, historyVars>>

(* LRU eviction from RAM to make room for chunks not looked at here. *)
EvictRam(c) ==
    /\ Pressure
    /\ ram[c] # None
    /\ ram' = [ram EXCEPT ![c] = None]
    /\ UNCHANGED <<host, engineVars, disk, disk_writes, fuse, prefetch, runnerVars,
                   historyVars>>

(* The disk cache's garbage collector does the same on disk. *)
EvictDisk(c) ==
    /\ Pressure
    /\ disk[c] # None
    /\ disk' = [disk EXCEPT ![c] = None]
    /\ UNCHANGED <<host, engineVars, ram, disk_writes, fuse, prefetch, runnerVars,
                   historyVars>>
-----------------------------------------------------------------------------
(* The FUSE thread.  A write needs the chunk it changes: from the cache,   *)
(* else the dirty table, else fetch_chunk, which asks the cache once more  *)
(* and then the host.  A read only calls fetch_chunk.                      *)

StartWrite(c) ==
    /\ fuse = IdleThread
    /\ started < MaxWrites
    /\ started' = started + 1
    /\ fuse' = [at |-> "cache", op |-> "write", chunk |-> c]
    /\ UNCHANGED <<host, engineVars, cacheVars, prefetch, runnerVars, acked, overtaken>>

StartRead(c) ==
    /\ fuse = IdleThread
    /\ fuse' = [at |-> "fetch", op |-> "read", chunk |-> c]
    /\ UNCHANGED <<host, engineVars, cacheVars, prefetch, runnerVars, historyVars>>

(* The data is at hand: a read replies with it, a write merges into it. *)
Obtained(data) ==
    fuse' = [at |-> IF fuse.op = "read" THEN "reply" ELSE "merge",
             op |-> fuse.op, chunk |-> fuse.chunk, data |-> data]

LookInCache ==
    /\ fuse.at \in {"cache", "fetch"}
    /\ Cached(fuse.chunk)
    /\ Obtained(CacheGet(fuse.chunk))
    /\ Promote(fuse.chunk)
    /\ UNCHANGED <<host, engineVars, prefetch, runnerVars, historyVars>>

MissInCache ==
    /\ fuse.at = "cache"
    /\ ~Cached(fuse.chunk)
    /\ fuse' = [fuse EXCEPT !.at = "dirty"]
    /\ UNCHANGED <<host, engineVars, cacheVars, prefetch, runnerVars, historyVars>>

LookInDirty ==
    /\ fuse.at = "dirty"
    /\ IF dirty[fuse.chunk] # None
       THEN Obtained(dirty[fuse.chunk])
       ELSE fuse' = [fuse EXCEPT !.at = "fetch"]
    /\ UNCHANGED <<host, engineVars, cacheVars, prefetch, runnerVars, historyVars>>

(* bridge.read: the host reads the chunk at some moment of the call ... *)
FetchFromHost ==
    /\ fuse.at = "fetch"
    /\ ~Cached(fuse.chunk)
    /\ fuse' = [at |-> "fetched", op |-> fuse.op, chunk |-> fuse.chunk,
                data |-> host[fuse.chunk]]
    /\ UNCHANGED <<host, engineVars, cacheVars, prefetch, runnerVars, historyVars>>

(* ... and the answer goes into the cache. *)
FetchInsert ==
    /\ fuse.at = "fetched"
    /\ CacheInsert(fuse.chunk, fuse.data)
    /\ Obtained(fuse.data)
    /\ UNCHANGED <<host, engineVars, prefetch, runnerVars, historyVars>>

(* The call to the host fails and the kernel call with it. *)
FetchFails ==
    /\ fuse.at = "fetch"
    /\ ~Cached(fuse.chunk)
    /\ fuse' = IdleThread
    /\ UNCHANGED <<host, engineVars, cacheVars, prefetch, runnerVars, historyVars>>

(* FuseError::NotFound: a write to a file the host does not have, in which *)
(* there can be no write yet, starts from an empty chunk.                  *)
FetchNotFound ==
    /\ fuse.at = "fetch" /\ fuse.op = "write"
    /\ ~Cached(fuse.chunk)
    /\ host[fuse.chunk] = {}
    /\ Obtained({})
    /\ UNCHANGED <<host, engineVars, cacheVars, prefetch, runnerVars, historyVars>>

InRound(c) == \E k \in 1 .. Len(round) : round[k].chunk = c

(* Seeded fault: the dirty chunk is built from the written bytes alone. *)
WriteMarkDirtyBlank ==
    /\ fuse.at = "merge"
    /\ MarkDirty(fuse.chunk, {started})
    /\ fuse' = [fuse EXCEPT !.at = "insert", !.data = @ \cup {started}]
    /\ overtaken' = IF InRound(fuse.chunk) THEN overtaken \cup {fuse.chunk}
                                           ELSE overtaken
    /\ UNCHANGED <<host, cacheVars, prefetch, runnerVars, started, acked>>

WriteMarkDirty ==
    LET data == fuse.data \cup {started}
    IN  /\ fuse.at = "merge"
        /\ MarkDirty(fuse.chunk, data)
        /\ fuse' = [fuse EXCEPT !.at = "insert", !.data = data]
        /\ overtaken' = IF InRound(fuse.chunk) THEN overtaken \cup {fuse.chunk}
                                               ELSE overtaken
        /\ UNCHANGED <<host, cacheVars, prefetch, runnerVars, started, acked>>

(* Seeded fault: the cache keeps the chunk as it was fetched. *)
WriteInsertNot ==
    /\ fuse.at = "insert"
    /\ acked' = [acked EXCEPT ![fuse.chunk] = @ \cup {started}]
    /\ fuse' = IdleThread
    /\ UNCHANGED <<host, engineVars, cacheVars, prefetch, runnerVars, started, overtaken>>

WriteInsert ==
    /\ fuse.at = "insert"
    /\ CacheInsert(fuse.chunk, fuse.data)
    /\ acked' = [acked EXCEPT ![fuse.chunk] = @ \cup {started}]
    /\ fuse' = IdleThread
    /\ UNCHANGED <<host, engineVars, prefetch, runnerVars, started, overtaken>>

ReadReply ==
    /\ fuse.at = "reply"
    /\ fuse' = IdleThread
    /\ UNCHANGED <<host, engineVars, cacheVars, prefetch, runnerVars, historyVars>>
-----------------------------------------------------------------------------
(* Prefetch threads: spawned at the start of a read for later chunks of    *)
(* the file (the governor's choice) that are not cached, they fetch and    *)
(* insert on their own.                                                    *)

SpawnPrefetch(p, c) ==
    /\ fuse.at = "fetch" /\ fuse.op = "read"
    /\ c.inode = fuse.chunk.inode /\ c.index > fuse.chunk.index
    /\ prefetch[p] = IdleThread
    /\ ~Cached(c)
    /\ prefetch' = [prefetch EXCEPT ![p] = [at |-> "asked", chunk |-> c]]
    /\ UNCHANGED <<host, engineVars, cacheVars, fuse, runnerVars, historyVars>>

PrefetchRead(p) ==
    /\ prefetch[p].at = "asked"
    /\ \/ prefetch' = [prefetch EXCEPT ![p] =
             [at |-> "got", chunk |-> @.chunk, data |-> host[@.chunk]]]
       \/ prefetch' = [prefetch EXCEPT ![p] = IdleThread]
    /\ UNCHANGED <<host, engineVars, cacheVars, fuse, runnerVars, historyVars>>

PrefetchInsert(p) ==
    /\ prefetch[p].at = "got"
    /\ CacheInsert(prefetch[p].chunk, prefetch[p].data)
    /\ prefetch' = [prefetch EXCEPT ![p] = IdleThread]
    /\ UNCHANGED <<host, engineVars, fuse, runnerVars, historyVars>>
-----------------------------------------------------------------------------
(* The sync runner. *)

StartRound ==
    /\ upload = "idle" /\ round = <<>>
    /\ modified # <<>>
    /\ round' = ChunksToSync
    /\ upload' = "sent"
    /\ UNCHANGED <<host, engineVars, cacheVars, fuse, prefetch, historyVars>>

(* The host's answer to WriteChunk: the token of a lock opens the file,    *)
(* the default token sent without one does not.                            *)
HostStores ==
    /\ upload = "sent"
    /\ Head(round).chunk.inode \in Locked
    /\ host' = [host EXCEPT ![Head(round).chunk] = Head(round).data]
    /\ upload' = "stored"
    /\ UNCHANGED <<engineVars, cacheVars, fuse, prefetch, round, historyVars>>

(* LockRequired, an I/O error on the host or an error of the connection    *)
(* before the host has stored the chunk ...                                *)
HostRefuses ==
    /\ upload = "sent"
    /\ upload' = "failed"
    /\ UNCHANGED <<host, engineVars, cacheVars, fuse, prefetch, round, historyVars>>

(* ... or after it: the answer does not arrive. *)
AnswerLost ==
    /\ upload = "stored"
    /\ upload' = "failed"
    /\ UNCHANGED <<host, engineVars, cacheVars, fuse, prefetch, round, historyVars>>

NextUpload ==
    /\ round' = Tail(round)
    /\ upload' = IF Len(round) > 1 THEN "sent" ELSE "idle"

UploadDone ==
    /\ upload = "stored"
    /\ MarkSynced(Head(round).chunk)
    /\ NextUpload
    /\ UNCHANGED <<host, cacheVars, fuse, prefetch, historyVars>>

(* Seeded fault: the runner's loop ends with the first failed upload. *)
UploadFailedEnds ==
    /\ upload = "failed"
    /\ UNCHANGED vars

(* mark_sync_failed only counts: the chunk stays dirty and keeps its age. *)
UploadFailed ==
    /\ upload = "failed"
    /\ NextUpload
    /\ UNCHANGED <<host, engineVars, cacheVars, fuse, prefetch, historyVars>>
-----------------------------------------------------------------------------
FuseThread ==
    \/ LookInCache \/ MissInCache \/ LookInDirty
    \/ FetchFromHost \/ FetchInsert \/ FetchFails \/ FetchNotFound
    \/ WriteMarkDirty \/ WriteInsert \/ ReadReply

Runner ==
    \/ StartRound \/ HostStores \/ HostRefuses \/ AnswerLost
    \/ UploadDone \/ UploadFailed

WBNext ==
    \/ \E c \in Chunk : StartWrite(c) \/ StartRead(c)
    \/ FuseThread
    \/ \E p \in Prefetcher, c \in Chunk : SpawnPrefetch(p, c)
    \/ \E p \in Prefetcher : PrefetchRead(p) \/ PrefetchInsert(p)
    \/ Runner
    \/ \E d \in DiskThread : DiskWrite(d)
    \/ \E c \in Chunk : EvictRam(c) \/ EvictDisk(c)

WBSpec == WBInit /\ [][WBNext]_vars

(* The runner's loop and the threads are scheduled; an upload the host may *)
(* accept is not refused for ever, nor is its answer lost every time (the  *)
(* connection works now and then).                                         *)
WBFairness ==
    /\ WF_vars(Runner)
    /\ WF_vars(FuseThread)
    /\ \A c \in Chunk : /\ SF_vars(HostStores /\ Head(round).chunk = c)
                        /\ SF_vars(UploadDone /\ Head(round).chunk = c)

WBFairSpec == WBSpec /\ WBFairness
-----------------------------------------------------------------------------
(* The quick lookup has_dirty_chunks(inode) agrees with the table, through *)
(* every interleaving of writes and completed uploads.                     *)
DirtyInodesExact ==
    dirty_inodes = {c.inode : c \in {d \in Chunk : dirty[d] # None}}

(* Every dirty chunk has one place in the order of upload, and nothing     *)
(* else has: get_chunks_to_sync passes over no chunk and takes none twice. *)
EachDirtyOnce ==
    /\ \A j, k \in 1 .. Len(modified) : modified[j] = modified[k] => j = k
    /\ \A c \in Chunk :
          dirty[c] # None <=> \E k \in 1 .. Len(modified) : modified[k] = c

(* The bookkeeping of the sync engine is in order: the tables are well-    *)
(* formed, has_dirty_chunks answers what the dirty table says and every    *)
(* dirty chunk has its turn.                                               *)
WBInv == WBTypeOK /\ DirtyInodesExact /\ EachDirtyOnce

Newest(c) == CHOOSE w \in acked[c] : \A v \in acked[c] : v <= w

(* Whatever the caches do, the newest acknowledged write of a chunk is on  *)
(* the host or waiting to be uploaded, unless it was made while an older   *)
(* version of the chunk was being uploaded, or a newer write of the chunk  *)
(* is about to be acknowledged.                                            *)
NewestWriteKept ==
    \A c \in Chunk \ overtaken :
        acked[c] # {} =>
            \/ fuse.at = "insert" /\ fuse.chunk = c
            \/ Newest(c) \in host[c]
            \/ dirty[c] # None /\ Newest(c) \in dirty[c]

(* With room in the cache and no prefetching, a read returns every write   *)
(* acknowledged before it.                                                 *)
ReadYourWrites == fuse.at = "reply" => acked[fuse.chunk] \subseteq fuse.data

(* Every acknowledged write is on the host or waiting to be uploaded,      *)
(* apart from chunks written during their own upload.                      *)
NoWriteLostUnlessOvertaken ==
    \A c \in Chunk \ overtaken :
        acked[c] \subseteq host[c] \cup (IF dirty[c] = None THEN {} ELSE dirty[c])

(* A dirty chunk of a locked file is uploaded in the end. *)
LockedDrains ==
    \A c \in Chunk : c.inode \in Locked => (dirty[c] # None ~> dirty[c] = None)
-----------------------------------------------------------------------------
(* An acknowledged write is on the host or marked dirty, to be synced      *)
(* later (fuse.rs write).                                                  *)
NoWriteLost ==
    \A c \in Chunk :
        acked[c] \subseteq host[c] \cup (IF dirty[c] = None THEN {} ELSE dirty[c])
=============================================================================
