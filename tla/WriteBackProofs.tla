-------------------------- MODULE WriteBackProofs --------------------------
(***************************************************************************)
(* Proofs about the write-back path, for any files, any number of writes,  *)
(* any batch size, any locks and any number of threads.                    *)
(*                                                                         *)
(* The argument: a chunk that was not written during its own upload has    *)
(* in the runner's snapshot exactly the data of the dirty table, so that   *)
(* what mark_synced removes from the table is what the host has stored.    *)
(***************************************************************************)
EXTENDS WriteBack, SequenceTheorems, TLAPS

(* The runner's snapshot names each chunk once, is up to date for chunks   *)
(* not overtaken, and an upload that was stored is on the host.            *)
RoundInv ==
    /\ \A j, k \in 1 .. Len(round) : round[j].chunk = round[k].chunk => j = k
    /\ \A k \in 1 .. Len(round) :
          round[k].chunk \notin overtaken => dirty[round[k].chunk] = round[k].data
    /\ upload = "stored" => host[Head(round).chunk] = Head(round).data

(* Where the write being served and the acknowledged ones are. *)
WriteInv ==
    /\ \A c \in Chunk : acked[c] \subseteq 1 .. started
    /\ fuse.at # "idle" /\ fuse.op = "write" => started >= 1
    /\ fuse.at \in {"merge", "insert"} => fuse.op = "write"

(* What the host will have of a chunk once it is uploaded. *)
Latest(c) == IF dirty[c] # None THEN dirty[c] ELSE host[c]

Inserting(c) == fuse.at = "insert" /\ fuse.chunk = c

NewestInv ==
    \A c \in Chunk \ overtaken :
        /\ Inserting(c) => started \in Latest(c)
        /\ ~Inserting(c) /\ acked[c] # {} => Newest(c) \in Latest(c)

(* The inductive invariant. *)
WBInd == WBInv /\ RoundInv /\ WriteInv /\ NewestInv

(* There is room in the cache and prefetching is off; disk write threads   *)
(* may be as many as they like.                                            *)
Calm == Prefetcher = {} /\ Pressure = FALSE

(* Then every chunk with acknowledged writes stays in RAM, with all of     *)
(* them.                                                                   *)
CacheInv ==
    /\ \A c \in Chunk : disk[c] # None => ram[c] # None
    /\ \A d \in DiskThread : disk_writes[d] # None => ram[disk_writes[d].chunk] # None
    /\ \A c \in Chunk : IF ram[c] = None THEN acked[c] = {} ELSE acked[c] \subseteq ram[c]
    /\ fuse.at \in {"fetched", "merge", "insert", "reply"} =>
          acked[fuse.chunk] \subseteq fuse.data
    /\ fuse.at = "insert" => started \in fuse.data
    /\ fuse.at = "dirty" => ram[fuse.chunk] = None

KeptInv == \A c \in Chunk \ overtaken : acked[c] \subseteq Latest(c)

CalmInd == WBInd /\ CacheInv /\ KeptInv
-----------------------------------------------------------------------------
(* Where the FUSE thread is tells the fields of its call. *)
LEMMA FuseFields ==
    ASSUME WBTypeOK
    PROVE  /\ fuse.at \in {"idle", "cache", "dirty", "fetch", "fetched", "merge",
                           "insert", "reply"}
           /\ fuse.at # "idle" => fuse.op \in {"read", "write"} /\ fuse.chunk \in Chunk
           /\ fuse.at \in {"cache", "dirty", "fetch"} =>
                 fuse = [at |-> fuse.at, op |-> fuse.op, chunk |-> fuse.chunk]
           /\ fuse.at \in {"fetched", "merge", "insert", "reply"} =>
                 /\ fuse.data \in Data
                 /\ fuse = [at |-> fuse.at, op |-> fuse.op, chunk |-> fuse.chunk,
                            data |-> fuse.data]
  BY DEF WBTypeOK, FuseCall, IdleThread

Distinct(s) == \A j, k \in 1 .. Len(s) : s[j] = s[k] => j = k

Lists(s, c) == \E j \in 1 .. Len(s) : s[j] = c

(* Taking a chunk out of the order leaves the others in it, once each. *)
LEMMA WithoutFacts ==
    ASSUME NEW S, NEW order \in Seq(S), Distinct(order), NEW c
    PROVE  /\ Without(order, c) \in Seq(S)
           /\ Distinct(Without(order, c))
           /\ \A d : Lists(Without(order, c), d) <=> d # c /\ Lists(order, d)
  <1>1. CASE ~Lists(order, c)
    BY <1>1 DEF Without, Lists
  <1>2. CASE Lists(order, c)
    <2>. DEFINE n == Len(order)
                k == CHOOSE j \in 1 .. n : order[j] = c
                w == [j \in 1 .. n - 1 |-> order[IF j < k THEN j ELSE j + 1]]
    <2>1. n \in Nat /\ k \in 1 .. n /\ order[k] = c
      BY <1>2 DEF Lists
    <2>2. Without(order, c) = w
      BY <1>2 DEF Without, Lists
    <2>3. n - 1 \in Nat /\ \A j \in 1 .. n - 1 : w[j] \in S
      BY <2>1, ElementOfSeq
    <2>4. w \in Seq(S) /\ Len(w) = n - 1
      BY <2>3
    <2>5. \A j \in 1 .. n - 1 : /\ j < k => j \in 1 .. n /\ w[j] = order[j]
                                /\ j >= k => j + 1 \in 1 .. n /\ w[j] = order[j + 1]
      BY <2>1
    <2>6. Distinct(w)
      BY <2>1, <2>4, <2>5 DEF Distinct
    <2>7. ASSUME NEW d, Lists(w, d)
          PROVE  d # c /\ Lists(order, d)
      BY <2>1, <2>4, <2>5, <2>7 DEF Lists, Distinct
    <2>8. ASSUME NEW d, d # c, Lists(order, d)
          PROVE  Lists(w, d)
      <3>1. PICK j \in 1 .. n : order[j] = d
        BY <2>8 DEF Lists
      <3>2. CASE j < k
        <4>1. j \in 1 .. n - 1 /\ w[j] = order[j]
          BY <2>1, <2>5, <3>1, <3>2
        <4>. QED
          BY <2>4, <3>1, <4>1 DEF Lists
      <3>3. CASE j > k
        <4>1. j - 1 \in 1 .. n - 1 /\ w[j - 1] = order[j]
          BY <2>1, <2>5, <3>1, <3>3
        <4>. QED
          BY <2>4, <3>1, <4>1 DEF Lists
      <3>4. j # k
        BY <2>1, <2>8, <3>1
      <3>. QED
        BY <2>1, <3>2, <3>3, <3>4
    <2>. HIDE DEF w
    <2>. QED
      BY <2>2, <2>4, <2>6, <2>7, <2>8
  <1>. QED
    BY <1>1, <1>2

LEMMA AppendFacts ==
    ASSUME NEW S, NEW order \in Seq(S), Distinct(order), NEW c \in S, ~Lists(order, c)
    PROVE  /\ Append(order, c) \in Seq(S)
           /\ Distinct(Append(order, c))
           /\ \A d : Lists(Append(order, c), d) <=> d = c \/ Lists(order, d)
  <1>. DEFINE a == Append(order, c)
              n == Len(order)
  <1>1. /\ a \in Seq(S) /\ Len(a) = n + 1 /\ n \in Nat
        /\ \A i \in 1 .. n : a[i] = order[i]
        /\ a[n + 1] = c
    BY AppendProperties, LenProperties
  <1>. HIDE DEF a
  <1>2. \A i \in 1 .. n + 1 : i \in 1 .. n \/ i = n + 1
    BY <1>1
  <1>3. \A d : Lists(a, d) => d = c \/ Lists(order, d)
    BY <1>1, <1>2 DEF Lists
  <1>4. Lists(a, c) /\ \A d : Lists(order, d) => Lists(a, d)
    BY <1>1 DEF Lists
  <1>5. Distinct(a)
    BY <1>1, <1>2 DEF Distinct, Lists
  <1>. QED
    BY <1>1, <1>3, <1>4, <1>5 DEF a
-----------------------------------------------------------------------------
(* The sync engine. *)

LEMMA OnceIsDistinct ==
    EachDirtyOnce <=> /\ Distinct(modified)
                      /\ \A c \in Chunk : dirty[c] # None <=> Lists(modified, c)
  BY DEF EachDirtyOnce, Distinct, Lists

EngineTypeOK ==
    /\ dirty \in [Chunk -> Data \cup {None}]
    /\ modified \in Seq(Chunk)
    /\ dirty_inodes \subseteq Inodes

LEMMA MarkDirtyFacts ==
    ASSUME WBInv, NEW c \in Chunk, NEW data \in Data, MarkDirty(c, data)
    PROVE  /\ EngineTypeOK' /\ DirtyInodesExact' /\ EachDirtyOnce'
           /\ dirty'[c] = data /\ \A d \in Chunk \ {c} : dirty'[d] = dirty[d]
  <1>1. /\ dirty \in [Chunk -> Data \cup {None}] /\ modified \in Seq(Chunk)
        /\ dirty_inodes \subseteq Inodes
    BY DEF WBInv, WBTypeOK
  <1>2. /\ dirty'[c] = data /\ data # None
        /\ \A d \in Chunk \ {c} : dirty'[d] = dirty[d]
        /\ dirty' \in [Chunk -> Data \cup {None}]
    BY <1>1, NoneAssumption DEF MarkDirty
  <1>. DEFINE rest == Without(modified, c)
  <1>3. /\ rest \in Seq(Chunk) /\ Distinct(rest)
        /\ \A d : Lists(rest, d) <=> d # c /\ Lists(modified, d)
    BY <1>1, WithoutFacts, OnceIsDistinct DEF WBInv
  <1>4. /\ Append(rest, c) \in Seq(Chunk) /\ Distinct(Append(rest, c))
        /\ \A d : Lists(Append(rest, c), d) <=> d = c \/ Lists(rest, d)
    BY <1>3, AppendFacts
  <1>5. modified' = Append(rest, c)
    BY DEF MarkDirty
  <1>. HIDE DEF rest
  <1>6. \A d \in Chunk : dirty'[d] # None <=> Lists(modified', d)
    BY <1>2, <1>3, <1>4, <1>5, OnceIsDistinct DEF WBInv
  <1>7. EachDirtyOnce'
    <2>1. Distinct(modified')
      BY <1>4, <1>5
    <2>. QED
      BY <1>6, <2>1 DEF EachDirtyOnce, Distinct, Lists
  <1>8. dirty_inodes' \subseteq Inodes
    BY <1>1 DEF MarkDirty, Inodes
  <1>9. DirtyInodesExact'
    BY <1>2 DEF MarkDirty, WBInv, DirtyInodesExact
  <1>. QED
    BY <1>2, <1>4, <1>5, <1>7, <1>8, <1>9 DEF EngineTypeOK

LEMMA MarkSyncedFacts ==
    ASSUME WBInv, NEW c \in Chunk, MarkSynced(c)
    PROVE  /\ EngineTypeOK' /\ DirtyInodesExact' /\ EachDirtyOnce'
           /\ dirty'[c] = None /\ \A d \in Chunk \ {c} : dirty'[d] = dirty[d]
  <1>1. /\ dirty \in [Chunk -> Data \cup {None}] /\ modified \in Seq(Chunk)
        /\ dirty_inodes \subseteq Inodes
    BY DEF WBInv, WBTypeOK
  <1>2. /\ dirty'[c] = None
        /\ \A d \in Chunk \ {c} : dirty'[d] = dirty[d]
        /\ dirty' \in [Chunk -> Data \cup {None}]
    BY <1>1 DEF MarkSynced
  <1>3. /\ modified' \in Seq(Chunk) /\ Distinct(modified')
        /\ \A d : Lists(modified', d) <=> d # c /\ Lists(modified, d)
    BY <1>1, WithoutFacts, OnceIsDistinct DEF WBInv, MarkSynced
  <1>4. \A d \in Chunk : dirty'[d] # None <=> Lists(modified', d)
    BY <1>2, <1>3, OnceIsDistinct DEF WBInv
  <1>5. EachDirtyOnce'
    BY <1>3, <1>4 DEF EachDirtyOnce, Distinct, Lists
  <1>6. dirty_inodes' \subseteq Inodes
    BY <1>1 DEF MarkSynced
  <1>7. DirtyInodesExact'
    <2>1. dirty_inodes = {d.inode : d \in {e \in Chunk : dirty[e] # None}}
      BY DEF WBInv, DirtyInodesExact
    <2>2. CASE \E d \in Chunk \ {c} : d.inode = c.inode /\ dirty[d] # None
      BY <1>2, <2>1, <2>2 DEF MarkSynced, DirtyInodesExact
    <2>3. CASE \A d \in Chunk \ {c} : ~(d.inode = c.inode /\ dirty[d] # None)
      BY <1>2, <2>1, <2>3 DEF MarkSynced, DirtyInodesExact
    <2>. QED
      BY <2>2, <2>3
  <1>. QED
    BY <1>2, <1>3, <1>5, <1>6, <1>7 DEF EngineTypeOK
-----------------------------------------------------------------------------
(* Steps that leave the engine, the runner and the host alone. *)

LEMMA CacheInsertTypes ==
    ASSUME WBTypeOK, NEW c \in Chunk, NEW data \in Data, CacheInsert(c, data)
    PROVE  /\ ram' \in [Chunk -> Data \cup {None}]
           /\ disk' \in [Chunk -> Data \cup {None}]
           /\ disk_writes' \in [DiskThread -> Copy \cup {None}]
  <1>1. [chunk |-> c, data |-> data] \in Copy
    BY DEF Copy
  <1>2. disk_writes' \in [DiskThread -> Copy \cup {None}]
    BY <1>1 DEF WBTypeOK, CacheInsert
  <1>. QED
    BY <1>2 DEF WBTypeOK, CacheInsert

LEMMA CacheGetType ==
    ASSUME WBTypeOK, NEW c \in Chunk, Cached(c)
    PROVE  CacheGet(c) \in Data
  BY DEF WBTypeOK, Cached, CacheGet

(* A step of the caches or of the prefetch threads. *)
LEMMA CacheStep ==
    ASSUME WBInd, WBTypeOK', UNCHANGED <<host, engineVars, fuse, runnerVars, historyVars>>
    PROVE  WBInd'
  <1>1. WBInv'
    BY DEF WBInd, WBInv, engineVars, DirtyInodesExact, EachDirtyOnce
  <1>2. RoundInv'
    BY DEF WBInd, RoundInv, engineVars, runnerVars, historyVars
  <1>3. WriteInv'
    BY DEF WBInd, WriteInv, historyVars
  <1>4. NewestInv'
    BY DEF WBInd, NewestInv, Inserting, Latest, Newest, engineVars, historyVars
  <1>. QED
    BY <1>1, <1>2, <1>3, <1>4 DEF WBInd

(* A step of the FUSE thread on its way to the data of the chunk. *)
LEMMA FuseStep ==
    ASSUME WBInd, WBTypeOK', WriteInv', UNCHANGED <<host, engineVars, runnerVars, acked, overtaken>>,
           fuse.at # "insert", fuse'.at # "insert"
    PROVE  WBInd'
  <1>1. WBInv'
    BY DEF WBInd, WBInv, engineVars, DirtyInodesExact, EachDirtyOnce
  <1>2. RoundInv'
    BY DEF WBInd, RoundInv, engineVars, runnerVars
  <1>3. NewestInv'
    BY DEF WBInd, NewestInv, Inserting, Latest, Newest, engineVars
  <1>. QED
    BY <1>1, <1>2, <1>3 DEF WBInd

LEMMA DiskWriteInd ==
    ASSUME WBInd, NEW d \in DiskThread, DiskWrite(d)
    PROVE  WBInd'
  <1>1. WBTypeOK'
    BY DEF WBInd, WBInv, WBTypeOK, DiskWrite, Copy, engineVars, runnerVars, historyVars
  <1>. QED
    BY <1>1, CacheStep DEF DiskWrite

LEMMA EvictRamInd ==
    ASSUME WBInd, NEW c \in Chunk, EvictRam(c)
    PROVE  WBInd'
  <1>1. WBTypeOK'
    BY DEF WBInd, WBInv, WBTypeOK, EvictRam, engineVars, runnerVars, historyVars
  <1>. QED
    BY <1>1, CacheStep DEF EvictRam

LEMMA EvictDiskInd ==
    ASSUME WBInd, NEW c \in Chunk, EvictDisk(c)
    PROVE  WBInd'
  <1>1. WBTypeOK'
    BY DEF WBInd, WBInv, WBTypeOK, EvictDisk, engineVars, runnerVars, historyVars
  <1>. QED
    BY <1>1, CacheStep DEF EvictDisk

LEMMA SpawnPrefetchInd ==
    ASSUME WBInd, NEW p \in Prefetcher, NEW c \in Chunk, SpawnPrefetch(p, c)
    PROVE  WBInd'
  <1>1. prefetch' \in [Prefetcher -> PrefetchCall]
    BY DEF WBInd, WBInv, WBTypeOK, SpawnPrefetch, PrefetchCall
  <1>2. WBTypeOK'
    BY <1>1 DEF WBInd, WBInv, WBTypeOK, SpawnPrefetch, cacheVars, engineVars, runnerVars,
                historyVars
  <1>. QED
    BY <1>2, CacheStep DEF SpawnPrefetch

LEMMA PrefetchReadInd ==
    ASSUME WBInd, NEW p \in Prefetcher, PrefetchRead(p)
    PROVE  WBInd'
  <1>1. prefetch' \in [Prefetcher -> PrefetchCall]
    BY DEF WBInd, WBInv, WBTypeOK, PrefetchRead, PrefetchCall, IdleThread
  <1>2. WBTypeOK'
    BY <1>1 DEF WBInd, WBInv, WBTypeOK, PrefetchRead, cacheVars, engineVars, runnerVars,
                historyVars
  <1>. QED
    BY <1>2, CacheStep DEF PrefetchRead

LEMMA PrefetchInsertInd ==
    ASSUME WBInd, NEW p \in Prefetcher, PrefetchInsert(p)
    PROVE  WBInd'
  <1>1. prefetch' \in [Prefetcher -> PrefetchCall]
    BY DEF WBInd, WBInv, WBTypeOK, PrefetchInsert, PrefetchCall, IdleThread
  <1>2. prefetch[p].chunk \in Chunk /\ prefetch[p].data \in Data
    BY DEF WBInd, WBInv, WBTypeOK, PrefetchInsert, PrefetchCall, IdleThread
  <1>3. WBTypeOK'
    BY <1>1, <1>2, CacheInsertTypes
    DEF WBInd, WBInv, WBTypeOK, PrefetchInsert, engineVars, runnerVars, historyVars
  <1>. QED
    BY <1>3, CacheStep DEF PrefetchInsert
-----------------------------------------------------------------------------
(* The FUSE thread. *)

LEMMA StartWriteInd ==
    ASSUME WBInd, NEW c \in Chunk, StartWrite(c)
    PROVE  WBInd'
  <1>1. fuse' \in FuseCall /\ fuse.at = "idle" /\ fuse'.at = "cache" /\ fuse'.op = "write"
    BY DEF StartWrite, FuseCall, IdleThread
  <1>2. started \in Nat /\ started' = started + 1 /\ started' \in 0 .. MaxWrites
    BY BoundsAssumption DEF WBInd, WBInv, WBTypeOK, StartWrite
  <1>3. WBTypeOK'
    BY <1>1, <1>2 DEF WBInd, WBInv, WBTypeOK, StartWrite, cacheVars, engineVars, runnerVars
  <1>4. WriteInv'
    BY <1>1, <1>2 DEF WBInd, WriteInv, StartWrite
  <1>. QED
    BY <1>1, <1>3, <1>4, FuseStep DEF StartWrite

LEMMA StartReadInd ==
    ASSUME WBInd, NEW c \in Chunk, StartRead(c)
    PROVE  WBInd'
  <1>1. fuse' \in FuseCall /\ fuse.at = "idle" /\ fuse'.at = "fetch" /\ fuse'.op = "read"
    BY DEF StartRead, FuseCall, IdleThread
  <1>3. WBTypeOK'
    BY <1>1 DEF WBInd, WBInv, WBTypeOK, StartRead, cacheVars, engineVars, runnerVars,
                historyVars
  <1>4. WriteInv'
    BY <1>1 DEF WBInd, WriteInv, StartRead, historyVars
  <1>. QED
    BY <1>1, <1>3, <1>4, FuseStep DEF StartRead, historyVars

(* The call after the data was obtained. *)
LEMMA ObtainedFacts ==
    ASSUME WBInd, fuse.at \notin {"idle", "insert"}, NEW data \in Data, Obtained(data),
           started' = started, acked' = acked
    PROVE  /\ fuse' \in FuseCall /\ fuse'.at \in {"reply", "merge"}
           /\ fuse'.chunk = fuse.chunk /\ fuse'.op = fuse.op /\ fuse'.data = data
           /\ WriteInv'
  <1>1. fuse.op \in {"read", "write"} /\ fuse.chunk \in Chunk
    BY FuseFields DEF WBInd, WBInv
  <1>2. /\ fuse' \in FuseCall /\ fuse'.at \in {"reply", "merge"}
        /\ fuse'.chunk = fuse.chunk /\ fuse'.op = fuse.op /\ fuse'.data = data
        /\ fuse'.at = "merge" => fuse.op = "write"
    BY <1>1 DEF Obtained, FuseCall
  <1>3. WriteInv'
    BY <1>1, <1>2 DEF WBInd, WriteInv
  <1>. QED
    BY <1>2, <1>3

LEMMA LookInCacheInd ==
    ASSUME WBInd, LookInCache
    PROVE  WBInd'
  <1>1. fuse.chunk \in Chunk /\ fuse.at \notin {"idle", "insert"}
    BY FuseFields DEF WBInd, WBInv, LookInCache
  <1>2. CacheGet(fuse.chunk) \in Data
    BY <1>1, CacheGetType DEF WBInd, WBInv, LookInCache
  <1>3. fuse' \in FuseCall /\ fuse'.at \in {"reply", "merge"} /\ WriteInv'
    BY <1>1, <1>2, ObtainedFacts DEF LookInCache, historyVars
  <1>4. WBTypeOK'
    BY <1>2, <1>3 DEF WBInd, WBInv, WBTypeOK, LookInCache, Promote, engineVars, runnerVars,
                historyVars
  <1>. QED
    BY <1>1, <1>3, <1>4, FuseStep DEF LookInCache, historyVars

LEMMA MissInCacheInd ==
    ASSUME WBInd, MissInCache
    PROVE  WBInd'
  <1>1. /\ fuse.at = "cache" /\ fuse.chunk \in Chunk /\ fuse.op \in {"read", "write"}
        /\ fuse' = [at |-> "dirty", op |-> fuse.op, chunk |-> fuse.chunk]
    BY FuseFields DEF WBInd, WBInv, MissInCache
  <1>2. fuse' \in FuseCall /\ fuse'.at = "dirty" /\ fuse'.op = fuse.op
    BY <1>1 DEF FuseCall
  <1>3. WBTypeOK'
    BY <1>2 DEF WBInd, WBInv, WBTypeOK, MissInCache, cacheVars, engineVars, runnerVars,
                historyVars
  <1>4. WriteInv'
    BY <1>1, <1>2 DEF WBInd, WriteInv, MissInCache, historyVars
  <1>. QED
    BY <1>1, <1>2, <1>3, <1>4, FuseStep DEF MissInCache, historyVars

LEMMA LookInDirtyInd ==
    ASSUME WBInd, LookInDirty
    PROVE  WBInd'
  <1>1. /\ fuse.at = "dirty" /\ fuse.chunk \in Chunk /\ fuse.op \in {"read", "write"}
        /\ fuse = [at |-> "dirty", op |-> fuse.op, chunk |-> fuse.chunk]
    BY FuseFields DEF WBInd, WBInv, LookInDirty
  <1>2. fuse' \in FuseCall /\ fuse'.at # "insert" /\ WriteInv'
    <2>1. CASE dirty[fuse.chunk] # None
      <3>1. dirty[fuse.chunk] \in Data
        BY <1>1, <2>1 DEF WBInd, WBInv, WBTypeOK
      <3>. QED
        BY <1>1, <2>1, <3>1, ObtainedFacts DEF LookInDirty, historyVars
    <2>2. CASE dirty[fuse.chunk] = None
      <3>1. fuse' = [at |-> "fetch", op |-> fuse.op, chunk |-> fuse.chunk]
        BY <1>1, <2>2 DEF LookInDirty
      <3>2. fuse' \in FuseCall /\ fuse'.at = "fetch" /\ fuse'.op = fuse.op
        BY <1>1, <3>1 DEF FuseCall
      <3>3. WriteInv'
        BY <1>1, <3>2 DEF WBInd, WriteInv, LookInDirty, historyVars
      <3>. QED
        BY <3>2, <3>3
    <2>. QED
      BY <2>1, <2>2
  <1>3. WBTypeOK'
    BY <1>2 DEF WBInd, WBInv, WBTypeOK, LookInDirty, cacheVars, engineVars, runnerVars,
                historyVars
  <1>. QED
    BY <1>1, <1>2, <1>3, FuseStep DEF LookInDirty, historyVars

LEMMA FetchFromHostInd ==
    ASSUME WBInd, FetchFromHost
    PROVE  WBInd'
  <1>1. /\ fuse.at = "fetch" /\ fuse.chunk \in Chunk /\ fuse.op \in {"read", "write"}
        /\ host[fuse.chunk] \in Data
    BY FuseFields DEF WBInd, WBInv, WBTypeOK, FetchFromHost
  <1>2. fuse' \in FuseCall /\ fuse'.at = "fetched" /\ fuse'.op = fuse.op
    BY <1>1 DEF FuseCall, FetchFromHost
  <1>3. WBTypeOK'
    BY <1>2 DEF WBInd, WBInv, WBTypeOK, FetchFromHost, cacheVars, engineVars, runnerVars,
                historyVars
  <1>4. WriteInv'
    BY <1>1, <1>2 DEF WBInd, WriteInv, FetchFromHost, historyVars
  <1>. QED
    BY <1>1, <1>2, <1>3, <1>4, FuseStep DEF FetchFromHost, historyVars

LEMMA FetchInsertInd ==
    ASSUME WBInd, FetchInsert
    PROVE  WBInd'
  <1>1. fuse.at = "fetched" /\ fuse.chunk \in Chunk /\ fuse.data \in Data
    BY FuseFields DEF WBInd, WBInv, FetchInsert
  <1>2. fuse' \in FuseCall /\ fuse'.at \in {"reply", "merge"} /\ WriteInv'
    BY <1>1, ObtainedFacts DEF FetchInsert, historyVars
  <1>3. WBTypeOK'
    BY <1>1, <1>2, CacheInsertTypes
    DEF WBInd, WBInv, WBTypeOK, FetchInsert, engineVars, runnerVars, historyVars
  <1>. QED
    BY <1>1, <1>2, <1>3, FuseStep DEF FetchInsert, historyVars

LEMMA FetchNotFoundInd ==
    ASSUME WBInd, FetchNotFound
    PROVE  WBInd'
  <1>1. fuse.at = "fetch" /\ {} \in Data
    BY DEF FetchNotFound, Data
  <1>2. fuse' \in FuseCall /\ fuse'.at \in {"reply", "merge"} /\ WriteInv'
    BY <1>1, ObtainedFacts DEF FetchNotFound, historyVars
  <1>3. WBTypeOK'
    BY <1>2 DEF WBInd, WBInv, WBTypeOK, FetchNotFound, cacheVars, engineVars, runnerVars,
                historyVars
  <1>. QED
    BY <1>1, <1>2, <1>3, FuseStep DEF FetchNotFound, historyVars

(* A call ends without having written. *)
LEMMA CallEndsInd ==
    ASSUME WBInd, FetchFails \/ ReadReply
    PROVE  WBInd'
  <1>1. fuse.at \in {"fetch", "reply"} /\ fuse' \in FuseCall /\ fuse'.at = "idle"
    BY DEF FetchFails, ReadReply, FuseCall, IdleThread
  <1>2. WBTypeOK'
    BY <1>1 DEF WBInd, WBInv, WBTypeOK, FetchFails, ReadReply, cacheVars, engineVars,
                runnerVars, historyVars
  <1>3. WriteInv'
    BY <1>1 DEF WBInd, WriteInv, FetchFails, ReadReply, historyVars
  <1>. QED
    BY <1>1, <1>2, <1>3, FuseStep DEF FetchFails, ReadReply, historyVars

(* The newest of the acknowledged writes when started is acknowledged. *)
LEMMA NewestIsStarted ==
    ASSUME WBInd, NEW c \in Chunk, acked' = [acked EXCEPT ![c] = @ \cup {started}]
    PROVE  Newest(c)' = started /\ acked'[c] # {} /\ acked'[c] = acked[c] \cup {started}
  <1>1. acked'[c] = acked[c] \cup {started} /\ acked[c] \subseteq 1 .. started /\ started \in Nat
    BY BoundsAssumption DEF WBInd, WBInv, WBTypeOK, WriteInv
  <1>2. started \in acked'[c] /\ \A v \in acked'[c] : v <= started /\ v \in Nat
    BY <1>1
  <1>3. \A w \in acked'[c] : (\A v \in acked'[c] : v <= w) => w = started
    BY <1>1, <1>2
  <1>. QED
    BY <1>1, <1>2, <1>3 DEF Newest

LEMMA WriteMarkDirtyInd ==
    ASSUME WBInd, WriteMarkDirty
    PROVE  WBInd'
  <1>. DEFINE data == fuse.data \cup {started}
  <1>1. PICK c \in Chunk : /\ fuse.at = "merge" /\ fuse.chunk = c /\ fuse.op = "write"
                           /\ fuse.data \in Data
                           /\ fuse = [at |-> "merge", op |-> "write", chunk |-> c,
                                      data |-> fuse.data]
    BY FuseFields DEF WBInd, WBInv, WriteInv, WriteMarkDirty
  <1>2. started \in 1 .. MaxWrites
    BY <1>1, BoundsAssumption DEF WBInd, WBInv, WBTypeOK, WriteInv
  <1>3. data \in Data
    BY <1>1, <1>2 DEF Data
  <1>4. fuse' = [at |-> "insert", op |-> "write", chunk |-> c, data |-> data]
    BY <1>1 DEF WriteMarkDirty
  <1>5. fuse' \in FuseCall
    BY <1>3, <1>4 DEF FuseCall
  <1>6. /\ EngineTypeOK' /\ DirtyInodesExact' /\ EachDirtyOnce'
        /\ dirty'[c] = data /\ \A d \in Chunk \ {c} : dirty'[d] = dirty[d]
    BY <1>1, <1>3, MarkDirtyFacts DEF WBInd, WriteMarkDirty
  <1>7. /\ InRound(c) => overtaken' = overtaken \cup {c}
        /\ ~InRound(c) => overtaken' = overtaken
    BY <1>1 DEF WriteMarkDirty
  <1>8. WBTypeOK'
    BY <1>5, <1>6, <1>7
    DEF WBInd, WBInv, WBTypeOK, WriteMarkDirty, EngineTypeOK, cacheVars, runnerVars
  <1>9. WriteInv'
    BY <1>1, <1>2, <1>4 DEF WBInd, WriteInv, WriteMarkDirty
  <1>10. RoundInv'
    <2>1. UNCHANGED <<host, round, upload>>
      BY DEF WriteMarkDirty, runnerVars
    <2>2. \A k \in 1 .. Len(round) : round[k] \in Copy
      BY ElementOfSeq DEF WBInd, WBInv, WBTypeOK
    <2>3. ASSUME NEW k \in 1 .. Len(round), round[k].chunk \notin overtaken'
          PROVE  dirty'[round[k].chunk] = round[k].data
      <3>1. round[k].chunk # c
        BY <1>7, <2>3 DEF InRound
      <3>. QED
        BY <1>6, <1>7, <2>2, <2>3, <3>1 DEF WBInd, RoundInv, Copy
    <2>. QED
      BY <2>1, <2>3 DEF WBInd, RoundInv
  <1>11. NewestInv'
    <2>1. UNCHANGED <<host, acked, started>>
      BY DEF WriteMarkDirty
    <2>2. ASSUME NEW d \in Chunk \ overtaken', d # c
          PROVE  /\ ~Inserting(d) /\ ~Inserting(d)'
                 /\ d \in Chunk \ overtaken /\ Latest(d)' = Latest(d)
      BY <1>1, <1>4, <1>6, <1>7, <2>1, <2>2 DEF Inserting, Latest
    <2>3. Inserting(c)' /\ started \in Latest(c)'
      BY <1>3, <1>4, <1>6, NoneAssumption DEF Inserting, Latest
    <2>4. \A d \in Chunk : Newest(d)' = Newest(d)
      BY <2>1 DEF Newest
    <2>. QED
      BY <2>1, <2>2, <2>3, <2>4 DEF WBInd, NewestInv
  <1>. QED
    BY <1>6, <1>8, <1>9, <1>10, <1>11 DEF WBInd, WBInv

LEMMA WriteInsertInd ==
    ASSUME WBInd, WriteInsert
    PROVE  WBInd'
  <1>1. PICK c \in Chunk : /\ fuse.at = "insert" /\ fuse.chunk = c /\ fuse.op = "write"
                           /\ fuse.data \in Data
    BY FuseFields DEF WBInd, WBInv, WriteInv, WriteInsert
  <1>2. started \in 1 .. MaxWrites
    BY <1>1, BoundsAssumption DEF WBInd, WBInv, WBTypeOK, WriteInv
  <1>3. fuse' \in FuseCall /\ fuse'.at = "idle"
    BY DEF WriteInsert, FuseCall, IdleThread
  <1>4. acked' = [acked EXCEPT ![c] = @ \cup {started}]
    BY <1>1 DEF WriteInsert
  <1>5. /\ acked' \in [Chunk -> Data]
        /\ \A d \in Chunk \ {c} : acked'[d] = acked[d]
        /\ acked'[c] = acked[c] \cup {started}
    BY <1>2, <1>4 DEF WBInd, WBInv, WBTypeOK, Data
  <1>6. WBTypeOK'
    BY <1>1, <1>3, <1>5, CacheInsertTypes
    DEF WBInd, WBInv, WBTypeOK, WriteInsert, engineVars, runnerVars
  <1>7. WriteInv'
    BY <1>2, <1>3, <1>5 DEF WBInd, WriteInv, WriteInsert
  <1>8. WBInv' /\ RoundInv'
    BY <1>6
    DEF WBInd, WBInv, RoundInv, DirtyInodesExact, EachDirtyOnce, WriteInsert, engineVars,
        runnerVars
  <1>9. NewestInv'
    <2>1. UNCHANGED <<overtaken, started>> /\ \A d \in Chunk : Latest(d)' = Latest(d)
      BY DEF WriteInsert, Latest, engineVars
    <2>2. \A d \in Chunk : ~Inserting(d)'
      BY <1>3 DEF Inserting
    <2>3. \A d \in Chunk \ {c} : Newest(d)' = Newest(d) /\ ~Inserting(d)
      BY <1>1, <1>5 DEF Newest, Inserting
    <2>4. Newest(c)' = started /\ Inserting(c)
      BY <1>1, <1>4, NewestIsStarted DEF Inserting
    <2>. QED
      BY <1>5, <2>1, <2>2, <2>3, <2>4 DEF WBInd, NewestInv
  <1>. QED
    BY <1>7, <1>8, <1>9 DEF WBInd
-----------------------------------------------------------------------------
(* The runner. *)

(* The snapshot: the dirty chunks that were modified first, as they are. *)
LEMMA SnapshotFacts ==
    ASSUME WBInv, modified # <<>>, round' = ChunksToSync
    PROVE  /\ round' \in Seq(Copy) /\ round' # <<>>
           /\ \A j, k \in 1 .. Len(round') : round'[j].chunk = round'[k].chunk => j = k
           /\ \A k \in 1 .. Len(round') : /\ round'[k].chunk \in Chunk
                                          /\ round'[k].data = dirty[round'[k].chunk]
  <1>. DEFINE n == IF Len(modified) < Batch THEN Len(modified) ELSE Batch
              oldest == SubSeq(modified, 1, n)
              snap == [k \in 1 .. n |-> [chunk |-> modified[k], data |-> dirty[modified[k]]]]
  <1>1. modified \in Seq(Chunk) /\ Len(modified) \in Nat \ {0}
    BY EmptySeq DEF WBInv, WBTypeOK
  <1>2. n \in Nat \ {0} /\ n <= Len(modified)
    BY <1>1, BoundsAssumption
  <1>3. Len(oldest) = n /\ \A k \in 1 .. n : oldest[k] = modified[k]
    BY <1>1, <1>2, SubSeqProperties
  <1>4. round' = snap
    BY <1>3 DEF ChunksToSync
  <1>5. \A k \in 1 .. n : /\ modified[k] \in Chunk
                          /\ dirty[modified[k]] \in Data
    BY <1>1, <1>2 DEF WBInv, WBTypeOK, EachDirtyOnce
  <1>6. \A k \in 1 .. n : snap[k] \in Copy
    BY <1>5 DEF Copy
  <1>7. snap \in Seq(Copy) /\ Len(snap) = n
    <2>. HIDE DEF n
    <2>1. n \in Nat /\ snap = [k \in 1 .. n |-> snap[k]]
      BY <1>2
    <2>. QED
      BY <1>6, <2>1
  <1>8. \A j, k \in 1 .. n : modified[j] = modified[k] => j = k
    BY <1>1, <1>2 DEF WBInv, EachDirtyOnce
  <1>9. \A k \in 1 .. n : snap[k].chunk = modified[k] /\ snap[k].data = dirty[modified[k]]
    OBVIOUS
  <1>10. snap # <<>>
    BY <1>2, <1>7
  <1>. HIDE DEF snap, n
  <1>. QED
    BY <1>4, <1>5, <1>7, <1>8, <1>9, <1>10

LEMMA StartRoundInd ==
    ASSUME WBInd, StartRound
    PROVE  WBInd'
  <1>1. /\ round' \in Seq(Copy) /\ round' # <<>>
        /\ \A j, k \in 1 .. Len(round') : round'[j].chunk = round'[k].chunk => j = k
        /\ \A k \in 1 .. Len(round') : /\ round'[k].chunk \in Chunk
                                       /\ round'[k].data = dirty[round'[k].chunk]
    BY SnapshotFacts DEF WBInd, StartRound
  <1>2. WBTypeOK'
    BY <1>1
    DEF WBInd, WBInv, WBTypeOK, StartRound, cacheVars, engineVars, historyVars
  <1>3. WBInv' /\ WriteInv'
    BY <1>2
    DEF WBInd, WBInv, WriteInv, DirtyInodesExact, EachDirtyOnce, StartRound, engineVars, historyVars
  <1>4. RoundInv'
    BY <1>1 DEF RoundInv, StartRound, engineVars
  <1>5. NewestInv'
    BY DEF WBInd, NewestInv, Inserting, Latest, Newest, StartRound, engineVars, historyVars
  <1>. QED
    BY <1>3, <1>4, <1>5 DEF WBInd

(* While the runner is at work its snapshot has a first chunk. *)
LEMMA HeadFacts ==
    ASSUME WBInd, upload # "idle"
    PROVE  /\ Len(round) \in Nat \ {0} /\ Head(round) = round[1]
           /\ Head(round) \in Copy /\ Head(round).chunk \in Chunk /\ Head(round).data \in Data
  <1>1. round \in Seq(Copy) /\ round # <<>>
    BY DEF WBInd, WBInv, WBTypeOK
  <1>2. Len(round) \in Nat \ {0}
    BY <1>1, EmptySeq
  <1>3. Head(round) = round[1] /\ round[1] \in Copy
    BY <1>1, <1>2, HeadTailProperties, ElementOfSeq
  <1>. QED
    BY <1>2, <1>3 DEF Copy

(* What the host will have of a chunk not overtaken is the runner's copy,  *)
(* and is not changed by the upload.                                       *)
LEMMA HeadIsLatest ==
    ASSUME WBInd, upload # "idle", Head(round).chunk \notin overtaken
    PROVE  dirty[Head(round).chunk] = Head(round).data /\ dirty[Head(round).chunk] # None
  BY HeadFacts, NoneAssumption DEF WBInd, RoundInv

LEMMA LatestWhenStored ==
    ASSUME WBInd, HostStores
    PROVE  \A d \in Chunk \ overtaken : Latest(d)' = Latest(d)
  <1>1. Head(round).chunk \in Chunk
    BY HeadFacts DEF HostStores
  <1>2. \A d \in Chunk \ {Head(round).chunk} : host'[d] = host[d]
    BY <1>1 DEF WBInd, WBInv, WBTypeOK, HostStores
  <1>. QED
    BY <1>1, <1>2, HeadIsLatest DEF Latest, HostStores, engineVars

LEMMA LatestWhenDone ==
    ASSUME WBInd, UploadDone
    PROVE  \A d \in Chunk \ overtaken : Latest(d)' = Latest(d)
  <1>1. PICK c \in Chunk : Head(round).chunk = c
    BY HeadFacts DEF UploadDone
  <1>2. dirty'[c] = None /\ \A d \in Chunk \ {c} : dirty'[d] = dirty[d]
    BY <1>1, MarkSyncedFacts DEF WBInd, UploadDone
  <1>3. c \notin overtaken => dirty[c] = Head(round).data /\ host[c] = Head(round).data
                              /\ dirty[c] # None
    BY <1>1, HeadIsLatest DEF UploadDone, WBInd, RoundInv
  <1>. QED
    BY <1>2, <1>3 DEF Latest, UploadDone

LEMMA HostStoresInd ==
    ASSUME WBInd, HostStores
    PROVE  WBInd'
  <1>1. PICK c \in Chunk : Head(round).chunk = c /\ Head(round).data \in Data
    BY HeadFacts DEF HostStores
  <1>2. /\ host' \in [Chunk -> Data] /\ host'[c] = Head(round).data
        /\ \A d \in Chunk \ {c} : host'[d] = host[d]
    BY <1>1 DEF WBInd, WBInv, WBTypeOK, HostStores
  <1>3. WBTypeOK'
    BY <1>2 DEF WBInd, WBInv, WBTypeOK, HostStores, cacheVars, engineVars, historyVars
  <1>4. WBInv' /\ WriteInv'
    BY <1>3
    DEF WBInd, WBInv, WriteInv, DirtyInodesExact, EachDirtyOnce, HostStores, engineVars, historyVars
  <1>5. RoundInv'
    BY <1>1, <1>2 DEF WBInd, RoundInv, HostStores, engineVars, historyVars
  <1>6. \A d \in Chunk \ overtaken : Latest(d)' = Latest(d)
    BY LatestWhenStored
  <1>7. NewestInv'
    BY <1>6 DEF WBInd, NewestInv, Inserting, Newest, HostStores, historyVars
  <1>. QED
    BY <1>4, <1>5, <1>7 DEF WBInd

LEMMA UploadFailsInd ==
    ASSUME WBInd, HostRefuses \/ AnswerLost
    PROVE  WBInd'
  <1>1. WBTypeOK'
    BY DEF WBInd, WBInv, WBTypeOK, HostRefuses, AnswerLost, cacheVars, engineVars, historyVars
  <1>2. WBInv' /\ WriteInv'
    BY <1>1
    DEF WBInd, WBInv, WriteInv, DirtyInodesExact, EachDirtyOnce, HostRefuses, AnswerLost,
        engineVars, historyVars
  <1>3. RoundInv'
    BY DEF WBInd, RoundInv, HostRefuses, AnswerLost, engineVars, historyVars
  <1>4. NewestInv'
    BY DEF WBInd, NewestInv, Inserting, Latest, Newest, HostRefuses, AnswerLost, engineVars,
           historyVars
  <1>. QED
    BY <1>2, <1>3, <1>4 DEF WBInd

LEMMA NextUploadFacts ==
    ASSUME WBInd, upload # "idle", NextUpload
    PROVE  /\ round' \in Seq(Copy) /\ upload' \in {"idle", "sent"}
           /\ upload' = "idle" <=> round' = <<>>
           /\ Len(round') = Len(round) - 1
           /\ \A k \in 1 .. Len(round') : k + 1 \in 1 .. Len(round) /\ round'[k] = round[k + 1]
  <1>1. round \in Seq(Copy) /\ round # <<>> /\ Len(round) \in Nat \ {0}
    BY HeadFacts DEF WBInd, WBInv, WBTypeOK
  <1>2. /\ round' \in Seq(Copy) /\ Len(round') = Len(round) - 1
        /\ \A k \in 1 .. Len(round') : round'[k] = round[k + 1]
    BY <1>1, HeadTailProperties DEF NextUpload
  <1>3. \A k \in 1 .. Len(round') : k + 1 \in 1 .. Len(round)
    BY <1>1, <1>2
  <1>4. round' = <<>> <=> Len(round') = 0
    BY <1>2, EmptySeq
  <1>5. upload' = "idle" <=> round' = <<>>
    BY <1>1, <1>2, <1>4 DEF NextUpload
  <1>. QED
    BY <1>2, <1>3, <1>5 DEF NextUpload

(* The rest of the snapshot stays up to date when only the dirty entry of  *)
(* its first chunk may have changed.                                       *)
LEMMA NextUploadRound ==
    ASSUME WBInd, upload # "idle", NextUpload, overtaken' = overtaken,
           \A d \in Chunk \ {Head(round).chunk} : dirty'[d] = dirty[d]
    PROVE  RoundInv'
  <1>1. /\ upload' # "stored" /\ Len(round') = Len(round) - 1
        /\ \A k \in 1 .. Len(round') : k + 1 \in 1 .. Len(round) /\ round'[k] = round[k + 1]
    BY NextUploadFacts
  <1>2. /\ \A j, k \in 1 .. Len(round) : round[j].chunk = round[k].chunk => j = k
        /\ \A k \in 1 .. Len(round) :
              round[k].chunk \notin overtaken => dirty[round[k].chunk] = round[k].data
    BY DEF WBInd, RoundInv
  <1>3. \A k \in 1 .. Len(round) : round[k].chunk \in Chunk
    <2>1. \A k \in 1 .. Len(round) : round[k] \in Copy
      BY ElementOfSeq DEF WBInd, WBInv, WBTypeOK
    <2>. QED
      BY <2>1 DEF Copy
  <1>4. Len(round) \in Nat \ {0} /\ Head(round) = round[1]
    BY HeadFacts
  <1>5. Len(round') \in Nat /\ 1 \in 1 .. Len(round)
    BY <1>1, <1>4
  <1>6. \A j, k \in 1 .. Len(round') : round'[j].chunk = round'[k].chunk => j = k
    BY <1>1, <1>2, <1>5
  <1>7. ASSUME NEW k \in 1 .. Len(round'), round'[k].chunk \notin overtaken
        PROVE  dirty'[round'[k].chunk] = round'[k].data
    <2>1. k + 1 \in 1 .. Len(round) /\ k + 1 # 1 /\ round'[k] = round[k + 1]
      BY <1>1, <1>5
    <2>2. round[k + 1].chunk # round[1].chunk /\ round[k + 1].chunk \in Chunk
      BY <1>2, <1>3, <1>5, <2>1
    <2>3. dirty[round[k + 1].chunk] = round[k + 1].data
      BY <1>2, <1>7, <2>1
    <2>. QED
      BY <1>4, <2>1, <2>2, <2>3
  <1>. QED
    BY <1>1, <1>6, <1>7 DEF RoundInv

LEMMA UploadDoneInd ==
    ASSUME WBInd, UploadDone
    PROVE  WBInd'
  <1>1. PICK c \in Chunk : Head(round).chunk = c
    BY HeadFacts DEF UploadDone
  <1>2. /\ EngineTypeOK' /\ DirtyInodesExact' /\ EachDirtyOnce'
        /\ dirty'[c] = None /\ \A d \in Chunk \ {c} : dirty'[d] = dirty[d]
    BY <1>1, MarkSyncedFacts DEF WBInd, UploadDone
  <1>3. WBTypeOK'
    BY <1>2, NextUploadFacts
    DEF WBInd, WBInv, WBTypeOK, UploadDone, EngineTypeOK, cacheVars, historyVars
  <1>4. RoundInv'
    BY <1>1, <1>2, NextUploadRound DEF UploadDone, historyVars
  <1>5. WriteInv'
    BY DEF WBInd, WriteInv, UploadDone, historyVars
  <1>6. \A d \in Chunk \ overtaken : Latest(d)' = Latest(d)
    BY LatestWhenDone
  <1>7. NewestInv'
    BY <1>6 DEF WBInd, NewestInv, Inserting, Newest, UploadDone, historyVars
  <1>. QED
    BY <1>2, <1>3, <1>4, <1>5, <1>7 DEF WBInd, WBInv

LEMMA UploadFailedInd ==
    ASSUME WBInd, UploadFailed
    PROVE  WBInd'
  <1>1. WBTypeOK'
    BY NextUploadFacts
    DEF WBInd, WBInv, WBTypeOK, UploadFailed, engineVars, cacheVars, historyVars
  <1>2. RoundInv'
    BY NextUploadRound DEF UploadFailed, engineVars, historyVars
  <1>3. WBInv' /\ WriteInv'
    BY <1>1
    DEF WBInd, WBInv, WriteInv, DirtyInodesExact, EachDirtyOnce, UploadFailed, engineVars,
        historyVars
  <1>4. NewestInv'
    BY DEF WBInd, NewestInv, Inserting, Latest, Newest, UploadFailed, engineVars, historyVars
  <1>. QED
    BY <1>2, <1>3, <1>4 DEF WBInd
-----------------------------------------------------------------------------
LEMMA WBInitInd == WBInit => WBInd
  <1>. SUFFICES ASSUME WBInit
                PROVE  WBInd
    OBVIOUS
  <1>1. WBTypeOK
    BY BoundsAssumption, EmptySeq DEF WBInit, WBTypeOK, Data, FuseCall, PrefetchCall, IdleThread
  <1>2. Len(modified) = 0 /\ Len(round) = 0
    BY DEF WBInit
  <1>3. WBInv
    BY <1>1, <1>2 DEF WBInit, WBInv, DirtyInodesExact, EachDirtyOnce
  <1>4. RoundInv
    BY <1>2 DEF WBInit, RoundInv
  <1>5. WriteInv /\ NewestInv
    BY DEF WBInit, WriteInv, NewestInv, Inserting, IdleThread
  <1>. QED
    BY <1>3, <1>4, <1>5 DEF WBInd

LEMMA WBNextInd == WBInd /\ [WBNext]_vars => WBInd'
  <1>. SUFFICES ASSUME WBInd, [WBNext]_vars
                PROVE  WBInd'
    OBVIOUS
  <1>1. CASE UNCHANGED vars
    <2>1. WBTypeOK'
      BY <1>1 DEF WBInd, WBInv, WBTypeOK, vars, cacheVars, engineVars, runnerVars, historyVars
    <2>. QED
      BY <1>1, <2>1, CacheStep DEF vars
  <1>2. ASSUME NEW c \in Chunk,
               StartWrite(c) \/ StartRead(c) \/ EvictRam(c) \/ EvictDisk(c)
        PROVE  WBInd'
    BY <1>2, StartWriteInd, StartReadInd, EvictRamInd, EvictDiskInd
  <1>3. CASE FuseThread
    BY <1>3, LookInCacheInd, MissInCacheInd, LookInDirtyInd, FetchFromHostInd, FetchInsertInd,
       CallEndsInd, FetchNotFoundInd, WriteMarkDirtyInd, WriteInsertInd
    DEF FuseThread
  <1>4. CASE Runner
    BY <1>4, StartRoundInd, HostStoresInd, UploadFailsInd, UploadDoneInd, UploadFailedInd
    DEF Runner
  <1>5. ASSUME NEW p \in Prefetcher,
               (\E c \in Chunk : SpawnPrefetch(p, c)) \/ PrefetchRead(p) \/ PrefetchInsert(p)
        PROVE  WBInd'
    BY <1>5, SpawnPrefetchInd, PrefetchReadInd, PrefetchInsertInd
  <1>6. ASSUME NEW d \in DiskThread, DiskWrite(d)
        PROVE  WBInd'
    BY <1>6, DiskWriteInd
  <1>. QED
    BY <1>1, <1>2, <1>3, <1>4, <1>5, <1>6 DEF WBNext

(* The tables of the sync engine and the runner's snapshot agree in every  *)
(* reachable state.                                                        *)
THEOREM WriteBackInvariant == WBSpec => []WBInd
  BY WBInitInd, WBNextInd, PTL DEF WBSpec

(* has_dirty_chunks answers what the dirty table says, and every dirty     *)
(* chunk has exactly one place in the order of upload (mark_dirty,         *)
(* mark_synced).                                                           *)
THEOREM EngineInOrder == WBSpec => []WBInv
  BY WriteBackInvariant, PTL DEF WBInd

(* The newest acknowledged write of a chunk that was never written during  *)
(* its own upload is on the host or still dirty, whatever evictions,       *)
(* prefetching, failed uploads and lost answers come between.              *)
THEOREM NewestWriteIsKept == WBSpec => []NewestWriteKept
  <1>1. WBInd => NewestWriteKept
    <2>. SUFFICES ASSUME WBInd, NEW c \in Chunk \ overtaken, acked[c] # {}
                  PROVE  \/ fuse.at = "insert" /\ fuse.chunk = c
                         \/ Newest(c) \in host[c]
                         \/ dirty[c] # None /\ Newest(c) \in dirty[c]
      BY DEF NewestWriteKept
    <2>. QED
      BY DEF WBInd, NewestInv, Inserting, Latest
  <1>. QED
    BY <1>1, WriteBackInvariant, PTL
-----------------------------------------------------------------------------
(* With room in the cache and without prefetching. *)

(* A step that leaves the cache alone. *)
LEMMA CacheKept ==
    ASSUME CacheInv, UNCHANGED <<cacheVars, acked>>,
           fuse'.at \in {"fetched", "merge", "insert", "reply"} =>
              acked[fuse'.chunk] \subseteq fuse'.data,
           fuse'.at = "insert" => started' \in fuse'.data,
           fuse'.at = "dirty" => ram[fuse'.chunk] = None
    PROVE  CacheInv'
  BY DEF CacheInv, cacheVars

(* A chunk goes into the cache with all its acknowledged writes. *)
LEMMA InsertedInRam ==
    ASSUME WBTypeOK, CacheInv, NEW c \in Chunk, NEW data \in Data, CacheInsert(c, data),
           acked'[c] \subseteq data, \A d \in Chunk \ {c} : acked'[d] = acked[d],
           fuse'.at \notin {"fetched", "insert", "dirty"},
           fuse'.at \in {"merge", "reply"} => acked'[fuse'.chunk] \subseteq fuse'.data
    PROVE  CacheInv'
  <1>1. /\ ram'[c] = data /\ data # None /\ \A d \in Chunk \ {c} : ram'[d] = ram[d]
        /\ disk' = disk
    BY NoneAssumption DEF WBTypeOK, CacheInsert
  <1>2. \A d \in Chunk : ram[d] # None => ram'[d] # None
    BY <1>1
  <1>3. ASSUME NEW d \in DiskThread, disk_writes'[d] # None
        PROVE  ram'[disk_writes'[d].chunk] # None
    <2>1. \/ disk_writes'[d] = disk_writes[d]
          \/ disk_writes'[d] = [chunk |-> c, data |-> data]
      BY DEF WBTypeOK, CacheInsert
    <2>2. disk_writes[d] # None => disk_writes[d].chunk \in Chunk
      BY DEF WBTypeOK, Copy
    <2>. QED
      BY <1>1, <1>2, <1>3, <2>1, <2>2 DEF CacheInv
  <1>4. \A d \in Chunk : disk'[d] # None => ram'[d] # None
    BY <1>1, <1>2 DEF CacheInv
  <1>5. \A d \in Chunk : IF ram'[d] = None THEN acked'[d] = {} ELSE acked'[d] \subseteq ram'[d]
    BY <1>1 DEF CacheInv
  <1>. QED
    BY <1>3, <1>4, <1>5 DEF CacheInv

(* What is in either tier is in RAM, and complete. *)
LEMMA CalmHit ==
    ASSUME WBTypeOK, CacheInv, NEW c \in Chunk
    PROVE  /\ Cached(c) => ram[c] # None /\ CacheGet(c) = ram[c] /\ acked[c] \subseteq ram[c]
           /\ ~Cached(c) => ram[c] = None /\ acked[c] = {}
  BY DEF CacheInv, Cached, CacheGet

LEMMA FuseThreadCache ==
    ASSUME WBInd, CacheInv, FuseThread
    PROVE  CacheInv'
  <1>0. WBTypeOK
    BY DEF WBInd, WBInv
  <1>1. CASE LookInCache
    <2>1. fuse.chunk \in Chunk /\ fuse.at \notin {"idle", "insert"} /\ Cached(fuse.chunk)
      BY <1>0, <1>1, FuseFields DEF LookInCache
    <2>2. CacheGet(fuse.chunk) = ram[fuse.chunk] /\ acked[fuse.chunk] \subseteq ram[fuse.chunk]
      BY <1>0, <2>1, CalmHit
    <2>3. UNCHANGED <<cacheVars, acked>>
      BY <1>0, <1>1, <2>1, <2>2 DEF WBTypeOK, LookInCache, Promote, cacheVars, historyVars
    <2>4. /\ fuse'.at \in {"reply", "merge"} /\ fuse'.chunk = fuse.chunk
          /\ fuse'.data = ram[fuse.chunk]
      BY <1>1, <2>2 DEF LookInCache, Obtained
    <2>. QED
      BY <2>2, <2>3, <2>4, CacheKept
  <1>2. CASE MissInCache
    <2>1. /\ fuse.at = "cache" /\ fuse.chunk \in Chunk /\ ~Cached(fuse.chunk)
          /\ fuse' = [at |-> "dirty", op |-> fuse.op, chunk |-> fuse.chunk]
      BY <1>0, <1>2, FuseFields DEF MissInCache
    <2>2. ram[fuse.chunk] = None
      BY <1>0, <2>1, CalmHit
    <2>. QED
      BY <1>2, <2>1, <2>2, CacheKept DEF MissInCache, historyVars
  <1>3. CASE LookInDirty
    <2>1. /\ fuse.at = "dirty" /\ fuse.chunk \in Chunk
          /\ fuse = [at |-> "dirty", op |-> fuse.op, chunk |-> fuse.chunk]
      BY <1>0, <1>3, FuseFields DEF LookInDirty
    <2>2. acked[fuse.chunk] = {}
      BY <2>1 DEF CacheInv
    <2>3. fuse'.at \in {"reply", "merge", "fetch"} /\ fuse'.chunk = fuse.chunk
      BY <1>3, <2>1 DEF LookInDirty, Obtained
    <2>. QED
      BY <1>3, <2>2, <2>3, CacheKept DEF LookInDirty, historyVars
  <1>4. CASE FetchFromHost
    <2>1. fuse.chunk \in Chunk /\ ~Cached(fuse.chunk)
      BY <1>0, <1>4, FuseFields DEF FetchFromHost
    <2>2. acked[fuse.chunk] = {}
      BY <1>0, <2>1, CalmHit
    <2>3. fuse'.at = "fetched" /\ fuse'.chunk = fuse.chunk
      BY <1>4 DEF FetchFromHost
    <2>. QED
      BY <1>4, <2>2, <2>3, CacheKept DEF FetchFromHost, historyVars
  <1>5. CASE FetchInsert
    <2>1. /\ fuse.chunk \in Chunk /\ fuse.data \in Data
          /\ acked[fuse.chunk] \subseteq fuse.data
      BY <1>0, <1>5, FuseFields DEF FetchInsert, CacheInv
    <2>2. /\ fuse'.at \in {"reply", "merge"} /\ fuse'.chunk = fuse.chunk
          /\ fuse'.data = fuse.data /\ acked' = acked
      BY <1>5 DEF FetchInsert, Obtained, historyVars
    <2>. QED
      BY <1>0, <1>5, <2>1, <2>2, InsertedInRam DEF FetchInsert
  <1>6. CASE FetchFails \/ ReadReply
    <2>1. fuse'.at = "idle"
      BY <1>6 DEF FetchFails, ReadReply, IdleThread
    <2>. QED
      BY <1>6, <2>1, CacheKept DEF FetchFails, ReadReply, historyVars
  <1>7. CASE FetchNotFound
    <2>1. fuse.chunk \in Chunk /\ ~Cached(fuse.chunk)
      BY <1>0, <1>7, FuseFields DEF FetchNotFound
    <2>2. acked[fuse.chunk] = {}
      BY <1>0, <2>1, CalmHit
    <2>3. fuse'.at \in {"reply", "merge"} /\ fuse'.chunk = fuse.chunk
      BY <1>7 DEF FetchNotFound, Obtained
    <2>. QED
      BY <1>7, <2>2, <2>3, CacheKept DEF FetchNotFound, historyVars
  <1>8. CASE WriteMarkDirty
    <2>1. /\ fuse.at = "merge"
          /\ fuse = [at |-> "merge", op |-> fuse.op, chunk |-> fuse.chunk, data |-> fuse.data]
      BY <1>0, <1>8, FuseFields DEF WriteMarkDirty
    <2>2. fuse' = [at |-> "insert", op |-> fuse.op, chunk |-> fuse.chunk,
                   data |-> fuse.data \cup {started}]
      BY <1>8, <2>1 DEF WriteMarkDirty
    <2>3. /\ fuse'.at = "insert" /\ fuse'.chunk = fuse.chunk
          /\ fuse'.data = fuse.data \cup {started}
      BY <2>2
    <2>4. acked[fuse.chunk] \subseteq fuse.data
      BY <2>1 DEF CacheInv
    <2>. QED
      BY <1>8, <2>3, <2>4, CacheKept DEF WriteMarkDirty
  <1>9. CASE WriteInsert
    <2>1. /\ fuse.at = "insert" /\ fuse.chunk \in Chunk /\ fuse.data \in Data
          /\ acked[fuse.chunk] \cup {started} \subseteq fuse.data
      BY <1>0, <1>9, FuseFields DEF WriteInsert, CacheInv
    <2>2. /\ acked'[fuse.chunk] = acked[fuse.chunk] \cup {started}
          /\ \A d \in Chunk \ {fuse.chunk} : acked'[d] = acked[d]
          /\ fuse'.at = "idle"
      BY <1>0, <1>9, <2>1 DEF WBTypeOK, WriteInsert, IdleThread
    <2>. QED
      BY <1>0, <1>9, <2>1, <2>2, InsertedInRam DEF WriteInsert
  <1>. QED
    BY <1>1, <1>2, <1>3, <1>4, <1>5, <1>6, <1>7, <1>8, <1>9 DEF FuseThread

LEMMA CacheInvNext ==
    ASSUME Calm, WBInd, CacheInv, [WBNext]_vars
    PROVE  CacheInv'
  <1>1. CASE UNCHANGED vars
    BY <1>1 DEF CacheInv, vars, cacheVars, historyVars
  <1>2. ASSUME NEW c \in Chunk, StartWrite(c) \/ StartRead(c)
        PROVE  CacheInv'
    <2>1. fuse'.at \in {"cache", "fetch"}
      BY <1>2 DEF StartWrite, StartRead
    <2>. QED
      BY <1>2, <2>1, CacheKept DEF StartWrite, StartRead, historyVars
  <1>3. CASE FuseThread
    BY <1>3, FuseThreadCache
  <1>4. CASE Runner
    BY <1>4
    DEF Runner, StartRound, HostStores, HostRefuses, AnswerLost, UploadDone, UploadFailed,
        CacheInv, cacheVars, historyVars
  <1>5. ASSUME NEW d \in DiskThread, DiskWrite(d)
        PROVE  CacheInv'
    <2>1. \A e \in DiskThread : disk_writes'[e] # None => disk_writes'[e] = disk_writes[e]
      BY <1>5 DEF WBInd, WBInv, WBTypeOK, DiskWrite
    <2>2. disk_writes[d].chunk \in Chunk /\ ram[disk_writes[d].chunk] # None
      BY <1>5 DEF WBInd, WBInv, WBTypeOK, DiskWrite, Copy, CacheInv
    <2>3. \A c \in Chunk : disk'[c] # None => disk[c] # None \/ c = disk_writes[d].chunk
      BY <1>5, <2>2 DEF WBInd, WBInv, WBTypeOK, DiskWrite
    <2>4. UNCHANGED <<ram, fuse, acked, started>>
      BY <1>5 DEF DiskWrite, historyVars
    <2>. QED
      BY <2>1, <2>2, <2>3, <2>4 DEF CacheInv
  <1>. QED
    BY <1>1, <1>2, <1>3, <1>4, <1>5 DEF WBNext, Calm, EvictRam, EvictDisk

LEMMA KeptInvNext ==
    ASSUME WBInd, CacheInv, KeptInv, [WBNext]_vars
    PROVE  KeptInv'
  <1>1. ASSUME UNCHANGED <<host, dirty, acked, overtaken>>
        PROVE  KeptInv'
    BY <1>1 DEF KeptInv, Latest
  <1>2. CASE WriteMarkDirty
    <2>1. PICK c \in Chunk : fuse.at = "merge" /\ fuse.chunk = c /\ fuse.data \in Data
      BY <1>2, FuseFields DEF WBInd, WBInv, WriteMarkDirty
    <2>2. /\ dirty'[c] = fuse.data \cup {started} /\ dirty'[c] # None
          /\ \A d \in Chunk \ {c} : dirty'[d] = dirty[d]
      <3>1. fuse.data \cup {started} \in Data
        BY <2>1, BoundsAssumption DEF WBInd, WBInv, WBTypeOK, WriteInv, Data
      <3>. QED
        BY <1>2, <2>1, <3>1, MarkDirtyFacts, NoneAssumption DEF WBInd, WriteMarkDirty
    <2>3. acked[c] \subseteq Latest(c)'
      BY <2>1, <2>2 DEF CacheInv, Latest
    <2>4. \A d \in Chunk \ {c} : Latest(d)' = Latest(d)
      BY <1>2, <2>2 DEF Latest, WriteMarkDirty
    <2>5. overtaken \subseteq overtaken' /\ acked' = acked
      BY <1>2 DEF WriteMarkDirty
    <2>. QED
      BY <2>3, <2>4, <2>5 DEF KeptInv
  <1>3. CASE WriteInsert
    <2>1. PICK c \in Chunk : fuse.at = "insert" /\ fuse.chunk = c
      BY <1>3, FuseFields DEF WBInd, WBInv, WriteInsert
    <2>2. /\ acked'[c] = acked[c] \cup {started}
          /\ \A d \in Chunk \ {c} : acked'[d] = acked[d]
      BY <1>3, <2>1 DEF WBInd, WBInv, WBTypeOK, WriteInsert
    <2>3. c \notin overtaken => started \in Latest(c)
      BY <2>1 DEF WBInd, NewestInv, Inserting
    <2>4. overtaken' = overtaken /\ \A d \in Chunk : Latest(d)' = Latest(d)
      BY <1>3 DEF WriteInsert, Latest, engineVars
    <2>. QED
      BY <2>2, <2>3, <2>4 DEF KeptInv
  <1>4. CASE HostStores
    BY <1>4, LatestWhenStored DEF KeptInv, HostStores, historyVars
  <1>5. CASE UploadDone
    BY <1>5, LatestWhenDone DEF KeptInv, UploadDone, historyVars
  <1>6. CASE WBNext /\ ~(WriteMarkDirty \/ WriteInsert \/ HostStores \/ UploadDone)
    <2>1. UNCHANGED <<host, dirty, acked, overtaken>>
      BY <1>6
      DEF WBNext, FuseThread, Runner, StartWrite, StartRead, LookInCache, MissInCache,
          LookInDirty, FetchFromHost, FetchInsert, FetchFails, FetchNotFound, ReadReply,
          SpawnPrefetch, PrefetchRead, PrefetchInsert, StartRound, HostRefuses, AnswerLost,
          UploadFailed, DiskWrite, EvictRam, EvictDisk, engineVars, historyVars
    <2>. QED
      BY <1>1, <2>1
  <1>7. CASE UNCHANGED vars
    BY <1>1, <1>7 DEF vars, engineVars, historyVars
  <1>. QED
    BY <1>2, <1>3, <1>4, <1>5, <1>6, <1>7

LEMMA CalmInitInd == WBInit => CalmInd
  BY WBInitInd DEF WBInit, CalmInd, CacheInv, KeptInv, IdleThread

LEMMA CalmNextInd ==
    ASSUME Calm
    PROVE  CalmInd /\ [WBNext]_vars => CalmInd'
  BY WBNextInd, CacheInvNext, KeptInvNext DEF CalmInd

LEMMA CalmInvariant ==
    ASSUME Calm
    PROVE  WBSpec => []CalmInd
  BY CalmInitInd, CalmNextInd, PTL DEF WBSpec

(* Without prefetching and with room in RAM, however many disk write       *)
(* threads there are, a read returns every write acknowledged before it    *)
(* (fetch_chunk after write).                                              *)
THEOREM ReadsSeeWrites ==
    ASSUME Calm
    PROVE  WBSpec => []ReadYourWrites
  <1>1. CalmInd => ReadYourWrites
    BY DEF CalmInd, CacheInv, ReadYourWrites
  <1>. QED
    BY <1>1, CalmInvariant, PTL

(* Under the same conditions every acknowledged write of a chunk never     *)
(* written during its own upload is on the host or still dirty: only that  *)
(* race of write and mark_synced loses writes.                             *)
THEOREM OnlyOvertakenLost ==
    ASSUME Calm
    PROVE  WBSpec => []NoWriteLostUnlessOvertaken
  <1>1. CalmInd => NoWriteLostUnlessOvertaken
    BY DEF CalmInd, KeptInv, Latest, NoWriteLostUnlessOvertaken
  <1>. QED
    BY <1>1, CalmInvariant, PTL
=============================================================================
