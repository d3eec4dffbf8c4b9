----------------------------- MODULE DiskCache -----------------------------
(***************************************************************************)
(* The disk tier of the chunk cache and its garbage collector              *)
(* (crates/teleport-daemon/src/disk_cache.rs, gc.rs).                      *)
(*                                                                         *)
(* Disk write threads, the garbage collector and a restart work on three   *)
(* things that are updated one after the other: the files, the index in    *)
(* memory, and the byte counter.  A chunk is written to a temporary file,  *)
(* which is then renamed.  The temporary file has the chunk's name, so two *)
(* threads that write one chunk open the same file; a rename moves the     *)
(* file and not the name, and a thread that still has it open goes on      *)
(* writing into what is now the chunk's file.                              *)
(*                                                                         *)
(* Versions of a chunk differ in size (the last chunk of a file that       *)
(* grows): the version of size n is n bytes, each of them n.  The order of *)
(* access, in which the collector evicts, is left open.                    *)
(***************************************************************************)
EXTENDS Integers, Sequences, FiniteSets

CONSTANTS
    Chunk,          \* ChunkIds
    Size,           \* sizes of chunk versions
    DiskThread,     \* disk write threads
    High, Low,      \* the watermarks in bytes
    Word,           \* 2^64: AtomicU64 wraps
    None            \* no file, no entry

ASSUME FiniteAssumption == IsFiniteSet(Chunk) /\ IsFiniteSet(DiskThread)
ASSUME SizeAssumption == Size \subseteq Nat \ {0}
ASSUME WatermarkAssumption == Low \in Nat /\ High \in Nat /\ Low <= High
ASSUME WordAssumption == Word \in Nat /\ Word > High
ASSUME NoneAssumption == None \notin Size /\ None \notin Seq(Size)

VARIABLES
    tmp,            \* the temporary file of each chunk
    file,           \* the file of each chunk
    index,          \* DiskCache::index: the size of each entry
    total_bytes,    \* DiskCache::total_bytes
    writer,         \* the disk write threads
    gc,             \* the garbage collector
    stray,          \* history: bytes counted that no entry stands for
    shared          \* history: chunks whose temporary file was shared

files == <<tmp, file>>
vars == <<files, index, total_bytes, writer, gc, stray, shared>>

Content == UNION {[1 .. n -> Size] : n \in Size \cup {0}}

Version(n) == [k \in 1 .. n |-> n]

IdleThread == [at |-> "idle"]

(* at: opened, written, renamed and indexed are done.  fd: where the open  *)
(* file is: the temporary file, the chunk's, or no longer in a directory   *)
(* or closed.                                                              *)
Writing ==
    [at : {"opened", "written", "renamed", "indexed"}, chunk : Chunk, size : Size,
     fd : {"tmp", "file", "gone"}]

Collecting ==
    [at : {"check", "measured"}, left : {{}}, current_size : 0 .. Word - 1]
    \cup [at : {"loop"}, left : SUBSET (Chunk \X Size), current_size : 0 .. Word - 1]
    \cup [at : {"unlink", "subtract"}, left : SUBSET (Chunk \X Size),
          current_size : 0 .. Word - 1, chunk : Chunk, size : Size, entry : Size]

DCTypeOK ==
    /\ tmp \in [Chunk -> Content \cup {None}]
    /\ file \in [Chunk -> Content \cup {None}]
    /\ index \in [Chunk -> Size \cup {None}]
    /\ total_bytes \in 0 .. Word - 1
    /\ writer \in [DiskThread -> {IdleThread} \cup Writing]
    /\ gc \in {IdleThread} \cup Collecting
    /\ stray \in 0 .. Word - 1
    /\ shared \subseteq Chunk

Wrapped(n) == n % Word

(* The sum of sizes is the number of bytes they stand for. *)
BytesOf(size) == UNION {{c} \X (1 .. size[c]) : c \in {d \in DOMAIN size : size[d] # None}}

TotalOf(size) == Cardinality(BytesOf(size))

OnDisk == Wrapped(TotalOf([c \in Chunk |-> IF file[c] = None THEN None ELSE Len(file[c])]))
-----------------------------------------------------------------------------
(* DiskCache::new: scan_cache_dir counts the files and indexes none. *)

DCInit ==
    /\ tmp = [c \in Chunk |-> None]
    /\ file = [c \in Chunk |-> None]
    /\ index = [c \in Chunk |-> None]
    /\ total_bytes = 0
    /\ writer = [w \in DiskThread |-> IdleThread]
    /\ gc = IdleThread
    /\ stray = 0
    /\ shared = {}

(* The process ends at any moment and is started again. *)
Restart ==
    /\ index' = [c \in Chunk |-> None]
    /\ total_bytes' = OnDisk
    /\ stray' = OnDisk
    /\ writer' = [w \in DiskThread |-> IdleThread]
    /\ gc' = IdleThread
    /\ shared' = {}
    /\ UNCHANGED files
-----------------------------------------------------------------------------
(* DiskCache::write *)

Step(w, at) == [writer EXCEPT ![w].at = at]

Others(w, c, stages) ==
    {v \in DiskThread \ {w} : writer[v].at \in stages /\ writer[v].chunk = c}

(* create, truncate *)
Open(w, c, n) ==
    /\ writer[w] = IdleThread
    /\ writer' = [writer EXCEPT ![w] =
          [at |-> "opened", chunk |-> c, size |-> n, fd |-> "tmp"]]
    /\ tmp' = [tmp EXCEPT ![c] = <<>>]
    /\ shared' = IF Others(w, c, {"opened", "written"}) = {}
                 THEN shared ELSE shared \cup {c}
    /\ UNCHANGED <<file, index, total_bytes, gc, stray>>

(* write_all at the beginning of whatever the open file is now, close. *)
Overwritten(content, n) ==
    [k \in 1 .. (IF Len(content) > n THEN Len(content) ELSE n) |->
        IF k <= n THEN n ELSE content[k]]

WriteAll(w) ==
    LET c == writer[w].chunk
        n == writer[w].size
    IN  /\ writer[w].at = "opened"
        /\ writer' = [writer EXCEPT ![w].at = "written", ![w].fd = "gone"]
        /\ tmp' = IF writer[w].fd = "tmp"
                  THEN [tmp EXCEPT ![c] = Overwritten(@, n)] ELSE tmp
        /\ file' = IF writer[w].fd = "file"
                   THEN [file EXCEPT ![c] = Overwritten(@, n)] ELSE file
        /\ UNCHANGED <<index, total_bytes, gc, stray, shared>>

(* The disk is full or fails: the thread gives up, its file stays. *)
WriteFails(w) ==
    /\ writer[w].at = "opened"
    /\ writer' = [writer EXCEPT ![w] = IdleThread]
    /\ UNCHANGED <<files, index, total_bytes, gc, stray, shared>>

(* The open files after the chunk's file is no longer in the directory. *)
Unlinked(c) ==
    [v \in DiskThread |->
        IF writer[v].at = "opened" /\ writer[v].chunk = c /\ writer[v].fd = "file"
        THEN [writer[v] EXCEPT !.fd = "gone"] ELSE writer[v]]

(* The same after the temporary file has taken its place. *)
Replaced(c) ==
    [v \in DiskThread |->
        IF writer[v].at = "opened" /\ writer[v].chunk = c /\ writer[v].fd = "tmp"
        THEN [writer[v] EXCEPT !.fd = "file"] ELSE Unlinked(c)[v]]

(* Seeded fault: renamed as soon as it exists. *)
RenameEarly(w) ==
    LET c == writer[w].chunk
    IN  /\ writer[w].at \in {"opened", "written"}
        /\ tmp[c] # None
        /\ file' = [file EXCEPT ![c] = tmp[c]]
        /\ tmp' = [tmp EXCEPT ![c] = None]
        /\ writer' = [Replaced(c) EXCEPT ![w].at = "renamed"]
        /\ UNCHANGED <<index, total_bytes, gc, stray, shared>>

Rename(w) ==
    LET c == writer[w].chunk
    IN  /\ writer[w].at = "written"
        /\ tmp[c] # None
        /\ file' = [file EXCEPT ![c] = tmp[c]]
        /\ tmp' = [tmp EXCEPT ![c] = None]
        /\ writer' = [Replaced(c) EXCEPT ![w].at = "renamed"]
        /\ UNCHANGED <<index, total_bytes, gc, stray, shared>>

(* Another thread has renamed it: NotFound. *)
RenameFails(w) ==
    /\ writer[w].at = "written"
    /\ tmp[writer[w].chunk] = None
    /\ writer' = [writer EXCEPT ![w] = IdleThread]
    /\ UNCHANGED <<files, index, total_bytes, gc, stray, shared>>

(* Seeded fault: the size of a replaced entry is not subtracted. *)
IndexInsertAdds(w) ==
    /\ writer[w].at = "renamed"
    /\ index' = [index EXCEPT ![writer[w].chunk] = writer[w].size]
    /\ writer' = Step(w, "indexed")
    /\ UNCHANGED <<files, total_bytes, gc, stray, shared>>

(* The entry, and under the same lock the size of the one it replaces. *)
IndexInsert(w) ==
    LET c == writer[w].chunk
    IN  /\ writer[w].at = "renamed"
        /\ index' = [index EXCEPT ![c] = writer[w].size]
        /\ total_bytes' = IF index[c] = None THEN total_bytes
                          ELSE Wrapped(total_bytes - index[c])
        /\ writer' = Step(w, "indexed")
        /\ UNCHANGED <<files, gc, stray, shared>>

AddBytes(w) ==
    /\ writer[w].at = "indexed"
    /\ total_bytes' = Wrapped(total_bytes + writer[w].size)
    /\ writer' = [writer EXCEPT ![w] = IdleThread]
    /\ UNCHANGED <<files, index, gc, stray, shared>>
-----------------------------------------------------------------------------
(* GarbageCollector: maybe_gc, gc_to_target, and DiskCache::remove. *)

GcCheck ==
    /\ gc = IdleThread
    /\ total_bytes > High
    /\ gc' = [at |-> "check", left |-> {}, current_size |-> total_bytes]
    /\ UNCHANGED <<files, index, total_bytes, writer, stray, shared>>

GcMeasure ==
    /\ gc.at = "check"
    /\ gc' = [gc EXCEPT !.at = "measured", !.current_size = total_bytes]
    /\ UNCHANGED <<files, index, total_bytes, writer, stray, shared>>

(* entries_by_access_time *)
GcSnapshot ==
    /\ gc.at = "measured"
    /\ gc' = [gc EXCEPT !.at = "loop",
                        !.left = {<<c, index[c]>> : c \in {d \in Chunk : index[d] # None}}]
    /\ UNCHANGED <<files, index, total_bytes, writer, stray, shared>>

(* remove, first step: the entry, which may be newer than the snapshot's. *)
GcRemoveEntry(e) ==
    /\ gc.at = "loop" /\ e \in gc.left /\ gc.current_size > Low
    /\ gc' = IF index[e[1]] = None
             THEN [gc EXCEPT !.left = @ \ {e}]
             ELSE [at |-> "unlink", left |-> gc.left \ {e},
                   current_size |-> gc.current_size, chunk |-> e[1],
                   size |-> index[e[1]], entry |-> e[2]]
    /\ index' = [index EXCEPT ![e[1]] = None]
    /\ UNCHANGED <<files, total_bytes, writer, stray, shared>>

GcUnlink ==
    /\ gc.at = "unlink" /\ file[gc.chunk] # None
    /\ file' = [file EXCEPT ![gc.chunk] = None]
    /\ writer' = Unlinked(gc.chunk)
    /\ gc' = [gc EXCEPT !.at = "subtract"]
    /\ UNCHANGED <<tmp, index, total_bytes, stray, shared>>

GcLoop(current_size) ==
    gc' = [at |-> "loop", left |-> gc.left, current_size |-> current_size]

(* No such file, or it cannot be removed: the bytes stay counted. *)
GcUnlinkFails ==
    /\ gc.at = "unlink"
    /\ GcLoop(gc.current_size)
    /\ stray' = Wrapped(stray + gc.size)
    /\ UNCHANGED <<files, index, total_bytes, writer, shared>>

GcSubtract ==
    /\ gc.at = "subtract"
    /\ total_bytes' = Wrapped(total_bytes - gc.size)
    /\ GcLoop(IF gc.entry > gc.current_size THEN 0 ELSE gc.current_size - gc.entry)
    /\ UNCHANGED <<files, index, writer, stray, shared>>

GcEnd ==
    /\ gc.at = "loop" /\ (gc.left = {} \/ gc.current_size <= Low)
    /\ gc' = IdleThread
    /\ UNCHANGED <<files, index, total_bytes, writer, stray, shared>>
-----------------------------------------------------------------------------
WriteStep(w) ==
    \/ \E c \in Chunk, n \in Size : Open(w, c, n)
    \/ WriteAll(w) \/ WriteFails(w)
    \/ Rename(w) \/ RenameFails(w)
    \/ IndexInsert(w) \/ AddBytes(w)

GcStep ==
    \/ GcCheck \/ GcMeasure \/ GcSnapshot
    \/ \E e \in Chunk \X Size : GcRemoveEntry(e)
    \/ GcUnlink \/ GcUnlinkFails \/ GcSubtract \/ GcEnd

DCNext == (\E w \in DiskThread : WriteStep(w)) \/ GcStep \/ Restart

DCSpec == DCInit /\ [][DCNext]_vars
-----------------------------------------------------------------------------
(* The bytes that are under way: an entry that is not counted yet, and one *)
(* that is gone and still counted.                                         *)
NotYetAdded ==
    TotalOf([w \in DiskThread |-> IF writer[w].at = "indexed" THEN writer[w].size ELSE None])

NotYetSubtracted == IF gc.at \in {"unlink", "subtract"} THEN gc.size ELSE 0

(* Through all interleavings of writes, replacements and evictions the     *)
(* counter the collector goes by is the sum of the index, up to what is    *)
(* under way and to what is counted for good without an entry: the files   *)
(* found at the start and the entries whose file could not be removed.     *)
Accounting ==
    Wrapped(total_bytes + NotYetAdded) =
        Wrapped(TotalOf(index) + NotYetSubtracted + stray)

(* The counter stays in its width and accounts for the index, and the      *)
(* collector's estimate does not go below zero.                            *)
DiskInv == DCTypeOK /\ Accounting

Whole(content) == \E n \in Size : content = Version(n)

(* What DiskCache::read finds: an entry and its file. *)
Readable(c) == index[c] # None /\ file[c] # None

(* A chunk that can be read is one version from end to end, whatever other *)
(* chunks, the collector and crashes do, unless two threads have had its   *)
(* temporary file open at the same time.                                   *)
WholeUnlessShared == \A c \in Chunk \ shared : Readable(c) => Whole(file[c])
=============================================================================
