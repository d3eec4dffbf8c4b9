-------------------------- MODULE DiskCacheProofs --------------------------
(***************************************************************************)
(* What can be read from the disk tier is whole, and the counter the       *)
(* collector goes by accounts for the index, for any chunks, sizes,        *)
(* watermarks and number of write threads.                                 *)
(*                                                                         *)
(* That a readable chunk is whole is about the files that have an entry;   *)
(* to be kept it needs, for a chunk whose temporary file was never shared, *)
(* that one thread at most is between its open and its rename, that this   *)
(* thread's open file is the temporary file, empty before its write and    *)
(* one version after it, and that the file is whole already between the    *)
(* rename and the entry in the index. A file without an entry and without  *)
(* a thread may be anything: a restart forgets who shared what, and it     *)
(* forgets the index with it.                                              *)
(*                                                                         *)
(* That the counter accounts for the index is inductive with the types. A  *)
(* sum of sizes is the number of bytes it stands for, so that one entry    *)
(* more or less changes it by that entry (TotalChanges); the counter wraps *)
(* at its width, so that only sums that differ by a multiple of it can be  *)
(* told to agree (WrapInside). Every step then adds the same to both sides *)
(* of the books (BalanceMoves).                                            *)
(***************************************************************************)
EXTENDS DiskCache, FiniteSetTheorems, TLAPS

(* The part of the types that the argument needs. *)
ShapeOK ==
    /\ tmp \in [Chunk -> Content \cup {None}]
    /\ file \in [Chunk -> Content \cup {None}]
    /\ index \in [Chunk -> Size \cup {None}]
    /\ writer \in [DiskThread -> {IdleThread} \cup Writing]
    /\ shared \subseteq Chunk

(* Thread w writes chunk c and has got so far. *)
Writes(w, c, stages) == writer[w].at \in stages /\ writer[w].chunk = c

(* An open file that is in a directory is there. *)
OpenFiles ==
    \A w \in DiskThread, c \in Chunk : Writes(w, c, {"opened"}) =>
        /\ writer[w].fd = "tmp" => tmp[c] # None
        /\ writer[w].fd = "file" => file[c] # None

OneWriter(c) ==
    \A v, w \in DiskThread :
        Writes(v, c, {"opened", "written"}) /\ Writes(w, c, {"opened", "written"}) => v = w

TmpInOrder(c) ==
    \A w \in DiskThread :
        /\ Writes(w, c, {"opened"}) => writer[w].fd = "tmp" /\ tmp[c] = <<>>
        /\ Writes(w, c, {"written"}) => tmp[c] = Version(writer[w].size)

FileInOrder(c) ==
    file[c] # None /\ (index[c] # None \/ \E w \in DiskThread : Writes(w, c, {"renamed"}))
        => Whole(file[c])

WholeInd ==
    /\ ShapeOK
    /\ OpenFiles
    /\ \A c \in Chunk \ shared : OneWriter(c) /\ TmpInOrder(c) /\ FileInOrder(c)
-----------------------------------------------------------------------------
(* Contents of files. *)

LEMMA EmptyContent == <<>> \in Content /\ <<>> # None
  <1>1. <<>> \in [1 .. 0 -> Size]
    OBVIOUS
  <1>2. <<>> \in Content
    BY <1>1 DEF Content
  <1>3. <<>> \in Seq(Size)
    OBVIOUS
  <1>. QED
    BY <1>2, <1>3, NoneAssumption

LEMMA ContentIsSeq ==
    ASSUME NEW x \in Content
    PROVE  x \in Seq(Size) /\ x # None /\ Len(x) \in Size \cup {0}
  <1>1. PICK k \in Size \cup {0} : x \in [1 .. k -> Size]
    BY DEF Content
  <1>2. k \in Nat
    BY SizeAssumption
  <1>3. x \in Seq(Size) /\ Len(x) = k
    BY <1>1, <1>2
  <1>. QED
    BY <1>3, NoneAssumption

(* A write over a file leaves a file, and over an empty one a version. *)
LEMMA OverwrittenFacts ==
    ASSUME NEW x \in Content, NEW n \in Size
    PROVE  /\ Overwritten(x, n) \in Content
           /\ Overwritten(x, n) # None
           /\ x = <<>> => Overwritten(x, n) = Version(n)
  <1>1. /\ x \in Seq(Size) /\ Len(x) \in Size \cup {0} /\ n \in Nat /\ n > 0
        /\ Len(x) \in Nat
    BY ContentIsSeq, SizeAssumption
  <1>2. CASE Len(x) > n
    <2>1. Overwritten(x, n) = [k \in 1 .. Len(x) |-> IF k <= n THEN n ELSE x[k]]
      BY <1>2 DEF Overwritten
    <2>2. Overwritten(x, n) \in [1 .. Len(x) -> Size]
      BY <1>1, <2>1
    <2>3. Overwritten(x, n) \in Content
      BY <1>1, <2>2 DEF Content
    <2>4. x # <<>>
      BY <1>1, <1>2
    <2>. QED
      BY <2>3, <2>4, ContentIsSeq
  <1>3. CASE ~(Len(x) > n)
    <2>1. Overwritten(x, n) = [k \in 1 .. n |-> IF k <= n THEN n ELSE x[k]]
      BY <1>3 DEF Overwritten
    <2>2. Overwritten(x, n) = [k \in 1 .. n |-> n]
      BY <1>1, <2>1
    <2>3. [k \in 1 .. n |-> n] \in Content
      BY DEF Content
    <2>. QED
      BY <2>2, <2>3, ContentIsSeq DEF Version
  <1>. QED
    BY <1>2, <1>3
-----------------------------------------------------------------------------
(* Threads. *)

LEMMA ThreadCases ==
    ASSUME ShapeOK, NEW w \in DiskThread
    PROVE  /\ writer[w] \in {IdleThread} \cup Writing
           /\ writer[w].at # "idle" =>
                 writer[w] \in Writing /\ writer[w].chunk \in Chunk /\ writer[w].size \in Size
           /\ writer[w] = IdleThread <=> writer[w].at = "idle"
  <1>1. writer[w] \in {IdleThread} \cup Writing
    BY DEF ShapeOK
  <1>. QED
    BY <1>1 DEF IdleThread, Writing

(* v is the thread w but for where its open file is. *)
SameThread(v, w) ==
    /\ v \in {IdleThread} \cup Writing
    /\ v.at = w.at
    /\ w.at # "idle" => v.chunk = w.chunk /\ v.size = w.size

(* Removing the file of a chunk. *)
LEMMA UnlinkedFacts ==
    ASSUME ShapeOK, NEW v \in DiskThread, NEW c
    PROVE  /\ SameThread(Unlinked(c)[v], writer[v])
           /\ ~Writes(v, c, {"opened"}) => Unlinked(c)[v] = writer[v]
           /\ Writes(v, c, {"opened"}) =>
                 Unlinked(c)[v].fd = IF writer[v].fd = "file" THEN "gone" ELSE writer[v].fd
  <1>1. /\ writer[v] \in {IdleThread} \cup Writing
        /\ writer[v].at # "idle" => writer[v] \in Writing
    BY ThreadCases
  <1>2. Unlinked(c)[v] =
           IF writer[v].at = "opened" /\ writer[v].chunk = c /\ writer[v].fd = "file"
           THEN [writer[v] EXCEPT !.fd = "gone"] ELSE writer[v]
    BY DEF Unlinked
  <1>. QED
    BY <1>1, <1>2 DEF SameThread, Writes, Writing

(* Renaming the temporary file of a chunk. *)
LEMMA ReplacedFacts ==
    ASSUME ShapeOK, NEW v \in DiskThread, NEW c
    PROVE  /\ SameThread(Replaced(c)[v], writer[v])
           /\ ~Writes(v, c, {"opened"}) => Replaced(c)[v] = writer[v]
           /\ Writes(v, c, {"opened"}) => Replaced(c)[v].fd # "tmp"
  <1>1. /\ writer[v] \in {IdleThread} \cup Writing
        /\ writer[v].at # "idle" => writer[v] \in Writing
    BY ThreadCases
  <1>2. Replaced(c)[v] =
           IF writer[v].at = "opened" /\ writer[v].chunk = c /\ writer[v].fd = "tmp"
           THEN [writer[v] EXCEPT !.fd = "file"] ELSE Unlinked(c)[v]
    BY DEF Replaced
  <1>3. CASE writer[v].at = "opened" /\ writer[v].chunk = c /\ writer[v].fd = "tmp"
    BY <1>1, <1>2, <1>3 DEF SameThread, Writes, Writing
  <1>4. CASE ~(writer[v].at = "opened" /\ writer[v].chunk = c /\ writer[v].fd = "tmp")
    <2>1. Replaced(c)[v] = Unlinked(c)[v]
      BY <1>2, <1>4
    <2>. QED
      BY <1>1, <1>4, <2>1, UnlinkedFacts DEF Writes
  <1>. QED
    BY <1>3, <1>4
-----------------------------------------------------------------------------
(* The steps. *)

LEMMA WholeInit == DCInit => WholeInd
  <1>. SUFFICES ASSUME DCInit PROVE WholeInd
    OBVIOUS
  <1>1. ShapeOK
    BY DEF DCInit, ShapeOK
  <1>2. \A w \in DiskThread : writer[w].at = "idle"
    BY DEF DCInit, IdleThread
  <1>3. \A c \in Chunk : index[c] = None
    BY DEF DCInit
  <1>. QED
    BY <1>1, <1>2, <1>3
       DEF WholeInd, OpenFiles, OneWriter, TmpInOrder, FileInOrder, Writes

LEMMA WholeRestart == ASSUME WholeInd, Restart PROVE WholeInd'
  <1>1. ShapeOK'
    BY DEF Restart, WholeInd, ShapeOK, files
  <1>2. \A w \in DiskThread : writer'[w].at = "idle"
    BY DEF Restart, IdleThread
  <1>3. \A c \in Chunk : index'[c] = None
    BY DEF Restart
  <1>. QED
    BY <1>1, <1>2, <1>3
       DEF WholeInd, OpenFiles, OneWriter, TmpInOrder, FileInOrder, Writes

(* Files and threads stay; the index may lose entries. *)
LEMMA WholeShrink ==
    ASSUME WholeInd, UNCHANGED <<tmp, file, writer, shared>>,
           index' \in [Chunk -> Size \cup {None}],
           \A c \in Chunk : index'[c] # None => index[c] # None
    PROVE  WholeInd'
  <1>1. ShapeOK' /\ OpenFiles'
    BY DEF WholeInd, ShapeOK, OpenFiles, Writes
  <1>2. \A c \in Chunk \ shared : OneWriter(c)' /\ TmpInOrder(c)' /\ FileInOrder(c)'
    BY DEF WholeInd, OneWriter, TmpInOrder, FileInOrder, Writes
  <1>. QED
    BY <1>1, <1>2 DEF WholeInd

(* A thread opens, and so empties, the temporary file of its chunk. *)
LEMMA WholeOpen ==
    ASSUME WholeInd, NEW w \in DiskThread, NEW c \in Chunk, NEW n \in Size, Open(w, c, n)
    PROVE  WholeInd'
  <1>. DEFINE r == [at |-> "opened", chunk |-> c, size |-> n, fd |-> "tmp"]
  <1>1. /\ \A v \in DiskThread : writer'[v] = IF v = w THEN r ELSE writer[v]
        /\ \A d \in Chunk : tmp'[d] = IF d = c THEN <<>> ELSE tmp[d]
        /\ UNCHANGED <<file, index>>
    BY DEF Open, WholeInd, ShapeOK
  <1>2. /\ shared \subseteq shared' /\ shared' \subseteq Chunk
        /\ c \notin shared' => Others(w, c, {"opened", "written"}) = {}
    BY DEF Open, WholeInd, ShapeOK
  <1>3. ShapeOK'
    <2>1. r \in Writing
      BY DEF Writing
    <2>. QED
      BY <1>1, <1>2, <2>1, EmptyContent DEF WholeInd, ShapeOK, Open
  <1>4. \A v \in DiskThread, d \in Chunk : \A st :
           v # w => (Writes(v, d, st)' <=> Writes(v, d, st))
    BY <1>1 DEF Writes
  <1>5. \A d \in Chunk :
           /\ Writes(w, d, {"opened"})' <=> d = c
           /\ Writes(w, d, {"opened", "written"})' <=> d = c
           /\ ~Writes(w, d, {"written"})' /\ ~Writes(w, d, {"renamed"})'
    BY <1>1 DEF Writes
  <1>6. OpenFiles'
    <2>. SUFFICES ASSUME NEW v \in DiskThread, NEW d \in Chunk, Writes(v, d, {"opened"})'
                  PROVE  /\ writer'[v].fd = "tmp" => tmp'[d] # None
                         /\ writer'[v].fd = "file" => file'[d] # None
      BY DEF OpenFiles
    <2>1. CASE v = w
      BY <1>1, <1>5, <2>1, EmptyContent
    <2>2. CASE v # w
      BY <1>1, <1>4, <2>2, EmptyContent DEF WholeInd, OpenFiles
    <2>. QED
      BY <2>1, <2>2
  <1>7. ASSUME NEW d \in Chunk \ shared'
        PROVE  OneWriter(d)' /\ TmpInOrder(d)' /\ FileInOrder(d)'
    <2>0. OneWriter(d) /\ TmpInOrder(d) /\ FileInOrder(d)
      BY <1>2 DEF WholeInd
    <2>1. d = c => \A v \in DiskThread : v # w => ~Writes(v, c, {"opened", "written"})
      BY <1>2, <1>7 DEF Others, Writes
    <2>2. OneWriter(d)'
      BY <1>4, <1>5, <2>0, <2>1 DEF OneWriter
    <2>3. TmpInOrder(d)'
      <3>. SUFFICES ASSUME NEW v \in DiskThread
                    PROVE  /\ Writes(v, d, {"opened"})' => writer'[v].fd = "tmp" /\ tmp'[d] = <<>>
                           /\ Writes(v, d, {"written"})' => tmp'[d] = Version(writer'[v].size)
        BY DEF TmpInOrder
      <3>1. CASE v = w
        BY <1>1, <1>5, <3>1
      <3>2. CASE v # w /\ d # c
        BY <1>1, <1>4, <2>0, <3>2 DEF TmpInOrder
      <3>3. CASE v # w /\ d = c
        <4>1. ~Writes(v, c, {"opened"}) /\ ~Writes(v, c, {"written"})
          BY <2>1, <3>3 DEF Writes
        <4>. QED
          BY <1>4, <3>3, <4>1
      <3>. QED
        BY <3>1, <3>2, <3>3
    <2>4. FileInOrder(d)'
      BY <1>1, <1>4, <1>5, <2>0 DEF FileInOrder
    <2>. QED
      BY <2>2, <2>3, <2>4
  <1>. QED
    BY <1>3, <1>6, <1>7 DEF WholeInd

(* A thread writes into its open file, wherever that is by now. *)
LEMMA WholeWriteAll ==
    ASSUME WholeInd, NEW w \in DiskThread, WriteAll(w)
    PROVE  WholeInd'
  <1>1. PICK c \in Chunk, n \in Size : c = writer[w].chunk /\ n = writer[w].size
    BY ThreadCases DEF WriteAll, WholeInd
  <1>2. writer[w] \in Writing /\ Writes(w, c, {"opened"}) /\ Writes(w, c, {"opened", "written"})
    BY <1>1, ThreadCases DEF WriteAll, WholeInd, Writes
  <1>3. /\ \A v \in DiskThread : v # w => writer'[v] = writer[v]
        /\ writer'[w] \in Writing /\ writer'[w].at = "written" /\ writer'[w].chunk = c
        /\ writer'[w].size = n
        /\ writer' \in [DiskThread -> {IdleThread} \cup Writing]
    BY <1>1, <1>2 DEF WriteAll, WholeInd, ShapeOK, Writing
  <1>4. /\ \A d \in Chunk : tmp'[d] = IF d = c /\ writer[w].fd = "tmp"
                                       THEN Overwritten(tmp[c], n) ELSE tmp[d]
        /\ \A d \in Chunk : file'[d] = IF d = c /\ writer[w].fd = "file"
                                        THEN Overwritten(file[c], n) ELSE file[d]
        /\ UNCHANGED <<index, shared>>
    BY <1>1 DEF WriteAll, WholeInd, ShapeOK
  <1>5. /\ writer[w].fd = "tmp" => tmp[c] \in Content
        /\ writer[w].fd = "file" => file[c] \in Content
    BY <1>2 DEF WholeInd, OpenFiles, ShapeOK
  <1>6. /\ writer[w].fd = "tmp" => Overwritten(tmp[c], n) \in Content /\ Overwritten(tmp[c], n) # None
        /\ writer[w].fd = "file" => Overwritten(file[c], n) \in Content /\ Overwritten(file[c], n) # None
    BY <1>5, OverwrittenFacts
  <1>7. ShapeOK'
    <2>1. tmp' \in [Chunk -> Content \cup {None}]
      BY <1>1, <1>6 DEF WriteAll, WholeInd, ShapeOK
    <2>2. file' \in [Chunk -> Content \cup {None}]
      BY <1>1, <1>6 DEF WriteAll, WholeInd, ShapeOK
    <2>. QED
      BY <1>3, <1>4, <2>1, <2>2 DEF WholeInd, ShapeOK
  <1>8. \A v \in DiskThread, d \in Chunk : \A st :
           v # w => (Writes(v, d, st)' <=> Writes(v, d, st))
    BY <1>3 DEF Writes
  <1>9. \A d \in Chunk :
           /\ Writes(w, d, {"opened", "written"})' <=> d = c
           /\ Writes(w, d, {"written"})' <=> d = c
           /\ ~Writes(w, d, {"opened"})' /\ ~Writes(w, d, {"renamed"})'
    BY <1>3 DEF Writes
  <1>10. OpenFiles'
    <2>. SUFFICES ASSUME NEW v \in DiskThread, NEW d \in Chunk, Writes(v, d, {"opened"})'
                  PROVE  /\ writer'[v].fd = "tmp" => tmp'[d] # None
                         /\ writer'[v].fd = "file" => file'[d] # None
      BY DEF OpenFiles
    <2>1. v # w /\ Writes(v, d, {"opened"}) /\ writer'[v] = writer[v]
      BY <1>3, <1>8, <1>9
    <2>. QED
      BY <1>4, <1>6, <2>1 DEF WholeInd, OpenFiles
  <1>11. ASSUME NEW d \in Chunk \ shared'
         PROVE  OneWriter(d)' /\ TmpInOrder(d)' /\ FileInOrder(d)'
    <2>0. OneWriter(d) /\ TmpInOrder(d) /\ FileInOrder(d)
      BY <1>4 DEF WholeInd
    <2>1. OneWriter(d)'
      BY <1>2, <1>8, <1>9, <2>0 DEF OneWriter
    <2>2. d = c => writer[w].fd = "tmp" /\ tmp[c] = <<>>
      BY <1>2, <2>0 DEF TmpInOrder
    <2>3. d = c => tmp'[d] = Version(n)
      BY <1>4, <1>5, <2>2, OverwrittenFacts
    <2>4. TmpInOrder(d)'
      <3>. SUFFICES ASSUME NEW v \in DiskThread
                    PROVE  /\ Writes(v, d, {"opened"})' => writer'[v].fd = "tmp" /\ tmp'[d] = <<>>
                           /\ Writes(v, d, {"written"})' => tmp'[d] = Version(writer'[v].size)
        BY DEF TmpInOrder
      <3>1. CASE v = w
        BY <1>3, <1>9, <2>3, <3>1
      <3>2. CASE v # w /\ d # c
        BY <1>3, <1>4, <1>8, <2>0, <3>2 DEF TmpInOrder
      <3>3. CASE v # w /\ d = c
        <4>1. ~Writes(v, c, {"opened", "written"})
          BY <1>2, <2>0, <3>3 DEF OneWriter
        <4>2. ~Writes(v, c, {"opened"}) /\ ~Writes(v, c, {"written"})
          BY <4>1 DEF Writes
        <4>. QED
          BY <1>8, <3>3, <4>2
      <3>. QED
        BY <3>1, <3>2, <3>3
    <2>5. FileInOrder(d)'
      <3>1. file'[d] = file[d]
        BY <1>4, <2>2
      <3>. QED
        BY <1>4, <1>8, <1>9, <2>0, <3>1 DEF FileInOrder
    <2>. QED
      BY <2>1, <2>4, <2>5
  <1>. QED
    BY <1>7, <1>10, <1>11 DEF WholeInd

(* A thread gives up or has counted its bytes. *)
LEMMA WholeLeave ==
    ASSUME WholeInd, NEW w \in DiskThread, writer' = [writer EXCEPT ![w] = IdleThread],
           UNCHANGED <<tmp, file, index, shared>>
    PROVE  WholeInd'
  <1>1. ShapeOK'
    BY DEF WholeInd, ShapeOK
  <1>2. \A v \in DiskThread : IF v = w THEN writer'[v].at = "idle" ELSE writer'[v] = writer[v]
    BY DEF WholeInd, ShapeOK, IdleThread
  <1>3. OpenFiles'
    BY <1>2 DEF WholeInd, OpenFiles, Writes
  <1>4. \A d \in Chunk \ shared : OneWriter(d)' /\ TmpInOrder(d)' /\ FileInOrder(d)'
    BY <1>2 DEF WholeInd, OneWriter, TmpInOrder, FileInOrder, Writes
  <1>. QED
    BY <1>1, <1>3, <1>4 DEF WholeInd

(* The temporary file becomes the file of the chunk. *)
LEMMA WholeRename ==
    ASSUME WholeInd, NEW w \in DiskThread, Rename(w)
    PROVE  WholeInd'
  <1>1. PICK c \in Chunk, n \in Size : c = writer[w].chunk /\ n = writer[w].size
    BY ThreadCases DEF Rename, WholeInd
  <1>2. writer[w] \in Writing /\ Writes(w, c, {"written"}) /\ Writes(w, c, {"opened", "written"})
    BY <1>1, ThreadCases DEF Rename, WholeInd, Writes
  <1>3. /\ \A d \in Chunk : tmp'[d] = IF d = c THEN None ELSE tmp[d]
        /\ \A d \in Chunk : file'[d] = IF d = c THEN tmp[c] ELSE file[d]
        /\ tmp[c] # None
        /\ UNCHANGED <<index, shared>>
    BY <1>1 DEF Rename, WholeInd, ShapeOK
  <1>4. ~Writes(w, c, {"opened"})
    BY <1>2 DEF Writes
  <1>5. Replaced(c)[w] = writer[w]
    BY <1>4, ReplacedFacts DEF WholeInd
  <1>6. /\ \A v \in DiskThread : v # w => writer'[v] = Replaced(c)[v]
        /\ writer'[w] = [writer[w] EXCEPT !.at = "renamed"]
    BY <1>1, <1>5 DEF Rename, Replaced
  <1>7. writer'[w] \in Writing /\ writer'[w].at = "renamed" /\ writer'[w].chunk = c
    BY <1>1, <1>2, <1>6 DEF Writing
  <1>8. \A v \in DiskThread : v # w => SameThread(writer'[v], writer[v])
    BY <1>6, ReplacedFacts DEF WholeInd
  <1>9. ShapeOK'
    <2>1. writer' \in [DiskThread -> {IdleThread} \cup Writing]
      <3>1. \A v \in DiskThread : writer'[v] \in {IdleThread} \cup Writing
        BY <1>7, <1>8 DEF SameThread
      <3>2. writer' = [v \in DiskThread |-> writer'[v]]
        BY <1>1 DEF Rename, Replaced
      <3>. QED
        BY <3>1, <3>2
    <2>2. tmp' \in [Chunk -> Content \cup {None}] /\ file' \in [Chunk -> Content \cup {None}]
      BY <1>1 DEF Rename, WholeInd, ShapeOK
    <2>. QED
      BY <1>3, <2>1, <2>2 DEF WholeInd, ShapeOK
  <1>10. ASSUME NEW v \in DiskThread, NEW d \in Chunk,
                NEW st \in SUBSET {"opened", "written", "renamed", "indexed"}, v # w
         PROVE  Writes(v, d, st)' <=> Writes(v, d, st)
    BY <1>8, <1>10 DEF Writes, SameThread
  <1>11. \A d \in Chunk :
            /\ ~Writes(w, d, {"opened", "written"})' /\ ~Writes(w, d, {"opened"})'
            /\ ~Writes(w, d, {"written"})'
            /\ Writes(w, d, {"renamed"})' <=> d = c
    BY <1>7 DEF Writes
  <1>12. OpenFiles'
    <2>. SUFFICES ASSUME NEW v \in DiskThread, NEW d \in Chunk, Writes(v, d, {"opened"})'
                  PROVE  /\ writer'[v].fd = "tmp" => tmp'[d] # None
                         /\ writer'[v].fd = "file" => file'[d] # None
      BY DEF OpenFiles
    <2>1. v # w /\ Writes(v, d, {"opened"}) /\ writer'[v] = Replaced(c)[v]
      BY <1>6, <1>10, <1>11
    <2>2. CASE d = c
      BY <1>3, <2>1, <2>2, ReplacedFacts DEF WholeInd
    <2>3. CASE d # c
      <3>1. ~Writes(v, c, {"opened"})
        BY <2>1, <2>3 DEF Writes
      <3>2. writer'[v] = writer[v]
        BY <2>1, <3>1, ReplacedFacts DEF WholeInd
      <3>. QED
        BY <1>3, <2>1, <2>3, <3>2 DEF WholeInd, OpenFiles
    <2>. QED
      BY <2>2, <2>3
  <1>13. ASSUME NEW d \in Chunk \ shared'
         PROVE  OneWriter(d)' /\ TmpInOrder(d)' /\ FileInOrder(d)'
    <2>0. OneWriter(d) /\ TmpInOrder(d) /\ FileInOrder(d)
      BY <1>3 DEF WholeInd
    <2>1. OneWriter(d)'
      BY <1>10, <1>11, <2>0 DEF OneWriter
    <2>2. d = c => \A v \in DiskThread : v # w => ~Writes(v, c, {"opened", "written"})
      BY <1>2, <2>0 DEF OneWriter
    <2>3. TmpInOrder(d)'
      <3>. SUFFICES ASSUME NEW v \in DiskThread
                    PROVE  /\ Writes(v, d, {"opened"})' => writer'[v].fd = "tmp" /\ tmp'[d] = <<>>
                           /\ Writes(v, d, {"written"})' => tmp'[d] = Version(writer'[v].size)
        BY DEF TmpInOrder
      <3>1. CASE v = w
        BY <1>11, <3>1
      <3>2. CASE v # w /\ d = c
        <4>1. ~Writes(v, c, {"opened"}) /\ ~Writes(v, c, {"written"})
          BY <2>2, <3>2 DEF Writes
        <4>. QED
          BY <1>10, <3>2, <4>1
      <3>3. CASE v # w /\ d # c
        <4>1. Writes(v, d, {"opened"})' \/ Writes(v, d, {"written"})' => writer'[v] = writer[v]
          <5>1. Writes(v, d, {"opened"})' \/ Writes(v, d, {"written"})' =>
                   Writes(v, d, {"opened"}) \/ Writes(v, d, {"written"})
            BY <1>10, <3>3
          <5>2. Writes(v, d, {"opened"}) \/ Writes(v, d, {"written"}) => ~Writes(v, c, {"opened"})
            BY <3>3 DEF Writes
          <5>. QED
            BY <1>6, <3>3, <5>1, <5>2, ReplacedFacts DEF WholeInd
        <4>. QED
          BY <1>3, <1>10, <2>0, <3>3, <4>1 DEF TmpInOrder
      <3>. QED
        BY <3>1, <3>2, <3>3
    <2>4. FileInOrder(d)'
      <3>1. CASE d = c
        <4>1. file'[d] = Version(n)
          BY <1>1, <1>2, <1>3, <2>0, <3>1 DEF TmpInOrder
        <4>. QED
          BY <4>1 DEF FileInOrder, Whole
      <3>2. CASE d # c
        BY <1>3, <1>10, <1>11, <2>0, <3>2 DEF FileInOrder
      <3>. QED
        BY <3>1, <3>2
    <2>. QED
      BY <2>1, <2>3, <2>4
  <1>. QED
    BY <1>9, <1>12, <1>13 DEF WholeInd

(* The entry is made: the file has been whole since the rename. *)
LEMMA WholeIndex ==
    ASSUME WholeInd, NEW w \in DiskThread, IndexInsert(w)
    PROVE  WholeInd'
  <1>1. PICK c \in Chunk, n \in Size : c = writer[w].chunk /\ n = writer[w].size
    BY ThreadCases DEF IndexInsert, WholeInd
  <1>2. writer[w] \in Writing /\ Writes(w, c, {"renamed"})
    BY <1>1, ThreadCases DEF IndexInsert, WholeInd, Writes
  <1>3. /\ \A v \in DiskThread : v # w => writer'[v] = writer[v]
        /\ writer'[w] \in Writing /\ writer'[w].at = "indexed"
        /\ writer' \in [DiskThread -> {IdleThread} \cup Writing]
        /\ UNCHANGED <<tmp, file, shared>>
    BY <1>2 DEF IndexInsert, Step, WholeInd, ShapeOK, Writing, files
  <1>4. /\ index' \in [Chunk -> Size \cup {None}]
        /\ \A d \in Chunk : d # c => index'[d] = index[d]
    BY <1>1 DEF IndexInsert, WholeInd, ShapeOK
  <1>5. ShapeOK'
    BY <1>3, <1>4 DEF WholeInd, ShapeOK
  <1>6. \A v \in DiskThread, d \in Chunk, st \in SUBSET {"opened", "written", "renamed"} :
           Writes(v, d, st)' => v # w /\ Writes(v, d, st) /\ writer'[v] = writer[v]
    BY <1>3 DEF Writes
  <1>7. OpenFiles'
    BY <1>3, <1>6 DEF WholeInd, OpenFiles
  <1>8. ASSUME NEW d \in Chunk \ shared'
        PROVE  OneWriter(d)' /\ TmpInOrder(d)' /\ FileInOrder(d)'
    <2>0. OneWriter(d) /\ TmpInOrder(d) /\ FileInOrder(d)
      BY <1>3 DEF WholeInd
    <2>1. OneWriter(d)'
      BY <1>6, <2>0 DEF OneWriter
    <2>2. TmpInOrder(d)'
      BY <1>3, <1>6, <2>0 DEF TmpInOrder
    <2>3. FileInOrder(d)'
      BY <1>2, <1>3, <1>4, <1>6, <2>0 DEF FileInOrder
    <2>. QED
      BY <2>1, <2>2, <2>3
  <1>. QED
    BY <1>5, <1>7, <1>8 DEF WholeInd

(* The collector removes a file; a thread that has it open writes into     *)
(* nothing.                                                                *)
LEMMA WholeUnlink == ASSUME WholeInd, GcUnlink PROVE WholeInd'
  <1>1. PICK g : g = gc.chunk
    OBVIOUS
  <1>2. /\ \A d \in Chunk : file'[d] = IF d = g THEN None ELSE file[d]
        /\ file' \in [Chunk -> Content \cup {None}]
        /\ UNCHANGED <<tmp, index, shared>>
    BY <1>1 DEF GcUnlink, WholeInd, ShapeOK
  <1>3. /\ \A v \in DiskThread : writer'[v] = Unlinked(g)[v]
        /\ writer' = [v \in DiskThread |-> writer'[v]]
    BY <1>1 DEF GcUnlink, Unlinked
  <1>4. \A v \in DiskThread : SameThread(writer'[v], writer[v])
    BY <1>3, UnlinkedFacts DEF WholeInd
  <1>5. ShapeOK'
    <2>1. writer' \in [DiskThread -> {IdleThread} \cup Writing]
      BY <1>3, <1>4 DEF SameThread
    <2>. QED
      BY <1>2, <2>1 DEF WholeInd, ShapeOK
  <1>6. \A v \in DiskThread, d \in Chunk,
           st \in SUBSET {"opened", "written", "renamed", "indexed"} :
           Writes(v, d, st)' <=> Writes(v, d, st)
    BY <1>4 DEF Writes, SameThread
  <1>7. ASSUME NEW v \in DiskThread, NEW d \in Chunk, Writes(v, d, {"opened"})
        PROVE  /\ writer'[v].fd = "tmp" <=> writer[v].fd = "tmp"
               /\ writer'[v].fd = "file" => d # g /\ writer[v].fd = "file"
    <2>1. CASE d = g
      BY <1>3, <1>7, <2>1, UnlinkedFacts DEF WholeInd
    <2>2. CASE d # g
      <3>1. ~Writes(v, g, {"opened"})
        BY <1>7, <2>2 DEF Writes
      <3>. QED
        BY <1>3, <2>2, <3>1, UnlinkedFacts DEF WholeInd
    <2>. QED
      BY <2>1, <2>2
  <1>8. OpenFiles'
    BY <1>2, <1>6, <1>7 DEF WholeInd, OpenFiles
  <1>9. ASSUME NEW d \in Chunk \ shared'
        PROVE  OneWriter(d)' /\ TmpInOrder(d)' /\ FileInOrder(d)'
    <2>0. OneWriter(d) /\ TmpInOrder(d) /\ FileInOrder(d)
      BY <1>2 DEF WholeInd
    <2>1. OneWriter(d)'
      BY <1>6, <2>0 DEF OneWriter
    <2>2. \A v \in DiskThread : Writes(v, d, {"written"}) => writer'[v].size = writer[v].size
      BY <1>4 DEF Writes, SameThread
    <2>3. TmpInOrder(d)'
      BY <1>2, <1>6, <1>7, <2>0, <2>2 DEF TmpInOrder
    <2>4. FileInOrder(d)'
      BY <1>2, <1>6, <2>0 DEF FileInOrder
    <2>. QED
      BY <2>1, <2>3, <2>4
  <1>. QED
    BY <1>5, <1>8, <1>9 DEF WholeInd

LEMMA WholeStep ==
    ASSUME WholeInd, [DCNext]_vars
    PROVE  WholeInd'
  <1>1. ASSUME NEW w \in DiskThread, WriteStep(w)
        PROVE  WholeInd'
    <2>1. ASSUME NEW c \in Chunk, NEW n \in Size, Open(w, c, n) PROVE WholeInd'
      BY <2>1, WholeOpen
    <2>2. CASE WriteAll(w)
      BY <2>2, WholeWriteAll
    <2>3. CASE WriteFails(w) \/ RenameFails(w) \/ AddBytes(w)
      BY <2>3, WholeLeave DEF WriteFails, RenameFails, AddBytes, files
    <2>4. CASE Rename(w)
      BY <2>4, WholeRename
    <2>5. CASE IndexInsert(w)
      BY <2>5, WholeIndex
    <2>. QED
      BY <1>1, <2>1, <2>2, <2>3, <2>4, <2>5 DEF WriteStep
  <1>2. CASE GcStep
    <2>1. CASE GcCheck \/ GcMeasure \/ GcSnapshot \/ GcUnlinkFails \/ GcSubtract \/ GcEnd
      <3>1. UNCHANGED <<tmp, file, index, writer, shared>>
        BY <2>1 DEF GcCheck, GcMeasure, GcSnapshot, GcUnlinkFails, GcSubtract, GcEnd, files
      <3>. QED
        BY <3>1, WholeShrink DEF WholeInd, ShapeOK
    <2>2. ASSUME NEW e \in Chunk \X Size, GcRemoveEntry(e) PROVE WholeInd'
      <3>1. UNCHANGED <<tmp, file, writer, shared>>
        BY <2>2 DEF GcRemoveEntry, files
      <3>2. /\ index' \in [Chunk -> Size \cup {None}]
            /\ \A c \in Chunk : index'[c] # None => index[c] # None
        BY <2>2 DEF GcRemoveEntry, WholeInd, ShapeOK
      <3>. QED
        BY <3>1, <3>2, WholeShrink
    <2>3. CASE GcUnlink
      BY <2>3, WholeUnlink
    <2>. QED
      BY <1>2, <2>1, <2>2, <2>3 DEF GcStep
  <1>3. CASE Restart
    BY <1>3, WholeRestart
  <1>4. CASE UNCHANGED vars
    <2>1. UNCHANGED <<tmp, file, index, writer, shared>>
      BY <1>4 DEF vars, files
    <2>. QED
      BY <2>1, WholeShrink DEF WholeInd, ShapeOK
  <1>. QED
    BY <1>1, <1>2, <1>3, <1>4 DEF DCNext

(* The files, the threads and the temporary file of every chunk that was   *)
(* not shared are in order in every reachable state of the disk cache.     *)
THEOREM DiskFilesInOrder == DCSpec => []WholeInd
  BY WholeInit, WholeStep, PTL DEF DCSpec

(* A chunk that DiskCache::read can find is one version from end to end,   *)
(* whatever other write threads, failing writes, the garbage collector and *)
(* crashes between any two steps do, unless two threads have had its       *)
(* temporary file open at once.                                            *)
THEOREM ReadableIsWhole == DCSpec => []WholeUnlessShared
  <1>1. WholeInd => WholeUnlessShared
    BY DEF WholeInd, FileInOrder, WholeUnlessShared, Readable
  <1>. QED
    BY <1>1, DiskFilesInOrder, PTL
-----------------------------------------------------------------------------
(* Sums of sizes. *)

(* What an entry adds to the sum. *)
Weight(n) == IF n = None THEN 0 ELSE n

(* The bytes of the entry of c. *)
BytesAt(size, c) == IF size[c] = None THEN {} ELSE {c} \X (1 .. size[c])

LEMMA BytesAtFacts ==
    ASSUME NEW C, NEW size \in [C -> Nat \cup {None}], NEW c \in C
    PROVE  /\ IsFiniteSet(BytesAt(size, c))
           /\ Cardinality(BytesAt(size, c)) = Weight(size[c])
           /\ Weight(size[c]) \in Nat
  <1>1. CASE size[c] = None
    BY <1>1, FS_EmptySet DEF BytesAt, Weight
  <1>2. CASE size[c] # None
    <2>1. size[c] \in Nat
      BY <1>2
    <2>2. PICK n \in Nat : n = size[c]
      BY <2>1
    <2>3. IsFiniteSet(1 .. n) /\ Cardinality(1 .. n) = n
      BY FS_Interval
    <2>4. IsFiniteSet({c}) /\ Cardinality({c}) = 1
      BY FS_Singleton
    <2>5. IsFiniteSet({c} \X (1 .. n)) /\ Cardinality({c} \X (1 .. n)) = Cardinality({c}) * Cardinality(1 .. n)
      BY <2>3, <2>4, FS_Product
    <2>6. Cardinality({c} \X (1 .. n)) = n
      BY <2>3, <2>4, <2>5
    <2>. QED
      BY <1>2, <2>2, <2>5, <2>6 DEF BytesAt, Weight
  <1>. QED
    BY <1>1, <1>2

LEMMA BytesOfIs ==
    ASSUME NEW C, NEW size \in [C -> Nat \cup {None}], NEW b
    PROVE  b \in BytesOf(size) <=> \E c \in C : b \in BytesAt(size, c)
  BY DEF BytesOf, BytesAt

LEMMA BytesOfFinite ==
    ASSUME NEW C, IsFiniteSet(C), NEW size \in [C -> Nat \cup {None}]
    PROVE  IsFiniteSet(BytesOf(size)) /\ TotalOf(size) \in Nat
  <1>. DEFINE D == {d \in C : size[d] # None}
              T == {{c} \X (1 .. size[c]) : c \in D}
              f == [c \in D |-> {c} \X (1 .. size[c])]
  <1>1. IsFiniteSet(D)
    BY FS_Subset
  <1>2. f \in Surjection(D, T)
    BY DEF Surjection
  <1>3. IsFiniteSet(T)
    <2>. HIDE DEF D, T, f
    <2>. QED
      BY <1>1, <1>2, FS_Surjection
  <1>4. \A t \in T : IsFiniteSet(t)
    <2>. TAKE t \in T
    <2>1. PICK c \in D : t = {c} \X (1 .. size[c])
      OBVIOUS
    <2>2. t = BytesAt(size, c)
      BY <2>1 DEF BytesAt
    <2>. QED
      BY <2>2, BytesAtFacts
  <1>5. IsFiniteSet(UNION T)
    <2>. HIDE DEF T
    <2>. QED
      BY <1>3, <1>4, FS_UNION
  <1>6. BytesOf(size) = UNION T
    BY DEF BytesOf
  <1>. QED
    BY <1>5, <1>6, FS_CardinalityType DEF TotalOf

(* Changing one entry changes the sum by the difference. *)
LEMMA TotalChanges ==
    ASSUME NEW C, IsFiniteSet(C), NEW size \in [C -> Nat \cup {None}],
           NEW new \in [C -> Nat \cup {None}], NEW c \in C,
           \A d \in C \ {c} : new[d] = size[d]
    PROVE  TotalOf(new) = TotalOf(size) - Weight(size[c]) + Weight(new[c])
  <1>1. PICK R : R = BytesOf(size) \ BytesAt(size, c)
    OBVIOUS
  <1>2. \A d \in C \ {c} : BytesAt(new, d) = BytesAt(size, d)
    BY DEF BytesAt
  <1>3. \A d \in C : \A b \in BytesAt(size, d) : b[1] = d
    BY DEF BytesAt
  <1>4. \A d \in C : \A b \in BytesAt(new, d) : b[1] = d
    BY DEF BytesAt
  <1>5. R = BytesOf(new) \ BytesAt(new, c)
    <2>1. \A b \in R : b \in BytesOf(new) \ BytesAt(new, c)
      <3>. TAKE b \in R
      <3>1. PICK d \in C : b \in BytesAt(size, d)
        BY <1>1, BytesOfIs
      <3>2. d # c
        BY <3>1, <1>1
      <3>3. b \in BytesAt(new, d)
        BY <3>1, <3>2, <1>2
      <3>4. b \notin BytesAt(new, c)
        BY <3>2, <3>3, <1>4
      <3>. QED
        BY <3>3, <3>4, BytesOfIs
    <2>2. \A b \in BytesOf(new) \ BytesAt(new, c) : b \in R
      <3>. TAKE b \in BytesOf(new) \ BytesAt(new, c)
      <3>1. PICK d \in C : b \in BytesAt(new, d)
        BY BytesOfIs
      <3>2. d # c
        BY <3>1
      <3>3. b \in BytesAt(size, d)
        BY <3>1, <3>2, <1>2
      <3>4. b \notin BytesAt(size, c)
        BY <3>2, <3>3, <1>3
      <3>. QED
        BY <3>3, <3>4, <1>1, BytesOfIs
    <2>. QED
      BY <2>1, <2>2
  <1>6. /\ IsFiniteSet(BytesOf(size)) /\ TotalOf(size) \in Nat
        /\ IsFiniteSet(BytesOf(new)) /\ TotalOf(new) \in Nat
    BY BytesOfFinite
  <1>7. /\ BytesOf(size) \cap BytesAt(size, c) = BytesAt(size, c)
        /\ BytesOf(new) \cap BytesAt(new, c) = BytesAt(new, c)
    BY BytesOfIs
  <1>8. /\ Cardinality(R) = Cardinality(BytesOf(size)) - Cardinality(BytesAt(size, c))
        /\ Cardinality(R) = Cardinality(BytesOf(new)) - Cardinality(BytesAt(new, c))
    <2>1. Cardinality(BytesOf(size) \ BytesAt(size, c)) =
             Cardinality(BytesOf(size)) - Cardinality(BytesOf(size) \cap BytesAt(size, c))
      BY <1>6, FS_Difference
    <2>2. Cardinality(BytesOf(new) \ BytesAt(new, c)) =
             Cardinality(BytesOf(new)) - Cardinality(BytesOf(new) \cap BytesAt(new, c))
      BY <1>6, FS_Difference
    <2>. QED
      BY <1>1, <1>5, <1>7, <2>1, <2>2
  <1>9. /\ Cardinality(BytesAt(size, c)) = Weight(size[c]) /\ Weight(size[c]) \in Nat
        /\ Cardinality(BytesAt(new, c)) = Weight(new[c]) /\ Weight(new[c]) \in Nat
    BY BytesAtFacts
  <1>. QED
    BY <1>6, <1>8, <1>9 DEF TotalOf

(* No entries, no bytes. *)
LEMMA TotalOfNothing ==
    ASSUME NEW C, NEW size \in [C -> {None}]
    PROVE  TotalOf(size) = 0
  <1>1. BytesOf(size) = {}
    BY DEF BytesOf
  <1>. QED
    BY <1>1, FS_EmptySet DEF TotalOf
-----------------------------------------------------------------------------
(* The counter's width. *)

LEMMA WrapRange == ASSUME NEW a \in Int
                   PROVE  /\ Wrapped(a) \in 0 .. Word - 1
                          /\ \E k \in Int : a = Wrapped(a) + k * Word
  <1>1. PICK W \in Nat : W = Word /\ W > 0
    BY WordAssumption, WatermarkAssumption
  <1>2. a % W \in 0 .. W - 1
    BY <1>1
  <1>3. a \div W \in Int
    BY <1>1
  <1>4. a = (a \div W) * W + (a % W)
    BY <1>1, Z3
  <1>5. PICK k \in Int : k = a \div W
    BY <1>3
  <1>6. a = (a % W) + k * W
    BY <1>2, <1>4, <1>5
  <1>. QED
    BY <1>1, <1>2, <1>6 DEF Wrapped

(* Remainders that differ by a multiple of W are equal. *)
LEMMA SameRemainder ==
    ASSUME NEW W \in Nat, NEW x \in 0 .. W - 1, NEW y \in 0 .. W - 1,
           NEW i \in Int, NEW j \in Int, NEW k \in Int,
           x + i * W = y + j * W + k * W
    PROVE  x = y
  <1>1. PICK q \in Int : q = j + k - i
    OBVIOUS
  <1>2. q * W = j * W + k * W - i * W
    BY <1>1
  <1>3. j * W \in Int /\ k * W \in Int /\ i * W \in Int
    OBVIOUS
  <1>4. x = y + q * W
    BY <1>2, <1>3
  <1>5. CASE q >= 1
    <2>1. q * W >= W
      BY <1>5
    <2>. QED
      BY <1>4, <2>1
  <1>6. CASE q <= -1
    <2>1. q * W <= -W
      BY <1>6
    <2>. QED
      BY <1>4, <2>1
  <1>7. CASE q = 0
    BY <1>4, <1>7
  <1>. QED
    BY <1>5, <1>6, <1>7

(* Numbers that differ by a multiple of the width wrap to the same. *)
LEMMA WrapSame ==
    ASSUME NEW a \in Int, NEW b \in Int, NEW k \in Int, a = b + k * Word
    PROVE  Wrapped(a) = Wrapped(b)
  <1>1. PICK W \in Nat : W = Word
    BY WordAssumption
  <1>2. PICK i \in Int : a = Wrapped(a) + i * W
    BY <1>1, WrapRange
  <1>3. PICK j \in Int : b = Wrapped(b) + j * W
    BY <1>1, WrapRange
  <1>4. PICK x \in 0 .. W - 1 : x = Wrapped(a)
    BY <1>1, WrapRange
  <1>5. PICK y \in 0 .. W - 1 : y = Wrapped(b)
    BY <1>1, WrapRange
  <1>6. x + i * W = y + j * W + k * W
    BY <1>1, <1>2, <1>3, <1>4, <1>5
  <1>7. x = y
    BY <1>6, SameRemainder
  <1>. QED
    BY <1>4, <1>5, <1>7

(* Wrapping before an addition changes nothing. *)
LEMMA WrapInside ==
    ASSUME NEW a \in Int, NEW b \in Int
    PROVE  Wrapped(Wrapped(a) + b) = Wrapped(a + b)
  <1>1. PICK k \in Int : a = Wrapped(a) + k * Word
    BY WrapRange
  <1>2. PICK x \in Int : x = Wrapped(a)
    BY WrapRange
  <1>3. PICK W \in Nat : W = Word
    BY WordAssumption
  <1>4. a = x + k * W
    BY <1>1, <1>2, <1>3
  <1>5. PICK c \in Int : c = a + b
    OBVIOUS
  <1>6. PICK d \in Int : d = x + b
    OBVIOUS
  <1>7. c = d + k * W
    BY <1>4, <1>5, <1>6
  <1>8. Wrapped(c) = Wrapped(d)
    BY <1>3, <1>7, WrapSame
  <1>. QED
    BY <1>2, <1>5, <1>6, <1>8

LEMMA WrapTwice ==
    ASSUME NEW a \in Int
    PROVE  Wrapped(Wrapped(a)) = Wrapped(a)
  <1>1. Wrapped(Wrapped(a) + 0) = Wrapped(a + 0)
    BY WrapInside
  <1>2. PICK x \in Int : x = Wrapped(a)
    BY WrapRange
  <1>. QED
    BY <1>1, <1>2
-----------------------------------------------------------------------------
(* The counter. *)

(* What each thread has put into the index and not added to the counter. *)
Adding(threads) ==
    [w \in DiskThread |-> IF threads[w].at = "indexed" THEN threads[w].size ELSE None]

(* The types that the counter adds to those of the files. *)
CounterOK ==
    /\ total_bytes \in 0 .. Word - 1
    /\ stray \in 0 .. Word - 1
    /\ gc \in {IdleThread} \cup Collecting

LEMMA SizesAreNumbers == Size \subseteq Nat /\ None \notin Size
  BY SizeAssumption, NoneAssumption

LEMMA GcCases ==
    ASSUME CounterOK
    PROVE  /\ gc.at \in {"check", "measured"} =>
                 gc \in [at : {"check", "measured"}, left : {{}}, current_size : 0 .. Word - 1]
           /\ gc.at = "loop" =>
                 gc \in [at : {"loop"}, left : SUBSET (Chunk \X Size), current_size : 0 .. Word - 1]
           /\ gc.at \in {"unlink", "subtract"} =>
                 gc \in [at : {"unlink", "subtract"}, left : SUBSET (Chunk \X Size),
                        current_size : 0 .. Word - 1, chunk : Chunk, size : Size, entry : Size]
  BY DEF CounterOK, Collecting, IdleThread

LEMMA AddingType ==
    ASSUME NEW threads \in [DiskThread -> {IdleThread} \cup Writing]
    PROVE  /\ Adding(threads) \in [DiskThread -> Nat \cup {None}]
           /\ TotalOf(Adding(threads)) \in Nat
  <1>1. \A w \in DiskThread : threads[w].at = "indexed" => threads[w].size \in Nat
    <2>. TAKE w \in DiskThread
    <2>1. threads[w] \in {IdleThread} \cup Writing
      OBVIOUS
    <2>2. CASE threads[w] = IdleThread
      BY <2>2 DEF IdleThread
    <2>3. CASE threads[w] \in Writing
      BY <2>3, SizesAreNumbers DEF Writing
    <2>. QED
      BY <2>1, <2>2, <2>3
  <1>2. Adding(threads) \in [DiskThread -> Nat \cup {None}]
    BY <1>1 DEF Adding
  <1>. QED
    BY <1>2, FiniteAssumption, BytesOfFinite

LEMMA SumsAreNumbers ==
    ASSUME ShapeOK, CounterOK
    PROVE  /\ NotYetAdded \in Int /\ TotalOf(index) \in Int /\ NotYetSubtracted \in Int
           /\ total_bytes \in Int /\ stray \in Int
  <1>1. index \in [Chunk -> Nat \cup {None}]
    BY SizesAreNumbers DEF ShapeOK
  <1>2. TotalOf(index) \in Nat
    BY <1>1, FiniteAssumption, BytesOfFinite
  <1>3. NotYetSubtracted \in Nat
    BY GcCases, SizesAreNumbers DEF NotYetSubtracted
  <1>. QED
    BY <1>2, <1>3, AddingType DEF CounterOK, ShapeOK, NotYetAdded, Adding

(* A step that changes, among the threads, only what w has not added. *)
LEMMA AddingChanges ==
    ASSUME ShapeOK, ShapeOK', NEW w \in DiskThread,
           \A v \in DiskThread \ {w} : Adding(writer')[v] = Adding(writer)[v]
    PROVE  NotYetAdded' = NotYetAdded - Weight(Adding(writer)[w]) + Weight(Adding(writer')[w])
  <1>1. Adding(writer) \in [DiskThread -> Nat \cup {None}] /\ NotYetAdded = TotalOf(Adding(writer))
    BY AddingType DEF Adding, NotYetAdded, ShapeOK
  <1>2. Adding(writer') \in [DiskThread -> Nat \cup {None}] /\ NotYetAdded' = TotalOf(Adding(writer'))
    BY AddingType DEF Adding, NotYetAdded, ShapeOK
  <1>. QED
    BY <1>1, <1>2, FiniteAssumption, TotalChanges

(* A step that changes no thread in this. *)
LEMMA AddingStays ==
    ASSUME \A v \in DiskThread :
              writer'[v].at = "indexed" \/ writer[v].at = "indexed" =>
                 writer'[v].at = writer[v].at /\ writer'[v].size = writer[v].size
    PROVE  NotYetAdded' = NotYetAdded
  BY DEF NotYetAdded

-----------------------------------------------------------------------------
(* The steps of the counter. *)

DiskInd == WholeInd /\ CounterOK /\ Accounting

LEMMA CountInit == DCInit => CounterOK /\ Accounting
  <1>. SUFFICES ASSUME DCInit PROVE CounterOK /\ Accounting
    OBVIOUS
  <1>1. CounterOK
    BY WordAssumption, WatermarkAssumption DEF DCInit, CounterOK
  <1>2. TotalOf(index) = 0
    BY TotalOfNothing DEF DCInit
  <1>3. NotYetAdded = 0
    <2>1. Adding(writer) \in [DiskThread -> {None}]
      BY DEF DCInit, Adding, IdleThread
    <2>. QED
      BY <2>1, TotalOfNothing DEF NotYetAdded, Adding
  <1>4. NotYetSubtracted = 0
    BY DEF DCInit, NotYetSubtracted, IdleThread
  <1>. QED
    BY <1>1, <1>2, <1>3, <1>4 DEF Accounting, DCInit

(* Nothing of the books moves. *)
LEMMA CountSame ==
    ASSUME WholeInd, CounterOK, Accounting, CounterOK',
           UNCHANGED <<index, total_bytes, stray>>,
           NotYetAdded' = NotYetAdded, NotYetSubtracted' = NotYetSubtracted
    PROVE  Accounting'
  BY DEF Accounting

LEMMA CountRestart == ASSUME WholeInd, CounterOK, Restart PROVE CounterOK' /\ Accounting'
  <1>1. PICK d : d = [c \in Chunk |-> IF file[c] = None THEN None ELSE Len(file[c])]
    OBVIOUS
  <1>2. d \in [Chunk -> Nat \cup {None}]
    BY <1>1, ContentIsSeq, SizesAreNumbers DEF WholeInd, ShapeOK
  <1>3. TotalOf(d) \in Nat
    BY <1>2, FiniteAssumption, BytesOfFinite
  <1>4. OnDisk \in 0 .. Word - 1
    BY <1>1, <1>3, WrapRange DEF OnDisk
  <1>5. CounterOK'
    BY <1>4 DEF Restart, CounterOK
  <1>6. TotalOf(index') = 0
    BY TotalOfNothing DEF Restart
  <1>7. NotYetAdded' = 0
    <2>1. Adding(writer') \in [DiskThread -> {None}]
      BY DEF Restart, Adding, IdleThread
    <2>. QED
      BY <2>1, TotalOfNothing DEF NotYetAdded, Adding
  <1>8. NotYetSubtracted' = 0
    BY DEF Restart, NotYetSubtracted, IdleThread
  <1>. QED
    BY <1>4, <1>5, <1>6, <1>7, <1>8 DEF Accounting, Restart

(* What a step adds to each of the five balances. *)
LEMMA BalanceMoves ==
    ASSUME WholeInd, CounterOK, Accounting, WholeInd', CounterOK',
           NEW t \in Int, NEW a \in Int, NEW i \in Int, NEW s \in Int, NEW r \in Int,
           Wrapped(total_bytes') = Wrapped(total_bytes + t),
           Wrapped(stray') = Wrapped(stray + r),
           NotYetAdded' = NotYetAdded + a,
           TotalOf(index') = TotalOf(index) + i,
           NotYetSubtracted' = NotYetSubtracted + s,
           t + a = i + s + r
    PROVE  Accounting'
  <1>1. PICK T \in Int : T = total_bytes
    BY SumsAreNumbers DEF WholeInd
  <1>2. PICK A \in Int : A = NotYetAdded
    BY SumsAreNumbers DEF WholeInd
  <1>3. PICK I \in Int : I = TotalOf(index)
    BY SumsAreNumbers DEF WholeInd
  <1>4. PICK S \in Int : S = NotYetSubtracted
    BY SumsAreNumbers DEF WholeInd
  <1>5. PICK R \in Int : R = stray
    BY SumsAreNumbers DEF WholeInd
  <1>6. PICK T2 \in Int : T2 = total_bytes'
    BY DEF CounterOK
  <1>7. PICK R2 \in Int : R2 = stray'
    BY DEF CounterOK
  <1>8. PICK A2 \in Int : A2 = A + a
    OBVIOUS
  <1>9. PICK I2 \in Int : I2 = I + i
    OBVIOUS
  <1>10. PICK S2 \in Int : S2 = S + s
    OBVIOUS
  <1>11. Wrapped(T + A) = Wrapped(I + S + R)
    BY <1>1, <1>2, <1>3, <1>4, <1>5 DEF Accounting
  <1>12. Wrapped(T2) = Wrapped(T + t) /\ Wrapped(R2) = Wrapped(R + r)
    BY <1>1, <1>5, <1>6, <1>7
  <1>13. Wrapped(T2 + A2) = Wrapped(I2 + S2 + R2)
    <2>1. PICK u \in Int : u = T + t
      OBVIOUS
    <2>2. PICK v \in Int : v = R + r
      OBVIOUS
    <2>3. PICK x \in Int : x = I2 + S2
      OBVIOUS
    <2>4. PICK y \in Int : y = T + A
      OBVIOUS
    <2>5. PICK z \in Int : z = I + S + R
      OBVIOUS
    <2>6. PICK d \in Int : d = t + a
      OBVIOUS
    <2>7. Wrapped(T2) = Wrapped(u) /\ Wrapped(R2) = Wrapped(v) /\ Wrapped(y) = Wrapped(z)
      BY <1>11, <1>12, <2>1, <2>2, <2>4, <2>5
    <2>8. Wrapped(T2 + A2) = Wrapped(u + A2)
      <3>1. Wrapped(Wrapped(T2) + A2) = Wrapped(T2 + A2) /\ Wrapped(Wrapped(u) + A2) = Wrapped(u + A2)
        BY WrapInside
      <3>. QED
        BY <2>7, <3>1
    <2>9. Wrapped(R2 + x) = Wrapped(v + x)
      <3>1. Wrapped(Wrapped(R2) + x) = Wrapped(R2 + x) /\ Wrapped(Wrapped(v) + x) = Wrapped(v + x)
        BY WrapInside
      <3>. QED
        BY <2>7, <3>1
    <2>10. Wrapped(y + d) = Wrapped(z + d)
      <3>1. Wrapped(Wrapped(y) + d) = Wrapped(y + d) /\ Wrapped(Wrapped(z) + d) = Wrapped(z + d)
        BY WrapInside
      <3>. QED
        BY <2>7, <3>1
    <2>11. u + A2 = y + d /\ v + x = z + d /\ R2 + x = I2 + S2 + R2
      BY <1>8, <1>9, <1>10, <2>1, <2>2, <2>3, <2>4, <2>5, <2>6
    <2>. QED
      BY <2>8, <2>9, <2>10, <2>11
  <1>14. A2 = NotYetAdded' /\ I2 = TotalOf(index') /\ S2 = NotYetSubtracted'
    BY <1>2, <1>3, <1>4, <1>8, <1>9, <1>10
  <1>. QED
    BY <1>6, <1>7, <1>13, <1>14 DEF Accounting

(* The entry goes in, what it replaces comes off the counter. *)
LEMMA CountIndex ==
    ASSUME WholeInd, CounterOK, Accounting, NEW w \in DiskThread, IndexInsert(w), WholeInd'
    PROVE  CounterOK' /\ Accounting'
  <1>1. PICK c : c = writer[w].chunk
    OBVIOUS
  <1>2. PICK n : n = writer[w].size
    OBVIOUS
  <1>3. writer[w].at = "renamed" /\ writer[w] \in Writing /\ c \in Chunk /\ n \in Size
    BY <1>1, <1>2, ThreadCases DEF IndexInsert, WholeInd
  <1>4. n \in Nat /\ n # None
    BY <1>3, SizesAreNumbers
  <1>5. /\ index' = [index EXCEPT ![c] = n]
        /\ total_bytes' = IF index[c] = None THEN total_bytes
                          ELSE Wrapped(total_bytes - index[c])
        /\ writer' = [writer EXCEPT ![w].at = "indexed"]
        /\ gc' = gc /\ stray' = stray
    BY <1>1, <1>2 DEF IndexInsert, Step
  <1>6. index \in [Chunk -> Nat \cup {None}] /\ index' \in [Chunk -> Nat \cup {None}]
    BY <1>3, <1>4, <1>5, SizesAreNumbers DEF WholeInd, ShapeOK
  <1>7. PICK old \in Nat : old = Weight(index[c])
    BY <1>3, <1>6 DEF Weight
  <1>8. /\ total_bytes - old \in Int
        /\ Wrapped(total_bytes') = Wrapped(total_bytes + (0 - old))
        /\ total_bytes' \in 0 .. Word - 1
    <2>1. total_bytes \in Int /\ total_bytes \in 0 .. Word - 1
      BY DEF CounterOK
    <2>2. PICK m \in Int : m = total_bytes - old
      BY <2>1
    <2>3. Wrapped(m) \in 0 .. Word - 1 /\ Wrapped(Wrapped(m)) = Wrapped(m)
      BY WrapRange, WrapTwice
    <2>4. CASE index[c] = None
      BY <1>5, <1>7, <2>1, <2>4 DEF Weight
    <2>5. CASE index[c] # None
      <3>1. total_bytes' = Wrapped(m)
        BY <1>5, <1>7, <2>2, <2>5 DEF Weight
      <3>2. m = total_bytes + (0 - old)
        BY <2>1, <2>2
      <3>. QED
        BY <2>2, <2>3, <3>1, <3>2
    <2>. QED
      BY <2>4, <2>5
  <1>9. CounterOK'
    BY <1>5, <1>8 DEF CounterOK
  <1>10. TotalOf(index') = TotalOf(index) - old + n
    <2>1. \A d \in Chunk \ {c} : index'[d] = index[d]
      BY <1>5, <1>6
    <2>2. index'[c] = n
      BY <1>3, <1>5, <1>6
    <2>3. TotalOf(index') = TotalOf(index) - Weight(index[c]) + Weight(index'[c])
      BY <1>3, <1>6, <2>1, FiniteAssumption, TotalChanges
    <2>. QED
      BY <1>4, <1>7, <2>2, <2>3 DEF Weight
  <1>11. NotYetAdded' = NotYetAdded + n
    <2>1. writer \in [DiskThread -> {IdleThread} \cup Writing]
      BY DEF WholeInd, ShapeOK
    <2>2. \A v \in DiskThread \ {w} : writer'[v] = writer[v]
      BY <1>5, <2>1
    <2>3. writer'[w].at = "indexed" /\ writer'[w].size = n
      BY <1>2, <1>3, <1>5, <2>1 DEF Writing
    <2>4. Adding(writer)[w] = None /\ Adding(writer')[w] = n
      BY <1>3, <2>3 DEF Adding
    <2>5. \A v \in DiskThread \ {w} : Adding(writer')[v] = Adding(writer)[v]
      BY <2>2 DEF Adding
    <2>6. NotYetAdded' = NotYetAdded - Weight(Adding(writer)[w]) + Weight(Adding(writer')[w])
      BY <2>5, AddingChanges DEF WholeInd
    <2>7. NotYetAdded \in Int
      BY SumsAreNumbers DEF WholeInd
    <2>8. Weight(Adding(writer)[w]) = 0 /\ Weight(Adding(writer')[w]) = n
      BY <1>4, <2>4 DEF Weight
    <2>. QED
      BY <1>4, <2>6, <2>7, <2>8
  <1>12. NotYetSubtracted' = NotYetSubtracted
    BY <1>5 DEF NotYetSubtracted
  <1>. QED
    <2>1. PICK t \in Int : t = 0 - old
      OBVIOUS
    <2>2. PICK i \in Int : i = n - old
      BY <1>4
    <2>3. Wrapped(total_bytes') = Wrapped(total_bytes + t)
      BY <1>8, <2>1
    <2>4. PICK z \in Int : z = 0
      OBVIOUS
    <2>5. TotalOf(index) \in Int /\ NotYetSubtracted \in Int /\ stray \in Int
      BY SumsAreNumbers DEF WholeInd
    <2>6. /\ Wrapped(stray') = Wrapped(stray + z)
          /\ NotYetAdded' = NotYetAdded + n
          /\ TotalOf(index') = TotalOf(index) + i
          /\ NotYetSubtracted' = NotYetSubtracted + z
          /\ t + n = i + z + z
      BY <1>4, <1>5, <1>10, <1>11, <1>12, <2>1, <2>2, <2>4, <2>5
    <2>7. n \in Int
      BY <1>4
    <2>. QED
      BY <1>9, <2>3, <2>6, <2>7, BalanceMoves

(* The size of the new entry goes onto the counter. *)
LEMMA CountAdd ==
    ASSUME WholeInd, CounterOK, Accounting, NEW w \in DiskThread, AddBytes(w), WholeInd'
    PROVE  CounterOK' /\ Accounting'
  <1>1. PICK n : n = writer[w].size
    OBVIOUS
  <1>2. writer[w].at = "indexed" /\ n \in Size /\ n \in Nat /\ n # None /\ n \in Int
    <2>1. writer[w].at = "indexed" /\ n \in Size
      BY <1>1, ThreadCases DEF AddBytes, WholeInd
    <2>. QED
      BY <2>1, SizesAreNumbers
  <1>3. /\ total_bytes' = Wrapped(total_bytes + n)
        /\ writer' = [writer EXCEPT ![w] = IdleThread]
        /\ index' = index /\ gc' = gc /\ stray' = stray
    BY <1>1 DEF AddBytes
  <1>4. total_bytes \in Int /\ stray \in Int /\ NotYetAdded \in Int
        /\ TotalOf(index) \in Int /\ NotYetSubtracted \in Int
    BY SumsAreNumbers DEF WholeInd
  <1>5. total_bytes + n \in Int
    BY <1>2, <1>4
  <1>6. total_bytes' \in 0 .. Word - 1 /\ Wrapped(total_bytes') = Wrapped(total_bytes + n)
    <2>1. PICK m \in Int : m = total_bytes + n
      BY <1>5
    <2>2. Wrapped(m) \in 0 .. Word - 1 /\ Wrapped(Wrapped(m)) = Wrapped(m)
      BY WrapRange, WrapTwice
    <2>. QED
      BY <1>3, <2>1, <2>2
  <1>7. CounterOK'
    BY <1>3, <1>6 DEF CounterOK
  <1>8. NotYetAdded' = NotYetAdded - n
    <2>1. writer \in [DiskThread -> {IdleThread} \cup Writing]
      BY DEF WholeInd, ShapeOK
    <2>2. \A v \in DiskThread \ {w} : writer'[v] = writer[v]
      BY <1>3, <2>1
    <2>3. writer'[w].at = "idle"
      BY <1>3, <2>1 DEF IdleThread
    <2>4. Adding(writer)[w] = n /\ Adding(writer')[w] = None
      BY <1>1, <1>2, <2>3 DEF Adding
    <2>5. \A v \in DiskThread \ {w} : Adding(writer')[v] = Adding(writer)[v]
      BY <2>2 DEF Adding
    <2>6. NotYetAdded' = NotYetAdded - Weight(Adding(writer)[w]) + Weight(Adding(writer')[w])
      BY <2>5, AddingChanges DEF WholeInd
    <2>7. Weight(Adding(writer)[w]) = n /\ Weight(Adding(writer')[w]) = 0
      BY <1>2, <2>4 DEF Weight
    <2>. QED
      BY <1>2, <1>4, <2>6, <2>7
  <1>9. PICK a \in Int : a = 0 - n
    BY <1>2
  <1>10. PICK z \in Int : z = 0
    OBVIOUS
  <1>11. /\ Wrapped(stray') = Wrapped(stray + z)
         /\ NotYetAdded' = NotYetAdded + a
         /\ TotalOf(index') = TotalOf(index) + z
         /\ NotYetSubtracted' = NotYetSubtracted + z
         /\ n + a = z + z + z
    BY <1>2, <1>3, <1>4, <1>8, <1>9, <1>10 DEF NotYetSubtracted
  <1>. QED
    BY <1>2, <1>6, <1>7, <1>11, BalanceMoves

(* The collector takes the entry that is there now, whatever it saw. *)
LEMMA CountRemove ==
    ASSUME WholeInd, CounterOK, Accounting, NEW e \in Chunk \X Size, GcRemoveEntry(e), WholeInd'
    PROVE  CounterOK' /\ Accounting'
  <1>1. PICK c \in Chunk : c = e[1]
    OBVIOUS
  <1>2. PICK n \in Size : n = e[2]
    OBVIOUS
  <1>3. gc.at = "loop" /\ gc \in [at : {"loop"}, left : SUBSET (Chunk \X Size), current_size : 0 .. Word - 1]
    BY GcCases DEF GcRemoveEntry
  <1>4. /\ index' = [index EXCEPT ![c] = None]
        /\ total_bytes' = total_bytes /\ writer' = writer /\ stray' = stray
        /\ gc' = IF index[c] = None
                 THEN [gc EXCEPT !.left = @ \ {e}]
                 ELSE [at |-> "unlink", left |-> gc.left \ {e},
                       current_size |-> gc.current_size, chunk |-> c,
                       size |-> index[c], entry |-> n]
    BY <1>1, <1>2 DEF GcRemoveEntry
  <1>5. index \in [Chunk -> Size \cup {None}] /\ index' \in [Chunk -> Size \cup {None}]
    BY DEF WholeInd, ShapeOK
  <1>6. index \in [Chunk -> Nat \cup {None}] /\ index' \in [Chunk -> Nat \cup {None}]
    BY <1>5, SizesAreNumbers
  <1>7. PICK k \in Int : k = Weight(index[c])
    BY <1>6 DEF Weight
  <1>8. NotYetSubtracted = 0
    BY <1>3 DEF NotYetSubtracted
  <1>9. CounterOK' /\ NotYetSubtracted' = k
    <2>1. CASE index[c] = None
      <3>1. PICK l \in SUBSET (Chunk \X Size) : l = gc.left \ {e}
        BY <1>3
      <3>2. gc' = [at |-> "loop", left |-> l, current_size |-> gc.current_size]
        BY <1>3, <1>4, <2>1, <3>1
      <3>3. gc' \in Collecting
        BY <1>3, <3>2 DEF Collecting
      <3>. QED
        BY <1>4, <1>7, <2>1, <3>2, <3>3 DEF CounterOK, NotYetSubtracted, Weight
    <2>2. CASE index[c] # None
      <3>1. PICK l \in SUBSET (Chunk \X Size) : l = gc.left \ {e}
        BY <1>3
      <3>2. gc' = [at |-> "unlink", left |-> l, current_size |-> gc.current_size,
                   chunk |-> c, size |-> index[c], entry |-> n]
        BY <1>4, <2>2, <3>1
      <3>3. index[c] \in Size
        BY <1>5, <2>2
      <3>4. gc' \in Collecting
        BY <1>3, <3>2, <3>3 DEF Collecting
      <3>. QED
        BY <1>4, <1>7, <2>2, <3>2, <3>4 DEF CounterOK, NotYetSubtracted, Weight
    <2>. QED
      BY <2>1, <2>2
  <1>10. TotalOf(index') = TotalOf(index) - k
    <2>1. \A d \in Chunk \ {c} : index'[d] = index[d]
      BY <1>4, <1>6
    <2>2. TotalOf(index') = TotalOf(index) - Weight(index[c]) + Weight(index'[c])
      BY <1>6, <2>1, FiniteAssumption, TotalChanges
    <2>3. Weight(index'[c]) = 0
      BY <1>4, <1>6 DEF Weight
    <2>4. TotalOf(index) \in Int
      BY SumsAreNumbers DEF WholeInd
    <2>. QED
      BY <1>7, <2>2, <2>3, <2>4
  <1>11. PICK i \in Int : i = 0 - k
    OBVIOUS
  <1>12. PICK z \in Int : z = 0
    OBVIOUS
  <1>13. total_bytes \in Int /\ stray \in Int /\ NotYetAdded \in Int
         /\ TotalOf(index) \in Int /\ NotYetSubtracted \in Int
    BY SumsAreNumbers DEF WholeInd
  <1>14. NotYetAdded' = NotYetAdded
    BY <1>4 DEF NotYetAdded
  <1>15. /\ Wrapped(total_bytes') = Wrapped(total_bytes + z)
         /\ Wrapped(stray') = Wrapped(stray + z)
         /\ NotYetAdded' = NotYetAdded + z
         /\ TotalOf(index') = TotalOf(index) + i
         /\ NotYetSubtracted' = NotYetSubtracted + k
         /\ z + z = i + k + z
    BY <1>4, <1>8, <1>9, <1>10, <1>11, <1>12, <1>13, <1>14
  <1>. QED
    BY <1>9, <1>15, BalanceMoves

(* The file stays, and so do its bytes on the counter. *)
LEMMA CountFails ==
    ASSUME WholeInd, CounterOK, Accounting, GcUnlinkFails, WholeInd'
    PROVE  CounterOK' /\ Accounting'
  <1>1. gc.at = "unlink"
        /\ gc \in [at : {"unlink", "subtract"}, left : SUBSET (Chunk \X Size),
                  current_size : 0 .. Word - 1, chunk : Chunk, size : Size, entry : Size]
    BY GcCases DEF GcUnlinkFails
  <1>2. PICK k \in Int : k = gc.size
    <2>1. gc.size \in Size
      BY <1>1
    <2>2. gc.size \in Nat
      BY <2>1, SizesAreNumbers, Zenon
    <2>. QED
      BY <2>2
  <1>3. /\ gc' = [at |-> "loop", left |-> gc.left, current_size |-> gc.current_size]
        /\ stray' = Wrapped(stray + k)
        /\ total_bytes' = total_bytes /\ writer' = writer /\ index' = index
    BY <1>2 DEF GcUnlinkFails, GcLoop
  <1>4. total_bytes \in Int /\ stray \in Int /\ NotYetAdded \in Int
        /\ TotalOf(index) \in Int /\ NotYetSubtracted \in Int
    BY SumsAreNumbers DEF WholeInd
  <1>5. stray' \in 0 .. Word - 1 /\ Wrapped(stray') = Wrapped(stray + k)
    <2>1. PICK m \in Int : m = stray + k
      BY <1>4
    <2>2. Wrapped(m) \in 0 .. Word - 1 /\ Wrapped(Wrapped(m)) = Wrapped(m)
      BY WrapRange, WrapTwice
    <2>. QED
      BY <1>3, <2>1, <2>2
  <1>6. gc' \in Collecting
    BY <1>1, <1>3 DEF Collecting
  <1>7. CounterOK'
    BY <1>3, <1>5, <1>6 DEF CounterOK
  <1>8. NotYetSubtracted = k /\ NotYetSubtracted' = 0
    BY <1>1, <1>2, <1>3 DEF NotYetSubtracted
  <1>9. NotYetAdded' = NotYetAdded
    BY <1>3 DEF NotYetAdded
  <1>10. PICK s \in Int : s = 0 - k
    OBVIOUS
  <1>11. PICK z \in Int : z = 0
    OBVIOUS
  <1>12. /\ Wrapped(total_bytes') = Wrapped(total_bytes + z)
         /\ NotYetAdded' = NotYetAdded + z
         /\ TotalOf(index') = TotalOf(index) + z
         /\ NotYetSubtracted' = NotYetSubtracted + s
         /\ z + z = z + s + k
    BY <1>3, <1>4, <1>8, <1>9, <1>10, <1>11
  <1>. QED
    BY <1>5, <1>7, <1>12, BalanceMoves

(* The size of the removed entry comes off the counter; the collector's    *)
(* own estimate stops at zero.                                             *)
LEMMA CountSubtract ==
    ASSUME WholeInd, CounterOK, Accounting, GcSubtract, WholeInd'
    PROVE  CounterOK' /\ Accounting'
  <1>1. gc.at = "subtract"
        /\ gc \in [at : {"unlink", "subtract"}, left : SUBSET (Chunk \X Size),
                  current_size : 0 .. Word - 1, chunk : Chunk, size : Size, entry : Size]
    BY GcCases DEF GcSubtract
  <1>2. PICK k \in Int : k = gc.size
    <2>1. gc.size \in Size
      BY <1>1
    <2>2. gc.size \in Nat
      BY <2>1, SizesAreNumbers, Zenon
    <2>. QED
      BY <2>2
  <1>3. PICK est : est = IF gc.entry > gc.current_size THEN 0 ELSE gc.current_size - gc.entry
    OBVIOUS
  <1>4. est \in 0 .. Word - 1
    <2>1. gc.entry \in Nat /\ gc.current_size \in 0 .. Word - 1
      BY <1>1, SizesAreNumbers
    <2>. QED
      BY <1>3, <2>1, WordAssumption, WatermarkAssumption
  <1>5. /\ gc' = [at |-> "loop", left |-> gc.left, current_size |-> est]
        /\ total_bytes' = Wrapped(total_bytes - k)
        /\ stray' = stray /\ writer' = writer /\ index' = index
    BY <1>2, <1>3 DEF GcSubtract, GcLoop
  <1>6. total_bytes \in Int /\ stray \in Int /\ NotYetAdded \in Int
        /\ TotalOf(index) \in Int /\ NotYetSubtracted \in Int
    BY SumsAreNumbers DEF WholeInd
  <1>7. PICK t \in Int : t = 0 - k
    OBVIOUS
  <1>8. total_bytes' \in 0 .. Word - 1 /\ Wrapped(total_bytes') = Wrapped(total_bytes + t)
    <2>1. PICK m \in Int : m = total_bytes - k
      BY <1>6
    <2>2. Wrapped(m) \in 0 .. Word - 1 /\ Wrapped(Wrapped(m)) = Wrapped(m)
      BY WrapRange, WrapTwice
    <2>3. m = total_bytes + t
      BY <1>6, <1>7, <2>1
    <2>. QED
      BY <1>5, <2>1, <2>2, <2>3
  <1>9. gc' \in Collecting
    BY <1>1, <1>4, <1>5 DEF Collecting
  <1>10. CounterOK'
    BY <1>5, <1>8, <1>9 DEF CounterOK
  <1>11. NotYetSubtracted = k /\ NotYetSubtracted' = 0
    BY <1>1, <1>2, <1>5 DEF NotYetSubtracted
  <1>12. NotYetAdded' = NotYetAdded
    BY <1>5 DEF NotYetAdded
  <1>13. PICK z \in Int : z = 0
    OBVIOUS
  <1>14. /\ Wrapped(stray') = Wrapped(stray + z)
         /\ NotYetAdded' = NotYetAdded + z
         /\ TotalOf(index') = TotalOf(index) + z
         /\ NotYetSubtracted' = NotYetSubtracted + t
         /\ t + z = z + t + z
    BY <1>5, <1>6, <1>7, <1>11, <1>12, <1>13
  <1>. QED
    BY <1>8, <1>10, <1>14, BalanceMoves

(* The steps of a thread that have nothing to do with the counter. *)
LEMMA CountThread ==
    ASSUME WholeInd, CounterOK, Accounting, WholeInd', NEW w \in DiskThread,
           \/ \E c \in Chunk, n \in Size : Open(w, c, n)
           \/ WriteAll(w) \/ WriteFails(w) \/ Rename(w) \/ RenameFails(w)
    PROVE  CounterOK' /\ Accounting'
  <1>. DEFINE Clear(v) ==
                 writer'[v].at = "indexed" \/ writer[v].at = "indexed" =>
                    writer'[v].at = writer[v].at /\ writer'[v].size = writer[v].size
  <1>1. UNCHANGED <<index, total_bytes, gc, stray>>
    BY DEF Open, WriteAll, WriteFails, Rename, RenameFails, files
  <1>2. writer \in [DiskThread -> {IdleThread} \cup Writing]
    BY DEF WholeInd, ShapeOK
  <1>3. \A v \in DiskThread : Clear(v)
    <2>1. ASSUME NEW c \in Chunk, NEW n \in Size, Open(w, c, n), NEW v \in DiskThread
          PROVE  Clear(v)
      <3>1. writer' = [writer EXCEPT ![w] = [at |-> "opened", chunk |-> c, size |-> n, fd |-> "tmp"]]
            /\ writer[w].at = "idle"
        BY <2>1 DEF Open, IdleThread
      <3>2. CASE v = w
        BY <1>2, <3>1, <3>2
      <3>3. CASE v # w
        BY <1>2, <3>1, <3>3
      <3>. QED
        BY <3>2, <3>3
    <2>2. ASSUME WriteAll(w), NEW v \in DiskThread
          PROVE  Clear(v)
      <3>1. writer' = [writer EXCEPT ![w].at = "written", ![w].fd = "gone"]
            /\ writer[w].at = "opened"
        BY <2>2 DEF WriteAll
      <3>2. CASE v = w
        <4>1. writer[w] \in Writing
          BY <1>2, <3>1 DEF IdleThread
        <4>2. writer'[w].at = "written"
          BY <1>2, <3>1, <4>1 DEF Writing
        <4>. QED
          BY <3>1, <3>2, <4>2
      <3>3. CASE v # w
        BY <1>2, <3>1, <3>3
      <3>. QED
        BY <3>2, <3>3
    <2>3. ASSUME WriteFails(w) \/ RenameFails(w), NEW v \in DiskThread
          PROVE  Clear(v)
      <3>1. writer' = [writer EXCEPT ![w] = IdleThread] /\ writer[w].at \in {"opened", "written"}
        BY <2>3 DEF WriteFails, RenameFails
      <3>2. CASE v = w
        BY <1>2, <3>1, <3>2 DEF IdleThread
      <3>3. CASE v # w
        BY <1>2, <3>1, <3>3
      <3>. QED
        BY <3>2, <3>3
    <2>4. ASSUME Rename(w), NEW v \in DiskThread
          PROVE  Clear(v)
      <3>1. PICK c : c = writer[w].chunk
        OBVIOUS
      <3>2. writer' = [Replaced(c) EXCEPT ![w].at = "renamed"] /\ writer[w].at = "written"
        BY <2>4, <3>1 DEF Rename
      <3>3. DOMAIN Replaced(c) = DiskThread
        BY DEF Replaced
      <3>4. SameThread(Replaced(c)[v], writer[v])
        BY ReplacedFacts DEF WholeInd
      <3>5. CASE v = w
        <4>1. PICK x : x = Replaced(c)[w]
          OBVIOUS
        <4>2. x \in Writing
          BY <3>2, <3>4, <3>5, <4>1 DEF SameThread, IdleThread
        <4>3. writer'[w] = [x EXCEPT !.at = "renamed"]
          BY <3>2, <3>3, <4>1
        <4>4. writer'[w].at = "renamed"
          BY <4>2, <4>3 DEF Writing
        <4>. QED
          BY <3>2, <3>5, <4>4
      <3>6. CASE v # w
        <4>1. writer'[v] = Replaced(c)[v]
          BY <3>2, <3>3, <3>6
        <4>. QED
          BY <3>4, <4>1 DEF SameThread
      <3>. QED
        BY <3>5, <3>6
    <2>. QED
      BY <2>1, <2>2, <2>3, <2>4
  <1>4. NotYetAdded' = NotYetAdded
    BY <1>3, AddingStays
  <1>5. NotYetSubtracted' = NotYetSubtracted /\ CounterOK'
    BY <1>1 DEF NotYetSubtracted, CounterOK
  <1>. QED
    BY <1>1, <1>4, <1>5, CountSame

(* The steps of the collector that only look, and the removal of a file. *)
LEMMA CountLook ==
    ASSUME WholeInd, CounterOK, Accounting,
           GcCheck \/ GcMeasure \/ GcSnapshot \/ GcUnlink \/ GcEnd
    PROVE  CounterOK' /\ Accounting'
  <1>1. UNCHANGED <<index, total_bytes, stray>>
    BY DEF GcCheck, GcMeasure, GcSnapshot, GcUnlink, GcEnd, files
  <1>2. NotYetAdded' = NotYetAdded
    <2>1. CASE GcUnlink
      <3>1. PICK c : c = gc.chunk
        OBVIOUS
      <3>2. writer' = Unlinked(c)
        BY <2>1, <3>1 DEF GcUnlink
      <3>3. \A v \in DiskThread : SameThread(writer'[v], writer[v])
        BY <3>2, UnlinkedFacts DEF WholeInd
      <3>. QED
        BY <3>3, AddingStays DEF SameThread
    <2>2. CASE GcCheck \/ GcMeasure \/ GcSnapshot \/ GcEnd
      <3>1. writer' = writer
        BY <2>2 DEF GcCheck, GcMeasure, GcSnapshot, GcEnd
      <3>. QED
        BY <3>1 DEF NotYetAdded
    <2>. QED
      BY <2>1, <2>2
  <1>3. gc' \in {IdleThread} \cup Collecting /\ NotYetSubtracted' = NotYetSubtracted
    <2>1. CASE GcCheck
      <3>1. gc' = [at |-> "check", left |-> {}, current_size |-> total_bytes] /\ gc.at = "idle"
        BY <2>1 DEF GcCheck, IdleThread
      <3>. QED
        BY <3>1 DEF CounterOK, Collecting, NotYetSubtracted
    <2>2. CASE GcMeasure
      <3>1. gc.at = "check" /\ gc \in [at : {"check", "measured"}, left : {{}}, current_size : 0 .. Word - 1]
        BY <2>2, GcCases DEF GcMeasure
      <3>2. gc' = [at |-> "measured", left |-> gc.left, current_size |-> total_bytes]
        BY <2>2, <3>1 DEF GcMeasure
      <3>. QED
        BY <3>1, <3>2 DEF CounterOK, Collecting, NotYetSubtracted
    <2>3. CASE GcSnapshot
      <3>1. gc.at = "measured" /\ gc \in [at : {"check", "measured"}, left : {{}}, current_size : 0 .. Word - 1]
        BY <2>3, GcCases DEF GcSnapshot
      <3>2. PICK l : l = {<<c, index[c]>> : c \in {d \in Chunk : index[d] # None}}
        OBVIOUS
      <3>3. l \in SUBSET (Chunk \X Size)
        BY <3>2 DEF WholeInd, ShapeOK
      <3>4. gc' = [at |-> "loop", left |-> l, current_size |-> gc.current_size]
        BY <2>3, <3>1, <3>2 DEF GcSnapshot
      <3>. QED
        BY <3>1, <3>3, <3>4 DEF Collecting, NotYetSubtracted
    <2>4. CASE GcUnlink
      <3>1. gc.at = "unlink"
            /\ gc \in [at : {"unlink", "subtract"}, left : SUBSET (Chunk \X Size),
                      current_size : 0 .. Word - 1, chunk : Chunk, size : Size, entry : Size]
        BY <2>4, GcCases DEF GcUnlink
      <3>2. gc' = [gc EXCEPT !.at = "subtract"]
        BY <2>4 DEF GcUnlink
      <3>. QED
        BY <3>1, <3>2 DEF Collecting, NotYetSubtracted
    <2>5. CASE GcEnd
      BY <2>5 DEF GcEnd, IdleThread, NotYetSubtracted
    <2>. QED
      BY <2>1, <2>2, <2>3, <2>4, <2>5
  <1>4. CounterOK'
    BY <1>1, <1>3 DEF CounterOK
  <1>. QED
    BY <1>1, <1>2, <1>3, <1>4, CountSame

LEMMA CountStep ==
    ASSUME DiskInd, [DCNext]_vars
    PROVE  DiskInd'
  <1>1. WholeInd /\ CounterOK /\ Accounting /\ WholeInd'
    BY WholeStep DEF DiskInd
  <1>. SUFFICES CounterOK' /\ Accounting'
    BY <1>1 DEF DiskInd
  <1>2. ASSUME NEW w \in DiskThread, WriteStep(w)
        PROVE  CounterOK' /\ Accounting'
    <2>1. CASE IndexInsert(w)
      BY <1>1, <2>1, CountIndex
    <2>2. CASE AddBytes(w)
      BY <1>1, <2>2, CountAdd
    <2>3. CASE \/ \E c \in Chunk, n \in Size : Open(w, c, n)
               \/ WriteAll(w) \/ WriteFails(w) \/ Rename(w) \/ RenameFails(w)
      BY <1>1, <2>3, CountThread
    <2>. QED
      BY <1>2, <2>1, <2>2, <2>3 DEF WriteStep
  <1>3. CASE GcStep
    <2>1. CASE GcCheck \/ GcMeasure \/ GcSnapshot \/ GcUnlink \/ GcEnd
      BY <1>1, <2>1, CountLook
    <2>2. ASSUME NEW e \in Chunk \X Size, GcRemoveEntry(e)
          PROVE  CounterOK' /\ Accounting'
      BY <1>1, <2>2, CountRemove
    <2>3. CASE GcUnlinkFails
      BY <1>1, <2>3, CountFails
    <2>4. CASE GcSubtract
      BY <1>1, <2>4, CountSubtract
    <2>. QED
      BY <1>3, <2>1, <2>2, <2>3, <2>4 DEF GcStep
  <1>4. CASE Restart
    BY <1>1, <1>4, CountRestart
  <1>5. CASE UNCHANGED vars
    <2>1. UNCHANGED <<index, total_bytes, stray, gc, writer>>
      BY <1>5 DEF vars
    <2>2. NotYetAdded' = NotYetAdded /\ NotYetSubtracted' = NotYetSubtracted /\ CounterOK'
      BY <1>1, <2>1 DEF NotYetAdded, NotYetSubtracted, CounterOK
    <2>. QED
      BY <1>1, <2>1, <2>2, CountSame
  <1>. QED
    BY <1>1, <1>2, <1>3, <1>4, <1>5 DEF DCNext

(* The byte counter accounts for the index of the disk cache, in its width *)
(* of AtomicU64, whatever the write threads, the garbage collector, failed *)
(* writes and removals and restarts do and in whatever order: the counter  *)
(* and the index differ by what is under way and by what is counted for    *)
(* good without an entry, and by nothing else.                             *)
THEOREM CounterAccounts == DCSpec => []DiskInv
  <1>1. DCInit => DiskInd
    BY WholeInit, CountInit DEF DiskInd
  <1>2. DiskInd /\ [DCNext]_vars => DiskInd'
    BY CountStep
  <1>3. DiskInd => DiskInv
    BY DEF DiskInd, WholeInd, ShapeOK, CounterOK, DiskInv, DCTypeOK
  <1>. QED
    BY <1>1, <1>2, <1>3, PTL DEF DCSpec
=============================================================================
