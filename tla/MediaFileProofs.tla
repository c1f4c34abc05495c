-------------------------- MODULE MediaFileProofs --------------------------
(***************************************************************************)
(* Proofs about one media file, for every size of the file, every number   *)
(* of retries and every bound on edits and stops.  The argument keeps      *)
(* the part straight (its k-th block is block k) and the three records of  *)
(* one offset equal wherever download() streams: the length of the part,   *)
(* the writer's count and the digest.                                      *)
(***************************************************************************)
EXTENDS MediaFile, SequenceTheorems, TLAPS
-----------------------------------------------------------------------------
(* A content without a gap, a block out of order or one of somebody else. *)
Straight(c) == c \in Seq(Nat) /\ Len(c) <= N + 1 /\ \A k \in 1 .. Len(c) : c[k] = k

(* Where download() has found no file at the target, and where it streams. *)
Streaming == {"stream", "write", "checks", "syncing", "finishing"}
Fetching  == Streaming \cup {"starting", "hashPart", "rename"}

(* The part, and the one that a repair has moved away. *)
PartIsStraight ==
  /\ Straight(part) /\ synced \in 0 .. Len(part)
  /\ moved.part = None \/ \E c : moved.part = {c} /\ Straight(c)

(* The three records of one offset: the part's length, what the writer has   *)
(* counted and what the digest has seen, with the buffer behind them.         *)
Offsets ==
  /\ dl \in Fetching => target = None
  /\ dl \in {"starting", "hashPart"} => written = Len(part) /\ written <= N /\ buffer = <<>>
  /\ dl = "starting" => hashed = <<>>
  /\ dl \in Streaming => /\ written = Len(part) /\ hashed = part
                         /\ buffer \in Seq(Nat) /\ written + Len(buffer) <= N + 1
                         /\ \A k \in 1 .. Len(buffer) : buffer[k] = written + k
  /\ dl = "rename" => hashed = part /\ Len(part) = N

(* A repair runs alone, and what it has moved is where it looks for it. *)
RepairAlone ==
  /\ repair \in {"idle", "target", "part", "prepare", "restore"}
  /\ DOMAIN moved = {"target", "part"}
  /\ repair # "idle" => dl = "idle" /\ check = "idle" /\ row.status = "FAILED"
  /\ repair \in {"idle", "target"} => moved.target = None /\ moved.part = None
  /\ repair \in {"part", "prepare", "restore"} => target = None
  /\ repair = "part" => moved.part = None
  /\ repair \in {"prepare", "restore"} /\ moved.part # None => part = <<>>
  /\ repair = "prepare" => part = <<>>

(* An untouched file is the medium, whoever holds it. *)
Untouched ==
  ~touched => /\ target \subseteq {Whole} /\ moved.target \subseteq {Whole}
              /\ row.status = "COMPLETED" => target = {Whole} /\ row.digest = {Whole}
              /\ dl = "complete" => target = {Whole} /\ hashed = Whole
              /\ check # "idle" => target = {Whole} /\ seen.content \subseteq {Whole}

(* Bytes that are on the disk, or in the file that the part became. *)
OnDisk(b) == \/ b <= Len(part)
             \/ dl \in {"complete", "stopped"} /\ (target # None \/ touched)

Progress ==
  /\ dl = "idle" => progress = None
  /\ dl \in {"starting", "hashTarget", "sleep"} => row.status # "DOWNLOADING" /\ progress = None
  /\ \A b \in progress : OnDisk(b)
  /\ dl # "idle" /\ row.status = "DOWNLOADING" => OnDisk(row.bytes)

(* What is counted is a number, and what is at the target a content. *)
Typed ==
  /\ DOMAIN row = {"bytes", "status", "integrity", "digest"}
  /\ DOMAIN seen = {"content", "base"}
  /\ written \in Nat /\ row.bytes \in Nat /\ progress \subseteq Nat
  /\ target \in SUBSET Seq(Nat) /\ moved.target \in SUBSET Seq(Nat)
  /\ touched \in BOOLEAN /\ touches \in Nat

(* The inductive invariant. *)
FileInv == PartIsStraight /\ Offsets /\ RepairAlone /\ Untouched /\ Progress /\ Typed
-----------------------------------------------------------------------------
(* The empty content is straight, and has no block. *)
LEMMA StraightEmpty == Straight(<<>>) /\ Len(<<>>) = 0
  BY EmptySeq, SizeAssumption DEF Straight

(* A straight content of the expected length is the medium. *)
LEMMA StraightIsWhole == ASSUME NEW c, Straight(c), Len(c) = N PROVE c = Whole
  BY SizeAssumption DEF Straight, Whole

(* The medium has N blocks. *)
LEMMA WholeLength == Len(Whole) = N /\ Whole \in Seq(Nat)
<1>1. Whole \in Seq(Nat)
  BY SizeAssumption, SeqDef DEF Whole
<1> QED
  BY <1>1, SizeAssumption, LenProperties DEF Whole

(* A straight content stays so when the blocks that follow it are        *)
(* appended.                                                             *)
LEMMA StraightGoesOn ==
  ASSUME NEW c, Straight(c), NEW b \in Seq(Nat), Len(c) + Len(b) <= N + 1,
         \A k \in 1 .. Len(b) : b[k] = Len(c) + k
  PROVE  Straight(c \o b) /\ Len(c \o b) = Len(c) + Len(b)
<1>1. c \in Seq(Nat) /\ Len(c) \in Nat /\ Len(b) \in Nat
  BY LenProperties DEF Straight
<1>2. /\ c \o b \in Seq(Nat) /\ Len(c \o b) = Len(c) + Len(b)
      /\ \A i \in 1 .. Len(c) + Len(b) :
           (c \o b)[i] = IF i <= Len(c) THEN c[i] ELSE b[i - Len(c)]
  BY <1>1, ConcatProperties
<1>3. ASSUME NEW k \in 1 .. Len(c) + Len(b) PROVE (c \o b)[k] = k
  <2>1. CASE k <= Len(c)
    BY <1>1, <1>2, <2>1 DEF Straight
  <2>2. CASE ~(k <= Len(c))
    <3>1. k - Len(c) \in 1 .. Len(b)
      BY <1>1, <2>2
    <3> QED
      BY <1>1, <1>2, <2>2, <3>1
  <2> QED
    BY <2>1, <2>2
<1> QED
  BY <1>2, <1>3 DEF Straight

(* The first k blocks of a content. *)
LEMMA Cut ==
  ASSUME NEW b \in Seq(Nat), NEW k \in 0 .. Len(b)
  PROVE  /\ SubSeq(b, 1, k) \in Seq(Nat) /\ Len(SubSeq(b, 1, k)) = k
         /\ \A i \in 1 .. k : SubSeq(b, 1, k)[i] = b[i]
<1>1. Len(b) \in Nat
  BY LenProperties
<1> QED
  BY <1>1, SubSeqProperties

(* ... of a straight one, as a stop of the power leaves it. *)
LEMMA StraightCut ==
  ASSUME NEW c, Straight(c), NEW k \in 0 .. Len(c)
  PROVE  Straight(SubSeq(c, 1, k)) /\ Len(SubSeq(c, 1, k)) = k
<1>1. c \in Seq(Nat) /\ Len(c) \in Nat
  BY LenProperties DEF Straight
<1> QED
  BY <1>1, Cut, SizeAssumption DEF Straight

(* What is appended to leaves its prefix where it was. *)
LEMMA GoesOn ==
  ASSUME NEW c, NEW b \in Seq(Nat), c \in Seq(Nat)
  PROVE  IsPrefix(c, c \o b)
<1>1. Len(c) \in Nat /\ Len(b) \in Nat /\ Len(c \o b) = Len(c) + Len(b)
  BY LenProperties, ConcatProperties
<1>2. \A i \in 1 .. Len(c) : (c \o b)[i] = c[i]
  BY <1>1, ConcatProperties
<1>3. c \o b \in Seq(Nat)
  BY ConcatProperties
<1> QED
  BY <1>1, <1>2, <1>3 DEF IsPrefix

(* While download() streams, its buffer and any beginning of it continue *)
(* the part.                                                             *)
LEMMA Grows ==
  ASSUME FileInv, dl \in Streaming
  PROVE  /\ part \in Seq(Nat) /\ buffer \in Seq(Nat)
         /\ Len(part) \in Nat /\ Len(buffer) \in Nat
         /\ Straight(part \o buffer) /\ Len(part \o buffer) = Len(part) + Len(buffer)
         /\ \A k \in 0 .. Len(buffer) :
              /\ Straight(part \o SubSeq(buffer, 1, k))
              /\ Len(part \o SubSeq(buffer, 1, k)) = Len(part) + k
<1>1. /\ Straight(part) /\ part \in Seq(Nat) /\ buffer \in Seq(Nat)
      /\ Len(part) + Len(buffer) <= N + 1
      /\ \A k \in 1 .. Len(buffer) : buffer[k] = Len(part) + k
  BY DEF FileInv, PartIsStraight, Offsets, Straight
<1>2. Len(part) \in Nat /\ Len(buffer) \in Nat
  BY <1>1, LenProperties
<1>3. Straight(part \o buffer) /\ Len(part \o buffer) = Len(part) + Len(buffer)
  BY <1>1, StraightGoesOn
<1>4. ASSUME NEW k \in 0 .. Len(buffer)
      PROVE  /\ Straight(part \o SubSeq(buffer, 1, k))
             /\ Len(part \o SubSeq(buffer, 1, k)) = Len(part) + k
  <2> DEFINE b == SubSeq(buffer, 1, k)
  <2>1. b \in Seq(Nat) /\ Len(b) = k /\ \A i \in 1 .. k : b[i] = buffer[i]
    BY <1>1, Cut
  <2>2. Len(part) + Len(b) <= N + 1 /\ \A i \in 1 .. Len(b) : b[i] = Len(part) + i
    BY <1>1, <1>2, <2>1, SizeAssumption
  <2> HIDE DEF b
  <2>3. Straight(part \o b) /\ Len(part \o b) = Len(part) + Len(b)
    BY <1>1, <2>1, <2>2, StraightGoesOn
  <2> QED
    BY <2>1, <2>3 DEF b
<1> QED
  BY <1>1, <1>2, <1>3, <1>4

(* A chunk enters the buffer with the number that follows. *)
LEMMA ReceiveKeeps == FileInv /\ Receive => FileInv'
<1> SUFFICES ASSUME FileInv, Receive PROVE FileInv'
  OBVIOUS
<1> DEFINE k == written + Len(buffer) + 1
           longer == Append(buffer, k)
<1>1. dl = "stream" /\ dl \in Streaming
  BY DEF Receive, Streaming
<1>2. buffer \in Seq(Nat) /\ Len(buffer) \in Nat /\ written \in Nat /\ written = Len(part)
      /\ \A i \in 1 .. Len(buffer) : buffer[i] = written + i
  BY <1>1, Grows DEF FileInv, Offsets
<1>3. longer \in Seq(Nat) /\ Len(longer) = Len(buffer) + 1
      /\ \A i \in 1 .. Len(longer) : longer[i] = written + i
  <2>1. k \in Nat
    BY <1>2
  <2>2. longer \in Seq(Nat) /\ Len(longer) = Len(buffer) + 1 /\ longer[Len(buffer) + 1] = k
        /\ \A i \in 1 .. Len(buffer) : longer[i] = buffer[i]
    BY <1>2, <2>1, AppendProperties
  <2>3. ASSUME NEW i \in 1 .. Len(buffer) + 1 PROVE longer[i] = written + i
    <3>1. CASE i \in 1 .. Len(buffer)
      BY <1>2, <2>2, <3>1
    <3>2. CASE i = Len(buffer) + 1
      BY <1>2, <2>2, <3>2
    <3> QED
      BY <1>2, <3>1, <3>2
  <2> QED
    BY <2>2, <2>3
<1>4. CASE stop
  BY <1>1, <1>4 DEF Receive, Goes, FileInv, PartIsStraight, Offsets, RepairAlone,
     Untouched, Progress, OnDisk, Typed, files, service, outside, None, Streaming, Fetching
<1>5. CASE ~stop
  <2>1. k <= N + 1 /\ buffer' = longer /\ dl' \in {"write", "failing", "checks"}
    BY <1>1, <1>5 DEF Receive, Goes
  <2> HIDE DEF longer
  <2>2. written + Len(longer) <= N + 1
    BY <1>2, <1>3, <2>1, SizeAssumption
  <2> QED
    BY <1>1, <1>3, <2>1, <2>2 DEF Receive, FileInv, PartIsStraight, Offsets, RepairAlone,
       Untouched, Progress, OnDisk, Typed, files, service, outside, None, Streaming, Fetching
<1> QED
  BY <1>4, <1>5

(* append_batch, and where its three callers go on: all of the buffer's  *)
(* blocks move to the part and to the digest at once.                    *)
LEMMA AppendsKeeps ==
  ASSUME FileInv, dl \in Streaming, Appends, synced' \in {synced, Len(part')},
         dl' \in {"failing", "checks", "pausing", "rename"}, dl' = "rename" => written' = N,
         dl' = "checks" => written' <= N,
         UNCHANGED <<target, archive, moved, row, progress, service, outside>>
  PROVE  FileInv'
<1> DEFINE longer == part \o buffer
<1>1. /\ Len(part) \in Nat /\ Len(buffer) \in Nat
      /\ Straight(longer) /\ Len(longer) = Len(part) + Len(buffer)
  BY Grows
<1>2. /\ part' = longer /\ hashed' = longer /\ written' = Len(longer) /\ buffer' = <<>>
      /\ Len(part) <= Len(longer) /\ synced' \in 0 .. Len(longer)
  BY <1>1 DEF FileInv, PartIsStraight, Offsets, Appends
<1> HIDE DEF longer
<1>3. /\ repair = "idle" /\ target = None /\ <<>> \in Seq(Nat) /\ Len(<<>>) = 0
      /\ Len(longer) \in Nat
  BY <1>1, EmptySeq, LenProperties DEF FileInv, RepairAlone, Offsets, Fetching, Streaming, Straight
<1>4. (PartIsStraight /\ Offsets /\ RepairAlone)'
  BY <1>1, <1>2, <1>3, SizeAssumption DEF FileInv, PartIsStraight, Offsets, RepairAlone,
     service, Streaming, Fetching, None
<1>5. (Untouched /\ Typed)'
  BY <1>2, <1>3 DEF FileInv, Untouched, Typed, service, outside, None
<1>6. Progress'
  <2>1. \A b : b <= Len(part) /\ b \in Nat => b <= Len(part')
    BY <1>1, <1>2
  <2>2. \A b \in progress : b <= Len(part)
    BY DEF FileInv, Progress, OnDisk, Streaming
  <2>3. row.status = "DOWNLOADING" => row.bytes <= Len(part)
    BY DEF FileInv, Progress, OnDisk, Streaming
  <2> QED
    BY <2>1, <2>2, <2>3 DEF FileInv, Progress, OnDisk, Typed, outside
<1> QED
  BY <1>4, <1>5, <1>6 DEF FileInv

(* A full batch is written. *)
LEMMA WriteKeeps == FileInv /\ Write => FileInv'
<1> SUFFICES ASSUME FileInv, Write PROVE FileInv'
  OBVIOUS
<1>1. dl \in Streaming /\ Appends /\ synced' = synced /\ dl' \in {"failing", "checks"}
  BY DEF Write, Goes, Streaming
<1>2. dl' = "checks" => written' <= N
  <2>1. written' = Len(part) + Len(buffer) /\ Len(part) \in Nat /\ Len(buffer) \in Nat
    BY <1>1, Grows DEF FileInv, Offsets, Appends
  <2> QED
    BY <2>1, SizeAssumption DEF Write, Goes
<1> QED
  BY <1>1, <1>2, AppendsKeeps DEF Write

(* What a pause has left in the buffer is written. *)
LEMMA SyncKeeps == FileInv /\ Sync => FileInv'
  BY AppendsKeeps DEF Sync, Goes, Streaming

(* The last bytes are written, and counted. *)
LEMMA FinishKeeps == FileInv /\ Finish => FileInv'
  BY AppendsKeeps DEF Finish, Goes, Streaming

(* A write that fails leaves a beginning of the batch in the part, which *)
(* the digest and the count do not know: nothing is streamed after it.   *)
LEMMA WriteFailsKeeps == FileInv /\ WriteFails => FileInv'
<1> SUFFICES ASSUME FileInv, WriteFails PROVE FileInv'
  OBVIOUS
<1>1. dl \in Streaming /\ dl' = "failing"
  BY DEF WriteFails, Streaming, Goes
<1>2. PICK k \in 0 .. Len(buffer) : part' = part \o SubSeq(buffer, 1, k)
  BY DEF WriteFails
<1>3. Straight(part') /\ Len(part') \in Nat /\ Len(part) \in Nat /\ Len(part) <= Len(part')
  BY <1>1, <1>2, Grows
<1>4. repair = "idle" /\ target = None
  BY <1>1 DEF FileInv, RepairAlone, Offsets, Fetching, Streaming
<1>5. (PartIsStraight /\ Offsets /\ RepairAlone)'
  BY <1>1, <1>3, <1>4 DEF WriteFails, FileInv, PartIsStraight, Offsets, RepairAlone, service,
     Streaming, Fetching, None
<1>6. (Untouched /\ Typed)'
  BY <1>1 DEF WriteFails, FileInv, Untouched, Typed, service, outside
<1>7. Progress'
  <2>1. \A b : b <= Len(part) /\ b \in Nat => b <= Len(part')
    BY <1>3
  <2> QED
    BY <1>1, <2>1 DEF WriteFails, FileInv, Progress, OnDisk, Streaming, Typed, outside
<1> QED
  BY <1>5, <1>6, <1>7 DEF FileInv

(* The part becomes the file: it is straight, and its length was checked. *)
LEMMA RenameKeeps == FileInv /\ Rename => FileInv'
<1> SUFFICES ASSUME FileInv, Rename PROVE FileInv'
  OBVIOUS
<1>1. dl = "rename" /\ target = None /\ hashed = part /\ Straight(part) /\ Len(part) = N
  BY DEF Rename, FileInv, PartIsStraight, Offsets, Fetching
<1>2. part = Whole /\ hashed = Whole /\ part # <<>>
  BY <1>1, StraightIsWhole, StraightEmpty, SizeAssumption
<1>3. /\ target' = {Whole} /\ part' = <<>> /\ synced' = 0 /\ dl' = "complete"
      /\ touched' = (touched /\ (check # "idle" \/ row.status = "COMPLETED"))
  BY <1>2 DEF Rename, Goes
<1>4. ~touched' => check = "idle" /\ row.status # "COMPLETED"
  BY <1>1, <1>3 DEF FileInv, Untouched, None
<1> QED
  BY <1>1, <1>2, <1>3, <1>4, StraightEmpty, WholeLength DEF Rename, FileInv, PartIsStraight,
     Offsets,
     RepairAlone, Untouched, Progress, OnDisk, Typed, service, outside, None, Streaming, Fetching

(* A start or a retry goes on from the length of the part. *)
LEMMA OpensKeeps ==
  ASSUME FileInv, Opens, dl \in {"idle", "sleep"}, row.status # "DOWNLOADING", progress = None,
         repair = "idle", row.status # "COMPLETED" \/ dl = "sleep",
         UNCHANGED <<row, progress, target, moved, service, outside>>
  PROVE  FileInv'
<1>1. Straight(part) /\ Len(part) \in Nat
  BY LenProperties DEF FileInv, PartIsStraight, Straight
<1>2. CASE target # None
  BY <1>1, <1>2 DEF Opens, Goes, FileInv, PartIsStraight, Offsets, RepairAlone, Untouched,
     Progress, OnDisk, Typed, service, outside, None, Streaming, Fetching
<1>3. CASE target = None
  <2>1. /\ Straight(part') /\ Len(part') \in Nat /\ synced' \in 0 .. Len(part')
        /\ written' = Len(part') /\ Len(part') <= N
        /\ buffer' = <<>> /\ hashed' = <<>> /\ dl' \in {"starting", "pausing"}
    BY <1>1, <1>3, StraightEmpty, SizeAssumption DEF Opens, Goes, FileInv, PartIsStraight
  <2> QED
    BY <1>3, <2>1 DEF FileInv, PartIsStraight, Offsets, RepairAlone, Untouched,
       Progress, OnDisk, Typed, service, outside, None, Streaming, Fetching
<1> QED
  BY <1>2, <1>3

(* A start. *)
LEMMA BeginKeeps == FileInv /\ Begin => FileInv'
  BY OpensKeeps DEF Begin, FileInv, Progress

(* A retry in the same run, or a pause before it. *)
LEMMA RetryKeeps == FileInv /\ Retry => FileInv'
<1> SUFFICES ASSUME FileInv, Retry PROVE FileInv'
  OBVIOUS
<1>1. dl = "sleep" /\ row.status # "DOWNLOADING" /\ progress = None /\ repair = "idle"
  BY DEF Retry, FileInv, Progress, RepairAlone
<1>2. CASE stop
  BY <1>1, <1>2 DEF Retry, Goes, FileInv, PartIsStraight, Offsets, RepairAlone, Untouched,
     Progress, OnDisk, Typed, service, outside, None, Streaming, Fetching
<1>3. CASE ~stop
  BY <1>1, <1>3, OpensKeeps DEF Retry
<1> QED
  BY <1>2, <1>3

(* After a chunk, what is counted is on the disk. *)
LEMMA ChecksKeeps == FileInv /\ Checks => FileInv'
<1> SUFFICES ASSUME FileInv, Checks PROVE FileInv'
  OBVIOUS
<1>1. /\ dl = "checks" /\ dl' \in {"stream", "syncing"} /\ progress' \in {{written}, progress}
      /\ written = Len(part) /\ written \in Nat
  BY DEF Checks, Goes, FileInv, Offsets, Streaming, Typed
<1>2. /\ progress' \subseteq Nat /\ \A b \in progress' : b <= Len(part)
      /\ row.status = "DOWNLOADING" => row.bytes <= Len(part)
  BY <1>1 DEF FileInv, Typed, Progress, OnDisk
<1>3. (Offsets /\ RepairAlone)'
  BY <1>1 DEF Checks, FileInv, Offsets, RepairAlone, files, service, Streaming, Fetching, None
<1>4. (PartIsStraight /\ Untouched /\ Typed)'
  BY <1>1, <1>2 DEF Checks, FileInv, PartIsStraight, Untouched, Typed, files, service, outside
<1>5. Progress'
  BY <1>1, <1>2 DEF Checks, FileInv, Progress, OnDisk, files, outside
<1> QED
  BY <1>3, <1>4, <1>5 DEF FileInv

(* A shutdown's cancellation, with or without the completion on its way. *)
LEMMA CancelKeeps == FileInv /\ Cancel => FileInv'
<1> SUFFICES ASSUME FileInv, Cancel PROVE FileInv'
  OBVIOUS
<1>1. CASE UNCHANGED <<row, progress>>
  <2>1. \/ dl \in Streaming /\ dl' = "syncing"
        \/ dl = "hashPart" /\ dl' = "pausing"
        \/ dl \in {"starting", "hashTarget", "complete", "waiting", "sleep"} /\ dl' = "stopped"
    BY DEF Cancel, Goes, Streaming
  <2>2. (PartIsStraight /\ Offsets /\ RepairAlone /\ Untouched /\ Typed)'
    BY <1>1, <2>1 DEF Cancel, FileInv, PartIsStraight, Offsets, RepairAlone, Untouched, Typed,
       files, service, None, Streaming, Fetching
  <2>3. Progress'
    BY <1>1, <2>1 DEF Cancel, FileInv, Progress, OnDisk, files, Streaming
  <2> QED
    BY <2>2, <2>3 DEF FileInv
<1>2. CASE dl = "complete" /\ row' = Completed /\ progress' = None
  <2>1. /\ dl' = "stopped" /\ DOMAIN row' = {"bytes", "status", "integrity", "digest"}
        /\ row'.bytes = written /\ row'.status = "COMPLETED" /\ row'.digest = {hashed}
    BY <1>2 DEF Cancel, Goes, Completed
  <2> QED
    BY <1>2, <2>1 DEF Cancel, FileInv, PartIsStraight, Offsets, RepairAlone, Untouched, Progress,
       OnDisk, Typed, files, service, None, Streaming, Fetching
<1> QED
  BY <1>1, <1>2 DEF Cancel

(* An edit of the finished file marks it as touched. *)
LEMMA TouchKeeps == FileInv /\ Touch => FileInv'
<1> SUFFICES ASSUME FileInv, Touch PROVE FileInv'
  OBVIOUS
<1>1. target' \in SUBSET Seq(Nat) /\ target # None
  <2>1. ASSUME NEW c \in target
        PROVE  [c EXCEPT ![1] = 0] \in Seq(Nat) /\ Front(c) \in Seq(Nat)
    <3>1. c \in Seq(Nat) /\ Len(c) \in Nat
      BY <2>1, LenProperties DEF FileInv, Typed
    <3>2. CASE c = <<>>
      <4>1. [c EXCEPT ![1] = 0] = c
        BY <3>1, <3>2
      <4>2. Front(c) = <<>>
        BY <3>1, <3>2 DEF Front
      <4> QED
        BY <3>1, <4>1, <4>2, EmptySeq
    <3>3. CASE c # <<>>
      <4>1. Len(c) \in Nat \ {0}
        BY <3>1, <3>3, EmptySeq
      <4>2. Front(c) \in Seq(Nat)
        BY <3>1, <4>1, SubSeqProperties DEF Front
      <4> QED
        BY <3>1, <4>1, <4>2, ExceptSeq
    <3> QED
      BY <3>2, <3>3
  <2>2. \/ target' = {}
        \/ \E c \in target : target' = {[c EXCEPT ![1] = 0]} \/ target' = {Front(c)}
    BY DEF Touch, None
  <2>3. target # None
    BY DEF Touch
  <2> QED
    BY <2>1, <2>2, <2>3
<1>2. repair = "idle" /\ dl \notin Fetching
  BY <1>1 DEF Touch, FileInv, RepairAlone, Offsets
<1> QED
  BY <1>1, <1>2 DEF Touch, FileInv, PartIsStraight, Offsets, RepairAlone, Untouched, Progress,
     OnDisk, Typed, loop, service, None, Streaming, Fetching

(* A verification begins, or finds the file missing or cut. *)
LEMMA VerifyKeeps == FileInv /\ Verify => FileInv'
<1> SUFFICES ASSUME FileInv, Verify PROVE FileInv'
  OBVIOUS
<1>1. CASE \E c \in target : Len(c) = N
  BY <1>1 DEF Verify, FileInv, PartIsStraight, Offsets, RepairAlone, Untouched, Progress, OnDisk,
     Typed, files, loop, outside, None, Streaming, Fetching
<1>2. CASE ~\E c \in target : Len(c) = N
  BY <1>2, WholeLength DEF Verify, Records, FileInv, PartIsStraight, Offsets, RepairAlone,
     Untouched,
     Progress, OnDisk, Typed, files, loop, outside, None, Streaming, Fetching
<1> QED
  BY <1>1, <1>2

(* Its result: of an untouched file it can only be that it is the medium. *)
LEMMA VerifyEndsKeeps == FileInv /\ VerifyEnds => FileInv'
<1> SUFFICES ASSUME FileInv, VerifyEnds PROVE FileInv'
  OBVIOUS
<1>1. CASE row' = row
  BY <1>1 DEF VerifyEnds, FileInv, PartIsStraight, Offsets, RepairAlone, Untouched, Progress,
     OnDisk,
     Typed, files, loop, outside, None, Streaming, Fetching
<1>2. CASE row' # row
  <2>1. /\ check = "record"
        /\ \/ row'.status = "FAILED"
           \/ row'.status = "COMPLETED" /\ row'.digest = seen.content /\ seen.content # None
        /\ DOMAIN row' = DOMAIN row /\ row'.bytes = row.bytes
    BY <1>2 DEF VerifyEnds, Records, FileInv, Typed, None
  <2>2. ~touched => target = {Whole} /\ (row'.status = "COMPLETED" => row'.digest = {Whole})
    BY <2>1 DEF FileInv, Untouched, None
  <2> QED
    BY <2>1, <2>2 DEF VerifyEnds, FileInv, PartIsStraight, Offsets, RepairAlone, Untouched,
       Progress, OnDisk, Typed, files, loop, outside, None, Streaming, Fetching
<1> QED
  BY <1>1, <1>2

(* With the power gone the part is a beginning of what it was. *)
LEMMA DiesKeeps == FileInv /\ Dies => FileInv'
<1> SUFFICES ASSUME FileInv, Dies PROVE FileInv'
  OBVIOUS
<1>1. PICK k \in synced .. Len(part) : part' = SubSeq(part, 1, k)
  BY DEF Dies
<1>2. Straight(part) /\ synced \in 0 .. Len(part) /\ Len(part) \in Nat
  BY LenProperties DEF FileInv, PartIsStraight, Straight
<1>3. Straight(part') /\ Len(part') = k
  BY <1>1, <1>2, StraightCut
<1> QED
  BY <1>1, <1>2, <1>3 DEF Dies, Forget, FileInv, PartIsStraight, Offsets, RepairAlone, Untouched,
     Progress, OnDisk, Typed, None, Streaming, Fetching

(* The steps that change no content; the invariant stands expanded for them. *)
USE DEF FileInv, PartIsStraight, Offsets, RepairAlone, Untouched, Progress, OnDisk, Typed
USE DEF files, loop, service, outside, None, Streaming, Fetching

(* Progress is written when the window of the coordinator ends. *)
LEMMA ProgressWrittenKeeps == FileInv /\ ProgressWritten => FileInv'
  BY DEF ProgressWritten, Sets, Bytes

(* The user pauses. *)
LEMMA PauseKeeps == FileInv /\ Pause => FileInv'
  BY DEF Pause

(* The row is set to the part's length. *)
LEMMA StartKeeps == FileInv /\ Start => FileInv'
  BY StraightEmpty, SizeAssumption DEF Start, Sets, Goes

(* What a previous run left is read into the digest, all of it. *)
LEMMA HashPartKeeps == FileInv /\ HashPart => FileInv'
  BY StraightEmpty, SizeAssumption DEF HashPart, Goes

(* A file that was there is read, and counts as downloaded. *)
LEMMA HashTargetKeeps == FileInv /\ HashTarget => FileInv'
  BY DEF HashTarget, Goes

(* The row is paused at what the writer has counted. *)
LEMMA PausesKeeps == FileInv /\ Pauses => FileInv'
  BY DEF Pauses, Sets, Ends

(* The row waits for its next try. *)
LEMMA WaitKeeps == FileInv /\ Wait => FileInv'
  BY DEF Wait, Sets, Bytes, Goes

(* The row fails. *)
LEMMA FailKeeps == FileInv /\ Fail => FileInv'
  BY DEF Fail, Sets, Bytes, Ends

(* The row is completed: the digest is that of the file. *)
LEMMA CompleteKeeps == FileInv /\ Complete => FileInv'
  BY DEF Complete, Completed, Ends

(* A cancelled coroutine leaves the row paused. *)
LEMMA StoppedKeeps == FileInv /\ Stopped => FileInv'
  BY DEF Stopped, Sets, Bytes, Ends

(* The stream ends. *)
LEMMA StreamEndsKeeps == FileInv /\ StreamEnds => FileInv'
  BY DEF StreamEnds, Goes

(* The stream breaks. *)
LEMMA StreamBreaksKeeps == FileInv /\ StreamBreaks => FileInv'
  BY DEF StreamBreaks

(* Telegram asks to wait. *)
LEMMA FloodWaitsKeeps == FileInv /\ FloodWaits => FileInv'
  BY DEF FloodWaits, Goes

(* The thread of a verification reads the file. *)
LEMMA VerifyReadsKeeps == FileInv /\ VerifyReads => FileInv'
  BY DEF VerifyReads

(* A repair begins, with no download under way. *)
LEMMA RepairKeeps == FileInv /\ Repair => FileInv'
  BY DEF Repair

(* The damaged file is moved away. *)
LEMMA MoveTargetKeeps == FileInv /\ MoveTarget => FileInv'
  BY DEF MoveTarget

(* Its part is moved away. *)
LEMMA MovePartKeeps == FileInv /\ MovePart => FileInv'
  BY StraightEmpty DEF MovePart

(* The row is reset, or the repair gives up. *)
LEMMA PrepareKeeps == FileInv /\ Prepare => FileInv'
  BY DEF Prepare

(* What was moved comes back to where it was. *)
LEMMA RestoreKeeps == FileInv /\ Restore => FileInv'
  BY DEF Restore

(* After a restart nothing is under way. *)
LEMMA RestartKeeps == FileInv /\ Restart => FileInv'
  BY DEF Restart

HIDE DEF FileInv, PartIsStraight, Offsets, RepairAlone, Untouched, Progress, OnDisk, Typed
HIDE DEF files, loop, service, outside, None, Streaming, Fetching

(* The invariant holds at first *)
LEMMA InitHolds == Init => FileInv
<1> SUFFICES ASSUME Init PROVE FileInv
  OBVIOUS
<1>1. PartIsStraight /\ Offsets
  BY StraightEmpty DEF Init, PartIsStraight, Offsets, None, Streaming, Fetching
<1>2. RepairAlone /\ Untouched
  BY DEF Init, RepairAlone, Untouched, None
<1>3. Progress /\ Typed
  BY DEF Init, Progress, Typed, None
<1> QED
  BY <1>1, <1>2, <1>3 DEF FileInv

(* ... and through every step *)
LEMMA StepsKeep == FileInv /\ [Next]_vars => FileInv'
<1> SUFFICES ASSUME FileInv, [Next]_vars PROVE FileInv'
  OBVIOUS
<1>1. CASE Download
  BY <1>1, RetryKeeps, StartKeeps, HashPartKeeps, HashTargetKeeps, ReceiveKeeps, WriteKeeps,
     ChecksKeeps, SyncKeeps, PausesKeeps, WaitKeeps, FailKeeps, FinishKeeps, RenameKeeps,
     CompleteKeeps, StoppedKeeps DEF Download
<1>2. CASE Verify \/ VerifyReads \/ VerifyEnds \/ Repair \/ Repairing
  BY <1>2, VerifyKeeps, VerifyReadsKeeps, VerifyEndsKeeps, RepairKeeps, MoveTargetKeeps,
     MovePartKeeps, PrepareKeeps, RestoreKeeps DEF Repairing
<1>3. CASE \/ ProgressWritten \/ Pause \/ Begin \/ WriteFails \/ StreamEnds \/ StreamBreaks
           \/ FloodWaits \/ Cancel \/ Touch \/ Dies \/ Restart
  BY <1>3, ProgressWrittenKeeps, PauseKeeps, BeginKeeps, WriteFailsKeeps, StreamEndsKeeps,
     StreamBreaksKeeps, FloodWaitsKeeps, CancelKeeps, TouchKeeps, DiesKeeps, RestartKeeps
<1>4. CASE UNCHANGED vars
  BY <1>4 DEF vars, files, loop, service, outside, FileInv, PartIsStraight, Offsets, RepairAlone,
     Untouched, Progress, OnDisk, Typed
<1> QED
  BY <1>1, <1>2, <1>3, <1>4 DEF Next

(* ... so always. *)
LEMMA AlwaysInv == Spec => []FileInv
  BY InitHolds, StepsKeep, PTL DEF Spec

(***************************************************************************)
(* For a file of any size and any number of retries, pauses, cancellations *)
(* and stops: what the program puts at the target is the whole medium with *)
(* its digest in the row, and the progress of a row is on the disk.        *)
(***************************************************************************)
THEOREM SoundFile == Spec => []FileIsSound
<1>1. FileInv => FileIsSound
  BY DEF FileInv, Untouched, Progress, OnDisk, FileIsSound, CompletedIsWhole, ProgressIsOnDisk
<1> QED
  BY <1>1, AlwaysInv, PTL

(* A content that was kept is kept after a step, or the part that held it grows. *)
Stays(c) == c \in Kept' \/ (c = part /\ (IsPrefix(part, part') \/ ~up'))

(* A step that leaves the files alone keeps all content. *)
LEMMA FilesStay == ASSUME UNCHANGED files, NEW c \in Kept PROVE Stays(c)
  BY DEF files, Kept, Stays

(* A write, failing or not, only adds to the part. *)
LEMMA PartMayGrow ==
  ASSUME FileInv, dl \in Streaming, NEW c \in Kept, UNCHANGED <<target, archive, moved>>,
         \/ part' = part \o buffer
         \/ \E k \in 0 .. Len(buffer) : part' = part \o SubSeq(buffer, 1, k)
  PROVE  Stays(c)
<1>1. part \in Seq(Nat) /\ buffer \in Seq(Nat)
  BY Grows
<1>2. IsPrefix(part, part')
  <2>1. CASE part' = part \o buffer
    BY <1>1, <2>1, GoesOn
  <2>2. ASSUME NEW k \in 0 .. Len(buffer), part' = part \o SubSeq(buffer, 1, k)
        PROVE  IsPrefix(part, part')
    <3> DEFINE b == SubSeq(buffer, 1, k)
    <3>1. b \in Seq(Nat)
      BY <1>1, Cut
    <3>2. IsPrefix(part, part \o b)
      BY <1>1, <3>1, GoesOn
    <3> QED
      BY <2>2, <3>2
  <2> QED
    BY <2>1, <2>2
<1>3. CASE c = part
  BY <1>2, <1>3 DEF Stays
<1>4. CASE c # part
  BY <1>4 DEF Kept, Stays
<1> QED
  BY <1>3, <1>4

(* An oversized part is put aside whole. *)
LEMMA OpensKeepAll ==
  ASSUME Opens, UNCHANGED <<target, moved>>, NEW c \in Kept PROVE Stays(c)
  BY DEF Opens, Kept, Stays

(* The part becomes the file where there was none. *)
LEMMA RenameKeepsAll == ASSUME FileInv, Rename, NEW c \in Kept PROVE Stays(c)
<1>1. target = None
  BY DEF Rename, FileInv, Offsets, Fetching
<1>2. UNCHANGED <<archive, moved>> /\ (part \in target' \/ UNCHANGED <<part, target>>)
  BY DEF Rename
<1> QED
  BY <1>1, <1>2 DEF Kept, Stays, None

(* A repair moves what is there and has nothing in its way when it moves *)
(* it back.                                                              *)
LEMMA MovesKeepAll ==
  ASSUME FileInv, MoveTarget \/ MovePart \/ Prepare \/ Restore, NEW c \in Kept
  PROVE  Stays(c)
<1>1. CASE MoveTarget
  BY <1>1 DEF MoveTarget, FileInv, RepairAlone, Kept, Stays, None
<1>2. CASE MovePart
  BY <1>2 DEF MovePart, FileInv, RepairAlone, Kept, Stays, None
<1>3. CASE Prepare
  BY <1>3 DEF Prepare, Kept, Stays, None
<1>4. CASE Restore
  <2>1. target = None /\ archive' = archive
    BY <1>4 DEF Restore, FileInv, RepairAlone
  <2>2. CASE moved.part = None
    BY <1>4, <2>1, <2>2 DEF Restore, Kept, Stays, None
  <2>3. CASE moved.part # None
    <3>1. part = <<>>
      BY <1>4, <2>3 DEF Restore, FileInv, RepairAlone
    <3>2. PICK d : moved.part = {d} /\ d \in Seq(Nat)
      BY <2>3 DEF FileInv, PartIsStraight, Straight
    <3>3. part' = d
      BY <1>4, <3>2 DEF Restore, None
    <3>4. IsPrefix(<<>>, d)
      BY <3>2, EmptySeq, SubSeqProperties, LenProperties DEF IsPrefix
    <3> QED
      BY <1>4, <2>1, <3>1, <3>2, <3>3, <3>4 DEF Restore, Kept, Stays, None
  <2> QED
    BY <2>2, <2>3
<1> QED
  BY <1>1, <1>2, <1>3, <1>4

(* No step but an edit of somebody else loses content. *)
LEMMA StepsLoseNothing ==
  FileInv /\ [Next]_vars => [touches' = touches => \A c \in Kept : Stays(c)]_vars
<1> SUFFICES ASSUME FileInv, Next, touches' = touches, NEW c \in Kept PROVE Stays(c)
  OBVIOUS
<1>1. CASE Begin \/ Retry
  BY <1>1, OpensKeepAll DEF Begin, Retry, Kept, Stays
<1>2. CASE Write \/ Sync \/ Finish \/ WriteFails
  BY <1>2, PartMayGrow DEF Write, Sync, Finish, WriteFails, Appends, Streaming
<1>3. CASE Rename \/ Repairing
  BY <1>3, RenameKeepsAll, MovesKeepAll DEF Repairing
<1>4. CASE Touch
  BY <1>4 DEF Touch, FileInv, Typed
<1>5. CASE Dies
  BY <1>5 DEF Dies, Kept, Stays
<1>6. CASE UNCHANGED files
  BY <1>6, FilesStay
<1>7. CASE \/ ProgressWritten \/ Pause \/ Start \/ HashPart \/ HashTarget \/ Receive \/ Checks
           \/ Pauses \/ Wait \/ Fail \/ Complete \/ Stopped \/ StreamEnds \/ StreamBreaks
           \/ FloodWaits \/ Cancel \/ Verify \/ VerifyReads \/ VerifyEnds \/ Repair \/ Restart
  <2>1. UNCHANGED files
    BY <1>7 DEF ProgressWritten, Pause, Start, HashPart, HashTarget, Receive, Checks, Pauses,
       Wait, Fail, Complete, Stopped, StreamEnds, StreamBreaks, FloodWaits, Cancel, Verify,
       VerifyReads, VerifyEnds, Repair, Restart
  <2> QED
    BY <2>1, FilesStay
<1> QED
  BY <1>1, <1>2, <1>3, <1>4, <1>5, <1>7 DEF Next, Download

(***************************************************************************)
(* No step of the program loses content: a part grows, becomes the file or *)
(* is put aside whole, and a damaged file stays at its place or in the     *)
(* archive; only an edit by somebody else or the power takes bytes.        *)
(***************************************************************************)
THEOREM NothingIsLost == Spec => NothingLost
<1>1. FileInv /\ [Next]_vars =>
        [touches' = touches =>
           \A c \in Kept : \/ c \in Kept'
                           \/ c = part /\ (IsPrefix(part, part') \/ ~up')]_vars
  BY StepsLoseNothing DEF Stays
<1> QED
  BY <1>1, AlwaysInv, PTL DEF Spec, NothingLost
=============================================================================
