-------------------------- MODULE MmapChannelProofs --------------------------
(***************************************************************************)
(* Proofs about the mmap channel for every number of slots, every set of   *)
(* message sizes, every size limit, every combination of faults and every  *)
(* number of messages.                                                     *)
(***************************************************************************)
EXTENDS MmapChannel, FiniteSetTheorems, TLAPS

Reading == {"trylock", "locked", "resolve", "consume"}
Writing == {"cleanup", "cleaning", "trylock", "locked"}

Unpublished == IF wpc = "publish" THEN 1 ELSE 0
Unnotified  == IF wpc = "notify" THEN 1 ELSE 0
Unindexed   == IF rpc = "index" THEN 1 ELSE 0

\* The types of the variables, without the bounds on the counters
Types ==
  /\ sizeData \in [Blocks -> Sizes \cup {0}]
  /\ content \in [Blocks -> Nat]
  /\ capacity \in [Blocks -> Nat]
  /\ isShm \in [Blocks -> BOOLEAN]
  /\ cleanup \in [Blocks -> BOOLEAN]
  /\ lock \in [Blocks -> {"free", "writer", "reader", "dead"}]
  /\ wpos \in Blocks /\ rpos \in Blocks
  /\ entryCount \in Nat /\ events \in Nat
  /\ chanCleanup \in BOOLEAN /\ indexDead \in BOOLEAN
  /\ wpc \in {"idle", "cleanup", "cleaning", "trylock", "locked", "publish", "notify",
              "failed", "dead", "exited"}
  /\ wblk \in Blocks /\ wi \in Blocks /\ wsize \in Sizes \cup {0}
  /\ wpc \in Writing => wsize # 0
  /\ rpc \in {"idle", "trylock", "locked", "resolve", "consume", "index", "failed",
              "dead"}
  /\ rblk \in Blocks /\ rclean \in BOOLEAN /\ got \in Nat
  /\ sent \in Nat /\ delivered \in Nat /\ last \in Nat
  /\ closed \in BOOLEAN

\* How the counters in shared memory relate to what was written and read
Counting ==
  /\ delivered <= sent /\ sent <= delivered + Slots /\ sent <= MaxMsgs
  /\ wpc \in Writing => sent < MaxMsgs
  /\ entryCount + Unpublished + delivered <= sent + 1
  /\ ReaderActive => entryCount + Unpublished + delivered <= sent + Unindexed
  /\ WriterActive /\ ReaderActive =>
       entryCount + Unpublished + delivered = sent + Unindexed
  /\ events + Unnotified <= entryCount
  /\ WriterActive /\ ReaderActive => events + Unnotified = entryCount
  /\ rpc \in Reading \cup {"index"} => events >= 1
  /\ closed <=> wpc = "exited"

\* How many messages ago block b was filled, when w is the next block to fill
Age(b, w) == IF b < w THEN w - (b + 1) ELSE (w + Slots) - (b + 1)

\* The blocks hold the last Slots messages in ring order, ending before w
Window(w) == \A b \in Blocks :
  content[b] = IF Age(b, w) < sent THEN sent - Age(b, w) ELSE Garbage

\* Where the writer and the reader are on the ring once they have finished
\* the index section that is due
NextWrite == IF wpc = "publish" THEN Succ(wpos) ELSE wpos
NextRead  == IF rpc = "index" THEN Succ(rpos) ELSE rpos

\* The positions agree with the window of unread messages
Positions(w) ==
  /\ WriterActive => w = NextWrite
  /\ ReaderActive => NextRead + sent \in {w + delivered, w + delivered + Slots}

\* The contents of the ring, until the writer releases it
Ring ==
  ~closed =>
    /\ \E w \in Blocks : Window(w) /\ Positions(w)
    /\ \A b \in Blocks : sizeData[b] # 0 <=> content[b] > delivered
    /\ wpc \in Writing => wblk = wpos
    /\ rpc \in Reading => rblk = rpos
    /\ rpc = "consume" => got = delivered + 1

\* Bounds on message numbers, and what is left after the release
Bounds ==
  /\ \A b \in Blocks : content[b] <= sent
  /\ got <= sent /\ last <= sent
  /\ closed => \A b \in Blocks : sizeData[b] = 0
  /\ closed /\ rpc = "consume" => got \in {delivered + 1, Garbage}

\* The inductive invariant
IInv == Types /\ Counting /\ Ring /\ Bounds /\ CleanupKeepsUnread /\ BlockExclusion
             /\ CleanupNotLost

-----------------------------------------------------------------------------
(* Facts about the operators                                               *)

(* The capacity of a new allocation is a size, rounded up for SHM. *)
LEMMA NewCapacityType ==
  ASSUME NEW s \in Nat
  PROVE  NewCapacity(s) \in Nat
BY LimitsAssumption DEF NewCapacity

(* An allocation gives the block a capacity and a kind of memory. *)
LEMMA AllocateType ==
  ASSUME Types, NEW b \in Blocks, NEW s \in Nat, Allocate(b, s)
  PROVE  capacity' \in [Blocks -> Nat] /\ isShm' \in [Blocks -> BOOLEAN]
<1>1. CASE Reusable(b, s)
  BY <1>1, Zenon DEF Allocate, allocVars, Types
<1>2. CASE ~Reusable(b, s)
  <2>1. capacity' \in [Blocks -> Nat]
    BY <1>2, NewCapacityType, Zenon DEF Allocate, Types
  <2>2. isShm' = [isShm EXCEPT ![b] = s > ShmLimit]
    BY <1>2, Zenon DEF Allocate
  <2>3. (s > ShmLimit) \in BOOLEAN
    OBVIOUS
  <2>4. isShm' \in [Blocks -> BOOLEAN]
    BY <2>2, <2>3, Zenon DEF Types
  <2>. QED
    BY <2>1, <2>4, Zenon
<1>. QED
  BY <1>1, <1>2, Zenon

(* wpos and rpos stay on the ring. *)
LEMMA SuccType ==
  ASSUME NEW b \in Blocks
  PROVE  Succ(b) \in Blocks
BY SlotsAssumption DEF Succ, Blocks

(* Filling block w makes it the newest one and every other one older. *)
LEMMA AgeSucc ==
  ASSUME NEW b \in Blocks, NEW w \in Blocks
  PROVE  Age(b, Succ(w)) = IF b = w THEN 0 ELSE Age(b, w) + 1
BY SlotsAssumption DEF Age, Succ, Blocks

(* A number of messages ago at most one block was filled. *)
LEMMA AgeInjective ==
  ASSUME NEW a \in Blocks, NEW b \in Blocks, NEW w \in Blocks, Age(a, w) = Age(b, w)
  PROVE  a = b
BY SlotsAssumption DEF Age, Blocks

(* Ages are natural numbers below the number of slots. *)
LEMMA AgeType ==
  ASSUME NEW b \in Blocks, NEW w \in Blocks
  PROVE  Age(b, w) \in 0 .. Slots - 1
BY SlotsAssumption DEF Age, Blocks

(* WriteFill moves the window on by one block. *)
LEMMA WindowFill ==
  ASSUME Types, NEW w \in Blocks, Window(w), sent' = sent + 1,
         content' = [content EXCEPT ![w] = sent + 1]
  PROVE  Window(Succ(w))'
<1>. SUFFICES ASSUME NEW b \in Blocks
              PROVE  content'[b] = IF Age(b, Succ(w)) < sent' THEN sent' - Age(b, Succ(w))
                                                              ELSE Garbage
  BY Zenon DEF Window, Age, Succ, Blocks, Garbage
<1>1. content[b] = IF Age(b, w) < sent THEN sent - Age(b, w) ELSE Garbage
  BY Zenon DEF Window
<1>2. Age(b, w) \in Nat /\ sent \in Nat
  BY AgeType, SlotsAssumption DEF Types
<1>3. CASE b = w
  <2>1. content'[b] = sent + 1
    BY <1>3, Zenon DEF Types
  <2>2. Age(b, Succ(w)) = 0
    BY <1>3, AgeSucc, Zenon
  <2>. QED
    BY <1>2, <2>1, <2>2
<1>4. CASE b # w
  <2>1. content'[b] = content[b]
    BY <1>4, Zenon DEF Types
  <2>2. Age(b, Succ(w)) = Age(b, w) + 1
    BY <1>4, AgeSucc, Zenon
  <2>. QED
    BY <1>1, <1>2, <2>1, <2>2
<1>. QED
  BY <1>3, <1>4, Zenon

(* A writer which finds its block free has room: the block held the oldest *)
(* message of the window, and that message has been delivered.             *)
LEMMA RoomWhenFree ==
  ASSUME IInv, wpc = "locked", IsFree(wblk)
  PROVE  sent < delivered + Slots
<1>1. ~closed /\ wblk = wpos /\ wpos \in Blocks
  BY Zenon DEF IInv, Counting, Ring, Writing, Types
<1>2. PICK w \in Blocks : Window(w) /\ Positions(w)
  BY <1>1, Zenon DEF IInv, Ring
<1>3. w = wpos
  BY <1>2, Zenon DEF Positions, WriterActive, NextWrite
<1>4. Age(wpos, wpos) = Slots - 1
  BY <1>1, SlotsAssumption DEF Age, Blocks
<1>5. content[wpos] = IF Slots - 1 < sent THEN sent - (Slots - 1) ELSE 0
  BY <1>1, <1>2, <1>3, <1>4, Zenon DEF Window, Garbage
<1>6. ~(content[wpos] > delivered)
  BY <1>1, Zenon DEF IInv, Ring, IsFree
<1>. QED
  BY <1>5, <1>6, SlotsAssumption DEF IInv, Types

(* A reader at work has the oldest unread message before it, and no other  *)
(* block holds that message.                                               *)
LEMMA HeadOfQueue ==
  ASSUME IInv, ~closed, rpc \in Reading
  PROVE  /\ delivered < sent
         /\ rblk = rpos
         /\ content[rpos] = delivered + 1
         /\ \A b \in Blocks : content[b] = delivered + 1 => b = rpos
         /\ sizeData[rpos] # 0
<1>1. delivered < sent /\ rblk = rpos /\ ReaderActive /\ NextRead = rpos
  BY DEF IInv, Types, Counting, Ring, Reading, ReaderActive, NextRead, Unpublished,
         Unnotified, Unindexed
<1>2. PICK w \in Blocks : Window(w) /\ Positions(w)
  BY Zenon DEF IInv, Ring
<1>3. rpos + sent \in {w + delivered, w + delivered + Slots}
  BY <1>1, <1>2, Zenon DEF Positions
<1>4. rpos \in Blocks /\ sent \in Nat /\ delivered \in Nat /\ sent <= delivered + Slots
  BY Zenon DEF IInv, Types, Counting
<1>5. Age(rpos, w) = sent - (delivered + 1)
  BY <1>1, <1>3, <1>4, SlotsAssumption DEF Age, Blocks
<1>6. content[rpos] = delivered + 1
  BY <1>1, <1>2, <1>4, <1>5 DEF Window
<1>7. ASSUME NEW b \in Blocks, content[b] = delivered + 1 PROVE b = rpos
  <2>1. Age(b, w) = sent - (delivered + 1)
    BY <1>1, <1>2, <1>4, <1>7, AgeType DEF Window, Garbage
  <2>. QED
    BY <1>4, <1>5, <2>1, AgeInjective, Zenon
<1>8. sizeData[rpos] # 0
  BY <1>4, <1>6 DEF IInv, Ring
<1>. QED
  BY <1>1, <1>6, <1>7, <1>8, Zenon

(* Cleaning up a block leaves every size_data as it is. *)
LEMMA CleanupFreeKeepsSizes ==
  ASSUME IInv, CleanupFree
  PROVE  sizeData' = sizeData
BY DEF IInv, Types, CleanupKeepsUnread, CleanupFree

(* So it keeps all types. *)
LEMMA CleanupFreeType ==
  ASSUME Types, CleanupFree
  PROVE  Types'
<1>1. CASE cleanup[wi]
  <2>1. cleanup' \in [Blocks -> BOOLEAN] /\ isShm' \in [Blocks -> BOOLEAN]
    BY <1>1, ZenonT(60) DEF CleanupFree, Types
  <2>2. capacity' \in [Blocks -> Nat] /\ sizeData' \in [Blocks -> Sizes \cup {0}]
    BY <1>1, SMTT(60) DEF CleanupFree, Types
  <2>. QED
    BY <1>1, <2>1, <2>2, SlotsAssumption, SMTT(60)
       DEF CleanupFree, CleanupNext, Types, Blocks, Writing, indexVars, readerVars, ghostVars
<1>2. CASE ~cleanup[wi]
  BY <1>2, SlotsAssumption, SMTT(60)
     DEF CleanupFree, CleanupNext, Types, Blocks, Writing, indexVars, readerVars, ghostVars
<1>. QED
  BY <1>1, <1>2, Zenon

(* A failed write leaves the block with or without memory. *)
LEMMA WriteFailType ==
  ASSUME Types, WriteFail
  PROVE  Types'
<1>1. capacity' \in [Blocks -> Nat] /\ isShm' \in [Blocks -> BOOLEAN]
  <2>1. CASE Allocate(wblk, wsize)
    BY <2>1, AllocateType, SizesAssumption, Zenon DEF Types
  <2>2. CASE ~Allocate(wblk, wsize)
    <3>1. /\ capacity' = [capacity EXCEPT ![wblk] = 0]
          /\ isShm' = [isShm EXCEPT ![wblk] = FALSE]
      BY <2>2, Zenon DEF WriteFail
    <3>2. isShm' \in [Blocks -> BOOLEAN]
      BY <3>1, Zenon DEF Types
    <3>. QED
      BY <3>1, <3>2, Zenon DEF Types
  <2>. QED
    BY <2>1, <2>2, Zenon
<1>. QED
  BY <1>1, ZenonT(60) DEF WriteFail, Types, Writing, indexVars, readerVars, ghostVars

-----------------------------------------------------------------------------
(* Every step preserves every conjunct of the invariant                    *)

(* Only four actions touch the messages and the flags of the blocks, and *)
(* only one hands a message to the callback.                             *)
LEMMA Frame ==
  ASSUME [Next]_vars
  PROVE  \/ WriteFill \/ CleanupFree \/ FreeBlocks \/ ReadCallback \/ ReadConsume
         \/ /\ UNCHANGED <<sizeData, content, cleanup, ghostVars, got>>
            /\ rpc' = "consume" => rpc = "consume"
<1>. USE DEF vars, blockVars, allocVars, indexVars, writerVars, readerVars
<1>1. CASE \/ WriteBegin \/ CleanupSkip \/ CleanupLock \/ WriteBusy \/ WriteLock
           \/ WriteFull \/ WritePublish \/ WriteNotify \/ WriteBlockDead
           \/ WriteIndexDead \/ WriteFail \/ NotifyFail \/ WriterCrash
  BY <1>1, Zenon DEF WriteBegin, CleanupSkip, CleanupLock, WriteBusy, WriteLock, WriteFull,
              WritePublish, WriteNotify, WriteBlockDead, WriteIndexDead, WriteFail,
              NotifyFail, WriterCrash
<1>2. CASE \/ ReadBegin \/ ReadBusy \/ ReadLock \/ ReadEmpty \/ ReadCheck \/ ReadIndex
           \/ ReadBlockDead \/ ReadIndexDead \/ ReadFail \/ ReaderCrash
  BY <1>2, Zenon DEF ReadBegin, ReadBusy, ReadLock, ReadEmpty, ReadCheck, ReadIndex,
              ReadBlockDead, ReadIndexDead, ReadFail, ReaderCrash
<1>3. CASE UNCHANGED vars
  BY <1>3, Zenon
<1>. QED
  BY <1>1, <1>2, <1>3, Zenon DEF Next, Writer, Reader

(* Every step of the two processes keeps the variables in their types. *)
LEMMA TypesStep ==
  ASSUME IInv, [Next]_vars
  PROVE  Types'
<1>. USE SlotsAssumption, SizesAssumption DEF IInv, Types, Blocks, Writing, Succ,
           vars, blockVars, allocVars, indexVars, writerVars, readerVars, ghostVars
<1>1. CASE WriteBegin
  <2>1. PICK s \in Sizes : wsize' = s
    BY <1>1, Zenon DEF WriteBegin
  <2>2. wsize' \in Sizes /\ wsize' # 0
    BY <2>1, Zenon
  <2>3. wpc' \in {"cleanup", "trylock"} /\ wi' \in Blocks /\ wblk' \in Blocks
    BY <1>1 DEF WriteBegin
  <2>. QED
    BY <1>1, <2>2, <2>3, Zenon DEF WriteBegin
<1>2. CASE CleanupSkip
  BY <1>2, SMTT(60) DEF CleanupSkip, CleanupNext
<1>3. CASE CleanupLock
  BY <1>3, ZenonT(60) DEF CleanupLock
<1>4. CASE CleanupFree
  BY <1>4, CleanupFreeType, Zenon
<1>5. CASE WriteBusy
  BY <1>5, ZenonT(60) DEF WriteBusy
<1>6. CASE WriteLock
  BY <1>6, ZenonT(60) DEF WriteLock
<1>7. CASE WriteFull
  BY <1>7, ZenonT(60) DEF WriteFull, IsFree
<1>8. CASE WriteFill
  <2>1. capacity' \in [Blocks -> Nat] /\ isShm' \in [Blocks -> BOOLEAN]
    BY <1>8, AllocateType, Zenon DEF WriteFill
  <2>. QED
    BY <1>8, <2>1, SMTT(60) DEF WriteFill, MarkUsed
<1>9. CASE WritePublish
  BY <1>9 DEF WritePublish, CountEntry
<1>10. CASE WriteNotify
  BY <1>10 DEF WriteNotify
<1>f. CASE NotifyFail
  BY <1>f, ZenonT(60) DEF NotifyFail
<1>11. CASE WriteBlockDead
  BY <1>11, ZenonT(60) DEF WriteBlockDead
<1>12. CASE WriteIndexDead
  BY <1>12, ZenonT(60) DEF WriteIndexDead
<1>13. CASE WriteFail
  BY <1>13, WriteFailType, Zenon
<1>14. CASE FreeBlocks
  <2>1. CASE indexDead
    BY <1>14, <2>1, ZenonT(60) DEF FreeBlocks
  <2>2. CASE ~indexDead
    <3>1. isShm' \in [Blocks -> BOOLEAN]
      BY <1>14, <2>2, ZenonT(60) DEF FreeBlocks
    <3>. QED
      BY <1>14, <2>2, <3>1 DEF FreeBlocks
  <2>. QED
    BY <2>1, <2>2, Zenon
<1>15. CASE WriterCrash
  <2>1. lock' \in [Blocks -> {"free", "writer", "reader", "dead"}]
    BY <1>15, Zenon DEF WriterCrash, Abandon
  <2>2. indexDead' \in BOOLEAN
    BY <1>15, Zenon DEF WriterCrash
  <2>. QED
    BY <1>15, <2>1, <2>2, ZenonT(60) DEF WriterCrash
<1>16. CASE ReadBegin
  BY <1>16, ZenonT(60) DEF ReadBegin
<1>17. CASE ReadBusy
  BY <1>17, ZenonT(60) DEF ReadBusy
<1>18. CASE ReadLock
  BY <1>18, ZenonT(60) DEF ReadLock
<1>19. CASE ReadEmpty
  BY <1>19, ZenonT(60) DEF ReadEmpty
<1>20. CASE ReadCheck
  BY <1>20, ZenonT(60) DEF ReadCheck
<1>21. CASE ReadCallback
  BY <1>21, ZenonT(60) DEF ReadCallback, Garbage
<1>22. CASE ReadConsume
  BY <1>22, SMTT(60) DEF ReadConsume
<1>23. CASE ReadIndex
  <2>1. entryCount >= 1 /\ events >= 1
    BY <1>23, SMTT(60) DEF ReadIndex, Counting, Reading, Unnotified
  <2>. QED
    BY <1>23, <2>1, SMTT(60) DEF ReadIndex, RequestCleanup
<1>24. CASE ReadBlockDead
  BY <1>24, ZenonT(60) DEF ReadBlockDead
<1>25. CASE ReadIndexDead
  BY <1>25, ZenonT(60) DEF ReadIndexDead
<1>26. CASE ReadFail
  BY <1>26, ZenonT(60) DEF ReadFail
<1>27. CASE ReaderCrash
  <2>1. lock' \in [Blocks -> {"free", "writer", "reader", "dead"}]
    BY <1>27, Zenon DEF ReaderCrash, Abandon
  <2>2. indexDead' \in BOOLEAN
    BY <1>27, ZenonT(60) DEF ReaderCrash
  <2>. QED
    BY <1>27, <2>1, <2>2, ZenonT(60) DEF ReaderCrash
<1>28. CASE UNCHANGED vars
  BY <1>28
<1>. QED
  BY <1>1, <1>2, <1>3, <1>4, <1>5, <1>6, <1>7, <1>8, <1>9, <1>10, <1>11,
     <1>12, <1>13, <1>14, <1>15, <1>16, <1>17, <1>18, <1>19, <1>20, <1>21,
     <1>22, <1>23, <1>24, <1>25, <1>26, <1>27, <1>28, <1>f, ZenonT(60)
  DEF Next, Writer, Reader

(* Entry count, events and message numbers move together; only WriteFill     *)
(* needs to know the ring, for the bound on the messages on their way.       *)
LEMMA CountingStep ==
  ASSUME IInv, [Next]_vars
  PROVE  Counting'
<1>. USE SlotsAssumption, MaxMsgsAssumption DEF IInv, Types, Counting, Writing, Reading, Unpublished, Unnotified,
           Unindexed, WriterActive, ReaderActive,
           vars, blockVars, allocVars, indexVars, writerVars, readerVars, ghostVars
<1>1. CASE WriteBegin
  BY <1>1, Zenon DEF WriteBegin
<1>2. CASE CleanupSkip
  BY <1>2, Zenon DEF CleanupSkip, CleanupNext
<1>3. CASE CleanupLock
  BY <1>3, Zenon DEF CleanupLock
<1>4. CASE CleanupFree
  BY <1>4, Zenon DEF CleanupFree, CleanupNext
<1>5. CASE WriteBusy
  BY <1>5, Zenon DEF WriteBusy
<1>6. CASE WriteLock
  BY <1>6, Zenon DEF WriteLock
<1>7. CASE WriteFull
  BY <1>7, ZenonT(60) DEF WriteFull, IsFree
<1>8. CASE WriteFill
  <2>1. sent < delivered + Slots
    BY <1>8, RoomWhenFree, Zenon DEF WriteFill
  <2>. QED
    BY <1>8, <2>1, SMTT(60) DEF WriteFill
<1>9. CASE WritePublish
  BY <1>9, SMTT(60) DEF WritePublish, CountEntry
<1>10. CASE WriteNotify
  BY <1>10, SMTT(60) DEF WriteNotify
<1>f. CASE NotifyFail
  BY <1>f, SMTT(60) DEF NotifyFail
<1>11. CASE WriteBlockDead
  BY <1>11, ZenonT(60) DEF WriteBlockDead
<1>12. CASE WriteIndexDead
  BY <1>12, SMTT(60) DEF WriteIndexDead
<1>13. CASE WriteFail
  BY <1>13, Zenon DEF WriteFail, IsFree
<1>14. CASE FreeBlocks
  BY <1>14, ZenonT(60) DEF FreeBlocks
<1>15. CASE WriterCrash
  BY <1>15, SMTT(60) DEF WriterCrash, Abandon
<1>16. CASE ReadBegin
  BY <1>16, SMTT(60) DEF ReadBegin
<1>17. CASE ReadBusy
  BY <1>17, Zenon DEF ReadBusy
<1>18. CASE ReadLock
  BY <1>18, Zenon DEF ReadLock
<1>19. CASE ReadEmpty
  BY <1>19, Zenon DEF ReadEmpty
<1>20. CASE ReadCheck
  BY <1>20, Zenon DEF ReadCheck
<1>21. CASE ReadCallback
  BY <1>21, ZenonT(60) DEF ReadCallback
<1>22. CASE ReadConsume
  <2>1. ~closed => delivered < sent
    BY <1>22, HeadOfQueue, Zenon DEF ReadConsume
  <2>. QED
    BY <1>22, <2>1, SMTT(60) DEF ReadConsume
<1>23. CASE ReadIndex
  BY <1>23, SMTT(60) DEF ReadIndex, RequestCleanup
<1>24. CASE ReadBlockDead
  BY <1>24, Zenon DEF ReadBlockDead
<1>25. CASE ReadIndexDead
  BY <1>25, Zenon DEF ReadIndexDead
<1>26. CASE ReadFail
  BY <1>26, Zenon DEF ReadFail
<1>27. CASE ReaderCrash
  BY <1>27, Zenon DEF ReaderCrash, Abandon
<1>28. CASE UNCHANGED vars
  BY <1>28, Zenon
<1>. QED
  BY <1>1, <1>2, <1>3, <1>4, <1>5, <1>6, <1>7, <1>8, <1>9, <1>10, <1>11,
     <1>12, <1>13, <1>14, <1>15, <1>16, <1>17, <1>18, <1>19, <1>20, <1>21,
     <1>22, <1>23, <1>24, <1>25, <1>26, <1>27, <1>28, <1>f, ZenonT(60)
  DEF Next, Writer, Reader

(* WriteFill makes the block at wpos the newest one. *)
LEMMA RingFill ==
  ASSUME IInv, WriteFill
  PROVE  Ring'
<1>1. /\ ~closed /\ closed' = closed /\ wblk = wpos /\ wpos' = wpos
      /\ sent' = sent + 1 /\ delivered' = delivered /\ wpc = "locked" /\ wpc' = "publish"
      /\ rpc' = rpc /\ rpos' = rpos /\ rblk' = rblk /\ got' = got
  BY Zenon DEF WriteFill, IInv, Counting, Ring, Writing, indexVars, readerVars
<1>2. PICK w \in Blocks : Window(w) /\ Positions(w)
  BY <1>1, Zenon DEF IInv, Ring
<1>3. w = wpos /\ Succ(w) \in Blocks
  BY <1>1, <1>2, SuccType, Zenon DEF Positions, WriterActive, NextWrite
<1>4. Window(Succ(w))'
  BY <1>1, <1>2, <1>3, WindowFill, Zenon DEF WriteFill, IInv
<1>5. sent < delivered + Slots
  BY <1>1, RoomWhenFree, Zenon DEF WriteFill
<1>6. ASSUME ReaderActive
      PROVE  NextRead + sent + 1 \in {Succ(w) + delivered, Succ(w) + delivered + Slots}
  <2>1. NextRead \in Blocks
    BY SuccType, Zenon DEF NextRead, IInv, Types
  <2>2. NextRead + sent \in {w + delivered, w + delivered + Slots}
    BY <1>2, <1>6, Zenon DEF Positions
  <2>. QED
    BY <1>5, <2>1, <2>2, SlotsAssumption DEF Succ, Blocks, IInv, Types
<1>7. NextRead \in Nat /\ sent \in Nat /\ NextRead' = NextRead
  BY <1>1, SuccType, SlotsAssumption DEF NextRead, IInv, Types, Blocks, Succ
<1>8. Positions(Succ(w))'
  BY <1>1, <1>3, <1>6, <1>7 DEF Positions, NextWrite, ReaderActive, Succ
<1>9. \A b \in Blocks : (sizeData[b] # 0 <=> content[b] > delivered)'
  <2>1. wsize # 0 /\ wblk \in Blocks
    BY <1>1, Zenon DEF IInv, Types, Writing
  <2>2. /\ sizeData' = [sizeData EXCEPT ![wblk] = wsize]
        /\ content' = [content EXCEPT ![wblk] = sent + 1]
    BY Zenon DEF WriteFill, MarkUsed
  <2>3. /\ sizeData \in [Blocks -> Sizes \cup {0}] /\ content \in [Blocks -> Nat]
        /\ sent \in Nat /\ delivered \in Nat /\ delivered <= sent
    BY Zenon DEF IInv, Types, Counting
  <2>4. \A b \in Blocks : sizeData[b] # 0 <=> content[b] > delivered
    BY <1>1, Zenon DEF IInv, Ring
  <2>. QED
    BY <1>1, <2>1, <2>2, <2>3, <2>4
<1>10. rpc = "consume" => got = delivered + 1
  BY <1>1, Zenon DEF IInv, Ring
<1>11. rpc \in Reading => rblk = rpos
  BY <1>1, Zenon DEF IInv, Ring
<1>. QED
  BY <1>1, <1>3, <1>4, <1>8, <1>9, <1>10, <1>11, Zenon DEF Ring, Writing

(* The callback is handed the oldest unread message. *)
LEMMA RingCallback ==
  ASSUME IInv, ReadCallback
  PROVE  Ring'
<1>. SUFFICES ASSUME ~closed' PROVE Ring'
  BY Zenon DEF Ring
<1>1. ~closed /\ rpc = "resolve" /\ rpc' = "consume"
  BY Zenon DEF ReadCallback, ghostVars
<1>2. got' = delivered + 1 /\ rblk = rpos
  BY <1>1, HeadOfQueue, Zenon DEF ReadCallback, Reading
<1>3. UNCHANGED <<blockVars, indexVars, writerVars, rblk, ghostVars>>
  BY Zenon DEF ReadCallback
<1>. QED
  BY <1>1, <1>2, <1>3, Zenon
     DEF IInv, Ring, Window, Positions, NextWrite, NextRead, WriterActive, ReaderActive,
         blockVars, indexVars, writerVars, ghostVars

(* ReadConsume takes the oldest unread message off the ring. *)
LEMMA RingConsume ==
  ASSUME IInv, ReadConsume
  PROVE  Ring'
<1>. SUFFICES ASSUME ~closed' PROVE Ring'
  BY Zenon DEF Ring
<1>1. /\ ~closed /\ wpos' = wpos /\ wpc' = wpc /\ wblk' = wblk /\ rpos' = rpos
      /\ sent' = sent /\ delivered' = delivered + 1 /\ rpc = "consume" /\ rpc' = "index"
      /\ content' = content /\ sizeData' = [sizeData EXCEPT ![rblk] = 0]
  BY Zenon DEF ReadConsume, indexVars, writerVars
<1>2. /\ delivered < sent /\ rblk = rpos /\ content[rpos] = delivered + 1
      /\ \A b \in Blocks : content[b] = delivered + 1 => b = rpos
  BY <1>1, HeadOfQueue, Zenon DEF Reading
<1>3. PICK w \in Blocks : Window(w) /\ Positions(w)
  BY <1>1, Zenon DEF IInv, Ring
<1>4. /\ content \in [Blocks -> Nat] /\ sizeData \in [Blocks -> Sizes \cup {0}]
      /\ rpos \in Blocks /\ sent \in Nat /\ delivered \in Nat
  BY Zenon DEF IInv, Types
<1>5. rpos + sent \in {w + delivered, w + delivered + Slots}
  BY <1>1, <1>3, Zenon DEF Positions, ReaderActive, NextRead
<1>6. Succ(rpos) + sent \in {w + delivered + 1, w + delivered + 1 + Slots}
  BY <1>2, <1>4, <1>5, SlotsAssumption, SMTT(60) DEF Succ, Blocks
<1>7. Window(w)'
  BY <1>1, <1>3, Zenon DEF Window
<1>8. WriterActive' => w = NextWrite'
  BY <1>1, <1>3, Zenon DEF Positions, WriterActive, NextWrite
<1>9. NextRead' = Succ(rpos)
  BY <1>1, Zenon DEF NextRead, Succ
<1>10. NextRead' + sent' \in {w + delivered', w + delivered' + Slots}
  BY <1>1, <1>4, <1>6, <1>9, SlotsAssumption DEF Blocks
<1>11. Positions(w)'
  BY <1>8, <1>10, Zenon DEF Positions
<1>12. \A b \in Blocks : (sizeData[b] # 0 <=> content[b] > delivered)'
  <2>1. \A b \in Blocks : sizeData[b] # 0 <=> content[b] > delivered
    BY <1>1, Zenon DEF IInv, Ring
  <2>. QED
    BY <1>1, <1>2, <1>4, <2>1, SMTT(60)
<1>13. wpc \in Writing => wblk = wpos
  BY <1>1, Zenon DEF IInv, Ring
<1>. QED
  BY <1>1, <1>7, <1>11, <1>12, <1>13, Zenon DEF Ring, Reading

(* The ring moves on with WriteFill, which makes the next block the newest,  *)
(* and with ReadConsume, which takes the oldest unread message off.          *)
LEMMA RingStep ==
  ASSUME IInv, [Next]_vars
  PROVE  Ring'
<1>. USE SlotsAssumption DEF IInv, Types, Counting, Ring, Window, Positions, Garbage, Blocks,
           Writing, Reading, NextRead, NextWrite, WriterActive, ReaderActive,
           vars, blockVars, allocVars, indexVars, writerVars, readerVars, ghostVars
<1>1. CASE WriteBegin
  BY <1>1, Zenon DEF WriteBegin
<1>2. CASE CleanupSkip
  BY <1>2, Zenon DEF CleanupSkip, CleanupNext
<1>3. CASE CleanupLock
  BY <1>3, Zenon DEF CleanupLock
<1>4. CASE CleanupFree
  BY <1>4, CleanupFreeKeepsSizes, ZenonT(60) DEF CleanupFree, CleanupNext
<1>5. CASE WriteBusy
  BY <1>5, Zenon DEF WriteBusy
<1>6. CASE WriteLock
  BY <1>6, ZenonT(60) DEF WriteLock
<1>7. CASE WriteFull
  BY <1>7, Zenon DEF WriteFull, IsFree
<1>8. CASE WriteFill
  BY <1>8, RingFill, ZenonT(60)
<1>9. CASE WritePublish
  BY <1>9, Zenon DEF WritePublish, CountEntry
<1>10. CASE WriteNotify
  BY <1>10, Zenon DEF WriteNotify
<1>f. CASE NotifyFail
  BY <1>f, ZenonT(60) DEF NotifyFail
<1>11. CASE WriteBlockDead
  BY <1>11, ZenonT(60) DEF WriteBlockDead
<1>12. CASE WriteIndexDead
  BY <1>12, Zenon DEF WriteIndexDead
<1>13. CASE WriteFail
  BY <1>13, ZenonT(60) DEF WriteFail, IsFree
<1>14. CASE FreeBlocks
  BY <1>14, ZenonT(60) DEF FreeBlocks
<1>15. CASE WriterCrash
  BY <1>15, Zenon DEF WriterCrash, Abandon
<1>16. CASE ReadBegin
  BY <1>16, ZenonT(60) DEF ReadBegin
<1>17. CASE ReadBusy
  BY <1>17, Zenon DEF ReadBusy
<1>18. CASE ReadLock
  BY <1>18, ZenonT(60) DEF ReadLock
<1>19. CASE ReadEmpty
  BY <1>19, SMTT(60) DEF ReadEmpty
<1>20. CASE ReadCheck
  BY <1>20, ZenonT(60) DEF ReadCheck
<1>21. CASE ReadCallback
  BY <1>21, RingCallback, Zenon
<1>22. CASE ReadConsume
  BY <1>22, RingConsume, Zenon
<1>23. CASE ReadIndex
  BY <1>23, Zenon DEF ReadIndex, RequestCleanup
<1>24. CASE ReadBlockDead
  BY <1>24, Zenon DEF ReadBlockDead
<1>25. CASE ReadIndexDead
  BY <1>25, Zenon DEF ReadIndexDead
<1>26. CASE ReadFail
  BY <1>26, Zenon DEF ReadFail
<1>27. CASE ReaderCrash
  BY <1>27, Zenon DEF ReaderCrash, Abandon
<1>28. CASE UNCHANGED vars
  BY <1>28, ZenonT(60)
<1>. QED
  BY <1>1, <1>2, <1>3, <1>4, <1>5, <1>6, <1>7, <1>8, <1>9, <1>10, <1>11,
     <1>12, <1>13, <1>14, <1>15, <1>16, <1>17, <1>18, <1>19, <1>20, <1>21,
     <1>22, <1>23, <1>24, <1>25, <1>26, <1>27, <1>28, <1>f, ZenonT(60)
  DEF Next, Writer, Reader

(* No block and no message handed over has a number that was not written. *)
LEMMA BoundsStep ==
  ASSUME IInv, [Next]_vars
  PROVE  Bounds'
<1>. USE DEF IInv, Types, Bounds, Garbage, ghostVars
<1>1. CASE WriteFill
  BY <1>1, SMTT(60) DEF WriteFill, MarkUsed, Counting, readerVars
<1>2. CASE CleanupFree
  BY <1>2, CleanupFreeKeepsSizes, Zenon DEF CleanupFree, readerVars
<1>3. CASE FreeBlocks
  BY <1>3, ZenonT(60) DEF FreeBlocks, Ring, readerVars
<1>4. CASE ReadCallback
  <2>1. got' <= sent
    BY <1>4, SMTT(60) DEF ReadCallback
  <2>2. closed => got' = Garbage
    BY <1>4, Zenon DEF ReadCallback
  <2>. QED
    BY <1>4, <2>1, <2>2, Zenon DEF ReadCallback, blockVars
<1>5. CASE ReadConsume
  BY <1>5, Zenon DEF ReadConsume
<1>6. CASE /\ UNCHANGED <<sizeData, content, cleanup, ghostVars, got>>
           /\ rpc' = "consume" => rpc = "consume"
  BY <1>6, Zenon
<1>. QED
  BY <1>1, <1>2, <1>3, <1>4, <1>5, <1>6, Frame, ZenonT(60)

(* A block loses its cleanup flag when it is filled. *)
LEMMA CleanupKeepsUnreadStep ==
  ASSUME IInv, [Next]_vars
  PROVE  CleanupKeepsUnread'
<1>. USE DEF IInv, Types, CleanupKeepsUnread
<1>1. CASE WriteFill
  BY <1>1, Zenon DEF WriteFill, MarkUsed
<1>2. CASE CleanupFree
  BY <1>2, CleanupFreeKeepsSizes, ZenonT(60) DEF CleanupFree
<1>3. CASE FreeBlocks
  BY <1>3, ZenonT(60) DEF FreeBlocks
<1>4. CASE ReadCallback
  BY <1>4, Zenon DEF ReadCallback, blockVars
<1>5. CASE ReadConsume
  BY <1>5, Zenon DEF ReadConsume
<1>6. CASE UNCHANGED <<sizeData, content, cleanup, ghostVars, got>>
  BY <1>6, Zenon
<1>. QED
  BY <1>1, <1>2, <1>3, <1>4, <1>5, <1>6, Frame, Zenon

(* Locks are taken only when free and released by their holder. *)
LEMMA BlockExclusionStep ==
  ASSUME IInv, [Next]_vars
  PROVE  BlockExclusion'
<1>. USE DEF IInv, Types, BlockExclusion, Blocks, WriterActive, ReaderActive,
           vars, blockVars, allocVars, indexVars, writerVars, readerVars, ghostVars
<1>1. CASE WriteBegin
  BY <1>1, Zenon DEF WriteBegin
<1>2. CASE CleanupSkip
  BY <1>2, Zenon DEF CleanupSkip, CleanupNext
<1>3. CASE CleanupLock
  BY <1>3, Zenon DEF CleanupLock
<1>4. CASE CleanupFree
  BY <1>4, Zenon DEF CleanupFree, CleanupNext
<1>5. CASE WriteBusy
  BY <1>5, ZenonT(60) DEF WriteBusy
<1>6. CASE WriteLock
  BY <1>6, Zenon DEF WriteLock
<1>7. CASE WriteFull
  BY <1>7, Zenon DEF WriteFull, IsFree
<1>8. CASE WriteFill
  BY <1>8, ZenonT(60) DEF WriteFill, MarkUsed, IsFree
<1>9. CASE WritePublish
  BY <1>9, Zenon DEF WritePublish, CountEntry
<1>10. CASE WriteNotify
  BY <1>10, Zenon DEF WriteNotify
<1>f. CASE NotifyFail
  BY <1>f, ZenonT(60) DEF NotifyFail
<1>11. CASE WriteBlockDead
  BY <1>11, ZenonT(60) DEF WriteBlockDead
<1>12. CASE WriteIndexDead
  BY <1>12, Zenon DEF WriteIndexDead
<1>13. CASE WriteFail
  BY <1>13, ZenonT(60) DEF WriteFail, IsFree
<1>14. CASE FreeBlocks
  BY <1>14, Zenon DEF FreeBlocks
<1>15. CASE WriterCrash
  BY <1>15, Zenon DEF WriterCrash, Abandon
<1>16. CASE ReadBegin
  BY <1>16, Zenon DEF ReadBegin
<1>17. CASE ReadBusy
  BY <1>17, Zenon DEF ReadBusy
<1>18. CASE ReadLock
  BY <1>18, Zenon DEF ReadLock
<1>19. CASE ReadEmpty
  BY <1>19, ZenonT(60) DEF ReadEmpty
<1>20. CASE ReadCheck
  BY <1>20, Zenon DEF ReadCheck
<1>21. CASE ReadCallback
  BY <1>21, Zenon DEF ReadCallback
<1>22. CASE ReadConsume
  BY <1>22, Zenon DEF ReadConsume
<1>23. CASE ReadIndex
  BY <1>23, Zenon DEF ReadIndex, RequestCleanup
<1>24. CASE ReadBlockDead
  BY <1>24, Zenon DEF ReadBlockDead
<1>25. CASE ReadIndexDead
  BY <1>25, Zenon DEF ReadIndexDead
<1>26. CASE ReadFail
  BY <1>26, Zenon DEF ReadFail
<1>27. CASE ReaderCrash
  BY <1>27, Zenon DEF ReaderCrash, Abandon
<1>28. CASE UNCHANGED vars
  BY <1>28, Zenon
<1>. QED
  BY <1>1, <1>2, <1>3, <1>4, <1>5, <1>6, <1>7, <1>8, <1>9, <1>10, <1>11,
     <1>12, <1>13, <1>14, <1>15, <1>16, <1>17, <1>18, <1>19, <1>20, <1>21,
     <1>22, <1>23, <1>24, <1>25, <1>26, <1>27, <1>28, <1>f, ZenonT(60)
  DEF Next, Writer, Reader

(* The pass skips only blocks which are not flagged: the reader holds the    *)
(* block of an unread message.                                               *)
LEMMA CleanupNotLostStep ==
  ASSUME IInv, [Next]_vars
  PROVE  CleanupNotLost'
<1>. USE SlotsAssumption DEF IInv, Types, CleanupNotLost, Blocks, WriterActive, ReaderActive,
           vars, blockVars, allocVars, indexVars, writerVars, readerVars, ghostVars
<1>1. CASE WriteBegin
  BY <1>1, SMTT(60) DEF WriteBegin
<1>2. CASE CleanupSkip
  <2>. SUFFICES ASSUME ReaderActive PROVE CleanupNotLost'
    BY <1>2, Zenon DEF CleanupSkip
  <2>1. ~closed /\ wi = rblk /\ rpc \in Reading
    BY <1>2, Zenon DEF CleanupSkip, BlockExclusion, Counting, Reading
  <2>2. ~cleanup[wi]
    BY <2>1, HeadOfQueue, ZenonT(60) DEF CleanupKeepsUnread
  <2>. QED
    BY <1>2, <2>2, SMTT(60) DEF CleanupSkip, CleanupNext
<1>3. CASE CleanupLock
  BY <1>3, Zenon DEF CleanupLock
<1>4. CASE CleanupFree
  <2>1. CASE cleanup[wi]
    <3>1. cleanup' = [cleanup EXCEPT ![wi] = FALSE]
      BY <1>4, <2>1, Zenon DEF CleanupFree
    <3>2. \A b \in Blocks : cleanup'[b] => cleanup[b] /\ b # wi
      BY <3>1, Zenon
    <3>. QED
      BY <1>4, <3>2, SMTT(60) DEF CleanupFree, CleanupNext
  <2>2. CASE ~cleanup[wi]
    BY <1>4, <2>2, SMTT(60) DEF CleanupFree, CleanupNext
  <2>. QED
    BY <2>1, <2>2, ZenonT(60)
<1>5. CASE WriteBusy
  BY <1>5, Zenon DEF WriteBusy
<1>6. CASE WriteLock
  BY <1>6, Zenon DEF WriteLock
<1>7. CASE WriteFull
  BY <1>7, Zenon DEF WriteFull, IsFree
<1>8. CASE WriteFill
  BY <1>8, ZenonT(60) DEF WriteFill, MarkUsed, IsFree
<1>9. CASE WritePublish
  BY <1>9, Zenon DEF WritePublish, CountEntry
<1>10. CASE WriteNotify
  BY <1>10, Zenon DEF WriteNotify
<1>f. CASE NotifyFail
  BY <1>f, ZenonT(60) DEF NotifyFail
<1>11. CASE WriteBlockDead
  BY <1>11, Zenon DEF WriteBlockDead
<1>12. CASE WriteIndexDead
  BY <1>12, Zenon DEF WriteIndexDead
<1>13. CASE WriteFail
  BY <1>13, Zenon DEF WriteFail, IsFree
<1>14. CASE FreeBlocks
  BY <1>14, Zenon DEF FreeBlocks
<1>15. CASE WriterCrash
  BY <1>15, Zenon DEF WriterCrash, Abandon
<1>16. CASE ReadBegin
  BY <1>16, Zenon DEF ReadBegin
<1>17. CASE ReadBusy
  BY <1>17, Zenon DEF ReadBusy
<1>18. CASE ReadLock
  BY <1>18, Zenon DEF ReadLock
<1>19. CASE ReadEmpty
  BY <1>19, Zenon DEF ReadEmpty
<1>20. CASE ReadCheck
  BY <1>20, Zenon DEF ReadCheck
<1>21. CASE ReadCallback
  BY <1>21, Zenon DEF ReadCallback
<1>22. CASE ReadConsume
  BY <1>22, Zenon DEF ReadConsume
<1>23. CASE ReadIndex
  BY <1>23, Zenon DEF ReadIndex, RequestCleanup
<1>24. CASE ReadBlockDead
  BY <1>24, Zenon DEF ReadBlockDead
<1>25. CASE ReadIndexDead
  BY <1>25, Zenon DEF ReadIndexDead
<1>26. CASE ReadFail
  BY <1>26, Zenon DEF ReadFail
<1>27. CASE ReaderCrash
  BY <1>27, Zenon DEF ReaderCrash, Abandon
<1>28. CASE UNCHANGED vars
  BY <1>28, Zenon
<1>. QED
  BY <1>1, <1>2, <1>3, <1>4, <1>5, <1>6, <1>7, <1>8, <1>9, <1>10, <1>11,
     <1>12, <1>13, <1>14, <1>15, <1>16, <1>17, <1>18, <1>19, <1>20, <1>21,
     <1>22, <1>23, <1>24, <1>25, <1>26, <1>27, <1>28, <1>f, ZenonT(60)
  DEF Next, Writer, Reader

-----------------------------------------------------------------------------
(* The theorems                                                            *)

(* The invariant holds initially. *)
LEMMA IInvInit == Init => IInv
<1>. SUFFICES ASSUME Init PROVE IInv
  BY Zenon
<1>. USE SlotsAssumption, MaxMsgsAssumption DEF Init
<1>1. Types
  <2>1. isShm \in [Blocks -> BOOLEAN] /\ cleanup \in [Blocks -> BOOLEAN]
    BY Zenon
  <2>2. 0 \in Blocks
    BY DEF Blocks
  <2>. QED
    BY <2>1, <2>2, Zenon DEF Types, Garbage, Writing
<1>2. Counting /\ Bounds /\ CleanupKeepsUnread /\ BlockExclusion /\ CleanupNotLost
  BY DEF Counting, Bounds, CleanupKeepsUnread, BlockExclusion, CleanupNotLost, Blocks,
         Writing, Reading, Unpublished, Unnotified, Unindexed, Garbage, WriterActive,
         ReaderActive
<1>3. Window(0) /\ Positions(0)
  BY DEF Window, Age, Positions, NextRead, NextWrite, Garbage, Blocks
<1>4. Ring
  BY <1>3 DEF Ring, Blocks, Garbage, Writing, Reading
<1>. QED
  BY <1>1, <1>2, <1>4, Zenon DEF IInv

(* Every step, including the failures and the death of either process, *)
(* preserves the invariant.                                            *)
LEMMA IInvStep == IInv /\ [Next]_vars => IInv'
BY TypesStep, CountingStep, RingStep, BoundsStep, CleanupKeepsUnreadStep,
   BlockExclusionStep, CleanupNotLostStep, Zenon DEF IInv

THEOREM InductiveInvariant == Spec => []IInv
BY IInvInit, IInvStep, PTL DEF Spec

(* The variables keep their types and the counters their bounds: the entry *)
(* count and the pending events never exceed the slots by more than the    *)
(* one entry the reader is about to account for.                           *)
THEOREM TypeCorrect == Spec => []TypeOK
<1>1. IInv => TypeOK
  BY SlotsAssumption, MaxMsgsAssumption, SMTT(60)
     DEF IInv, Types, TypeOK, Counting, Bounds, Blocks, Unpublished, Unnotified
<1>. QED
  BY <1>1, InductiveInvariant, PTL

(* The cleanup pass of the writer never throws away an unread message. *)
THEOREM CleanupIsSafe == Spec => []CleanupKeepsUnread
BY InductiveInvariant, PTL DEF IInv

(* A request of the reader to release a large block is never lost. *)
THEOREM CleanupIsComplete == Spec => []CleanupNotLost
BY InductiveInvariant, PTL DEF IInv

(* Block locks exclude the two processes from each other. *)
THEOREM Exclusion == Spec => []BlockExclusion
BY InductiveInvariant, PTL DEF IInv

(* The callback is handed the next message, unless the ring is released. *)
LEMMA RightMessage ==
  ASSUME IInv, rpc = "consume"
  PROVE  got = delivered + 1 \/ (closed /\ got = Garbage)
<1>1. CASE closed
  BY <1>1, Zenon DEF IInv, Bounds
<1>2. CASE ~closed
  BY <1>2, Zenon DEF IInv, Ring
<1>. QED
  BY <1>1, <1>2, Zenon

(* The channel implements the abstract queue: each message written is      *)
(* delivered at most once and in order, and never more than Slots messages *)
(* are on their way.                                                       *)
THEOREM Refinement == Spec => ImplementsMessageChannel
<1>1. Init => Abstract!AInit
  BY Zenon DEF Init, Abstract!AInit, Garbage, Abstract!Garbage
<1>2. ASSUME IInv, [Next]_vars
      PROVE  [Abstract!ANext]_(Abstract!avars)
  <2>. USE DEF Abstract!ANext, Abstract!avars, ghostVars
  <2>1. CASE WriteFill
    <3>1. ~closed /\ sent < delivered + Slots
      BY <1>2, <2>1, RoomWhenFree, Zenon DEF WriteFill, IInv, Counting
    <3>. QED
      BY <2>1, <3>1, Zenon DEF WriteFill, Abstract!Put
  <2>2. CASE ReadConsume
    <3>1. delivered < sent
      BY <1>2, <2>2, SMTT(60)
         DEF ReadConsume, IInv, Types, Counting, Reading, ReaderActive, Unpublished,
             Unnotified, Unindexed
    <3>2. got = delivered + 1 \/ (closed /\ got = Garbage)
      BY <1>2, <2>2, RightMessage, Zenon DEF ReadConsume
    <3>. QED
      BY <2>2, <3>1, <3>2, Zenon DEF ReadConsume, Abstract!Get, Garbage, Abstract!Garbage
  <2>3. CASE FreeBlocks
    BY <1>2, <2>3, Zenon DEF FreeBlocks, Abstract!Close, IInv, Counting
  <2>4. CASE CleanupFree \/ ReadCallback \/ UNCHANGED ghostVars
    BY <2>4, Zenon DEF CleanupFree, ReadCallback
  <2>. QED
    BY <1>2, <2>1, <2>2, <2>3, <2>4, Frame, Zenon
<1>. QED
  BY <1>1, <1>2, InductiveInvariant, PTL
     DEF Spec, ImplementsMessageChannel, Abstract!ASpec

-----------------------------------------------------------------------------
(* The entry count of the channel agrees with the blocks in use. *)

OccupiedBlocks == {b \in Blocks : sizeData[b] # 0}

\* As many blocks are in use as there are messages on their way
Occupancy == ~closed => Occupied + delivered = sent

(* The set of occupied blocks is finite. *)
LEMMA OccupiedFinite ==
  IsFiniteSet(OccupiedBlocks) /\ Cardinality(OccupiedBlocks) \in Nat
<1>1. IsFiniteSet(Blocks)
  BY SlotsAssumption, FS_Interval DEF Blocks
<1>. QED
  BY <1>1, FS_Subset, FS_CardinalityType, Zenon DEF OccupiedBlocks

(* WriteFill occupies one block more, ReadConsume one less. *)
LEMMA OccupancyStep ==
  ASSUME IInv, Occupancy, [Next]_vars
  PROVE  Occupancy'
<1>. USE DEF Occupancy, Occupied
<1>1. CASE WriteFill
  <2>1. wblk \in Blocks /\ wblk \notin OccupiedBlocks /\ wsize # 0
    BY <1>1, Zenon DEF WriteFill, IsFree, OccupiedBlocks, IInv, Types, Writing
  <2>2. OccupiedBlocks' = OccupiedBlocks \cup {wblk}
    BY <1>1, <2>1, Zenon DEF WriteFill, MarkUsed, OccupiedBlocks, IInv, Types
  <2>3. Cardinality(OccupiedBlocks') = Cardinality(OccupiedBlocks) + 1
    BY <2>1, <2>2, OccupiedFinite, FS_AddElement, Zenon
  <2>4. ~closed' => ~closed /\ sent' = sent + 1 /\ delivered' = delivered
    BY <1>1, Zenon DEF WriteFill
  <2>. QED
    BY <2>3, <2>4, OccupiedFinite, SMTT(60) DEF OccupiedBlocks, IInv, Types
<1>2. CASE ReadConsume
  <2>. SUFFICES ASSUME ~closed' PROVE Occupancy'
    BY Zenon
  <2>1. ~closed /\ sent' = sent /\ delivered' = delivered + 1
    BY <1>2, Zenon DEF ReadConsume
  <2>2. rblk \in OccupiedBlocks
    BY <1>2, <2>1, HeadOfQueue, Zenon DEF ReadConsume, OccupiedBlocks, Reading, IInv, Types
  <2>3. OccupiedBlocks' = OccupiedBlocks \ {rblk}
    BY <1>2, Zenon DEF ReadConsume, OccupiedBlocks, IInv, Types
  <2>4. Cardinality(OccupiedBlocks') = Cardinality(OccupiedBlocks) - 1
    BY <2>2, <2>3, OccupiedFinite, FS_RemoveElement, Zenon
  <2>. QED
    BY <2>1, <2>4, OccupiedFinite DEF OccupiedBlocks, IInv, Types
<1>3. CASE FreeBlocks
  <2>1. closed' \/ UNCHANGED <<sizeData, closed, sent, delivered>>
    BY <1>3, Zenon DEF FreeBlocks
  <2>. QED
    BY <2>1, Zenon
<1>4. CASE CleanupFree
  BY <1>4, CleanupFreeKeepsSizes, Zenon DEF CleanupFree, ghostVars
<1>5. CASE ReadCallback
  BY <1>5, Zenon DEF ReadCallback, blockVars, ghostVars
<1>6. CASE UNCHANGED <<sizeData, content, cleanup, ghostVars, got>>
  BY <1>6, Zenon DEF ghostVars
<1>. QED
  BY <1>1, <1>2, <1>3, <1>4, <1>5, <1>6, Frame, ZenonT(60)

(* Entry count, occupied blocks and pending events agree at every step. *)
THEOREM CountsAgree == Spec => []CountsMatch
<1>1. Init => Occupancy
  <2>1. Init => {b \in Blocks : sizeData[b] # 0} = {}
    BY ZenonT(60) DEF Init
  <2>. QED
    BY <2>1, FS_EmptySet DEF Init, Occupancy, Occupied
<1>2. IInv /\ Occupancy /\ [Next]_vars => Occupancy'
  BY OccupancyStep, Zenon
<1>3. IInv /\ Occupancy => CountsMatch
  <2>. SUFFICES ASSUME IInv, Occupancy, WriterActive, ReaderActive PROVE CountsMatch
    BY Zenon DEF CountsMatch
  <2>1. ~closed
    BY Zenon DEF IInv, Counting, WriterActive
  <2>2. Occupied \in Nat /\ Occupied + delivered = sent
    BY <2>1, OccupiedFinite, Zenon DEF Occupancy, Occupied, OccupiedBlocks
  <2>. QED
    BY <2>2 DEF IInv, Types, CountsMatch, Counting, Unpublished, Unnotified, Unindexed
<1>. QED
  BY <1>1, <1>2, <1>3, InductiveInvariant, PTL DEF Spec
=============================================================================
