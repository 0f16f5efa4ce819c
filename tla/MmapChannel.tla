----------------------------- MODULE MmapChannel -----------------------------
(***************************************************************************)
(* The mmap channel of src/src/lib/mmap_channel.c: a ring of blocks in     *)
(* memory shared by a parent process and a forked worker.  One process     *)
(* writes, the other reads.  The ring positions and the entry count are    *)
(* protected by the index lock, every block has a lock of its own, and     *)
(* the two are never held together: a write or a read is a sequence of     *)
(* separate critical sections, and that sequence is what is modelled.      *)
(*                                                                         *)
(* A section under the index lock is one step.  A block lock is only ever  *)
(* tried, so the steps between taking and releasing it are separate: the   *)
(* other process may find it busy.  Sizes are numbers in the unit of the   *)
(* three size limits.  Messages are numbered in the order of writing.      *)
(*                                                                         *)
(* Faults: either process may be killed at any step ("crash"), a write or  *)
(* a read callback, an allocation or an event pass may fail ("error"), and *)
(* the writer may release all blocks because its process ends ("exit").    *)
(* Memory that is attached can be detached: shmdt does not fail.           *)
(***************************************************************************)
EXTENDS Naturals, FiniteSets

CONSTANTS Slots,          \* RRR_MMAP_CHANNEL_SLOTS
          Sizes,          \* sizes of the messages written
          ShmLimit,       \* RRR_MMAP_CHANNEL_SHM_LIMIT
          ShmMinReuse,    \* RRR_MMAP_CHANNEL_SHM_MIN_REUSE_SIZE
          MaxPersistent,  \* RRR_MMAP_CHANNEL_MAX_PERSISTENT_SIZE
          Faults,         \* subset of {"crash", "error", "exit"}
          MaxMsgs         \* bound on the number of messages written

ASSUME SlotsAssumption == Slots \in Nat \ {0}
ASSUME SizesAssumption == Sizes \subseteq Nat \ {0}
ASSUME LimitsAssumption == /\ ShmLimit \in Nat /\ MaxPersistent \in Nat
                           /\ ShmMinReuse \in Nat \ {0}
ASSUME MaxMsgsAssumption == MaxMsgs \in Nat

VARIABLES
  \* struct rrr_mmap_channel_block, one function per field
  sizeData,     \* 0: the block is free
  content,      \* number of the message stored in the block
  capacity,     \* size of the memory allocated for the block, 0: none
  isShm,        \* that memory is a SHM segment (shmid != 0)
  cleanup,      \* block cleanup_needed
  lock,         \* block_lock: "free", its holder, or "dead" (holder died)
  \* struct rrr_mmap_channel
  wpos, rpos, entryCount,
  chanCleanup,  \* channel cleanup_needed
  indexDead,    \* a process died while holding the index lock
  \* locals of rrr_mmap_channel_write_using_callback
  wpc, wblk, wsize, wi,
  \* locals of rrr_mmap_channel_read_with_callback
  rpc, rblk, rclean, got,
  \* DATA_AVAILABLE events passed to the reader and not yet accounted for
  events,
  \* what went in and what came out
  sent, delivered, last, closed

allocVars  == <<capacity, isShm>>
blockVars  == <<sizeData, content, capacity, isShm, cleanup, lock>>
indexVars  == <<wpos, rpos, entryCount, chanCleanup, indexDead>>
writerVars == <<wpc, wblk, wsize, wi>>
readerVars == <<rpc, rblk, rclean, got>>
ghostVars  == <<sent, delivered, last, closed>>
vars == <<blockVars, indexVars, writerVars, readerVars, events, ghostVars>>

Blocks == 0 .. Slots - 1
Garbage == 0

\* Mutant of Succ: the position wraps one slot too late
SuccLate(pos) == IF pos = Slots THEN 0 ELSE pos + 1

\* wpos++ and rpos++ wrap by comparison, not by a modulo
Succ(pos) == IF pos + 1 = Slots THEN 0 ELSE pos + 1

Init == /\ sizeData = [b \in Blocks |-> 0]
        /\ content = [b \in Blocks |-> Garbage]
        /\ capacity = [b \in Blocks |-> 0]
        /\ isShm = [b \in Blocks |-> FALSE]
        /\ cleanup = [b \in Blocks |-> FALSE]
        /\ lock = [b \in Blocks |-> "free"]
        /\ wpos = 0 /\ rpos = 0 /\ entryCount = 0
        /\ chanCleanup = FALSE /\ indexDead = FALSE
        /\ wpc = "idle" /\ wblk = 0 /\ wsize = 0 /\ wi = 0
        /\ rpc = "idle" /\ rblk = 0 /\ rclean = FALSE /\ got = Garbage
        /\ events = 0
        /\ sent = 0 /\ delivered = 0 /\ last = Garbage /\ closed = FALSE

-----------------------------------------------------------------------------
(* The writer: rrr_mmap_channel_write_using_callback                       *)

\* First index section: take over the cleanup request and pick the block
WriteBegin ==
  /\ wpc = "idle" /\ sent < MaxMsgs /\ ~indexDead
  /\ \E s \in Sizes : wsize' = s
  /\ wblk' = wpos
  /\ wi' = 0
  /\ wpc' = IF chanCleanup THEN "cleanup" ELSE "trylock"
  /\ chanCleanup' = FALSE
  /\ UNCHANGED <<blockVars, wpos, rpos, entryCount, indexDead, readerVars,
                 events, ghostVars>>

\* The loop of __rrr_mmap_channel_cleanup goes on with the next block
CleanupNext == IF wi + 1 = Slots
               THEN wi' = 0 /\ wpc' = "trylock"
               ELSE wi' = wi + 1 /\ wpc' = "cleanup"

\* Mutant of CleanupSkip: a busy block is cleaned up all the same
CleanupBusy ==
  /\ wpc = "cleanup" /\ lock[wi] = "reader"
  /\ wpc' = "cleaning"
  /\ UNCHANGED <<blockVars, indexVars, wblk, wsize, wi, readerVars, events, ghostVars>>

\* A block which the reader holds is skipped
CleanupSkip ==
  /\ wpc = "cleanup" /\ lock[wi] = "reader"
  /\ CleanupNext
  /\ UNCHANGED <<blockVars, indexVars, wblk, wsize, readerVars, events, ghostVars>>

CleanupLock ==
  /\ wpc = "cleanup" /\ lock[wi] = "free"
  /\ lock' = [lock EXCEPT ![wi] = "writer"]
  /\ wpc' = "cleaning"
  /\ UNCHANGED <<sizeData, content, allocVars, cleanup, indexVars, wblk, wsize, wi,
                 readerVars, events, ghostVars>>

\* __rrr_mmap_channel_block_free if the reader has asked for it, then unlock
CleanupFree ==
  /\ wpc = "cleaning"
  /\ IF cleanup[wi]
     THEN /\ cleanup' = [cleanup EXCEPT ![wi] = FALSE]
          /\ sizeData' = [sizeData EXCEPT ![wi] = 0]
          /\ capacity' = [capacity EXCEPT ![wi] = 0]
          /\ isShm' = [isShm EXCEPT ![wi] = FALSE]
     ELSE UNCHANGED <<cleanup, sizeData, capacity, isShm>>
  /\ lock' = [lock EXCEPT ![wi] = "free"]
  /\ CleanupNext
  /\ UNCHANGED <<content, indexVars, wblk, wsize, readerVars, events, ghostVars>>

\* Trylock of the block: busy is reported to the caller as a full channel
WriteBusy ==
  /\ wpc = "trylock" /\ lock[wblk] = "reader"
  /\ wpc' = "idle"
  /\ UNCHANGED <<blockVars, indexVars, wblk, wsize, wi, readerVars, events, ghostVars>>

WriteLock ==
  /\ wpc = "trylock" /\ lock[wblk] = "free"
  /\ lock' = [lock EXCEPT ![wblk] = "writer"]
  /\ wpc' = "locked"
  /\ UNCHANGED <<sizeData, content, allocVars, cleanup, indexVars, wblk, wsize, wi,
                 readerVars, events, ghostVars>>

\* Mutant of IsFree: a block is free as long as it has no memory
IsFreeUnused(b) == capacity[b] = 0

\* The reader sets the size to 0 when it is done with the data
IsFree(b) == sizeData[b] = 0

\* The reader is not done with the data of the block
WriteFull ==
  /\ wpc = "locked" /\ ~IsFree(wblk)
  /\ lock' = [lock EXCEPT ![wblk] = "free"]
  /\ wpc' = "idle"
  /\ UNCHANGED <<sizeData, content, allocVars, cleanup, indexVars, wblk, wsize, wi,
                 readerVars, events, ghostVars>>

\* __rrr_mmap_channel_allocate: memory the block already has is used again ...
Reusable(b, s) ==
  /\ s <= capacity[b]
  /\ isShm[b] => s >= ShmMinReuse

\* ... otherwise it is replaced, by a SHM segment if the message is large
NewCapacity(s) == IF s > ShmLimit THEN s - (s % ShmMinReuse) + ShmMinReuse ELSE s

Allocate(b, s) ==
  IF Reusable(b, s)
  THEN UNCHANGED allocVars
  ELSE /\ capacity' = [capacity EXCEPT ![b] = NewCapacity(s)]
       /\ isShm' = [isShm EXCEPT ![b] = s > ShmLimit]

\* Mutant of MarkUsed: the cleanup flag of the previous message stays
MarkUsedFlagged(b, s) == sizeData' = [sizeData EXCEPT ![b] = s] /\ UNCHANGED cleanup

MarkUsed(b, s) == /\ cleanup' = [cleanup EXCEPT ![b] = FALSE]
                  /\ sizeData' = [sizeData EXCEPT ![b] = s]

\* Allocate, let the callback store the message, mark the block used, unlock
WriteFill ==
  /\ wpc = "locked" /\ IsFree(wblk)
  /\ Allocate(wblk, wsize)
  /\ content' = [content EXCEPT ![wblk] = sent + 1]
  /\ MarkUsed(wblk, wsize)
  /\ lock' = [lock EXCEPT ![wblk] = "free"]
  /\ sent' = sent + 1
  /\ wpc' = "publish"
  /\ UNCHANGED <<indexVars, wblk, wsize, wi, readerVars, events, delivered, last, closed>>

\* Allocation failure (the old memory is already gone) or callback failure
WriteFail ==
  /\ "error" \in Faults
  /\ wpc = "locked" /\ IsFree(wblk)
  /\ \/ Allocate(wblk, wsize)
     \/ /\ ~Reusable(wblk, wsize)
        /\ capacity' = [capacity EXCEPT ![wblk] = 0]
        /\ isShm' = [isShm EXCEPT ![wblk] = FALSE]
  /\ lock' = [lock EXCEPT ![wblk] = "free"]
  /\ wpc' = "failed"
  /\ UNCHANGED <<sizeData, content, cleanup, indexVars, wblk, wsize, wi, readerVars,
                 events, ghostVars>>

\* Mutant of CountEntry: the position moves on but the entry is not counted
CountNothing == wpos' = Succ(wpos) /\ UNCHANGED entryCount

CountEntry == entryCount' = entryCount + 1 /\ wpos' = Succ(wpos)

\* Second index section
WritePublish ==
  /\ wpc = "publish" /\ ~indexDead
  /\ CountEntry
  /\ wpc' = "notify"
  /\ UNCHANGED <<blockVars, rpos, chanCleanup, indexDead, wblk, wsize, wi, readerVars,
                 events, ghostVars>>

\* rrr_event_pass(queue_notify, MMAP_CHANNEL_DATA_AVAILABLE, 1)
WriteNotify ==
  /\ wpc = "notify"
  /\ events' = events + 1
  /\ wpc' = "idle"
  /\ UNCHANGED <<blockVars, indexVars, wblk, wsize, wi, readerVars, ghostVars>>

\* The pass fails, or its retries are cancelled: an error is returned although
\* the entry is in the channel
NotifyFail ==
  /\ "error" \in Faults
  /\ wpc = "notify"
  /\ wpc' = "failed"
  /\ UNCHANGED <<blockVars, indexVars, wblk, wsize, wi, readerVars, events, ghostVars>>

\* A lock whose holder died is reported as an error to the one who tries it
\* next, who from then on holds it and never unlocks it
WriteBlockDead ==
  /\ \/ wpc = "trylock" /\ lock[wblk] = "dead" /\ lock' = [lock EXCEPT ![wblk] = "writer"]
     \/ wpc = "cleanup" /\ lock[wi] = "dead" /\ lock' = [lock EXCEPT ![wi] = "writer"]
  /\ wpc' = "failed"
  /\ UNCHANGED <<sizeData, content, allocVars, cleanup, indexVars, wblk, wsize, wi,
                 readerVars, events, ghostVars>>

\* The index lock is unlocked again before the error is reported
WriteIndexDead ==
  /\ wpc \in {"idle", "publish"} /\ indexDead
  /\ indexDead' = FALSE
  /\ wpc' = "failed"
  /\ UNCHANGED <<blockVars, wpos, rpos, entryCount, chanCleanup, wblk, wsize, wi,
                 readerVars, events, ghostVars>>

\* rrr_mmap_channel_writer_free_blocks: no block lock is taken and the entry
\* count is kept; the process aborts if the index lock has no living owner
FreeBlocks ==
  /\ "exit" \in Faults
  /\ wpc \in {"idle", "failed"}
  /\ IF indexDead
     THEN /\ wpc' = "dead" /\ indexDead' = FALSE
          /\ UNCHANGED <<sizeData, allocVars, wpos, rpos, closed>>
     ELSE /\ wpc' = "exited"
          /\ sizeData' = [b \in Blocks |-> 0]
          /\ capacity' = [b \in Blocks |-> 0]
          /\ isShm' = [b \in Blocks |-> FALSE]
          /\ wpos' = 0 /\ rpos' = 0
          /\ closed' = TRUE
          /\ UNCHANGED indexDead
  /\ UNCHANGED <<content, cleanup, lock, entryCount, chanCleanup, wblk, wsize, wi,
                 readerVars, events, sent, delivered, last>>

-----------------------------------------------------------------------------
(* The reader: rrr_mmap_channel_read_with_callback, called again for as    *)
(* long as the data available event has an amount left                     *)

ReadBegin ==
  /\ rpc = "idle" /\ events > 0 /\ ~indexDead
  /\ rblk' = rpos
  /\ rpc' = IF entryCount = 0 THEN "idle" ELSE "trylock"
  /\ UNCHANGED <<blockVars, indexVars, writerVars, rclean, got, events, ghostVars>>

\* Mutant of ReadBusy: the reader goes on with the next block
ReadBusySkips ==
  /\ rpc = "trylock" /\ lock[rblk] = "writer"
  /\ rblk' = Succ(rblk)
  /\ UNCHANGED <<blockVars, indexVars, writerVars, rpc, rclean, got, events, ghostVars>>

\* Trylock of the block: busy is reported to the caller as an empty channel
ReadBusy ==
  /\ rpc = "trylock" /\ lock[rblk] = "writer"
  /\ rpc' = "idle"
  /\ UNCHANGED <<blockVars, indexVars, writerVars, rblk, rclean, got, events, ghostVars>>

ReadLock ==
  /\ rpc = "trylock" /\ lock[rblk] = "free"
  /\ lock' = [lock EXCEPT ![rblk] = "reader"]
  /\ rpc' = "locked"
  /\ UNCHANGED <<sizeData, content, allocVars, cleanup, indexVars, writerVars, rblk,
                 rclean, got, events, ghostVars>>

ReadEmpty ==
  /\ rpc = "locked" /\ sizeData[rblk] = 0
  /\ lock' = [lock EXCEPT ![rblk] = "free"]
  /\ rpc' = "idle"
  /\ UNCHANGED <<sizeData, content, allocVars, cleanup, indexVars, writerVars, rblk,
                 rclean, got, events, ghostVars>>

ReadCheck ==
  /\ rpc = "locked" /\ sizeData[rblk] # 0
  /\ rpc' = "resolve"
  /\ UNCHANGED <<blockVars, indexVars, writerVars, rblk, rclean, got, events, ghostVars>>

\* The pointer is resolved and passed to the callback with size_data, both
\* read from the block once more
ReadCallback ==
  /\ rpc = "resolve"
  /\ got' = IF sizeData[rblk] = 0 THEN Garbage ELSE content[rblk]
  /\ rpc' = "consume"
  /\ UNCHANGED <<blockVars, indexVars, writerVars, rblk, rclean, events, ghostVars>>

\* The callback has succeeded: mark the block free, unlock it
ReadConsume ==
  /\ rpc = "consume"
  /\ rclean' = (capacity[rblk] > MaxPersistent)
  /\ cleanup' = [cleanup EXCEPT ![rblk] = rclean']
  /\ sizeData' = [sizeData EXCEPT ![rblk] = 0]
  /\ lock' = [lock EXCEPT ![rblk] = "free"]
  /\ rpc' = "index"
  /\ delivered' = delivered + 1
  /\ last' = got
  /\ UNCHANGED <<content, allocVars, indexVars, writerVars, rblk, got, events, sent,
                 closed>>

\* The callback or the attach has failed: the block keeps its message
ReadFail ==
  /\ "error" \in Faults
  /\ rpc \in {"resolve", "consume"}
  /\ lock' = [lock EXCEPT ![rblk] = "free"]
  /\ rpc' = "failed"
  /\ UNCHANGED <<sizeData, content, allocVars, cleanup, indexVars, writerVars, rblk,
                 rclean, got, events, ghostVars>>

\* Mutant of RequestCleanup: a request not yet served is overwritten
RequestCleanupOverwrite == chanCleanup' = rclean

RequestCleanup == chanCleanup' = (chanCleanup \/ rclean)

\* Second index section; the event handler then subtracts one from its amount
ReadIndex ==
  /\ rpc = "index" /\ ~indexDead
  /\ RequestCleanup
  /\ entryCount' = entryCount - 1
  /\ rpos' = Succ(rpos)
  /\ events' = events - 1
  /\ rpc' = "idle"
  /\ UNCHANGED <<blockVars, wpos, indexDead, writerVars, rblk, rclean, got, ghostVars>>

ReadBlockDead ==
  /\ rpc = "trylock" /\ lock[rblk] = "dead"
  /\ lock' = [lock EXCEPT ![rblk] = "reader"]
  /\ rpc' = "failed"
  /\ UNCHANGED <<sizeData, content, allocVars, cleanup, indexVars, writerVars, rblk,
                 rclean, got, events, ghostVars>>

ReadIndexDead ==
  /\ rpc \in {"idle", "index"} /\ indexDead
  /\ indexDead' = FALSE
  /\ rpc' = "failed"
  /\ UNCHANGED <<blockVars, wpos, rpos, entryCount, chanCleanup, writerVars, rblk,
                 rclean, got, events, ghostVars>>

-----------------------------------------------------------------------------
(* A process is killed.  The locks it holds are left without an owner.     *)
(* What it had stored inside an index section is not seen by the other     *)
(* process, which fails when it next takes that lock.                      *)

WriterActive == wpc \notin {"failed", "dead", "exited"}
ReaderActive == rpc \notin {"failed", "dead"}

Abandon(self) == lock' = [b \in Blocks |-> IF lock[b] = self THEN "dead" ELSE lock[b]]

WriterCrash ==
  /\ "crash" \in Faults /\ WriterActive
  /\ Abandon("writer")
  /\ indexDead' \in {indexDead, (indexDead \/ wpc \in {"idle", "publish"})}
  /\ wpc' = "dead"
  /\ UNCHANGED <<sizeData, content, allocVars, cleanup, wpos, rpos, entryCount,
                 chanCleanup, wblk, wsize, wi, readerVars, events, ghostVars>>

ReaderCrash ==
  /\ "crash" \in Faults /\ ReaderActive
  /\ Abandon("reader")
  /\ indexDead' \in {indexDead, (indexDead \/ rpc \in {"idle", "index"})}
  /\ rpc' = "dead"
  /\ UNCHANGED <<sizeData, content, allocVars, cleanup, wpos, rpos, entryCount,
                 chanCleanup, writerVars, rblk, rclean, got, events, ghostVars>>

-----------------------------------------------------------------------------
Writer == \/ WriteBegin \/ CleanupSkip \/ CleanupLock \/ CleanupFree
          \/ WriteBusy \/ WriteLock \/ WriteFull \/ WriteFill
          \/ WritePublish \/ WriteNotify \/ WriteBlockDead \/ WriteIndexDead

Reader == \/ ReadBegin \/ ReadBusy \/ ReadLock \/ ReadEmpty \/ ReadCheck
          \/ ReadCallback \/ ReadConsume \/ ReadIndex
          \/ ReadBlockDead \/ ReadIndexDead

Next == \/ Writer \/ WriteFail \/ NotifyFail \/ FreeBlocks \/ WriterCrash
        \/ Reader \/ ReadFail \/ ReaderCrash

Spec == Init /\ [][Next]_vars

\* An attempt to read that starts while the block is not locked
ReadBeginUnlocked == ReadBegin /\ lock[rpos] = "free"

\* A process that is not killed takes its next step.  An attempt to lock a
\* block fails while the other process looks into it, and a writer that finds
\* the channel full looks into the block the reader needs over and over.  It
\* sleeps between its attempts, with the lock released, so the attempts of the
\* two do not coincide forever: that is what strong fairness assumes.
FairSpec == /\ Spec
            /\ WF_vars(Writer) /\ WF_vars(Reader)
            /\ SF_vars(ReadBeginUnlocked) /\ SF_vars(ReadLock)

-----------------------------------------------------------------------------
TypeOK ==
  /\ sizeData \in [Blocks -> Sizes \cup {0}]
  /\ content \in [Blocks -> 0 .. MaxMsgs]
  /\ capacity \in [Blocks -> Nat]
  /\ isShm \in [Blocks -> BOOLEAN]
  /\ cleanup \in [Blocks -> BOOLEAN]
  /\ lock \in [Blocks -> {"free", "writer", "reader", "dead"}]
  /\ wpos \in Blocks /\ rpos \in Blocks
  /\ entryCount \in 0 .. Slots + 1 /\ events \in 0 .. Slots + 1
  /\ chanCleanup \in BOOLEAN /\ indexDead \in BOOLEAN
  /\ wpc \in {"idle", "cleanup", "cleaning", "trylock", "locked", "publish", "notify",
              "failed", "dead", "exited"}
  /\ wblk \in Blocks /\ wi \in Blocks /\ wsize \in Sizes \cup {0}
  /\ rpc \in {"idle", "trylock", "locked", "resolve", "consume", "index", "failed",
              "dead"}
  /\ rblk \in Blocks /\ rclean \in BOOLEAN /\ got \in 0 .. MaxMsgs
  /\ sent \in 0 .. MaxMsgs /\ delivered \in 0 .. MaxMsgs /\ last \in 0 .. MaxMsgs
  /\ closed \in BOOLEAN

\* A block is only flagged for cleanup once its message has been read: the
\* cleanup pass of the writer, which resets size_data, never throws away a
\* message the reader has not seen
CleanupKeepsUnread == \A b \in Blocks : cleanup[b] => sizeData[b] = 0

\* A cleanup request is never lost although the writer clears the channel
\* flag before its pass and skips locked blocks: as long as a block is flagged
\* and both processes work, the channel flag is set, the reader is about to
\* set it, or the pass under way has yet to come to the block
CleanupNotLost ==
  WriterActive /\ ReaderActive =>
    \A b \in Blocks :
      cleanup[b] => \/ chanCleanup
                    \/ rpc = "index" /\ rclean
                    \/ wpc \in {"cleanup", "cleaning"} /\ wi <= b

\* Number of blocks which hold a message
Occupied == Cardinality({b \in Blocks : sizeData[b] # 0})

\* The entry count, kept in index sections apart from the blocks, is the
\* number of occupied blocks up to the write and the read in progress, and
\* the reader has been told of exactly that many entries
CountsMatch ==
  WriterActive /\ ReaderActive =>
    /\ entryCount + (IF wpc = "publish" THEN 1 ELSE 0)
         = Occupied + (IF rpc = "index" THEN 1 ELSE 0)
    /\ events + (IF wpc = "notify" THEN 1 ELSE 0) = entryCount

\* Writer and reader are never inside the same block, and a block lock is
\* held exactly by the process which works on the block
BlockExclusion ==
  /\ WriterActive => \A b \in Blocks :
       lock[b] = "writer" <=> \/ wpc = "cleaning" /\ b = wi
                              \/ wpc = "locked" /\ b = wblk
  /\ ReaderActive => \A b \in Blocks :
       lock[b] = "reader" <=> rpc \in {"locked", "resolve", "consume"} /\ b = rblk

Abstract == INSTANCE MessageChannel

\* The channel is a FIFO queue of at most Slots messages: every message is
\* delivered once, in the order of writing, whatever process is killed or
\* whatever step fails
ImplementsMessageChannel == Abstract!ASpec

\* Every message written is delivered unless a process fails, ends or is
\* killed: no wakeup is lost and a full channel does not block both ends
EventuallyDelivered == <>(delivered = MaxMsgs \/ ~WriterActive \/ ~ReaderActive)

\* The callback of the reader is never passed a block without a message
CallbackGetsMessage == rpc = "consume" => got # Garbage
=============================================================================
