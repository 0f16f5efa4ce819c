--------------------------- MODULE MessageChannel ---------------------------
(***************************************************************************)
(* What an mmap channel promises to the two processes which use it         *)
(* (src/src/lib/mmap_channel.h): a bounded FIFO between one writer and one *)
(* reader.  Messages are numbered 1, 2, 3, ... in the order in which the   *)
(* writer hands them over, so "the next message" is a number, and a reader *)
(* that lost, repeated or reordered a message would be handed another one. *)
(*                                                                         *)
(* Either process may close the channel when it goes away.  Messages not   *)
(* yet read are then given up, and a read which is in progress at that     *)
(* moment may be handed undefined data (Garbage): the blocks are released  *)
(* without taking their locks.                                             *)
(***************************************************************************)
EXTENDS Naturals

CONSTANT Slots          \* RRR_MMAP_CHANNEL_SLOTS

VARIABLES sent,         \* number of messages handed over by the writer
          delivered,    \* number of messages consumed by the reader
          last,         \* the message consumed last
          closed        \* the writer has released the blocks

avars == <<sent, delivered, last, closed>>

Garbage == 0

AInit == sent = 0 /\ delivered = 0 /\ last = 0 /\ closed = FALSE

Put == /\ ~closed
       /\ sent < delivered + Slots
       /\ sent' = sent + 1
       /\ UNCHANGED <<delivered, last, closed>>

Get == /\ delivered < sent
       /\ delivered' = delivered + 1
       /\ \/ last' = delivered + 1
          \/ closed /\ last' = Garbage
       /\ UNCHANGED <<sent, closed>>

Close == /\ closed' = TRUE
         /\ UNCHANGED <<sent, delivered, last>>

ANext == Put \/ Get \/ Close

ASpec == AInit /\ [][ANext]_avars
=============================================================================
