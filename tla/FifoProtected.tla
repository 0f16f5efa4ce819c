---------------------------- MODULE FifoProtected ----------------------------
(***************************************************************************)
(* The FIFO buffer between module threads (src/src/lib/fifo_protected.c),  *)
(* at the level of its pointers.  Writers link entries at the end of the   *)
(* list (rrr_fifo_protected_write) or into a separate write queue          *)
(* (rrr_fifo_protected_write_delayed).  Readers                            *)
(* (rrr_fifo_protected_read_clear_forward) take the first MaxReads entries *)
(* off the list while they hold the write lock, call back for each of them *)
(* without any lock, and put back what is left if the callback stops.      *)
(*                                                                         *)
(* Every section the code runs under the rwlock or a mutex is one step.    *)
(* Entries are numbered in the order they are written.  Ordered writes     *)
(* (RRR_FIFO_PROTECTED_WRITE_ORDERED) are left out: no caller in the       *)
(* repository asks for them.                                               *)
(***************************************************************************)
EXTENDS Integers, FiniteSets, Sequences

CONSTANTS
    Readers,        \* threads that read the buffer
    Setups,         \* who reads, and how much in one call: see setup below
    Delayed,        \* the entries that are written with write_delayed
    MaxMsgs         \* bound: number of entries written

ASSUME FifoAssumption ==
    /\ Setups \subseteq [readers : SUBSET Readers, maxReads : Nat \ {0}]
    /\ MaxMsgs \in Nat
    /\ Delayed \subseteq 1..MaxMsgs

NULL == 0

Entries == 1..MaxMsgs

VARIABLES
    buf,            \* gptr_first, gptr_last, entry_count
    wq,             \* gptr_write_queue_first, _last, write_queue_entry_count
    next,           \* the next pointer of every entry
    alive,          \* entries allocated and not yet freed
    rd,             \* local variables of every reader
    handed,         \* the entries given to a callback, in that order
    written,        \* number of entries written so far
    setup           \* never changes: the threads that read this buffer, and
                    \* RRR_FIFO_PROTECTED_MAX_READS, 500 in the code

MaxReads == setup.maxReads

vars == <<buf, wq, next, alive, rd, handed, written>>

Pointer == Entries \cup {NULL}

List == [first : Pointer, last : Pointer, count : Nat]

EmptyList == [first |-> NULL, last |-> NULL, count |-> 0]

PCs == {"idle", "splice", "loop", "callback", "release", "putback", "count"}

IdleReader ==
    [pc |-> "idle", current |-> NULL, stop |-> NULL, lastElement |-> NULL,
     next |-> NULL, processed |-> 0]

Init ==
    /\ buf = EmptyList
    /\ wq = EmptyList
    /\ next = [e \in Entries |-> NULL]
    /\ alive = {}
    /\ rd = [r \in Readers |-> IdleReader]
    /\ handed = <<>>
    /\ written = 0
    /\ setup \in Setups

-----------------------------------------------------------------------------
(* Writers *)

\* The list after entry e is linked at its end.
Append1(list, e) ==
    [first |-> IF list.first = NULL THEN e ELSE list.first,
     last |-> e, count |-> list.count + 1]

\* The next pointers after that: the old last entry, if any, points to e.
LinkAfter(last, e) ==
    [x \in Entries |-> IF x = e THEN NULL ELSE IF x = last THEN e ELSE next[x]]

Allocate ==
    /\ written < MaxMsgs
    /\ written' = written + 1
    /\ alive' = alive \cup {written + 1}

\* rrr_fifo_protected_write: the section under the write lock.
Write ==
    /\ Allocate
    /\ written' \notin Delayed
    /\ buf' = Append1(buf, written')
    /\ next' = LinkAfter(IF buf.first = NULL THEN NULL ELSE buf.last, written')
    /\ UNCHANGED <<wq, rd, handed>>

\* rrr_fifo_protected_write_delayed: under the write queue mutex only.
WriteDelayed ==
    /\ Allocate
    /\ written' \in Delayed
    /\ wq' = Append1(wq, written')
    /\ next' = LinkAfter(IF wq.first = NULL THEN NULL ELSE wq.last, written')
    /\ UNCHANGED <<buf, rd, handed>>

-----------------------------------------------------------------------------
(* rrr_fifo_protected_read_clear_forward *)

Goto(r, pc) == rd' = [rd EXCEPT ![r].pc = pc]

\* The check before any lock: nothing to read.  An empty buffer leaves the
\* reader where it is.
IsPopulatedDirect == buf.count # 0      \* mutant: the write queue is forgotten

IsPopulated == buf.count # 0 \/ wq.count # 0

ReadStart(r) ==
    /\ rd[r].pc = "idle"
    /\ IsPopulated
    /\ Goto(r, "splice")
    /\ UNCHANGED <<buf, wq, next, alive, handed, written>>

\* __rrr_fifo_write_queue_merge_nolock: the buffer and the next pointers
\* after the write queue is moved to the end of the buffer.
MergedBuf ==
    IF wq.first = NULL THEN buf
    ELSE [first |-> IF buf.last = NULL THEN wq.first ELSE buf.first,
          last |-> wq.last, count |-> buf.count + wq.count]

MergedNext ==
    IF wq.first = NULL \/ buf.last = NULL THEN next
    ELSE [next EXCEPT ![buf.last] = wq.first]

\* The k-th pointer met when the pointers nx are followed from p, NULL
\* when the list ends before.
Follow(nx, p, n) ==
    LET f[k \in 0..n] ==
          IF k = 0 THEN p ELSE IF f[k-1] = NULL THEN NULL ELSE nx[f[k-1]]
    IN f

\* The loop of lines 503-505: where last_element stops.
LastElement(nx, first) == Follow(nx, first, MaxReads - 1)[MaxReads - 1]

\* Take control of the first MaxReads entries, or of all there are.
Splice(r) ==
    LET b == MergedBuf
        nx == MergedNext
        l == LastElement(nx, b.first)
        stop == IF l = NULL THEN NULL ELSE nx[l]
    IN  /\ rd[r].pc = "splice"
        /\ wq' = EmptyList
        /\ next' = nx
        /\ buf' = [first |-> stop,
                   last |-> IF stop = NULL THEN NULL ELSE b.last,
                   count |-> b.count]
        /\ rd' = [rd EXCEPT ![r] =
                    [pc |-> "loop", current |-> b.first, stop |-> stop,
                     lastElement |-> IF l = NULL THEN b.last ELSE l,
                     next |-> NULL, processed |-> 0]]
        /\ UNCHANGED <<alive, handed, written>>

\* while (current != stop), and the read of current->next under the read
\* lock.  The contents of a freed entry are undefined: any pointer.
ReadNext(r) ==
    /\ rd[r].pc = "loop"
    /\ rd[r].current # rd[r].stop
    /\ \E n \in IF rd[r].current \in alive THEN {next[rd[r].current]} ELSE Pointer :
         rd' = [rd EXCEPT ![r].next = n, ![r].pc = "callback"]
    /\ UNCHANGED <<buf, wq, next, alive, handed, written>>

\* The callback takes the message over and returns OK, or it returns STOP or
\* an error, and the loop ends.  No lock of the buffer is held.
Callback(r) ==
    /\ rd[r].pc = "callback"
    /\ handed' = Append(handed, rd[r].current)
    /\ \E to \in {"release", "putback"} :
         rd' = [rd EXCEPT ![r].processed = @ + 1, ![r].pc = to]
    /\ UNCHANGED <<buf, wq, next, alive, written>>

\* The entry is freed under the write lock, and the loop goes on.
Release(r) ==
    /\ rd[r].pc = "release"
    /\ alive' = alive \ {rd[r].current}
    /\ rd' = [rd EXCEPT ![r].current = rd[r].next, ![r].pc = "loop"]
    /\ UNCHANGED <<buf, wq, next, handed, written>>

\* mutants: the rest is dropped, is put back without updating gptr_last, or
\* is put back at the end.
PutBackWith(r, nx, b) ==
    /\ rd[r].pc = "putback"
    /\ IF rd[r].next = NULL THEN UNCHANGED <<buf, next>> ELSE next' = nx /\ buf' = b
    /\ alive' = alive \ {rd[r].current}
    /\ Goto(r, "count")
    /\ UNCHANGED <<wq, handed, written>>

PutBackDropsRest(r) == PutBackWith(r, next, buf)

PutBackKeepsLast(r) ==
    PutBackWith(r, [next EXCEPT ![rd[r].lastElement] = buf.first],
                [buf EXCEPT !.first = rd[r].next])

PutBackAtEnd(r) ==
    IF rd[r].next = rd[r].stop THEN PutBackDropsRest(r)
    ELSE PutBackWith(r,
           [e \in Entries |-> IF e = rd[r].lastElement THEN NULL
                              ELSE IF e = buf.last THEN rd[r].next ELSE next[e]],
           [buf EXCEPT !.first = IF @ = NULL THEN rd[r].next ELSE @,
                       !.last = rd[r].lastElement])

\* The rest goes back to the front of the buffer under the write lock, the
\* entry just handed over is freed, and the loop ends.
PutBack(r) ==
    /\ rd[r].pc = "putback"
    /\ IF rd[r].next = NULL
       THEN UNCHANGED <<buf, next>>
       ELSE /\ next' = [next EXCEPT ![rd[r].lastElement] = buf.first]
            /\ buf' = [buf EXCEPT !.first = rd[r].next,
                                  !.last = IF @ = NULL THEN rd[r].lastElement ELSE @]
    /\ alive' = alive \ {rd[r].current}
    /\ Goto(r, "count")
    /\ UNCHANGED <<wq, handed, written>>

LoopEnd(r) ==
    /\ rd[r].pc = "loop"
    /\ rd[r].current = rd[r].stop
    /\ Goto(r, "count")
    /\ UNCHANGED <<buf, wq, next, alive, handed, written>>

\* mutants: the wrong number is subtracted.
CountBy(r, n) ==
    /\ rd[r].pc = "count"
    /\ buf' = [buf EXCEPT !.count = @ - n]
    /\ rd' = [rd EXCEPT ![r] = IdleReader]
    /\ UNCHANGED <<wq, next, alive, handed, written>>

CountOne(r) == CountBy(r, 1)

CountOneMore(r) == CountBy(r, rd[r].processed + 1)

\* entry_count is lowered only now, after the callbacks.
Count(r) ==
    /\ rd[r].pc = "count"
    /\ buf' = [buf EXCEPT !.count = @ - rd[r].processed]
    /\ rd' = [rd EXCEPT ![r] = IdleReader]
    /\ UNCHANGED <<wq, next, alive, handed, written>>

-----------------------------------------------------------------------------

Reader(r) ==
    \/ ReadStart(r) \/ Splice(r) \/ ReadNext(r) \/ Callback(r)
    \/ Release(r) \/ PutBack(r) \/ LoopEnd(r) \/ Count(r)

Next ==
    /\ UNCHANGED setup
    /\ Write \/ WriteDelayed \/ \E r \in setup.readers : Reader(r)

Spec == Init /\ [][Next]_<<vars, setup>>

\* A reader thread is notified of every message, so it calls again for as
\* long as the buffer is populated; the locks are released between steps.
FairSpec ==
    Spec /\ \A r \in Readers : WF_vars(r \in setup.readers /\ Reader(r) /\ UNCHANGED setup)

-----------------------------------------------------------------------------
(* Properties *)

\* The entries from p on, up to but not including stop.
Segment(p, stop) ==
    LET f[k \in 0..MaxMsgs] ==
          IF k = 0 THEN (IF p = stop THEN NULL ELSE p)
          ELSE IF f[k-1] = NULL \/ next[f[k-1]] = stop THEN NULL ELSE next[f[k-1]]
    IN {f[k] : k \in 0..MaxMsgs} \ {NULL}

InBuffer == Segment(buf.first, NULL)

InWriteQueue == Segment(wq.first, NULL)

\* The entries a reader has taken off the buffer and not yet handed over.
Held(r) ==
    CASE rd[r].pc \in {"loop", "callback"} -> Segment(rd[r].current, rd[r].stop)
      [] rd[r].pc \in {"release", "putback"} -> Segment(rd[r].next, rd[r].stop)
      [] OTHER -> {}

TypeOK ==
    /\ buf \in List /\ wq \in List
    /\ next \in [Entries -> Pointer]
    /\ alive \subseteq Entries
    /\ rd \in [Readers -> [pc : PCs, current : Pointer, stop : Pointer,
                           lastElement : Pointer, next : Pointer, processed : Nat]]
    /\ handed \in Seq(Entries)
    /\ written \in 0..MaxMsgs
    /\ setup \in Setups

Handed == {handed[i] : i \in DOMAIN handed}

Places(e) ==
    {<<"buffer", 0>> : x \in InBuffer \cap {e}}
      \cup {<<"write queue", 0>> : x \in InWriteQueue \cap {e}}
      \cup {<<"reader", r>> : r \in {q \in Readers : e \in Held(q)}}
      \cup {<<"handed over", i>> : i \in {j \in DOMAIN handed : handed[j] = e}}

\* No entry is lost and none is handed over twice: what was written is
\* in exactly one place, the buffer, the write queue, the part that one
\* reader has taken off, or one call of a callback, and what is not handed
\* over is not freed.
OnePlace ==
    \A e \in 1..written :
       /\ Cardinality(Places(e)) = 1
       /\ e \notin Handed => e \in alive

\* gptr_last is the end of the list that starts at gptr_first, after every
\* splice, merge and put-back: a writer never links an entry behind one that
\* was taken or freed.
LastIsEnd ==
    \A list \in {buf, wq} :
       /\ list.first = NULL <=> list.last = NULL
       /\ list.last # NULL =>
            next[list.last] = NULL /\ list.last \in Segment(list.first, NULL)

RECURSIVE SumOver(_, _)
SumOver(f, S) ==
    IF S = {} THEN 0
    ELSE LET x == CHOOSE y \in S : TRUE IN f[x] + SumOver(f, S \ {x})

\* entry_count counts the entries of the buffer and those that readers
\* have taken and not yet accounted for: the subtraction at the end of
\* read_clear_forward cannot underflow (rrr_length_sub_bug), and a count of
\* zero, which makes readers return at once, is only seen when no entry is in
\* the buffer.
CountMatches ==
    buf.count = Cardinality(InBuffer)
                + SumOver([r \in Readers |-> Cardinality(Held(r)) + rd[r].processed], Readers)

\* With a single reader the entries of each kind, direct and delayed, are
\* handed over in the order they were written, also when callbacks stop and
\* the rest is put back.
InOrder ==
    Cardinality(setup.readers) = 1 =>
    \A i, j \in DOMAIN handed :
       i < j /\ (handed[i] \in Delayed <=> handed[j] \in Delayed)
         => handed[i] < handed[j]

\* "taking control of the start of the queue making it inaccessible to
\* others" (the comment above read_clear_forward): what one reader has taken
\* is not in the buffer and not taken by another reader.
Inaccessible ==
    \A r \in Readers :
       /\ Held(r) \cap InBuffer = {}
       /\ \A q \in Readers \ {r} : Held(r) \cap Held(q) = {}

\* Every entry written is handed over at some time.
EventuallyHanded ==
    \A e \in Entries : (e <= written) ~> (e \in Handed)
=============================================================================
