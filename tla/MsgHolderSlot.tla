---------------------------- MODULE MsgHolderSlot ----------------------------
(***************************************************************************)
(* The output of an instance whose buffer is disabled: a slot that holds   *)
(* one entry (src/src/lib/message_holder/message_holder_slot.c), the       *)
(* writes the message broker makes to it and the events it sends to the    *)
(* readers (src/src/lib/message_broker.c).                                 *)
(*                                                                         *)
(* Every section under the lock of the slot is one step; a writer that     *)
(* finds the slot busy sleeps on the condition variable.  A reader polls   *)
(* when it has events, see EventQueue for those.                           *)
(* Entries are numbered in the order they are created.  A poll callback    *)
(* that returns an error ends the reading module and is left out.          *)
(***************************************************************************)
EXTENDS Integers, Sequences, SequencesExt, FiniteSetsExt

CONSTANTS
    Setups,         \* the instances, see setup below
    MaxMsgs         \* bound: number of entries

\* "write": rrr_message_broker_write_entry, "incref":
\* rrr_message_broker_incref_and_write_entry_unsafe, "collection":
\* rrr_message_broker_write_entries_from_collection_unsafe
ASSUME SlotAssumption ==
    /\ Setups \subseteq [n : Nat \ {0}, duplicate : BOOLEAN, batch : Nat \ {0},
                         kinds : SUBSET {"write", "incref", "collection"},
                         cancels : BOOLEAN]
    /\ MaxMsgs \in Nat

NULL == 0

Entries == 1..MaxMsgs

MaxReaders == Max({c.n : c \in Setups})

VARIABLES
    slot,           \* entry, readers and reader_has_read
    refs,           \* usercount of every entry, 0 when it does not exist
    locked,         \* the entry the writing thread keeps locked, or NULL
    writer,         \* where the writing thread is, and its local variables
    events,         \* events passed to every reader that it has not used
    got,            \* the entries every reader has received
    created,        \* number of entries created so far
    phantoms,       \* history: entries announced so far that were not written
    setup           \* never changes: the number of readers, duplicate=yes, the
                    \* write functions the module calls and the entries in a
                    \* collection, and whether the thread may be told to stop

\* The readers, numbered in the order of write_notify_listeners.
Readers == 1..setup.n

Listeners == [r \in Readers |-> r]

Duplicate == setup.duplicate

vars == <<slot, refs, locked, writer, events, got, created, phantoms>>

IdleWriter == [pc |-> "idle", kind |-> "none", left |-> <<>>, notify |-> 0, targets |-> <<>>]

Init ==
    /\ setup \in Setups
    /\ slot = [entry |-> NULL, readers |-> <<>>, hasRead |-> {}]
    /\ refs = [e \in Entries |-> 0]
    /\ locked = NULL
    /\ writer = IdleWriter
    /\ events = [r \in Readers |-> 0]
    /\ got = [r \in Readers |-> <<>>]
    /\ created = 0 /\ phantoms = 0

\* rrr_msg_holder_slot_reader_count_set
readerCount == IF Duplicate THEN setup.n ELSE 0

-----------------------------------------------------------------------------
(* The writing thread *)

\* mutant: the forwarding thread does not hold the lock.
HeldNone(kind) == locked

\* A thread that forwards an entry is inside the poll callback for it: it
\* holds the lock of the entry and a reference until the broker returns.
Held(kind) == IF kind = "incref" THEN created + 1 ELSE locked

\* The module creates what it writes.
Begin(kind) ==
    LET n == IF kind = "collection" THEN setup.batch ELSE 1
    IN  /\ writer.pc = "idle"
        /\ created + n <= MaxMsgs
        /\ created' = created + n
        /\ refs' = [e \in Entries |-> IF e \in created + 1 .. created + n THEN 1 ELSE refs[e]]
        /\ locked' = Held(kind)
        /\ writer' = [pc |-> "wait", kind |-> kind, notify |-> 0, targets |-> <<>>,
                      left |-> [i \in 1..n |-> created + i]]
        /\ UNCHANGED <<slot, events, got, phantoms>>

\* mutant: the waiting thread does not look at the slot when it wakes up.
SlotFreeTimeout == TRUE

\* __rrr_msg_holder_slot_write_wait
SlotFree == slot.entry = NULL

\* mutant: the flags of the readers are kept.
PutKeepsFlags == slot' = [slot EXCEPT !.entry = Head(writer.left)]

\* WRITE_AND_RESET
Put == slot' = [slot EXCEPT !.entry = Head(writer.left), !.hasRead = {}]

Waits == writer.pc \in {"wait", "sleep"}

\* The slot is busy: the thread waits for the condition, and again and again
\* until it is woken up when the slot is empty.
Sleep ==
    /\ writer.pc = "wait"
    /\ ~SlotFree
    /\ writer' = [writer EXCEPT !.pc = "sleep"]
    /\ UNCHANGED <<slot, refs, locked, events, got, created, phantoms>>

AfterWrite == [write |-> "notify", incref |-> "incref", collection |-> "shift"]

\* The section of a write from the moment the slot is empty.
Write ==
    /\ Waits
    /\ SlotFree
    /\ Put
    /\ writer' = [writer EXCEPT !.pc = AfterWrite[writer.kind], !.notify = @ + 1,
                                !.left = IF writer.kind = "write" THEN <<>> ELSE @]
    /\ UNCHANGED <<refs, locked, events, got, created, phantoms>>

\* rrr_msg_holder_slot_write, the callback asks to drop the entry.
WriteDrop ==
    /\ Waits /\ writer.kind = "write"
    /\ SlotFree
    /\ refs' = [refs EXCEPT ![Head(writer.left)] = 0]
    /\ writer' = IdleWriter
    /\ UNCHANGED <<slot, locked, events, got, created, phantoms>>

\* rrr_msg_holder_slot_write_incref, after the slot is unlocked.
Incref ==
    /\ writer.pc = "incref"
    /\ refs' = [refs EXCEPT ![Head(writer.left)] = @ + 1]
    /\ writer' = [writer EXCEPT !.pc = "notify"]
    /\ UNCHANGED <<slot, locked, events, got, created, phantoms>>

\* rrr_msg_holder_slot_write_from_collection, after the slot is unlocked: the
\* entry is taken off the list, which reads its ptr_next unless it is the last.
Shift ==
    /\ writer.pc = "shift"
    /\ writer' = [writer EXCEPT !.pc = IF Len(writer.left) > 1 THEN "wait" ELSE "notify",
                                !.left = Tail(@)]
    /\ UNCHANGED <<slot, refs, locked, events, got, created, phantoms>>

\* The thread wakes up, whatever the slot holds by then, and is told to stop: a
\* single write returns without events; a collection is announced although it
\* was not written, and the caller releases what is left of it.
Cancel ==
    /\ setup.cancels
    /\ writer.pc = "sleep"
    /\ refs' = [e \in Entries |-> IF e \in Range(writer.left) THEN 0 ELSE refs[e]]
    /\ IF writer.kind = "collection"
       THEN /\ writer' = [writer EXCEPT !.pc = "notify", !.notify = @ + Len(writer.left),
                                        !.left = <<>>]
            /\ phantoms' = phantoms + Len(writer.left)
       ELSE /\ writer' = [IdleWriter EXCEPT !.pc = "stopped"]
            /\ UNCHANGED phantoms
    /\ locked' = NULL
    /\ UNCHANGED <<slot, events, got, created>>

\* mutants: everybody is told, or one reader.
TargetsAll == {Listeners}

TargetsOne == {<<r>> : r \in Readers}

\* __rrr_message_broker_write_notifications_send: who is told.
Targets == IF Duplicate THEN {Listeners} ELSE {<<r>> : r \in Readers}

NotifyTargets ==
    /\ writer.pc = "notify"
    /\ \E target \in Targets :
         writer' = [writer EXCEPT !.pc = "send", !.targets = target]
    /\ UNCHANGED <<slot, refs, locked, events, got, created, phantoms>>

\* _send_all and _send_random: one rrr_event_pass.
Notify ==
    /\ writer.pc = "send" /\ writer.targets # <<>>
    /\ events' = [events EXCEPT ![Head(writer.targets)] = @ + writer.notify]
    /\ writer' = [writer EXCEPT !.targets = Tail(@)]
    /\ UNCHANGED <<slot, refs, locked, got, created, phantoms>>

\* The broker returns; a forwarding thread unlocks and releases the entry.
Return ==
    /\ writer.pc = "send" /\ writer.targets = <<>>
    /\ refs' = IF writer.kind = "incref"
               THEN [refs EXCEPT ![Head(writer.left)] = @ - 1] ELSE refs
    /\ locked' = NULL
    /\ writer' = IdleWriter
    /\ UNCHANGED <<slot, events, got, created, phantoms>>

-----------------------------------------------------------------------------
(* Readers *)

\* mutant: a reader does not look for its place before it takes a new one.
RegisteredAgain(r) == IF readerCount = 0 THEN slot.readers ELSE Append(slot.readers, r)

\* __rrr_msg_holder_slot_reader_index_get_unlocked: the readers array after
\* reader r has looked for its place; its place.
Registered(r) ==
    IF readerCount = 0 \/ r \in Range(slot.readers) THEN slot.readers
    ELSE Append(slot.readers, r)

IndexIn(readers, r) == CHOOSE i \in 1..Len(readers) : readers[i] = r

\* mutant: the entry is deleted once somebody has read it.
AllReadOne(hasRead) == hasRead # {} \/ readerCount = 0

\* done_count >= slot->reader_count
AllRead(hasRead) == Cardinality(hasRead) >= readerCount

\* mutant: a reader does not look whether it has read the entry already.
HasReadNever(r) == FALSE

HasRead(r) ==
    readerCount > 0 /\ IndexIn(Registered(r), r) \in slot.hasRead

\* rrr_msg_holder_slot_read, called from rrr_message_broker_poll_delete.
\* The reader copies the entry under its lock, and deletes it when all have
\* read it.  An empty slot, and an entry it has read, leave the amount of
\* the event as it is: the event function is called again.
Read(r) ==
    /\ events[r] > 0
    /\ slot.entry # NULL /\ slot.entry # locked
    /\ ~HasRead(r)
    /\ LET readers == Registered(r)
           flags == IF readerCount = 0 THEN {} ELSE slot.hasRead \cup {IndexIn(readers, r)}
           done == AllRead(flags)
       IN  /\ slot' = [entry |-> IF done THEN NULL ELSE slot.entry,
                       readers |-> readers, hasRead |-> flags]
           /\ refs' = [refs EXCEPT ![slot.entry] = IF done THEN @ - 1 ELSE @]
    /\ got' = [got EXCEPT ![r] = Append(@, slot.entry)]
    /\ events' = [events EXCEPT ![r] = @ - 1]
    /\ UNCHANGED <<locked, writer, created, phantoms>>

-----------------------------------------------------------------------------

Writer ==
    \/ Sleep \/ Write \/ Incref \/ Shift \/ NotifyTargets \/ Notify \/ Return

Next ==
    /\ UNCHANGED setup
    /\ \/ \E kind \in setup.kinds : Begin(kind)
       \/ Writer \/ WriteDrop \/ Cancel
       \/ \E r \in Readers : Read(r)

Spec == Init /\ [][Next]_<<vars, setup>>

\* The writing thread runs; the event loop of a reader calls the poll
\* function as long as the reader has events.
FairSpec ==
    /\ Spec
    /\ WF_vars(Writer /\ UNCHANGED setup)
    /\ \A r \in 1..MaxReaders : WF_vars(r \in Readers /\ Read(r) /\ UNCHANGED setup)

-----------------------------------------------------------------------------
(* Properties *)

TypeOK ==
    /\ slot.entry \in Entries \cup {NULL}
    /\ IsInjective(slot.readers) /\ Len(slot.readers) <= readerCount
    /\ slot.hasRead \subseteq DOMAIN slot.readers
    /\ refs \in [Entries -> 0..2]
    /\ locked \in Entries \cup {NULL}
    /\ writer.pc \in {"idle", "wait", "sleep", "incref", "shift", "notify", "send", "stopped"}
    /\ writer.notify \in 0..setup.batch
    /\ events \in [Readers -> Nat]
    /\ created \in 0..MaxMsgs /\ phantoms \in 0..created
    /\ setup \in Setups

Increasing(s) == \A i \in 2..Len(s) : s[i - 1] < s[i]

\* "If the buffer is disabled, all readers must make a copy of the message
\* in the slot after which it is deleted" (rrr.conf(5)), or one of them
\* without duplication: no reader gets an entry twice or out of order, and
\* without duplication no two readers get the same entry.
EachOnce ==
    /\ \A r \in Readers : Increasing(got[r])
    /\ ~Duplicate => \A r, q \in Readers : r # q => Range(got[r]) \cap Range(got[q]) = {}

\* Entries that the thread has put into the slot so far.
WasPut(e) ==
    e \in UNION {Range(got[r]) : r \in Readers} \cup {slot.entry}

\* Those who must read an entry have read it when it has left the slot: with
\* duplication, what one reader got and the slot does not hold any more,
\* all readers got.
NoneMissed ==
    Duplicate => \A e \in Entries : WasPut(e) /\ slot.entry # e =>
                    \A r \in Readers : e \in Range(got[r])

\* The entry in the slot exists, and so does the entry that the writing thread
\* still uses after it has unlocked the slot: the one whose reference count it
\* increments, and the one it takes off a collection.  The latter is safe
\* because its readers have not been told of it yet.  (Not any more once they
\* have an event too many, as after a collection that was cancelled: then the
\* entry may be gone before its ptr_next is read.)
NoDangling ==
    /\ slot.entry # NULL => refs[slot.entry] > 0
    /\ writer.pc = "incref" => refs[Head(writer.left)] > 0
    /\ writer.pc = "shift" /\ Len(writer.left) > 1 /\ phantoms = 0 =>
         refs[Head(writer.left)] > 0

\* No entry is leaked: one that exists is in the slot or held by the thread.
NoLeak ==
    \A e \in Entries : refs[e] > 0 => e = slot.entry \/ e \in Range(writer.left)

\* Entries in the slot that reader r has yet to read.
Waiting(r) ==
    IF slot.entry # NULL /\ slot.entry \notin Range(got[r]) THEN 1 ELSE 0

\* The entries the thread has yet to announce to reader r, or to one reader.
Announcing(told) == IF writer.pc = "send" /\ told THEN 0 ELSE writer.notify

\* With duplication, the events of a reader and those about to be passed to
\* it are as many as the entries it can read, and as many more as entries of
\* collections were announced and not written: no reader has an entry without
\* an event, or spins on an event without an entry for another reason.
EventsMatch ==
    Duplicate => \A r \in Readers :
        events[r] + Announcing(r \notin Range(writer.targets)) = Waiting(r) + phantoms

\* Without duplication, the same for all readers together.
OneEvent ==
    ~Duplicate =>
      MapThenSumSet(LAMBDA r : events[r], Readers) + Announcing(writer.targets = <<>>)
      = (IF slot.entry = NULL THEN 0 ELSE 1) + phantoms

\* "the instance will block if it has a new message to write to the output
\* while the slot is busy, and it will proceed once a reader has picked up
\* the message (or all readers if duplication is enabled)" (rrr.conf(5)):
\* the readers do pick it up, a writer that waits gets on.
WriterProceeds == Waits ~> ~Waits

WaitsForAnnounced == Waits /\ writer.notify = 0

\* The same for a write whose thread has no entry in the slot that it has yet
\* to announce: a single write, or the first entry of a collection.
FirstProceeds == WaitsForAnnounced ~> ~WaitsForAnnounced
=============================================================================
