---------------------------- MODULE MessageBroker ----------------------------
(***************************************************************************)
(* The message broker between instances with output buffers                *)
(* (src/src/lib/message_broker.c): senders write to their main queue and   *)
(* pass events to their listeners; a listener that has events polls its    *)
(* senders in turn.  With duplicate=yes, a sender has a split buffer for   *)
(* every listener, and whoever polls moves the main queue to all of them.  *)
(*                                                                         *)
(* The queues are those of FifoProtected, here as sequences: a reader      *)
(* takes entries off the front, calls back for them one by one and puts    *)
(* back the rest.  Events are those of EventQueue, here as numbers.        *)
(* Entries are numbered per sender.  Slots are in MsgHolderSlot.           *)
(***************************************************************************)
EXTENDS Integers, Sequences, FiniteSets, SequencesExt, FiniteSetsExt

CONSTANTS
    Senders, Listeners,
    Setups          \* the configurations of instances, see setup below

ASSUME BrokerAssumption ==
    \A c \in Setups :
       /\ \A l \in Listeners : /\ c.sendersOf[l] # <<>> /\ IsInjective(c.sendersOf[l])
                               /\ Range(c.sendersOf[l]) \subseteq Senders
       /\ c.duplicate \subseteq Senders
       /\ {c.maxReads, c.maxBatch, c.msgs} \subseteq Nat \ {0}
       /\ c.partial \in BOOLEAN

NoOne == "none"

ASSUME ListenerNames == NoOne \notin Listeners

VARIABLES
    main,           \* main_queue of every sender
    split,          \* split_buffers of every sender
    owner,          \* their owners
    lock,           \* who holds the split buffer lock of a sender
    tell,           \* entries to announce, and to whom, of every sender
    events,         \* events of every listener
    poll,           \* local variables of the poll of every listener
    polled,         \* what every listener has received from every sender
    written,        \* entries written by every sender
    setup           \* never changes: the senders of every listener in the order
                    \* it polls them, the senders with duplicate=yes,
                    \* RRR_FIFO_PROTECTED_MAX_READS, the entries written before
                    \* the listeners are told (0xff), whether a poll callback
                    \* may stop before the amount is used; bound: the entries
                    \* per sender

vars == <<main, split, owner, lock, tell, events, poll, polled, written>>

SendersOf == setup.sendersOf

Duplicate == setup.duplicate

MaxReads == setup.maxReads

ListenersOf(s) == {l \in Listeners : s \in Range(SendersOf[l])}

Slots(s) == 1..Cardinality(ListenersOf(s))

NotPolling == [pc |-> "idle", pos |-> 1, amount |-> 0, held |-> <<>>]

NoTell == [n |-> 0, to |-> {}]

\* rrr_message_broker_setup_split_output_buffer: one split buffer for every
\* receiver, with no owner yet.
Init ==
    /\ setup \in Setups
    /\ main = [s \in Senders |-> <<>>]
    /\ split = [s \in Senders |-> [k \in Slots(s) |-> <<>>]]
    /\ owner = [s \in Senders |-> [k \in Slots(s) |-> NoOne]]
    /\ lock = [s \in Senders |-> NoOne]
    /\ tell = [s \in Senders |-> NoTell]
    /\ events = [l \in Listeners |-> 0]
    /\ poll = [l \in Listeners |-> NotPolling]
    /\ polled = [l \in Listeners |-> [s \in Senders |-> <<>>]]
    /\ written = [s \in Senders |-> 0]

-----------------------------------------------------------------------------
(* Senders *)

\* One entry of rrr_message_broker_write_entry, which writes more while the
\* callback asks for it, or of a collection.
Write(s) ==
    /\ ListenersOf(s) # {} /\ written[s] < setup.msgs
    /\ tell[s].to = {} /\ tell[s].n < setup.maxBatch
    /\ written' = [written EXCEPT ![s] = @ + 1]
    /\ main' = [main EXCEPT ![s] = Append(@, written'[s])]
    /\ tell' = [tell EXCEPT ![s].n = @ + 1]
    /\ UNCHANGED <<split, owner, lock, events, poll, polled>>

\* mutant: always one listener.
TargetsOne(s) == {{l} : l \in ListenersOf(s)}

\* __rrr_message_broker_write_notifications_send: all listeners or a random
\* one of them.
Targets(s) ==
    IF s \in Duplicate THEN {ListenersOf(s)} ELSE {{l} : l \in ListenersOf(s)}

WriteDone(s) ==
    /\ tell[s].n > 0 /\ tell[s].to = {}
    /\ \E to \in Targets(s) : tell' = [tell EXCEPT ![s].to = to]
    /\ UNCHANGED <<main, split, owner, lock, events, poll, polled, written>>

\* _send_all, _send_random: rrr_event_pass to one listener, in any order.
Notify(s) ==
    \E l \in tell[s].to :
       /\ events' = [events EXCEPT ![l] = @ + tell[s].n]
       /\ tell' = [tell EXCEPT ![s] = IF @.to = {l} THEN NoTell
                                      ELSE [@ EXCEPT !.to = @ \ {l}]]
       /\ UNCHANGED <<main, split, owner, lock, poll, polled, written>>

-----------------------------------------------------------------------------
(* rrr_message_broker_poll_delete *)

Current(l) == SendersOf[l][poll[l].pos]

At(l, pc) == poll[l].pc = pc

Goto(l, pc) == poll' = [poll EXCEPT ![l].pc = pc]

\* The event loop calls the function of the listener.
PollStart(l) ==
    /\ At(l, "idle")
    /\ events[l] > 0
    /\ events' = [events EXCEPT ![l] = 0]
    /\ poll' = [poll EXCEPT ![l] = [NotPolling EXCEPT !.pc = "source", !.amount = events[l]]]
    /\ UNCHANGED <<main, split, owner, lock, tell, polled, written>>

\* The split buffer of a listener: its own, or the first one without owner.
SlotOf(s, l) ==
    LET Fits(k) == owner[s][k] \in {l, NoOne}
    IN  CHOOSE k \in Slots(s) : Fits(k) /\ \A j \in 1..(k - 1) : ~Fits(j)

\* __rrr_message_broker_get_source_buffer: waits for the split buffer lock.
GetSource(l) ==
    LET s == Current(l)
    IN  /\ At(l, "source")
        /\ lock[s] = NoOne
        /\ IF s \in Duplicate
           THEN owner' = [owner EXCEPT ![s][SlotOf(s, l)] = l] /\ Goto(l, "fill")
           ELSE Goto(l, "read") /\ UNCHANGED owner
        /\ UNCHANGED <<main, split, lock, tell, events, polled, written>>

Take(queue) == SubSeq(queue, 1, Min({MaxReads, Len(queue)}))

Rest(queue) == SubSeq(queue, MaxReads + 1, Len(queue))

\* mutant: nobody asks for the lock.
MayFillAlways(s) == main[s] # <<>>

\* __rrr_message_broker_split_buffers_fill: the lock is tried once.
MayFill(s) == main[s] # <<>> /\ lock[s] = NoOne

\* Nothing to do for an empty queue, or somebody else has the lock: a listener
\* that fills, or one that is in __rrr_message_broker_get_source_buffer or
\* whoever reports the buffers, which have it for a moment at any time.
FillSkip(l) ==
    /\ At(l, "fill")
    /\ Goto(l, "read")
    /\ UNCHANGED <<main, split, owner, lock, tell, events, polled, written>>

FillStart(l) ==
    LET s == Current(l)
    IN  /\ At(l, "fill")
        /\ MayFill(s)
        /\ lock' = [lock EXCEPT ![s] = l]
        /\ poll' = [poll EXCEPT ![l].pc = "filling", ![l].held = Take(main[s])]
        /\ main' = [main EXCEPT ![s] = Rest(@)]
        /\ UNCHANGED <<split, owner, tell, events, polled, written>>

Fills(s) == Slots(s)

\* __rrr_message_broker_split_buffers_fill_callback: a copy to every buffer.
Fill(l) ==
    LET s == Current(l)
    IN  /\ At(l, "filling")
        /\ poll[l].held # <<>>
        /\ split' = [split EXCEPT ![s] = [k \in Slots(s) |->
                       IF k \in Fills(s) THEN Append(@[k], Head(poll[l].held)) ELSE @[k]]]
        /\ poll' = [poll EXCEPT ![l].held = Tail(@)]
        /\ UNCHANGED <<main, owner, lock, tell, events, polled, written>>

FillEnd(l) ==
    /\ At(l, "filling")
    /\ poll[l].held = <<>>
    /\ lock' = [lock EXCEPT ![Current(l)] = NoOne]
    /\ Goto(l, "read")
    /\ UNCHANGED <<main, split, owner, tell, events, polled, written>>

\* The queue listener l reads from, and an update of it.
Queue(l) ==
    LET s == Current(l) IN IF s \in Duplicate THEN split[s][SlotOf(s, l)] ELSE main[s]

SetQueue(l, queue) ==
    LET s == Current(l)
    IN  IF s \in Duplicate
        THEN split' = [split EXCEPT ![s][SlotOf(s, l)] = queue] /\ UNCHANGED main
        ELSE main' = [main EXCEPT ![s] = queue] /\ UNCHANGED split

\* mutant: the rest of the amount is forgotten when the poll ends.
AdvanceForgets(l) ==
    IF poll[l].amount > 0 /\ poll[l].pos < Len(SendersOf[l])
    THEN /\ poll' = [poll EXCEPT ![l].pc = "source", ![l].pos = @ + 1, ![l].held = <<>>]
         /\ UNCHANGED events
    ELSE poll' = [poll EXCEPT ![l] = NotPolling] /\ UNCHANGED events

\* mutant: the senders after the first are not polled.
AdvanceNot(l) ==
    /\ poll' = [poll EXCEPT ![l] = NotPolling]
    /\ events' = [events EXCEPT ![l] = @ + poll[l].amount]

\* On to the next sender while there is something left of the amount.  What
\* is left at the end is deferred by the event queue.
Advance(l) ==
    IF poll[l].amount > 0 /\ poll[l].pos < Len(SendersOf[l])
    THEN /\ poll' = [poll EXCEPT ![l].pc = "source", ![l].pos = @ + 1, ![l].held = <<>>]
         /\ UNCHANGED events
    ELSE /\ poll' = [poll EXCEPT ![l] = NotPolling]
         /\ events' = [events EXCEPT ![l] = @ + poll[l].amount]

\* mutant: the entries are not taken off.
ReadKeeps(l) ==
    /\ At(l, "read")
    /\ Queue(l) # <<>>
    /\ poll' = [poll EXCEPT ![l].pc = "callback", ![l].held = Take(Queue(l))]
    /\ UNCHANGED <<main, split, owner, lock, tell, events, polled, written>>

\* rrr_fifo_protected_read_clear_forward takes entries off the queue...
Read(l) ==
    /\ At(l, "read")
    /\ Queue(l) # <<>>
    /\ poll' = [poll EXCEPT ![l].pc = "callback", ![l].held = Take(Queue(l))]
    /\ SetQueue(l, Rest(Queue(l)))
    /\ UNCHANGED <<owner, lock, tell, events, polled, written>>

ReadEmpty(l) ==
    /\ At(l, "read")
    /\ Queue(l) = <<>>
    /\ Advance(l)
    /\ UNCHANGED <<main, split, owner, lock, tell, polled, written>>

\* mutant: the amount is compared before it is decremented.
UsedBefore(amount) == amount = 0

\* --(*callback_data->amount) == 0
Used(amount) == amount = 1

\* ...calls __rrr_message_broker_poll_delete_intermediate for each, until
\* the amount is used or the callback of the module stops...
Callback(l) ==
    /\ At(l, "callback")
    /\ polled' = [polled EXCEPT ![l][Current(l)] = Append(@, Head(poll[l].held))]
    /\ \E stop \in IF setup.partial THEN BOOLEAN ELSE {FALSE} :
         poll' = [poll EXCEPT ![l].held = Tail(@), ![l].amount = @ - 1,
                    ![l].pc = IF stop \/ Used(poll[l].amount) \/ Len(poll[l].held) = 1
                              THEN "putback" ELSE @]
    /\ UNCHANGED <<main, split, owner, lock, tell, events, written>>

\* ...and puts what is left in front of the queue.
PutBack(l) ==
    /\ At(l, "putback")
    /\ SetQueue(l, poll[l].held \o Queue(l))
    /\ Advance(l)
    /\ UNCHANGED <<owner, lock, tell, polled, written>>

-----------------------------------------------------------------------------

PollStep(l) ==
    \/ PollStart(l) \/ GetSource(l)
    \/ FillSkip(l) \/ FillStart(l) \/ Fill(l) \/ FillEnd(l)
    \/ Read(l) \/ ReadEmpty(l) \/ Callback(l) \/ PutBack(l)

Tell(s) == WriteDone(s) \/ Notify(s)

Next ==
    /\ UNCHANGED setup
    /\ \/ \E s \in Senders : Write(s) \/ Tell(s)
       \/ \E l \in Listeners : PollStep(l)

Spec == Init /\ [][Next]_<<vars, setup>>

\* Threads run; a mutex that is free again and again is obtained, also by one
\* who only tries.
FairSpec ==
    /\ Spec
    /\ WF_vars(UNCHANGED setup /\ \E s \in Senders : Tell(s))
    /\ \A l \in Listeners : /\ WF_vars(UNCHANGED setup /\ PollStep(l))
                            /\ SF_vars(UNCHANGED setup /\ GetSource(l))
                            /\ SF_vars(UNCHANGED setup /\ FillStart(l))

-----------------------------------------------------------------------------
(* Properties *)

PCs == {"idle", "source", "fill", "filling", "read", "callback", "putback"}

TypeOK ==
    /\ \A s \in Senders :
         /\ Range(main[s]) \subseteq 1..setup.msgs
         /\ \A k \in Slots(s) : Range(split[s][k]) \subseteq 1..setup.msgs
         /\ owner[s] \in [Slots(s) -> ListenersOf(s) \cup {NoOne}]
         /\ lock[s] \in Listeners \cup {NoOne}
         /\ tell[s].n \in 0..setup.maxBatch /\ tell[s].to \subseteq ListenersOf(s)
    /\ setup \in Setups
    /\ events \in [Listeners -> Nat]
    /\ \A l \in Listeners :
         poll[l].pc \in PCs /\ poll[l].amount \in Nat /\ poll[l].pos \in 1..Len(SendersOf[l])

\* What listener l holds of sender s between two steps of its poll.
Held(s, l) == IF Current(l) = s THEN poll[l].held ELSE <<>>

Filling(s) == IF lock[s] = NoOne THEN <<>> ELSE poll[lock[s]].held

UpTo(n) == [i \in 1..n |-> i]

\* "If set to yes, all readers of this instance will receive all messages"
\* (rrr.conf(5)): what a listener has received of a duplicating sender, what
\* it holds, what is in its split buffer, in the hands of whoever fills the
\* buffers, and in the main queue are, in this order, all that was written.
\* Nothing is lost, repeated or reordered, however listeners fill the
\* buffers for each other.
Duplicated ==
    \A s \in Duplicate : \A k \in Slots(s) :
       LET l == owner[s][k]
           own == IF l = NoOne THEN <<>>
                  ELSE polled[l][s] \o (IF lock[s] = l THEN <<>> ELSE Held(s, l))
       IN  own \o split[s][k] \o Filling(s) \o main[s] = UpTo(written[s])

\* "If set to no, the readers will compete over the messages" (rrr.conf(5)):
\* every entry is in the queue, held by one listener, or received by one.
Competed ==
    \A s \in Senders \ Duplicate : \A m \in 1..written[s] :
       Cardinality({l \in Listeners : m \in Range(polled[l][s])})
         + Cardinality({l \in Listeners : m \in Range(Held(s, l))})
         + Cardinality({i \in DOMAIN main[s] : main[s][i] = m}) = 1

\* "the event counter and number of messages to poll are consistent"
\* (README.dev.md): if all senders of a listener duplicate, its events, the
\* amount of its poll and what it is about to be told are as many as the
\* entries it has not received.
CountsMatch ==
    \A l \in Listeners : Range(SendersOf[l]) \subseteq Duplicate =>
       events[l] + poll[l].amount
         + MapThenSumSet(LAMBDA s : IF l \in tell[s].to \/ tell[s].to = {}
                                    THEN tell[s].n ELSE 0, Range(SendersOf[l]))
       = MapThenSumSet(LAMBDA s : written[s] - Len(polled[l][s]), Range(SendersOf[l]))

\* Without duplication, the same for all listeners together.
TotalMatches ==
    Duplicate = {} =>
       MapThenSumSet(LAMBDA l : events[l] + poll[l].amount, Listeners)
         + MapThenSumSet(LAMBDA s : tell[s].n, Senders)
       = MapThenSumSet(LAMBDA s : written[s]
            - MapThenSumSet(LAMBDA l : Len(polled[l][s]), Listeners), Senders)

\* An entry has arrived: at all listeners or at one of them.
Arrived(s, m) ==
    LET at == {l \in ListenersOf(s) : m \in Range(polled[l][s])}
    IN  IF s \in Duplicate THEN at = ListenersOf(s) ELSE at # {}

\* "the event callback function will be called in a busy loop until all
\* pending messages have been polled" (README.dev.md): senders stop at the
\* bound, and then all that was written arrives.
AllArrive == []<>(\A s \in Senders : \A m \in 1..written[s] : Arrived(s, m))
=============================================================================
