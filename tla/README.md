# A TLA+ verification of RRR

RRR ("Read Route Record") is a daemon that runs module instances as threads
which pass messages to each other.  This directory holds TLA+ models of its
core: how messages, and the events that announce them, get from one thread or
process to the next, and how the threads are started, watched and stopped.
Every definition is a translation of C code under `src/`; `PROJECT.json` names
the lines of each (`map`), the runs, the mutants, the hazards and the theorems.

## The system

| part | code | state | operations | interacts with |
|---|---|---|---|---|
| mmap channel | `lib/mmap_channel.c` | ring of blocks, positions, entry count, locks, cleanup flags | write, read, cleanup pass, release | two processes, event queue, SHM |
| event queue | `lib/event/event.c` | eventfd per function, deferred amounts, pause flags, timer | pass, dispatch, pause and unpause, break | every thread |
| FIFO | `lib/fifo_protected.c` | linked list, write queue, counters, locks | write, delayed write, read and clear, put back | writers, readers |
| message slot | `lib/message_holder/message_holder_slot.c` | one entry, flags per reader | write (three kinds), read, wait | writer, readers |
| message broker | `lib/message_broker.c` | main queue, split buffers, owners, listeners | write, notify, poll, fill split buffers | FIFO, slot, event queue |
| threads | `lib/threads.c`, `instances.c`, `rrr.c` | atomic state word per thread | start procedure, watchdog, cancel, ghost, stop, free | main thread, watchdogs |
| cmodule framework, fork handler | `lib/cmodule/`, `lib/fork.c` | workers, pids, channels | fork, send with retry, exit notification | mmap channel, event queue |
| udpstream and ASD | `lib/udpstream/` | send and release queues, ids, grace counters | send, resend, ACK handshake, deliver | lossy network |
| MQTT | `lib/mqtt/` | sessions, packet ids, subscriptions | QoS handshakes, resume, route | network |
| message database, send loop | `lib/msgdb/`, `lib/send_loop.c` | files; queue with timeouts | put, get, tidy; push, run, retry | modules |
| HTTP, transports, sockets | `lib/http/`, `net_transport/`, `socket/` | connections | I/O | network |
| modules, programs | `modules/`, `rrr_*.c` | their own | their own work | broker, events |

What makes this hard, and what a test hardly reaches: state that is changed in
two critical sections with a gap between them (channel, FIFO, thread state);
counters kept apart from what they count (events and messages); readers that
put back what they took while others went on; processes that are killed with a
lock held; loops that wait for each other; watchdogs that race with the
threads they watch.  `PROJECT.json` lists these hazards at the lines where they
bite.  A hazard in a part that is not modelled yet has a note.

## Modules

| module | models | run |
|---|---|---|
| `MessageChannel` | what a channel promises: a bounded FIFO of two processes | refined by `MmapChannel` |
| `MmapChannel` | the ring in shared memory, with crashes | `channel`, `channel_exit` |
| `MmapChannelProofs` | proofs | |
| `EventQueue` | events of one thread | `event`, `event_stall` |
| `EventQueueProofs` | proofs | |
| `FifoProtected`, `MCFifoProtected` | the FIFO at the level of its pointers | `fifo`, `fifo_splice` |
| `MsgHolderSlot`, `MCMsgHolderSlot` | instances without buffer | `slot`, `slot_collection` |
| `MessageBroker`, `MCMessageBroker` | instances with buffers, composed of queues and events | `broker`, `broker_crossing` |
| `Threads`, `MCThreads` | threads, watchdogs, main thread | `threads`, `threads_ghost` |

Conventions.  A section of code under one lock is one step, everything between
two sections can interleave.  Local variables that live across sections are
model variables.  Messages are numbers in the order of writing.  Definitions
marked "mutant" are wrong variants of the definition below them: each property
of a passing run has one that it rejects.  In four modules the variable `setup`
is picked in `Init` from the constant `Setups` and never changes: one run then
covers several configurations (numbers of readers, duplication, faults), and
the MC module says which.

### MmapChannel

`rrr_mmap_channel_write_using_callback` is `WriteBegin` (index section: take
the cleanup request, pick the block), `Cleanup*` (the pass over all blocks),
`WriteLock`/`WriteBusy`, `WriteFull` or `WriteFill`, `WritePublish` (second
index section), `WriteNotify` or `NotifyFail` (`rrr_event_pass`).  The reader
is the same with `Read*`.  `FreeBlocks` is `rrr_mmap_channel_writer_free_blocks`.  Sizes keep
the distinctions the code makes: memory that can be reused, private memory,
SHM, and memory that is too large to keep.  Robust locks: `WriterCrash` and
`ReaderCrash` can take place anywhere and leave locks with no owner; the other
process finds out at its next attempt (`*Dead`).  Steps that may fail
(`WriteFail`, `ReadFail`, `NotifyFail`) end the process that takes them.  A
`shmdt` of memory that is attached does not fail and is not among them.

* `ImplementsMessageChannel`: the channel refines `MessageChannel`.
  The mapping is the identity on the history variables `sent`, `delivered`, `last`, `closed`.
* `CountsMatch`: entry count, blocks in use and pending events agree.
* `BlockExclusion`: a block lock is held by the process that works on the block.
* `CleanupNotLost`, `CleanupKeepsUnread`: the cleanup protocol, in which the
  writer clears the request before it serves it and skips busy blocks, forgets
  no block and discards no unread message.
* `EventuallyDelivered`: with both processes alive, all messages get through.

Bounds of run `channel`: 3 slots (the ring wraps, is full, and has a block that
is neither first nor last), 5 messages (the ring wraps and is refilled), three
sizes, all faults.  Fairness: each process takes its next step (WF).  A writer
that finds the channel full looks into the reader's block again and again; it
sleeps between its attempts with the lock released, so the reader's attempts
meet a free lock infinitely often (SF of `ReadLock` and `ReadBeginUnlocked`).

### EventQueue

A sender writes messages (`Send`), picks the amount to announce (`PassBegin`)
and tries to add it to the eventfd until there is room (`Pass`) or it gives up
(`PassFail`).  `Pause`, `Take`, `TakeFail`, `Call`, `CallExit`, `Done` are the
parts of `__rrr_event_signal_event`, `Resume`, `Amount` and `Enter` what `Take`
is made of; `Unpause` is the timer that all functions share; `Break` and
`Dispatch` end the loop and start it again.  A call handles any part of what it
is told (`Handled`), and a pause callback, which looks at queues of its module,
gives any answer.  libevent is external: an added event fires while its
descriptor is readable, `event_active` makes it fire once, `event_del` undoes
both.

* `CountersMatch`: unpassed + being passed + eventfd + deferred + count in the
  running handler = messages that wait, for every function that does not end
  the loop.
* `NoPhantom`: never more than that, for all functions.
* `PausedHasTimer`: no function is left deleted without the timer that adds it
  back.
* `DeferredIsActive`: a deferred amount is activated, unless its function was
  paused since.  In that case nothing brings the loop back to it (finding 2).
* `PolledInTime`: a function that is never paused and does not end the loop
  handles every message, whatever the others do; and for every function,
  registered or not, an amount in the eventfd is taken up, whatever pauses,
  ends and restarts there are.  That a function that is paused handles all its
  messages is what the code does not guarantee (`AllPolled`, finding 2).

Bounds of run `event`: four functions (one that is never paused, one that is,
one that is and may end the loop, one that nobody registered), passes of up to
2, an eventfd that is full at 3, calls with an amount of 1 (`MaxAmount`) and two
calls per dispatch: three messages in the eventfd are more than two calls use,
so amounts are deferred, also those of functions that are paused then.  4
messages in all.  `event_stall` has one function, with a pause callback.
Fairness: senders pass what they wrote (WF of `PassBegin` or `Pass`), the
handler goes on (WF of `Call` or `Done`), a module that ended its loop starts it
again (WF of `Dispatch`).  The loop serves events that fire, and a callback that
is asked again and again does not ask for a pause every time, as its module
works off its queue (SF of `Take`, SF of `Unpause`); functions that are called
again and again handle something at times (SF of `Progress`; they may find
their buffer locked).  `Take`, `Call` and `Progress` are fair for the functions
together, not for each: messages run out, so no function can keep the loop from
the others for ever.

### FifoProtected

`Write`, `WriteDelayed`; `ReadStart`, `Splice` (merge of the write queue and
the cut of up to `MaxReads` entries under the write lock), `ReadNext`,
`Callback`, `Release`, `PutBack`, `LoopEnd`, `Count` are the sections of
`rrr_fifo_protected_read_clear_forward`.  Pointers are explicit, and reading an
entry that was freed yields any pointer.

* `OnePlace`: what was written is in exactly one place: buffer, write queue,
  one reader's part, one callback.
* `LastIsEnd`: the last pointer is the end of the list, after all relinking.
* `CountMatches`: the counter is exact up to what readers have yet to subtract,
  so the subtraction cannot underflow.
* `InOrder` (one reader), `EventuallyHanded`.

Bounds of run `fifo`: one reader that takes 2 entries at a time, and two
readers for which `MaxReads` is out of reach; 4 entries, 2 of them delayed.
Fairness: a reader takes its next step, and reads again while the buffer is
populated, as its events make it.  Two readers that do reach `MaxReads` are in
`fifo_splice`.

### MsgHolderSlot

The three kinds of writes of the broker (`Begin`, then `Write` when the slot is
empty, `WriteDrop`), the wait of the writing thread (`Sleep`; it is woken by
readers or by a timeout, and may then be told to stop whatever the slot holds,
`Cancel`), what it does after it has unlocked the slot (`Incref`, or `Shift`,
which takes the entry off a collection), and the events (`NotifyTargets`,
`Notify`, `Return`).  `Read` is a poll by a listener that has events.

* `EachOnce`, `NoneMissed`: each reader gets each entry once and in order; an
  entry leaves the slot only when all who must read it have.
* `NoDangling`: the entry in the slot exists, and so does the one that the
  writing thread still uses after it has unlocked the slot, to raise its
  reference count or to read its `ptr_next`.  Nothing but the order of write
  and event protects the latter: no reader polls it before it has been told.
  The property therefore leaves out what follows a cancelled collection, which
  announces entries that it has not written (counted by the history variable
  `phantoms`): see the observations below.
* `NoLeak`: an entry that exists is in the slot or with the writing thread.
* `EventsMatch`, `OneEvent`: as many events as entries to read, plus exactly
  those that cancelled collections announced and did not write.
* `FirstProceeds`: a waiting write gets on, unless it waits behind an entry of
  its own that it has not announced (see `slot_collection`).

Bounds of run `slot`: three readers that duplicate with single writes, and two
that duplicate or compete with all kinds of writes and collections of 2; 6
entries (three collections: one that is cancelled and two that follow).
Fairness: the writing thread runs, and the event loop of a reader polls while
it has events.

### MessageBroker

Composes senders, their queues (as sequences; `FifoProtected` is the detail),
split buffers and listeners with event counts (`EventQueue` is the detail).
`Write`, `WriteDone`, `Notify` are a sender; `PollStart`, `GetSource`, `Fill*`,
`Read`, `Callback`, `PutBack` are `rrr_message_broker_poll_delete`.

* `Duplicated`: with duplication, what a listener received, holds, and will
  find, is in this order all that was written, however listeners fill the
  buffers for each other.
* `Competed`: without, every entry is in one place.
* `CountsMatch`, `TotalMatches`: events match entries, per listener or in total.
* `AllArrive`: everything arrives.

Bounds of run `broker`: two listeners, one or two senders, up to 4 entries per
sender, in four configurations (one duplicating sender; two that duplicate with
listeners that cross; two listeners that compete for one sender; that share
two).  Where listeners share a queue `MaxReads` is out of reach: the flaw of
`fifo_splice` is left out here.  Fairness: threads run, and a mutex that is
free again and again is obtained, by `GetSource`, which waits for it, and by
`FillStart`, which tries it at every poll (SF of both).  A try may fail at any
time (`FillSkip`): others have the lock for a moment in `GetSource` or to
report the sizes of the buffers.

### Threads

The state of a thread is the set of its state bits; `Set` and `SetState` are
the two atomic operations of `rrr_thread_state_set`, with no state in between.
`RUNNING_FORKED` and `STOPPING` are one bit, as in `threads.h`.  The watchdog
and the main thread are in steps of one access to the shared word.  Time is
left out: what takes its time may take place at any moment.

* `ForkOneByOne`, `AllInitializedFirst`: the order the start procedure promises.
* `NoSpuriousStop`: no watchdog takes the gap in a change of state for an end.
* `FreedNotInUse`: no thread is freed in its module's code or in a cleanup
  handler before the last one.  In the last one, which sets `STOPPED`, it can
  be: see finding 6 and the observations below.
* `AssertsHoldNoGhost`: the assertions hold as long as nobody becomes a ghost.
* `StopEnds`: stopping ends, although threads hang, fail or never initialize.

Bounds of run `threads`: two threads, in two configurations (two that fork and
no ghosts; everything that can go wrong).  Fairness: main thread and watchdogs
run and time passes (a watchdog whose thread does not stop gets past its first
wait); nothing is assumed of the threads.

Deadlock checking is off in all runs: senders stop at the bound on messages,
and threads end, so every model has states in which all is done.  That nobody
is stuck before that is what the liveness properties say.

## What is proved

TLAPS proves these for all values of the constants (`ASSUME`s name what the
constants must satisfy: at least one slot, positive limits, natural numbers).

| theorem | module | statement |
|---|---|---|
| `TypeCorrect`, `CleanupIsSafe`, `CleanupIsComplete`, `Exclusion` | `MmapChannelProofs` | `TypeOK`, `CleanupKeepsUnread`, `CleanupNotLost`, `BlockExclusion` |
| `Refinement` | `MmapChannelProofs` | the channel implements `MessageChannel` |
| `CountsAgree` | `MmapChannelProofs` | `CountsMatch` |
| `EventTypes`, `NoPhantomEvents`, `PausesEnd`, `DeferredServed`, `CountersExact` | `EventQueueProofs` | `TypeOK`, `NoPhantom`, `PausedHasTimer`, `DeferredIsActive`, `CountersMatch` |

The channel.  None of the properties is inductive: that the block at the read
position holds the next message depends on what all blocks hold.  The inductive
invariant `IInv` adds `Counting` (counters in shared memory against messages
written and read, exact while both processes live, one-sided afterwards),
`Ring` (the blocks hold the last `Slots` messages in ring order: block `b`
holds the message written `Age(b, w)` writes ago, where `w` is the next block
to fill; a block is in use iff its message is not yet delivered; the positions
agree with that window) and `Bounds`.  `RingFill`, `RingConsume`, `HeadOfQueue`
and `RoomWhenFree` are the lemmas that carry the argument: the block the
reader takes is the oldest undelivered message, and a free block at the write
position means that there is room.  `Refinement` then maps `WriteFill` to
`Put`, `ReadConsume` to `Get`, `FreeBlocks` to `Close`, and all other steps to
stuttering.  `CountsAgree` adds the cardinality of the set of blocks in use.

The event queue.  `IInv` is the type invariant, `NothingDeferred` (nothing is
deferred for a function that is being called, so deferring overwrites no
earlier amount), `Watched` (a function that is activated or being called is
added, so that none is activated while it is deleted), `NoPhantom`,
`PausedHasTimer` and `DeferredIsActive`.  `CountersMatch` is shown to be kept
by every step from `IInv`.

Only model-checked: all liveness properties, `FifoProtected`, `MsgHolderSlot`,
`MessageBroker`, `Threads`.

## Findings

Six runs end with a violation, and each shows a disagreement of the code with
what a comment, a document or an assertion says (quoted in `PROJECT.json`).

1. `channel_exit`: a process that exits releases its blocks without their
   locks; a reader between its size check and its callback hands out a released block.
2. `event_stall`: a function paused while an amount is deferred is added back
   by the timer, but what was deferred waits for a new event.
3. `fifo_splice`: a reader that stops on the last entry of its part puts the
   first entry of the next part back into the buffer although another reader has it.
4. `slot_collection`: a collection of two or more entries written to a slot
   waits for a reader that is told only after all are written.
5. `broker_crossing`: events do not say which sender they are for; with
   listeners that have different senders, an entry is left without an event.
6. `threads_ghost`: a thread that wakes up and its watchdog set `STOPPED` and
   `GHOST` at the same time, and an assertion fails.

Further observations, for which there is no run:

* A function that returns `RRR_EVENT_EXIT` in the middle of an amount leaves
  messages that no counter knows of (`CallExit`): `CountersMatch` leaves such functions out.
* `rrr_thread_state_set` prints the thread's name after it has published
  `STOPPED`, for a thread that was never initialized; the main thread may have
  freed it (`Warn`): `FreedNotInUse` allows this step, and TLC finds states in
  which a freed thread is about to take it.
* A collection whose write to a slot is cancelled is announced in full, and
  `rrr_message_broker_write_entries_from_collection_unsafe` overwrites the
  error with the result of the notifications, so that the writing module goes
  on.  The readers keep events without entries.  With one of those, a reader
  may take and free an entry of a later collection before the writing thread
  has shifted it off its list and read its `ptr_next`
  (`message_holder_slot.c:498`): without the exception for `phantoms`, TLC finds
  `NoDangling` violated.  An event of another sender can do the same, as a
  reader polls all its senders for any event; the model has one sender.
* `STOPPING` has the value of `RUNNING_FORKED`, so watchdogs are patient with all threads.
* `wait_for` is evaluated when all threads are already `RUNNING_FORKED` or
  `STOPPED`, so it delays nobody (`MayStart` is always true).

## Not modelled, and the plan

Left out within the modelled parts: ordered FIFO writes (no caller), the rate
limiter, failing write callbacks, copies and allocations in broker and slot, a
`rrr_event_pass` that fails or is cancelled in the broker (the sending module
ends, and the listeners after it are not told), poll callbacks that fail, event
priorities, registration of instances in the broker, unique ids, routes.  A copy
of an entry to all split buffers is one step: each has one reader, so nobody
sees in which order the copies are made.  The 8-bit count of entries written in one
call has a limit in the model and no overflow.

Next modules, in this order:

1. `AsdSession`: udpstream ASD (`lib/udpstream/udpstream_asd.c`), two sessions
   over a network that loses, duplicates and reorders; abstract specification:
   every message queued is delivered once; ids modulo a small bound.
   Theorem: no message is delivered twice while its grace lasts.
2. `CModule`: parent and worker with two `MmapChannel`s (each as its abstract
   `MessageChannel`), retry loops on full channels, exit notification and pid
   bookkeeping with `lib/fork.c`.  Property: no circular wait, no kill of a reused pid.
3. `MqttSession`: QoS 1 and 2 between two sessions over a connection that
   breaks, with packet ids from the pool.  Property: exactly once for QoS 2.
4. `SendLoop`, `MqttTopic` (matching as an operator against a reference definition).

Next theorems: `NoneMissed` and `NoDangling` of the slot, `Duplicated` of the
broker, `ForkOneByOne` and `FreedNotInUse` of the threads, `LastIsEnd` of the
FIFO.  Each invariant is to be strengthened and checked as an invariant of the
run first.  Out of the prover's reach, and left to TLC: liveness, and what
recursive definitions compute for all inputs.

Not planned: parsing and assembling of protocols and messages (byte layout),
transports and sockets (I/O), language bindings, command line programs, and
statistics; they hold no shared state on which the delivery of messages
depends.

## Running

    tlc -config MmapChannel.cfg MmapChannel
    tlc -config MessageBroker.cfg MCMessageBroker
    tlapm MmapChannelProofs.tla

Passing runs take from a few seconds to three minutes, the proofs of the channel
about four minutes.
