----------------------------- MODULE EventQueue -----------------------------
(***************************************************************************)
(* The event queue of a module thread (src/src/lib/event/event.c).         *)
(* A sender puts messages where the function of an event will find them,   *)
(* then passes their number (rrr_event_pass), which the kernel adds to the *)
(* counter of the function's eventfd.  The thread's dispatch loop reads    *)
(* the counter and calls the function until the number is used up.  What   *)
(* five calls do not use is deferred.  A function may be paused: its       *)
(* signal event is deleted and added back by a timer.                      *)
(*                                                                         *)
(* libevent is external: an added signal event fires while the eventfd is  *)
(* readable, event_active makes it fire once, event_del undoes both.       *)
(***************************************************************************)
EXTENDS Integers

CONSTANTS
    Functions,      \* event codes
    Handlers,       \* those for which rrr_event_function_set was called
    MaxAmount,      \* 0xffff: the most a function is told to handle at once
    MaxPass,        \* 0xff: the most that is passed at once
    FdMax,          \* largest value of an eventfd counter
    Retries,        \* 5: calls of a function per dispatch
    Pauses,         \* functions that have a pause callback
    Exits,          \* those that may return RRR_EVENT_EXIT or an error
    MaxMsgs         \* bound: number of messages

ASSUME EventAssumption ==
    /\ Handlers \subseteq Functions
    /\ {"wait", "stopped"} \cap Functions = {}
    /\ MaxAmount \in Nat \ {0} /\ MaxPass \in Nat \ {0}
    /\ FdMax \in Nat /\ MaxPass <= FdMax
    /\ Retries \in Nat \ {0} /\ MaxMsgs \in Nat
    /\ Pauses \subseteq Functions /\ Exits \subseteq Functions

VARIABLES
    items,          \* messages a function has yet to handle
    unpassed,       \* of those, how many the sender has yet to pass on as events
    passing,        \* the amount the sender is passing on, 0 when it is not
    failed,         \* functions whose sender has given up
    eventfd,        \* the eventfd counter of every function
    deferred,       \* queue->deferred_amount
    isPaused,       \* function->is_paused
    added,          \* the signal event is added (pending in libevent)
    active,         \* event_active was called for the signal event
    timer,          \* unpause_event is pending
    loop,           \* the dispatch loop: where it is, and the local variables
    sent            \* number of messages sent so far

senderVars == <<unpassed, passing, failed, sent>>

flags == <<isPaused, added, active, timer>>

vars == <<items, senderVars, eventfd, deferred, flags, loop>>

NoCall == [pc |-> "wait", count |-> 0, retries |-> 0]

Stopped == [NoCall EXCEPT !.pc = "stopped"]

Zero == [f \in Functions |-> 0]

None == [f \in Functions |-> FALSE]

Higher(x, y) == IF x < y THEN y ELSE x      \* mutant of Lower

Lower(x, y) == IF x < y THEN x ELSE y

\* rrr_event_queue_new adds the signal events of all functions.
Init ==
    /\ items = Zero /\ unpassed = Zero /\ passing = Zero /\ failed = {}
    /\ eventfd = Zero /\ deferred = Zero
    /\ isPaused = None /\ active = None
    /\ added = [f \in Functions |-> TRUE]
    /\ timer = FALSE
    /\ loop = NoCall
    /\ sent = 0

-----------------------------------------------------------------------------
(* Senders: one thread for every function *)

Sends(f) == f \notin failed /\ passing[f] = 0

\* A sender writes a message to its buffer...
Send(f) ==
    /\ Sends(f)
    /\ sent < MaxMsgs
    /\ sent' = sent + 1
    /\ items' = [items EXCEPT ![f] = @ + 1]
    /\ unpassed' = [unpassed EXCEPT ![f] = @ + 1]
    /\ UNCHANGED <<passing, failed, eventfd, deferred, flags, loop>>

\* ...and calls rrr_event_pass with the number it has written.
PassBegin(f) ==
    /\ Sends(f)
    /\ \E n \in 1..Lower(unpassed[f], MaxPass) :
         /\ passing' = [passing EXCEPT ![f] = n]
         /\ unpassed' = [unpassed EXCEPT ![f] = @ - n]
    /\ UNCHANGED <<items, failed, sent, eventfd, deferred, flags, loop>>

\* rrr_socket_eventfd_write succeeds.  A counter that would overflow answers
\* NOT_READY, and the same amount is tried again.
Pass(f) ==
    /\ f \notin failed /\ passing[f] > 0
    /\ eventfd[f] + passing[f] <= FdMax
    /\ eventfd' = [eventfd EXCEPT ![f] = @ + passing[f]]
    /\ passing' = [passing EXCEPT ![f] = 0]
    /\ UNCHANGED <<items, unpassed, failed, sent, deferred, flags, loop>>

\* The eventfd cannot be written, or the retry callback tells the sender to
\* stop: rrr_event_pass returns an error, which ends the sending module.
PassFail(f) ==
    /\ f \notin failed /\ passing[f] > 0
    /\ failed' = failed \cup {f}
    /\ UNCHANGED <<items, unpassed, passing, sent, eventfd, deferred, flags, loop>>

-----------------------------------------------------------------------------
(* __rrr_event_signal_event *)

Fires(f) == active[f] \/ (added[f] /\ eventfd[f] > 0)

\* The pause callback asks for a pause.  It looks at queues of the module that
\* other events and other threads fill and empty: any answer is possible.
Pause(f) ==
    /\ loop.pc = "wait"
    /\ Fires(f)
    /\ f \in Pauses
    /\ isPaused' = [isPaused EXCEPT ![f] = TRUE]
    /\ added' = [added EXCEPT ![f] = FALSE]
    /\ active' = [active EXCEPT ![f] = FALSE]
    /\ timer' = TRUE
    /\ UNCHANGED <<items, senderVars, eventfd, deferred, loop>>

\* The function is not paused, or not any more.
Resume(f) ==
    /\ loop.pc = "wait"
    /\ Fires(f)
    /\ isPaused' = [isPaused EXCEPT ![f] = FALSE]
    /\ active' = [active EXCEPT ![f] = FALSE]
    /\ UNCHANGED <<added, timer>>

Amount(f) == IF deferred[f] > 0 THEN deferred[f] ELSE eventfd[f]

\* With no function set the amount is forgotten.
Enter(f) ==
    loop' = IF f \in Handlers THEN [pc |-> f, retries |-> Retries, count |-> Amount(f)]
            ELSE NoCall

\* mutant: the deferred amount is used and kept.
TakeKeeps(f) ==
    /\ Resume(f)
    /\ eventfd' = [eventfd EXCEPT ![f] = IF deferred[f] > 0 THEN @ ELSE 0]
    /\ Enter(f)
    /\ UNCHANGED <<items, senderVars, deferred>>

\* The number is taken from the deferred amount, or else from the eventfd.
Take(f) ==
    /\ Resume(f)
    /\ IF deferred[f] > 0
       THEN deferred' = [deferred EXCEPT ![f] = 0] /\ UNCHANGED eventfd
       ELSE eventfd' = [eventfd EXCEPT ![f] = 0] /\ UNCHANGED deferred
    /\ Enter(f)
    /\ UNCHANGED <<items, senderVars>>

\* The eventfd cannot be read: the loop is ended.
TakeFail(f) ==
    /\ Resume(f)
    /\ deferred[f] = 0
    /\ loop' = Stopped
    /\ UNCHANGED <<items, senderVars, eventfd, deferred>>

\* What one call of the function may handle of the amount it is given: all
\* there is, or less.  It may find its buffer empty or locked, or have a limit
\* of its own.
Handled(f, amount) == 0..Lower(amount, items[f])

\* One turn of the loop, the function returns 0.
Call(f) ==
    /\ loop.pc = f
    /\ loop.count > 0 /\ loop.retries > 0
    /\ \E k \in Handled(f, Lower(loop.count, MaxAmount)) :
         /\ items' = [items EXCEPT ![f] = @ - k]
         /\ loop' = [loop EXCEPT !.count = @ - k, !.retries = @ - 1]
    /\ UNCHANGED <<senderVars, eventfd, deferred, flags>>

\* The function returns RRR_EVENT_EXIT or an error: the loop is ended at
\* once, with whatever is left of count.
CallExit(f) ==
    /\ f \in Exits
    /\ loop.pc = f
    /\ loop.count > 0 /\ loop.retries > 0
    /\ \E k \in Handled(f, Lower(loop.count, MaxAmount)) :
         items' = [items EXCEPT ![f] = @ - k]
    /\ loop' = Stopped
    /\ UNCHANGED <<senderVars, eventfd, deferred, flags>>

\* mutants: what is left is forgotten, or it is deferred and not activated.
DoneWith(f, d) ==
    /\ loop.pc = f
    /\ loop.count = 0 \/ loop.retries = 0
    /\ deferred' = d
    /\ loop' = NoCall
    /\ UNCHANGED <<items, senderVars, eventfd, flags>>

DoneForgets(f) == DoneWith(f, deferred)

DoneNotActive(f) ==
    DoneWith(f, [deferred EXCEPT ![f] = IF loop.count > 0 THEN loop.count ELSE @])

\* The end of the handler: what is left is deferred.
Done(f) ==
    /\ loop.pc = f
    /\ loop.count = 0 \/ loop.retries = 0
    /\ deferred' = [deferred EXCEPT ![f] = IF loop.count > 0 THEN loop.count ELSE @]
    /\ active' = [active EXCEPT ![f] = @ \/ loop.count > 0]
    /\ loop' = NoCall
    /\ UNCHANGED <<items, senderVars, eventfd, isPaused, added, timer>>

-----------------------------------------------------------------------------
(* The rest of the thread *)

\* mutant: only one of the paused functions is added back.
UnpauseOne ==
    /\ loop.pc = "wait"
    /\ timer
    /\ timer' = FALSE
    /\ \E f \in Functions : isPaused[f] /\ added' = [added EXCEPT ![f] = TRUE]
    /\ UNCHANGED <<items, senderVars, eventfd, deferred, isPaused, active, loop>>

\* mutant: the timer is started again for as long as functions are paused.
UnpauseWaits ==
    /\ loop.pc = "wait"
    /\ timer
    /\ UNCHANGED vars

\* __rrr_event_unpause
Unpause ==
    /\ loop.pc = "wait"
    /\ timer
    /\ timer' = FALSE
    /\ added' = [f \in Functions |-> added[f] \/ isPaused[f]]
    /\ UNCHANGED <<items, senderVars, eventfd, deferred, isPaused, active, loop>>

\* rrr_event_dispatch_break and _exit, or a periodic function that returns
\* non-zero: the loop ends between two handlers.
Break ==
    /\ loop.pc = "wait"
    /\ loop' = Stopped
    /\ UNCHANGED <<items, senderVars, eventfd, deferred, flags>>

\* The module calls rrr_event_dispatch again.
Dispatch ==
    /\ loop.pc = "stopped"
    /\ loop' = NoCall
    /\ UNCHANGED <<items, senderVars, eventfd, deferred, flags>>

-----------------------------------------------------------------------------

Next ==
    \/ \E f \in Functions :
         \/ Send(f) \/ PassBegin(f) \/ Pass(f) \/ PassFail(f)
         \/ Pause(f) \/ Take(f) \/ TakeFail(f)
         \/ Call(f) \/ CallExit(f) \/ Done(f)
    \/ Unpause \/ Break \/ Dispatch

Spec == Init /\ [][Next]_vars

\* A call in which the function handles a message.
Progress(f) == Call(f) /\ items'[f] < items[f]

\* Threads that send get to pass what they wrote; the loop serves events that
\* fire; functions that are called again and again find their buffers unlocked
\* sometimes; a module that pauses again and again works off its queue, so
\* that its callback tells it to go on sometimes; a module that has ended its
\* loop starts it again.  Nothing is assumed of the order among functions.
FairSpec ==
    /\ Spec
    /\ WF_vars(\E f \in Functions : PassBegin(f) \/ Pass(f))
    /\ SF_vars(Unpause) /\ WF_vars(Dispatch)
    /\ SF_vars(\E f \in Functions : Take(f))
    /\ WF_vars(\E f \in Functions : Call(f) \/ Done(f))
    /\ SF_vars(\E f \in Functions : Progress(f))

-----------------------------------------------------------------------------
(* Properties *)

TypeOK ==
    /\ items \in [Functions -> Nat] /\ unpassed \in [Functions -> Nat]
    /\ passing \in [Functions -> Nat] /\ failed \subseteq Functions
    /\ eventfd \in [Functions -> 0..FdMax] /\ deferred \in [Functions -> Nat]
    /\ isPaused \in [Functions -> BOOLEAN] /\ added \in [Functions -> BOOLEAN]
    /\ active \in [Functions -> BOOLEAN] /\ timer \in BOOLEAN
    /\ loop \in [pc : {"wait", "stopped"} \cup Handlers, count : Nat, retries : 0..Retries]
    /\ sent \in 0..MaxMsgs

InCall(f) == IF loop.pc = f THEN loop.count ELSE 0

\* What is known of the messages for a function: what the sender has not
\* passed on yet, the eventfd, the deferred amount and the count of the
\* running handler.
Counted(f) == unpassed[f] + passing[f] + eventfd[f] + deferred[f] + InCall(f)

\* "The event framework has counters of how many messages a module is to
\* receive, and these must match the actual number of messages at all times"
\* (README.dev.md): the counters of a function add up to the messages that
\* wait for it, unless the function ends the loop.  (What a sender that gives
\* up has not passed on stays counted as its own.)
CountersMatch == \A f \in Handlers \ Exits : items[f] = Counted(f)

\* A function is never told of more messages than wait for it: it would be
\* called in a busy loop for nothing.  This holds also when loops are ended
\* and started again.
NoPhantom == \A f \in Handlers : items[f] >= Counted(f)

\* A function that libevent does not watch has the unpause timer running: no
\* sequence of pauses of several functions leaves one of them deleted.
PausedHasTimer ==
    \A f \in Functions : added[f] \/ (isPaused[f] /\ timer)

\* A deferred amount has been activated, so that the loop comes back to it
\* without a new event, unless the function was paused in between.  (The timer
\* that ends a pause does not activate it again: see AllPolled.)
DeferredIsActive ==
    \A f \in Functions : deferred[f] > 0 => active[f] \/ isPaused[f]

\* "the module is forced to poll all messages passed to it, and the event
\* callback function will be called in a busy loop until all pending messages
\* have been polled" (README.dev.md): every message sent is handled, unless
\* the sender has failed to pass it on.
Polled(f) == (items[f] > 0 /\ f \notin failed) ~> (items[f] = 0 \/ f \in failed)

AllPolled == \A f \in Handlers : Polled(f)

\* What holds of that: a function that is never paused and does not end the
\* loop handles every message, in however many calls; and whatever pauses,
\* ends and restarts there are, an amount in an eventfd is taken up.
PolledInTime ==
    /\ \A f \in Handlers \ (Exits \cup Pauses) : Polled(f)
    /\ \A f \in Functions : (eventfd[f] > 0) ~> (eventfd[f] = 0)
=============================================================================
