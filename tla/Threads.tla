------------------------------- MODULE Threads -------------------------------
(***************************************************************************)
(* The threads of the instances, their watchdogs and the main thread that  *)
(* starts and stops them (src/src/lib/threads.c).  A thread and its        *)
(* watchdog talk through one atomic word, the state and the signals of the *)
(* thread.  A change of state is two atomic operations with the old state  *)
(* gone and the new one not there in between; two threads may do that at   *)
(* the same time.                                                          *)
(*                                                                         *)
(* Time is left out: what takes its time may happen at any moment.  The    *)
(* watchdog's own state, which only it uses, is in where it is.  Signals   *)
(* are seen by whoever waits for them (the condition variable is waited    *)
(* for with a timeout).                                                    *)
(***************************************************************************)
EXTENDS Integers, FiniteSets

CONSTANTS
    N,              \* number of threads
    Setups          \* what the threads do, see setup below

T == 1..N

\* "exit": a module fails or ends by itself; "hang": it may hang; "cancel"
\* and "ghost": the time a watchdog gives it to stop passes, and the time
\* after it has cancelled it; "slow": the main thread gives up waiting
ASSUME ThreadsAssumption ==
    /\ N \in Nat \ {0}
    /\ Setups \subseteq
         [forks : SUBSET T, shutdown : SUBSET T, waitFor : [T -> SUBSET T],
          features : SUBSET {"exit", "hang", "cancel", "ghost", "slow"}]
    /\ \A c \in Setups : \A t \in T : t \notin c.waitFor[t]

VARIABLES
    state,          \* state bits of every thread
    signal,         \* signal bits of every thread
    wsignal,        \* signal bits of every watchdog
    th,             \* where every thread is
    wd,             \* where every watchdog is
    main,           \* where the main thread is
    cancelled,      \* threads that have been cancelled
    freed,          \* threads whose memory has been freed
    failed,         \* an assertion has failed, the program has ended
    setup           \* never changes: the threads that fork before they run,
                    \* those that set STOPPING when their loop has ended, the
                    \* wait_for of their instances, and what may go wrong

vars == <<state, signal, wsignal, th, wd, main, cancelled, freed, failed>>

\* RUNNING_FORKED and STOPPING are the same bit.
Bits == {"NEW", "INITIALIZED", "RUNNING_FORKED", "STOPPED", "GHOST"}

STOPPING == "RUNNING_FORKED"

Signals == {"INITIALIZE", "BEFOREFORK", "AFTERFORK", "ENCOURAGE_STOP"}

\* START_WATCHDOG is the same signal as START_AFTERFORK.
START_WATCHDOG == "AFTERFORK"

Init ==
    /\ setup \in Setups
    /\ state = [t \in T |-> {"NEW"}]
    /\ signal = [t \in T |-> {}]
    /\ wsignal = [t \in T |-> {}]
    /\ th = [t \in T |-> [pc |-> "created", new |-> "NEW", then |-> "", old |-> {}]]
    /\ wd = [t \in T |-> [pc |-> "created", old |-> {}]]
    /\ main = [pc |-> "initialize", pos |-> 1, retry |-> FALSE]
    /\ cancelled = {}
    /\ freed = {}
    /\ failed = FALSE

\* rrr_thread_state_check: any of the given states.
In(t, states) == state[t] \cap states # {}

Has(t, s) == s \in signal[t]

-----------------------------------------------------------------------------
(* Threads *)

At(t, pc) == th[t].pc = pc

Goto(t, pc) ==
    /\ th' = [th EXCEPT ![t].pc = pc]
    /\ UNCHANGED <<state, signal, wsignal, wd, main, cancelled, freed, failed>>

\* rrr_thread_state_set: the first atomic operation...
Set(t, new, then) ==
    /\ state' = [state EXCEPT ![t] = {}]
    /\ th' = [th EXCEPT ![t] = [pc |-> "set", new |-> new, then |-> then, old |-> state[t]]]
    /\ UNCHANGED <<signal, wsignal, wd, main, cancelled, freed, failed>>

\* The assertions on the old state.  assert(old_state != new_state) is left
\* out: the old state is the whole word, with the signals of a thread that has
\* been told to start, and the new one has no signals.
Bad(old) == old \cap {"STOPPED", "GHOST"} # {}

\* mutant: the two operations in the other order.
SetStateErases(t) ==
    /\ At(t, "set")
    /\ th' = [th EXCEPT ![t].pc = th[t].then]
    /\ UNCHANGED <<state, signal, wsignal, wd, main, cancelled, freed, failed>>

\* ...the second one and the assertions.  With the state set to STOPPED, a
\* warning is printed for a thread that has not been initialized.
SetState(t) ==
    /\ At(t, "set")
    /\ state' = [state EXCEPT ![t] = @ \cup {th[t].new}]
    /\ failed' = Bad(th[t].old)
    /\ th' = [th EXCEPT ![t].pc =
                CASE Bad(th[t].old) -> "set"
                  [] ~Bad(th[t].old) /\ th[t].new = "STOPPED" /\ th[t].old \subseteq {"NEW"} -> "warn"
                  [] OTHER -> th[t].then]
    /\ UNCHANGED <<signal, wsignal, wd, main, cancelled, freed>>

\* The warning has the name of the thread in it.
Warn(t) == At(t, "warn") /\ Goto(t, "gone")

\* __rrr_thread_start_routine_intermediate
Start(t) ==
    /\ At(t, "created") /\ Has(t, "INITIALIZE")
    /\ Goto(t, IF Has(t, "ENCOURAGE_STOP") THEN "cleanup" ELSE "module")

\* The module allocates what it needs, or fails.
Initialized(t) == At(t, "module") /\ Set(t, "INITIALIZED", "before")

InitFails(t) == "exit" \in setup.features /\ At(t, "module") /\ Goto(t, "cleanup")

\* rrr_thread_start_condition_helper_fork and _nofork
BeforeFork(t) ==
    /\ At(t, "before") /\ Has(t, "BEFOREFORK")
    /\ IF t \in setup.forks THEN Goto(t, "forking") ELSE Set(t, "RUNNING_FORKED", "after")

Forked(t) == At(t, "forking") /\ Set(t, "RUNNING_FORKED", "after")

AfterFork(t) == At(t, "after") /\ Has(t, "AFTERFORK") /\ Goto(t, "running")

\* The module's loop ends.
Leave(t) ==
    /\ At(t, "running")
    /\ Has(t, "ENCOURAGE_STOP") \/ "exit" \in setup.features
    /\ IF t \in setup.shutdown THEN Set(t, STOPPING, "cleanup") ELSE Goto(t, "cleanup")

Hang(t) == "hang" \in setup.features /\ At(t, "running") /\ Goto(t, "hung")

Wake(t) == At(t, "hung") /\ Goto(t, "running")

\* A cancelled thread gets to a cancellation point.
Cancelled(t) ==
    /\ t \in cancelled
    /\ th[t].pc \in {"created", "module", "before", "forking", "after", "running", "hung"}
    /\ Goto(t, "cleanup")

\* The cleanup handlers; the last one sets STOPPED.
Stop(t) == At(t, "cleanup") /\ Set(t, "STOPPED", "gone")

ThreadStep(t) ==
    \/ SetState(t) \/ Warn(t) \/ Start(t) \/ Initialized(t) \/ InitFails(t)
    \/ BeforeFork(t) \/ Forked(t) \/ AfterFork(t) \/ Leave(t) \/ Cancelled(t) \/ Stop(t)

-----------------------------------------------------------------------------
(* __rrr_thread_watchdog_entry *)

WAt(t, pc) == wd[t].pc = pc

WGoto(t, pc) ==
    /\ wd' = [wd EXCEPT ![t].pc = pc]
    /\ UNCHANGED <<state, signal, wsignal, th, main, cancelled, freed, failed>>

WatchStart(t) ==
    /\ WAt(t, "created")
    /\ {"INITIALIZE", START_WATCHDOG} \subseteq wsignal[t]
    /\ WGoto(t, "watch")

\* The loop: the signals, then the state in two loads, then the time.
WatchSignal(t) ==
    WAt(t, "watch") /\ WGoto(t, IF Has(t, "ENCOURAGE_STOP") THEN "shutdown" ELSE "check")

WatchRunning(t) ==
    WAt(t, "check") /\ WGoto(t, IF In(t, {"RUNNING_FORKED"}) THEN "timer" ELSE "check2")

WatchInitialized(t) ==
    WAt(t, "check2") /\ WGoto(t, IF In(t, {"INITIALIZED"}) THEN "timer" ELSE "shutdown")

\* A thread that runs updates its timer; one that hangs, or takes its time to
\* start or to clean up, does not.
WatchTimer(t) ==
    /\ WAt(t, "timer")
    /\ \/ WGoto(t, "watch")
       \/ ~At(t, "running") /\ WGoto(t, "shutdown")

ShutdownBegin(t) ==
    /\ WAt(t, "shutdown")
    /\ IF In(t, {"STOPPED"}) THEN WGoto(t, "out")
       ELSE /\ signal' = [signal EXCEPT ![t] = @ \cup {"ENCOURAGE_STOP"}]
            /\ wd' = [wd EXCEPT ![t].pc = "pass1"]
            /\ UNCHANGED <<state, wsignal, th, main, cancelled, freed, failed>>

\* Pass 1: more patient with threads that have set STOPPING...
Pass1Patient(t) ==
    /\ WAt(t, "pass1")
    /\ ~In(t, {"STOPPED"}) /\ In(t, {STOPPING})
    /\ WGoto(t, "patient")

Pass1Again(t) == WAt(t, "patient") /\ WGoto(t, "pass1")

Pass1Stopped(t) == WAt(t, "pass1") /\ In(t, {"STOPPED"}) /\ WGoto(t, "pass2")

\* ...until the time is over.
Pass1Late(t) ==
    /\ "cancel" \in setup.features
    /\ WAt(t, "pass1") /\ ~In(t, {"STOPPED"})
    /\ WGoto(t, "cancel")

\* mutant: the cancelled thread gets no time.
CancelTags(t) ==
    /\ WAt(t, "cancel")
    /\ cancelled' = cancelled \cup {t}
    /\ wd' = [wd EXCEPT ![t].pc = "tag"]
    /\ UNCHANGED <<state, signal, wsignal, th, main, freed, failed>>

\* pthread_cancel
Cancel(t) ==
    /\ WAt(t, "cancel")
    /\ cancelled' = cancelled \cup {t}
    /\ wd' = [wd EXCEPT ![t].pc = "pass2"]
    /\ UNCHANGED <<state, signal, wsignal, th, main, freed, failed>>

Pass2Stopped(t) == WAt(t, "pass2") /\ In(t, {"STOPPED"}) /\ WGoto(t, "out")

\* mutant: the time that the cancelled thread has is never over.
Pass2NoGhost(t) == WAt(t, "pass2") /\ ~In(t, {"STOPPED"}) /\ WGoto(t, "pass2")

\* The thread has not stopped and the time is over...
Pass2Ghost(t) ==
    /\ "ghost" \in setup.features
    /\ WAt(t, "pass2") /\ ~In(t, {"STOPPED"})
    /\ WGoto(t, "tag")

\* ...rrr_thread_state_set(thread, RRR_THREAD_STATE_GHOST).
Tag(t) ==
    /\ WAt(t, "tag")
    /\ state' = [state EXCEPT ![t] = {}]
    /\ wd' = [wd EXCEPT ![t] = [pc |-> "tagset", old |-> state[t]]]
    /\ UNCHANGED <<signal, wsignal, th, main, cancelled, freed, failed>>

TagSet(t) ==
    /\ WAt(t, "tagset")
    /\ state' = [state EXCEPT ![t] = @ \cup {"GHOST"}]
    /\ failed' = Bad(wd[t].old)
    /\ wd' = [wd EXCEPT ![t].pc = "out"]
    /\ UNCHANGED <<signal, wsignal, th, main, cancelled, freed>>

WatchdogExit(t) == WAt(t, "out") /\ WGoto(t, "exited")

WatchdogStep(t) ==
    \/ WatchStart(t) \/ WatchSignal(t) \/ WatchRunning(t) \/ WatchInitialized(t)
    \/ WatchTimer(t) \/ ShutdownBegin(t) \/ Pass1Patient(t) \/ Pass1Again(t)
    \/ Pass1Stopped(t) \/ Pass1Late(t) \/ Cancel(t) \/ Pass2Stopped(t) \/ Pass2Ghost(t)
    \/ Tag(t) \/ TagSet(t) \/ WatchdogExit(t)

-----------------------------------------------------------------------------
(* The main thread *)

MAt(pc) == main.pc = pc

\* On to the next thread, or to the next phase after the last one.
Onward(pc) ==
    main' = IF main.pos < N THEN [main EXCEPT !.pos = @ + 1]
            ELSE [pc |-> pc, pos |-> 1, retry |-> FALSE]

Send(t, s) == signal' = [signal EXCEPT ![t] = @ \cup s]

WSend(t, s) == wsignal' = [wsignal EXCEPT ![t] = @ \cup s]

\* rrr_thread_collection_signal_start_procedure_all
SignalInitialize ==
    /\ MAt("initialize")
    /\ Send(main.pos, {"INITIALIZE"}) /\ WSend(main.pos, {"INITIALIZE"})
    /\ Onward("wait")
    /\ UNCHANGED <<state, th, wd, cancelled, freed, failed>>

\* mutant: the watchdogs start when their threads are initialized.
WaitInitializedWatch ==
    /\ MAt("wait")
    /\ In(main.pos, {"INITIALIZED", "STOPPED"})
    /\ WSend(main.pos, {START_WATCHDOG})
    /\ Onward("before")
    /\ UNCHANGED <<state, signal, th, wd, cancelled, freed, failed>>

\* __rrr_thread_wait_for_state_initialized: RUNNING_FORKED is a bug.
WaitInitialized ==
    /\ MAt("wait")
    /\ In(main.pos, {"INITIALIZED", "STOPPED", "RUNNING_FORKED"})
    /\ failed' = In(main.pos, {"RUNNING_FORKED"})
    /\ Onward("before")
    /\ UNCHANGED <<state, signal, wsignal, th, wd, cancelled, freed>>

\* mutant: start as rrr_thread_start_now_with_watchdog does.
SignalBeforeForkAll ==
    /\ MAt("before")
    /\ Send(main.pos, {"BEFOREFORK", "AFTERFORK"}) /\ WSend(main.pos, {START_WATCHDOG})
    /\ main' = [main EXCEPT !.pc = "forked"]
    /\ UNCHANGED <<state, th, wd, cancelled, freed, failed>>

SignalBeforeFork ==
    /\ MAt("before")
    /\ Send(main.pos, {"BEFOREFORK"})
    /\ main' = [main EXCEPT !.pc = "forked"]
    /\ UNCHANGED <<state, wsignal, th, wd, cancelled, freed, failed>>

\* mutant: the main thread does not wait.
WaitForkedNot ==
    /\ MAt("forked")
    /\ main' = IF main.pos < N THEN [main EXCEPT !.pc = "before", !.pos = @ + 1]
               ELSE [main EXCEPT !.pc = "after", !.pos = 1]
    /\ UNCHANGED <<state, signal, wsignal, th, wd, cancelled, freed, failed>>

\* __rrr_thread_wait_for_state_forked
WaitForked ==
    /\ MAt("forked")
    /\ In(main.pos, {"RUNNING_FORKED", "STOPPED"})
    /\ main' = IF main.pos < N THEN [main EXCEPT !.pc = "before", !.pos = @ + 1]
               ELSE [main EXCEPT !.pc = "after", !.pos = 1]
    /\ UNCHANGED <<state, signal, wsignal, th, wd, cancelled, freed, failed>>

\* The start_check callback looks at the instances of wait_for.  The loop
\* is repeated until all threads have been told to start.
MayStart(t) == \A u \in setup.waitFor[t] : In(u, {"RUNNING_FORKED", "STOPPED"})

SignalAfterFork ==
    LET retry == main.retry \/ ~MayStart(main.pos)
    IN  /\ MAt("after")
        /\ IF MayStart(main.pos) THEN Send(main.pos, {"AFTERFORK"}) ELSE UNCHANGED signal
        /\ main' = IF main.pos < N THEN [main EXCEPT !.pos = @ + 1, !.retry = retry]
                   ELSE [pc |-> IF retry THEN "after" ELSE "watchdogs", pos |-> 1, retry |-> FALSE]
        /\ UNCHANGED <<state, wsignal, th, wd, cancelled, freed, failed>>

SignalWatchdog ==
    /\ MAt("watchdogs")
    /\ WSend(main.pos, {START_WATCHDOG})
    /\ Onward("run")
    /\ UNCHANGED <<state, signal, th, wd, cancelled, freed, failed>>

\* A thread does not get to INITIALIZED or RUNNING_FORKED in time.
GiveUp ==
    /\ "slow" \in setup.features
    /\ main.pc \in {"wait", "forked"}
    /\ main' = [pc |-> "stop", pos |-> 1, retry |-> FALSE]
    /\ UNCHANGED <<state, signal, wsignal, th, wd, cancelled, freed, failed>>

\* The program is to end, or a thread has stopped.
MainStops ==
    /\ MAt("run")
    /\ main' = [main EXCEPT !.pc = "stop"]
    /\ UNCHANGED <<state, signal, wsignal, th, wd, cancelled, freed, failed>>

\* __rrr_thread_collection_stop_and_join_all_nolock
StopSignal ==
    /\ MAt("stop")
    /\ Send(main.pos, Signals) /\ WSend(main.pos, Signals)
    /\ Onward("join")
    /\ UNCHANGED <<state, th, wd, cancelled, freed, failed>>

Join ==
    /\ MAt("join")
    /\ WAt(main.pos, "exited")
    /\ Onward("destroy")
    /\ UNCHANGED <<state, signal, wsignal, th, wd, cancelled, freed, failed>>

\* mutant: ghosts are freed, too.
DestroyAll ==
    /\ MAt("destroy")
    /\ freed' = freed \cup {main.pos}
    /\ Onward("done")
    /\ UNCHANGED <<state, signal, wsignal, th, wd, cancelled, failed>>

\* rrr_thread_collection_destroy
Destroy ==
    /\ MAt("destroy")
    /\ freed' = IF In(main.pos, {"GHOST"}) THEN freed ELSE freed \cup {main.pos}
    /\ Onward("done")
    /\ UNCHANGED <<state, signal, wsignal, th, wd, cancelled, failed>>

MainStep ==
    \/ SignalInitialize \/ WaitInitialized \/ SignalBeforeFork \/ WaitForked
    \/ SignalAfterFork \/ SignalWatchdog \/ GiveUp \/ StopSignal \/ Join \/ Destroy

-----------------------------------------------------------------------------

Next ==
    /\ ~failed /\ UNCHANGED setup
    /\ \/ \E t \in T : ThreadStep(t) \/ Hang(t) \/ Wake(t) \/ WatchdogStep(t)
       \/ MainStep \/ MainStops

Spec == Init /\ [][Next]_<<vars, setup>>

\* The main thread and the watchdogs run, and time passes.  Nothing is
\* assumed of the modules: a thread that initializes, forks, runs or hangs
\* may do so for ever.
FairSpec ==
    /\ Spec
    /\ WF_vars(~failed /\ MainStep /\ UNCHANGED setup)
    /\ \A t \in T :
         /\ WF_vars(~failed /\ WatchdogStep(t) /\ UNCHANGED setup)
         /\ SF_vars(~failed /\ (Pass1Late(t) \/ Pass1Stopped(t)) /\ UNCHANGED setup)

-----------------------------------------------------------------------------
(* Properties *)

ThreadPCs == {"created", "module", "before", "forking", "after", "running", "hung",
              "cleanup", "set", "warn", "gone"}

TypeOK ==
    /\ state \in [T -> SUBSET Bits]
    /\ \A t \in T : state[t] = {} => At(t, "set") \/ WAt(t, "tagset")
    /\ signal \in [T -> SUBSET Signals] /\ wsignal \in [T -> SUBSET Signals]
    /\ \A t \in T : th[t].pc \in ThreadPCs
    /\ main.pos \in T
    /\ cancelled \subseteq T /\ freed \subseteq T
    /\ setup \in Setups

Undisturbed(t) == ~Has(t, "ENCOURAGE_STOP")

\* "The threads must then fork one by one as there might be race conditions"
\* (threads.c): two threads are never between BEFOREFORK and RUNNING_FORKED,
\* unless they have been told to stop, which gives all signals at once.
ForkOneByOne ==
    \A t, u \in T :
       At(t, "forking") /\ At(u, "forking") /\ Undisturbed(t) /\ Undisturbed(u) => t = u

\* "we ensure here that the downstream modules functions are not started
\* untill all threads have been started" (threads.c): no thread runs before
\* all have initialized, or ended.
AllInitializedFirst ==
    \A t, u \in T : At(t, "running") /\ Undisturbed(t) =>
       th[u].pc \notin {"created", "module", "before", "forking"}

\* A watchdog that finds its thread neither INITIALIZED nor RUNNING_FORKED
\* is right: the thread is past its loop.  The watchdog reads the state
\* twice while the thread may be between the two halves of a change.
NoSpuriousStop ==
    [][\A t \in T : WAt(t, "check2") /\ wd'[t].pc = "shutdown" =>
          th[t].pc \in {"cleanup", "warn", "gone"}
          \/ (At(t, "set") /\ th[t].then \in {"cleanup", "gone"})]_vars

\* rrr_thread_collection_destroy frees no thread that is in its module's
\* code or in the cleanup handlers before the last one: whoever hangs is a
\* ghost, and the watchdogs have been joined before.  The last handler, which
\* sets STOPPED, is allowed, and not because it were safe there: a ghost that
\* is changing its state at that moment can be freed (AssertsHold is about
\* that), and so can a thread that has set STOPPED and is about to print its
\* name in the warning after it ("warn", threads.c:218), which reads memory
\* that the main thread may have freed since.  "STOPPED must be set at the
\* very end" (threads.c:919) holds up to that warning only.
FreedNotInUse == \A t \in freed : th[t].pc \in {"set", "warn", "gone"}

\* assert(!(old_state & RRR_THREAD_STATE_STOPPED)) and
\* assert(!(old_state & RRR_THREAD_STATE_GHOST)) in rrr_thread_state_set, and
\* no thread has "started prior to receiving signal" (RRR_BUG in
\* __rrr_thread_wait_for_state_initialized).
AssertsHold == ~failed

\* They do hold as long as no watchdog makes its thread a ghost.
AssertsHoldNoGhost == "ghost" \notin setup.features => AssertsHold

\* Stopping the threads ends, whatever the threads do, where the time a
\* watchdog gives its thread does pass.
StopEnds ==
    {"cancel", "ghost"} \subseteq setup.features /\ MAt("stop") ~> (MAt("done") \/ failed)
=============================================================================
