-------------------------- MODULE EventQueueProofs --------------------------
(***************************************************************************)
(* Proofs about the event queue for any functions, limits and features.    *)
(* The counters and the flags are typed separately: the provers treat      *)
(* arithmetic and Boolean-valued functions with different means.           *)
(***************************************************************************)
EXTENDS EventQueue, TLAPS

Counters ==
    /\ items \in [Functions -> Nat] /\ unpassed \in [Functions -> Nat]
    /\ passing \in [Functions -> Nat] /\ failed \subseteq Functions
    /\ eventfd \in [Functions -> 0..FdMax] /\ deferred \in [Functions -> Nat]
    /\ loop \in [pc : {"wait", "stopped"} \cup Handlers, count : Nat, retries : 0..Retries]
    /\ sent \in 0..MaxMsgs

Flags ==
    /\ isPaused \in [Functions -> BOOLEAN] /\ added \in [Functions -> BOOLEAN]
    /\ active \in [Functions -> BOOLEAN] /\ timer \in BOOLEAN

\* While a function is called nothing is deferred for it: what is deferred at
\* the end overwrites no earlier amount.
NothingDeferred == \A f \in Handlers : loop.pc = f => deferred[f] = 0

(* The type invariant is that of the counters and that of the flags. *)
LEMMA TypeOKSplit == TypeOK <=> Counters /\ Flags
  BY Zenon DEF TypeOK, Counters, Flags

-----------------------------------------------------------------------------
(* The counters *)

(* rrr_event_queue_new: all counters are zero. *)
LEMMA InitCounters == Init => Counters /\ NothingDeferred /\ NoPhantom /\ CountersMatch
  BY EventAssumption
  DEF Init, Counters, NothingDeferred, NoPhantom, CountersMatch, Counted, InCall, Zero, NoCall

(* A step that changes what is counted by as much as the messages keeps the
   balance. *)
LEMMA SameBalance ==
    ASSUME Counters, Counters',
           \A g \in Handlers : items'[g] - Counted(g)' = items[g] - Counted(g)
    PROVE  /\ NoPhantom => NoPhantom'
           /\ CountersMatch => CountersMatch'
<1>1. \A g \in Handlers : g \in Functions
  BY EventAssumption
<1>2. \A g \in Functions : InCall(g) \in Nat /\ InCall(g)' \in Nat
  BY DEF Counters, InCall
<1>3. \A g \in Functions : /\ items[g] \in Int /\ items'[g] \in Int
                           /\ Counted(g) \in Int /\ Counted(g)' \in Int
  BY <1>2, EventAssumption DEF Counters, Counted
<1>. QED  BY <1>1, <1>3 DEF NoPhantom, CountersMatch

(* A message that is written raises both sides of the balance. *)
LEMMA SendCounters ==
    ASSUME Counters, NothingDeferred, NEW f \in Functions, Send(f)
    PROVE  /\ Counters' /\ NothingDeferred'
           /\ NoPhantom => NoPhantom'
           /\ CountersMatch => CountersMatch'
<1>1. Counters' /\ NothingDeferred'
  BY EventAssumption DEF Counters, NothingDeferred, Send
<1>2. ASSUME NEW g \in Handlers
      PROVE  items'[g] - Counted(g)' = items[g] - Counted(g)
  BY EventAssumption DEF Counters, Counted, InCall, Send
<1>. QED  BY <1>1, <1>2, SameBalance

(* rrr_event_pass moves a number to the eventfd, or leaves it with the sender. *)
LEMMA PassCounters ==
    ASSUME Counters, NothingDeferred, NEW f \in Functions, PassBegin(f) \/ Pass(f) \/ PassFail(f)
    PROVE  /\ Counters' /\ NothingDeferred'
           /\ NoPhantom => NoPhantom'
           /\ CountersMatch => CountersMatch'
<1>1. CASE PassBegin(f)
  <2>0. PICK n \in 1..Lower(unpassed[f], MaxPass) :
          /\ passing' = [passing EXCEPT ![f] = n]
          /\ unpassed' = [unpassed EXCEPT ![f] = @ - n]
    BY <1>1 DEF PassBegin
  <2>1. n \in Nat /\ unpassed[f] - n \in Nat /\ passing[f] = 0
    BY <1>1, EventAssumption DEF Counters, Lower, PassBegin, Sends
  <2>2. Counters' /\ NothingDeferred'
    BY <1>1, <2>0, <2>1 DEF Counters, NothingDeferred, PassBegin
  <2>3. ASSUME NEW g \in Handlers
        PROVE  items'[g] - Counted(g)' = items[g] - Counted(g)
    BY <1>1, <2>0, <2>1, EventAssumption DEF Counters, Counted, InCall, PassBegin
  <2>. QED  BY <2>2, <2>3, SameBalance
<1>2. CASE Pass(f)
  <2>1. Counters' /\ NothingDeferred'
    BY <1>2, EventAssumption DEF Counters, NothingDeferred, Pass
  <2>2. ASSUME NEW g \in Handlers
        PROVE  items'[g] - Counted(g)' = items[g] - Counted(g)
    BY <1>2, EventAssumption DEF Counters, Counted, InCall, Pass
  <2>. QED  BY <2>1, <2>2, SameBalance
<1>3. CASE PassFail(f)
  BY <1>3, EventAssumption
  DEF Counters, NothingDeferred, NoPhantom, CountersMatch, Counted, InCall, PassFail
<1>. QED  BY <1>1, <1>2, <1>3

(* The handler moves the deferred amount or the eventfd to its local count. *)
LEMMA TakeCounters ==
    ASSUME Counters, NothingDeferred, NEW f \in Functions, Take(f)
    PROVE  /\ Counters' /\ NothingDeferred'
           /\ NoPhantom => NoPhantom'
           /\ CountersMatch => CountersMatch'
<1>1. /\ loop.pc = "wait"
      /\ UNCHANGED <<items, unpassed, passing, failed, sent>>
      /\ IF deferred[f] > 0
         THEN deferred' = [deferred EXCEPT ![f] = 0] /\ eventfd' = eventfd
         ELSE eventfd' = [eventfd EXCEPT ![f] = 0] /\ deferred' = deferred
      /\ loop' = IF f \in Handlers THEN [pc |-> f, retries |-> Retries, count |-> Amount(f)]
                 ELSE [pc |-> "wait", count |-> 0, retries |-> 0]
  BY DEF Take, Resume, Enter, NoCall, senderVars
<1>2. Amount(f) \in Nat
  BY EventAssumption DEF Counters, Amount
<1>3. Counters' /\ NothingDeferred'
  BY <1>1, <1>2, EventAssumption DEF Counters, NothingDeferred
<1>4. ASSUME NEW g \in Handlers
      PROVE  items'[g] - Counted(g)' = items[g] - Counted(g)
  BY <1>1, EventAssumption DEF Counters, Counted, InCall, Amount
<1>. QED  BY <1>3, <1>4, SameBalance

(* A function that handles k messages lowers the count by k, never below zero. *)
LEMMA CallCounters ==
    ASSUME Counters, NothingDeferred, NEW f \in Functions, Call(f), NoPhantom
    PROVE  /\ Counters' /\ NothingDeferred'
           /\ NoPhantom'
           /\ CountersMatch => CountersMatch'
<1>1. PICK k \in Handled(f, Lower(loop.count, MaxAmount)) :
         /\ items' = [items EXCEPT ![f] = @ - k]
         /\ loop' = [loop EXCEPT !.count = @ - k, !.retries = @ - 1]
  BY DEF Call
<1>2. /\ loop.pc = f /\ f \in Handlers
      /\ loop.count > 0 /\ loop.retries > 0
      /\ UNCHANGED <<unpassed, passing, failed, eventfd, deferred, sent>>
  BY EventAssumption DEF Call, Counters, senderVars
<1>3. k \in Nat /\ k <= loop.count /\ k <= items[f]
  BY <1>1, <1>2, EventAssumption DEF Counters, Handled, Lower
<1>4. Counters' /\ NothingDeferred'
  <2>1. loop' = [pc |-> loop.pc, count |-> loop.count - k, retries |-> loop.retries - 1]
    BY <1>1 DEF Counters
  <2>2. loop.count - k \in Nat /\ loop.retries - 1 \in 0..Retries /\ items[f] - k \in Nat
    BY <1>2, <1>3, EventAssumption DEF Counters
  <2>3. items' \in [Functions -> Nat]
    BY <1>1, <2>2 DEF Counters
  <2>. QED  BY <1>2, <2>1, <2>2, <2>3 DEF Counters, NothingDeferred
<1>5. /\ \A g \in Functions : items'[g] = IF g = f THEN items[g] - k ELSE items[g]
      /\ \A g \in Functions : InCall(g)' = IF g = f THEN loop.count - k ELSE InCall(g)
      /\ InCall(f) = loop.count
  BY <1>1, <1>2, <1>3 DEF Counters, InCall
<1>6. NoPhantom' /\ (CountersMatch => CountersMatch')
  BY <1>2, <1>3, <1>5, EventAssumption DEF Counters, NoPhantom, CountersMatch, Counted
<1>. QED  BY <1>4, <1>6

(* A function that ends the loop drops the rest of the count, which keeps
   NoPhantom, and the balance of all other functions. *)
LEMMA ExitCounters ==
    ASSUME Counters, NothingDeferred, NEW f \in Functions, CallExit(f), NoPhantom
    PROVE  /\ Counters' /\ NothingDeferred'
           /\ NoPhantom'
           /\ CountersMatch => CountersMatch'
<1>1. Counters' /\ NothingDeferred' /\ NoPhantom'
  BY EventAssumption
  DEF Counters, NothingDeferred, NoPhantom, Counted, InCall, CallExit, Handled, Lower, Stopped,
      NoCall, senderVars
<1>2. CountersMatch => CountersMatch'
  BY EventAssumption
  DEF Counters, CountersMatch, Counted, InCall, CallExit, Stopped, NoCall, senderVars
<1>. QED  BY <1>1, <1>2

(* The rest of the count is deferred and overwrites nothing. *)
LEMMA DoneCounters ==
    ASSUME Counters, NothingDeferred, NEW f \in Functions, Done(f), NoPhantom
    PROVE  /\ Counters' /\ NothingDeferred'
           /\ NoPhantom'
           /\ CountersMatch => CountersMatch'
  BY EventAssumption
  DEF Counters, NothingDeferred, NoPhantom, CountersMatch, Counted, InCall, Done, NoCall,
      senderVars

(* Pauses and the ends of loops leave the counters alone. *)
LEMMA RestCounters ==
    ASSUME Counters, NothingDeferred, NoPhantom,
           (\E f \in Functions : Pause(f) \/ TakeFail(f)) \/ Unpause \/ Break \/ Dispatch
    PROVE  /\ Counters' /\ NothingDeferred'
           /\ NoPhantom'
           /\ CountersMatch => CountersMatch'
  BY EventAssumption
  DEF Counters, NothingDeferred, NoPhantom, CountersMatch, Counted, InCall, Pause, TakeFail, Resume,
      Unpause, Break,
      Dispatch, Stopped, NoCall, senderVars

-----------------------------------------------------------------------------
(* The flags *)

\* An event that is activated, or whose handler runs, is added: a pause, the
\* only step that deletes it, takes place between handlers and undoes the
\* activation.
Watched == \A f \in Functions : active[f] \/ loop.pc = f => added[f]

FlagInv == Flags /\ PausedHasTimer /\ DeferredIsActive /\ Watched

\* In a handler the loop does not wait.
LEMMA NotWaiting == \A f \in Functions : f # "wait" /\ f # "stopped"
  BY EventAssumption

(* rrr_event_queue_new adds all signal events. *)
LEMMA InitFlags == Init => FlagInv
<1>. SUFFICES ASSUME Init PROVE FlagInv
  OBVIOUS
<1>1. Flags /\ PausedHasTimer /\ Watched
  BY Zenon DEF Init, Flags, PausedHasTimer, Watched, None
<1>2. DeferredIsActive
  BY SMT DEF Init, DeferredIsActive, Zero
<1>. QED  BY <1>1, <1>2 DEF FlagInv

(* Steps that leave the flags and the deferred amounts alone. *)
LEMMA SameFlags ==
    ASSUME FlagInv, UNCHANGED <<isPaused, added, active, timer, deferred, loop.pc>>
    PROVE  FlagInv'
  BY Zenon DEF FlagInv, Flags, PausedHasTimer, DeferredIsActive, Watched

(* A pause deletes the signal event and starts the timer. *)
LEMMA PauseFlags ==
    ASSUME FlagInv, NEW f \in Functions, Pause(f)
    PROVE  FlagInv'
<1>1. Flags'
  BY Zenon DEF FlagInv, Flags, Pause
<1>2. ASSUME NEW g \in Functions
      PROVE  /\ added'[g] \/ (isPaused'[g] /\ timer')
             /\ deferred'[g] > 0 => active'[g] \/ isPaused'[g]
             /\ active'[g] \/ loop'.pc = g => added'[g]
  <2>0. loop'.pc # g
    BY NotWaiting DEF Pause
  <2>1. CASE g = f
    BY <2>0, <2>1, Zenon DEF FlagInv, Flags, Pause
  <2>2. CASE g # f
    BY <2>0, <2>2, Zenon DEF FlagInv, Flags, Pause, PausedHasTimer, DeferredIsActive, Watched
  <2>. QED  BY <2>1, <2>2
<1>. QED  BY <1>1, <1>2, Zenon DEF FlagInv, PausedHasTimer, DeferredIsActive, Watched

(* The handler that runs is active no more and has nothing deferred. *)
LEMMA TakeFlags ==
    ASSUME FlagInv, Counters, NEW f \in Functions, Take(f)
    PROVE  FlagInv'
<1>1. Flags'
  BY Zenon DEF FlagInv, Flags, Take, Resume
<1>2. /\ \A g \in Functions \ {f} : deferred'[g] = deferred[g]
      /\ ~(deferred'[f] > 0)
  BY DEF Take, Counters
<1>3. added[f]
  BY Zenon DEF Take, Resume, Fires, FlagInv, Watched
<1>4. \A g \in Functions \ {f} : loop'.pc # g
  BY NotWaiting DEF Take, Enter, NoCall
<1>5. ASSUME NEW g \in Functions
      PROVE  /\ added'[g] \/ (isPaused'[g] /\ timer')
             /\ deferred'[g] > 0 => active'[g] \/ isPaused'[g]
             /\ active'[g] \/ loop'.pc = g => added'[g]
  <2>1. CASE g = f
    BY <1>2, <1>3, <2>1, Zenon DEF Take, Resume
  <2>2. CASE g # f
    BY <1>2, <1>4, <2>2, Zenon
    DEF FlagInv, Flags, Take, Resume, PausedHasTimer, DeferredIsActive, Watched
  <2>. QED  BY <2>1, <2>2
<1>. QED  BY <1>1, <1>5, Zenon DEF FlagInv, PausedHasTimer, DeferredIsActive, Watched

(* What the handler defers it activates. *)
LEMMA DoneFlags ==
    ASSUME FlagInv, Counters, NothingDeferred, NEW f \in Functions, Done(f)
    PROVE  FlagInv'
<1>1. Flags'
  <2>1. active' \in [Functions -> BOOLEAN]
    BY Zenon DEF FlagInv, Flags, Done
  <2>. QED  BY <2>1, Zenon DEF FlagInv, Flags, Done
<1>2. /\ \A g \in Functions \ {f} : deferred'[g] = deferred[g] /\ active'[g] = active[g]
      /\ active'[f] = (active[f] \/ loop.count > 0)
  BY Zenon DEF Done, Counters, FlagInv, Flags
<1>3. deferred'[f] > 0 => loop.count > 0
  BY EventAssumption DEF Done, Counters, NothingDeferred
<1>4. added[f] /\ \A g \in Functions : loop'.pc # g
  <2>1. added[f]
    BY Zenon DEF Done, FlagInv, Watched
  <2>. QED  BY <2>1, NotWaiting DEF Done, NoCall
<1>5. ASSUME NEW g \in Functions
      PROVE  /\ added'[g] \/ (isPaused'[g] /\ timer')
             /\ deferred'[g] > 0 => active'[g] \/ isPaused'[g]
             /\ active'[g] \/ loop'.pc = g => added'[g]
  <2>1. CASE g = f
    BY <1>2, <1>3, <1>4, <2>1, Zenon DEF Done
  <2>2. CASE g # f
    BY <1>2, <1>4, <2>2, Zenon
    DEF FlagInv, Flags, Done, PausedHasTimer, DeferredIsActive, Watched
  <2>. QED  BY <2>1, <2>2
<1>. QED  BY <1>1, <1>5, Zenon DEF FlagInv, PausedHasTimer, DeferredIsActive, Watched

(* The timer adds back every paused function. *)
LEMMA UnpauseFlags ==
    ASSUME FlagInv, Unpause
    PROVE  FlagInv'
<1>1. Flags'
  BY Zenon DEF FlagInv, Flags, Unpause
<1>. QED  BY <1>1, Zenon DEF FlagInv, Flags, Unpause, PausedHasTimer, DeferredIsActive, Watched

(* A read that fails ends a pause and leaves what is in the eventfd: nothing
   was deferred. *)
LEMMA TakeFailFlags ==
    ASSUME FlagInv, Counters, NEW f \in Functions, TakeFail(f)
    PROVE  FlagInv'
<1>1. Flags'
  BY Zenon DEF FlagInv, Flags, TakeFail, Resume
<1>2. ~(deferred'[f] > 0) /\ deferred' = deferred
  BY DEF TakeFail
<1>3. added[f]
  BY Zenon DEF TakeFail, Resume, Fires, FlagInv, Watched
<1>4. \A g \in Functions : loop'.pc # g
  BY NotWaiting DEF TakeFail, Stopped, NoCall
<1>5. ASSUME NEW g \in Functions
      PROVE  /\ added'[g] \/ (isPaused'[g] /\ timer')
             /\ deferred'[g] > 0 => active'[g] \/ isPaused'[g]
             /\ active'[g] \/ loop'.pc = g => added'[g]
  <2>1. CASE g = f
    BY <1>2, <1>3, <2>1, Zenon DEF TakeFail, Resume
  <2>2. CASE g # f
    BY <1>2, <1>4, <2>2, Zenon
    DEF FlagInv, Flags, TakeFail, Resume, PausedHasTimer, DeferredIsActive, Watched
  <2>. QED  BY <2>1, <2>2
<1>. QED  BY <1>1, <1>5, Zenon DEF FlagInv, PausedHasTimer, DeferredIsActive, Watched

(* The ends of loops leave the flags alone. *)
LEMMA StopFlags ==
    ASSUME FlagInv, Break \/ Dispatch \/ \E f \in Functions : CallExit(f)
    PROVE  FlagInv'
<1>1. \A g \in Functions : loop'.pc # g
  BY NotWaiting DEF Break, Dispatch, CallExit, Stopped, NoCall,
      senderVars
<1>2. UNCHANGED <<isPaused, added, active, timer, deferred>>
  BY Zenon DEF Break, Dispatch, CallExit, flags
<1>. QED  BY <1>1, <1>2, Zenon DEF FlagInv, Flags, PausedHasTimer, DeferredIsActive, Watched

(* A call of a function leaves the flags alone. *)
LEMMA CallFlags ==
    ASSUME FlagInv, Counters, NEW f \in Functions, Call(f)
    PROVE  FlagInv'
<1>1. loop'.pc = loop.pc
  BY DEF Call, Counters
<1>2. UNCHANGED <<isPaused, added, active, timer, deferred>>
  BY Zenon DEF Call, flags
<1>. QED  BY <1>1, <1>2, SameFlags

-----------------------------------------------------------------------------
(* The theorems *)

IInv == Counters /\ NothingDeferred /\ NoPhantom /\ FlagInv

(* The initial states satisfy the inductive invariant. *)
LEMMA InitIInv == Init => IInv
  BY InitCounters, InitFlags DEF IInv

(* Every step keeps the inductive invariant. *)
LEMMA StepIInv ==
    ASSUME IInv, [Next]_vars
    PROVE  IInv'
<1>1. ASSUME NEW f \in Functions, Send(f) \/ PassBegin(f) \/ Pass(f) \/ PassFail(f)
      PROVE  IInv'
  <2>1. Counters' /\ NothingDeferred' /\ NoPhantom'
    BY <1>1, SendCounters, PassCounters DEF IInv
  <2>2. UNCHANGED <<isPaused, added, active, timer, deferred, loop.pc>>
    BY <1>1 DEF Send, PassBegin, Pass, PassFail, flags
  <2>. QED  BY <2>1, <2>2, SameFlags DEF IInv
<1>2. ASSUME NEW f \in Functions, TakeFail(f) PROVE IInv'
  BY <1>2, RestCounters, TakeFailFlags DEF IInv
<1>3. ASSUME NEW f \in Functions, Pause(f) PROVE IInv'
  BY <1>3, RestCounters, PauseFlags DEF IInv
<1>4. ASSUME NEW f \in Functions, Take(f) PROVE IInv'
  BY <1>4, TakeCounters, TakeFlags DEF IInv
<1>5. ASSUME NEW f \in Functions, Call(f) PROVE IInv'
  BY <1>5, CallCounters, CallFlags DEF IInv
<1>6. ASSUME NEW f \in Functions, CallExit(f) PROVE IInv'
  BY <1>6, ExitCounters, StopFlags DEF IInv
<1>7. ASSUME NEW f \in Functions, Done(f) PROVE IInv'
  BY <1>7, DoneCounters, DoneFlags DEF IInv
<1>8. CASE Unpause
  BY <1>8, RestCounters, UnpauseFlags DEF IInv
<1>9. CASE Break \/ Dispatch
  BY <1>9, RestCounters, StopFlags DEF IInv
<1>10. CASE UNCHANGED vars
  BY <1>10, Zenon
  DEF vars, senderVars, flags, IInv, Counters, NothingDeferred, NoPhantom, Counted, InCall,
      FlagInv, Flags, PausedHasTimer, DeferredIsActive, Watched
<1>. QED
  BY <1>1, <1>2, <1>3, <1>4, <1>5, <1>6, <1>7, <1>8, <1>9, <1>10, Zenon DEF Next

\* The inductive invariant behind the theorems below.
THEOREM EventInvariant == Spec => []IInv
  BY InitIInv, StepIInv, PTL DEF Spec

\* Every variable of the event queue keeps its type; the eventfd counter
\* stays within its limit.
THEOREM EventTypes == Spec => []TypeOK
<1>1. IInv => TypeOK
  BY TypeOKSplit DEF IInv, FlagInv
<1>. QED  BY <1>1, EventInvariant, PTL

\* No function is told of more messages than wait for it, whatever functions
\* pause, fail or exit.
THEOREM NoPhantomEvents == Spec => []NoPhantom
<1>1. IInv => NoPhantom
  BY DEF IInv
<1>. QED  BY <1>1, EventInvariant, PTL

\* A function deleted by a pause has the timer running, for any number of
\* functions that share it.
THEOREM PausesEnd == Spec => []PausedHasTimer
<1>1. IInv => PausedHasTimer
  BY DEF IInv, FlagInv
<1>. QED  BY <1>1, EventInvariant, PTL

\* A deferred amount is activated, or its function has been paused since.
THEOREM DeferredServed == Spec => []DeferredIsActive
<1>1. IInv => DeferredIsActive
  BY DEF IInv, FlagInv
<1>. QED  BY <1>1, EventInvariant, PTL

\* The counters of a function that does not end the loop match its messages
\* at all times.
THEOREM CountersExact == Spec => []CountersMatch
<1>1. Init => CountersMatch
  BY InitCounters
<1>2. ASSUME IInv, CountersMatch, [Next]_vars
      PROVE  CountersMatch'
  <2>1. ASSUME NEW f \in Functions,
               \/ Send(f) \/ PassBegin(f) \/ Pass(f) \/ PassFail(f)
               \/ Take(f) \/ Call(f) \/ CallExit(f) \/ Done(f)
        PROVE  CountersMatch'
    BY <1>2, <2>1, SendCounters, PassCounters, TakeCounters, CallCounters, ExitCounters,
       DoneCounters
    DEF IInv
  <2>2. ASSUME NEW f \in Functions, Pause(f) \/ TakeFail(f)
        PROVE  CountersMatch'
    BY <1>2, <2>2, RestCounters DEF IInv
  <2>3. CASE Unpause \/ Break \/ Dispatch
    BY <1>2, <2>3, RestCounters DEF IInv
  <2>4. CASE UNCHANGED vars
    BY <1>2, <2>4, Zenon DEF vars, senderVars, flags, CountersMatch, Counted, InCall
  <2>. QED
    BY <1>2, <2>1, <2>2, <2>3, <2>4, Zenon DEF Next
<1>. QED  BY <1>1, <1>2, EventInvariant, PTL DEF Spec
=============================================================================
