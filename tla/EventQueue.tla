----------------------------- MODULE EventQueue ------------------------------
(***************************************************************************)
(* GolfSimEventQueue and the blocking queue under it, at the grain of its   *)
(* critical sections.  Any thread may push; only the FSM thread pops, and   *)
(* its handlers push too.  The mutex makes each critical section one step;  *)
(* the notifications and queue_size_ are outside it and are steps of their  *)
(* own.  Events are allocated by who pushes them and deleted by the loop,   *)
(* which pops as long as PiTrac_running_ is set.                            *)
(*                                                                         *)
(* pc of a push:  "pushing" (to lock the mutex) -> "pushed" (to notify      *)
(*   not_empty) -> "incLoad", "incStore" (queue_size_++), with "notFull"    *)
(*   while asleep on not_full                                              *)
(* pc of a pop:   "popping" -> "popped" (to notify not_full) -> "decLoad",  *)
(*   "decStore" -> "handling", with "notEmpty" while asleep on not_empty    *)
(***************************************************************************)
EXTENDS Integers, Sequences, FiniteSets

CONSTANTS
    Producers,      \* the threads that only push
    Fsm,            \* the FSM thread
    kMaxQueueSize,  \* capacity of the queue
    MaxEvents       \* bound on the number of events ever allocated

ASSUME ThreadAssumption == IsFiniteSet(Producers) /\ Fsm \notin Producers
ASSUME SizeAssumption == kMaxQueueSize \in Nat \ {0} /\ MaxEvents \in Nat \ {0}

VARIABLES
    content,      \* queue::content
    pc,           \* where each thread is
    item,         \* the event a thread is pushing or has popped, or 0
    handled,      \* the event whose handler runs, or 0
    queue_size_,  \* GolfSimEventQueue::queue_size_
    loaded,       \* the value of queue_size_ a thread has read, 0 outside ++ and --
    created,      \* number of events allocated
    live,         \* events allocated and not deleted
    leaked,       \* those of them whose handler threw: the loop forgot the pointer
    running       \* GolfSimGlobals::PiTrac_running_

vars == <<content, pc, item, handled, queue_size_, loaded, created, live,
          leaked, running>>

Threads == Producers \cup {Fsm}
Items == 1..MaxEvents

Goto(t, s) == pc' = [pc EXCEPT ![t] = s]

----------------------------------------------------------------------------
(* Pushing.                                                                *)

\* A thread allocates an event and calls QueueEvent.  Bounded by MaxEvents.
CallPush(t) ==
    /\ pc[t] = IF t = Fsm THEN "handling" ELSE "idle"
    /\ created < MaxEvents
    /\ created' = created + 1
    /\ live' = live \cup {created + 1}
    /\ item' = [item EXCEPT ![t] = created + 1]
    /\ Goto(t, "pushing")
    /\ UNCHANGED <<content, handled, queue_size_, loaded, leaked, running>>

DoPush(t) ==
    /\ pc[t] = "pushing"
    /\ Len(content) < kMaxQueueSize
    /\ content' = Append(content, item[t])
    /\ item' = [item EXCEPT ![t] = 0]
    /\ Goto(t, "pushed")
    /\ UNCHANGED <<handled, queue_size_, loaded, created, live,
                   leaked, running>>

\* not_full.wait: releases the mutex and sleeps.
WaitNotFull(t) ==
    /\ pc[t] = "pushing"
    /\ Len(content) >= kMaxQueueSize
    /\ Goto(t, "notFull")
    /\ UNCHANGED <<content, item, handled, queue_size_, loaded, created, live,
                   leaked, running>>

\* not_empty.notify_one: the FSM thread is the only one that waits on it.
NotifyNotEmpty(t) ==
    /\ pc[t] = "pushed"
    /\ pc' = [pc EXCEPT ![t] = "incLoad",
                        ![Fsm] = IF t = Fsm THEN "incLoad"
                                 ELSE IF @ = "notEmpty" THEN "popping" ELSE @]
    /\ UNCHANGED <<content, item, handled, queue_size_, loaded, created, live,
                   leaked, running>>

LoadSize(t) ==
    /\ pc[t] \in {"incLoad", "decLoad"}
    /\ loaded' = [loaded EXCEPT ![t] = queue_size_]
    /\ Goto(t, IF pc[t] = "incLoad" THEN "incStore" ELSE "decStore")
    /\ UNCHANGED <<content, item, handled, queue_size_, created, live,
                   leaked, running>>

\* The last step of a push.
StoreIncrement(t) ==
    /\ pc[t] = "incStore"
    /\ queue_size_' = loaded[t] + 1
    /\ loaded' = [loaded EXCEPT ![t] = 0]
    /\ Goto(t, IF t = Fsm /\ handled # 0 THEN "returning" ELSE "idle")
    /\ UNCHANGED <<content, item, handled, created, live, leaked, running>>

----------------------------------------------------------------------------
(* Popping, by the FSM thread.                                             *)

\* RunGolfSimFsm tests the flag before each pop.
CallPop ==
    /\ pc[Fsm] = "idle"
    /\ running
    /\ Goto(Fsm, "popping")
    /\ UNCHANGED <<content, item, handled, queue_size_, loaded, created, live,
                   leaked, running>>

\* The loop ends: what is queued stays queued and nobody pops any more.
LeaveLoop ==
    /\ pc[Fsm] = "idle"
    /\ ~running
    /\ Goto(Fsm, "stopped")
    /\ UNCHANGED <<content, item, handled, queue_size_, loaded, created, live,
                   leaked, running>>

\* A mutant: the item is copied out and left in the queue.
DoPopCopying ==
    /\ pc[Fsm] = "popping"
    /\ content # <<>>
    /\ item' = [item EXCEPT ![Fsm] = Head(content)]
    /\ Goto(Fsm, "popped")
    /\ UNCHANGED <<content, handled, queue_size_, loaded, created, live,
                   leaked, running>>

DoPop ==
    /\ pc[Fsm] = "popping"
    /\ content # <<>>
    /\ item' = [item EXCEPT ![Fsm] = Head(content)]
    /\ content' = Tail(content)
    /\ Goto(Fsm, "popped")
    /\ UNCHANGED <<handled, queue_size_, loaded, created, live,
                   leaked, running>>

WaitNotEmpty ==
    /\ pc[Fsm] = "popping"
    /\ content = <<>>
    /\ Goto(Fsm, "notEmpty")
    /\ UNCHANGED <<content, item, handled, queue_size_, loaded, created, live,
                   leaked, running>>

\* A mutant: the pop fails whenever the wait has timed out.
PopTimeoutGivesUp ==
    /\ pc[Fsm] = "notEmpty"
    /\ Goto(Fsm, "popped")
    /\ UNCHANGED <<content, item, handled, queue_size_, loaded, created, live,
                   leaked, running>>

\* not_empty.wait_until ends at its time limit: the predicate decides.
PopTimeout ==
    /\ pc[Fsm] = "notEmpty"
    /\ Goto(Fsm, IF content = <<>> THEN "popped" ELSE "popping")
    /\ UNCHANGED <<content, item, handled, queue_size_, loaded, created, live,
                   leaked, running>>

\* A mutant: nothing is notified after a pop.
PopWithoutNotify ==
    /\ pc[Fsm] = "popped"
    /\ Goto(Fsm, IF item[Fsm] # 0 THEN "decLoad" ELSE "idle")
    /\ UNCHANGED <<content, item, handled, queue_size_, loaded, created, live,
                   leaked, running>>

\* not_full.notify_one, after every pop, even one that timed out.
NotifyNotFull ==
    /\ pc[Fsm] = "popped"
    /\ LET asleep == {t \in Producers : pc[t] = "notFull"}
           after == IF item[Fsm] # 0 THEN "decLoad" ELSE "idle"
       IN  IF asleep = {}
           THEN Goto(Fsm, after)
           ELSE \E t \in asleep :
                   pc' = [pc EXCEPT ![t] = "pushing", ![Fsm] = after]
    /\ UNCHANGED <<content, item, handled, queue_size_, loaded, created, live,
                   leaked, running>>

StoreDecrement ==
    /\ pc[Fsm] = "decStore"
    /\ queue_size_' = loaded[Fsm] - 1
    /\ loaded' = [loaded EXCEPT ![Fsm] = 0]
    /\ handled' = item[Fsm]
    /\ item' = [item EXCEPT ![Fsm] = 0]
    /\ Goto(Fsm, "handling")
    /\ UNCHANGED <<content, created, live, leaked, running>>

\* The handler has returned: the loop deletes the event.
DeleteEvent ==
    /\ pc[Fsm] \in {"handling", "returning"}
    /\ live' = live \ {handled}
    /\ handled' = 0
    /\ Goto(Fsm, "idle")
    /\ UNCHANGED <<content, item, queue_size_, loaded, created, leaked, running>>

\* The handler has thrown: the catch clause deletes nothing.
HandlerThrows ==
    /\ pc[Fsm] = "handling"
    /\ leaked' = leaked \cup {handled}
    /\ handled' = 0
    /\ Goto(Fsm, "idle")
    /\ UNCHANGED <<content, item, queue_size_, loaded, created, live, running>>

\* A signal, or the handling of an Exit, clears the flag.
StopRunning ==
    /\ running
    /\ running' = FALSE
    /\ UNCHANGED <<content, pc, item, handled, queue_size_, loaded, created, live, leaked>>

\* A condition variable may wake a thread that nothing notified.
SpuriousWakeUp(t) ==
    /\ pc[t] \in {"notFull", "notEmpty"}
    /\ Goto(t, IF pc[t] = "notFull" THEN "pushing" ELSE "popping")
    /\ UNCHANGED <<content, item, handled, queue_size_, loaded, created, live,
                   leaked, running>>

----------------------------------------------------------------------------
\* The FSM thread is pushing the first Restart.
Init ==
    /\ content = <<>>
    /\ pc = [t \in Threads |-> IF t = Fsm THEN "pushing" ELSE "idle"]
    /\ item = [t \in Threads |-> IF t = Fsm THEN 1 ELSE 0]
    /\ handled = 0
    /\ queue_size_ = 0
    /\ loaded = [t \in Threads |-> 0]
    /\ created = 1
    /\ live = {1}
    /\ leaked = {}
    /\ running = TRUE

\* What a thread does once it has called QueueEvent.
PushStep(t) ==
    DoPush(t) \/ WaitNotFull(t) \/ NotifyNotEmpty(t) \/ LoadSize(t) \/ StoreIncrement(t)

\* What the FSM thread does around its handlers.
PopStep ==
    \/ CallPop \/ LeaveLoop \/ DoPop \/ WaitNotEmpty \/ PopTimeout \/ NotifyNotFull
    \/ StoreDecrement

\* How a handler ends.
HandlerEnds == DeleteEvent \/ HandlerThrows

Next ==
    \/ \E t \in Threads : CallPush(t) \/ PushStep(t) \/ SpuriousWakeUp(t)
    \/ PopStep
    \/ HandlerEnds
    \/ StopRunning

Spec == Init /\ [][Next]_vars

\* Threads inside the queue are scheduled, and the FSM thread runs its loop
\* between handlers.  Nothing is assumed of the handlers: one of them returns only
\* when the golfer hits the ball.  Nobody has to push, to stop the system or to
\* throw, and no thread wakes by luck.
Fairness ==
    /\ \A t \in Threads : WF_vars(PushStep(t))
    /\ WF_vars(PopStep)

FairSpec == Spec /\ Fairness

----------------------------------------------------------------------------
(* Properties.                                                             *)

PushPcs == {"pushing", "notFull", "pushed", "incLoad", "incStore"}
PopPcs == {"popping", "notEmpty", "popped", "decLoad", "decStore", "handling", "returning",
           "stopped"}

TypeOK ==
    /\ content \in Seq(Items)
    /\ Len(content) <= kMaxQueueSize
    /\ pc \in [Threads -> {"idle"} \cup PushPcs \cup PopPcs]
    /\ \A t \in Producers : pc[t] \in {"idle"} \cup PushPcs
    /\ item \in [Threads -> 0..MaxEvents]
    /\ handled \in 0..MaxEvents
    /\ queue_size_ \in Int
    /\ loaded \in [Threads -> Int]
    /\ created \in Items
    /\ live \subseteq Items
    /\ leaked \subseteq 0..MaxEvents
    /\ running \in BOOLEAN

\* Everything that holds a pointer to an event: threads, the queue, the loop.
Held == {item[t] : t \in Threads} \cup {content[i] : i \in DOMAIN content} \cup {handled}

\* Every event that was allocated and not deleted is held exactly once, by a
\* thread, the queue or the loop, and nobody holds a deleted one; the only events
\* without an owner are those whose handler threw, which leak.
OneOwner ==
    /\ live = (Held \ {0}) \cup leaked
    /\ leaked \cap Held = {}
    /\ \A i, j \in DOMAIN content : content[i] = content[j] => i = j
    /\ \A t \in Threads : item[t] # 0 =>
          /\ item[t] # handled
          /\ \A u \in Threads \ {t} : item[u] # item[t]
          /\ \A i \in DOMAIN content : content[i] # item[t]
    /\ \A i \in DOMAIN content : content[i] # handled

\* The queue keeps the promise of a bounded FIFO: an operation takes effect in
\* its critical section, and one that sleeps has not happened yet.
Operation(t) ==
    CASE pc[t] \in {"pushing", "notFull"} -> [kind |-> "push", item |-> item[t]]
      [] pc[t] = "pushed" -> [kind |-> "pushed", item |-> 0]
      [] pc[t] \in {"popping", "notEmpty"} -> [kind |-> "pop", item |-> 0]
      [] pc[t] = "popped" -> [kind |-> "popped", item |-> item[t]]
      [] OTHER -> [kind |-> "idle", item |-> 0]

Fifo == INSTANCE BoundedFifo WITH
    Capacity <- kMaxQueueSize,
    items <- content,
    op <- [t \in Threads |-> Operation(t)]

ImplementsFifo == Fifo!Spec

\* The threads that will look at the queue's room, or make another look: a
\* pusher that has yet to take the mutex, and a pop that has yet to notify.
OnTheWay == {t \in Threads : pc[t] = "pushing" \/ (t = Fsm /\ pc[t] = "popped")}

\* No wake-up is lost, though the notifications are sent outside the mutex.
\* While a thread sleeps on not_full, somebody is on the way for every place
\* free in the queue; and the FSM thread sleeps beside an item only until the
\* push that brought one has notified it.
NoLostWakeUp ==
    /\ (\E t \in Threads : pc[t] = "notFull") =>
          kMaxQueueSize <= Len(content) + Cardinality(OnTheWay)
    /\ pc[Fsm] = "notEmpty" /\ content # <<>> => \E t \in Producers : pc[t] = "pushed"

\* The FSM thread keeps coming back to the queue: no handler runs for ever, waits
\* for room itself, or has seen the system stop.
FsmKeepsPopping == []<>(pc[Fsm] = "popped")

\* As long as the FSM thread, which alone makes room, keeps popping, a push that
\* finds the queue full is not left asleep.  (Producers push MaxEvents events at
\* most: being overtaken for ever by other pushes is not excluded.)
PushReturns ==
    FsmKeepsPopping => \A t \in Producers : pc[t] = "notFull" ~> pc[t] = "pushed"
=============================================================================
