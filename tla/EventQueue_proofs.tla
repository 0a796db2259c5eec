-------------------------- MODULE EventQueue_proofs --------------------------
(* Theorems about EventQueue, for every set of producers and capacity.      *)
EXTENDS EventQueue, TLAPS, FiniteSetTheorems

USE ThreadAssumption, SizeAssumption

\* A thread has an event in hand exactly while it is pushing one, or from the
\* pop that returned it to the update of the counter.
QueueInv ==
    /\ TypeOK
    /\ \A t \in Threads :
          /\ pc[t] \in {"pushing", "notFull"} => item[t] \in Items
          /\ pc[t] \notin {"pushing", "notFull", "popped", "decLoad", "decStore"} =>
                item[t] = 0

LEMMA QueueInit == Init => QueueInv
BY DEF Init, QueueInv, TypeOK, Threads, Items, PushPcs, PopPcs

LEMMA QueueStep == QueueInv /\ [Next]_vars => QueueInv'
<1> SUFFICES ASSUME QueueInv, [Next]_vars PROVE QueueInv'
  OBVIOUS
<1> USE DEF QueueInv, TypeOK, Threads, Items, PushPcs, PopPcs, Goto
<1>1. ASSUME NEW t \in Threads, CallPush(t) PROVE QueueInv'
  BY <1>1 DEF CallPush
<1>2. ASSUME NEW t \in Threads, DoPush(t) PROVE QueueInv'
  BY <1>2 DEF DoPush
<1>3. ASSUME NEW t \in Threads, WaitNotFull(t) PROVE QueueInv'
  BY <1>3 DEF WaitNotFull
<1>4. ASSUME NEW t \in Threads, NotifyNotEmpty(t) PROVE QueueInv'
  BY <1>4 DEF NotifyNotEmpty
<1>5. ASSUME NEW t \in Threads, LoadSize(t) PROVE QueueInv'
  BY <1>5 DEF LoadSize
<1>6. ASSUME NEW t \in Threads, StoreIncrement(t) PROVE QueueInv'
  <2>1. pc[t] = "incStore" /\ item[t] = 0
    BY <1>6 DEF StoreIncrement
  <2>2. queue_size_' \in Int
    BY <1>6 DEF StoreIncrement
  <2>3. CASE t = Fsm /\ handled # 0
    BY <1>6, <2>1, <2>2, <2>3 DEF StoreIncrement
  <2>4. CASE ~(t = Fsm /\ handled # 0)
    BY <1>6, <2>1, <2>2, <2>4 DEF StoreIncrement
  <2> QED
    BY <2>3, <2>4
<1>7. ASSUME NEW t \in Threads, SpuriousWakeUp(t) PROVE QueueInv'
  BY <1>7 DEF SpuriousWakeUp
<1>8. CASE CallPop
  BY <1>8 DEF CallPop
<1>9. CASE DoPop
  BY <1>9 DEF DoPop
<1>10. CASE WaitNotEmpty
  BY <1>10 DEF WaitNotEmpty
<1>11. CASE PopTimeout
  BY <1>11 DEF PopTimeout
<1>12. CASE NotifyNotFull
  BY <1>12 DEF NotifyNotFull
<1>13. CASE StoreDecrement
  BY <1>13 DEF StoreDecrement
<1>14. CASE DeleteEvent
  BY <1>14 DEF DeleteEvent
<1>15. CASE HandlerThrows
  <2>1. pc[Fsm] = "handling" /\ item[Fsm] = 0 /\ pc' = [pc EXCEPT ![Fsm] = "idle"]
    BY <1>15 DEF HandlerThrows
  <2>2. TypeOK'
    BY <1>15, <2>1 DEF HandlerThrows
  <2> QED
    BY <1>15, <2>1, <2>2 DEF HandlerThrows
<1>16. CASE UNCHANGED vars
  BY <1>16 DEF vars
<1>17. CASE LeaveLoop
  BY <1>17 DEF LeaveLoop
<1>18. CASE StopRunning
  BY <1>18 DEF StopRunning
<1> QED
  BY <1>1, <1>2, <1>3, <1>4, <1>5, <1>6, <1>7, <1>8, <1>9, <1>10, <1>11, <1>12, <1>13, <1>14, <1>15, <1>16, <1>17, <1>18 DEF Next, PushStep, PopStep, HandlerEnds

\* The type invariant: in particular the queue never outgrows its capacity.
THEOREM QueueTypeCorrect == Spec => []TypeOK
<1>1. QueueInv => TypeOK
  BY DEF QueueInv
<1> QED
  BY QueueInit, QueueStep, <1>1, PTL DEF Spec

----------------------------------------------------------------------------
(* The queue implements a bounded FIFO: each step of a thread is a step of  *)
(* the operation it is in, or leaves every operation where it was.          *)

Ops == [t \in Threads |-> Operation(t)]

LEMMA OperationValues ==
    ASSUME NEW t \in Threads
    PROVE  /\ pc[t] \in {"pushing", "notFull"} => Operation(t) = Fifo!Op("push", item[t])
           /\ pc[t] = "pushed" => Operation(t) = Fifo!Op("pushed", 0)
           /\ pc[t] \in {"popping", "notEmpty"} => Operation(t) = Fifo!Op("pop", 0)
           /\ pc[t] = "popped" => Operation(t) = Fifo!Op("popped", item[t])
           /\ pc[t] \notin {"pushing", "notFull", "pushed", "popping", "notEmpty", "popped"} =>
                 Operation(t) = Fifo!Idle
BY DEF Operation, Fifo!Op, Fifo!Idle

LEMMA FifoInit == Init => Fifo!Init
<1> SUFFICES ASSUME Init PROVE Fifo!Init
  OBVIOUS
<1>1. \A t \in Threads : Operation(t) \in {Fifo!Idle} \cup {Fifo!Op("push", x) : x \in Items}
  BY OperationValues DEF Init, Items
<1> QED
  BY <1>1 DEF Init, Fifo!Init

\* A step that changes only the operation of t.
LEMMA OneOperation ==
    ASSUME NEW t \in Threads,
           \A u \in Threads \ {t} : Operation(u)' = Operation(u)
    PROVE  Ops' = [Ops EXCEPT ![t] = Operation(t)']
BY DEF Ops

LEMMA NoOperation ==
    ASSUME \A u \in Threads : Operation(u)' = Operation(u), UNCHANGED content
    PROVE  UNCHANGED Fifo!vars
BY DEF Fifo!vars

LEMMA FifoStep == QueueInv /\ QueueInv' /\ [Next]_vars => [Fifo!Next]_Fifo!vars
<1> SUFFICES ASSUME QueueInv, QueueInv', [Next]_vars PROVE [Fifo!Next]_Fifo!vars
  OBVIOUS
<1> USE DEF QueueInv, TypeOK, Threads, PushPcs, PopPcs, Goto, Operation
<1>1. ASSUME NEW t \in Threads, CallPush(t) PROVE Fifo!Next
  <2>1. Ops' = [Ops EXCEPT ![t] = Operation(t)']
    BY <1>1, OneOperation DEF CallPush
  <2>2. Operation(t) = Fifo!Idle /\ Operation(t)' = Fifo!Op("push", item'[t]) /\ item'[t] \in Items
    BY <1>1 DEF CallPush, Fifo!Idle, Fifo!Op
  <2>3. \E x \in Items : Fifo!CallPush(t, x)
    BY <1>1, <2>1, <2>2 DEF CallPush, Fifo!CallPush, Ops
  <2> QED
    BY <2>3 DEF Fifo!Next
<1>2. ASSUME NEW t \in Threads, DoPush(t) PROVE Fifo!Next
  <2>1. Ops' = [Ops EXCEPT ![t] = Operation(t)']
    BY <1>2, OneOperation DEF DoPush
  <2>2. Operation(t).kind = "push" /\ Operation(t).item = item[t] /\ Operation(t)' = Fifo!Op("pushed", 0)
    BY <1>2 DEF DoPush, Fifo!Op
  <2>3. Fifo!DoPush(t)
    BY <1>2, <2>1, <2>2 DEF DoPush, Fifo!DoPush, Ops
  <2> QED
    BY <2>3 DEF Fifo!Next
<1>3. ASSUME NEW t \in Threads, NotifyNotEmpty(t) PROVE Fifo!Next
  <2>1. Ops' = [Ops EXCEPT ![t] = Operation(t)']
    <3>1. \A u \in Threads \ {t} : Operation(u)' = Operation(u)
      <4> TAKE u \in Threads \ {t}
      <4>1. CASE pc[u] = "notEmpty" /\ pc'[u] = "popping"
        BY <4>1, OperationValues, <1>3 DEF NotifyNotEmpty
      <4>2. CASE pc'[u] = pc[u]
        BY <4>2, <1>3 DEF NotifyNotEmpty
      <4>3. (pc[u] = "notEmpty" /\ pc'[u] = "popping") \/ pc'[u] = pc[u]
        BY <1>3 DEF NotifyNotEmpty
      <4> QED BY <4>1, <4>2, <4>3
    <3> QED BY <3>1, OneOperation
  <2>2. Operation(t).kind = "pushed" /\ Operation(t)' = Fifo!Idle
    BY <1>3 DEF NotifyNotEmpty, Fifo!Idle
  <2>3. Fifo!Return(t)
    BY <1>3, <2>1, <2>2 DEF NotifyNotEmpty, Fifo!Return, Ops
  <2> QED
    BY <2>3 DEF Fifo!Next
<1>4. CASE CallPop
  <2>1. Ops' = [Ops EXCEPT ![Fsm] = Operation(Fsm)']
    BY <1>4, OneOperation DEF CallPop
  <2>2. Operation(Fsm) = Fifo!Idle /\ Operation(Fsm)' = Fifo!Op("pop", 0)
    BY <1>4 DEF CallPop, Fifo!Idle, Fifo!Op
  <2>3. Fifo!CallPop(Fsm)
    BY <1>4, <2>1, <2>2 DEF CallPop, Fifo!CallPop, Ops
  <2> QED
    BY <2>3 DEF Fifo!Next
<1>5. CASE DoPop
  <2>1. Ops' = [Ops EXCEPT ![Fsm] = Operation(Fsm)']
    BY <1>5, OneOperation DEF DoPop
  <2>2. Operation(Fsm).kind = "pop" /\ Operation(Fsm)' = Fifo!Op("popped", Head(content))
    BY <1>5 DEF DoPop, Fifo!Op
  <2>3. Fifo!DoPop(Fsm)
    BY <1>5, <2>1, <2>2 DEF DoPop, Fifo!DoPop, Ops
  <2> QED
    BY <2>3 DEF Fifo!Next
<1>6. CASE PopTimeout
  <2>1. CASE content = <<>>
    <3>1. Ops' = [Ops EXCEPT ![Fsm] = Operation(Fsm)']
      BY <1>6, OneOperation DEF PopTimeout
    <3>2. Operation(Fsm).kind = "pop" /\ Operation(Fsm)' = Fifo!Op("popped", 0)
      BY <1>6, <2>1 DEF PopTimeout, Fifo!Op
    <3>3. Fifo!FailPop(Fsm)
      BY <1>6, <2>1, <3>1, <3>2 DEF PopTimeout, Fifo!FailPop, Ops
    <3> QED
      BY <3>3 DEF Fifo!Next
  <2>2. CASE content # <<>>
    BY <1>6, <2>2, NoOperation DEF PopTimeout
  <2> QED
    BY <2>1, <2>2
<1>7. CASE NotifyNotFull
  <2>1. Ops' = [Ops EXCEPT ![Fsm] = Operation(Fsm)']
    BY <1>7, OneOperation DEF NotifyNotFull
  <2>2. Operation(Fsm).kind = "popped" /\ Operation(Fsm)' = Fifo!Idle
    BY <1>7 DEF NotifyNotFull, Fifo!Idle
  <2>3. Fifo!Return(Fsm)
    BY <1>7, <2>1, <2>2 DEF NotifyNotFull, Fifo!Return, Ops
  <2> QED
    BY <2>3 DEF Fifo!Next
<1>8. ASSUME NEW t \in Threads, WaitNotFull(t) \/ LoadSize(t) \/ StoreIncrement(t) \/ SpuriousWakeUp(t)
      PROVE UNCHANGED Fifo!vars
  <2>1. CASE WaitNotFull(t)
    BY <2>1, NoOperation DEF WaitNotFull
  <2>2. CASE LoadSize(t)
    BY <2>2, NoOperation DEF LoadSize
  <2>3. CASE StoreIncrement(t)
    BY <2>3, NoOperation DEF StoreIncrement
  <2>4. CASE SpuriousWakeUp(t)
    BY <2>4, NoOperation DEF SpuriousWakeUp
  <2> QED
    BY <1>8, <2>1, <2>2, <2>3, <2>4
<1>9. ASSUME \/ WaitNotEmpty \/ StoreDecrement \/ DeleteEvent \/ HandlerThrows
             \/ LeaveLoop \/ StopRunning
      PROVE UNCHANGED Fifo!vars
  <2>1. CASE WaitNotEmpty
    BY <2>1, NoOperation DEF WaitNotEmpty
  <2>2. CASE StoreDecrement
    BY <2>2, NoOperation DEF StoreDecrement
  <2>3. CASE DeleteEvent
    BY <2>3, NoOperation DEF DeleteEvent
  <2>4. CASE HandlerThrows
    BY <2>4, NoOperation DEF HandlerThrows
  <2>5. CASE LeaveLoop
    BY <2>5, NoOperation DEF LeaveLoop
  <2>6. CASE StopRunning
    BY <2>6, NoOperation DEF StopRunning
  <2> QED
    BY <1>9, <2>1, <2>2, <2>3, <2>4, <2>5, <2>6
<1>10. CASE UNCHANGED vars
  BY <1>10, NoOperation DEF vars
<1> QED
  BY <1>1, <1>2, <1>3, <1>4, <1>5, <1>6, <1>7, <1>8, <1>9, <1>10
  DEF Next, PushStep, PopStep, HandlerEnds

\* For every set of producers and every capacity, the event queue behaves as a
\* bounded FIFO whose operations are atomic.
THEOREM QueueIsFifo == Spec => ImplementsFifo
<1> QED
  BY QueueInit, QueueStep, FifoInit, FifoStep, PTL DEF Spec, ImplementsFifo, Fifo!Spec

----------------------------------------------------------------------------
(* Ownership of the events, which are allocated by the thread that pushes   *)
(* one and deleted by the loop that has handled it.                        *)

\* The event the loop handles is known exactly from its pop to its deletion, and
\* a pop that goes on to the counter has taken an event.
HandledInv ==
    /\ pc[Fsm] \in {"idle", "popping", "notEmpty", "popped", "decLoad", "decStore", "stopped"} =>
          handled = 0
    /\ pc[Fsm] \in {"handling", "returning"} => handled # 0
    /\ pc[Fsm] \in {"decLoad", "decStore"} => item[Fsm] # 0

LEMMA HandledStep == QueueInv /\ HandledInv /\ [Next]_vars => HandledInv'
<1> SUFFICES ASSUME QueueInv, HandledInv, [Next]_vars PROVE HandledInv'
  OBVIOUS
<1>a. /\ Fsm \in Threads /\ pc \in [Threads -> {"idle"} \cup PushPcs \cup PopPcs]
      /\ item \in [Threads -> 0..MaxEvents]
      /\ \A t \in Producers : t # Fsm /\ t \in Threads
      /\ \A t \in Threads : t \in Producers \/ t = Fsm
  BY DEF QueueInv, TypeOK, Threads
<1> USE DEF HandledInv, Goto
<1>1. ASSUME NEW t \in Threads, CallPush(t) PROVE HandledInv'
  BY <1>1, <1>a DEF CallPush
<1>2. ASSUME NEW t \in Threads, DoPush(t) PROVE HandledInv'
  BY <1>2, <1>a DEF DoPush
<1>3. ASSUME NEW t \in Threads, WaitNotFull(t) PROVE HandledInv'
  BY <1>3, <1>a DEF WaitNotFull
<1>4. ASSUME NEW t \in Threads, NotifyNotEmpty(t) PROVE HandledInv'
  BY <1>4, <1>a DEF NotifyNotEmpty
<1>5. ASSUME NEW t \in Threads, LoadSize(t) PROVE HandledInv'
  BY <1>5, <1>a DEF LoadSize
<1>6. ASSUME NEW t \in Threads, StoreIncrement(t) PROVE HandledInv'
  BY <1>6, <1>a DEF StoreIncrement
<1>7. ASSUME NEW t \in Threads, SpuriousWakeUp(t) PROVE HandledInv'
  BY <1>7, <1>a DEF SpuriousWakeUp
<1>8. CASE CallPop \/ LeaveLoop \/ WaitNotEmpty \/ PopTimeout
  BY <1>8, <1>a DEF CallPop, LeaveLoop, WaitNotEmpty, PopTimeout
<1>9. CASE DoPop
  BY <1>9, <1>a DEF DoPop
<1>10. CASE NotifyNotFull
  BY <1>10, <1>a DEF NotifyNotFull
<1>11. CASE StoreDecrement
  BY <1>11, <1>a DEF StoreDecrement
<1>12. CASE DeleteEvent \/ HandlerThrows
  BY <1>12, <1>a DEF DeleteEvent, HandlerThrows
<1>13. CASE StopRunning \/ UNCHANGED vars
  BY <1>13 DEF StopRunning, vars
<1> QED
  BY <1>1, <1>2, <1>3, <1>4, <1>5, <1>6, <1>7, <1>8, <1>9, <1>10, <1>11, <1>12, <1>13
  DEF Next, PushStep, PopStep, HandlerEnds

\* Nobody holds an event that is not allocated ...
HeldAreLive ==
    /\ \A t \in Threads : item[t] # 0 => item[t] \in live
    /\ \A i \in DOMAIN content : content[i] \in live
    /\ handled # 0 => handled \in live

\* ... nobody holds what another does ...
Disjoint ==
    /\ \A i, j \in DOMAIN content : content[i] = content[j] => i = j
    /\ \A t \in Threads : item[t] # 0 =>
          /\ item[t] # handled
          /\ \A u \in Threads \ {t} : item[u] # item[t]
          /\ \A i \in DOMAIN content : content[i] # item[t]
    /\ \A i \in DOMAIN content : content[i] # handled

\* ... nor an event that leaked ...
LeakedApart ==
    \A n \in leaked : /\ n \in live /\ n # 0 /\ n # handled
                      /\ \A t \in Threads : item[t] # n
                      /\ \A i \in DOMAIN content : content[i] # n

\* ... every event that did not leak has its owner ...
HeldBySomebody(n) ==
    \/ n = handled
    \/ \E t \in Threads : item[t] = n
    \/ \E i \in DOMAIN content : content[i] = n

Owned == \A n \in live : n \in leaked \/ HeldBySomebody(n)

\* ... and the next event to be allocated is a new one.
OwnerInv ==
    /\ HeldAreLive
    /\ Disjoint
    /\ LeakedApart
    /\ Owned
    /\ live \subseteq 1..created

LEMMA OwnerImplies == QueueInv /\ OwnerInv => OneOwner
<1> SUFFICES ASSUME QueueInv, OwnerInv PROVE OneOwner
  OBVIOUS
<1>1. \A n : n \in Held <=> HeldBySomebody(n)
  BY DEF Held, HeldBySomebody
<1>2. \A n \in live : n # 0
  BY DEF QueueInv, TypeOK, Items
<1>3. live = (Held \ {0}) \cup leaked
  <2>1. ASSUME NEW n \in live PROVE n \in (Held \ {0}) \cup leaked
    BY <1>1, <1>2, <2>1 DEF OwnerInv, Owned
  <2>2. ASSUME NEW n \in Held, n # 0 PROVE n \in live
    BY <1>1, <2>2 DEF OwnerInv, HeldAreLive, HeldBySomebody
  <2>3. leaked \subseteq live
    BY DEF OwnerInv, LeakedApart
  <2> QED
    BY <2>1, <2>2, <2>3
<1>4. leaked \cap Held = {}
  BY <1>1 DEF OwnerInv, LeakedApart, HeldBySomebody
<1> QED
  BY <1>3, <1>4 DEF OwnerInv, Disjoint, OneOwner

\* Steps that hand no event over.
LEMMA OwnerFrame ==
    ASSUME OwnerInv, UNCHANGED <<content, item, handled, created, live, leaked>>
    PROVE  OwnerInv'
BY DEF OwnerInv, HeldAreLive, Disjoint, LeakedApart, Owned, HeldBySomebody

LEMMA OwnerStep == QueueInv /\ HandledInv /\ OwnerInv /\ [Next]_vars => OwnerInv'
<1> SUFFICES ASSUME QueueInv, HandledInv, OwnerInv, [Next]_vars PROVE OwnerInv'
  OBVIOUS
<1>a. /\ Fsm \in Threads /\ item \in [Threads -> 0..MaxEvents] /\ created \in Items
      /\ content \in Seq(Items) /\ Len(content) \in Nat /\ DOMAIN content = 1..Len(content)
      /\ \A i \in DOMAIN content : content[i] \in Items
      /\ handled \in 0..MaxEvents /\ \A n \in Items : n # 0
      /\ \A n \in live : n # 0
  BY DEF QueueInv, TypeOK, Threads, Items
<1> USE DEF OwnerInv, HeldAreLive, Disjoint, LeakedApart, Owned, HeldBySomebody
<1>1. ASSUME NEW t \in Threads, CallPush(t) PROVE OwnerInv'
  <2>1. /\ created + 1 \notin live /\ created + 1 # 0
        /\ created' = created + 1 /\ live' = live \cup {created + 1}
        /\ item' = [item EXCEPT ![t] = created + 1]
        /\ UNCHANGED <<content, handled, leaked>>
    BY <1>1, <1>a DEF CallPush, Items
  <2>2. item[t] = 0
    BY <1>1 DEF CallPush, QueueInv
  <2>3. HeldAreLive'
    BY <1>a, <2>1
  <2>4. Disjoint'
    BY <1>a, <2>1
  <2>5. LeakedApart'
    BY <1>a, <2>1
  <2>6. Owned'
    <3>1. ASSUME NEW n \in live, n \notin leaked PROVE HeldBySomebody(n)'
      <4>1. HeldBySomebody(n) /\ n # 0
        BY <1>a, <3>1
      <4>2. \A u \in Threads : item[u] = n => u # t /\ item'[u] = n
        BY <1>a, <2>1, <2>2, <4>1
      <4> QED
        BY <2>1, <4>1, <4>2
    <3>2. item'[t] = created + 1
      BY <1>a, <2>1
    <3> QED
      BY <2>1, <3>1, <3>2
  <2>7. live' \subseteq 1..created'
    BY <1>a, <2>1 DEF Items
  <2> QED
    BY <2>3, <2>4, <2>5, <2>6, <2>7
<1>2. ASSUME NEW t \in Threads, DoPush(t) PROVE OwnerInv'
  <2>1. /\ item[t] \in Items /\ content' = Append(content, item[t])
        /\ item' = [item EXCEPT ![t] = 0]
        /\ UNCHANGED <<handled, created, live, leaked>>
    BY <1>2 DEF DoPush, QueueInv
  <2>2. /\ DOMAIN content' = 1..(Len(content) + 1)
        /\ content'[Len(content) + 1] = item[t]
        /\ \A i \in DOMAIN content : content'[i] = content[i]
    BY <1>a, <2>1
  <2>3. \A i \in DOMAIN content' :
            \/ i \in DOMAIN content /\ content'[i] = content[i]
            \/ i = Len(content) + 1 /\ content'[i] = item[t]
    BY <1>a, <2>2
  <2>4. HeldAreLive'
    BY <1>a, <2>1, <2>3
  <2>5. \A i, j \in DOMAIN content' : content'[i] = content'[j] => i = j
    BY <1>a, <2>1, <2>3
  <2>6. \A i \in DOMAIN content' : content'[i] # handled
    BY <1>a, <2>1, <2>3
  <2>7. \A u \in Threads : item'[u] # 0 => u # t /\ item'[u] = item[u]
    BY <1>a, <2>1
  <2>8. LeakedApart'
    <3> SUFFICES ASSUME NEW n \in leaked
                 PROVE  /\ n \in live /\ n # 0 /\ n # handled
                        /\ \A u \in Threads : item'[u] # n
                        /\ \A i \in DOMAIN content' : content'[i] # n
      BY <2>1
    <3>1. \A u \in Threads : item'[u] # n
      BY <1>a, <2>1, <2>7
    <3>2. \A i \in DOMAIN content' : content'[i] # n
      BY <2>3
    <3> QED
      BY <3>1, <3>2
  <2>9. Owned'
    <3> SUFFICES ASSUME NEW n \in live, n \notin leaked PROVE HeldBySomebody(n)'
      BY <2>1
    <3>1. CASE n = handled
      BY <2>1, <3>1
    <3>2. CASE \E i \in DOMAIN content : content[i] = n
      BY <1>a, <2>2, <3>2
    <3>3. CASE item[t] = n
      BY <1>a, <2>2, <3>3
    <3>4. CASE \E u \in Threads \ {t} : item[u] = n
      BY <1>a, <2>1, <3>4
    <3> QED
      BY <3>1, <3>2, <3>3, <3>4
  <2>10. Disjoint'
    BY <1>a, <2>1, <2>3, <2>5, <2>6, <2>7
  <2>11. live' \subseteq 1..created'
    BY <2>1
  <2> HIDE DEF HeldAreLive, Disjoint, LeakedApart, Owned
  <2> QED
    BY <2>4, <2>8, <2>9, <2>10, <2>11
<1>3. ASSUME NEW t \in Threads,
             WaitNotFull(t) \/ NotifyNotEmpty(t) \/ LoadSize(t) \/ StoreIncrement(t) \/ SpuriousWakeUp(t)
      PROVE OwnerInv'
  BY <1>3, OwnerFrame DEF WaitNotFull, NotifyNotEmpty, LoadSize, StoreIncrement, SpuriousWakeUp
<1>4. CASE CallPop \/ LeaveLoop \/ WaitNotEmpty \/ PopTimeout \/ NotifyNotFull \/ StopRunning
  BY <1>4, OwnerFrame DEF CallPop, LeaveLoop, WaitNotEmpty, PopTimeout, NotifyNotFull, StopRunning
<1>5. CASE DoPop
  <2>1. /\ content # <<>> /\ content' = Tail(content)
        /\ item' = [item EXCEPT ![Fsm] = content[1]]
        /\ item[Fsm] = 0
        /\ UNCHANGED <<handled, created, live, leaked>>
    BY <1>5, <1>a DEF DoPop, QueueInv
  <2>2. /\ 1 \in DOMAIN content
        /\ \A i \in DOMAIN content' : i + 1 \in DOMAIN content /\ i + 1 # 1 /\ content'[i] = content[i + 1]
        /\ \A i \in DOMAIN content : i # 1 => i - 1 \in DOMAIN content' /\ content'[i - 1] = content[i]
    BY <1>a, <2>1
  <2>3. HeldAreLive'
    BY <1>a, <2>1, <2>2
  <2>4. \A i, j \in DOMAIN content' : content'[i] = content'[j] => i = j
    BY <1>a, <2>1, <2>2
  <2>5. \A i \in DOMAIN content' : content'[i] # handled /\ content'[i] # content[1]
    BY <1>a, <2>2
  <2>6. ASSUME NEW u \in Threads, item'[u] # 0
        PROVE  /\ item'[u] # handled
               /\ \A v \in Threads \ {u} : item'[v] # item'[u]
               /\ \A i \in DOMAIN content' : content'[i] # item'[u]
    <3>1. CASE u = Fsm
      BY <1>a, <2>1, <2>2, <2>5, <3>1
    <3>2. CASE u # Fsm
      BY <1>a, <2>1, <2>2, <2>6, <3>2
    <3> QED
      BY <3>1, <3>2
  <2>7. LeakedApart'
    BY <1>a, <2>1, <2>2
  <2>8. Owned'
    <3> SUFFICES ASSUME NEW n \in live, n \notin leaked PROVE HeldBySomebody(n)'
      BY <2>1
    <3>0. n # 0
      BY <1>a
    <3>1. CASE n = handled
      BY <2>1, <3>1
    <3>2. CASE \E u \in Threads : item[u] = n
      BY <1>a, <2>1, <3>0, <3>2
    <3>3. ASSUME NEW i \in DOMAIN content, content[i] = n PROVE HeldBySomebody(n)'
      <4>1. CASE i = 1
        BY <1>a, <2>1, <3>3, <4>1
      <4>2. CASE i # 1
        BY <2>2, <3>3, <4>2
      <4> QED
        BY <4>1, <4>2
    <3> QED
      BY <3>1, <3>2, <3>3
  <2> QED
    BY <2>1, <2>3, <2>4, <2>5, <2>6, <2>7, <2>8
<1>6. CASE StoreDecrement
  <2>1. /\ handled' = item[Fsm] /\ item' = [item EXCEPT ![Fsm] = 0]
        /\ handled = 0 /\ item[Fsm] # 0
        /\ UNCHANGED <<content, created, live, leaked>>
    BY <1>6 DEF StoreDecrement, HandledInv
  <2>2. HeldAreLive'
    BY <1>a, <2>1
  <2>3. Disjoint'
    BY <1>a, <2>1
  <2>4. LeakedApart'
    BY <1>a, <2>1
  <2>5. Owned'
    BY <1>a, <2>1
  <2>6. live' \subseteq 1..created'
    BY <2>1
  <2> HIDE DEF HeldAreLive, Disjoint, LeakedApart, Owned
  <2> QED
    BY <2>2, <2>3, <2>4, <2>5, <2>6
<1>7. CASE DeleteEvent
  <2>1. /\ live' = live \ {handled} /\ handled' = 0 /\ handled # 0
        /\ UNCHANGED <<content, item, created, leaked>>
    BY <1>7 DEF DeleteEvent, HandledInv
  <2>2. HeldAreLive' /\ Disjoint' /\ live' \subseteq 1..created'
    BY <1>a, <2>1
  <2>3. LeakedApart'
    BY <1>a, <2>1
  <2>4. Owned'
    BY <1>a, <2>1
  <2> QED
    BY <2>2, <2>3, <2>4
<1>8. CASE HandlerThrows
  <2>1. /\ leaked' = leaked \cup {handled} /\ handled' = 0 /\ handled # 0
        /\ UNCHANGED <<content, item, created, live>>
    BY <1>8 DEF HandlerThrows, HandledInv
  <2>2. HeldAreLive' /\ Disjoint' /\ live' \subseteq 1..created'
    BY <1>a, <2>1
  <2>3. LeakedApart'
    BY <1>a, <2>1
  <2>4. Owned'
    BY <1>a, <2>1
  <2> QED
    BY <2>2, <2>3, <2>4
<1>9. CASE UNCHANGED vars
  BY <1>9, OwnerFrame DEF vars
<1> QED
  BY <1>1, <1>2, <1>3, <1>4, <1>5, <1>6, <1>7, <1>8, <1>9 DEF Next, PushStep, PopStep, HandlerEnds

\* Whatever the threads, each event that was not deleted is held exactly once,
\* or leaked when its handler threw, and the loop deletes only events that nobody
\* else holds.
THEOREM EventsHaveOneOwner == Spec => []OneOwner
<1>1. Init => OwnerInv /\ HandledInv
  BY DEF Init, OwnerInv, HeldAreLive, Disjoint, LeakedApart, Owned, HeldBySomebody,
         HandledInv, Threads
<1>2. QueueInv /\ OwnerInv => OneOwner
  BY OwnerImplies
<1> QED
  BY QueueInit, QueueStep, HandledStep, OwnerStep, <1>1, <1>2, PTL DEF Spec

----------------------------------------------------------------------------
(* Wake-ups.  NoLostWakeUp is inductive given the types: a step that frees  *)
(* a place puts somebody on the way, and only a push that fills one leaves. *)

LEMMA OnTheWayCounted ==
    ASSUME NEW S \in SUBSET Threads, NEW T \in SUBSET Threads
    PROVE  /\ Cardinality(S) \in Nat
           /\ S \subseteq T => Cardinality(S) <= Cardinality(T)
           /\ \A t \in S : Cardinality(S \ {t}) = Cardinality(S) - 1
           /\ \A t \in Threads \ S : Cardinality(S \cup {t}) = Cardinality(S) + 1
<1>1. IsFiniteSet(Threads)
  BY FS_AddElement DEF Threads
<1>2. IsFiniteSet(S) /\ IsFiniteSet(T)
  BY <1>1, FS_Subset
<1> QED
  BY <1>2, FS_CardinalityType, FS_Subset, FS_AddElement, FS_RemoveElement

\* A step that wakes nobody up in vain: nobody falls asleep, the queue is as
\* long as it was, and whoever was on the way still is.
LEMMA WakeUpFrame ==
    ASSUME QueueInv, NoLostWakeUp, UNCHANGED content,
           \A t \in Threads : pc'[t] = "notFull" => pc[t] = "notFull",
           OnTheWay \subseteq OnTheWay',
           pc'[Fsm] = "notEmpty" => pc[Fsm] = "notEmpty",
           \A t \in Producers : pc[t] = "pushed" => pc'[t] = "pushed"
    PROVE  NoLostWakeUp'
<1>1. OnTheWay \in SUBSET Threads /\ OnTheWay' \in SUBSET Threads
  BY DEF OnTheWay
<1>2. /\ Cardinality(OnTheWay) \in Nat /\ Cardinality(OnTheWay') \in Nat
      /\ Cardinality(OnTheWay) <= Cardinality(OnTheWay')
  BY <1>1, OnTheWayCounted
<1>3. Len(content) \in Nat
  BY DEF QueueInv, TypeOK
<1>4. Cardinality(OnTheWay)' = Cardinality(OnTheWay')
  OBVIOUS
<1> QED
  BY <1>2, <1>3, <1>4 DEF NoLostWakeUp

LEMMA WakeUpStep == QueueInv /\ NoLostWakeUp /\ [Next]_vars => NoLostWakeUp'
<1> SUFFICES ASSUME QueueInv, NoLostWakeUp, [Next]_vars PROVE NoLostWakeUp'
  OBVIOUS
<1>a. /\ Fsm \in Threads /\ Producers \subseteq Threads /\ Fsm \notin Producers
      /\ \A t \in Threads : t \in Producers \/ t = Fsm
      /\ pc \in [Threads -> {"idle"} \cup PushPcs \cup PopPcs]
      /\ content \in Seq(Items) /\ Len(content) \in Nat
      /\ \A t \in Producers : pc[t] \in {"idle"} \cup PushPcs
      /\ OnTheWay \in SUBSET Threads /\ OnTheWay' \in SUBSET Threads
      /\ Cardinality(OnTheWay)' = Cardinality(OnTheWay')
  BY DEF QueueInv, TypeOK, Threads, OnTheWay
<1> USE DEF PushPcs, PopPcs, Goto
<1>1. ASSUME NEW t \in Threads, CallPush(t) PROVE NoLostWakeUp'
  BY <1>1, <1>a, WakeUpFrame DEF CallPush, OnTheWay
<1>2. ASSUME NEW t \in Threads, DoPush(t) PROVE NoLostWakeUp'
  <2>1. t \in OnTheWay /\ OnTheWay' = OnTheWay \ {t}
    BY <1>2, <1>a DEF DoPush, OnTheWay
  <2>2. Cardinality(OnTheWay) \in Nat /\ Cardinality(OnTheWay') = Cardinality(OnTheWay) - 1
    BY <1>a, <2>1, OnTheWayCounted
  <2>3. Len(content') = Len(content) + 1
    BY <1>2, <1>a DEF DoPush
  <2>4. \A u \in Threads : pc'[u] = "notFull" => pc[u] = "notFull"
    BY <1>2, <1>a DEF DoPush
  <2>5. (\E u \in Threads : pc'[u] = "notFull") =>
            kMaxQueueSize <= Len(content') + Cardinality(OnTheWay')
    BY <1>a, <2>2, <2>3, <2>4 DEF NoLostWakeUp
  <2>6. pc'[Fsm] = "notEmpty" => t \in Producers /\ pc'[t] = "pushed"
    BY <1>2, <1>a DEF DoPush
  <2> QED
    BY <1>a, <2>5, <2>6 DEF NoLostWakeUp
<1>3. ASSUME NEW t \in Threads, WaitNotFull(t) PROVE NoLostWakeUp'
  <2>1. Cardinality(OnTheWay') \in Nat
    BY <1>a, OnTheWayCounted
  <2>2. Len(content) >= kMaxQueueSize /\ content' = content
    BY <1>3 DEF WaitNotFull
  <2>3. pc'[Fsm] = "notEmpty" => pc[Fsm] = "notEmpty"
    BY <1>3, <1>a DEF WaitNotFull
  <2>4. \A u \in Producers : pc[u] = "pushed" => pc'[u] = "pushed"
    BY <1>3, <1>a DEF WaitNotFull
  <2>5. kMaxQueueSize <= Len(content') + Cardinality(OnTheWay')
    BY <1>a, <2>1, <2>2
  <2> QED
    BY <1>a, <2>2, <2>3, <2>4, <2>5 DEF NoLostWakeUp
<1>4. ASSUME NEW t \in Threads, NotifyNotEmpty(t) PROVE NoLostWakeUp'
  <2>1. UNCHANGED content /\ pc'[Fsm] # "notEmpty"
    BY <1>4, <1>a DEF NotifyNotEmpty
  <2>2. \A u \in Threads : pc'[u] = "notFull" => pc[u] = "notFull"
    BY <1>4, <1>a DEF NotifyNotEmpty
  <2>3. OnTheWay \subseteq OnTheWay'
    BY <1>4, <1>a DEF NotifyNotEmpty, OnTheWay
  <2>4. Cardinality(OnTheWay) \in Nat /\ Cardinality(OnTheWay') \in Nat
        /\ Cardinality(OnTheWay) <= Cardinality(OnTheWay')
    BY <1>a, <2>3, OnTheWayCounted
  <2> QED
    BY <1>a, <2>1, <2>2, <2>4 DEF NoLostWakeUp
<1>5. ASSUME NEW t \in Threads, LoadSize(t) \/ StoreIncrement(t) PROVE NoLostWakeUp'
  <2>1. CASE LoadSize(t)
    BY <2>1, <1>a, WakeUpFrame DEF LoadSize, OnTheWay
  <2>2. CASE StoreIncrement(t)
    BY <2>2, <1>a, WakeUpFrame DEF StoreIncrement, OnTheWay
  <2> QED
    BY <1>5, <2>1, <2>2
<1>6. ASSUME NEW t \in Threads, SpuriousWakeUp(t) PROVE NoLostWakeUp'
  BY <1>6, <1>a, WakeUpFrame DEF SpuriousWakeUp, OnTheWay
<1>7. CASE CallPop
  BY <1>7, <1>a, WakeUpFrame DEF CallPop, OnTheWay
<1>8. CASE DoPop
  <2>1. Fsm \in Threads \ OnTheWay /\ OnTheWay' = OnTheWay \cup {Fsm}
    BY <1>8, <1>a DEF DoPop, OnTheWay
  <2>2. Cardinality(OnTheWay) \in Nat /\ Cardinality(OnTheWay') = Cardinality(OnTheWay) + 1
    BY <1>a, <2>1, OnTheWayCounted
  <2>3. Len(content') = Len(content) - 1
    BY <1>8, <1>a DEF DoPop
  <2>4. \A u \in Threads : pc'[u] = "notFull" => pc[u] = "notFull"
    BY <1>8, <1>a DEF DoPop
  <2>5. pc'[Fsm] # "notEmpty"
    BY <1>8, <1>a DEF DoPop
  <2> QED
    BY <1>a, <2>2, <2>3, <2>4, <2>5 DEF NoLostWakeUp
<1>9. CASE WaitNotEmpty
  <2>1. content' = <<>> /\ UNCHANGED content /\ OnTheWay' = OnTheWay
    BY <1>9, <1>a DEF WaitNotEmpty, OnTheWay
  <2>2. \A u \in Threads : pc'[u] = "notFull" => pc[u] = "notFull"
    BY <1>9, <1>a DEF WaitNotEmpty
  <2> QED
    BY <1>a, <2>1, <2>2 DEF NoLostWakeUp
<1>10. CASE PopTimeout
  BY <1>10, <1>a, WakeUpFrame DEF PopTimeout, OnTheWay
<1>11. CASE NotifyNotFull
  <2>1. UNCHANGED content /\ pc'[Fsm] # "notEmpty" /\ pc[Fsm] = "popped"
    BY <1>11, <1>a DEF NotifyNotFull
  <2>2. CASE \A u \in Producers : pc[u] # "notFull"
    <3>1. \A u \in Threads : pc'[u] # "notFull"
      BY <1>11, <1>a, <2>1, <2>2 DEF NotifyNotFull
    <3> QED
      BY <1>a, <2>1, <3>1 DEF NoLostWakeUp
  <2>3. CASE \E u \in Producers : pc[u] = "notFull"
    <3>1. PICK u \in Producers :
             /\ pc[u] = "notFull"
             /\ pc' = [pc EXCEPT ![u] = "pushing", ![Fsm] = IF item[Fsm] # 0 THEN "decLoad" ELSE "idle"]
      BY <1>11, <2>3 DEF NotifyNotFull
    <3>2. Fsm \in OnTheWay /\ u \in Threads \ (OnTheWay \ {Fsm}) /\ OnTheWay' = (OnTheWay \ {Fsm}) \cup {u}
      BY <1>a, <2>1, <3>1 DEF OnTheWay
    <3>3. OnTheWay \ {Fsm} \in SUBSET Threads
      BY <1>a
    <3>4. Cardinality(OnTheWay) \in Nat /\ Cardinality(OnTheWay \ {Fsm}) = Cardinality(OnTheWay) - 1
      BY <1>a, <3>2, OnTheWayCounted
    <3>5. Cardinality(OnTheWay') = Cardinality(OnTheWay \ {Fsm}) + 1
      BY <3>2, <3>3, OnTheWayCounted
    <3>6. Cardinality(OnTheWay') = Cardinality(OnTheWay)
      BY <3>4, <3>5
    <3>7. \A v \in Threads : pc'[v] = "notFull" => pc[v] = "notFull"
      BY <1>a, <3>1
    <3> QED
      BY <1>a, <2>1, <3>6, <3>7 DEF NoLostWakeUp
  <2> QED
    BY <2>2, <2>3
<1>12. CASE StoreDecrement
  BY <1>12, <1>a, WakeUpFrame DEF StoreDecrement, OnTheWay
<1>13. CASE DeleteEvent
  BY <1>13, <1>a, WakeUpFrame DEF DeleteEvent, OnTheWay
<1>14. CASE HandlerThrows
  BY <1>14, <1>a, WakeUpFrame DEF HandlerThrows, OnTheWay
<1>15. CASE UNCHANGED vars
  BY <1>15, <1>a, WakeUpFrame DEF vars, OnTheWay
<1>16. CASE LeaveLoop
  BY <1>16, <1>a, WakeUpFrame DEF LeaveLoop, OnTheWay
<1>17. CASE StopRunning
  BY <1>17, <1>a, WakeUpFrame DEF StopRunning, OnTheWay
<1> QED
  BY <1>1, <1>2, <1>3, <1>4, <1>5, <1>6, <1>7, <1>8, <1>9, <1>10, <1>11, <1>12, <1>13, <1>14, <1>15, <1>16, <1>17
  DEF Next, PushStep, PopStep, HandlerEnds

\* For every number of producers and every capacity: no place comes free beside
\* a sleeping pusher, and no item beside a sleeping pop, without a thread on
\* the way to it.
THEOREM NoWakeUpIsLost == Spec => []NoLostWakeUp
<1>1. Init => NoLostWakeUp
  <2> SUFFICES ASSUME Init PROVE NoLostWakeUp
    OBVIOUS
  <2>1. \A t \in Threads : pc[t] \in {"pushing", "idle"}
    BY DEF Init
  <2> QED
    BY <2>1 DEF NoLostWakeUp, Threads
<1> QED
  BY QueueInit, QueueStep, WakeUpStep, <1>1, PTL DEF Spec
=============================================================================
