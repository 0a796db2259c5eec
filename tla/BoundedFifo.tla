----------------------------- MODULE BoundedFifo -----------------------------
(***************************************************************************)
(* What a bounded blocking queue promises its callers, with no mention of   *)
(* how: every operation takes effect at one instant between its call and    *)
(* its return, a push only where there is room, a pop on the oldest item,   *)
(* and a pop fails only at an instant when there is nothing to take.        *)
(***************************************************************************)
EXTENDS Integers, Sequences

CONSTANTS Threads, Items, Capacity

VARIABLES
    items,   \* what has been pushed and not yet popped, oldest first
    op       \* the operation each thread is in

vars == <<items, op>>

Idle == [kind |-> "idle", item |-> 0]
Op(k, x) == [kind |-> k, item |-> x]

Init ==
    /\ items = <<>>
    /\ op \in [Threads -> {Idle} \cup {Op("push", x) : x \in Items}]

CallPush(t, x) ==
    /\ op[t] = Idle
    /\ op' = [op EXCEPT ![t] = Op("push", x)]
    /\ UNCHANGED items

DoPush(t) ==
    /\ op[t].kind = "push"
    /\ Len(items) < Capacity
    /\ items' = Append(items, op[t].item)
    /\ op' = [op EXCEPT ![t] = Op("pushed", 0)]

CallPop(t) ==
    /\ op[t] = Idle
    /\ op' = [op EXCEPT ![t] = Op("pop", 0)]
    /\ UNCHANGED items

DoPop(t) ==
    /\ op[t].kind = "pop"
    /\ items # <<>>
    /\ items' = Tail(items)
    /\ op' = [op EXCEPT ![t] = Op("popped", Head(items))]

FailPop(t) ==
    /\ op[t].kind = "pop"
    /\ items = <<>>
    /\ op' = [op EXCEPT ![t] = Op("popped", 0)]
    /\ UNCHANGED items

Return(t) ==
    /\ op[t].kind \in {"pushed", "popped"}
    /\ op' = [op EXCEPT ![t] = Idle]
    /\ UNCHANGED items

Next == \E t \in Threads :
    \/ \E x \in Items : CallPush(t, x)
    \/ DoPush(t) \/ CallPop(t) \/ DoPop(t) \/ FailPop(t) \/ Return(t)

Spec == Init /\ [][Next]_vars
=============================================================================
