---------------------------- MODULE PacketQueue ----------------------------
(***************************************************************************)
(* The drop-oldest queue between the encode thread and the session         *)
(* (crates/penflow-core/src/packet_queue.rs).  Every method runs under the *)
(* queue's mutex, so each is one operator from queue to queue; the caller  *)
(* decides when it happens.  The condition variable only ends a wait early *)
(* and is not represented: a blocked pop is a pop that has not happened.   *)
(***************************************************************************)
EXTENDS Naturals, Sequences

CONSTANT Capacity    \* the capacity the queue was asked for

ASSUME CapacityAssumption == Capacity \in Nat

(* capacity.max(1): a queue asked to hold nothing still holds one packet.  *)
EffectiveCapacity == IF Capacity > 1 THEN Capacity ELSE 1

QueueOf(P) == [deque : Seq(P), closed : BOOLEAN, dropped_overflow : Nat]

NewQueue == [deque |-> << >>, closed |-> FALSE, dropped_overflow |-> 0]

(* Fault: the newest packet is refused instead of the oldest dropped.      *)
PushDropsNewest(q, item) ==
    IF q.closed \/ Len(q.deque) = EffectiveCapacity
    THEN q
    ELSE [q EXCEPT !.deque = Append(@, item)]

(* Fault: the eviction is not counted.                                     *)
PushForgetsCount(q, item) ==
    IF q.closed
    THEN q
    ELSE [q EXCEPT !.deque =
            Append(IF Len(@) = EffectiveCapacity THEN Tail(@) ELSE @, item)]

(* Fault: push_front for push_back.                                        *)
PushToFront(q, item) ==
    IF q.closed
    THEN q
    ELSE [q EXCEPT !.deque =
            << item >> \o (IF Len(@) = EffectiveCapacity THEN Tail(@) ELSE @)]

(* push: nothing once closed; at capacity the oldest makes room.           *)
Push(q, item) ==
    LET full == Len(q.deque) = EffectiveCapacity IN
    IF q.closed
    THEN q
    ELSE [deque |-> Append(IF full THEN Tail(q.deque) ELSE q.deque, item),
          closed |-> FALSE,
          dropped_overflow |-> q.dropped_overflow + IF full THEN 1 ELSE 0]

(* pop_timeout and pop_blocking hand out the oldest packet; they look at   *)
(* `closed' only when there is none, so a closed queue is still drained.   *)
Poppable(q) == q.deque # << >>
Front(q) == Head(q.deque)
PopFront(q) == [q EXCEPT !.deque = Tail(@)]

Close(q) == [q EXCEPT !.closed = TRUE]

=============================================================================
