---------------------------- MODULE BoundedFifo ----------------------------
(***************************************************************************)
(* What rtsp_receiver/queue.h promises its callers: one first-in first-out *)
(* queue of at most Capacity values, whose every call takes effect at one  *)
(* instant.  last records the call that returned last and its result.      *)
(***************************************************************************)
EXTENDS Integers, Sequences

CONSTANTS Threads, Values, Capacity, NoVal

VARIABLES q, last

Return(t, call, status, val) ==
    last' = [by |-> t, call |-> call, status |-> status, val |-> val]

Init == q = << >> /\ last = [by |-> NoVal, call |-> "none", status |-> "ok",
                             val |-> NoVal]

Put(t, v) == /\ Len(q) < Capacity
             /\ q' = Append(q, v)
             /\ Return(t, "put", "ok", NoVal)

PutFull(t) == /\ Len(q) = Capacity
              /\ Return(t, "put", "err", NoVal)
              /\ UNCHANGED q

Get(t) == /\ q # << >>
          /\ q' = Tail(q)
          /\ Return(t, "get", "ok", Head(q))

Peek(t) == /\ q # << >>
           /\ Return(t, "peek", "ok", Head(q))
           /\ UNCHANGED q

ReadEmpty(t) == /\ q = << >>
                /\ \E call \in {"get", "peek"} : Return(t, call, "err", NoVal)
                /\ UNCHANGED q

Count(t) == /\ Return(t, "count", "ok", Len(q))
            /\ UNCHANGED q

Next == \E t \in Threads : \/ \E v \in Values : Put(t, v)
                           \/ PutFull(t) \/ Get(t) \/ Peek(t)
                           \/ ReadEmpty(t) \/ Count(t)

Spec == Init /\ [][Next]_<<q, last>>
=============================================================================
