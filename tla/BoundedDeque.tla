---------------------------- MODULE BoundedDeque ----------------------------
(* What os/list promises a thread that adds and a thread that removes: a   *)
(* sequence of at most maxsize values, changed at both ends in one step.   *)
EXTENDS Sequences, Naturals

CONSTANTS Values, NoValue, maxsize

VARIABLES items,  \* the list, from front to rear
          out     \* what the remover got last

Init == items = << >> /\ out = NoValue

Add(v) == /\ Len(items) < maxsize
          /\ items' \in {<<v>> \o items, Append(items, v)}
          /\ UNCHANGED out

TakeFront == items # << >> /\ out' = Head(items) /\ items' = Tail(items)
TakeBack == /\ items # << >> /\ out' = items[Len(items)]
            /\ items' = SubSeq(items, 1, Len(items) - 1)
Get == items # << >> /\ out' \in {Head(items), items[Len(items)]} /\ UNCHANGED items
Clear == items' = << >> /\ UNCHANGED out

Next == (\E v \in Values : Add(v)) \/ TakeFront \/ TakeBack \/ Get \/ Clear

Spec == Init /\ [][Next]_<<items, out>>
=============================================================================
