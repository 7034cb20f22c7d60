-------------------------------- MODULE List --------------------------------
(* The doubly linked list of os/list/list.c.  A call first asks under the  *)
(* lock whether the list is full or empty, lets the lock go, and takes it  *)
(* again to change the list.  Removing a node leaves the links of its      *)
(* neighbour to it as they are.                                            *)
(*                                                                         *)
(* Nodes are memory cells: a freed one may be the next one allocated, and  *)
(* holds nothing until then.                                               *)
(* What the two steps promise holds for one thread that adds and one that  *)
(* removes (see Adders, Removers): nothing in the repository uses the list.*)
EXTENDS Integers, FiniteSets

CONSTANTS Adders, Removers,
          Values, NoValue,   \* the data pushed
          Nodes,    \* bound: memory cells for nodes
          NULL,
          maxsize

ASSUME ThreadsAssumption == /\ IsFiniteSet(Adders) /\ Cardinality(Adders) <= 1
                            /\ IsFiniteSet(Removers) /\ Cardinality(Removers) <= 1
ASSUME MaxSizeAssumption == maxsize \in Nat \ {0}
ASSUME NullAssumption == NULL \notin Nodes /\ NoValue \notin Values

VARIABLES
    size, front, rear,   \* the head node
    pre, next, data,     \* the nodes
    used,                \* the cells that are allocated
    call,                \* per thread: the call that found room or data
    held,                \* per thread: the node a pop returned
    out                  \* the value a remover got last

head == <<size, front, rear>>
nodes == <<pre, next, data, used>>
listVars == <<head, nodes, call, held, out>>

Threads == Adders \cup Removers

ListInit == /\ size = 0 /\ front = NULL /\ rear = NULL
            /\ pre = [n \in Nodes |-> NULL] /\ next = [n \in Nodes |-> NULL]
            /\ data = [n \in Nodes |-> NoValue]
            /\ used = {}
            /\ call = [t \in Threads |-> "none"]
            /\ held = [t \in Threads |-> NULL]
            /\ out = NoValue

Call(t, c) == call' = [call EXCEPT ![t] = c]

(* Slip: room for one more.                                                *)
HasRoomOver == size # maxsize + 1
HasRoom == size # maxsize

(* List_IsFull and List_IsEmpty; when they say so the call has failed.  A  *)
(* remover frees what a pop returned before its next call.                 *)
AskFull(t) == /\ call[t] = "none" /\ HasRoom
              /\ \E c \in {"PushBack", "PushFront"} : Call(t, c)
              /\ UNCHANGED <<head, nodes, held, out>>

AskEmpty(t) == /\ call[t] = "none" /\ held[t] = NULL /\ size # 0
               /\ \E c \in {"PopBack", "PopFront", "GetBack", "GetFront"} : Call(t, c)
               /\ UNCHANGED <<head, nodes, held, out>>

(* The locked part of List_PushBackData and List_PushFrontData.            *)
NewNode(n, v) == /\ n \in Nodes \ used
                 /\ used' = used \cup {n} /\ data' = [data EXCEPT ![n] = v]
                 /\ size' = size + 1

PushBackData(t, n, v) ==
    /\ call[t] = "PushBack" /\ NewNode(n, v)
    /\ IF size = 0 THEN front' = n /\ next' = [next EXCEPT ![n] = NULL]
                   ELSE UNCHANGED front /\ next' = [next EXCEPT ![n] = NULL, ![rear] = n]
    /\ pre' = [pre EXCEPT ![n] = IF size = 0 THEN NULL ELSE rear]
    /\ rear' = n
    /\ Call(t, "none") /\ UNCHANGED <<held, out>>

(* Slip: the former front is not linked back.                              *)
PushFrontOneWay(t, n, v) ==
    /\ call[t] = "PushFront" /\ NewNode(n, v)
    /\ IF size = 0 THEN rear' = n ELSE UNCHANGED rear
    /\ pre' = [pre EXCEPT ![n] = NULL]
    /\ next' = [next EXCEPT ![n] = IF size = 0 THEN NULL ELSE front]
    /\ front' = n
    /\ Call(t, "none") /\ UNCHANGED <<held, out>>

PushFrontData(t, n, v) ==
    /\ call[t] = "PushFront" /\ NewNode(n, v)
    /\ IF size = 0 THEN rear' = n /\ pre' = [pre EXCEPT ![n] = NULL]
                   ELSE UNCHANGED rear /\ pre' = [pre EXCEPT ![n] = NULL, ![front] = n]
    /\ next' = [next EXCEPT ![n] = IF size = 0 THEN NULL ELSE front]
    /\ front' = n
    /\ Call(t, "none") /\ UNCHANGED <<held, out>>

(* What is left of a node that is popped.                                  *)
Unlink(t, n) ==
    /\ size' = size - 1
    /\ pre' = [pre EXCEPT ![n] = NULL] /\ next' = [next EXCEPT ![n] = NULL]
    /\ held' = [held EXCEPT ![t] = n] /\ out' = data[n]
    /\ Call(t, "none") /\ UNCHANGED <<data, used>>

(* The locked part of List_PopBack and List_PopFront.                      *)
PopBack(t) ==
    /\ call[t] = "PopBack"
    /\ Unlink(t, rear)
    /\ rear' = pre[rear] /\ UNCHANGED front

PopFront(t) ==
    /\ call[t] = "PopFront"
    /\ Unlink(t, front)
    /\ front' = next[front] /\ UNCHANGED rear

(* List_GetBack and List_GetFront.                                         *)
Get(t) ==
    /\ call[t] \in {"GetBack", "GetFront"}
    /\ out' = data[IF call[t] = "GetBack" THEN rear ELSE front]
    /\ Call(t, "none") /\ UNCHANGED <<head, nodes, held>>

Free(cells) == /\ used' = used \ cells
               /\ data' = [n \in Nodes |-> IF n \in cells THEN NoValue ELSE data[n]]

(* List_FreeNode, by the caller of a pop.                                  *)
FreeNode(t) ==
    /\ held[t] # NULL
    /\ Free({held[t]}) /\ UNCHANGED <<pre, next>>
    /\ held' = [held EXCEPT ![t] = NULL]
    /\ UNCHANGED <<head, call, out>>

(* The nodes next leads to from the front.                                 *)
At[k \in 1..maxsize + 1] ==
    IF k = 1 THEN front
    ELSE IF At[k - 1] \in Nodes THEN next[At[k - 1]] ELSE NULL

InList == {At[k] : k \in 1..size}

(* List_Clear: it pops and frees from the front, and leaves rear as it is. *)
ClearList(t) ==
    LET scrub(link) == [n \in Nodes |-> IF n \in InList THEN NULL ELSE link[n]]
    IN /\ call[t] = "none"
       /\ Free(InList) /\ pre' = scrub(pre) /\ next' = scrub(next)
       /\ size' = 0
       /\ front' = IF size = 0 THEN front ELSE next[At[size]]
       /\ UNCHANGED <<rear, call, held, out>>

Adding(t) == AskFull(t) \/ \E n \in Nodes, v \in Values : PushBackData(t, n, v) \/ PushFrontData(t, n, v)
Removing(t) == AskEmpty(t) \/ PopBack(t) \/ PopFront(t) \/ Get(t) \/ FreeNode(t) \/ ClearList(t)

ListNext == (\E t \in Adders : Adding(t)) \/ (\E t \in Removers : Removing(t))

ListSpec == ListInit /\ [][ListNext]_listVars

-----------------------------------------------------------------------------
(* Properties.                                                             *)

ListTypeOK ==
    /\ size \in 0..maxsize
    /\ {front, rear} \subseteq Nodes \cup {NULL}
    /\ pre \in [Nodes -> Nodes \cup {NULL}] /\ next \in [Nodes -> Nodes \cup {NULL}]
    /\ data \in [Nodes -> Values \cup {NoValue}]
    /\ used \subseteq Nodes
    /\ call \in [Threads -> {"none", "PushBack", "PushFront", "PopBack", "PopFront", "GetBack", "GetFront"}]
    /\ held \in [Threads -> Nodes \cup {NULL}]
    /\ out \in Values \cup {NoValue}

(* Only size tells the end of the list, links beyond it may lead to freed  *)
(* or reused nodes: within it both directions agree, from front to rear,   *)
(* over different allocated nodes; every other allocated node is held by   *)
(* the caller of a pop, who alone may free it (list.c:188-198,377-383).    *)
LinksAgree ==
    /\ ListTypeOK
    /\ size > 0 => rear = At[size]
    /\ \A k \in 1..(size - 1) : pre[At[k + 1]] = At[k]
    /\ Cardinality(InList) = size
    /\ \A t \in Threads : held[t] \notin InList
    /\ used = InList \cup ({held[t] : t \in Threads} \ {NULL})

(* With one thread that adds and one that removes, the check and the       *)
(* change behave as one step on a bounded sequence.                        *)
Deque == INSTANCE BoundedDeque WITH items <- [k \in 1..size |-> data[At[k]]]
ImplementsDeque == Deque!Spec
=============================================================================
