-------------------------------- MODULE Que --------------------------------
(***************************************************************************)
(* rtsp_receiver/queue.c: a ring of len values used by several threads     *)
(* under one lock, with two condition variables.  Everything a call does   *)
(* is done holding hndl->lock, and pthread_cond_wait gives the lock up and *)
(* starts to wait at once, so what a thread does from taking the lock to   *)
(* giving it up is one step.  pthread_cond_signal wakes one waiter if      *)
(* there is one; a woken thread needs the lock again and re-tests; a       *)
(* waiter may also wake for no reason.  Any timeout but QUE_NO_WAIT waits  *)
(* for ever.                                                               *)
(***************************************************************************)
EXTENDS Integers, Sequences, FiniteSets

CONSTANTS Putters,  \* threads that call Que_put
          Getters,  \* threads that call Que_get, Que_peek, Que_getQueuedCount
          Values,   \* what is queued (int32_t)
          len,      \* maxLen given to Que_create
          WaitModes, \* the timeouts used: TRUE waits for ever, FALSE is QUE_NO_WAIT
          NoVal     \* no value

Threads == Putters \cup Getters
Slots == 0..(len - 1)

ASSUME ConstantsAssumption ==
    /\ IsFiniteSet(Putters) /\ IsFiniteSet(Getters)
    /\ Putters \cap Getters = {}
    /\ len \in Nat \ {0}
    /\ WaitModes \in SUBSET BOOLEAN
    /\ NoVal \notin Values

VARIABLES queue, curRd, curWr, count,  \* the fields of QueHndl
          st,    \* where each thread is
          arg,   \* its call's value and wait mode
          last   \* the call that returned last, and its result

ring == <<queue, curRd, curWr, count>>
queVars == <<ring, st, arg, last>>

Return(t, call, status, val) ==
    last' = [by |-> t, call |-> call, status |-> status, val |-> val]

(* Que_create.                                                             *)
QueInit == /\ queue = [i \in Slots |-> NoVal]
           /\ curRd = 0 /\ curWr = 0 /\ count = 0
           /\ st = [t \in Threads |-> "idle"]
           /\ arg = [t \in Threads |-> [val |-> NoVal, wait |-> FALSE]]
           /\ last = [by |-> NoVal, call |-> "none", status |-> "ok", val |-> NoVal]

Waiting(c) == {t \in Threads : st[t] = c}
CallPut(t) == /\ st[t] = "idle"
              /\ st' = [st EXCEPT ![t] = "put"]
              /\ \E v \in Values, w \in WaitModes :
                    arg' = [arg EXCEPT ![t] = [val |-> v, wait |-> w]]
              /\ UNCHANGED <<ring, last>>

CallGet(t) == /\ st[t] = "idle"
              /\ st' = [st EXCEPT ![t] = "get"]
              /\ \E w \in WaitModes :
                    arg' = [arg EXCEPT ![t] = [val |-> NoVal, wait |-> w]]
              /\ UNCHANGED <<ring, last>>

(* Slip: a signal only when the queue stops being empty, or full.          *)
SignalOnEdge(t, c, woken) ==
    IF Waiting(c) = {} \/ count \in 1..(len - 1) THEN st' = [st EXCEPT ![t] = "idle"]
    ELSE \E u \in Waiting(c) : st' = [st EXCEPT ![t] = "idle", ![u] = woken]
(* Thread t returns after signalling condition c: one of the threads that  *)
(* wait on it, if any, is woken.                                           *)
SignalAndReturn(t, c, woken) ==
    IF Waiting(c) = {} THEN st' = [st EXCEPT ![t] = "idle"]
    ELSE \E u \in Waiting(c) : st' = [st EXCEPT ![t] = "idle", ![u] = woken]

(* Slip: the index is not moved on.                                        *)
NextSlotStuck(i) == i
NextSlot(i) == (i + 1) % len

(* Slip: one value too many.                                               *)
HasRoomOver(n) == n <= len
HasRoom(n) == n < len

PutStores(t) ==
    /\ st[t] \in {"put", "wokenPut"} /\ HasRoom(count)
    /\ queue' = [queue EXCEPT ![curWr] = arg[t].val]
    /\ curWr' = NextSlot(curWr)
    /\ count' = count + 1
    /\ SignalAndReturn(t, "waitRd", "wokenGet")
    /\ Return(t, "put", "ok", NoVal)
    /\ UNCHANGED <<curRd, arg>>

PutFull(t) ==
    /\ st[t] \in {"put", "wokenPut"} /\ ~HasRoom(count)
    /\ IF arg[t].wait
         THEN st' = [st EXCEPT ![t] = "waitWr"] /\ UNCHANGED last
         ELSE st' = [st EXCEPT ![t] = "idle"] /\ Return(t, "put", "err", NoVal)
    /\ UNCHANGED <<ring, arg>>

GetTakes(t) ==
    /\ st[t] \in {"get", "wokenGet"} /\ count > 0
    /\ curRd' = NextSlot(curRd)
    /\ count' = count - 1
    /\ SignalAndReturn(t, "waitWr", "wokenPut")
    /\ Return(t, "get", "ok", queue[curRd])
    /\ UNCHANGED <<queue, curWr, arg>>

GetEmpty(t) ==
    /\ st[t] \in {"get", "wokenGet"} /\ count <= 0
    /\ IF arg[t].wait
         THEN st' = [st EXCEPT ![t] = "waitRd"] /\ UNCHANGED last
         ELSE st' = [st EXCEPT ![t] = "idle"] /\ Return(t, "get", "err", NoVal)
    /\ UNCHANGED <<ring, arg>>

Peek(t) == /\ st[t] = "idle"
           /\ IF count > 0 THEN Return(t, "peek", "ok", queue[curRd])
                           ELSE Return(t, "peek", "err", NoVal)
           /\ UNCHANGED <<ring, st, arg>>

(* Que_getQueuedCount; Que_isEmpty is this call's answer compared with 0.  *)
GetQueuedCount(t) == /\ st[t] = "idle"
                     /\ Return(t, "count", "ok", count)
                     /\ UNCHANGED <<ring, st, arg>>

(* pthread_cond_wait may return without a signal.                          *)
SpuriousWakeup(t) ==
    /\ st[t] \in {"waitRd", "waitWr"}
    /\ st' = [st EXCEPT ![t] = IF @ = "waitRd" THEN "wokenGet" ELSE "wokenPut"]
    /\ UNCHANGED <<ring, arg, last>>

PutStep(t) == PutStores(t) \/ PutFull(t)
GetStep(t) == GetTakes(t) \/ GetEmpty(t)

QueNext == \/ \E t \in Putters : CallPut(t) \/ PutStep(t)
           \/ \E t \in Getters : CallGet(t) \/ GetStep(t) \/ Peek(t) \/ GetQueuedCount(t)
           \/ \E t \in Threads : SpuriousWakeup(t)

QueSpec == QueInit /\ [][QueNext]_queVars

-----------------------------------------------------------------------------
(* Properties.                                                             *)

(* The indices address the ring and the count fits it.                     *)
QueTypeOK ==
    /\ queue \in [Slots -> Values \cup {NoVal}]
    /\ curRd \in Slots /\ curWr \in Slots /\ count \in 0..len
    /\ st \in [Threads -> {"idle", "put", "get", "waitWr", "waitRd", "wokenPut",
                           "wokenGet"}]
    /\ arg \in [Threads -> [val : Values \cup {NoVal}, wait : BOOLEAN]]

(* The write index is count slots ahead of the read index, and exactly the *)
(* slots from curRd on hold what was put and not yet got (queue.c:60-62,   *)
(* 90-94): a value is never overwritten before it is got.                  *)
RingIsConsistent ==
    /\ QueTypeOK
    /\ curWr = (curRd + count) % len
    /\ \A k \in 0..(count - 1) : queue[(curRd + k) % len] \in Values

(* Nobody sleeps while there is work for him.  queue.c signals one waiter  *)
(* per put or get; that is enough only if, whenever getters sleep, every   *)
(* queued value has a woken getter on its way to it, and whenever putters  *)
(* sleep, every free slot has a woken putter (queue.c:64, 96), whoever     *)
(* takes the lock first.                                                   *)
NoGetterForgotten == Waiting("waitRd") # {} => count <= Cardinality(Waiting("wokenGet"))
NoPutterForgotten == Waiting("waitWr") # {} => len - count <= Cardinality(Waiting("wokenPut"))
NobodyForgotten == NoGetterForgotten /\ NoPutterForgotten

(* The ring, read from curRd, is the abstract queue; every call, whatever  *)
(* the interleaving, takes effect and answers as on that queue: values in  *)
(* order, none lost or twice, QUE_ERR only when full or empty.             *)
Fifo == INSTANCE BoundedFifo
          WITH Capacity <- len,
               q <- [i \in 1..count |-> queue[(curRd + i - 1) % len]]
ImplementsFifo == Fifo!Spec
=============================================================================
