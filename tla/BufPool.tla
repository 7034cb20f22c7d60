------------------------------ MODULE BufPool ------------------------------
(***************************************************************************)
(* rtsp_receiver/buffer.c, the pool of numBuf frame buffers gRingBuffer,   *)
(* with its producer, FrameSink::afterGettingFrame (FrameSink.cpp), and    *)
(* its consumers, which are not part of the repository.  A buffer's id     *)
(* goes round: emptyQue, a producer that fills it, fullQue, a consumer     *)
(* that reads it.  The two queues are Que.tla's, by what BoundedFifo       *)
(* promises: a call is one step, a put waits for room.                     *)
(*                                                                         *)
(* The live555 event loop runs one sink call at a time, so all sinks are   *)
(* one thread.  Consumers call Buf_getFull and Buf_putEmpty, or            *)
(* Buf_switchEmpty; other producers may call Buf_switchFull.               *)
(***************************************************************************)
EXTENDS Integers, Sequences, FiniteSets

CONSTANTS numBuf,       \* number of buffers, at most BUF_NUM_MAX
          Sink,         \* the sinks' thread: a set of at most one
          SwitchProducers, Consumers, SwitchConsumers,
          NumFrames     \* bound: frames that arrive

Ids == 0..(numBuf - 1)
Invalid == -1           \* BUF_ID_INVALID
Producers == Sink \cup SwitchProducers
Readers == Consumers \cup SwitchConsumers
Threads == Producers \cup Readers
(* A frame: who put it into a buffer, and its number.                      *)
Frames == [by : Producers, no : 1..NumFrames]
NoFrame == [by |-> Invalid, no |-> 0]

ASSUME ConstantsAssumption ==
    /\ numBuf \in Nat \ {0} /\ NumFrames \in Nat
    /\ Producers \cap Readers = {} /\ Consumers \cap SwitchConsumers = {}
    /\ Sink \cap SwitchProducers = {}

VARIABLES emptyQue, fullQue,
          content,  \* content[id]: the frame last copied into the buffer
          pc,       \* where each thread is
          bufId,    \* the buffer it works on
          newId,    \* newBufId of a switch in progress
          arrived,  \* frames copied or dropped, the number of the newest
          got       \* frames handed to consumers, in order

vars == <<emptyQue, fullQue, content, pc, bufId, newId, arrived, got>>

(* Buf_create puts every id into emptyQue.                                 *)
Init == /\ emptyQue = [i \in 1..numBuf |-> i - 1]
        /\ fullQue = << >>
        /\ content = [i \in Ids |-> NoFrame]
        /\ pc = [t \in Threads |-> "idle"]
        /\ bufId = [t \in Threads |-> Invalid]
        /\ newId = [t \in Threads |-> Invalid]
        /\ arrived = 0
        /\ got = << >>

Goto(t, l) == pc' = [pc EXCEPT ![t] = l]
Hold(t, id) == bufId' = [bufId EXCEPT ![t] = id]
InRange(id) == id \in Ids

(* The length Buf_create gives fullQue.                                    *)
fullQueLen == numBuf

(* Que_get and Que_put on the two queues.                                  *)
TakeEmpty == emptyQue' = Tail(emptyQue)
(* Slip: the rest of the queue is thrown away.                             *)
TakeFullFlush == /\ fullQue' = << >>
                 /\ got' = Append(got, content[Head(fullQue)])
TakeFull == /\ fullQue' = Tail(fullQue)
            /\ got' = Append(got, content[Head(fullQue)])
PutEmpty(id) == /\ Len(emptyQue) < numBuf
                /\ emptyQue' = Append(emptyQue, id)
PutFull(id) == /\ Len(fullQue) < fullQueLen
               /\ fullQue' = Append(fullQue, id)

-----------------------------------------------------------------------------
(* Slip: without an empty buffer the oldest frame makes room for the new.  *)
AfterGettingFrameForOld(t) ==
    /\ pc[t] = "idle" /\ arrived < NumFrames
    /\ IF emptyQue # << >>
         THEN TakeEmpty /\ Hold(t, Head(emptyQue)) /\ UNCHANGED fullQue
         ELSE /\ fullQue # << >>
              /\ fullQue' = Tail(fullQue) /\ Hold(t, Head(fullQue)) /\ UNCHANGED emptyQue
    /\ Goto(t, "fill")
    /\ UNCHANGED <<content, newId, arrived, got>>
(* FrameSink::afterGettingFrame: a frame arrived.  Without an empty buffer *)
(* it is dropped and the next one requested; else it is copied into the    *)
(* buffer, which Buf_putFull then queues (and the assert holds).           *)
AfterGettingFrame(t) ==
    /\ pc[t] = "idle" /\ arrived < NumFrames
    /\ IF emptyQue # << >>
         THEN /\ TakeEmpty /\ Hold(t, Head(emptyQue)) /\ Goto(t, "fill")
              /\ UNCHANGED arrived
         ELSE /\ arrived' = arrived + 1
              /\ UNCHANGED <<emptyQue, bufId, pc>>
    /\ UNCHANGED <<fullQue, content, newId, got>>

(* The frame a producer copies into id is the next of those that arrive.   *)
CopyInto(t, id) == /\ arrived < NumFrames
                   /\ arrived' = arrived + 1
                   /\ content' = [content EXCEPT ![id] = [by |-> t, no |-> arrived + 1]]

CopyFrame(t) ==
    /\ pc[t] = "fill"
    /\ CopyInto(t, bufId[t])
    /\ Goto(t, "putFull")
    /\ UNCHANGED <<emptyQue, fullQue, bufId, newId, got>>

SinkPutFull(t) ==
    /\ pc[t] = "putFull" /\ InRange(bufId[t])
    /\ PutFull(bufId[t])
    /\ Hold(t, Invalid) /\ Goto(t, "idle")
    /\ UNCHANGED <<emptyQue, content, newId, arrived, got>>

-----------------------------------------------------------------------------
(* Buf_switchFull: only with an empty buffer in hand is the filled one     *)
(* queued; without one the caller keeps (and refills) what it has.         *)
SwitchFullGet(t) ==
    /\ pc[t] = "idle" /\ emptyQue # << >>
    /\ TakeEmpty
    /\ newId' = [newId EXCEPT ![t] = Head(emptyQue)]
    /\ Goto(t, IF bufId[t] # Invalid THEN "switch" ELSE "swap")
    /\ UNCHANGED <<fullQue, content, bufId, arrived, got>>

(* Slip: the filled buffer is queued and also kept.                        *)
SwitchFullPutKept(t) ==
    /\ pc[t] = "switch" /\ PutFull(bufId[t])
    /\ newId' = [newId EXCEPT ![t] = bufId[t]]
    /\ Goto(t, "swap")
    /\ UNCHANGED <<emptyQue, content, bufId, arrived, got>>

SwitchFullPut(t) ==
    /\ pc[t] = "switch" /\ PutFull(bufId[t])
    /\ Goto(t, "swap")
    /\ UNCHANGED <<emptyQue, content, bufId, newId, arrived, got>>

(* *bufId = newBufId.                                                      *)
Swap(t) ==
    /\ pc[t] = "swap"
    /\ Hold(t, newId[t])
    /\ newId' = [newId EXCEPT ![t] = Invalid]
    /\ Goto(t, IF t \in Producers THEN "refill" ELSE "idle")
    /\ UNCHANGED <<emptyQue, fullQue, content, arrived, got>>

(* The caller of Buf_switchFull fills the buffer it got before it switches *)
(* again.                                                                  *)
FillHeld(t) ==
    /\ pc[t] = "refill"
    /\ CopyInto(t, bufId[t])
    /\ Goto(t, "idle")
    /\ UNCHANGED <<emptyQue, fullQue, bufId, newId, got>>

-----------------------------------------------------------------------------
(* A consumer: Buf_getFull (blocking, or not and failing without effect),  *)
(* then Buf_putEmpty.                                                      *)
GetFull(t) ==
    /\ pc[t] = "idle" /\ bufId[t] = Invalid /\ fullQue # << >>
    /\ TakeFull
    /\ Hold(t, Head(fullQue))
    /\ UNCHANGED <<emptyQue, content, pc, newId, arrived>>

ReturnEmpty(t) ==
    /\ pc[t] = "idle" /\ InRange(bufId[t])
    /\ PutEmpty(bufId[t])
    /\ Hold(t, Invalid)
    /\ UNCHANGED <<fullQue, content, pc, newId, arrived, got>>

(* Buf_switchEmpty.                                                        *)
SwitchEmptyGet(t) ==
    /\ pc[t] = "idle" /\ fullQue # << >>
    /\ TakeFull
    /\ newId' = [newId EXCEPT ![t] = Head(fullQue)]
    /\ Goto(t, IF bufId[t] # Invalid THEN "switch" ELSE "swap")
    /\ UNCHANGED <<emptyQue, content, bufId, arrived>>

(* Slip: the new buffer is given back instead of the old one.              *)
SwitchEmptyPutNew(t) ==
    /\ pc[t] = "switch" /\ PutEmpty(newId[t])
    /\ Goto(t, "swap")
    /\ UNCHANGED <<fullQue, content, bufId, newId, arrived, got>>

SwitchEmptyPut(t) ==
    /\ pc[t] = "switch" /\ PutEmpty(bufId[t])
    /\ Goto(t, "swap")
    /\ UNCHANGED <<fullQue, content, bufId, newId, arrived, got>>

SinkStep(t) == AfterGettingFrame(t) \/ CopyFrame(t) \/ SinkPutFull(t)
SwitchFullStep(t) == SwitchFullGet(t) \/ SwitchFullPut(t) \/ Swap(t) \/ FillHeld(t)
ConsumerStep(t) == GetFull(t) \/ ReturnEmpty(t)
SwitchEmptyStep(t) == SwitchEmptyGet(t) \/ SwitchEmptyPut(t) \/ Swap(t)

Next == \/ \E t \in Sink : SinkStep(t)
        \/ \E t \in SwitchProducers : SwitchFullStep(t)
        \/ \E t \in Consumers : ConsumerStep(t)
        \/ \E t \in SwitchConsumers : SwitchEmptyStep(t)

(* Every call that can go on does; consumers return what they hold.        *)
Fairness == /\ \A t \in Sink : WF_vars(CopyFrame(t)) /\ WF_vars(SinkPutFull(t))
            /\ \A t \in Consumers : WF_vars(ConsumerStep(t))

Spec == Init /\ [][Next]_vars /\ Fairness

-----------------------------------------------------------------------------
(* Properties.                                                             *)

TypeOK ==
    /\ emptyQue \in Seq(Ids) /\ fullQue \in Seq(Ids)
    /\ content \in [Ids -> Frames \cup {NoFrame}]
    /\ pc \in [Threads -> {"idle", "fill", "putFull", "switch", "swap", "refill"}]
    /\ bufId \in [Threads -> Ids \cup {Invalid}]
    /\ newId \in [Threads -> Ids \cup {Invalid}]
    /\ arrived \in 0..NumFrames
    /\ got \in Seq(Frames)

(* The buffer a thread has in hand: in the middle of a switch also the new *)
(* one, and no longer the old one once it is queued.                       *)
InHand(t) == (IF pc[t] = "swap" THEN {newId[t]} ELSE {bufId[t], newId[t]}) \ {Invalid}

(* Every buffer is in exactly one place: one of the queues, once, or in    *)
(* one thread's hands.  No id is lost or doubled by a drop, a failed call  *)
(* or a switch another thread interrupts (buffer.c:124-162).  So a put on  *)
(* either queue finds room at once, although it may wait for ever          *)
(* (QUE_WAIT_FOREVER): the event loop is never blocked by Buf_putFull, and *)
(* its assert (FrameSink.cpp:65) never fails.                              *)
Places(id) == {<<"empty", k>> : k \in {k \in 1..Len(emptyQue) : emptyQue[k] = id}}
         \cup {<<"full", k>> : k \in {k \in 1..Len(fullQue) : fullQue[k] = id}}
         \cup {<<"hand", t>> : t \in {t \in Threads : id \in InHand(t)}}
PutsFindRoom ==
    \A t \in Threads :
       /\ pc[t] = "putFull" => InRange(bufId[t]) /\ Len(fullQue) < fullQueLen
       /\ pc[t] = "switch" => IF t \in Producers THEN Len(fullQue) < fullQueLen
                                              ELSE Len(emptyQue) < numBuf
       /\ t \in Consumers /\ bufId[t] # Invalid => Len(emptyQue) < numBuf
IdsAreConserved ==
    TypeOK /\ (\A id \in Ids : Cardinality(Places(id)) = 1) /\ PutsFindRoom

(* Nobody writes into a buffer while a consumer has it.                    *)
ReadersSeeStableFrames ==
    [][\A t \in Readers : \A id \in InHand(t) : content'[id] = content[id]]_vars

(* The frames consumers get are frames that arrived, those of a producer   *)
(* in order of arrival, each once: what is not dropped at arrival is never *)
(* lost, overwritten or reordered.  Nobody ever closes or flushes the pool *)
(* (Buf_delete has no caller), so a frame leaves only to a consumer.       *)
By(t, frames) ==   \* kept[n] is what the first n hold by t
    LET kept[n \in 0..Len(frames)] ==
          IF n = 0 THEN << >>
          ELSE IF frames[n].by = t THEN Append(kept[n - 1], frames[n]) ELSE kept[n - 1]
    IN  kept[Len(frames)]
Waiting == [k \in 1..Len(fullQue) |-> content[fullQue[k]]]
Queues == INSTANCE FrameQueues
            WITH Streams <- Producers, Frame <- Frames, No <- LAMBDA f : f.no,
                 Capacity <- numBuf,
                 queue <- [t \in Producers |-> By(t, Waiting)],
                 got <- [t \in Producers |-> By(t, got)], closed <- FALSE
ImplementsFrameQueues == Queues!Spec

(* A frame that found a buffer reaches a consumer, and the sink comes back *)
(* for the next frame (as far as the bound goes), however slow the         *)
(* consumers are.                                                          *)
KeptFramesAreReceived ==
    \A n \in 1..NumFrames, t \in Sink :
       /\ (pc[t] = "putFull" /\ content[bufId[t]].no = n)
             ~> (\E i \in 1..Len(got) : got[i].no = n)
       /\ pc[t] = "fill" ~> pc[t] = "idle" \/ arrived = NumFrames
=============================================================================
