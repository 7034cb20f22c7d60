---------------------------- MODULE FrameQueues ----------------------------
(***************************************************************************)
(* What the input side of the transcoder promises its consumers: for every *)
(* stream a bounded first-in first-out queue of frames.  A frame that      *)
(* enters a queue is newer than every frame of that queue before it, a     *)
(* frame leaves only from the front, to the consumer, and nothing else     *)
(* ever removes a frame until the owner closes the queues.  Closed queues  *)
(* take and hand out nothing, and may be flushed one by one.               *)
(* Frames may be refused (they then never enter a queue).                  *)
(***************************************************************************)
EXTENDS Integers, Sequences

CONSTANTS Streams,  \* the streams of the channel
          Frame,    \* the frames, each with a number No(_)
          No(_),    \* the position of a frame in its input
          Capacity  \* how many frames a queue may hold

VARIABLES queue,    \* queue[s]: the frames waiting in stream s, oldest first
          got,      \* got[s]: the frames of queue s the consumer received
          closed    \* the owner has begun to release the queues

(* f is newer than every frame that went through queue s so far.           *)
Newer(s, f) ==
    /\ \A i \in 1..Len(queue[s]) : No(queue[s][i]) < No(f)
    /\ \A i \in 1..Len(got[s])   : No(got[s][i]) < No(f)

Init == /\ queue = [s \in Streams |-> << >>]
        /\ got = [s \in Streams |-> << >>]
        /\ closed = FALSE

Push(s, f) == /\ ~closed
              /\ Len(queue[s]) < Capacity
              /\ Newer(s, f)
              /\ queue' = [queue EXCEPT ![s] = Append(@, f)]
              /\ UNCHANGED <<got, closed>>

Pop(s) == /\ ~closed
          /\ queue[s] # << >>
          /\ queue' = [queue EXCEPT ![s] = Tail(@)]
          /\ got' = [got EXCEPT ![s] = Append(@, Head(queue[s]))]
          /\ UNCHANGED closed

Close == /\ closed' = TRUE
         /\ UNCHANGED <<queue, got>>

Flush(s) == /\ closed
            /\ queue' = [queue EXCEPT ![s] = << >>]
            /\ UNCHANGED <<got, closed>>

Next == \/ \E s \in Streams : \/ \E f \in Frame : Push(s, f)
                              \/ Pop(s)
                              \/ Flush(s)
        \/ Close

Spec == Init /\ [][Next]_<<queue, got, closed>>
=============================================================================
