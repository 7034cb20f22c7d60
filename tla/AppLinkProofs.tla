--------------------------- MODULE AppLinkProofs ---------------------------
(***************************************************************************)
(* Proofs about AppLink, for every number of frames and serial numbers.    *)
(***************************************************************************)
EXTENDS AppLink, FiniteSetTheorems, SequenceTheorems, TLAPS

(* The frames between capture and the next link have the serial numbers    *)
(* after the last one it got, without a gap, and what is queued is gray.   *)
OrderInv ==
    /\ captured = got + Len(outFrameBufQue) + Len(list) + Len(prevQue)
    /\ \A k \in 1..Len(outFrameBufQue) :
          serial[outFrameBufQue[k]] = got + k /\ outFrameBufQue[k] \in gray
    /\ \A k \in 1..Len(list) : serial[list[k]] = got + Len(outFrameBufQue) + k
    /\ \A k \in 1..Len(prevQue) :
          serial[prevQue[k]] = got + Len(outFrameBufQue) + Len(list) + k

(* A frame either neighbour has to itself is in none of the queues.        *)
Apart(S, q) == \A k \in 1..Len(q) : q[k] \notin S
PlaceInv ==
    /\ empty \cap taken = {}
    /\ Apart(empty \cup taken, prevQue) /\ Apart(empty \cup taken, list)
    /\ Apart(empty \cup taken, outFrameBufQue)

CountInv ==
    Cardinality(empty) + Len(prevQue) + Len(list) + Len(outFrameBufQue) + Cardinality(taken)
       = Cardinality(Frames)

(* The task: a list only while it is processed, nothing before CREATE.     *)
TaskInv == /\ pc = "receive" => list = << >>
           /\ created = "no" => captured = 0

IInv == TypeOK /\ OrderInv /\ PlaceInv /\ CountInv /\ TaskInv /\ NextLinkIsTold

-----------------------------------------------------------------------------
(* What the sequence operators do, index by index.                         *)

LEMMA TailOf ==
  ASSUME NEW S, NEW q \in Seq(S), q # << >>
  PROVE  /\ Tail(q) \in Seq(S) /\ Len(q) \in Nat \ {0} /\ Len(Tail(q)) = Len(q) - 1
         /\ Head(q) = q[1] /\ q[1] \in S
         /\ \A k \in 1..Len(Tail(q)) : k + 1 \in 1..Len(q) /\ Tail(q)[k] = q[k + 1]
BY HeadTailProperties

LEMMA AppendOf ==
  ASSUME NEW S, NEW q \in Seq(S), NEW x \in S
  PROVE  /\ Append(q, x) \in Seq(S) /\ Len(q) \in Nat /\ Len(Append(q, x)) = Len(q) + 1
         /\ \A k \in 1..Len(Append(q, x)) :
               \/ k \in 1..Len(q) /\ Append(q, x)[k] = q[k]
               \/ k = Len(q) + 1 /\ Append(q, x)[k] = x
BY AppendProperties

LEMMA Counts ==
  ASSUME TypeOK
  PROVE  /\ IsFiniteSet(empty) /\ IsFiniteSet(taken)
         /\ Cardinality(empty) \in Nat /\ Cardinality(taken) \in Nat
         /\ Cardinality(Frames) \in Nat
         /\ Len(prevQue) \in Nat /\ Len(list) \in Nat /\ Len(outFrameBufQue) \in Nat
<1>1. empty \subseteq Frames /\ taken \subseteq Frames /\ IsFiniteSet(Frames)
  BY PoolAssumption DEF TypeOK
<1>2. IsFiniteSet(empty) /\ IsFiniteSet(taken)
  BY <1>1, FS_Subset
<1>3. Len(prevQue) \in Nat /\ Len(list) \in Nat /\ Len(outFrameBufQue) \in Nat
  BY DEF TypeOK
<1> QED BY <1>1, <1>2, <1>3, FS_CardinalityType

-----------------------------------------------------------------------------
LEMMA InitIInv == Init => IInv
<1> SUFFICES ASSUME Init PROVE IInv
  OBVIOUS
<1>1. TypeOK
  <2>1. <<"CREATE">> \in Seq({"CREATE", "GRAY", "DELETE", "NEW_DATA"}) /\ Len(<<"CREATE">>) = 1
    OBVIOUS
  <2>2. inbox \in Seq({"CREATE", "GRAY", "DELETE", "NEW_DATA"}) /\ Len(inbox) <= MaxInbox
    BY <2>1, BoundsAssumption DEF Init
  <2>3. /\ serial \in [Frames -> 0..NumSerials] /\ captured \in 0..NumSerials
        /\ got \in 0..NumSerials
    BY BoundsAssumption DEF Init
  <2>4. prevQue \in Seq(Frames) /\ list \in Seq(Frames) /\ outFrameBufQue \in Seq(Frames)
    BY DEF Init
  <2>5. /\ prevDue \in BOOLEAN /\ nextDue \in BOOLEAN /\ taking \in BOOLEAN
        /\ empty \subseteq Frames /\ gray \subseteq Frames /\ taken \subseteq Frames
        /\ created \in {"no", "yes", "deleted"} /\ pc \in {"receive", "process"}
    BY DEF Init
  <2> QED BY <2>2, <2>3, <2>4, <2>5 DEF TypeOK
<1>2. OrderInv /\ PlaceInv /\ TaskInv /\ NextLinkIsTold
  BY DEF Init, OrderInv, PlaceInv, Apart, TaskInv, NextLinkIsTold
<1>3. CountInv
  <2>1. Cardinality({}) = 0 /\ Cardinality(Frames) \in Nat
    BY FS_EmptySet, PoolAssumption, FS_CardinalityType
  <2> QED BY <2>1 DEF Init, CountInv
<1> QED BY <1>1, <1>2, <1>3 DEF IInv

(* The frames move on by one place.                                        *)
LEMMA CaptureKeeps ==
  ASSUME IInv, NEW f \in Frames, Capture(f)
  PROVE  IInv'
<1>a. /\ TypeOK /\ OrderInv /\ PlaceInv /\ CountInv /\ TaskInv /\ NextLinkIsTold
      /\ NumSerials \in Nat
  BY BoundsAssumption DEF IInv
<1>b. /\ created = "yes" /\ f \in empty /\ captured < NumSerials
      /\ empty' = empty \ {f} /\ prevQue' = Append(prevQue, f) /\ prevDue' = TRUE
      /\ captured' = captured + 1 /\ serial' = [serial EXCEPT ![f] = captured + 1]
      /\ gray' = gray \ {f}
      /\ UNCHANGED <<inbox, created, pc, list, outFrameBufQue, nextDue, taking, taken, got>>
  BY DEF Capture, taskVars, nextVars
<1>c. /\ prevQue' \in Seq(Frames) /\ Len(prevQue') = Len(prevQue) + 1
      /\ \A k \in 1..Len(prevQue') : \/ k \in 1..Len(prevQue) /\ prevQue'[k] = prevQue[k]
                                     \/ k = Len(prevQue) + 1 /\ prevQue'[k] = f
  BY <1>a, <1>b, AppendOf DEF TypeOK
<1>d. /\ Len(prevQue) \in Nat /\ Len(list) \in Nat /\ Len(outFrameBufQue) \in Nat
      /\ captured \in Nat /\ got \in Nat
  BY <1>a, Counts DEF TypeOK
<1>e. serial'[f] = captured + 1 /\ \A g \in Frames \ {f} : serial'[g] = serial[g]
  BY <1>a, <1>b DEF TypeOK
<1>f. /\ \A k \in 1..Len(list) : list[k] \in Frames \ {f}
      /\ \A k \in 1..Len(outFrameBufQue) : outFrameBufQue[k] \in Frames \ {f}
      /\ \A k \in 1..Len(prevQue) : prevQue[k] \in Frames \ {f}
  <2>1. /\ \A k \in 1..Len(list) : list[k] \in Frames
        /\ \A k \in 1..Len(outFrameBufQue) : outFrameBufQue[k] \in Frames
        /\ \A k \in 1..Len(prevQue) : prevQue[k] \in Frames
    BY <1>a, ElementOfSeq DEF TypeOK
  <2> QED BY <1>a, <1>b, <2>1 DEF PlaceInv, Apart
<1>1. TypeOK'
  <2>1. captured' \in 0..NumSerials /\ serial' \in [Frames -> 0..NumSerials]
    BY <1>a, <1>b DEF TypeOK
  <2> QED BY <1>a, <1>b, <1>c, <2>1 DEF TypeOK
<1>2. OrderInv'
  <2>1. captured' = got' + Len(outFrameBufQue') + Len(list') + Len(prevQue')
    BY <1>a, <1>b, <1>c, <1>d DEF OrderInv
  <2>2. \A k \in 1..Len(outFrameBufQue) :
           serial'[outFrameBufQue[k]] = got + k /\ outFrameBufQue[k] \in gray'
    BY <1>a, <1>b, <1>e, <1>f DEF OrderInv
  <2>3. \A k \in 1..Len(list) : serial'[list[k]] = got + Len(outFrameBufQue) + k
    BY <1>a, <1>e, <1>f DEF OrderInv
  <2>4. \A k \in 1..Len(prevQue') :
           serial'[prevQue'[k]] = got + Len(outFrameBufQue) + Len(list) + k
    <3> SUFFICES ASSUME NEW k \in 1..Len(prevQue')
                 PROVE  serial'[prevQue'[k]] = got + Len(outFrameBufQue) + Len(list) + k
      OBVIOUS
    <3>1. CASE k \in 1..Len(prevQue) /\ prevQue'[k] = prevQue[k]
      BY <1>a, <1>e, <1>f, <3>1 DEF OrderInv
    <3>2. CASE k = Len(prevQue) + 1 /\ prevQue'[k] = f
      BY <1>a, <1>d, <1>e, <3>2 DEF OrderInv
    <3> QED BY <1>c, <3>1, <3>2
  <2> QED BY <1>b, <2>1, <2>2, <2>3, <2>4 DEF OrderInv
<1>3. PlaceInv'
  BY <1>a, <1>b, <1>c, <1>f DEF PlaceInv, Apart
<1>4. CountInv'
  <2>1. Cardinality(empty') = Cardinality(empty) - 1
    BY <1>a, <1>b, Counts, FS_RemoveElement
  <2> QED BY <1>a, <1>b, <1>c, <2>1, Counts DEF CountInv
<1>5. TaskInv' /\ NextLinkIsTold'
  BY <1>a, <1>b DEF TaskInv, NextLinkIsTold
<1> QED BY <1>1, <1>2, <1>3, <1>4, <1>5 DEF IInv

LEMMA GetFramesKeeps ==
  ASSUME IInv, GetFrames, list' # list
  PROVE  IInv'
<1>a. TypeOK /\ OrderInv /\ PlaceInv /\ CountInv /\ TaskInv /\ NextLinkIsTold
  BY DEF IInv
<1>b. /\ list = << >> /\ inbox # << >> /\ inbox' = Tail(inbox)
      /\ list' = prevQue /\ prevQue' = << >> /\ pc' = "process"
      /\ UNCHANGED <<empty, prevDue, serial, captured, created, gray, outFrameBufQue,
                     nextDue, taking, taken, got>>
  BY <1>a DEF GetFrames, Receive, TaskInv, nextVars
<1>c. Len(list) = 0 /\ Len(prevQue') = 0 /\ prevQue' \in Seq(Frames)
  BY <1>b
<1>1. TypeOK'
  <2>1. inbox' \in Seq({"CREATE", "GRAY", "DELETE", "NEW_DATA"}) /\ Len(inbox') <= MaxInbox
    BY <1>a, <1>b, TailOf, BoundsAssumption DEF TypeOK
  <2> QED BY <1>a, <1>b, <1>c, <2>1 DEF TypeOK
<1>2. OrderInv' /\ CountInv'
  BY <1>a, <1>b, <1>c, Counts DEF OrderInv, CountInv, TypeOK
<1>3. PlaceInv' /\ TaskInv' /\ NextLinkIsTold'
  BY <1>a, <1>b, <1>c DEF PlaceInv, Apart, TaskInv, NextLinkIsTold
<1> QED BY <1>1, <1>2, <1>3 DEF IInv

LEMMA ProcessFrameKeeps ==
  ASSUME IInv, ProcessFrame
  PROVE  IInv'
<1>a. TypeOK /\ OrderInv /\ PlaceInv /\ CountInv /\ TaskInv /\ NextLinkIsTold
  BY DEF IInv
<1>b. /\ pc = "process" /\ list # << >>
      /\ gray' = gray \cup {Head(list)}
      /\ outFrameBufQue' = Append(outFrameBufQue, Head(list)) /\ list' = Tail(list)
      /\ UNCHANGED <<empty, prevQue, prevDue, serial, captured, inbox, created, pc,
                     nextDue, taking, taken, got>>
  BY DEF ProcessFrame, prevVars, nextVars
<1>c. /\ list' \in Seq(Frames) /\ Len(list) \in Nat \ {0} /\ Len(list') = Len(list) - 1
      /\ Head(list) = list[1] /\ list[1] \in Frames /\ 1 \in 1..Len(list)
      /\ \A k \in 1..Len(list') : k + 1 \in 1..Len(list) /\ list'[k] = list[k + 1]
  BY <1>a, <1>b, TailOf DEF TypeOK
<1>d. /\ outFrameBufQue' \in Seq(Frames) /\ Len(outFrameBufQue') = Len(outFrameBufQue) + 1
      /\ \A k \in 1..Len(outFrameBufQue') :
            \/ k \in 1..Len(outFrameBufQue) /\ outFrameBufQue'[k] = outFrameBufQue[k]
            \/ k = Len(outFrameBufQue) + 1 /\ outFrameBufQue'[k] = list[1]
  BY <1>a, <1>b, <1>c, AppendOf DEF TypeOK
<1>e. Len(prevQue) \in Nat /\ Len(outFrameBufQue) \in Nat /\ got \in Nat
  BY <1>a, Counts DEF TypeOK
<1>1. TypeOK'
  BY <1>a, <1>b, <1>c, <1>d DEF TypeOK
<1>2. OrderInv'
  <2>1. captured' = got' + Len(outFrameBufQue') + Len(list') + Len(prevQue')
    BY <1>a, <1>b, <1>c, <1>d, <1>e DEF OrderInv
  <2>2. \A k \in 1..Len(outFrameBufQue') :
           serial[outFrameBufQue'[k]] = got + k /\ outFrameBufQue'[k] \in gray'
    <3> SUFFICES ASSUME NEW k \in 1..Len(outFrameBufQue')
                 PROVE  serial[outFrameBufQue'[k]] = got + k /\ outFrameBufQue'[k] \in gray'
      OBVIOUS
    <3>1. serial[list[1]] = got + Len(outFrameBufQue) + 1
      BY <1>a, <1>c DEF OrderInv
    <3>2. CASE k \in 1..Len(outFrameBufQue) /\ outFrameBufQue'[k] = outFrameBufQue[k]
      <4>1. serial[outFrameBufQue[k]] = got + k /\ outFrameBufQue[k] \in gray
        BY <1>a, <3>2 DEF OrderInv
      <4> QED BY <1>b, <3>2, <4>1
    <3>3. CASE k = Len(outFrameBufQue) + 1 /\ outFrameBufQue'[k] = list[1]
      <4>1. list[1] \in gray'
        BY <1>b, <1>c
      <4>2. serial[outFrameBufQue'[k]] = got + k
        BY <1>e, <3>1, <3>3
      <4> QED BY <3>3, <4>1, <4>2
    <3> QED BY <1>d, <3>2, <3>3
  <2>3. \A k \in 1..Len(list') : serial[list'[k]] = got + Len(outFrameBufQue') + k
    <3> SUFFICES ASSUME NEW k \in 1..Len(list')
                 PROVE  serial[list'[k]] = got + Len(outFrameBufQue') + k
      OBVIOUS
    <3>1. serial[list[k + 1]] = got + Len(outFrameBufQue) + (k + 1)
      BY <1>a, <1>c DEF OrderInv
    <3> QED BY <1>c, <1>d, <1>e, <3>1
  <2>4. \A k \in 1..Len(prevQue) :
           serial[prevQue[k]] = got + Len(outFrameBufQue') + Len(list') + k
    BY <1>a, <1>c, <1>d, <1>e DEF OrderInv
  <2> QED BY <1>b, <2>1, <2>2, <2>3, <2>4 DEF OrderInv
<1>3. PlaceInv'
  BY <1>a, <1>b, <1>c, <1>d DEF PlaceInv, Apart
<1>4. CountInv'
  <2>1. /\ Cardinality(empty) \in Nat /\ Cardinality(taken) \in Nat
        /\ Cardinality(empty') = Cardinality(empty) /\ Cardinality(taken') = Cardinality(taken)
        /\ Len(prevQue') = Len(prevQue)
    BY <1>a, <1>b, Counts
  <2> QED BY <1>a, <1>c, <1>d, <1>e, <2>1 DEF CountInv
<1>5. TaskInv' /\ NextLinkIsTold'
  BY <1>a, <1>b DEF TaskInv, NextLinkIsTold
<1> QED BY <1>1, <1>2, <1>3, <1>4, <1>5 DEF IInv

(* The frame the next link takes has the next serial number.               *)
LEMMA NextInLine ==
  ASSUME IInv, TakeFrame, outFrameBufQue # << >>
  PROVE  got' = got + 1 /\ serial[outFrameBufQue[1]] = got + 1 /\ outFrameBufQue[1] \in gray
<1>1. 1 \in 1..Len(outFrameBufQue) /\ Head(outFrameBufQue) = outFrameBufQue[1]
  BY TailOf DEF IInv, TypeOK
<1> QED BY <1>1 DEF TakeFrame, IInv, OrderInv

LEMMA TakeFrameKeeps ==
  ASSUME IInv, TakeFrame
  PROVE  IInv'
<1>a. TypeOK /\ OrderInv /\ PlaceInv /\ CountInv /\ TaskInv /\ NextLinkIsTold
  BY DEF IInv
<1>1. CASE outFrameBufQue = << >>
  <2>1. /\ taking' = FALSE
        /\ UNCHANGED <<empty, prevQue, prevDue, serial, captured, inbox, created, pc, list,
                       gray, outFrameBufQue, nextDue, taken, got>>
    BY <1>1 DEF TakeFrame, prevVars, taskVars
  <2> QED BY <1>a, <1>1, <2>1
          DEF IInv, TypeOK, OrderInv, PlaceInv, Apart, CountInv, TaskInv, NextLinkIsTold
<1>2. CASE outFrameBufQue # << >>
  <2>b. /\ outFrameBufQue' = Tail(outFrameBufQue) /\ got' = got + 1 /\ taking
        /\ taken' = taken \cup {Head(outFrameBufQue)}
        /\ UNCHANGED <<empty, prevQue, prevDue, serial, captured, inbox, created, pc, list,
                       gray, nextDue, taking>>
    BY <1>2, NextInLine DEF TakeFrame, prevVars, taskVars
  <2>c. /\ outFrameBufQue' \in Seq(Frames) /\ Len(outFrameBufQue) \in Nat \ {0}
        /\ Len(outFrameBufQue') = Len(outFrameBufQue) - 1
        /\ Head(outFrameBufQue) = outFrameBufQue[1] /\ outFrameBufQue[1] \in Frames
        /\ 1 \in 1..Len(outFrameBufQue)
        /\ \A k \in 1..Len(outFrameBufQue') :
              k + 1 \in 1..Len(outFrameBufQue) /\ outFrameBufQue'[k] = outFrameBufQue[k + 1]
    BY <1>a, <1>2, <2>b, TailOf DEF TypeOK
  <2>d. Len(prevQue) \in Nat /\ Len(list) \in Nat /\ got \in Nat /\ captured \in 0..NumSerials
    BY <1>a, Counts DEF TypeOK
  <2>1. TypeOK'
    <3>1. got' \in 0..NumSerials
      BY <1>a, <2>b, <2>c, <2>d, BoundsAssumption DEF OrderInv
    <3> QED BY <1>a, <2>b, <2>c, <3>1 DEF TypeOK
  <2>2. OrderInv'
    <3>1. captured' = got' + Len(outFrameBufQue') + Len(list') + Len(prevQue')
      BY <1>a, <2>b, <2>c, <2>d DEF OrderInv
    <3>2. \A k \in 1..Len(outFrameBufQue') :
             serial[outFrameBufQue'[k]] = got' + k /\ outFrameBufQue'[k] \in gray
      <4> SUFFICES ASSUME NEW k \in 1..Len(outFrameBufQue')
                   PROVE  serial[outFrameBufQue'[k]] = got' + k /\ outFrameBufQue'[k] \in gray
        OBVIOUS
      <4>1. serial[outFrameBufQue[k + 1]] = got + (k + 1) /\ outFrameBufQue[k + 1] \in gray
        BY <1>a, <2>c DEF OrderInv
      <4> QED BY <2>b, <2>c, <2>d, <4>1
    <3>3. /\ \A k \in 1..Len(list) : serial[list[k]] = got' + Len(outFrameBufQue') + k
          /\ \A k \in 1..Len(prevQue) :
                serial[prevQue[k]] = got' + Len(outFrameBufQue') + Len(list) + k
      BY <1>a, <2>b, <2>c, <2>d DEF OrderInv
    <3> QED BY <2>b, <3>1, <3>2, <3>3 DEF OrderInv
  <2>3. /\ \A k \in 1..Len(outFrameBufQue') : outFrameBufQue'[k] # outFrameBufQue[1]
        /\ \A k \in 1..Len(list) : list[k] # outFrameBufQue[1]
        /\ \A k \in 1..Len(prevQue) : prevQue[k] # outFrameBufQue[1]
    <3>1. serial[outFrameBufQue[1]] = got + 1
      BY <1>a, <2>c DEF OrderInv
    <3>2. \A k \in 1..Len(outFrameBufQue') : serial[outFrameBufQue'[k]] # got + 1
      <4> SUFFICES ASSUME NEW k \in 1..Len(outFrameBufQue')
                   PROVE  serial[outFrameBufQue'[k]] # got + 1
        OBVIOUS
      <4>1. serial[outFrameBufQue[k + 1]] = got + (k + 1)
        BY <1>a, <2>c DEF OrderInv
      <4> QED BY <2>c, <2>d, <4>1
    <3>3. /\ \A k \in 1..Len(list) : serial[list[k]] # got + 1
          /\ \A k \in 1..Len(prevQue) : serial[prevQue[k]] # got + 1
      BY <1>a, <2>c, <2>d DEF OrderInv
    <3> QED BY <3>1, <3>2, <3>3
  <2>4. outFrameBufQue[1] \notin empty /\ outFrameBufQue[1] \notin taken
    BY <1>a, <2>c DEF PlaceInv, Apart
  <2>5. PlaceInv'
    BY <1>a, <2>b, <2>c, <2>3, <2>4 DEF PlaceInv, Apart
  <2>6. CountInv'
    <3>1. Cardinality(taken') = Cardinality(taken) + 1
      BY <1>a, <2>b, <2>c, <2>4, Counts, FS_AddElement
    <3> QED BY <1>a, <2>b, <2>c, <3>1, Counts DEF CountInv
  <2>7. TaskInv' /\ NextLinkIsTold'
    BY <1>a, <2>b DEF TaskInv, NextLinkIsTold
  <2> QED BY <2>1, <2>2, <2>5, <2>6, <2>7 DEF IInv
<1> QED BY <1>1, <1>2

LEMMA PutEmptyFramesKeeps ==
  ASSUME IInv, PutEmptyFrames
  PROVE  IInv'
<1>a. TypeOK /\ OrderInv /\ PlaceInv /\ CountInv /\ TaskInv /\ NextLinkIsTold
  BY DEF IInv
<1>b. /\ empty' = empty \cup taken /\ taken' = {}
      /\ UNCHANGED <<prevQue, prevDue, serial, captured, inbox, created, pc, list, gray,
                     outFrameBufQue, nextDue, taking, got>>
  BY DEF PutEmptyFrames, taskVars
<1>1. TypeOK' /\ OrderInv' /\ PlaceInv' /\ TaskInv' /\ NextLinkIsTold'
  BY <1>a, <1>b DEF TypeOK, OrderInv, PlaceInv, Apart, TaskInv, NextLinkIsTold
<1>2. CountInv'
  <2>1. /\ Cardinality(empty') = Cardinality(empty) + Cardinality(taken)
        /\ Cardinality(taken') = 0
    <3>1. Cardinality(empty \cup taken)
             = Cardinality(empty) + Cardinality(taken) - Cardinality(empty \cap taken)
      BY <1>a, Counts, FS_Union
    <3>2. empty \cap taken = {} /\ Cardinality({}) = 0
      BY <1>a, FS_EmptySet DEF PlaceInv
    <3>3. Cardinality(empty \cap taken) = 0
      BY <3>2
    <3>4. Cardinality(empty) \in Nat /\ Cardinality(taken) \in Nat
      BY <1>a, Counts
    <3>5. Cardinality(empty \cup taken) = Cardinality(empty) + Cardinality(taken)
      BY <3>1, <3>3, <3>4
    <3> QED BY <1>b, <3>2, <3>5
  <2> QED BY <1>a, <1>b, <2>1, Counts DEF CountInv
<1> QED BY <1>1, <1>2 DEF IInv

(* All other steps move no frame.                                          *)
LEMMA OthersKeep ==
  ASSUME IInv,
         \/ AnnounceFrames \/ Command \/ Create \/ Delete \/ SetGrayParams
         \/ GetFrames /\ list' = list
         \/ NotifyNext \/ StartTaking \/ UNCHANGED vars
  PROVE  IInv'
<1>a. TypeOK /\ OrderInv /\ PlaceInv /\ CountInv /\ TaskInv /\ NextLinkIsTold
  BY DEF IInv
<1> DEFINE Cmds == {"CREATE", "GRAY", "DELETE", "NEW_DATA"}
<1>1. /\ UNCHANGED <<empty, prevQue, serial, captured, gray, list, outFrameBufQue, taken, got>>
  <2>1. CASE Create
    <3>1. created = "no" /\ Len(outFrameBufQue) = 0
      BY <1>a, <2>1, Counts DEF Create, TaskInv, OrderInv, TypeOK
    <3>2. outFrameBufQue = << >>
      BY <1>a, <3>1 DEF TypeOK
    <3> QED BY <2>1, <3>2 DEF Create, prevVars, nextVars
  <2>2. CASE GetFrames /\ list' = list
    <3>1. list = << >>
      BY <1>a, <2>2 DEF GetFrames, Receive, TaskInv
    <3> QED BY <2>2, <3>1 DEF GetFrames, nextVars
  <2>3. CASE AnnounceFrames \/ Command \/ Delete \/ SetGrayParams \/ NotifyNext \/ StartTaking
             \/ UNCHANGED vars
    BY <2>3 DEF AnnounceFrames, Command, Delete, SetGrayParams, NotifyNext, StartTaking,
       vars, prevVars, taskVars, nextVars
  <2> QED BY <2>1, <2>2, <2>3
<1>2. inbox' \in Seq(Cmds) /\ Len(inbox') <= MaxInbox
  <2>a. inbox \in Seq(Cmds) /\ Len(inbox) <= MaxInbox /\ MaxInbox \in Nat
    BY <1>a, BoundsAssumption DEF TypeOK
  <2>1. CASE inbox # << >> /\ inbox' = Tail(inbox)
    BY <2>a, <2>1, TailOf
  <2>2. CASE \E cmd \in Cmds : Send(cmd)
    BY <2>a, <2>2, AppendOf DEF Send
  <2>3. CASE inbox' = inbox
    BY <2>a, <2>3
  <2> QED BY <2>1, <2>2, <2>3
          DEF AnnounceFrames, Command, Create, Delete, SetGrayParams, GetFrames, Receive,
              NotifyNext, StartTaking, vars, prevVars, taskVars, nextVars
<1>3. /\ prevDue' \in BOOLEAN /\ created' \in {"no", "yes", "deleted"}
      /\ created' = "no" => created = "no"
      /\ pc' \in {"receive", "process"} /\ nextDue' \in BOOLEAN /\ taking' \in BOOLEAN
      /\ pc' = "receive" => list' = << >>
      /\ outFrameBufQue' # << >> => nextDue' \/ taking' \/ pc' = "process"
  BY <1>a, <1>1 DEF TypeOK, TaskInv, NextLinkIsTold, AnnounceFrames, Command, Create, Delete,
       SetGrayParams, GetFrames, Receive, NotifyNext, StartTaking, vars, prevVars, taskVars, nextVars
<1>4. TypeOK'
  BY <1>a, <1>1, <1>2, <1>3 DEF TypeOK
<1>5. OrderInv' /\ PlaceInv' /\ CountInv'
  BY <1>a, <1>1 DEF OrderInv, PlaceInv, Apart, CountInv
<1>6. TaskInv' /\ NextLinkIsTold'
  BY <1>a, <1>1, <1>3 DEF TaskInv, NextLinkIsTold
<1> QED BY <1>4, <1>5, <1>6 DEF IInv

LEMMA NextIInv == IInv /\ [Next]_vars => IInv'
BY CaptureKeeps, GetFramesKeeps, ProcessFrameKeeps, TakeFrameKeeps, PutEmptyFramesKeeps,
   OthersKeep DEF Next, Task, NextLink

LEMMA SpecIInv == Spec => []IInv
BY InitIInv, NextIInv, PTL DEF Spec

-----------------------------------------------------------------------------
(* No frame is lost or doubled on its way through the three links, the     *)
(* output queue has room for every frame that is processed, so that the    *)
(* assert after Utils_quePut holds, and no frame in it waits without the   *)
(* next link being told (app_link.c:53-96).                                *)
THEOREM FramesStayConserved == Spec => []FramesAreConserved
<1>1. IInv => FramesAreConserved
  <2> SUFFICES ASSUME IInv PROVE FramesAreConserved
    OBVIOUS
  <2>1. list # << >> => Len(outFrameBufQue) < QueLen
    <3> SUFFICES ASSUME list # << >> PROVE Len(outFrameBufQue) < QueLen
      OBVIOUS
    <3>1. Len(list) \in Nat \ {0}
      BY TailOf DEF IInv, TypeOK
    <3> QED BY <3>1, Counts, PoolAssumption DEF IInv, CountInv
  <2> QED BY <2>1 DEF IInv, CountInv, FramesAreConserved
<1> QED BY <1>1, SpecIInv, PTL

(* The next link gets the frames one by one in the order of capture, each  *)
(* made gray before (app_link.c:53-96, 172-192).                           *)
THEOREM FramesArriveGrayInOrder == Spec => FramesComeGrayInOrder
<1>1. IInv /\ [Next]_vars
         => [got' # got => got' = got + 1 /\ \E f \in gray : serial[f] = got']_vars
  <2> SUFFICES ASSUME IInv, [Next]_vars, got' # got
               PROVE  got' = got + 1 /\ \E f \in gray : serial[f] = got'
    OBVIOUS
  <2>1. TakeFrame /\ outFrameBufQue # << >>
    BY DEF Next, Task, NextLink, Capture, AnnounceFrames, Command, Create, Delete,
         SetGrayParams, GetFrames, ProcessFrame, NotifyNext, StartTaking, TakeFrame,
         PutEmptyFrames, vars, nextVars
  <2> QED BY <2>1, NextInLine
<1> QED BY <1>1, SpecIInv, PTL DEF Spec, FramesComeGrayInOrder
=============================================================================
