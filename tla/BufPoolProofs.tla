--------------------------- MODULE BufPoolProofs ---------------------------
(***************************************************************************)
(* Proofs about BufPool, for every number of buffers, threads and frames.  *)
(***************************************************************************)
EXTENDS BufPool, Induction, FiniteSetTheorems, SequenceTheorems

Switchers == SwitchProducers \cup SwitchConsumers
Hands == [t \in Threads |-> InHand(t)]

(* What a thread has in hand at each of its steps.                         *)
HandInv ==
    \A t \in Threads :
       /\ pc[t] = "idle" => newId[t] = Invalid /\ (t \in Sink => bufId[t] = Invalid)
       /\ pc[t] \in {"fill", "putFull"} =>
             t \in Sink /\ bufId[t] \in Ids /\ newId[t] = Invalid
       /\ pc[t] = "refill" =>
             t \in SwitchProducers /\ bufId[t] \in Ids /\ newId[t] = Invalid
       /\ pc[t] = "switch" =>
             t \in Switchers /\ bufId[t] \in Ids /\ newId[t] \in Ids /\ bufId[t] # newId[t]
       /\ pc[t] = "swap" => t \in Switchers /\ newId[t] \in Ids

(* A buffer is filled before it is queued.                                 *)
FilledInv ==
    /\ \A k \in 1..Len(fullQue) : content[fullQue[k]] \in Frames
    /\ \A t \in Producers :
          pc[t] \in {"idle", "putFull", "switch"} /\ bufId[t] \in Ids
             => content[bufId[t]] \in Frames

(* Buffer id is in exactly one place of the queues q and r and the hands.  *)
OnePlace(id, q, r, hand) ==
    /\ \A k, l \in 1..Len(q) : q[k] = id /\ q[l] = id => k = l
    /\ \A k, l \in 1..Len(r) : r[k] = id /\ r[l] = id => k = l
    /\ \A t, u \in Threads : id \in hand[t] /\ id \in hand[u] => t = u
    /\ \A k \in 1..Len(q), l \in 1..Len(r) : ~(q[k] = id /\ r[l] = id)
    /\ \A k \in 1..Len(q), t \in Threads : ~(q[k] = id /\ id \in hand[t])
    /\ \A k \in 1..Len(r), t \in Threads : ~(r[k] = id /\ id \in hand[t])
    /\ \/ \E k \in 1..Len(q) : q[k] = id
       \/ \E k \in 1..Len(r) : r[k] = id
       \/ \E t \in Threads : id \in hand[t]
PlaceInv == \A id \in Ids : OnePlace(id, emptyQue, fullQue, Hands)

IInv == TypeOK /\ HandInv /\ FilledInv /\ PlaceInv

-----------------------------------------------------------------------------
(* Moving one buffer.                                                      *)

LEMMA OtherWayRound ==
  ASSUME NEW id, NEW q, NEW r, NEW hand, OnePlace(id, q, r, hand)
  PROVE  OnePlace(id, r, q, hand)
BY DEF OnePlace

(* From the front of a queue into a thread's hand.                         *)
LEMMA TakeMoves ==
  ASSUME NEW id \in Ids, NEW q \in Seq(Ids), NEW r \in Seq(Ids), q # << >>,
         NEW hand \in [Threads -> SUBSET Ids], NEW t \in Threads,
         OnePlace(id, q, r, hand)
  PROVE  OnePlace(id, Tail(q), r, [hand EXCEPT ![t] = @ \cup {Head(q)}])
<1> DEFINE rest == Tail(q)
           new == [hand EXCEPT ![t] = @ \cup {Head(q)}]
<1>1. /\ Len(q) \in Nat /\ Len(q) > 0 /\ Len(rest) = Len(q) - 1
      /\ \A k \in 1..Len(rest) : k + 1 \in 1..Len(q) /\ rest[k] = q[k + 1] /\ k + 1 # 1
      /\ \A k \in 1..Len(q) : k = 1 \/ (k - 1 \in 1..Len(rest) /\ rest[k - 1] = q[k])
      /\ 1 \in 1..Len(q) /\ Head(q) = q[1] /\ rest \in Seq(Ids)
  <2>1. q # << >> /\ q \in Seq(Ids)
    OBVIOUS
  <2>2. /\ Len(q) \in Nat /\ Len(q) > 0 /\ rest \in Seq(Ids) /\ Len(rest) = Len(q) - 1
        /\ \A k \in 1..Len(rest) : rest[k] = q[k + 1]
        /\ Head(q) = q[1]
    BY <2>1
  <2> HIDE DEF rest
  <2> QED BY <2>2
<1>2. \A u \in Threads : id \in new[u] <=> id \in hand[u] \/ (u = t /\ id = Head(q))
  OBVIOUS
<1> HIDE DEF rest, new
<1>3. CASE id = Head(q)
  <2>1. \A k \in 1..Len(rest) : rest[k] # id
    BY <1>1, <1>3 DEF OnePlace
  <2>2. \A k \in 1..Len(r) : r[k] # id
    BY <1>1, <1>3 DEF OnePlace
  <2>3. \A u \in Threads : id \in new[u] <=> u = t
    BY <1>1, <1>2, <1>3 DEF OnePlace
  <2> QED BY <2>1, <2>2, <2>3 DEF OnePlace, rest, new
<1>4. CASE id # Head(q)
  <2>1. \A k, l \in 1..Len(rest) : rest[k] = id /\ rest[l] = id => k = l
    <3> SUFFICES ASSUME NEW k \in 1..Len(rest), NEW l \in 1..Len(rest),
                        rest[k] = id, rest[l] = id
                 PROVE  k = l
      OBVIOUS
    <3>1. k + 1 = l + 1
      BY <1>1 DEF OnePlace
    <3> QED BY <3>1
  <2>2. \A u \in Threads : id \in new[u] <=> id \in hand[u]
    BY <1>2, <1>4
  <2>3. \A k \in 1..Len(rest), l \in 1..Len(r) : ~(rest[k] = id /\ r[l] = id)
    BY <1>1 DEF OnePlace
  <2>4. \A k \in 1..Len(rest), u \in Threads : ~(rest[k] = id /\ id \in hand[u])
    BY <1>1 DEF OnePlace
  <2>5. (\E k \in 1..Len(q) : q[k] = id) => (\E k \in 1..Len(rest) : rest[k] = id)
    BY <1>1, <1>4
  <2> QED BY <2>1, <2>2, <2>3, <2>4, <2>5 DEF OnePlace, rest, new
<1> QED BY <1>3, <1>4

(* From a thread's hand to the rear of a queue.                            *)
LEMMA PutMoves ==
  ASSUME NEW id \in Ids, NEW q \in Seq(Ids), NEW r \in Seq(Ids),
         NEW hand \in [Threads -> SUBSET Ids], NEW t \in Threads, NEW x \in hand[t],
         OnePlace(id, q, r, hand)
  PROVE  OnePlace(id, Append(q, x), r, [hand EXCEPT ![t] = @ \ {x}])
<1> DEFINE more == Append(q, x)
           new == [hand EXCEPT ![t] = @ \ {x}]
<1>1. /\ Len(q) \in Nat /\ Len(more) = Len(q) + 1 /\ more[Len(q) + 1] = x
      /\ \A k \in 1..Len(q) : more[k] = q[k] /\ k \in 1..Len(more)
      /\ \A k \in 1..Len(more) : k \in 1..Len(q) \/ k = Len(q) + 1
      /\ Len(q) + 1 \in 1..Len(more)
  <2>1. x \in Ids /\ q \in Seq(Ids)
    OBVIOUS
  <2> QED BY <2>1
<1>2. \A u \in Threads : id \in new[u] <=> id \in hand[u] /\ ~(u = t /\ id = x)
  OBVIOUS
<1> HIDE DEF more, new
<1>3. CASE id = x
  <2>1. \A k \in 1..Len(q) : q[k] # id
    BY <1>3 DEF OnePlace
  <2>2. \A k \in 1..Len(r) : r[k] # id
    BY <1>3 DEF OnePlace
  <2>3. \A u \in Threads : id \notin new[u]
    BY <1>2, <1>3 DEF OnePlace
  <2>4. \A k \in 1..Len(more) : more[k] = id <=> k = Len(q) + 1
    BY <1>1, <1>3, <2>1
  <2>5. \E k \in 1..Len(more) : more[k] = id
    BY <1>1, <2>4
  <2> QED BY <2>2, <2>3, <2>4, <2>5 DEF OnePlace, more, new
<1>4. CASE id # x
  <2>1. \A u \in Threads : id \in new[u] <=> id \in hand[u]
    BY <1>2, <1>4
  <2>2. \A k \in 1..Len(more) : more[k] = id => k \in 1..Len(q) /\ q[k] = id
    BY <1>1, <1>4
  <2>3. (\E k \in 1..Len(q) : q[k] = id) => (\E k \in 1..Len(more) : more[k] = id)
    BY <1>1
  <2> QED BY <2>1, <2>2, <2>3 DEF OnePlace, more, new
<1> QED BY <1>3, <1>4

(* While one buffer is in a hand, a queue of distinct others has room.     *)
LEMMA RoomWhileInHand ==
  ASSUME NEW q \in Seq(Ids), NEW r \in Seq(Ids),
         NEW hand \in [Threads -> SUBSET Ids], NEW t \in Threads, NEW x \in hand[t],
         \A id \in Ids : OnePlace(id, q, r, hand)
  PROVE  Len(q) < numBuf
<1> DEFINE others == Ids \ {x}
<1>1. IsFiniteSet(Ids) /\ Cardinality(Ids) = numBuf /\ x \in Ids /\ numBuf \in Nat
  BY ConstantsAssumption, FS_Interval DEF Ids
<1>2. IsFiniteSet(others) /\ Cardinality(others) = numBuf - 1
  BY <1>1, FS_RemoveElement
<1>3. q \in [1..Len(q) -> Ids] /\ Len(q) \in Nat
  BY LenProperties
<1>4. q \in [1..Len(q) -> others]
  <2>1. \A k \in 1..Len(q) : q[k] # x
    BY <1>1 DEF OnePlace
  <2> QED BY <1>3, <2>1
<1>5. \A k, l \in 1..Len(q) : q[k] = q[l] => k = l
  BY <1>3 DEF OnePlace
<1>6. q \in Injection(1..Len(q), others)
  BY <1>4, <1>5 DEF Injection, IsInjective
<1> HIDE DEF others
<1>7. Cardinality(1..Len(q)) <= Cardinality(others)
  BY <1>2, <1>6, FS_Injection
<1>8. Cardinality(1..Len(q)) = Len(q)
  <2>1. \A n \in Nat : Cardinality(1..n) = n
    <3> SUFFICES ASSUME NEW n \in Nat PROVE Cardinality(1..n) = n
      OBVIOUS
    <3>1. Cardinality(1..n) = IF 1 > n THEN 0 ELSE n - 1 + 1
      BY FS_Interval
    <3> QED BY <3>1
  <2> QED BY <1>3, <2>1
<1> QED BY <1>1, <1>2, <1>3, <1>7, <1>8

-----------------------------------------------------------------------------
(* The steps, by what they move.                                           *)

LEMMA HandsType ==
  ASSUME TypeOK
  PROVE  /\ Hands \in [Threads -> SUBSET Ids]
         /\ Invalid \notin Ids
         /\ \A t \in Threads : InHand(t) \subseteq Ids /\ Hands[t] = InHand(t)
BY DEF TypeOK, Hands, InHand, Invalid, Ids

EmptyToHand(t) == /\ emptyQue # << >> /\ emptyQue' = Tail(emptyQue) /\ fullQue' = fullQue
                  /\ Hands' = [Hands EXCEPT ![t] = @ \cup {Head(emptyQue)}]
FullToHand(t) == /\ fullQue # << >> /\ fullQue' = Tail(fullQue) /\ emptyQue' = emptyQue
                 /\ Hands' = [Hands EXCEPT ![t] = @ \cup {Head(fullQue)}]
HandToFull(t, x) == /\ x \in Hands[t] /\ fullQue' = Append(fullQue, x) /\ emptyQue' = emptyQue
                    /\ Hands' = [Hands EXCEPT ![t] = @ \ {x}]
HandToEmpty(t, x) == /\ x \in Hands[t] /\ emptyQue' = Append(emptyQue, x) /\ fullQue' = fullQue
                     /\ Hands' = [Hands EXCEPT ![t] = @ \ {x}]
NothingMoves == UNCHANGED <<emptyQue, fullQue, Hands>>

LEMMA MovesKeepPlaces ==
  ASSUME TypeOK, PlaceInv, NEW t \in Threads, NEW x,
         \/ EmptyToHand(t) \/ FullToHand(t) \/ HandToFull(t, x) \/ HandToEmpty(t, x)
         \/ NothingMoves
  PROVE  PlaceInv'
<1>1. /\ emptyQue \in Seq(Ids) /\ fullQue \in Seq(Ids)
      /\ Hands \in [Threads -> SUBSET Ids]
  BY HandsType DEF TypeOK
<1>2. SUFFICES ASSUME NEW id \in Ids PROVE OnePlace(id, emptyQue', fullQue', Hands')
  BY DEF PlaceInv, OnePlace
<1>3. OnePlace(id, emptyQue, fullQue, Hands) /\ OnePlace(id, fullQue, emptyQue, Hands)
  BY OtherWayRound DEF PlaceInv
<1>4. CASE EmptyToHand(t)
  BY <1>1, <1>3, <1>4, TakeMoves DEF EmptyToHand
<1>5. CASE FullToHand(t)
  <2>1. OnePlace(id, fullQue', emptyQue', Hands')
    BY <1>1, <1>3, <1>5, TakeMoves DEF FullToHand
  <2> QED BY <2>1, OtherWayRound
<1>6. CASE HandToFull(t, x)
  <2>1. OnePlace(id, fullQue', emptyQue', Hands')
    BY <1>1, <1>3, <1>6, PutMoves DEF HandToFull
  <2> QED BY <2>1, OtherWayRound
<1>7. CASE HandToEmpty(t, x)
  BY <1>1, <1>3, <1>7, PutMoves DEF HandToEmpty
<1>8. CASE NothingMoves
  BY <1>3, <1>8 DEF NothingMoves, OnePlace
<1> QED BY <1>4, <1>5, <1>6, <1>7, <1>8

(* Who a step of which kind belongs to.                                    *)
LEMMA ThreadKinds ==
  /\ Producers \subseteq Threads /\ Readers \subseteq Threads
  /\ Sink \subseteq Producers /\ SwitchProducers \subseteq Producers
  /\ Consumers \subseteq Readers /\ SwitchConsumers \subseteq Readers
  /\ \A t \in Sink : t \notin Switchers /\ t \notin Readers
  /\ \A t \in Consumers : t \notin Switchers /\ t \notin Producers
  /\ \A t \in SwitchProducers : t \in Switchers /\ t \notin Readers
  /\ \A t \in SwitchConsumers : t \in Switchers /\ t \notin Producers
BY ConstantsAssumption DEF Threads, Producers, Readers, Switchers

(* Only a thread's own step changes what it has in hand.                   *)
LEMMA OneHandMoves ==
  ASSUME TypeOK, NEW t \in Threads,
         \A u \in Threads \ {t} : pc'[u] = pc[u] /\ bufId'[u] = bufId[u] /\ newId'[u] = newId[u]
  PROVE  \A new : InHand(t)' = new => Hands' = [Hands EXCEPT ![t] = new]
<1>1. \A u \in Threads \ {t} : InHand(u)' = InHand(u)
  BY DEF InHand
<1> QED BY <1>1 DEF Hands

Step(t) == \/ t \in Sink /\ SinkStep(t)
           \/ t \in SwitchProducers /\ SwitchFullStep(t)
           \/ t \in Consumers /\ ConsumerStep(t)
           \/ t \in SwitchConsumers /\ SwitchEmptyStep(t)

LEMMA NextIsStep == Next => \E t \in Threads : Step(t)
BY ThreadKinds DEF Next, Step

LEMMA StepIsOwn ==
  ASSUME TypeOK, NEW t \in Threads, Step(t)
  PROVE  \A u \in Threads \ {t} :
            pc'[u] = pc[u] /\ bufId'[u] = bufId[u] /\ newId'[u] = newId[u]
BY DEF TypeOK, Step, SinkStep, SwitchFullStep, ConsumerStep, SwitchEmptyStep,
       AfterGettingFrame, CopyFrame, SinkPutFull, SwitchFullGet, SwitchFullPut, Swap, FillHeld,
       GetFull, ReturnEmpty, SwitchEmptyGet, SwitchEmptyPut, Goto, Hold

LEMMA StepKeepsPlaces ==
  ASSUME TypeOK, HandInv, PlaceInv, NEW t \in Threads, Step(t)
  PROVE  PlaceInv'
<1>a. /\ pc \in [Threads -> {"idle", "fill", "putFull", "switch", "swap", "refill"}]
      /\ bufId \in [Threads -> Ids \cup {Invalid}] /\ newId \in [Threads -> Ids \cup {Invalid}]
      /\ emptyQue \in Seq(Ids) /\ fullQue \in Seq(Ids)
  BY DEF TypeOK
<1>b. Invalid \notin Ids /\ Hands[t] = InHand(t)
  BY HandsType
<1>c. \A new : InHand(t)' = new => Hands' = [Hands EXCEPT ![t] = new]
  BY StepIsOwn, OneHandMoves
<1>d. ASSUME NEW x, InHand(t)' = InHand(t) \cup {x}
      PROVE  Hands' = [Hands EXCEPT ![t] = @ \cup {x}]
  BY <1>b, <1>c, <1>d
<1>e. ASSUME NEW x, InHand(t)' = InHand(t) \ {x}
      PROVE  Hands' = [Hands EXCEPT ![t] = @ \ {x}]
  BY <1>b, <1>c, <1>e
<1>f. ASSUME InHand(t)' = InHand(t)
      PROVE  Hands' = Hands
  BY <1>c, <1>f, <1>b, HandsType
<1>h. /\ emptyQue # << >> => Head(emptyQue) \in Ids
      /\ fullQue # << >> => Head(fullQue) \in Ids
  BY <1>a, HeadTailProperties
<1> HIDE DEF Ids
<1>1. CASE t \in Sink /\ AfterGettingFrame(t)
  <2>1. pc[t] = "idle" /\ bufId[t] = Invalid /\ newId[t] = Invalid /\ UNCHANGED <<fullQue, newId>>
    BY <1>1 DEF AfterGettingFrame, HandInv
  <2>2. CASE emptyQue # << >>
    <3>1. /\ TakeEmpty /\ bufId' = [bufId EXCEPT ![t] = Head(emptyQue)]
          /\ pc' = [pc EXCEPT ![t] = "fill"]
      BY <1>1, <2>2 DEF AfterGettingFrame, Goto, Hold
    <3>2. InHand(t)' = InHand(t) \cup {Head(emptyQue)}
      BY <1>a, <1>b, <1>h, <2>1, <2>2, <3>1 DEF InHand
    <3>3. EmptyToHand(t)
      BY <1>d, <2>1, <2>2, <3>1, <3>2 DEF EmptyToHand, TakeEmpty
    <3> QED BY <3>3, MovesKeepPlaces
  <2>3. CASE ~(emptyQue # << >>)
    <3>1. UNCHANGED <<emptyQue, bufId, pc>>
      BY <1>1, <2>3 DEF AfterGettingFrame
    <3>2. NothingMoves
      BY <2>1, <3>1, <1>f DEF NothingMoves, InHand
    <3> QED BY <3>2, MovesKeepPlaces
  <2> QED BY <2>2, <2>3
<1>2. CASE t \in Sink /\ CopyFrame(t)
  <2>1. InHand(t)' = InHand(t)
    BY <1>2, <1>a DEF CopyFrame, Goto, InHand
  <2>2. NothingMoves
    BY <1>2, <2>1, <1>f DEF NothingMoves, CopyFrame
  <2> QED BY <2>2, MovesKeepPlaces
<1>3. CASE t \in Sink /\ SinkPutFull(t)
  <2>1. /\ pc[t] = "putFull" /\ bufId[t] \in Ids /\ newId[t] = Invalid
        /\ fullQue' = Append(fullQue, bufId[t]) /\ UNCHANGED <<emptyQue, newId>>
        /\ bufId' = [bufId EXCEPT ![t] = Invalid] /\ pc' = [pc EXCEPT ![t] = "idle"]
    BY <1>3 DEF SinkPutFull, HandInv, Goto, Hold, PutFull
  <2>2. InHand(t)' = InHand(t) \ {bufId[t]} /\ bufId[t] \in InHand(t)
    BY <1>a, <1>b, <2>1 DEF InHand
  <2>3. HandToFull(t, bufId[t])
    BY <1>b, <1>e, <2>1, <2>2 DEF HandToFull
  <2> QED BY <2>3, MovesKeepPlaces
<1>4. CASE SwitchFullGet(t)
  <2>1. /\ pc[t] = "idle" /\ newId[t] = Invalid /\ emptyQue # << >>
        /\ emptyQue' = Tail(emptyQue) /\ UNCHANGED <<fullQue, bufId>>
        /\ newId' = [newId EXCEPT ![t] = Head(emptyQue)]
        /\ pc' = [pc EXCEPT ![t] = IF bufId[t] # Invalid THEN "switch" ELSE "swap"]
    BY <1>4 DEF SwitchFullGet, HandInv, Goto, TakeEmpty
  <2>2. InHand(t)' = InHand(t) \cup {Head(emptyQue)}
    BY <1>a, <1>b, <1>h, <2>1 DEF InHand
  <2>3. EmptyToHand(t)
    BY <1>d, <2>1, <2>2 DEF EmptyToHand
  <2> QED BY <2>3, MovesKeepPlaces
<1>5. CASE SwitchFullPut(t) \/ SwitchEmptyPut(t)
  <2>1. /\ pc[t] = "switch" /\ bufId[t] \in Ids /\ newId[t] \in Ids /\ bufId[t] # newId[t]
        /\ UNCHANGED <<bufId, newId>> /\ pc' = [pc EXCEPT ![t] = "swap"]
    BY <1>5 DEF SwitchFullPut, SwitchEmptyPut, HandInv, Goto
  <2>2. InHand(t)' = InHand(t) \ {bufId[t]} /\ bufId[t] \in InHand(t)
    BY <1>a, <1>b, <2>1 DEF InHand
  <2>3. HandToFull(t, bufId[t]) \/ HandToEmpty(t, bufId[t])
    BY <1>5, <1>b, <1>e, <2>1, <2>2
       DEF HandToFull, HandToEmpty, SwitchFullPut, SwitchEmptyPut, PutFull, PutEmpty
  <2> QED BY <2>3, MovesKeepPlaces
<1>6. CASE Swap(t)
  <2>1. /\ pc[t] = "swap" /\ newId[t] \in Ids /\ UNCHANGED <<emptyQue, fullQue>>
        /\ bufId' = [bufId EXCEPT ![t] = newId[t]] /\ newId' = [newId EXCEPT ![t] = Invalid]
        /\ pc'[t] # "swap"
    BY <1>6, <1>a DEF Swap, HandInv, Goto, Hold
  <2>2. InHand(t)' = InHand(t)
    BY <1>a, <1>b, <2>1 DEF InHand
  <2>3. NothingMoves
    BY <1>f, <2>1, <2>2 DEF NothingMoves
  <2> QED BY <2>3, MovesKeepPlaces
<1>7. CASE FillHeld(t)
  <2>1. InHand(t)' = InHand(t)
    BY <1>7, <1>a DEF FillHeld, Goto, InHand
  <2>2. NothingMoves
    BY <1>7, <2>1, <1>f DEF NothingMoves, FillHeld
  <2> QED BY <2>2, MovesKeepPlaces
<1>8. CASE GetFull(t)
  <2>1. /\ pc[t] = "idle" /\ bufId[t] = Invalid /\ newId[t] = Invalid /\ fullQue # << >>
        /\ fullQue' = Tail(fullQue) /\ UNCHANGED <<emptyQue, pc, newId>>
        /\ bufId' = [bufId EXCEPT ![t] = Head(fullQue)]
    BY <1>8 DEF GetFull, HandInv, Hold, TakeFull
  <2>2. InHand(t)' = InHand(t) \cup {Head(fullQue)}
    BY <1>a, <1>b, <1>h, <2>1 DEF InHand
  <2>3. FullToHand(t)
    BY <1>d, <2>1, <2>2 DEF FullToHand
  <2> QED BY <2>3, MovesKeepPlaces
<1>9. CASE ReturnEmpty(t)
  <2>1. /\ pc[t] = "idle" /\ bufId[t] \in Ids /\ newId[t] = Invalid
        /\ emptyQue' = Append(emptyQue, bufId[t]) /\ UNCHANGED <<fullQue, pc, newId>>
        /\ bufId' = [bufId EXCEPT ![t] = Invalid]
    BY <1>9 DEF ReturnEmpty, HandInv, Hold, PutEmpty, InRange
  <2>2. InHand(t)' = InHand(t) \ {bufId[t]} /\ bufId[t] \in InHand(t)
    BY <1>a, <1>b, <2>1 DEF InHand
  <2>3. HandToEmpty(t, bufId[t])
    BY <1>b, <1>e, <2>1, <2>2 DEF HandToEmpty
  <2> QED BY <2>3, MovesKeepPlaces
<1>10. CASE SwitchEmptyGet(t)
  <2>1. /\ pc[t] = "idle" /\ newId[t] = Invalid /\ fullQue # << >>
        /\ fullQue' = Tail(fullQue) /\ UNCHANGED <<emptyQue, bufId>>
        /\ newId' = [newId EXCEPT ![t] = Head(fullQue)]
        /\ pc' = [pc EXCEPT ![t] = IF bufId[t] # Invalid THEN "switch" ELSE "swap"]
    BY <1>10 DEF SwitchEmptyGet, HandInv, Goto, TakeFull
  <2>2. InHand(t)' = InHand(t) \cup {Head(fullQue)}
    BY <1>a, <1>b, <1>h, <2>1 DEF InHand
  <2>3. FullToHand(t)
    BY <1>d, <2>1, <2>2 DEF FullToHand
  <2> QED BY <2>3, MovesKeepPlaces
<1> QED BY <1>1, <1>2, <1>3, <1>4, <1>5, <1>6, <1>7, <1>8, <1>9, <1>10
        DEF Step, SinkStep, SwitchFullStep, ConsumerStep, SwitchEmptyStep

-----------------------------------------------------------------------------
(* The inductive invariant.                                                *)

LEMMA QueueTypes ==
  ASSUME NEW q \in Seq(Ids)
  PROVE  /\ q # << >> => Head(q) \in Ids /\ Tail(q) \in Seq(Ids)
         /\ \A id \in Ids : Append(q, id) \in Seq(Ids)
BY HeadTailProperties, AppendProperties

(* A copy fills a buffer, and no step unfills one.                         *)
LEMMA CopyFills ==
  ASSUME TypeOK, NEW t \in Producers, NEW id \in Ids, CopyInto(t, id)
  PROVE  /\ content' \in [Ids -> Frames \cup {NoFrame}] /\ arrived' \in 0..NumFrames
         /\ content'[id] \in Frames
         /\ \A x \in Ids : content[x] \in Frames => content'[x] \in Frames
<1>1. [by |-> t, no |-> arrived + 1] \in Frames /\ arrived + 1 \in 0..NumFrames
  <2>1. arrived + 1 \in 1..NumFrames
    BY ConstantsAssumption DEF TypeOK, CopyInto
  <2> QED BY <2>1 DEF Frames
<1>2. /\ content' = [content EXCEPT ![id] = [by |-> t, no |-> arrived + 1]]
      /\ arrived' = arrived + 1 /\ content \in [Ids -> Frames \cup {NoFrame}]
  BY DEF CopyInto, TypeOK
<1> HIDE DEF Frames, Ids
<1> QED BY <1>1, <1>2

LEMMA StepType ==
  ASSUME TypeOK, HandInv, FilledInv, NEW t \in Threads, Step(t)
  PROVE  TypeOK'
<1>a. /\ emptyQue \in Seq(Ids) /\ fullQue \in Seq(Ids)
      /\ content \in [Ids -> Frames \cup {NoFrame}]
      /\ pc \in [Threads -> {"idle", "fill", "putFull", "switch", "swap", "refill"}]
      /\ bufId \in [Threads -> Ids \cup {Invalid}] /\ newId \in [Threads -> Ids \cup {Invalid}]
      /\ arrived \in 0..NumFrames /\ got \in Seq(Frames)
  BY DEF TypeOK
<1>b. /\ emptyQue # << >> => Head(emptyQue) \in Ids /\ Tail(emptyQue) \in Seq(Ids)
      /\ fullQue # << >> => Head(fullQue) \in Ids /\ Tail(fullQue) \in Seq(Ids)
      /\ \A id \in Ids : Append(emptyQue, id) \in Seq(Ids) /\ Append(fullQue, id) \in Seq(Ids)
  BY <1>a, QueueTypes
<1>c. fullQue # << >> => Append(got, content[Head(fullQue)]) \in Seq(Frames)
  <2> SUFFICES ASSUME fullQue # << >> PROVE Append(got, content[Head(fullQue)]) \in Seq(Frames)
    OBVIOUS
  <2>1. 1 \in 1..Len(fullQue) /\ Head(fullQue) = fullQue[1]
    BY <1>a
  <2>2. content[Head(fullQue)] \in Frames
    BY <2>1 DEF FilledInv
  <2> QED BY <1>a, <2>2, AppendProperties
<1>d. arrived < NumFrames => arrived + 1 \in 0..NumFrames
  BY <1>a, ConstantsAssumption
<1> HIDE DEF Ids, Frames
<1>1. CASE t \in Sink /\ AfterGettingFrame(t)
  BY <1>1, <1>a, <1>b, <1>d DEF AfterGettingFrame, TakeEmpty, Hold, Goto, TypeOK
<1>2. CASE t \in Sink /\ CopyFrame(t)
  <2>1. CopyInto(t, bufId[t]) /\ bufId[t] \in Ids /\ t \in Producers
    BY <1>2, ThreadKinds DEF CopyFrame, HandInv
  <2>2. content' \in [Ids -> Frames \cup {NoFrame}] /\ arrived' \in 0..NumFrames
    BY <2>1, CopyFills
  <2> QED BY <1>2, <1>a, <2>2 DEF CopyFrame, Goto, TypeOK
<1>3. CASE t \in Sink /\ SinkPutFull(t)
  BY <1>3, <1>a, <1>b DEF SinkPutFull, InRange, PutFull, Hold, Goto, TypeOK
<1>4. CASE SwitchFullGet(t)
  BY <1>4, <1>a, <1>b DEF SwitchFullGet, TakeEmpty, Goto, TypeOK
<1>5. CASE SwitchFullPut(t)
  <2>1. bufId[t] \in Ids
    BY <1>5 DEF SwitchFullPut, HandInv
  <2> QED BY <1>5, <1>a, <1>b, <2>1 DEF SwitchFullPut, PutFull, Goto, TypeOK
<1>6. CASE SwitchEmptyPut(t)
  <2>1. bufId[t] \in Ids
    BY <1>6 DEF SwitchEmptyPut, HandInv
  <2> QED BY <1>6, <1>a, <1>b, <2>1 DEF SwitchEmptyPut, PutEmpty, Goto, TypeOK
<1>7. CASE Swap(t)
  BY <1>7, <1>a DEF Swap, Hold, Goto, TypeOK
<1>8. CASE FillHeld(t)
  <2>1. CopyInto(t, bufId[t]) /\ bufId[t] \in Ids /\ t \in Producers
    BY <1>8, ThreadKinds DEF FillHeld, HandInv
  <2>2. content' \in [Ids -> Frames \cup {NoFrame}] /\ arrived' \in 0..NumFrames
    BY <2>1, CopyFills
  <2> QED BY <1>8, <1>a, <2>2 DEF FillHeld, Goto, TypeOK
<1>9. CASE GetFull(t)
  BY <1>9, <1>a, <1>b, <1>c DEF GetFull, TakeFull, Hold, TypeOK
<1>10. CASE ReturnEmpty(t)
  BY <1>10, <1>a, <1>b DEF ReturnEmpty, InRange, PutEmpty, Hold, TypeOK
<1>11. CASE SwitchEmptyGet(t)
  BY <1>11, <1>a, <1>b, <1>c DEF SwitchEmptyGet, TakeFull, Goto, TypeOK
<1> QED BY <1>1, <1>2, <1>3, <1>4, <1>5, <1>6, <1>7, <1>8, <1>9, <1>10, <1>11
        DEF Step, SinkStep, SwitchFullStep, ConsumerStep, SwitchEmptyStep

LEMMA StepHand ==
  ASSUME TypeOK, HandInv, PlaceInv, NEW t \in Threads, Step(t)
  PROVE  HandInv'
<1> DEFINE P(u) == /\ pc'[u] = "idle" => newId'[u] = Invalid /\ (u \in Sink => bufId'[u] = Invalid)
                   /\ pc'[u] \in {"fill", "putFull"} =>
                         u \in Sink /\ bufId'[u] \in Ids /\ newId'[u] = Invalid
                   /\ pc'[u] = "refill" =>
                         u \in SwitchProducers /\ bufId'[u] \in Ids /\ newId'[u] = Invalid
                   /\ pc'[u] = "switch" =>
                         u \in Switchers /\ bufId'[u] \in Ids /\ newId'[u] \in Ids
                         /\ bufId'[u] # newId'[u]
                   /\ pc'[u] = "swap" => u \in Switchers /\ newId'[u] \in Ids
<1>1. \A u \in Threads \ {t} : P(u)
  BY StepIsOwn DEF HandInv
<1>2. P(t)
  <2>a. /\ pc \in [Threads -> {"idle", "fill", "putFull", "switch", "swap", "refill"}]
        /\ bufId \in [Threads -> Ids \cup {Invalid}] /\ newId \in [Threads -> Ids \cup {Invalid}]
        /\ emptyQue # << >> => Head(emptyQue) \in Ids
        /\ fullQue # << >> => Head(fullQue) \in Ids
        /\ Invalid \notin Ids
    BY QueueTypes, HandsType DEF TypeOK
  <2>b. /\ emptyQue # << >> /\ bufId[t] \in Ids /\ pc[t] = "idle" => Head(emptyQue) # bufId[t]
        /\ fullQue # << >> /\ bufId[t] \in Ids /\ pc[t] = "idle" => Head(fullQue) # bufId[t]
    <3>1. pc[t] = "idle" /\ bufId[t] \in Ids => bufId[t] \in Hands[t]
      BY <2>a, HandsType DEF InHand
    <3>2. /\ emptyQue # << >> => 1 \in 1..Len(emptyQue) /\ Head(emptyQue) = emptyQue[1]
          /\ fullQue # << >> => 1 \in 1..Len(fullQue) /\ Head(fullQue) = fullQue[1]
      BY DEF TypeOK
    <3> QED BY <3>1, <3>2 DEF PlaceInv, OnePlace
  <2>c. /\ t \in SwitchProducers \/ t \in SwitchConsumers => t \in Switchers /\ t \notin Sink
        /\ t \in Consumers => t \notin Switchers /\ t \notin Sink
        /\ t \in SwitchProducers => t \in Producers
        /\ t \in SwitchConsumers => t \notin Producers
    BY ThreadKinds
  <2> HIDE DEF Ids
  <2>1. CASE t \in Sink /\ AfterGettingFrame(t)
    BY <2>1, <2>a DEF AfterGettingFrame, TakeEmpty, Hold, Goto, HandInv
  <2>2. CASE t \in Sink /\ CopyFrame(t)
    BY <2>2, <2>a DEF CopyFrame, Goto, HandInv
  <2>3. CASE t \in Sink /\ SinkPutFull(t)
    BY <2>3, <2>a DEF SinkPutFull, Goto, Hold, HandInv
  <2>4. CASE t \in SwitchProducers /\ SwitchFullGet(t)
    BY <2>4, <2>a, <2>b, <2>c DEF SwitchFullGet, Goto, HandInv
  <2>5. CASE SwitchFullPut(t) \/ SwitchEmptyPut(t)
    BY <2>5, <2>a DEF SwitchFullPut, SwitchEmptyPut, Goto, HandInv
  <2>6. CASE t \in Switchers /\ Swap(t)
    <3>1. /\ newId[t] \in Ids /\ bufId'[t] = newId[t] /\ newId'[t] = Invalid
          /\ pc'[t] = IF t \in Producers THEN "refill" ELSE "idle"
      BY <2>6, <2>a DEF Swap, Hold, Goto, HandInv
    <3>2. t \in Producers => t \in SwitchProducers
      BY <2>6, <2>c DEF Switchers
    <3>3. t \notin Sink
      BY <2>6, <2>c DEF Switchers
    <3> QED BY <3>1, <3>2, <3>3
  <2>7. CASE t \in SwitchProducers /\ FillHeld(t)
    BY <2>7, <2>a, <2>c DEF FillHeld, Goto, HandInv
  <2>8. CASE t \in Consumers /\ (GetFull(t) \/ ReturnEmpty(t))
    BY <2>8, <2>a, <2>c DEF GetFull, ReturnEmpty, Hold, HandInv
  <2>9. CASE t \in SwitchConsumers /\ SwitchEmptyGet(t)
    BY <2>9, <2>a, <2>b, <2>c DEF SwitchEmptyGet, Goto, HandInv
  <2> QED BY <2>1, <2>2, <2>3, <2>4, <2>5, <2>6, <2>7, <2>8, <2>9
          DEF Step, SinkStep, SwitchFullStep, ConsumerStep, SwitchEmptyStep, Switchers
<1> QED BY <1>1, <1>2 DEF HandInv

LEMMA StepFilled ==
  ASSUME TypeOK, HandInv, FilledInv, NEW t \in Threads, Step(t)
  PROVE  FilledInv'
<1>a. /\ fullQue \in Seq(Ids) /\ Len(fullQue) \in Nat
      /\ pc \in [Threads -> {"idle", "fill", "putFull", "switch", "swap", "refill"}]
      /\ bufId \in [Threads -> Ids \cup {Invalid}]
  BY DEF TypeOK
<1>b. /\ Invalid \notin Ids
      /\ t \in Sink \/ t \in SwitchProducers => t \in Producers
      /\ t \in Consumers \/ t \in SwitchConsumers => t \notin Producers
  BY HandsType, ThreadKinds
<1>c. \A u \in Producers \ {t} : pc'[u] = pc[u] /\ bufId'[u] = bufId[u]
  BY StepIsOwn, ThreadKinds
<1> HIDE DEF Ids, Frames
<1>1. \A x \in Ids : content[x] \in Frames => content'[x] \in Frames
  <2>1. CASE \E x \in Ids : t \in Producers /\ CopyInto(t, x)
    BY <2>1, CopyFills
  <2>2. CASE UNCHANGED content
    BY <2>2
  <2>3. pc[t] \in {"fill", "refill"} => bufId[t] \in Ids /\ t \in Producers
    BY ThreadKinds DEF HandInv
  <2> QED BY <2>1, <2>2, <2>3
          DEF Step, SinkStep, SwitchFullStep, ConsumerStep, SwitchEmptyStep,
              AfterGettingFrame, CopyFrame, SinkPutFull, SwitchFullGet, SwitchFullPut, Swap,
              FillHeld, GetFull, ReturnEmpty, SwitchEmptyGet, SwitchEmptyPut
<1>2. \/ fullQue' = fullQue
      \/ fullQue # << >> /\ fullQue' = Tail(fullQue)
      \/ /\ t \in Producers /\ pc[t] \in {"putFull", "switch"} /\ bufId[t] \in Ids
         /\ fullQue' = Append(fullQue, bufId[t])
  BY <1>b DEF Step, SinkStep, SwitchFullStep, ConsumerStep, SwitchEmptyStep,
       AfterGettingFrame, CopyFrame, SinkPutFull, SwitchFullGet, SwitchFullPut, Swap, FillHeld,
       GetFull, ReturnEmpty, SwitchEmptyGet, SwitchEmptyPut, TakeFull, PutFull, InRange, HandInv
<1>3. \A k \in 1..Len(fullQue') : content'[fullQue'[k]] \in Frames
  <2>1. \A k \in 1..Len(fullQue) : content'[fullQue[k]] \in Frames
    BY <1>1, <1>a DEF FilledInv
  <2>2. CASE fullQue' = fullQue
    BY <2>1, <2>2
  <2>3. CASE fullQue # << >> /\ fullQue' = Tail(fullQue)
    <3>1. \A k \in 1..Len(fullQue') : k + 1 \in 1..Len(fullQue) /\ fullQue'[k] = fullQue[k + 1]
      BY <1>a, <2>3, HeadTailProperties
    <3> QED BY <2>1, <3>1
  <2>4. CASE /\ t \in Producers /\ pc[t] \in {"putFull", "switch"} /\ bufId[t] \in Ids
             /\ fullQue' = Append(fullQue, bufId[t])
    <3>1. content'[bufId[t]] \in Frames
      BY <1>1, <2>4 DEF FilledInv
    <3>2. \A k \in 1..Len(fullQue') :
             \/ k \in 1..Len(fullQue) /\ fullQue'[k] = fullQue[k]
             \/ fullQue'[k] = bufId[t]
      BY <1>a, <2>4, AppendProperties
    <3> QED BY <2>1, <3>1, <3>2
  <2> QED BY <1>2, <2>2, <2>3, <2>4
<1>4. \A u \in Producers \ {t} :
         pc'[u] \in {"idle", "putFull", "switch"} /\ bufId'[u] \in Ids
            => content'[bufId'[u]] \in Frames
  BY <1>1, <1>c DEF FilledInv
<1>5. ASSUME t \in Producers, pc'[t] \in {"idle", "putFull", "switch"}, bufId'[t] \in Ids
      PROVE  content'[bufId'[t]] \in Frames
  <2>1. CASE t \in Sink /\ AfterGettingFrame(t)
    BY <2>1, <1>a, <1>b, <1>5 DEF AfterGettingFrame, Hold, Goto, HandInv
  <2>2. CASE CopyFrame(t) \/ FillHeld(t)
    <3>1. /\ CopyInto(t, bufId[t]) /\ bufId[t] \in Ids /\ bufId'[t] = bufId[t]
      BY <2>2 DEF CopyFrame, FillHeld, HandInv
    <3> QED BY <3>1, <1>5, CopyFills
  <2>3. CASE SinkPutFull(t)
    BY <2>3, <1>a, <1>b, <1>5 DEF SinkPutFull, Hold
  <2>4. CASE SwitchFullGet(t)
    <3>1. pc[t] = "idle" /\ bufId'[t] = bufId[t]
      BY <2>4 DEF SwitchFullGet
    <3> QED BY <3>1, <1>1, <1>5 DEF FilledInv
  <2>5. CASE SwitchFullPut(t)
    BY <2>5, <1>a, <1>5 DEF SwitchFullPut, Goto
  <2>6. CASE Swap(t)
    BY <2>6, <1>a, <1>5 DEF Swap, Goto
  <2> QED BY <1>5, <1>b, <2>1, <2>2, <2>3, <2>4, <2>5, <2>6
          DEF Step, SinkStep, SwitchFullStep
<1> QED BY <1>3, <1>4, <1>5 DEF FilledInv

LEMMA InitIInv == Init => IInv
<1> SUFFICES ASSUME Init PROVE IInv
  OBVIOUS
<1>1. /\ numBuf \in Nat /\ NumFrames \in Nat /\ Invalid \notin Ids
      /\ emptyQue \in [1..numBuf -> Ids] /\ fullQue = << >>
      /\ \A i \in 1..numBuf : emptyQue[i] = i - 1
  BY ConstantsAssumption DEF Init, Ids, Invalid
<1>2. emptyQue \in Seq(Ids) /\ Len(emptyQue) = numBuf
  BY <1>1
<1>3. TypeOK
  BY <1>1, <1>2 DEF Init, TypeOK
<1>4. HandInv /\ FilledInv
  BY <1>1, ThreadKinds DEF Init, HandInv, FilledInv
<1>5. \A t \in Threads : Hands[t] = {}
  BY DEF Init, Hands, InHand
<1>6. PlaceInv
  <2> SUFFICES ASSUME NEW id \in Ids PROVE OnePlace(id, emptyQue, fullQue, Hands)
    BY DEF PlaceInv
  <2>1. id + 1 \in 1..numBuf /\ emptyQue[id + 1] = id
    BY <1>1 DEF Ids
  <2>2. \A k, l \in 1..Len(emptyQue) : emptyQue[k] = id /\ emptyQue[l] = id => k = l
    BY <1>1, <1>2
  <2>3. Len(fullQue) = 0
    BY <1>1
  <2> QED BY <1>2, <1>5, <2>1, <2>2, <2>3 DEF OnePlace
<1> QED BY <1>3, <1>4, <1>6 DEF IInv

LEMMA NextIInv == IInv /\ [Next]_vars => IInv'
<1> SUFFICES ASSUME IInv, [Next]_vars PROVE IInv'
  OBVIOUS
<1>1. CASE Next
  <2>1. PICK t \in Threads : Step(t)
    BY <1>1, NextIsStep
  <2> QED BY <2>1, StepType, StepHand, StepFilled, StepKeepsPlaces DEF IInv
<1>2. CASE UNCHANGED vars
  <2>1. TypeOK'
    BY <1>2 DEF vars, IInv, TypeOK
  <2>2. HandInv' /\ FilledInv'
    BY <1>2 DEF vars, IInv, HandInv, FilledInv
  <2>3. Hands' = Hands
    BY <1>2 DEF vars, Hands, InHand
  <2>4. PlaceInv'
    BY <1>2, <2>3 DEF vars, IInv, PlaceInv, OnePlace
  <2> QED BY <2>1, <2>2, <2>4 DEF IInv
<1> QED BY <1>1, <1>2

LEMMA SpecIInv == Spec => []IInv
BY InitIInv, NextIInv, PTL DEF Spec

-----------------------------------------------------------------------------
(* What the invariant says of every state.                                 *)

LEMMA OneOfThePlaces ==
  ASSUME IInv, NEW id \in Ids
  PROVE  Cardinality(Places(id)) = 1
<1>1. OnePlace(id, emptyQue, fullQue, Hands) /\ \A t \in Threads : Hands[t] = InHand(t)
  BY HandsType DEF IInv, PlaceInv
<1>2. \E p : Places(id) = {p}
  <2>1. CASE \E k \in 1..Len(emptyQue) : emptyQue[k] = id
    <3>1. PICK k \in 1..Len(emptyQue) : emptyQue[k] = id
      BY <2>1
    <3>2. Places(id) = {<<"empty", k>>}
      BY <1>1, <3>1 DEF Places, OnePlace
    <3> QED BY <3>2
  <2>2. CASE \E k \in 1..Len(fullQue) : fullQue[k] = id
    <3>1. PICK k \in 1..Len(fullQue) : fullQue[k] = id
      BY <2>2
    <3>2. Places(id) = {<<"full", k>>}
      BY <1>1, <3>1 DEF Places, OnePlace
    <3> QED BY <3>2
  <2>3. CASE \E t \in Threads : id \in Hands[t]
    <3>1. PICK t \in Threads : id \in Hands[t]
      BY <2>3
    <3>2. Places(id) = {<<"hand", t>>}
      BY <1>1, <3>1 DEF Places, OnePlace
    <3> QED BY <3>2
  <2> QED BY <1>1, <2>1, <2>2, <2>3 DEF OnePlace
<1> QED BY <1>2, FS_Singleton

LEMMA RoomForPuts == ASSUME IInv PROVE PutsFindRoom
<1>1. \A t \in Threads : \A x \in Hands[t] : Len(emptyQue) < numBuf /\ Len(fullQue) < numBuf
  <2> SUFFICES ASSUME NEW t \in Threads, NEW x \in Hands[t]
               PROVE  Len(emptyQue) < numBuf /\ Len(fullQue) < numBuf
    OBVIOUS
  <2>1. /\ emptyQue \in Seq(Ids) /\ fullQue \in Seq(Ids)
        /\ Hands \in [Threads -> SUBSET Ids]
    BY HandsType DEF IInv, TypeOK
  <2>2. /\ \A id \in Ids : OnePlace(id, emptyQue, fullQue, Hands)
        /\ \A id \in Ids : OnePlace(id, fullQue, emptyQue, Hands)
    BY OtherWayRound DEF IInv, PlaceInv
  <2> QED BY <2>1, <2>2, RoomWhileInHand
<1> SUFFICES ASSUME NEW t \in Threads
             PROVE  /\ pc[t] = "putFull" => InRange(bufId[t]) /\ Len(fullQue) < fullQueLen
                    /\ pc[t] = "switch" => IF t \in Producers THEN Len(fullQue) < fullQueLen
                                                              ELSE Len(emptyQue) < numBuf
                    /\ t \in Consumers /\ bufId[t] # Invalid => Len(emptyQue) < numBuf
  BY DEF PutsFindRoom
<1>2. /\ pc[t] \in {"putFull", "switch"} => bufId[t] \in Ids
      /\ t \in Consumers => pc[t] = "idle"
      /\ bufId[t] \in Ids \cup {Invalid}
  BY ThreadKinds DEF IInv, HandInv, TypeOK
<1>3. bufId[t] \in Ids /\ pc[t] # "swap" => bufId[t] \in Hands[t]
  BY HandsType DEF IInv, InHand
<1> QED BY <1>1, <1>2, <1>3 DEF InRange, fullQueLen

(* Every buffer is in one queue or one thread's hands, once, and every put *)
(* finds room, so that none of the puts of buffer.c:124-162, which may     *)
(* wait for ever, blocks its caller, and the sink's assert                 *)
(* (FrameSink.cpp:65) holds, however the threads interleave.               *)
THEOREM IdsStayConserved == Spec => []IdsAreConserved
<1>1. IInv => IdsAreConserved
  BY OneOfThePlaces, RoomForPuts DEF IdsAreConserved, IInv
<1> QED BY <1>1, SpecIInv, PTL

LEMMA OthersKeepContent ==
  ASSUME IInv, NEW t \in Threads, Step(t), NEW u \in Readers, NEW id \in InHand(u)
  PROVE  content'[id] = content[id]
<1>1. CASE UNCHANGED content
  BY <1>1
<1>2. CASE ~UNCHANGED content
  <2>1. /\ t \in Producers /\ pc[t] \in {"fill", "refill"} /\ CopyInto(t, bufId[t])
        /\ bufId[t] \in Ids
    BY <1>2, ThreadKinds
       DEF Step, SinkStep, SwitchFullStep, ConsumerStep, SwitchEmptyStep,
           AfterGettingFrame, CopyFrame, SinkPutFull, SwitchFullGet, SwitchFullPut, Swap,
           FillHeld, GetFull, ReturnEmpty, SwitchEmptyGet, SwitchEmptyPut, IInv, HandInv
  <2>2. bufId[t] \in Hands[t] /\ id \in Hands[u] /\ id \in Ids /\ t # u /\ u \in Threads
    BY <2>1, HandsType, ThreadKinds, ConstantsAssumption DEF IInv, InHand
  <2>3. id # bufId[t]
    BY <2>2 DEF IInv, PlaceInv, OnePlace
  <2> QED BY <2>1, <2>2, <2>3 DEF CopyInto, IInv, TypeOK
<1> QED BY <1>1, <1>2

(* A buffer a consumer has in hand is not written (FrameSink.cpp:56-66     *)
(* copies only into a buffer it took from the empty queue).                *)
THEOREM ReadersAreUndisturbed == Spec => ReadersSeeStableFrames
<1>1. IInv /\ [Next]_vars => [\A t \in Readers : \A id \in InHand(t) : content'[id] = content[id]]_vars
  BY NextIsStep, OthersKeepContent
<1> QED BY <1>1, SpecIInv, PTL DEF Spec, ReadersSeeStableFrames

-----------------------------------------------------------------------------
(* The frames of one producer among those of all.                          *)

(* kept[n] are those among the first n.                                    *)
Keeps(t, s, kept) ==
    /\ kept[0] = << >>
    /\ \A n \in 1..Len(s) :
          kept[n] = IF s[n].by = t THEN Append(kept[n - 1], s[n]) ELSE kept[n - 1]

LEMMA KeptExists ==
  ASSUME NEW t, NEW s \in Seq(Frames)
  PROVE  \E g \in [0..Len(s) -> Seq(Frames)] : Keeps(t, s, g) /\ By(t, s) = g[Len(s)]
<1> DEFINE N == Len(s)
           rule == [p \in Nat \X Seq(Frames) |->
                      IF p[1] \in 1..N /\ s[p[1]].by = t THEN Append(p[2], s[p[1]]) ELSE p[2]]
           Rule(g) == [n \in 0..N |->
                         IF n = 0 THEN << >>
                         ELSE IF s[n].by = t THEN Append(g[n - 1], s[n]) ELSE g[n - 1]]
<1>1. N \in Nat /\ << >> \in Seq(Frames) /\ \A n \in 1..N : s[n] \in Frames
  OBVIOUS
<1>2. rule \in [Nat \X Seq(Frames) -> Seq(Frames)]
  <2>1. ASSUME NEW p \in Nat \X Seq(Frames)
        PROVE  (IF p[1] \in 1..N /\ s[p[1]].by = t THEN Append(p[2], s[p[1]]) ELSE p[2])
                  \in Seq(Frames)
    <3>1. p[2] \in Seq(Frames)
      OBVIOUS
    <3>2. p[1] \in 1..N => Append(p[2], s[p[1]]) \in Seq(Frames)
      BY <1>1, <3>1, AppendProperties
    <3> QED BY <3>1, <3>2
  <2> QED BY <2>1
<1>3. PICK g \in [0..N -> Seq(Frames)] : Follows(g, 0, N, << >>, rule)
  <2>1. 0 \in Nat /\ 0 <= N
    BY <1>1
  <2> HIDE DEF rule, N
  <2> QED BY <1>1, <1>2, <2>1, Recursion
<1>4. ASSUME NEW n \in 1..N
      PROVE  g[n] = IF s[n].by = t THEN Append(g[n - 1], s[n]) ELSE g[n - 1]
  <2>1. n \in (0 + 1)..N /\ n - 1 \in 0..N /\ n \in Nat
    BY <1>1
  <2>2. g[n] = rule[<<n, g[n - 1]>>]
    <3> HIDE DEF rule
    <3> QED BY <1>3, <2>1 DEF Follows
  <2>3. <<n, g[n - 1]>> \in Nat \X Seq(Frames)
    BY <2>1
  <2> QED BY <2>2, <2>3
<1>5. g[0] = << >>
  BY <1>3 DEF Follows
<1>6. Keeps(t, s, g)
  BY <1>4, <1>5 DEF Keeps
<1>7. g = Rule(g)
  <2>1. \A n \in 0..N : n # 0 => n \in 1..N
    BY <1>1
  <2>2. \A n \in 0..N : g[n] = Rule(g)[n]
    BY <1>4, <1>5, <2>1
  <2> HIDE DEF Rule
  <2>3. Rule(g) = [n \in 0..N |-> Rule(g)[n]]
    BY DEF Rule
  <2>4. g = [n \in 0..N |-> g[n]]
    OBVIOUS
  <2> QED BY <2>2, <2>3, <2>4
<1> DEFINE kept == CHOOSE f : f = Rule(f)
<1>8. kept = Rule(kept)
  BY <1>7
<1>9. By(t, s) = kept[N]
  BY DEF By
<1>10. /\ kept[0] = << >>
       /\ \A n \in 1..N : kept[n] = IF s[n].by = t THEN Append(kept[n - 1], s[n]) ELSE kept[n - 1]
  <2> HIDE DEF kept
  <2>1. 0 \in 0..N /\ \A n \in 1..N : n \in 0..N /\ n # 0
    BY <1>1
  <2> QED BY <1>8, <2>1
<1> HIDE DEF kept
<1> DEFINE T == {n \in 0..N : kept[n] # g[n]}
<1>11. T = {}
  <2> SUFFICES ASSUME T # {} PROVE FALSE
    OBVIOUS
  <2>1. PICK m \in T : \A n \in T : m <= n
    <3>1. T \in SUBSET Nat
      OBVIOUS
    <3> HIDE DEF T
    <3> QED BY <3>1, LeastElement
  <2>2. m \in 0..N /\ kept[m] # g[m]
    OBVIOUS
  <2>3. m # 0
    BY <1>5, <1>10, <2>2
  <2>4. m \in 1..N /\ m - 1 \in 0..N /\ ~(m <= m - 1)
    BY <1>1, <2>2, <2>3
  <2>5. kept[m - 1] = g[m - 1]
    BY <2>1, <2>4
  <2> QED BY <1>4, <1>10, <2>2, <2>4, <2>5
<1>12. N \in 0..N
  BY <1>1
<1>13. kept[N] = g[N]
  BY <1>11, <1>12
<1> QED BY <1>6, <1>9, <1>13

(* Two sequences that agree so far keep the same so far.                   *)
LEMMA KeptAgrees ==
  ASSUME NEW t, NEW s, NEW r, NEW g, NEW h, Keeps(t, s, g), Keeps(t, r, h),
         NEW m \in Nat, Len(s) \in Nat, Len(r) \in Nat, m <= Len(s), m <= Len(r),
         \A n \in 1..m : s[n] = r[n]
  PROVE  g[m] = h[m]
<1> DEFINE T == {n \in 0..m : g[n] # h[n]}
<1> SUFFICES ASSUME T # {} PROVE FALSE
  OBVIOUS
<1>1. PICK n \in T : \A k \in T : n <= k
  <2>1. T \in SUBSET Nat
    OBVIOUS
  <2> HIDE DEF T
  <2> QED BY <2>1, LeastElement
<1>2. n \in 0..m /\ g[n] # h[n]
  OBVIOUS
<1>3. n # 0
  BY <1>2 DEF Keeps
<1>4. n \in 1..m /\ n \in 1..Len(s) /\ n \in 1..Len(r) /\ n - 1 \in 0..m /\ ~(n <= n - 1)
  BY <1>2, <1>3
<1>5. g[n - 1] = h[n - 1]
  BY <1>1, <1>4
<1> QED BY <1>2, <1>4, <1>5 DEF Keeps

LEMMA ByAppend ==
  ASSUME NEW t, NEW s \in Seq(Frames), NEW f \in Frames
  PROVE  By(t, Append(s, f)) = IF f.by = t THEN Append(By(t, s), f) ELSE By(t, s)
<1> DEFINE r == Append(s, f)
<1>1. /\ r \in Seq(Frames) /\ Len(s) \in Nat /\ Len(r) = Len(s) + 1
      /\ r[Len(s) + 1] = f /\ \A n \in 1..Len(s) : s[n] = r[n]
  BY AppendProperties, LenProperties
<1> HIDE DEF r
<1>2. PICK g \in [0..Len(s) -> Seq(Frames)] : Keeps(t, s, g) /\ By(t, s) = g[Len(s)]
  BY KeptExists
<1>3. PICK h \in [0..Len(r) -> Seq(Frames)] : Keeps(t, r, h) /\ By(t, r) = h[Len(r)]
  BY <1>1, KeptExists
<1>4. g[Len(s)] = h[Len(s)]
  <2>1. PICK m \in Nat : m = Len(s)
    BY <1>1
  <2>2. Len(r) \in Nat /\ m <= Len(s) /\ m <= Len(r) /\ \A n \in 1..m : s[n] = r[n]
    BY <1>1, <2>1
  <2>3. g[m] = h[m]
    BY <1>1, <1>2, <1>3, <2>2, KeptAgrees
  <2> QED BY <2>1, <2>3
<1>5. Len(r) \in 1..Len(r) /\ Len(r) - 1 = Len(s)
  BY <1>1
<1>6. h[Len(r)] = IF r[Len(r)].by = t THEN Append(h[Len(r) - 1], r[Len(r)]) ELSE h[Len(r) - 1]
  BY <1>3, <1>5 DEF Keeps
<1> QED BY <1>1, <1>2, <1>3, <1>4, <1>5, <1>6 DEF r

LEMMA ByTail ==
  ASSUME NEW t, NEW s \in Seq(Frames), s # << >>
  PROVE  IF Head(s).by = t
           THEN By(t, s) # << >> /\ Head(By(t, s)) = Head(s) /\ Tail(By(t, s)) = By(t, Tail(s))
           ELSE By(t, s) = By(t, Tail(s))
<1> DEFINE r == Tail(s)
<1>1. /\ r \in Seq(Frames) /\ Len(s) \in Nat /\ Len(s) > 0 /\ Len(r) = Len(s) - 1
      /\ \A n \in 1..Len(r) : r[n] = s[n + 1]
      /\ Head(s) = s[1]
  BY HeadTailProperties, LenProperties
<1>a. \A n \in 1..Len(s) : s[n] \in Frames
  OBVIOUS
<1> HIDE DEF r
<1>2. PICK g \in [0..Len(s) -> Seq(Frames)] : Keeps(t, s, g) /\ By(t, s) = g[Len(s)]
  BY KeptExists
<1>3. PICK h \in [0..Len(r) -> Seq(Frames)] : Keeps(t, r, h) /\ By(t, r) = h[Len(r)]
  BY <1>1, KeptExists
<1> DEFINE P(n) == IF s[1].by = t
                     THEN g[n + 1] # << >> /\ Head(g[n + 1]) = s[1] /\ Tail(g[n + 1]) = h[n]
                     ELSE g[n + 1] = h[n]
           T == {n \in 0..Len(r) : ~P(n)}
<1>4. P(0)
  <2>1. 1 \in 1..Len(s) /\ 1 - 1 = 0 /\ 0 + 1 = 1
    BY <1>1
  <2>2. g[1] = IF s[1].by = t THEN Append(g[0], s[1]) ELSE g[0]
    BY <1>2, <2>1 DEF Keeps
  <2>3. g[0] = << >> /\ h[0] = << >>
    BY <1>2, <1>3 DEF Keeps
  <2>4. /\ Append(<< >>, s[1]) # << >> /\ Head(Append(<< >>, s[1])) = s[1]
        /\ Tail(Append(<< >>, s[1])) = << >>
    <3>1. << >> \in Seq(Frames) /\ s[1] \in Frames
      BY <1>a, <2>1
    <3> QED BY <3>1, HeadTailAppend, AppendProperties
  <2> QED BY <2>1, <2>2, <2>3, <2>4
<1>5. ASSUME NEW n \in 1..Len(r), P(n - 1) PROVE P(n)
  <2>1. /\ n + 1 \in 1..Len(s) /\ (n + 1) - 1 = n /\ (n - 1) + 1 = n
        /\ n \in 0..Len(s) /\ n - 1 \in 0..Len(r)
    BY <1>1
  <2>2. g[n + 1] = IF s[n + 1].by = t THEN Append(g[n], s[n + 1]) ELSE g[n]
    BY <1>2, <2>1 DEF Keeps
  <2>3. h[n] = IF r[n].by = t THEN Append(h[n - 1], r[n]) ELSE h[n - 1]
    BY <1>3 DEF Keeps
  <2>4. r[n] = s[n + 1] /\ s[n + 1] \in Frames /\ g[n] \in Seq(Frames) /\ h[n - 1] \in Seq(Frames)
    BY <1>1, <1>a, <2>1
  <2>5. IF s[1].by = t THEN g[n] # << >> /\ Head(g[n]) = s[1] /\ Tail(g[n]) = h[n - 1]
                       ELSE g[n] = h[n - 1]
    BY <1>5, <2>1
  <2>6. g[n] # << >> => /\ Append(g[n], s[n + 1]) # << >>
                        /\ Head(Append(g[n], s[n + 1])) = Head(g[n])
                        /\ Tail(Append(g[n], s[n + 1])) = Append(Tail(g[n]), s[n + 1])
    <3>1. ASSUME NEW q \in Seq(Frames), NEW f \in Frames, q # << >>
          PROVE  /\ Append(q, f) # << >> /\ Head(Append(q, f)) = Head(q)
                 /\ Tail(Append(q, f)) = Append(Tail(q), f)
      BY <3>1, HeadTailAppend, AppendProperties
    <3> QED BY <2>4, <3>1
  <2> QED BY <2>2, <2>3, <2>4, <2>5, <2>6
<1>6. T = {}
  <2> SUFFICES ASSUME T # {} PROVE FALSE
    OBVIOUS
  <2>1. PICK m \in T : \A n \in T : m <= n
    <3>1. T \in SUBSET Nat
      OBVIOUS
    <3> HIDE DEF T
    <3> QED BY <3>1, LeastElement
  <2>2. m \in 0..Len(r) /\ ~P(m)
    OBVIOUS
  <2> HIDE DEF P
  <2>3. m # 0
    BY <1>4, <2>2
  <2>4. m \in 1..Len(r) /\ m - 1 \in 0..Len(r) /\ ~(m <= m - 1)
    BY <1>1, <2>2, <2>3
  <2>5. P(m - 1)
    BY <2>1, <2>4
  <2> QED BY <1>5, <2>2, <2>4, <2>5
<1>7. Len(r) \in 0..Len(r) /\ Len(r) + 1 = Len(s)
  BY <1>1
<1>8. P(Len(r))
  <2> HIDE DEF P
  <2> QED BY <1>6, <1>7
<1> QED BY <1>1, <1>2, <1>3, <1>7, <1>8 DEF r

(* What is kept was there, is by t, and is no more than there was.         *)
LEMMA ByType ==
  ASSUME NEW t, NEW s \in Seq(Frames)
  PROVE  /\ By(t, s) \in Seq(Frames) /\ Len(By(t, s)) <= Len(s)
         /\ \A i \in 1..Len(By(t, s)) :
               \E k \in 1..Len(s) : By(t, s)[i] = s[k] /\ s[k].by = t
<1>0. Len(s) \in Nat /\ \A n \in 1..Len(s) : s[n] \in Frames
  OBVIOUS
<1>1. PICK g \in [0..Len(s) -> Seq(Frames)] : Keeps(t, s, g) /\ By(t, s) = g[Len(s)]
  BY KeptExists
<1> DEFINE P(n) == /\ Len(g[n]) <= n
                   /\ \A i \in 1..Len(g[n]) : \E k \in 1..n : g[n][i] = s[k] /\ s[k].by = t
           T == {n \in 0..Len(s) : ~P(n)}
<1>2. P(0)
  <2>1. g[0] = << >>
    BY <1>1 DEF Keeps
  <2> QED BY <2>1
<1>3. ASSUME NEW n \in 1..Len(s), P(n - 1) PROVE P(n)
  <2>1. g[n] = IF s[n].by = t THEN Append(g[n - 1], s[n]) ELSE g[n - 1]
    BY <1>1 DEF Keeps
  <2>2. n - 1 \in 0..Len(s) /\ g[n - 1] \in Seq(Frames) /\ Len(g[n - 1]) \in Nat
    <3>1. n - 1 \in 0..Len(s)
      BY <1>0
    <3> QED BY <3>1, LenProperties
  <2>3. \A k \in 1..(n - 1) : k \in 1..n
    BY <1>0
  <2>4. Len(g[n - 1]) <= n - 1
    BY <1>3
  <2>5. CASE s[n].by = t
    <3>1. /\ Len(g[n]) = Len(g[n - 1]) + 1 /\ g[n][Len(g[n - 1]) + 1] = s[n]
          /\ \A i \in 1..Len(g[n - 1]) : g[n][i] = g[n - 1][i]
      BY <1>0, <2>1, <2>2, <2>5, AppendProperties
    <3>2. Len(g[n]) <= n /\ n \in 1..n
      BY <1>0, <2>2, <2>4, <3>1
    <3>3. ASSUME NEW i \in 1..Len(g[n])
          PROVE  \E k \in 1..n : g[n][i] = s[k] /\ s[k].by = t
      <4>1. CASE i \in 1..Len(g[n - 1])
        <5>1. \E k \in 1..(n - 1) : g[n - 1][i] = s[k] /\ s[k].by = t
          BY <1>3, <4>1
        <5> QED BY <2>3, <3>1, <4>1, <5>1
      <4>2. CASE i \notin 1..Len(g[n - 1])
        <5>1. i = Len(g[n - 1]) + 1
          BY <2>2, <3>1, <4>2
        <5> QED BY <2>5, <3>1, <3>2, <5>1
      <4> QED BY <4>1, <4>2
    <3> QED BY <3>2, <3>3
  <2>6. CASE s[n].by # t
    <3>1. g[n] = g[n - 1]
      BY <2>1, <2>6
    <3>2. Len(g[n]) <= n
      BY <2>2, <2>4, <3>1
    <3> QED BY <1>3, <2>3, <3>1, <3>2
  <2> QED BY <2>5, <2>6
<1>4. T = {}
  <2> SUFFICES ASSUME T # {} PROVE FALSE
    OBVIOUS
  <2>1. PICK m \in T : \A n \in T : m <= n
    <3>1. T \in SUBSET Nat
      OBVIOUS
    <3> HIDE DEF T
    <3> QED BY <3>1, LeastElement
  <2>2. m \in 0..Len(s) /\ ~P(m)
    OBVIOUS
  <2> HIDE DEF P
  <2>3. m # 0
    BY <1>2, <2>2
  <2>4. m \in 1..Len(s) /\ m - 1 \in 0..Len(s) /\ ~(m <= m - 1)
    BY <1>0, <2>2, <2>3
  <2>5. P(m - 1)
    BY <2>1, <2>4
  <2> QED BY <1>3, <2>2, <2>4, <2>5
<1>5. P(Len(s)) /\ g[Len(s)] \in Seq(Frames)
  <2>1. Len(s) \in 0..Len(s)
    BY <1>0
  <2> HIDE DEF P
  <2> QED BY <1>4, <2>1
<1> QED BY <1>1, <1>5

-----------------------------------------------------------------------------
(* The refinement of FrameQueues.                                          *)

(* A buffer its producer filled and has not queued.                        *)
Filled(t) == pc[t] \in {"idle", "putFull", "switch"} /\ bufId[t] \in Ids

(* What is in a filled buffer is its producer's, and newer than all of the *)
(* producer's that went before.                                            *)
OrderInv ==
    /\ \A id \in Ids : content[id].no <= arrived
    /\ \A k \in 1..Len(got) : got[k].no <= arrived
    /\ \A t \in Producers : Filled(t) =>
          /\ content[bufId[t]].by = t
          /\ \A k \in 1..Len(fullQue) :
                content[fullQue[k]].by = t => content[fullQue[k]].no < content[bufId[t]].no
          /\ \A k \in 1..Len(got) : got[k].by = t => got[k].no < content[bufId[t]].no

(* The steps by what they do to frames.                                    *)
FrameCopied(t) ==
    /\ t \in Producers /\ pc[t] \in {"fill", "refill"} /\ bufId[t] \in Ids
    /\ arrived < NumFrames /\ arrived' = arrived + 1
    /\ content' = [content EXCEPT ![bufId[t]] = [by |-> t, no |-> arrived + 1]]
    /\ bufId' = bufId /\ UNCHANGED <<fullQue, got>>
FrameQueued(t) ==
    /\ t \in Producers /\ Filled(t) /\ ~Filled(t)'
    /\ fullQue' = Append(fullQue, bufId[t])
    /\ UNCHANGED <<content, arrived, got>>
FrameTaken(t) ==
    /\ t \notin Producers /\ fullQue # << >>
    /\ fullQue' = Tail(fullQue) /\ got' = Append(got, content[Head(fullQue)])
    /\ UNCHANGED <<content, arrived>>
FramesStay(t) ==
    /\ t \in Producers /\ Filled(t)' => Filled(t) /\ bufId'[t] = bufId[t]
    /\ arrived' = arrived \/ arrived' = arrived + 1
    /\ UNCHANGED <<fullQue, content, got>>

LEMMA StepMovesFrames ==
  ASSUME IInv, NEW t \in Threads, Step(t)
  PROVE  FrameCopied(t) \/ FrameQueued(t) \/ FrameTaken(t) \/ FramesStay(t)
<1>a. /\ pc \in [Threads -> {"idle", "fill", "putFull", "switch", "swap", "refill"}]
      /\ bufId \in [Threads -> Ids \cup {Invalid}] /\ Invalid \notin Ids
  BY HandsType DEF IInv, TypeOK
<1>b. /\ t \in Sink \/ t \in SwitchProducers => t \in Producers
      /\ t \in Consumers \/ t \in SwitchConsumers => t \notin Producers
  BY ThreadKinds
<1> USE DEF IInv, HandInv, Filled
<1> HIDE DEF Ids
<1>1. CASE t \in Sink /\ AfterGettingFrame(t)
  <2>1. UNCHANGED <<fullQue, content, got>>
    BY <1>1 DEF AfterGettingFrame
  <2>2. CASE emptyQue # << >>
    BY <1>1, <1>a, <2>1, <2>2 DEF AfterGettingFrame, Hold, Goto, FramesStay
  <2>3. CASE ~(emptyQue # << >>)
    BY <1>1, <1>a, <2>1, <2>3 DEF AfterGettingFrame, FramesStay
  <2> QED BY <2>2, <2>3
<1>2. CASE t \in Sink /\ CopyFrame(t)
  BY <1>2, <1>b DEF CopyFrame, CopyInto, FrameCopied
<1>3. CASE t \in Sink /\ SinkPutFull(t)
  BY <1>3, <1>a, <1>b DEF SinkPutFull, PutFull, Hold, Goto, InRange, FrameQueued
<1>4. CASE t \in SwitchProducers /\ SwitchFullGet(t)
  BY <1>4, <1>a DEF SwitchFullGet, FramesStay
<1>5. CASE t \in SwitchProducers /\ SwitchFullPut(t)
  BY <1>5, <1>a, <1>b DEF SwitchFullPut, PutFull, Goto, FrameQueued
<1>6. CASE t \in Switchers /\ Swap(t)
  BY <1>6, <1>a DEF Swap, Goto, FramesStay
<1>7. CASE t \in SwitchProducers /\ FillHeld(t)
  BY <1>7, <1>b DEF FillHeld, CopyInto, FrameCopied
<1>8. CASE t \in Consumers /\ GetFull(t)
  BY <1>8, <1>b DEF GetFull, TakeFull, FrameTaken
<1>9. CASE t \in Consumers /\ ReturnEmpty(t)
  BY <1>9, <1>b DEF ReturnEmpty, FramesStay
<1>10. CASE t \in SwitchConsumers /\ SwitchEmptyGet(t)
  BY <1>10, <1>b DEF SwitchEmptyGet, TakeFull, FrameTaken
<1>11. CASE t \in SwitchConsumers /\ SwitchEmptyPut(t)
  BY <1>11, <1>b DEF SwitchEmptyPut, FramesStay
<1> QED BY <1>1, <1>2, <1>3, <1>4, <1>5, <1>6, <1>7, <1>8, <1>9, <1>10, <1>11
        DEF Step, SinkStep, SwitchFullStep, ConsumerStep, SwitchEmptyStep, Switchers

(* What the invariant gives of the values.                                 *)
LEMMA FrameTypes ==
  ASSUME IInv
  PROVE  /\ fullQue \in Seq(Ids) /\ Len(fullQue) \in Nat /\ got \in Seq(Frames)
         /\ \A k \in 1..Len(fullQue) : fullQue[k] \in Ids /\ content[fullQue[k]] \in Frames
         /\ \A k \in 1..Len(got) : got[k] \in Frames
         /\ \A id \in Ids : content[id] \in Frames \cup {NoFrame}
         /\ \A t \in Producers : Filled(t) => content[bufId[t]] \in Frames
         /\ arrived \in Nat
         /\ \A f \in Frames \cup {NoFrame} : f.no \in Nat
         /\ \A f \in Frames : f.by \in Producers
         /\ Waiting \in Seq(Frames) /\ Len(Waiting) = Len(fullQue)
         /\ \A k \in 1..Len(fullQue) : Waiting[k] = content[fullQue[k]]
<1>1. /\ fullQue \in Seq(Ids) /\ Len(fullQue) \in Nat /\ got \in Seq(Frames)
      /\ content \in [Ids -> Frames \cup {NoFrame}] /\ arrived \in Nat
      /\ \A k \in 1..Len(fullQue) : fullQue[k] \in Ids
      /\ \A k \in 1..Len(got) : got[k] \in Frames
  BY ConstantsAssumption DEF IInv, TypeOK
<1>2. \A k \in 1..Len(fullQue) : content[fullQue[k]] \in Frames
  BY DEF IInv, FilledInv
<1>3. /\ \A f \in Frames \cup {NoFrame} : f.no \in Nat
      /\ \A f \in Frames : f.by \in Producers
  BY ConstantsAssumption DEF Frames, NoFrame
<1>4. \A t \in Producers : Filled(t) => content[bufId[t]] \in Frames
  BY DEF IInv, FilledInv, Filled
<1> HIDE DEF Frames, Ids
<1>5. /\ Waiting \in [1..Len(fullQue) -> Frames]
      /\ \A k \in 1..Len(fullQue) : Waiting[k] = content[fullQue[k]]
  BY <1>2 DEF Waiting
<1>6. Waiting \in Seq(Frames) /\ Len(Waiting) = Len(fullQue)
  BY <1>1, <1>5
<1> QED BY <1>1, <1>2, <1>3, <1>4, <1>5, <1>6

LEMMA WaitingNext ==
  ASSUME IInv'
  PROVE  /\ Waiting' \in Seq(Frames) /\ Len(Waiting') = Len(fullQue')
         /\ \A k \in 1..Len(fullQue') : Waiting'[k] = content'[fullQue'[k]]
<1>1. /\ fullQue' \in Seq(Ids) /\ Len(fullQue') \in Nat
      /\ \A k \in 1..Len(fullQue') : content'[fullQue'[k]] \in Frames
  BY DEF IInv, TypeOK, FilledInv
<1>2. Waiting' = [k \in 1..Len(fullQue') |-> content'[fullQue'[k]]]
  BY DEF Waiting
<1> HIDE DEF Frames, Ids
<1>3. Waiting' \in [1..Len(fullQue') -> Frames]
  BY <1>1, <1>2
<1> QED BY <1>1, <1>2, <1>3

(* A buffer in a producer's hand is not queued nor in another's.           *)
LEMMA HandIsApart ==
  ASSUME IInv, NEW t \in Producers, bufId[t] \in Ids, pc[t] # "swap"
  PROVE  /\ \A k \in 1..Len(fullQue) : fullQue[k] # bufId[t]
         /\ \A u \in Producers \ {t} : Filled(u) => bufId[u] # bufId[t]
<1>1. t \in Threads /\ bufId[t] \in Hands[t]
  BY ThreadKinds, HandsType DEF IInv, InHand
<1>2. \A u \in Producers : Filled(u) => u \in Threads /\ bufId[u] \in Hands[u]
  BY ThreadKinds, HandsType DEF IInv, InHand, Filled
<1> QED BY <1>1, <1>2 DEF IInv, PlaceInv, OnePlace

LEMMA CopyKeepsOrder ==
  ASSUME IInv, OrderInv, NEW t \in Threads, FrameCopied(t),
         \A u \in Threads \ {t} : pc'[u] = pc[u]
  PROVE  OrderInv'
<1>1. /\ \A k \in 1..Len(fullQue) : fullQue[k] # bufId[t]
      /\ \A u \in Producers \ {t} : Filled(u) => bufId[u] # bufId[t]
  BY HandIsApart DEF FrameCopied
<1>2. /\ arrived' = arrived + 1 /\ arrived \in Nat /\ bufId' = bufId /\ fullQue' = fullQue
      /\ got' = got /\ bufId[t] \in Ids
      /\ content'[bufId[t]] = [by |-> t, no |-> arrived + 1]
      /\ \A id \in Ids : id # bufId[t] => content'[id] = content[id]
      /\ \A k \in 1..Len(fullQue) : content'[fullQue[k]] = content[fullQue[k]]
  BY <1>1, FrameTypes DEF FrameCopied, IInv, TypeOK
<1>3. /\ \A k \in 1..Len(fullQue) : content[fullQue[k]].no \in Nat /\ content[fullQue[k]].no <= arrived
      /\ \A k \in 1..Len(got) : got[k].no \in Nat /\ got[k].no <= arrived
      /\ \A id \in Ids : content[id].no \in Nat /\ content[id].no <= arrived
  BY FrameTypes DEF OrderInv
<1>4. \A id \in Ids : content'[id].no <= arrived'
  BY <1>2, <1>3
<1>5. \A k \in 1..Len(got') : got'[k].no <= arrived'
  BY <1>2, <1>3
<1>6. ASSUME NEW u \in Producers, Filled(u)'
      PROVE  /\ content'[bufId'[u]].by = u
             /\ \A k \in 1..Len(fullQue') : content'[fullQue'[k]].by = u
                   => content'[fullQue'[k]].no < content'[bufId'[u]].no
             /\ \A k \in 1..Len(got') : got'[k].by = u => got'[k].no < content'[bufId'[u]].no
  <2>1. CASE u = t
    <3>1. content'[bufId'[u]].by = u /\ content'[bufId'[u]].no = arrived + 1
      BY <1>2, <2>1
    <3> QED BY <1>2, <1>3, <3>1
  <2>2. CASE u # t
    <3>1. Filled(u) /\ u \in Threads
      BY <1>2, <1>6, <2>2, ThreadKinds DEF Filled
    <3>2. content'[bufId'[u]] = content[bufId[u]]
      BY <1>1, <1>2, <2>2, <3>1 DEF Filled
    <3> QED BY <1>2, <3>1, <3>2 DEF OrderInv
  <2> QED BY <2>1, <2>2
<1> QED BY <1>4, <1>5, <1>6 DEF OrderInv

LEMMA QueueKeepsOrder ==
  ASSUME IInv, OrderInv, NEW t \in Threads, FrameQueued(t),
         \A u \in Threads \ {t} : pc'[u] = pc[u] /\ bufId'[u] = bufId[u]
  PROVE  OrderInv'
<1>1. /\ content' = content /\ arrived' = arrived /\ got' = got /\ bufId[t] \in Ids
      /\ t \in Producers /\ content[bufId[t]].by = t /\ fullQue \in Seq(Ids)
      /\ fullQue' = Append(fullQue, bufId[t]) /\ ~Filled(t)'
  BY FrameTypes DEF FrameQueued, Filled, OrderInv
<1>2. \A k \in 1..Len(fullQue') :
         (k \in 1..Len(fullQue) /\ fullQue'[k] = fullQue[k]) \/ fullQue'[k] = bufId[t]
  <2> HIDE DEF Ids
  <2> QED BY <1>1, AppendProperties
<1>3. ASSUME NEW u \in Producers, Filled(u)'
      PROVE  /\ content'[bufId'[u]].by = u
             /\ \A k \in 1..Len(fullQue') : content'[fullQue'[k]].by = u
                   => content'[fullQue'[k]].no < content'[bufId'[u]].no
             /\ \A k \in 1..Len(got') : got'[k].by = u => got'[k].no < content'[bufId'[u]].no
  <2>1. u # t /\ u \in Threads /\ Filled(u) /\ bufId'[u] = bufId[u]
    BY <1>1, <1>3, ThreadKinds DEF Filled
  <2> QED BY <1>1, <1>2, <2>1 DEF OrderInv
<1> QED BY <1>1, <1>3 DEF OrderInv

LEMMA TakeKeepsOrder ==
  ASSUME IInv, OrderInv, NEW t \in Threads, FrameTaken(t),
         \A u \in Threads \ {t} : pc'[u] = pc[u] /\ bufId'[u] = bufId[u]
  PROVE  OrderInv'
<1>1. /\ content' = content /\ arrived' = arrived /\ t \notin Producers
      /\ fullQue' = Tail(fullQue) /\ got' = Append(got, content[Head(fullQue)])
      /\ fullQue # << >> /\ fullQue \in Seq(Ids) /\ got \in Seq(Frames)
  BY FrameTypes DEF FrameTaken
<1> HIDE DEF Ids, Frames
<1>2. /\ \A k \in 1..Len(fullQue') : k + 1 \in 1..Len(fullQue) /\ fullQue'[k] = fullQue[k + 1]
      /\ 1 \in 1..Len(fullQue) /\ Head(fullQue) = fullQue[1]
  BY <1>1, HeadTailProperties
<1>3. content[fullQue[1]] \in Frames /\ fullQue[1] \in Ids
  BY <1>2, FrameTypes
<1>4. \A k \in 1..Len(got') : \/ k \in 1..Len(got) /\ got'[k] = got[k]
                              \/ got'[k] = content[fullQue[1]]
  BY <1>1, <1>2, <1>3, AppendProperties
<1>5. \A k \in 1..Len(got') : got'[k].no <= arrived'
  BY <1>1, <1>3, <1>4 DEF OrderInv
<1>6. ASSUME NEW u \in Producers, Filled(u)'
      PROVE  /\ content'[bufId'[u]].by = u
             /\ \A k \in 1..Len(fullQue') : content'[fullQue'[k]].by = u
                   => content'[fullQue'[k]].no < content'[bufId'[u]].no
             /\ \A k \in 1..Len(got') : got'[k].by = u => got'[k].no < content'[bufId'[u]].no
  <2>1. u # t /\ u \in Threads /\ Filled(u) /\ bufId'[u] = bufId[u]
    BY <1>1, <1>6, ThreadKinds DEF Filled
  <2> QED BY <1>1, <1>2, <1>4, <2>1 DEF OrderInv
<1> QED BY <1>1, <1>5, <1>6 DEF OrderInv

LEMMA StayKeepsOrder ==
  ASSUME IInv, OrderInv, NEW t \in Threads, FramesStay(t),
         \A u \in Threads \ {t} : pc'[u] = pc[u] /\ bufId'[u] = bufId[u]
  PROVE  OrderInv'
<1>1. /\ content' = content /\ fullQue' = fullQue /\ got' = got
      /\ arrived \in Nat /\ arrived' \in Nat /\ arrived <= arrived'
  BY FrameTypes DEF FramesStay
<1>2. /\ \A id \in Ids : content[id].no \in Nat /\ content[id].no <= arrived
      /\ \A k \in 1..Len(got) : got[k].no \in Nat /\ got[k].no <= arrived
  BY FrameTypes DEF OrderInv
<1>3. \A u \in Producers : Filled(u)' => Filled(u) /\ bufId'[u] = bufId[u]
  BY ThreadKinds DEF FramesStay, Filled
<1>4. /\ \A id \in Ids : content'[id].no <= arrived'
      /\ \A k \in 1..Len(got') : got'[k].no <= arrived'
  BY <1>1, <1>2
<1> QED BY <1>1, <1>3, <1>4 DEF OrderInv

LEMMA SpecOrder == Spec => [](IInv /\ OrderInv)
<1>1. Init => OrderInv
  <2> SUFFICES ASSUME Init PROVE OrderInv
    OBVIOUS
  <2>1. /\ \A id \in Ids : content[id] = NoFrame
        /\ arrived = 0 /\ Len(got) = 0
        /\ \A t \in Producers : bufId[t] \notin Ids
    BY ThreadKinds DEF Init, Invalid, Ids
  <2> QED BY <2>1 DEF OrderInv, NoFrame, Filled
<1>2. IInv /\ OrderInv /\ [Next]_vars => OrderInv'
  <2> SUFFICES ASSUME IInv, OrderInv, [Next]_vars PROVE OrderInv'
    OBVIOUS
  <2>1. CASE Next
    <3>1. PICK t \in Threads : Step(t)
      BY <2>1, NextIsStep
    <3>2. \A u \in Threads \ {t} : pc'[u] = pc[u] /\ bufId'[u] = bufId[u]
      BY <3>1, StepIsOwn DEF IInv
    <3> QED BY <3>1, <3>2, StepMovesFrames, CopyKeepsOrder, QueueKeepsOrder, TakeKeepsOrder,
               StayKeepsOrder
  <2>2. CASE UNCHANGED vars
    BY <2>2 DEF vars, OrderInv, Filled
  <2> QED BY <2>1, <2>2
<1> QED BY <1>1, <1>2, SpecIInv, NextIInv, PTL DEF Spec

(* What waits and what was received, per producer.                         *)
WaitingBy == [t \in Producers |-> By(t, Waiting)]
GotBy == [t \in Producers |-> By(t, got)]

LEMMA QueuedIsPush ==
  ASSUME IInv, IInv', OrderInv, NEW t \in Threads, FrameQueued(t)
  PROVE  Queues!Next
<1> DEFINE f == content[bufId[t]]
<1>1. /\ t \in Producers /\ Filled(t) /\ bufId[t] \in Ids /\ f \in Frames /\ f.by = t
      /\ fullQue' = Append(fullQue, bufId[t]) /\ content' = content /\ got' = got
  BY FrameTypes DEF FrameQueued, Filled, OrderInv
<1>2. /\ fullQue \in Seq(Ids) /\ Len(fullQue) \in Nat /\ Waiting \in Seq(Frames)
      /\ Len(Waiting) = Len(fullQue)
      /\ \A k \in 1..Len(fullQue) : Waiting[k] = content[fullQue[k]]
      /\ got \in Seq(Frames)
  BY FrameTypes
<1>3. /\ Waiting' \in Seq(Frames) /\ Len(Waiting') = Len(fullQue')
      /\ \A k \in 1..Len(fullQue') : Waiting'[k] = content'[fullQue'[k]]
  BY WaitingNext
<1> HIDE DEF Ids, Frames
<1>4. /\ Len(fullQue') = Len(fullQue) + 1 /\ fullQue'[Len(fullQue) + 1] = bufId[t]
      /\ \A k \in 1..Len(fullQue) : fullQue'[k] = fullQue[k]
  BY <1>1, <1>2, AppendProperties
<1>5. Waiting' = Append(Waiting, f)
  <2>1. /\ Append(Waiting, f) \in Seq(Frames) /\ Len(Append(Waiting, f)) = Len(Waiting) + 1
        /\ Append(Waiting, f)[Len(Waiting) + 1] = f
        /\ \A k \in 1..Len(Waiting) : Append(Waiting, f)[k] = Waiting[k]
    BY <1>1, <1>2, AppendProperties
  <2>2. \A k \in 1..(Len(fullQue) + 1) : Waiting'[k] = Append(Waiting, f)[k]
    <3> SUFFICES ASSUME NEW k \in 1..(Len(fullQue) + 1) PROVE Waiting'[k] = Append(Waiting, f)[k]
      OBVIOUS
    <3>1. k \in 1..Len(fullQue') /\ Waiting'[k] = content[fullQue'[k]]
      BY <1>1, <1>2, <1>3, <1>4
    <3>2. CASE k \in 1..Len(fullQue)
      BY <1>2, <1>4, <2>1, <3>1, <3>2
    <3>3. CASE k \notin 1..Len(fullQue)
      <4>1. k = Len(fullQue) + 1
        BY <1>2, <3>3
      <4> QED BY <1>2, <1>4, <2>1, <3>1, <4>1
    <3> QED BY <3>2, <3>3
  <2> HIDE DEF f
  <2> QED BY <1>2, <1>3, <1>4, <2>1, <2>2, SeqEqual
<1>6. \A u \in Producers :
         By(u, Waiting)' = IF u = t THEN Append(By(u, Waiting), f) ELSE By(u, Waiting)
  <2> SUFFICES ASSUME NEW u \in Producers
               PROVE  By(u, Waiting)' = IF u = t THEN Append(By(u, Waiting), f)
                                                 ELSE By(u, Waiting)
    OBVIOUS
  <2>1. By(u, Waiting)' = By(u, Append(Waiting, f))
    BY <1>5 DEF By
  <2> HIDE DEF f
  <2> QED BY <1>1, <1>2, <2>1, ByAppend
<1>7. WaitingBy' = [WaitingBy EXCEPT ![t] = Append(@, f)]
  <2> HIDE DEF f
  <2> QED BY <1>1, <1>6 DEF WaitingBy
<1>8. GotBy' = GotBy
  BY <1>1 DEF GotBy, By
<1>9. Len(WaitingBy[t]) < numBuf
  <2>1. \E x : x \in Hands[t]
    <3>1. pc[t] # "swap" /\ bufId[t] # Invalid
      BY <1>1, HandsType DEF Filled, IInv
    <3>2. bufId[t] \in InHand(t)
      BY <3>1 DEF InHand
    <3> QED BY <3>2, HandsType DEF IInv
  <2>2. Len(fullQue) < numBuf
    <3>1. PICK x \in Hands[t] : TRUE
      BY <2>1
    <3>2. /\ emptyQue \in Seq(Ids) /\ Hands \in [Threads -> SUBSET Ids]
          /\ \A id \in Ids : OnePlace(id, fullQue, emptyQue, Hands)
      BY HandsType, OtherWayRound DEF IInv, TypeOK, PlaceInv
    <3> QED BY <1>2, <3>1, <3>2, RoomWhileInHand
  <2>3. By(t, Waiting) \in Seq(Frames) /\ Len(By(t, Waiting)) <= Len(Waiting)
    BY <1>2, ByType
  <2>4. WaitingBy[t] = By(t, Waiting) /\ Len(By(t, Waiting)) \in Nat /\ numBuf \in Nat
    BY <1>1, <2>3, LenProperties, ConstantsAssumption DEF WaitingBy
  <2> QED BY <1>2, <2>2, <2>3, <2>4
<1>10. Queues!Newer(t, f)
  <2>1. \A i \in 1..Len(WaitingBy[t]) : WaitingBy[t][i].no < f.no
    <3>1. WaitingBy[t] = By(t, Waiting)
      BY <1>1 DEF WaitingBy
    <3> SUFFICES ASSUME NEW i \in 1..Len(By(t, Waiting)) PROVE By(t, Waiting)[i].no < f.no
      BY <3>1
    <3>2. PICK k \in 1..Len(Waiting) : By(t, Waiting)[i] = Waiting[k] /\ Waiting[k].by = t
      BY <1>2, ByType
    <3>3. \A j \in 1..Len(fullQue) : content[fullQue[j]].by = t => content[fullQue[j]].no < f.no
      BY <1>1 DEF OrderInv
    <3>4. k \in 1..Len(fullQue) /\ Waiting[k] = content[fullQue[k]]
      BY <1>2
    <3> HIDE DEF f
    <3> QED BY <3>2, <3>3, <3>4
  <2>2. \A i \in 1..Len(GotBy[t]) : GotBy[t][i].no < f.no
    <3>1. GotBy[t] = By(t, got)
      BY <1>1 DEF GotBy
    <3> SUFFICES ASSUME NEW i \in 1..Len(By(t, got)) PROVE By(t, got)[i].no < f.no
      BY <3>1
    <3>2. PICK k \in 1..Len(got) : By(t, got)[i] = got[k] /\ got[k].by = t
      BY <1>2, ByType
    <3> QED BY <1>1, <3>2 DEF OrderInv
  <2> QED BY <2>1, <2>2 DEF Queues!Newer, WaitingBy, GotBy
<1>11. Queues!Push(t, f)
  <2> HIDE DEF f
  <2> QED BY <1>7, <1>8, <1>9, <1>10 DEF Queues!Push, WaitingBy, GotBy
<1> QED BY <1>1, <1>11 DEF Queues!Next

LEMMA TakenIsPop ==
  ASSUME IInv, IInv', NEW t \in Threads, FrameTaken(t)
  PROVE  Queues!Next
<1>1. /\ fullQue # << >> /\ fullQue' = Tail(fullQue) /\ content' = content
      /\ got' = Append(got, content[Head(fullQue)])
  BY DEF FrameTaken
<1>2. /\ fullQue \in Seq(Ids) /\ Len(fullQue) \in Nat /\ Waiting \in Seq(Frames)
      /\ Len(Waiting) = Len(fullQue)
      /\ \A k \in 1..Len(fullQue) : Waiting[k] = content[fullQue[k]]
      /\ got \in Seq(Frames)
  BY FrameTypes
<1>3. /\ Waiting' \in Seq(Frames) /\ Len(Waiting') = Len(fullQue')
      /\ \A k \in 1..Len(fullQue') : Waiting'[k] = content'[fullQue'[k]]
  BY WaitingNext
<1>4. \A x \in Frames : x.by \in Producers
  BY FrameTypes
<1> HIDE DEF Ids, Frames
<1>5. /\ Len(fullQue) > 0 /\ Len(fullQue') = Len(fullQue) - 1
      /\ \A k \in 1..Len(fullQue') : fullQue'[k] = fullQue[k + 1]
      /\ 1 \in 1..Len(fullQue) /\ Head(fullQue) = fullQue[1]
  BY <1>1, <1>2, HeadTailProperties
<1>6. Waiting # << >> /\ Head(Waiting) = Waiting[1] /\ Waiting[1] \in Frames
  BY <1>2, <1>5
<1>7. Waiting' = Tail(Waiting)
  <2>1. /\ Tail(Waiting) \in Seq(Frames) /\ Len(Tail(Waiting)) = Len(Waiting) - 1
        /\ \A k \in 1..Len(Tail(Waiting)) : Tail(Waiting)[k] = Waiting[k + 1]
    BY <1>2, <1>6, HeadTailProperties
  <2>2. \A k \in 1..Len(fullQue') : Waiting'[k] = Tail(Waiting)[k]
    <3> SUFFICES ASSUME NEW k \in 1..Len(fullQue') PROVE Waiting'[k] = Tail(Waiting)[k]
      OBVIOUS
    <3>1. k + 1 \in 1..Len(fullQue) /\ k \in 1..Len(Tail(Waiting))
      BY <1>2, <1>5, <2>1
    <3>2. Waiting'[k] = content[fullQue[k + 1]]
      BY <1>1, <1>3, <1>5
    <3>3. Tail(Waiting)[k] = Waiting[k + 1]
      BY <2>1, <3>1
    <3> QED BY <1>2, <3>1, <3>2, <3>3
  <2>3. Len(Waiting') = Len(Tail(Waiting)) /\ \A k \in 1..Len(Waiting') : Waiting'[k] = Tail(Waiting)[k]
    BY <1>2, <1>3, <1>5, <2>1, <2>2
  <2> QED BY <1>3, <2>1, <2>3, SeqEqual
<1>8. PICK f \in Frames : f = Waiting[1] /\ f = content[Head(fullQue)]
  BY <1>2, <1>5, <1>6
<1>9. PICK p \in Producers : p = f.by
  BY <1>4, <1>8
<1>10. /\ By(p, Waiting) # << >> /\ Head(By(p, Waiting)) = f
       /\ \A u \in Producers : By(u, Waiting)' = IF u = p THEN Tail(By(u, Waiting))
                                                          ELSE By(u, Waiting)
  <2>1. \A u \in Producers : By(u, Waiting)' = By(u, Tail(Waiting))
    BY <1>7 DEF By
  <2>2. ASSUME NEW u \in Producers
        PROVE  /\ u = p => /\ By(u, Waiting) # << >> /\ Head(By(u, Waiting)) = f
                           /\ By(u, Tail(Waiting)) = Tail(By(u, Waiting))
               /\ u # p => By(u, Tail(Waiting)) = By(u, Waiting)
    <3>1. IF Head(Waiting).by = u
            THEN /\ By(u, Waiting) # << >> /\ Head(By(u, Waiting)) = Head(Waiting)
                 /\ Tail(By(u, Waiting)) = By(u, Tail(Waiting))
            ELSE By(u, Waiting) = By(u, Tail(Waiting))
      BY <1>2, <1>6, ByTail
    <3> QED BY <1>6, <1>8, <1>9, <3>1
  <2> QED BY <2>1, <2>2
<1>11. \A u \in Producers : By(u, got)' = IF u = p THEN Append(By(u, got), f) ELSE By(u, got)
  <2>1. \A u \in Producers : By(u, got)' = By(u, Append(got, f))
    BY <1>1, <1>8 DEF By
  <2> QED BY <1>2, <1>9, <2>1, ByAppend
<1>12. /\ WaitingBy' = [WaitingBy EXCEPT ![p] = Tail(@)] /\ WaitingBy[p] # << >>
       /\ Head(WaitingBy[p]) = f
  BY <1>10 DEF WaitingBy
<1>13. GotBy' = [GotBy EXCEPT ![p] = Append(@, f)]
  BY <1>11 DEF GotBy
<1>14. Queues!Pop(p)
  BY <1>12, <1>13 DEF Queues!Pop, WaitingBy, GotBy
<1> QED BY <1>14 DEF Queues!Next

(* Where no frame moves, or one is copied into a buffer in hand, the       *)
(* queues stand still.                                                     *)
LEMMA OthersStutter ==
  ASSUME IInv, NEW t \in Threads, FrameCopied(t) \/ FramesStay(t)
  PROVE  UNCHANGED <<WaitingBy, GotBy>>
<1>1. fullQue' = fullQue /\ got' = got
  BY DEF FrameCopied, FramesStay
<1>2. \A k \in 1..Len(fullQue) : content'[fullQue[k]] = content[fullQue[k]]
  <2>1. CASE FramesStay(t)
    BY <2>1 DEF FramesStay
  <2>2. CASE FrameCopied(t)
    <3>1. \A k \in 1..Len(fullQue) : fullQue[k] # bufId[t] /\ fullQue[k] \in Ids
      BY <2>2, HandIsApart, FrameTypes DEF FrameCopied
    <3> QED BY <2>2, <3>1 DEF FrameCopied, IInv, TypeOK
  <2> QED BY <2>1, <2>2
<1>3. Waiting' = Waiting
  BY <1>1, <1>2 DEF Waiting
<1> QED BY <1>1, <1>3 DEF WaitingBy, GotBy, By

(* Per producer, the pool and its consumers are a bounded queue: a frame   *)
(* that found a buffer is neither lost nor overwritten nor overtaken by a  *)
(* later one (buffer.c:82-162, FrameSink.cpp:54-66), however the threads   *)
(* interleave.  The queues are never closed, so no step may flush one.     *)
THEOREM PoolImplementsFrameQueues == Spec => ImplementsFrameQueues
<1>1. Init => Queues!Init
  <2> SUFFICES ASSUME Init PROVE Queues!Init
    OBVIOUS
  <2>1. fullQue = << >> /\ got = << >> /\ << >> \in Seq(Frames)
    BY DEF Init
  <2>2. Waiting = << >>
    BY <2>1 DEF Waiting
  <2>3. \A t : By(t, << >>) = << >>
    <3> SUFFICES ASSUME NEW t PROVE By(t, << >>) = << >>
      OBVIOUS
    <3>1. By(t, << >>) \in Seq(Frames) /\ Len(By(t, << >>)) <= 0
      BY <2>1, ByType
    <3> QED BY <3>1
  <2> QED BY <2>1, <2>2, <2>3 DEF Queues!Init
<1>2. ASSUME IInv, IInv', OrderInv, [Next]_vars
      PROVE  [Queues!Next]_<<WaitingBy, GotBy, FALSE>>
  <2>1. CASE Next
    <3>1. PICK t \in Threads : Step(t)
      BY <2>1, NextIsStep
    <3> QED BY <1>2, <3>1, StepMovesFrames, QueuedIsPush, TakenIsPop, OthersStutter
  <2>2. CASE UNCHANGED vars
    BY <2>2 DEF vars, WaitingBy, GotBy, By, Waiting
  <2> QED BY <1>2, <2>1, <2>2
<1> QED BY <1>1, <1>2, SpecOrder, PTL
        DEF Spec, ImplementsFrameQueues, Queues!Spec, WaitingBy, GotBy
=============================================================================
