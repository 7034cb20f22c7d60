------------------------- MODULE RtspReceiverProofs -------------------------
(***************************************************************************)
(* Proofs about the RTSP receiver's ring queue (Que), for any finite sets  *)
(* of threads, any values and a ring of any length, and its sessions       *)
(* (RtspSession), for every finite set of streams and every number of      *)
(* subsessions.                                                            *)
(***************************************************************************)
EXTENDS Que, RtspSession, FiniteSetTheorems, SequenceTheorems, TLAPS

-----------------------------------------------------------------------------
(* The ring queue.                                                         *)

(* A thread that is putting has a value to put, and each role waits only   *)
(* on its own condition.                                                   *)
PutterStates == {"idle", "put", "waitWr", "wokenPut"}
GetterStates == {"idle", "get", "waitRd", "wokenGet"}
CallsAreTyped ==
    /\ \A t \in Putters : st[t] \in PutterStates /\ (st[t] # "idle" => arg[t].val \in Values)
    /\ \A t \in Getters : st[t] \in GetterStates

QueIInv == QueTypeOK /\ CallsAreTyped /\ RingIsConsistent /\ NobodyForgotten

-----------------------------------------------------------------------------
(* The ring's arithmetic.                                                  *)

LEMMA LenIsPositive == len \in Nat /\ len > 0
BY ConstantsAssumption

(* An index less than one round away needs one subtraction at most.        *)
LEMMA Wrap ==
  ASSUME NEW a \in 0..(2 * len - 1)
  PROVE  a % len = IF a < len THEN a ELSE a - len
BY LenIsPositive

LEMMA NextSlotIsSlot ==
  ASSUME NEW i \in Slots
  PROVE  NextSlot(i) \in Slots /\ NextSlot(i) = IF i = len - 1 THEN 0 ELSE i + 1
BY LenIsPositive, Wrap DEF NextSlot, Slots

(* The k-th slot after curRd.                                              *)
LEMMA SlotAfter ==
  ASSUME NEW r \in Slots, NEW k \in 0..len
  PROVE  /\ (r + k) % len \in Slots
         /\ (r + k) % len = IF r + k < len THEN r + k ELSE r + k - len
BY LenIsPositive, Wrap DEF Slots

(* Fewer than len places after r are different slots.                      *)
LEMMA SlotsAreDistinct ==
  ASSUME NEW r \in Slots, NEW k \in 0..(len - 1), NEW m \in 0..(len - 1), k # m
  PROVE  (r + k) % len # (r + m) % len
BY LenIsPositive, SlotAfter DEF Slots

(* Counting from the next slot is counting one further.                    *)
LEMMA FromNextSlot ==
  ASSUME NEW r \in Slots, NEW k \in 0..(len - 1)
  PROVE  (NextSlot(r) + k) % len = (r + (k + 1)) % len
<1>1. NextSlot(r) \in Slots /\ NextSlot(r) = IF r = len - 1 THEN 0 ELSE r + 1
  BY NextSlotIsSlot
<1>2. k \in 0..len /\ k + 1 \in 0..len
  BY LenIsPositive
<1>3. (r + (k + 1)) % len = IF r + (k + 1) < len THEN r + (k + 1) ELSE r + (k + 1) - len
  BY <1>2, SlotAfter
<1>4. (NextSlot(r) + k) % len = IF NextSlot(r) + k < len THEN NextSlot(r) + k
                                                         ELSE NextSlot(r) + k - len
  BY <1>1, <1>2, SlotAfter
<1> QED BY <1>1, <1>3, <1>4, LenIsPositive DEF Slots

LEMMA NextOfSlot ==
  ASSUME NEW r \in Slots, NEW k \in 0..(len - 1)
  PROVE  NextSlot((r + k) % len) = (r + (k + 1)) % len
<1>1. (r + k) % len \in Slots /\ (r + k) % len = IF r + k < len THEN r + k ELSE r + k - len
  BY SlotAfter, LenIsPositive
<1>2. (r + (k + 1)) % len = IF r + (k + 1) < len THEN r + (k + 1) ELSE r + (k + 1) - len
  BY SlotAfter, LenIsPositive
<1>3. NextSlot((r + k) % len) = IF (r + k) % len = len - 1 THEN 0 ELSE ((r + k) % len) + 1
  BY <1>1, NextSlotIsSlot
<1> QED BY <1>1, <1>2, <1>3, LenIsPositive DEF Slots

-----------------------------------------------------------------------------
(* Counting threads.                                                       *)

LEMMA Counts ==
  ASSUME NEW S \in SUBSET Threads
  PROVE  /\ Cardinality(S) \in Nat
         /\ \A t \in Threads \ S : Cardinality(S \cup {t}) = Cardinality(S) + 1
         /\ \A t \in Threads : Cardinality(S \ {t}) >= Cardinality(S) - 1
<1>1. IsFiniteSet(S)
  <2>1. IsFiniteSet(Threads)
    BY ConstantsAssumption, FS_Union DEF Threads
  <2> QED BY <2>1, FS_Subset
<1>2. Cardinality(S) \in Nat
  BY <1>1, FS_CardinalityType
<1>3. ASSUME NEW t \in Threads PROVE Cardinality(S \ {t}) >= Cardinality(S) - 1
  <2>1. CASE t \in S
    <3>1. Cardinality(S \ {t}) = Cardinality(S) - 1
      BY <1>1, <2>1, FS_RemoveElement
    <3> QED BY <1>2, <3>1
  <2>2. CASE t \notin S
    <3>1. S \ {t} = S
      BY <2>2
    <3>2. Cardinality(S \ {t}) = Cardinality(S)
      BY <3>1
    <3> QED BY <1>2, <3>2
  <2> QED BY <2>1, <2>2
<1> QED BY <1>1, <1>2, <1>3, FS_AddElement

(* What a thread that returns with a signal does to the sleepers.          *)
LEMMA SignalWakesOne ==
  ASSUME QueTypeOK, NEW t \in Threads, NEW c \in {"waitRd", "waitWr"}, st[t] # c,
         NEW woken \in {"wokenGet", "wokenPut"}, SignalAndReturn(t, c, woken)
  PROVE  \/ Waiting(c) = {} /\ st' = [st EXCEPT ![t] = "idle"]
         \/ \E u \in Waiting(c) \ {t} : st' = [st EXCEPT ![t] = "idle", ![u] = woken]
BY DEF SignalAndReturn, Waiting

LEMMA Forgotten ==
  ASSUME QueTypeOK, NobodyForgotten
  PROVE  /\ Waiting("waitRd") # {} => count <= Cardinality(Waiting("wokenGet"))
         /\ Waiting("waitWr") # {} => len - count <= Cardinality(Waiting("wokenPut"))
         /\ \A c : Waiting(c) \in SUBSET Threads /\ Cardinality(Waiting(c)) \in Nat
         /\ count \in 0..len
<1>1. \A c : Waiting(c) \in SUBSET Threads
  BY DEF Waiting
<1> QED BY <1>1, Counts DEF NobodyForgotten, NoGetterForgotten, NoPutterForgotten, QueTypeOK

LEMMA PutStoresForgetsNobody ==
  ASSUME QueIInv, NEW t \in Putters, PutStores(t)
  PROVE  NobodyForgotten'
<1>t. t \in Threads /\ QueTypeOK /\ NobodyForgotten
  BY DEF QueIInv, Threads
<1>0. /\ st[t] \in {"put", "wokenPut"} /\ count < len /\ count' = count + 1 /\ count' \in Nat
      /\ st = [u \in Threads |-> st[u]]
  BY <1>t DEF PutStores, HasRoom, QueTypeOK
<1>1. NoPutterForgotten'
  <2>1. /\ Waiting("waitWr")' = Waiting("waitWr")
        /\ Waiting("wokenPut")' = Waiting("wokenPut") \ {t}
    BY <1>t, <1>0, SignalWakesOne DEF PutStores, Waiting
  <2>2. Cardinality(Waiting("wokenPut") \ {t}) >= Cardinality(Waiting("wokenPut")) - 1
    BY <1>t, Forgotten, Counts
  <2>3. Cardinality(Waiting("wokenPut") \ {t}) \in Nat
    BY <1>t, Forgotten, Counts
  <2>4. Waiting("waitWr") # {} => len - count <= Cardinality(Waiting("wokenPut"))
    BY <1>t, Forgotten
  <2>5. Cardinality(Waiting("wokenPut")) \in Nat /\ count \in 0..len
    BY <1>t, Forgotten
  <2>6. Waiting("waitWr") # {} => len - count' <= Cardinality(Waiting("wokenPut") \ {t})
    BY <1>0, <2>2, <2>3, <2>4, <2>5, LenIsPositive
  <2> QED BY <2>1, <2>6 DEF NoPutterForgotten
<1>2. NoGetterForgotten'
  <2>1. CASE Waiting("waitRd") = {} /\ st' = [st EXCEPT ![t] = "idle"]
    BY <1>t, <1>0, <2>1 DEF NoGetterForgotten, Waiting
  <2>2. ASSUME NEW u \in Waiting("waitRd") \ {t},
               st' = [st EXCEPT ![t] = "idle", ![u] = "wokenGet"]
        PROVE  NoGetterForgotten'
    <3>1. u \in Threads \ Waiting("wokenGet") /\ Waiting("waitRd") # {}
      BY DEF Waiting
    <3>2. Waiting("wokenGet")' = Waiting("wokenGet") \cup {u}
      BY <1>t, <1>0, <2>2 DEF Waiting
    <3>3. Cardinality(Waiting("wokenGet") \cup {u}) = Cardinality(Waiting("wokenGet")) + 1
      BY <1>t, <3>1, Forgotten, Counts
    <3>4. count <= Cardinality(Waiting("wokenGet")) /\ Cardinality(Waiting("wokenGet")) \in Nat
          /\ count \in 0..len
      BY <1>t, <3>1, Forgotten
    <3>5. count' <= Cardinality(Waiting("wokenGet") \cup {u})
      BY <1>0, <3>3, <3>4, LenIsPositive
    <3> QED BY <3>2, <3>5 DEF NoGetterForgotten
  <2> QED BY <1>t, <1>0, <2>1, <2>2, SignalWakesOne DEF PutStores
<1> QED BY <1>1, <1>2 DEF NobodyForgotten

LEMMA GetTakesForgetsNobody ==
  ASSUME QueIInv, NEW t \in Getters, GetTakes(t)
  PROVE  NobodyForgotten'
<1>t. t \in Threads /\ QueTypeOK /\ NobodyForgotten
  BY DEF QueIInv, Threads
<1>0. /\ st[t] \in {"get", "wokenGet"} /\ count > 0 /\ count' = count - 1 /\ count' \in Nat
      /\ st = [u \in Threads |-> st[u]]
  BY <1>t DEF GetTakes, QueTypeOK
<1>1. NoGetterForgotten'
  <2>1. /\ Waiting("waitRd")' = Waiting("waitRd")
        /\ Waiting("wokenGet")' = Waiting("wokenGet") \ {t}
    BY <1>t, <1>0, SignalWakesOne DEF GetTakes, Waiting
  <2>2. Cardinality(Waiting("wokenGet") \ {t}) >= Cardinality(Waiting("wokenGet")) - 1
    BY <1>t, Forgotten, Counts
  <2>3. Cardinality(Waiting("wokenGet") \ {t}) \in Nat
    BY <1>t, Forgotten, Counts
  <2>4. Waiting("waitRd") # {} => count <= Cardinality(Waiting("wokenGet"))
    BY <1>t, Forgotten
  <2>5. Cardinality(Waiting("wokenGet")) \in Nat /\ count \in 0..len
    BY <1>t, Forgotten
  <2>6. Waiting("waitRd") # {} => count' <= Cardinality(Waiting("wokenGet") \ {t})
    BY <1>0, <2>2, <2>3, <2>4, <2>5, LenIsPositive
  <2> QED BY <2>1, <2>6 DEF NoGetterForgotten
<1>2. NoPutterForgotten'
  <2>1. CASE Waiting("waitWr") = {} /\ st' = [st EXCEPT ![t] = "idle"]
    BY <1>t, <1>0, <2>1 DEF NoPutterForgotten, Waiting
  <2>2. ASSUME NEW u \in Waiting("waitWr") \ {t},
               st' = [st EXCEPT ![t] = "idle", ![u] = "wokenPut"]
        PROVE  NoPutterForgotten'
    <3>1. u \in Threads \ Waiting("wokenPut") /\ Waiting("waitWr") # {}
      BY DEF Waiting
    <3>2. Waiting("wokenPut")' = Waiting("wokenPut") \cup {u}
      BY <1>t, <1>0, <2>2 DEF Waiting
    <3>3. Cardinality(Waiting("wokenPut") \cup {u}) = Cardinality(Waiting("wokenPut")) + 1
      BY <1>t, <3>1, Forgotten, Counts
    <3>4. len - count <= Cardinality(Waiting("wokenPut")) /\ Cardinality(Waiting("wokenPut")) \in Nat
          /\ count \in 0..len
      BY <1>t, <3>1, Forgotten
    <3>5. len - count' <= Cardinality(Waiting("wokenPut") \cup {u})
      BY <1>0, <3>3, <3>4, LenIsPositive
    <3> QED BY <3>2, <3>5 DEF NoPutterForgotten
  <2> QED BY <1>t, <1>0, <2>1, <2>2, SignalWakesOne DEF GetTakes
<1> QED BY <1>1, <1>2 DEF NobodyForgotten

(* A step that changes where one thread is, and wakes nobody.              *)
LEMMA OneThreadMoves ==
  ASSUME QueIInv, UNCHANGED count, NEW t \in Threads,
         NEW l, st' = [st EXCEPT ![t] = l],
         st[t] = "wokenGet" \/ l = "waitRd" => count = 0,
         st[t] = "wokenPut" \/ l = "waitWr" => count = len
  PROVE  NobodyForgotten'
<1>t. QueTypeOK /\ NobodyForgotten /\ st = [u \in Threads |-> st[u]]
  BY DEF QueIInv, QueTypeOK
<1>1. NoGetterForgotten'
  <2>1. CASE count = 0
    <3>1. Waiting("wokenGet")' \in SUBSET Threads
      BY DEF Waiting
    <3>2. Cardinality(Waiting("wokenGet")') \in Nat
      BY <3>1, Counts
    <3> QED BY <2>1, <3>2 DEF NoGetterForgotten
  <2>2. CASE count # 0
    <3>1. Waiting("waitRd")' \subseteq Waiting("waitRd")
      BY <1>t, <2>2 DEF Waiting
    <3>2. CASE l = "wokenGet" /\ st[t] # "wokenGet"
      <4>1. Waiting("wokenGet")' = Waiting("wokenGet") \cup {t} /\ t \notin Waiting("wokenGet")
        BY <1>t, <3>2 DEF Waiting
      <4>2. Cardinality(Waiting("wokenGet") \cup {t}) = Cardinality(Waiting("wokenGet")) + 1
        BY <1>t, <4>1, Forgotten, Counts
      <4>3. Waiting("waitRd") # {} => count <= Cardinality(Waiting("wokenGet"))
        BY <1>t, Forgotten
      <4>4. count \in 0..len /\ Cardinality(Waiting("wokenGet")) \in Nat
        BY <1>t, Forgotten
      <4>5. Waiting("waitRd") # {} => count <= Cardinality(Waiting("wokenGet") \cup {t})
        BY <4>2, <4>3, <4>4, LenIsPositive
      <4> QED BY <3>1, <4>1, <4>5 DEF NoGetterForgotten
    <3>3. CASE ~(l = "wokenGet" /\ st[t] # "wokenGet")
      <4>1. Waiting("wokenGet")' = Waiting("wokenGet")
        BY <1>t, <2>2, <3>3 DEF Waiting
      <4> QED BY <1>t, <3>1, <4>1 DEF NobodyForgotten, NoGetterForgotten
    <3> QED BY <3>2, <3>3
  <2> QED BY <2>1, <2>2
<1>2. NoPutterForgotten'
  <2>1. CASE count = len
    <3>1. Waiting("wokenPut")' \in SUBSET Threads
      BY DEF Waiting
    <3>2. Cardinality(Waiting("wokenPut")') \in Nat
      BY <3>1, Counts
    <3> QED BY <2>1, <3>2, LenIsPositive DEF NoPutterForgotten
  <2>2. CASE count # len
    <3>1. Waiting("waitWr")' \subseteq Waiting("waitWr")
      BY <1>t, <2>2 DEF Waiting
    <3>2. CASE l = "wokenPut" /\ st[t] # "wokenPut"
      <4>1. Waiting("wokenPut")' = Waiting("wokenPut") \cup {t} /\ t \notin Waiting("wokenPut")
        BY <1>t, <3>2 DEF Waiting
      <4>2. Cardinality(Waiting("wokenPut") \cup {t}) = Cardinality(Waiting("wokenPut")) + 1
        BY <1>t, <4>1, Forgotten, Counts
      <4>3. Waiting("waitWr") # {} => len - count <= Cardinality(Waiting("wokenPut"))
        BY <1>t, Forgotten
      <4>4. count \in 0..len /\ Cardinality(Waiting("wokenPut")) \in Nat
        BY <1>t, Forgotten
      <4>5. Waiting("waitWr") # {} => len - count <= Cardinality(Waiting("wokenPut") \cup {t})
        BY <4>2, <4>3, <4>4, LenIsPositive
      <4> QED BY <3>1, <4>1, <4>5 DEF NoPutterForgotten
    <3>3. CASE ~(l = "wokenPut" /\ st[t] # "wokenPut")
      <4>1. Waiting("wokenPut")' = Waiting("wokenPut")
        BY <1>t, <2>2, <3>3 DEF Waiting
      <4> QED BY <1>t, <3>1, <4>1 DEF NobodyForgotten, NoPutterForgotten
    <3> QED BY <3>2, <3>3
  <2> QED BY <2>1, <2>2
<1> QED BY <1>1, <1>2 DEF NobodyForgotten

-----------------------------------------------------------------------------
(* The ring.                                                               *)

LEMMA RingTypes ==
  ASSUME QueIInv
  PROVE  /\ queue \in [Slots -> Values \cup {NoVal}]
         /\ curRd \in Slots /\ curWr \in Slots /\ count \in 0..len
         /\ curWr = (curRd + count) % len
         /\ \A k \in 0..(count - 1) : queue[(curRd + k) % len] \in Values
BY DEF QueIInv, QueTypeOK, RingIsConsistent

LEMMA PutStoresKeepsRing ==
  ASSUME QueIInv, NEW t \in Putters, PutStores(t)
  PROVE  /\ queue' \in [Slots -> Values \cup {NoVal}]
         /\ curRd' = curRd /\ curWr' \in Slots /\ count' = count + 1 /\ count' \in 1..len
         /\ curWr' = (curRd + count') % len
         /\ arg[t].val \in Values
         /\ queue'[(curRd + count) % len] = arg[t].val
         /\ \A k \in 0..(count - 1) : queue'[(curRd + k) % len] = queue[(curRd + k) % len]
<1>0. /\ st[t] \in {"put", "wokenPut"} /\ count < len /\ count' = count + 1 /\ curRd' = curRd
      /\ queue' = [queue EXCEPT ![curWr] = arg[t].val] /\ curWr' = NextSlot(curWr)
  BY DEF PutStores, HasRoom
<1>1. arg[t].val \in Values
  BY <1>0 DEF QueIInv, CallsAreTyped
<1>2. count \in 0..(len - 1) /\ count' \in 1..len
  BY <1>0, RingTypes, LenIsPositive
<1>3. curWr' = (curRd + count') % len
  BY <1>0, <1>2, RingTypes, NextOfSlot
<1>4. curWr' \in Slots
  BY <1>0, RingTypes, NextSlotIsSlot
<1>5. ASSUME NEW k \in 0..(count - 1)
      PROVE  queue'[(curRd + k) % len] = queue[(curRd + k) % len]
  <2>1. k \in 0..(len - 1) /\ k \in 0..len /\ k # count
    BY <1>2, LenIsPositive
  <2>2. (curRd + k) % len # curWr
    BY <1>2, <2>1, RingTypes, SlotsAreDistinct
  <2> QED BY <1>0, <2>1, <2>2, RingTypes, SlotAfter
<1> QED BY <1>0, <1>1, <1>2, <1>3, <1>4, <1>5, RingTypes

LEMMA GetTakesKeepsRing ==
  ASSUME QueIInv, NEW t \in Getters, GetTakes(t)
  PROVE  /\ queue' = queue /\ curWr' = curWr /\ curRd' \in Slots
         /\ count' = count - 1 /\ count' \in 0..(len - 1)
         /\ curWr' = (curRd' + count') % len
         /\ \A k \in 0..(count - 2) : (curRd' + k) % len = (curRd + (k + 1)) % len
<1>0. /\ count > 0 /\ count' = count - 1 /\ curRd' = NextSlot(curRd)
      /\ queue' = queue /\ curWr' = curWr
  BY DEF GetTakes
<1>1. count' \in 0..(len - 1) /\ count' + 1 = count
  BY <1>0, RingTypes, LenIsPositive
<1>2. curRd' \in Slots
  BY <1>0, RingTypes, NextSlotIsSlot
<1>3. curWr' = (curRd' + count') % len
  BY <1>0, <1>1, RingTypes, FromNextSlot
<1>4. \A k \in 0..(count - 2) : k \in 0..(len - 1)
  BY RingTypes, LenIsPositive
<1>5. \A k \in 0..(len - 1) : (curRd' + k) % len = (curRd + (k + 1)) % len
  BY <1>0, RingTypes, FromNextSlot
<1> QED BY <1>0, <1>1, <1>2, <1>3, <1>4, <1>5

-----------------------------------------------------------------------------
(* The invariant.                                                          *)

Control == PutterStates \cup GetterStates

LEMMA SignalKeepsTypes ==
  ASSUME QueIInv, NEW t \in Threads, UNCHANGED arg,
         \/ SignalAndReturn(t, "waitRd", "wokenGet")
         \/ SignalAndReturn(t, "waitWr", "wokenPut")
  PROVE  st' \in [Threads -> Control] /\ CallsAreTyped'
BY DEF QueIInv, QueTypeOK, CallsAreTyped, SignalAndReturn, Waiting, Control, PutterStates, GetterStates,
       Threads

LEMMA MoveKeepsTypes ==
  ASSUME QueIInv, NEW t \in Threads, NEW l, UNCHANGED <<ring, arg>>, st' = [st EXCEPT ![t] = l],
         IF t \in Putters THEN l \in PutterStates /\ st[t] # "idle" ELSE l \in GetterStates
  PROVE  QueTypeOK' /\ RingIsConsistent' /\ CallsAreTyped'
BY ConstantsAssumption DEF QueIInv, QueTypeOK, RingIsConsistent, CallsAreTyped, PutterStates, GetterStates,
       Threads, ring

LEMMA QueIInvStep == QueIInv /\ [QueNext]_queVars => QueIInv'
<1> SUFFICES ASSUME QueIInv, [QueNext]_queVars PROVE QueIInv'
  OBVIOUS
<1>t. /\ st \in [Threads -> Control] /\ arg \in [Threads -> [val : Values \cup {NoVal}, wait : BOOLEAN]]
      /\ \A t \in Putters : t \in Threads /\ st[t] \in PutterStates
      /\ \A t \in Getters : t \in Threads /\ st[t] \in GetterStates /\ t \notin Putters
  BY ConstantsAssumption DEF QueIInv, QueTypeOK, CallsAreTyped, Control, PutterStates, GetterStates, Threads
<1>1. ASSUME NEW t \in Putters, CallPut(t) PROVE QueIInv'
  <2>1. NobodyForgotten'
    BY <1>1, <1>t, OneThreadMoves DEF CallPut, ring
  <2>2. QueTypeOK' /\ RingIsConsistent' /\ CallsAreTyped'
    BY <1>1, <1>t, ConstantsAssumption
       DEF CallPut, ring, QueIInv, QueTypeOK, RingIsConsistent, CallsAreTyped, PutterStates, GetterStates
  <2> QED BY <2>1, <2>2 DEF QueIInv
<1>2. ASSUME NEW t \in Putters, PutStores(t) PROVE QueIInv'
  <2>1. NobodyForgotten'
    BY <1>2, PutStoresForgetsNobody
  <2>2. st' \in [Threads -> Control] /\ CallsAreTyped'
    BY <1>2, <1>t, SignalKeepsTypes DEF PutStores
  <2>3. QueTypeOK'
    <3>1. queue' \in [Slots -> Values \cup {NoVal}] /\ curRd' \in Slots /\ curWr' \in Slots
      BY <1>2, PutStoresKeepsRing, RingTypes
    <3>2. count + 1 \in 0..len /\ count' = count + 1 /\ arg' = arg
      BY <1>2, RingTypes, LenIsPositive DEF PutStores, HasRoom
    <3> QED BY <1>t, <2>2, <3>1, <3>2 DEF QueTypeOK, Control, PutterStates, GetterStates
  <2>4. \A k \in 0..(count' - 1) : queue'[(curRd' + k) % len] \in Values
    BY <1>2, PutStoresKeepsRing, RingTypes, LenIsPositive
  <2> QED BY <1>2, <2>1, <2>2, <2>3, <2>4, PutStoresKeepsRing DEF QueIInv, RingIsConsistent
<1>3. ASSUME NEW t \in Putters, PutFull(t) PROVE QueIInv'
  <2>1. count = len /\ st[t] \in {"put", "wokenPut"} /\ count # 0
    BY <1>3, RingTypes, LenIsPositive DEF PutFull, HasRoom
  <2>2. PICK l \in {"waitWr", "idle"} : st' = [st EXCEPT ![t] = l]
    BY <1>3 DEF PutFull
  <2>3. NobodyForgotten'
    BY <1>3, <1>t, <2>1, <2>2, OneThreadMoves DEF PutFull, ring
  <2>4. QueTypeOK' /\ RingIsConsistent' /\ CallsAreTyped'
    BY <1>3, <1>t, <2>1, <2>2, MoveKeepsTypes DEF PutFull, PutterStates
  <2> QED BY <2>3, <2>4 DEF QueIInv
<1>4. ASSUME NEW t \in Getters, CallGet(t) PROVE QueIInv'
  <2>1. NobodyForgotten'
    BY <1>4, <1>t, OneThreadMoves DEF CallGet, ring
  <2>2. QueTypeOK' /\ RingIsConsistent' /\ CallsAreTyped'
    BY <1>4, <1>t, ConstantsAssumption
       DEF CallGet, ring, QueIInv, QueTypeOK, RingIsConsistent, CallsAreTyped, PutterStates, GetterStates
  <2> QED BY <2>1, <2>2 DEF QueIInv
<1>5. ASSUME NEW t \in Getters, GetTakes(t) PROVE QueIInv'
  <2>1. NobodyForgotten'
    BY <1>5, GetTakesForgetsNobody
  <2>2. st' \in [Threads -> Control] /\ CallsAreTyped'
    BY <1>5, <1>t, SignalKeepsTypes DEF GetTakes
  <2>3. QueTypeOK'
    BY <1>5, <1>t, <2>2, GetTakesKeepsRing, RingTypes, LenIsPositive
       DEF QueTypeOK, Control, PutterStates, GetterStates, GetTakes
  <2>4. \A k \in 0..(count' - 1) : queue'[(curRd' + k) % len] \in Values
    BY <1>5, GetTakesKeepsRing, RingTypes, LenIsPositive
  <2> QED BY <1>5, <2>1, <2>2, <2>3, <2>4, GetTakesKeepsRing DEF QueIInv, RingIsConsistent
<1>6. ASSUME NEW t \in Getters, GetEmpty(t) PROVE QueIInv'
  <2>1. count = 0 /\ count # len /\ st[t] \in {"get", "wokenGet"}
    BY <1>6, RingTypes, LenIsPositive DEF GetEmpty
  <2>2. PICK l \in {"waitRd", "idle"} : st' = [st EXCEPT ![t] = l]
    BY <1>6 DEF GetEmpty
  <2>3. NobodyForgotten'
    BY <1>6, <1>t, <2>1, <2>2, OneThreadMoves DEF GetEmpty, ring
  <2>4. QueTypeOK' /\ RingIsConsistent' /\ CallsAreTyped'
    BY <1>6, <1>t, <2>1, <2>2, MoveKeepsTypes DEF GetEmpty, GetterStates
  <2> QED BY <2>3, <2>4 DEF QueIInv
<1>7. ASSUME NEW t \in Threads, SpuriousWakeup(t) PROVE QueIInv'
  <2>1. PICK l \in {"wokenGet", "wokenPut"} :
           /\ st' = [st EXCEPT ![t] = l] /\ st[t] \in {"waitRd", "waitWr"}
           /\ st[t] = "waitRd" <=> l = "wokenGet"
    BY <1>7 DEF SpuriousWakeup
  <2>2. NobodyForgotten'
    BY <1>7, <1>t, <2>1, OneThreadMoves DEF SpuriousWakeup, ring
  <2>3. QueTypeOK' /\ RingIsConsistent' /\ CallsAreTyped'
    BY <1>7, <1>t, <2>1, MoveKeepsTypes DEF SpuriousWakeup, PutterStates, GetterStates, Threads
  <2> QED BY <2>2, <2>3 DEF QueIInv
<1>8. CASE UNCHANGED <<ring, st, arg>>
  BY <1>8 DEF QueIInv, QueTypeOK, RingIsConsistent, CallsAreTyped, NobodyForgotten, NoGetterForgotten,
              NoPutterForgotten, Waiting, ring
<1> QED BY <1>1, <1>2, <1>3, <1>4, <1>5, <1>6, <1>7, <1>8
        DEF QueNext, PutStep, GetStep, Peek, GetQueuedCount, queVars

LEMMA QueIInvInit == QueInit => QueIInv
<1> SUFFICES ASSUME QueInit PROVE QueIInv
  OBVIOUS
<1>1. 0 \in Slots /\ 0 \in 0..len /\ (0 + 0) % len = 0
  BY LenIsPositive, Wrap DEF Slots
<1>2. QueTypeOK /\ CallsAreTyped
  BY <1>1, ConstantsAssumption DEF QueInit, QueTypeOK, CallsAreTyped, Threads, PutterStates, GetterStates
<1>3. NobodyForgotten
  BY DEF QueInit, NobodyForgotten, NoGetterForgotten, NoPutterForgotten, Waiting
<1> QED BY <1>1, <1>2, <1>3 DEF QueInit, QueIInv, RingIsConsistent

LEMMA QueIInvHolds == QueSpec => []QueIInv
BY QueIInvInit, QueIInvStep, PTL DEF QueSpec

(* The indices stay count slots apart and every counted slot holds a value *)
(* that was put, whoever takes the lock in between (queue.c:60-62, 90-94). *)
THEOREM RingStaysConsistent == QueSpec => []RingIsConsistent
<1>1. QueIInv => RingIsConsistent
  BY DEF QueIInv
<1> QED BY <1>1, QueIInvHolds, PTL

(* One signal per put and per get is enough: no getter sleeps while a      *)
(* value is there that nobody is on the way to, and no putter while there  *)
(* is room, for any number of threads (queue.c:64, 96).                    *)
THEOREM NobodyIsForgotten == QueSpec => []NobodyForgotten
<1>1. QueIInv => NobodyForgotten
  BY DEF QueIInv
<1> QED BY <1>1, QueIInvHolds, PTL

-----------------------------------------------------------------------------
(* The ring as the abstract queue.                                         *)

Queued == [i \in 1..count |-> queue[(curRd + i - 1) % len]]

QueuedShowsRing ==
    /\ Queued \in Seq(Values) /\ Len(Queued) = count
    /\ \A k \in 0..(count - 1) : Queued[k + 1] = queue[(curRd + k) % len]
    /\ count \in 0..len /\ (Queued = << >> <=> count = 0)
    /\ count > 0 => Head(Queued) = queue[curRd]

LEMMA QueuedIsSeq == QueIInv => QueuedShowsRing
<1> SUFFICES ASSUME QueIInv PROVE QueuedShowsRing
  OBVIOUS
<1>1. count \in 0..len /\ count \in Nat
  BY RingTypes, LenIsPositive
<1>2. ASSUME NEW i \in 1..count PROVE queue[(curRd + i - 1) % len] \in Values
  <2>1. i - 1 \in 0..(count - 1) /\ curRd + i - 1 = curRd + (i - 1)
    BY <1>1, RingTypes DEF Slots
  <2> QED BY <2>1, RingTypes
<1>3. Queued \in Seq(Values) /\ Len(Queued) = count
  BY <1>1, <1>2, IsASeq DEF Queued
<1>4. ASSUME NEW k \in 0..(count - 1) PROVE Queued[k + 1] = queue[(curRd + k) % len]
  <2>1. k + 1 \in 1..count /\ curRd + (k + 1) - 1 = curRd + k
    BY <1>1, RingTypes DEF Slots
  <2> QED BY <2>1 DEF Queued
<1>5. Queued = << >> <=> count = 0
  BY <1>3, EmptySeq
<1>6. count > 0 => Head(Queued) = queue[curRd]
  <2>0. curRd \in 0..(len - 1) /\ curRd + 0 = curRd
    BY RingTypes, LenIsPositive DEF Slots
  <2>1. (curRd + 0) % len = curRd
    BY <2>0, LenIsPositive
  <2>2. count > 0 => Head(Queued) = Queued[0 + 1]
    BY <1>3, <1>5, HeadTailProperties
  <2> QED BY <1>1, <1>4, <2>1, <2>2
<1> QED BY <1>1, <1>3, <1>4, <1>5, <1>6 DEF QueuedShowsRing

LEMMA PutAppends ==
  ASSUME QueIInv, QueIInv', NEW t \in Putters, PutStores(t)
  PROVE  arg[t].val \in Values /\ Queued' = Append(Queued, arg[t].val)
<1> DEFINE v == arg[t].val
           longer == Append(Queued, v)
<1>1. /\ v \in Values /\ curRd' = curRd /\ count' = count + 1
      /\ queue'[(curRd + count) % len] = v
      /\ \A k \in 0..(count - 1) : queue'[(curRd + k) % len] = queue[(curRd + k) % len]
  BY PutStoresKeepsRing
<1>2. /\ Queued \in Seq(Values) /\ Len(Queued) = count /\ count \in Nat
      /\ \A k \in 0..(count - 1) : Queued[k + 1] = queue[(curRd + k) % len]
  BY QueuedIsSeq, LenIsPositive DEF QueuedShowsRing
<1>3. /\ Queued' \in Seq(Values) /\ Len(Queued') = count + 1
      /\ \A k \in 0..count : Queued'[k + 1] = queue'[(curRd + k) % len]
  <2>1. QueuedShowsRing'
    BY QueuedIsSeq, PTL
  <2> QED BY <1>1, <1>2, <2>1 DEF QueuedShowsRing
<1>4. /\ longer \in Seq(Values) /\ Len(longer) = count + 1 /\ longer[count + 1] = v
      /\ \A i \in 1..count : longer[i] = Queued[i]
  BY <1>1, <1>2, AppendProperties
<1>5. ASSUME NEW k \in 0..count PROVE Queued'[k + 1] = longer[k + 1]
  <2>1. CASE k = count
    BY <1>1, <1>2, <1>3, <1>4, <2>1
  <2>2. CASE k # count
    <3>1. k \in 0..(count - 1) /\ k + 1 \in 1..count
      BY <1>2, <2>2
    <3> QED BY <1>1, <1>2, <1>3, <1>4, <3>1
  <2> QED BY <2>1, <2>2
<1>6. \A i \in 1..(count + 1) : Queued'[i] = longer[i]
  <2>1. \A i \in 1..(count + 1) : i - 1 \in 0..count /\ (i - 1) + 1 = i
    BY <1>2
  <2> QED BY <1>5, <2>1
<1>7. Queued' = longer
  BY <1>3, <1>4, <1>6, SeqEqual
<1> QED BY <1>1, <1>7

LEMMA GetTakesHead ==
  ASSUME QueIInv, QueIInv', NEW t \in Getters, GetTakes(t)
  PROVE  Queued # << >> /\ Queued' = Tail(Queued)
<1> DEFINE shorter == Tail(Queued)
<1>1. /\ queue' = queue /\ count' = count - 1 /\ count > 0
      /\ \A k \in 0..(count - 2) : (curRd' + k) % len = (curRd + (k + 1)) % len
  BY GetTakesKeepsRing DEF GetTakes
<1>2. /\ Queued \in Seq(Values) /\ Len(Queued) = count /\ count \in Nat /\ Queued # << >>
      /\ \A k \in 0..(count - 1) : Queued[k + 1] = queue[(curRd + k) % len]
  BY <1>1, QueuedIsSeq, LenIsPositive DEF QueuedShowsRing
<1>3. /\ Queued' \in Seq(Values) /\ Len(Queued') = count - 1
      /\ \A k \in 0..(count - 2) : Queued'[k + 1] = queue[(curRd' + k) % len]
  <2>1. QueuedShowsRing'
    BY QueuedIsSeq, PTL
  <2>2. count - 1 - 1 = count - 2
    BY <1>2
  <2> QED BY <1>1, <2>1, <2>2 DEF QueuedShowsRing
<1>4. /\ shorter \in Seq(Values) /\ Len(shorter) = count - 1
      /\ \A i \in 1..(count - 1) : shorter[i] = Queued[i + 1]
  BY <1>2, HeadTailProperties
<1>5. ASSUME NEW k \in 0..(count - 2) PROVE Queued'[k + 1] = shorter[k + 1]
  <2>1. k + 1 \in 1..(count - 1) /\ k + 1 \in 0..(count - 1)
    BY <1>2
  <2>2. Queued[(k + 1) + 1] = queue[(curRd + (k + 1)) % len]
    BY <1>2, <2>1
  <2> QED BY <1>1, <1>3, <1>4, <2>1, <2>2
<1>6. \A i \in 1..(count - 1) : Queued'[i] = shorter[i]
  <2>1. \A i \in 1..(count - 1) : i - 1 \in 0..(count - 2) /\ (i - 1) + 1 = i
    BY <1>2
  <2> QED BY <1>5, <2>1
<1>7. Queued' = shorter
  BY <1>3, <1>4, <1>6, SeqEqual
<1> QED BY <1>2, <1>7

LEMMA InitMapsToInit == QueInit => Fifo!Init
<1> SUFFICES ASSUME QueInit PROVE Fifo!Init
  OBVIOUS
<1>1. Queued = << >>
  BY QueIInvInit, QueuedIsSeq DEF QueuedShowsRing, QueInit
<1> QED BY <1>1 DEF QueInit, Fifo!Init, Queued

(* Every step is one of the abstract queue, or stutters there.             *)
LEMMA StepMapsToStep ==
  ASSUME QueIInv, QueIInv', [QueNext]_queVars
  PROVE  [Fifo!Next]_<<Queued, last>>
<1>a. QueuedShowsRing
  BY QueuedIsSeq
<1>u. ASSUME UNCHANGED ring PROVE Queued' = Queued
  BY <1>u DEF ring, Queued
<1>1. ASSUME NEW t \in Putters, PutStores(t) PROVE Fifo!Next
  <2>1. PICK v \in Values : v = arg[t].val
    BY <1>1, PutAppends
  <2>2. Fifo!Put(t, v)
    <3>1. Len(Queued) < len /\ Queued' = Append(Queued, v)
      BY <1>1, <1>a, <2>1, PutAppends DEF PutStores, HasRoom, QueuedShowsRing
    <3> QED BY <1>1, <3>1 DEF PutStores, Return, Fifo!Put, Fifo!Return, Queued
  <2> QED BY <2>2 DEF Fifo!Next, Threads
<1>2. ASSUME NEW t \in Getters, GetTakes(t) PROVE Fifo!Next
  <2>1. Fifo!Get(t)
    <3>1. Queued # << >> /\ Queued' = Tail(Queued) /\ Head(Queued) = queue[curRd]
      BY <1>2, <1>a, GetTakesHead DEF GetTakes, QueuedShowsRing
    <3> QED BY <1>2, <3>1 DEF GetTakes, Return, Fifo!Get, Fifo!Return, Queued
  <2> QED BY <1>2, <2>1 DEF Fifo!Next, Threads
<1>3. ASSUME NEW t \in Putters, PutFull(t) PROVE Fifo!Next \/ UNCHANGED <<Queued, last>>
  <2>1. Len(Queued) = len /\ Queued' = Queued
    BY <1>3, <1>a, <1>u, LenIsPositive DEF PutFull, HasRoom, QueuedShowsRing
  <2>2. Fifo!PutFull(t) \/ UNCHANGED <<Queued, last>>
    BY <1>3, <2>1 DEF PutFull, Return, Fifo!PutFull, Fifo!Return, Queued
  <2> QED BY <2>2 DEF Fifo!Next, Threads
<1>4. ASSUME NEW t \in Getters, GetEmpty(t) PROVE Fifo!Next \/ UNCHANGED <<Queued, last>>
  <2>1. Queued = << >> /\ Queued' = Queued
    BY <1>4, <1>a, <1>u, LenIsPositive DEF GetEmpty, QueuedShowsRing
  <2>2. Fifo!ReadEmpty(t) \/ UNCHANGED <<Queued, last>>
    BY <1>4, <2>1 DEF GetEmpty, Return, Fifo!ReadEmpty, Fifo!Return, Queued
  <2> QED BY <2>2 DEF Fifo!Next, Threads
<1>5. ASSUME NEW t \in Getters, Peek(t) PROVE Fifo!Next
  <2>1. Queued' = Queued /\ IF count > 0 THEN Queued # << >> /\ Head(Queued) = queue[curRd]
                                        ELSE Queued = << >>
    BY <1>5, <1>a, <1>u, LenIsPositive DEF Peek, QueuedShowsRing
  <2>2. Fifo!Peek(t) \/ Fifo!ReadEmpty(t)
    BY <1>5, <2>1 DEF Peek, Return, Fifo!Peek, Fifo!ReadEmpty, Fifo!Return, Queued
  <2> QED BY <2>2 DEF Fifo!Next, Threads
<1>6. ASSUME NEW t \in Getters, GetQueuedCount(t) PROVE Fifo!Next
  <2>1. Queued' = Queued /\ Len(Queued) = count
    BY <1>6, <1>a, <1>u DEF GetQueuedCount, QueuedShowsRing
  <2>2. Fifo!Count(t)
    BY <1>6, <2>1 DEF GetQueuedCount, Return, Fifo!Count, Fifo!Return, Queued
  <2> QED BY <2>2 DEF Fifo!Next, Threads
<1>7. ASSUME UNCHANGED <<ring, last>> PROVE UNCHANGED <<Queued, last>>
  BY <1>7, <1>u
<1> QED BY <1>1, <1>2, <1>3, <1>4, <1>5, <1>6, <1>7
        DEF QueNext, PutStep, GetStep, CallPut, CallGet, SpuriousWakeup, queVars

(* Whatever the threads' interleaving, every call takes effect and answers *)
(* as one on a bounded first-in first-out queue (queue.h; queue.c:45-130). *)
THEOREM QueImplementsFifo == QueSpec => ImplementsFifo
<1>1. QueInit => Fifo!Init
  BY InitMapsToInit
<1>2. QueIInv /\ QueIInv' /\ [QueNext]_queVars => [Fifo!Next]_<<Queued, last>>
  BY StepMapsToStep
<1> QED BY <1>1, <1>2, QueIInvHolds, PTL DEF QueSpec, ImplementsFifo, Fifo!Spec, Queued

-----------------------------------------------------------------------------
(* The sessions.                                                           *)

Phases == {"unopened", "DESCRIBE", "SETUP", "PLAY", "playing", "closed"}
State == [phase : Phases, numSubs : 0..MaxSubs, subsession : 0..(MaxSubs + 1),
          sinks : SUBSET Subs, bye : SUBSET Subs, timed : BOOLEAN, timer : BOOLEAN,
          setUp : SUBSET Subs, ended : SUBSET Subs]

LivePhases == {"DESCRIBE", "SETUP", "PLAY", "playing"}

(* What holds of a client's state between two handlers.  The subsessions   *)
(* are set up in order, so the one whose SETUP is pending was not set up,  *)
(* and did not end, before: this is what keeps "has a sink" and "set up    *)
(* and not ended" the same.                                                *)
Good(s) ==
    /\ s \in State
    /\ s.phase \in {"unopened", "DESCRIBE"} => s.setUp = {} /\ s.ended = {} /\ s.subsession = 0
    /\ s.phase \notin LivePhases => s.sinks = {} /\ s.bye = {} /\ ~s.timer
    /\ s.phase \in LivePhases => /\ s.sinks = s.setUp \ s.ended
                                 /\ s.bye \subseteq s.setUp /\ s.ended \subseteq s.setUp
                                 /\ s.setUp # {} => s.sinks # {}
    /\ s.phase = "SETUP" => /\ s.subsession \in 1..s.numSubs
                            /\ \A k \in s.setUp : k < s.subsession
    /\ s.phase = "playing" => s.setUp # {}

LiveClients == {c \in Clients : Live(c)}

(* The inductive invariant: the clients' states, the server's view of      *)
(* those that are closed, and the count the program exits by.              *)
StatesAreGood == scs \in [Clients -> State] /\ \A c \in Clients : Good(scs[c])
IInv == /\ StatesAreGood
        /\ torn \subseteq Clients /\ exited \in BOOLEAN
        /\ NoAbandonedSession
        /\ rtspClientCount = Cardinality(LiveClients)
        /\ exited <=> rtspClientCount = 0 /\ \E c \in Clients : Phase(c) = "closed"

(* The invariant says all that the runs check.                             *)
LEMMA InvImpliesProperties ==
  IInv => CountIsLiveStreams /\ NoHandlerForFreedClient /\ NoAbandonedSession /\ PlayingReceives
<1> SUFFICES ASSUME IInv
             PROVE  CountIsLiveStreams /\ NoHandlerForFreedClient /\ NoAbandonedSession /\ PlayingReceives
  OBVIOUS
<1>1. \A c \in Clients : Good(scs[c]) /\ Phase(c) \in Phases
  BY DEF IInv, StatesAreGood, Good, State, Phase
<1>2. \A c \in Clients : Live(c) <=> Phase(c) \in LivePhases
  BY <1>1 DEF Live, LivePhases, Phases
<1>3. rtspClientCount \in 0..Cardinality(Clients)
  <2>1. LiveClients \in SUBSET Clients
    BY DEF LiveClients
  <2>2. IsFiniteSet(LiveClients) /\ Cardinality(LiveClients) <= Cardinality(Clients)
    BY <2>1, ClientsAssumption, FS_Subset
  <2>3. Cardinality(LiveClients) \in Nat /\ Cardinality(Clients) \in Nat
    BY <2>2, ClientsAssumption, FS_CardinalityType
  <2> QED BY <2>2, <2>3 DEF IInv
<1>4. TypeOK
  BY <1>3 DEF IInv, StatesAreGood, State, Phases, TypeOK
<1>5. CountIsLiveStreams
  BY <1>4 DEF IInv, LiveClients, CountIsLiveStreams
<1>6. NoHandlerForFreedClient
  BY <1>1, <1>2 DEF NoHandlerForFreedClient, Good, Phase
<1>7. PlayingReceives
  BY <1>1, <1>2 DEF PlayingReceives, Good, Phase, LivePhases
<1> QED BY <1>5, <1>6, <1>7 DEF IInv

LEMMA InitEstablishes == Init => IInv
<1> SUFFICES ASSUME Init PROVE IInv
  OBVIOUS
<1>1. NewState \in State
  BY MaxSubsAssumption DEF NewState, State, Phases, Subs
<1>2. Good(NewState)
  BY <1>1 DEF Good, NewState, LivePhases
<1>3. StatesAreGood
  BY <1>1, <1>2 DEF Init, StatesAreGood
<1>4. \A c \in Clients : Phase(c) = "unopened"
  BY DEF Init, Phase, NewState
<1>5. LiveClients = {}
  BY <1>4 DEF LiveClients, Live
<1>6. Cardinality(LiveClients) = 0
  BY <1>5, FS_EmptySet
<1> QED BY <1>3, <1>4, <1>6 DEF Init, IInv, NoAbandonedSession

-----------------------------------------------------------------------------
(* A handler that leaves its client live.                                  *)
LEMMA UpdatePreserves ==
  ASSUME IInv, ~exited, NEW c \in Clients, Phase(c) \in LivePhases,
         NEW s, Good(s), s.phase \in LivePhases, Update(c, s)
  PROVE  IInv'
<1>1. s \in State
  BY DEF Good
<1>2. /\ scs' \in [Clients -> State]
      /\ scs'[c] = s
      /\ \A d \in Clients : d # c => scs'[d] = scs[d]
  BY <1>1 DEF Update, IInv, StatesAreGood
<1>3. StatesAreGood'
  BY <1>2 DEF IInv, StatesAreGood
<1>4. \A d \in Clients : Live(d)' <=> Live(d)
  BY <1>2 DEF Live, Phase, LivePhases
<1>5. LiveClients' = LiveClients
  BY <1>4 DEF LiveClients
<1>6. \A d \in Clients : Phase(d)' = "closed" <=> Phase(d) = "closed"
  BY <1>2 DEF Phase, LivePhases
<1>7. NoAbandonedSession'
  BY <1>2, <1>6 DEF IInv, NoAbandonedSession, Update, Phase, LivePhases
<1> QED BY <1>3, <1>5, <1>6, <1>7 DEF IInv, Update

(* A handler that shuts its client down: s is the client's state when it   *)
(* calls shutdownStream.                                                   *)
LEMMA ShutdownPreserves ==
  ASSUME IInv, ~exited, NEW c \in Clients, Phase(c) \in LivePhases,
         NEW s \in State, s.sinks = s.setUp \ s.ended, ShutdownStream(c, s)
  PROVE  IInv'
<1>1. Destroyed(s) \in State /\ Good(Destroyed(s)) /\ Destroyed(s).phase = "closed"
      /\ Destroyed(s).setUp = s.setUp /\ Destroyed(s).ended = s.ended
  BY DEF Destroyed, State, Phases, Good, LivePhases
<1>2. /\ scs' \in [Clients -> State]
      /\ scs'[c] = Destroyed(s)
      /\ \A d \in Clients : d # c => scs'[d] = scs[d]
  BY <1>1 DEF ShutdownStream, IInv, StatesAreGood
<1>3. StatesAreGood'
  BY <1>1, <1>2 DEF IInv, StatesAreGood
<1>4. LiveClients' = LiveClients \ {c}
  BY <1>1, <1>2 DEF LiveClients, Live, Phase
<1>5. c \in LiveClients
  BY DEF LiveClients, Live, LivePhases
<1>6. IsFiniteSet(LiveClients)
  BY ClientsAssumption, FS_Subset DEF LiveClients
<1>7. Cardinality(LiveClients') = Cardinality(LiveClients) - 1 /\ Cardinality(LiveClients) \in Nat
  BY <1>4, <1>5, <1>6, FS_RemoveElement, FS_CardinalityType
<1>8. rtspClientCount' = Cardinality(LiveClients')
  BY <1>7 DEF IInv, ShutdownStream
<1>9. Phase(c)' = "closed"
  BY <1>1, <1>2 DEF Phase
<1>10. exited' <=> rtspClientCount' = 0 /\ \E d \in Clients : Phase(d)' = "closed"
  <2>1. exited' <=> rtspClientCount = 1
    BY DEF ShutdownStream
  <2>2. rtspClientCount = 1 <=> rtspClientCount' = 0
    BY <1>7 DEF IInv, ShutdownStream
  <2> QED BY <2>1, <2>2, <1>9, Zenon
<1>11. torn' \subseteq Clients /\ torn \subseteq torn' /\ exited' \in BOOLEAN
  BY DEF IInv, ShutdownStream
<1>12. NoAbandonedSession'
  <2> SUFFICES ASSUME NEW d \in Clients, Phase(d)' = "closed", scs'[d].setUp \ scs'[d].ended # {}
               PROVE  d \in torn'
    BY DEF NoAbandonedSession
  <2>1. CASE d = c
    BY <2>1, <1>1, <1>2 DEF ShutdownStream
  <2>2. CASE d # c
    BY <2>2, <1>2, <1>11 DEF IInv, NoAbandonedSession, Phase
  <2> QED BY <2>1, <2>2
<1> QED BY <1>3, <1>8, <1>10, <1>11, <1>12 DEF IInv

LEMMA OpenPreserves ==
  ASSUME IInv, NEW c \in Clients, OpenURL(c)
  PROVE  IInv'
<1>0. Good(scs[c]) /\ scs[c] \in State /\ Phase(c) = "unopened" /\ ~exited
  BY DEF IInv, StatesAreGood, OpenURL
<1>1. IsFiniteSet(LiveClients)
  BY ClientsAssumption, FS_Subset DEF LiveClients
<1>2. c \notin LiveClients
  BY <1>0 DEF LiveClients, Live
<1>3. Cardinality(LiveClients \cup {c}) = Cardinality(LiveClients) + 1 /\ Cardinality(LiveClients) \in Nat
  BY <1>1, <1>2, FS_AddElement, FS_CardinalityType
<1>4. CASE scs' = [scs EXCEPT ![c].phase = "DESCRIBE"] /\ rtspClientCount' = rtspClientCount + 1
           /\ UNCHANGED <<exited, torn>>
  <2>1. /\ scs' \in [Clients -> State] /\ Good(scs'[c]) /\ Phase(c)' = "DESCRIBE"
        /\ \A d \in Clients : d # c => scs'[d] = scs[d]
    BY <1>0, <1>4 DEF IInv, StatesAreGood, State, Phases, Good, LivePhases, Phase
  <2>2. StatesAreGood'
    BY <2>1 DEF IInv, StatesAreGood
  <2>3. LiveClients' = LiveClients \cup {c}
    BY <2>1 DEF LiveClients, Live, Phase
  <2>4. rtspClientCount' = Cardinality(LiveClients') /\ rtspClientCount' # 0
    BY <1>3, <1>4, <2>3 DEF IInv
  <2>5. NoAbandonedSession'
    BY <1>4, <2>1 DEF IInv, NoAbandonedSession, Phase
  <2> QED BY <1>0, <1>4, <2>2, <2>4, <2>5 DEF IInv
<1>5. CASE scs' = [scs EXCEPT ![c].phase = "closed"] /\ exited' = (rtspClientCount = 0)
           /\ UNCHANGED <<rtspClientCount, torn>>
  <2>1. /\ scs' \in [Clients -> State] /\ Good(scs'[c]) /\ Phase(c)' = "closed"
        /\ scs'[c].setUp = {}
        /\ \A d \in Clients : d # c => scs'[d] = scs[d]
    BY <1>0, <1>5 DEF IInv, StatesAreGood, State, Phases, Good, LivePhases, Phase
  <2>2. StatesAreGood'
    BY <2>1 DEF IInv, StatesAreGood
  <2>3. LiveClients' = LiveClients
    BY <1>2, <2>1 DEF LiveClients, Live, Phase
  <2>5. NoAbandonedSession'
    BY <1>5, <2>1 DEF IInv, NoAbandonedSession, Phase
  <2> QED BY <1>5, <2>1, <2>2, <2>3, <2>5 DEF IInv
<1> QED BY <1>4, <1>5 DEF OpenURL

-----------------------------------------------------------------------------
(* The states setupNextSubsession goes to are states of a client.          *)
LEMMA NextStateIsState ==
  ASSUME NEW s \in State, NEW k \in 0..(MaxSubs + 1)
  PROVE  /\ [s EXCEPT !.phase = "SETUP", !.subsession = k] \in State
         /\ \A timed \in BOOLEAN :
               [s EXCEPT !.phase = "PLAY", !.subsession = k, !.timed = timed] \in State
<1>1. "SETUP" \in Phases /\ "PLAY" \in Phases
  BY DEF Phases
<1>2. [s EXCEPT !.phase = "SETUP", !.subsession = k] \in State
  BY <1>1 DEF State
<1>3. ASSUME NEW timed \in BOOLEAN
      PROVE  [s EXCEPT !.phase = "PLAY", !.subsession = k, !.timed = timed] \in State
  BY <1>1 DEF State
<1> QED BY <1>2, <1>3

(* SETUP of a later subsession, or PLAY after the last, from a state that  *)
(* is good but for its phase.                                              *)
LEMMA SetupNextPreserves ==
  ASSUME IInv, ~exited, NEW c \in Clients, Phase(c) \in LivePhases,
         NEW s \in State, s.sinks = s.setUp \ s.ended, s.bye \subseteq s.setUp,
         s.ended \subseteq s.setUp, s.setUp # {} => s.sinks # {},
         \A k \in s.setUp : k <= s.subsession,
         SetupNextSubsession(c, s)
  PROVE  IInv'
<1>1. PICK k \in (s.subsession + 1)..(s.numSubs + 1) :
         IF k <= s.numSubs
           THEN Update(c, [s EXCEPT !.phase = "SETUP", !.subsession = k])
           ELSE \E timed \in BOOLEAN :
                   Update(c, [s EXCEPT !.phase = "PLAY", !.subsession = k, !.timed = timed])
  BY DEF SetupNextSubsession
<1>2. /\ MaxSubs \in Nat /\ s.numSubs \in 0..MaxSubs /\ s.subsession \in 0..(MaxSubs + 1)
      /\ s.setUp \subseteq 1..MaxSubs
  BY MaxSubsAssumption DEF State, Subs
<1>3. k \in 0..(MaxSubs + 1) /\ k > s.subsession
  BY <1>2
<1>4. CASE k <= s.numSubs
  <2> DEFINE t == [s EXCEPT !.phase = "SETUP", !.subsession = k]
  <2>1. t \in State
    BY <1>3, NextStateIsState
  <2>2. t.phase = "SETUP" /\ t.subsession = k /\ t.numSubs = s.numSubs /\ t.setUp = s.setUp
        /\ t.sinks = s.sinks /\ t.bye = s.bye /\ t.ended = s.ended
    BY DEF State
  <2>3. \A i \in t.setUp : i < k
    BY <1>2, <1>3, <2>2
  <2>4. t.subsession \in 1..t.numSubs
    BY <1>2, <1>3, <1>4, <2>2
  <2> HIDE DEF t
  <2>5. Good(t) /\ t.phase \in LivePhases
    BY <2>1, <2>2, <2>3, <2>4 DEF Good, LivePhases
  <2>6. Update(c, t)
    BY <1>1, <1>4 DEF t
  <2> QED BY <2>5, <2>6, UpdatePreserves
<1>5. CASE ~(k <= s.numSubs)
  <2>1. PICK timed \in BOOLEAN :
           Update(c, [s EXCEPT !.phase = "PLAY", !.subsession = k, !.timed = timed])
    BY <1>1, <1>5
  <2> DEFINE t == [s EXCEPT !.phase = "PLAY", !.subsession = k, !.timed = timed]
  <2>2. t \in State
    BY <1>3, NextStateIsState
  <2>3. t.phase = "PLAY" /\ t.setUp = s.setUp
        /\ t.sinks = s.sinks /\ t.bye = s.bye /\ t.ended = s.ended
    BY DEF State
  <2>4. Update(c, t)
    BY <2>1
  <2> HIDE DEF t
  <2>5. Good(t) /\ t.phase \in LivePhases
    BY <2>2, <2>3 DEF Good, LivePhases
  <2> QED BY <2>4, <2>5, UpdatePreserves
<1> QED BY <1>4, <1>5

LEMMA DescribePreserves ==
  ASSUME IInv, NEW c \in Clients, ContinueAfterDESCRIBE(c)
  PROVE  IInv'
<1>1. /\ ~exited /\ Phase(c) \in LivePhases /\ Good(scs[c]) /\ scs[c] \in State
      /\ scs[c].sinks = scs[c].setUp \ scs[c].ended
      /\ scs[c].setUp = {} /\ scs[c].ended = {} /\ scs[c].bye = {}
  BY DEF IInv, StatesAreGood, ContinueAfterDESCRIBE, InEventLoop, LivePhases, Good, Phase
<1>2. CASE ShutdownStream(c, scs[c])
  BY <1>1, <1>2, ShutdownPreserves
<1>3. ASSUME NEW n \in Subs, SetupNextSubsession(c, [scs[c] EXCEPT !.numSubs = n])
      PROVE  IInv'
  <2> DEFINE t == [scs[c] EXCEPT !.numSubs = n]
  <2>1. t \in State
    BY <1>1, MaxSubsAssumption DEF State, Subs
  <2>2. t.setUp = {} /\ t.ended = {} /\ t.sinks = {} /\ t.bye = {}
    BY <1>1 DEF State
  <2>3. SetupNextSubsession(c, t)
    BY <1>3
  <2> HIDE DEF t
  <2> QED BY <1>1, <2>1, <2>2, <2>3, SetupNextPreserves
<1> QED BY <1>2, <1>3 DEF ContinueAfterDESCRIBE

LEMMA SetupPreserves ==
  ASSUME IInv, NEW c \in Clients, ContinueAfterSETUP(c)
  PROVE  IInv'
<1> DEFINE s == scs[c]
           k == s.subsession
<1>1. /\ ~exited /\ Phase(c) \in LivePhases /\ Good(s) /\ s \in State
      /\ s.sinks = s.setUp \ s.ended /\ s.bye \subseteq s.setUp /\ s.ended \subseteq s.setUp
      /\ s.setUp # {} => s.sinks # {}
      /\ k \in 1..s.numSubs /\ s.numSubs \in 0..MaxSubs /\ \A i \in s.setUp : i < k
      /\ s.setUp \subseteq Subs
  BY DEF IInv, StatesAreGood, ContinueAfterSETUP, InEventLoop, LivePhases, Good, Phase, State
<1>2. k \in Subs /\ k \notin s.setUp /\ \A i \in s.setUp : i <= k
  BY <1>1, MaxSubsAssumption DEF Subs
<1>3. CASE SetupNextSubsession(c, s)
  <2> HIDE DEF s
  <2> QED BY <1>1, <1>2, <1>3, SetupNextPreserves
<1>4. ASSUME NEW handlers \in {{}, {k}},
             SetupNextSubsession(c, [s EXCEPT !.setUp = @ \cup {k}, !.sinks = @ \cup {k},
                                              !.bye = @ \cup handlers])
      PROVE  IInv'
  <2> DEFINE t == [s EXCEPT !.setUp = @ \cup {k}, !.sinks = @ \cup {k}, !.bye = @ \cup handlers]
  <2>1. t \in State
    BY <1>1, <1>2 DEF State
  <2>2. t.setUp = s.setUp \cup {k} /\ t.ended = s.ended /\ t.sinks = s.sinks \cup {k}
        /\ t.bye = s.bye \cup handlers /\ t.subsession = k
    BY <1>1 DEF State
  <2>3. SetupNextSubsession(c, t)
    BY <1>4
  <2>4. /\ t.sinks = t.setUp \ t.ended /\ t.bye \subseteq t.setUp /\ t.ended \subseteq t.setUp
        /\ t.sinks # {}
    BY <1>1, <1>2, <2>2
  <2>5. \A i \in t.setUp : i <= t.subsession
    BY <1>1, <1>2, <2>2
  <2> HIDE DEF t
  <2> QED BY <1>1, <2>1, <2>3, <2>4, <2>5, SetupNextPreserves
<1> QED BY <1>3, <1>4 DEF ContinueAfterSETUP

LEMMA PlayPreserves ==
  ASSUME IInv, NEW c \in Clients, ContinueAfterPLAY(c)
  PROVE  IInv'
<1> DEFINE s == scs[c]
<1>1. /\ ~exited /\ Phase(c) \in LivePhases /\ Good(s) /\ s \in State
      /\ s.sinks = s.setUp \ s.ended /\ s.phase = "PLAY"
  BY DEF IInv, StatesAreGood, ContinueAfterPLAY, InEventLoop, LivePhases, Good, Phase
<1>2. CASE ShutdownStream(c, s)
  <2> HIDE DEF s
  <2> QED BY <1>1, <1>2, ShutdownPreserves
<1>3. CASE s.setUp # {} /\ Update(c, [s EXCEPT !.phase = "playing", !.timer = s.timed])
  <2> DEFINE t == [s EXCEPT !.phase = "playing", !.timer = s.timed]
  <2>1. t \in State
    BY <1>1 DEF State, Phases
  <2>2. t.phase = "playing" /\ t.setUp = s.setUp /\ t.sinks = s.sinks /\ t.bye = s.bye
        /\ t.ended = s.ended
    BY <1>1 DEF State
  <2>3. Good(t) /\ t.phase \in LivePhases
    <3> HIDE DEF t
    <3> QED BY <1>1, <1>3, <2>1, <2>2 DEF Good, LivePhases
  <2>4. Update(c, t)
    BY <1>3
  <2> HIDE DEF t, s
  <2> QED BY <1>1, <2>3, <2>4, UpdatePreserves
<1> QED BY <1>2, <1>3 DEF ContinueAfterPLAY

(* The end of a subsession that was set up, by its source or by a BYE.     *)
LEMMA AfterPlayingPreserves ==
  ASSUME IInv, ~exited, NEW c \in Clients, NEW k \in scs[c].setUp, Phase(c) \in LivePhases,
         NEW handlers \in SUBSET scs[c].bye,
         SubsessionAfterPlaying(c, [scs[c] EXCEPT !.bye = handlers], k)
  PROVE  IInv'
<1> DEFINE s == scs[c]
           u == [s EXCEPT !.bye = handlers]
           t == [u EXCEPT !.sinks = @ \ {k}, !.ended = @ \cup {k}]
<1>1. /\ Good(s) /\ s \in State
      /\ s.sinks = s.setUp \ s.ended /\ s.bye \subseteq s.setUp /\ s.ended \subseteq s.setUp
      /\ s.phase \in LivePhases
  BY DEF IInv, StatesAreGood, Good, Phase
<1>2. t \in State
  BY <1>1 DEF State
<1>3. /\ t.phase = s.phase /\ t.setUp = s.setUp /\ t.sinks = s.sinks \ {k} /\ t.bye = handlers
      /\ t.ended = s.ended \cup {k} /\ t.subsession = s.subsession /\ t.numSubs = s.numSubs
  BY <1>1 DEF State
<1>4. t.sinks = t.setUp \ t.ended
  BY <1>1, <1>3
<1>5. IF t.sinks # {} THEN Update(c, t) ELSE ShutdownStream(c, t)
  BY DEF SubsessionAfterPlaying
<1>6. CASE t.sinks # {}
  <2>1. Update(c, t)
    BY <1>5, <1>6
  <2>2. t.phase \in LivePhases
    BY <1>1, <1>3
  <2>3. Good(t)
    <3> HIDE DEF t
    <3> QED BY <1>1, <1>2, <1>3, <1>4, <1>6 DEF Good, LivePhases
  <2> HIDE DEF t
  <2> QED BY <2>1, <2>2, <2>3, UpdatePreserves
<1>7. CASE t.sinks = {}
  <2>1. ShutdownStream(c, t)
    BY <1>5, <1>7
  <2> HIDE DEF t
  <2> QED BY <1>2, <1>4, <2>1, ShutdownPreserves
<1> QED BY <1>6, <1>7

LEMMA SourceClosesPreserves ==
  ASSUME IInv, NEW c \in Clients, NEW k \in Subs, SourceCloses(c, k)
  PROVE  IInv'
<1>1. /\ Good(scs[c]) /\ scs[c] \in State /\ ~exited /\ Phase(c) \in LivePhases
      /\ k \in scs[c].setUp
  BY DEF IInv, StatesAreGood, SourceCloses, InEventLoop, Live, Phase, Good, State, Phases, LivePhases
<1>2. scs[c] = [scs[c] EXCEPT !.bye = scs[c].bye]
  BY <1>1 DEF State
<1>3. SubsessionAfterPlaying(c, [scs[c] EXCEPT !.bye = scs[c].bye], k)
  BY <1>2 DEF SourceCloses
<1> QED BY <1>1, <1>3, AfterPlayingPreserves

LEMMA ByePreserves ==
  ASSUME IInv, NEW c \in Clients, NEW k \in Subs, SubsessionByeHandler(c, k)
  PROVE  IInv'
<1>1. /\ Good(scs[c]) /\ scs[c] \in State /\ ~exited /\ Phase(c) \in LivePhases
      /\ k \in scs[c].setUp
  BY DEF IInv, StatesAreGood, SubsessionByeHandler, InEventLoop, Phase, Good, State, Phases, LivePhases
<1>2. SubsessionAfterPlaying(c, [scs[c] EXCEPT !.bye = scs[c].bye \ {k}], k)
  BY DEF SubsessionByeHandler
<1> QED BY <1>1, <1>2, AfterPlayingPreserves

LEMMA TimerPreserves ==
  ASSUME IInv, NEW c \in Clients, StreamTimerHandler(c)
  PROVE  IInv'
<1> DEFINE t == [scs[c] EXCEPT !.timer = FALSE]
<1>1. /\ Good(scs[c]) /\ scs[c] \in State /\ ~exited /\ Phase(c) \in LivePhases
      /\ scs[c].sinks = scs[c].setUp \ scs[c].ended
  BY DEF IInv, StatesAreGood, StreamTimerHandler, InEventLoop, Phase, Good, State, Phases, LivePhases
<1>2. t \in State /\ t.sinks = t.setUp \ t.ended
  BY <1>1 DEF State
<1>3. ShutdownStream(c, t)
  BY DEF StreamTimerHandler
<1> HIDE DEF t
<1> QED BY <1>1, <1>2, <1>3, ShutdownPreserves

LEMMA NextPreserves == IInv /\ [Next]_vars => IInv'
<1> SUFFICES ASSUME IInv, [Next]_vars PROVE IInv'
  OBVIOUS
<1>1. CASE UNCHANGED vars
  BY <1>1 DEF vars, IInv, StatesAreGood, NoAbandonedSession, LiveClients, Live, Phase
<1>2. ASSUME NEW c \in Clients, OpenURL(c) PROVE IInv'
  BY <1>2, OpenPreserves
<1>3. ASSUME NEW c \in Clients,
             ContinueAfterDESCRIBE(c) \/ ContinueAfterSETUP(c) \/ ContinueAfterPLAY(c)
      PROVE  IInv'
  BY <1>3, DescribePreserves, SetupPreserves, PlayPreserves
<1>4. ASSUME NEW c \in Clients, NEW k \in Subs, SourceCloses(c, k) \/ SubsessionByeHandler(c, k)
      PROVE  IInv'
  BY <1>4, SourceClosesPreserves, ByePreserves
<1>5. ASSUME NEW c \in Clients, StreamTimerHandler(c) PROVE IInv'
  BY <1>5, TimerPreserves
<1> QED BY <1>1, <1>2, <1>3, <1>4, <1>5 DEF Next

LEMMA Invariant == Spec => []IInv
<1> QED BY InitEstablishes, NextPreserves, PTL DEF Spec

-----------------------------------------------------------------------------
(* The program exits exactly when its last stream is gone, and counts its  *)
(* streams right until then (RtspReceiver.cpp:376-389).                    *)
THEOREM StreamsAreCounted == Spec => []CountIsLiveStreams
<1>1. IInv => CountIsLiveStreams
  BY InvImpliesProperties
<1> QED BY <1>1, Invariant, PTL

(* Whatever order answers, ends of streams, BYEs and timers come in, the   *)
(* event loop holds no handler for a freed client.                         *)
THEOREM FreedClientsAreForgotten == Spec => []NoHandlerForFreedClient
<1>1. IInv => NoHandlerForFreedClient
  BY InvImpliesProperties
<1> QED BY <1>1, Invariant, PTL

(* Every client that goes away while the server still holds a session for  *)
(* it sends TEARDOWN.                                                      *)
THEOREM SessionsAreTornDown == Spec => []NoAbandonedSession
<1>1. IInv => NoAbandonedSession
  BY InvImpliesProperties
<1> QED BY <1>1, Invariant, PTL

(* A playing client has a subsession to receive.                           *)
THEOREM PlayersReceive == Spec => []PlayingReceives
<1>1. IInv => PlayingReceives
  BY InvImpliesProperties
<1> QED BY <1>1, Invariant, PTL
=============================================================================
