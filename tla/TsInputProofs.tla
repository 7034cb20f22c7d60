--------------------------- MODULE TsInputProofs ---------------------------
(***************************************************************************)
(* Proofs about TsInput, for every number of slots, streams, packets and   *)
(* polls.                                                                  *)
(***************************************************************************)
EXTENDS TsInput, SequenceTheorems, TLAPS

(* The read task has a packet of a video or audio stream in hand.          *)
Writing == rpc \in {"write", "full", "drain", "ring", "expired", "store", "post"}

(* TypeOK is not inductive alone: the writer steps index the buffers by    *)
(* the packet in hand, the wait counts down, and the fill, notify and      *)
(* clear indices must be those of a stream.                                *)
ReadInv == /\ ReadTypeOK
           /\ Writing => pkt \in Pkt /\ Kind[pkt[1]] \in {"video", "audio"}
           /\ rpc \in {"drain", "ring"} => tries > 0
           /\ rpc = "notifyRing" => j \in Streams
MainInv == /\ MainTypeOK
           /\ mpc = "clearCount" => ci \in Streams
Filling == rpc \in {"fillAudio", "fillFrames", "fillEvent", "fillCount"}
FillInv == Filling => streamNum < NumStreams
TypeInv == ChanTypeOK /\ BufTypeOK /\ ReadInv /\ RevTypeOK /\ MainInv /\ FillInv

(* The wait budget of a packet is a positive number.                       *)
LEMMA TimeoutPositive == \A p : Timeout(p) \in Nat /\ Timeout(p) > 0
<1>1. MaxFrames \in Nat /\ MaxFrames > 0 /\ AudioFactor \in Nat /\ AudioFactor > 0
  BY ConstantsAssumption
<1>2. MaxFrames * AudioFactor \in Nat /\ MaxFrames * AudioFactor > 0
  BY <1>1
<1> QED BY <1>1, <1>2 DEF Timeout

(* The packet in hand is stored in, and checked against, a real buffer.    *)
LEMMA BuffersAreStreams ==
  ASSUME vbuf \in Streams, abuf \in Streams
  PROVE  /\ 0 \in Streams
         /\ \A p : TargetBuffer(p) \in Streams /\ CheckedBuffer(p) \in Streams
         /\ RoleBuffer \in Streams
BY ConstantsAssumption DEF Streams, AudioStreams, TargetBuffer, CheckedBuffer, RoleBuffer

(* The shift that removes slot 0 keeps a buffer a buffer.                  *)
LEMMA MoveDownType ==
  ASSUME NEW buf \in [0..(MaxFrames - 1) -> Pkt \cup {NoPkt}], NEW n \in Int
  PROVE  MoveDown(buf, n) \in [0..(MaxFrames - 1) -> Pkt \cup {NoPkt}]
<1> DEFINE T == Pkt \cup {NoPkt}
<1>1. MaxFrames \in Nat
  BY ConstantsAssumption
<1>2. \A i \in 0..(MaxFrames - 1) :
         (IF i < n - 1 /\ i < MaxFrames - 1 THEN buf[i + 1] ELSE buf[i]) \in T
  <2> SUFFICES ASSUME NEW i \in 0..(MaxFrames - 1)
               PROVE  (IF i < n - 1 /\ i < MaxFrames - 1 THEN buf[i + 1] ELSE buf[i]) \in T
    OBVIOUS
  <2>1. buf[i] \in T
    OBVIOUS
  <2>2. i < MaxFrames - 1 => i + 1 \in 0..(MaxFrames - 1)
    BY <1>1
  <2>3. i < MaxFrames - 1 => buf[i + 1] \in T
    BY <2>2
  <2> QED BY <2>1, <2>3
<1> HIDE DEF T
<1> QED BY <1>2 DEF MoveDown, T

LEMMA UnchangedType ==
  ASSUME TypeInv
  PROVE  /\ UNCHANGED chanVars => ChanTypeOK'
         /\ UNCHANGED bufVars => BufTypeOK'
         /\ UNCHANGED readVars => ReadInv'
         /\ UNCHANGED revVars => RevTypeOK'
         /\ UNCHANGED mainVars => MainInv'
         /\ UNCHANGED <<chanVars, readVars>> => FillInv'
<1> USE DEF TypeInv
<1>1. UNCHANGED chanVars => ChanTypeOK' BY DEF chanVars, idxVars, ChanTypeOK
<1>2. UNCHANGED bufVars => BufTypeOK' BY DEF bufVars, BufTypeOK
<1>3. UNCHANGED readVars => ReadInv' BY DEF readVars, ReadInv, ReadTypeOK, Writing
<1>4. UNCHANGED revVars => RevTypeOK' BY DEF revVars, RevTypeOK
<1>5. UNCHANGED mainVars => MainInv' BY DEF mainVars, MainInv, MainTypeOK
<1>6. UNCHANGED <<chanVars, readVars>> => FillInv'
  BY DEF chanVars, readVars, FillInv, Filling
<1> QED BY <1>1, <1>2, <1>3, <1>4, <1>5, <1>6

LEMMA InitType == Init => TypeInv
<1> SUFFICES ASSUME Init PROVE TypeInv
  OBVIOUS
<1> USE ConstantsAssumption DEF Init, Streams
<1>1. ChanTypeOK BY DEF ChanTypeOK
<1>2. BufTypeOK BY DEF BufTypeOK
<1>3. ReadInv BY DEF ReadInv, ReadTypeOK, Writing
<1>4. RevTypeOK BY DEF RevTypeOK
<1>5. MainInv BY DEF MainInv, MainTypeOK
<1>6. FillInv BY DEF FillInv, Filling
<1> QED BY <1>1, <1>2, <1>3, <1>4, <1>5, <1>6 DEF TypeInv

(* The read task fills in only streams that exist.                         *)
LEMMA FillStays == TypeInv /\ ReadPktTask => FillInv'
BY DEF TypeInv, FillInv, Filling, ReadPktTask, OpenFails, OpenInput, FillIndex,
       FillAudioNum, FillFrames, FillEvent, FillCount, ClearExit, StartReading, LoopTest,
       ReadFrame, ReadNothing, WriteFlagTest, WriteFullTest, DrainTest, DrainRing,
       DrainExpired, StorePkt, PostEvent, NotifyTest, NotifyRing, ExitReadTask, DropPkt,
       chanVars

LEMMA ReadTaskType == TypeInv /\ ReadPktTask => TypeInv'
<1> SUFFICES ASSUME TypeInv, ReadPktTask PROVE TypeInv'
  OBVIOUS
<1> USE ConstantsAssumption DEF TypeInv, Streams
<1>0. /\ TargetBuffer(pkt) \in Streams
      /\ Timeout(pkt) \in Nat /\ Timeout(pkt) > 0
  BY BuffersAreStreams, TimeoutPositive DEF ChanTypeOK
<1>f. FillInv'
  BY FillStays
<1> USE <1>f
<1>1. CASE OpenFails
  <2>1. ReadInv'
    BY <1>1, <1>0 DEF OpenFails, ReadInv, ReadTypeOK, Writing, ChanTypeOK
  <2> QED BY <1>1, <2>1, UnchangedType DEF OpenFails
<1>2. CASE OpenInput
  <2>1. ChanTypeOK'
    BY <1>2, <1>0 DEF OpenInput, ChanTypeOK, ReadInv, ReadTypeOK, Writing
  <2>2. ReadInv'
    BY <1>2, <1>0 DEF OpenInput, ReadInv, ReadTypeOK, Writing, ChanTypeOK
  <2> QED BY <1>2, <2>1, <2>2, UnchangedType DEF OpenInput
<1>3. CASE FillIndex
  <2>1. ChanTypeOK'
    BY <1>3, <1>0 DEF FillIndex, ChanTypeOK
  <2>2. ReadInv'
    BY <1>3, <1>0 DEF FillIndex, ReadInv, ReadTypeOK, Writing
  <2> QED BY <1>3, <2>1, <2>2, UnchangedType DEF FillIndex
<1>4. CASE FillAudioNum
  <2>1. ChanTypeOK'
    BY <1>4, <1>0 DEF FillAudioNum, ChanTypeOK
  <2>2. ReadInv'
    BY <1>4, <1>0 DEF FillAudioNum, ReadInv, ReadTypeOK, Writing
  <2> QED BY <1>4, <2>1, <2>2, UnchangedType DEF FillAudioNum
<1>18. CASE FillFrames \/ FillEvent
  <2>1. /\ streamNum < NumStreams
        /\ numFrames' = [numFrames EXCEPT ![streamNum] = 0] \/ UNCHANGED numFrames
        /\ event' = [event EXCEPT ![streamNum] = FALSE] \/ UNCHANGED event
        /\ UNCHANGED <<frameBuf, got>>
    BY <1>18 DEF FillFrames, FillEvent, FillInv, Filling
  <2>2. streamNum \in Streams
    BY <2>1 DEF ChanTypeOK
  <2>3. BufTypeOK'
    <3>1. numFrames \in [Streams -> Int] /\ event \in [Streams -> BOOLEAN]
      BY DEF BufTypeOK
    <3> HIDE DEF Streams
    <3>2. numFrames' \in [Streams -> Int]
      BY <2>1, <2>2, <3>1
    <3>3. event' \in [Streams -> BOOLEAN]
      BY <2>1, <2>2, <3>1
    <3> QED BY <2>1, <3>2, <3>3 DEF BufTypeOK
  <2>4. ReadInv'
    BY <1>18, <1>0 DEF FillFrames, FillEvent, ReadInv, ReadTypeOK, Writing
  <2> QED BY <1>18, <2>3, <2>4, UnchangedType DEF FillFrames, FillEvent
<1>19. CASE FillCount
  <2>1. ChanTypeOK'
    BY <1>19, <1>0 DEF FillCount, FillInv, Filling, idxVars, ChanTypeOK
  <2>2. ReadInv'
    BY <1>19, <1>0 DEF FillCount, ReadInv, ReadTypeOK, Writing
  <2> QED BY <1>19, <2>1, <2>2, UnchangedType DEF FillCount
<1>20. CASE ClearExit \/ StartReading
  <2>1. ChanTypeOK'
    BY <1>20, <1>0 DEF ClearExit, StartReading, idxVars, ChanTypeOK
  <2>2. ReadInv'
    BY <1>20, <1>0 DEF ClearExit, StartReading, ReadInv, ReadTypeOK, Writing
  <2> QED BY <1>20, <2>1, <2>2, UnchangedType DEF ClearExit, StartReading
<1>5. CASE LoopTest
  <2>1. ReadInv'
    BY <1>5, <1>0 DEF LoopTest, ReadInv, ReadTypeOK, Writing, ChanTypeOK
  <2> QED BY <1>5, <2>1, UnchangedType DEF LoopTest
<1>6. CASE ReadFrame
  <2>1. ReadInv'
    BY <1>6, <1>0 DEF ReadFrame, Pkt, ReadInv, ReadTypeOK, Writing, ChanTypeOK
  <2> QED BY <1>6, <2>1, UnchangedType DEF ReadFrame, Pkt
<1>7. CASE ReadNothing
  <2>1. ReadInv'
    BY <1>7, <1>0 DEF ReadNothing, ReadInv, ReadTypeOK, Writing, ChanTypeOK
  <2> QED BY <1>7, <2>1, UnchangedType DEF ReadNothing
<1>8. CASE WriteFlagTest
  <2>1. ReadInv'
    BY <1>8, <1>0 DEF WriteFlagTest, DropPkt, ReadInv, ReadTypeOK, Writing, ChanTypeOK
  <2> QED BY <1>8, <2>1, UnchangedType DEF WriteFlagTest, DropPkt
<1>9. CASE WriteFullTest
  <2>1. ReadInv'
    BY <1>9, <1>0 DEF WriteFullTest, ReadInv, ReadTypeOK, Writing, ChanTypeOK
  <2> QED BY <1>9, <2>1, UnchangedType DEF WriteFullTest
<1>10. CASE DrainTest
  <2>1. ReadInv'
    BY <1>10, <1>0 DEF DrainTest, ReadInv, ReadTypeOK, Writing, ChanTypeOK
  <2> QED BY <1>10, <2>1, UnchangedType DEF DrainTest
<1>11. CASE DrainRing
  <2>1. BufTypeOK'
    BY <1>11, <1>0 DEF DrainRing, BudgetLeft, BufTypeOK, ChanTypeOK, ReadInv, ReadTypeOK, Writing
  <2>2. ReadInv'
    BY <1>11, <1>0 DEF DrainRing, BudgetLeft, ReadInv, ReadTypeOK, Writing, ChanTypeOK
  <2> QED BY <1>11, <2>1, <2>2, UnchangedType DEF DrainRing, BudgetLeft
<1>12. CASE DrainExpired
  <2>1. ReadInv'
    BY <1>12, <1>0 DEF DrainExpired, DropPkt, ReadInv, ReadTypeOK, Writing, ChanTypeOK
  <2> QED BY <1>12, <2>1, UnchangedType DEF DrainExpired, DropPkt
<1>13. CASE StorePkt
  <2>1. BufTypeOK'
    <3> DEFINE b == TargetBuffer(pkt)
    <3>1. pkt \in Pkt
      BY <1>13 DEF StorePkt, ReadInv, Writing
    <3>5. numFrames' = [numFrames EXCEPT ![b] = numFrames[b] + 1]
      BY <1>13 DEF StorePkt
    <3>6. numFrames \in [Streams -> Int] /\ b \in Streams
      BY <1>0 DEF BufTypeOK
    <3>2. numFrames' \in [Streams -> Int]
      <4> HIDE DEF b, Streams
      <4> QED BY <3>5, <3>6
    <3>3. CASE numFrames[b] \in 0..(MaxFrames - 1)
      <4>1. [frameBuf[b] EXCEPT ![numFrames[b]] = pkt]
              \in [0..(MaxFrames - 1) -> Pkt \cup {NoPkt}]
        BY <3>1, <3>3, <1>0 DEF BufTypeOK
      <4>2. frameBuf' = [frameBuf EXCEPT ![b] = [frameBuf[b] EXCEPT ![numFrames[b]] = pkt]]
        BY <1>13, <3>3 DEF StorePkt
      <4>3. frameBuf \in [Streams -> [0..(MaxFrames - 1) -> Pkt \cup {NoPkt}]]
        BY <1>0 DEF BufTypeOK
      <4>4. frameBuf' \in [Streams -> [0..(MaxFrames - 1) -> Pkt \cup {NoPkt}]]
        <5> HIDE DEF b, Streams
        <5> QED BY <4>1, <4>2, <4>3
      <4>5. event' = event /\ got' = got
        BY <1>13 DEF StorePkt
      <4> QED BY <1>0, <3>2, <4>4, <4>5, Zenon DEF BufTypeOK
    <3>4. CASE numFrames[b] \notin 0..(MaxFrames - 1)
      BY <1>13, <3>2, <3>4 DEF StorePkt, BufTypeOK
    <3> QED BY <3>3, <3>4
  <2>2. ReadInv'
    BY <1>13, <1>0 DEF StorePkt, ReadInv, ReadTypeOK, Writing, ChanTypeOK
  <2> QED BY <1>13, <2>1, <2>2, UnchangedType DEF StorePkt
<1>14. CASE PostEvent
  <2>1. BufTypeOK'
    BY <1>14, <1>0 DEF PostEvent, DropPkt, BufTypeOK, ChanTypeOK, ReadInv, ReadTypeOK, Writing
  <2>2. ReadInv'
    BY <1>14, <1>0 DEF PostEvent, DropPkt, ReadInv, ReadTypeOK, Writing, ChanTypeOK
  <2> QED BY <1>14, <2>1, <2>2, UnchangedType DEF PostEvent, DropPkt
<1>15. CASE NotifyTest
  <2>1. ReadInv'
    BY <1>15, <1>0 DEF NotifyTest, ReadInv, ReadTypeOK, Writing, ChanTypeOK
  <2> QED BY <1>15, <2>1, UnchangedType DEF NotifyTest
<1>16. CASE NotifyRing
  <2>1. BufTypeOK'
    BY <1>16, <1>0 DEF NotifyRing, BufTypeOK, ChanTypeOK, ReadInv, ReadTypeOK, Writing
  <2>2. ReadInv'
    BY <1>16, <1>0 DEF NotifyRing, ReadInv, ReadTypeOK, Writing, ChanTypeOK
  <2> QED BY <1>16, <2>1, <2>2, UnchangedType DEF NotifyRing
<1>17. CASE ExitReadTask
  <2>1. ChanTypeOK'
    BY <1>17, <1>0 DEF ExitReadTask, idxVars, ChanTypeOK, ReadInv, ReadTypeOK, Writing
  <2>2. ReadInv'
    BY <1>17, <1>0 DEF ExitReadTask, ReadInv, ReadTypeOK, Writing, ChanTypeOK
  <2> QED BY <1>17, <2>1, <2>2, UnchangedType DEF ExitReadTask
<1> QED BY <1>1, <1>2, <1>3, <1>4, <1>5, <1>6, <1>7, <1>8, <1>9, <1>10, <1>11, <1>12, <1>13, <1>14, <1>15, <1>16, <1>17, <1>18, <1>19, <1>20
        DEF ReadPktTask

LEMMA RevFrameType == TypeInv /\ RevFrame => TypeInv'
<1> SUFFICES ASSUME TypeInv, RevFrame PROVE TypeInv'
  OBVIOUS
<1>f. FillInv'
  BY UnchangedType DEF RevFrame, RevInit, RevLoopTest, FdSet, Select, IsSet, EventRead,
                       EmptyTest, TakeFrame, RevEnd
<1> USE <1>f, ConstantsAssumption DEF TypeInv, Streams
<1>0. RoleBuffer \in Streams
  BY BuffersAreStreams DEF ChanTypeOK
<1>1. CASE RevInit
  <2>1. RevTypeOK'
    BY <1>1, <1>0 DEF RevInit, RevTypeOK, ChanTypeOK
  <2> QED BY <1>1, <2>1, UnchangedType DEF RevInit
<1>2. CASE RevLoopTest
  <2>1. RevTypeOK'
    <3>1. vpc' \in {"fdset", "end"} /\ watch' \in {{}, watch} /\ wi' \in {0, wi}
      BY <1>2 DEF RevLoopTest
    <3>2. UNCHANGED <<role, nfds, ready, tvOk, revExit, revRun>>
      BY <1>2 DEF RevLoopTest
    <3>3. wi' \in 0..NumStreams
      BY <3>1 DEF RevTypeOK
    <3> QED BY <3>1, <3>2, <3>3 DEF RevTypeOK
  <2> QED BY <1>2, <2>1, UnchangedType DEF RevLoopTest
<1>3. CASE FdSet
  <2>1. RevTypeOK'
    <3>1. UNCHANGED <<role, ready, tvOk, revExit, revRun>>
      BY <1>3 DEF FdSet
    <3>2. CASE programNum = 1 /\ wi < streamNum
      <4>1. /\ watch' = watch \cup {wi} /\ wi' = wi + 1
            /\ nfds' = IF FdAbove(wi) THEN Fd[wi] + 1 ELSE nfds
            /\ vpc' = vpc
        BY <1>3, <3>2 DEF FdSet
      <4>2. wi \in Streams /\ wi' \in 0..NumStreams
        BY <3>2, <4>1 DEF ChanTypeOK, RevTypeOK
      <4>3. Fd[wi] \in Nat
        BY <4>2
      <4>4. nfds' \in Nat
        BY <4>1, <4>3 DEF RevTypeOK
      <4> HIDE DEF Streams
      <4> QED BY <3>1, <4>1, <4>2, <4>4 DEF RevTypeOK
    <3>3. CASE ~(programNum = 1 /\ wi < streamNum)
      BY <1>3, <3>1, <3>3 DEF FdSet, RevTypeOK
    <3> QED BY <3>2, <3>3
  <2> QED BY <1>3, <2>1, UnchangedType DEF FdSet
<1>4. CASE Select
  <2>1. RevTypeOK'
    BY <1>4, <1>0 DEF Select, Readable, RevTypeOK, ChanTypeOK
  <2> QED BY <1>4, <2>1, UnchangedType DEF Select, Readable
<1>5. CASE IsSet
  <2>1. RevTypeOK'
    BY <1>5, <1>0 DEF IsSet, NextRole, RevTypeOK, ChanTypeOK
  <2> QED BY <1>5, <2>1, UnchangedType DEF IsSet, NextRole
<1>6. CASE EventRead
  <2>1. BufTypeOK'
    BY <1>6, <1>0 DEF EventRead, BufTypeOK, ChanTypeOK
  <2>2. RevTypeOK'
    BY <1>6, <1>0 DEF EventRead, RevTypeOK, ChanTypeOK
  <2> QED BY <1>6, <2>1, <2>2, UnchangedType DEF EventRead
<1>7. CASE EmptyTest
  <2>1. RevTypeOK'
    BY <1>7, <1>0 DEF EmptyTest, NextRole, RevTypeOK, ChanTypeOK
  <2> QED BY <1>7, <2>1, UnchangedType DEF EmptyTest, NextRole
<1>8. CASE TakeFrame
  <2>1. BufTypeOK'
    <3> DEFINE b == RoleBuffer
    <3>0. /\ got' = [got EXCEPT ![b] = Append(@, frameBuf[b][0])] /\ frameBuf[b][0] # NoPkt
          /\ numFrames' = [numFrames EXCEPT ![b] = @ - 1] /\ event' = event
          /\ frameBuf' = [frameBuf EXCEPT ![b] = MoveDown(@, numFrames[b])]
      BY <1>8 DEF TakeFrame
    <3>1. frameBuf[b][0] \in Pkt
      <4>1. /\ frameBuf \in [Streams -> [0..(MaxFrames - 1) -> Pkt \cup {NoPkt}]]
            /\ b \in Streams
        BY <1>0 DEF BufTypeOK
      <4>2. 0 \in 0..(MaxFrames - 1)
        BY ConstantsAssumption
      <4> HIDE DEF b, Streams
      <4>3. frameBuf[b] \in [0..(MaxFrames - 1) -> Pkt \cup {NoPkt}]
        BY <4>1
      <4>4. frameBuf[b][0] \in Pkt \cup {NoPkt}
        BY <4>2, <4>3
      <4> QED BY <3>0, <4>4
    <3>2. got' \in [Streams -> Seq(Pkt)]
      <4>1. /\ got \in [Streams -> Seq(Pkt)]
            /\ b \in Streams => Append(got[b], frameBuf[b][0]) \in Seq(Pkt)
        <5>1. got \in [Streams -> Seq(Pkt)]
          BY <1>0 DEF BufTypeOK
        <5>2. b \in Streams => got[b] \in Seq(Pkt)
          <6> HIDE DEF b, Streams, Pkt
          <6> QED BY <5>1
        <5>3. PICK p \in Pkt : p = frameBuf[b][0]
          BY <3>1
        <5> HIDE DEF b, Streams, Pkt
        <5> QED BY <5>1, <5>2, <5>3
      <4> HIDE DEF b, Streams, Pkt
      <4> QED BY <3>0, <4>1
    <3>3. MoveDown(frameBuf[b], numFrames[b]) \in [0..(MaxFrames - 1) -> Pkt \cup {NoPkt}]
      BY <1>0, MoveDownType DEF BufTypeOK
    <3>4. frameBuf' \in [Streams -> [0..(MaxFrames - 1) -> Pkt \cup {NoPkt}]]
      BY <1>8, <1>0, <3>3 DEF TakeFrame, BufTypeOK
    <3>5. numFrames' \in [Streams -> Int]
      <4>1. numFrames \in [Streams -> Int] /\ (b \in Streams => numFrames[b] - 1 \in Int)
        BY <1>0 DEF BufTypeOK
      <4> HIDE DEF b, Streams
      <4> QED BY <3>0, <4>1
    <3> QED BY <1>8, <3>2, <3>4, <3>5 DEF TakeFrame, BufTypeOK
  <2>2. RevTypeOK'
    BY <1>8, <1>0 DEF TakeFrame, NextRole, RevTypeOK, ChanTypeOK
  <2> QED BY <1>8, <2>1, <2>2, UnchangedType DEF TakeFrame, NextRole
<1>9. CASE RevEnd
  <2>1. RevTypeOK'
    BY <1>9, <1>0 DEF RevEnd, RevTypeOK, ChanTypeOK
  <2> QED BY <1>9, <2>1, UnchangedType DEF RevEnd
<1> QED BY <1>1, <1>2, <1>3, <1>4, <1>5, <1>6, <1>7, <1>8, <1>9 DEF RevFrame

LEMMA MainType == TypeInv /\ (MainStep \/ StopRev) => TypeInv'
<1> SUFFICES ASSUME TypeInv, MainStep \/ StopRev PROVE TypeInv'
  OBVIOUS
<1>f. FillInv'
  <2>1. /\ rpc' = rpc \/ rpc' \in {"open", "failed"}
        /\ streamNum' \in {0, streamNum}
    BY DEF MainStep, StopRev, StartChannel, NewDetach, WaitChannelStart, SpawnRev, WaitRev,
           StopChannel, PollExit, StopFails, CloseInput, ClearFrames, ClearCount,
           CloseStreams, chanVars, readVars
  <2>2. 0 < NumStreams
    BY ConstantsAssumption
  <2> QED BY <2>1, <2>2 DEF TypeInv, FillInv, Filling
<1> USE <1>f, ConstantsAssumption DEF TypeInv, Streams
<1>1. CASE StartChannel
  <2>1. ReadInv'
    BY <1>1 DEF StartChannel, NewDetach, ReadInv, ReadTypeOK, Writing, ChanTypeOK
  <2>2. MainInv'
    BY <1>1 DEF StartChannel, NewDetach, MainInv, MainTypeOK, ChanTypeOK, ReadInv, ReadTypeOK, Writing
  <2> QED BY <1>1, <2>1, <2>2, UnchangedType DEF StartChannel
<1>2. CASE WaitChannelStart
  <2>1. MainInv'
    BY <1>2 DEF WaitChannelStart, WaitStartRet, MainInv, MainTypeOK, ChanTypeOK
  <2> QED BY <1>2, <2>1, UnchangedType DEF WaitChannelStart, WaitStartRet
<1>3. CASE SpawnRev
  <2>1. RevTypeOK'
    BY <1>3 DEF SpawnRev, NewDetach, RevTypeOK, ChanTypeOK
  <2>2. MainInv'
    BY <1>3 DEF SpawnRev, MainInv, MainTypeOK, ChanTypeOK
  <2> QED BY <1>3, <2>1, <2>2, UnchangedType DEF SpawnRev
<1>4. CASE WaitRev
  <2>1. MainInv'
    BY <1>4 DEF WaitRev, MainInv, MainTypeOK, ChanTypeOK
  <2> QED BY <1>4, <2>1, UnchangedType DEF WaitRev
<1>5. CASE StopChannel
  <2>1. ChanTypeOK'
    BY <1>5 DEF StopChannel, idxVars, ChanTypeOK
  <2>2. MainInv'
    BY <1>5 DEF StopChannel, MainInv, MainTypeOK, ChanTypeOK
  <2> QED BY <1>5, <2>1, <2>2, UnchangedType DEF StopChannel
<1>6. CASE PollExit
  <2>1. MainInv'
    BY <1>6 DEF PollExit, MainInv, MainTypeOK, ChanTypeOK
  <2> QED BY <1>6, <2>1, UnchangedType DEF PollExit
<1>7. CASE StopFails
  <2>1. MainInv'
    BY <1>7 DEF StopFails, MainInv, MainTypeOK, ChanTypeOK
  <2> QED BY <1>7, <2>1, UnchangedType DEF StopFails
<1>8. CASE CloseInput
  <2>1. MainInv'
    BY <1>8 DEF CloseInput, MainInv, MainTypeOK, ChanTypeOK
  <2> QED BY <1>8, <2>1, UnchangedType DEF CloseInput
<1>9. CASE ClearFrames
  <2>1. BufTypeOK'
    BY <1>9 DEF ClearFrames, BufTypeOK, ChanTypeOK
  <2>2. MainInv'
    BY <1>9 DEF ClearFrames, MainInv, MainTypeOK, ChanTypeOK
  <2> QED BY <1>9, <2>1, <2>2, UnchangedType DEF ClearFrames
<1>10. CASE ClearCount
  <2>1. BufTypeOK'
    <3>1. numFrames' = [numFrames EXCEPT ![ci] = 0] /\ UNCHANGED <<frameBuf, event, got>>
      BY <1>10 DEF ClearCount
    <3>2. numFrames \in [Streams -> Int] /\ 0 \in Int
      BY DEF BufTypeOK
    <3>3. numFrames' \in [Streams -> Int]
      <4> HIDE DEF Streams, TypeInv
      <4> QED BY <3>1, <3>2
    <3>4. BufTypeOK
      OBVIOUS
    <3> QED BY <3>1, <3>3, <3>4, Zenon DEF BufTypeOK
  <2>2. MainInv'
    BY <1>10 DEF ClearCount, MainInv, MainTypeOK, ChanTypeOK
  <2> QED BY <1>10, <2>1, <2>2, UnchangedType DEF ClearCount
<1>11. CASE CloseStreams
  <2>1. ChanTypeOK'
    BY <1>11 DEF CloseStreams, idxVars, ChanTypeOK
  <2>2. MainInv'
    BY <1>11 DEF CloseStreams, MainInv, MainTypeOK, ChanTypeOK
  <2> QED BY <1>11, <2>1, <2>2, UnchangedType DEF CloseStreams
<1>12. CASE StopRev
  <2>1. RevTypeOK'
    BY <1>12 DEF StopRev, RevTypeOK, ChanTypeOK
  <2>2. MainInv'
    BY <1>12 DEF StopRev, MainInv, MainTypeOK, ChanTypeOK
  <2> QED BY <1>12, <2>1, <2>2, UnchangedType DEF StopRev
<1> QED BY <1>1, <1>2, <1>3, <1>4, <1>5, <1>6, <1>7, <1>8, <1>9, <1>10, <1>11, <1>12 DEF MainStep

LEMMA StepType == TypeInv /\ [Next]_vars => TypeInv'
<1> SUFFICES ASSUME TypeInv, [Next]_vars PROVE TypeInv'
  OBVIOUS
<1>1. CASE ReadPktTask BY <1>1, ReadTaskType
<1>2. CASE RevFrame BY <1>2, RevFrameType
<1>3. CASE MainStep \/ StopRev BY <1>3, MainType
<1>4. CASE UNCHANGED vars
  BY <1>4, UnchangedType DEF vars, TypeInv
<1> QED BY <1>1, <1>2, <1>3, <1>4 DEF Next

(* Every reachable state of a channel is well typed, whatever the number   *)
(* of streams, slots, packets and polls: no index leaves its array except  *)
(* where a store past the last slot is modelled (tsInput.c:716).           *)
THEOREM TypeCorrect == Spec => []TypeOK
<1>1. TypeInv => TypeOK
  BY DEF TypeInv, TypeOK, ReadInv, MainInv
<1> QED BY <1>1, InitType, StepType, PTL DEF Spec
-----------------------------------------------------------------------------
(* exitFlag is set by the read task only, and main releases nothing, and   *)
(* forgets no program, before it has seen it set.                          *)
RunOnce == /\ exitFlag = 1 => rpc = "gone"
           /\ mpc = "start" => rpc = "none"
           /\ Released => exitFlag = 1
           /\ rpc \notin {"none", "open", "failed", "gone"} => programNum = 1

LEMMA RunOnceStep ==
  ASSUME TypeInv, RunOnce, [Next]_vars
  PROVE  RunOnce'
<1> USE DEF RunOnce, Released, Releasing
<1>1. exitFlag \in {0, 1}
  BY DEF TypeInv, ChanTypeOK
<1>2. CASE ReadPktTask
  <2>1. /\ rpc \notin {"none", "failed", "gone"} /\ rpc' # "none"
        /\ mpc' = mpc /\ stopRet' = stopRet
        /\ exitFlag' = 1 => exitFlag = 1 \/ rpc' = "gone"
        /\ rpc # "fill" => exitFlag' \in {1, exitFlag}
        /\ programNum' \in {1, programNum}
        /\ rpc = "open" => rpc' = "failed" \/ programNum' = 1
    BY <1>2 DEF ReadPktTask, OpenFails, OpenInput, FillIndex, FillAudioNum, FillFrames,
           FillEvent, FillCount, ClearExit, StartReading, LoopTest,
                ReadFrame, ReadNothing, WriteFlagTest, WriteFullTest, DrainTest, DrainRing,
                DrainExpired, StorePkt, PostEvent, NotifyTest, NotifyRing, ExitReadTask,
                DropPkt, chanVars, mainVars, readVars
  <2> QED BY <2>1, <1>1
<1>3. CASE RevFrame
  BY <1>3 DEF RevFrame, RevInit, RevLoopTest, FdSet, Select, IsSet, EventRead, EmptyTest,
              TakeFrame, RevEnd, chanVars, readVars, mainVars
<1>4. CASE MainStep \/ StopRev
  BY <1>4, <1>1
     DEF MainStep, StopRev, StartChannel, NewDetach, WaitChannelStart, SpawnRev, WaitRev,
         StopChannel, PollExit, StopFails, CloseInput, ClearFrames, ClearCount, CloseStreams,
         chanVars, readVars
<1>6. CASE UNCHANGED vars
  BY <1>6 DEF vars, chanVars, readVars, mainVars
<1> QED BY <1>2, <1>3, <1>4, <1>6 DEF Next

-----------------------------------------------------------------------------
(* The bound on the filling of a buffer.                                   *)

Half == MaxFrames \div 2

(* The packets of audio streams come from streams the input had when it    *)
(* was opened, so that the buffer that is checked is the one that is       *)
(* stored into.                                                            *)
NoLateAudio == \A s \in InputStreams : Kind[s] = "audio" => s \in Streams

(* Once the streams are filled in, the count of audio streams is the one   *)
(* the audio writer trusts: with it at zero no audio buffer is ever full.  *)
Filled == rpc \notin {"none", "open", "failed", "fill", "fillAudio", "fillFrames",
                       "fillEvent", "fillCount"}
AudioCounted ==
    /\ Filled /\ AudioStreams # {} => audioNum > 0
    /\ (rpc = "fill" \/ Filling) /\ (\E s \in AudioStreams : s < streamNum)
         => audioNum > 0
    /\ rpc \in {"fillFrames", "fillEvent", "fillCount"} /\ streamNum \in AudioStreams
         => audioNum > 0

(* What the tests made outside the lock still say when the store happens:  *)
(* only the read task adds frames, so the room it saw has not shrunk.      *)
RoomToStore == rpc = "store" => numFrames[TargetBuffer(pkt)] < Half

HalfInv == TypeInv /\ RunOnce /\ HalfFull /\ AudioCounted /\ RoomToStore

LEMMA HalfPositive == Half \in Nat /\ Half >= 1
BY ConstantsAssumption DEF Half

(* A packet in hand that is not refused goes to a buffer below the bound.  *)
LEMMA NotFullHasRoom ==
  ASSUME TypeInv, RunOnce, AudioCounted, NoLateAudio, Filled, Writing,
         ~TargetIsFull(pkt)
  PROVE  numFrames[TargetBuffer(pkt)] < Half
<1>1. /\ pkt \in Pkt
      /\ Kind[pkt[1]] \in {"video", "audio"}
  BY DEF TypeInv, ReadInv
<1>2. pkt[1] \in InputStreams
  BY <1>1 DEF Pkt
<1>3. /\ TargetBuffer(pkt) = CheckedBuffer(pkt)
      /\ CheckedBuffer(pkt) \in Streams
  BY <1>1, <1>2, BuffersAreStreams
     DEF NoLateAudio, AudioStreams, TargetBuffer, CheckedBuffer, TypeInv, ChanTypeOK
<1>4. Kind[pkt[1]] = "audio" => audioNum > 0
  BY <1>1, <1>2 DEF NoLateAudio, AudioStreams, AudioCounted
<1>5. ~BufferIsFull(CheckedBuffer(pkt))
  BY <1>4 DEF TargetIsFull, RunOnce, Writing
<1>6. numFrames[CheckedBuffer(pkt)] \in Int
  BY <1>3 DEF TypeInv, BufTypeOK
<1> QED BY <1>3, <1>5, <1>6, HalfPositive DEF BufferIsFull, Half

LEMMA InitHalf == Init => HalfInv
<1> SUFFICES ASSUME Init PROVE HalfInv
  OBVIOUS
<1>1. TypeInv
  BY InitType
<1>2. HalfFull
  BY HalfPositive DEF Init, HalfFull, Half
<1> QED BY <1>1, <1>2
           DEF Init, HalfInv, RunOnce, Released, Releasing, AudioCounted, Filled, Filling,
               RoomToStore

(* Steps that touch neither a buffer's count nor the read task.            *)
LEMMA UnchangedHalf ==
  ASSUME HalfInv, UNCHANGED <<rpc, pkt, idxVars, streamNum, numFrames>>
  PROVE  HalfFull' /\ AudioCounted' /\ RoomToStore'
BY DEF HalfInv, HalfFull, AudioCounted, Filled, Filling, RoomToStore, TargetBuffer, idxVars

(* Steps of the read task that neither store nor fill in a stream.         *)
LEMMA ReadingHalf ==
  ASSUME HalfInv, TypeInv', Filled, Filled',
         UNCHANGED <<idxVars, streamNum, numFrames>>,
         rpc' = "store" => /\ numFrames[TargetBuffer(pkt)] < Half
                           /\ pkt' = pkt
  PROVE  HalfFull' /\ AudioCounted' /\ RoomToStore'
BY DEF HalfInv, HalfFull, AudioCounted, Filled, Filling, RoomToStore, TargetBuffer, idxVars

LEMMA FillHalf ==
  ASSUME HalfInv, TypeInv', FillIndex \/ FillAudioNum \/ FillFrames \/ FillEvent \/ FillCount
  PROVE  HalfFull' /\ AudioCounted' /\ RoomToStore'
<1> USE DEF HalfInv, TypeInv
<1>0. /\ audioNum \in Nat /\ streamNum \in Nat
      /\ \A s \in AudioStreams : s \in Nat /\ Kind[s] = "audio"
  BY ConstantsAssumption DEF AudioStreams, Streams, ChanTypeOK
<1>1. RoomToStore'
  BY DEF RoomToStore, FillIndex, FillAudioNum, FillFrames, FillEvent, FillCount
<1>2. HalfFull'
  <2>1. numFrames' = numFrames \/ numFrames' = [numFrames EXCEPT ![streamNum] = 0]
    BY DEF FillIndex, FillAudioNum, FillFrames, FillEvent, FillCount, bufVars
  <2>2. \A s \in Streams : numFrames'[s] \in {0, numFrames[s]}
    BY <2>1 DEF BufTypeOK
  <2>3. \A s \in Streams : numFrames'[s] \in Int
    BY DEF BufTypeOK
  <2> QED BY <2>2, HalfPositive DEF HalfFull, Half
<1>3. CASE FillIndex
  <2>1. /\ rpc = "fill" /\ UNCHANGED <<audioNum, streamNum>>
        /\ rpc' = IF Kind[streamNum] = "audio" THEN "fillAudio" ELSE "fillFrames"
    BY <1>3 DEF FillIndex
  <2>2. AudioCounted'
    BY <2>1, <1>0 DEF AudioCounted, Filled, Filling
  <2> QED BY <1>1, <1>2, <2>2
<1>4. CASE FillAudioNum
  <2>1. rpc' = "fillFrames" /\ audioNum' = audioNum + 1
    BY <1>4 DEF FillAudioNum
  <2>2. audioNum' > 0
    BY <2>1, <1>0
  <2>3. AudioCounted'
    BY <2>2 DEF AudioCounted
  <2> QED BY <1>1, <1>2, <2>3
<1>5. CASE FillFrames \/ FillEvent
  <2>1. /\ rpc \in {"fillFrames", "fillEvent"} /\ rpc' \in {"fillEvent", "fillCount"}
        /\ UNCHANGED <<audioNum, streamNum>>
    BY <1>5 DEF FillFrames, FillEvent, chanVars, idxVars
  <2>2. AudioCounted'
    BY <2>1 DEF AudioCounted, Filled, Filling
  <2> QED BY <1>1, <1>2, <2>2
<1>6. CASE FillCount
  <2>1. /\ rpc = "fillCount" /\ rpc' = "fill"
        /\ streamNum' = streamNum + 1 /\ audioNum' = audioNum
    BY <1>6 DEF FillCount, idxVars
  <2>2. ASSUME NEW s \in AudioStreams, s < streamNum' PROVE audioNum' > 0
    <3>1. s < streamNum \/ s = streamNum
      BY <1>0, <2>1, <2>2
    <3> QED BY <2>1, <3>1 DEF AudioCounted, Filling
  <2>3. AudioCounted'
    BY <2>1, <2>2 DEF AudioCounted, Filled, Filling
  <2> QED BY <1>1, <1>2, <2>3
<1> QED BY <1>3, <1>4, <1>5, <1>6

LEMMA StoreHalf ==
  ASSUME HalfInv, TypeInv', StorePkt
  PROVE  HalfFull'
<1> DEFINE b == TargetBuffer(pkt)
<1>1. numFrames' = [numFrames EXCEPT ![b] = numFrames[b] + 1]
  BY DEF StorePkt
<1>2. numFrames \in [Streams -> Int] /\ b \in Streams
  BY BuffersAreStreams DEF HalfInv, TypeInv, ChanTypeOK, BufTypeOK
<1>3. numFrames[b] < Half
  BY DEF HalfInv, RoomToStore, StorePkt
<1>4. \A s \in Streams : numFrames[s] <= Half
  BY DEF HalfInv, HalfFull, Half
<1> HIDE DEF b
<1>5. \A s \in Streams : numFrames'[s] <= Half
  BY <1>1, <1>2, <1>3, <1>4, HalfPositive
<1> QED BY <1>5 DEF HalfFull, Half

LEMMA ReadTaskHalf ==
  ASSUME HalfInv, TypeInv', NoLateAudio, ReadPktTask
  PROVE  HalfFull' /\ AudioCounted' /\ RoomToStore'
<1> USE DEF Filled, Filling
<1>1. CASE OpenFails
  BY <1>1 DEF OpenFails, chanVars, idxVars, bufVars, HalfInv, HalfFull, AudioCounted, RoomToStore
<1>2. CASE OpenInput
  <2>1. \A s \in AudioStreams : ~(s < 0)
    BY ConstantsAssumption DEF AudioStreams, Streams
  <2> QED BY <1>2, <2>1
             DEF OpenInput, bufVars, HalfInv, HalfFull, AudioCounted, RoomToStore
<1>3. CASE FillIndex \/ FillAudioNum \/ FillFrames \/ FillEvent \/ FillCount
  BY <1>3, FillHalf
<1>18. CASE StartReading
  BY <1>18, ReadingHalf DEF StartReading, bufVars
<1>4. CASE ClearExit
  <2>1. \A s \in AudioStreams : s < NumStreams
    BY ConstantsAssumption DEF AudioStreams, Streams
  <2>2. HalfFull' /\ RoomToStore'
    BY <1>4 DEF ClearExit, bufVars, HalfInv, HalfFull, RoomToStore
  <2>3. AudioCounted'
    BY <1>4, <2>1 DEF ClearExit, idxVars, HalfInv, AudioCounted, Filling, AudioStreams
  <2> QED BY <2>2, <2>3
<1>5. CASE LoopTest
  BY <1>5, ReadingHalf DEF LoopTest, chanVars, bufVars
<1>6. CASE ReadFrame
  BY <1>6, ReadingHalf DEF ReadFrame, chanVars, bufVars
<1>7. CASE ReadNothing
  BY <1>7, ReadingHalf DEF ReadNothing, chanVars, bufVars
<1>8. CASE WriteFlagTest
  BY <1>8, ReadingHalf DEF WriteFlagTest, DropPkt, chanVars, bufVars
<1>9. CASE WriteFullTest
  <2>1. rpc' = "store" => ~TargetIsFull(pkt) /\ pkt' = pkt
    BY <1>9 DEF WriteFullTest
  <2>2. Filled /\ Writing
    BY <1>9 DEF WriteFullTest, Writing
  <2>3. rpc' = "store" => numFrames[TargetBuffer(pkt)] < Half
    BY <2>1, <2>2, NotFullHasRoom DEF HalfInv
  <2> QED BY <1>9, <2>1, <2>3, ReadingHalf DEF WriteFullTest, chanVars, bufVars
<1>10. CASE DrainTest
  <2>1. rpc' = "store" => numFrames[TargetBuffer(pkt)] <= 0 /\ pkt' = pkt
    BY <1>10 DEF DrainTest, NoFrames
  <2>2. numFrames[TargetBuffer(pkt)] \in Int
    BY BuffersAreStreams DEF HalfInv, TypeInv, ChanTypeOK, BufTypeOK
  <2>3. rpc' = "store" => numFrames[TargetBuffer(pkt)] < Half
    BY <2>1, <2>2, HalfPositive
  <2> QED BY <1>10, <2>1, <2>3, ReadingHalf DEF DrainTest, chanVars, bufVars
<1>11. CASE DrainRing
  BY <1>11, ReadingHalf DEF DrainRing, BudgetLeft, chanVars, bufVars
<1>12. CASE DrainExpired
  <2>1. rpc' = "store" => ~TargetIsFull(pkt) /\ pkt' = pkt
    BY <1>12 DEF DrainExpired, DropPkt
  <2>2. Filled /\ Writing
    BY <1>12 DEF DrainExpired, Writing
  <2>3. rpc' = "store" => numFrames[TargetBuffer(pkt)] < Half
    BY <2>1, <2>2, NotFullHasRoom DEF HalfInv
  <2> QED BY <1>12, <2>1, <2>3, ReadingHalf DEF DrainExpired, DropPkt, chanVars, bufVars
<1>13. CASE StorePkt
  <2>1. HalfFull'
    BY <1>13, StoreHalf
  <2>2. AudioCounted' /\ RoomToStore'
    BY <1>13 DEF StorePkt, chanVars, idxVars, HalfInv, AudioCounted, RoomToStore
  <2> QED BY <2>1, <2>2
<1>14. CASE PostEvent
  BY <1>14, ReadingHalf DEF PostEvent, DropPkt, chanVars, bufVars
<1>15. CASE NotifyTest
  BY <1>15, ReadingHalf DEF NotifyTest, chanVars, bufVars
<1>16. CASE NotifyRing
  BY <1>16, ReadingHalf DEF NotifyRing, chanVars, bufVars
<1>17. CASE ExitReadTask
  BY <1>17, ReadingHalf DEF ExitReadTask, chanVars, bufVars, idxVars
<1> QED
  BY <1>1, <1>2, <1>3, <1>4, <1>5, <1>6, <1>7, <1>8, <1>9, <1>10, <1>11, <1>12, <1>13, <1>14, <1>15, <1>16, <1>17, <1>18 DEF ReadPktTask

(* The receiver only takes frames.                                         *)
LEMMA RevFrameHalf ==
  ASSUME HalfInv, TypeInv', RevFrame
  PROVE  HalfFull' /\ AudioCounted' /\ RoomToStore'
<1>1. CASE TakeFrame
  <2>1. numFrames' = [numFrames EXCEPT ![RoleBuffer] = numFrames[RoleBuffer] - 1]
    BY <1>1 DEF TakeFrame
  <2>2. numFrames \in [Streams -> Int] /\ TargetBuffer(pkt) \in Streams
    BY BuffersAreStreams DEF HalfInv, TypeInv, ChanTypeOK, BufTypeOK
  <2>3. \A s \in Streams : numFrames'[s] <= numFrames[s] /\ numFrames'[s] \in Int
    BY <2>1, <2>2
  <2>4. UNCHANGED <<chanVars, readVars>>
    BY <1>1 DEF TakeFrame
  <2>5. HalfFull'
    BY <2>2, <2>3, HalfPositive DEF HalfInv, HalfFull, Half
  <2>6. TargetBuffer(pkt)' = TargetBuffer(pkt)
    BY <2>4 DEF chanVars, idxVars, readVars, TargetBuffer
  <2>7. RoomToStore'
    BY <2>2, <2>3, <2>4, <2>6, HalfPositive DEF HalfInv, RoomToStore, readVars
  <2> QED BY <2>4, <2>5, <2>7
             DEF chanVars, idxVars, readVars, HalfInv, AudioCounted, Filled, Filling
<1>2. CASE ~TakeFrame
  <2>1. UNCHANGED <<chanVars, readVars, numFrames>>
    BY <1>2 DEF RevFrame, RevInit, RevLoopTest, FdSet, Select, IsSet, EventRead,
                EmptyTest, RevEnd, bufVars
  <2> QED BY <2>1, UnchangedHalf DEF chanVars, readVars
<1> QED BY <1>1, <1>2

LEMMA MainHalf ==
  ASSUME HalfInv, TypeInv', MainStep \/ StopRev
  PROVE  HalfFull' /\ AudioCounted' /\ RoomToStore'
<1>1. CASE StartChannel
  BY <1>1 DEF StartChannel, NewDetach, chanVars, idxVars, bufVars, HalfInv, HalfFull, AudioCounted,
              Filled, Filling, RoomToStore, RunOnce
<1>2. CASE ClearCount
  <2>1. numFrames' = [numFrames EXCEPT ![ci] = 0]
    BY <1>2 DEF ClearCount
  <2>2. numFrames \in [Streams -> Int] /\ TargetBuffer(pkt) \in Streams
    BY BuffersAreStreams DEF HalfInv, TypeInv, ChanTypeOK, BufTypeOK
  <2>3. \A s \in Streams : numFrames'[s] \in {0, numFrames[s]}
    BY <2>1, <2>2
  <2>4. UNCHANGED <<chanVars, readVars>>
    BY <1>2 DEF ClearCount
  <2>5. HalfFull'
    BY <2>2, <2>3, HalfPositive DEF HalfInv, HalfFull, Half
  <2>6. TargetBuffer(pkt)' = TargetBuffer(pkt)
    BY <2>4 DEF chanVars, idxVars, readVars, TargetBuffer
  <2>7. RoomToStore'
    BY <2>2, <2>3, <2>4, <2>6, HalfPositive DEF HalfInv, RoomToStore, readVars
  <2> QED BY <2>4, <2>5, <2>7
             DEF chanVars, idxVars, readVars, HalfInv, AudioCounted, Filled, Filling
<1>3. CASE CloseStreams
  <2>1. UNCHANGED <<idxVars, bufVars, readVars>> /\ streamNum' \in {0, streamNum}
    BY <1>3 DEF CloseStreams
  <2>2. HalfFull' /\ RoomToStore'
    BY <2>1 DEF HalfInv, HalfFull, RoomToStore, idxVars, bufVars, readVars, TargetBuffer
  <2>3. \A s \in AudioStreams : ~(s < 0)
    BY ConstantsAssumption DEF AudioStreams, Streams
  <2>5. ~Filling
    BY <1>3 DEF CloseStreams, HalfInv, RunOnce, Released, Releasing, Filling
  <2>4. AudioCounted'
    BY <2>1, <2>3, <2>5 DEF HalfInv, AudioCounted, Filled, Filling, idxVars, readVars
  <2> QED BY <2>2, <2>4
<1>4. CASE ~(StartChannel \/ ClearCount \/ CloseStreams)
  <2>1. UNCHANGED <<rpc, pkt, idxVars, streamNum, numFrames>>
    BY <1>4 DEF MainStep, StopRev, WaitChannelStart, SpawnRev, WaitRev,
                StopChannel, PollExit, StopFails, CloseInput, ClearFrames,
                chanVars, bufVars, readVars
  <2> QED BY <2>1, UnchangedHalf
<1> QED BY <1>1, <1>2, <1>3, <1>4

LEMMA HalfStep ==
  ASSUME NoLateAudio
  PROVE  HalfInv /\ [Next]_vars => HalfInv'
<1> SUFFICES ASSUME HalfInv, [Next]_vars PROVE HalfInv'
  OBVIOUS
<1>1. TypeInv' /\ RunOnce'
  BY StepType, RunOnceStep DEF HalfInv
<1>2. CASE ReadPktTask
  BY <1>1, <1>2, ReadTaskHalf DEF HalfInv
<1>3. CASE RevFrame
  BY <1>1, <1>3, RevFrameHalf DEF HalfInv
<1>4. CASE MainStep \/ StopRev
  BY <1>1, <1>4, MainHalf DEF HalfInv
<1>5. CASE UNCHANGED vars
  BY <1>1, <1>5, UnchangedHalf DEF HalfInv, vars, chanVars, bufVars, readVars
<1> QED BY <1>2, <1>3, <1>4, <1>5 DEF Next

(* No buffer is ever more than half full, for every number of slots,       *)
(* streams and packets: a writer never stores past the end of frameBuf     *)
(* although the audio writer does not look (tsInput.c:712-724).  Excluded  *)
(* are audio streams that appear after the input was opened (the writer    *)
(* checks one buffer and fills another).                                   *)
THEOREM BuffersStayHalfFull ==
  ASSUME NoLateAudio
  PROVE  Spec => []HalfFull
<1>1. HalfInv /\ [Next]_vars => HalfInv'
  BY HalfStep
<1>2. HalfInv => HalfFull
  BY DEF HalfInv
<1> QED BY <1>1, <1>2, InitHalf, PTL DEF Spec
-----------------------------------------------------------------------------
(* What is over before the channel is released.                            *)

RevActive == vpc \in {"top", "fdset", "select", "isset", "wait", "empty", "take", "end"}
RevOver == vpc \in {"none", "gone"}

(* While the receiver runs, u32RevRun says so; main leaves its wait only   *)
(* with u32RevRun at zero, and stays out of the receiver's time after.     *)
RevInv == /\ RevTypeOK
          /\ RevActive => revRun = 1
          /\ mpc = "waitRev" => vpc # "init"
          /\ mpc \notin {"sleep", "waitRev"} => RevOver

LEMMA RevInvStep ==
  ASSUME RevInTime, TypeInv', RevInv, [Next]_vars
  PROVE  RevInv'
<1> USE DEF RevInv, RevActive, RevOver
<1>1. RevTypeOK'
  BY DEF TypeInv
<1>2. CASE ReadPktTask
  <2>1. UNCHANGED <<revVars, mpc>>
    BY <1>2 DEF ReadPktTask, OpenFails, OpenInput, FillIndex, FillAudioNum, FillFrames,
           FillEvent, FillCount, ClearExit, StartReading, LoopTest,
                ReadFrame, ReadNothing, WriteFlagTest, WriteFullTest, DrainTest, DrainRing,
                DrainExpired, StorePkt, PostEvent, NotifyTest, NotifyRing, ExitReadTask,
                mainVars
  <2> QED BY <2>1, <1>1 DEF revVars
<1>3. CASE RevFrame
  BY <1>3, <1>1
     DEF RevFrame, RevInit, RevLoopTest, FdSet, Select, IsSet, EventRead, EmptyTest,
         TakeFrame, RevEnd, NextRole, mainVars
<1>4. CASE SpawnRev
  BY <1>4, <1>1 DEF SpawnRev, NewDetach
<1>5. CASE StopRev
  BY <1>5, <1>1 DEF StopRev
<1>6. CASE WaitRev
  BY <1>6, <1>1 DEF WaitRev, revVars, RevTypeOK
<1>7. CASE MainStep /\ ~SpawnRev /\ ~WaitRev
  <2>1. /\ UNCHANGED revVars
        /\ mpc \notin {"sleep", "waitRev"} /\ mpc' \notin {"sleep", "waitRev"}
    BY <1>7 DEF MainStep, StartChannel, WaitChannelStart, StopChannel, PollExit,
                StopFails, CloseInput, ClearFrames, ClearCount, CloseStreams
  <2> QED BY <2>1, <1>1 DEF revVars
<1>8. CASE UNCHANGED vars
  BY <1>8, <1>1 DEF vars, revVars, mainVars
<1> QED BY <1>2, <1>3, <1>4, <1>5, <1>6, <1>7, <1>8 DEF Next, MainStep

(* When the receiver thread runs within main's ten seconds, the packets    *)
(* and eventfds it uses are released only after it has ended               *)
(* (tsInput.c:1104-1116).                                                  *)
THEOREM ReceiverEndsFirst ==
  ASSUME RevInTime
  PROVE  Spec => []StopAfterReceiver
<1>1. Init => RevInv
  BY InitType DEF TypeInv, Init, RevInv, RevActive, RevOver
<1>2. TypeInv /\ RevInv /\ [Next]_vars => RevInv'
  BY StepType, RevInvStep
<1>3. RevInv => StopAfterReceiver
  BY DEF RevInv, RevOver, StopAfterReceiver, Releasing
<1> QED BY <1>1, <1>2, <1>3, InitType, StepType, PTL DEF Spec

(* The input, the packets and the locks are released only after the read   *)
(* task has left its loop (tsInput.c:402-421).                             *)
THEOREM ReadTaskEndsFirst == Spec => []StopAfterReadTask
<1>1. Init => RunOnce
  BY DEF Init, RunOnce, Released, Releasing
<1>2. TypeInv /\ RunOnce /\ [Next]_vars => RunOnce'
  BY RunOnceStep
<1>3. RunOnce => StopAfterReadTask
  BY DEF RunOnce, Released, StopAfterReadTask
<1> QED BY <1>1, <1>2, <1>3, InitType, StepType, PTL DEF Spec
-----------------------------------------------------------------------------
(* The blocking read of an event.                                          *)

(* The video index names another buffer than the audio index.  They agree  *)
(* only when no stream is video and stream 0 is audio: both are then 0.    *)
VideoApart == (\E s \in Streams : Kind[s] = "video") \/ Kind[0] # "audio"

(* Nothing is announced, and nobody may read, before every stream is       *)
(* filled in; so the two indices the receiver uses no longer move.         *)
QuietBefore == ~Filled => readFlag = 0 /\ \A s \in Streams : ~event[s]
IndexKinds ==
    /\ audioNum > 0 => Kind[abuf] = "audio"
    /\ vbuf = 0 \/ Kind[vbuf] = "video"
    /\ (rpc = "fill" \/ Filling) /\ (\E s \in Streams : s < streamNum /\ Kind[s] = "video")
         => Kind[vbuf] = "video"
    /\ rpc = "fillAudio" => Kind[abuf] = "audio"
    /\ Filling /\ Kind[streamNum] = "video" => Kind[vbuf] = "video"
    /\ Filled /\ (\E s \in Streams : Kind[s] = "video") => Kind[vbuf] = "video"

(* What select reported is still announced until the receiver has read it: *)
(* the video event is consumed by the video read, the audio event by the   *)
(* audio read, each once after a select.                                   *)
InRound == vpc \in {"isset", "wait", "empty", "take"}
Reported ==
    /\ InRound => Filled
    /\ vpc = "isset" /\ role = "video" => \A s \in ready : event[s]
    /\ InRound /\ (role = "video" \/ vpc \in {"isset", "wait"})
         => \A s \in ready \ {vbuf} : event[s]
    /\ vpc = "wait" => event[RoleBuffer] /\ (role = "audio" => audioNum > 0)

EventInv == TypeInv /\ RunOnce /\ QuietBefore /\ IndexKinds /\ Reported

LEMMA IndicesApart ==
  ASSUME VideoApart, IndexKinds, Filled, audioNum > 0
  PROVE  abuf # vbuf
BY DEF VideoApart, IndexKinds

(* Once the streams are filled in, the read task only rings.               *)
LEMMA ReadTaskRings ==
  ASSUME TypeInv, Filled, ReadPktTask
  PROVE  /\ Filled'
         /\ UNCHANGED <<idxVars, revVars>>
         /\ \A s \in Streams : event[s] => event'[s]
<1>0. DrainRing \/ PostEvent \/ NotifyRing \/ event' = event
  BY DEF ReadPktTask, OpenFails, OpenInput, FillIndex, FillAudioNum, FillFrames,
         FillEvent, FillCount, ClearExit, StartReading, LoopTest,
         ReadFrame, ReadNothing, WriteFlagTest, WriteFullTest, DrainTest,
         DrainExpired, StorePkt, NotifyTest, ExitReadTask, Filled, bufVars
<1>1. /\ Filled'
      /\ UNCHANGED <<idxVars, revVars>>
  <2>1. \/ LoopTest \/ ReadFrame \/ ReadNothing \/ WriteFlagTest \/ WriteFullTest
        \/ DrainTest \/ DrainRing \/ DrainExpired \/ StorePkt \/ PostEvent
        \/ NotifyTest \/ NotifyRing \/ ExitReadTask \/ StartReading
    BY DEF ReadPktTask, OpenFails, OpenInput, FillIndex, FillAudioNum, FillFrames,
           FillEvent, FillCount, ClearExit, Filled
  <2>2. CASE LoopTest \/ ReadFrame \/ ReadNothing \/ WriteFlagTest \/ WriteFullTest
    BY <2>2 DEF LoopTest, ReadFrame, ReadNothing, WriteFlagTest, WriteFullTest,
                DropPkt, Filled, chanVars
  <2>3. CASE DrainTest \/ DrainRing \/ DrainExpired \/ StorePkt \/ PostEvent
    BY <2>3 DEF DrainTest, DrainRing, DrainExpired, StorePkt, PostEvent,
                DropPkt, Filled, chanVars
  <2>4. CASE NotifyTest \/ NotifyRing \/ ExitReadTask
    BY <2>4 DEF NotifyTest, NotifyRing, ExitReadTask, Filled, chanVars
  <2>5. CASE StartReading
    BY <2>5 DEF StartReading, Filled
  <2> QED BY <2>1, <2>2, <2>3, <2>4, <2>5
<1>2. event \in [Streams -> BOOLEAN]
  BY DEF TypeInv, BufTypeOK
<1>3. \A s \in Streams : event[s] => event'[s]
  <2>1. CASE event' = event
    BY <2>1
  <2>2. CASE DrainRing \/ PostEvent \/ NotifyRing
    <3>1. PICK b : event' = [event EXCEPT ![b] = TRUE]
      BY <2>2 DEF DrainRing, PostEvent, NotifyRing
    <3> QED BY <3>1, <1>2
  <2> QED BY <1>0, <2>1, <2>2
<1> QED BY <1>1, <1>3

LEMMA ReadTaskQuiet ==
  ASSUME EventInv, TypeInv', ReadPktTask
  PROVE  QuietBefore' /\ IndexKinds'
<1>1. CASE Filled
  <2>1. Filled' /\ UNCHANGED idxVars
    BY <1>1, ReadTaskRings DEF EventInv
  <2> QED BY <1>1, <2>1 DEF EventInv, QuietBefore, IndexKinds, Filled, Filling, idxVars
<1>2. CASE OpenFails
  BY <1>2 DEF OpenFails, chanVars, idxVars, bufVars, EventInv, QuietBefore, IndexKinds, Filled, Filling
<1>3. CASE OpenInput
  <2>1. \A s \in Streams : ~(s < 0)
    BY ConstantsAssumption DEF Streams
  <2> QED BY <1>3, <2>1
             DEF OpenInput, bufVars, EventInv, QuietBefore, IndexKinds, Filled, Filling
<1>6. /\ streamNum \in Nat /\ audioNum \in Nat /\ event \in [Streams -> BOOLEAN]
      /\ \A s \in Streams : s \in Nat
  BY ConstantsAssumption DEF EventInv, TypeInv, ChanTypeOK, BufTypeOK, Streams
<1> USE DEF EventInv, QuietBefore, IndexKinds, Filled, Filling
<1>4. CASE FillIndex
  <2> DEFINE k == Kind[streamNum]
  <2>1. /\ rpc = "fill" /\ UNCHANGED <<readFlag, streamNum, audioNum, event>>
        /\ rpc' = IF k = "audio" THEN "fillAudio" ELSE "fillFrames"
        /\ vbuf' = IF k = "video" THEN streamNum ELSE vbuf
        /\ abuf' = IF k = "audio" /\ audioNum = 0 THEN streamNum ELSE abuf
    BY <1>4 DEF FillIndex, bufVars
  <2>2. QuietBefore'
    BY <2>1
  <2>3. /\ audioNum > 0 => Kind[abuf'] = "audio"
        /\ k = "audio" => Kind[abuf'] = "audio"
    BY <2>1, <1>6
  <2>4. /\ vbuf' = 0 \/ Kind[vbuf'] = "video"
        /\ k = "video" => Kind[vbuf'] = "video"
        /\ (\E s \in Streams : s < streamNum /\ Kind[s] = "video") => Kind[vbuf'] = "video"
    BY <2>1
  <2>5. IndexKinds'
    BY <2>1, <2>3, <2>4
  <2> QED BY <2>2, <2>5
<1>7. CASE FillAudioNum \/ FillFrames \/ FillEvent
  <2>1. /\ Filling /\ UNCHANGED <<readFlag, vbuf, abuf, streamNum>>
        /\ rpc' \in {"fillFrames", "fillEvent", "fillCount"}
        /\ audioNum' = audioNum \/ rpc = "fillAudio"
        /\ event' = event \/ event' = [event EXCEPT ![streamNum] = FALSE]
    BY <1>7 DEF FillAudioNum, FillFrames, FillEvent, chanVars, idxVars, bufVars
  <2>2. \A s \in Streams : ~event'[s]
    BY <2>1, <1>6
  <2>3. QuietBefore'
    BY <2>1, <2>2
  <2>4. IndexKinds'
    BY <2>1
  <2> QED BY <2>3, <2>4
<1>8. CASE FillCount
  <2>1. /\ rpc = "fillCount" /\ rpc' = "fill" /\ UNCHANGED <<readFlag, idxVars, event>>
        /\ streamNum' = streamNum + 1
    BY <1>8 DEF FillCount, bufVars
  <2>2. QuietBefore'
    BY <2>1
  <2>3. ASSUME NEW s \in Streams, s < streamNum', Kind[s] = "video"
        PROVE  Kind[vbuf'] = "video"
    <3>1. s < streamNum \/ s = streamNum
      BY <1>6, <2>1, <2>3
    <3> QED BY <2>1, <2>3, <3>1 DEF idxVars
  <2>4. IndexKinds'
    BY <2>1, <2>3 DEF idxVars
  <2> QED BY <2>2, <2>4
<1>5. CASE ClearExit
  <2>1. \A s \in Streams : s < NumStreams
    BY ConstantsAssumption DEF Streams
  <2> QED BY <1>5, <2>1 DEF ClearExit, idxVars, bufVars
<1> QED BY <1>1, <1>2, <1>3, <1>4, <1>5, <1>7, <1>8
        DEF ReadPktTask, StartReading, LoopTest, ReadFrame, ReadNothing, WriteFlagTest, WriteFullTest, DrainTest, DrainRing,
            DrainExpired, StorePkt, PostEvent, NotifyTest, NotifyRing, ExitReadTask

LEMMA ReadTaskReported ==
  ASSUME EventInv, TypeInv', ReadPktTask
  PROVE  Reported'
<1>1. UNCHANGED revVars
  BY DEF ReadPktTask, OpenFails, OpenInput, FillIndex, FillAudioNum, FillFrames,
           FillEvent, FillCount, ClearExit, StartReading, LoopTest,
         ReadFrame, ReadNothing, WriteFlagTest, WriteFullTest, DrainTest, DrainRing,
         DrainExpired, StorePkt, PostEvent, NotifyTest, NotifyRing, ExitReadTask
<1>2. CASE InRound
  <2>1. /\ Filled'
        /\ UNCHANGED idxVars
        /\ \A s \in Streams : event[s] => event'[s]
    BY <1>2, ReadTaskRings DEF EventInv, Reported
  <2>2. ready \subseteq Streams /\ RoleBuffer \in Streams
    BY BuffersAreStreams DEF EventInv, TypeInv, RevTypeOK, ChanTypeOK
  <2>3. RoleBuffer' = RoleBuffer
    BY <1>1, <2>1 DEF RoleBuffer, idxVars, revVars
  <2> QED BY <1>1, <2>1, <2>2, <2>3 DEF EventInv, Reported, InRound, revVars, idxVars
<1>3. CASE ~InRound
  BY <1>1, <1>3 DEF Reported, InRound, revVars
<1> QED BY <1>2, <1>3

(* The receiver only consumes.                                             *)
LEMMA RevFrameReported ==
  ASSUME VideoApart, EventInv, TypeInv', RevFrame
  PROVE  QuietBefore' /\ IndexKinds' /\ Reported'
<1>1. UNCHANGED <<chanVars, readVars>>
  BY DEF RevFrame, RevInit, RevLoopTest, FdSet, Select, IsSet, EventRead, EmptyTest,
         TakeFrame, RevEnd
<1>2. /\ ready \subseteq Streams /\ RoleBuffer \in Streams /\ watch \subseteq Streams
      /\ role \in {"video", "audio"} /\ event \in [Streams -> BOOLEAN]
  BY BuffersAreStreams DEF EventInv, TypeInv, RevTypeOK, ChanTypeOK, BufTypeOK
<1>3. \A s \in Streams : event'[s] => event[s]
  <2>1. event' = event \/ event' = [event EXCEPT ![RoleBuffer] = FALSE]
    BY DEF RevFrame, RevInit, RevLoopTest, FdSet, Select, IsSet, EventRead, EmptyTest,
           TakeFrame, RevEnd, bufVars
  <2> QED BY <2>1, <1>2
<1>4. QuietBefore' /\ IndexKinds' /\ Filled' = Filled
  BY <1>1, <1>3 DEF EventInv, QuietBefore, IndexKinds, Filled, Filling, chanVars, idxVars, readVars
<1> USE DEF EventInv, Reported, InRound, chanVars, idxVars
<1>5. CASE RevInit \/ RevLoopTest \/ FdSet \/ RevEnd
  <2>1. vpc' \in {"top", "fdset", "select", "end", "gone"}
    BY <1>5 DEF RevInit, RevLoopTest, FdSet, RevEnd
  <2> QED BY <2>1, <1>4
<1>6. CASE Select
  <2>1. CASE tvOk /\ Readable # {}
    <3>1. /\ ready' = Readable /\ role' = "video" /\ vpc' = "isset" /\ event' = event
      BY <1>6, <2>1 DEF Select, bufVars
    <3>2. \A s \in Readable : event[s]
      BY DEF Readable
    <3>3. PICK s \in watch : event[s]
      BY <2>1 DEF Readable
    <3>4. Filled
      BY <3>3, <1>2 DEF QuietBefore
    <3> QED BY <3>1, <3>2, <3>4, <1>4
  <2>2. CASE ~(tvOk /\ Readable # {})
    <3>1. vpc' = "top"
      BY <1>6, <2>2 DEF Select
    <3> QED BY <3>1, <1>4
  <2> QED BY <2>1, <2>2
<1>7. CASE IsSet
  <2>1. vpc = "isset" /\ event' = event /\ ready' = ready /\ Filled
    BY <1>7 DEF IsSet, bufVars
  <2>2. CASE vpc' = "wait"
    <3>1. RoleBuffer \in ready /\ role' = role /\ (role = "audio" => audioNum > 0)
      BY <1>7, <2>1, <2>2 DEF IsSet, NextRole
    <3>2. event[RoleBuffer]
      <4>1. CASE role = "video"
        BY <4>1, <2>1, <3>1
      <4>2. CASE role = "audio"
        <5>1. abuf # vbuf
          BY <4>2, <2>1, <3>1, IndicesApart
        <5> QED BY <5>1, <4>2, <2>1, <3>1 DEF RoleBuffer
      <4> QED BY <4>1, <4>2, <1>2
    <3>3. RoleBuffer' = RoleBuffer
      BY <3>1, <1>1 DEF RoleBuffer
    <3>4. \A s \in ready \ {vbuf} : event[s]
      BY <2>1
    <3> QED BY <1>1, <1>4, <2>1, <2>2, <3>1, <3>2, <3>3, <3>4
  <2>3. CASE vpc' # "wait"
    <3>1. (vpc' = "isset" /\ role' = "audio") \/ vpc' = "top"
      BY <1>7, <2>3 DEF IsSet, NextRole
    <3> QED BY <1>1, <1>4, <2>1, <3>1
  <2> QED BY <2>2, <2>3
<1>8. CASE EventRead
  <2>1. /\ vpc = "wait" /\ vpc' = "empty" /\ role' = role /\ ready' = ready /\ Filled
        /\ event' = [event EXCEPT ![RoleBuffer] = FALSE]
    BY <1>8 DEF EventRead
  <2>2. role = "video" => \A s \in ready \ {vbuf} : event'[s]
    BY <2>1, <1>2 DEF RoleBuffer
  <2> QED BY <1>1, <1>4, <2>1, <2>2
<1>9. CASE EmptyTest \/ TakeFrame
  <2>1. /\ vpc \in {"empty", "take"} /\ event' = event /\ ready' = ready /\ Filled
        /\ \/ vpc' = "take" /\ role' = role
           \/ role = "video" /\ role' = "audio" /\ vpc' = "isset"
           \/ vpc' = "top"
    BY <1>9 DEF EmptyTest, TakeFrame, NextRole, bufVars
  <2> QED BY <1>1, <1>4, <2>1
<1> QED BY <1>5, <1>6, <1>7, <1>8, <1>9 DEF RevFrame

(* Main announces nothing; it starts the threads, and stops the reading.   *)
LEMMA MainReported ==
  ASSUME EventInv, TypeInv', MainStep \/ StopRev
  PROVE  QuietBefore' /\ IndexKinds' /\ Reported'
<1>1. /\ UNCHANGED <<idxVars, event, role, ready>>
      /\ readFlag' \in {0, readFlag}
      /\ rpc' = rpc \/ (mpc = "start" /\ rpc' \in {"open", "failed"})
      /\ vpc' = vpc \/ vpc' \in {"init", "gone"}
      /\ streamNum' = streamNum \/ (mpc = "clear" /\ streamNum' = 0)
    BY DEF MainStep, StopRev, StartChannel, NewDetach, WaitChannelStart, SpawnRev,
           WaitRev, StopChannel, PollExit, StopFails, CloseInput, ClearFrames, ClearCount,
           CloseStreams, chanVars, bufVars, readVars, revVars
<1>2. Filled' = Filled /\ ((rpc' = "fill" \/ Filling') => rpc' = rpc /\ streamNum' = streamNum)
  BY <1>1 DEF EventInv, RunOnce, Filled, Filling, Released, Releasing
<1>3. QuietBefore'
  BY <1>1, <1>2 DEF EventInv, QuietBefore
<1>4. IndexKinds'
  BY <1>1, <1>2 DEF EventInv, IndexKinds, Filling, idxVars
<1>5. Reported'
  BY <1>1, <1>2 DEF EventInv, Reported, InRound, RoleBuffer, idxVars
<1> QED BY <1>3, <1>4, <1>5

(* After select reported a stream, the blocking read of its event returns  *)
(* at once (tsInput.c:581 and 768): the event is cleared by that read only *)
(* and no stream is filled in again, so the receiver never sleeps in it.   *)
(* The one excluded program has no video and its audio in stream 0: both   *)
(* reads then use the same descriptor, which the first one clears.         *)
THEOREM EventReadsReturn ==
  ASSUME VideoApart
  PROVE  Spec => []EventReadReturns
<1>1. Init => EventInv
  <2> SUFFICES ASSUME Init PROVE EventInv
    OBVIOUS
  <2>1. TypeInv
    BY InitType
  <2> QED BY <2>1 DEF Init, EventInv, RunOnce, Released, Releasing, QuietBefore, IndexKinds, Filled, Filling,
                      Reported, InRound
<1>2. EventInv /\ [Next]_vars => EventInv'
  <2> SUFFICES ASSUME EventInv, [Next]_vars PROVE EventInv'
    OBVIOUS
  <2>1. TypeInv' /\ RunOnce'
    BY StepType, RunOnceStep DEF EventInv
  <2>2. CASE ReadPktTask
    BY <2>1, <2>2, ReadTaskQuiet, ReadTaskReported DEF EventInv
  <2>3. CASE RevFrame
    BY <2>1, <2>3, RevFrameReported DEF EventInv
  <2>4. CASE MainStep \/ StopRev
    BY <2>1, <2>4, MainReported DEF EventInv
  <2>5. CASE UNCHANGED vars
    BY <2>1, <2>5 DEF EventInv, QuietBefore, IndexKinds, Filled, Filling, Reported, InRound,
                      RoleBuffer, vars, chanVars, idxVars, bufVars, readVars, revVars
  <2> QED BY <2>2, <2>3, <2>4, <2>5 DEF Next
<1>3. EventInv => EventReadReturns
  BY DEF EventInv, Reported, EventReadReturns
<1> QED BY <1>1, <1>2, <1>3, PTL DEF Spec

-----------------------------------------------------------------------------
(* The packets in the buffers.                                             *)

(* A buffer buf with n counted frames, of a stream whose consumer received *)
(* the packets g: the counted slots hold packets, in input order, all of   *)
(* them newer than what was received.                                      *)
LiveSlots(buf, n, g) ==
    /\ \A i \in 0..(n - 1) : buf[i] \in Pkt
    /\ \A i, k \in 0..(n - 1) : i < k => No(buf[i]) < No(buf[k])
    /\ \A i \in 0..(n - 1) : \A k \in 1..Len(g) : No(g[k]) < No(buf[i])

(* ... and every packet that went through it has a number up to m.         *)
UpTo(buf, n, g, m) ==
    /\ \A i \in 0..(n - 1) : No(buf[i]) <= m
    /\ \A k \in 1..Len(g) : No(g[k]) <= m

(* The packet in hand is the newest one read, until it is stored or        *)
(* dropped; everything stored is older.                                    *)
Holding == rpc \in {"write", "full", "drain", "ring", "expired", "store"}
Newest == IF Holding THEN pos - 1 ELSE pos

Clearing(s) == mpc = "clearCount" /\ ci = s

(* Between freeing its packets and resetting its count a buffer is exempt. *)
StreamInv(s) ==
    /\ numFrames[s] >= 0
    /\ \A k \in 1..Len(got[s]) : No(got[s][k]) <= Newest
    /\ Clearing(s) \/ /\ LiveSlots(frameBuf[s], numFrames[s], got[s])
                      /\ UpTo(frameBuf[s], numFrames[s], got[s], Newest)
SlotsInv == \A s \in Streams : StreamInv(s)

(* The receiver takes from a buffer only while the indices stand still,    *)
(* and nobody else removes a frame between its test and its take; before   *)
(* the streams are filled in there is nothing to take.                     *)
TakeInv == /\ readFlag = 1 => Filled
           /\ ~Filled => \A s \in Streams : numFrames[s] = 0
           /\ vpc \in {"wait", "empty", "take"} => Filled
           /\ vpc = "take" => numFrames[RoleBuffer] > 0

LiveInv == /\ TypeInv /\ RunOnce /\ HalfInv /\ RevInv
           /\ Holding => No(pkt) = pos
           /\ SlotsInv /\ TakeInv

LEMMA PktNumber == \A p \in Pkt : No(p) \in 1..NumPkts /\ No(p) \in Nat /\ p # NoPkt
BY ConstantsAssumption DEF Pkt, No

(* Storing a newer packet behind the counted ones keeps the order.         *)
LEMMA PushLive ==
  ASSUME NEW buf \in [0..(MaxFrames - 1) -> Pkt \cup {NoPkt}],
         NEW n \in Nat, n < MaxFrames,
         NEW g \in Seq(Pkt), NEW p \in Pkt, NEW m \in Int, m < No(p),
         LiveSlots(buf, n, g), UpTo(buf, n, g, m)
  PROVE  /\ LiveSlots([buf EXCEPT ![n] = p], n + 1, g)
         /\ UpTo([buf EXCEPT ![n] = p], n + 1, g, No(p))
<1> DEFINE new == [buf EXCEPT ![n] = p]
<1>1. /\ n \in 0..(MaxFrames - 1) /\ MaxFrames \in Nat
      /\ new[n] = p
      /\ \A i \in 0..(n - 1) : new[i] = buf[i]
  BY ConstantsAssumption
<1>2. \A i \in 0..((n + 1) - 1) : i = n \/ i \in 0..(n - 1)
  OBVIOUS
<1>3. /\ \A i \in 0..(n - 1) : buf[i] \in Pkt /\ No(buf[i]) <= m /\ No(buf[i]) \in Nat
      /\ \A k \in 1..Len(g) : No(g[k]) <= m /\ No(g[k]) \in Nat
      /\ No(p) \in Nat
  BY PktNumber DEF LiveSlots, UpTo
<1> HIDE DEF new
<1>4. \A i \in 0..((n + 1) - 1) : new[i] \in Pkt
  BY <1>1, <1>2, <1>3
<1>5. \A i, k \in 0..((n + 1) - 1) : i < k => No(new[i]) < No(new[k])
  <2> SUFFICES ASSUME NEW i \in 0..((n + 1) - 1), NEW k \in 0..((n + 1) - 1), i < k
               PROVE  No(new[i]) < No(new[k])
    OBVIOUS
  <2>1. i \in 0..(n - 1)
    OBVIOUS
  <2>2. CASE k = n
    BY <1>1, <1>3, <2>1, <2>2
  <2>3. CASE k # n
    BY <1>1, <1>2, <2>1, <2>3 DEF LiveSlots
  <2> QED BY <2>2, <2>3
<1>6. \A i \in 0..((n + 1) - 1) : \A k \in 1..Len(g) : No(g[k]) < No(new[i])
  <2> SUFFICES ASSUME NEW i \in 0..((n + 1) - 1), NEW k \in 1..Len(g)
               PROVE  No(g[k]) < No(new[i])
    OBVIOUS
  <2>1. CASE i = n
    BY <1>1, <1>3, <2>1
  <2>2. CASE i # n
    BY <1>1, <1>2, <2>2 DEF LiveSlots
  <2> QED BY <2>1, <2>2
<1>7. UpTo(new, n + 1, g, No(p))
  <2>1. \A i \in 0..((n + 1) - 1) : No(new[i]) <= No(p)
    <3> SUFFICES ASSUME NEW i \in 0..((n + 1) - 1) PROVE No(new[i]) <= No(p)
      OBVIOUS
    <3>1. CASE i = n
      BY <1>1, <1>3, <3>1
    <3>2. CASE i # n
      BY <1>1, <1>2, <1>3, <3>2
    <3> QED BY <3>1, <3>2
  <2>2. \A k \in 1..Len(g) : No(g[k]) <= No(p)
    BY <1>3
  <2> QED BY <2>1, <2>2 DEF UpTo
<1> QED BY <1>4, <1>5, <1>6, <1>7 DEF LiveSlots, new

(* Taking slot 0 and moving the rest down keeps the order, and what was    *)
(* taken is older than all that stays.                                     *)
LEMMA PopLive ==
  ASSUME NEW buf \in [0..(MaxFrames - 1) -> Pkt \cup {NoPkt}],
         NEW n \in Nat, n > 0, n < MaxFrames,
         NEW g \in Seq(Pkt), NEW m \in Int,
         LiveSlots(buf, n, g), UpTo(buf, n, g, m)
  PROVE  /\ LiveSlots(MoveDown(buf, n), n - 1, Append(g, buf[0]))
         /\ UpTo(MoveDown(buf, n), n - 1, Append(g, buf[0]), m)
<1> DEFINE new == MoveDown(buf, n)
           ng == Append(g, buf[0])
<1>1. /\ MaxFrames \in Nat /\ n - 1 \in Nat
      /\ \A i \in 0..((n - 1) - 1) : i + 1 \in 0..(n - 1) /\ new[i] = buf[i + 1]
  <2>1. MaxFrames \in Nat
    BY ConstantsAssumption
  <2>2. \A i \in 0..((n - 1) - 1) : /\ i \in 0..(MaxFrames - 1)
                                    /\ i < n - 1 /\ i < MaxFrames - 1
                                    /\ i + 1 \in 0..(n - 1)
    BY <2>1
  <2> QED BY <2>1, <2>2 DEF MoveDown
<1>2. /\ 0 \in 0..(n - 1)
      /\ buf[0] \in Pkt
      /\ \A i \in 0..(n - 1) : buf[i] \in Pkt /\ No(buf[i]) <= m /\ No(buf[i]) \in Nat
  BY PktNumber DEF LiveSlots, UpTo
<1>3. /\ Len(ng) = Len(g) + 1 /\ Len(g) \in Nat
      /\ ng[Len(g) + 1] = buf[0]
      /\ \A k \in 1..Len(g) : ng[k] = g[k]
      /\ \A k \in 1..Len(ng) : k \in 1..Len(g) \/ k = Len(g) + 1
  <2>1. g \in Seq(Pkt) /\ buf[0] \in Pkt
    BY <1>2
  <2> QED BY <2>1
<1> HIDE DEF new, ng
<1>4. \A i \in 0..((n - 1) - 1) : new[i] \in Pkt /\ No(new[i]) <= m
  BY <1>1, <1>2
<1>5. \A i, k \in 0..((n - 1) - 1) : i < k => No(new[i]) < No(new[k])
  <2> SUFFICES ASSUME NEW i \in 0..((n - 1) - 1), NEW k \in 0..((n - 1) - 1), i < k
               PROVE  No(new[i]) < No(new[k])
    OBVIOUS
  <2>1. No(buf[i + 1]) < No(buf[k + 1])
    BY <1>1 DEF LiveSlots
  <2> QED BY <2>1, <1>1
<1>6. \A i \in 0..((n - 1) - 1) : \A k \in 1..Len(ng) : No(ng[k]) < No(new[i])
  <2> SUFFICES ASSUME NEW i \in 0..((n - 1) - 1), NEW k \in 1..Len(ng)
               PROVE  No(ng[k]) < No(new[i])
    OBVIOUS
  <2>1. new[i] = buf[i + 1] /\ i + 1 \in 0..(n - 1) /\ 0 < i + 1
    BY <1>1
  <2>2. CASE k \in 1..Len(g)
    BY <2>1, <2>2, <1>3 DEF LiveSlots
  <2>3. CASE k = Len(g) + 1
    BY <2>1, <2>3, <1>2, <1>3 DEF LiveSlots
  <2> QED BY <2>2, <2>3, <1>3
<1>7. \A k \in 1..Len(ng) : No(ng[k]) <= m
  BY <1>2, <1>3 DEF UpTo
<1> QED BY <1>4, <1>5, <1>6, <1>7 DEF LiveSlots, UpTo, new, ng

LEMMA UpToLater ==
  ASSUME NEW buf, NEW n \in Nat, NEW g \in Seq(Pkt), NEW m \in Int, NEW r \in Int, m <= r,
         LiveSlots(buf, n, g), UpTo(buf, n, g, m)
  PROVE  UpTo(buf, n, g, r)
<1>1. /\ \A i \in 0..(n - 1) : No(buf[i]) \in Nat
      /\ \A k \in 1..Len(g) : No(g[k]) \in Nat
  BY PktNumber DEF LiveSlots
<1> QED BY <1>1 DEF UpTo

LEMMA LiveTypes ==
  ASSUME LiveInv
  PROVE  /\ Newest \in Int /\ pos \in Nat /\ Half < MaxFrames
         /\ RoleBuffer \in Streams /\ TargetBuffer(pkt) \in Streams
         /\ numFrames \in [Streams -> Int]
         /\ frameBuf \in [Streams -> [0..(MaxFrames - 1) -> Pkt \cup {NoPkt}]]
         /\ got \in [Streams -> Seq(Pkt)]
         /\ \A s \in Streams : numFrames[s] \in Nat /\ numFrames[s] < MaxFrames
<1>1. /\ RoleBuffer \in Streams /\ TargetBuffer(pkt) \in Streams
      /\ numFrames \in [Streams -> Int]
      /\ frameBuf \in [Streams -> [0..(MaxFrames - 1) -> Pkt \cup {NoPkt}]]
      /\ got \in [Streams -> Seq(Pkt)]
  BY BuffersAreStreams DEF LiveInv, TypeInv, ChanTypeOK, BufTypeOK
<1>2. pos \in Nat /\ Newest \in Int
  BY ConstantsAssumption DEF LiveInv, TypeInv, ReadInv, ReadTypeOK, Newest
<1>3. Half < MaxFrames /\ Half \in Nat
  BY ConstantsAssumption DEF Half
<1>4. \A s \in Streams : numFrames[s] >= 0 /\ numFrames[s] <= Half
  BY DEF LiveInv, HalfInv, HalfFull, Half, SlotsInv, StreamInv
<1>5. \A s \in Streams : numFrames[s] \in Nat /\ numFrames[s] < MaxFrames
  <2> SUFFICES ASSUME NEW s \in Streams PROVE numFrames[s] \in Nat /\ numFrames[s] < MaxFrames
    OBVIOUS
  <2>1. numFrames[s] \in Int /\ numFrames[s] >= 0 /\ numFrames[s] <= Half
    BY <1>1, <1>4
  <2> QED BY <2>1, <1>3, ConstantsAssumption
<1> QED BY <1>1, <1>2, <1>3, <1>5

(* A step that leaves a stream's buffer and its consumer alone.            *)
LEMMA KeepsStream ==
  ASSUME LiveInv, NEW s \in Streams,
         Newest' \in Int, Newest <= Newest',
         numFrames'[s] = numFrames[s], frameBuf'[s] = frameBuf[s], got'[s] = got[s],
         Clearing(s) => Clearing(s)'
  PROVE  StreamInv(s)'
<1>1. /\ Newest \in Int /\ numFrames[s] \in Nat /\ got[s] \in Seq(Pkt)
  BY LiveTypes
<1>2. StreamInv(s)
  BY DEF LiveInv, SlotsInv
<1>3. \A k \in 1..Len(got[s]) : No(got[s][k]) <= Newest'
  <2>1. \A k \in 1..Len(got[s]) : No(got[s][k]) <= Newest /\ No(got[s][k]) \in Nat
    BY <1>1, <1>2, PktNumber DEF StreamInv
  <2> HIDE DEF Newest
  <2> QED BY <2>1, <1>1
<1>4. CASE Clearing(s)
  BY <1>2, <1>3, <1>4 DEF StreamInv
<1>5. CASE ~Clearing(s)
  <2>1. LiveSlots(frameBuf[s], numFrames[s], got[s])
    BY <1>2, <1>5 DEF StreamInv
  <2>2. UpTo(frameBuf[s], numFrames[s], got[s], Newest')
    BY <1>1, <1>2, <1>5, <2>1, UpToLater DEF StreamInv
  <2>3. LiveSlots(frameBuf[s], numFrames[s], got[s])'
    BY <2>1 DEF LiveSlots
  <2>4. UpTo(frameBuf[s], numFrames[s], got[s], Newest)'
    BY <2>2 DEF UpTo
  <2> QED BY <1>2, <1>3, <2>3, <2>4 DEF StreamInv
<1> QED BY <1>4, <1>5

(* A stream whose count is reset holds nothing.                            *)
LEMMA EmptiesStream ==
  ASSUME LiveInv, NEW s \in Streams,
         Newest' = Newest, numFrames'[s] = 0, got'[s] = got[s]
  PROVE  StreamInv(s)'
<1>1. \A k \in 1..Len(got'[s]) : No(got'[s][k]) <= Newest'
  BY DEF LiveInv, SlotsInv, StreamInv
<1>2. \A i \in 0..(0 - 1) : FALSE
  OBVIOUS
<1>3. /\ LiveSlots(frameBuf[s], numFrames[s], got[s])'
      /\ UpTo(frameBuf[s], numFrames[s], got[s], Newest)'
  BY <1>1, <1>2 DEF LiveSlots, UpTo
<1> QED BY <1>1, <1>3 DEF StreamInv

(* While a thread works, main frees no packet.                             *)
LEMMA WorkingNotClearing ==
  ASSUME LiveInv, rpc # "gone" \/ ~RevOver
  PROVE  \A s \in Streams : ~Clearing(s)
BY DEF LiveInv, RunOnce, RevInv, Released, Releasing, Clearing

(* What a store does: it fills the first free slot of a buffer with room,  *)
(* with a packet newer than any the buffer has seen.                       *)
LEMMA StoreEffect ==
  ASSUME LiveInv, StorePkt
  PROVE  LET b == TargetBuffer(pkt) IN
         /\ b \in Streams /\ pkt \in Pkt /\ numFrames[b] < Half
         /\ numFrames' = [numFrames EXCEPT ![b] = numFrames[b] + 1]
         /\ frameBuf' = [frameBuf EXCEPT ![b] = [frameBuf[b] EXCEPT ![numFrames[b]] = pkt]]
         /\ got' = got /\ mpc' = mpc /\ ci' = ci
         /\ Newest < No(pkt) /\ Newest' = No(pkt)
         /\ LiveSlots(frameBuf[b], numFrames[b], got[b])
         /\ UpTo(frameBuf[b], numFrames[b], got[b], Newest)
<1> DEFINE b == TargetBuffer(pkt)
<1>1. /\ b \in Streams /\ numFrames[b] \in 0..(MaxFrames - 1) /\ pos \in Nat
      /\ numFrames[b] < Half
  <2>1. b \in Streams /\ numFrames[b] \in Nat /\ numFrames[b] < MaxFrames /\ pos \in Nat
    BY LiveTypes
  <2>2. numFrames[b] < Half
    BY DEF LiveInv, HalfInv, RoomToStore, StorePkt
  <2>3. MaxFrames \in Nat
    BY ConstantsAssumption
  <2> HIDE DEF b
  <2> QED BY <2>1, <2>2, <2>3
<1>2. /\ pkt \in Pkt /\ No(pkt) = pos /\ Newest = pos - 1 /\ Newest' = pos
  BY DEF LiveInv, TypeInv, ReadInv, Writing, Holding, Newest, StorePkt
<1>3. ~Clearing(b) /\ StreamInv(b)
  BY <1>1, WorkingNotClearing DEF StorePkt, LiveInv, SlotsInv
<1>4. /\ LiveSlots(frameBuf[b], numFrames[b], got[b])
      /\ UpTo(frameBuf[b], numFrames[b], got[b], Newest)
  BY <1>3 DEF StreamInv
<1>5. /\ numFrames' = [numFrames EXCEPT ![b] = numFrames[b] + 1]
      /\ frameBuf' = [frameBuf EXCEPT ![b] = [frameBuf[b] EXCEPT ![numFrames[b]] = pkt]]
      /\ got' = got /\ mpc' = mpc /\ ci' = ci
  BY <1>1 DEF StorePkt, mainVars
<1> QED BY <1>1, <1>2, <1>4, <1>5

LEMMA StoreLive ==
  ASSUME LiveInv, StorePkt
  PROVE  SlotsInv'
<1> USE LiveTypes
<1>0. PICK b \in Streams : b = TargetBuffer(pkt)
  OBVIOUS
<1>1. /\ b \in Streams /\ pkt \in Pkt /\ No(pkt) \in Int
      /\ numFrames' = [numFrames EXCEPT ![b] = numFrames[b] + 1]
      /\ frameBuf' = [frameBuf EXCEPT ![b] = [frameBuf[b] EXCEPT ![numFrames[b]] = pkt]]
      /\ got' = got /\ mpc' = mpc /\ ci' = ci
      /\ Newest < No(pkt) /\ Newest' = No(pkt) /\ Newest \in Int
  BY <1>0, StoreEffect, PktNumber
<1>2. /\ numFrames[b] \in Nat /\ numFrames[b] < MaxFrames /\ got[b] \in Seq(Pkt)
      /\ frameBuf[b] \in [0..(MaxFrames - 1) -> Pkt \cup {NoPkt}]
  BY <1>1
<1>3. /\ LiveSlots([frameBuf[b] EXCEPT ![numFrames[b]] = pkt], numFrames[b] + 1, got[b])
      /\ UpTo([frameBuf[b] EXCEPT ![numFrames[b]] = pkt], numFrames[b] + 1, got[b], No(pkt))
  BY <1>0, <1>1, <1>2, StoreEffect, PushLive
<1>4. /\ numFrames'[b] = numFrames[b] + 1 /\ got'[b] = got[b]
      /\ frameBuf'[b] = [frameBuf[b] EXCEPT ![numFrames[b]] = pkt]
  BY <1>1
<1>5. StreamInv(b)'
  <2>1. LiveSlots(frameBuf[b], numFrames[b], got[b])'
    BY <1>3, <1>4 DEF LiveSlots
  <2>2. UpTo(frameBuf[b], numFrames[b], got[b], Newest)'
    BY <1>1, <1>3, <1>4 DEF UpTo
  <2>3. numFrames'[b] >= 0
    BY <1>2, <1>4
  <2>4. \A k \in 1..Len(got'[b]) : No(got'[b][k]) <= Newest'
    BY <2>2 DEF UpTo
  <2> QED BY <2>1, <2>2, <2>3, <2>4 DEF StreamInv
<1>6. \A s \in Streams \ {b} : StreamInv(s)'
  <2> SUFFICES ASSUME NEW s \in Streams, s # b PROVE StreamInv(s)'
    OBVIOUS
  <2>1. /\ numFrames'[s] = numFrames[s] /\ frameBuf'[s] = frameBuf[s] /\ got'[s] = got[s]
        /\ Clearing(s) => Clearing(s)'
        /\ Newest' \in Int /\ Newest <= Newest'
    BY <1>1 DEF Clearing
  <2> QED BY <2>1, KeepsStream
<1> QED BY <1>5, <1>6 DEF SlotsInv

(* What a take does: slot 0 of a buffer that is not empty goes to the      *)
(* consumer, and the rest moves down.                                      *)
LEMMA TakeEffect ==
  ASSUME LiveInv, TakeFrame
  PROVE  LET b == RoleBuffer IN
         /\ b \in Streams /\ numFrames[b] > 0
         /\ numFrames' = [numFrames EXCEPT ![b] = numFrames[b] - 1]
         /\ frameBuf' = [frameBuf EXCEPT ![b] = MoveDown(frameBuf[b], numFrames[b])]
         /\ got' = [got EXCEPT ![b] = Append(got[b], frameBuf[b][0])]
         /\ mpc' = mpc /\ ci' = ci /\ Newest' = Newest
         /\ LiveSlots(frameBuf[b], numFrames[b], got[b])
         /\ UpTo(frameBuf[b], numFrames[b], got[b], Newest)
<1> DEFINE b == RoleBuffer
<1>1. b \in Streams /\ numFrames[b] > 0
  BY LiveTypes DEF LiveInv, TakeInv, TakeFrame
<1>2. ~Clearing(b) /\ StreamInv(b)
  BY <1>1, WorkingNotClearing DEF TakeFrame, RevOver, LiveInv, SlotsInv
<1>3. /\ LiveSlots(frameBuf[b], numFrames[b], got[b])
      /\ UpTo(frameBuf[b], numFrames[b], got[b], Newest)
  BY <1>2 DEF StreamInv
<1>4. /\ numFrames' = [numFrames EXCEPT ![b] = numFrames[b] - 1]
      /\ frameBuf' = [frameBuf EXCEPT ![b] = MoveDown(frameBuf[b], numFrames[b])]
      /\ got' = [got EXCEPT ![b] = Append(got[b], frameBuf[b][0])]
      /\ mpc' = mpc /\ ci' = ci
      /\ Newest' = Newest
  BY DEF TakeFrame, mainVars, readVars, Newest, Holding
<1> QED BY <1>1, <1>3, <1>4

LEMMA TakeLive ==
  ASSUME LiveInv, TakeFrame
  PROVE  SlotsInv'
<1> USE LiveTypes
<1>0. PICK b \in Streams : b = RoleBuffer
  OBVIOUS
<1>1. /\ b \in Streams /\ numFrames[b] > 0
      /\ numFrames' = [numFrames EXCEPT ![b] = numFrames[b] - 1]
      /\ frameBuf' = [frameBuf EXCEPT ![b] = MoveDown(frameBuf[b], numFrames[b])]
      /\ got' = [got EXCEPT ![b] = Append(got[b], frameBuf[b][0])]
      /\ mpc' = mpc /\ ci' = ci /\ Newest' = Newest /\ Newest \in Int
  BY <1>0, TakeEffect
<1>2. /\ numFrames[b] \in Nat /\ numFrames[b] < MaxFrames /\ got[b] \in Seq(Pkt)
      /\ frameBuf[b] \in [0..(MaxFrames - 1) -> Pkt \cup {NoPkt}]
  BY <1>1
<1>3. /\ LiveSlots(MoveDown(frameBuf[b], numFrames[b]), numFrames[b] - 1,
                   Append(got[b], frameBuf[b][0]))
      /\ UpTo(MoveDown(frameBuf[b], numFrames[b]), numFrames[b] - 1,
              Append(got[b], frameBuf[b][0]), Newest)
  BY <1>0, <1>1, <1>2, TakeEffect, PopLive
<1>4. /\ numFrames'[b] = numFrames[b] - 1
      /\ frameBuf'[b] = MoveDown(frameBuf[b], numFrames[b])
      /\ got'[b] = Append(got[b], frameBuf[b][0])
  BY <1>1
<1>5. StreamInv(b)'
  <2>1. LiveSlots(frameBuf[b], numFrames[b], got[b])'
    BY <1>3, <1>4 DEF LiveSlots
  <2>2. UpTo(frameBuf[b], numFrames[b], got[b], Newest)'
    BY <1>1, <1>3, <1>4 DEF UpTo
  <2>3. numFrames'[b] >= 0
    BY <1>1, <1>2, <1>4
  <2>4. \A k \in 1..Len(got'[b]) : No(got'[b][k]) <= Newest'
    BY <2>2 DEF UpTo
  <2> QED BY <2>1, <2>2, <2>3, <2>4 DEF StreamInv
<1>6. \A s \in Streams \ {b} : StreamInv(s)'
  <2> SUFFICES ASSUME NEW s \in Streams, s # b PROVE StreamInv(s)'
    OBVIOUS
  <2>1. /\ numFrames'[s] = numFrames[s] /\ frameBuf'[s] = frameBuf[s] /\ got'[s] = got[s]
        /\ Clearing(s) => Clearing(s)'
        /\ Newest' \in Int /\ Newest <= Newest'
    BY <1>1 DEF Clearing
  <2> QED BY <2>1, KeepsStream
<1> QED BY <1>5, <1>6 DEF SlotsInv

(* The steps that touch no slot, no count and no received packet.          *)
LEMMA KeepsSlots ==
  ASSUME LiveInv, Newest' \in Int, Newest <= Newest',
         UNCHANGED <<numFrames, frameBuf, got>>,
         \A s \in Streams : Clearing(s) => Clearing(s)'
  PROVE  SlotsInv'
BY KeepsStream DEF SlotsInv

LEMMA ReadTaskSlots ==
  ASSUME LiveInv, TypeInv', ReadPktTask
  PROVE  SlotsInv' /\ (Holding => No(pkt) = pos)'
<1> USE LiveTypes
<1>1. UNCHANGED <<mpc, ci>> /\ pos \in Nat /\ pos' \in Nat /\ Newest \in Int
  <2>1. UNCHANGED mainVars
    BY DEF ReadPktTask, OpenFails, OpenInput, FillIndex, FillAudioNum, FillFrames,
           FillEvent, FillCount, ClearExit, StartReading, LoopTest,
           ReadFrame, ReadNothing, WriteFlagTest, WriteFullTest, DrainTest, DrainRing,
           DrainExpired, StorePkt, PostEvent, NotifyTest, NotifyRing, ExitReadTask,
           mainVars
  <2>2. pos' \in Nat
    BY ConstantsAssumption DEF TypeInv, ReadInv, ReadTypeOK
  <2> QED BY <2>1, <2>2 DEF mainVars
<1>2. \A s \in Streams : Clearing(s) => Clearing(s)'
  BY <1>1 DEF Clearing
<1>3. CASE StorePkt
  BY <1>3, StoreLive DEF StorePkt, Holding
<1>4. CASE FillFrames
  <2>1. /\ streamNum \in Streams /\ UNCHANGED <<got, frameBuf, pos>>
        /\ numFrames' = [numFrames EXCEPT ![streamNum] = 0]
        /\ ~Holding /\ ~Holding'
    BY <1>4, ConstantsAssumption
       DEF FillFrames, LiveInv, TypeInv, ChanTypeOK, FillInv, Filling, Streams, Holding
  <2>2. Newest' = Newest /\ (Holding => No(pkt) = pos)'
    BY <2>1 DEF Newest
  <2>3. PICK b \in Streams : b = streamNum
    BY <2>1
  <2>4. StreamInv(b)'
    BY <2>1, <2>2, <2>3, EmptiesStream
  <2>5. \A s \in Streams \ {b} : StreamInv(s)'
    <3> SUFFICES ASSUME NEW s \in Streams, s # b PROVE StreamInv(s)'
      OBVIOUS
    <3>1. /\ numFrames'[s] = numFrames[s] /\ frameBuf'[s] = frameBuf[s] /\ got'[s] = got[s]
          /\ Newest' \in Int /\ Newest <= Newest'
      BY <2>1, <2>2, <2>3, <1>1
    <3> QED BY <3>1, <1>2, KeepsStream
  <2> QED BY <2>2, <2>4, <2>5 DEF SlotsInv
<1>5. CASE ReadFrame
  <2>1. /\ UNCHANGED <<numFrames, frameBuf, got>>
        /\ pos' = pos + 1 /\ No(pkt') = pos + 1 /\ ~Holding /\ Holding'
    BY <1>5 DEF ReadFrame, bufVars, No, Holding
  <2>2. Newest' = pos /\ Newest = pos
    BY <2>1 DEF Newest
  <2> QED BY <2>1, <2>2, <1>1, <1>2, KeepsSlots
<1>6. CASE ~(StorePkt \/ FillFrames \/ ReadFrame)
  <2>1. /\ UNCHANGED <<numFrames, frameBuf, got, pos>>
        /\ Holding' => Holding /\ pkt' = pkt
    BY <1>6
       DEF ReadPktTask, OpenFails, OpenInput, FillIndex, FillAudioNum, FillEvent, FillCount,
           ClearExit, StartReading, LoopTest,
           ReadNothing, WriteFlagTest, WriteFullTest, DrainTest, DrainRing,
           DrainExpired, PostEvent, NotifyTest, NotifyRing, ExitReadTask,
           bufVars, DropPkt, Holding
  <2>2. Newest' \in {Newest, pos} /\ Newest <= pos
    BY <2>1, <1>1 DEF Newest
  <2>3. Newest' \in Int /\ Newest <= Newest'
    BY <2>2, <1>1
  <2> QED BY <2>1, <2>3, <1>2, KeepsSlots DEF LiveInv
<1> QED BY <1>3, <1>4, <1>5, <1>6

LEMMA RevFrameSlots ==
  ASSUME LiveInv, TypeInv', RevFrame
  PROVE  SlotsInv' /\ (Holding => No(pkt) = pos)'
<1>1. UNCHANGED <<readVars, mainVars>>
  BY DEF RevFrame, RevInit, RevLoopTest, FdSet, Select, IsSet, EventRead, EmptyTest,
         TakeFrame, RevEnd
<1>2. /\ Newest' = Newest /\ (Holding => No(pkt) = pos)'
      /\ \A s \in Streams : Clearing(s) => Clearing(s)'
  BY <1>1 DEF LiveInv, Newest, Holding, readVars, mainVars, Clearing
<1>3. Newest' \in Int /\ Newest <= Newest'
  BY <1>2, LiveTypes
<1>4. CASE TakeFrame
  BY <1>2, <1>4, TakeLive
<1>5. CASE ~TakeFrame
  <2>1. UNCHANGED <<numFrames, frameBuf, got>>
    BY <1>5 DEF RevFrame, RevInit, RevLoopTest, FdSet, Select, IsSet, EventRead, EmptyTest,
                RevEnd, bufVars
  <2> QED BY <2>1, <1>2, <1>3, KeepsSlots
<1> QED BY <1>4, <1>5

LEMMA MainSlots ==
  ASSUME LiveInv, TypeInv', MainStep \/ StopRev
  PROVE  SlotsInv' /\ (Holding => No(pkt) = pos)'
<1> USE LiveTypes
<1>1. /\ UNCHANGED <<pkt, pos, got>>
      /\ rpc' = rpc \/ (mpc = "start" /\ rpc' \in {"open", "failed"})
  BY DEF MainStep, StopRev, StartChannel, NewDetach, WaitChannelStart, SpawnRev,
         WaitRev, StopChannel, PollExit, StopFails, CloseInput, ClearFrames, ClearCount,
         CloseStreams, readVars, bufVars
<1>2. Holding' = Holding
  BY <1>1 DEF LiveInv, RunOnce, Holding
<1>3. /\ Newest' = Newest /\ (Holding => No(pkt) = pos)'
      /\ Newest' \in Int /\ Newest <= Newest'
  BY <1>1, <1>2 DEF LiveInv, Newest
<1>4. CASE ClearFrames
  <2>1. /\ UNCHANGED <<numFrames, got>> /\ mpc # "clearCount"
        /\ mpc' = "clearCount" /\ ci' = ci
        /\ \A s \in Streams \ {ci} : frameBuf'[s] = frameBuf[s]
    BY <1>4 DEF ClearFrames
  <2>2. SUFFICES ASSUME NEW s \in Streams PROVE StreamInv(s)'
    BY <1>3 DEF SlotsInv
  <2>3. CASE s = ci
    BY <2>1, <2>3, <1>3 DEF LiveInv, SlotsInv, StreamInv, Clearing
  <2>4. CASE s # ci
    <3>1. ~Clearing(s)
      BY <2>1 DEF Clearing
    <3> QED BY <3>1, <2>1, <2>4, <1>3, KeepsStream
  <2> QED BY <2>3, <2>4
<1>5. CASE ClearCount
  <2>1. /\ UNCHANGED <<frameBuf, got>> /\ ci \in Streams
        /\ numFrames' = [numFrames EXCEPT ![ci] = 0]
    BY <1>5 DEF ClearCount, LiveInv, TypeInv, MainInv
  <2>2. SUFFICES ASSUME NEW s \in Streams PROVE StreamInv(s)'
    BY <1>3 DEF SlotsInv
  <2>3. CASE s = ci
    BY <2>1, <2>3, <1>3, EmptiesStream
  <2>4. CASE s # ci
    <3>1. ~Clearing(s)
      BY <2>4 DEF Clearing
    <3> QED BY <3>1, <2>1, <2>4, <1>3, KeepsStream
  <2> QED BY <2>3, <2>4
<1>6. CASE ~(ClearFrames \/ ClearCount)
  <2>1. /\ UNCHANGED <<numFrames, frameBuf, got>> /\ mpc # "clearCount"
    BY <1>6 DEF MainStep, StopRev, StartChannel, WaitChannelStart, SpawnRev,
                WaitRev, StopChannel, PollExit, StopFails, CloseInput, CloseStreams, bufVars
  <2> QED BY <2>1, <1>3, KeepsSlots DEF Clearing
<1> QED BY <1>4, <1>5, <1>6

(* Before the streams are filled in, nothing is stored.                    *)
NothingYet == ~Filled => \A s \in Streams : numFrames[s] = 0

LEMMA NothingYetStep ==
  ASSUME LiveInv, [Next]_vars
  PROVE  NothingYet'
<1>1. NothingYet /\ numFrames \in [Streams -> Int]
  BY LiveTypes DEF LiveInv, TakeInv, NothingYet
<1>2. CASE ReadPktTask
  <2>1. CASE Filled
    <3>1. Filled'
      BY <1>2, <2>1, ReadTaskRings DEF LiveInv
    <3> QED BY <3>1 DEF NothingYet
  <2>2. CASE ~Filled
    <3>1. \/ numFrames' = numFrames
          \/ numFrames' = [numFrames EXCEPT ![streamNum] = 0]
      BY <1>2, <2>2
         DEF ReadPktTask, FillFrames, StorePkt, Filled, bufVars, OpenFails, OpenInput,
             FillIndex, FillAudioNum, FillEvent, FillCount, ClearExit, StartReading,
             LoopTest, ReadFrame, ReadNothing, WriteFlagTest, WriteFullTest, DrainTest,
             DrainRing, DrainExpired, PostEvent, NotifyTest, NotifyRing, ExitReadTask
    <3>2. \A s \in Streams : numFrames'[s] = 0
      BY <1>1, <2>2, <3>1 DEF NothingYet
    <3> QED BY <3>2 DEF NothingYet
  <2> QED BY <2>1, <2>2
<1>3. CASE RevFrame
  <2>1. UNCHANGED readVars /\ (numFrames' = numFrames \/ vpc = "take")
    BY <1>3 DEF RevFrame, RevInit, RevLoopTest, FdSet, Select, IsSet, EventRead,
                EmptyTest, TakeFrame, RevEnd, bufVars
  <2>2. ~Filled => vpc # "take"
    BY DEF LiveInv, TakeInv
  <2> QED BY <1>1, <2>1, <2>2 DEF NothingYet, Filled, readVars
<1>4. CASE MainStep \/ StopRev
  <2>1. /\ rpc' = rpc \/ (mpc = "start" /\ rpc' \in {"open", "failed"})
        /\ numFrames' = numFrames \/ numFrames' = [numFrames EXCEPT ![ci] = 0]
    BY <1>4 DEF MainStep, StopRev, StartChannel, NewDetach, WaitChannelStart, SpawnRev,
           WaitRev, StopChannel, PollExit, StopFails, CloseInput, ClearFrames, ClearCount,
           CloseStreams, bufVars, readVars
  <2>2. Filled' = Filled
    BY <2>1 DEF LiveInv, RunOnce, Filled
  <2> QED BY <1>1, <2>1, <2>2 DEF NothingYet
<1>5. CASE UNCHANGED vars
  BY <1>1, <1>5 DEF NothingYet, Filled, vars, bufVars, readVars
<1> QED BY <1>2, <1>3, <1>4, <1>5 DEF Next

LEMMA TakeInvStep ==
  ASSUME LiveInv, TypeInv', [Next]_vars
  PROVE  TakeInv'
<1> USE LiveTypes DEF TakeInv
<1>0. TakeInv
  BY DEF LiveInv
<1>5. (~Filled => \A s \in Streams : numFrames[s] = 0)'
  BY NothingYetStep DEF NothingYet
<1>1. CASE ReadPktTask
  <2>1. vpc' = vpc /\ role' = role
    BY <1>1 DEF ReadPktTask, OpenFails, OpenInput, FillIndex, FillAudioNum, FillFrames,
           FillEvent, FillCount, ClearExit, StartReading, LoopTest,
         ReadFrame, ReadNothing, WriteFlagTest, WriteFullTest, DrainTest, DrainRing,
         DrainExpired, StorePkt, PostEvent, NotifyTest, NotifyRing, ExitReadTask, revVars
  <2>2. CASE Filled
    <3>1. Filled' /\ UNCHANGED idxVars
      BY <1>1, <2>2, ReadTaskRings DEF LiveInv
    <3>2. RoleBuffer' = RoleBuffer
      BY <2>1, <3>1 DEF RoleBuffer, idxVars
    <3>3. \A s \in Streams : numFrames'[s] >= numFrames[s]
      <4>1. CASE StorePkt
        BY <4>1 DEF StorePkt
      <4>2. CASE ~StorePkt
        <5>1. numFrames' = numFrames
          BY <1>1, <2>2, <4>2 DEF ReadPktTask, OpenFails, OpenInput, FillIndex, FillAudioNum, FillFrames, FillEvent, FillCount, ClearExit,
            StartReading,
               LoopTest, ReadFrame, ReadNothing, WriteFlagTest, WriteFullTest, DrainTest,
               DrainRing, DrainExpired, PostEvent, NotifyTest, NotifyRing, ExitReadTask,
               Filled, bufVars
        <5> QED BY <5>1
      <4> QED BY <4>1, <4>2
    <3>4. vpc = "take" => numFrames'[RoleBuffer] > 0
      <4>1. /\ numFrames[RoleBuffer] \in Int
            /\ numFrames'[RoleBuffer] \in Int
            /\ numFrames'[RoleBuffer] >= numFrames[RoleBuffer]
        BY <3>3 DEF TypeInv, BufTypeOK
      <4> QED BY <4>1, <1>0
    <3> QED BY <1>0, <1>5, <2>1, <2>2, <3>1, <3>2, <3>4
  <2>3. CASE ~Filled
    <3>1. readFlag' = readFlag \/ Filled'
      BY <1>1, <2>3 DEF ReadPktTask, OpenFails, OpenInput, FillIndex, FillAudioNum, FillFrames,
           FillEvent, FillCount, ClearExit, StartReading, LoopTest,
         ReadFrame, ReadNothing, WriteFlagTest, WriteFullTest, DrainTest, DrainRing,
         DrainExpired, StorePkt, PostEvent, NotifyTest, NotifyRing, ExitReadTask,
         Filled, chanVars
    <3> QED BY <1>0, <1>5, <2>1, <2>3, <3>1
  <2> QED BY <2>2, <2>3
<1>2. CASE RevFrame
  <2>1. Filled' = Filled /\ readFlag' = readFlag
    BY <1>2 DEF RevFrame, RevInit, RevLoopTest, FdSet, Select, IsSet, EventRead, EmptyTest,
                TakeFrame, RevEnd, Filled, chanVars, readVars
  <2>2. vpc' \in {"wait", "empty", "take"} => vpc \in {"wait", "empty", "take"} \/ readFlag = 1
    BY <1>2 DEF RevFrame, RevInit, RevLoopTest, FdSet, Select, IsSet, EventRead, EmptyTest,
                TakeFrame, RevEnd, NextRole
  <2>3. vpc' = "take" => numFrames'[RoleBuffer'] > 0
    <3>1. CASE vpc' = "take"
      <4>1. EmptyTest /\ ~NoFrames(numFrames[RoleBuffer])
        BY <1>2, <3>1 DEF RevFrame, RevInit, RevLoopTest, FdSet, Select, IsSet, EventRead,
                          EmptyTest, TakeFrame, RevEnd, NextRole
      <4>2. UNCHANGED <<numFrames, role, idxVars>>
        BY <3>1, <4>1 DEF EmptyTest, bufVars, chanVars
      <4>3. RoleBuffer' = RoleBuffer /\ numFrames[RoleBuffer] \in Int
        BY <4>2 DEF RoleBuffer, idxVars
      <4>4. numFrames[RoleBuffer] > 0
        BY <4>1, <4>3 DEF NoFrames
      <4> QED BY <4>2, <4>3, <4>4
    <3> QED BY <3>1
  <2> QED BY <1>0, <1>5, <2>1, <2>2, <2>3
<1>3. CASE MainStep \/ StopRev
  <2>1. /\ UNCHANGED <<idxVars, role>>
        /\ readFlag' \in {0, readFlag}
        /\ rpc' = rpc \/ (mpc = "start" /\ rpc' \in {"open", "failed"})
        /\ vpc' = vpc \/ vpc' \in {"init", "gone"}
        /\ numFrames' = numFrames \/ mpc = "clearCount"
    BY <1>3 DEF MainStep, StopRev, StartChannel, NewDetach, WaitChannelStart, SpawnRev,
           WaitRev, StopChannel, PollExit, StopFails, CloseInput, ClearFrames, ClearCount,
           CloseStreams, chanVars, bufVars, readVars, revVars
  <2>2. Filled' = Filled
    BY <2>1 DEF LiveInv, RunOnce, Filled
  <2>3. vpc = "take" => numFrames' = numFrames
    BY <2>1 DEF LiveInv, RevInv, RevOver
  <2>4. RoleBuffer' = RoleBuffer
    BY <2>1 DEF RoleBuffer, idxVars
  <2> QED BY <1>0, <1>5, <2>1, <2>2, <2>3, <2>4
<1>4. CASE UNCHANGED vars
  BY <1>0, <1>4, <1>5 DEF RoleBuffer, Filled, vars, chanVars, idxVars, bufVars, readVars, revVars
<1> QED BY <1>1, <1>2, <1>3, <1>4 DEF Next

LEMMA InitLive == Init => LiveInv
<1> SUFFICES ASSUME Init PROVE LiveInv
  OBVIOUS
<1>1. TypeInv /\ HalfInv
  BY InitType, InitHalf
<1>2. RunOnce /\ RevInv
  BY <1>1 DEF Init, HalfInv, TypeInv, RevInv, RevActive, RevOver
<1>3. ~Holding /\ TakeInv
  BY DEF Init, Holding, TakeInv, Filled
<1>4. SlotsInv
  <2> SUFFICES ASSUME NEW s \in Streams PROVE StreamInv(s)
    BY DEF SlotsInv
  <2>1. numFrames[s] = 0 /\ got[s] = << >> /\ Len(got[s]) = 0
    BY DEF Init
  <2>2. \A i \in 0..(0 - 1) : FALSE
    OBVIOUS
  <2>3. \A i \in 1..0 : FALSE
    OBVIOUS
  <2>4. LiveSlots(frameBuf[s], numFrames[s], got[s])
    BY <2>1, <2>2 DEF LiveSlots
  <2>5. UpTo(frameBuf[s], numFrames[s], got[s], Newest)
    BY <2>1, <2>2, <2>3 DEF UpTo
  <2> QED BY <2>1, <2>3, <2>4, <2>5 DEF StreamInv
<1> QED BY <1>1, <1>2, <1>3, <1>4 DEF LiveInv

LEMMA LiveStep ==
  ASSUME NoLateAudio, RevInTime
  PROVE  LiveInv /\ [Next]_vars => LiveInv'
<1> SUFFICES ASSUME LiveInv, [Next]_vars PROVE LiveInv'
  OBVIOUS
<1>1. TypeInv' /\ HalfInv' /\ RunOnce'
  BY HalfStep DEF LiveInv, HalfInv
<1>2. RevInv' /\ TakeInv'
  BY <1>1, RevInvStep, TakeInvStep DEF LiveInv
<1>3. CASE ReadPktTask
  BY <1>1, <1>2, <1>3, ReadTaskSlots DEF LiveInv
<1>4. CASE RevFrame
  BY <1>1, <1>2, <1>4, RevFrameSlots DEF LiveInv
<1>5. CASE MainStep \/ StopRev
  BY <1>1, <1>2, <1>5, MainSlots DEF LiveInv
<1>6. CASE UNCHANGED vars
  <2>1. /\ UNCHANGED <<numFrames, frameBuf, got>> /\ Newest' = Newest
        /\ (Holding => No(pkt) = pos)'
        /\ \A s \in Streams : Clearing(s) => Clearing(s)'
    BY <1>6 DEF vars, bufVars, readVars, mainVars, Newest, Holding, Clearing, LiveInv
  <2>2. Newest' \in Int /\ Newest <= Newest'
    BY <2>1, LiveTypes
  <2> QED BY <1>1, <1>2, <2>1, <2>2, KeepsSlots DEF LiveInv
<1> QED BY <1>3, <1>4, <1>5, <1>6 DEF Next

LEMMA LiveImpliesSafe == LiveInv => PacketsAreSafe
<1> SUFFICES ASSUME LiveInv PROVE FramesAreLive /\ TakeIsSafe
  BY DEF PacketsAreSafe
<1>1. \A s \in Streams : Clearing(s) \/ LiveSlots(frameBuf[s], numFrames[s], got[s])
  BY DEF LiveInv, SlotsInv, StreamInv
<1>2. FramesAreLive
  BY <1>1, PktNumber DEF FramesAreLive, LiveSlots, Clearing
<1>3. TakeIsSafe
  <2> SUFFICES ASSUME vpc = "take"
               PROVE  numFrames[RoleBuffer] > 0 /\ frameBuf[RoleBuffer][0] # NoPkt
    BY DEF TakeIsSafe
  <2>1. numFrames[RoleBuffer] > 0 /\ RoleBuffer \in Streams /\ numFrames[RoleBuffer] \in Int
    BY LiveTypes DEF LiveInv, TakeInv
  <2>2. 0 \in 0..(numFrames[RoleBuffer] - 1)
    BY <2>1
  <2>3. ~Clearing(RoleBuffer)
    BY <2>1, WorkingNotClearing DEF RevOver
  <2>4. frameBuf[RoleBuffer][0] \in Pkt
    BY <1>1, <2>1, <2>2, <2>3 DEF LiveSlots
  <2> QED BY <2>1, <2>4, PktNumber
<1> QED BY <1>2, <1>3

(* The packets a buffer counts are live, distinct and in input order, none *)
(* was handed on already, and the receiver never takes from an empty slot  *)
(* although it tests the count before it has the lock (tsInput.c:590-604   *)
(* and 776-795), nor finds a slot that a stop has freed (361-375).  The    *)
(* assumptions are those of BuffersStayHalfFull and ReceiverEndsFirst.     *)
THEOREM PacketsStaySafe ==
  ASSUME NoLateAudio, RevInTime
  PROVE  Spec => []PacketsAreSafe
<1>1. LiveInv /\ [Next]_vars => LiveInv'
  BY LiveStep
<1> QED BY <1>1, InitLive, LiveImpliesSafe, PTL DEF Spec

-----------------------------------------------------------------------------
(* Every buffer is a first-in first-out queue.                             *)

(* The counted slots of a buffer, as a sequence.                           *)
SlotSeq(buf, n) == [i \in 1..n |-> buf[i - 1]]

LEMMA SlotSeqIsSeq ==
  ASSUME NEW buf, NEW n \in Nat, \A i \in 0..(n - 1) : buf[i] \in Pkt
  PROVE  SlotSeq(buf, n) \in Seq(Pkt) /\ Len(SlotSeq(buf, n)) = n
<1>1. \A i \in 1..n : i - 1 \in 0..(n - 1)
  OBVIOUS
<1> QED BY <1>1 DEF SlotSeq

(* Writing the first free slot appends.                                    *)
LEMMA PushSeq ==
  ASSUME NEW buf \in [0..(MaxFrames - 1) -> Pkt \cup {NoPkt}],
         NEW n \in Nat, n < MaxFrames, NEW p \in Pkt,
         \A i \in 0..(n - 1) : buf[i] \in Pkt
  PROVE  SlotSeq([buf EXCEPT ![n] = p], n + 1) = Append(SlotSeq(buf, n), p)
<1> DEFINE new == [buf EXCEPT ![n] = p]
           q == SlotSeq(new, n + 1)
           r == Append(SlotSeq(buf, n), p)
<1>1. /\ n \in 0..(MaxFrames - 1) /\ n + 1 \in Nat
      /\ new[n] = p
      /\ \A i \in 0..(n - 1) : new[i] = buf[i]
  BY ConstantsAssumption
<1>2. \A i \in 0..((n + 1) - 1) : i = n \/ i \in 0..(n - 1)
  OBVIOUS
<1>3. \A i \in 0..((n + 1) - 1) : new[i] \in Pkt
  BY <1>1, <1>2
<1> HIDE DEF new
<1>4. q \in Seq(Pkt) /\ Len(q) = n + 1
  BY <1>1, <1>3, SlotSeqIsSeq
<1>5. SlotSeq(buf, n) \in Seq(Pkt) /\ Len(SlotSeq(buf, n)) = n
  BY SlotSeqIsSeq
<1>6. r \in Seq(Pkt) /\ Len(r) = n + 1 /\ r[n + 1] = p
      /\ \A i \in 1..n : r[i] = SlotSeq(buf, n)[i]
  BY <1>5
<1>7. \A i \in 1..(n + 1) : q[i] = r[i]
  <2> SUFFICES ASSUME NEW i \in 1..(n + 1) PROVE q[i] = r[i]
    OBVIOUS
  <2>1. q[i] = new[i - 1]
    BY DEF SlotSeq
  <2>2. CASE i = n + 1
    BY <1>1, <1>6, <2>1, <2>2
  <2>3. CASE i # n + 1
    <3>1. i \in 1..n /\ i - 1 \in 0..(n - 1)
      BY <2>3
    <3>2. r[i] = buf[i - 1]
      BY <1>6, <3>1 DEF SlotSeq
    <3> QED BY <1>1, <2>1, <3>1, <3>2
  <2> QED BY <2>2, <2>3
<1> HIDE DEF q, r
<1>8. q = r
  BY <1>4, <1>6, <1>7, SeqEqual
<1> QED BY <1>8 DEF q, r, new

(* Moving the rest down removes the head.                                  *)
LEMMA PopSeq ==
  ASSUME NEW buf \in [0..(MaxFrames - 1) -> Pkt \cup {NoPkt}],
         NEW n \in Nat, n > 0, n < MaxFrames,
         \A i \in 0..(n - 1) : buf[i] \in Pkt
  PROVE  /\ SlotSeq(MoveDown(buf, n), n - 1) = Tail(SlotSeq(buf, n))
         /\ SlotSeq(buf, n) # << >> /\ Head(SlotSeq(buf, n)) = buf[0]
<1> DEFINE new == MoveDown(buf, n)
           q == SlotSeq(new, n - 1)
           w == SlotSeq(buf, n)
           r == Tail(w)
<1>1. /\ n - 1 \in Nat
      /\ \A i \in 0..((n - 1) - 1) : i + 1 \in 0..(n - 1) /\ new[i] = buf[i + 1]
  <2>1. MaxFrames \in Nat
    BY ConstantsAssumption
  <2>2. \A i \in 0..((n - 1) - 1) : /\ i \in 0..(MaxFrames - 1)
                                    /\ i < n - 1 /\ i < MaxFrames - 1
                                    /\ i + 1 \in 0..(n - 1)
    BY <2>1
  <2> QED BY <2>1, <2>2 DEF MoveDown
<1>2. \A i \in 0..((n - 1) - 1) : new[i] \in Pkt
  BY <1>1
<1> HIDE DEF new
<1>3. q \in Seq(Pkt) /\ Len(q) = n - 1
  BY <1>1, <1>2, SlotSeqIsSeq
<1>4. w \in Seq(Pkt) /\ Len(w) = n /\ \A i \in 1..n : w[i] = buf[i - 1]
  BY SlotSeqIsSeq DEF SlotSeq
<1>5. w # << >> /\ Head(w) = buf[0]
  BY <1>4
<1>6. r \in Seq(Pkt) /\ Len(r) = n - 1 /\ \A i \in 1..(n - 1) : r[i] = w[i + 1]
  BY <1>4, <1>5
<1>7. \A i \in 1..(n - 1) : q[i] = r[i]
  <2> SUFFICES ASSUME NEW i \in 1..(n - 1) PROVE q[i] = r[i]
    OBVIOUS
  <2>1. q[i] = new[i - 1] /\ i - 1 \in 0..((n - 1) - 1) /\ (i - 1) + 1 = i
    BY DEF SlotSeq
  <2>2. r[i] = buf[i]
    <3>1. i + 1 \in 1..n /\ (i + 1) - 1 = i
      OBVIOUS
    <3> QED BY <3>1, <1>4, <1>6
  <2> QED BY <1>1, <2>1, <2>2
<1> HIDE DEF q, r, w
<1>8. q = r
  BY <1>3, <1>6, <1>7, SeqEqual
<1> QED BY <1>5, <1>8 DEF q, r, w, new

(* What waits in a stream is the sequence of its counted slots, but for a  *)
(* buffer whose packets a stop has just freed: nothing waits in that one.  *)
LEMMA WaitingIsSlots ==
  ASSUME LiveInv, NEW s \in Streams, ~Clearing(s)
  PROVE  /\ Waiting(s) = SlotSeq(frameBuf[s], numFrames[s])
         /\ \A i \in 0..(numFrames[s] - 1) : frameBuf[s][i] \in Pkt
<1>1. numFrames[s] \in Nat
  BY LiveTypes
<1>2. \A i \in 0..(numFrames[s] - 1) : frameBuf[s][i] \in Pkt
  BY DEF LiveInv, SlotsInv, StreamInv, LiveSlots
<1>3. CASE numFrames[s] = 0
  <2>1. SlotSeq(frameBuf[s], numFrames[s]) \in Seq(Pkt)
        /\ Len(SlotSeq(frameBuf[s], numFrames[s])) = 0
    BY <1>1, <1>2, <1>3, SlotSeqIsSeq
  <2>2. SlotSeq(frameBuf[s], numFrames[s]) = << >>
    BY <2>1, EmptySeq
  <2> QED BY <1>2, <1>3, <2>2 DEF Waiting
<1>4. CASE numFrames[s] # 0
  <2>1. 0 \in 0..(numFrames[s] - 1) /\ ~(numFrames[s] <= 0)
    BY <1>1, <1>4
  <2>2. frameBuf[s][0] # NoPkt
    BY <1>2, <2>1, PktNumber
  <2> QED BY <1>2, <2>1, <2>2 DEF Waiting, SlotSeq
<1> QED BY <1>3, <1>4

AllWaiting == [s \in Streams |-> Waiting(s)]

WaitingShowsSlots ==
    \A s \in Streams :
       ~Clearing(s) => Waiting(s) = SlotSeq(frameBuf[s], numFrames[s])

LEMMA LiveShowsSlots == LiveInv => WaitingShowsSlots
BY WaitingIsSlots DEF WaitingShowsSlots

LEMMA NothingWaitsAtFirst == Init => Queues!Init
<1> SUFFICES ASSUME Init PROVE Queues!Init
  OBVIOUS
<1>1. \A s \in Streams : Waiting(s) = << >>
  BY DEF Init, Waiting
<1>2. Released = FALSE
  BY DEF Init, Released, Releasing
<1> QED BY <1>1, <1>2 DEF Init, Queues!Init

LEMMA WaitingKept ==
  ASSUME NEW s \in Streams, numFrames'[s] = numFrames[s], frameBuf'[s] = frameBuf[s]
  PROVE  Waiting(s)' = Waiting(s)
BY DEF Waiting

LEMMA StoreIsPush ==
  ASSUME LiveInv, LiveInv', StorePkt
  PROVE  Queues!Next
<1>0. PICK b \in Streams : b = TargetBuffer(pkt)
  BY LiveTypes
<1>1. /\ pkt \in Pkt /\ numFrames[b] < Half /\ No(pkt) \in Int
      /\ numFrames' = [numFrames EXCEPT ![b] = numFrames[b] + 1]
      /\ frameBuf' = [frameBuf EXCEPT ![b] = [frameBuf[b] EXCEPT ![numFrames[b]] = pkt]]
      /\ got' = got /\ mpc' = mpc /\ ci' = ci
      /\ Newest < No(pkt) /\ Newest \in Int
      /\ UpTo(frameBuf[b], numFrames[b], got[b], Newest)
      /\ ~Released /\ Released' = Released
  <2>1. ~Released /\ Released' = Released
    BY DEF StorePkt, mainVars, LiveInv, RunOnce, Released, Releasing
  <2> QED BY <2>1, <1>0, LiveTypes, StoreEffect, PktNumber
<1>2. /\ numFrames[b] \in Nat /\ numFrames[b] < MaxFrames /\ got[b] \in Seq(Pkt)
      /\ frameBuf[b] \in [0..(MaxFrames - 1) -> Pkt \cup {NoPkt}]
      /\ numFrames'[b] = numFrames[b] + 1
      /\ frameBuf'[b] = [frameBuf[b] EXCEPT ![numFrames[b]] = pkt]
  BY <1>1, LiveTypes
<1>3. ~Clearing(b) /\ ~Clearing(b)'
  <2>1. ~Clearing(b)
    BY WorkingNotClearing DEF StorePkt
  <2> QED BY <2>1, <1>1 DEF Clearing
<1>4. /\ Waiting(b) = SlotSeq(frameBuf[b], numFrames[b])
      /\ \A i \in 0..(numFrames[b] - 1) : frameBuf[b][i] \in Pkt
  BY <1>3, WaitingIsSlots
<1>5. WaitingShowsSlots'
  BY LiveShowsSlots, PTL
<1>6. Waiting(b)' = SlotSeq([frameBuf[b] EXCEPT ![numFrames[b]] = pkt], numFrames[b] + 1)
  <2>1. Waiting(b)' = SlotSeq(frameBuf[b], numFrames[b])'
    BY <1>3, <1>5 DEF WaitingShowsSlots
  <2> QED BY <2>1, <1>2 DEF SlotSeq
<1>7. Waiting(b)' = Append(Waiting(b), pkt)
  <2>1. SlotSeq([frameBuf[b] EXCEPT ![numFrames[b]] = pkt], numFrames[b] + 1)
          = Append(SlotSeq(frameBuf[b], numFrames[b]), pkt)
    BY <1>1, <1>2, <1>4, PushSeq
  <2> QED BY <2>1, <1>4, <1>6
<1>8. /\ Waiting(b) \in Seq(Pkt) /\ Len(Waiting(b)) = numFrames[b]
      /\ \A i \in 1..numFrames[b] : Waiting(b)[i] = frameBuf[b][i - 1]
  <2>1. SlotSeq(frameBuf[b], numFrames[b]) \in Seq(Pkt)
        /\ Len(SlotSeq(frameBuf[b], numFrames[b])) = numFrames[b]
    BY <1>2, <1>4, SlotSeqIsSeq
  <2> QED BY <2>1, <1>4 DEF SlotSeq
<1>9. AllWaiting' = [AllWaiting EXCEPT ![b] = Append(@, pkt)]
  <2>1. \A s \in Streams \ {b} : Waiting(s)' = Waiting(s)
    BY <1>1, WaitingKept
  <2> QED BY <1>7, <2>1 DEF AllWaiting
<1>10. Queues!Newer(b, pkt)
  <2>1. \A i \in 1..numFrames[b] : No(Waiting(b)[i]) < No(pkt)
    <3> SUFFICES ASSUME NEW i \in 1..numFrames[b] PROVE No(Waiting(b)[i]) < No(pkt)
      OBVIOUS
    <3>1. i - 1 \in 0..(numFrames[b] - 1)
      BY <1>2
    <3>2. No(frameBuf[b][i - 1]) <= Newest /\ No(frameBuf[b][i - 1]) \in Int
      BY <3>1, <1>1, <1>4, PktNumber DEF UpTo
    <3> QED BY <3>2, <1>1, <1>8
  <2>2. \A k \in 1..Len(got[b]) : No(got[b][k]) < No(pkt)
    <3>1. \A k \in 1..Len(got[b]) : No(got[b][k]) <= Newest /\ No(got[b][k]) \in Int
      BY <1>1, <1>2, PktNumber DEF UpTo
    <3> QED BY <3>1, <1>1
  <2> QED BY <2>1, <2>2, <1>8 DEF Queues!Newer
<1>11. Queues!Push(b, pkt)
  BY <1>1, <1>8, <1>9, <1>10 DEF Queues!Push, AllWaiting, Half
<1> QED BY <1>1, <1>11 DEF Queues!Next

LEMMA TakeIsPop ==
  ASSUME LiveInv, LiveInv', TakeFrame
  PROVE  Queues!Next
<1>0. PICK b \in Streams : b = RoleBuffer
  BY LiveTypes
<1>1. /\ numFrames[b] > 0
      /\ numFrames' = [numFrames EXCEPT ![b] = numFrames[b] - 1]
      /\ frameBuf' = [frameBuf EXCEPT ![b] = MoveDown(frameBuf[b], numFrames[b])]
      /\ got' = [got EXCEPT ![b] = Append(got[b], frameBuf[b][0])]
      /\ mpc' = mpc /\ ci' = ci
      /\ ~Released /\ Released' = Released
  <2>1. ~Released /\ Released' = Released
    BY DEF TakeFrame, mainVars, LiveInv, RevInv, RevOver, Released, Releasing
  <2> QED BY <2>1, <1>0, TakeEffect
<1>2. /\ numFrames[b] \in Nat /\ numFrames[b] < MaxFrames
      /\ frameBuf[b] \in [0..(MaxFrames - 1) -> Pkt \cup {NoPkt}]
      /\ numFrames'[b] = numFrames[b] - 1
      /\ frameBuf'[b] = MoveDown(frameBuf[b], numFrames[b])
  BY <1>1, LiveTypes
<1>3. ~Clearing(b) /\ ~Clearing(b)'
  <2>1. ~Clearing(b)
    BY WorkingNotClearing DEF TakeFrame, RevOver
  <2> QED BY <2>1, <1>1 DEF Clearing
<1>4. /\ Waiting(b) = SlotSeq(frameBuf[b], numFrames[b])
      /\ \A i \in 0..(numFrames[b] - 1) : frameBuf[b][i] \in Pkt
  BY <1>3, WaitingIsSlots
<1>5. WaitingShowsSlots'
  BY LiveShowsSlots, PTL
<1>6. Waiting(b)' = SlotSeq(MoveDown(frameBuf[b], numFrames[b]), numFrames[b] - 1)
  <2>1. Waiting(b)' = SlotSeq(frameBuf[b], numFrames[b])'
    BY <1>3, <1>5 DEF WaitingShowsSlots
  <2> QED BY <2>1, <1>2 DEF SlotSeq
<1>7. /\ Waiting(b)' = Tail(Waiting(b))
      /\ Waiting(b) # << >> /\ Head(Waiting(b)) = frameBuf[b][0]
  <2>1. /\ SlotSeq(MoveDown(frameBuf[b], numFrames[b]), numFrames[b] - 1)
             = Tail(SlotSeq(frameBuf[b], numFrames[b]))
        /\ SlotSeq(frameBuf[b], numFrames[b]) # << >>
        /\ Head(SlotSeq(frameBuf[b], numFrames[b])) = frameBuf[b][0]
    BY <1>1, <1>2, <1>4, PopSeq
  <2> QED BY <2>1, <1>4, <1>6
<1>8. AllWaiting' = [AllWaiting EXCEPT ![b] = Tail(@)]
  <2>1. \A s \in Streams \ {b} : Waiting(s)' = Waiting(s)
    BY <1>1, LiveTypes, WaitingKept
  <2> QED BY <1>7, <2>1 DEF AllWaiting
<1>9. Queues!Pop(b)
  BY <1>1, <1>7, <1>8 DEF Queues!Pop, AllWaiting
<1> QED BY <1>9 DEF Queues!Next

(* A step after which nothing waits in one stream, and no other changed.   *)
LEMMA EmptyingIsFlush ==
  ASSUME LiveInv, NEW b \in Streams, UNCHANGED got, Waiting(b)' = << >>,
         Released, Released',
         \A s \in Streams \ {b} : numFrames'[s] = numFrames[s] /\ frameBuf'[s] = frameBuf[s]
  PROVE  Queues!Next
<1>1. \A s \in Streams \ {b} : Waiting(s)' = Waiting(s)
  BY WaitingKept
<1>2. AllWaiting' = [AllWaiting EXCEPT ![b] = << >>]
  BY <1>1 DEF AllWaiting
<1>3. Queues!Flush(b)
  <2>1. Released' = Released
    BY DEF Released, Releasing
  <2> QED BY <2>1, <1>2 DEF Queues!Flush, AllWaiting
<1> QED BY <1>3 DEF Queues!Next

(* The count of a stream that is filled in is zero already.                *)
LEMMA FillIsStutter ==
  ASSUME LiveInv, FillFrames
  PROVE  UNCHANGED <<AllWaiting, got, Released>>
<1>1. /\ streamNum \in Streams /\ UNCHANGED <<got, frameBuf>>
      /\ numFrames' = [numFrames EXCEPT ![streamNum] = 0]
      /\ numFrames \in [Streams -> Int] /\ ~Filled
  BY ConstantsAssumption
     DEF FillFrames, LiveInv, TypeInv, ChanTypeOK, BufTypeOK, FillInv, Filling, Streams,
         Filled
<1>2. numFrames[streamNum] = 0
  BY <1>1 DEF LiveInv, TakeInv
<1>3. numFrames' = numFrames
  BY <1>1, <1>2
<1>4. AllWaiting' = AllWaiting
  BY <1>1, <1>3 DEF AllWaiting, Waiting
<1>5. Released' = Released
  BY DEF FillFrames, mainVars, Released, Releasing
<1> QED BY <1>1, <1>4, <1>5

LEMMA ClearIsFlush ==
  ASSUME LiveInv, ClearFrames
  PROVE  Queues!Next
<1>1. ci \in Streams
  BY ConstantsAssumption
     DEF ClearFrames, LiveInv, TypeInv, ChanTypeOK, MainInv, MainTypeOK, Streams
<1>2. PICK b \in Streams : b = ci
  BY <1>1
<1>3. /\ UNCHANGED <<got, numFrames>>
      /\ \A s \in Streams \ {b} : frameBuf'[s] = frameBuf[s]
      /\ frameBuf'[b] = [i \in 0..(MaxFrames - 1) |->
                           IF i < numFrames[b] THEN NoPkt ELSE frameBuf[b][i]]
  BY <1>2, LiveTypes DEF ClearFrames
<1>4. Waiting(b)' = << >>
  <2>1. CASE numFrames[b] <= 0
    BY <2>1, <1>3 DEF Waiting
  <2>2. CASE ~(numFrames[b] <= 0)
    <3>1. 0 \in 0..(MaxFrames - 1) /\ 0 < numFrames[b]
      BY <2>2, LiveTypes, ConstantsAssumption
    <3>2. frameBuf'[b][0] = NoPkt
      BY <3>1, <1>3
    <3> QED BY <3>2 DEF Waiting
  <2> QED BY <2>1, <2>2
<1>5. Released /\ Released'
  BY DEF ClearFrames, Released, Releasing
<1> QED BY <1>3, <1>4, <1>5, EmptyingIsFlush

LEMMA ResetIsFlush ==
  ASSUME LiveInv, ClearCount
  PROVE  Queues!Next
<1>1. /\ ci \in Streams /\ UNCHANGED <<got, frameBuf>>
      /\ numFrames' = [numFrames EXCEPT ![ci] = 0]
      /\ numFrames \in [Streams -> Int]
  BY DEF ClearCount, LiveInv, TypeInv, MainInv, BufTypeOK
<1>2. PICK b \in Streams : b = ci
  BY <1>1
<1>3. numFrames'[b] = 0
  BY <1>1, <1>2
<1>4. Waiting(b)' = << >>
  BY <1>3 DEF Waiting
<1>5. Released /\ Released'
  BY DEF ClearCount, Released, Releasing
<1> QED BY <1>1, <1>2, <1>4, <1>5, EmptyingIsFlush

(* When main has closed the input, the queues are closed.                  *)
LEMMA CloseIsClose ==
  ASSUME CloseInput
  PROVE  Queues!Next
<1>1. UNCHANGED <<numFrames, frameBuf, got>>
  BY DEF CloseInput, bufVars
<1>2. AllWaiting' = AllWaiting
  BY <1>1 DEF AllWaiting, Waiting
<1>3. Released' = TRUE
  BY DEF CloseInput, Released, Releasing
<1>4. Queues!Close
  BY <1>1, <1>2, <1>3 DEF Queues!Close, AllWaiting
<1> QED BY <1>4 DEF Queues!Next

(* Every step is one of the abstract queues, or stutters there.            *)
LEMMA StepIsQueueStep ==
  ASSUME LiveInv, LiveInv', [Next]_vars
  PROVE  [Queues!Next]_<<AllWaiting, got, Released>>
<1>1. CASE StorePkt
  BY <1>1, StoreIsPush
<1>2. CASE TakeFrame
  BY <1>2, TakeIsPop
<1>3. CASE FillFrames
  BY <1>3, FillIsStutter
<1>4. CASE ClearFrames
  BY <1>4, ClearIsFlush
<1>5. CASE ClearCount
  BY <1>5, ResetIsFlush
<1>6. CASE CloseInput
  BY <1>6, CloseIsClose
<1>7. CASE ~(StorePkt \/ TakeFrame \/ FillFrames \/ ClearFrames \/ ClearCount \/ CloseInput)
  <2> SUFFICES UNCHANGED <<numFrames, frameBuf, got, Released>>
    BY DEF AllWaiting, Waiting
  <2> USE DEF Released, Releasing
  <2>1. CASE ReadPktTask
    BY <1>7, <2>1
       DEF ReadPktTask, OpenFails, OpenInput, FillIndex, FillAudioNum, FillEvent,
           FillCount, ClearExit, StartReading, LoopTest,
           ReadFrame, ReadNothing, WriteFlagTest, WriteFullTest, DrainTest, DrainRing,
           DrainExpired, PostEvent, NotifyTest, NotifyRing, ExitReadTask,
           bufVars, mainVars
  <2>2. CASE RevFrame
    BY <1>7, <2>2
       DEF RevFrame, RevInit, RevLoopTest, FdSet, Select, IsSet, EventRead, EmptyTest,
           RevEnd, bufVars, mainVars
  <2>3. CASE MainStep \/ StopRev
    BY <1>7, <2>3
       DEF MainStep, StopRev, StartChannel, WaitChannelStart, SpawnRev,
           WaitRev, StopChannel, PollExit, StopFails, CloseStreams, bufVars
  <2>4. CASE UNCHANGED vars
    BY <2>4 DEF vars, bufVars, mainVars
  <2> QED BY <2>1, <2>2, <2>3, <2>4 DEF Next
<1> QED BY <1>1, <1>2, <1>3, <1>4, <1>5, <1>6, <1>7

(* Every stream's buffer implements a bounded first-in first-out queue     *)
(* from the read task to the receiver (tsInput.c:712-723 and 785-821): a   *)
(* store is a push, a take a pop, and nothing else moves a frame before    *)
(* the stop has closed the input; after that the two halves of a clear are *)
(* flushes, and nothing is pushed or popped any more.                      *)
THEOREM InputImplementsFrameQueues ==
  ASSUME NoLateAudio, RevInTime
  PROVE  Spec => ImplementsFrameQueues
<1>1. LiveInv /\ [Next]_vars => LiveInv'
  BY LiveStep
<1>2. Init => Queues!Init
  BY NothingWaitsAtFirst
<1>3. LiveInv /\ LiveInv' /\ [Next]_vars => [Queues!Next]_<<AllWaiting, got, Released>>
  BY StepIsQueueStep
<1> QED BY <1>1, <1>2, <1>3, InitLive, PTL
        DEF Spec, ImplementsFrameQueues, Queues!Spec, AllWaiting
=============================================================================
