------------------------------ MODULE TsInput ------------------------------
(***************************************************************************)
(* One input channel of mpegts/tsInput.c, with the three threads that work *)
(* on it in the program: the read task (tsInput_ReadPktTask, the producer  *)
(* of every stream's frame buffer), the receiver (tsInput_RevFrame, the    *)
(* consumer) and main (tsInput_Test: start the channel, run the receiver,  *)
(* stop both).                                                             *)
(*                                                                         *)
(* A critical section under a stream's bufferLock is one step; a read of   *)
(* numFrames, inputReadFlag or exitFlag outside the lock is a step of its  *)
(* own.  An eventfd (blocking, not a semaphore: a read returns and clears  *)
(* the whole counter) is a Boolean: its counter is not zero.  There is one *)
(* program (tsInput_FindProgramIndex always answers 0), so a stream's      *)
(* index in its program is its index in the input.                         *)
(***************************************************************************)
EXTENDS Integers, Sequences, FiniteSets

CONSTANTS
    MaxFrames,    \* INPUT_TS_MAX_FRAME_BUFFER_NUM
    AudioFactor,  \* an audio packet waits AudioFactor times as long (200)
    StopTimeout,  \* polls of exitFlag before tsInput_StopChannel gives up (100)
    NumStreams,   \* streams the input has when it is opened
    InputStreams, \* streams packets come from: 0..NumStreams-1, and streams
                  \* that appeared after the input was opened
    Kind,         \* Kind[s]: codec type, "video", "audio" or "other"
    Fd,           \* Fd[s]: the number the kernel gives the eventfd of s
    NumPkts,      \* bound: packets with data the input yields
    RevInTime,    \* the receiver thread runs before main's 10 s are over
    NoPkt         \* a NULL packet pointer

Streams == 0..(NumStreams - 1)
Pkt == InputStreams \X (1..NumPkts)
No(p) == p[2]

ASSUME ConstantsAssumption ==
    /\ MaxFrames \in Nat /\ MaxFrames >= 2
    /\ AudioFactor \in Nat \ {0}
    /\ StopTimeout \in Nat \ {0}
    /\ NumStreams \in Nat \ {0}
    /\ InputStreams \subseteq Nat /\ Streams \subseteq InputStreams
    /\ Kind \in [InputStreams -> {"video", "audio", "other"}]
    /\ Fd \in [Streams -> Nat] /\ \A s, t \in Streams : Fd[s] = Fd[t] => s = t
    /\ NumPkts \in Nat
    /\ RevInTime \in BOOLEAN
    /\ NoPkt \notin Pkt

VARIABLES
    readFlag,   \* inputReadFlag: main asks, and the read task tells, to read
    exitFlag,   \* exitFlag: the read task has ended
    programNum, \* programNum: 0 or 1
    streamNum,  \* u32StreamNum: streams filled in so far
    vbuf, abuf, \* u32VideoBufferIndex, u32AudioBufferIndex[0]
    audioNum,   \* u32AudioStreamNum
    numFrames,  \* numFrames of each stream
    frameBuf,   \* frameBuf of each stream, slots 0..MaxFrames-1
    event,      \* inputEventFd of each stream is readable
    got,        \* got[s]: packets handed to the consumer from the buffer of s
    rpc, pkt, tries, j, pos,          \* read task: control, pkt in hand,
                                      \* drain budget, notify index, packets read
    vpc, role, watch, wi, nfds, ready, tvOk,  \* receiver: control, the call it
                                      \* is in, its fd_set, loop index, maxFd,
                                      \* select's answer,
                                      \* whether the uninitialised tv_usec is valid
    revExit, revRun,                  \* g_stTSInput
    mpc, stopTries, ci, startRet, stopRet  \* main: control, s32Timeout, stream
                                      \* being cleared, return values

idxVars  == <<vbuf, abuf, audioNum>>
chanVars == <<readFlag, exitFlag, programNum, streamNum, idxVars>>
bufVars  == <<numFrames, frameBuf, event, got>>
readVars == <<rpc, pkt, tries, j, pos>>
revVars  == <<vpc, role, watch, wi, nfds, ready, tvOk, revExit, revRun>>
mainVars == <<mpc, stopTries, ci, startRet, stopRet>>
vars == <<chanVars, bufVars, readVars, revVars, mainVars>>

-----------------------------------------------------------------------------
AudioStreams == {s \in Streams : Kind[s] = "audio"}

(* The buffer tsInput_WriteChannel{Video,Audio}Pkt stores p in.  A packet  *)
(* of an audio stream that matches no u32AudioInputIndex goes to buffer 0. *)
TargetBuffer(p) == CASE Kind[p[1]] = "video"  -> vbuf
                     [] p[1] \in AudioStreams -> p[1]
                     [] OTHER                 -> 0

(* The buffer whose filling decides whether p may be stored: the same one, *)
(* but audio index 0 for an unmatched audio stream.                        *)
CheckedBuffer(p) == CASE Kind[p[1]] = "video"  -> vbuf
                      [] p[1] \in AudioStreams -> p[1]
                      [] OTHER                 -> abuf

(* Slip: a buffer is full only beyond half of its slots.                   *)
BufferIsFullLate(b) == numFrames[b] > MaxFrames \div 2
BufferIsFull(b) == numFrames[b] >= MaxFrames \div 2
(* With no program, or no audio stream, the packet number asked for is an  *)
(* error (-1), and the answer is: not full.                                *)
TargetIsFull(p) == /\ programNum = 1
                   /\ Kind[p[1]] = "audio" => audioNum > 0
                   /\ BufferIsFull(CheckedBuffer(p))
Timeout(p) == IF Kind[p[1]] = "video" THEN MaxFrames ELSE MaxFrames * AudioFactor

(* memmove of slots 1..n-1 one slot down, when there are two or more.      *)
(* Slip: memmove of one frame too few.                                     *)
MoveDownShort(buf, n) == [i \in 0..(MaxFrames - 1) |->
                            IF i < n - 2 THEN buf[i + 1] ELSE buf[i]]
MoveDown(buf, n) == [i \in 0..(MaxFrames - 1) |->
                       IF i < n - 1 /\ i < MaxFrames - 1 THEN buf[i + 1] ELSE buf[i]]
(* Slip: the emptiness test accepts zero frames.                           *)
NoFramesBelowZero(n) == n < 0
NoFrames(n) == n <= 0
(* Slip: the wait loop goes round once more.                               *)
BudgetLeftOnce(t) == t >= 0
BudgetLeft(t) == t > 0

-----------------------------------------------------------------------------
Init ==
    /\ readFlag = 0 /\ exitFlag = 0 /\ programNum = 0 /\ streamNum = 0
    /\ vbuf = 0 /\ abuf = 0 /\ audioNum = 0
    /\ numFrames = [s \in Streams |-> 0]
    /\ frameBuf = [s \in Streams |-> [i \in 0..(MaxFrames - 1) |-> NoPkt]]
    /\ event = [s \in Streams |-> FALSE]
    /\ got = [s \in Streams |-> << >>]
    /\ rpc = "none" /\ pkt = NoPkt /\ tries = 0 /\ j = 0 /\ pos = 0
    /\ vpc = "none" /\ role = "video" /\ watch = {} /\ wi = 0 /\ nfds = 0 /\ ready = {}
    /\ tvOk = TRUE /\ revExit = 0 /\ revRun = 0
    /\ mpc = "start" /\ stopTries = 0 /\ ci = 0
    /\ startRet = 0 /\ stopRet = 0

-----------------------------------------------------------------------------
(* The read task.                                                          *)

(* avformat_open_input or avformat_find_stream_info fails: the thread      *)
(* returns without touching a flag.                                        *)
OpenFails == /\ rpc = "open"
             /\ rpc' = "failed"
             /\ UNCHANGED <<chanVars, bufVars, pkt, tries, j, pos, revVars, mainVars>>

(* The program's counts are 0 already: a channel is started once.          *)
OpenInput == /\ rpc = "open"
             /\ rpc' = "fill"
             /\ programNum' = 1 /\ streamNum' = 0 /\ audioNum' = 0
             /\ UNCHANGED <<readFlag, exitFlag, vbuf, abuf, bufVars, pkt, tries, j,
                            pos, revVars, mainVars>>

(* One stream, field by field and without a lock, while the receiver may   *)
(* already look.  Its indices: a later video stream replaces an earlier    *)
(* one as the program's video ...                                          *)
FillIndex == LET k == Kind[streamNum] IN
             /\ rpc = "fill" /\ streamNum < NumStreams
             /\ vbuf' = IF k = "video" THEN streamNum ELSE vbuf
             /\ abuf' = IF k = "audio" /\ audioNum = 0 THEN streamNum ELSE abuf
             /\ rpc' = IF k = "audio" THEN "fillAudio" ELSE "fillFrames"
             /\ UNCHANGED <<readFlag, exitFlag, programNum, streamNum, audioNum, bufVars,
                            pkt, tries, j, pos, revVars, mainVars>>

(* ... u32AudioStreamNum++ ...                                             *)
FillAudioNum == /\ rpc = "fillAudio"
                /\ audioNum' = audioNum + 1
                /\ rpc' = "fillFrames"
                /\ UNCHANGED <<readFlag, exitFlag, programNum, streamNum, vbuf, abuf,
                               bufVars, pkt, tries, j, pos, revVars, mainVars>>

(* ... an empty buffer ...                                                 *)
FillFrames == /\ rpc = "fillFrames"
              /\ numFrames' = [numFrames EXCEPT ![streamNum] = 0]
              /\ rpc' = "fillEvent"
              /\ UNCHANGED <<chanVars, frameBuf, event, got, pkt, tries, j, pos,
                             revVars, mainVars>>

(* ... a new eventfd and a new lock (until then the descriptor is 0, which *)
(* no fd_set of the receiver contains) ...                                 *)
FillEvent == /\ rpc = "fillEvent"
             /\ event' = [event EXCEPT ![streamNum] = FALSE]
             /\ rpc' = "fillCount"
             /\ UNCHANGED <<chanVars, numFrames, frameBuf, got, pkt, tries, j, pos,
                            revVars, mainVars>>

(* ... and only then is the stream counted.                                *)
FillCount == /\ rpc = "fillCount"
             /\ streamNum' = streamNum + 1
             /\ rpc' = "fill"
             /\ UNCHANGED <<readFlag, exitFlag, programNum, idxVars, bufVars, pkt, tries,
                            j, pos, revVars, mainVars>>

(* exitFlag = 0, then inputReadFlag = 1, whatever main did to them         *)
(* meanwhile.                                                              *)
ClearExit == /\ rpc = "fill" /\ streamNum = NumStreams
             /\ exitFlag' = 0
             /\ rpc' = "start"
             /\ UNCHANGED <<readFlag, programNum, streamNum, idxVars, bufVars, pkt, tries,
                            j, pos, revVars, mainVars>>

StartReading == /\ rpc = "start"
                /\ readFlag' = 1
                /\ rpc' = "top"
                /\ UNCHANGED <<exitFlag, programNum, streamNum, idxVars, bufVars, pkt,
                               tries, j, pos, revVars, mainVars>>

LoopTest == /\ rpc = "top"
            /\ rpc' = IF readFlag = 1 THEN "read" ELSE "exit"
            /\ UNCHANGED <<chanVars, bufVars, pkt, tries, j, pos, revVars, mainVars>>

(* av_read_frame yields a packet with data of a video or audio stream.     *)
ReadFrame == /\ rpc = "read" /\ pos < NumPkts
             /\ \E s \in InputStreams :
                   /\ Kind[s] # "other"
                   /\ pkt' = <<s, pos + 1>>
             /\ pos' = pos + 1
             /\ rpc' = "write"
             /\ UNCHANGED <<chanVars, bufVars, tries, j, revVars, mainVars>>

(* av_read_frame fails (end of the input), or yields an empty packet or    *)
(* one of another kind of stream: nothing is stored.                       *)
ReadNothing == /\ rpc = "read"
               /\ rpc' = "notify" /\ j' = 0
               /\ UNCHANGED <<chanVars, bufVars, pkt, tries, pos, revVars, mainVars>>

DropPkt == rpc' = "notify" /\ pkt' = NoPkt /\ j' = 0

(* WriteChannelPkt: "if have start".                                       *)
WriteFlagTest == /\ rpc = "write"
                 /\ IF readFlag = 1 THEN rpc' = "full" /\ UNCHANGED <<pkt, j>>
                                    ELSE DropPkt
                 /\ UNCHANGED <<chanVars, bufVars, tries, pos, revVars, mainVars>>

WriteFullTest == /\ rpc = "full"
                 /\ rpc' = IF TargetIsFull(pkt) THEN "drain" ELSE "store"
                 /\ tries' = Timeout(pkt)
                 /\ UNCHANGED <<chanVars, bufVars, pkt, j, pos, revVars, mainVars>>

(* The loop that waits for the consumer to empty a full buffer.            *)
DrainTest == /\ rpc = "drain"
             /\ rpc' = IF NoFrames(numFrames[TargetBuffer(pkt)]) THEN "store" ELSE "ring"
             /\ UNCHANGED <<chanVars, bufVars, pkt, tries, j, pos, revVars, mainVars>>

DrainRing == /\ rpc = "ring"
             /\ event' = [event EXCEPT ![TargetBuffer(pkt)] = TRUE]
             /\ tries' = tries - 1
             /\ rpc' = IF BudgetLeft(tries - 1) THEN "drain" ELSE "expired"
             /\ UNCHANGED <<chanVars, numFrames, frameBuf, got, pkt, j, pos,
                            revVars, mainVars>>

DrainExpired == /\ rpc = "expired"
                /\ IF TargetIsFull(pkt) THEN DropPkt
                                        ELSE rpc' = "store" /\ UNCHANGED <<pkt, j>>
                /\ UNCHANGED <<chanVars, bufVars, tries, pos, revVars, mainVars>>

(* Under bufferLock.  Only the video writer tests that the slot exists; a  *)
(* store past the last slot is lost to the buffer.                         *)
StorePkt == LET b == TargetBuffer(pkt) IN
            /\ rpc = "store"
            /\ frameBuf' = IF numFrames[b] \in 0..(MaxFrames - 1)
                             THEN [frameBuf EXCEPT ![b][numFrames[b]] = pkt]
                             ELSE frameBuf
            /\ numFrames' = [numFrames EXCEPT ![b] = @ + 1]
            /\ rpc' = "post"
            /\ UNCHANGED <<chanVars, event, got, pkt, tries, j, pos, revVars, mainVars>>

PostEvent == /\ rpc = "post"
             /\ event' = [event EXCEPT ![TargetBuffer(pkt)] = TRUE]
             /\ DropPkt
             /\ UNCHANGED <<chanVars, numFrames, frameBuf, got, tries, pos,
                            revVars, mainVars>>

(* tsInput_NotifyChannelEvent, stream by stream.                           *)
NotifyTest == /\ rpc = "notify"
              /\ IF programNum = 1 /\ j < streamNum
                   THEN IF NoFrames(numFrames[j]) THEN j' = j + 1 /\ UNCHANGED rpc
                                                 ELSE rpc' = "notifyRing" /\ UNCHANGED j
                   ELSE rpc' = "top" /\ UNCHANGED j
              /\ UNCHANGED <<chanVars, bufVars, pkt, tries, pos, revVars, mainVars>>

(* Slip: a stream with frames is passed over without its event being set.  *)
NotifyRingSilent == /\ rpc = "notifyRing"
                    /\ j' = j + 1
                    /\ rpc' = "notify"
                    /\ UNCHANGED <<chanVars, bufVars, pkt, tries, pos, revVars, mainVars>>
NotifyRing == /\ rpc = "notifyRing"
              /\ event' = [event EXCEPT ![j] = TRUE]
              /\ j' = j + 1
              /\ rpc' = "notify"
              /\ UNCHANGED <<chanVars, numFrames, frameBuf, got, pkt, tries, pos,
                             revVars, mainVars>>

ExitReadTask == /\ rpc = "exit"
                /\ exitFlag' = 1
                /\ rpc' = "gone"
                /\ UNCHANGED <<readFlag, programNum, streamNum, idxVars, bufVars, pkt,
                               tries, j, pos, revVars, mainVars>>

ReadPktTask == \/ OpenFails \/ OpenInput
               \/ FillIndex \/ FillAudioNum \/ FillFrames \/ FillEvent \/ FillCount
               \/ ClearExit \/ StartReading
               \/ LoopTest \/ ReadFrame \/ ReadNothing
               \/ WriteFlagTest \/ WriteFullTest \/ DrainTest \/ DrainRing
               \/ DrainExpired \/ StorePkt \/ PostEvent
               \/ NotifyTest \/ NotifyRing \/ ExitReadTask

-----------------------------------------------------------------------------
(* The receiver.                                                           *)

RevInit == /\ vpc = "init"
           /\ revExit' = 0 /\ revRun' = 1
           /\ tvOk' \in BOOLEAN
           /\ nfds' = 0
           /\ vpc' = "top"
           /\ UNCHANGED <<chanVars, bufVars, readVars, role, watch, wi, ready, mainVars>>

RevLoopTest == /\ vpc = "top"
               /\ IF revExit = 0 THEN vpc' = "fdset" /\ watch' = {} /\ wi' = 0
                                 ELSE vpc' = "end" /\ UNCHANGED <<watch, wi>>
               /\ UNCHANGED <<chanVars, bufVars, readVars, role, nfds, ready, tvOk,
                              revExit, revRun, mainVars>>

(* The fd_set, one stream after the other.  maxFd grows only when a        *)
(* descriptor is greater than maxFd, and then to one more than it.         *)
FdAbove(s) == Fd[s] > nfds
FdSet == /\ vpc = "fdset"
         /\ IF programNum = 1 /\ wi < streamNum
              THEN /\ watch' = watch \cup {wi} /\ wi' = wi + 1
                   /\ nfds' = IF FdAbove(wi) THEN Fd[wi] + 1 ELSE nfds
                   /\ UNCHANGED vpc
              ELSE vpc' = "select" /\ UNCHANGED <<watch, wi, nfds>>
         /\ UNCHANGED <<chanVars, bufVars, readVars, role, ready, tvOk, revExit,
                        revRun, mainVars>>

(* select looks at descriptors below nfds only.  It fails when the timeout *)
(* is invalid, and times out when nothing is readable.                     *)
Readable == {s \in watch : event[s] /\ Fd[s] < nfds}
Select == /\ vpc = "select"
          /\ IF tvOk /\ Readable # {}
               THEN ready' = Readable /\ role' = "video" /\ vpc' = "isset"
               ELSE vpc' = "top" /\ UNCHANGED <<ready, role>>
          /\ UNCHANGED <<chanVars, bufVars, readVars, watch, wi, nfds, tvOk,
                         revExit, revRun, mainVars>>

RoleBuffer == IF role = "video" THEN vbuf ELSE abuf
(* On to the audio read after the video read, back to the loop after it.   *)
NextRole == IF role = "video" THEN role' = "audio" /\ vpc' = "isset"
                              ELSE role' = role /\ vpc' = "top"

(* Slip: both streams are read whichever of them select reported.          *)
IsSetUnasked == /\ vpc = "isset"
                /\ IF programNum = 1 /\ readFlag = 1 /\ (role = "audio" => audioNum > 0)
                     THEN vpc' = "wait" /\ UNCHANGED role
                     ELSE NextRole
                /\ UNCHANGED <<chanVars, bufVars, readVars, watch, wi, nfds, ready, tvOk,
                               revExit, revRun, mainVars>>

(* FD_ISSET, and the argument checks of tsInput_ReadChannelXxxPkt.         *)
IsSet == /\ vpc = "isset"
         /\ IF /\ programNum = 1 /\ RoleBuffer \in ready
               /\ readFlag = 1
               /\ role = "audio" => audioNum > 0
              THEN vpc' = "wait" /\ UNCHANGED role
              ELSE NextRole
         /\ UNCHANGED <<chanVars, bufVars, readVars, watch, wi, nfds, ready, tvOk,
                        revExit, revRun, mainVars>>

(* Event_Read blocks while the counter is zero.                            *)
EventRead == /\ vpc = "wait" /\ event[RoleBuffer]
             /\ event' = [event EXCEPT ![RoleBuffer] = FALSE]
             /\ vpc' = "empty"
             /\ UNCHANGED <<chanVars, numFrames, frameBuf, got, readVars, role, watch, wi,
                            nfds, ready, tvOk, revExit, revRun, mainVars>>

(* "if is empty": read outside the lock.                                   *)
EmptyTest == /\ vpc = "empty"
             /\ IF NoFrames(numFrames[RoleBuffer])
                  THEN NextRole
                  ELSE vpc' = "take" /\ UNCHANGED role
             /\ UNCHANGED <<chanVars, bufVars, readVars, watch, wi, nfds, ready, tvOk,
                            revExit, revRun, mainVars>>

(* Under bufferLock: clone and free slot 0, move the rest down.  A NULL    *)
(* slot 0 ends the program at the assertion.                               *)
TakeFrame == LET b == RoleBuffer IN
             /\ vpc = "take" /\ frameBuf[b][0] # NoPkt
             /\ got' = [got EXCEPT ![b] = Append(@, frameBuf[b][0])]
             /\ frameBuf' = [frameBuf EXCEPT ![b] = MoveDown(@, numFrames[b])]
             /\ numFrames' = [numFrames EXCEPT ![b] = @ - 1]
             /\ NextRole
             /\ UNCHANGED <<chanVars, event, readVars, watch, wi, nfds, ready, tvOk,
                            revExit, revRun, mainVars>>

(* Slip: the run state is never reset.                                     *)
RevEndSilent == /\ vpc = "end"
                /\ revExit' = 1 /\ revRun' = 1
                /\ vpc' = "gone"
                /\ UNCHANGED <<chanVars, bufVars, readVars, role, watch, wi, nfds, ready,
                               tvOk, mainVars>>
RevEnd == /\ vpc = "end"
          /\ revExit' = 1 /\ revRun' = 0
          /\ vpc' = "gone"
          /\ UNCHANGED <<chanVars, bufVars, readVars, role, watch, wi, nfds, ready, tvOk,
                         mainVars>>

RevFrame == \/ RevInit \/ RevLoopTest \/ FdSet \/ Select \/ IsSet \/ EventRead
            \/ EmptyTest \/ TakeFrame \/ RevEnd

-----------------------------------------------------------------------------
(* Main: tsInput_Test, with tsInput_StartChannel and tsInput_StopChannel.  *)

(* A thread begins at its first step.  When it cannot be created (no room  *)
(* for its attributes or its stack) Thread_NewDetach answers 0, which both *)
(* callers ignore, and main goes on without it.                            *)
NewDetach(first, never) == {first, never}

StartChannel == /\ mpc = "start"
                /\ rpc' \in NewDetach("open", "failed")
                /\ mpc' = "waitStart"
                /\ UNCHANGED <<chanVars, bufVars, pkt, tries, j, pos, revVars,
                               stopTries, ci, startRet, stopRet>>

(* The wait ends when the flag is set or after a second; the result tests  *)
(* the argument timeOut (1000), not the time left, so it is always 0.      *)
WaitStartRet == 0
WaitChannelStart == /\ mpc = "waitStart"
                    /\ startRet' = WaitStartRet
                    /\ mpc' = "spawnRev"
                    /\ UNCHANGED <<chanVars, bufVars, readVars, revVars, stopTries,
                                   ci, stopRet>>

SpawnRev == /\ mpc = "spawnRev"
            /\ vpc' \in NewDetach("init", "gone")
            /\ mpc' = "sleep"
            /\ UNCHANGED <<chanVars, bufVars, readVars, role, watch, wi, nfds, ready, tvOk,
                           revExit, revRun, stopTries, ci, startRet, stopRet>>

(* Ten seconds have passed.                                                *)
StopRev == /\ mpc = "sleep" /\ (RevInTime => vpc # "init")
           /\ revExit' = 1
           /\ mpc' = "waitRev"
           /\ UNCHANGED <<chanVars, bufVars, readVars, vpc, role, watch, wi, nfds, ready,
                          tvOk, revRun, stopTries, ci, startRet, stopRet>>

(* Slip: main does not wait for the receiver to end.                       *)
WaitRevNot == /\ mpc = "waitRev"
              /\ mpc' = "stop"
              /\ UNCHANGED <<chanVars, bufVars, readVars, revVars, stopTries, ci,
                             startRet, stopRet>>
WaitRev == /\ mpc = "waitRev" /\ revRun = 0
           /\ mpc' = "stop"
           /\ UNCHANGED <<chanVars, bufVars, readVars, revVars, stopTries, ci,
                          startRet, stopRet>>

StopChannel == /\ mpc = "stop"
               /\ readFlag' = 0
               /\ stopTries' = StopTimeout
               /\ mpc' = "waitExit"
               /\ UNCHANGED <<exitFlag, programNum, streamNum, idxVars, bufVars,
                              readVars, revVars, ci, startRet, stopRet>>

PollExit == /\ mpc = "waitExit" /\ exitFlag = 0 /\ stopTries > 0
            /\ stopTries' = stopTries - 1
            /\ UNCHANGED <<chanVars, bufVars, readVars, revVars, mpc, ci, startRet,
                           stopRet>>

(* Slip: a stop that timed out releases the channel all the same.          *)
StopFailsOpenly == /\ mpc = "waitExit" /\ stopTries = 0
                   /\ stopRet' = -1 /\ ci' = 0
                   /\ mpc' = "clear"
                   /\ UNCHANGED <<chanVars, bufVars, readVars, revVars, stopTries,
                                  startRet>>
(* The budget is tested after the loop: an exit seen on the last poll is   *)
(* reported as a timeout, and nothing is released.                         *)
StopFails == /\ mpc = "waitExit" /\ stopTries = 0
             /\ stopRet' = -1
             /\ mpc' = "done"
             /\ UNCHANGED <<chanVars, bufVars, readVars, revVars, stopTries, ci,
                            startRet>>

(* The input is closed; then the buffers are cleared one by one.           *)
CloseInput == /\ mpc = "waitExit" /\ exitFlag = 1 /\ stopTries > 0
              /\ ci' = 0
              /\ mpc' = "clear"
              /\ UNCHANGED <<chanVars, bufVars, readVars, revVars, stopTries,
                             startRet, stopRet>>

(* tsInput_ClearProgramBuffer: the packets are freed under the lock ...    *)
ClearFrames == /\ mpc = "clear" /\ programNum = 1 /\ ci < streamNum
               /\ frameBuf' = [frameBuf EXCEPT ![ci] = [i \in 0..(MaxFrames - 1) |->
                                 IF i < numFrames[ci] THEN NoPkt ELSE @[i]]]
               /\ mpc' = "clearCount"
               /\ UNCHANGED <<chanVars, numFrames, event, got, readVars, revVars,
                              stopTries, ci, startRet, stopRet>>

(* ... and the count is reset after it is released.                        *)
ClearCount == /\ mpc = "clearCount"
              /\ numFrames' = [numFrames EXCEPT ![ci] = 0]
              /\ ci' = ci + 1
              /\ mpc' = "clear"
              /\ UNCHANGED <<chanVars, frameBuf, event, got, readVars, revVars,
                             stopTries, startRet, stopRet>>

(* Locks destroyed, eventfds closed, the stream and program counts reset.  *)
CloseStreams == /\ mpc = "clear" /\ (programNum = 1 => ci >= streamNum)
                /\ programNum' = 0
                /\ streamNum' = IF programNum = 1 THEN 0 ELSE streamNum
                /\ stopRet' = 0
                /\ mpc' = "done"
                /\ UNCHANGED <<readFlag, exitFlag, idxVars, bufVars, readVars, revVars,
                               stopTries, ci, startRet>>

MainStep == \/ StartChannel \/ WaitChannelStart \/ SpawnRev \/ WaitRev
            \/ StopChannel \/ PollExit \/ StopFails \/ CloseInput
            \/ ClearFrames \/ ClearCount \/ CloseStreams

Next == ReadPktTask \/ RevFrame \/ MainStep \/ StopRev

(* Each thread that can step does so eventually; how long main leaves the  *)
(* channel running (StopRev) is open.                                      *)
Fairness == WF_vars(ReadPktTask) /\ WF_vars(RevFrame) /\ WF_vars(MainStep)

Spec == Init /\ [][Next]_vars /\ Fairness

-----------------------------------------------------------------------------
(* Properties.                                                             *)

(* Every variable stays within the values its C declaration and the loops  *)
(* that use it allow; control is at one of the code's steps.               *)
ChanTypeOK ==
    /\ readFlag \in {0, 1} /\ exitFlag \in {0, 1} /\ programNum \in {0, 1}
    /\ streamNum \in 0..NumStreams
    /\ vbuf \in Streams /\ abuf \in Streams /\ audioNum \in Nat
BufTypeOK ==
    /\ numFrames \in [Streams -> Int]
    /\ frameBuf \in [Streams -> [0..(MaxFrames - 1) -> Pkt \cup {NoPkt}]]
    /\ event \in [Streams -> BOOLEAN]
    /\ got \in [Streams -> Seq(Pkt)]
ReadTypeOK ==
    /\ rpc \in {"none", "open", "failed", "fill", "fillAudio", "fillFrames",
                "fillEvent", "fillCount", "start", "top", "read", "write", "full",
                "drain", "ring", "expired", "store", "post", "notify",
                "notifyRing", "exit", "gone"}
    /\ pkt \in Pkt \cup {NoPkt}
    /\ tries \in Nat /\ j \in 0..NumStreams /\ pos \in 0..NumPkts
RevTypeOK ==
    /\ vpc \in {"none", "init", "top", "fdset", "select", "isset", "wait", "empty",
                "take", "end", "gone"}
    /\ role \in {"video", "audio"}
    /\ watch \subseteq Streams /\ ready \subseteq Streams /\ wi \in 0..NumStreams
    /\ nfds \in Nat /\ tvOk \in BOOLEAN
    /\ revExit \in {0, 1} /\ revRun \in {0, 1}
MainTypeOK ==
    /\ mpc \in {"start", "waitStart", "spawnRev", "sleep", "waitRev", "stop",
                "waitExit", "clear", "clearCount", "done"}
    /\ stopTries \in 0..StopTimeout /\ ci \in 0..NumStreams
    /\ startRet \in {0, -1} /\ stopRet \in {0, -1}
TypeOK == ChanTypeOK /\ BufTypeOK /\ ReadTypeOK /\ RevTypeOK /\ MainTypeOK

(* A buffer never holds more than half of its slots: one unlocked test of  *)
(* the filling, a drain loop that may expire, and a store that re-reads    *)
(* the count are together enough, because the read task is the only one    *)
(* that adds frames.  So the audio store, which does not test for a free   *)
(* slot (tsInput.c:716), never writes past the buffer.                     *)
HalfFull == \A s \in Streams : numFrames[s] <= MaxFrames \div 2

(* The counted slots of a buffer hold packets: distinct, in input order,   *)
(* none already handed to the consumer (and freed) or freed by a stop.     *)
(* Between freeing the packets and resetting the count (tsInput.c:361-375) *)
(* a buffer is exempt.                                                     *)
FramesAreLive ==
    \A s \in Streams :
       (mpc = "clearCount" /\ ci = s) \/
       /\ \A i \in 0..(numFrames[s] - 1) : frameBuf[s][i] # NoPkt
       /\ \A i, k \in 0..(numFrames[s] - 1) :
             i < k => No(frameBuf[s][i]) < No(frameBuf[s][k])
       /\ \A i \in 0..(numFrames[s] - 1) : \A k \in 1..Len(got[s]) :
             No(got[s][k]) < No(frameBuf[s][i])

(* The emptiness test made outside the lock still holds when the receiver  *)
(* has the lock and takes slot 0 (tsInput.c:590-604 and 776-795).          *)
TakeIsSafe == vpc = "take" => /\ numFrames[RoleBuffer] > 0
                              /\ frameBuf[RoleBuffer][0] # NoPkt
PacketsAreSafe == FramesAreLive /\ TakeIsSafe

(* tsInput_StopChannel releases the input, the packets and the eventfds    *)
(* only when the read task has left its loop ("exit read task",            *)
(* tsInput.c:402) and the receiver has ended ("stop  rev", :1104).          *)
Releasing == mpc \in {"clear", "clearCount"}
StopAfterReadTask == Releasing => rpc = "gone"
StopAfterReceiver == Releasing => vpc \in {"none", "gone"}

(* After select reported a stream, the blocking Event_Read on it returns   *)
(* at once: nobody else consumes the event (tsInput.c:581 and 768).        *)
EventReadReturns == vpc = "wait" => event[RoleBuffer]

(* The waiting frames of each stream, as a sequence.                       *)
Waiting(s) == IF numFrames[s] <= 0 \/ frameBuf[s][0] = NoPkt THEN << >>
              ELSE [i \in 1..numFrames[s] |-> frameBuf[s][i - 1]]

(* A stop that succeeds has begun to release the channel.                  *)
Released == Releasing \/ (mpc = "done" /\ stopRet = 0)

(* Every buffer implements a bounded FIFO queue from the read task to the  *)
(* receiver: no frame is duplicated, reordered, or lost once stored, other *)
(* than by the stop that clears the buffers (tsInput.c:423-442), when      *)
(* nothing is stored or taken any more.                                    *)
Queues == INSTANCE FrameQueues
            WITH Frame <- Pkt, Capacity <- MaxFrames \div 2,
                 queue <- [s \in Streams |-> Waiting(s)], closed <- Released
ImplementsFrameQueues == Queues!Spec

(* A frame waiting in a buffer the receiver reads is eventually received,  *)
(* unless main stops the receiver first.  An event stands for every frame  *)
(* stored since it was last read, and the receiver takes one frame for it: *)
(* the others depend on the repeated notification (tsInput.c:311).         *)
(* The receiver is taken to be able to wait at all: tsInput_RevFrame never *)
(* sets tv_usec (tsInput.c:997, 1026), and when what is on its stack is no *)
(* valid value, every select fails and it never receives anything.         *)
InBuffer(s, n) == \E i \in 0..(numFrames[s] - 1) :
                     frameBuf[s][i] # NoPkt /\ No(frameBuf[s][i]) = n
Received(s, n) == \E i \in 1..Len(got[s]) : No(got[s][i]) = n
Stopping == mpc \in {"waitRev", "stop", "waitExit", "clear", "clearCount", "done"}
ReceiverCanWait == vpc \notin {"none", "init", "gone"} /\ tvOk
FramesAreReceived ==
    \A s \in Streams, n \in 1..NumPkts :
       (s \in {vbuf, abuf} /\ ReceiverCanWait /\ InBuffer(s, n))
          ~> (Received(s, n) \/ Stopping)

(* Once main asks the receiver to stop, tsInput_Test comes to its end: no  *)
(* thread waits for another for ever.                                      *)
StopCompletes == (mpc = "waitRev") ~> (mpc = "done")
=============================================================================
