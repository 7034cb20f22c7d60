------------------------------ MODULE AppLink ------------------------------
(* The user link of dsp/app_link.c: its task takes frames from the link    *)
(* before it, makes them gray, and queues them for the link after it,      *)
(* whose task takes them from the queue itself.                            *)
(*                                                                         *)
(* External are the framework (one inbox for a task; a frame list holds    *)
(* MaxPtr frames, the queue QueLen), both neighbour links, and the host    *)
(* that creates and deletes the link.                                      *)
EXTENDS Integers, Sequences, FiniteSets

CONSTANTS Frames, MaxPtr, QueLen,
          MaxInbox,   \* bound: messages in the task's inbox
          NumSerials  \* bound: frames captured, each with a serial number

ASSUME PoolAssumption == /\ IsFiniteSet(Frames) /\ MaxPtr \in Nat /\ QueLen \in Nat
                         /\ Cardinality(Frames) <= MaxPtr /\ Cardinality(Frames) <= QueLen
ASSUME BoundsAssumption == MaxInbox \in Nat \ {0} /\ NumSerials \in Nat

VARIABLES
    empty,    \* frames the previous link may fill
    prevQue,  \* frames it has filled
    prevDue,  \* it has yet to send NEW_DATA for some
    serial,   \* what is in a frame
    gray,     \* the frames that were made gray
    captured, \* the last serial number
    inbox,    \* messages for the task
    created,  \* "no", "yes", "deleted"
    pc,       \* where the task is
    list,     \* frameList: frames still to be processed
    outFrameBufQue,
    nextDue,  \* the next link has a NEW_DATA message
    taking,   \* it is inside AppLink_getFullFrames
    taken,    \* the frames it has
    got       \* the serial number it got last

prevVars == <<empty, prevQue, prevDue, serial, captured>>
taskVars == <<inbox, created, pc, list>>
nextVars == <<nextDue, taking, taken, got>>
vars == <<prevVars, taskVars, gray, outFrameBufQue, nextVars>>

Init == /\ empty = Frames /\ prevQue = << >> /\ prevDue = FALSE
        /\ serial = [f \in Frames |-> 0] /\ captured = 0 /\ gray = {}
        /\ inbox = <<"CREATE">> /\ created = "no" /\ pc = "receive" /\ list = << >>
        /\ outFrameBufQue = << >>
        /\ nextDue = FALSE /\ taking = FALSE /\ taken = {} /\ got = 0

(* The previous link, once the chain is created.                           *)
Capture(f) ==
    /\ created = "yes" /\ f \in empty /\ captured < NumSerials
    /\ empty' = empty \ {f} /\ prevQue' = Append(prevQue, f) /\ prevDue' = TRUE
    /\ captured' = captured + 1 /\ serial' = [serial EXCEPT ![f] = captured + 1]
    /\ gray' = gray \ {f}
    /\ UNCHANGED <<taskVars, outFrameBufQue, nextVars>>

Send(cmd) == Len(inbox) < MaxInbox /\ inbox' = Append(inbox, cmd)

AnnounceFrames ==
    /\ prevDue /\ Send("NEW_DATA") /\ prevDue' = FALSE
    /\ UNCHANGED <<empty, prevQue, serial, captured, created, pc, list, gray, outFrameBufQue, nextVars>>

(* The host: parameters of the link, or its end.  It waits for the answer  *)
(* to a command before it gives the next.                                  *)
Command ==
    /\ created = "yes" /\ \A k \in 1..Len(inbox) : inbox[k] = "NEW_DATA"
    /\ (\E cmd \in {"GRAY", "DELETE"} : Send(cmd))
    /\ UNCHANGED <<prevVars, created, pc, list, gray, outFrameBufQue, nextVars>>

(* AppLink_tskMain.  Before CREATE, and after DELETE, a message is refused.*)
Receive(cmd) ==
    /\ pc = "receive" /\ inbox # << >> /\ Head(inbox) = cmd
    /\ inbox' = Tail(inbox)

Create == /\ Receive("CREATE") /\ created = "no"
          /\ created' = "yes" /\ outFrameBufQue' = << >>
          /\ UNCHANGED <<prevVars, pc, list, gray, nextVars>>

Delete == /\ Receive("DELETE")
          /\ created' = IF created = "yes" THEN "deleted" ELSE created
          /\ UNCHANGED <<prevVars, pc, list, gray, outFrameBufQue, nextVars>>

SetGrayParams == /\ Receive("GRAY")
                 /\ UNCHANGED <<prevVars, created, pc, list, gray, outFrameBufQue, nextVars>>

(* Slip: one frame for each message.                                       *)
GetOneFrame ==
    /\ Receive("NEW_DATA")
    /\ IF created = "yes" /\ prevQue # << >>
         THEN list' = <<Head(prevQue)>> /\ prevQue' = Tail(prevQue) /\ pc' = "process"
         ELSE UNCHANGED <<list, prevQue, pc>>
    /\ UNCHANGED <<empty, prevDue, serial, captured, created, gray, outFrameBufQue, nextVars>>

(* AppLink_drvProcessFrames: all full frames of the previous link,         *)
GetFrames ==
    /\ Receive("NEW_DATA")
    /\ IF created = "yes" /\ prevQue # << >>
         THEN list' = prevQue /\ prevQue' = << >> /\ pc' = "process"
         ELSE UNCHANGED <<list, prevQue, pc>>
    /\ UNCHANGED <<empty, prevDue, serial, captured, created, gray, outFrameBufQue, nextVars>>

(* Slip: the frame is queued before it is made gray.                       *)
QueueThenGray ==
    /\ pc = "process" /\ list # << >>
    /\ outFrameBufQue' = Append(outFrameBufQue, Head(list))
    /\ list' = Tail(list)
    /\ gray' = IF Len(list) = 1 THEN gray ELSE gray \cup {Head(list)}
    /\ UNCHANGED <<prevVars, inbox, created, pc, nextVars>>

(* one after the other made gray and queued,                               *)
ProcessFrame ==
    /\ pc = "process" /\ list # << >>
    /\ gray' = gray \cup {Head(list)}
    /\ outFrameBufQue' = Append(outFrameBufQue, Head(list))
    /\ list' = Tail(list)
    /\ UNCHANGED <<prevVars, inbox, created, pc, nextVars>>

(* Slip: the next link is told before the last frame is queued.            *)
NotifyEarly ==
    /\ pc = "process"
    /\ IF list = << >> THEN pc' = "receive" /\ UNCHANGED nextDue
                       ELSE Len(list) = 1 /\ ~nextDue /\ nextDue' = TRUE /\ UNCHANGED pc
    /\ UNCHANGED <<prevVars, inbox, created, list, gray, outFrameBufQue, taking, taken, got>>

(* and then the next link is told.                                         *)
NotifyNext ==
    /\ pc = "process" /\ list = << >>
    /\ nextDue' = TRUE /\ pc' = "receive"
    /\ UNCHANGED <<prevVars, inbox, created, list, gray, outFrameBufQue, taking, taken, got>>

(* The next link handles NEW_DATA with AppLink_getFullFrames, which takes  *)
(* frames until it finds none,                                             *)
StartTaking ==
    /\ nextDue /\ ~taking
    /\ nextDue' = FALSE /\ taking' = TRUE
    /\ UNCHANGED <<prevVars, taskVars, gray, outFrameBufQue, taken, got>>

TakeFrame ==
    /\ taking
    /\ IF outFrameBufQue = << >>
         THEN taking' = FALSE /\ UNCHANGED <<outFrameBufQue, taken, got>>
         ELSE /\ outFrameBufQue' = Tail(outFrameBufQue)
              /\ taken' = taken \cup {Head(outFrameBufQue)}
              /\ got' = serial[Head(outFrameBufQue)]
              /\ UNCHANGED taking
    /\ UNCHANGED <<prevVars, taskVars, gray, nextDue>>

(* and gives them back with AppLink_putEmptyFrames.                        *)
PutEmptyFrames ==
    /\ taken # {}
    /\ empty' = empty \cup taken
    /\ taken' = {}
    /\ UNCHANGED <<prevQue, prevDue, serial, captured, taskVars, gray, outFrameBufQue, nextDue, taking, got>>

Task == Create \/ Delete \/ SetGrayParams \/ GetFrames \/ ProcessFrame \/ NotifyNext
NextLink == StartTaking \/ TakeFrame \/ PutEmptyFrames

Next == (\E f \in Frames : Capture(f)) \/ AnnounceFrames \/ Command \/ Task \/ NextLink

(* Tasks run, and messages that are due are sent.                          *)
Fairness == /\ WF_vars(Task) /\ WF_vars(AnnounceFrames)
            /\ WF_vars(StartTaking) /\ WF_vars(TakeFrame)

Spec == Init /\ [][Next]_vars /\ Fairness

-----------------------------------------------------------------------------
(* Properties.                                                             *)

TypeOK ==
    /\ empty \subseteq Frames /\ prevQue \in Seq(Frames) /\ prevDue \in BOOLEAN
    /\ serial \in [Frames -> 0..NumSerials] /\ captured \in 0..NumSerials
    /\ gray \subseteq Frames
    /\ inbox \in Seq({"CREATE", "GRAY", "DELETE", "NEW_DATA"}) /\ Len(inbox) <= MaxInbox
    /\ created \in {"no", "yes", "deleted"} /\ pc \in {"receive", "process"}
    /\ list \in Seq(Frames) /\ outFrameBufQue \in Seq(Frames)
    /\ nextDue \in BOOLEAN /\ taking \in BOOLEAN /\ taken \subseteq Frames
    /\ got \in 0..NumSerials

(* A frame is in one place of the loop through the three links, however    *)
(* their tasks interleave, so the queue always has room and the assert     *)
(* after Utils_quePut never fails (app_link.c:89-90).  And no frame waits  *)
(* in the queue without the next link being told, or about to be: it may   *)
(* have taken part of a list while the rest was processed.                 *)
NextLinkIsTold ==
    outFrameBufQue # << >> => nextDue \/ taking \/ pc = "process"
FramesAreConserved ==
    /\ TypeOK
    /\ Cardinality(empty) + Len(prevQue) + Len(list) + Len(outFrameBufQue) + Cardinality(taken)
          = Cardinality(Frames)
    /\ list # << >> => Len(outFrameBufQue) < QueLen
    /\ NextLinkIsTold

(* The next link gets every frame once, gray, in the order of capture.     *)
FramesComeGrayInOrder ==
    [][got' # got => got' = got + 1 /\ \E f \in gray : serial[f] = got']_vars

(* A captured frame reaches the next link, unless the link is deleted.     *)
FramesReachNextLink == \A n \in 1..NumSerials : captured = n ~> got >= n \/ created = "deleted"
=============================================================================
