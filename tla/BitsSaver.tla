----------------------------- MODULE BitsSaver -----------------------------
(* dm8168/bits_saver.c: the encoder's callback wakes a thread that writes  *)
(* the encoded frames to one file for each channel.                        *)
(*                                                                         *)
(* External: the encoder, which queues a frame and calls back after it,    *)
(* and hands out up to MaxList frames at a time.  A frame is its channel   *)
(* and its number.                                                         *)
EXTENDS Integers, Sequences

CONSTANTS SavedChannels,
          EncBufs,    \* frames the encoder holds, queued or handed out
          MaxList,    \* frames in a VCODEC_BITSBUF_LIST_S
          MaxEncoded  \* bound: frames encoded

ASSUME ListAssumption == /\ EncBufs \in Nat \ {0} /\ MaxList \in Nat /\ MaxEncoded \in Nat
                         /\ MaxList >= EncBufs

VARIABLES
    encoding,  \* the encoder runs
    encoded,   \* per channel: frames encoded
    encQue,    \* the encoder's full buffers
    callback,  \* "none": not registered; "set"; "due": to be called
    svSem,     \* saver.sem; -1 before OSA_semCreate
    svPc, svQuit, svQuitDone,
    list,      \* bitsBuf: the frames still to be written
    released,  \* handed-out frames that were written but not released
    saved      \* per channel: the file

saverVars == <<encoding, encoded, encQue, callback, svSem, svPc, svQuit, svQuitDone, list, released, saved>>

SaverInit ==
    /\ encoding = FALSE
    /\ encoded = [ch \in SavedChannels |-> 0]
    /\ encQue = << >>
    /\ callback = "none"
    /\ svSem = -1
    /\ svPc = "none" /\ svQuit = FALSE /\ svQuitDone = FALSE
    /\ list = << >> /\ released = 0
    /\ saved = [ch \in SavedChannels |-> << >>]

(* bits_saver_create, in its order: files and callback, semaphore, thread. *)
RegisterCallback ==
    /\ callback' = "set"
    /\ UNCHANGED <<encoding, encoded, encQue, svSem, svPc, svQuit, svQuitDone, list, released, saved>>

CreateSemaphore ==
    /\ svSem' = 0 /\ svQuit' = FALSE /\ svQuitDone' = FALSE
    /\ UNCHANGED <<encoding, encoded, encQue, callback, svPc, list, released, saved>>

CreateSaverThread ==
    /\ svPc' = "loop"
    /\ UNCHANGED <<encoding, encoded, encQue, callback, svSem, svQuit, svQuitDone, list, released, saved>>

SetEncoding(on) ==
    /\ encoding' = on
    /\ UNCHANGED <<encoded, encQue, callback, svSem, svPc, svQuit, svQuitDone, list, released, saved>>

(* The encoder queues a frame, and later calls back.                       *)
Encode(ch) ==
    /\ encoding /\ encoded[ch] < MaxEncoded
    /\ Len(encQue) + Len(list) + released < EncBufs
    /\ encoded' = [encoded EXCEPT ![ch] = @ + 1]
    /\ encQue' = Append(encQue, [ch |-> ch, frame |-> encoded[ch] + 1])
    /\ callback' = IF callback = "none" THEN "none" ELSE "due"
    /\ UNCHANGED <<encoding, svSem, svPc, svQuit, svQuitDone, list, released, saved>>

(* bits_saver_signal_new_data: the semaphore counts to one.                *)
SignalNewData ==
    /\ callback = "due"
    /\ callback' = "set"
    /\ svSem' = 1
    /\ UNCHANGED <<encoding, encoded, encQue, svPc, svQuit, svQuitDone, list, released, saved>>

LoopSaver ==
    /\ svPc = "loop"
    /\ IF svQuit THEN svPc' = "done" /\ svQuitDone' = TRUE
                 ELSE svPc' = "wait" /\ UNCHANGED svQuitDone
    /\ UNCHANGED <<encoding, encoded, encQue, callback, svSem, svQuit, list, released, saved>>

WaitForData ==
    /\ svPc = "wait" /\ svSem > 0
    /\ svSem' = svSem - 1 /\ svPc' = "get"
    /\ UNCHANGED <<encoding, encoded, encQue, callback, svQuit, svQuitDone, list, released, saved>>

(* The link that holds the queue (bitsInHost) is deleted: what is in it is *)
(* lost, and Venc_getBitstreamBuffer finds nothing any more.  Frames that  *)
(* were handed out before are taken to stay readable.                      *)
DeleteQueue ==
    /\ encQue' = << >>
    /\ UNCHANGED <<encoding, encoded, callback, svSem, svPc, svQuit, svQuitDone, list, released, saved>>

(* Slip: one frame for each signal.                                        *)
GetOneBuffer ==
    /\ svPc = "get"
    /\ IF encQue = << >> THEN svPc' = "loop" /\ UNCHANGED <<list, encQue>>
                         ELSE svPc' = "write" /\ list' = <<Head(encQue)>> /\ encQue' = Tail(encQue)
    /\ UNCHANGED <<encoding, encoded, callback, svSem, svQuit, svQuitDone, released, saved>>

(* Venc_getBitstreamBuffer, without waiting.                               *)
GetBuffers ==
    LET n == IF Len(encQue) < MaxList THEN Len(encQue) ELSE MaxList
    IN /\ svPc = "get"
       /\ list' = SubSeq(encQue, 1, n)
       /\ encQue' = SubSeq(encQue, n + 1, Len(encQue))
       /\ svPc' = IF encQue = << >> THEN "loop" ELSE "write"
       /\ UNCHANGED <<encoding, encoded, callback, svSem, svQuit, svQuitDone, released, saved>>

TakeFromList ==
    /\ svPc = "write" /\ list # << >>
    /\ list' = Tail(list) /\ released' = released + 1
    /\ UNCHANGED <<encoding, encoded, encQue, callback, svSem, svPc, svQuitDone>>

Write ==
    /\ TakeFromList
    /\ saved' = [saved EXCEPT ![list[1].ch] = Append(@, list[1])]
    /\ UNCHANGED svQuit

(* Slip: a failed write is passed over.                                    *)
WriteFailsSilently == TakeFromList /\ UNCHANGED <<svQuit, saved>>

(* A failed write ends the thread, once the rest of the list was tried.    *)
WriteFails ==
    /\ TakeFromList
    /\ svQuit' = TRUE
    /\ UNCHANGED saved

Release ==
    /\ svPc = "write" /\ list = << >>
    /\ released' = 0 /\ svPc' = "loop"
    /\ UNCHANGED <<encoding, encoded, encQue, callback, svSem, svQuit, svQuitDone, list, saved>>

SaverThread == LoopSaver \/ WaitForData \/ GetBuffers \/ Write \/ Release
Encoder == (\E ch \in SavedChannels : Encode(ch)) \/ SignalNewData

-----------------------------------------------------------------------------
Frames == [ch : SavedChannels, frame : 1..MaxEncoded]

SaverTypeOK ==
    /\ encoding \in BOOLEAN
    /\ encoded \in [SavedChannels -> 0..MaxEncoded]
    /\ encQue \in Seq(Frames)
    /\ callback \in {"none", "set", "due"}
    /\ svSem \in -1..1
    /\ svPc \in {"none", "loop", "wait", "get", "write", "done"}
    /\ svQuit \in BOOLEAN /\ svQuitDone \in BOOLEAN
    /\ list \in Seq(Frames) /\ released \in 0..EncBufs
    /\ saved \in [SavedChannels -> Seq(Frames)]

(* Signals may fold into one, but a thread that waits while there are      *)
(* frames, and no callback is due, has its signal: it takes all there are, *)
(* so none is left for a signal that never comes (bits_saver.c:21-26).     *)
SaverIsSignalled ==
    svPc \in {"loop", "wait"} /\ encQue # << >> /\ callback # "due" /\ ~svQuit => svSem = 1

(* A callback never meets a semaphore that does not exist, although it is  *)
(* registered before the semaphore is made (bits_saver.c:74-81).           *)
CallbackFindsSemaphore == callback = "due" => svSem >= 0
SaverIsReady == SaverIsSignalled /\ CallbackFindsSemaphore

(* The saver is always ready for the next signal, and unless a write       *)
(* failed, a channel's file holds the channel's frames, all that were      *)
(* handed out, in order (bits_saver.c:21-43, 74-81).                       *)
FilesHaveNoGap ==
    /\ SaverIsReady
    /\ ~svQuit => \A ch \in SavedChannels :
                     saved[ch] = [k \in 1..Len(saved[ch]) |-> [ch |-> ch, frame |-> k]]
=============================================================================
