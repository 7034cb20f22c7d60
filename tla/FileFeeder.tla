----------------------------- MODULE FileFeeder -----------------------------
(* The thread of dm8168/file_feeder.c: it fills the decoder's empty        *)
(* bitstream buffers with H.264 frames read from a data file, whose frame  *)
(* sizes a header file lists, over and over.                               *)
(*                                                                         *)
(* A frame is its number in the header file and whether the bytes read are *)
(* that frame; sizes are kept, contents are not.  External: the decoder,   *)
(* which lends and takes back its buffers.                                 *)
EXTENDS Integers, Sequences

CONSTANTS ch_num,    \* channels, each with its own handles on the same files
          Sizes,     \* the header file: the size of every frame
          DataLens,  \* the lengths the data file may have
          BitsBufs   \* the decoder's buffers for a channel

ASSUME ChannelsAssumption == ch_num \in Nat \ {0} /\ BitsBufs \in Nat
ASSUME FilesAssumption ==
    /\ Sizes \in Seq(Nat \ {0}) /\ Sizes # << >>
    /\ \A len \in DataLens : len \in Nat /\ len >= Sizes[1]

VARIABLES
    files,    \* the header ends in a newline; the length of the data file
    header,   \* per channel: sizes read from fp_header
    data,     \* per channel: offset in fd_data
    ffPc,     \* where the thread is
    ffSem,    \* feeder.sem
    ffQuit, ffQuitDone,
    i,        \* the channel the thread serves
    numBufs,  \* buffers of buf_list still to be filled
    filled,   \* the frames filled into buf_list so far
    free,     \* per channel: buffers the decoder can lend
    fed       \* per channel: the last frame put

feederVars == <<files, header, data, ffPc, ffSem, ffQuit, ffQuitDone, i, numBufs, filled, free, fed>>

Channels == 0..(ch_num - 1)
NumFrames == Len(Sizes)
NoFrame == [frame |-> 0, whole |-> TRUE]

(* Where a frame begins in the data file.                                  *)
Start[k \in 1..(NumFrames + 1)] == IF k = 1 THEN 0 ELSE Start[k - 1] + Sizes[k - 1]

FeederInit ==
    /\ files \in [newline : BOOLEAN, len : DataLens]
    /\ header = [ch \in Channels |-> 0] /\ data = [ch \in Channels |-> 0]
    /\ ffPc = "none" /\ ffSem = 0
    /\ ffQuit = FALSE /\ ffQuitDone = FALSE
    /\ i = 0 /\ numBufs = 0 /\ filled = << >>
    /\ free = [ch \in Channels |-> BitsBufs]
    /\ fed = [ch \in Channels |-> NoFrame]

(* file_feeder_create and file_feeder_start.                               *)
CreateFeeder ==
    /\ ffPc' = "sem" /\ ffSem' = 0 /\ ffQuit' = FALSE /\ ffQuitDone' = FALSE
    /\ UNCHANGED <<files, header, data, i, numBufs, filled, free, fed>>

(* Slip: the thread is created, and never told to start.                   *)
StartFeederNot == UNCHANGED feederVars

StartFeeder ==
    /\ ffSem' = 1
    /\ UNCHANGED <<files, header, data, ffPc, ffQuit, ffQuitDone, i, numBufs, filled, free, fed>>

(* file_feeder_stop asks, and waits for the answer.                        *)
AskFeederToQuit ==
    /\ ffQuit' = TRUE
    /\ UNCHANGED <<files, header, data, ffPc, ffSem, ffQuitDone, i, numBufs, filled, free, fed>>

(* Slip: it does not wait.                                                 *)
FeederHasBeenAsked == ffQuit
FeederHasQuit == ffQuitDone

ThreadStarts ==
    /\ ffPc = "sem" /\ ffSem > 0
    /\ ffSem' = ffSem - 1 /\ ffPc' = "loop"
    /\ UNCHANGED <<files, header, data, ffQuit, ffQuitDone, i, numBufs, filled, free, fed>>

(* The loop's condition, after the 8 ms wait.                              *)
LoopOrQuit ==
    /\ ffPc = "loop"
    /\ IF ffQuit THEN ffPc' = "done" /\ ffQuitDone' = TRUE
                 ELSE ffPc' = "request" /\ UNCHANGED ffQuitDone
    /\ i' = 0
    /\ UNCHANGED <<files, header, data, ffSem, ffQuit, numBufs, filled, free, fed>>

NextChannel ==
    IF i + 1 < ch_num THEN i' = i + 1 /\ ffPc' = "request" ELSE i' = i /\ ffPc' = "loop"

(* Vdec_requestBitstreamBuffer, without waiting: some of the empty buffers.*)
Request ==
    /\ ffPc = "request"
    /\ \E n \in 0..free[i] :
          /\ numBufs' = n
          /\ free' = [free EXCEPT ![i] = @ - n]
          /\ IF n > 0 THEN ffPc' = "fill" /\ UNCHANGED i ELSE NextChannel
    /\ UNCHANGED <<files, header, data, ffSem, ffQuit, ffQuitDone, filled, fed>>

(* Reading the size of frame k, and so many bytes from an offset.          *)
ReadAt(k, offset) ==
    [frame |-> k, whole |-> offset = Start[k] /\ offset + Sizes[k] <= files.len]

(* Slip: a frame the data file ends in is passed on.                       *)
EndOfFileInHeader(ch) ==
    header[ch] = NumFrames \/ (header[ch] + 1 = NumFrames /\ ~files.newline)

(* feof(fp_header) after the size was read (also when it was read, and     *)
(* nothing follows it), or the data file has less than the frame.          *)
EndOfFile(ch) ==
    \/ header[ch] = NumFrames
    \/ header[ch] + 1 = NumFrames /\ ~files.newline
    \/ data[ch] + Sizes[header[ch] + 1] > files.len

(* file_feeder_read_h264_by_frame: the next frame, the first after the end.*)
ReadByFrame(ch) ==
    IF EndOfFile(ch)
      THEN /\ filled' = Append(filled, ReadAt(1, 0))
           /\ header' = [header EXCEPT ![ch] = 1]
           /\ data' = [data EXCEPT ![ch] = Sizes[1]]
      ELSE /\ filled' = Append(filled, ReadAt(header[ch] + 1, data[ch]))
           /\ header' = [header EXCEPT ![ch] = @ + 1]
           /\ data' = [data EXCEPT ![ch] = @ + Sizes[header[ch] + 1]]

Fill ==
    /\ ffPc = "fill"
    /\ ReadByFrame(i)
    /\ numBufs' = numBufs - 1
    /\ ffPc' = IF numBufs = 1 THEN "put" ELSE "fill"
    /\ UNCHANGED <<files, ffSem, ffQuit, ffQuitDone, i, free, fed>>

(* Vdec_putBitstreamBuffer.                                                *)
Put ==
    /\ ffPc = "put"
    /\ fed' = [fed EXCEPT ![i] = filled[Len(filled)]]
    /\ filled' = << >>
    /\ NextChannel
    /\ UNCHANGED <<files, header, data, ffSem, ffQuit, ffQuitDone, numBufs, free>>

(* The decoder is done with a buffer it was given.                         *)
DecoderReturns(ch) ==
    /\ free[ch] + (IF ch = i THEN numBufs + Len(filled) ELSE 0) < BitsBufs
    /\ free' = [free EXCEPT ![ch] = @ + 1]
    /\ UNCHANGED <<files, header, data, ffPc, ffSem, ffQuit, ffQuitDone, i, numBufs, filled, fed>>

FeederThread == ThreadStarts \/ LoopOrQuit \/ Request \/ Fill \/ Put

-----------------------------------------------------------------------------

FeederTypeOK ==
    /\ files \in [newline : BOOLEAN, len : DataLens]
    /\ header \in [Channels -> 0..NumFrames] /\ data \in [Channels -> 0..files.len]
    /\ ffPc \in {"none", "sem", "loop", "request", "fill", "put", "done"}
    /\ ffSem \in 0..1 /\ ffQuit \in BOOLEAN /\ ffQuitDone \in BOOLEAN
    /\ i \in Channels /\ numBufs \in 0..BitsBufs
    /\ filled \in Seq([frame : 1..NumFrames, whole : BOOLEAN]) /\ Len(filled) <= BitsBufs
    /\ free \in [Channels -> 0..BitsBufs]
    /\ fed \in [Channels -> [frame : 0..NumFrames, whole : BOOLEAN]]

(* The last frame that is fed: whole in the data file, and not the last of *)
(* a header file that does not end in a newline.                           *)
IsFed(k) == /\ Start[k + 1] <= files.len
            /\ k = 1 \/ k < NumFrames \/ files.newline
LastFed == CHOOSE k \in 1..NumFrames : IsFed(k) /\ (k < NumFrames => ~IsFed(k + 1))

Previous == IF filled = << >> THEN fed[i] ELSE filled[Len(filled)]

(* Every channel is fed whole frames, in the order of the header file and  *)
(* then again from the first, however many buffers it is lent at a time    *)
(* and wherever the two files end (file_feeder.c:36-45).                   *)
FeedIsCyclic ==
    [][Len(filled') > Len(filled) =>
          filled'[Len(filled')] =
             [frame |-> IF Previous.frame = LastFed THEN 1 ELSE Previous.frame + 1,
              whole |-> TRUE]]_feederVars
=============================================================================
