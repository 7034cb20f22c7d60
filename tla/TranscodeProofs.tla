-------------------------- MODULE TranscodeProofs --------------------------
(***************************************************************************)
(* Proofs about Transcode, for every number of channels, buffers and       *)
(* frames, and every header and data file.  The feeder, the saver, the     *)
(* on-screen text and the chain of links have an invariant each; what the  *)
(* program has done with them is where it stands.                          *)
(***************************************************************************)
EXTENDS Transcode, Induction, FiniteSetTheorems, SequenceTheorems

-----------------------------------------------------------------------------
(* The feeder.                                                             *)

FedFrames == [frame : 1..NumFrames, whole : BOOLEAN]

(* Lent buffers are to be filled, or filled, or the decoder's.             *)
FeederInv ==
    /\ FeederTypeOK
    /\ ffPc = "fill" => numBufs > 0
    /\ ffPc = "put" => filled # << >>
    /\ ffPc # "fill" => numBufs = 0
    /\ ffPc \notin {"fill", "put"} => filled = << >>
    /\ free[i] + numBufs + Len(filled) <= BitsBufs
    /\ ffQuitDone => ffPc = "done"

LEMMA FileFacts ==
  /\ NumFrames \in Nat \ {0} /\ 1 \in 1..NumFrames
  /\ \A k \in 1..NumFrames : Sizes[k] \in Nat \ {0}
  /\ \A len \in DataLens : len \in Nat /\ Sizes[1] <= len
  /\ 0 \in Channels /\ ch_num \in Nat /\ BitsBufs \in Nat
<1>1. Sizes \in Seq(Nat \ {0}) /\ Sizes # << >>
  BY FilesAssumption
<1>2. Len(Sizes) \in Nat \ {0} /\ \A k \in 1..Len(Sizes) : Sizes[k] \in Nat \ {0}
  BY <1>1
<1> QED BY <1>2, FilesAssumption, ChannelsAssumption DEF NumFrames, Channels

LEMMA ReadAtType ==
  ASSUME NEW k \in 1..NumFrames, NEW offset
  PROVE  ReadAt(k, offset) \in FedFrames
<1> DEFINE w == offset = Start[k] /\ offset + Sizes[k] <= files.len
<1>1. w \in BOOLEAN
  OBVIOUS
<1>2. ReadAt(k, offset) = [frame |-> k, whole |-> w]
  BY DEF ReadAt
<1> HIDE DEF w
<1> QED BY <1>1, <1>2 DEF FedFrames

(* Reading stays within both files.                                        *)
LEMMA ReadStaysInside ==
  ASSUME FeederTypeOK, NEW ch \in Channels, ReadByFrame(ch), UNCHANGED files
  PROVE  /\ header' \in [Channels -> 0..NumFrames] /\ data' \in [Channels -> 0..files.len]
         /\ \E frame \in FedFrames : filled' = Append(filled, frame)
<1>a. /\ header \in [Channels -> 0..NumFrames] /\ data \in [Channels -> 0..files.len]
      /\ files.len \in Nat /\ Sizes[1] <= files.len /\ Sizes[1] \in Nat
  BY FileFacts DEF FeederTypeOK
<1>b. header[ch] \in 0..NumFrames /\ data[ch] \in 0..files.len /\ NumFrames \in Nat \ {0}
  BY <1>a, FileFacts
<1> HIDE DEF NumFrames, Channels, FedFrames
<1>1. CASE EndOfFile(ch)
  <2>1. /\ filled' = Append(filled, ReadAt(1, 0)) /\ header' = [header EXCEPT ![ch] = 1]
        /\ data' = [data EXCEPT ![ch] = Sizes[1]]
    BY <1>1 DEF ReadByFrame
  <2>2. 1 \in 1..NumFrames /\ 1 \in 0..NumFrames /\ Sizes[1] \in 0..files.len
    BY <1>a, <1>b
  <2>3. ReadAt(1, 0) \in FedFrames
    BY <2>2, ReadAtType
  <2> QED BY <1>a, <2>1, <2>2, <2>3
<1>2. CASE ~EndOfFile(ch)
  <2> DEFINE k == header[ch] + 1
             off == data[ch] + Sizes[k]
  <2>1. /\ filled' = Append(filled, ReadAt(k, data[ch]))
        /\ header' = [header EXCEPT ![ch] = k] /\ data' = [data EXCEPT ![ch] = off]
    BY <1>2 DEF ReadByFrame
  <2>2. k \in 1..NumFrames /\ k \in 0..NumFrames
    BY <1>2, <1>b DEF EndOfFile
  <2>3. ~(off > files.len) /\ Sizes[k] \in Nat
    BY <1>2, <2>2, FileFacts DEF EndOfFile
  <2>4. off \in 0..files.len
    BY <1>a, <1>b, <2>3
  <2>5. ReadAt(k, data[ch]) \in FedFrames
    BY <2>2, ReadAtType
  <2> HIDE DEF k, off
  <2> QED BY <1>a, <2>1, <2>2, <2>4, <2>5
<1> QED BY <1>1, <1>2

LEMMA FeederStarts == FeederInit => FeederInv
<1> SUFFICES ASSUME FeederInit PROVE FeederInv
  OBVIOUS
<1>1. files.len \in Nat
  BY FileFacts DEF FeederInit
<1>2. NoFrame \in [frame : 0..NumFrames, whole : BOOLEAN]
  BY FileFacts DEF NoFrame
<1> QED BY <1>1, <1>2, FileFacts DEF FeederInit, FeederInv, FeederTypeOK

LEMMA NextChannelType ==
  ASSUME FeederTypeOK, NextChannel
  PROVE  i' \in Channels /\ ffPc' \in {"request", "loop"}
<1>1. i \in 0..(ch_num - 1) /\ ch_num \in Nat
  BY FileFacts DEF FeederTypeOK, Channels
<1>2. CASE i + 1 < ch_num
  BY <1>1, <1>2 DEF NextChannel, Channels
<1>3. CASE ~(i + 1 < ch_num)
  BY <1>1, <1>3 DEF NextChannel, Channels
<1> QED BY <1>2, <1>3

LEMMA FeederSteps ==
  ASSUME FeederInv,
         \/ FeederThread \/ \E ch \in Channels : DecoderReturns(ch)
         \/ ffPc = "none" /\ CreateFeeder
         \/ StartFeeder \/ AskFeederToQuit \/ UNCHANGED feederVars
  PROVE  FeederInv'
<1>a. /\ files \in [newline : BOOLEAN, len : DataLens]
      /\ header \in [Channels -> 0..NumFrames] /\ data \in [Channels -> 0..files.len]
      /\ ffPc \in {"none", "sem", "loop", "request", "fill", "put", "done"}
      /\ ffSem \in 0..1 /\ ffQuit \in BOOLEAN /\ ffQuitDone \in BOOLEAN
      /\ i \in Channels /\ numBufs \in 0..BitsBufs
      /\ filled \in Seq(FedFrames) /\ Len(filled) <= BitsBufs /\ Len(filled) \in Nat
      /\ free \in [Channels -> 0..BitsBufs]
      /\ fed \in [Channels -> [frame : 0..NumFrames, whole : BOOLEAN]]
  <2>1. FeederTypeOK
    BY DEF FeederInv
  <2> HIDE DEF Channels, NumFrames
  <2>2. filled \in Seq(FedFrames)
    BY <2>1 DEF FeederTypeOK, FedFrames
  <2>3. Len(filled) \in Nat
    BY <2>2, LenProperties
  <2> QED BY <2>1, <2>2, <2>3, Zenon DEF FeederTypeOK
<1>b. /\ ffPc = "fill" => numBufs > 0
      /\ ffPc = "put" => filled # << >>
      /\ ffPc # "fill" => numBufs = 0
      /\ ffPc \notin {"fill", "put"} => filled = << >>
      /\ free[i] + numBufs + Len(filled) <= BitsBufs /\ free[i] \in 0..BitsBufs
      /\ ffQuitDone => ffPc = "done"
      /\ BitsBufs \in Nat /\ 0 \in Channels /\ Len(<< >>) = 0
      /\ \A ch \in Channels : free[ch] \in 0..BitsBufs
  BY <1>a, FileFacts DEF FeederInv
<1> HIDE DEF Channels, NumFrames
<1>1. CASE ThreadStarts
  <2>1. /\ ffPc = "sem" /\ ffPc' = "loop" /\ ffSem' \in 0..1
        /\ UNCHANGED <<files, header, data, ffQuit, ffQuitDone, i, numBufs, filled, free, fed>>
    BY <1>a, <1>1 DEF ThreadStarts
  <2>2. FeederTypeOK'
    BY <1>a, <2>1, Zenon DEF FeederTypeOK, FedFrames
  <2> QED BY <1>b, <2>1, <2>2 DEF FeederInv
<1>2. CASE LoopOrQuit
  <2>1. numBufs = 0 /\ filled = << >> /\ i' = 0 /\ free' = free /\ free[0] \in 0..BitsBufs
    BY <1>a, <1>b, <1>2 DEF LoopOrQuit
  <2>2. free'[i'] + numBufs + Len(filled) <= BitsBufs
    BY <1>b, <2>1
  <2> QED BY <1>a, <1>b, <1>2, <2>1, <2>2 DEF LoopOrQuit, FeederInv, FeederTypeOK, FedFrames
<1>3. CASE Request
  <2>1. PICK n \in 0..free[i] :
           /\ numBufs' = n /\ free' = [free EXCEPT ![i] = @ - n]
           /\ IF n > 0 THEN ffPc' = "fill" /\ UNCHANGED i ELSE NextChannel
    BY <1>3 DEF Request
  <2>2. /\ ffPc = "request" /\ numBufs = 0 /\ filled = << >>
        /\ UNCHANGED <<files, header, data, ffSem, ffQuit, ffQuitDone, filled, fed>>
    BY <1>3, <1>b DEF Request
  <2>3. /\ free[i] - n \in 0..BitsBufs /\ n \in 0..BitsBufs
        /\ free' \in [Channels -> 0..BitsBufs] /\ free'[i] = free[i] - n
        /\ \A ch \in Channels : free'[ch] \in 0..BitsBufs
    <3>1. \A m \in 0..BitsBufs : n \in 0..m => m - n \in 0..BitsBufs /\ n \in 0..BitsBufs
      BY <1>b
    <3>2. free[i] - n \in 0..BitsBufs /\ n \in 0..BitsBufs
      BY <1>b, <3>1
    <3> QED BY <1>a, <2>1, <3>2
  <2>4. /\ ffPc' \in {"request", "loop", "fill"} /\ i' \in Channels
        /\ ffPc' = "fill" <=> n > 0
        /\ ffPc' = "fill" => i' = i
    BY <1>a, <1>b, <2>1, NextChannelType DEF FeederInv
  <2>5. free'[i'] + numBufs' + Len(filled') <= BitsBufs
    BY <1>b, <2>1, <2>2, <2>3, <2>4
  <2>6. FeederTypeOK'
    BY <1>a, <2>1, <2>2, <2>3, <2>4 DEF FeederTypeOK, FedFrames
  <2>7. /\ ffPc' = "fill" => numBufs' > 0
        /\ ffPc' # "fill" => numBufs' = 0
        /\ ffPc' # "put" /\ filled' = << >> /\ ~ffQuitDone'
    BY <1>b, <2>1, <2>2, <2>4
  <2> QED BY <2>5, <2>6, <2>7 DEF FeederInv
<1>4. CASE Fill
  <2>1. /\ ReadByFrame(i) /\ UNCHANGED files /\ numBufs' = numBufs - 1
        /\ ffPc = "fill" /\ ffPc' = IF numBufs = 1 THEN "put" ELSE "fill"
        /\ UNCHANGED <<files, ffSem, ffQuit, ffQuitDone, i, free, fed>>
    BY <1>4 DEF Fill
  <2>2. /\ header' \in [Channels -> 0..NumFrames] /\ data' \in [Channels -> 0..files.len]
        /\ \E frame \in FedFrames : filled' = Append(filled, frame)
    BY <1>a, <2>1, ReadStaysInside DEF FeederInv
  <2>3. filled' \in Seq(FedFrames) /\ Len(filled') = Len(filled) + 1 /\ filled' # << >>
    <3>1. PICK frame \in FedFrames : filled' = Append(filled, frame)
      BY <2>2
    <3>2. filled \in Seq(FedFrames)
      BY <1>a
    <3>3. Append(filled, frame) \in Seq(FedFrames) /\ Len(Append(filled, frame)) = Len(filled) + 1
          /\ Append(filled, frame) # << >>
      BY <3>2, AppendProperties
    <3> QED BY <3>1, <3>3
  <2>4. numBufs' \in 0..BitsBufs /\ Len(filled') <= BitsBufs
        /\ free'[i'] + numBufs' + Len(filled') <= BitsBufs
        /\ (ffPc' = "fill" => numBufs' > 0) /\ (ffPc' # "fill" => numBufs' = 0)
    <3>1. /\ numBufs \in Nat \ {0} /\ Len(filled) \in Nat /\ free[i] \in Nat
          /\ free[i] + numBufs + Len(filled) <= BitsBufs /\ BitsBufs \in Nat
      BY <1>a, <1>b, <2>1
    <3>2. free'[i'] = free[i]
      BY <2>1
    <3> QED BY <2>1, <2>3, <3>1, <3>2
  <2>5. ffPc' \in {"put", "fill"} /\ ~ffQuitDone'
    BY <1>b, <2>1
  <2> QED BY <1>a, <2>1, <2>2, <2>3, <2>4, <2>5 DEF FeederInv, FeederTypeOK, FedFrames
<1>5. CASE Put
  <2>1. /\ ffPc = "put" /\ filled # << >> /\ numBufs = 0
        /\ fed' = [fed EXCEPT ![i] = filled[Len(filled)]] /\ filled' = << >>
        /\ NextChannel
        /\ UNCHANGED <<files, header, data, ffSem, ffQuit, ffQuitDone, numBufs, free>>
    BY <1>5, <1>b DEF Put
  <2>2. filled[Len(filled)] \in [frame : 0..NumFrames, whole : BOOLEAN]
    <3>1. Len(filled) \in 1..Len(filled)
      BY <1>a, <2>1
    <3>2. filled[Len(filled)] \in FedFrames
      BY <1>a, <3>1
    <3>3. FedFrames \subseteq [frame : 0..NumFrames, whole : BOOLEAN]
      BY FileFacts DEF FedFrames
    <3> QED BY <3>2, <3>3
  <2>3. fed' \in [Channels -> [frame : 0..NumFrames, whole : BOOLEAN]]
    BY <1>a, <2>1, <2>2
  <2>4. i' \in Channels /\ ffPc' \in {"request", "loop"}
    BY <2>1, NextChannelType DEF FeederInv
  <2>5. free'[i'] + numBufs' + Len(filled') <= BitsBufs
    BY <1>b, <2>1, <2>4
  <2>6. FeederTypeOK'
    <3>1. /\ ffPc' \in {"none", "sem", "loop", "request", "fill", "put", "done"}
          /\ filled' \in Seq(FedFrames) /\ Len(filled') <= BitsBufs
      BY <1>b, <2>1, <2>4
    <3> QED BY <1>a, <2>1, <2>3, <2>4, <3>1 DEF FeederTypeOK, FedFrames
  <2>7. ffPc' \notin {"fill", "put"} /\ numBufs' = 0 /\ filled' = << >> /\ ~ffQuitDone'
    BY <1>b, <2>1, <2>4
  <2> QED BY <2>5, <2>6, <2>7 DEF FeederInv
<1>6. CASE \E ch \in Channels : DecoderReturns(ch)
  <2>1. PICK ch \in Channels : DecoderReturns(ch)
    BY <1>6
  <2>2. /\ free[ch] + (IF ch = i THEN numBufs + Len(filled) ELSE 0) < BitsBufs
        /\ free' = [free EXCEPT ![ch] = @ + 1]
        /\ UNCHANGED <<files, header, data, ffPc, ffSem, ffQuit, ffQuitDone, i, numBufs, filled, fed>>
    BY <2>1 DEF DecoderReturns
  <2>3. free[ch] + 1 \in 0..BitsBufs
    <3>1. free[ch] \in Nat /\ numBufs \in Nat /\ Len(filled) \in Nat /\ BitsBufs \in Nat
      BY <1>a, <1>b
    <3>2. free[ch] < BitsBufs
      BY <2>2, <3>1
    <3> QED BY <3>1, <3>2
  <2>4. free' \in [Channels -> 0..BitsBufs] /\ free'[ch] = free[ch] + 1
        /\ (ch # i => free'[i] = free[i])
    BY <1>a, <2>2, <2>3
  <2>5. free'[i] + numBufs + Len(filled) <= BitsBufs
    <3>1. free[i] \in Nat /\ numBufs \in Nat /\ Len(filled) \in Nat /\ BitsBufs \in Nat
      BY <1>a, <1>b
    <3>2. CASE ch = i
      BY <2>2, <2>4, <3>1, <3>2
    <3>3. CASE ch # i
      BY <1>b, <2>4, <3>3
    <3> QED BY <3>2, <3>3
  <2> QED BY <1>a, <1>b, <2>2, <2>4, <2>5 DEF FeederInv, FeederTypeOK, FedFrames
<1>7. CASE ffPc = "none" /\ CreateFeeder
  <2>1. /\ numBufs = 0 /\ filled = << >> /\ ffPc' = "sem" /\ ffSem' = 0
        /\ ffQuit' = FALSE /\ ffQuitDone' = FALSE
        /\ UNCHANGED <<files, header, data, i, numBufs, filled, free, fed>>
    BY <1>b, <1>7 DEF CreateFeeder
  <2>2. FeederTypeOK'
    <3>1. /\ ffPc' \in {"none", "sem", "loop", "request", "fill", "put", "done"}
          /\ ffSem' \in 0..1
      BY <2>1
    <3>2. ffQuit' \in BOOLEAN /\ ffQuitDone' \in BOOLEAN
      BY <2>1, Zenon
    <3>3. /\ files' \in [newline : BOOLEAN, len : DataLens]
          /\ header' \in [Channels -> 0..NumFrames] /\ data' \in [Channels -> 0..files'.len]
      BY <1>a, <2>1, Zenon
    <3>4. /\ i' \in Channels /\ numBufs' \in 0..BitsBufs
          /\ filled' \in Seq([frame : 1..NumFrames, whole : BOOLEAN]) /\ Len(filled') <= BitsBufs
          /\ free' \in [Channels -> 0..BitsBufs]
          /\ fed' \in [Channels -> [frame : 0..NumFrames, whole : BOOLEAN]]
      BY <1>a, <2>1, Zenon DEF FedFrames
    <3> QED BY <3>1, <3>2, <3>3, <3>4, Zenon DEF FeederTypeOK
  <2> QED BY <1>b, <2>1, <2>2 DEF FeederInv
<1>8. CASE StartFeeder
  <2>1. /\ ffSem' \in 0..1 /\ ffPc' = ffPc
        /\ UNCHANGED <<files, header, data, ffQuit, ffQuitDone, i, numBufs, filled, free, fed>>
    BY <1>8 DEF StartFeeder
  <2>2. FeederTypeOK'
    BY <1>a, <2>1, Zenon DEF FeederTypeOK, FedFrames
  <2> QED BY <1>b, <2>1, <2>2 DEF FeederInv
<1>9. CASE AskFeederToQuit
  BY <1>a, <1>b, <1>9 DEF AskFeederToQuit, FeederInv, FeederTypeOK, FedFrames
<1>10. CASE UNCHANGED feederVars
  BY <1>a, <1>b, <1>10 DEF feederVars, FeederInv, FeederTypeOK, FedFrames
<1> QED BY <1>1, <1>2, <1>3, <1>4, <1>5, <1>6, <1>7, <1>8, <1>9, <1>10 DEF FeederThread

-----------------------------------------------------------------------------
(* The saver's files.                                                      *)

(* The frames on their way from the encoder to the files, in order.        *)
Line == list \o encQue

(* Each file holds its channel's first frames, and the line the others     *)
(* that were encoded, in order.                                            *)
NoGap(line, enc, sv) ==
    /\ \A ch \in SavedChannels : Len(sv[ch]) <= enc[ch]
    /\ \A ch \in SavedChannels : \A k \in 1..Len(sv[ch]) : sv[ch][k] = [ch |-> ch, frame |-> k]
    /\ \A k \in 1..Len(line) : Len(sv[line[k].ch]) < line[k].frame
                               /\ line[k].frame <= enc[line[k].ch]
    /\ \A k, l \in 1..Len(line) :
          k < l /\ line[k].ch = line[l].ch => line[k].frame < line[l].frame
    /\ \A ch \in SavedChannels : \A n \in (Len(sv[ch]) + 1)..enc[ch] :
          \E k \in 1..Len(line) : line[k] = [ch |-> ch, frame |-> n]

LEMMA Longer ==
  ASSUME NEW S, NEW q \in Seq(S), NEW e \in S
  PROVE  /\ Len(Append(q, e)) = Len(q) + 1 /\ Append(q, e) \in Seq(S)
         /\ \A k \in 1..Len(Append(q, e)) : \/ k \in 1..Len(q) /\ Append(q, e)[k] = q[k]
                                            \/ k = Len(q) + 1 /\ Append(q, e)[k] = e
         /\ \A k \in 1..Len(q) : k \in 1..Len(Append(q, e)) /\ Append(q, e)[k] = q[k]
         /\ Len(q) + 1 \in 1..Len(Append(q, e)) /\ Append(q, e)[Len(q) + 1] = e
<1>1. /\ Len(q) \in Nat /\ Len(Append(q, e)) = Len(q) + 1 /\ Append(q, e) \in Seq(S)
      /\ \A k \in 1..Len(q) : Append(q, e)[k] = q[k]
      /\ Append(q, e)[Len(q) + 1] = e
  OBVIOUS
<1> QED BY <1>1

LEMMA EncodeLeavesNoGap ==
  ASSUME NEW line \in Seq(Frames), NEW enc \in [SavedChannels -> 0..MaxEncoded],
         NEW sv \in [SavedChannels -> Seq(Frames)], NEW ch \in SavedChannels,
         enc[ch] < MaxEncoded, NoGap(line, enc, sv)
  PROVE  NoGap(Append(line, [ch |-> ch, frame |-> enc[ch] + 1]), [enc EXCEPT ![ch] = @ + 1], sv)
<1> DEFINE x == [ch |-> ch, frame |-> enc[ch] + 1]
           more == Append(line, x)
           enc2 == [enc EXCEPT ![ch] = @ + 1]
<1>a. MaxEncoded \in Nat
  BY ListAssumption
<1>b. /\ \A c \in SavedChannels : enc[c] \in Nat /\ Len(sv[c]) \in Nat
      /\ \A c \in SavedChannels : enc2[c] = IF c = ch THEN enc[c] + 1 ELSE enc[c]
      /\ Len(line) \in Nat
  BY <1>a
<1>c. x \in Frames /\ x.ch = ch /\ x.frame = enc[ch] + 1
  BY <1>a, <1>b DEF Frames
<1>d. /\ Len(more) = Len(line) + 1
      /\ \A k \in 1..Len(more) : \/ k \in 1..Len(line) /\ more[k] = line[k]
                                 \/ k = Len(line) + 1 /\ more[k] = x
      /\ \A k \in 1..Len(line) : k \in 1..Len(more) /\ more[k] = line[k]
      /\ Len(line) + 1 \in 1..Len(more) /\ more[Len(line) + 1] = x
  <2> HIDE DEF x
  <2> QED BY <1>c, Longer
<1>e. \A k \in 1..Len(line) : line[k].ch \in SavedChannels /\ line[k].frame \in Nat
  <2>1. \A k \in 1..Len(line) : line[k] \in Frames
    BY ElementOfSeq
  <2> QED BY <2>1 DEF Frames
<1> HIDE DEF x, more, enc2
<1>f. \A c \in SavedChannels : enc[c] <= enc2[c] /\ enc2[c] \in Nat
  <2> SUFFICES ASSUME NEW c \in SavedChannels PROVE enc[c] <= enc2[c] /\ enc2[c] \in Nat
    OBVIOUS
  <2>1. enc[c] \in Nat /\ (enc2[c] = enc[c] + 1 \/ enc2[c] = enc[c])
    BY <1>b
  <2> QED BY <2>1
<1>1. \A c \in SavedChannels : Len(sv[c]) <= enc2[c]
  <2> SUFFICES ASSUME NEW c \in SavedChannels PROVE Len(sv[c]) <= enc2[c]
    OBVIOUS
  <2>1. Len(sv[c]) <= enc[c] /\ Len(sv[c]) \in Nat /\ enc[c] \in Nat
    BY <1>b DEF NoGap
  <2> QED BY <1>f, <2>1
<1>2. \A k \in 1..Len(more) : Len(sv[more[k].ch]) < more[k].frame
                              /\ more[k].frame <= enc2[more[k].ch]
  <2> SUFFICES ASSUME NEW k \in 1..Len(more)
               PROVE  Len(sv[more[k].ch]) < more[k].frame /\ more[k].frame <= enc2[more[k].ch]
    OBVIOUS
  <2>1. CASE k \in 1..Len(line) /\ more[k] = line[k]
    <3>1. Len(sv[line[k].ch]) < line[k].frame /\ line[k].frame <= enc[line[k].ch]
      BY <2>1 DEF NoGap
    <3>2. /\ line[k].ch \in SavedChannels /\ line[k].frame \in Nat
          /\ enc[line[k].ch] \in Nat
          /\ enc[line[k].ch] <= enc2[line[k].ch] /\ enc2[line[k].ch] \in Nat
      BY <1>b, <1>e, <1>f, <2>1
    <3> QED BY <2>1, <3>1, <3>2
  <2>2. CASE more[k] = x
    <3>1. Len(sv[ch]) <= enc[ch]
      BY DEF NoGap
    <3> QED BY <1>b, <1>c, <2>2, <3>1
  <2> QED BY <1>d, <2>1, <2>2
<1>3. \A k, l \in 1..Len(more) :
         k < l /\ more[k].ch = more[l].ch => more[k].frame < more[l].frame
  <2> SUFFICES ASSUME NEW k \in 1..Len(more), NEW l \in 1..Len(more), k < l,
                      more[k].ch = more[l].ch
               PROVE  more[k].frame < more[l].frame
    OBVIOUS
  <2>1. k \in 1..Len(line) /\ more[k] = line[k]
    BY <1>b, <1>d
  <2>2. CASE l \in 1..Len(line) /\ more[l] = line[l]
    BY <2>1, <2>2 DEF NoGap
  <2>3. CASE more[l] = x
    <3>1. line[k].frame <= enc[ch]
      BY <1>c, <2>1, <2>3 DEF NoGap
    <3> QED BY <1>b, <1>c, <1>e, <2>1, <2>3, <3>1
  <2> QED BY <1>d, <2>2, <2>3
<1>4. \A c \in SavedChannels : \A n \in (Len(sv[c]) + 1)..enc2[c] :
         \E k \in 1..Len(more) : more[k] = [ch |-> c, frame |-> n]
  <2> SUFFICES ASSUME NEW c \in SavedChannels, NEW n \in (Len(sv[c]) + 1)..enc2[c]
               PROVE  \E k \in 1..Len(more) : more[k] = [ch |-> c, frame |-> n]
    OBVIOUS
  <2>1. CASE n \in (Len(sv[c]) + 1)..enc[c]
    <3>1. \E k \in 1..Len(line) : line[k] = [ch |-> c, frame |-> n]
      BY <2>1 DEF NoGap
    <3> QED BY <1>d, <3>1
  <2>2. CASE c = ch /\ n = enc[ch] + 1
    BY <1>d, <2>2 DEF x
  <2>3. n \in (Len(sv[c]) + 1)..enc[c] \/ (c = ch /\ n = enc[ch] + 1)
    BY <1>b
  <2> QED BY <2>1, <2>2, <2>3
<1> QED BY <1>1, <1>2, <1>3, <1>4 DEF NoGap, x, more, enc2

LEMMA WriteLeavesNoGap ==
  ASSUME NEW line \in Seq(Frames), NEW enc \in [SavedChannels -> 0..MaxEncoded],
         NEW sv \in [SavedChannels -> Seq(Frames)], line # << >>, NoGap(line, enc, sv)
  PROVE  NoGap(Tail(line), enc, [sv EXCEPT ![line[1].ch] = Append(@, line[1])])
<1> DEFINE x == line[1]
           rest == Tail(line)
           sv2 == [sv EXCEPT ![x.ch] = Append(@, x)]
<1>a. /\ Len(line) \in Nat \ {0} /\ 1 \in 1..Len(line) /\ x \in Frames
      /\ Len(rest) = Len(line) - 1
      /\ \A k \in 1..Len(rest) : k + 1 \in 1..Len(line) /\ rest[k] = line[k + 1]
      /\ \A k \in 1..Len(line) : k = 1 \/ (k - 1 \in 1..Len(rest) /\ rest[k - 1] = line[k])
  <2>1. line # << >> /\ line \in Seq(Frames)
    OBVIOUS
  <2> QED BY <2>1, HeadTailProperties, ElementOfSeq
<1>b. /\ \A k \in 1..Len(line) : line[k].ch \in SavedChannels /\ line[k].frame \in Nat
      /\ x.ch \in SavedChannels /\ x.frame \in Nat
      /\ x = [ch |-> x.ch, frame |-> x.frame]
  <2>1. \A k \in 1..Len(line) : line[k] \in Frames
    BY ElementOfSeq
  <2>2. \A f \in Frames : f.ch \in SavedChannels /\ f.frame \in Nat
                          /\ f = [ch |-> f.ch, frame |-> f.frame]
    BY DEF Frames
  <2> QED BY <1>a, <2>1, <2>2
<1>c. /\ \A c \in SavedChannels : enc[c] \in Nat /\ Len(sv[c]) \in Nat /\ sv[c] \in Seq(Frames)
      /\ \A c \in SavedChannels : sv2[c] = IF c = x.ch THEN Append(sv[c], x) ELSE sv[c]
  BY <1>b, ListAssumption
<1>d. /\ Len(sv2[x.ch]) = Len(sv[x.ch]) + 1
      /\ \A k \in 1..Len(sv[x.ch]) : sv2[x.ch][k] = sv[x.ch][k]
      /\ sv2[x.ch][Len(sv[x.ch]) + 1] = x
  <2>1. sv[x.ch] \in Seq(Frames) /\ sv2[x.ch] = Append(sv[x.ch], x)
    BY <1>b, <1>c
  <2> HIDE DEF sv2, x
  <2> QED BY <1>a, <2>1, AppendProperties
<1> HIDE DEF x, rest, sv2
<1>1. x.frame = Len(sv[x.ch]) + 1
  <2>1. Len(sv[x.ch]) < x.frame /\ x.frame <= enc[x.ch]
    BY <1>a DEF NoGap, x
  <2>2. Len(sv[x.ch]) + 1 \in (Len(sv[x.ch]) + 1)..enc[x.ch]
    BY <1>b, <1>c, <2>1
  <2>3. PICK k \in 1..Len(line) : line[k] = [ch |-> x.ch, frame |-> Len(sv[x.ch]) + 1]
    BY <1>b, <2>2 DEF NoGap
  <2>4. CASE k = 1
    BY <2>3, <2>4 DEF x
  <2>5. CASE k # 1
    <3>1. 1 < k /\ line[1].ch = line[k].ch
      BY <1>a, <2>3, <2>5 DEF x
    <3>2. line[1].frame < line[k].frame
      BY <1>a, <3>1 DEF NoGap
    <3> QED BY <1>b, <1>c, <2>1, <2>3, <3>2 DEF x
  <2> QED BY <2>4, <2>5
<1>2. \A c \in SavedChannels : Len(sv2[c]) <= enc[c]
  <2>1. x.frame <= enc[x.ch]
    BY <1>a DEF NoGap, x
  <2> QED BY <1>1, <1>c, <1>d, <2>1 DEF NoGap
<1>3. \A c \in SavedChannels : \A k \in 1..Len(sv2[c]) : sv2[c][k] = [ch |-> c, frame |-> k]
  <2> SUFFICES ASSUME NEW c \in SavedChannels, NEW k \in 1..Len(sv2[c])
               PROVE  sv2[c][k] = [ch |-> c, frame |-> k]
    OBVIOUS
  <2>1. CASE c # x.ch
    BY <1>c, <2>1 DEF NoGap
  <2>2. CASE c = x.ch /\ k \in 1..Len(sv[c])
    BY <1>d, <2>2 DEF NoGap
  <2>3. CASE c = x.ch /\ k = Len(sv[c]) + 1
    BY <1>b, <1>1, <1>d, <2>3
  <2>4. c = x.ch => k \in 1..Len(sv[c]) \/ k = Len(sv[c]) + 1
    BY <1>c, <1>d
  <2> QED BY <2>1, <2>2, <2>3, <2>4
<1>4. \A k \in 1..Len(rest) : Len(sv2[rest[k].ch]) < rest[k].frame
                              /\ rest[k].frame <= enc[rest[k].ch]
  <2> SUFFICES ASSUME NEW k \in 1..Len(rest)
               PROVE  Len(sv2[rest[k].ch]) < rest[k].frame /\ rest[k].frame <= enc[rest[k].ch]
    OBVIOUS
  <2>1. k + 1 \in 1..Len(line) /\ rest[k] = line[k + 1] /\ 1 < k + 1
    BY <1>a
  <2>2. Len(sv[line[k + 1].ch]) < line[k + 1].frame /\ line[k + 1].frame <= enc[line[k + 1].ch]
    BY <2>1 DEF NoGap
  <2>3. CASE line[k + 1].ch # x.ch
    BY <1>b, <1>c, <2>1, <2>2, <2>3
  <2>4. CASE line[k + 1].ch = x.ch
    <3>1. x.frame < line[k + 1].frame
      BY <1>a, <2>1, <2>4 DEF NoGap, x
    <3> QED BY <1>d, <1>1, <2>1, <2>2, <2>4, <3>1
  <2> QED BY <2>3, <2>4
<1>5. \A k, l \in 1..Len(rest) :
         k < l /\ rest[k].ch = rest[l].ch => rest[k].frame < rest[l].frame
  <2> SUFFICES ASSUME NEW k \in 1..Len(rest), NEW l \in 1..Len(rest), k < l,
                      rest[k].ch = rest[l].ch
               PROVE  rest[k].frame < rest[l].frame
    OBVIOUS
  <2>1. k + 1 \in 1..Len(line) /\ l + 1 \in 1..Len(line) /\ k + 1 < l + 1
        /\ rest[k] = line[k + 1] /\ rest[l] = line[l + 1]
    BY <1>a
  <2> QED BY <2>1 DEF NoGap
<1>6. \A c \in SavedChannels : \A n \in (Len(sv2[c]) + 1)..enc[c] :
         \E k \in 1..Len(rest) : rest[k] = [ch |-> c, frame |-> n]
  <2> SUFFICES ASSUME NEW c \in SavedChannels, NEW n \in (Len(sv2[c]) + 1)..enc[c]
               PROVE  \E k \in 1..Len(rest) : rest[k] = [ch |-> c, frame |-> n]
    OBVIOUS
  <2>1. n \in (Len(sv[c]) + 1)..enc[c] /\ (c = x.ch => n # x.frame)
    BY <1>1, <1>c, <1>d
  <2>2. PICK k \in 1..Len(line) : line[k] = [ch |-> c, frame |-> n]
    BY <2>1 DEF NoGap
  <2>3. k # 1
    BY <2>1, <2>2 DEF x
  <2>4. k - 1 \in 1..Len(rest) /\ rest[k - 1] = line[k]
    BY <1>a, <2>3
  <2> QED BY <2>2, <2>4
<1> QED BY <1>2, <1>3, <1>4, <1>5, <1>6 DEF NoGap, x, rest, sv2

(* What the encoder holds fits into a list; no signal is missing, also     *)
(* while a list is written; and a part that is not there is not used.      *)
SaverInv ==
    /\ SaverTypeOK
    /\ Len(encQue) + Len(list) + released <= EncBufs
    /\ svPc # "write" => list = << >>
    /\ svPc \in {"loop", "wait", "write"} /\ encQue # << >> /\ callback # "due" /\ ~svQuit
          => svSem = 1
    /\ callback = "none" => ~encoding
    /\ svSem = -1 => callback # "due" /\ svPc = "none"
    /\ svPc = "none" => ~encoding /\ encQue = << >> /\ callback # "due" /\ ~svQuit

LEMMA SaverStarts == SaverInit => SaverInv /\ NoGap(Line, encoded, saved)
<1> SUFFICES ASSUME SaverInit PROVE SaverInv /\ NoGap(Line, encoded, saved)
  OBVIOUS
<1>1. /\ encQue \in Seq(Frames) /\ list \in Seq(Frames) /\ Len(encQue) = 0 /\ Len(list) = 0
      /\ encoded \in [SavedChannels -> 0..MaxEncoded]
      /\ saved \in [SavedChannels -> Seq(Frames)] /\ released \in 0..EncBufs
  BY ListAssumption DEF SaverInit
<1>2. SaverInv
  <2>1. svSem \in -1..1 /\ callback \in {"none", "set", "due"}
        /\ svPc \in {"none", "loop", "wait", "get", "write", "done"}
    BY DEF SaverInit
  <2>2. encoding \in BOOLEAN /\ svQuit \in BOOLEAN /\ svQuitDone \in BOOLEAN
    BY DEF SaverInit
  <2>3. SaverTypeOK
    BY <1>1, <2>1, <2>2 DEF SaverTypeOK
  <2>4. Len(encQue) + Len(list) + released <= EncBufs
    BY <1>1, ListAssumption DEF SaverInit
  <2> QED BY <2>3, <2>4 DEF SaverInit, SaverInv
<1>3. Line = << >>
  BY ConcatEmptySeq, <1>1 DEF SaverInit, Line
<1>4. \A ch \in SavedChannels : Len(saved[ch]) = 0 /\ encoded[ch] = 0
  BY DEF SaverInit
<1>5. NoGap(Line, encoded, saved)
  BY <1>3, <1>4 DEF NoGap
<1> QED BY <1>2, <1>5

(* Everything that changes the saver's state, and when the program does it.*)
SaverStep ==
    \/ SaverThread \/ WriteFails \/ Encoder \/ UNCHANGED saverVars
    \/ callback = "none" /\ RegisterCallback
    \/ svSem = -1 /\ callback # "none" /\ CreateSemaphore
    \/ svSem # -1 /\ svPc = "none" /\ CreateSaverThread
    \/ svPc # "none" /\ callback # "none" /\ SetEncoding(TRUE)
    \/ SetEncoding(FALSE)

(* The whole queue fits into the list.                                     *)
LEMMA GetsThemAll ==
  ASSUME SaverInv, GetBuffers
  PROVE  /\ list = << >> /\ list' = encQue /\ encQue' = << >>
         /\ svPc = "get" /\ svPc' = IF encQue = << >> THEN "loop" ELSE "write"
         /\ UNCHANGED <<encoding, encoded, callback, svSem, svQuit, svQuitDone, released, saved>>
<1> DEFINE n == IF Len(encQue) < MaxList THEN Len(encQue) ELSE MaxList
<1>1. /\ list = << >> /\ list' = SubSeq(encQue, 1, n)
      /\ encQue' = SubSeq(encQue, n + 1, Len(encQue))
      /\ svPc = "get" /\ svPc' = IF encQue = << >> THEN "loop" ELSE "write"
      /\ UNCHANGED <<encoding, encoded, callback, svSem, svQuit, svQuitDone, released, saved>>
  BY DEF GetBuffers, SaverInv
<1>2. encQue \in Seq(Frames) /\ Len(encQue) \in Nat /\ released \in Nat /\ Len(list) \in Nat
  BY DEF SaverInv, SaverTypeOK
<1>3. Len(encQue) <= MaxList
  BY <1>2, ListAssumption DEF SaverInv
<1>4. n = Len(encQue)
  BY <1>2, <1>3, ListAssumption
<1>5. SubSeq(encQue, 1, Len(encQue)) = encQue
  BY <1>2, SubSeqFull
<1>6. SubSeq(encQue, Len(encQue) + 1, Len(encQue)) = << >>
  BY <1>2, SubSeqEmpty
<1> HIDE DEF n
<1> QED BY <1>1, <1>4, <1>5, <1>6

LEMMA SaverSteps ==
  ASSUME SaverInv, SaverStep
  PROVE  SaverInv'
<1>a. /\ encoding \in BOOLEAN /\ encoded \in [SavedChannels -> 0..MaxEncoded]
      /\ encQue \in Seq(Frames) /\ callback \in {"none", "set", "due"}
      /\ svSem \in -1..1 /\ svPc \in {"none", "loop", "wait", "get", "write", "done"}
      /\ svQuit \in BOOLEAN /\ svQuitDone \in BOOLEAN
      /\ list \in Seq(Frames) /\ released \in 0..EncBufs
      /\ saved \in [SavedChannels -> Seq(Frames)]
      /\ Len(encQue) \in Nat /\ Len(list) \in Nat /\ EncBufs \in Nat /\ MaxEncoded \in Nat
  BY ListAssumption DEF SaverInv, SaverTypeOK
<1>b. /\ Len(encQue) + Len(list) + released <= EncBufs
      /\ svPc # "write" => list = << >>
      /\ svPc \in {"loop", "wait", "write"} /\ encQue # << >> /\ callback # "due" /\ ~svQuit
            => svSem = 1
      /\ callback = "none" => ~encoding
      /\ svSem = -1 => callback # "due" /\ svPc = "none"
      /\ svPc = "none" => ~encoding /\ encQue = << >> /\ callback # "due" /\ ~svQuit
  BY DEF SaverInv
<1> HIDE DEF Frames
<1>1. CASE LoopSaver
  BY <1>a, <1>b, <1>1 DEF LoopSaver, SaverInv, SaverTypeOK
<1>2. CASE WaitForData
  BY <1>a, <1>b, <1>2 DEF WaitForData, SaverInv, SaverTypeOK
<1>3. CASE GetBuffers
  <2>1. /\ list = << >> /\ list' = encQue /\ encQue' = << >> /\ svPc = "get"
        /\ svPc' = IF encQue = << >> THEN "loop" ELSE "write"
        /\ UNCHANGED <<encoding, encoded, callback, svSem, svQuit, svQuitDone, released, saved>>
    BY <1>3, GetsThemAll
  <2>2. encQue' \in Seq(Frames) /\ Len(encQue') = 0 /\ Len(list) = 0
    BY <2>1
  <2>3. SaverTypeOK'
    BY <1>a, <2>1, <2>2 DEF SaverTypeOK
  <2>4. Len(encQue') + Len(list') + released' <= EncBufs
    BY <1>a, <1>b, <2>1, <2>2
  <2> QED BY <1>b, <2>1, <2>3, <2>4 DEF SaverInv
<1>4. CASE Write \/ WriteFails
  <2>1. /\ svPc = "write" /\ list # << >> /\ list' = Tail(list) /\ released' = released + 1
        /\ UNCHANGED <<encoding, encoded, encQue, callback, svSem, svPc, svQuitDone>>
        /\ \/ svQuit' = TRUE /\ saved' = saved
           \/ svQuit' = svQuit /\ saved' = [saved EXCEPT ![list[1].ch] = Append(@, list[1])]
    BY <1>4 DEF Write, WriteFails, TakeFromList
  <2>2. Tail(list) \in Seq(Frames) /\ Len(Tail(list)) = Len(list) - 1 /\ list[1] \in Frames
        /\ Len(list) \in Nat \ {0}
    BY <1>a, <2>1, HeadTailProperties, ElementOfSeq
  <2>3. saved' \in [SavedChannels -> Seq(Frames)]
    <3>1. list[1].ch \in SavedChannels
      BY <2>2 DEF Frames
    <3>2. Append(saved[list[1].ch], list[1]) \in Seq(Frames)
      BY <1>a, <2>2, <3>1, AppendProperties
    <3> QED BY <1>a, <2>1, <3>2
  <2>4. Len(encQue') + Len(list') + released' <= EncBufs /\ released' \in 0..EncBufs
    BY <1>a, <1>b, <2>1, <2>2
  <2>5. svQuit' \in BOOLEAN /\ (~svQuit' => ~svQuit)
    <3>1. CASE svQuit' = TRUE
      BY <3>1
    <3>2. CASE svQuit' = svQuit
      BY <1>a, <3>2
    <3> QED BY <2>1, <3>1, <3>2
  <2>6. SaverTypeOK'
    BY <1>a, <2>1, <2>2, <2>3, <2>4, <2>5 DEF SaverTypeOK
  <2> QED BY <1>b, <2>1, <2>4, <2>5, <2>6 DEF SaverInv
<1>5. CASE Release
  <2>1. Len(encQue) + Len(list) + 0 <= EncBufs
    BY <1>a, <1>b
  <2> QED BY <1>a, <1>b, <1>5, <2>1 DEF Release, SaverInv, SaverTypeOK
<1>6. CASE \E ch \in SavedChannels : Encode(ch)
  <2>1. PICK ch \in SavedChannels :
           /\ encoding /\ encoded[ch] < MaxEncoded
           /\ Len(encQue) + Len(list) + released < EncBufs
           /\ encoded' = [encoded EXCEPT ![ch] = @ + 1]
           /\ encQue' = Append(encQue, [ch |-> ch, frame |-> encoded[ch] + 1])
           /\ callback' = IF callback = "none" THEN "none" ELSE "due"
           /\ UNCHANGED <<encoding, svSem, svPc, svQuit, svQuitDone, list, released, saved>>
    BY <1>6 DEF Encode
  <2>2. encoded[ch] + 1 \in 0..MaxEncoded /\ [ch |-> ch, frame |-> encoded[ch] + 1] \in Frames
    BY <1>a, <2>1 DEF Frames
  <2>3. encQue' \in Seq(Frames) /\ Len(encQue') = Len(encQue) + 1
    BY <1>a, <2>1, <2>2, AppendProperties
  <2>4. callback' = "due" /\ svPc # "none" /\ svSem # -1
    BY <1>b, <2>1
  <2>5. encoded' \in [SavedChannels -> 0..MaxEncoded]
    BY <1>a, <2>1, <2>2
  <2>6. Len(encQue') + Len(list') + released' <= EncBufs
    BY <1>a, <2>1, <2>3
  <2>7. SaverTypeOK'
    BY <1>a, <2>1, <2>3, <2>4, <2>5 DEF SaverTypeOK
  <2> QED BY <1>b, <2>1, <2>4, <2>6, <2>7 DEF SaverInv
<1>7. CASE SignalNewData
  BY <1>a, <1>b, <1>7 DEF SignalNewData, SaverInv, SaverTypeOK
<1>8. CASE callback = "none" /\ RegisterCallback
  BY <1>a, <1>b, <1>8 DEF RegisterCallback, SaverInv, SaverTypeOK
<1>9. CASE svSem = -1 /\ callback # "none" /\ CreateSemaphore
  <2>1. svSem' = 0 /\ 0 \in -1..1 /\ svPc = "none" /\ ~svQuit'
        /\ UNCHANGED <<encoding, encoded, encQue, callback, svPc, list, released, saved>>
    BY <1>b, <1>9 DEF CreateSemaphore
  <2>2. svQuit' \in BOOLEAN /\ svQuitDone' \in BOOLEAN
    BY <1>9, Zenon DEF CreateSemaphore
  <2>3. SaverTypeOK'
    BY <1>a, <2>1, <2>2 DEF SaverTypeOK
  <2> QED BY <1>b, <2>1, <2>3 DEF SaverInv
<1>10. CASE svSem # -1 /\ svPc = "none" /\ CreateSaverThread
  BY <1>a, <1>b, <1>10 DEF CreateSaverThread, SaverInv, SaverTypeOK
<1>11. CASE svPc # "none" /\ callback # "none" /\ SetEncoding(TRUE)
  BY <1>a, <1>b, <1>11 DEF SetEncoding, SaverInv, SaverTypeOK
<1>12. CASE SetEncoding(FALSE)
  BY <1>a, <1>b, <1>12 DEF SetEncoding, SaverInv, SaverTypeOK
<1>13. CASE UNCHANGED saverVars
  BY <1>a, <1>b, <1>13 DEF saverVars, SaverInv, SaverTypeOK
<1> QED BY <1>1, <1>2, <1>3, <1>4, <1>5, <1>6, <1>7, <1>8, <1>9, <1>10, <1>11, <1>12, <1>13
        DEF SaverStep, SaverThread, Encoder

(* enc is how many frames of each channel are in the line or in a file:    *)
(* all that were encoded, until frames are lost with the chain.            *)
Counts == [SavedChannels -> 0..MaxEncoded]

LEMMA FilesSteps ==
  ASSUME SaverInv, SaverStep, NEW enc \in Counts, (~svQuit => NoGap(Line, enc, saved)),
         encoded' # encoded => enc = encoded
  PROVE  \E enc2 \in Counts : /\ (~svQuit' => NoGap(Line', enc2, saved'))
                               /\ (enc = encoded => enc2 = encoded')
<1>a. /\ encoded \in [SavedChannels -> 0..MaxEncoded]
      /\ encQue \in Seq(Frames) /\ list \in Seq(Frames)
      /\ saved \in [SavedChannels -> Seq(Frames)]
      /\ Line \in Seq(Frames)
  BY ConcatProperties DEF SaverInv, SaverTypeOK, Line
<1>b. SUFFICES ASSUME ~svQuit'
               PROVE  \E enc2 \in Counts : /\ NoGap(Line', enc2, saved')
                                            /\ (enc = encoded => enc2 = encoded')
  <2>1. CASE svQuit'
    <3>1. encoded' \in Counts
      BY SaverSteps DEF SaverInv, SaverTypeOK, Counts
    <3> QED BY <2>1, <3>1
  <2> QED BY <2>1
<1> HIDE DEF Frames
<1>1. CASE \E ch \in SavedChannels : Encode(ch)
  <2>1. PICK ch \in SavedChannels :
           /\ encoded[ch] < MaxEncoded
           /\ encoded' = [encoded EXCEPT ![ch] = @ + 1]
           /\ encQue' = Append(encQue, [ch |-> ch, frame |-> encoded[ch] + 1])
           /\ UNCHANGED <<svQuit, list, saved>>
    BY <1>1 DEF Encode
  <2> DEFINE x == [ch |-> ch, frame |-> encoded[ch] + 1]
  <2>2. x \in Frames
    BY <1>a, <2>1, ListAssumption DEF Frames
  <2> HIDE DEF x
  <2>3. Line' = Append(Line, x)
    <3>1. Append(encQue, x) = encQue \o <<x>> /\ Append(Line, x) = Line \o <<x>>
      BY <1>a, <2>2, AppendIsConcat
    <3>2. list \o (encQue \o <<x>>) = (list \o encQue) \o <<x>>
      <4>1. <<x>> \in Seq(Frames)
        BY <2>2
      <4> QED BY <1>a, <4>1, ConcatAssociative
    <3>3. Line' = list \o Append(encQue, x)
      BY <2>1 DEF Line, x
    <3> QED BY <3>1, <3>2, <3>3 DEF Line
  <2>5. encoded[ch] \in Nat /\ encoded[ch] + 1 # encoded[ch]
    BY <1>a, <2>1, ListAssumption
  <2>6. enc = encoded
    BY <1>a, <2>1, <2>5
  <2>7. NoGap(Line, encoded, saved)
    BY <1>b, <2>1, <2>6
  <2>4. NoGap(Append(Line, x), [encoded EXCEPT ![ch] = @ + 1], saved)
    BY <1>a, <2>1, <2>7, EncodeLeavesNoGap DEF x
  <2>8. encoded' \in Counts
    BY SaverSteps DEF SaverInv, SaverTypeOK, Counts
  <2>9. NoGap(Line', encoded', saved')
    BY <2>1, <2>3, <2>4
  <2> QED BY <2>8, <2>9
<1>2. CASE Write
  <2>1. /\ list # << >> /\ list' = Tail(list) /\ UNCHANGED <<encoded, encQue, svQuit>>
        /\ saved' = [saved EXCEPT ![list[1].ch] = Append(@, list[1])]
    BY <1>2 DEF Write, TakeFromList
  <2>2. Line # << >> /\ Line[1] = list[1] /\ Line' = Tail(Line)
    <3>1. list = <<Head(list)>> \o Tail(list) /\ Head(list) = list[1] /\ list[1] \in Frames
          /\ Tail(list) \in Seq(Frames)
      BY <1>a, <2>1, HeadTailProperties, ElementOfSeq
    <3>2. Line = <<list[1]>> \o (Tail(list) \o encQue) /\ Tail(list) \o encQue \in Seq(Frames)
      <4>1. <<list[1]>> \in Seq(Frames)
        BY <3>1
      <4> QED BY <1>a, <3>1, <4>1, ConcatAssociative, ConcatProperties DEF Line
    <3>3. \A q \in Seq(Frames) : \A y \in Frames :
             <<y>> \o q # << >> /\ (<<y>> \o q)[1] = y /\ Tail(<<y>> \o q) = q
      <4> SUFFICES ASSUME NEW q \in Seq(Frames), NEW y \in Frames
                   PROVE  <<y>> \o q # << >> /\ (<<y>> \o q)[1] = y /\ Tail(<<y>> \o q) = q
        OBVIOUS
      <4> QED OBVIOUS
    <3>4. Line' = Tail(list) \o encQue
      BY <2>1 DEF Line
    <3> QED BY <3>1, <3>2, <3>3, <3>4
  <2>3. NoGap(Tail(Line), enc, [saved EXCEPT ![Line[1].ch] = Append(@, Line[1])])
    BY <1>a, <1>b, <2>1, <2>2, WriteLeavesNoGap DEF Counts
  <2>4. NoGap(Line', enc, saved')
    BY <2>1, <2>2, <2>3
  <2> QED BY <2>1, <2>4
<1>3. CASE WriteFails
  BY <1>b, <1>3 DEF WriteFails
<1>4. CASE GetBuffers
  <2>1. /\ list = << >> /\ list' = encQue /\ encQue' = << >>
        /\ UNCHANGED <<encoded, svQuit, saved>>
    BY <1>4, GetsThemAll
  <2>2. Line' = Line
    BY <1>a, <2>1, ConcatEmptySeq DEF Line
  <2> QED BY <1>b, <2>1, <2>2
<1>5. CASE UNCHANGED <<encoded, encQue, list, saved>> /\ (svQuit => svQuit')
  <2>1. Line' = Line
    BY <1>5 DEF Line
  <2> QED BY <1>b, <1>5, <2>1
<1>6. CASE svSem = -1 /\ CreateSemaphore
  <2>1. ~svQuit /\ UNCHANGED <<encoded, encQue, list, saved>>
    BY <1>6 DEF CreateSemaphore, SaverInv
  <2> QED BY <1>5, <2>1
<1>7. ASSUME \/ LoopSaver \/ WaitForData \/ Release \/ SignalNewData \/ RegisterCallback
             \/ CreateSaverThread \/ SetEncoding(TRUE) \/ SetEncoding(FALSE)
             \/ UNCHANGED saverVars
      PROVE  UNCHANGED <<encoded, encQue, list, saved>> /\ (svQuit => svQuit')
  BY <1>7 DEF LoopSaver, WaitForData, Release, SignalNewData, RegisterCallback,
     CreateSaverThread, SetEncoding, saverVars
<1> QED BY <1>1, <1>2, <1>3, <1>4, <1>5, <1>6, <1>7 DEF SaverStep, SaverThread, Encoder

(* When the end of the line is lost, the rest has no gap either.           *)
LEMMA CutLeavesNoGap ==
  ASSUME NEW line \in Seq(Frames), NEW tail \in Seq(Frames), NEW enc \in Counts,
         NEW sv \in [SavedChannels -> Seq(Frames)], NoGap(line \o tail, enc, sv)
  PROVE  \E enc2 \in Counts : NoGap(line, enc2, sv)
<1> DEFINE whole == line \o tail
           In(c, n) == \E k \in 1..Len(line) : line[k] = [ch |-> c, frame |-> n]
           Top(c, t) == /\ Len(sv[c]) <= t
                        /\ \A n \in (Len(sv[c]) + 1)..t : In(c, n)
                        /\ \A k \in 1..Len(line) : line[k].ch = c => line[k].frame <= t
<1>a. /\ Len(line) \in Nat /\ Len(tail) \in Nat /\ Len(whole) = Len(line) + Len(tail)
      /\ \A k \in 1..Len(line) : k \in 1..Len(whole) /\ whole[k] = line[k]
  OBVIOUS
<1>b. \A c \in SavedChannels : enc[c] \in 0..MaxEncoded /\ Len(sv[c]) \in Nat
  BY DEF Counts
<1>c. \A k \in 1..Len(line) : line[k].ch \in SavedChannels /\ line[k].frame \in Nat
  <2>1. \A k \in 1..Len(line) : line[k] \in Frames
    BY ElementOfSeq
  <2> QED BY <2>1 DEF Frames
<1>d. /\ \A c \in SavedChannels : Len(sv[c]) <= enc[c]
      /\ \A c \in SavedChannels : \A k \in 1..Len(sv[c]) : sv[c][k] = [ch |-> c, frame |-> k]
      /\ \A k \in 1..Len(line) : /\ Len(sv[line[k].ch]) < line[k].frame
                                   /\ line[k].frame <= enc[line[k].ch]
      /\ \A k, l \in 1..Len(line) :
            k < l /\ line[k].ch = line[l].ch => line[k].frame < line[l].frame
  BY <1>a DEF NoGap
<1>e. \A k, l \in 1..Len(whole) :
         k < l /\ whole[k].ch = whole[l].ch => whole[k].frame < whole[l].frame
  BY DEF NoGap
<1> HIDE DEF Frames
<1>1. ASSUME NEW c \in SavedChannels PROVE \E t \in 0..MaxEncoded : Top(c, t)
  <2> DEFINE T == {n \in (Len(sv[c]) + 1)..enc[c] : ~In(c, n)}
  <2>1. CASE T = {}
    <3>1. Top(c, enc[c])
      BY <1>d, <2>1
    <3> QED BY <1>b, <3>1
  <2>2. CASE T # {}
    <3>1. T \in SUBSET Nat
      BY <1>b
    <3>2. PICK m \in T : \A n \in T : m <= n
      <4> HIDE DEF T
      <4> QED BY <2>2, <3>1, LeastElement
    <3>3. m \in (Len(sv[c]) + 1)..enc[c] /\ ~In(c, m)
      OBVIOUS
    <3>4. m - 1 \in 0..MaxEncoded /\ Len(sv[c]) <= m - 1
      BY <1>b, <3>3, ListAssumption
    <3>5. \A n \in (Len(sv[c]) + 1)..(m - 1) : In(c, n)
      <4> SUFFICES ASSUME NEW n \in (Len(sv[c]) + 1)..(m - 1) PROVE In(c, n)
        OBVIOUS
      <4>1. n \in (Len(sv[c]) + 1)..enc[c] /\ ~(m <= n)
        BY <1>b, <3>3
      <4> HIDE DEF In
      <4> QED BY <3>2, <4>1
    <3>6. PICK l \in 1..Len(whole) : whole[l] = [ch |-> c, frame |-> m]
      BY <3>3 DEF NoGap
    <3>7. l > Len(line)
      BY <1>a, <3>3, <3>6
    <3>8. \A k \in 1..Len(line) : line[k].ch = c => line[k].frame <= m - 1
      <4> SUFFICES ASSUME NEW k \in 1..Len(line), line[k].ch = c
                   PROVE  line[k].frame <= m - 1
        OBVIOUS
      <4>1. k \in 1..Len(whole) /\ k < l /\ whole[k].ch = whole[l].ch
        BY <1>a, <3>6, <3>7
      <4>2. whole[k].frame < whole[l].frame
        <5> HIDE DEF whole
        <5> QED BY <1>e, <4>1
      <4>3. whole[k] = line[k] /\ whole[l].frame = m
        BY <1>a, <3>6
      <4> HIDE DEF whole
      <4> QED BY <1>c, <3>3, <4>2, <4>3
    <3>9. Top(c, m - 1)
      BY <3>4, <3>5, <3>8
    <3> QED BY <3>4, <3>9
  <2> QED BY <2>1, <2>2
<1> DEFINE enc2 == [c \in SavedChannels |-> CHOOSE t \in 0..MaxEncoded : Top(c, t)]
<1>2. ASSUME NEW c \in SavedChannels PROVE enc2[c] \in 0..MaxEncoded /\ Top(c, enc2[c])
  <2> HIDE DEF Top
  <2> QED BY <1>1
<1>3. enc2 \in Counts
  <2> HIDE DEF Top
  <2> QED BY <1>1 DEF Counts
<1> HIDE DEF enc2
<1>4. \A k \in 1..Len(line) : line[k].frame <= enc2[line[k].ch]
  BY <1>2, <1>c
<1>5. NoGap(line, enc2, sv)
  BY <1>2, <1>4, <1>d DEF NoGap
<1> QED BY <1>3, <1>5

(* The chain is deleted, and with it the encoder's queue.                  *)
LEMMA DeleteSteps ==
  ASSUME SaverInv, DeleteQueue
  PROVE  /\ SaverInv'
         /\ \A enc \in Counts : NoGap(Line, enc, saved) =>
               \E enc2 \in Counts : NoGap(Line', enc2, saved')
<1>a. /\ encQue' = << >>
      /\ UNCHANGED <<encoding, encoded, callback, svSem, svPc, svQuit, svQuitDone, list,
                     released, saved>>
  BY DEF DeleteQueue
<1>b. /\ encQue \in Seq(Frames) /\ list \in Seq(Frames)
      /\ saved \in [SavedChannels -> Seq(Frames)] /\ released \in Nat
      /\ Len(encQue) \in Nat /\ Len(list) \in Nat /\ EncBufs \in Nat
      /\ encQue' \in Seq(Frames) /\ Len(encQue') = 0
  BY <1>a, ListAssumption DEF SaverInv, SaverTypeOK
<1>1. SaverInv'
  <2>1. Len(encQue') + Len(list') + released' <= EncBufs
    BY <1>a, <1>b DEF SaverInv
  <2>2. SaverTypeOK'
    BY <1>a, <1>b DEF SaverInv, SaverTypeOK
  <2> QED BY <1>a, <2>1, <2>2 DEF SaverInv
<1>2. Line' = list
  BY <1>a, <1>b, ConcatEmptySeq DEF Line
<1>3. ASSUME NEW enc \in Counts, NoGap(Line, enc, saved)
      PROVE  \E enc2 \in Counts : NoGap(Line', enc2, saved')
  <2>1. \E enc2 \in Counts : NoGap(list, enc2, saved)
    BY <1>b, <1>3, CutLeavesNoGap DEF Line
  <2> QED BY <1>a, <1>2, <2>1
<1> QED BY <1>1, <1>3

(* The files and the line hold all that was encoded until the chain is     *)
(* deleted, and all but its end after that.                                *)
FilesInv ==
    ~svQuit => \E enc \in Counts : /\ NoGap(Line, enc, saved)
                                    /\ (~ChainIsDeleted => enc = encoded)

LEMMA FilesStand ==
  ASSUME SaverInv, FilesInv, SaverStep, ~svQuit',
         encoded' # encoded => ~ChainIsDeleted, ChainIsDeleted => ChainIsDeleted'
  PROVE  FilesInv'
<1>1. CASE svQuit
  <2>1. svSem = -1 => ~svQuit
    BY DEF SaverInv
  <2>2. svQuit'
    BY <1>1, <2>1 DEF SaverStep, SaverThread, Encoder, LoopSaver, WaitForData, GetBuffers,
       Write, WriteFails, TakeFromList, Release, Encode, SignalNewData, RegisterCallback,
       CreateSemaphore, CreateSaverThread, SetEncoding, saverVars
  <2> QED BY <2>2
<1>2. CASE ~svQuit
  <2>1. PICK enc \in Counts : NoGap(Line, enc, saved) /\ (~ChainIsDeleted => enc = encoded)
    BY <1>2, Zenon DEF FilesInv
  <2>2. encoded' # encoded => enc = encoded
    BY <2>1
  <2>3. PICK enc2 \in Counts : /\ (~svQuit' => NoGap(Line', enc2, saved'))
                               /\ (enc = encoded => enc2 = encoded')
    BY <2>1, <2>2, FilesSteps
  <2> QED BY <2>1, <2>3 DEF FilesInv
<1> QED BY <1>1, <1>2

LEMMA FilesAreRight == SaverInv /\ FilesInv => FilesHaveNoGap
<1> SUFFICES ASSUME SaverInv, FilesInv PROVE FilesHaveNoGap
  OBVIOUS
<1>1. SaverIsReady
  BY DEF SaverInv, SaverTypeOK, SaverIsReady, SaverIsSignalled, CallbackFindsSemaphore
<1>2. ASSUME ~svQuit, NEW ch \in SavedChannels
      PROVE  saved[ch] = [k \in 1..Len(saved[ch]) |-> [ch |-> ch, frame |-> k]]
  <2>1. saved[ch] \in Seq(Frames)
    BY DEF SaverInv, SaverTypeOK
  <2>2. saved[ch] = [k \in 1..Len(saved[ch]) |-> saved[ch][k]]
    BY <2>1
  <2>3. PICK enc \in Counts : NoGap(Line, enc, saved)
    BY <1>2, Zenon DEF FilesInv
  <2>4. \A k \in 1..Len(saved[ch]) : saved[ch][k] = [ch |-> ch, frame |-> k]
    BY <2>3 DEF NoGap
  <2> QED BY <2>2, <2>4
<1> QED BY <1>1, <1>2 DEF FilesHaveNoGap

-----------------------------------------------------------------------------
(* The chain.                                                              *)

(* The first m links that are created.                                     *)
Created(m) == {CreateOrder[k] : k \in 1..m}

LEMMA OrderOfLinks ==
  /\ Len(CreateOrder) = 17 /\ AllLinks = Created(17)
  /\ \A k, l \in 1..17 : CreateOrder[k] = CreateOrder[l] => k = l
<1>1. Len(CreateOrder) = 17 /\ DOMAIN CreateOrder = 1..17
  BY DEF CreateOrder
<1>2. \A k, l \in 1..17 : CreateOrder[k] = CreateOrder[l] => k = l
  BY DEF CreateOrder
<1> QED BY <1>1, <1>2 DEF AllLinks, Created

LEMMA OneMoreLink ==
  ASSUME NEW m \in 0..16
  PROVE  /\ Created(m + 1) = Created(m) \cup {CreateOrder[m + 1]}
         /\ CreateOrder[m + 1] \notin Created(m)
<1>1. /\ m + 1 \in 1..17 /\ \A k \in 1..m : k \in 1..17 /\ k # m + 1
      /\ 1..(m + 1) = 1..m \cup {m + 1}
  OBVIOUS
<1> QED BY <1>1, OrderOfLinks DEF Created

(* Link k takes frames from link j, and both ends have it written down.    *)
NamesBefore(k, j) ==
    /\ PrevLink[CreateOrder[k]][1] = CreateOrder[j]
    /\ <<PrevLink[CreateOrder[k]][1], PrevLink[CreateOrder[k]][2], CreateOrder[k]>> \in Joins

LEMMA EachNamesOneBefore ==
  /\ \A k \in 2..17 : \E j \in 1..(k - 1) : NamesBefore(k, j)
  /\ CreateOrder[1] \notin DOMAIN PrevLink
<1>1. /\ NamesBefore(2, 1) /\ NamesBefore(3, 2) /\ NamesBefore(4, 3)
      /\ NamesBefore(5, 4) /\ NamesBefore(6, 5) /\ NamesBefore(7, 6)
      /\ NamesBefore(8, 7) /\ NamesBefore(9, 6) /\ NamesBefore(10, 9)
      /\ NamesBefore(11, 10) /\ NamesBefore(12, 11) /\ NamesBefore(13, 12)
      /\ NamesBefore(14, 13) /\ NamesBefore(15, 14) /\ NamesBefore(16, 10)
      /\ NamesBefore(17, 16)
  BY DEF NamesBefore, CreateOrder, PrevLink, Joins
<1>2. CreateOrder[1] \notin DOMAIN PrevLink
  BY DEF CreateOrder, PrevLink
<1> QED BY <1>1, <1>2

LEMMA CreatedAgree ==
  ASSUME NEW m \in 0..17, links = Created(m)
  PROVE  LinksAgree
<1> SUFFICES ASSUME NEW l \in links, l \in DOMAIN PrevLink
             PROVE  /\ PrevLink[l][1] \in links
                    /\ <<PrevLink[l][1], PrevLink[l][2], l>> \in Joins
  BY DEF LinksAgree
<1>1. PICK k \in 1..m : l = CreateOrder[k]
  BY DEF Created
<1>2. k # 1 /\ k \in 2..17
  BY <1>1, EachNamesOneBefore
<1>3. PICK j \in 1..(k - 1) : NamesBefore(k, j)
  BY <1>2, EachNamesOneBefore
<1>4. j \in 1..m
  BY <1>1, <1>3
<1> QED BY <1>1, <1>3, <1>4 DEF NamesBefore, Created

ChainStands ==
    /\ IsFiniteSet(links)
    /\ mainPc \notin {"deleteFeeder", "done"} =>
          Cardinality(links) \in 0..17 /\ links = Created(Cardinality(links))
    /\ mainPc \in {"deleteFeeder", "done"} => links = {}
    /\ decoding \/ encoding => links = AllLinks
    /\ mainPc \notin {"registerCallback", "createSemaphore", "createSaver", "logoInit",
                      "createChain", "deleteFeeder", "done"} => links = AllLinks

-----------------------------------------------------------------------------
(* Where the program stands.                                               *)

BeforeSemaphore == {"registerCallback", "createSemaphore"}
BeforeSaver == BeforeSemaphore \cup {"createSaver"}
BeforeEncoder == BeforeSaver \cup {"logoInit", "createChain", "startEncoder"}
BeforeFeeder == BeforeEncoder \cup {"startDecoder", "setHandler", "armTimer", "createFeeder"}
ClockRuns == {"createFeeder", "startFeeder", "waitQuit", "resetHandler"}
AfterDecoder == {"stopEncoder", "deleteChain", "deleteFeeder", "done"}

SaverStands ==
    /\ callback = "none" <=> mainPc = "registerCallback"
    /\ svSem = -1 <=> mainPc \in BeforeSemaphore
    /\ svPc = "none" <=> mainPc \in BeforeSaver
    /\ encoding => mainPc \notin BeforeEncoder \cup {"deleteChain", "deleteFeeder", "done"}

FeederStands ==
    /\ decoding <=> mainPc \notin BeforeEncoder \cup {"startDecoder"} \cup AfterDecoder
    /\ ffPc = "none" <=> mainPc \in BeforeFeeder
    /\ mainPc \in {"stopDecoder"} \cup AfterDecoder => ffPc = "done"

LogoStands ==
    /\ LogoTypeOK /\ ~strayDraw
    /\ killed => mainPc = "disarmTimer"
    /\ timer <=> mainPc \in ClockRuns \cup {"disarmTimer"}
    /\ sigalrm = "updateTime" <=> mainPc \in ClockRuns \cup {"armTimer"}
    /\ mainPc \in {"createChain", "startEncoder", "startDecoder", "setHandler", "armTimer",
                   "disarmTimer", "freeBuffers"} \cup ClockRuns => buffers

MainTypeOK == mainPc \in MainSteps /\ g_quit \in BOOLEAN /\ decoding \in BOOLEAN

IInv == /\ FeederInv /\ SaverInv /\ FilesInv /\ MainTypeOK
        /\ SaverStands /\ FeederStands /\ LogoStands /\ ChainStands

LEMMA InitIInv == Init => IInv
<1> SUFFICES ASSUME Init PROVE IInv
  OBVIOUS
<1>1. FeederInv /\ SaverInv /\ FilesInv
  <2>1. encoded \in Counts
    BY SaverStarts DEF Init, SaverInv, SaverTypeOK, Counts
  <2> QED BY <2>1, FeederStarts, SaverStarts DEF Init, FilesInv
<1>2. MainTypeOK /\ SaverStands /\ FeederStands /\ LogoStands
  BY DEF Init, FeederInit, SaverInit, LogoInit, MainTypeOK, MainSteps, SaverStands, FeederStands,
         LogoStands, LogoTypeOK, BeforeSemaphore, BeforeSaver, BeforeEncoder, BeforeFeeder,
         ClockRuns, AfterDecoder
<1>3. ChainStands
  <2>1. links = {} /\ IsFiniteSet(links) /\ Cardinality(links) = 0
    BY FS_EmptySet DEF Init, ChainInit
  <2>2. Created(0) = {}
    BY DEF Created
  <2>3. ~decoding /\ ~encoding /\ mainPc = "registerCallback"
    BY DEF Init, SaverInit
  <2> QED BY <2>1, <2>2, <2>3 DEF ChainStands
<1> QED BY <1>1, <1>2, <1>3 DEF IInv

(* Each part takes a step of its own, or none.                             *)
LEMMA MainSteps1 ==
  ASSUME IInv, Main
  PROVE  /\ MainTypeOK' /\ SaverStands' /\ FeederStands'
         /\ \/ SaverStep /\ encoded' = encoded /\ (ChainIsDeleted => ChainIsDeleted')
            \/ DeleteQueue /\ ChainIsDeleted'
         /\ StartFeeder \/ AskFeederToQuit \/ UNCHANGED feederVars \/ (ffPc = "none" /\ CreateFeeder)
<1> USE DEF Main, StartUp, ShutDown, From, ByFeeder, BySaver, ByLogo, ByChain, SetDecoding
<1>1. MainTypeOK'
  BY DEF IInv, MainTypeOK, MainSteps
<1>2. \/ SaverStep /\ encoded' = encoded /\ (ChainIsDeleted => ChainIsDeleted')
      \/ DeleteQueue /\ ChainIsDeleted'
  BY DEF IInv, SaverStep, SaverStands, BeforeSemaphore, BeforeSaver, saverVars,
     ChainIsDeleted, RegisterCallback, CreateSemaphore, CreateSaverThread, SetEncoding
<1>3. SaverStands'
  BY DEF IInv, SaverStands, BeforeSemaphore, BeforeSaver, BeforeEncoder, saverVars,
     RegisterCallback, CreateSemaphore, CreateSaverThread, SetEncoding, DeleteQueue
<1>4. FeederStands'
  <2>a. /\ decoding <=> mainPc \notin BeforeEncoder \cup {"startDecoder"} \cup AfterDecoder
        /\ ffPc = "none" <=> mainPc \in BeforeFeeder
        /\ mainPc \in {"stopDecoder"} \cup AfterDecoder => ffPc = "done"
        /\ ffQuitDone => ffPc = "done"
    BY DEF IInv, FeederStands, FeederInv
  <2>1. decoding' <=> mainPc' \notin BeforeEncoder \cup {"startDecoder"} \cup AfterDecoder
    <3> DEFINE Off == BeforeEncoder \cup {"startDecoder"} \cup AfterDecoder
    <3>1. \/ decoding' = TRUE /\ mainPc' = "setHandler"
          \/ decoding' = FALSE /\ mainPc' = "stopEncoder"
          \/ decoding' = decoding /\ mainPc \notin {"startDecoder", "stopDecoder"}
      OBVIOUS
    <3>2. mainPc \notin {"startDecoder", "stopDecoder"} => (mainPc \in Off <=> mainPc' \in Off)
      BY DEF BeforeSemaphore, BeforeSaver, BeforeEncoder, AfterDecoder
    <3>3. "setHandler" \notin Off /\ "stopEncoder" \in Off
      BY DEF BeforeSemaphore, BeforeSaver, BeforeEncoder, AfterDecoder
    <3> HIDE DEF Off
    <3>4. CASE decoding' = TRUE /\ mainPc' = "setHandler"
      BY <3>3, <3>4 DEF Off
    <3>5. CASE decoding' = FALSE /\ mainPc' = "stopEncoder"
      BY <3>3, <3>5 DEF Off
    <3>6. CASE decoding' = decoding /\ mainPc \notin {"startDecoder", "stopDecoder"}
      BY <2>a, <3>2, <3>6 DEF Off
    <3> QED BY <3>1, <3>4, <3>5, <3>6
  <2>2. \/ UNCHANGED ffPc /\ mainPc # "createFeeder"
        \/ ffPc' = "sem" /\ mainPc = "createFeeder" /\ mainPc' = "startFeeder"
    BY DEF feederVars, CreateFeeder, StartFeeder, AskFeederToQuit
  <2>3. ffPc' = "none" <=> mainPc' \in BeforeFeeder
    BY <2>a, <2>2 DEF BeforeSemaphore, BeforeSaver, BeforeEncoder, BeforeFeeder
  <2>4. mainPc' \in {"stopDecoder"} \cup AfterDecoder => ffPc = "done" /\ mainPc # "createFeeder"
    BY <2>a DEF AfterDecoder, FeederHasQuit
  <2> QED BY <2>1, <2>2, <2>3, <2>4 DEF FeederStands
<1>5. StartFeeder \/ AskFeederToQuit \/ UNCHANGED feederVars \/ (ffPc = "none" /\ CreateFeeder)
  BY DEF IInv, FeederStands, BeforeFeeder
<1> QED BY <1>1, <1>2, <1>3, <1>4, <1>5

LEMMA MainLogo ==
  ASSUME IInv, Main, ~killed
  PROVE  LogoStands'
<1>a. /\ buffers \in BOOLEAN /\ sigalrm \in {"default", "updateTime"} /\ timer \in BOOLEAN
      /\ timer <=> mainPc \in ClockRuns \cup {"disarmTimer"}
      /\ sigalrm = "updateTime" <=> mainPc \in ClockRuns \cup {"armTimer"}
      /\ mainPc \in {"createChain", "startEncoder", "startDecoder", "setHandler", "armTimer",
                     "disarmTimer", "freeBuffers"} \cup ClockRuns => buffers
  BY DEF IInv, LogoStands, LogoTypeOK
<1>b. strayDraw' = FALSE /\ killed' = FALSE
  BY DEF Main, StartUp, ShutDown, ByFeeder, BySaver, ByLogo, ByChain, SetDecoding,
     IInv, LogoStands, LogoTypeOK, logoVars, AllocateBuffers, SetHandler, ArmTimer,
     ResetHandler, DisarmTimer, FreeBuffers
<1>1. CASE From("logoInit", "createChain") /\ ByLogo(AllocateBuffers)
  BY <1>a, <1>b, <1>1 DEF From, ByLogo, AllocateBuffers, LogoStands, LogoTypeOK, ClockRuns
<1>2. CASE From("setHandler", "armTimer") /\ ByLogo(SetHandler)
  BY <1>a, <1>b, <1>2 DEF From, ByLogo, SetHandler, LogoStands, LogoTypeOK, ClockRuns
<1>3. CASE From("armTimer", "createFeeder") /\ ByLogo(ArmTimer)
  BY <1>a, <1>b, <1>3 DEF From, ByLogo, ArmTimer, LogoStands, LogoTypeOK, ClockRuns
<1>4. CASE From("resetHandler", "disarmTimer") /\ ByLogo(ResetHandler)
  BY <1>a, <1>b, <1>4 DEF From, ByLogo, ResetHandler, LogoStands, LogoTypeOK, ClockRuns
<1>5. CASE From("disarmTimer", "freeBuffers") /\ ByLogo(DisarmTimer)
  BY <1>a, <1>b, <1>5 DEF From, ByLogo, DisarmTimer, LogoStands, LogoTypeOK, ClockRuns
<1>6. CASE From("freeBuffers", "askFeeder") /\ ByLogo(FreeBuffers)
  BY <1>a, <1>b, <1>6 DEF From, ByLogo, FreeBuffers, LogoStands, LogoTypeOK, ClockRuns
<1> DEFINE Early == {"registerCallback", "createSemaphore", "createSaver", "logoInit"}
           Middle == {"createChain", "startEncoder", "startDecoder", "setHandler"}
           Late == {"askFeeder", "waitFeeder", "stopDecoder", "stopEncoder", "deleteChain",
                    "deleteFeeder", "done"}
<1>7. CASE /\ UNCHANGED <<buffers, sigalrm, timer>>
           /\ \/ {mainPc, mainPc'} \subseteq Early
              \/ {mainPc, mainPc'} \subseteq Middle
              \/ {mainPc, mainPc'} \subseteq ClockRuns
              \/ {mainPc, mainPc'} \subseteq Late
  BY <1>a, <1>b, <1>7 DEF LogoStands, LogoTypeOK, ClockRuns
<1>8. CASE \/ From("registerCallback", "createSemaphore") /\ BySaver(RegisterCallback)
           \/ From("createSemaphore", "createSaver") /\ BySaver(CreateSemaphore)
           \/ From("createSaver", "logoInit") /\ BySaver(CreateSaverThread)
           \/ /\ Cardinality(links) < Len(CreateOrder)
              /\ From("createChain", "createChain") /\ ByChain(CreateLink(Cardinality(links) + 1))
           \/ /\ Cardinality(links) = Len(CreateOrder)
              /\ From("createChain", "startEncoder") /\ ByChain(UNCHANGED links)
           \/ From("startEncoder", "startDecoder") /\ BySaver(SetEncoding(TRUE))
           \/ From("startDecoder", "setHandler") /\ SetDecoding(TRUE)
  BY <1>7, <1>8 DEF From, BySaver, ByChain, SetDecoding, logoVars
<1>9. CASE \/ From("createFeeder", "startFeeder") /\ ByFeeder(CreateFeeder)
           \/ From("startFeeder", "waitQuit") /\ ByFeeder(StartFeeder)
           \/ /\ From("waitQuit", "resetHandler") /\ g_quit
              /\ UNCHANGED <<feederVars, saverVars, logoVars, links, decoding>>
  BY <1>7, <1>9 DEF From, ByFeeder, logoVars, ClockRuns
<1>10. CASE \/ From("askFeeder", "waitFeeder") /\ ByFeeder(AskFeederToQuit)
            \/ /\ From("waitFeeder", "stopDecoder") /\ FeederHasQuit
               /\ ByFeeder(UNCHANGED feederVars)
            \/ From("stopDecoder", "stopEncoder") /\ SetDecoding(FALSE)
            \/ From("stopEncoder", "deleteChain") /\ BySaver(SetEncoding(FALSE))
            \/ /\ From("deleteChain", "deleteFeeder") /\ DeleteChain /\ DeleteQueue
               /\ UNCHANGED <<feederVars, logoVars, decoding>>
            \/ /\ From("deleteFeeder", "done")
               /\ UNCHANGED <<feederVars, saverVars, logoVars, links, decoding>>
  BY <1>7, <1>10 DEF From, ByFeeder, BySaver, ByChain, SetDecoding, logoVars
<1> QED BY <1>1, <1>2, <1>3, <1>4, <1>5, <1>6, <1>8, <1>9, <1>10 DEF Main, StartUp, ShutDown

LEMMA MainChain ==
  ASSUME IInv, Main
  PROVE  ChainStands'
<1>a. ChainStands /\ SaverStands /\ FeederStands
  BY DEF IInv
<1>1. CASE /\ Cardinality(links) < Len(CreateOrder)
           /\ From("createChain", "createChain") /\ ByChain(CreateLink(Cardinality(links) + 1))
  <2> DEFINE m == Cardinality(links)
  <2>1. /\ m \in 0..16 /\ links = Created(m) /\ IsFiniteSet(links)
        /\ mainPc = "createChain" /\ mainPc' = mainPc
        /\ links' = links \cup {CreateOrder[m + 1]} /\ decoding' = decoding /\ encoding' = encoding
    BY <1>1, <1>a, OrderOfLinks DEF From, ByChain, CreateLink, ChainStands, saverVars
  <2> HIDE DEF m
  <2>2. links' = Created(m + 1) /\ CreateOrder[m + 1] \notin links
    BY <2>1, OneMoreLink
  <2>3. IsFiniteSet(links') /\ Cardinality(links') = m + 1
    BY <2>1, <2>2, FS_AddElement DEF m
  <2>4. ~decoding /\ ~encoding
    BY <1>a, <2>1 DEF SaverStands, FeederStands, BeforeEncoder
  <2> QED BY <2>1, <2>2, <2>3, <2>4 DEF ChainStands
<1>2. CASE /\ Cardinality(links) = Len(CreateOrder)
           /\ From("createChain", "startEncoder") /\ ByChain(UNCHANGED links)
  <2>1. links = AllLinks /\ links' = links /\ mainPc' = "startEncoder"
        /\ mainPc = "createChain"
    BY <1>2, <1>a, OrderOfLinks DEF From, ByChain, ChainStands
  <2> QED BY <1>a, <2>1 DEF ChainStands
<1>3. CASE /\ From("deleteChain", "deleteFeeder") /\ DeleteChain /\ DeleteQueue
           /\ UNCHANGED <<feederVars, logoVars, decoding>>
  <2>1. links = AllLinks /\ mainPc' = "deleteFeeder" /\ mainPc = "deleteChain"
        /\ decoding' = decoding /\ encoding' = encoding
        /\ links' = links \ (VdecContext \cup VcapContext \cup {"dup"} \cup VencContext \cup VdisContext)
    BY <1>3, <1>a DEF From, ChainStands, DeleteChain, DeleteQueue
  <2>2. \A k \in 1..17 : CreateOrder[k] \in VdecContext \cup VcapContext \cup {"dup"}
                                             \cup VencContext \cup VdisContext
    BY DEF CreateOrder, VdecContext, VcapContext, VencContext, VdisContext
  <2>3. links' = {}
    BY <2>1, <2>2, OrderOfLinks DEF Created
  <2>4. ~decoding /\ ~encoding
    BY <1>a, <2>1 DEF SaverStands, FeederStands, AfterDecoder
  <2> QED BY <2>1, <2>3, <2>4, FS_EmptySet DEF ChainStands
<1>4. CASE \/ From("startEncoder", "startDecoder") /\ BySaver(SetEncoding(TRUE))
           \/ From("startDecoder", "setHandler") /\ SetDecoding(TRUE)
  <2>1. links = AllLinks /\ links' = links /\ mainPc' \in {"startDecoder", "setHandler"}
        /\ mainPc \in {"startEncoder", "startDecoder"}
    BY <1>4, <1>a DEF From, BySaver, SetDecoding, ChainStands
  <2> QED BY <1>a, <2>1 DEF ChainStands
<1> DEFINE Early == {"registerCallback", "createSemaphore", "createSaver", "logoInit", "createChain"}
           Late == {"deleteFeeder", "done"}
<1>5. CASE /\ UNCHANGED links /\ (decoding' => decoding) /\ (encoding' => encoding)
           /\ \/ mainPc \in Early /\ mainPc' \in Early
              \/ mainPc \in Late /\ mainPc' \in Late
              \/ mainPc \notin Early \cup Late /\ mainPc' \notin Early \cup Late
  BY <1>a, <1>5 DEF ChainStands
<1>6. CASE \/ From("registerCallback", "createSemaphore") /\ BySaver(RegisterCallback)
           \/ From("createSemaphore", "createSaver") /\ BySaver(CreateSemaphore)
           \/ From("createSaver", "logoInit") /\ BySaver(CreateSaverThread)
           \/ From("logoInit", "createChain") /\ ByLogo(AllocateBuffers)
  BY <1>5, <1>6 DEF From, BySaver, ByLogo, RegisterCallback, CreateSemaphore, CreateSaverThread,
     saverVars
<1>7. CASE \/ From("setHandler", "armTimer") /\ ByLogo(SetHandler)
           \/ From("armTimer", "createFeeder") /\ ByLogo(ArmTimer)
           \/ From("createFeeder", "startFeeder") /\ ByFeeder(CreateFeeder)
           \/ From("startFeeder", "waitQuit") /\ ByFeeder(StartFeeder)
           \/ /\ From("waitQuit", "resetHandler") /\ g_quit
              /\ UNCHANGED <<feederVars, saverVars, logoVars, links, decoding>>
           \/ From("resetHandler", "disarmTimer") /\ ByLogo(ResetHandler)
           \/ From("disarmTimer", "freeBuffers") /\ ByLogo(DisarmTimer)
           \/ From("freeBuffers", "askFeeder") /\ ByLogo(FreeBuffers)
           \/ From("askFeeder", "waitFeeder") /\ ByFeeder(AskFeederToQuit)
           \/ /\ From("waitFeeder", "stopDecoder") /\ FeederHasQuit
              /\ ByFeeder(UNCHANGED feederVars)
  BY <1>5, <1>7 DEF From, ByFeeder, ByLogo, saverVars
<1>8. CASE \/ From("stopDecoder", "stopEncoder") /\ SetDecoding(FALSE)
           \/ From("stopEncoder", "deleteChain") /\ BySaver(SetEncoding(FALSE))
           \/ /\ From("deleteFeeder", "done")
              /\ UNCHANGED <<feederVars, saverVars, logoVars, links, decoding>>
  BY <1>5, <1>8 DEF From, SetDecoding, BySaver, SetEncoding, saverVars
<1> QED BY <1>1, <1>2, <1>3, <1>4, <1>6, <1>7, <1>8 DEF Main, StartUp, ShutDown

(* The threads, the decoder, the encoder and the alarm leave the program   *)
(* where it stands.                                                        *)
LEMMA PartsStep ==
  ASSUME IInv,
         Interrupt \/ Feeding \/ Decoder \/ Saving \/ Failing \/ Encoding \/ Ringing \/ UNCHANGED vars
  PROVE  IInv'
<1>a. /\ FeederInv /\ SaverInv /\ FilesInv /\ MainTypeOK
      /\ SaverStands /\ FeederStands /\ LogoStands /\ ChainStands
  BY DEF IInv
<1>b. mainPc' = mainPc /\ decoding' = decoding /\ links' = links /\ g_quit' \in BOOLEAN
  BY <1>a DEF Interrupt, Feeding, Decoder, Saving, Failing, Encoding, Ringing, Idle, ByFeeder,
     BySaver, ByLogo, vars, mainVars, MainTypeOK
<1>c. \/ FeederThread \/ \E ch \in Channels : DecoderReturns(ch)
      \/ UNCHANGED feederVars
  BY DEF Interrupt, Feeding, Decoder, Saving, Failing, Encoding, Ringing, ByFeeder,
     BySaver, ByLogo, vars
<1>d. SaverThread \/ WriteFails \/ Encoder \/ UNCHANGED saverVars
  BY DEF Interrupt, Feeding, Decoder, Saving, Failing, Encoding, Ringing, ByFeeder,
     BySaver, ByLogo, vars
<1>e. Alarm \/ UNCHANGED logoVars
  BY DEF Interrupt, Feeding, Decoder, Saving, Failing, Encoding, Ringing, ByFeeder,
     BySaver, ByLogo, vars
<1>1. FeederInv'
  BY <1>a, <1>c, FeederSteps
<1>2. SaverInv' /\ FilesInv'
  <2>1. SaverStep
    BY <1>d DEF SaverStep
  <2>2. encoded' # encoded => encoding
    BY <1>d DEF SaverThread, Encoder, LoopSaver, WaitForData, GetBuffers, Write, WriteFails,
       TakeFromList, Release, Encode, SignalNewData, saverVars
  <2>3. encoded' # encoded => ~ChainIsDeleted
    BY <1>a, <2>2 DEF SaverStands, ChainIsDeleted
  <2>4. ChainIsDeleted' <=> ChainIsDeleted
    BY <1>b DEF ChainIsDeleted
  <2>5. svQuit' => FilesInv'
    BY DEF FilesInv
  <2> QED BY <1>a, <2>1, <2>3, <2>4, <2>5, SaverSteps, FilesStand
<1>3. MainTypeOK'
  BY <1>a, <1>b DEF MainTypeOK
<1>4. SaverStands' /\ encoding' = encoding
  <2>1. /\ callback' = "none" <=> callback = "none"
        /\ svSem' = -1 <=> svSem = -1
        /\ svPc' = "none" <=> svPc = "none"
        /\ encoding' = encoding
    <3>1. svSem \in -1..1 /\ (callback = "due" => svSem # -1)
      BY <1>a DEF SaverInv, SaverTypeOK
    <3>2. CASE LoopSaver \/ GetBuffers \/ Release \/ UNCHANGED saverVars
      BY <3>2 DEF LoopSaver, GetBuffers, Release, saverVars
    <3>3. CASE Write \/ WriteFails
      BY <3>3 DEF Write, WriteFails, TakeFromList
    <3>4. CASE WaitForData
      BY <3>1, <3>4 DEF WaitForData
    <3>5. CASE SignalNewData
      BY <3>1, <3>5 DEF SignalNewData
    <3>6. CASE \E ch \in SavedChannels : Encode(ch)
      BY <3>6 DEF Encode
    <3> QED BY <1>d, <3>2, <3>3, <3>4, <3>5, <3>6 DEF SaverThread, Encoder
  <2> QED BY <1>a, <1>b, <2>1 DEF SaverStands
<1>5. FeederStands'
  <2>1. (ffPc' = "none" <=> ffPc = "none") /\ (ffPc = "done" => ffPc' = "done")
    BY <1>c DEF FeederThread, ThreadStarts, LoopOrQuit, Request, Fill, Put, NextChannel,
       DecoderReturns, feederVars
  <2> QED BY <1>a, <1>b, <2>1 DEF FeederStands
<1>6. LogoStands'
  BY <1>a, <1>b, <1>e DEF Alarm, logoVars, LogoStands, LogoTypeOK, ClockRuns
<1>7. ChainStands'
  BY <1>a, <1>b, <1>4 DEF ChainStands
<1> QED BY <1>1, <1>2, <1>3, <1>4, <1>5, <1>6, <1>7 DEF IInv

LEMMA NextIInv == IInv /\ [Next]_vars => IInv'
<1> SUFFICES ASSUME IInv, [Next]_vars PROVE IInv'
  OBVIOUS
<1>1. CASE Main /\ ~killed
  <2>1. FeederInv' /\ SaverInv' /\ FilesInv'
    <3>1. FeederInv'
      BY <1>1, MainSteps1, FeederSteps DEF IInv
    <3>2. SaverInv /\ FilesInv
      BY DEF IInv
    <3>3. svQuit' => FilesInv'
      BY DEF FilesInv
    <3>4. CASE SaverStep /\ encoded' = encoded /\ (ChainIsDeleted => ChainIsDeleted')
      BY <3>1, <3>2, <3>3, <3>4, SaverSteps, FilesStand
    <3>5. CASE DeleteQueue /\ ChainIsDeleted'
      <4>1. svQuit' = svQuit
        BY <3>5 DEF DeleteQueue
      <4>2. ~svQuit' => \E enc2 \in Counts : NoGap(Line', enc2, saved')
        BY <3>2, <3>5, <4>1, DeleteSteps DEF FilesInv
      <4> QED BY <3>1, <3>2, <3>5, <4>2, DeleteSteps DEF FilesInv
    <3> QED BY <1>1, <3>4, <3>5, MainSteps1
  <2> QED BY <1>1, <2>1, MainSteps1, MainLogo, MainChain DEF IInv
<1>2. CASE ~killed /\ (Interrupt \/ Feeding \/ Decoder \/ Saving \/ Failing \/ Encoding \/ Ringing)
  BY <1>2, PartsStep
<1>3. CASE UNCHANGED vars
  BY <1>3, PartsStep
<1> QED BY <1>1, <1>2, <1>3 DEF Next

LEMMA SpecIInv == Spec => []IInv
BY InitIInv, NextIInv, PTL DEF Spec

-----------------------------------------------------------------------------
(* What the feeder reads.                                                  *)

(* The offsets in the data file are the sums of the sizes before.          *)
LEMMA StartRule ==
  /\ Start[1] = 0
  /\ \A k \in 1..NumFrames : Start[k + 1] = Start[k] + Sizes[k]
  /\ \A k \in 1..(NumFrames + 1) : Start[k] \in Nat
<1> DEFINE N == NumFrames + 1
           rule == [p \in Nat \X Nat |-> IF p[1] \in 2..N THEN p[2] + Sizes[p[1] - 1] ELSE 0]
           Rule(g) == [k \in 1..N |-> IF k = 1 THEN 0 ELSE g[k - 1] + Sizes[k - 1]]
<1>1. NumFrames \in Nat \ {0} /\ N \in Nat /\ 1 <= N /\ \A k \in 1..NumFrames : Sizes[k] \in Nat
  BY FileFacts
<1> HIDE DEF NumFrames
<1>2. rule \in [Nat \X Nat -> Nat]
  <2>1. ASSUME NEW p \in Nat \X Nat
        PROVE  (IF p[1] \in 2..N THEN p[2] + Sizes[p[1] - 1] ELSE 0) \in Nat
    <3>1. CASE p[1] \in 2..N
      <4>1. p[1] - 1 \in 1..NumFrames /\ p[2] \in Nat
        BY <1>1, <3>1
      <4> QED BY <1>1, <3>1, <4>1
    <3> QED BY <3>1
  <2> QED BY <2>1
<1>3. PICK g \in [1..N -> Nat] : Follows(g, 1, N, 0, rule)
  <2> HIDE DEF rule, N
  <2> QED BY <1>1, <1>2, Recursion
<1>4. ASSUME NEW k \in 1..N PROVE g[k] = IF k = 1 THEN 0 ELSE g[k - 1] + Sizes[k - 1]
  <2>1. CASE k = 1
    BY <1>3, <2>1 DEF Follows
  <2>2. CASE k # 1
    <3>1. k \in (1 + 1)..N /\ k - 1 \in 1..N /\ k \in Nat /\ k \in 2..N
      BY <1>1, <2>2
    <3>2. g[k] = rule[<<k, g[k - 1]>>]
      <4> HIDE DEF rule
      <4> QED BY <1>3, <3>1 DEF Follows
    <3>3. <<k, g[k - 1]>> \in Nat \X Nat
      BY <3>1
    <3> QED BY <2>2, <3>1, <3>2, <3>3
  <2> QED BY <2>1, <2>2
<1>5. g = Rule(g)
  BY <1>4
<1>6. Start = Rule(Start)
  BY <1>5 DEF Start
<1>7. \A k \in 1..N : Start[k] = IF k = 1 THEN 0 ELSE Start[k - 1] + Sizes[k - 1]
  <2> HIDE DEF Start, N
  <2> QED BY <1>6
<1>8. ASSUME NEW k \in 1..NumFrames PROVE Start[k + 1] = Start[k] + Sizes[k]
  <2>1. k + 1 \in 1..N /\ k + 1 # 1 /\ (k + 1) - 1 = k
    BY <1>1
  <2> HIDE DEF N, Start
  <2> QED BY <1>7, <2>1
<1>9. 1 \in 1..N
  BY <1>1
<1>10. Start[1] = 0
  <2> HIDE DEF N, Start
  <2> QED BY <1>7, <1>9
<1>11. \A k \in 1..N : Start[k] \in Nat
  <2> DEFINE T == {k \in 1..N : Start[k] \notin Nat}
  <2> SUFFICES ASSUME T # {} PROVE FALSE
    OBVIOUS
  <2>1. T \in SUBSET Nat
    BY <1>1
  <2>2. PICK m \in T : \A k \in T : m <= k
    <3> HIDE DEF T
    <3> QED BY <2>1, LeastElement
  <2>3. m \in 1..N /\ Start[m] \notin Nat /\ m # 1
    BY <1>10
  <2>4. m - 1 \in 1..N /\ m - 1 \in 1..NumFrames /\ ~(m <= m - 1) /\ (m - 1) + 1 = m
    BY <1>1, <2>3
  <2>5. Start[m - 1] \in Nat
    <3> HIDE DEF N, Start
    <3> QED BY <2>2, <2>4
  <2>6. Start[m] = Start[m - 1] + Sizes[m - 1]
    <3> HIDE DEF N, Start
    <3> QED BY <1>8, <2>4
  <2> HIDE DEF N, Start
  <2> QED BY <1>1, <2>3, <2>4, <2>5, <2>6
<1> QED BY <1>8, <1>10, <1>11

(* Before a frame that is fed all are.                                     *)
LEMMA FedDownwards ==
  ASSUME FeederTypeOK, NEW k \in 2..NumFrames, IsFed(k)
  PROVE  IsFed(k - 1)
<1>1. NumFrames \in Nat /\ files.len \in Nat /\ \A n \in 1..NumFrames : Sizes[n] \in Nat
  BY FileFacts DEF FeederTypeOK
<1> HIDE DEF NumFrames
<1>2. k - 1 \in 1..NumFrames /\ k \in 1..NumFrames /\ k - 1 < NumFrames /\ (k - 1) + 1 = k
      /\ k \in 1..(NumFrames + 1) /\ k + 1 \in 1..(NumFrames + 1)
  BY <1>1
<1>3. Start[k + 1] = Start[k] + Sizes[k] /\ Start[k] \in Nat /\ Start[k + 1] \in Nat
  BY <1>2, StartRule
<1>4. Start[k + 1] <= files.len
  BY DEF IsFed
<1>5. Start[k] <= files.len
  BY <1>1, <1>2, <1>3, <1>4
<1> QED BY <1>2, <1>5 DEF IsFed

IsLastFed(k) == IsFed(k) /\ (k < NumFrames => ~IsFed(k + 1))

LEMMA FedBelow ==
  ASSUME FeederTypeOK, NEW k \in 1..NumFrames, IsFed(k), NEW j \in 1..k
  PROVE  IsFed(j)
<1> DEFINE T == {n \in 0..(k - 1) : ~IsFed(k - n)}
<1>0. NumFrames \in Nat
  BY FileFacts
<1> HIDE DEF NumFrames
<1> SUFFICES ASSUME T # {} PROVE FALSE
  <2>1. k - j \in 0..(k - 1) /\ k - (k - j) = j
    BY <1>0
  <2> HIDE DEF IsFed
  <2> QED BY <2>1
<1>1. PICK m \in T : \A n \in T : m <= n
  <2>1. T \in SUBSET Nat
    OBVIOUS
  <2> HIDE DEF T
  <2> QED BY <2>1, LeastElement
<1>2. m \in 0..(k - 1) /\ ~IsFed(k - m)
  OBVIOUS
<1>3. m # 0
  <2>1. m = 0 => k - m = k
    BY <1>0
  <2> HIDE DEF IsFed
  <2> QED BY <1>2, <2>1
<1>4. m - 1 \in 0..(k - 1) /\ ~(m <= m - 1) /\ k - (m - 1) \in 2..NumFrames
      /\ (k - (m - 1)) - 1 = k - m
  BY <1>0, <1>2, <1>3
<1>5. IsFed(k - (m - 1))
  <2> HIDE DEF IsFed
  <2> QED BY <1>1, <1>4
<1> QED BY <1>2, <1>4, <1>5, FedDownwards

LEMMA LastFedIsUnique ==
  ASSUME FeederTypeOK, NEW k \in 1..NumFrames, IsLastFed(k)
  PROVE  LastFed = k
<1>0. NumFrames \in Nat
  BY FileFacts
<1> HIDE DEF NumFrames
<1>1. ASSUME NEW j \in 1..NumFrames, IsLastFed(j), NEW n \in 1..NumFrames, IsLastFed(n), j < n
      PROVE  FALSE
  <2>1. j + 1 \in 1..n /\ j < NumFrames
    BY <1>0, <1>1
  <2>2. IsFed(j + 1)
    BY <1>1, <2>1, FedBelow DEF IsLastFed
  <2> QED BY <1>1, <2>1, <2>2 DEF IsLastFed
<1>2. \A j \in 1..NumFrames : IsLastFed(j) => j = k
  BY <1>0, <1>1
<1>3. LastFed = CHOOSE j \in 1..NumFrames : IsLastFed(j)
  BY DEF LastFed, IsLastFed
<1> HIDE DEF IsLastFed
<1> QED BY <1>2, <1>3

(* The first frame is fed, so there is a last.                             *)
LEMMA LastFedExists ==
  ASSUME FeederTypeOK
  PROVE  LastFed \in 1..NumFrames /\ IsLastFed(LastFed)
<1>0. NumFrames \in Nat \ {0} /\ 1 \in 1..NumFrames /\ Sizes[1] \in Nat /\ Sizes[1] <= files.len
  BY FileFacts DEF FeederTypeOK
<1>1. Start[1 + 1] = Sizes[1]
  BY <1>0, StartRule
<1>2. IsFed(1)
  BY <1>0, <1>1 DEF IsFed
<1> HIDE DEF NumFrames
<1> DEFINE T == {n \in 1..NumFrames : ~IsFed(n)}
<1>3. CASE T = {}
  <2>1. IsLastFed(NumFrames) /\ NumFrames \in 1..NumFrames
    BY <1>0, <1>3 DEF IsLastFed
  <2> QED BY <2>1, LastFedIsUnique
<1>4. CASE T # {}
  <2>1. PICK m \in T : \A n \in T : m <= n
    <3>1. T \in SUBSET Nat
      BY <1>0
    <3> HIDE DEF T
    <3> QED BY <1>4, <3>1, LeastElement
  <2>2. m \in 1..NumFrames /\ ~IsFed(m) /\ m # 1
    BY <1>2
  <2>3. m - 1 \in 1..NumFrames /\ ~(m <= m - 1) /\ (m - 1) + 1 = m /\ m - 1 < NumFrames
    BY <1>0, <2>2
  <2>4. IsFed(m - 1)
    <3> HIDE DEF IsFed
    <3> QED BY <2>1, <2>3
  <2>5. IsLastFed(m - 1)
    BY <2>2, <2>3, <2>4 DEF IsLastFed
  <2> QED BY <2>3, <2>5, LastFedIsUnique
<1> QED BY <1>3, <1>4

(* The last frame that was read for a channel: put, or to be put.          *)
LastRead(ch) == IF ch = i /\ filled # << >> THEN filled[Len(filled)] ELSE fed[ch]

FedFrom(f, k) == Start[k + 1] <= f.len /\ (k = 1 \/ k < NumFrames \/ f.newline)

CycleInv ==
    \A ch \in Channels :
        /\ data[ch] = Start[header[ch] + 1]
        /\ header[ch] # 0 => FedFrom(files, header[ch])
        /\ LastRead(ch).frame = header[ch]

NextRead(ch) == IF header[ch] = LastFed THEN 1 ELSE header[ch] + 1

LEMMA ReadsNext ==
  ASSUME FeederTypeOK, NEW ch \in Channels, ReadByFrame(ch), UNCHANGED files,
         data[ch] = Start[header[ch] + 1],
         header[ch] # 0 => FedFrom(files, header[ch])
  PROVE  /\ NextRead(ch) \in 1..NumFrames /\ FedFrom(files, NextRead(ch))
         /\ filled' = Append(filled, [frame |-> NextRead(ch), whole |-> TRUE])
         /\ header' = [header EXCEPT ![ch] = NextRead(ch)]
         /\ data' = [data EXCEPT ![ch] = Start[NextRead(ch) + 1]]
<1> DEFINE h == header[ch]
<1>f. \A n : IsFed(n) <=> FedFrom(files, n)
  BY DEF IsFed, FedFrom
<1>0. /\ NumFrames \in Nat \ {0} /\ 1 \in 1..NumFrames /\ Sizes[1] \in Nat /\ Sizes[1] <= files.len
      /\ h \in 0..NumFrames /\ files.len \in Nat
  BY FileFacts DEF FeederTypeOK
<1>1. Start[1 + 1] = Sizes[1] /\ Start[1] = 0
  BY <1>0, StartRule
<1>2. IsFed(1)
  BY <1>0, <1>1 DEF IsFed
<1>3. ReadAt(1, 0) = [frame |-> 1, whole |-> TRUE]
  <2> DEFINE w == 0 = Start[1] /\ 0 + Sizes[1] <= files.len
  <2>1. w = TRUE
    BY <1>0, <1>1
  <2>2. ReadAt(1, 0) = [frame |-> 1, whole |-> w]
    BY DEF ReadAt
  <2> HIDE DEF w
  <2> QED BY <2>1, <2>2
<1>4. LastFed \in 1..NumFrames /\ IsLastFed(LastFed)
  BY LastFedExists
<1> HIDE DEF NumFrames
<1>5. h < NumFrames => /\ h + 1 \in 1..NumFrames /\ data[ch] + Sizes[h + 1] = Start[(h + 1) + 1]
  <2> SUFFICES ASSUME h < NumFrames
               PROVE  h + 1 \in 1..NumFrames /\ data[ch] + Sizes[h + 1] = Start[(h + 1) + 1]
    OBVIOUS
  <2>1. h + 1 \in 1..NumFrames
    BY <1>0
  <2> QED BY <2>1, StartRule
<1>6. CASE EndOfFile(ch)
  <2>1. h = LastFed \/ h = 0
    <3> SUFFICES ASSUME h # 0 PROVE h = LastFed
      OBVIOUS
    <3>1. h \in 1..NumFrames /\ IsFed(h)
      BY <1>0, <1>f
    <3>2. ASSUME h < NumFrames PROVE ~IsFed(h + 1)
      <4>1. \/ h + 1 = NumFrames /\ ~files.newline
            \/ data[ch] + Sizes[h + 1] > files.len
        BY <1>0, <1>6, <3>2 DEF EndOfFile
      <4>2. CASE h + 1 = NumFrames /\ ~files.newline
        BY <1>0, <3>1, <4>2 DEF IsFed
      <4>3. CASE data[ch] + Sizes[h + 1] > files.len
        <5>1. Start[(h + 1) + 1] > files.len
          BY <1>5, <3>2, <4>3
        <5>2. Start[(h + 1) + 1] \in Nat
          <6>1. (h + 1) + 1 \in 1..(NumFrames + 1)
            BY <1>0, <3>2
          <6> QED BY <6>1, StartRule
        <5> QED BY <1>0, <5>1, <5>2 DEF IsFed
      <4> QED BY <4>1, <4>2, <4>3
    <3>3. IsLastFed(h)
      BY <3>1, <3>2 DEF IsLastFed
    <3> QED BY <3>1, <3>3, LastFedIsUnique
  <2>2. NextRead(ch) = 1
    BY <2>1 DEF NextRead
  <2>3. /\ filled' = Append(filled, ReadAt(1, 0)) /\ header' = [header EXCEPT ![ch] = 1]
        /\ data' = [data EXCEPT ![ch] = Sizes[1]]
    BY <1>6 DEF ReadByFrame
  <2> QED BY <1>f, <1>0, <1>1, <1>2, <1>3, <2>2, <2>3
<1>7. CASE ~EndOfFile(ch)
  <2>1. /\ h # NumFrames /\ ~(h + 1 = NumFrames /\ ~files.newline)
        /\ ~(data[ch] + Sizes[h + 1] > files.len)
    BY <1>7 DEF EndOfFile
  <2>2. h < NumFrames
    BY <1>0, <2>1
  <2>3. Start[(h + 1) + 1] <= files.len
    <3>1. (h + 1) + 1 \in 1..(NumFrames + 1)
      BY <1>0, <2>2
    <3>2. Start[(h + 1) + 1] \in Nat
      BY <3>1, StartRule
    <3> QED BY <1>0, <1>5, <2>1, <2>2, <3>2
  <2>4. IsFed(h + 1)
    <3>1. h + 1 < NumFrames \/ files.newline
      BY <1>0, <2>1, <2>2
    <3> QED BY <2>3, <3>1 DEF IsFed
  <2>5. NextRead(ch) = h + 1
    BY <1>4, <2>2, <2>4 DEF IsLastFed, NextRead
  <2>6. ReadAt(h + 1, data[ch]) = [frame |-> h + 1, whole |-> TRUE]
    BY <1>5, <2>2, <2>3 DEF ReadAt
  <2>7. /\ filled' = Append(filled, ReadAt(h + 1, data[ch]))
        /\ header' = [header EXCEPT ![ch] = h + 1]
        /\ data' = [data EXCEPT ![ch] = data[ch] + Sizes[h + 1]]
    BY <1>7 DEF ReadByFrame
  <2> QED BY <1>f, <1>5, <2>2, <2>4, <2>5, <2>6, <2>7
<1> QED BY <1>6, <1>7

CycleStep ==
    Len(filled') > Len(filled) =>
        filled'[Len(filled')] =
           [frame |-> IF Previous.frame = LastFed THEN 1 ELSE Previous.frame + 1,
            whole |-> TRUE]

LEMMA CycleStarts == FeederInit => CycleInv
<1> SUFFICES ASSUME FeederInit PROVE CycleInv
  OBVIOUS
<1>1. Start[0 + 1] = 0
  BY StartRule
<1>2. NoFrame.frame = 0
  BY DEF NoFrame
<1> QED BY <1>1, <1>2 DEF FeederInit, CycleInv, LastRead

(* Files read no further, and the last frame of no channel another: all    *)
(* stays.                                                                  *)
LEMMA CycleStays ==
  ASSUME CycleInv, UNCHANGED <<files, header, data>>, \A ch \in Channels : LastRead(ch)' = LastRead(ch)
  PROVE  CycleInv'
<1>1. ASSUME NEW ch \in Channels
      PROVE  /\ data'[ch] = Start[header'[ch] + 1]
             /\ header'[ch] # 0 => FedFrom(files', header'[ch])
             /\ LastRead(ch)'.frame = header'[ch]
  <2> HIDE DEF Channels
  <2> QED BY DEF CycleInv
<1> QED BY <1>1 DEF CycleInv

LEMMA CycleSteps ==
  ASSUME FeederInv, CycleInv,
         \/ FeederThread \/ \E ch \in Channels : DecoderReturns(ch)
         \/ ffPc = "none" /\ CreateFeeder
         \/ StartFeeder \/ AskFeederToQuit \/ UNCHANGED feederVars
  PROVE  CycleInv' /\ CycleStep
<1>a. /\ header \in [Channels -> 0..NumFrames] /\ i \in Channels
      /\ filled \in Seq(FedFrames) /\ Len(filled) \in Nat
      /\ fed \in [Channels -> [frame : 0..NumFrames, whole : BOOLEAN]]
      /\ ffPc \notin {"fill", "put"} => filled = << >>
      /\ FeederTypeOK
  <2>1. FeederTypeOK /\ (ffPc \notin {"fill", "put"} => filled = << >>)
    BY DEF FeederInv
  <2> HIDE DEF Channels, NumFrames
  <2>2. filled \in Seq(FedFrames)
    BY <2>1 DEF FeederTypeOK, FedFrames
  <2>3. Len(filled) \in Nat
    BY <2>2, LenProperties
  <2> QED BY <2>1, <2>2, <2>3 DEF FeederTypeOK
<1> HIDE DEF Channels, NumFrames
<1>1. CASE LoopOrQuit \/ Request
  <2>1. filled = << >> /\ UNCHANGED <<files, header, data, filled, fed>>
    BY <1>a, <1>1 DEF LoopOrQuit, Request
  <2>2. \A ch \in Channels : LastRead(ch)' = LastRead(ch)
    BY <2>1 DEF LastRead
  <2>3. CycleStep
    BY <1>a, <2>1 DEF CycleStep
  <2> QED BY <2>1, <2>2, <2>3, CycleStays
<1>2. CASE \/ ThreadStarts \/ \E ch \in Channels : DecoderReturns(ch)
           \/ CreateFeeder \/ StartFeeder \/ AskFeederToQuit \/ UNCHANGED feederVars
  <2>1. UNCHANGED <<files, header, data, filled, fed, i>>
    BY <1>2 DEF ThreadStarts, DecoderReturns, CreateFeeder, StartFeeder, AskFeederToQuit, feederVars
  <2>2. \A ch \in Channels : LastRead(ch)' = LastRead(ch)
    BY <2>1 DEF LastRead
  <2>3. CycleStep
    BY <1>a, <2>1 DEF CycleStep
  <2> QED BY <2>1, <2>2, <2>3, CycleStays
<1>3. CASE Fill
  <2> DEFINE k == NextRead(i)
             frame == [frame |-> k, whole |-> TRUE]
  <2>1. ReadByFrame(i) /\ UNCHANGED <<files, i, fed>>
    BY <1>3 DEF Fill
  <2>2. /\ data[i] = Start[header[i] + 1]
        /\ header[i] # 0 => FedFrom(files, header[i])
        /\ LastRead(i).frame = header[i]
    BY <1>a DEF CycleInv
  <2>3. /\ k \in 1..NumFrames /\ FedFrom(files, k) /\ filled' = Append(filled, frame)
        /\ header' = [header EXCEPT ![i] = k] /\ data' = [data EXCEPT ![i] = Start[k + 1]]
    <3>1. FeederTypeOK /\ i \in Channels /\ ReadByFrame(i) /\ UNCHANGED files
      BY <1>a, <2>1
    <3> QED BY <2>2, <3>1, ReadsNext
  <2>4. data \in [Channels -> 0..files.len]
    BY <1>a DEF FeederTypeOK
  <2>5. frame \in FedFrames /\ frame.frame = k
    BY <2>3 DEF FedFrames
  <2>6. /\ Len(filled') = Len(filled) + 1 /\ filled' # << >>
        /\ filled'[Len(filled')] = frame
    <3> HIDE DEF frame
    <3>1. /\ Len(Append(filled, frame)) = Len(filled) + 1 /\ Append(filled, frame) # << >>
          /\ Append(filled, frame)[Len(filled) + 1] = frame
      BY <1>a, <2>5, AppendProperties
    <3> QED BY <2>3, <3>1
  <2>7. Previous = LastRead(i)
    BY DEF Previous, LastRead
  <2>8. CycleStep
    BY <2>2, <2>6, <2>7 DEF CycleStep, NextRead
  <2>9. ASSUME NEW ch \in Channels
        PROVE  /\ data'[ch] = Start[header'[ch] + 1]
               /\ header'[ch] # 0 => FedFrom(files', header'[ch])
               /\ LastRead(ch)'.frame = header'[ch]
    <3>1. CASE ch = i
      <4>1. header'[ch] = k /\ data'[ch] = Start[k + 1]
        <5> HIDE DEF k
        <5> QED BY <1>a, <2>3, <2>4, <3>1
      <4>2. FedFrom(files', k)
        BY <2>1, <2>3
      <4>3. LastRead(ch)' = frame
        BY <2>1, <2>6, <3>1 DEF LastRead
      <4> HIDE DEF k, frame
      <4> QED BY <2>5, <4>1, <4>2, <4>3
    <3>2. CASE ch # i
      <4>1. header'[ch] = header[ch] /\ data'[ch] = data[ch]
        <5> HIDE DEF k
        <5> QED BY <1>a, <2>3, <2>4, <3>2
      <4>2. LastRead(ch)' = LastRead(ch)
        BY <2>1, <3>2 DEF LastRead
      <4>3. files' = files
        BY <2>1
      <4> HIDE DEF k
      <4> QED BY <4>1, <4>2, <4>3 DEF CycleInv
    <3> QED BY <3>1, <3>2
  <2> QED BY <2>8, <2>9 DEF CycleInv
<1>4. CASE Put
  <2>1. /\ fed' = [fed EXCEPT ![i] = filled[Len(filled)]] /\ filled' = << >>
        /\ UNCHANGED <<files, header, data>> /\ filled # << >>
    BY <1>4 DEF Put, FeederInv
  <2>2. ASSUME NEW ch \in Channels PROVE LastRead(ch)' = LastRead(ch)
    BY <1>a, <2>1 DEF LastRead
  <2>3. CycleStep
    BY <1>a, <2>1 DEF CycleStep
  <2> QED BY <2>1, <2>2, <2>3, CycleStays
<1> QED BY <1>1, <1>2, <1>3, <1>4 DEF FeederThread

LEMMA FeederStep ==
  ASSUME IInv, [Next]_vars
  PROVE  \/ FeederThread \/ \E ch \in Channels : DecoderReturns(ch)
         \/ ffPc = "none" /\ CreateFeeder
         \/ StartFeeder \/ AskFeederToQuit \/ UNCHANGED feederVars
<1>1. CASE Main /\ ~killed
  BY <1>1, MainSteps1
<1>2. CASE Interrupt \/ Feeding \/ Decoder \/ Saving \/ Failing \/ Encoding \/ Ringing \/ UNCHANGED vars
  BY <1>2 DEF Interrupt, Feeding, Decoder, Saving, Failing, Encoding, Ringing, ByFeeder,
              BySaver, ByLogo, vars
<1> QED BY <1>1, <1>2 DEF Next

-----------------------------------------------------------------------------
(* The feeder uses the decoder's buffers only while the decoder runs,      *)
(* whenever Ctrl-C comes and however far the feeder's thread is behind     *)
(* (dm8168.c:120-131, file_feeder.c:52-110).                               *)
THEOREM FeederAlwaysMeetsDecoder == Spec => []FeederMeetsDecoder
<1>1. IInv => FeederMeetsDecoder
  <2> SUFFICES ASSUME IInv PROVE FeederMeetsDecoder
    OBVIOUS
  <2>1. TypeOK
    <3>1. ChainTypeOK
      <4>1. links = AllLinks \/ links = {} \/ \E m \in 0..17 : links = Created(m)
        BY DEF IInv, ChainStands
      <4>2. \A m \in 0..17 : Created(m) \subseteq AllLinks
        BY OrderOfLinks DEF Created
      <4> QED BY <4>1, <4>2 DEF ChainTypeOK
    <3> QED BY <3>1 DEF TypeOK, IInv, FeederInv, SaverInv, LogoStands, MainTypeOK
  <2>2. ffPc \in {"loop", "request", "fill", "put"} => decoding
    <3> SUFFICES ASSUME ffPc \in {"loop", "request", "fill", "put"} PROVE decoding
      OBVIOUS
    <3>1. mainPc \notin BeforeFeeder /\ mainPc \notin AfterDecoder
      BY DEF IInv, FeederStands
    <3> QED BY <3>1 DEF IInv, FeederStands, BeforeFeeder
  <2> QED BY <2>1, <2>2 DEF FeederMeetsDecoder
<1> QED BY <1>1, SpecIInv, PTL

(* An alarm never draws into a buffer that is not there, and ends the      *)
(* program only between the two calls that take back the handler and       *)
(* disarm the timer (logo.c:120-160).                                      *)
THEOREM AlarmsAreAlwaysHandled == Spec => []AlarmsAreHandled
<1>1. IInv => AlarmsAreHandled
  BY DEF IInv, LogoStands, AlarmsAreHandled
<1> QED BY <1>1, SpecIInv, PTL

(* Every link that exists finds the one before it and is named by it,      *)
(* codecs run on the whole chain only, and no link is left behind          *)
(* (chain_dec_dis.c:137-440, dm8168.c:108-143).                            *)
THEOREM CodecsAlwaysHaveTheirChain == Spec => []CodecsHaveTheirChain
<1>1. IInv => CodecsHaveTheirChain
  <2> SUFFICES ASSUME IInv PROVE CodecsHaveTheirChain
    OBVIOUS
  <2>1. LinksAgree
    <3>1. links = {} \/ \E m \in 0..17 : links = Created(m)
      BY DEF IInv, ChainStands
    <3>2. links = {} => LinksAgree
      BY DEF LinksAgree
    <3> QED BY <3>1, <3>2, CreatedAgree
  <2> QED BY <2>1 DEF IInv, ChainStands, CodecsHaveTheirChain
<1> QED BY <1>1, SpecIInv, PTL

(* The saver never waits for a signal that does not come, no callback      *)
(* meets a missing semaphore, and unless a write failed the files hold the *)
(* frames of their channels in order (bits_saver.c:15-60, 70-85).          *)
THEOREM FilesNeverHaveAGap == Spec => []FilesHaveNoGap
<1>1. IInv => FilesHaveNoGap
  BY FilesAreRight DEF IInv
<1> QED BY <1>1, SpecIInv, PTL

(* Every channel is fed whole frames, in the order of the header file and  *)
(* then again from the first, for any files that hold at least one frame,  *)
(* and however many buffers are lent at a time (file_feeder.c:36-45).      *)
THEOREM FeedIsAlwaysCyclic == Spec => FeedIsCyclic
<1>1. Init => CycleInv
  BY CycleStarts DEF Init
<1>2. IInv /\ CycleInv /\ [Next]_vars => CycleInv' /\ CycleStep
  BY FeederStep, CycleSteps DEF IInv
<1>3. CycleStep => [CycleStep]_feederVars
  OBVIOUS
<1> QED BY <1>1, <1>2, <1>3, SpecIInv, PTL DEF Spec, FeedIsCyclic, CycleStep
=============================================================================
