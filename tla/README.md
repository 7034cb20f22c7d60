# Verification of dm8168_transcode

This directory models the host side of a TI DM8168 video transcoder (and the
one user-written link on its DSP): the parts that keep state, share it between
threads, callbacks and timers, or depend on the order of calls. The models are
written in TLA+ and model-checked with TLC on small instances; with TLAPS all of them
are also proved about, for every value of the constants. The code referred to is under
`src/src`.

Contents: 1 the system; 2 the modules; 3 each module and its code; 4 the runs;
5 bounds; 6 fairness; 7 proofs; 8 findings; 9 known limits of the code that no
run shows; 10 what is not modelled; 11 the plan.

## 1. The system and its parts

| part | code | state | operations | interacts with |
|---|---|---|---|---|
| start-up | `host/main.c` | none | log, input init, `tsInput_Test` | the log and the input |
| transport-stream input | `mpegts/tsInput.c` | per channel: flags, streams; per stream: buffer of packets, count, lock, eventfd | start, stop, read task, write/read packet, notify | main, the read task and the receiver share everything |
| event descriptors | `os/event/event.c` | an eventfd counter | create, read (blocks, clears), write | between the read task and the receiver |
| ring queue | `rtsp_receiver/queue.c` | ring, two indices, count, lock, two conditions | put, get, peek, count | under the buffer pool |
| frame buffer pool | `rtsp_receiver/buffer.c` | two queues of buffer ids | get/put empty/full, switch | RTSP sink (producer), consumers |
| RTSP frame sink | `rtsp_receiver/FrameSink.cpp` | the buffer in hand | afterGettingFrame, continuePlaying | event loop, pool |
| RTSP session | `rtsp_receiver/RtspReceiver.cpp` | per client: session, subsession, timer; the client count | handlers of DESCRIBE, SETUP, PLAY, end, BYE, timer; shutdown | live555 event loop, server |
| file feeder | `dm8168/file_feeder.c` | exit and quit flags, semaphore, two files per channel | create, start, stop, delete, feeding thread | decoder link's input buffers |
| bitstream saver | `dm8168/bits_saver.c` | semaphore, file per channel | create, callback, saving thread | encoder link's callback and lists |
| link chain | `dm8168/chain_dec_dis.c` | link ids and their connections | create, delete | links of the SDK |
| on-screen text | `dm8168/logo.c`, `demo_text.c` | text buffers, timer, signal handler | init, add, updateTime, deInit; glyph lookup and blit | SIGALRM, the SDK's OSD |
| transcoder | `dm8168/dm8168.c` | handles of feeder, saver, chain | `dm8168_transcode` from start to Ctrl-C and end | all of the above |
| DSP link | `src/src/dsp/app_link.c` | link state, two queues | create, parameters, NEW_DATA, delete; get full, put empty | messages of the SDK's links |
| lists | `os/list/list.c` | doubly linked list with a lock and a size | push/pop at both ends, clear | any thread |
| fonts | `dm8168/font/` | constant | none | the drawing reads them |
| log | `os/log/wv_log.c` | open levels, modules and outputs, shared line buffer, syslog | start, switch, clear, print | every thread, the syslog daemon |
| network configuration | `os/IPconfig/IPconfig.c`, `xil_io.c` | the registers of the network PHY, behind a serial bus | PHY_Init, SetEth, set address; PHY_TEST has no caller | hardware, a shell |
| CRC | `common/tools/tools.c` | none but what a caller passes on | CRC-32 of data in parts | |
| thread creation | `os/thread/thread.c` | none | create detached | the input |
| sockets, memory, mutexes, error texts | `os/...`, `common/err` | none of their own | one call each | |

The parts form four groups that hardly know of each other: the input with its
receiver (the only one `main.c` starts), the RTSP client with its buffer pool,
the transcoder, and the DSP link. The models follow that split.

What makes each part correct:

* input: no buffer overfilled, no freed packet handed out, every stored frame
  received, stop terminates and frees only what nobody uses;
* queue, pool: linearizable FIFO, no signal lost, every buffer id in one place,
  nobody writes what somebody reads;
* RTSP: clients counted right, no handler left for a freed client, every
  session torn down;
* transcoder: feeder and decoder agree on who owns a buffer and both files stay
  in step, saved files have no gap, alarms never meet a missing handler or a
  freed buffer, Ctrl-C ends the program with all links deleted;
* text: what is drawn is what was asked for, inside its window;
* list: an atomic bounded deque; DSP link: no frame lost, reordered or stuck;
* log: a line carries what its own call gave it, and goes where the switches say,
  whatever happens beside it; PHY: the right bits end up in the right registers, and
  the waits for the bus end; CRC: the parts give the remainder of the whole.

### What is hard here

* Flags without locks (`inputReadFlag`, `exitFlag`, `revExitFlag`), and a count
  read outside the lock and used inside it.
* Blocking reads with no timeout (`Event_Read`), one event for many frames.
* Bounded waits whose expiry races what they wait for.
* Shutdown: packets, locks and buffers released while another thread, a
  callback or a signal handler may still use them.
* Condition variables with several waiters and one signal per operation.
* Buffer ids that travel between two queues and several threads.
* Handlers of an event loop that free the object they run for.
* Semaphores that fold several signals into one.
* A static buffer and switches that every thread uses without a lock.
* Waits for hardware that run out, or never end.
* Threads that are not created, and nobody asks.

`PROJECT.json` lists each hazard at its line, with the properties that cover it
or the reason why none does.

## 2. The modules

| module | models | checked as | proofs |
|---|---|---|---|
| `FrameQueues` | abstract: per stream a bounded FIFO of frames that loses none until it is closed | | |
| `BoundedFifo` | abstract: a linearizable bounded FIFO with results | | |
| `BoundedDeque` | abstract: an atomic bounded deque with results | | |
| `TsInput` | `tsInput.c`, `event.c`, `main.c`: read task, receiver, main | `MCTsInput`, implements `FrameQueues` | `TsInputProofs` |
| `Que` | `queue.c` | `MCQue`, implements `BoundedFifo` | `RtspReceiverProofs` |
| `BufPool` | `buffer.c` over two `BoundedFifo`s, and `FrameSink.cpp` | `MCBufPool`, implements `FrameQueues` | `BufPoolProofs` |
| `RtspSession` | `RtspReceiver.cpp` | `MCRtspSession` | `RtspReceiverProofs` |
| `FileFeeder`, `BitsSaver`, `Logo`, `LinkChain` | `file_feeder.c`, `bits_saver.c`, the life of `logo.c`'s buffers and timer, `chain_dec_dis.c` | as parts of `Transcode` | `TranscodeProofs` |
| `Transcode` | `dm8168.c`, composed of the four above | `MCTranscode` | `TranscodeProofs` |
| `DemoText` | `demo_text.c`, pure | as part of `Osd` | `OsdProofs` |
| `Osd` | what `logo.c` draws, with the alarm in between | `MCOsd` | `OsdProofs` |
| `Fonts` | the four files of `dm8168/font` | with `MCOsd` | |
| `List` | `list.c` | in `MCServices`, implements `BoundedDeque` | `ServicesProofs` |
| `Log` | `wv_log.c` | in `MCServices` | `ServicesProofs` |
| `Phy` | `IPconfig.c`'s set-up of the PHY | in `MCServices` | `ServicesProofs` |
| `Crc` | `tools.c`'s CRC-32 | in `MCServices` | `ServicesProofs` |
| `Services` | the four above, one of them in each behaviour | `MCServices` | `ServicesProofs` |
| `AppLink` | `app_link.c` with its neighbours | `MCAppLink` | `AppLinkProofs` |
| `Induction` | nothing: least elements and recursive functions, for the proofs | | itself |

An `MC...` module only gives constants their values. A definition whose comment
begins *Slip* is not part of a model: it is a wrong variant of the definition
that follows it, which the code could plausibly have had. `PROJECT.json`
("mutants") pairs every property with a slip that violates it, so that no
property holds for want of anything to catch.

A step is as large as the code lets other threads see it: one lock-protected
section, one blocking call, one read or write of a shared variable outside a
lock, one handler of an event loop.

## 3. Each module and its code

`PROJECT.json` ("map") gives the lines of every definition. In outline:

**`TsInput`.** Three processes with a program counter each. `rpc` is the read
task (`tsInput_ReadPktTask`: open, fill the stream table, loop over packets, test
the buffer, wait or drain, store under the lock, post the event), `vpc` the
receiver (`tsInput_RevFrame`: build the descriptor set, select, `Event_Read`,
take the first frame under the lock, copy, unreference), `mpc` main
(`tsInput_Test`, `tsInput_StopChannel`, the clearing of the buffers).
A packet is `<<stream, serial>>`; `frameBuf` keeps what lies beyond the count, and
`got` what was received. Reading `numFrames` before the lock (`tsInput.c:590`),
resetting it after the lock (`:375`), each flag, and each field of the stream table that the
receiver reads while it is filled (`:213-232`) are steps of their own. The receiver's
uninitialised `tv_usec` is a choice made when it starts: `select` accepts it, or fails every
time. A thread may fail to be created (`Thread_NewDetach`), which the code does not look at.
External are the demuxer (which streams there are, when a packet or the end comes) and the
kernel (which descriptor numbers `eventfd` returns, given by the constant `Fd`).

**`Que`.** Each thread's call is: lock, test, perhaps wait on the condition
(release), be woken, lock again, test again, do it, signal one waiter, unlock. The
waiters are a set, a signal wakes any one of them; what a call returns is part of
the state, so that the refinement of `BoundedFifo` compares results too.

**`BufPool`.** The two queues of ids are `BoundedFifo` states, as `Que` is shown to
implement it; each pool call is one or two queue calls, the switches two with
other threads between them. The sink is `FrameSink`'s handler with its copy as a
step. What a buffer holds is the frame number written last. For `FrameQueues` the pool is
never closed, so a frame that was put in is never dropped again.

**`RtspSession`.** `scs[c]` is a client's `StreamClientState` and what the event
loop holds for it. An action is a whole handler up to its return to the event
loop. The server's answers, ends and BYEs come in any order live555 permits.

**`Transcode`.** `mainPc` walks through `dm8168_transcode`: feeder, chain, saver,
logo, start, sleep until the interrupt, logo off, chain stopped, feeder stopped and
deleted, chain deleted, return. The parts' actions are composed by interleaving; one
disjunct of `Next` is one part's step with the other parts unchanged. `LinkChain`
records which link of the board's pipeline exists and how it was joined to its
neighbours; `FileFeeder` the feeding thread with both files; `BitsSaver` the encoder
callback and the thread; `Logo` the alarm and the life of what its handler draws into.
Deleting the chain deletes the link that holds the encoder's full buffers (`DeleteQueue`):
what the saver has not taken by then is lost, and the saver, which nobody stops, finds
nothing any more. Frames it had taken before are assumed to stay readable.

**`Osd`, `DemoText`.** `DemoText` translates `Demo_text_draw`: which glyph, and where
each of its bytes goes. `Osd` keeps the bytes of the two text windows, which all
channels share, and draws the clock line by line, with the alarm's handler able to run
between any two lines. The two windows are separate memories, each large enough for its
text: what `demo_text.c:173` asks of the caller, and `logo.c` does not keep (finding 3). So
`TitleIsShown` and `ClockHeals` are about the drawing, given such memory. `Fonts` has of each font what the drawing goes by and how
large its bitmaps are; that each is a font as the drawing takes it for granted
(`IsFont`) is its assumption, which TLC evaluates.

**`List`.** A call is two steps: asking for room or data, and the change under a later
hold of the lock. `pre`, `next`, `front`, `rear` and `size` are the code's, with links
that go stale as they do there; nodes are memory cells that are allocated and freed.

**`Log`.** `Log_Printf` per thread: clear the static buffer, format into it character
by character, copy it behind level and module, test the level, test the module, read
the outputs, put out. The switches are sets of what is open. Main starts the log, sets
switches and clears the log file; the daemon may not start. `alone`, `opened` and
`closed` remember, for the properties, who touched the buffer during a call and which
switches were open or closed all through it.

**`Phy`.** The accesses of `SetEth` are a sequence, `Script`; an access is the wait before
it, for a write its data put on the bus, its start, the wait after it, and for a read what is
kept. The bus is external: it takes its time, and may get stuck. So are the PHY's reset and
the line, whose speed may change at any time. `overran` counts the times `SetEth` began an
access, or took what one read, although the bus was still busy. A register is the set of its
bits.

**`Crc`.** One step per bit; what a call returns is passed to the next. The reference is
the division of all the data by the polynomial.

**`AppLink`.** The link's task, its state and its two queues, between a previous
link that captures frames and a next one whose task takes and returns them. A frame
carries its serial number, which must grow, and whether it is gray.

## 4. The runs

| run | question | answer |
|---|---|---|
| `TsInput` | can any interleaving of the read task, the receiver and main, with a late video stream, overfill a buffer, hand out or touch a freed packet, block the receiver, or free what is in use? does the input implement bounded FIFOs? | no; yes |
| `TsInputLive` | is every stored frame of a watched stream received, also when several wait behind one event, and does stop end? | yes, if descriptors do not follow one another and `select` accepts the timeout |
| `TsInputNfds` | the same with consecutive descriptors | violated: finding 1 |
| `TsInputAudioOnly` | does stop end for a program without video? | violated: finding 2 |
| `Que` | is the ring consistent, is nobody left asleep, does every call answer as an atomic FIFO? | yes |
| `BufPool` | are buffer ids conserved, do puts never wait, is nobody reading what the sink writes, is the order kept, is a frame that found a buffer received? | yes |
| `RtspSession` | do clients, handlers, sessions and the count agree whatever order answers and ends come in? do timed streams end? | yes |
| `Transcode` | do the whole program's parts start, run and stop without using what is not there, or losing data that was not dropped on purpose? | yes |
| `Services` | is the list an atomic bounded deque for one adder and one remover? do lines and switches of the log keep apart while threads print and main switches? is the PHY set up right unless an access overruns the bus, what holds even then, and do the waits end? is a CRC in parts the CRC of the whole? | yes |
| `AppLink` | do frames go round without loss, in order, gray, and never get stuck? | yes |
| `Osd` | are title and clock drawn right, and does a clock spoilt by an alarm in the middle heal? | yes |
| `OsdText` | do the texts fit their memory? | violated: finding 3 |

What each property says, and of which code, is in the comment above it. The type
invariants are conjuncts of a component's first invariant, except in `TsInput`.
Some invariants are conjunctions of what belongs together: `IdsAreConserved` includes
that no put waits, `FramesAreConserved` that the next link is told, `FilesHaveNoGap`
that the saver is ready before it is signalled, `TitleIsShown` that nothing is drawn
beyond the window or from beyond the font, `LinksAgree` that no node is lost.
`ImplementsFrameQueues`, `ImplementsFifo`, `ImplementsDeque` are refinements:
the abstract module instantiated with a mapping of its variables, as a property.

Deadlock is checked in `Que` and `Osd`. The other systems may stop: an input ends
after its packets, a stream closes, the program exits.

## 5. Bounds, and why they are enough

* `TsInput`: `MaxFrames = 4` slots for the 40 of the code; the code compares with
  half, so four slots distinguish below half, half and above. Three packets fill a
  buffer beyond half. Three streams: one ignored, one audio, one video; the video
  stream that appears late is the code's only way to a buffer that was not set up.
  `StopTimeout = 2` polls for 100: the last poll and one before it.
  `AudioFactor = 1` multiplies the wait's budget for audio. `TsInputLive` has
  two streams, the same four slots and three packets, so that one event stands for two frames
  and the second depends on the repeated notification; the runs of the findings need one
  packet. The channel is started once, as the program does.
* `Que`: a ring of two with two threads on each side has waiters on both
  conditions, wrap-around and signals that meet a thread that was faster.
* `BufPool`: three buffers and four frames: every buffer is reused, and a frame
  can arrive while one buffer is read, one full, one in the sink's hand.
* `RtspSession`: two clients (the count differs from the exit condition), two
  subsessions (one may end or fail while the other is set up).
* `Transcode`: one channel, since channels share no state but the threads that
  loop over them; a header of three sizes, data that ends with or inside a frame;
  two buffers between feeder and decoder, two encoded buffers with lists of two.
* `Services`, one service per behaviour. `List`: three nodes of four, so that there are a first, a middle and a last, and
  a freed node may come back at once. `Log`: main and one thread, with lines of one and
  two characters in a buffer of three, one level and two modules: a line can be cut,
  mixed and overwritten; `MaxSwitches = 1` change of a switch or clearing, which may come
  between any two reads of one call. `Phy`: `Polls = 2` for the code's ten, the last one
  and one before it; at most `MaxOverruns = 1` overrun of an access that ends later,
  besides a bus that gets stuck at any access; registers that already hold a delay, both
  speeds and a bit that is nobody's business. `Crc`: up to `MaxCalls = 4` calls in a row
  with no byte, fewer than 32 bits, just 32 and more, and with the CRC of what came before.
* `AppLink`: three frames; three messages may wait for the task and three ids the
  next link may hold. `NumSerials` cycles the frame numbers.
* `Osd`: fonts of a few small glyphs in both formats, three channels with alarms
  between; `OsdText` has the real font's character list and widths, the real texts
  and the real buffer size. `Fonts` has the real fonts throughout.

## 6. Fairness

Weak fairness only, of the things that run by themselves: threads that are ready
(`TsInput`, `Transcode`, `AppLink`'s tasks), queue calls that can go on (`BufPool`;
its consumers return what they took, which is a demand on code outside the
repository), tasks of the event loop that are due (`RtspSession`), the interval timer
(`Osd`), callbacks and messages that are due (`Transcode`, `AppLink`), the program that
sets up the PHY, and an access on its bus, which ends or is stuck for ever (`Services`). Nothing is
assumed of the world: packets, answers, ends of streams, frames, alarms in
`Transcode` and the interrupt may come or not. All threads are created by
`pthread_create` with default scheduling, so none is starved.

`TsInput` has one assumption more, the constant `RevInTime`: the receiver thread
is scheduled once within the ten seconds main sleeps after creating it, so it has
set `revExitFlag` before main waits for it. The code relies on that.

## 7. Proofs

TLAPS proves every safety property and every refinement that a passing run checks, of the
specification the run checks and for every value of the constants the named assumptions
allow:

* `ConstantsAssumption` (in `TsInput`, `Que`, `BufPool`): numbers of slots, buffers,
  polls and places are positive, sets of threads finite, roles apart;
* `ClientsAssumption`, `MaxSubsAssumption` (`RtspSession`): finitely many clients;
* `ChannelsAssumption`, `FilesAssumption` (`Transcode`), `ListAssumption` (`BitsSaver`): at
  least one channel, files with at least one frame, encoder lists that hold its buffers;
* `PoolAssumption`, `BoundsAssumption` (`AppLink`): the queues are as long as there are
  frames, as the code's two constants make them;
* `ThreadsAssumption`, `MaxSizeAssumption`, `NullAssumption` (`List`): at most one thread
  that adds and one that removes (section 9);
* `AlignAssumption`, `OsdAssumption`, `PaddingAssumption`, `ClockAssumption` (`DemoText`,
  `Osd`): fonts as `IsFont` describes them, texts of at most the 256 characters that
  `Demo_text_draw` draws, an even number of padding pixels, which it asserts, and digits
  that are as wide as each other, so that the clock keeps its width;
* `LogAssumption`, `PhyAssumption`, `CrcAssumption`: lines that fit the static buffer, at
  least one poll, bytes.

`TsInputProofs`
* `TypeCorrect`: `Spec => []TypeOK`. `TypeInv` adds which step has a packet of a
  stored kind in hand, that the wait's budget is positive while waiting, and that
  loop indices are those of a stream: a store indexes the buffers by them.
* `BuffersStayHalfFull`: without a late audio stream no buffer is more than half full, so the unchecked store at
  `tsInput.c:716` stays inside `frameBuf`. The invariant `HalfInv` says what the
  writer knows at each step between its unlocked test and its store: the receiver
  may have taken frames since, but only the writer adds any.
* `ReceiverEndsFirst`, given `RevInTime`: nothing the receiver uses is released
  before it ended.
* `ReadTaskEndsFirst`: the same for the read task. `RunOnce` says that `exitFlag` is set by
  the read task alone, and that a stop releases nothing before it has seen it set; in a second
  use this would be false (section 9).
* `EventReadsReturn`: the receiver's `Event_Read` never blocks, although
  one event stands for many frames and stop posts every event once more. It has a
  hypothesis, `VideoApart`: there is a video stream, or stream 0 is no audio. Without it the
  statement is false, which is finding 2. `EventInv` follows an event from the select that
  reported it to the read: only the receiver clears it, and it asks for each stream once,
  because the video's index is no audio index.
* `PacketsStaySafe`, without late audio and given `RevInTime`: what a
  counted slot holds is a packet that was not freed, in the order of the input, and the
  receiver never takes from an empty buffer. `LiveInv` says of each buffer which of its
  slots are filled while the read task is between its test, its waiting for room and its
  store, and while main clears. The hypothesis is that of section 9: late audio is
  stored to another buffer than the one tested.
* `InputImplementsFrameQueues`, under the same hypotheses: each stream's buffer is the
  abstract queue of `FrameQueues`, step by step: a store pushes, a take pops, a stop
  that has seen the read task's end closes, its clearing flushes, and every other step
  stutters.

`RtspReceiverProofs`, of the queue, for any finite sets of threads, any values and a ring of
any length
* `RingStaysConsistent`: the indices, the count and the content agree. The lemmas are about
  the arithmetic of the wrapping indices: advancing one of them moves no other place.
* `NobodyIsForgotten`: although each put and get signals one waiter only, nobody sleeps
  while there is something to take, or room, that no woken thread is on the way to. The
  argument counts: the woken threads of a role are at least as many as the values (or
  places), unless nobody waits; a signal adds one of each, and a thread that finds its value
  taken by one that got the lock before it takes one of each.
* `QueImplementsFifo`: every step is one of `BoundedFifo`'s, with the same result, or a
  stutter; the abstract queue is read off the ring from its read index on.

`BufPoolProofs`, for any number of buffers, threads and frames
* `IdsStayConserved`: every id is in exactly one queue or thread's hands, and once.
  `HandInv` says what each thread has in hand at each step, also half way through a switch;
  `PlaceInv` says *at most* one place for each id by comparing places two by two, which each
  move keeps, and *at least* one. That a put then finds room is the pigeonhole principle:
  with one id in hand a queue of different ids is not full.
* `ReadersAreUndisturbed`: nobody writes to a buffer that a reader has.
* `PoolImplementsFrameQueues`: for each producer the pool is one bounded FIFO of frames
  that grow newer, although its buffers pass through two queues and many hands. `OrderInv` says
  that a filled buffer in hand is its producer's, and newer than all of the producer's frames in
  the queue and received. The abstract queues are never closed, so nothing may flush them: no
  step loses a frame that was put in. What one producer has in the queue is a filter of it (`By`), a
  recursive function; the lemmas about it (what appending and taking the head do to it)
  are proved with `Induction`.

`TranscodeProofs`, for any number of channels and buffers, and any files
* `FeederAlwaysMeetsDecoder`, `AlarmsAreAlwaysHandled`, `CodecsAlwaysHaveTheirChain`,
  `FilesNeverHaveAGap`: the run's four invariants. `FeederInv` says where the feeding thread
  can be for each value of the exit and quit flags and the semaphore, `SaverInv` the same
  for the saver, `FilesInv` that what is saved, what lies in the buffers and
  what was encoded join without a gap, up to the frames that were lost with the chain. The links that exist are a prefix of the order they are
  created in, so a deletion in reverse leaves a prefix. `IInv` ties them together: for each
  place of main in `dm8168_transcode`, which parts it has created, started and stopped.
* `FeedIsAlwaysCyclic`: `CycleInv` says that the place in the data file is the sum of the
  header's sizes up to the place in the header file, which keeps the two in step over any
  number of rewinds; that the sums exist and grow is by `Induction`.

`AppLinkProofs`, for any number of frames
* `FramesStayConserved`, `FramesArriveGrayInOrder`: the frames between capture and the next
  link carry consecutive serial numbers along the queues (`OrderInv`), each is in one place
  (`PlaceInv`, `CountInv`), and what the task has in hand fits its step (`TaskInv`).

`RtspReceiverProofs`, of the sessions, for every finite set of clients and any number of
subsessions
* `StreamsAreCounted`, `FreedClientsAreForgotten`, `SessionsAreTornDown`,
  `PlayersReceive`: the run's four invariants. None is inductive alone. The
  invariant `IInv` relates, per client, the subsessions set up, ended, and with a
  sink: a sink is there exactly for those set up and not ended, the subsession whose
  SETUP is pending was not set up before, and a client that set anything up still has
  a sink. The first is what makes the TEARDOWN test in `shutdownStream` (is there any
  sink?) the same as "the server still holds a session". Cardinality lemmas of the
  library tie `rtspClientCount` to the set of live clients.

`ServicesProofs`, of each service alone and then of the services together (a service among
the others behaves as it does alone, or stands still: `LogIsAService`, `ListIsAService`)

The log, for any threads, levels, modules, lengths of lines and number of changes:
* `SwitchesAreObeyed`: where a line is put out is decided by the switches, although
  they are read one after the other while main changes them. `SwitchInv` says two
  things of each call: what was open, or closed, all through it still is; and, per
  step, what the tests before it have shown of those switches. Main's changes only
  take from both sets, and what the tests have shown stays true of less.
  `LogAssumption` keeps the daemon apart from the levels and modules.
* `LinesBelongToTheirCalls`: a line carries its own level and module, and its own
  text if nobody else wrote to the static buffer meanwhile. `LineInv` adds that the
  buffer then holds exactly what the call has formatted so far, and that only main
  logs until it has opened the log. That the copy of such a buffer is the text
  (`TempTextIsText`) rests on lines that fit, with their NUL, which
  `LogAssumption` says: the code cuts a line that has no room behind its level and
  module, and writes one longer than the buffer past its end.

The list, for any nodes, values and size:
* `LinksAlwaysAgree`: the list is a chain of `size` different nodes, linked both ways from
  front to rear. `Chained` says there is such a sequence; each change is shown to give the
  next one, although links of removed nodes go stale. `CallInv` carries what a call has asked
  under its first hold of the lock over to its second: with one adder and one remover room
  stays room and data stay data.
* `ListImplementsDeque`: the abstract deque is the walk along the links; that the walk visits
  the chain in order is by `Induction`.

The PHY, for any number of polls, any registers and a line that changes at any time:
* `SettingsAreMadeBySetEth`: `Course` says which access each register was last written by,
  what the locals were read from, and what the bus carries for the access that is under way
  (`Cur`), as long as none has overrun (`Clean`). `AlwaysInv` is what no overrun disturbs:
  the bus only ever carries an access of the script, so the chip id is not written, and what
  is returned was decided by the speed that was read.

The CRC, for any data and calls:
* `CrcIsAlwaysRemainder`: the register is at each bit what the division has left of the
  dividend, with the bits of the data that have not come yet taken off (`Register`); so it does
  not depend on later data, and a call can go on from the last one's result. `OwnInv` says, while
  a section's own CRC comes in, that the bits to come are those the register still holds, so
  that 0 is left.

`OsdProofs`, for any fonts of both formats, any texts and any number of channels
* `TitleStaysShown`: after the first channel's title has been drawn, its window shows it to
  the pixel at every later step, also while it is drawn again line by line; and both texts
  are drawn from inside the font to inside their window. The proof goes up in four steps.
  A line's copied characters, joined, keep their places: character *j* begins at the sum of
  the widths before it (`JoinedProperties`, `CopiedType`), and the padding loops, which
  count pixels but write bytes, end where the line does (`PaddingType`). The lines of both
  planes follow each other without a gap and fill the window exactly (`LinesType`,
  `LinesFillWindow`), so that drawing one leaves the others alone (`DrawLineKeeps`). A
  memory in which all lines are drawn shows the text (`ShowsWhenDrawn`): from the place of a
  byte in the window follow its line, character and column, and the byte found there is the
  one that `Shows`, which knows nothing of copying, asks for. `IInv` says
  which lines of the title are drawn: all from the first channel on, and those before
  `line` while the first is drawn; what else lies in the buffers, half drawn or not, is
  padding or from inside the font, and inside the window. The texts of the clock are
  equally wide, so their windows are the same and an alarm stays inside.
* `AlarmsShowTime`: whatever step of the drawing an alarm interrupts, when its handler
  returns the clock's window shows one time.
* `ClockStaysRight`: a clock that shows a time is spoilt by nothing but `Logo_add`'s own
  drawing of it for a further channel. With `AlarmsShowTime` these are the steps that
  `ClockHeals` rests on; that an alarm does come after the last channel was added is
  fairness, and stays with TLC. All three are about windows of their own in memory that is
  large enough (section 3).

`Induction`: the library's induction theorems take an operator as a parameter, which the
provers do not instantiate. Its theorem about minimal elements of *sets* is enough: a
counterexample would have a least one (`LeastElement`), and the functions given by a
start and a rule exist (`Recursion`). So recursive functions can be reasoned about:
sums, joined parts, and memory after each line of a drawing.

Only model-checked is liveness (`FramesAreReceived`, `StopCompletes`,
`KeptFramesAreReceived`, `TimedStreamsEnd`, `QuitEndsProgram`, `EncodedIsSaved`,
`SetEthEnds`, `FramesReachNextLink`, `ClockHeals`): fairness is about ENABLED, which this
prover does not handle.

## 8. Findings

1. `TsInputNfds`: `maxFd` is one more than a descriptor only when that is greater
   than the `maxFd` before it (`tsInput.c:1021`). Of two consecutive eventfds the
   second is equal to `maxFd`, hence outside `select`, and the frames of its stream
   are never received although the read task notifies for each.
2. `TsInputAudioOnly`: without a video stream `u32VideoBufferIndex` is 0, perhaps the
   audio stream. The video read consumes its event, the audio read blocks in
   `Event_Read`, and main waits for the receiver for ever (`tsInput.c:1036`, `:1109`).
3. `OsdText`: `demo_text.c:173` asks the caller for memory enough for the font;
   `logo.c:63` gives a text window the size of the logo picture, 4608 bytes, and draws
   6272 into it.

## 9. Known limits of the code outside the runs

Met while reading; no run claims any of them right.

* `tsInput.c`: a second start finds `exitFlag` still set by the first stop
  (`:404`), so a stop would not wait, and the buffers be cleared under the read task; nothing in
  the program starts a channel twice, and neither does the model. `tv_usec` of `select`'s
  timeout is never set (`:997`, `:1026`): an invalid value makes every `select` fail and the
  receiver spin without receiving (modelled; `FramesAreReceived` is for a valid one). Whether
  start timed out is asked of the argument, not the result (`:967`, modelled, and
  harmless); an audio stream that appears late is stored to buffer 0 but its own
  filling is tested (`:682`); more than four audio streams, five streams or two
  programs exceed fixed arrays; packets that are neither video nor audio are not freed
  (`:299`); `av_read_frame` may block past any stop (`:262`).
* `bits_saver.c`: after a failed write the thread ends, and nobody drains the encoder or tells
  the program (`:35`, modelled; `EncodedIsSaved` is for writes that succeed);
  `bits_saver_delete` is never called; a file that does not open is
  reported, and written to all the same.
* `dm8168.c:137-146`: only pauses lie between the stop of the encoder and the deletion of the
  link with its full buffers, while the saver still runs: frames it has not taken are lost
  (modelled), and it may be inside the encoder's interface when that is taken down.
* `dm8168.c:50`: the number of channels is not compared with the arrays it sizes.
* `logo.c`: an alarm between taking back the handler and disarming the timer would
  end the program; `AlarmsAreHandled` says where that window is, and that outside it
  no alarm is fatal.
* `list.c`: room and emptiness are asked under an earlier hold of the lock, so two
  adders or two removers may both be told yes (`:402`); `List_GetBack` on an empty list
  returns 0, its value for success (`:435`).
* `RtspReceiver.cpp`: `RtspReceiver_main` is not called from `main.c`; `exit()` ends the
  whole process with the last stream (`:385`); every subsession, audio too, feeds the one
  ring buffer (`:248`); a server that never answers keeps its client for ever (`:284`).
* `FrameSink.cpp:59` copies what arrived without comparing it with the pool's buffer size.
* `app_link.c`: delete leaves frames in the queues (`:131`); `AppLink_deInit` deletes a
  queue before the task that uses it (`:244`).
* `tsInput.c:341`, `:1094`: nobody asks whether a thread was created; modelled, and main
  ends all the same.
* `wv_log.c`: lines are formatted in one static buffer (`:352`), so two threads that log at
  once mix their texts (`LinesAreOwn` promises the text only to a call nobody disturbed);
  `vsprintf` has no bound on the line (`:360`); nobody asks whether the daemon started
  (`:310`), and `s_isSyslogOpen` stays true when clearing the log has stopped it (`:431`).
* `IPconfig.c:93`: after ten polls of a busy MDIO bus the access goes on, and a read
  returns what the bus's data register held before; `SettingsAreMade` promises the settings
  to a set-up without such an overrun, and to any that the speed it saw decides what it
  returns and the chip id is not written. A failed mapping is reported, and the first access ends the program (`:143`).
* `tools.c:46`: a running CRC of 0 starts over; the comment above the function calls its
  third argument the polynomial.
* `list.c:180`: a failed allocation ends the program.

## 10. What is not modelled, and why

Memory and mutex wrappers: no state of their own; what is allocated and locked is
modelled where it is used. Sockets: one kernel call each, no caller. Thread policies and
priorities, `Common_GetSystemAnalysis` (system load from the text of a shell command), the
byte-order accesses of `xil_io.c`: no caller. `PHY_TEST` (`IPconfig.c:334`), with the PHY
accesses of `xil_io.c`: no caller, and nothing to check it against. It does not use
`SetEth`'s registers: its offsets index 32-bit words (`xil_io.c:330-347`) where
`xil_io.h:250-275` takes them for offsets from a base address, it waits without a bound for
a bit of one of them (`:415`), and what these registers are the repository does not say. `IPconfig_SetIP`, `IPconfig_GetFreeIP`: shell
commands and a constant. Error texts: a table. The values of the fonts' bytes: bitmaps.
DSP start: calls of the SDK. SDK parameters (channel maps,
mosaic layout, codec settings): constants handed to external code. `Que_delete`,
`Buf_delete`, `List_Destroy`, `AppLink_deInit`: no caller, or none that runs beside
another. In `TsInput`: `tsInput_NotifyChannelFlushEvent` and the packet-number queries (no caller), inputs
without a program or with more than one, the local copy of the input (never switched on).

Two thirds of the repository's lines are the bytes of the four fonts. Of the other 7600
about half are mapped; the rest are headers, comments, code that is switched off
(`#if 0`), wrappers and the functions without a caller named above.

## 11. The plan

Order, most important behaviour first; all but the last are done.

1. `FrameQueues`, `TsInput`: the only program `main.c` runs.
2. `TsInputProofs`: types, half-full, both shutdown orders, the events, the packets, and the
   implementation of `FrameQueues`.
3. `BoundedFifo`, `Que`. 4. `BufPool` over `BoundedFifo`.
5. `RtspSession`, `RtspReceiverProofs`.
6. `FileFeeder`, `BitsSaver`, `Logo`, `LinkChain`, composed in `Transcode`.
7. `BoundedDeque`, `List`. 8. `AppLink`. 9. `DemoText`, `Osd`.
10. `Log`, `Phy`, `Crc`, composed with `List` in `Services`; `Fonts`; threads that are not
    created in `TsInput`.
11. `Que` in `RtspReceiverProofs`, `BufPoolProofs`, `TranscodeProofs`, `AppLinkProofs`, `ServicesProofs`, and
    `Induction` for them.
12. `OsdProofs`, from lemmas about the recursive functions of `DemoText`.
13. Models: several adders on `List`; the pool's deletion; several channels in `Transcode`'s run.
