---------------------------- MODULE RtspSession ----------------------------
(* The RTSP client of rtsp_receiver/RtspReceiver.cpp: one stream for each  *)
(* RTSPClient, driven by response and event handlers that the live555      *)
(* event loop calls one at a time.  A handler is one action.               *)
(*                                                                         *)
(* External are the server (what it answers and when it ends a stream) and *)
(* live555: a command gets one answer, a BYE handler is called once, PLAY  *)
(* fails unless a SETUP succeeded, and closing a client drops its pending  *)
(* command.  RtspReceiver_main opens one stream; the handlers are written  *)
(* for several, so the streams are a parameter.                            *)
EXTENDS Integers, FiniteSets

CONSTANTS Clients,   \* the streams openURL is called for
          MaxSubs    \* bound: subsessions of a session description

ASSUME ClientsAssumption == IsFiniteSet(Clients)
ASSUME MaxSubsAssumption == MaxSubs \in Nat \ {0}

VARIABLES
    scs,              \* per client: its StreamClientState and what the event loop holds for it
    rtspClientCount,
    torn,             \* the clients that sent TEARDOWN
    exited            \* exit() was called

vars == <<scs, rtspClientCount, torn, exited>>

Subs == 1..MaxSubs

(* phase: the command whose answer is pending, or what the client is else. *)
(* numSubs: subsessions of scs.session, 0 when it is NULL; subsession: the *)
(* one scs.subsession points to.  sinks, bye: the subsessions with a sink, *)
(* with a BYE handler.  timed: scs.duration > 0; timer: streamTimerTask is *)
(* scheduled.  setUp, ended: what the server set up, and what it ended.    *)
NewState == [phase |-> "unopened", numSubs |-> 0, subsession |-> 0, sinks |-> {}, bye |-> {},
             timed |-> FALSE, timer |-> FALSE, setUp |-> {}, ended |-> {}]

Init == /\ scs = [c \in Clients |-> NewState]
        /\ rtspClientCount = 0
        /\ torn = {}
        /\ exited = FALSE

Phase(c) == scs[c].phase
Live(c) == Phase(c) \notin {"unopened", "closed"}

(* Every stream is opened before the event loop runs.                      *)
InEventLoop == ~exited /\ \A c \in Clients : Phase(c) # "unopened"

Update(c, s) == /\ scs' = [scs EXCEPT ![c] = s]
                /\ UNCHANGED <<rtspClientCount, torn, exited>>

(* Slip: the destructor leaves the timer scheduled.                        *)
DestroyedButTimer(s) == [s EXCEPT !.phase = "closed", !.sinks = {}, !.bye = {}]

(* Medium::close(rtspClient) runs ~StreamClientState, which closes the     *)
(* session with its BYE handlers and unschedules the timer.                *)
Destroyed(s) == [s EXCEPT !.phase = "closed", !.sinks = {}, !.bye = {}, !.timer = FALSE]

(* Slip: no TEARDOWN once one of the subsessions has ended.                *)
ShutdownSilently(c, s) ==
    /\ scs' = [scs EXCEPT ![c] = Destroyed(s)]
    /\ torn' = IF s.sinks # {} /\ s.ended = {} THEN torn \cup {c} ELSE torn
    /\ rtspClientCount' = rtspClientCount - 1
    /\ exited' = (rtspClientCount = 1)

(* Slip: the program goes on when its last stream has ended.               *)
ShutdownButExit(c, s) ==
    /\ scs' = [scs EXCEPT ![c] = Destroyed(s)]
    /\ torn' = IF s.sinks # {} THEN torn \cup {c} ELSE torn
    /\ rtspClientCount' = rtspClientCount - 1
    /\ exited' = (rtspClientCount = 0)

(* shutdownStream.                                                         *)
ShutdownStream(c, s) ==
    /\ scs' = [scs EXCEPT ![c] = Destroyed(s)]
    /\ torn' = IF s.sinks # {} THEN torn \cup {c} ELSE torn
    /\ rtspClientCount' = rtspClientCount - 1
    /\ exited' = (rtspClientCount = 1)

(* openURL.  DESCRIBE may fail before anything is sent, and then its       *)
(* handler runs at once.                                                   *)
OpenURL(c) ==
    /\ ~exited /\ Phase(c) = "unopened"
    /\ \/ /\ scs' = [scs EXCEPT ![c].phase = "DESCRIBE"]
          /\ rtspClientCount' = rtspClientCount + 1
          /\ UNCHANGED exited
       \/ /\ scs' = [scs EXCEPT ![c].phase = "closed"]
          /\ exited' = (rtspClientCount = 0)
          /\ UNCHANGED rtspClientCount
    /\ UNCHANGED torn

(* setupNextSubsession: SETUP of the next subsession that can be initiated *)
(* or, after the last one, PLAY.                                           *)
SetupNextSubsession(c, s) ==
    \E k \in (s.subsession + 1)..(s.numSubs + 1) :
       IF k <= s.numSubs
         THEN Update(c, [s EXCEPT !.phase = "SETUP", !.subsession = k])
         ELSE \E timed \in BOOLEAN :
                 Update(c, [s EXCEPT !.phase = "PLAY", !.subsession = k, !.timed = timed])

ContinueAfterDESCRIBE(c) ==
    /\ InEventLoop /\ Phase(c) = "DESCRIBE"
    /\ \/ ShutdownStream(c, scs[c])
       \/ \E n \in Subs : SetupNextSubsession(c, [scs[c] EXCEPT !.numSubs = n])

(* A failed SETUP is passed over; after a successful one the subsession    *)
(* gets a sink and, if it has RTCP, a BYE handler.                         *)
ContinueAfterSETUP(c) ==
    LET s == scs[c]
        k == s.subsession
    IN /\ InEventLoop /\ s.phase = "SETUP"
       /\ \/ SetupNextSubsession(c, s)
          \/ \E handlers \in {{}, {k}} :
                SetupNextSubsession(c, [s EXCEPT !.setUp = @ \cup {k}, !.sinks = @ \cup {k},
                                                 !.bye = @ \cup handlers])

(* Slip: the timer is set for the streams that have no duration.           *)
AfterPLAYUntimed(c) ==
    /\ InEventLoop /\ Phase(c) = "PLAY"
    /\ \/ ShutdownStream(c, scs[c])
       \/ /\ scs[c].setUp # {}
          /\ Update(c, [scs[c] EXCEPT !.phase = "playing", !.timer = ~scs[c].timed])

ContinueAfterPLAY(c) ==
    /\ InEventLoop /\ Phase(c) = "PLAY"
    /\ \/ ShutdownStream(c, scs[c])
       \/ /\ scs[c].setUp # {}
          /\ Update(c, [scs[c] EXCEPT !.phase = "playing", !.timer = scs[c].timed])

(* Slip: only a stream that plays is shut down with its last subsession.   *)
AfterPlayingKeeps(c, s, k) ==
    LET closed == [s EXCEPT !.sinks = @ \ {k}, !.ended = @ \cup {k}]
    IN IF closed.sinks # {} \/ s.phase # "playing" THEN Update(c, closed) ELSE ShutdownStream(c, closed)

(* subsessionAfterPlaying.                                                 *)
SubsessionAfterPlaying(c, s, k) ==
    LET closed == [s EXCEPT !.sinks = @ \ {k}, !.ended = @ \cup {k}]
    IN IF closed.sinks # {} THEN Update(c, closed) ELSE ShutdownStream(c, closed)

(* The subsession's source ends.                                           *)
SourceCloses(c, k) ==
    /\ InEventLoop /\ Live(c) /\ k \in scs[c].sinks
    /\ SubsessionAfterPlaying(c, scs[c], k)

(* subsessionByeHandler, also when the sink is closed already: its handler *)
(* is not taken back then.                                                 *)
SubsessionByeHandler(c, k) ==
    /\ InEventLoop /\ k \in scs[c].bye
    /\ SubsessionAfterPlaying(c, [scs[c] EXCEPT !.bye = @ \ {k}], k)

StreamTimerHandler(c) ==
    /\ InEventLoop /\ scs[c].timer
    /\ ShutdownStream(c, [scs[c] EXCEPT !.timer = FALSE])

Next == \E c \in Clients :
           \/ OpenURL(c)
           \/ ContinueAfterDESCRIBE(c) \/ ContinueAfterSETUP(c) \/ ContinueAfterPLAY(c)
           \/ \E k \in Subs : SourceCloses(c, k) \/ SubsessionByeHandler(c, k)
           \/ StreamTimerHandler(c)

(* The event loop runs a task whose time has come.                         *)
Fairness == \A c \in Clients : WF_vars(StreamTimerHandler(c))

Spec == Init /\ [][Next]_vars /\ Fairness

-----------------------------------------------------------------------------
(* Properties.                                                             *)

TypeOK ==
    /\ scs \in [Clients ->
          [phase : {"unopened", "DESCRIBE", "SETUP", "PLAY", "playing", "closed"},
           numSubs : 0..MaxSubs, subsession : 0..(MaxSubs + 1),
           sinks : SUBSET Subs, bye : SUBSET Subs, timed : BOOLEAN, timer : BOOLEAN,
           setUp : SUBSET Subs, ended : SUBSET Subs]]
    /\ rtspClientCount \in 0..Cardinality(Clients)
    /\ torn \subseteq Clients
    /\ exited \in BOOLEAN

(* rtspClientCount counts the streams in use, whichever of a failed        *)
(* command, an end, a BYE or the timer ended the others, so the program    *)
(* exits exactly when its last stream is gone (RtspReceiver.cpp:381).      *)
CountIsLiveStreams ==
    /\ TypeOK
    /\ rtspClientCount = Cardinality({c \in Clients : Live(c)})
    /\ exited <=> rtspClientCount = 0 /\ \E c \in Clients : Phase(c) = "closed"

(* Nothing the event loop may still call (a source's end, a BYE handler,   *)
(* the timer) refers to a client that was freed: not after a shutdown in   *)
(* the middle of the set-up, nor when BYE and timer follow each other.     *)
NoHandlerForFreedClient ==
    \A c \in Clients : ~Live(c) => scs[c].sinks = {} /\ scs[c].bye = {} /\ ~scs[c].timer

(* The server is told of every session it set up for a client that goes    *)
(* away before the server ended it, also of one only partly set up.        *)
NoAbandonedSession ==
    \A c \in Clients : Phase(c) = "closed" /\ scs[c].setUp \ scs[c].ended # {} => c \in torn

(* A client that plays, or is about to, still has a subsession to receive: *)
(* none stays in the event loop with nothing left that could end it.       *)
PlayingReceives ==
    \A c \in Clients :
       /\ Phase(c) = "playing" => scs[c].sinks # {}
       /\ Live(c) => scs[c].sinks = scs[c].setUp \ scs[c].ended

(* A stream with a known duration comes to an end although the server      *)
(* never says so.                                                          *)
TimedStreamsEnd ==
    \A c \in Clients : Phase(c) = "playing" /\ scs[c].timed ~> Phase(c) = "closed" \/ exited
=============================================================================
