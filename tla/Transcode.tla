----------------------------- MODULE Transcode -----------------------------
(* dm8168_transcode: the program of dm8168/dm8168.c, which starts and      *)
(* stops the parts around the decoder and the encoder: the file feeder,    *)
(* the saver of encoded frames, the on-screen text and the chain of links. *)
(*                                                                         *)
(* mainPc is the next thing the function does.  Calls into the SDK that    *)
(* change none of this state are left out, and so are the pauses, which    *)
(* allow every interleaving they are there to avoid.                       *)
EXTENDS FileFeeder, BitsSaver, Logo, LinkChain

VARIABLES
    mainPc,
    g_quit,    \* SIGINT came
    decoding   \* the decoder is started, and not stopped

mainVars == <<mainPc, g_quit, decoding>>
vars == <<feederVars, saverVars, logoVars, links, mainVars>>

MainSteps == {"registerCallback", "createSemaphore", "createSaver", "logoInit", "createChain", "startEncoder",
              "startDecoder", "setHandler", "armTimer", "createFeeder", "startFeeder", "waitQuit",
              "resetHandler", "disarmTimer", "freeBuffers", "askFeeder", "waitFeeder", "stopDecoder",
              "stopEncoder", "deleteChain", "deleteFeeder", "done"}

Init == /\ FeederInit /\ SaverInit /\ LogoInit /\ ChainInit
        /\ mainPc = "registerCallback" /\ g_quit = FALSE /\ decoding = FALSE

From(step, next) == mainPc = step /\ mainPc' = next /\ UNCHANGED g_quit

(* One part takes a step, and the others do not.                           *)
ByFeeder(A) == A /\ UNCHANGED <<saverVars, logoVars, links, decoding>>
BySaver(A) == A /\ UNCHANGED <<feederVars, logoVars, links, decoding>>
ByLogo(A) == A /\ UNCHANGED <<feederVars, saverVars, links, decoding>>
ByChain(A) == A /\ UNCHANGED <<feederVars, saverVars, logoVars, decoding>>
SetDecoding(on) == decoding' = on /\ UNCHANGED <<feederVars, saverVars, logoVars, links>>

StartUp ==
    \/ From("registerCallback", "createSemaphore") /\ BySaver(RegisterCallback)
    \/ From("createSemaphore", "createSaver") /\ BySaver(CreateSemaphore)
    \/ From("createSaver", "logoInit") /\ BySaver(CreateSaverThread)
    \/ From("logoInit", "createChain") /\ ByLogo(AllocateBuffers)
    \/ /\ Cardinality(links) < Len(CreateOrder)
       /\ From("createChain", "createChain") /\ ByChain(CreateLink(Cardinality(links) + 1))
    \/ /\ Cardinality(links) = Len(CreateOrder)
       /\ From("createChain", "startEncoder") /\ ByChain(UNCHANGED links)
    \/ From("startEncoder", "startDecoder") /\ BySaver(SetEncoding(TRUE))
    \/ From("startDecoder", "setHandler") /\ SetDecoding(TRUE)
    \/ From("setHandler", "armTimer") /\ ByLogo(SetHandler)
    \/ From("armTimer", "createFeeder") /\ ByLogo(ArmTimer)
    \/ From("createFeeder", "startFeeder") /\ ByFeeder(CreateFeeder)
    \/ From("startFeeder", "waitQuit") /\ ByFeeder(StartFeeder)

ShutDown ==
    \/ From("waitQuit", "resetHandler") /\ g_quit /\ UNCHANGED <<feederVars, saverVars, logoVars, links, decoding>>
    \/ From("resetHandler", "disarmTimer") /\ ByLogo(ResetHandler)
    \/ From("disarmTimer", "freeBuffers") /\ ByLogo(DisarmTimer)
    \/ From("freeBuffers", "askFeeder") /\ ByLogo(FreeBuffers)
    \/ From("askFeeder", "waitFeeder") /\ ByFeeder(AskFeederToQuit)
    \/ From("waitFeeder", "stopDecoder") /\ FeederHasQuit /\ ByFeeder(UNCHANGED feederVars)
    \/ From("stopDecoder", "stopEncoder") /\ SetDecoding(FALSE)
    \/ From("stopEncoder", "deleteChain") /\ BySaver(SetEncoding(FALSE))
    \/ /\ From("deleteChain", "deleteFeeder") /\ DeleteChain /\ DeleteQueue
       /\ UNCHANGED <<feederVars, logoVars, decoding>>
    \/ From("deleteFeeder", "done") /\ UNCHANGED <<feederVars, saverVars, logoVars, links, decoding>>

Main == StartUp \/ ShutDown

(* sig_handle.                                                             *)
Interrupt == g_quit' = TRUE /\ UNCHANGED <<feederVars, saverVars, logoVars, links, mainPc, decoding>>

Idle == UNCHANGED <<mainPc, g_quit>>
Feeding == Idle /\ ByFeeder(FeederThread)
Decoder == Idle /\ decoding /\ \E ch \in Channels : ByFeeder(DecoderReturns(ch))
Saving == Idle /\ BySaver(SaverThread)
Failing == Idle /\ BySaver(WriteFails)
Encoding == Idle /\ BySaver(Encoder)
Ringing == Idle /\ ByLogo(Alarm)

Next == ~killed /\ (Main \/ Interrupt \/ Feeding \/ Decoder \/ Saving \/ Failing \/ Encoding \/ Ringing)

(* The threads run, and a due callback is made.                            *)
Fairness == /\ WF_vars(~killed /\ Main) /\ WF_vars(~killed /\ Feeding) /\ WF_vars(~killed /\ Saving)
            /\ WF_vars(~killed /\ Idle /\ BySaver(SignalNewData))

Spec == Init /\ [][Next]_vars /\ Fairness

-----------------------------------------------------------------------------
(* Properties.                                                             *)

TypeOK == /\ FeederTypeOK /\ SaverTypeOK /\ LogoTypeOK /\ ChainTypeOK
          /\ mainPc \in MainSteps /\ g_quit \in BOOLEAN /\ decoding \in BOOLEAN

(* The feeder asks for, fills and puts buffers only while the decoder      *)
(* runs: it starts after the decoder and has left its loop, whatever it    *)
(* was doing, before Vdec_stop (dm8168.c:120-131).                         *)
FeederMeetsDecoder == TypeOK /\ (ffPc \in {"loop", "request", "fill", "put"} => decoding)

(* The clock is drawn into its buffer or not at all, and an alarm can end  *)
(* the program only between the two calls of Logo_deInit that take back    *)
(* the handler and disarm the timer (logo.c:155-160).                      *)
AlarmsAreHandled == ~strayDraw /\ (killed => mainPc = "disarmTimer")

(* Codecs run only on the whole chain, and none of its links outlives the  *)
(* program (dm8168.c:108-114, 131-143).                                    *)
CodecsHaveTheirChain ==
    /\ LinksAgree
    /\ decoding \/ encoding => links = AllLinks
    /\ mainPc \in {"deleteFeeder", "done"} => links = {}

(* After Ctrl-C, whenever it comes, the program comes to its end, or an    *)
(* alarm ends it.                                                          *)
QuitEndsProgram == g_quit ~> mainPc = "done" \/ killed

(* What is encoded is written, if no write fails, for as long as there is  *)
(* a chain: signals fold into one (bits_saver.c:21-26), but no frame is    *)
(* left behind for a signal that never comes.  What the encoder still      *)
(* holds when the chain is deleted is lost: after Venc_stop only a pause   *)
(* (dm8168.c:137-143) gives the saver the time to take it.                 *)
ChainIsDeleted == mainPc \in {"deleteFeeder", "done"}
EncodedIsSaved ==
    \A ch \in SavedChannels, n \in 1..MaxEncoded :
       encoded[ch] = n ~> Len(saved[ch]) >= n \/ svQuit \/ killed \/ ChainIsDeleted
=============================================================================
