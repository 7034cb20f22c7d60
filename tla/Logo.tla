-------------------------------- MODULE Logo --------------------------------
(* The on-screen text of dm8168/logo.c: three window buffers, and a timer  *)
(* whose SIGALRM handler redraws the clock.  The signal interrupts the     *)
(* thread that runs dm8168_transcode, so a handler's run is one action.    *)
EXTENDS Integers

VARIABLES
    buffers,   \* the window buffers are allocated
    sigalrm,   \* what SIGALRM does: "default" (kill) or "updateTime"
    timer,     \* the interval timer is armed
    strayDraw, \* updateTime drew into a buffer that is not there
    killed     \* SIGALRM ended the process

logoVars == <<buffers, sigalrm, timer, strayDraw, killed>>

LogoInit == /\ buffers = FALSE /\ sigalrm = "default" /\ timer = FALSE
            /\ strayDraw = FALSE /\ killed = FALSE

AllocateBuffers == buffers' = TRUE /\ UNCHANGED <<sigalrm, timer, strayDraw, killed>>

(* Logo_add, for every channel: set the handler, then arm the timer.       *)
SetHandler == sigalrm' = "updateTime" /\ UNCHANGED <<buffers, timer, strayDraw, killed>>
ArmTimer == timer' = TRUE /\ UNCHANGED <<buffers, sigalrm, strayDraw, killed>>

(* Logo_deInit: take back the handler, disarm the timer, free the buffers. *)
ResetHandler == sigalrm' = "default" /\ UNCHANGED <<buffers, timer, strayDraw, killed>>

(* Slip: the timer stays armed.                                            *)
LeaveTimer == UNCHANGED logoVars

DisarmTimer == timer' = FALSE /\ UNCHANGED <<buffers, sigalrm, strayDraw, killed>>
FreeBuffers == buffers' = FALSE /\ UNCHANGED <<sigalrm, timer, strayDraw, killed>>

(* A second has passed.                                                    *)
Alarm ==
    /\ timer
    /\ killed' = (sigalrm = "default")
    /\ strayDraw' = (strayDraw \/ (sigalrm = "updateTime" /\ ~buffers))
    /\ UNCHANGED <<buffers, sigalrm, timer>>

LogoTypeOK == /\ buffers \in BOOLEAN /\ sigalrm \in {"default", "updateTime"}
              /\ timer \in BOOLEAN /\ strayDraw \in BOOLEAN /\ killed \in BOOLEAN
=============================================================================
