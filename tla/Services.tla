------------------------------ MODULE Services ------------------------------
(* The services of os/ and common/ that keep state: the list, the log, the *)
(* network set-up and the CRC.  They share none of it with each other, so  *)
(* a behaviour is about one of them, and the others stay as they are.      *)
EXTENDS List, Log, Phy, Crc

VARIABLE service    \* the one this behaviour is about

vars == <<listVars, logVars, phyVars, crcVars, service>>

Init == /\ ListInit /\ LogInit /\ PhyInit /\ CrcInit
        /\ service \in {"list", "log", "phy", "crc"}

Only(s) == service = s /\ UNCHANGED service
ByPhy(A) == Only("phy") /\ A /\ UNCHANGED <<listVars, logVars, crcVars>>

Next == \/ Only("list") /\ ListNext /\ UNCHANGED <<logVars, phyVars, crcVars>>
        \/ Only("log") /\ LogNext /\ UNCHANGED <<listVars, phyVars, crcVars>>
        \/ Only("crc") /\ CrcNext /\ UNCHANGED <<listVars, logVars, phyVars>>
        \/ ByPhy(PhyNext)

(* The thread that sets up the PHY runs.  An access ends or is stuck for    *)
(* ever, so the second conjunct asks nothing of the bus.                   *)
Fairness == /\ WF_vars(ByPhy(Program))
            /\ WF_vars(ByPhy(Hardware(AccessEnds) \/ Hardware(GetsStuck)))

Spec == Init /\ [][Next]_vars /\ Fairness
=============================================================================
