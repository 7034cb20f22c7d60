-------------------------------- MODULE Phy --------------------------------
(* The set-up of the network PHY in os/IPconfig/IPconfig.c: PHY_Init, then *)
(* SetEth.  It reaches the PHY's registers through a serial bus: an access *)
(* is started in one register of the bus and takes its time; one flag says *)
(* whether it still does.  SetEth asks ten times and then goes on as if it *)
(* had ended.                                                              *)
(*                                                                         *)
(* A 16-bit register is the set of its bits that are one.  The chip id is  *)
(* read and only shown, so what its reads return is not kept.              *)
EXTENDS Integers, Sequences

CONSTANTS
    Polls,       \* how often mdio_read and mdio_write ask (10)
    MaxOverruns, \* bound: overruns of an access that ends later
    PowerOn      \* what the registers may hold before

ChipId == {<<0, 2>>, <<0, 3>>}
Control == <<0, 0>>      \* autonegotiation, reset
Status == <<0, 17>>      \* the speed of the line
Timing == <<0, 20>>      \* the clock delays
Speed == <<8, 16>>       \* the speed of the other side of the chip
Regs == ChipId \cup {Control, Status, Timing, Speed}

ASSUME PhyAssumption == /\ Polls \in Nat \ {0} /\ MaxOverruns \in Nat
                        /\ PowerOn \subseteq [Regs -> SUBSET (0..15)]

VARIABLES
    reg,                \* external: the PHY's registers
    busy, command,      \* external: an access is going on, and which
    mdioData,           \* external: the bus's data register
    stuck,              \* external: the access going on never ends
    overran,            \* how often SetEth began an access, or took what one
                        \* read, on a bus that was still busy
    first,              \* what the registers held before
    phyPc, step, count, \* control, the access, polls left
    PhyReg0, PhyReg8,   \* locals of SetEth
    line17,             \* what SetEth read of the line's speed
    ret                 \* what SetEth returned

bus == <<busy, command, mdioData, stuck>>
phyVars == <<reg, bus, overran, first, phyPc, step, count, PhyReg0, PhyReg8, line17, ret>>

Idle == [op |-> "none", at |-> Control]
Blank == [r \in Regs |-> {}]

PhyInit ==
    /\ reg = Blank /\ first = Blank
    /\ busy = FALSE /\ command = Idle /\ mdioData = {} /\ stuck = FALSE /\ overran = 0
    /\ phyPc = "map" /\ step = 1 /\ count = 0
    /\ PhyReg0 = {} /\ PhyReg8 = {} /\ line17 = {} /\ ret = "none"

-----------------------------------------------------------------------------
(* The accesses, in their order.                                           *)

Read(r) == [op |-> "read", at |-> r, set |-> {}]
Write(r, bits) == [op |-> "write", at |-> r, set |-> bits]
Delays == {1, 3, 4, 5, 6, 7}  \* 0xfa
Autonegotiate == {12}         \* 0x1000
Reset == {15}                 \* 0x8000

Script == <<Read(<<0, 2>>), Read(<<0, 3>>),
            Read(Timing), Write(Timing, Delays), Read(Timing),
            Read(Control), Write(Control, Autonegotiate),
            Read(Control), Write(Control, Reset),
            Read(Status), Read(Speed), Write(Speed, {}),
            Read(Control), Write(Control, Reset),
            Read(<<0, 2>>), Read(<<0, 3>>)>>

Access == Script[step]

(* The line's speed, and the bits of Speed that stand for it.              *)
LineSpeed(status) == status \cap {14, 15}
Gigabit == {15}
Megabit100 == {14}
SpeedBits(status) == IF LineSpeed(status) = Gigabit THEN {6} ELSE {13}
WithSpeed(value, status) == (value \ {6, 13}) \cup SpeedBits(status)

(* What a write puts on the bus.                                           *)
Value == IF Access.at = Speed THEN PhyReg8 ELSE PhyReg0 \cup Access.set

-----------------------------------------------------------------------------
(* The hardware.                                                           *)

Hardware(A) == A /\ UNCHANGED <<overran, first, phyPc, step, count, PhyReg0, PhyReg8, line17, ret>>

AccessEnds ==
    /\ busy /\ ~stuck /\ busy' = FALSE /\ UNCHANGED <<command, stuck>>
    /\ IF command.op = "write" THEN reg' = [reg EXCEPT ![command.at] = mdioData] /\ UNCHANGED mdioData
                               ELSE mdioData' = reg[command.at] /\ UNCHANGED reg

GetsStuck == busy /\ ~stuck /\ stuck' = TRUE /\ UNCHANGED <<reg, busy, command, mdioData>>

(* The reset that was asked for is over.                                   *)
ResetEnds == /\ Reset \subseteq reg[Control] /\ UNCHANGED bus
             /\ reg' = [reg EXCEPT ![Control] = @ \ Reset]

(* The line comes up, goes down or changes its speed.                      *)
LineChanges == /\ \E s \in SUBSET {14, 15} : reg' = [reg EXCEPT ![Status] = (@ \ {14, 15}) \cup s]
               /\ UNCHANGED bus

(* An access that is started while one goes on may be lost, or end it.     *)
Start ==
    /\ busy' = TRUE
    /\ command' \in {[op |-> Access.op, at |-> Access.at]} \cup (IF busy THEN {command} ELSE {})
    /\ UNCHANGED <<mdioData, stuck>>

-----------------------------------------------------------------------------
(* The program.                                                            *)

PhyAt(pc, next) == phyPc = pc /\ phyPc' = next
PollsLeft == count' = Polls

(* PHYReg_Map.  When it fails SetEth runs all the same, and its first      *)
(* access ends the program.                                                *)
MapRegisters ==
    /\ phyPc = "map"
    /\ \/ /\ phyPc' = "before" /\ PollsLeft
          /\ reg' \in PowerOn /\ first' = reg'
       \/ phyPc' = "killed" /\ UNCHANGED <<reg, first, count>>
    /\ UNCHANGED <<bus, overran, step, PhyReg0, PhyReg8, line17, ret>>

Waiting == phyPc \in {"before", "after"}

(* Slip: the polls are not counted.                                        *)
PollUncounted == /\ Waiting /\ busy /\ count > 0
                 /\ UNCHANGED phyVars
(* A poll of a busy bus, and the pause after it.                           *)
Poll == /\ Waiting /\ busy /\ count > 0
        /\ count' = count - 1
        /\ UNCHANGED <<reg, bus, overran, first, phyPc, step, PhyReg0, PhyReg8, line17, ret>>

(* Slip: the first poll ends the wait.                                     *)
WaitedOnce == TRUE
Waited == ~busy \/ count = 0

(* The polls are used up and the bus is busy all the same.                 *)
RunsOut == busy /\ count = 0
GoesOn == IF RunsOut THEN (stuck \/ overran < MaxOverruns) /\ overran' = overran + 1
                     ELSE UNCHANGED overran

(* mdio_write puts the data on the bus before it starts the access.        *)
PutData ==
    /\ PhyAt("before", "put") /\ Waited /\ Access.op = "write"
    /\ mdioData' = Value /\ GoesOn
    /\ UNCHANGED <<reg, busy, command, stuck, first, step, count, PhyReg0, PhyReg8, line17, ret>>

(* mdio_read and mdio_write start the access, and wait once more.          *)
StartAccess ==
    /\ \/ PhyAt("before", "after") /\ Waited /\ Access.op = "read" /\ GoesOn
       \/ PhyAt("put", "after") /\ UNCHANGED overran
    /\ Start /\ PollsLeft
    /\ UNCHANGED <<reg, first, step, PhyReg0, PhyReg8, line17, ret>>

(* What a read leaves in the locals.  For the speed it is changed at once  *)
(* into what will be written.                                              *)
Keep(data) ==
    CASE Access.at \in ChipId -> UNCHANGED <<PhyReg0, PhyReg8, line17>>
      [] Access.at = Status   -> PhyReg0' = data /\ line17' = data /\ UNCHANGED PhyReg8
      [] Access.at = Speed    -> PhyReg8' = WithSpeed(data, PhyReg0) /\ UNCHANGED <<PhyReg0, line17>>
      [] OTHER                -> PhyReg0' = data /\ UNCHANGED <<PhyReg8, line17>>

(* Neither speed: SetEth returns before anything is written for it.        *)
NoSpeed == Access = Read(Speed) /\ LineSpeed(PhyReg0) \notin {Gigabit, Megabit100}

GoOn(pc) == phyPc' = pc /\ step' = step + 1 /\ PollsLeft

(* A wait that runs out is not told from one that ended: a read takes what *)
(* the bus holds; a write does no harm if the next access waits long       *)
(* enough.                                                                 *)
AccessOver ==
    /\ phyPc = "after" /\ Waited
    /\ IF Access.op = "read" THEN Keep(mdioData) /\ GoesOn
                             ELSE UNCHANGED <<PhyReg0, PhyReg8, line17, overran>>
    /\ IF NoSpeed THEN phyPc' = "returned" /\ ret' = "FALSE" /\ UNCHANGED <<step, count>>
       ELSE IF step = Len(Script)
            THEN phyPc' = "returned" /\ ret' = "TRUE" /\ UNCHANGED <<step, count>>
            ELSE GoOn("before") /\ UNCHANGED ret
    /\ UNCHANGED <<reg, bus, first>>

Program == MapRegisters \/ Poll \/ PutData \/ StartAccess \/ AccessOver

PhyNext == Program \/ Hardware(AccessEnds) \/ Hardware(GetsStuck) \/ Hardware(ResetEnds) \/ Hardware(LineChanges)

-----------------------------------------------------------------------------
(* Properties.                                                             *)

PhyTypeOK ==
    /\ reg \in [Regs -> SUBSET (0..15)] /\ mdioData \subseteq 0..15
    /\ {busy, stuck} \subseteq BOOLEAN /\ overran \in Nat
    /\ phyPc \in {"map", "killed", "before", "put", "after", "returned"}
    /\ step \in 1..Len(Script) /\ count \in 0..Polls
    /\ PhyReg0 \subseteq 0..15 /\ PhyReg8 \subseteq 0..15
    /\ ret \in {"none", "TRUE", "FALSE"}

(* SetEth changes the bits it is about and no other, whatever the line     *)
(* does meanwhile: the delays and autonegotiation are on, and Speed says   *)
(* what the line said when it was asked, or what it said before if that    *)
(* was no speed.  Waits may run out, as long as no access is begun and no  *)
(* read is taken on a bus that is still busy (IPconfig.c:187-278).  Even   *)
(* after that, what SetEth returns tells whether it saw a speed, and no    *)
(* register is written but the three it is about.                          *)
SettingsAreMade ==
    /\ PhyTypeOK
    /\ overran = 0 /\ phyPc = "returned" =>
          /\ reg[Timing] = first[Timing] \cup Delays
          /\ reg[Control] \ Reset = (first[Control] \cup Autonegotiate) \ Reset
          /\ reg[Speed] = IF ret = "TRUE" THEN WithSpeed(first[Speed], line17) ELSE first[Speed]
    /\ phyPc = "returned" => (ret = "TRUE" <=> LineSpeed(line17) \in {Gigabit, Megabit100})
    /\ \A r \in ChipId : reg[r] = first[r]

(* SetEth returns although the bus may never be free (IPconfig.c:48-119).  *)
SetEthEnds == (phyPc = "before") ~> (ret # "none")
=============================================================================
