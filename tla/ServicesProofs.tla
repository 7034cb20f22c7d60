--------------------------- MODULE ServicesProofs ---------------------------
(***************************************************************************)
(* Proofs about the services: first of each alone, the log, the list, the  *)
(* set-up of the PHY and the CRC, and at the end that what is proved of a  *)
(* service alone holds of it among the others.                             *)
(***************************************************************************)
EXTENDS Services, Induction, FiniteSetTheorems, SequenceTheorems

-----------------------------------------------------------------------------
(* THE LOG, for any threads, levels and modules, lines of any length and   *)
(* any number of changes of the switches.                                  *)

Places == Outputs \cup {"notice", "notOpen"}
AllGates == Levels \cup Modules \cup Outputs \cup {"syslogd"}
Locations == {"none", "format", "compose", "level", "module", "output", "syslog", "done"}

SwitchTypes ==
    /\ s_stLogCtrl \subseteq Levels \cup Modules \cup Outputs
    /\ s_isSyslogOpen \in BOOLEAN /\ syslogd \in BOOLEAN
    /\ lpc \in [Printers -> Locations]
    /\ asked \in [Printers -> [level : Levels \cup {"none"}, module : Modules \cup {"none"}]]
    /\ shown \in [Printers -> SUBSET Places]
    /\ opened \in [Printers -> SUBSET AllGates]
    /\ closed \in [Printers -> SUBSET AllGates]

(* What was open, or closed, all through a call still is.                  *)
Observed(t) == lpc[t] # "none" => opened[t] \subseteq Gates /\ closed[t] \cap Gates = {}

(* Where a line may go that passed the tests so far: nowhere if a switch   *)
(* was closed all the time, and everywhere that was open all the time.     *)
GatesTo(ask, o) == {ask.level, ask.module, o} \cup (IF o = "syslog" THEN {"syslogd"} ELSE {})
Decided(ask, shows, opens, closes, o) ==
    /\ GatesTo(ask, o) \subseteq opens => o \in shows
    /\ o \in shows => GatesTo(ask, o) \cap closes = {}

(* What the tests before each step of Log_Printf have shown.               *)
Tested(place, ask, shows, opens, closes) ==
    /\ place \in {"none", "format", "compose"} => shows = {}
    /\ place \in {"level", "module", "output"} => shows \subseteq {"notice"}
    /\ place \in {"module", "output", "syslog"} => ask.level \notin closes
    /\ place \in {"output", "syslog"} => ask.module \notin closes
    /\ place = "syslog" => /\ shows \subseteq {"notice", "console"} /\ "syslog" \notin closes
                          /\ Decided(ask, shows, opens, closes, "console")
    /\ place = "done" => \A o \in Outputs : Decided(ask, shows, opens, closes, o)

TestedCall(t) == Tested(lpc[t], asked[t], shown[t], opened[t], closed[t])

SwitchInv == SwitchTypes /\ \A t \in Printers : Observed(t) /\ TestedCall(t)

LEMMA SwitchInvImplies == SwitchInv => SwitchesDecide
BY DEF SwitchInv, TestedCall, Tested, Decided, GatesTo, SwitchesDecide

LEMMA SwitchInvInit == LogInit => SwitchInv
<1> SUFFICES ASSUME LogInit PROVE SwitchInv
  OBVIOUS
<1>1. SwitchTypes
  BY DEF LogInit, SwitchTypes, NotAsked, Places, AllGates, Locations, Outputs
<1>2. \A t \in Printers : Observed(t) /\ TestedCall(t)
  BY DEF LogInit, Observed, TestedCall, Tested
<1> QED BY <1>1, <1>2 DEF SwitchInv

-----------------------------------------------------------------------------
(* A step of one call leaves the other calls and the switches as they are. *)
LEMMA OneCallChanges ==
  ASSUME SwitchInv, NEW t \in Printers, UNCHANGED ctrlVars, SwitchTypes',
         \A u \in Printers \ {t} : /\ lpc'[u] = lpc[u] /\ asked'[u] = asked[u] /\ shown'[u] = shown[u]
                                   /\ opened'[u] = opened[u] /\ closed'[u] = closed[u],
         Observed(t)', TestedCall(t)'
  PROVE  SwitchInv'
<1>1. Gates' = Gates
  BY DEF ctrlVars, Gates
<1>2. \A u \in Printers \ {t} : Observed(u)' /\ TestedCall(u)'
  BY <1>1 DEF SwitchInv, Observed, TestedCall
<1> QED BY <1>2 DEF SwitchInv

LEMMA StartPrintfKeeps ==
  ASSUME SwitchInv, UNCHANGED ctrlVars, NEW t \in Printers,
         NEW l \in Levels, NEW m \in Modules, StartPrintf(t, l, m)
  PROVE  SwitchInv'
<1>1. GatesOf(l, m) \subseteq AllGates
  BY DEF GatesOf, AllGates
<1>2. SwitchTypes'
  BY <1>1, SMTT(30) DEF StartPrintf, SwitchInv, SwitchTypes, LogGoto, ctrlVars, Locations
<1>3. Gates' = Gates
  BY DEF ctrlVars, Gates
<1>4. Observed(t)' /\ TestedCall(t)'
  BY <1>3 DEF StartPrintf, SwitchInv, SwitchTypes, LogGoto, Observed, TestedCall, Tested
<1> QED BY <1>2, <1>4, OneCallChanges DEF StartPrintf, SwitchInv, SwitchTypes, LogGoto

(* A level or module that was open all the time, or closed, is read as     *)
(* that: no level or module is the daemon.                                 *)
LEMMA SwitchIsRead ==
  ASSUME SwitchInv, NEW t \in Printers, lpc[t] # "none",
         NEW s \in Levels \cup Modules \cup Outputs \cup {"none"}
  PROVE  /\ s \in s_stLogCtrl => s \notin closed[t]
         /\ s \notin s_stLogCtrl => s \notin opened[t]
<1>1. s # "syslogd"
  BY LogAssumption DEF Outputs
<1>2. s \in Gates <=> s \in s_stLogCtrl
  BY <1>1 DEF Gates
<1> QED BY <1>2 DEF SwitchInv, Observed

(* The same for the daemon.                                                *)
LEMMA DaemonIsSeen ==
  ASSUME SwitchInv, NEW t \in Printers, lpc[t] # "none"
  PROVE  /\ s_isSyslogOpen /\ syslogd => "syslogd" \notin closed[t]
         /\ ~(s_isSyslogOpen /\ syslogd) => "syslogd" \notin opened[t]
<1>1. "syslogd" \notin s_stLogCtrl
  BY LogAssumption DEF SwitchInv, SwitchTypes, Outputs
<1>2. "syslogd" \in Gates <=> s_isSyslogOpen /\ syslogd
  BY <1>1 DEF Gates, SwitchInv, SwitchTypes
<1> QED BY <1>2 DEF SwitchInv, Observed

LEMMA PrintfStepsKeep ==
  ASSUME SwitchInv, UNCHANGED ctrlVars, NEW t \in Printers, PrintfSteps(t)
  PROVE  SwitchInv'
<1> USE DEF SwitchInv, SwitchTypes, LogGoto
<1>g. Gates' = Gates
  BY DEF ctrlVars, Gates
<1>a. asked[t].level \in Levels \cup {"none"} /\ asked[t].module \in Modules \cup {"none"}
  OBVIOUS
<1>1. CASE Format(t)
  <2>1. SwitchTypes'
    BY <1>1 DEF Format, ctrlVars, Locations
  <2>2. Observed(t)' /\ TestedCall(t)'
    BY <1>1, <1>g DEF Format, Observed, TestedCall, Tested
  <2> QED BY <1>1, <2>1, <2>2, OneCallChanges DEF Format
<1>2. CASE Compose(t)
  <2>1. SwitchTypes'
    BY <1>2 DEF Compose, ctrlVars, Locations, Places
  <2>2. Observed(t)' /\ TestedCall(t)'
    BY <1>2, <1>g DEF Compose, Observed, TestedCall, Tested
  <2> QED BY <1>2, <2>1, <2>2, OneCallChanges DEF Compose
<1>3. CASE TestLevel(t)
  <2>1. SwitchTypes'
    BY <1>3 DEF TestLevel, ctrlVars, Locations
  <2>2. IF asked[t].level \in s_stLogCtrl THEN asked[t].level \notin closed[t]
                                          ELSE asked[t].level \notin opened[t]
    BY <1>3, <1>a, SwitchIsRead DEF TestLevel
  <2>3. shown[t] \subseteq {"notice"} /\ shown[t] \cap Outputs = {}
    BY <1>3 DEF TestLevel, TestedCall, Tested, Outputs
  <2>4. Observed(t)' /\ TestedCall(t)'
    BY <1>3, <1>g, <2>2, <2>3 DEF TestLevel, Observed, TestedCall, Tested, Decided, GatesTo
  <2> QED BY <1>3, <2>1, <2>4, OneCallChanges DEF TestLevel
<1>4. CASE TestModule(t)
  <2>1. SwitchTypes'
    BY <1>4 DEF TestModule, ctrlVars, Locations
  <2>2. IF asked[t].module \in s_stLogCtrl THEN asked[t].module \notin closed[t]
                                           ELSE asked[t].module \notin opened[t]
    BY <1>4, <1>a, SwitchIsRead DEF TestModule
  <2>3. shown[t] \subseteq {"notice"} /\ shown[t] \cap Outputs = {} /\ asked[t].level \notin closed[t]
    BY <1>4 DEF TestModule, TestedCall, Tested, Outputs
  <2>4. Observed(t)' /\ TestedCall(t)'
    BY <1>4, <1>g, <2>2, <2>3 DEF TestModule, Observed, TestedCall, Tested, Decided, GatesTo
  <2> QED BY <1>4, <2>1, <2>4, OneCallChanges DEF TestModule
<1>5. CASE PutOut(t)
  <2>1. SwitchTypes'
    BY <1>5 DEF PutOut, Show, ctrlVars, Locations, Places, Outputs
  <2>2. \A o \in Outputs : IF o \in s_stLogCtrl THEN o \notin closed[t] ELSE o \notin opened[t]
    BY <1>5, SwitchIsRead DEF PutOut
  <2>3. /\ shown[t] \subseteq {"notice"}
        /\ asked[t].level \notin closed[t] /\ asked[t].module \notin closed[t]
    BY <1>5 DEF PutOut, TestedCall, Tested
  <2>4. Decided(asked[t], shown'[t], opened[t], closed[t], "console")
    BY <1>5, <2>2, <2>3 DEF PutOut, Show, Decided, GatesTo, Outputs
  <2>5. "syslog" \notin s_stLogCtrl => Decided(asked[t], shown'[t], opened[t], closed[t], "syslog")
    BY <1>5, <2>2, <2>3 DEF PutOut, Show, Decided, GatesTo, Outputs
  <2>6. Observed(t)' /\ TestedCall(t)'
    BY <1>5, <1>g, <2>2, <2>3, <2>4, <2>5 DEF PutOut, Show, Observed, TestedCall, Tested, Outputs
  <2> QED BY <1>5, <2>1, <2>6, OneCallChanges DEF PutOut, Show
<1>6. CASE PutToSyslog(t)
  <2>1. SwitchTypes'
    BY <1>6 DEF PutToSyslog, Show, ctrlVars, Locations, Places, Outputs
  <2>2. IF s_isSyslogOpen /\ syslogd THEN "syslogd" \notin closed[t] ELSE "syslogd" \notin opened[t]
    BY <1>6, DaemonIsSeen DEF PutToSyslog
  <2>3. /\ shown[t] \subseteq {"notice", "console"} /\ "syslog" \notin closed[t]
        /\ asked[t].level \notin closed[t] /\ asked[t].module \notin closed[t]
        /\ Decided(asked[t], shown[t], opened[t], closed[t], "console")
    BY <1>6 DEF PutToSyslog, TestedCall, Tested
  <2>4. Decided(asked[t], shown'[t], opened[t], closed[t], "console")
    BY <1>6, <2>3 DEF PutToSyslog, Show, Decided, GatesTo
  <2>5. Decided(asked[t], shown'[t], opened[t], closed[t], "syslog")
    BY <1>6, <2>2, <2>3 DEF PutToSyslog, Show, Decided, GatesTo
  <2>6. Observed(t)' /\ TestedCall(t)'
    BY <1>6, <1>g, <2>4, <2>5 DEF PutToSyslog, Show, Observed, TestedCall, Tested, Outputs
  <2> QED BY <1>6, <2>1, <2>6, OneCallChanges DEF PutToSyslog, Show
<1>7. CASE Return(t)
  <2>1. SwitchTypes'
    BY <1>7 DEF Return, ctrlVars, Locations, NotAsked
  <2>2. Observed(t)' /\ TestedCall(t)'
    BY <1>7 DEF Return, Observed, TestedCall, Tested
  <2> QED BY <1>7, <2>1, <2>2, OneCallChanges DEF Return
<1> QED BY <1>1, <1>2, <1>3, <1>4, <1>5, <1>6, <1>7 DEF PrintfSteps

-----------------------------------------------------------------------------
(* A change of the switches takes from what was open, or closed, all the   *)
(* time; what the tests have shown stays true of less.                     *)
LEMMA SetGatesKeeps ==
  ASSUME SwitchInv, NEW open \in SUBSET (Levels \cup Modules \cup Outputs),
         NEW isOpen \in BOOLEAN, NEW daemon \in BOOLEAN, SetGates(open, isOpen, daemon)
  PROVE  SwitchInv'
<1> DEFINE gates == open \cup (IF isOpen /\ daemon THEN {"syslogd"} ELSE {})
           logs(t) == lpc[t] # "none"
<1>1. /\ opened' = [t \in Printers |-> IF logs(t) THEN opened[t] \cap gates ELSE opened[t]]
      /\ closed' = [t \in Printers |-> IF logs(t) THEN closed[t] \ gates ELSE closed[t]]
      /\ Gates' = gates
  BY DEF SetGates, Gates
<1>2. /\ lpc' = lpc /\ asked' = asked /\ shown' = shown
      /\ s_stLogCtrl' = open /\ s_isSyslogOpen' = isOpen /\ syslogd' = daemon
  BY DEF SetGates, lineVars
<1>3. SwitchTypes'
  BY <1>1, <1>2 DEF SwitchInv, SwitchTypes
<1>4. ASSUME NEW t \in Printers PROVE Observed(t)' /\ TestedCall(t)'
  <2>1. opened'[t] \subseteq opened[t] /\ closed'[t] \subseteq closed[t]
    BY <1>1
  <2>2. Observed(t)'
    BY <1>1, <1>2 DEF Observed
  <2>3. \A o : Decided(asked[t], shown[t], opened[t], closed[t], o)
               => Decided(asked[t], shown[t], opened'[t], closed'[t], o)
    BY <2>1 DEF Decided
  <2>4. TestedCall(t)'
    BY <1>2, <2>1, <2>3 DEF SwitchInv, TestedCall, Tested
  <2> QED BY <2>2, <2>4
<1> QED BY <1>3, <1>4 DEF SwitchInv

LEMMA AdministerKeeps == SwitchInv /\ Administer => SwitchInv'
<1> SUFFICES ASSUME SwitchInv, Administer PROVE SwitchInv'
  OBVIOUS
<1> USE DEF SwitchInv, SwitchTypes
<1>1. CASE OpenSyslog
  BY <1>1, SetGatesKeeps DEF OpenSyslog
<1>2. CASE NoLogDir
  BY <1>2, StartPrintfKeeps, LogAssumption DEF NoLogDir
<1>3. CASE OpenAll
  BY <1>3, SetGatesKeeps DEF OpenAll
<1>4. CASE StopSyslogd
  BY <1>4, SetGatesKeeps DEF StopSyslogd
<1>5. CASE CannotClear
  BY <1>5, StartPrintfKeeps, LogAssumption DEF CannotClear
<1>6. CASE StartSyslogd
  BY <1>6, SetGatesKeeps DEF StartSyslogd
<1>7. ASSUME NEW s \in Levels \cup Modules \cup Outputs, SetSwitch(s) PROVE SwitchInv'
  <2>1. PICK open \in SUBSET (Levels \cup Modules \cup Outputs) : SetGates(open, s_isSyslogOpen, syslogd)
    BY <1>7 DEF SetSwitch
  <2> QED BY <2>1, SetGatesKeeps
<1> QED BY <1>1, <1>2, <1>3, <1>4, <1>5, <1>6, <1>7 DEF Administer

LEMMA SwitchInvStep == SwitchInv /\ [LogNext]_logVars => SwitchInv'
<1> SUFFICES ASSUME SwitchInv, [LogNext]_logVars PROVE SwitchInv'
  OBVIOUS
<1>1. CASE Logging
  BY <1>1, PrintfStepsKeep, StartPrintfKeeps DEF Logging, Logs
<1>2. CASE Administer
  BY <1>2, AdministerKeeps
<1>3. CASE UNCHANGED logVars
  BY <1>3 DEF logVars, ctrlVars, lineVars, SwitchInv, SwitchTypes, Observed, TestedCall, Gates
<1> QED BY <1>1, <1>2, <1>3 DEF LogNext

(* Where a line is put out is decided by the switches, however many        *)
(* threads log while main changes them: not where one was closed all the   *)
(* time of its call, and everywhere all were open (wv_log.c:372-393).      *)
THEOREM SwitchesAreObeyed == LogSpec => []SwitchesDecide
<1>1. SwitchInv => SwitchesDecide
  BY SwitchInvImplies
<1>2. LogInit => SwitchInv
  BY SwitchInvInit
<1>3. SwitchInv /\ [LogNext]_logVars => SwitchInv'
  BY SwitchInvStep
<1> QED BY <1>1, <1>2, <1>3, PTL DEF LogSpec

-----------------------------------------------------------------------------
(* The lines.                                                              *)

Chars == {NUL} \cup {Character(t, i) : t \in Printers, i \in 1..LineMax}

LineTypes ==
    /\ u8arrTempBuff \in [1..LineMax -> Chars]
    /\ at \in [Printers -> 1..LineMax]
    /\ line = [t \in Printers |-> line[t]]
    /\ alone \in [Printers -> BOOLEAN]
    /\ s_isLogInit \in BOOLEAN /\ logPc \in {"init", "openAll", "idle", "clear"}

(* The static buffer holds what a call has formatted so far.               *)
Written(t) == \A i \in 1..LineMax : u8arrTempBuff[i] = IF i < at[t] THEN Character(t, i) ELSE NUL

LineIsOwn(t) ==
    line[t] # NoLine => /\ line[t].level = asked[t].level /\ line[t].module = asked[t].module
                        /\ alone[t] => line[t].text = Text(t)

LineOf(t) ==
    /\ lpc[t] = "none" => at[t] = 1
    /\ lpc[t] = "format" => at[t] <= TextLen[t] + 1
    /\ lpc[t] = "compose" => at[t] = TextLen[t] + 1
    /\ Formatting(t) /\ alone[t] => Written(t)
    /\ lpc[t] \in {"none", "format", "compose"} => line[t] = NoLine
    /\ LineIsOwn(t)
    /\ "notice" \in shown[t] => t = Main /\ asked[t].module = "INIT"

(* Until main has opened the log nobody else logs.                         *)
StartsFirst == /\ logPc \in {"idle", "clear"} => s_isLogInit
               /\ ~s_isLogInit => \A t \in Printers \ {Main} : lpc[t] = "none"

LineInv == SwitchInv /\ LineTypes /\ StartsFirst /\ \A t \in Printers : LineOf(t)

LEMMA LineInvImplies == LineInv => LinesAreOwn
<1> SUFFICES ASSUME LineInv PROVE LinesAreOwn
  OBVIOUS
<1>1. LogTypeOK
  BY DEF LineInv, LineTypes, SwitchInv, SwitchTypes, Locations, LogTypeOK
<1> QED BY <1>1 DEF LineInv, LineOf, LineIsOwn, LinesAreOwn

LEMMA LengthsFit ==
  ASSUME NEW t \in Printers
  PROVE  LineMax \in Nat /\ TextLen[t] \in Nat /\ 1 <= TextLen[t] /\ TextLen[t] + 1 <= LineMax
BY LogAssumption

LEMMA CharacterIsNotNUL == \A t, i : Character(t, i) # NUL
BY DEF Character, NUL

LEMMA LineInvInit == LogInit => LineInv
<1> SUFFICES ASSUME LogInit PROVE LineInv
  OBVIOUS
<1>1. 1 \in 1..LineMax
  BY LengthsFit, LogAssumption
<1>2. LineTypes
  <2>1. u8arrTempBuff \in [1..LineMax -> Chars]
    BY DEF LogInit, Chars
  <2>2. at \in [Printers -> 1..LineMax] /\ alone \in [Printers -> BOOLEAN]
    BY <1>1 DEF LogInit
  <2>3. line = [t \in Printers |-> line[t]]
    BY DEF LogInit
  <2> QED BY <2>1, <2>2, <2>3 DEF LogInit, LineTypes
<1>3. StartsFirst /\ \A t \in Printers : LineOf(t)
  BY DEF LogInit, StartsFirst, LineOf, LineIsOwn, Formatting
<1> QED BY <1>2, <1>3, SwitchInvInit DEF LineInv

(* A step of one call that may write to the static buffer.                 *)
LEMMA OneLineChanges ==
  ASSUME LineInv, SwitchInv', LineTypes', StartsFirst', NEW t \in Printers,
         \A u \in Printers \ {t} : /\ lpc'[u] = lpc[u] /\ at'[u] = at[u] /\ line'[u] = line[u]
                                   /\ asked'[u] = asked[u] /\ shown'[u] = shown[u],
         Disturb(t) \/ UNCHANGED <<u8arrTempBuff, alone>>,
         LineOf(t)'
  PROVE  LineInv'
<1>1. ASSUME NEW u \in Printers \ {t} PROVE LineOf(u)'
  <2>1. LineOf(u)
    BY DEF LineInv
  <2>2. CASE Disturb(t)
    BY <2>1, <2>2 DEF Disturb, LineOf, LineIsOwn, Formatting
  <2>3. CASE UNCHANGED <<u8arrTempBuff, alone>>
    BY <2>1, <2>3 DEF LineOf, LineIsOwn, Formatting, Written
  <2> QED BY <2>2, <2>3
<1> QED BY <1>1 DEF LineInv

(* What the copy of an undisturbed buffer yields.                          *)
LEMMA TempTextIsText ==
  ASSUME LineTypes, NEW t \in Printers, Written(t), at[t] = TextLen[t] + 1
  PROVE  TempText = Text(t)
<1> DEFINE n == TextLen[t]
           IsEnd(i) == u8arrTempBuff[i] = NUL /\ \A k \in 1..(i - 1) : u8arrTempBuff[k] # NUL
           end == CHOOSE i \in 1..LineMax : IsEnd(i)
<1>1. n \in Nat /\ LineMax \in Nat /\ n + 1 \in 1..LineMax
  BY LengthsFit
<1>2. \A i \in 1..n : u8arrTempBuff[i] = Character(t, i) /\ u8arrTempBuff[i] # NUL
  BY <1>1, CharacterIsNotNUL DEF Written
<1>3. u8arrTempBuff[n + 1] = NUL
  BY <1>1 DEF Written
<1>4. IsEnd(n + 1)
  BY <1>1, <1>2, <1>3
<1>5. \A i \in 1..LineMax : IsEnd(i) => i = n + 1
  BY <1>1, <1>2, <1>3
<1>6. end \in 1..LineMax /\ IsEnd(end)
  BY <1>1, <1>4
<1>7. end - 1 = n
  BY <1>1, <1>5, <1>6
<1>8. u8arrTempBuff \in Seq(Chars) /\ Len(u8arrTempBuff) = LineMax
  BY <1>1 DEF LineTypes
<1>9. SubSeq(u8arrTempBuff, 1, n) = [i \in 1..n |-> u8arrTempBuff[i]]
  BY <1>1, <1>8
<1>10. TempText = SubSeq(u8arrTempBuff, 1, n)
  BY <1>7 DEF TempText
<1> QED BY <1>2, <1>9, <1>10 DEF Text

LEMMA StartPrintfKeepsLines ==
  ASSUME LineInv, SwitchInv', UNCHANGED ctrlVars, NEW t \in Printers,
         NEW l \in Levels, NEW m \in Modules, StartPrintf(t, l, m),
         logPc' \in {"openAll", "idle"}, logPc' = "idle" => s_isLogInit,
         s_isLogInit \/ t = Main
  PROVE  LineInv'
<1> USE DEF LineInv, SwitchInv, SwitchTypes, LogGoto
<1>1. LineTypes'
  <2>1. u8arrTempBuff' \in [1..LineMax -> Chars]
    BY DEF StartPrintf, Chars
  <2>2. alone' \in [Printers -> BOOLEAN]
    BY DEF StartPrintf, Disturb, LineTypes
  <2> QED BY <2>1, <2>2 DEF StartPrintf, LineTypes, ctrlVars
<1>2. StartsFirst'
  BY DEF StartPrintf, StartsFirst, ctrlVars
<1>3. LineOf(t)'
  <2>1. lpc'[t] = "format" /\ at'[t] = 1 /\ line'[t] = NoLine /\ shown'[t] = {}
    BY DEF StartPrintf, LineOf, TestedCall, Tested
  <2>2. Written(t)'
    BY <2>1 DEF StartPrintf, Written
  <2> QED BY <2>1, <2>2, LengthsFit DEF LineOf, LineIsOwn
<1> QED BY <1>1, <1>2, <1>3, OneLineChanges DEF StartPrintf

LEMMA LastIsNext ==
  ASSUME NEW max \in Nat, NEW n \in Nat, NEW a \in 1..max, a > n, a <= n + 1
  PROVE  a = n + 1
OBVIOUS

LEMMA PrintfStepsKeepLines ==
  ASSUME LineInv, SwitchInv', UNCHANGED <<ctrlVars, logPc>>, NEW t \in Printers, PrintfSteps(t)
  PROVE  LineInv'
<1> USE DEF LineInv, SwitchInv, SwitchTypes, LogGoto
<1>o. LineOf(t)
  OBVIOUS
<1>1. StartsFirst'
  <2>1. lpc[t] # "none" /\ \A u \in Printers \ {t} : lpc'[u] = lpc[u]
    BY DEF PrintfSteps, Format, Compose, TestLevel, TestModule, PutOut, PutToSyslog, Return
  <2> QED BY <2>1 DEF StartsFirst, ctrlVars
<1>2. CASE Format(t)
  <2> DEFINE ends == at[t] > TextLen[t]
  <2>1. /\ at[t] \in 1..LineMax /\ at[t] <= TextLen[t] + 1
        /\ TextLen[t] \in Nat /\ TextLen[t] + 1 <= LineMax /\ LineMax \in Nat
    BY <1>2, <1>o, LengthsFit DEF Format, LineOf, LineTypes
  <2>0. IF ends THEN at' = at /\ lpc' = [lpc EXCEPT ![t] = "compose"]
                ELSE at' = [at EXCEPT ![t] = at[t] + 1] /\ lpc' = lpc
    BY <1>2 DEF Format
  <2>2. LineTypes'
    <3>1. u8arrTempBuff' \in [1..LineMax -> Chars]
      BY <1>2, <2>1 DEF Format, LineTypes, Chars
    <3>2. at' \in [Printers -> 1..LineMax]
      <4>1. CASE ends
        BY <2>0, <4>1 DEF LineTypes
      <4>2. CASE ~ends
        <5>1. at[t] + 1 \in 1..LineMax
          BY <2>1, <4>2
        <5> QED BY <2>0, <4>2, <5>1 DEF LineTypes
      <4> QED BY <4>1, <4>2
    <3>3. alone' \in [Printers -> BOOLEAN]
      BY <1>2 DEF Format, Disturb, LineTypes
    <3> QED BY <1>2, <3>1, <3>2, <3>3 DEF Format, LineTypes, ctrlVars
  <2>3. alone[t] => Written(t)
    BY <1>2, <1>o DEF Format, LineOf, Formatting
  <2>4. alone'[t] = alone[t]
    BY <1>2 DEF Format, Disturb
  <2>5. CASE ends
    <3>0. at' = at /\ lpc'[t] = "compose"
      BY <2>0, <2>5
    <3>1. at[t] = TextLen[t] + 1 /\ at' = at /\ lpc'[t] = "compose"
      <4>1. at[t] \in 1..LineMax /\ at[t] > TextLen[t]
        BY <2>1, <2>5
      <4>2. at[t] = TextLen[t] + 1
        BY <2>1, <4>1, LastIsNext
      <4> QED BY <3>0, <4>2
    <3>2. alone'[t] => Written(t)'
      BY <1>2, <2>1, <2>3, <2>4, <2>5, <3>1 DEF Format, Written, LineTypes
    <3>3. LineOf(t)'
      BY <1>2, <1>o, <3>1, <3>2 DEF Format, LineOf, LineIsOwn
    <3> QED BY <1>1, <1>2, <2>2, <3>1, <3>3, OneLineChanges DEF Format
  <2>6. CASE ~ends
    <3>1. at'[t] = at[t] + 1 /\ at[t] <= TextLen[t] /\ lpc' = lpc
      BY <2>0, <2>1, <2>6 DEF LineTypes
    <3>2. alone'[t] => Written(t)'
      BY <1>2, <2>1, <2>3, <2>4, <2>6, <3>1 DEF Format, Written, LineTypes
    <3>3. LineOf(t)'
      BY <1>2, <1>o, <2>1, <3>1, <3>2 DEF Format, LineOf, LineIsOwn
    <3>4. \A u \in Printers \ {t} : at'[u] = at[u]
      BY <1>2, <2>6 DEF Format, LineTypes
    <3> QED BY <1>1, <1>2, <2>2, <3>1, <3>3, <3>4, OneLineChanges DEF Format
  <2> QED BY <2>5, <2>6
<1>3. CASE Compose(t)
  <2>1. alone[t] => TempText = Text(t)
    BY <1>3, <1>o, TempTextIsText DEF Compose, LineOf, Formatting
  <2>2. line' = [line EXCEPT ![t] = Composed(t)] /\ lpc'[t] = "level"
    BY <1>3 DEF Compose
  <2>3. line'[t] = Composed(t) /\ \A u \in Printers \ {t} : line'[u] = line[u]
    BY <2>2 DEF LineTypes
  <2>4. LineTypes'
    BY <1>3, <2>2 DEF Compose, LineTypes, ctrlVars
  <2>5. EarlyNotice(t) => t = Main /\ asked[t].module = "INIT"
    BY <1>3 DEF Compose, EarlyNotice, StartsFirst
  <2>6. LineIsOwn(t)'
    BY <1>3, <2>1, <2>3 DEF Compose, LineIsOwn, Composed
  <2>7. "notice" \in shown'[t] => t = Main /\ asked'[t].module = "INIT"
    BY <1>3, <2>5 DEF Compose
  <2>8. LineOf(t)'
    BY <2>2, <2>6, <2>7 DEF LineOf, Formatting
  <2> QED BY <1>1, <1>3, <2>3, <2>4, <2>8, OneLineChanges DEF Compose
<1>4. CASE TestLevel(t) \/ TestModule(t) \/ PutOut(t) \/ PutToSyslog(t)
  <2>1. /\ lpc[t] \in {"level", "module", "output", "syslog"}
        /\ lpc'[t] \in {"module", "output", "syslog", "done"}
        /\ UNCHANGED <<u8arrTempBuff, at, line, asked, alone>>
        /\ \A u \in Printers \ {t} : lpc'[u] = lpc[u] /\ shown'[u] = shown[u]
    BY <1>4 DEF TestLevel, TestModule, PutOut, PutToSyslog, Show
  <2>2. "notice" \in shown'[t] => "notice" \in shown[t]
    BY <1>4 DEF TestLevel, TestModule, PutOut, PutToSyslog, Show
  <2>3. LineTypes'
    BY <2>1 DEF LineTypes, ctrlVars
  <2>4. LineOf(t)'
    BY <1>o, <2>1, <2>2 DEF LineOf, LineIsOwn, Formatting
  <2> QED BY <1>1, <2>1, <2>3, <2>4, OneLineChanges
<1>5. CASE Return(t)
  <2>1. line' = [line EXCEPT ![t] = NoLine] /\ line'[t] = NoLine
        /\ \A u \in Printers \ {t} : line'[u] = line[u]
    BY <1>5 DEF Return, LineTypes
  <2>2. at' = [at EXCEPT ![t] = 1] /\ 1 \in 1..LineMax
    BY <1>5, LengthsFit, LogAssumption DEF Return
  <2>3. LineTypes'
    BY <1>5, <2>1, <2>2 DEF Return, LineTypes, ctrlVars
  <2>4. LineOf(t)'
    BY <1>5, <2>1, <2>2, LengthsFit DEF Return, LineOf, LineIsOwn, Formatting, LineTypes
  <2>5. ASSUME NEW u \in Printers \ {t} PROVE LineOf(u)'
    BY <1>5, <2>1, <2>2 DEF Return, LineOf, LineIsOwn, Formatting, Written, LineTypes
  <2> QED BY <1>1, <2>3, <2>4, <2>5
<1> QED BY <1>2, <1>3, <1>4, <1>5 DEF PrintfSteps

LEMMA SetGatesKeepsLines ==
  ASSUME LineInv, SwitchInv', UNCHANGED lineVars, s_isLogInit' \in BOOLEAN,
         logPc' \in {"openAll", "idle", "clear"},
         s_isLogInit' = s_isLogInit \/ s_isLogInit', logPc' # "openAll" => s_isLogInit'
  PROVE  LineInv'
BY DEF lineVars, LineInv, LineTypes, StartsFirst, LineOf, LineIsOwn, Formatting, Written

LEMMA AdministerKeepsLines ==
  ASSUME LineInv, SwitchInv', Administer
  PROVE  LineInv'
<1>0. s_isLogInit \in BOOLEAN /\ (logPc \in {"idle", "clear"} => s_isLogInit)
  BY DEF LineInv, LineTypes, StartsFirst
<1>1. CASE NoLogDir
  BY <1>0, <1>1, LogAssumption, StartPrintfKeepsLines DEF NoLogDir
<1>2. CASE CannotClear
  BY <1>0, <1>2, LogAssumption, StartPrintfKeepsLines DEF CannotClear, ctrlVars
<1>3. CASE OpenSyslog \/ OpenAll \/ StopSyslogd \/ StartSyslogd
  BY <1>0, <1>3, SetGatesKeepsLines DEF OpenSyslog, OpenAll, StopSyslogd, StartSyslogd, SetGates, MainFree
<1>4. ASSUME NEW s \in Levels \cup Modules \cup Outputs, SetSwitch(s) PROVE LineInv'
  BY <1>0, <1>4, SetGatesKeepsLines DEF SetSwitch, SetGates, MainFree
<1> QED BY <1>1, <1>2, <1>3, <1>4 DEF Administer

LEMMA LineInvStep == LineInv /\ [LogNext]_logVars => LineInv'
<1> SUFFICES ASSUME LineInv, [LogNext]_logVars PROVE LineInv'
  OBVIOUS
<1>0. SwitchInv'
  BY SwitchInvStep DEF LineInv
<1>1. CASE Logging
  <2>1. PICK t \in Printers : PrintfSteps(t) \/ Logs(t)
    BY <1>1 DEF Logging
  <2>2. CASE PrintfSteps(t)
    BY <1>0, <1>1, <2>2, PrintfStepsKeepLines DEF Logging
  <2>3. CASE Logs(t)
    BY <1>0, <1>1, <2>3, StartPrintfKeepsLines DEF Logging, Logs, LineInv, StartsFirst
  <2> QED BY <2>1, <2>2, <2>3
<1>2. CASE Administer
  BY <1>0, <1>2, AdministerKeepsLines
<1>3. CASE UNCHANGED logVars
  BY <1>0, <1>3 DEF logVars, ctrlVars, lineVars, LineInv, LineTypes, StartsFirst, LineOf,
                    LineIsOwn, Formatting, Written
<1> QED BY <1>1, <1>2, <1>3 DEF LogNext

(* However many threads format their lines in the one static buffer, a     *)
(* line carries its own level and module, and all of its own text if no    *)
(* other call wrote there meanwhile (wv_log.c:352-363).                    *)
THEOREM LinesBelongToTheirCalls == LogSpec => []LinesAreOwn
<1>1. LineInv => LinesAreOwn
  BY LineInvImplies
<1>2. LogInit => LineInv
  BY LineInvInit
<1>3. LineInv /\ [LogNext]_logVars => LineInv'
  BY LineInvStep
<1> QED BY <1>1, <1>2, <1>3, PTL DEF LogSpec

-----------------------------------------------------------------------------
(* THE LIST, for any number of threads, nodes and values.                  *)

Links == Nodes \cup {NULL}

(* The nodes that links nx lead to from f, as At has them.                 *)
Walk(f, nx) == CHOOSE g : g = [k \in 1..maxsize + 1 |->
    IF k = 1 THEN f ELSE IF g[k - 1] \in Nodes THEN nx[g[k - 1]] ELSE NULL]

LEMMA AtIsWalk == At = Walk(front, next) /\ At' = Walk(front', next')
BY DEF At, Walk

LEMMA WalkEquation ==
  ASSUME NEW f \in Links, NEW nx \in [Nodes -> Links], NEW k \in 1..maxsize + 1
  PROVE  Walk(f, nx)[k] = IF k = 1 THEN f
                          ELSE IF Walk(f, nx)[k - 1] \in Nodes THEN nx[Walk(f, nx)[k - 1]]
                               ELSE NULL
<1> DEFINE rule == [p \in Nat \X Links |-> IF p[2] \in Nodes THEN nx[p[2]] ELSE NULL]
           Rule(g) == [j \in 1..maxsize + 1 |->
                          IF j = 1 THEN f ELSE IF g[j - 1] \in Nodes THEN nx[g[j - 1]] ELSE NULL]
<1>1. maxsize \in Nat /\ 1 \in Nat /\ maxsize + 1 \in Nat /\ 1 <= maxsize + 1
  BY MaxSizeAssumption
<1>2. rule \in [Nat \X Links -> Links]
  <2>1. ASSUME NEW p \in Nat \X Links
        PROVE  (IF p[2] \in Nodes THEN nx[p[2]] ELSE NULL) \in Links
    BY DEF Links
  <2> QED BY <2>1
<1>3. PICK g \in [1..maxsize + 1 -> Links] : Follows(g, 1, maxsize + 1, f, rule)
  <2> HIDE DEF rule
  <2> QED BY <1>1, <1>2, Recursion
<1>4. ASSUME NEW j \in 1..maxsize + 1
      PROVE  g[j] = IF j = 1 THEN f ELSE IF g[j - 1] \in Nodes THEN nx[g[j - 1]] ELSE NULL
  <2>1. CASE j = 1
    BY <1>3, <2>1 DEF Follows
  <2>2. CASE j # 1
    <3>1. j \in (1 + 1)..maxsize + 1 /\ j - 1 \in 1..maxsize + 1 /\ j \in Nat
      BY <1>1, <2>2
    <3>2. g[j] = rule[<<j, g[j - 1]>>]
      <4> HIDE DEF rule
      <4> QED BY <1>3, <3>1 DEF Follows
    <3>3. <<j, g[j - 1]>> \in Nat \X Links
      BY <3>1
    <3> QED BY <2>2, <3>2, <3>3
  <2> QED BY <2>1, <2>2
<1>5. g = Rule(g)
  BY <1>4
<1>6. Walk(f, nx) = Rule(Walk(f, nx))
  BY <1>5 DEF Walk
<1> HIDE DEF Walk
<1> QED BY <1>6

-----------------------------------------------------------------------------
(* s is a list of n different nodes, from f to r, linked both ways.        *)
IsChain(s, n, f, r, nx, pr) ==
    /\ s \in [1..n -> Nodes]
    /\ \A j, k \in 1..n : s[j] = s[k] => j = k
    /\ n > 0 => s[1] = f /\ s[n] = r
    /\ \A k \in 1..(n - 1) : nx[s[k]] = s[k + 1] /\ pr[s[k + 1]] = s[k]

LEMMA WalkIsChain ==
  ASSUME NEW f \in Links, NEW r, NEW nx \in [Nodes -> Links], NEW pr,
         NEW n \in 0..maxsize, NEW s, IsChain(s, n, f, r, nx, pr)
  PROVE  \A k \in 1..n : Walk(f, nx)[k] = s[k]
<1> DEFINE w == Walk(f, nx)
           T == {k \in 1..n : w[k] # s[k]}
<1> SUFFICES ASSUME T # {} PROVE FALSE
  OBVIOUS
<1>1. n \in Nat /\ maxsize \in Nat /\ n <= maxsize
  BY MaxSizeAssumption
<1>2. T \in SUBSET Nat
  BY <1>1
<1>3. PICK m \in T : \A k \in T : m <= k
  BY <1>2, LeastElement
<1>4. m \in 1..n /\ w[m] # s[m] /\ m \in 1..maxsize + 1
  BY <1>1
<1>5. w[m] = IF m = 1 THEN f ELSE IF w[m - 1] \in Nodes THEN nx[w[m - 1]] ELSE NULL
  BY <1>4, WalkEquation
<1> HIDE DEF w
<1>6. CASE m = 1
  BY <1>1, <1>4, <1>5, <1>6 DEF IsChain
<1>7. CASE m # 1
  <2>1. m - 1 \in 1..n /\ m - 1 \in 1..(n - 1) /\ (m - 1) + 1 = m
    BY <1>1, <1>4, <1>7
  <2>2. w[m - 1] = s[m - 1]
    BY <1>3, <2>1
  <2>3. s[m - 1] \in Nodes /\ nx[s[m - 1]] = s[(m - 1) + 1]
    BY <2>1 DEF IsChain
  <2> QED BY <1>4, <1>5, <1>7, <2>1, <2>2, <2>3
<1> QED BY <1>6, <1>7

-----------------------------------------------------------------------------
Pushes == {"PushBack", "PushFront"}
Takes == {"PopBack", "PopFront", "GetBack", "GetFront"}

(* The list, from front to rear.                                           *)
Cells == [k \in 1..size |-> At[k]]
Chained == IsChain(Cells, size, front, rear, next, pre)

(* What the check of a call has shown still holds at its change: nobody    *)
(* else adds, nobody else removes.                                         *)
CallInv ==
    \A t \in Threads :
       /\ call[t] \in Pushes => t \in Adders /\ size < maxsize
       /\ call[t] \in Takes => t \in Removers /\ size > 0 /\ held[t] = NULL
       /\ held[t] # NULL => t \in Removers /\ call[t] \notin Takes

HeldInv == /\ \A t \in Threads : held[t] \notin InList
           /\ used = InList \cup ({held[t] : t \in Threads} \ {NULL})

ListInv == ListTypeOK /\ Chained /\ CallInv /\ HeldInv

LEMMA OnlyOne ==
  ASSUME NEW S, IsFiniteSet(S), Cardinality(S) <= 1, NEW t \in S, NEW u \in S
  PROVE  t = u
<1>1. Cardinality({t}) = 1 /\ {t} \in SUBSET S
  BY FS_Singleton
<1>2. Cardinality(S) \in Nat /\ Cardinality({t}) <= Cardinality(S)
  BY <1>1, FS_CardinalityType, FS_Subset
<1>3. S = {t}
  BY <1>1, <1>2, FS_Subset
<1> QED BY <1>3

LEMMA OneOfEach ==
  /\ \A t, u \in Adders : t = u
  /\ \A t, u \in Removers : t = u
<1>1. ASSUME NEW t \in Adders, NEW u \in Adders PROVE t = u
  BY OnlyOne, ThreadsAssumption
<1>2. ASSUME NEW t \in Removers, NEW u \in Removers PROVE t = u
  BY OnlyOne, ThreadsAssumption
<1> QED BY <1>1, <1>2

LEMMA SizeType == ListTypeOK => size \in Nat /\ maxsize \in Nat /\ size <= maxsize
BY MaxSizeAssumption DEF ListTypeOK

LEMMA InListIsCells == InList = {Cells[k] : k \in 1..size}
BY DEF InList, Cells

LEMMA NewCells ==
  ASSUME ListTypeOK', NEW s, IsChain(s, size', front', rear', next', pre')
  PROVE  Cells' = s /\ Chained' /\ InList' = {s[k] : k \in 1..size'}
<1>1. size' \in 0..maxsize /\ front' \in Links /\ next' \in [Nodes -> Links]
  BY DEF ListTypeOK, Links
<1>2. \A k \in 1..size' : Walk(front', next')[k] = s[k]
  BY <1>1, WalkIsChain
<1>3. \A k \in 1..size' : At'[k] = s[k]
  BY <1>2, AtIsWalk
<1>4. s = [k \in 1..size' |-> s[k]]
  BY DEF IsChain
<1>5. Cells' = [k \in 1..size' |-> At'[k]] /\ InList' = {At'[k] : k \in 1..size'}
  BY DEF Cells, InList
<1>6. Cells' = s
  BY <1>3, <1>4, <1>5
<1>7. InList' = {s[k] : k \in 1..size'}
  BY <1>3, <1>5
<1> QED BY <1>6, <1>7 DEF Chained

-----------------------------------------------------------------------------
(* What the four changes do to a chain.                                    *)

AddBack(s, n, c) == [k \in 1..n + 1 |-> IF k <= n THEN s[k] ELSE c]
AddFront(s, n, c) == [k \in 1..n + 1 |-> IF k = 1 THEN c ELSE s[k - 1]]
DropBack(s, n) == [k \in 1..n - 1 |-> s[k]]
DropFront(s, n) == [k \in 1..n - 1 |-> s[k + 1]]

LEMMA ChainPushBack ==
  ASSUME NEW n \in Nat, NEW s, NEW f, NEW r, IsChain(s, n, f, r, next, pre), ListTypeOK,
         NEW c \in Nodes, \A k \in 1..n : s[k] # c,
         NEW nx, nx = IF n = 0 THEN [next EXCEPT ![c] = NULL] ELSE [next EXCEPT ![c] = NULL, ![r] = c],
         NEW pr, pr = [pre EXCEPT ![c] = IF n = 0 THEN NULL ELSE r],
         NEW f2, f2 = IF n = 0 THEN c ELSE f
  PROVE  IsChain(AddBack(s, n, c), n + 1, f2, c, nx, pr)
<1> DEFINE z == AddBack(s, n, c)
<1>1. /\ \A k \in 1..n : k \in 1..n + 1 /\ z[k] = s[k] /\ z[k] \in Nodes
      /\ n + 1 \in 1..n + 1 /\ z[n + 1] = c
      /\ \A k \in 1..n + 1 : k = n + 1 \/ k \in 1..n
      /\ z \in [1..n + 1 -> Nodes]
  BY DEF IsChain, AddBack
<1> HIDE DEF z
<1>2. \A j, k \in 1..n + 1 : z[j] = z[k] => j = k
  BY <1>1 DEF IsChain
<1>3. z[1] = f2 /\ z[n + 1] = c
  BY <1>1 DEF IsChain
<1>4. ASSUME NEW k \in 1..((n + 1) - 1) PROVE nx[z[k]] = z[k + 1] /\ pr[z[k + 1]] = z[k]
  <2>1. k \in 1..n /\ z[k] = s[k] /\ s[k] \in Nodes /\ s[k] # c /\ n # 0 /\ r = s[n]
    BY <1>1 DEF IsChain
  <2>2. next \in [Nodes -> Links] /\ pre \in [Nodes -> Links]
    BY DEF ListTypeOK, Links
  <2>3. CASE k = n
    <3>1. z[k + 1] = c /\ s[k] = r /\ r # c
      BY <1>1, <2>1, <2>3
    <3> QED BY <2>1, <2>2, <3>1
  <2>4. CASE k # n
    <3>1. k \in 1..(n - 1) /\ k + 1 \in 1..n /\ n \in 1..n
      BY <2>1, <2>4
    <3>2. z[k + 1] = s[k + 1] /\ s[k + 1] # c /\ s[k + 1] \in Nodes /\ s[k] # r
      BY <1>1, <2>1, <2>4, <3>1 DEF IsChain
    <3>3. next[s[k]] = s[k + 1] /\ pre[s[k + 1]] = s[k]
      BY <3>1 DEF IsChain
    <3> QED BY <2>1, <2>2, <3>2, <3>3
  <2> QED BY <2>3, <2>4
<1>5. IsChain(z, n + 1, f2, c, nx, pr)
  BY <1>1, <1>2, <1>3, <1>4 DEF IsChain
<1> QED BY <1>5 DEF z

LEMMA ChainPushFront ==
  ASSUME NEW n \in Nat, NEW s, NEW f, NEW r, IsChain(s, n, f, r, next, pre), ListTypeOK,
         NEW c \in Nodes, \A k \in 1..n : s[k] # c,
         NEW pr, pr = IF n = 0 THEN [pre EXCEPT ![c] = NULL] ELSE [pre EXCEPT ![c] = NULL, ![f] = c],
         NEW nx, nx = [next EXCEPT ![c] = IF n = 0 THEN NULL ELSE f],
         NEW r2, r2 = IF n = 0 THEN c ELSE r
  PROVE  IsChain(AddFront(s, n, c), n + 1, c, r2, nx, pr)
<1> DEFINE z == AddFront(s, n, c)
<1>1. /\ \A k \in 1..n + 1 : k # 1 => k - 1 \in 1..n /\ z[k] = s[k - 1]
      /\ 1 \in 1..n + 1 /\ z[1] = c
      /\ z \in [1..n + 1 -> Nodes]
  BY DEF IsChain, AddFront
<1> HIDE DEF z
<1>2. \A j, k \in 1..n + 1 : z[j] = z[k] => j = k
  <2> SUFFICES ASSUME NEW j \in 1..n + 1, NEW k \in 1..n + 1, z[j] = z[k] PROVE j = k
    OBVIOUS
  <2>1. j = 1 <=> k = 1
    BY <1>1
  <2>2. CASE j # 1
    <3>1. j - 1 \in 1..n /\ k - 1 \in 1..n /\ s[j - 1] = s[k - 1]
      BY <1>1, <2>1, <2>2
    <3>2. j - 1 = k - 1
      BY <3>1 DEF IsChain
    <3> QED BY <3>2
  <2> QED BY <2>1, <2>2
<1>3. z[1] = c /\ z[n + 1] = r2
  <2>1. n # 0 => n + 1 \in 1..n + 1 /\ n + 1 # 1 /\ (n + 1) - 1 = n /\ s[n] = r
    BY DEF IsChain
  <2> QED BY <1>1, <2>1
<1>4. ASSUME NEW k \in 1..((n + 1) - 1) PROVE nx[z[k]] = z[k + 1] /\ pr[z[k + 1]] = z[k]
  <2>1. k \in 1..n /\ z[k + 1] = s[k] /\ s[k] \in Nodes /\ s[k] # c /\ n # 0 /\ f = s[1]
    BY <1>1 DEF IsChain
  <2>2. next \in [Nodes -> Links] /\ pre \in [Nodes -> Links]
    BY DEF ListTypeOK, Links
  <2>3. CASE k = 1
    <3>1. z[k] = c /\ s[k] = f /\ f # c
      BY <1>1, <2>1, <2>3
    <3> QED BY <2>1, <2>2, <3>1
  <2>4. CASE k # 1
    <3>1. k - 1 \in 1..(n - 1) /\ k - 1 \in 1..n /\ (k - 1) + 1 = k /\ k \in 1..n + 1 /\ 1 \in 1..n
      BY <2>1, <2>4
    <3>2. z[k] = s[k - 1] /\ s[k - 1] # c /\ s[k - 1] \in Nodes /\ s[k] # f
      BY <1>1, <2>1, <2>4, <3>1 DEF IsChain
    <3>3. next[s[k - 1]] = s[k] /\ pre[s[k]] = s[k - 1]
      BY <3>1 DEF IsChain
    <3> QED BY <2>1, <2>2, <3>2, <3>3
  <2> QED BY <2>3, <2>4
<1>5. IsChain(z, n + 1, c, r2, nx, pr)
  BY <1>1, <1>2, <1>3, <1>4 DEF IsChain
<1> QED BY <1>5 DEF z

LEMMA ChainPopBack ==
  ASSUME NEW n \in Nat \ {0}, NEW s, NEW f, NEW r, IsChain(s, n, f, r, next, pre), ListTypeOK
  PROVE  IsChain(DropBack(s, n), n - 1, f, pre[r],
                 [next EXCEPT ![r] = NULL], [pre EXCEPT ![r] = NULL])
<1> DEFINE z == DropBack(s, n)
<1>1. /\ \A k \in 1..n - 1 : k \in 1..n /\ k + 1 \in 1..n /\ z[k] = s[k] /\ s[k] \in Nodes
      /\ n \in 1..n /\ s[n] = r /\ s[1] = f
      /\ z \in [1..n - 1 -> Nodes]
  BY DEF IsChain, DropBack
<1> HIDE DEF z
<1>2. \A j, k \in 1..n - 1 : z[j] = z[k] => j = k
  BY <1>1 DEF IsChain
<1>3. n - 1 > 0 => z[1] = f /\ z[n - 1] = pre[r]
  <2> SUFFICES ASSUME n - 1 > 0 PROVE z[1] = f /\ z[n - 1] = pre[r]
    OBVIOUS
  <2>1. 1 \in 1..n - 1 /\ n - 1 \in 1..(n - 1) /\ (n - 1) + 1 = n
    OBVIOUS
  <2>2. pre[s[(n - 1) + 1]] = s[n - 1]
    BY <2>1 DEF IsChain
  <2> QED BY <1>1, <2>1, <2>2
<1>4. ASSUME NEW k \in 1..((n - 1) - 1)
      PROVE  [next EXCEPT ![r] = NULL][z[k]] = z[k + 1] /\ [pre EXCEPT ![r] = NULL][z[k + 1]] = z[k]
  <2>1. k \in 1..n - 1 /\ k + 1 \in 1..n - 1 /\ k \in 1..(n - 1) /\ k # n /\ k + 1 # n
    OBVIOUS
  <2>2. z[k] = s[k] /\ z[k + 1] = s[k + 1] /\ s[k] \in Nodes /\ s[k + 1] \in Nodes
    BY <1>1, <2>1
  <2>3. s[k] # r /\ s[k + 1] # r
    BY <1>1, <2>1 DEF IsChain
  <2>4. next[s[k]] = s[k + 1] /\ pre[s[k + 1]] = s[k]
    BY <2>1 DEF IsChain
  <2>5. next \in [Nodes -> Links] /\ pre \in [Nodes -> Links]
    BY DEF ListTypeOK, Links
  <2> QED BY <2>2, <2>3, <2>4, <2>5
<1>5. IsChain(z, n - 1, f, pre[r], [next EXCEPT ![r] = NULL], [pre EXCEPT ![r] = NULL])
  BY <1>1, <1>2, <1>3, <1>4 DEF IsChain
<1> QED BY <1>5 DEF z

LEMMA ChainPopFront ==
  ASSUME NEW n \in Nat \ {0}, NEW s, NEW f, NEW r, IsChain(s, n, f, r, next, pre), ListTypeOK
  PROVE  IsChain(DropFront(s, n), n - 1, next[f], r,
                 [next EXCEPT ![f] = NULL], [pre EXCEPT ![f] = NULL])
<1> DEFINE z == DropFront(s, n)
<1>1. /\ \A k \in 1..n - 1 : k \in 1..n /\ k + 1 \in 1..n /\ z[k] = s[k + 1] /\ s[k + 1] \in Nodes
      /\ 1 \in 1..n /\ s[n] = r /\ s[1] = f
      /\ z \in [1..n - 1 -> Nodes]
  BY DEF IsChain, DropFront
<1> HIDE DEF z
<1>2. \A j, k \in 1..n - 1 : z[j] = z[k] => j = k
  <2> SUFFICES ASSUME NEW j \in 1..n - 1, NEW k \in 1..n - 1, z[j] = z[k] PROVE j = k
    OBVIOUS
  <2>1. j + 1 \in 1..n /\ k + 1 \in 1..n /\ s[j + 1] = s[k + 1]
    BY <1>1
  <2>2. j + 1 = k + 1
    BY <2>1 DEF IsChain
  <2> QED BY <2>2
<1>3. n - 1 > 0 => z[1] = next[f] /\ z[n - 1] = r
  <2> SUFFICES ASSUME n - 1 > 0 PROVE z[1] = next[f] /\ z[n - 1] = r
    OBVIOUS
  <2>1. 1 \in 1..(n - 1) /\ n - 1 \in 1..n - 1 /\ (n - 1) + 1 = n
    OBVIOUS
  <2>2. next[s[1]] = s[1 + 1]
    BY <2>1 DEF IsChain
  <2> QED BY <1>1, <2>1, <2>2
<1>4. ASSUME NEW k \in 1..((n - 1) - 1)
      PROVE  [next EXCEPT ![f] = NULL][z[k]] = z[k + 1] /\ [pre EXCEPT ![f] = NULL][z[k + 1]] = z[k]
  <2>1. /\ k \in 1..n - 1 /\ k + 1 \in 1..n - 1 /\ k + 1 \in 1..(n - 1) /\ k + 1 # 1 /\ (k + 1) + 1 # 1
        /\ k + 1 \in 1..n /\ (k + 1) + 1 \in 1..n
    OBVIOUS
  <2>2. z[k] = s[k + 1] /\ z[k + 1] = s[(k + 1) + 1] /\ s[k + 1] \in Nodes /\ s[(k + 1) + 1] \in Nodes
    BY <1>1, <2>1
  <2>3. s[k + 1] # f /\ s[(k + 1) + 1] # f
    BY <1>1, <2>1 DEF IsChain
  <2>4. next[s[k + 1]] = s[(k + 1) + 1] /\ pre[s[(k + 1) + 1]] = s[k + 1]
    BY <2>1 DEF IsChain
  <2>5. next \in [Nodes -> Links] /\ pre \in [Nodes -> Links]
    BY DEF ListTypeOK, Links
  <2> QED BY <2>2, <2>3, <2>4, <2>5
<1>5. IsChain(z, n - 1, next[f], r, [next EXCEPT ![f] = NULL], [pre EXCEPT ![f] = NULL])
  BY <1>1, <1>2, <1>3, <1>4 DEF IsChain
<1> QED BY <1>5 DEF z

-----------------------------------------------------------------------------
(* The values in the list.                                                 *)
Stored == Values \cup {NoValue}
Items == [k \in 1..size |-> data[At[k]]]

LEMMA ItemsOfCells ==
  /\ Items = [k \in 1..size |-> data[Cells[k]]]
  /\ Items' = [k \in 1..size' |-> data'[Cells'[k]]]
<1>1. \A k \in 1..size : Cells[k] = At[k]
  BY DEF Cells
<1>2. \A k \in 1..size' : Cells'[k] = At'[k]
  BY DEF Cells
<1> QED BY <1>1, <1>2 DEF Items

LEMMA Tabulated ==
  ASSUME NEW n \in Nat, NEW S, NEW s \in [1..n -> S]
  PROVE  s \in Seq(S) /\ Len(s) = n
<1>1. s \in Seq(S)
  BY SeqDef
<1>2. DOMAIN s = 1..Len(s) /\ Len(s) \in Nat /\ DOMAIN s = 1..n
  BY <1>1, LenProperties
<1> QED BY <1>1, <1>2

LEMMA ItemsType ==
  ASSUME ListTypeOK, Chained
  PROVE  /\ Items \in Seq(Stored) /\ Len(Items) = size
         /\ \A k \in 1..size : Items[k] = data[Cells[k]] /\ Items[k] \in Stored /\ Cells[k] \in Nodes
<1>1. size \in Nat /\ \A k \in 1..size : Cells[k] \in Nodes
  BY SizeType DEF Chained, IsChain
<1>2. \A k \in 1..size : data[Cells[k]] \in Stored
  BY <1>1 DEF ListTypeOK, Stored
<1>3. Items \in [1..size -> Stored] /\ \A k \in 1..size : Items[k] = data[Cells[k]]
  BY <1>2, ItemsOfCells
<1> QED BY <1>1, <1>2, <1>3, Tabulated

LEMMA SameItems ==
  ASSUME ListInv, ListTypeOK', Chained', NEW u \in Seq(Stored), Len(u) = size',
         \A k \in 1..size' : u[k] = data'[Cells'[k]]
  PROVE  Items' = u
<1>1. /\ size' \in Nat /\ \A k \in 1..size' : Items'[k] = data'[Cells'[k]]
  BY MaxSizeAssumption, ItemsOfCells DEF ListTypeOK
<1>2. u \in [1..size' -> Stored] /\ Items' \in [1..size' -> Stored]
  <2>1. \A k \in 1..size' : u[k] \in Stored
    BY ElementOfSeq
  <2>2. Items' = [k \in 1..size' |-> data'[Cells'[k]]]
    BY ItemsOfCells
  <2>3. u \in [1..size' -> Stored]
    BY LenProperties
  <2> QED BY <2>1, <2>2, <2>3
<1>3. \A k \in 1..size' : Items'[k] = u[k]
  BY <1>1
<1> QED BY <1>2, <1>3

-----------------------------------------------------------------------------
(* Each step keeps the invariant and is one of the deque, or none.         *)

LEMMA NotInList ==
  ASSUME ListInv, NEW n \in Nodes \ used
  PROVE  \A k \in 1..size : Cells[k] # n
BY InListIsCells DEF ListInv, HeldInv

(* A call of an adder ends: size grows by one.                             *)
LEMMA AdderReturns ==
  ASSUME ListInv, NEW t \in Adders, call[t] \in Pushes, Call(t, "none"), size' = size + 1,
         UNCHANGED held
  PROVE  CallInv' /\ call' \in [Threads -> {"none"} \cup Pushes \cup Takes] /\ size' \in 0..maxsize
<1>1. t \in Threads /\ call \in [Threads -> {"none"} \cup Pushes \cup Takes] /\ size \in 0..maxsize
  BY DEF ListInv, ListTypeOK, Threads, Pushes, Takes
<1>2. size < maxsize /\ size \in Nat /\ maxsize \in Nat
  BY <1>1, SizeType DEF ListInv, CallInv
<1>3. \A u \in Threads : call'[u] = IF u = t THEN "none" ELSE call[u]
  BY <1>1 DEF Call
<1>4. \A u \in Threads : u # t => call[u] \notin Pushes
  BY <1>1, OneOfEach DEF ListInv, CallInv
<1>5. "none" \notin Pushes /\ "none" \notin Takes
  BY DEF Pushes, Takes
<1>6. call' \in [Threads -> {"none"} \cup Pushes \cup Takes]
  BY <1>1 DEF Call
<1>7. CallInv'
  BY <1>2, <1>3, <1>4, <1>5 DEF ListInv, CallInv
<1> QED BY <1>2, <1>6, <1>7

(* A node more is in the list, and in use.                                 *)
LEMMA OneMore ==
  ASSUME ListInv, NEW n \in Nodes \ used, InList' = InList \cup {n},
         used' = used \cup {n}, UNCHANGED held
  PROVE  HeldInv'
<1>1. {held'[t] : t \in Threads} = {held[t] : t \in Threads}
  OBVIOUS
<1>2. n # NULL
  BY NullAssumption
<1>3. ASSUME NEW t \in Threads PROVE held'[t] \notin InList'
  <2>1. held[t] # n
    BY <1>2 DEF ListInv, HeldInv
  <2> QED BY <2>1 DEF ListInv, HeldInv
<1>4. used' = InList' \cup ({held'[t] : t \in Threads} \ {NULL})
  BY <1>1, <1>2 DEF ListInv, HeldInv
<1> QED BY <1>3, <1>4 DEF HeldInv

LEMMA PushBackStep ==
  ASSUME ListInv, NEW t \in Adders, NEW n \in Nodes, NEW v \in Values, PushBackData(t, n, v)
  PROVE  /\ ListInv' /\ out' = out
         /\ Len(Items) < maxsize /\ Items' = Append(Items, v)
<1>1. /\ n \in Nodes \ used /\ used' = used \cup {n} /\ data' = [data EXCEPT ![n] = v]
      /\ size' = size + 1 /\ call[t] \in Pushes /\ t \in Threads /\ rear' = n /\ out' = out /\ held' = held
      /\ Call(t, "none")
  BY DEF PushBackData, NewNode, Pushes, Threads
<1>2. CallInv' /\ call' \in [Threads -> {"none"} \cup Pushes \cup Takes] /\ size' \in 0..maxsize
  BY <1>1, AdderReturns
<1>3. size \in Nat /\ size < maxsize
  BY <1>1, SizeType DEF ListInv, CallInv
<1>4. front' = (IF size = 0 THEN n ELSE front)
  BY DEF PushBackData
<1>5. next' = (IF size = 0 THEN [next EXCEPT ![n] = NULL] ELSE [next EXCEPT ![n] = NULL, ![rear] = n])
  BY DEF PushBackData
<1>6. pre' = [pre EXCEPT ![n] = IF size = 0 THEN NULL ELSE rear]
  BY DEF PushBackData
<1>7. ListTypeOK'
  BY <1>1, <1>2, <1>4, <1>5, <1>6 DEF ListInv, ListTypeOK, Pushes, Takes
<1> DEFINE z == AddBack(Cells, size, n)
<1>8. IsChain(z, size + 1, front', rear', next', pre')
  <2>1. IsChain(Cells, size, front, rear, next, pre) /\ ListTypeOK
    BY DEF ListInv, Chained
  <2>2. \A k \in 1..size : Cells[k] # n
    BY <1>1, NotInList
  <2> HIDE DEF z
  <2>3. IsChain(AddBack(Cells, size, n), size + 1, front', n, next', pre')
    BY <1>1, <1>3, <1>4, <1>5, <1>6, <2>1, <2>2, ChainPushBack
  <2> QED BY <1>1, <2>3 DEF z
<1>9. Cells' = z /\ Chained' /\ InList' = {z[k] : k \in 1..size'}
  <2> HIDE DEF z
  <2> QED BY <1>1, <1>7, <1>8, NewCells
<1>10. /\ \A k \in 1..size : k \in 1..size + 1 /\ z[k] = Cells[k]
       /\ size + 1 \in 1..size + 1 /\ z[size + 1] = n
       /\ \A k \in 1..size + 1 : k \in 1..size \/ k = size + 1
  BY <1>3 DEF AddBack
<1> HIDE DEF z
<1>11. InList' = InList \cup {n}
  BY <1>1, <1>9, <1>10, InListIsCells
<1>12. HeldInv'
  BY <1>1, <1>11, OneMore
<1>13. /\ Items \in Seq(Stored) /\ Len(Items) = size /\ v \in Stored
       /\ \A k \in 1..size : Items[k] = data[Cells[k]] /\ Cells[k] \in Nodes
  BY ItemsType DEF ListInv, Stored
<1>14. /\ Append(Items, v) \in Seq(Stored) /\ Len(Append(Items, v)) = size + 1
       /\ \A k \in 1..size : Append(Items, v)[k] = Items[k]
       /\ Append(Items, v)[size + 1] = v
  BY <1>13
<1>15. data \in [Nodes -> Stored]
  BY DEF ListInv, ListTypeOK, Stored
<1>16. ASSUME NEW k \in 1..size' PROVE Append(Items, v)[k] = data'[Cells'[k]]
  <2>1. CASE k \in 1..size
    <3>1. Cells'[k] = Cells[k] /\ Cells[k] # n
      BY <1>1, <1>9, <1>10, <2>1, NotInList
    <3> QED BY <1>1, <1>13, <1>14, <1>15, <2>1, <3>1
  <2>2. CASE k = size + 1
    BY <1>1, <1>9, <1>10, <1>14, <1>15, <2>2
  <2> QED BY <1>1, <1>10, <2>1, <2>2
<1>17. Items' = Append(Items, v)
  BY <1>1, <1>7, <1>9, <1>14, <1>16, SameItems
<1> QED BY <1>1, <1>2, <1>3, <1>7, <1>9, <1>12, <1>13, <1>17 DEF ListInv

LEMMA PushFrontStep ==
  ASSUME ListInv, NEW t \in Adders, NEW n \in Nodes, NEW v \in Values, PushFrontData(t, n, v)
  PROVE  /\ ListInv' /\ out' = out
         /\ Len(Items) < maxsize /\ Items' = <<v>> \o Items
<1>1. /\ n \in Nodes \ used /\ used' = used \cup {n} /\ data' = [data EXCEPT ![n] = v]
      /\ size' = size + 1 /\ call[t] \in Pushes /\ t \in Threads /\ front' = n /\ out' = out /\ held' = held
      /\ Call(t, "none")
  BY DEF PushFrontData, NewNode, Pushes, Threads
<1>2. CallInv' /\ call' \in [Threads -> {"none"} \cup Pushes \cup Takes] /\ size' \in 0..maxsize
  BY <1>1, AdderReturns
<1>3. size \in Nat /\ size < maxsize
  BY <1>1, SizeType DEF ListInv, CallInv
<1>4. rear' = (IF size = 0 THEN n ELSE rear)
  BY DEF PushFrontData
<1>5. pre' = (IF size = 0 THEN [pre EXCEPT ![n] = NULL] ELSE [pre EXCEPT ![n] = NULL, ![front] = n])
  BY DEF PushFrontData
<1>6. next' = [next EXCEPT ![n] = IF size = 0 THEN NULL ELSE front]
  BY DEF PushFrontData
<1>7. ListTypeOK'
  BY <1>1, <1>2, <1>4, <1>5, <1>6 DEF ListInv, ListTypeOK, Pushes, Takes
<1> DEFINE z == AddFront(Cells, size, n)
<1>8. IsChain(z, size + 1, front', rear', next', pre')
  <2>1. IsChain(Cells, size, front, rear, next, pre) /\ ListTypeOK
    BY DEF ListInv, Chained
  <2>2. \A k \in 1..size : Cells[k] # n
    BY <1>1, NotInList
  <2> HIDE DEF z
  <2>3. IsChain(AddFront(Cells, size, n), size + 1, n, rear', next', pre')
    BY <1>1, <1>3, <1>4, <1>5, <1>6, <2>1, <2>2, ChainPushFront
  <2> QED BY <1>1, <2>3 DEF z
<1>9. Cells' = z /\ Chained' /\ InList' = {z[k] : k \in 1..size'}
  <2> HIDE DEF z
  <2> QED BY <1>1, <1>7, <1>8, NewCells
<1>10. /\ \A k \in 1..size : k + 1 \in 1..size + 1 /\ z[k + 1] = Cells[k]
       /\ 1 \in 1..size + 1 /\ z[1] = n
       /\ \A k \in 1..size + 1 : k = 1 \/ (k - 1 \in 1..size /\ z[k] = Cells[k - 1])
  BY <1>3 DEF AddFront
<1> HIDE DEF z
<1>11. InList' = InList \cup {n}
  BY <1>1, <1>9, <1>10, InListIsCells
<1>12. HeldInv'
  BY <1>1, <1>11, OneMore
<1>13. /\ Items \in Seq(Stored) /\ Len(Items) = size /\ v \in Stored
       /\ \A k \in 1..size : Items[k] = data[Cells[k]] /\ Cells[k] \in Nodes
  BY ItemsType DEF ListInv, Stored
<1>14. /\ <<v>> \o Items \in Seq(Stored) /\ Len(<<v>> \o Items) = size + 1
       /\ \A k \in 1..size + 1 : (<<v>> \o Items)[k] = IF k = 1 THEN v ELSE Items[k - 1]
  <2>1. <<v>> \in Seq(Stored) /\ Len(<<v>>) = 1 /\ <<v>>[1] = v
    BY <1>13
  <2> QED BY <1>3, <1>13, <2>1, ConcatProperties
<1>15. data \in [Nodes -> Stored]
  BY DEF ListInv, ListTypeOK, Stored
<1>16. ASSUME NEW k \in 1..size' PROVE (<<v>> \o Items)[k] = data'[Cells'[k]]
  <2>1. CASE k # 1
    <3>1. k - 1 \in 1..size /\ Cells'[k] = Cells[k - 1] /\ Cells[k - 1] # n
      BY <1>1, <1>9, <1>10, <2>1, NotInList
    <3> QED BY <1>1, <1>13, <1>14, <1>15, <2>1, <3>1
  <2>2. CASE k = 1
    BY <1>1, <1>9, <1>10, <1>14, <1>15, <2>2
  <2> QED BY <2>1, <2>2
<1>17. Items' = <<v>> \o Items
  BY <1>1, <1>7, <1>9, <1>14, <1>16, SameItems
<1> QED BY <1>1, <1>2, <1>3, <1>7, <1>9, <1>12, <1>13, <1>17 DEF ListInv

LEMMA HeldByRemover ==
  ASSUME ListInv, NEW t \in Removers
  PROVE  /\ t \in Threads /\ NULL \notin InList /\ InList \subseteq Nodes
         /\ \A u \in Threads : u # t => held[u] = NULL /\ call[u] \notin Takes
         /\ {held[u] : u \in Threads} \ {NULL} = {held[t]} \ {NULL}
<1>1. t \in Threads
  BY DEF Threads
<1>2. \A u \in Threads : u # t => held[u] = NULL /\ call[u] \notin Takes
  BY OneOfEach DEF ListInv, CallInv
<1>3. InList \subseteq Nodes
  BY InListIsCells DEF ListInv, Chained, IsChain
<1> QED BY <1>1, <1>2, <1>3, NullAssumption

(* A pop ends: the remover holds a node that was in the list.              *)
LEMMA PopReturns ==
  ASSUME ListInv, NEW t \in Removers, call[t] \in Takes, NEW n \in InList, Unlink(t, n),
         InList' = InList \ {n}
  PROVE  /\ CallInv' /\ HeldInv' /\ size' \in 0..maxsize
         /\ call' \in [Threads -> {"none"} \cup Pushes \cup Takes]
         /\ held' \in [Threads -> Links]
<1>1. /\ call \in [Threads -> {"none"} \cup Pushes \cup Takes] /\ size \in 0..maxsize
      /\ held \in [Threads -> Links]
  BY DEF ListInv, ListTypeOK, Pushes, Takes, Links
<1>2. /\ t \in Threads /\ NULL \notin InList /\ n \in Nodes
      /\ \A u \in Threads : u # t => held[u] = NULL /\ call[u] \notin Takes
  BY HeldByRemover
<1>3. size > 0 /\ size \in Nat /\ maxsize \in Nat /\ size <= maxsize /\ held[t] = NULL
  BY <1>2, SizeType DEF ListInv, CallInv
<1>4. /\ \A u \in Threads : call'[u] = IF u = t THEN "none" ELSE call[u]
      /\ \A u \in Threads : held'[u] = IF u = t THEN n ELSE held[u]
      /\ size' = size - 1 /\ used' = used
      /\ call' \in [Threads -> {"none"} \cup Pushes \cup Takes]
      /\ held' \in [Threads -> Links]
  BY <1>1, <1>2 DEF Unlink, Call, Links
<1>5. "none" \notin Pushes /\ "none" \notin Takes
  BY DEF Pushes, Takes
<1>6. CallInv'
  <2> SUFFICES ASSUME NEW u \in Threads
               PROVE  /\ call'[u] \in Pushes => u \in Adders /\ size' < maxsize
                      /\ call'[u] \in Takes => u \in Removers /\ size' > 0 /\ held'[u] = NULL
                      /\ held'[u] # NULL => u \in Removers /\ call'[u] \notin Takes
    BY DEF CallInv
  <2>1. CASE u = t
    BY <1>4, <1>5, <2>1
  <2>2. CASE u # t
    BY <1>2, <1>3, <1>4, <2>2 DEF ListInv, CallInv
  <2> QED BY <2>1, <2>2
<1>7. HeldInv'
  <2>1. \A u \in Threads : held'[u] \notin InList'
    BY <1>2, <1>4
  <2>2. {held'[u] : u \in Threads} \ {NULL} = {n}
    BY <1>2, <1>4, NullAssumption
  <2>3. {held[u] : u \in Threads} \ {NULL} = {}
    BY <1>3, HeldByRemover
  <2>4. used = InList
    BY <2>3 DEF ListInv, HeldInv
  <2> QED BY <1>4, <2>1, <2>2, <2>4 DEF HeldInv
<1> QED BY <1>3, <1>4, <1>6, <1>7

LEMMA PopBackStep ==
  ASSUME ListInv, NEW t \in Removers, PopBack(t)
  PROVE  /\ ListInv' /\ Items # << >>
         /\ out' = Items[Len(Items)] /\ Items' = SubSeq(Items, 1, Len(Items) - 1)
<1>1. /\ call[t] \in Takes /\ Unlink(t, rear) /\ size' = size - 1 /\ rear' = pre[rear] /\ front' = front
      /\ next' = [next EXCEPT ![rear] = NULL] /\ pre' = [pre EXCEPT ![rear] = NULL]
      /\ data' = data /\ used' = used /\ out' = data[rear]
  BY DEF PopBack, Unlink, Takes
<1>2. size \in Nat \ {0} /\ size <= maxsize
  BY <1>1, SizeType, HeldByRemover DEF ListInv, CallInv
<1>3. /\ IsChain(Cells, size, front, rear, next, pre) /\ ListTypeOK
      /\ size \in 1..size /\ Cells[size] = rear /\ rear \in Nodes /\ rear \in InList
      /\ \A j, k \in 1..size : Cells[j] = Cells[k] => j = k
  BY <1>2, InListIsCells DEF ListInv, Chained, IsChain
<1>4. data \in [Nodes -> Stored] /\ pre \in [Nodes -> Links] /\ next \in [Nodes -> Links]
  BY DEF ListInv, ListTypeOK, Stored, Links
<1> DEFINE z == DropBack(Cells, size)
<1>5. IsChain(z, size - 1, front', rear', next', pre')
  <2> HIDE DEF z
  <2>1. IsChain(DropBack(Cells, size), size - 1, front, pre[rear],
                [next EXCEPT ![rear] = NULL], [pre EXCEPT ![rear] = NULL])
    BY <1>2, <1>3, ChainPopBack
  <2> QED BY <1>1, <2>1 DEF z
<1>6. /\ \A k \in 1..size - 1 : k \in 1..size /\ k # size /\ z[k] = Cells[k]
      /\ \A k \in 1..size : k \in 1..size - 1 \/ k = size
  BY <1>2 DEF DropBack
<1> HIDE DEF z
<1>7. /\ size' \in 0..maxsize /\ out' \in Stored /\ front' \in Links /\ rear' \in Links
      /\ next' \in [Nodes -> Links] /\ pre' \in [Nodes -> Links]
  BY <1>1, <1>2, <1>3, <1>4, MaxSizeAssumption DEF ListTypeOK, Links
<1>8. call' \in [Threads -> {"none"} \cup Pushes \cup Takes] /\ held' \in [Threads -> Links]
  <2>1. t \in Threads
    BY DEF Threads
  <2> QED BY <1>1, <1>3, <2>1 DEF ListTypeOK, Unlink, Call, Links, Pushes, Takes
<1>9. ListTypeOK'
  BY <1>1, <1>3, <1>7, <1>8 DEF ListTypeOK, Stored, Links, Pushes, Takes
<1>10. Cells' = z /\ Chained' /\ InList' = {z[k] : k \in 1..size'}
  BY <1>1, <1>5, <1>9, NewCells
<1>11. InList' = InList \ {rear}
  <2>1. ASSUME NEW x PROVE x \in InList' <=> x \in InList /\ x # rear
    <3>1. x \in InList' <=> \E k \in 1..size - 1 : x = Cells[k]
      BY <1>1, <1>6, <1>10
    <3>2. x \in InList <=> \E k \in 1..size : x = Cells[k]
      BY InListIsCells
    <3>3. \A k \in 1..size - 1 : Cells[k] # rear
      BY <1>3, <1>6
    <3> QED BY <1>3, <1>6, <3>1, <3>2, <3>3
  <2> QED BY <2>1
<1>12. CallInv' /\ HeldInv'
  BY <1>1, <1>3, <1>11, PopReturns
<1>13. /\ Items \in Seq(Stored) /\ Len(Items) = size /\ Items # << >>
       /\ \A k \in 1..size : Items[k] = data[Cells[k]] /\ Items[k] \in Stored
  <2>1. /\ Items \in Seq(Stored) /\ Len(Items) = size
        /\ \A k \in 1..size : Items[k] = data[Cells[k]] /\ Items[k] \in Stored
    BY <1>3, ItemsType DEF ListInv
  <2> QED BY <1>2, <2>1, EmptySeq
<1>14. /\ SubSeq(Items, 1, size - 1) \in Seq(Stored) /\ Len(SubSeq(Items, 1, size - 1)) = size - 1
       /\ \A k \in 1..size - 1 : SubSeq(Items, 1, size - 1)[k] = Items[k]
  <2>1. \A k \in 1..size - 1 : Items[k] \in Stored
    BY <1>6, <1>13
  <2>2. 1 \in Int /\ size - 1 \in Int
    BY <1>2
  <2>3. /\ SubSeq(Items, 1, size - 1) \in Seq(Stored)
        /\ Len(SubSeq(Items, 1, size - 1)) = IF 1 <= size - 1 THEN size - 1 - 1 + 1 ELSE 0
        /\ \A k \in 1..size - 1 - 1 + 1 : SubSeq(Items, 1, size - 1)[k] = Items[1 + k - 1]
    BY <2>1, <2>2, SubSeqProperties
  <2>4. \A k \in 1..size - 1 : k \in 1..size - 1 - 1 + 1 /\ 1 + k - 1 = k
    BY <1>2
  <2> QED BY <1>2, <2>3, <2>4
<1>15. Items' = SubSeq(Items, 1, size - 1)
  BY <1>1, <1>6, <1>9, <1>10, <1>13, <1>14, SameItems
<1> QED BY <1>1, <1>3, <1>9, <1>10, <1>12, <1>13, <1>15 DEF ListInv

LEMMA PopFrontStep ==
  ASSUME ListInv, NEW t \in Removers, PopFront(t)
  PROVE  /\ ListInv' /\ Items # << >>
         /\ out' = Head(Items) /\ Items' = Tail(Items)
<1>1. /\ call[t] \in Takes /\ Unlink(t, front) /\ size' = size - 1 /\ front' = next[front] /\ rear' = rear
      /\ next' = [next EXCEPT ![front] = NULL] /\ pre' = [pre EXCEPT ![front] = NULL]
      /\ data' = data /\ used' = used /\ out' = data[front]
  BY DEF PopFront, Unlink, Takes
<1>2. size \in Nat \ {0} /\ size <= maxsize
  BY <1>1, SizeType, HeldByRemover DEF ListInv, CallInv
<1>3. /\ IsChain(Cells, size, front, rear, next, pre) /\ ListTypeOK
      /\ 1 \in 1..size /\ Cells[1] = front /\ front \in Nodes /\ front \in InList
      /\ \A j, k \in 1..size : Cells[j] = Cells[k] => j = k
  BY <1>2, InListIsCells DEF ListInv, Chained, IsChain
<1>4. data \in [Nodes -> Stored] /\ pre \in [Nodes -> Links] /\ next \in [Nodes -> Links]
  BY DEF ListInv, ListTypeOK, Stored, Links
<1> DEFINE z == DropFront(Cells, size)
<1>5. IsChain(z, size - 1, front', rear', next', pre')
  <2> HIDE DEF z
  <2>1. IsChain(DropFront(Cells, size), size - 1, next[front], rear,
                [next EXCEPT ![front] = NULL], [pre EXCEPT ![front] = NULL])
    BY <1>2, <1>3, ChainPopFront
  <2> QED BY <1>1, <2>1 DEF z
<1>6. /\ \A k \in 1..size - 1 : k + 1 \in 1..size /\ k + 1 # 1 /\ z[k] = Cells[k + 1]
      /\ \A k \in 1..size : k = 1 \/ (k - 1 \in 1..size - 1 /\ z[k - 1] = Cells[k])
  BY <1>2 DEF DropFront
<1> HIDE DEF z
<1>7. /\ size' \in 0..maxsize /\ out' \in Stored /\ front' \in Links /\ rear' \in Links
      /\ next' \in [Nodes -> Links] /\ pre' \in [Nodes -> Links]
  BY <1>1, <1>2, <1>3, <1>4, MaxSizeAssumption DEF ListTypeOK, Links
<1>8. call' \in [Threads -> {"none"} \cup Pushes \cup Takes] /\ held' \in [Threads -> Links]
  <2>1. t \in Threads
    BY DEF Threads
  <2> QED BY <1>1, <1>3, <2>1 DEF ListTypeOK, Unlink, Call, Links, Pushes, Takes
<1>9. ListTypeOK'
  BY <1>1, <1>3, <1>7, <1>8 DEF ListTypeOK, Stored, Links, Pushes, Takes
<1>10. Cells' = z /\ Chained' /\ InList' = {z[k] : k \in 1..size'}
  BY <1>1, <1>5, <1>9, NewCells
<1>11. InList' = InList \ {front}
  <2>1. ASSUME NEW x PROVE x \in InList' <=> x \in InList /\ x # front
    <3>1. x \in InList' <=> \E k \in 1..size - 1 : x = Cells[k + 1]
      BY <1>1, <1>6, <1>10
    <3>2. x \in InList <=> \E k \in 1..size : x = Cells[k]
      BY InListIsCells
    <3>3. \A k \in 1..size - 1 : Cells[k + 1] # front
      BY <1>3, <1>6
    <3>4. \A k \in 1..size : k # 1 => k - 1 \in 1..size - 1 /\ (k - 1) + 1 = k
      BY <1>2
    <3> QED BY <1>3, <1>6, <3>1, <3>2, <3>3, <3>4
  <2> QED BY <2>1
<1>12. CallInv' /\ HeldInv'
  BY <1>1, <1>3, <1>11, PopReturns
<1>13. /\ Items \in Seq(Stored) /\ Len(Items) = size /\ Items # << >>
       /\ \A k \in 1..size : Items[k] = data[Cells[k]] /\ Items[k] \in Stored
  <2>1. /\ Items \in Seq(Stored) /\ Len(Items) = size
        /\ \A k \in 1..size : Items[k] = data[Cells[k]] /\ Items[k] \in Stored
    BY <1>3, ItemsType DEF ListInv
  <2> QED BY <1>2, <2>1, EmptySeq
<1>14. /\ Tail(Items) \in Seq(Stored) /\ Len(Tail(Items)) = size - 1 /\ Head(Items) = Items[1]
       /\ \A k \in 1..size - 1 : Tail(Items)[k] = Items[k + 1]
  BY <1>13, HeadTailProperties
<1>15. Items' = Tail(Items)
  <2>1. ASSUME NEW k \in 1..size' PROVE Tail(Items)[k] = data'[Cells'[k]]
    <3>1. k \in 1..size - 1 /\ Cells'[k] = Cells[k + 1] /\ k + 1 \in 1..size
      BY <1>1, <1>6, <1>10
    <3> QED BY <1>1, <1>13, <1>14, <3>1
  <2> QED BY <1>1, <1>9, <1>10, <1>14, <2>1, SameItems
<1> QED BY <1>1, <1>3, <1>9, <1>10, <1>12, <1>13, <1>14, <1>15 DEF ListInv

(* The list stands still: a call asks, or looks at an end of it.           *)
LEMMA ListStands ==
  ASSUME ListInv, ListTypeOK', UNCHANGED <<head, pre, next, used, held>>
  PROVE  Chained' /\ HeldInv' /\ Cells' = Cells /\ InList' = InList /\ size' = size
<1>1. IsChain(Cells, size', front', rear', next', pre')
  BY DEF ListInv, Chained, head
<1>2. Cells' = Cells /\ Chained' /\ InList' = {Cells[k] : k \in 1..size'}
  BY <1>1, NewCells
<1>3. size' = size /\ InList' = InList /\ used' = used /\ held' = held
  BY <1>2, InListIsCells DEF head
<1>4. HeldInv'
  BY <1>3 DEF ListInv, HeldInv
<1> QED BY <1>2, <1>3, <1>4

LEMMA SameData ==
  ASSUME ListInv, ListTypeOK', Chained', size' = size, Cells' = Cells,
         \A k \in 1..size : data'[Cells[k]] = data[Cells[k]]
  PROVE  Items' = Items
<1>1. /\ Items \in Seq(Stored) /\ Len(Items) = size
      /\ \A k \in 1..size : Items[k] = data[Cells[k]]
  BY ItemsType DEF ListInv
<1> QED BY <1>1, SameItems

LEMMA AskFullStep ==
  ASSUME ListInv, NEW t \in Adders, AskFull(t)
  PROVE  ListInv' /\ Items' = Items /\ out' = out
<1>1. t \in Threads /\ call[t] = "none" /\ size # maxsize /\ UNCHANGED <<head, nodes, held, out>>
  BY DEF AskFull, HasRoom, Threads
<1>2. PICK c \in Pushes : call' = [call EXCEPT ![t] = c]
  BY DEF AskFull, Pushes, Call
<1>3. ListTypeOK'
  BY <1>1, <1>2 DEF ListInv, ListTypeOK, Pushes, head, nodes
<1>4. Chained' /\ HeldInv' /\ Cells' = Cells /\ size' = size /\ data' = data
  BY <1>1, <1>3, ListStands DEF head, nodes
<1>5. CallInv'
  <2>1. size \in Nat /\ maxsize \in Nat /\ size < maxsize
    BY <1>1, SizeType DEF ListInv
  <2>2. call \in [Threads -> {"none"} \cup Pushes \cup Takes] /\ Pushes \cap Takes = {}
    BY DEF ListInv, ListTypeOK, Pushes, Takes
  <2>3. \A u \in Threads : call'[u] = IF u = t THEN c ELSE call[u]
    BY <1>1, <1>2, <2>2
  <2> QED BY <1>1, <1>4, <2>1, <2>2, <2>3 DEF ListInv, CallInv
<1>6. Items' = Items
  BY <1>3, <1>4, SameData
<1> QED BY <1>1, <1>3, <1>4, <1>5, <1>6 DEF ListInv

LEMMA AskEmptyStep ==
  ASSUME ListInv, NEW t \in Removers, AskEmpty(t)
  PROVE  ListInv' /\ Items' = Items /\ out' = out
<1>1. /\ t \in Threads /\ call[t] = "none" /\ size # 0 /\ held[t] = NULL
      /\ UNCHANGED <<head, nodes, held, out>>
  BY DEF AskEmpty, Threads
<1>2. PICK c \in Takes : call' = [call EXCEPT ![t] = c]
  BY DEF AskEmpty, Takes, Call
<1>3. ListTypeOK'
  BY <1>1, <1>2 DEF ListInv, ListTypeOK, Takes, head, nodes
<1>4. Chained' /\ HeldInv' /\ Cells' = Cells /\ size' = size /\ data' = data
  BY <1>1, <1>3, ListStands DEF head, nodes
<1>5. CallInv'
  <2>1. size \in Nat /\ size > 0
    BY <1>1, SizeType DEF ListInv
  <2>2. call \in [Threads -> {"none"} \cup Pushes \cup Takes] /\ Pushes \cap Takes = {}
    BY DEF ListInv, ListTypeOK, Pushes, Takes
  <2>3. \A u \in Threads : call'[u] = IF u = t THEN c ELSE call[u]
    BY <1>1, <1>2, <2>2
  <2> QED BY <1>1, <1>4, <2>1, <2>2, <2>3 DEF ListInv, CallInv
<1>6. Items' = Items
  BY <1>3, <1>4, SameData
<1> QED BY <1>1, <1>3, <1>4, <1>5, <1>6 DEF ListInv

LEMMA GetStep ==
  ASSUME ListInv, NEW t \in Removers, Get(t)
  PROVE  /\ ListInv' /\ Items # << >>
         /\ Items' = Items /\ out' \in {Head(Items), Items[Len(Items)]}
<1>1. /\ t \in Threads /\ call[t] \in Takes /\ call' = [call EXCEPT ![t] = "none"]
      /\ out' \in {data[rear], data[front]} /\ UNCHANGED <<head, nodes, held>>
  BY DEF Get, Takes, Call, Threads
<1>2. size \in Nat \ {0}
  BY <1>1, SizeType DEF ListInv, CallInv
<1>3. 1 \in 1..size /\ size \in 1..size /\ Cells[1] = front /\ Cells[size] = rear
  BY <1>2 DEF ListInv, Chained, IsChain
<1>4. /\ Items \in Seq(Stored) /\ Len(Items) = size
      /\ \A k \in 1..size : Items[k] = data[Cells[k]] /\ Items[k] \in Stored
  BY ItemsType DEF ListInv
<1>5. Items # << >> /\ Head(Items) = data[front] /\ Items[Len(Items)] = data[rear]
  BY <1>2, <1>3, <1>4, EmptySeq
<1>6. out' \in Stored /\ out' \in {Head(Items), Items[Len(Items)]}
  BY <1>1, <1>3, <1>4, <1>5
<1>7. ListTypeOK'
  BY <1>1, <1>6 DEF ListInv, ListTypeOK, Stored, head, nodes
<1>8. Chained' /\ HeldInv' /\ Cells' = Cells /\ size' = size /\ data' = data
  BY <1>1, <1>7, ListStands DEF head, nodes
<1>9. CallInv'
  <2>1. call \in [Threads -> {"none"} \cup Pushes \cup Takes]
    BY DEF ListInv, ListTypeOK, Pushes, Takes
  <2>2. \A u \in Threads : call'[u] = IF u = t THEN "none" ELSE call[u]
    BY <1>1, <2>1
  <2>3. "none" \notin Pushes /\ "none" \notin Takes
    BY DEF Pushes, Takes
  <2> QED BY <1>1, <1>8, <2>2, <2>3 DEF ListInv, CallInv
<1>10. Items' = Items
  BY <1>7, <1>8, SameData
<1> QED BY <1>5, <1>6, <1>7, <1>8, <1>9, <1>10 DEF ListInv

LEMMA FreeNodeStep ==
  ASSUME ListInv, NEW t \in Removers, FreeNode(t)
  PROVE  ListInv' /\ Items' = Items /\ out' = out
<1>1. /\ t \in Threads /\ held[t] # NULL /\ held' = [held EXCEPT ![t] = NULL]
      /\ used' = used \ {held[t]} /\ UNCHANGED <<pre, next, head, call, out>>
      /\ data' = [n \in Nodes |-> IF n \in {held[t]} THEN NoValue ELSE data[n]]
  BY DEF FreeNode, Free, Threads
<1>2. ListTypeOK'
  BY <1>1 DEF ListInv, ListTypeOK, head
<1>3. IsChain(Cells, size', front', rear', next', pre')
  BY <1>1 DEF ListInv, Chained, head
<1>4. Cells' = Cells /\ Chained' /\ InList' = {Cells[k] : k \in 1..size'}
  BY <1>2, <1>3, NewCells
<1>5. size' = size /\ InList' = InList
  BY <1>1, <1>4, InListIsCells DEF head
<1>6. /\ \A u \in Threads : u # t => held[u] = NULL
      /\ NULL \notin InList /\ InList \subseteq Nodes
      /\ {held[u] : u \in Threads} \ {NULL} = {held[t]} \ {NULL}
  BY HeldByRemover
<1>7. \A u \in Threads : held'[u] = NULL
  BY <1>1, <1>6 DEF ListInv, ListTypeOK
<1>8. HeldInv'
  <2>1. {held'[u] : u \in Threads} \ {NULL} = {}
    BY <1>7
  <2>2. used' = InList
    BY <1>1, <1>6 DEF ListInv, HeldInv
  <2> QED BY <1>5, <1>6, <1>7, <2>1, <2>2 DEF HeldInv
<1>9. CallInv'
  BY <1>1, <1>5, <1>7 DEF ListInv, CallInv
<1>10. Items' = Items
  <2>1. \A k \in 1..size : Cells[k] \in InList /\ Cells[k] \in Nodes
    BY <1>6, InListIsCells
  <2>2. held[t] \notin InList
    BY <1>1 DEF ListInv, HeldInv
  <2>3. \A k \in 1..size : data'[Cells[k]] = data[Cells[k]]
    BY <1>1, <2>1, <2>2
  <2> QED BY <1>2, <1>4, <1>5, <2>3, SameData
<1> QED BY <1>1, <1>2, <1>4, <1>8, <1>9, <1>10 DEF ListInv

LEMMA ClearListStep ==
  ASSUME ListInv, NEW t \in Removers, ClearList(t)
  PROVE  ListInv' /\ Items' = << >> /\ out' = out
<1>1. /\ t \in Threads /\ call[t] = "none" /\ size' = 0
      /\ used' = used \ InList /\ data' = [n \in Nodes |-> IF n \in InList THEN NoValue ELSE data[n]]
      /\ pre' = [n \in Nodes |-> IF n \in InList THEN NULL ELSE pre[n]]
      /\ next' = [n \in Nodes |-> IF n \in InList THEN NULL ELSE next[n]]
      /\ front' = (IF size = 0 THEN front ELSE next[At[size]])
      /\ UNCHANGED <<rear, call, held, out>>
  BY DEF ClearList, Free, Threads
<1>2. size # 0 => At[size] \in Nodes
  <2> SUFFICES ASSUME size # 0 PROVE At[size] \in Nodes
    OBVIOUS
  <2>1. size \in 1..size
    BY SizeType DEF ListInv
  <2>2. Cells[size] = At[size] /\ Cells[size] \in Nodes
    BY <2>1 DEF Cells, ListInv, Chained, IsChain
  <2> QED BY <2>2
<1>3. ListTypeOK'
  BY <1>1, <1>2, MaxSizeAssumption DEF ListInv, ListTypeOK
<1>4. IsChain(<< >>, size', front', rear', next', pre')
  <2>1. << >> \in [1..0 -> Nodes] /\ 1..0 = {} /\ 1..(0 - 1) = {}
    OBVIOUS
  <2> QED BY <1>1, <2>1 DEF IsChain
<1>5. Cells' = << >> /\ Chained' /\ InList' = {}
  <2>1. 1..size' = {}
    BY <1>1
  <2> QED BY <1>3, <1>4, <2>1, NewCells
<1>6. HeldInv'
  BY <1>1, <1>5 DEF ListInv, HeldInv
<1>7. CallInv'
  <2>1. maxsize \in Nat \ {0}
    BY MaxSizeAssumption
  <2>2. \A u \in Threads : call[u] \notin Takes
    BY <1>1, HeldByRemover DEF Takes
  <2> QED BY <1>1, <2>1, <2>2 DEF ListInv, CallInv
<1>8. Items' = << >>
  <2>1. << >> \in Seq(Stored) /\ Len(<< >>) = 0 /\ 1..0 = {}
    BY EmptySeq
  <2> QED BY <1>1, <1>3, <1>5, <2>1, SameItems
<1> QED BY <1>1, <1>3, <1>5, <1>6, <1>7, <1>8 DEF ListInv

-----------------------------------------------------------------------------
LEMMA ListInitInv == ListInit => ListInv /\ Items = << >> /\ out = NoValue
<1> SUFFICES ASSUME ListInit PROVE ListInv /\ Items = << >> /\ out = NoValue
  OBVIOUS
<1>1. ListTypeOK
  BY MaxSizeAssumption DEF ListInit, ListTypeOK
<1>2. size = 0 /\ 1..0 = {} /\ 1..(0 - 1) = {} /\ out = NoValue
  BY DEF ListInit
<1>3. Cells = << >> /\ Items = << >> /\ InList = {}
  BY <1>2 DEF Cells, Items, InList
<1>4. Chained
  BY <1>2, <1>3 DEF Chained, IsChain
<1>5. CallInv
  BY DEF ListInit, CallInv, Pushes, Takes
<1>6. HeldInv
  BY <1>3, NullAssumption DEF ListInit, HeldInv
<1> QED BY <1>1, <1>2, <1>3, <1>4, <1>5, <1>6 DEF ListInv

(* A step of the deque that keeps items, or one of its calls.              *)
ListStep == \/ UNCHANGED <<Items, out>>
            \/ /\ Len(Items) < maxsize /\ out' = out
               /\ \E v \in Values : Items' \in {<<v>> \o Items, Append(Items, v)}
            \/ /\ Items # << >>
               /\ \/ out' = Head(Items) /\ Items' = Tail(Items)
                  \/ out' = Items[Len(Items)] /\ Items' = SubSeq(Items, 1, Len(Items) - 1)
                  \/ out' \in {Head(Items), Items[Len(Items)]} /\ Items' = Items
            \/ Items' = << >> /\ out' = out

LEMMA ListNextStep == ListInv /\ [ListNext]_listVars => ListInv' /\ ListStep
<1> SUFFICES ASSUME ListInv, [ListNext]_listVars PROVE ListInv' /\ ListStep
  OBVIOUS
<1>1. ASSUME NEW t \in Adders, AskFull(t) PROVE ListInv' /\ ListStep
  BY <1>1, AskFullStep DEF ListStep
<1>2. ASSUME NEW t \in Adders, NEW n \in Nodes, NEW v \in Values, PushBackData(t, n, v)
      PROVE  ListInv' /\ ListStep
  BY <1>2, PushBackStep DEF ListStep
<1>3. ASSUME NEW t \in Adders, NEW n \in Nodes, NEW v \in Values, PushFrontData(t, n, v)
      PROVE  ListInv' /\ ListStep
  BY <1>3, PushFrontStep DEF ListStep
<1>4. ASSUME NEW t \in Removers, AskEmpty(t) PROVE ListInv' /\ ListStep
  BY <1>4, AskEmptyStep DEF ListStep
<1>5. ASSUME NEW t \in Removers, PopBack(t) PROVE ListInv' /\ ListStep
  BY <1>5, PopBackStep DEF ListStep
<1>6. ASSUME NEW t \in Removers, PopFront(t) PROVE ListInv' /\ ListStep
  BY <1>6, PopFrontStep DEF ListStep
<1>7. ASSUME NEW t \in Removers, Get(t) PROVE ListInv' /\ ListStep
  BY <1>7, GetStep DEF ListStep
<1>8. ASSUME NEW t \in Removers, FreeNode(t) PROVE ListInv' /\ ListStep
  BY <1>8, FreeNodeStep DEF ListStep
<1>9. ASSUME NEW t \in Removers, ClearList(t) PROVE ListInv' /\ ListStep
  BY <1>9, ClearListStep DEF ListStep
<1>10. ASSUME UNCHANGED listVars PROVE ListInv' /\ ListStep
  <2>1. ListTypeOK' /\ CallInv' /\ UNCHANGED <<head, pre, next, used, held, data, out>>
    BY <1>10 DEF ListInv, ListTypeOK, CallInv, listVars, head, nodes
  <2>2. Chained' /\ HeldInv' /\ Cells' = Cells /\ size' = size
    BY <2>1, ListStands
  <2>3. Items' = Items
    BY <2>1, <2>2, SameData
  <2> QED BY <2>1, <2>2, <2>3 DEF ListInv, ListStep
<1> QED BY <1>1, <1>2, <1>3, <1>4, <1>5, <1>6, <1>7, <1>8, <1>9, <1>10
        DEF ListNext, Adding, Removing

LEMMA ListInvHolds == ListSpec => []ListInv
<1>1. ListInit => ListInv
  BY ListInitInv
<1>2. ListInv /\ [ListNext]_listVars => ListInv'
  BY ListNextStep
<1> QED BY <1>1, <1>2, PTL DEF ListSpec

(* Within its size the list is linked both ways over different allocated   *)
(* nodes, and every other allocated node is held by the caller of a pop    *)
(* (list.c:169-383), for lists of any length.                              *)
THEOREM LinksAlwaysAgree == ListSpec => []LinksAgree
<1>1. ListInv => LinksAgree
  <2> SUFFICES ASSUME ListInv PROVE LinksAgree
    OBVIOUS
  <2>1. /\ size \in Nat /\ \A k \in 1..size : Cells[k] = At[k]
        /\ \A k \in 1..(size - 1) : k \in 1..size /\ k + 1 \in 1..size
        /\ size > 0 => size \in 1..size
    BY SizeType DEF ListInv, Cells
  <2>2. size > 0 => rear = At[size]
    BY <2>1 DEF ListInv, Chained, IsChain
  <2>3. \A k \in 1..(size - 1) : pre[At[k + 1]] = At[k]
    BY <2>1 DEF ListInv, Chained, IsChain
  <2>4. Cardinality(InList) = size
    <3>1. Cells \in [1..size -> InList] /\ \A x \in InList : \E k \in 1..size : Cells[k] = x
      BY InListIsCells DEF Cells
    <3>2. \A j, k \in 1..size : Cells[j] = Cells[k] => j = k
      BY DEF ListInv, Chained, IsChain
    <3>3. Cells \in Bijection(1..size, InList)
      BY <3>1, <3>2 DEF Bijection, Injection, Surjection, IsInjective
    <3>4. ExistsBijection(1..size, InList)
      BY <3>3 DEF ExistsBijection
    <3> QED BY <2>1, <3>4, FS_CountingElements
  <2> QED BY <2>2, <2>3, <2>4 DEF ListInv, HeldInv, LinksAgree
<1> QED BY <1>1, ListInvHolds, PTL

(* The two steps of a call, the question and the change, are one on a      *)
(* bounded deque, for one thread that adds and one that removes            *)
(* (list.c:180-460).                                                       *)
THEOREM ListImplementsDeque == ListSpec => ImplementsDeque
<1>1. ListInit => Deque!Init
  BY ListInitInv DEF Deque!Init, Items
<1>2. ListInv /\ [ListNext]_listVars => [Deque!Next]_<<Items, out>>
  <2> SUFFICES ASSUME ListStep PROVE [Deque!Next]_<<Items, out>>
    BY ListNextStep
  <2> QED BY DEF ListStep, Items, Deque!Next, Deque!Add, Deque!TakeFront, Deque!TakeBack, Deque!Get, Deque!Clear
<1> QED BY <1>1, <1>2, ListInvHolds, PTL DEF ListSpec, ImplementsDeque, Deque!Spec, Items

-----------------------------------------------------------------------------
(* THE SET-UP OF THE PHY, for any number of polls and any registers.        *)

(* The accesses one by one.                                                *)
LEMMA Accesses ==
  /\ Len(Script) = 16
  /\ Script[1] = Read(<<0, 2>>) /\ Script[15] = Read(<<0, 2>>)
  /\ Script[2] = Read(<<0, 3>>) /\ Script[16] = Read(<<0, 3>>)
  /\ Script[3] = Read(Timing) /\ Script[5] = Read(Timing)
  /\ Script[4] = Write(Timing, Delays)
  /\ Script[6] = Read(Control) /\ Script[8] = Read(Control) /\ Script[13] = Read(Control)
  /\ Script[7] = Write(Control, Autonegotiate)
  /\ Script[9] = Write(Control, Reset) /\ Script[14] = Write(Control, Reset)
  /\ Script[10] = Read(Status) /\ Script[11] = Read(Speed) /\ Script[12] = Write(Speed, {})
<1>1. Len(Script) = 16
  BY DEF Script
<1>2. /\ Script[1] = Read(<<0, 2>>) /\ Script[15] = Read(<<0, 2>>)
      /\ Script[2] = Read(<<0, 3>>) /\ Script[16] = Read(<<0, 3>>)
  BY DEF Script
<1>3. /\ Script[3] = Read(Timing) /\ Script[5] = Read(Timing)
      /\ Script[4] = Write(Timing, Delays)
  BY DEF Script
<1>4. Script[6] = Read(Control) /\ Script[8] = Read(Control) /\ Script[13] = Read(Control)
  BY DEF Script
<1>5. /\ Script[7] = Write(Control, Autonegotiate)
      /\ Script[9] = Write(Control, Reset) /\ Script[14] = Write(Control, Reset)
  BY DEF Script
<1>6. Script[10] = Read(Status) /\ Script[11] = Read(Speed) /\ Script[12] = Write(Speed, {})
  BY DEF Script
<1> QED BY <1>1, <1>2, <1>3, <1>4, <1>5, <1>6

LEMMA Registers ==
  /\ {Control, Status, Timing, Speed} \cup ChipId \subseteq Regs
  /\ Control # Status /\ Control # Timing /\ Control # Speed
  /\ Status # Timing /\ Status # Speed /\ Timing # Speed
  /\ Control \notin ChipId /\ Status \notin ChipId /\ Timing \notin ChipId /\ Speed \notin ChipId
BY DEF Regs, ChipId, Control, Status, Timing, Speed

(* By its number, what an access is.                                       *)
LEMMA AccessAt ==
  ASSUME NEW k \in 1..16
  PROVE  /\ Script[k].op \in {"read", "write"} /\ Script[k].at \in Regs
         /\ Script[k].op = "write" <=> k \in {4, 7, 9, 12, 14}
         /\ Script[k].op = "write" => Script[k].set \in SUBSET (0..15)
         /\ k \in {3, 4, 5} <=> Script[k].at = Timing
         /\ k \in {6, 7, 8, 9, 13, 14} <=> Script[k].at = Control
         /\ k = 10 <=> Script[k].at = Status
         /\ k \in {11, 12} <=> Script[k].at = Speed
         /\ k \in {1, 2, 15, 16} <=> Script[k].at \in ChipId
         /\ k = 4 => Script[k].set = Delays
         /\ k = 7 => Script[k].set = Autonegotiate
         /\ k \in {9, 14} => Script[k].set = Reset
         /\ k = 11 <=> Script[k] = Read(Speed)
<1>1. \A r : Read(r).op = "read" /\ Read(r).at = r
  BY DEF Read
<1>2. \A r, bits : Write(r, bits).op = "write" /\ Write(r, bits).at = r /\ Write(r, bits).set = bits
  BY DEF Write
<1>4. Delays \in SUBSET (0..15) /\ Autonegotiate \in SUBSET (0..15) /\ Reset \in SUBSET (0..15)
  BY DEF Delays, Autonegotiate, Reset
<1>5. <<0, 2>> \in ChipId /\ <<0, 3>> \in ChipId
  BY DEF ChipId
<1>6. CASE k \in {1, 2, 15, 16}
  BY <1>1, <1>5, <1>6, Accesses, Registers
<1>7. CASE k \in {3, 5}
  BY <1>1, <1>7, Accesses, Registers
<1>8. CASE k = 4
  <2>1. Script[k] = Write(Timing, Delays)
    BY <1>8, Accesses
  <2>2. Script[k].op = "write" /\ Script[k].at = Timing /\ Script[k].set = Delays
    BY <2>1 DEF Write
  <2>3. Script[k] # Read(Speed)
    BY <1>1, <2>2
  <2> QED BY <1>4, <1>8, <2>2, <2>3, Registers
<1>9. CASE k \in {6, 8, 13}
  BY <1>1, <1>9, Accesses, Registers
<1>10. CASE k = 7
  <2>1. Script[k] = Write(Control, Autonegotiate)
    BY <1>10, Accesses
  <2>2. Script[k].op = "write" /\ Script[k].at = Control /\ Script[k].set = Autonegotiate
    BY <2>1 DEF Write
  <2>3. Script[k] # Read(Speed)
    BY <1>1, <2>2
  <2> QED BY <1>4, <1>10, <2>2, <2>3, Registers
<1>11. CASE k \in {9, 14}
  <2>1. Script[k] = Write(Control, Reset)
    BY <1>11, Accesses
  <2>2. Script[k].op = "write" /\ Script[k].at = Control /\ Script[k].set = Reset
    BY <2>1 DEF Write
  <2>3. Script[k] # Read(Speed)
    BY <1>1, <2>2
  <2> QED BY <1>4, <1>11, <2>2, <2>3, Registers
<1>12. CASE k = 10
  BY <1>1, <1>12, Accesses, Registers
<1>13. CASE k = 11
  BY <1>1, <1>13, Accesses, Registers
<1>14. CASE k = 12
  BY <1>1, <1>2, <1>4, <1>14, Accesses, Registers
<1> QED BY <1>6, <1>7, <1>8, <1>9, <1>10, <1>11, <1>12, <1>13, <1>14

-----------------------------------------------------------------------------
(* Types.                                                                  *)

Commands == [op : {"none", "read", "write"}, at : Regs]

PhyTypeInv ==
    /\ reg \in [Regs -> SUBSET (0..15)] /\ mdioData \in SUBSET (0..15)
    /\ busy \in BOOLEAN /\ stuck \in BOOLEAN /\ overran \in Nat
    /\ phyPc \in {"map", "killed", "before", "put", "after", "returned"}
    /\ step \in 1..16 /\ count \in 0..Polls
    /\ PhyReg0 \in SUBSET (0..15) /\ PhyReg8 \in SUBSET (0..15) /\ line17 \in SUBSET (0..15)
    /\ ret \in {"none", "TRUE", "FALSE"}
    /\ command \in Commands
    /\ first \in [Regs -> SUBSET (0..15)]
    /\ phyPc = "put" => Access.op = "write"

LEMMA PhyTypes == PhyTypeInv => PhyTypeOK
BY Accesses DEF PhyTypeInv, PhyTypeOK

LEMMA StartType ==
  ASSUME PhyTypeInv, Start
  PROVE  /\ mdioData' \in SUBSET (0..15) /\ busy' \in BOOLEAN /\ stuck' \in BOOLEAN
         /\ command' \in Commands
<1>1. Access.op \in {"read", "write"} /\ Access.at \in Regs
  BY AccessAt DEF Access, PhyTypeInv
<1>2. [op |-> Access.op, at |-> Access.at] \in Commands
  BY <1>1 DEF Commands
<1> QED BY <1>2 DEF Start, PhyTypeInv

LEMMA KeepType ==
  ASSUME PhyTypeInv, Keep(mdioData)
  PROVE  PhyReg0' \in SUBSET (0..15) /\ PhyReg8' \in SUBSET (0..15) /\ line17' \in SUBSET (0..15)
<1>1. WithSpeed(mdioData, PhyReg0) \in SUBSET (0..15)
  BY DEF WithSpeed, SpeedBits, PhyTypeInv
<1> QED BY <1>1 DEF Keep, PhyTypeInv

LEMMA ValueType ==
  ASSUME PhyTypeInv, Access.op = "write"
  PROVE  Value \in SUBSET (0..15)
<1>1. Access.set \in SUBSET (0..15)
  BY AccessAt DEF Access, PhyTypeInv
<1> QED BY <1>1 DEF Value, PhyTypeInv

LEMMA PhyTypeInit == PhyInit => PhyTypeInv
<1>1. Control \in Regs
  BY Registers
<1>2. Idle \in Commands
  BY <1>1 DEF Idle, Commands
<1>3. Blank \in [Regs -> SUBSET (0..15)]
  BY DEF Blank
<1>4. Polls \in Nat
  BY PhyAssumption
<1>5. {} \in SUBSET (0..15)
  OBVIOUS
<1> SUFFICES ASSUME PhyInit PROVE PhyTypeInv
  OBVIOUS
<1>6. /\ reg \in [Regs -> SUBSET (0..15)] /\ first \in [Regs -> SUBSET (0..15)]
      /\ command \in Commands
  BY <1>2, <1>3 DEF PhyInit
<1>7. /\ mdioData \in SUBSET (0..15) /\ PhyReg0 \in SUBSET (0..15)
      /\ PhyReg8 \in SUBSET (0..15) /\ line17 \in SUBSET (0..15)
  BY <1>5 DEF PhyInit
<1>8. busy = FALSE /\ stuck = FALSE /\ overran = 0 /\ phyPc = "map" /\ step = 1 /\ count = 0 /\ ret = "none"
  BY DEF PhyInit
<1>9. busy \in BOOLEAN /\ stuck \in BOOLEAN
  BY <1>8, Zenon
<1>10. overran \in Nat /\ step \in 1..16 /\ count \in 0..Polls
  BY <1>4, <1>8
<1> QED BY <1>6, <1>7, <1>8, <1>9, <1>10 DEF PhyTypeInv

LEMMA PhyTypeStep == PhyTypeInv /\ [PhyNext]_phyVars => PhyTypeInv'
<1> SUFFICES ASSUME PhyTypeInv, [PhyNext]_phyVars PROVE PhyTypeInv'
  OBVIOUS
<1>p. Polls \in Nat \ {0} /\ PowerOn \subseteq [Regs -> SUBSET (0..15)]
  BY PhyAssumption
<1>o. overran \in Nat /\ (GoesOn => overran' \in Nat)
  BY DEF PhyTypeInv, GoesOn
<1>1. CASE MapRegisters
  BY <1>p, <1>1 DEF MapRegisters, PollsLeft, bus, PhyTypeInv
<1>2. CASE Poll
  BY <1>p, <1>2 DEF Poll, Waiting, bus, Access, PhyTypeInv
<1>3. CASE PutData
  <2>1. mdioData' \in SUBSET (0..15)
    BY <1>3, ValueType DEF PutData
  <2>2. phyPc' = "put" /\ Access'.op = "write" /\ overran' \in Nat
    BY <1>o, <1>3 DEF PutData, PhyAt, Access
  <2> QED BY <1>3, <2>1, <2>2 DEF PutData, PhyTypeInv
<1>4. CASE StartAccess
  <2>1. /\ mdioData' \in SUBSET (0..15) /\ busy' \in BOOLEAN /\ stuck' \in BOOLEAN
        /\ command' \in Commands
    BY <1>4, StartType DEF StartAccess
  <2>2. phyPc' = "after" /\ overran' \in Nat
    BY <1>o, <1>4 DEF StartAccess, PhyAt
  <2> QED BY <1>p, <1>4, <2>1, <2>2 DEF StartAccess, PollsLeft, PhyTypeInv
<1>5. CASE AccessOver
  <2>1. step \in 1..16 /\ UNCHANGED <<reg, bus, first>> /\ Len(Script) = 16 /\ overran' \in Nat
    BY <1>o, <1>5, Accesses DEF AccessOver, PhyTypeInv
  <2>2. PhyReg0' \in SUBSET (0..15) /\ PhyReg8' \in SUBSET (0..15) /\ line17' \in SUBSET (0..15)
    BY <1>5, KeepType DEF AccessOver, PhyTypeInv
  <2>3. /\ phyPc' \in {"before", "returned"} /\ step' \in 1..16
        /\ count' \in 0..Polls /\ ret' \in {"none", "TRUE", "FALSE"}
    BY <1>p, <1>5, <2>1 DEF AccessOver, GoOn, PollsLeft, PhyTypeInv
  <2> QED BY <1>p, <2>1, <2>2, <2>3 DEF bus, PhyTypeInv
<1>9. CASE Hardware(AccessEnds)
  <2>1. command.at \in Regs /\ reg[command.at] \in SUBSET (0..15)
    BY DEF PhyTypeInv, Commands
  <2>2. reg' \in [Regs -> SUBSET (0..15)] /\ mdioData' \in SUBSET (0..15)
    BY <1>9, <2>1 DEF Hardware, AccessEnds, PhyTypeInv
  <2> QED BY <1>p, <1>9, <2>2 DEF Hardware, AccessEnds, Access, PhyTypeInv
<1>10. CASE Hardware(GetsStuck)
  BY <1>p, <1>10 DEF Hardware, GetsStuck, Access, PhyTypeInv
<1>11. CASE Hardware(ResetEnds)
  <2>1. reg' \in [Regs -> SUBSET (0..15)]
    BY <1>11, Registers DEF Hardware, ResetEnds, PhyTypeInv
  <2> QED BY <1>p, <1>11, <2>1 DEF Hardware, ResetEnds, bus, Access, PhyTypeInv
<1>12. CASE Hardware(LineChanges)
  <2>1. PICK s \in SUBSET {14, 15} : reg' = [reg EXCEPT ![Status] = (@ \ {14, 15}) \cup s]
    BY <1>12 DEF Hardware, LineChanges
  <2>2. (reg[Status] \ {14, 15}) \cup s \in SUBSET (0..15)
    <3>1. reg[Status] \in SUBSET (0..15)
      BY Registers DEF PhyTypeInv
    <3>2. {14, 15} \in SUBSET (0..15)
      OBVIOUS
    <3> QED BY <3>1, <3>2
  <2>3. reg' \in [Regs -> SUBSET (0..15)]
    BY <2>1, <2>2 DEF PhyTypeInv
  <2> QED BY <1>p, <1>12, <2>3 DEF Hardware, LineChanges, bus, Access, PhyTypeInv
<1>13. CASE UNCHANGED phyVars
  BY <1>13 DEF phyVars, bus, Access, PhyTypeInv
<1> QED BY <1>1, <1>2, <1>3, <1>4, <1>5, <1>9, <1>10, <1>11, <1>12, <1>13
        DEF PhyNext, Program

-----------------------------------------------------------------------------
(* What holds even when SetEth went on with a busy bus: only three         *)
(* registers are written, and the result is that of the test.              *)

Known == LineSpeed(line17) \in {Gigabit, Megabit100}

AlwaysInv ==
    /\ command.op = "write" => command.at \in {Timing, Control, Speed}
    /\ \A r \in ChipId : reg[r] = first[r]
    /\ step \in {11, 12} => PhyReg0 = line17
    /\ step \in 12..16 => Known
    /\ phyPc # "returned" => ret = "none"
    /\ phyPc = "returned" => /\ ret \in {"TRUE", "FALSE"} /\ (ret = "TRUE" <=> Known)
                             /\ step = IF ret = "TRUE" THEN 16 ELSE 11

(* What the end of an access leaves in the locals, by its number.          *)
LEMMA Kept ==
  ASSUME step \in 1..16,
         IF Access.op = "read" THEN Keep(mdioData) ELSE UNCHANGED <<PhyReg0, PhyReg8, line17>>
  PROVE  /\ step \in {3, 6, 8, 13} => PhyReg0' = mdioData
         /\ step = 10 => PhyReg0' = mdioData /\ line17' = mdioData
         /\ step = 11 => PhyReg8' = WithSpeed(mdioData, PhyReg0) /\ PhyReg0' = PhyReg0
         /\ step # 10 => line17' = line17
<1>a. Access = Script[step]
  BY DEF Access
<1>1. CASE step \in {3, 6, 8, 13}
  <2>1. /\ Access.op = "read" /\ Access.at \notin ChipId
        /\ Access.at # Status /\ Access.at # Speed
    BY <1>a, <1>1, AccessAt, Registers
  <2> QED BY <1>1, <2>1 DEF Keep
<1>2. CASE step = 10
  <2>1. Access.op = "read" /\ Access.at = Status
    BY <1>a, <1>2, AccessAt
  <2>2. Keep(mdioData) /\ Status \notin ChipId
    BY <2>1, Registers
  <2>3. PhyReg0' = mdioData /\ line17' = mdioData
    BY <2>1, <2>2, Registers DEF Keep
  <2> QED BY <1>2, <2>3
<1>3. CASE step = 11
  <2>1. Access.op = "read" /\ Access.at = Speed
    BY <1>a, <1>3, AccessAt
  <2>2. Keep(mdioData) /\ Speed \notin ChipId /\ Speed # Status
    BY <2>1, Registers
  <2> QED BY <1>3, <2>1, <2>2 DEF Keep
<1>4. CASE step \notin {3, 6, 8, 13, 10, 11}
  <2>1. Access.at # Status
    BY <1>a, <1>4, AccessAt
  <2> QED BY <1>4, <2>1 DEF Keep
<1> QED BY <1>1, <1>2, <1>3, <1>4

LEMMA AlwaysInit == PhyInit => AlwaysInv
BY DEF PhyInit, AlwaysInv, Idle, Blank

(* The writes of the script.                                               *)
LEMMA OnlyThree ==
  ASSUME PhyTypeInv, Access.op = "write"
  PROVE  Access.at \in {Timing, Control, Speed}
<1>1. step \in 1..16 /\ Access = Script[step]
  BY DEF PhyTypeInv, Access
<1>2. step \in {4, 7, 9, 12, 14}
  BY <1>1, AccessAt
<1> QED BY <1>1, <1>2, AccessAt

LEMMA AlwaysStep == PhyTypeInv /\ AlwaysInv /\ [PhyNext]_phyVars => AlwaysInv'
<1> SUFFICES ASSUME PhyTypeInv, AlwaysInv, [PhyNext]_phyVars PROVE AlwaysInv'
  OBVIOUS
<1>1. CASE MapRegisters
  <2>1. (reg' = reg /\ first' = first) \/ reg' = first'
    BY <1>1 DEF MapRegisters
  <2>2. phyPc = "map" /\ phyPc' \in {"before", "killed"}
        /\ UNCHANGED <<command, step, PhyReg0, line17, ret>>
    BY <1>1 DEF MapRegisters, bus
  <2> QED BY <2>1, <2>2 DEF AlwaysInv, Known
<1>2. CASE Poll
  BY <1>2 DEF Poll, Waiting, bus, AlwaysInv, Known
<1>3. CASE PutData
  BY <1>3 DEF PutData, PhyAt, AlwaysInv, Known
<1>4. CASE StartAccess
  <2>1. command'.op = "write" => command'.at \in {Timing, Control, Speed}
    <3>1. command' = [op |-> Access.op, at |-> Access.at] \/ command' = command
      BY <1>4 DEF StartAccess, Start
    <3> QED BY <3>1, OnlyThree DEF AlwaysInv
  <2>2. phyPc \in {"before", "put"} /\ phyPc' = "after"
        /\ UNCHANGED <<reg, first, step, PhyReg0, line17, ret>>
    BY <1>4 DEF StartAccess, PhyAt
  <2> QED BY <2>1, <2>2 DEF AlwaysInv, Known
<1>5. CASE AccessOver
  <2>1. step \in 1..16 /\ phyPc = "after" /\ UNCHANGED <<reg, command, first>> /\ ret = "none"
    BY <1>5 DEF AccessOver, PhyTypeInv, AlwaysInv, bus
  <2>2. /\ step = 10 => PhyReg0' = mdioData /\ line17' = mdioData
        /\ step = 11 => PhyReg0' = PhyReg0
        /\ step # 10 => line17' = line17
    BY <1>5, <2>1, Kept DEF AccessOver
  <2>3. NoSpeed <=> step = 11 /\ ~Known
    <3>1. Access = Script[step]
      BY DEF Access
    <3>2. NoSpeed <=> step = 11 /\ LineSpeed(PhyReg0) \notin {Gigabit, Megabit100}
      BY <2>1, <3>1, AccessAt DEF NoSpeed
    <3> QED BY <3>2 DEF AlwaysInv, Known
  <2>4. CASE NoSpeed
    <3>1. phyPc' = "returned" /\ ret' = "FALSE" /\ step' = 11 /\ step = 11
      BY <1>5, <2>3, <2>4 DEF AccessOver
    <3>2. Known' <=> Known
      BY <2>2, <3>1 DEF Known
    <3>3. PhyReg0' = line17'
      BY <2>2, <3>1 DEF AlwaysInv
    <3> QED BY <2>1, <2>3, <2>4, <3>1, <3>2, <3>3 DEF AlwaysInv
  <2>5. CASE ~NoSpeed /\ step = 16
    <3>1. phyPc' = "returned" /\ ret' = "TRUE" /\ step' = 16
      BY <1>5, <2>5, Accesses DEF AccessOver
    <3>2. Known /\ Known'
      BY <2>2, <2>5 DEF Known, AlwaysInv
    <3> QED BY <2>1, <3>1, <3>2 DEF AlwaysInv
  <2>6. CASE ~NoSpeed /\ step # 16
    <3>1. phyPc' = "before" /\ ret' = "none" /\ step' = step + 1
      BY <1>5, <2>1, <2>6, Accesses DEF AccessOver, GoOn
    <3>2. step # 10 => (Known' <=> Known)
      BY <2>2 DEF Known
    <3>3. step' \in 12..16 => Known'
      BY <2>1, <2>3, <2>6, <3>1, <3>2 DEF AlwaysInv
    <3>4. step' \in {11, 12} => PhyReg0' = line17'
      BY <2>1, <2>2, <3>1 DEF AlwaysInv
    <3> QED BY <2>1, <3>1, <3>3, <3>4 DEF AlwaysInv
  <2> QED BY <2>4, <2>5, <2>6
<1>9. CASE Hardware(AccessEnds)
  <2>1. \A r \in ChipId : reg'[r] = reg[r]
    BY <1>9, Registers DEF Hardware, AccessEnds, AlwaysInv, PhyTypeInv
  <2> QED BY <1>9, <2>1 DEF Hardware, AccessEnds, AlwaysInv, Known
<1>10. CASE Hardware(GetsStuck)
  BY <1>10 DEF Hardware, GetsStuck, AlwaysInv, Known
<1>11. CASE Hardware(ResetEnds)
  <2>1. \A r \in ChipId : reg'[r] = reg[r]
    BY <1>11, Registers DEF Hardware, ResetEnds, PhyTypeInv
  <2> QED BY <1>11, <2>1 DEF Hardware, ResetEnds, bus, AlwaysInv, Known
<1>12. CASE Hardware(LineChanges)
  <2>1. \A r \in ChipId : reg'[r] = reg[r]
    BY <1>12, Registers DEF Hardware, LineChanges, PhyTypeInv
  <2> QED BY <1>12, <2>1 DEF Hardware, LineChanges, bus, AlwaysInv, Known
<1>13. CASE UNCHANGED phyVars
  BY <1>13 DEF phyVars, bus, AlwaysInv, Known
<1> QED BY <1>1, <1>2, <1>3, <1>4, <1>5, <1>9, <1>10, <1>11, <1>12, <1>13
        DEF PhyNext, Program

-----------------------------------------------------------------------------
(* What has been done by each access, as long as nothing overran.          *)

Clean == overran = 0
Mapped == phyPc \notin {"map", "killed"}

(* The access that was started last, and which have ended.  One that wrote *)
(* may still go on when SetEth is before the next.                         *)
Cur == IF phyPc \in {"before", "put"} THEN step - 1 ELSE step
Past(k) == Cur > k \/ (Cur = k /\ ~busy)

(* Bits but for the reset, which the PHY takes back.                       *)
Sans(bits) == bits \ Reset
Delayed == first[Timing] \cup Delays
Negotiated == Sans(first[Control] \cup Autonegotiate)
NewSpeed == WithSpeed(first[Speed], line17)

RegInv ==
    /\ reg[Timing] = IF Past(4) THEN Delayed ELSE first[Timing]
    /\ Sans(reg[Control]) = IF Past(7) THEN Negotiated ELSE Sans(first[Control])
    /\ reg[Speed] = IF Past(12) THEN NewSpeed ELSE first[Speed]

(* The locals, at the accesses that use them.                              *)
LocalInv ==
    /\ step = 4 => PhyReg0 = first[Timing]
    /\ step = 7 => Sans(PhyReg0) = Sans(first[Control])
    /\ step \in {9, 14} => Sans(PhyReg0) = Negotiated
    /\ step = 12 => PhyReg8 = NewSpeed

(* What the bus holds for the write number k.                              *)
WriteData(k) ==
    /\ k = 4 => mdioData = Delayed
    /\ k \in {7, 9, 14} => Sans(mdioData) = Negotiated
    /\ k = 12 => mdioData = NewSpeed

(* The data on the bus: of a write until it ends, of a read from then on.  *)
BusInv ==
    /\ phyPc \in {"put", "returned"} => ~busy
    /\ busy => /\ Cur \in 1..16 /\ WriteData(Cur)
               /\ command = [op |-> Script[Cur].op, at |-> Script[Cur].at]
               /\ phyPc = "before" => Script[Cur].op = "write"
    /\ phyPc = "put" => WriteData(step)
    /\ phyPc = "after" /\ ~busy => /\ step = 3 => mdioData = first[Timing]
                                   /\ step = 6 => Sans(mdioData) = Sans(first[Control])
                                   /\ step \in {8, 13} => Sans(mdioData) = Negotiated
                                   /\ step = 11 => mdioData = first[Speed]

Course == RegInv /\ LocalInv /\ BusInv

PhyInv ==
    /\ PhyTypeInv /\ AlwaysInv
    /\ phyPc = "map" => ~busy /\ step = 1
    /\ Clean /\ Mapped => Course

LEMMA Bits ==
  /\ Delayed = first[Timing] \cup Delays
  /\ \A b : Sans(b) = Sans(first[Control]) => Sans(b \cup Autonegotiate) = Negotiated
  /\ \A b : Sans(b \cup Reset) = Sans(b) /\ Sans(b \ Reset) = Sans(b)
BY DEF Delayed, Negotiated, Sans, Autonegotiate, Reset

(* What PutData writes, by the access.                                     *)
LEMMA ValueWritten ==
  ASSUME LocalInv, step \in 1..16, Access.op = "write"
  PROVE  /\ step = 4 => Value = Delayed
         /\ step \in {7, 9, 14} => Sans(Value) = Negotiated
         /\ step = 12 => Value = NewSpeed
<1>1. /\ Access.at = Speed <=> step \in {11, 12}
      /\ step = 4 => Access.set = Delays
      /\ step = 7 => Access.set = Autonegotiate
      /\ step \in {9, 14} => Access.set = Reset
      /\ step # 11
  BY AccessAt DEF Access
<1>2. step # 12 => Value = PhyReg0 \cup Access.set
  BY <1>1 DEF Value
<1>3. CASE step = 4
  BY <1>1, <1>2, <1>3, Bits DEF LocalInv
<1>4. CASE step = 7
  BY <1>1, <1>2, <1>4, Bits DEF LocalInv
<1>5. CASE step \in {9, 14}
  BY <1>1, <1>2, <1>5, Bits DEF LocalInv
<1>6. CASE step = 12
  BY <1>1, <1>6 DEF Value, LocalInv
<1> QED BY <1>3, <1>4, <1>5, <1>6

LEMMA RegStays ==
  ASSUME RegInv, UNCHANGED <<reg, first>>,
         Past(4)' <=> Past(4), Past(7)' <=> Past(7), Past(12)' <=> Past(12),
         Past(12)' => line17' = line17
  PROVE  RegInv'
<1>1. Delayed' = Delayed /\ Negotiated' = Negotiated
  BY DEF Delayed, Negotiated
<1>2. Past(12)' => NewSpeed' = NewSpeed
  BY DEF NewSpeed
<1>3. reg'[Timing] = IF Past(4)' THEN Delayed' ELSE first'[Timing]
  BY <1>1 DEF RegInv
<1>4. Sans(reg'[Control]) = IF Past(7)' THEN Negotiated' ELSE Sans(first'[Control])
  BY <1>1 DEF RegInv
<1>5. reg'[Speed] = IF Past(12)' THEN NewSpeed' ELSE first'[Speed]
  BY <1>2 DEF RegInv
<1> QED BY <1>3, <1>4, <1>5 DEF RegInv

LEMMA OnlyReg ==
  ASSUME Course, RegInv',
         UNCHANGED <<busy, command, mdioData, first, phyPc, step, PhyReg0, PhyReg8, line17>>
  PROVE  Course'
<1>1. Delayed' = Delayed /\ Negotiated' = Negotiated /\ NewSpeed' = NewSpeed /\ Cur' = Cur
  BY DEF Delayed, Negotiated, NewSpeed, Cur
<1>2. LocalInv'
  BY <1>1 DEF Course, LocalInv
<1>3. BusInv'
  BY <1>1 DEF Course, BusInv, WriteData
<1> QED BY <1>2, <1>3 DEF Course

LEMMA NothingChanges ==
  ASSUME Course,
         UNCHANGED <<reg, busy, command, mdioData, first, phyPc, step, PhyReg0, PhyReg8, line17>>
  PROVE  Course'
<1>1. /\ Past(4)' <=> Past(4)
      /\ Past(7)' <=> Past(7)
      /\ Past(12)' <=> Past(12)
  BY DEF Past, Cur
<1>2. RegInv'
  BY <1>1, RegStays DEF Course
<1> QED BY <1>2, OnlyReg

LEMMA AccessEndsInv ==
  ASSUME PhyTypeInv, AlwaysInv, Course, Mapped, Hardware(AccessEnds)
  PROVE  Course'
<1>1. /\ UNCHANGED <<first, phyPc, step, PhyReg0, PhyReg8, line17, ret>>
      /\ busy /\ ~busy' /\ UNCHANGED command
      /\ IF command.op = "write" THEN reg' = [reg EXCEPT ![command.at] = mdioData] /\ UNCHANGED mdioData
                                 ELSE mdioData' = reg[command.at] /\ UNCHANGED reg
  BY DEF Hardware, AccessEnds, PhyTypeInv
<1>2. /\ Cur \in 1..16 /\ WriteData(Cur) /\ phyPc \notin {"put", "returned"}
      /\ command.op = Script[Cur].op /\ command.at = Script[Cur].at
      /\ phyPc = "before" => Script[Cur].op = "write"
      /\ Script[Cur].at \in Regs
  BY <1>1, AccessAt DEF Course, BusInv
<1>3. Cur' = Cur /\ phyPc \in {"before", "after"} /\ (phyPc = "after" => Cur = step)
  BY <1>1, <1>2 DEF Cur, Mapped, PhyTypeInv
<1>5. /\ Past(4) <=> Cur > 4
      /\ Past(7) <=> Cur > 7
      /\ Past(12) <=> Cur > 12
      /\ Past(4)' <=> Cur >= 4
      /\ Past(7)' <=> Cur >= 7
      /\ Past(12)' <=> Cur >= 12
  BY <1>1, <1>2, <1>3 DEF Past
<1>7. Delayed' = Delayed /\ Negotiated' = Negotiated /\ NewSpeed' = NewSpeed
  BY <1>1 DEF Delayed, Negotiated, NewSpeed
<1>6. LocalInv'
  BY <1>1, <1>7 DEF Course, LocalInv
<1>r. reg \in [Regs -> SUBSET (0..15)]
  BY DEF PhyTypeInv
<1>n. /\ reg[Timing] = IF Cur > 4 THEN Delayed ELSE first[Timing]
      /\ Sans(reg[Control]) = IF Cur > 7 THEN Negotiated ELSE Sans(first[Control])
      /\ reg[Speed] = IF Cur > 12 THEN NewSpeed ELSE first[Speed]
  BY <1>5 DEF Course, RegInv
<1>8. CASE Script[Cur].op = "write"
  <2>1. Cur \in {4, 7, 9, 12, 14} /\ reg' = [reg EXCEPT ![Script[Cur].at] = mdioData] /\ mdioData' = mdioData
    BY <1>1, <1>2, <1>8, AccessAt
  <2>2. ASSUME Cur = 4 PROVE RegInv'
    <3>1. Script[Cur].at = Timing /\ mdioData = Delayed
      BY <1>2, <2>2, AccessAt DEF WriteData
    <3>2. reg'[Timing] = Delayed /\ reg'[Control] = reg[Control] /\ reg'[Speed] = reg[Speed]
      BY <1>r, <2>1, <3>1, Registers
    <3>3. reg'[Timing] = IF Past(4)' THEN Delayed' ELSE first'[Timing]
      BY <1>5, <1>7, <2>2, <3>2
    <3>4. Sans(reg'[Control]) = IF Past(7)' THEN Negotiated' ELSE Sans(first'[Control])
      BY <1>1, <1>5, <1>7, <1>n, <2>2, <3>2
    <3>5. reg'[Speed] = IF Past(12)' THEN NewSpeed' ELSE first'[Speed]
      BY <1>1, <1>5, <1>7, <1>n, <2>2, <3>2
    <3> QED BY <3>3, <3>4, <3>5 DEF RegInv
  <2>3. ASSUME Cur \in {7, 9, 14} PROVE RegInv'
    <3>1. Script[Cur].at = Control /\ Sans(mdioData) = Negotiated
      BY <1>2, <2>3, AccessAt DEF WriteData
    <3>2. reg'[Control] = mdioData /\ reg'[Timing] = reg[Timing] /\ reg'[Speed] = reg[Speed]
      BY <1>r, <2>1, <3>1, Registers
    <3>3. reg'[Timing] = IF Past(4)' THEN Delayed' ELSE first'[Timing]
      BY <1>1, <1>5, <1>7, <1>n, <2>3, <3>2
    <3>4. Sans(reg'[Control]) = IF Past(7)' THEN Negotiated' ELSE Sans(first'[Control])
      BY <1>5, <1>7, <2>3, <3>1, <3>2
    <3>5. reg'[Speed] = IF Past(12)' THEN NewSpeed' ELSE first'[Speed]
      BY <1>1, <1>5, <1>7, <1>n, <2>3, <3>2
    <3> QED BY <3>3, <3>4, <3>5 DEF RegInv
  <2>4. ASSUME Cur = 12 PROVE RegInv'
    <3>1. Script[Cur].at = Speed /\ mdioData = NewSpeed
      BY <1>2, <2>4, AccessAt DEF WriteData
    <3>2. reg'[Speed] = NewSpeed /\ reg'[Timing] = reg[Timing] /\ reg'[Control] = reg[Control]
      BY <1>r, <2>1, <3>1, Registers
    <3>3. reg'[Timing] = IF Past(4)' THEN Delayed' ELSE first'[Timing]
      BY <1>1, <1>5, <1>7, <1>n, <2>4, <3>2
    <3>4. Sans(reg'[Control]) = IF Past(7)' THEN Negotiated' ELSE Sans(first'[Control])
      BY <1>1, <1>5, <1>7, <1>n, <2>4, <3>2
    <3>5. reg'[Speed] = IF Past(12)' THEN NewSpeed' ELSE first'[Speed]
      BY <1>5, <1>7, <2>4, <3>2
    <3> QED BY <3>3, <3>4, <3>5 DEF RegInv
  <2>5. RegInv'
    BY <2>1, <2>2, <2>3, <2>4
  <2>6. phyPc = "after" => step \notin {3, 6, 8, 13, 11}
    BY <1>3, <2>1
  <2>7. BusInv'
    BY <1>1, <1>2, <2>6 DEF BusInv
  <2> QED BY <1>6, <2>5, <2>7 DEF Course
<1>9. CASE Script[Cur].op # "write"
  <2>1. /\ Cur \notin {4, 7, 9, 12, 14} /\ reg' = reg /\ mdioData' = reg[Script[Cur].at]
        /\ phyPc = "after" /\ Cur = step
    BY <1>1, <1>2, <1>3, <1>9, AccessAt
  <2>2. RegInv'
    <3>1. reg'[Timing] = IF Past(4)' THEN Delayed' ELSE first'[Timing]
      BY <1>1, <1>2, <1>5, <1>7, <1>n, <2>1
    <3>2. Sans(reg'[Control]) = IF Past(7)' THEN Negotiated' ELSE Sans(first'[Control])
      BY <1>1, <1>2, <1>5, <1>7, <1>n, <2>1
    <3>3. reg'[Speed] = IF Past(12)' THEN NewSpeed' ELSE first'[Speed]
      BY <1>1, <1>2, <1>5, <1>7, <1>n, <2>1
    <3> QED BY <3>1, <3>2, <3>3 DEF RegInv
  <2>3. /\ Cur = 3 => mdioData' = reg[Timing]
        /\ Cur \in {6, 8, 13} => mdioData' = reg[Control]
        /\ Cur = 11 => mdioData' = reg[Speed]
    BY <1>2, <2>1, AccessAt
  <2>4. /\ Cur = 3 => mdioData' = first[Timing]
        /\ Cur = 6 => Sans(mdioData') = Sans(first[Control])
        /\ Cur \in {8, 13} => Sans(mdioData') = Negotiated
        /\ Cur = 11 => mdioData' = first[Speed]
    BY <1>n, <2>3
  <2>5. BusInv'
    BY <1>1, <1>2, <1>7, <2>1, <2>4 DEF BusInv
  <2> QED BY <1>6, <2>2, <2>5 DEF Course
<1> QED BY <1>8, <1>9

(* A reset that ends and a line that changes touch no bit of RegInv.       *)
LEMMA PhyChangesInv ==
  ASSUME PhyTypeInv, Course, Hardware(ResetEnds) \/ Hardware(LineChanges)
  PROVE  Course'
<1>1. UNCHANGED <<busy, command, mdioData, first, phyPc, step, PhyReg0, PhyReg8, line17>>
  BY DEF Hardware, ResetEnds, LineChanges, bus
<1>r. reg \in [Regs -> SUBSET (0..15)]
  BY DEF PhyTypeInv
<1>2. reg'[Timing] = reg[Timing] /\ reg'[Speed] = reg[Speed] /\ Sans(reg'[Control]) = Sans(reg[Control])
  <2>1. CASE Hardware(ResetEnds)
    <3>1. reg' = [reg EXCEPT ![Control] = @ \ Reset]
      BY <2>1 DEF Hardware, ResetEnds
    <3>2. reg'[Control] = reg[Control] \ Reset /\ reg'[Timing] = reg[Timing] /\ reg'[Speed] = reg[Speed]
      BY <1>r, <3>1, Registers
    <3> QED BY <3>2, Bits
  <2>2. CASE Hardware(LineChanges)
    <3>1. PICK s \in SUBSET {14, 15} : reg' = [reg EXCEPT ![Status] = (@ \ {14, 15}) \cup s]
      BY <2>2 DEF Hardware, LineChanges
    <3>2. reg'[Control] = reg[Control] /\ reg'[Timing] = reg[Timing] /\ reg'[Speed] = reg[Speed]
      BY <1>r, <3>1, Registers
    <3> QED BY <3>2
  <2> QED BY <2>1, <2>2
<1>3. /\ Past(4)' <=> Past(4)
      /\ Past(7)' <=> Past(7)
      /\ Past(12)' <=> Past(12)
  BY <1>1 DEF Past, Cur
<1>4. Delayed' = Delayed /\ Negotiated' = Negotiated /\ NewSpeed' = NewSpeed
  BY <1>1 DEF Delayed, Negotiated, NewSpeed
<1>5. reg'[Timing] = IF Past(4)' THEN Delayed' ELSE first'[Timing]
  BY <1>1, <1>2, <1>3, <1>4 DEF Course, RegInv
<1>6. Sans(reg'[Control]) = IF Past(7)' THEN Negotiated' ELSE Sans(first'[Control])
  BY <1>1, <1>2, <1>3, <1>4 DEF Course, RegInv
<1>7. reg'[Speed] = IF Past(12)' THEN NewSpeed' ELSE first'[Speed]
  BY <1>1, <1>2, <1>3, <1>4 DEF Course, RegInv
<1>8. RegInv'
  BY <1>5, <1>6, <1>7 DEF RegInv
<1> QED BY <1>1, <1>8, OnlyReg

LEMMA MapRegistersInv ==
  ASSUME PhyInv, MapRegisters, Mapped'
  PROVE  Course'
<1>1. phyPc' = "before" /\ reg' = first' /\ step' = 1 /\ ~busy'
  BY DEF PhyInv, MapRegisters, Mapped, bus
<1>2. ~Past(4)' /\ ~Past(7)' /\ ~Past(12)'
  BY <1>1 DEF Past, Cur
<1>3. RegInv'
  BY <1>1, <1>2 DEF RegInv
<1>4. LocalInv'
  BY <1>1 DEF LocalInv
<1>5. BusInv'
  BY <1>1 DEF BusInv
<1> QED BY <1>3, <1>4, <1>5 DEF Course

(* A wait that nothing overruns ends on a bus that is free.                *)
LEMMA WaitedClean ==
  ASSUME PhyTypeInv, Clean', Waited, GoesOn
  PROVE  ~busy
BY DEF PhyTypeInv, Clean, Waited, GoesOn, RunsOut

LEMMA PutDataInv ==
  ASSUME PhyTypeInv, Course, PutData, Clean'
  PROVE  Course'
<1>1. /\ phyPc = "before" /\ phyPc' = "put" /\ ~busy /\ ~busy' /\ mdioData' = Value
      /\ Access.op = "write" /\ step \in 1..16
      /\ UNCHANGED <<reg, command, first, step, PhyReg0, PhyReg8, line17>>
  BY WaitedClean DEF PutData, PhyAt, PhyTypeInv
<1>2. /\ Past(4)' <=> Past(4)
      /\ Past(7)' <=> Past(7)
      /\ Past(12)' <=> Past(12)
  BY <1>1 DEF Past, Cur
<1>3. RegInv'
  BY <1>1, <1>2, RegStays DEF Course
<1>4. Delayed' = Delayed /\ Negotiated' = Negotiated /\ NewSpeed' = NewSpeed
  BY <1>1 DEF Delayed, Negotiated, NewSpeed
<1>5. LocalInv'
  BY <1>1, <1>4 DEF Course, LocalInv
<1>6. WriteData(step)'
  BY <1>1, <1>4, ValueWritten DEF Course, WriteData
<1>7. BusInv'
  BY <1>1, <1>6 DEF BusInv
<1> QED BY <1>3, <1>5, <1>7 DEF Course

(* An access starts: on a clean bus none is going on.                      *)
LEMMA StartsInv ==
  ASSUME PhyTypeInv, Course, StartAccess, Clean'
  PROVE  Course'
<1>1. /\ phyPc \in {"before", "put"} /\ phyPc' = "after" /\ step \in 1..16
      /\ UNCHANGED <<reg, first, step, PhyReg0, PhyReg8, line17, mdioData>>
      /\ busy' = TRUE
  BY DEF StartAccess, PhyAt, Start, PhyTypeInv
<1>2. ~busy
  <2>1. CASE phyPc = "put"
    BY <2>1 DEF Course, BusInv
  <2>2. CASE phyPc # "put"
    BY <2>2, WaitedClean DEF StartAccess, PhyAt
  <2> QED BY <2>1, <2>2
<1>3. command' = [op |-> Access.op, at |-> Access.at] /\ Access = Script[step]
  BY <1>2 DEF StartAccess, Start, Access
<1>4. Cur' = step /\ Cur = step - 1
  BY <1>1 DEF Cur
<1>5. /\ Past(4)' <=> Past(4)
      /\ Past(7)' <=> Past(7)
      /\ Past(12)' <=> Past(12)
  BY <1>1, <1>2, <1>4 DEF Past
<1>6. RegInv'
  BY <1>1, <1>5, RegStays DEF Course
<1>7. Delayed' = Delayed /\ Negotiated' = Negotiated /\ NewSpeed' = NewSpeed
  BY <1>1 DEF Delayed, Negotiated, NewSpeed
<1>8. LocalInv'
  BY <1>1, <1>7 DEF Course, LocalInv
<1>9. WriteData(Cur)'
  <2>1. CASE phyPc = "put"
    <3>1. WriteData(step)
      BY <2>1 DEF Course, BusInv
    <3> QED BY <1>1, <1>4, <1>7, <3>1 DEF WriteData
  <2>2. CASE phyPc # "put"
    <3>1. Access.op = "read"
      BY <2>2 DEF StartAccess, PhyAt
    <3>2. step \notin {4, 7, 9, 12, 14}
      BY <1>1, <1>3, <3>1, AccessAt
    <3> QED BY <1>4, <3>2 DEF WriteData
  <2> QED BY <2>1, <2>2
<1>10. BusInv'
  BY <1>1, <1>3, <1>4, <1>9 DEF BusInv
<1> QED BY <1>6, <1>8, <1>10 DEF Course

LEMMA AccessOverInv ==
  ASSUME PhyTypeInv, AlwaysInv, Course, AccessOver, Clean'
  PROVE  Course'
<1>1. /\ phyPc = "after" /\ phyPc' \in {"before", "returned"} /\ step \in 1..16
      /\ UNCHANGED <<reg, busy, command, mdioData, first>> /\ Access = Script[step]
      /\ Waited /\ Cur = step
  BY DEF AccessOver, GoOn, PhyTypeInv, bus, Access, Cur
<1>2. Access.op = "read" => ~busy
  BY WaitedClean DEF AccessOver
<1>3. /\ step \in {3, 6, 8, 13} => PhyReg0' = mdioData
      /\ step = 10 => PhyReg0' = mdioData /\ line17' = mdioData
      /\ step = 11 => PhyReg8' = WithSpeed(mdioData, PhyReg0) /\ PhyReg0' = PhyReg0
      /\ step # 10 => line17' = line17
  <2>1. IF Access.op = "read" THEN Keep(mdioData) ELSE UNCHANGED <<PhyReg0, PhyReg8, line17>>
    BY DEF AccessOver
  <2> QED BY <1>1, <2>1, Kept
<1>4. \/ phyPc' = "returned" /\ step' = step /\ step \in {11, 16}
      \/ phyPc' = "before" /\ step' = step + 1
  <2>1. NoSpeed => step = 11
    BY <1>1, AccessAt DEF NoSpeed
  <2> QED BY <2>1, Accesses DEF AccessOver, GoOn
<1>5. Cur' = Cur
  BY <1>1, <1>4 DEF Cur
<1>6. step \in {3, 6, 8, 10, 11, 13, 16} => ~busy
  BY <1>1, <1>2, AccessAt
<1>7. /\ step = 3 => mdioData = first[Timing]
      /\ step = 6 => Sans(mdioData) = Sans(first[Control])
      /\ step \in {8, 13} => Sans(mdioData) = Negotiated
      /\ step = 11 => mdioData = first[Speed]
  BY <1>1, <1>6 DEF Course, BusInv
<1>8. /\ Past(4)' <=> Past(4)
      /\ Past(7)' <=> Past(7)
      /\ Past(12)' <=> Past(12)
      /\ Past(12) => step # 10
  BY <1>1, <1>5 DEF Past
<1>9. RegInv'
  BY <1>1, <1>3, <1>8, RegStays DEF Course
<1>10. /\ Delayed' = Delayed /\ Negotiated' = Negotiated
       /\ step # 10 => NewSpeed' = NewSpeed
  BY <1>1, <1>3 DEF Delayed, Negotiated, NewSpeed
<1>11. step = 11 => PhyReg8' = NewSpeed'
  BY <1>3, <1>7, <1>10 DEF AlwaysInv, NewSpeed
<1>12. LocalInv'
  <2>1. CASE phyPc' = "returned"
    BY <1>4, <2>1 DEF LocalInv
  <2>2. CASE phyPc' = "before"
    <3>1. step' = step + 1
      BY <1>4, <2>2
    <3>2. step' = 4 => PhyReg0' = first'[Timing]
      BY <1>1, <1>3, <1>7, <3>1
    <3>3. step' = 7 => Sans(PhyReg0') = Sans(first'[Control])
      BY <1>1, <1>3, <1>7, <3>1
    <3>4. step' \in {9, 14} => Sans(PhyReg0') = Negotiated'
      BY <1>1, <1>3, <1>7, <1>10, <3>1
    <3>5. step' = 12 => PhyReg8' = NewSpeed'
      BY <1>1, <1>11, <3>1
    <3> QED BY <3>2, <3>3, <3>4, <3>5 DEF LocalInv
  <2> QED BY <1>1, <2>1, <2>2
<1>13. BusInv'
  <2>1. CASE ~busy
    BY <1>1, <2>1 DEF BusInv
  <2>2. CASE busy
    <3>1. phyPc' = "before" /\ step # 10
      BY <1>4, <1>6, <2>2
    <3>2. Cur \in 1..16 /\ WriteData(Cur) /\ command = [op |-> Script[Cur].op, at |-> Script[Cur].at]
      BY <2>2 DEF Course, BusInv
    <3>3. WriteData(Cur)'
      BY <1>1, <1>5, <1>10, <3>1, <3>2 DEF WriteData
    <3>4. Script[Cur].op = "write"
      BY <1>1, <1>2, <2>2, AccessAt
    <3> QED BY <1>1, <1>5, <3>1, <3>2, <3>3, <3>4 DEF BusInv
  <2> QED BY <2>1, <2>2
<1> QED BY <1>9, <1>12, <1>13 DEF Course

-----------------------------------------------------------------------------

LEMMA PhyInvInit == PhyInit => PhyInv
<1> SUFFICES ASSUME PhyInit PROVE PhyInv
  OBVIOUS
<1>1. phyPc = "map" /\ ~busy /\ step = 1
  BY DEF PhyInit
<1>2. ~Mapped
  BY <1>1 DEF Mapped
<1> QED BY <1>1, <1>2, PhyTypeInit, AlwaysInit DEF PhyInv

(* What is clean was, and only the mapping begins the accesses.            *)
LEMMA WasClean ==
  ASSUME PhyTypeInv, PhyNext, Clean'
  PROVE  Clean /\ (Mapped' => Mapped \/ MapRegisters)
<1>1. GoesOn => Clean
  BY DEF GoesOn, Clean, PhyTypeInv
<1>2. CASE Poll
  BY <1>2 DEF Poll, Waiting, Mapped, Clean
<1>3. CASE MapRegisters
  BY <1>3 DEF MapRegisters, Clean
<1>4. CASE PutData \/ StartAccess \/ AccessOver
  BY <1>1, <1>4 DEF PutData, StartAccess, AccessOver, PhyAt, Clean, Mapped
<1>5. CASE \/ Hardware(AccessEnds) \/ Hardware(ResetEnds) \/ Hardware(LineChanges)
           \/ Hardware(GetsStuck)
  BY <1>5 DEF Hardware, Clean, Mapped
<1> QED BY <1>2, <1>3, <1>4, <1>5 DEF PhyNext, Program

LEMMA CourseStep ==
  ASSUME PhyInv, PhyNext, Clean', Mapped'
  PROVE  Course'
<1>1. PhyTypeInv /\ AlwaysInv /\ Clean /\ (Mapped \/ MapRegisters)
  BY WasClean DEF PhyInv
<1>2. CASE MapRegisters
  BY <1>2, MapRegistersInv
<1>3. CASE ~MapRegisters
  <2>1. Course /\ Mapped
    BY <1>1, <1>3 DEF PhyInv
  <2>2. CASE Poll
    BY <2>1, <2>2, NothingChanges DEF Poll, bus
  <2>3. CASE Hardware(GetsStuck)
    BY <2>1, <2>3, NothingChanges DEF Hardware, GetsStuck
  <2> QED BY <1>1, <1>3, <2>1, <2>2, <2>3, AccessEndsInv, PutDataInv, StartsInv, AccessOverInv,
             PhyChangesInv DEF PhyNext, Program
<1> QED BY <1>2, <1>3

LEMMA PhyInvStep == PhyInv /\ [PhyNext]_phyVars => PhyInv'
<1> SUFFICES ASSUME PhyInv, [PhyNext]_phyVars PROVE PhyInv'
  OBVIOUS
<1>1. PhyTypeInv' /\ AlwaysInv'
  BY PhyTypeStep, AlwaysStep DEF PhyInv
<1>2. CASE PhyNext
  <2>1. phyPc' = "map" => ~busy' /\ step' = 1
    <3> SUFFICES ASSUME phyPc' = "map" PROVE ~busy' /\ step' = 1
      OBVIOUS
    <3>1. phyPc = "map" /\ ~MapRegisters
      BY <1>2 DEF PhyNext, Program, MapRegisters, Poll, Waiting, PutData, StartAccess, AccessOver,
                  GoOn, PhyAt, Hardware
    <3>2. ~busy /\ step = 1
      BY <3>1 DEF PhyInv
    <3>3. Hardware(ResetEnds) \/ Hardware(LineChanges)
      BY <1>2, <3>1, <3>2
         DEF PhyNext, Program, Poll, Waiting, PutData, StartAccess, AccessOver, PhyAt, Hardware,
             AccessEnds, GetsStuck
    <3> QED BY <3>2, <3>3 DEF Hardware, ResetEnds, LineChanges, bus
  <2> QED BY <1>1, <1>2, <2>1, CourseStep DEF PhyInv
<1>3. CASE UNCHANGED phyVars
  <2>1. /\ UNCHANGED <<reg, overran, first, phyPc, step, PhyReg0, PhyReg8, line17>>
        /\ UNCHANGED <<busy, command, mdioData>>
    BY <1>3 DEF phyVars, bus
  <2>2. (Clean' <=> Clean) /\ (Mapped' <=> Mapped)
    BY <2>1 DEF Clean, Mapped
  <2>3. Course => Course'
    BY <2>1, NothingChanges
  <2> QED BY <1>1, <2>1, <2>2, <2>3 DEF PhyInv
<1> QED BY <1>2, <1>3

LEMMA PhyInvMakesSettings == PhyInv => SettingsAreMade
<1> SUFFICES ASSUME PhyInv PROVE SettingsAreMade
  OBVIOUS
<1>1. PhyTypeOK
  BY PhyTypes DEF PhyInv
<1>2. ASSUME phyPc = "returned" PROVE ret = "TRUE" <=> LineSpeed(line17) \in {Gigabit, Megabit100}
  BY <1>2 DEF PhyInv, AlwaysInv, Known
<1>3. \A r \in ChipId : reg[r] = first[r]
  BY DEF PhyInv, AlwaysInv
<1>4. ASSUME overran = 0, phyPc = "returned"
      PROVE  /\ reg[Timing] = first[Timing] \cup Delays
             /\ reg[Control] \ Reset = (first[Control] \cup Autonegotiate) \ Reset
             /\ reg[Speed] = IF ret = "TRUE" THEN WithSpeed(first[Speed], line17) ELSE first[Speed]
  <2>1. Course
    BY <1>4 DEF PhyInv, Clean, Mapped
  <2>2. ~busy /\ ret \in {"TRUE", "FALSE"} /\ step = IF ret = "TRUE" THEN 16 ELSE 11
    BY <1>4, <2>1 DEF Course, BusInv, PhyInv, AlwaysInv
  <2>3. Past(4) /\ Past(7) /\ (Past(12) <=> ret = "TRUE")
    BY <1>4, <2>2 DEF Past, Cur
  <2> QED BY <2>1, <2>3 DEF Course, RegInv, Delayed, Negotiated, Sans, NewSpeed
<1> QED BY <1>1, <1>2, <1>3, <1>4 DEF SettingsAreMade

-----------------------------------------------------------------------------
(* THE CRC, for any data and any calls: the register is what is left of    *)
(* the dividend, with the data that have not come yet taken off, so it     *)
(* does not depend on them.                                                *)

Words == [1..32 -> {0, 1}]
Bytes == Seq(0..255)
N8(bytes) == 8 * Len(bytes)

LEMMA SameWord ==
  ASSUME NEW a \in Words, NEW b \in Words, \A k \in 1..32 : a[k] = b[k]
  PROVE  a = b
BY DEF Words

LEMMA PolyType == \A k \in 1..32 : Poly[k] \in {0, 1}
BY DEF Poly

LEMMA BitType ==
  ASSUME NEW bytes \in Bytes, NEW i \in Nat \ {0}
  PROVE  /\ Bit(bytes, i) \in {0, 1} /\ Len(bytes) \in Nat
         /\ i > N8(bytes) => Bit(bytes, i) = 0
<1>1. Len(bytes) \in Nat /\ \A j \in 1..Len(bytes) : bytes[j] \in 0..255
  BY ElementOfSeq, LenProperties DEF Bytes
<1>2. CASE i > N8(bytes)
  BY <1>1, <1>2 DEF Bit, N8
<1>3. CASE ~(i > N8(bytes))
  <2>1. PICK j \in 1..Len(bytes) : j = (i + 7) \div 8
    BY <1>1, <1>3 DEF N8
  <2>2. PICK e \in 0..7 : e = (8 - (i % 8)) % 8
    OBVIOUS
  <2>3. PICK x \in 0..255 : x = bytes[j]
    BY <1>1
  <2>4. (x \div 2^e) % 2 \in 0..1
    OBVIOUS
  <2>5. Bit(bytes, i) = (x \div 2^e) % 2
    BY <1>3, <2>1, <2>2, <2>3 DEF Bit, N8
  <2> QED BY <1>1, <1>3, <2>4, <2>5
<1> QED BY <1>2, <1>3

(* The bits by bytes.                                                      *)
LEMMA BitOfByte ==
  ASSUME NEW bytes \in Bytes, NEW j \in 1..Len(bytes), NEW b \in 0..7
  PROVE  Bit(bytes, 8 * (j - 1) + b + 1) = DataBit(bytes[j], b)
<1>1. Len(bytes) \in Nat
  BY DEF Bytes
<1> DEFINE i == 8 * (j - 1) + b + 1
<1>2. ~(i > 8 * Len(bytes)) /\ (i + 7) \div 8 = j
  BY <1>1
<1>3. (8 - (i % 8)) % 8 = 7 - b
  BY <1>1
<1> HIDE DEF i
<1> QED BY <1>2, <1>3 DEF Bit, DataBit, i

(* Of joined data the bits of the first are the first.                     *)
LEMMA BitOfFirst ==
  ASSUME NEW d \in Bytes, NEW e \in Bytes, NEW i \in 1..N8(d)
  PROVE  Bit(d \o e, i) = Bit(d, i)
<1>1. /\ Len(d) \in Nat /\ Len(e) \in Nat /\ Len(d \o e) = Len(d) + Len(e)
      /\ \A j \in 1..Len(d) : (d \o e)[j] = d[j]
  BY ConcatProperties, LenProperties DEF Bytes
<1>2. i <= 8 * Len(d) /\ i <= 8 * Len(d \o e) /\ (i + 7) \div 8 \in 1..Len(d)
  BY <1>1 DEF N8
<1> QED BY <1>1, <1>2 DEF Bit

-----------------------------------------------------------------------------
(* The division.                                                           *)

Leaves(bytes, left) ==
    /\ left[0] = Dividend(bytes)
    /\ \A i \in 1..N8(bytes) : left[i] = Reduced(left[i - 1], i)

BitStrings(n) == [1..(n + 32) -> {0, 1}]
Dividends(bytes) == BitStrings(N8(bytes))

LEMMA DividendType ==
  ASSUME NEW bytes \in Bytes
  PROVE  Dividend(bytes) \in Dividends(bytes)
<1>1. Len(bytes) \in Nat
  BY DEF Bytes
<1>2. \A i \in 1..(N8(bytes) + 32) : Bit(bytes, i) \in {0, 1}
  BY <1>1, BitType DEF N8
<1> QED BY <1>1, <1>2 DEF Dividend, Dividends, BitStrings, N8

LEMMA ReducedEffect ==
  ASSUME NEW m \in Nat, NEW bits \in BitStrings(m), NEW i \in 1..m
  PROVE  /\ Reduced(bits, i) \in BitStrings(m)
         /\ \A k \in 1..32 : Reduced(bits, i)[i + k] =
                               IF bits[i] = 0 THEN bits[i + k] ELSE (bits[i + k] + Poly[k]) % 2
         /\ Reduced(bits, i)[i] = 0
         /\ \A k \in 1..(i - 1) : Reduced(bits, i)[k] = bits[k]
         /\ \A k \in (i + 33)..(m + 32) : Reduced(bits, i)[k] = bits[k]
<1>0. bits \in [1..(m + 32) -> {0, 1}]
  BY DEF BitStrings
<1>1. CASE bits[i] = 0
  <2>1. Reduced(bits, i) = bits
    BY <1>1 DEF Reduced
  <2> QED BY <1>1, <2>1
<1>2. CASE bits[i] # 0
  <2>1. DOMAIN bits = 1..(m + 32) /\ i \in 1..(m + 32)
    BY <1>0
  <2>2. \A k \in 1..(m + 32) :
           Reduced(bits, i)[k] = IF k = i THEN 0
                                 ELSE IF k \in (i + 1)..(i + 32) THEN (bits[k] + Poly[k - i]) % 2
                                 ELSE bits[k]
    BY <1>2, <2>1 DEF Reduced
  <2>3. DOMAIN Reduced(bits, i) = 1..(m + 32)
        /\ Reduced(bits, i) = [k \in 1..(m + 32) |-> Reduced(bits, i)[k]]
    BY <1>2, <2>1 DEF Reduced
  <2>4. \A k \in 1..(m + 32) : Reduced(bits, i)[k] \in {0, 1}
    <3> SUFFICES ASSUME NEW k \in 1..(m + 32) PROVE Reduced(bits, i)[k] \in {0, 1}
      OBVIOUS
    <3>1. CASE k \in (i + 1)..(i + 32)
      <4>1. Poly[k - i] \in {0, 1} /\ bits[k] \in {0, 1}
        <5>1. k - i \in 1..32
          BY <3>1
        <5> QED BY <1>0, <5>1, PolyType
      <4>2. (bits[k] + Poly[k - i]) % 2 \in {0, 1}
        BY <4>1
      <4> QED BY <2>2, <3>1, <4>2
    <3>2. CASE k \notin (i + 1)..(i + 32)
      BY <1>0, <2>2, <3>2
    <3> QED BY <3>1, <3>2
  <2>5. \A k \in 1..32 : Reduced(bits, i)[i + k] = (bits[i + k] + Poly[k]) % 2
    <3> SUFFICES ASSUME NEW k \in 1..32
                 PROVE  Reduced(bits, i)[i + k] = (bits[i + k] + Poly[k]) % 2
      OBVIOUS
    <3>1. /\ i + k \in 1..(m + 32) /\ i + k # i /\ i + k \in (i + 1)..(i + 32)
          /\ (i + k) - i = k
      OBVIOUS
    <3> QED BY <2>2, <3>1
  <2>6. /\ Reduced(bits, i)[i] = 0
        /\ \A k \in 1..(i - 1) : Reduced(bits, i)[k] = bits[k]
        /\ \A k \in (i + 33)..(m + 32) : Reduced(bits, i)[k] = bits[k]
    BY <2>1, <2>2
  <2>7. Reduced(bits, i) \in BitStrings(m)
    BY <2>3, <2>4 DEF BitStrings
  <2> QED BY <1>2, <2>5, <2>6, <2>7
<1> QED BY <1>1, <1>2

LEMMA DivisionLeaves ==
  ASSUME NEW bytes \in Bytes
  PROVE  /\ Leaves(bytes, Division(bytes))
         /\ \A i \in 0..N8(bytes) : Division(bytes)[i] \in Dividends(bytes)
<1> DEFINE N == N8(bytes)
           S == Dividends(bytes)
           rule == [p \in Nat \X S |-> IF p[1] \in 1..N THEN Reduced(p[2], p[1]) ELSE p[2]]
           Rule(g) == [i \in 0..N |-> IF i = 0 THEN Dividend(bytes) ELSE Reduced(g[i - 1], i)]
<1>1. N \in Nat
  BY DEF Bytes, N8
<1>2. rule \in [Nat \X S -> S]
  <2>1. ASSUME NEW p \in Nat \X S
        PROVE  (IF p[1] \in 1..N THEN Reduced(p[2], p[1]) ELSE p[2]) \in S
    <3>1. p[1] \in 1..N => Reduced(p[2], p[1]) \in S
      <4>1. ASSUME NEW bits \in S, NEW i \in 1..N PROVE Reduced(bits, i) \in S
        BY <1>1, ReducedEffect DEF Dividends
      <4> HIDE DEF S
      <4> QED BY <4>1
    <3> HIDE DEF S
    <3> QED BY <3>1
  <2> HIDE DEF S
  <2> QED BY <2>1
<1>3. PICK g \in [0..N -> S] : Follows(g, 0, N, Dividend(bytes), rule)
  <2>1. 0 \in Nat /\ 0 <= N /\ Dividend(bytes) \in S
    BY <1>1, DividendType
  <2> HIDE DEF rule, N, S
  <2> QED BY <1>1, <1>2, <2>1, Recursion
<1>4. ASSUME NEW i \in 1..N PROVE g[i] = Reduced(g[i - 1], i)
  <2>1. i \in (0 + 1)..N /\ i - 1 \in 0..N /\ i \in Nat
    BY <1>1
  <2>2. g[i] = rule[<<i, g[i - 1]>>]
    <3> HIDE DEF rule
    <3> QED BY <1>3, <2>1 DEF Follows
  <2>3. <<i, g[i - 1]>> \in Nat \X S
    <3> HIDE DEF S
    <3> QED BY <2>1
  <2> HIDE DEF S
  <2> QED BY <2>2, <2>3
<1>5. g[0] = Dividend(bytes)
  BY <1>3 DEF Follows
<1>6. g = Rule(g)
  <2>1. \A i \in 0..N : i # 0 => i \in 1..N
    BY <1>1
  <2>2. \A i \in 0..N : g[i] = Rule(g)[i]
    BY <1>4, <1>5, <2>1
  <2> HIDE DEF Rule, S
  <2>3. Rule(g) = [i \in 0..N |-> Rule(g)[i]]
    BY DEF Rule
  <2>4. g = [i \in 0..N |-> g[i]]
    OBVIOUS
  <2> QED BY <2>2, <2>3, <2>4
<1>7. Division(bytes) = Rule(Division(bytes))
  BY <1>6 DEF Division, N8
<1>8. /\ Division(bytes)[0] = Dividend(bytes)
      /\ \A i \in 1..N : Division(bytes)[i] = Reduced(Division(bytes)[i - 1], i)
  <2> HIDE DEF S
  <2>1. 0 \in 0..N /\ \A i \in 1..N : i \in 0..N /\ i # 0
    BY <1>1
  <2> QED BY <1>7, <2>1
<1> DEFINE T == {i \in 0..N : Division(bytes)[i] # g[i]}
<1>9. T = {}
  <2> SUFFICES ASSUME T # {} PROVE FALSE
    OBVIOUS
  <2>1. PICK m \in T : \A i \in T : m <= i
    <3>1. T \in SUBSET Nat
      BY <1>1
    <3> HIDE DEF T
    <3> QED BY <3>1, LeastElement
  <2>2. m \in 0..N /\ Division(bytes)[m] # g[m]
    OBVIOUS
  <2>3. m # 0
    BY <1>5, <1>8, <2>2
  <2>4. m \in 1..N /\ m - 1 \in 0..N /\ ~(m <= m - 1)
    BY <1>1, <2>2, <2>3
  <2>5. Division(bytes)[m - 1] = g[m - 1]
    BY <2>1, <2>4
  <2> QED BY <1>4, <1>8, <2>2, <2>4, <2>5
<1>10. \A i \in 0..N : Division(bytes)[i] \in S
  <2> HIDE DEF S
  <2> QED BY <1>9
<1> QED BY <1>8, <1>10 DEF Leaves

(* Behind the bits the division has come to, the dividend is untouched.    *)
LEMMA AheadIsDividend ==
  ASSUME NEW bytes \in Bytes, NEW i \in 0..N8(bytes), NEW j \in (i + 33)..(N8(bytes) + 32)
  PROVE  Division(bytes)[i][j] = Bit(bytes, j)
<1> DEFINE N == N8(bytes)
           T == {n \in 0..i : Division(bytes)[n][j] # Bit(bytes, j)}
<1>0. N \in Nat /\ i \in Nat /\ i <= N /\ j \in Nat
  BY DEF Bytes, N8
<1> SUFFICES ASSUME T # {} PROVE FALSE
  <2>1. i \in 0..i
    BY <1>0
  <2> QED BY <2>1
<1>1. PICK m \in T : \A n \in T : m <= n
  <2>1. T \in SUBSET Nat
    BY <1>0
  <2> HIDE DEF T
  <2> QED BY <2>1, LeastElement
<1>2. m \in 0..i /\ Division(bytes)[m][j] # Bit(bytes, j)
  OBVIOUS
<1>3. m # 0
  <2>1. Division(bytes)[0] = Dividend(bytes)
    BY DivisionLeaves DEF Leaves
  <2>2. Dividend(bytes)[j] = Bit(bytes, j)
    BY <1>0 DEF Dividend, N8
  <2> QED BY <1>2, <2>1, <2>2
<1>4. /\ m \in 1..N /\ m - 1 \in 0..i /\ m - 1 \in 0..N /\ ~(m <= m - 1)
      /\ j \in (m + 33)..(N + 32)
  BY <1>0, <1>2, <1>3
<1>5. Division(bytes)[m - 1][j] = Bit(bytes, j)
  BY <1>1, <1>4
<1>6. Division(bytes)[m - 1] \in BitStrings(N)
  BY <1>4, DivisionLeaves DEF Dividends
<1>7. Division(bytes)[m] = Reduced(Division(bytes)[m - 1], m)
  BY <1>4, DivisionLeaves DEF Leaves
<1>8. Division(bytes)[m][j] = Division(bytes)[m - 1][j]
  <2> HIDE DEF N
  <2> QED BY <1>0, <1>4, <1>6, <1>7, ReducedEffect
<1> QED BY <1>2, <1>5, <1>8

(* What follows the data shows in the division only as itself.             *)
LEMMA DivisionOfFirst ==
  ASSUME NEW d \in Bytes, NEW e \in Bytes, NEW i \in 0..N8(d), NEW j \in 1..(N8(d) + 32)
  PROVE  (Division(d \o e)[i][j] + Bit(d \o e, j)) % 2 = (Division(d)[i][j] + Bit(d, j)) % 2
<1> DEFINE M == N8(d)
           N == N8(d \o e)
           Same(n) == \A k \in 1..(M + 32) :
                         (Division(d \o e)[n][k] + Bit(d \o e, k)) % 2
                            = (Division(d)[n][k] + Bit(d, k)) % 2
           T == {n \in 0..i : ~Same(n)}
<1>0. M \in Nat /\ N \in Nat /\ M <= N /\ d \o e \in Bytes /\ i <= M /\ i \in Nat
  <2>1. Len(d) \in Nat /\ Len(e) \in Nat /\ Len(d \o e) = Len(d) + Len(e) /\ d \o e \in Bytes
    BY ConcatProperties, LenProperties DEF Bytes
  <2> QED BY <2>1 DEF N8
<1>a. /\ \A k \in 1..(M + 32) : Bit(d, k) \in {0, 1} /\ Bit(d \o e, k) \in {0, 1}
      /\ \A k \in 1..M : Bit(d \o e, k) = Bit(d, k)
  BY <1>0, BitType, BitOfFirst
<1>b. /\ \A n \in 0..M : Division(d)[n] \in BitStrings(M)
      /\ \A n \in 0..N : Division(d \o e)[n] \in BitStrings(N)
      /\ Division(d)[0] = Dividend(d) /\ Division(d \o e)[0] = Dividend(d \o e)
      /\ \A n \in 1..M : Division(d)[n] = Reduced(Division(d)[n - 1], n)
      /\ \A n \in 1..N : Division(d \o e)[n] = Reduced(Division(d \o e)[n - 1], n)
  BY <1>0, DivisionLeaves DEF Leaves, Dividends
<1>1. Same(0)
  <2> SUFFICES ASSUME NEW k \in 1..(M + 32)
               PROVE  (Dividend(d \o e)[k] + Bit(d \o e, k)) % 2 = (Dividend(d)[k] + Bit(d, k)) % 2
    BY <1>b
  <2>1. Dividend(d)[k] = IF k <= 32 THEN 1 - Bit(d, k) ELSE Bit(d, k)
    BY DEF Dividend, N8
  <2>2. Dividend(d \o e)[k] = IF k <= 32 THEN 1 - Bit(d \o e, k) ELSE Bit(d \o e, k)
    <3>1. k \in 1..(N + 32)
      BY <1>0
    <3> QED BY <3>1 DEF Dividend, N8
  <2>3. ASSUME NEW b \in {0, 1}, NEW c \in {0, 1}
        PROVE  /\ ((1 - b) + b) % 2 = ((1 - c) + c) % 2
               /\ (b + b) % 2 = (c + c) % 2
    OBVIOUS
  <2> QED BY <1>a, <2>1, <2>2, <2>3
<1>2. ASSUME NEW n \in 1..M, Same(n - 1) PROVE Same(n)
  <2> DEFINE s == Division(d)[n - 1]
             l == Division(d \o e)[n - 1]
  <2>1. /\ n \in 1..N /\ n - 1 \in 0..M /\ n - 1 \in 0..N /\ n \in 1..(M + 32)
        /\ s \in BitStrings(M) /\ l \in BitStrings(N)
        /\ Division(d)[n] = Reduced(s, n) /\ Division(d \o e)[n] = Reduced(l, n)
    BY <1>0, <1>b
  <2>2. \A k \in 1..(M + 32) : (l[k] + Bit(d \o e, k)) % 2 = (s[k] + Bit(d, k)) % 2
    BY <1>2
  <2> HIDE DEF s, l, M, N
  <2>a. \A k \in 1..(M + 32) : s[k] \in {0, 1} /\ l[k] \in {0, 1}
    <3>1. \A k \in 1..(M + 32) : k \in 1..(N + 32)
      BY <1>0
    <3> QED BY <2>1, <3>1 DEF BitStrings
  <2>3. l[n] = s[n]
    <3>1. ASSUME NEW a \in {0, 1}, NEW b \in {0, 1}, NEW c \in {0, 1}, (a + c) % 2 = (b + c) % 2
          PROVE  a = b
      BY <3>1
    <3>2. l[n] \in {0, 1} /\ s[n] \in {0, 1} /\ Bit(d \o e, n) = Bit(d, n) /\ Bit(d, n) \in {0, 1}
      BY <1>0, <1>a, <2>1, <2>a
    <3> QED BY <2>1, <2>2, <3>1, <3>2
  <2>4. /\ \A k \in 1..32 : Reduced(s, n)[n + k] =
                              IF s[n] = 0 THEN s[n + k] ELSE (s[n + k] + Poly[k]) % 2
        /\ Reduced(s, n)[n] = 0
        /\ \A k \in 1..(n - 1) : Reduced(s, n)[k] = s[k]
        /\ \A k \in (n + 33)..(M + 32) : Reduced(s, n)[k] = s[k]
    BY <1>0, <2>1, ReducedEffect
  <2>5. /\ \A k \in 1..32 : Reduced(l, n)[n + k] =
                              IF l[n] = 0 THEN l[n + k] ELSE (l[n + k] + Poly[k]) % 2
        /\ Reduced(l, n)[n] = 0
        /\ \A k \in 1..(n - 1) : Reduced(l, n)[k] = l[k]
        /\ \A k \in (n + 33)..(N + 32) : Reduced(l, n)[k] = l[k]
    BY <1>0, <2>1, ReducedEffect
  <2>6. ASSUME NEW k \in 1..(M + 32)
        PROVE  (Reduced(l, n)[k] + Bit(d \o e, k)) % 2 = (Reduced(s, n)[k] + Bit(d, k)) % 2
    <3>0. s[k] \in {0, 1} /\ l[k] \in {0, 1} /\ Bit(d, k) \in {0, 1} /\ Bit(d \o e, k) \in {0, 1}
      BY <1>0, <1>a, <2>a
    <3>1. CASE k < n \/ k > n + 32
      <4>1. \/ k \in 1..(n - 1)
            \/ k \in (n + 33)..(M + 32) /\ k \in (n + 33)..(N + 32)
        BY <1>0, <2>1, <3>1
      <4>2. Reduced(l, n)[k] = l[k] /\ Reduced(s, n)[k] = s[k]
        BY <2>4, <2>5, <4>1
      <4> QED BY <2>2, <4>2
    <3>2. CASE k = n
      BY <1>a, <2>4, <2>5, <3>2
    <3>3. CASE k \in (n + 1)..(n + 32)
      <4>1. PICK c \in 1..32 : k = n + c
        <5>1. k - n \in 1..32 /\ k = n + (k - n)
          BY <3>3
        <5> QED BY <5>1
      <4>2. ASSUME NEW a \in {0, 1}, NEW b \in {0, 1}, NEW p \in {0, 1}, NEW x \in {0, 1},
                   NEW y \in {0, 1}, (a + x) % 2 = (b + y) % 2
            PROVE  (((a + p) % 2) + x) % 2 = (((b + p) % 2) + y) % 2
        BY <4>2
      <4>3. (l[k] + Bit(d \o e, k)) % 2 = (s[k] + Bit(d, k)) % 2
        BY <2>2
      <4>4. CASE s[n] = 0
        BY <2>3, <2>4, <2>5, <4>1, <4>3, <4>4
      <4>5. CASE s[n] # 0
        <5>1. /\ Reduced(l, n)[k] = (l[k] + Poly[c]) % 2 /\ Reduced(s, n)[k] = (s[k] + Poly[c]) % 2
              /\ Poly[c] \in {0, 1}
          BY <2>3, <2>4, <2>5, <4>1, <4>5, PolyType
        <5> QED BY <3>0, <4>2, <4>3, <5>1
      <4> QED BY <4>4, <4>5
    <3>4. k < n \/ k > n + 32 \/ k = n \/ k \in (n + 1)..(n + 32)
      BY <1>0, <2>1
    <3> QED BY <3>1, <3>2, <3>3, <3>4
  <2> QED BY <2>1, <2>6 DEF M
<1>3. T = {}
  <2> SUFFICES ASSUME T # {} PROVE FALSE
    OBVIOUS
  <2>1. PICK m \in T : \A n \in T : m <= n
    <3>1. T \in SUBSET Nat
      BY <1>0
    <3> HIDE DEF T
    <3> QED BY <3>1, LeastElement
  <2>2. m \in 0..i /\ ~Same(m)
    OBVIOUS
  <2> HIDE DEF Same, M
  <2>3. m # 0
    BY <1>1, <2>2
  <2>4. m \in 1..M /\ m - 1 \in 0..i /\ ~(m <= m - 1)
    BY <1>0, <2>2, <2>3
  <2>5. Same(m - 1)
    BY <2>1, <2>4
  <2> QED BY <1>2, <2>2, <2>4, <2>5
<1>4. Same(i)
  <2>1. i \in 0..i
    BY <1>0
  <2> HIDE DEF Same
  <2> QED BY <1>3, <2>1
<1> QED BY <1>4

(* The register after i bits of the data.                                  *)
Register(bytes, i) == [k \in 1..32 |-> (Division(bytes)[i][i + k] + Bit(bytes, i + k)) % 2]

LEMMA RegisterOfFirst ==
  ASSUME NEW d \in Bytes, NEW e \in Bytes
  PROVE  Register(d \o e, N8(d)) = Register(d, N8(d))
<1>1. N8(d) \in Nat
  BY DEF Bytes, N8
<1>2. \A k \in 1..32 : /\ N8(d) + k \in 1..(N8(d) + 32)
                       /\ N8(d) \in 0..N8(d)
  BY <1>1
<1>3. \A k \in 1..32 : (Division(d \o e)[N8(d)][N8(d) + k] + Bit(d \o e, N8(d) + k)) % 2
                          = (Division(d)[N8(d)][N8(d) + k] + Bit(d, N8(d) + k)) % 2
  BY <1>2, DivisionOfFirst
<1> QED BY <1>3 DEF Register

LEMMA RegisterAtFirst ==
  ASSUME NEW d \in Bytes
  PROVE  Register(d, 0) = Ones
<1>1. N8(d) \in Nat /\ Len(d) \in Nat
  BY DEF Bytes, N8
<1>2. ASSUME NEW k \in 1..32
      PROVE  (Division(d)[0][0 + k] + Bit(d, 0 + k)) % 2 = 1
  <2>1. Division(d)[0] = Dividend(d) /\ 0 + k = k /\ k \in 1..(N8(d) + 32) /\ k \in Nat \ {0}
    BY <1>1, DivisionLeaves DEF Leaves
  <2>2. Bit(d, k) \in {0, 1}
    BY <2>1, BitType
  <2>3. Dividend(d)[k] = 1 - Bit(d, k)
    <3>1. Dividend(d)[k] = IF k <= 32 THEN 1 - Bit(d, k) ELSE Bit(d, k)
      <4>1. k \in 1..(8 * Len(d) + 32)
        BY <2>1 DEF N8
      <4> QED BY <4>1, Zenon DEF Dividend
    <3>2. k <= 32
      OBVIOUS
    <3> QED BY <3>1, <3>2
  <2> QED BY <2>1, <2>2, <2>3
<1> QED BY <1>2 DEF Register, Ones

LEMMA RegisterAtLast ==
  ASSUME NEW d \in Bytes
  PROVE  Register(d, N8(d)) = Remainder(d)
<1>1. N8(d) \in Nat /\ N8(d) \in 0..N8(d)
  BY DEF Bytes, N8
<1>2. ASSUME NEW k \in 1..32
      PROVE  (Division(d)[N8(d)][N8(d) + k] + Bit(d, N8(d) + k)) % 2 = Division(d)[N8(d)][N8(d) + k]
  <2>1. N8(d) + k \in Nat \ {0} /\ N8(d) + k > N8(d) /\ N8(d) + k \in 1..(N8(d) + 32)
    BY <1>1
  <2>2. Bit(d, N8(d) + k) = 0
    BY <2>1, BitType
  <2>3. Division(d)[N8(d)][N8(d) + k] \in {0, 1}
    BY <1>1, <2>1, DivisionLeaves DEF Dividends, BitStrings
  <2> QED BY <2>2, <2>3
<1> QED BY <1>2 DEF Register, Remainder, N8

LEMMA ShiftedValue ==
  ASSUME NEW a \in Words
  PROVE  /\ Shifted(a) \in Words /\ Shifted(a)[32] = 0
         /\ \A k \in 1..31 : Shifted(a)[k] = a[k + 1]
<1>1. PICK n \in Nat : n = 32
  OBVIOUS
<1>2. PICK B : B = {0, 1}
  OBVIOUS
<1>3. n > 0 /\ a \in [1..n -> B] /\ 0 \in B
  BY <1>1, <1>2 DEF Words
<1>4. a \in Seq(B) /\ Len(a) = n /\ a # << >>
  BY <1>3
<1>5. /\ Tail(a) \in Seq(B) /\ Len(Tail(a)) = n - 1
      /\ \A k \in 1..(n - 1) : Tail(a)[k] = a[k + 1]
  BY <1>4, HeadTailProperties
<1>6. /\ Shifted(a) \in Seq(B) /\ Len(Shifted(a)) = n /\ Shifted(a)[n] = 0
      /\ \A k \in 1..(n - 1) : Shifted(a)[k] = Tail(a)[k]
  BY <1>3, <1>5, AppendProperties DEF Shifted
<1>7. Shifted(a) \in [1..n -> B]
  BY <1>6, LenProperties
<1>8. \A k \in 1..31 : k \in 1..(n - 1)
  BY <1>1
<1> QED BY <1>1, <1>2, <1>5, <1>6, <1>7, <1>8 DEF Words

LEMMA FedValue ==
  ASSUME NEW a \in Words, NEW bit \in {0, 1}
  PROVE  /\ Fed(a, bit) \in Words
         /\ \A k \in 1..31 : Fed(a, bit)[k] = IF a[1] = bit THEN a[k + 1]
                                              ELSE (a[k + 1] + Poly[k]) % 2
         /\ Fed(a, bit)[32] = IF a[1] = bit THEN 0 ELSE Poly[32]
<1>1. CASE a[1] = bit
  BY <1>1, ShiftedValue DEF Fed
<1>2. CASE a[1] # bit
  <2>1. \A k \in 1..32 : Fed(a, bit)[k] = (Shifted(a)[k] + Poly[k]) % 2
    BY <1>2 DEF Fed, Xor
  <2>2. \A k \in 1..32 : Shifted(a)[k] \in {0, 1} /\ Poly[k] \in {0, 1}
    BY ShiftedValue, PolyType DEF Words
  <2>3. \A k \in 1..32 : (Shifted(a)[k] + Poly[k]) % 2 \in {0, 1}
    BY <2>2
  <2>4. Fed(a, bit) \in Words
    BY <1>2, <2>3 DEF Fed, Xor, Words
  <2>5. Fed(a, bit)[32] = Poly[32]
    <3>1. Fed(a, bit)[32] = (0 + Poly[32]) % 2
      BY <2>1, ShiftedValue
    <3> QED BY <2>2, <3>1
  <2> QED BY <1>2, <2>1, <2>4, <2>5, ShiftedValue
<1> QED BY <1>1, <1>2

LEMMA RegisterType ==
  ASSUME NEW d \in Bytes, NEW i \in 0..N8(d)
  PROVE  /\ Register(d, i) \in Words
         /\ \A k \in 1..32 : /\ Division(d)[i][i + k] \in {0, 1} /\ Bit(d, i + k) \in {0, 1}
                             /\ Register(d, i)[k] = (Division(d)[i][i + k] + Bit(d, i + k)) % 2
<1>1. N8(d) \in Nat
  BY DEF Bytes, N8
<1>2. ASSUME NEW k \in 1..32
      PROVE  /\ Division(d)[i][i + k] \in {0, 1} /\ Bit(d, i + k) \in {0, 1}
             /\ (Division(d)[i][i + k] + Bit(d, i + k)) % 2 \in {0, 1}
  <2>1. i + k \in 1..(N8(d) + 32) /\ i + k \in Nat \ {0}
    BY <1>1
  <2>2. Division(d)[i][i + k] \in {0, 1} /\ Bit(d, i + k) \in {0, 1}
    BY <2>1, BitType, DivisionLeaves DEF Dividends, BitStrings
  <2> QED BY <2>2
<1> QED BY <1>2 DEF Register, Words

(* A step of the loop is a step of the division.                           *)
LEMMA RegisterNext ==
  ASSUME NEW d \in Bytes, NEW i \in 0..(N8(d) - 1)
  PROVE  Register(d, i + 1) = Fed(Register(d, i), Bit(d, i + 1))
<1> DEFINE a == Register(d, i)
           r == Division(d)[i]
           b == Bit(d, i + 1)
           N == N8(d)
<1>1. N \in Nat /\ i \in 0..N /\ i + 1 \in 0..N /\ i + 1 \in 1..N /\ (i + 1) - 1 = i
  BY DEF Bytes, N8
<1>2. /\ a \in Words /\ Register(d, i + 1) \in Words
      /\ \A k \in 1..32 : /\ r[i + k] \in {0, 1} /\ Bit(d, i + k) \in {0, 1}
                          /\ a[k] = (r[i + k] + Bit(d, i + k)) % 2
      /\ \A k \in 1..32 : /\ Bit(d, (i + 1) + k) \in {0, 1}
                          /\ Register(d, i + 1)[k] =
                                (Division(d)[i + 1][(i + 1) + k] + Bit(d, (i + 1) + k)) % 2
  BY <1>1, RegisterType
<1>3. r \in BitStrings(N) /\ Division(d)[i + 1] = Reduced(r, i + 1)
  BY <1>1, DivisionLeaves DEF Leaves, Dividends
<1>4. \A k \in 1..32 : Division(d)[i + 1][(i + 1) + k] =
                          IF r[i + 1] = 0 THEN r[(i + 1) + k] ELSE (r[(i + 1) + k] + Poly[k]) % 2
  <2> HIDE DEF r, N
  <2>1. PICK j \in 1..N : j = i + 1
    BY <1>1
  <2>2. \A k \in 1..32 : Reduced(r, j)[j + k] =
                            IF r[j] = 0 THEN r[j + k] ELSE (r[j + k] + Poly[k]) % 2
    <3>1. N \in Nat /\ r \in BitStrings(N) /\ j \in 1..N
      BY <1>1, <1>3
    <3> QED BY <3>1, ReducedEffect, ZenonT(40)
  <2> QED BY <1>3, <2>1, <2>2
<1>5. b \in {0, 1} /\ r[i + 1] \in {0, 1} /\ a[1] = (r[i + 1] + b) % 2
  BY <1>2
<1>6. a[1] = b <=> r[i + 1] = 0
  <2> HIDE DEF a, b, r
  <2> QED BY <1>5
<1>7. r[(i + 1) + 32] = Bit(d, (i + 1) + 32)
  <2>1. (i + 1) + 32 \in (i + 33)..(N + 32)
    BY <1>1
  <2> QED BY <1>1, <2>1, AheadIsDividend
<1>8. /\ Fed(a, b) \in Words
      /\ \A k \in 1..31 : Fed(a, b)[k] = IF a[1] = b THEN a[k + 1] ELSE (a[k + 1] + Poly[k]) % 2
      /\ Fed(a, b)[32] = IF a[1] = b THEN 0 ELSE Poly[32]
  <2> HIDE DEF a, b
  <2> QED BY <1>2, <1>5, FedValue
<1>9. ASSUME NEW x \in {0, 1}, NEW y \in {0, 1}, NEW p \in {0, 1}
      PROVE  /\ (((x + p) % 2) + y) % 2 = (((x + y) % 2) + p) % 2
             /\ (((x + p) % 2) + x) % 2 = p /\ (x + x) % 2 = 0
  OBVIOUS
<1>10. ASSUME NEW k \in 1..31 PROVE Register(d, i + 1)[k] = Fed(a, b)[k]
  <2>1. k \in 1..32 /\ k + 1 \in 1..32 /\ i + (k + 1) = (i + 1) + k /\ Poly[k] \in {0, 1}
    BY <1>1, PolyType
  <2>2. /\ a[k + 1] = (r[(i + 1) + k] + Bit(d, (i + 1) + k)) % 2
        /\ r[(i + 1) + k] \in {0, 1} /\ Bit(d, (i + 1) + k) \in {0, 1}
    <3> HIDE DEF a, r
    <3> QED BY <1>2, <2>1
  <2> HIDE DEF a, b, r
  <2>3. CASE r[i + 1] = 0
    BY <1>2, <1>4, <1>6, <1>8, <2>1, <2>2, <2>3
  <2>4. CASE r[i + 1] # 0
    <3>1. Register(d, i + 1)[k] = (((r[(i + 1) + k] + Poly[k]) % 2) + Bit(d, (i + 1) + k)) % 2
      BY <1>2, <1>4, <2>1, <2>4
    <3>2. Fed(a, b)[k] = (((r[(i + 1) + k] + Bit(d, (i + 1) + k)) % 2) + Poly[k]) % 2
      BY <1>6, <1>8, <2>2, <2>4
    <3> QED BY <1>9, <2>1, <2>2, <3>1, <3>2
  <2> QED BY <2>3, <2>4
<1>11. Register(d, i + 1)[32] = Fed(a, b)[32]
  <2>1. /\ Poly[32] \in {0, 1} /\ Bit(d, (i + 1) + 32) \in {0, 1}
        /\ Register(d, i + 1)[32] = (Division(d)[i + 1][(i + 1) + 32] + Bit(d, (i + 1) + 32)) % 2
        /\ Division(d)[i + 1][(i + 1) + 32] =
              IF r[i + 1] = 0 THEN r[(i + 1) + 32] ELSE (r[(i + 1) + 32] + Poly[32]) % 2
    <3>1. 32 \in 1..32
      OBVIOUS
    <3> HIDE DEF a, r
    <3> QED BY <1>2, <1>4, <3>1, PolyType
  <2> HIDE DEF a, b, r
  <2>2. CASE r[i + 1] = 0
    <3>1. /\ Register(d, i + 1)[32] = (Bit(d, (i + 1) + 32) + Bit(d, (i + 1) + 32)) % 2
          /\ Fed(a, b)[32] = 0
      BY <1>6, <1>7, <1>8, <2>1, <2>2
    <3> QED BY <1>9, <2>1, <3>1
  <2>3. CASE r[i + 1] # 0
    <3>1. /\ Register(d, i + 1)[32] =
                (((Bit(d, (i + 1) + 32) + Poly[32]) % 2) + Bit(d, (i + 1) + 32)) % 2
          /\ Fed(a, b)[32] = Poly[32]
      BY <1>6, <1>7, <1>8, <2>1, <2>3
    <3> QED BY <1>9, <2>1, <3>1
  <2> QED BY <2>2, <2>3
<1>12. \A k \in 1..32 : Register(d, i + 1)[k] = Fed(a, b)[k]
  <2>1. \A k \in 1..32 : k \in 1..31 \/ k = 32
    OBVIOUS
  <2> HIDE DEF a, b
  <2> SUFFICES ASSUME NEW k \in 1..32 PROVE Register(d, i + 1)[k] = Fed(a, b)[k]
    OBVIOUS
  <2> QED BY <1>10, <1>11, <2>1
<1> HIDE DEF a, b
<1>13. Register(d, i + 1) = Fed(a, b)
  BY <1>2, <1>8, <1>12, SameWord
<1> QED BY <1>13 DEF a, b

-----------------------------------------------------------------------------
(* The calculation.                                                        *)

(* How many bits of since have been fed, and how many of todo are to come. *)
FedBits == 8 * (Len(since) - Len(todo)) + bit_count
BitsToCome == 8 * Len(todo) - bit_count

CrcTypeInv ==
    /\ crc \in Words /\ todo \in Bytes /\ since \in Bytes /\ bit_count \in 0..7
    /\ NoData => bit_count = 0
(* What is to come is the end of the data.                                 *)
TodoInv ==
    /\ Len(todo) <= Len(since)
    /\ \A j \in 1..Len(todo) : todo[j] = since[Len(since) - Len(todo) + j]
RegisterInv == ~NoData \/ since # <<>> \/ crc # Zeros => crc = Register(since, FedBits)
(* While a section's own CRC comes in, its bits to come are those left of  *)
(* the register.                                                           *)
OwnInv ==
    complete => /\ Len(todo) <= 4
                /\ \A k \in 1..32 : crc[k] = IF k <= BitsToCome THEN Bit(todo, bit_count + k) ELSE 0
CrcInv == CrcTypeInv /\ TodoInv /\ RegisterInv /\ OwnInv

(* Eight bits make a byte, and come out of it again.                       *)
Digits == {0, 1}
ByteOf(c1, c2, c3, c4, c5, c6, c7, c8) ==
    c1 * 128 + c2 * 64 + c3 * 32 + c4 * 16 + c5 * 8 + c6 * 4 + c7 * 2 + c8
BitsAre(x, c1, c2, c3, c4, c5, c6, c7, c8) ==
    /\ x \in 0..255
    /\ (x \div 128) % 2 = c1 /\ (x \div 64) % 2 = c2 /\ (x \div 32) % 2 = c3
    /\ (x \div 16) % 2 = c4 /\ (x \div 8) % 2 = c5 /\ (x \div 4) % 2 = c6
    /\ (x \div 2) % 2 = c7 /\ x % 2 = c8

LEMMA BitsOfByte ==
  ASSUME NEW c1 \in Digits, NEW c2 \in Digits, NEW c3 \in Digits, NEW c4 \in Digits,
         NEW c5 \in Digits, NEW c6 \in Digits, NEW c7 \in Digits, NEW c8 \in Digits
  PROVE  BitsAre(ByteOf(c1, c2, c3, c4, c5, c6, c7, c8), c1, c2, c3, c4, c5, c6, c7, c8)
<1>1. ASSUME NEW x, x = ByteOf(c1, c2, c3, c4, c5, c6, c7, c8)
      PROVE  BitsAre(x, c1, c2, c3, c4, c5, c6, c7, c8)
  BY <1>1 DEF ByteOf, BitsAre, Digits
<1> QED BY <1>1

LEMMA BytesFromBits ==
  ASSUME NEW c \in [1..8 -> {0, 1}],
         NEW x, x = ByteOf(c[1], c[2], c[3], c[4], c[5], c[6], c[7], c[8])
  PROVE  /\ x \in 0..255
         /\ \A b \in 0..7 : DataBit(x, b) = c[b + 1]
<1>1. /\ c[1] \in Digits /\ c[2] \in Digits /\ c[3] \in Digits /\ c[4] \in Digits
      /\ c[5] \in Digits /\ c[6] \in Digits /\ c[7] \in Digits /\ c[8] \in Digits
  <2>1. \A i \in 1..8 : c[i] \in Digits
    BY DEF Digits
  <2> QED BY <2>1
<1>2. BitsAre(x, c[1], c[2], c[3], c[4], c[5], c[6], c[7], c[8])
  BY <1>1, BitsOfByte
<1>3. ASSUME NEW b \in 0..7 PROVE (x \div 2^(7 - b)) % 2 = c[b + 1]
  <2>1. CASE b = 0
    BY <1>2, <2>1 DEF BitsAre
  <2>2. CASE b = 1
    BY <1>2, <2>2 DEF BitsAre
  <2>3. CASE b = 2
    BY <1>2, <2>3 DEF BitsAre
  <2>4. CASE b = 3
    BY <1>2, <2>4 DEF BitsAre
  <2>5. CASE b = 4
    BY <1>2, <2>5 DEF BitsAre
  <2>6. CASE b = 5
    BY <1>2, <2>6 DEF BitsAre
  <2>7. CASE b = 6
    BY <1>2, <2>7 DEF BitsAre
  <2>8. CASE b = 7
    BY <1>2, <2>8 DEF BitsAre
  <2> QED BY <2>1, <2>2, <2>3, <2>4, <2>5, <2>6, <2>7, <2>8
<1> QED BY <1>2, <1>3 DEF DataBit, BitsAre

(* The four bytes of the CRC hold its bits in their order.                 *)
LEMMA OwnCrcBits ==
  ASSUME crc \in Words
  PROVE  /\ OwnCrc \in Bytes /\ Len(OwnCrc) = 4
         /\ \A k \in 1..32 : Bit(OwnCrc, k) = crc[k]
<1>1. ASSUME NEW j \in 1..4
      PROVE  /\ OwnCrc[j] \in 0..255
             /\ \A b \in 0..7 : DataBit(OwnCrc[j], b) = crc[8 * (j - 1) + b + 1]
  <2> DEFINE c == [i \in 1..8 |-> crc[8 * (j - 1) + i]]
  <2>1. c \in [1..8 -> {0, 1}]
    <3>1. \A i \in 1..8 : 8 * (j - 1) + i \in 1..32
      OBVIOUS
    <3> QED BY <3>1 DEF Words
  <2>2. \A i \in 1..8 : c[i] = crc[8 * (j - 1) + i]
    OBVIOUS
  <2> HIDE DEF c
  <2>3. /\ 2^(8 - 1) = 128 /\ 2^(8 - 2) = 64 /\ 2^(8 - 3) = 32 /\ 2^(8 - 4) = 16
        /\ 2^(8 - 5) = 8 /\ 2^(8 - 6) = 4 /\ 2^(8 - 7) = 2 /\ 2^(8 - 8) = 1
    OBVIOUS
  <2>4. OwnCrc[j] = c[1] * 2^(8 - 1) + c[2] * 2^(8 - 2) + c[3] * 2^(8 - 3) + c[4] * 2^(8 - 4)
                    + c[5] * 2^(8 - 5) + c[6] * 2^(8 - 6) + c[7] * 2^(8 - 7) + c[8] * 2^(8 - 8)
    <3>1. OwnCrc[j] = CrcByte(j - 1)
      BY DEF OwnCrc
    <3>2. /\ c[1] = crc[8 * (j - 1) + 1] /\ c[2] = crc[8 * (j - 1) + 2]
          /\ c[3] = crc[8 * (j - 1) + 3] /\ c[4] = crc[8 * (j - 1) + 4]
          /\ c[5] = crc[8 * (j - 1) + 5] /\ c[6] = crc[8 * (j - 1) + 6]
          /\ c[7] = crc[8 * (j - 1) + 7] /\ c[8] = crc[8 * (j - 1) + 8]
      BY <2>2
    <3> QED BY <3>1, <3>2, Zenon DEF CrcByte
  <2>5. OwnCrc[j] = ByteOf(c[1], c[2], c[3], c[4], c[5], c[6], c[7], c[8])
    BY <2>1, <2>3, <2>4 DEF ByteOf
  <2>6. /\ OwnCrc[j] \in 0..255
        /\ \A b \in 0..7 : DataBit(OwnCrc[j], b) = c[b + 1]
    BY <2>1, <2>5, BytesFromBits
  <2>7. \A b \in 0..7 : b + 1 \in 1..8 /\ 8 * (j - 1) + (b + 1) = 8 * (j - 1) + b + 1
    OBVIOUS
  <2> QED BY <2>2, <2>6, <2>7
<1>2. OwnCrc \in Bytes /\ Len(OwnCrc) = 4
  <2>1. PICK n \in Nat : n = 4
    OBVIOUS
  <2>2. PICK S : S = 0..255
    OBVIOUS
  <2>3. OwnCrc = [k \in 1..n |-> CrcByte(k - 1)]
    BY <2>1 DEF OwnCrc
  <2>4. \A j \in 1..n : OwnCrc[j] \in S
    BY <1>1, <2>1, <2>2
  <2>5. OwnCrc \in [1..n -> S]
    BY <2>3, <2>4, Zenon
  <2>6. OwnCrc \in Seq(S) /\ Len(OwnCrc) = n
    BY <2>5
  <2> QED BY <2>1, <2>2, <2>6 DEF Bytes
<1>3. ASSUME NEW k \in 1..32 PROVE Bit(OwnCrc, k) = crc[k]
  <2>1. PICK j \in 1..4 : j = (k + 7) \div 8
    OBVIOUS
  <2>2. PICK b \in 0..7 : k = 8 * (j - 1) + b + 1
    <3>1. k - 1 - 8 * (j - 1) \in 0..7 /\ k = 8 * (j - 1) + (k - 1 - 8 * (j - 1)) + 1
      BY <2>1
    <3> QED BY <3>1
  <2>3. Bit(OwnCrc, k) = DataBit(OwnCrc[j], b)
    BY <1>2, <2>2, BitOfByte
  <2> QED BY <1>1, <2>2, <2>3
<1> QED BY <1>2, <1>3

LEMMA CalculateKeeps ==
  ASSUME CrcInv, NEW bytes \in Bytes, NEW own \in BOOLEAN, Calculate(bytes, own),
         own => bytes = OwnCrc
  PROVE  CrcInv'
<1>1. /\ NoData /\ bit_count = 0 /\ bit_count' = 0 /\ todo' = bytes
      /\ crc' = IF crc = Zeros THEN Ones ELSE crc
      /\ since' = (IF crc = Zeros THEN <<>> ELSE since) \o bytes
      /\ complete' = (own /\ crc # Zeros)
      /\ crc \in Words /\ since \in Bytes /\ todo = <<>>
  BY DEF Calculate, CrcInv, CrcTypeInv, NoData
<1>2. PICK d \in Bytes : d = IF crc = Zeros THEN <<>> ELSE since
  <2>1. <<>> \in Bytes
    BY DEF Bytes
  <2> QED BY <1>1, <2>1
<1>3. /\ since' = d \o bytes /\ since' \in Bytes /\ Len(since') = Len(d) + Len(bytes)
      /\ Len(d) \in Nat /\ Len(bytes) \in Nat
      /\ \A j \in 1..Len(bytes) : since'[Len(d) + j] = bytes[j]
  <2>1. since' = d \o bytes
    BY <1>1, <1>2
  <2> QED BY <2>1, ConcatProperties, LenProperties DEF Bytes
<1>4. Ones \in Words
  BY DEF Ones, Words
<1>5. CrcTypeInv'
  BY <1>1, <1>3, <1>4 DEF CrcTypeInv, NoData
<1>6. TodoInv'
  <2>1. Len(since') - Len(todo') = Len(d) /\ Len(todo') <= Len(since')
    BY <1>1, <1>3
  <2> QED BY <1>1, <1>3, <2>1 DEF TodoInv
<1>7. RegisterInv'
  <2>1. FedBits' = N8(d)
    <3>1. FedBits' = 8 * (Len(since') - Len(bytes)) + 0
      BY <1>1 DEF FedBits
    <3> QED BY <1>3, <3>1 DEF N8
  <2>2. Register(d \o bytes, N8(d)) = Register(d, N8(d))
    BY RegisterOfFirst
  <2>3. CASE crc = Zeros
    <3>1. d = <<>> /\ N8(d) = 0 /\ crc' = Ones
      BY <1>1, <1>2, <2>3 DEF N8
    <3> QED BY <1>3, <2>1, <2>2, <3>1, RegisterAtFirst DEF RegisterInv
  <2>4. CASE crc # Zeros
    <3>1. d = since /\ crc' = crc
      BY <1>1, <1>2, <2>4
    <3>2. FedBits = N8(since)
      <4>1. Len(todo) = 0
        BY <1>1
      <4> QED BY <1>1, <1>3, <3>1, <4>1 DEF FedBits, N8
    <3>3. crc = Register(since, N8(since))
      BY <2>4, <3>2 DEF CrcInv, RegisterInv
    <3> QED BY <1>3, <2>1, <2>2, <3>1, <3>3 DEF RegisterInv
  <2> QED BY <2>3, <2>4
<1>8. OwnInv'
  <2> SUFFICES ASSUME complete' PROVE OwnInv'
    BY DEF OwnInv
  <2>1. bytes = OwnCrc /\ crc' = crc
    BY <1>1
  <2>2. /\ todo' = OwnCrc /\ Len(OwnCrc) = 4
        /\ \A k \in 1..32 : Bit(OwnCrc, k) = crc[k]
    BY <1>1, <2>1, OwnCrcBits
  <2>3. Len(todo') = 4
    BY <2>2
  <2>4. BitsToCome' = 32
    <3>1. BitsToCome' = 8 * Len(todo') - bit_count'
      BY DEF BitsToCome
    <3>2. BitsToCome' = 8 * 4 - 0
      BY <1>1, <2>3, <3>1
    <3> QED BY <3>2
  <2>5. ASSUME NEW k \in 1..32
        PROVE  crc'[k] = IF k <= BitsToCome' THEN Bit(todo', bit_count' + k) ELSE 0
    <3>1. k <= 32 /\ 0 + k = k
      OBVIOUS
    <3>2. bit_count' + k = k
      BY <1>1, <3>1
    <3>3. Bit(todo', bit_count' + k) = crc'[k]
      BY <2>1, <2>2, <3>2
    <3> QED BY <2>4, <3>1, <3>3
  <2>6. Len(todo') <= 4
    BY <2>3
  <2> QED BY <2>5, <2>6 DEF OwnInv
<1> QED BY <1>5, <1>6, <1>7, <1>8 DEF CrcInv

LEMMA NothingKeeps ==
  ASSUME CrcInv, CalculateNothing
  PROVE  CrcInv'
<1>1. /\ crc' = Zeros /\ since' = <<>> /\ complete' = FALSE /\ todo' = <<>> /\ bit_count' = 0
  BY DEF CalculateNothing, NoData, CrcInv, CrcTypeInv
<1>2. Zeros \in Words /\ <<>> \in Bytes /\ Len(<<>>) = 0
  BY DEF Zeros, Words, Bytes
<1> QED BY <1>1, <1>2 DEF CrcInv, CrcTypeInv, TodoInv, RegisterInv, OwnInv, NoData

LEMMA NextBitKeeps ==
  ASSUME CrcInv, NextBit
  PROVE  CrcInv'
<1> DEFINE bit == DataBit(Head(todo), bit_count)
<1>1. /\ todo # <<>> /\ crc \in Words /\ since \in Bytes /\ todo \in Bytes /\ bit_count \in 0..7
      /\ crc' = Fed(crc, bit) /\ UNCHANGED <<since, complete>>
      /\ \/ bit_count = 7 /\ bit_count' = 0 /\ todo' = Tail(todo)
         \/ bit_count # 7 /\ bit_count' = bit_count + 1 /\ todo' = todo
  BY DEF NextBit, NoData, CrcInv, CrcTypeInv
<1>2. /\ Len(todo) \in Nat /\ Len(since) \in Nat /\ Len(todo) > 0 /\ 1 \in 1..Len(todo)
      /\ Head(todo) = todo[1] /\ Tail(todo) \in Bytes /\ Len(Tail(todo)) = Len(todo) - 1
      /\ \A j \in 1..Len(Tail(todo)) : Tail(todo)[j] = todo[j + 1]
  BY <1>1, HeadTailProperties, LenProperties DEF Bytes
<1>3. Len(todo) <= Len(since)
      /\ \A j \in 1..Len(todo) : todo[j] = since[Len(since) - Len(todo) + j]
  BY DEF CrcInv, TodoInv
<1>4. bit = Bit(todo, bit_count + 1)
  <2>1. 8 * (1 - 1) + bit_count + 1 = bit_count + 1
    BY <1>1
  <2>2. Bit(todo, 8 * (1 - 1) + bit_count + 1) = DataBit(todo[1], bit_count)
    BY <1>1, <1>2, BitOfByte
  <2> QED BY <1>2, <2>1, <2>2
<1>5. bit = Bit(since, FedBits + 1) /\ FedBits \in 0..(N8(since) - 1)
  <2>1. PICK j \in 1..Len(since) : j = Len(since) - Len(todo) + 1
    BY <1>2, <1>3
  <2>2. FedBits + 1 = 8 * (j - 1) + bit_count + 1 /\ FedBits \in 0..(N8(since) - 1)
    BY <1>1, <1>2, <1>3, <2>1 DEF FedBits, N8
  <2>3. Bit(since, 8 * (j - 1) + bit_count + 1) = DataBit(since[j], bit_count)
    BY <1>1, <2>1, BitOfByte
  <2> QED BY <1>2, <1>3, <2>1, <2>2, <2>3
<1>6. bit \in {0, 1}
  <2>1. bit_count + 1 \in Nat \ {0}
    BY <1>1
  <2> QED BY <1>1, <1>4, <2>1, BitType
<1> HIDE DEF bit
<1>7. CrcTypeInv'
  <2>1. Fed(crc, bit) \in Words
    BY <1>1, <1>6, FedValue
  <2>2. bit_count' \in 0..7 /\ (todo' = <<>> => bit_count' = 0)
    BY <1>1
  <2>3. todo' \in Bytes
    BY <1>1, <1>2
  <2> QED BY <1>1, <2>1, <2>2, <2>3 DEF CrcTypeInv, NoData
<1>8. /\ Len(todo') \in Nat /\ Len(todo') <= Len(todo)
      /\ FedBits' = FedBits + 1 /\ BitsToCome' = BitsToCome - 1
      /\ BitsToCome \in Int /\ BitsToCome > 0
  BY <1>1, <1>2 DEF FedBits, BitsToCome
<1>9. TodoInv'
  <2>1. CASE bit_count = 7
    <3>1. todo' = Tail(todo) /\ since' = since
      BY <1>1, <2>1
    <3>2. ASSUME NEW j \in 1..Len(Tail(todo))
          PROVE  Tail(todo)[j] = since[Len(since) - Len(Tail(todo)) + j]
      <4>1. PICK m \in Nat, n \in Nat, t \in Nat :
                   m = Len(todo) /\ n = Len(since) /\ t = Len(Tail(todo)) /\ t = m - 1
        BY <1>2
      <4>2. j + 1 \in 1..m /\ n - t + j = n - m + (j + 1)
        <5>1. m \in Nat /\ n \in Nat /\ t = m - 1
          BY <4>1
        <5>2. j \in 1..t
          BY <4>1
        <5> HIDE <4>1
        <5> QED BY <5>1, <5>2
      <4> QED BY <1>2, <1>3, <4>1, <4>2
    <3>3. Len(Tail(todo)) <= Len(since)
      BY <1>2, <1>3
    <3> QED BY <3>1, <3>2, <3>3, Zenon DEF TodoInv
  <2>2. CASE bit_count # 7
    BY <1>1, <1>3, <2>2 DEF TodoInv
  <2> QED BY <2>1, <2>2
<1>10. RegisterInv'
  <2>1. crc = Register(since, FedBits)
    BY <1>1 DEF CrcInv, RegisterInv, NoData
  <2>2. Register(since, FedBits + 1) = Fed(Register(since, FedBits), Bit(since, FedBits + 1))
    BY <1>1, <1>5, RegisterNext
  <2> QED BY <1>1, <1>5, <1>8, <2>1, <2>2 DEF RegisterInv
<1>11. OwnInv'
  <2> SUFFICES ASSUME complete PROVE OwnInv'
    BY <1>1 DEF OwnInv
  <2>1. /\ Len(todo) <= 4
        /\ \A k \in 1..32 : crc[k] = IF k <= BitsToCome THEN Bit(todo, bit_count + k) ELSE 0
    BY DEF CrcInv, OwnInv
  <2>2. crc[1] = bit
    BY <1>4, <1>8, <2>1
  <2>3. /\ crc'[32] = 0
        /\ \A k \in 1..31 : crc'[k] = crc[k + 1]
    BY <1>1, <1>6, <2>2, FedValue
  <2>4. BitsToCome <= 32
    <3>1. PICK m \in Nat : m = Len(todo) /\ m <= 4
      BY <1>2, <2>1
    <3>2. BitsToCome = 8 * m - bit_count
      BY <3>1 DEF BitsToCome
    <3> QED BY <1>1, <3>1, <3>2
  <2>5. ASSUME NEW k \in 1..31, k <= BitsToCome - 1
        PROVE  Bit(todo', bit_count' + k) = Bit(todo, bit_count + (k + 1))
    <3>1. CASE bit_count # 7
      <4>1. bit_count' + k = bit_count + (k + 1) /\ todo' = todo
        BY <1>1, <3>1
      <4> QED BY <4>1
    <3>2. CASE bit_count = 7
      <4>1. todo' = Tail(todo) /\ bit_count' + k = k /\ bit_count + (k + 1) = k + 8
        BY <1>1, <3>2
      <4>2. PICK j \in 1..Len(Tail(todo)) : j = (k + 7) \div 8
        <5>1. k <= 8 * Len(Tail(todo))
          BY <1>2, <2>5, <3>2 DEF BitsToCome
        <5>2. PICK m \in Nat : m = Len(Tail(todo))
          <6>1. Len(Tail(todo)) \in Nat
            BY <1>2
          <6> QED BY <6>1
        <5>3. k <= 8 * m /\ k >= 1 /\ k \in Nat
          BY <5>1, <5>2
        <5>4. (k + 7) \div 8 \in 1..m
          BY <5>3
        <5> QED BY <5>2, <5>4
      <4>3. PICK b \in 0..7 : k = 8 * (j - 1) + b + 1
        <5>1. k - 1 - 8 * (j - 1) \in 0..7 /\ k = 8 * (j - 1) + (k - 1 - 8 * (j - 1)) + 1
          BY <4>2
        <5> QED BY <5>1
      <4>4. j + 1 \in 1..Len(todo) /\ k + 8 = 8 * ((j + 1) - 1) + b + 1
        BY <1>2, <4>3
      <4>5. Bit(Tail(todo), k) = DataBit(Tail(todo)[j], b)
        BY <1>2, <4>3, BitOfByte
      <4>6. Bit(todo, k + 8) = DataBit(todo[j + 1], b)
        BY <1>1, <4>4, BitOfByte
      <4> QED BY <1>2, <4>1, <4>5, <4>6
    <3> QED BY <3>1, <3>2
  <2>6. ASSUME NEW k \in 1..32
        PROVE  crc'[k] = IF k <= BitsToCome' THEN Bit(todo', bit_count' + k) ELSE 0
    <3>1. CASE k = 32
      <4>1. ~(k <= BitsToCome')
        BY <1>8, <2>4, <3>1
      <4> QED BY <2>3, <3>1, <4>1
    <3>2. CASE k # 32
      <4>1. k \in 1..31 /\ k + 1 \in 1..32
        BY <3>2
      <4>2. crc'[k] = IF k + 1 <= BitsToCome THEN Bit(todo, bit_count + (k + 1)) ELSE 0
        BY <2>1, <2>3, <4>1
      <4>3. /\ k <= BitsToCome' <=> k + 1 <= BitsToCome
            /\ k <= BitsToCome' <=> k <= BitsToCome - 1
        BY <1>8
      <4>4. k <= BitsToCome' => Bit(todo', bit_count' + k) = Bit(todo, bit_count + (k + 1))
        BY <2>5, <4>1, <4>3
      <4> QED BY <4>2, <4>3, <4>4
    <3> QED BY <3>1, <3>2
  <2>7. Len(todo') <= 4
    BY <1>2, <1>8, <2>1
  <2> QED BY <1>1, <2>6, <2>7 DEF OwnInv
<1> QED BY <1>7, <1>9, <1>10, <1>11 DEF CrcInv

LEMMA CrcInvInit == CrcInit => CrcInv
<1> SUFFICES ASSUME CrcInit PROVE CrcInv
  OBVIOUS
<1>1. /\ crc = Zeros /\ since = <<>> /\ complete = FALSE /\ todo = <<>> /\ bit_count = 0
  BY DEF CrcInit
<1>2. Zeros \in Words /\ <<>> \in Bytes /\ Len(<<>>) = 0
  BY DEF Zeros, Words, Bytes
<1> QED BY <1>1, <1>2 DEF CrcInv, CrcTypeInv, TodoInv, RegisterInv, OwnInv, NoData

LEMMA CrcInvStep == CrcInv /\ [CrcNext]_crcVars => CrcInv'
<1> SUFFICES ASSUME CrcInv, [CrcNext]_crcVars PROVE CrcInv'
  OBVIOUS
<1>1. CASE \E bytes \in Chunks : Calculate(bytes, FALSE)
  <2>1. PICK bytes \in Chunks : Calculate(bytes, FALSE)
    BY <1>1
  <2>2. bytes \in Bytes
    BY CrcAssumption DEF Bytes
  <2> QED BY <2>1, <2>2, CalculateKeeps
<1>2. CASE Calculate(OwnCrc, TRUE)
  <2>1. OwnCrc \in Bytes
    BY OwnCrcBits DEF CrcInv, CrcTypeInv
  <2> QED BY <1>2, <2>1, CalculateKeeps
<1>3. CASE CalculateNothing
  BY <1>3, NothingKeeps
<1>4. CASE NextBit
  BY <1>4, NextBitKeeps
<1>5. CASE UNCHANGED crcVars
  <2>1. UNCHANGED <<crc, todo, bit_count, since, complete>>
    BY <1>5 DEF crcVars
  <2>2. FedBits' = FedBits /\ BitsToCome' = BitsToCome
    BY <2>1 DEF FedBits, BitsToCome
  <2> QED BY <2>1, <2>2 DEF CrcInv, CrcTypeInv, TodoInv, RegisterInv, OwnInv, NoData
<1> QED BY <1>1, <1>2, <1>3, <1>4, <1>5 DEF CrcNext

LEMMA CrcInvIsRemainder == CrcInv => CrcIsRemainder
<1> SUFFICES ASSUME CrcInv, NoData PROVE CrcIsRemainder
  BY DEF CrcIsRemainder
<1>1. /\ todo = <<>> /\ Len(todo) = 0 /\ bit_count = 0 /\ since \in Bytes /\ crc \in Words
      /\ Len(since) \in Nat
  BY DEF CrcInv, CrcTypeInv, NoData, Bytes
<1>2. FedBits = N8(since) /\ BitsToCome = 0
  BY <1>1 DEF FedBits, BitsToCome, N8
<1>3. since # <<>> \/ crc # Zeros => crc = Remainder(since)
  BY <1>1, <1>2, RegisterAtLast DEF CrcInv, RegisterInv
<1>4. complete => crc = Zeros
  <2>1. complete => \A k \in 1..32 : crc[k] = 0
    <3>1. \A k \in 1..32 : ~(k <= BitsToCome)
      BY <1>2
    <3> QED BY <3>1 DEF CrcInv, OwnInv
  <2> QED BY <1>1, <2>1 DEF Words, Zeros
<1> QED BY <1>3, <1>4 DEF CrcIsRemainder

-----------------------------------------------------------------------------
(* THE SERVICES TOGETHER.                                                  *)

(* The log of the program behaves as the log alone, or stands still.       *)
LEMMA LogIsAService == Spec => LogSpec
<1>1. Init => LogInit
  BY DEF Init
<1>2. [Next]_vars => [LogNext]_logVars
  BY DEF Next, ByPhy, vars
<1> QED BY <1>1, <1>2, PTL DEF Spec, LogSpec

(* The list of the program behaves as the list alone, or stands still.     *)
LEMMA ListIsAService == Spec => ListSpec
<1>1. Init => ListInit
  BY DEF Init
<1>2. [Next]_vars => [ListNext]_listVars
  BY DEF Next, ByPhy, vars
<1> QED BY <1>1, <1>2, PTL DEF Spec, ListSpec

(* The switches of the log decide where each line is put out, in every     *)
(* behaviour of the services (wv_log.c:372-393).                           *)
THEOREM SwitchesAreObeyedInServices == Spec => []SwitchesDecide
BY LogIsAService, SwitchesAreObeyed, PTL

(* Whatever threads log, a line is that of its call, and is whole if the   *)
(* static buffer was left alone meanwhile (wv_log.c:352-363).              *)
THEOREM LinesBelongInServices == Spec => []LinesAreOwn
BY LogIsAService, LinesBelongToTheirCalls, PTL

(* Whatever threads add to and remove from the list, it is linked both     *)
(* ways within its size, and no node is lost (list.c:169-383).             *)
THEOREM LinksAgreeInServices == Spec => []LinksAgree
BY ListIsAService, LinksAlwaysAgree, PTL

(* For one thread that adds and one that removes, the calls are those of a *)
(* bounded deque (list.c:180-460).                                         *)
THEOREM DequeInServices == Spec => ImplementsDeque
BY ListIsAService, ListImplementsDeque, PTL

(* Unless it begins an access or takes what one read on a busy bus, SetEth *)
(* leaves the PHY's registers as they were but for the delays,             *)
(* autonegotiation and the speed, for any number of polls and of waits     *)
(* that run out, and whatever the registers held; in any case it writes to *)
(* no other register, and tells whether it saw a speed                     *)
(* (IPconfig.c:187-278).                                                   *)
THEOREM SettingsAreMadeBySetEth == Spec => []SettingsAreMade
<1>1. Init => PhyInv
  BY PhyInvInit DEF Init
<1>2. [Next]_vars => [PhyNext]_phyVars
  BY DEF Next, ByPhy, vars
<1>3. PhyInv /\ [Next]_vars => PhyInv'
  BY <1>2, PhyInvStep
<1>4. PhyInv => SettingsAreMade
  BY PhyInvMakesSettings
<1> QED BY <1>1, <1>3, <1>4, PTL DEF Spec

(* Each call of Common_CRCCalculate returns the remainder of the division  *)
(* of all the data since one began with 0, for any data and however they   *)
(* are split between calls, and over a section with its own CRC it returns *)
(* 0 (tools.c:33-68).                                                      *)
THEOREM CrcIsAlwaysRemainder == Spec => []CrcIsRemainder
<1>1. Init => CrcInv
  BY CrcInvInit DEF Init
<1>2. [Next]_vars => [CrcNext]_crcVars
  BY DEF Next, ByPhy, vars
<1>3. CrcInv /\ [Next]_vars => CrcInv'
  BY <1>2, CrcInvStep
<1>4. CrcInv => CrcIsRemainder
  BY CrcInvIsRemainder
<1> QED BY <1>1, <1>3, <1>4, PTL DEF Spec
=============================================================================
