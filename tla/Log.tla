-------------------------------- MODULE Log --------------------------------
(* The log of os/log/wv_log.c.  Log_Printf first formats a line in one     *)
(* static buffer, which every thread uses and no lock protects, then       *)
(* copies it behind the line's level and module, and only then asks        *)
(* whether they are open, each with a read of its own.                     *)
(*                                                                         *)
(* The program itself calls Log_Init, first of all and with good           *)
(* arguments, and Log_Printf.  The setters and Log_Clear are called here   *)
(* by main, at any time after that.                                        *)
EXTENDS Integers, Sequences, FiniteSets

CONSTANTS
    Printers,       \* threads that log, Main among them
    Main,
    Levels, Modules,
    TextLen,        \* TextLen[t]: the length of the lines thread t logs
    LineMax,        \* LOG_LINE_MAX_LEN less a line's level and module: what its
                    \* text has room for, with its NUL, in either buffer
    MaxSwitches     \* bound: calls of the setters and of Log_Clear

ASSUME LogAssumption ==
    /\ Main \in Printers /\ "ERROR" \in Levels /\ {"INIT", "SYS"} \subseteq Modules
    /\ "syslogd" \notin Levels \cup Modules
    /\ LineMax \in Nat /\ \A t \in Printers : TextLen[t] \in 1..(LineMax - 1)
    /\ MaxSwitches \in Nat

VARIABLES
    s_stLogCtrl,     \* the levels, modules and outputs that are open
    s_isSyslogOpen, s_isLogInit,
    syslogd,         \* external: the daemon runs
    u8arrTempBuff,   \* the static buffer
    lpc, at,         \* per thread: the next step of Log_Printf, the next character
    line,            \* per thread: u8arrStringBuff, the line of its call
    asked,           \* per thread: the level and module it called with
    shown,           \* per thread: where its line was put out
    alone,           \* per thread: nobody else wrote to the static buffer
                     \* from its memset to its copy
    opened, closed,  \* per thread: the switches its line depends on that were
                     \* open, closed, all the time its call took
    logPc, switched  \* main: control, calls that changed a switch

ctrlVars == <<s_stLogCtrl, s_isSyslogOpen, s_isLogInit, syslogd>>
lineVars == <<u8arrTempBuff, lpc, at, line, asked, shown, alone>>
logVars == <<ctrlVars, lineVars, opened, closed, logPc, switched>>

Outputs == {"console", "syslog"}
NUL == <<>>
NoLine == [level |-> "none", module |-> "none", text |-> <<>>]
NotAsked == [level |-> "none", module |-> "none"]
Character(t, i) == <<t, i>>
Text(t) == [i \in 1..TextLen[t] |-> Character(t, i)]

(* What lets a line through.  A syslog line needs the daemon as well.      *)
Gates == s_stLogCtrl \cup (IF s_isSyslogOpen /\ syslogd THEN {"syslogd"} ELSE {})
GatesOf(l, m) == {l, m, "syslogd"} \cup Outputs

LogInit ==
    /\ s_stLogCtrl = {} /\ s_isSyslogOpen = FALSE /\ s_isLogInit = FALSE /\ syslogd = FALSE
    /\ u8arrTempBuff = [i \in 1..LineMax |-> NUL]
    /\ lpc = [t \in Printers |-> "none"] /\ at = [t \in Printers |-> 1]
    /\ line = [t \in Printers |-> NoLine]
    /\ asked = [t \in Printers |-> NotAsked]
    /\ shown = [t \in Printers |-> {}] /\ alone = [t \in Printers |-> TRUE]
    /\ opened = [t \in Printers |-> {}] /\ closed = [t \in Printers |-> {}]
    /\ logPc = "init" /\ switched = 0

-----------------------------------------------------------------------------
(* Log_Printf.                                                             *)

LogGoto(t, step) == lpc' = [lpc EXCEPT ![t] = step]
Formatting(t) == lpc[t] \in {"format", "compose"}
Disturb(t) == alone' = [u \in Printers |-> IF u # t /\ Formatting(u) THEN FALSE ELSE alone[u]]

(* Up to the memset of the static buffer.                                  *)
StartPrintf(t, l, m) ==
    /\ lpc[t] = "none"
    /\ u8arrTempBuff' = [i \in 1..LineMax |-> NUL]
    /\ LogGoto(t, "format") /\ Disturb(t)
    /\ asked' = [asked EXCEPT ![t] = [level |-> l, module |-> m]]
    /\ opened' = [opened EXCEPT ![t] = GatesOf(l, m) \cap Gates]
    /\ closed' = [closed EXCEPT ![t] = GatesOf(l, m) \ Gates]
    /\ UNCHANGED <<at, line, shown>>

(* vsprintf, a character at a time, and the NUL behind the last.           *)
Format(t) ==
    LET ends == at[t] > TextLen[t]
    IN /\ lpc[t] = "format"
       /\ u8arrTempBuff' = [u8arrTempBuff EXCEPT ![at[t]] = IF ends THEN NUL ELSE Character(t, at[t])]
       /\ IF ends THEN LogGoto(t, "compose") /\ UNCHANGED at
                  ELSE at' = [at EXCEPT ![t] = @ + 1] /\ UNCHANGED lpc
       /\ Disturb(t)
       /\ UNCHANGED <<line, asked, shown, opened, closed>>

(* What a "%s" of the static buffer yields.                                *)
TempText == LET end == CHOOSE i \in 1..LineMax :
                          /\ u8arrTempBuff[i] = NUL
                          /\ \A k \in 1..(i - 1) : u8arrTempBuff[k] # NUL
            IN SubSeq(u8arrTempBuff, 1, end - 1)

Composed(t) == [level |-> asked[t].level, module |-> asked[t].module, text |-> TempText]

(* A line of the log's own start, before there is a log.                   *)
EarlyNotice(t) == asked[t].module = "INIT" /\ ~s_isLogInit

(* Slip: u8arrStringBuff is static as well.                                *)
ComposeStatic(t) ==
    /\ lpc[t] = "compose"
    /\ line' = [u \in Printers |-> Composed(t)]
    /\ shown' = [shown EXCEPT ![t] = IF EarlyNotice(t) THEN {"notice"} ELSE {}]
    /\ LogGoto(t, "level")
    /\ UNCHANGED <<u8arrTempBuff, at, asked, alone, opened, closed>>

Compose(t) ==
    /\ lpc[t] = "compose"
    /\ line' = [line EXCEPT ![t] = Composed(t)]
    /\ shown' = [shown EXCEPT ![t] = IF EarlyNotice(t) THEN {"notice"} ELSE {}]
    /\ LogGoto(t, "level")
    /\ UNCHANGED <<u8arrTempBuff, at, asked, alone, opened, closed>>

(* Log_IsOpenLevel and, in another read, Log_IsOpenModule.                 *)
(* Slip: an open level is enough.                                          *)
TestLevelOnly(t) ==
    /\ lpc[t] = "level"
    /\ LogGoto(t, IF asked[t].level \in s_stLogCtrl THEN "output" ELSE "done")
    /\ UNCHANGED <<u8arrTempBuff, at, line, asked, shown, alone, opened, closed>>

TestLevel(t) ==
    /\ lpc[t] = "level"
    /\ LogGoto(t, IF asked[t].level \in s_stLogCtrl THEN "module" ELSE "done")
    /\ UNCHANGED <<u8arrTempBuff, at, line, asked, shown, alone, opened, closed>>

TestModule(t) ==
    /\ lpc[t] = "module"
    /\ LogGoto(t, IF asked[t].module \in s_stLogCtrl THEN "output" ELSE "done")
    /\ UNCHANGED <<u8arrTempBuff, at, line, asked, shown, alone, opened, closed>>

Show(t, where) == shown' = [shown EXCEPT ![t] = @ \cup where]

(* The outputs are read once; the console comes first.                     *)
PutOut(t) ==
    /\ lpc[t] = "output"
    /\ Show(t, {"console"} \cap s_stLogCtrl)
    /\ LogGoto(t, IF "syslog" \in s_stLogCtrl THEN "syslog" ELSE "done")
    /\ UNCHANGED <<u8arrTempBuff, at, line, asked, alone, opened, closed>>

(* syslog drops a line when no daemon listens.                             *)
PutToSyslog(t) ==
    /\ lpc[t] = "syslog"
    /\ Show(t, IF ~s_isSyslogOpen THEN {"notOpen"} ELSE IF syslogd THEN {"syslog"} ELSE {})
    /\ LogGoto(t, "done")
    /\ UNCHANGED <<u8arrTempBuff, at, line, asked, alone, opened, closed>>

Return(t) ==
    /\ lpc[t] = "done" /\ LogGoto(t, "none") /\ at' = [at EXCEPT ![t] = 1]
    /\ line' = [line EXCEPT ![t] = NoLine] /\ asked' = [asked EXCEPT ![t] = NotAsked]
    /\ shown' = [shown EXCEPT ![t] = {}] /\ alone' = [alone EXCEPT ![t] = TRUE]
    /\ opened' = [opened EXCEPT ![t] = {}] /\ closed' = [closed EXCEPT ![t] = {}]
    /\ UNCHANGED u8arrTempBuff

PrintfSteps(t) == \/ Format(t) \/ Compose(t) \/ TestLevel(t) \/ TestModule(t)
                  \/ PutOut(t) \/ PutToSyslog(t) \/ Return(t)

(* A thread of the program logs, once main has started it.                 *)
Logs(t) == /\ logPc = "idle"
           /\ \E l \in Levels, m \in Modules : StartPrintf(t, l, m)

Logging == /\ \E t \in Printers : PrintfSteps(t) \/ Logs(t)
           /\ UNCHANGED <<ctrlVars, logPc, switched>>

-----------------------------------------------------------------------------
(* Main.                                                                   *)

(* Where the gates stay as they are, or become what is said.               *)
SetGates(open, isOpen, daemon) ==
    /\ s_stLogCtrl' = open /\ s_isSyslogOpen' = isOpen /\ syslogd' = daemon
    /\ LET gates == open \cup (IF isOpen /\ daemon THEN {"syslogd"} ELSE {})
           busy(t) == lpc[t] # "none"
       IN /\ opened' = [t \in Printers |-> IF busy(t) THEN opened[t] \cap gates ELSE opened[t]]
          /\ closed' = [t \in Printers |-> IF busy(t) THEN closed[t] \ gates ELSE closed[t]]
    /\ UNCHANGED lineVars

(* Log_Init with the directory of the log file there: the daemon is        *)
(* started by a shell command whose result nobody asks for.                *)
OpenSyslog == /\ logPc = "init"
              /\ \E daemon \in BOOLEAN : SetGates({}, TRUE, daemon)
              /\ logPc' = "openAll" /\ UNCHANGED <<s_isLogInit, switched>>

(* Without the directory.                                                  *)
NoLogDir == /\ logPc = "init" /\ StartPrintf(Main, "ERROR", "INIT")
            /\ logPc' = "openAll" /\ UNCHANGED <<ctrlVars, switched>>

OpenAll == /\ logPc = "openAll" /\ lpc[Main] = "none"
           /\ SetGates(Levels \cup Modules \cup Outputs, s_isSyslogOpen, syslogd)
           /\ s_isLogInit' = TRUE /\ logPc' = "idle" /\ UNCHANGED switched

MainFree == logPc = "idle" /\ lpc[Main] = "none" /\ switched < MaxSwitches

(* Log_SetLevel, Log_SetModule and Log_SetOutputMode.                      *)
SetSwitch(s) == /\ MainFree
                /\ \/ SetGates(s_stLogCtrl \cup {s}, s_isSyslogOpen, syslogd)
                   \/ SetGates(s_stLogCtrl \ {s}, s_isSyslogOpen, syslogd)
                /\ switched' = switched + 1 /\ UNCHANGED <<s_isLogInit, logPc>>

(* Log_Clear stops the daemon, empties the file, and starts the daemon     *)
(* again, unless the file could not be opened.                             *)
StopSyslogd == /\ MainFree /\ SetGates(s_stLogCtrl, s_isSyslogOpen, FALSE)
               /\ switched' = switched + 1 /\ logPc' = "clear" /\ UNCHANGED s_isLogInit

CannotClear == /\ logPc = "clear" /\ StartPrintf(Main, "ERROR", "SYS")
               /\ logPc' = "idle" /\ UNCHANGED <<ctrlVars, switched>>

StartSyslogd == /\ logPc = "clear"
                /\ \E daemon \in BOOLEAN : SetGates(s_stLogCtrl, s_isSyslogOpen, daemon)
                /\ logPc' = "idle" /\ UNCHANGED <<s_isLogInit, switched>>

Administer == \/ OpenSyslog \/ NoLogDir \/ OpenAll \/ StopSyslogd \/ CannotClear \/ StartSyslogd
              \/ \E s \in Levels \cup Modules \cup Outputs : SetSwitch(s)

LogNext == Logging \/ Administer

LogSpec == LogInit /\ [][LogNext]_logVars

-----------------------------------------------------------------------------
(* Properties.                                                             *)

LogTypeOK ==
    /\ s_stLogCtrl \subseteq Levels \cup Modules \cup Outputs
    /\ {s_isSyslogOpen, s_isLogInit, syslogd} \subseteq BOOLEAN
    /\ lpc \in [Printers -> {"none", "format", "compose", "level", "module", "output", "syslog", "done"}]
    /\ at \in [Printers -> 1..LineMax]
    /\ logPc \in {"init", "openAll", "idle", "clear"}

(* A line carries the level and module of its own call whatever other      *)
(* threads log, and all of its own text if nobody wrote to the static      *)
(* buffer between its memset and its copy (wv_log.c:352-363); before main  *)
(* has opened the log only its own start is reported.                      *)
LinesAreOwn ==
    /\ LogTypeOK
    /\ \A t \in Printers : line[t] # NoLine =>
          /\ line[t].level = asked[t].level /\ line[t].module = asked[t].module
          /\ alone[t] => line[t].text = Text(t)
          /\ "notice" \in shown[t] => t = Main /\ asked[t].module = "INIT"

(* Level, module and outputs are read one after the other while main may   *)
(* change them.  A line is put out where its level, its module, the output *)
(* and for syslog the daemon were open all the time, and not where one of  *)
(* them was closed all the time (wv_log.c:372-393).                        *)
SwitchesDecide ==
    \A t \in Printers, o \in Outputs :
       lpc[t] = "done" =>
          LET gates == {asked[t].level, asked[t].module, o}
                       \cup (IF o = "syslog" THEN {"syslogd"} ELSE {})
          IN /\ gates \subseteq opened[t] => o \in shown[t]
             /\ o \in shown[t] => gates \cap closed[t] = {}
=============================================================================
