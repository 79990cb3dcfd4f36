------------------------------ MODULE AppExit ------------------------------
(***************************************************************************)
(* The life of the application (src/src/CustomKeyboard.cpp, and CSingleton *)
(* of src/src/utils/CSingleton.hpp): OnInit makes the handlers and starts  *)
(* the singletons one after the other, OnExit and ~MyApp destroy them one  *)
(* after the other, and all the while the threads of those that are still  *)
(* there use the others.  CSingleton::Get makes what is not there, so what *)
(* was destroyed comes back when it is asked for; Destroy forgets its      *)
(* pointer only after the destructor returned.  A handler is a unique_ptr  *)
(* of MyApp, which is null as soon as its reset begins.                    *)
(* Objects that start no thread and that no thread uses are left out, and  *)
(* what a use does is in the module of the object.                         *)
(***************************************************************************)
EXTENDS Naturals, Sequences, FiniteSets, SequencesExt

CONSTANTS MaxInside,    \* bound: threads that use something at one time
          MaxAgain      \* bound: singletons made again

Handlers == {"can_entry", "cmd_executor", "did_handler", "modbus_handler", "data_sender", "alarm_entry"}
Singletons == {"Settings", "SerialPort", "CanSerialPort", "DataSerialPort", "Server", "Sensors", "DatabaseLogic",
               "PrintScreenSaver", "DirectoryBackup", "SerialTcpBackend", "CorsairHid", "CustomMacro",
               "IdlePowerSaver", "Logger"}
Objects == Handlers \cup Singletons

(* Whose thread it is: its destructor waits for it.  A macro comes from the  *)
(* keyboard's port, the TCP backend, the HID device or an alarm.             *)
Owner == [can_port |-> "CanSerialPort", data_port |-> "DataSerialPort", port |-> "SerialPort",
          backend |-> "SerialTcpBackend", hid |-> "CorsairHid", alarm |-> "alarm_entry",
          can |-> "can_entry", did |-> "did_handler", sender |-> "data_sender",
          modbus |-> "modbus_handler", server |-> "Server", graph |-> "DatabaseLogic",
          backup |-> "DirectoryBackup"]
AppThreads == DOMAIN Owner
MacroThreads == {"port", "backend", "hid", "alarm"}

MacroUses == {"CustomMacro", "cmd_executor", "PrintScreenSaver"}   \* ExecuteKeypresses, CommandXml::Execute
Uses(t) ==
  {"Logger"} \cup
  CASE t = "can_port"  -> {"can_entry", "CanSerialPort"}
    [] t = "data_port" -> {"data_sender", "DataSerialPort"}
    [] t = "port"      -> MacroUses \cup {"alarm_entry", "SerialPort"}
    [] t = "backend"   -> MacroUses \cup {"alarm_entry", "SerialPort"}
    [] t = "hid"       -> MacroUses \cup {"alarm_entry"}
    [] t = "alarm"     -> MacroUses
    [] t = "can"       -> {"CanSerialPort"}
    [] t = "did"       -> {"can_entry", "CanSerialPort"}
    [] t = "sender"    -> {"DataSerialPort"}
    [] t = "modbus"    -> {"modbus_handler"}
    [] t = "server"    -> {"Server", "Sensors", "DatabaseLogic", "Settings"}
    [] t = "graph"     -> {"Sensors"}
    [] t = "backup"    -> {}

(* A use that asks first whether the handler is there.                       *)
Checked == {<<"modbus", "modbus_handler">>}

(* Whose destructor waits for its thread before anything of it is destroyed. *)
(* ~SerialPortBase joins when the members of the derived class are gone.     *)
JoinsFirst == {"Server"}

(* What a destructor itself uses. *)
DestructorUses(o) == CASE o = "did_handler"    -> {"can_entry"}     \* UnregisterObserver
                       [] o = "IdlePowerSaver" -> {"Logger"}        \* SetCpuPowerPercent
                       [] OTHER                -> {}

Does(what, names) == [k \in DOMAIN names |-> <<what, names[k]>>]

OnInit ==
  Does("new", <<"can_entry", "cmd_executor", "did_handler", "modbus_handler", "data_sender", "alarm_entry">>)
  \o Does("init", <<"Settings", "SerialPort", "CanSerialPort", "DataSerialPort", "Server", "DirectoryBackup",
                    "SerialTcpBackend", "CorsairHid", "can_entry", "did_handler", "data_sender">>)

OnExitWith(handlers) ==
  Does("delete", <<"CanSerialPort", "DataSerialPort">> \o handlers \o
     <<"cmd_executor", "modbus_handler", "data_sender", "IdlePowerSaver", "Settings", "CustomMacro", "Server",
       "Sensors", "DatabaseLogic", "PrintScreenSaver", "DirectoryBackup", "DatabaseLogic", "SerialTcpBackend",
       "SerialPort", "CorsairHid", "Logger", "alarm_entry">>)
OnExitSwapped == OnExitWith(<<"can_entry", "did_handler">>)     \* mutant
OnExit == OnExitWith(<<"did_handler", "can_entry">>)

Life == OnInit \o <<<<"run", "the main loop">>>> \o OnExit

VARIABLES
  axAt,        \* the step of Life the main thread is at
  axState,     \* of an object: "none", "live", "dying" in its destructor, "gone"
  axRunning,   \* the threads that run
  axInside,    \* what a thread is using, or "nothing"
  axAgain      \* history: singletons that were made again

axVars == <<axAt, axState, axRunning, axInside, axAgain>>

Doing(what) == axAt <= Len(Life) /\ Life[axAt][1] = what
Which == Life[axAt][2]
ThreadsOf(o) == {t \in AppThreads : Owner[t] = o}

AppInit ==
  /\ axAt = 1
  /\ axState = [o \in Objects |-> "none"]
  /\ axRunning = {}
  /\ axInside = [t \in AppThreads |-> "nothing"]
  /\ axAgain = {}

-----------------------------------------------------------------------------
(* The main thread. *)

(* make_unique; two constructors start the thread themselves.                *)
Construct ==
  /\ Doing("new") /\ axAt' = axAt + 1
  /\ axState' = [axState EXCEPT ![Which] = "live"]
  /\ axRunning' = axRunning \cup (IF Which \in {"modbus_handler", "alarm_entry"} THEN ThreadsOf(Which) ELSE {})
  /\ UNCHANGED <<axInside, axAgain>>

(* Get()->Init().  The loading of the settings asks for every singleton, and *)
(* the server's start generates the graphs.                                  *)
Initialise ==
  /\ Doing("init") /\ axAt' = axAt + 1
  /\ axState' = [o \in Objects |-> IF o \in Singletons /\ axState[o] = "none" THEN "live" ELSE axState[o]]
  /\ axRunning' = axRunning \cup (IF Which = "DirectoryBackup" THEN {} ELSE ThreadsOf(Which))
                            \cup (IF Which = "Server" THEN {"graph"} ELSE {})
  /\ UNCHANGED <<axInside, axAgain>>

(* The user may start a backup, and goes on to leave. *)
Run ==
  /\ Doing("run") /\ axAt' = axAt + 1
  /\ axRunning' \in {axRunning, axRunning \cup {"backup"}}
  /\ UNCHANGED <<axState, axInside, axAgain>>

(* Destroy, or reset: the destructor begins, waits for its threads, and the  *)
(* pointer to a singleton is forgotten.                                      *)
BeginDelete ==
  /\ Doing("delete") /\ axState[Which] = "live"
  /\ axState' = [axState EXCEPT ![Which] = "dying"]
  /\ UNCHANGED <<axAt, axRunning, axInside, axAgain>>
EndDelete ==
  /\ Doing("delete") /\ axState[Which] = "dying"
  /\ \A t \in ThreadsOf(Which) : axInside[t] = "nothing"
  /\ axState' = [axState EXCEPT ![Which] = "gone"] /\ axAt' = axAt + 1
  /\ axRunning' = axRunning \ ThreadsOf(Which)
  /\ UNCHANGED <<axInside, axAgain>>
NothingToDelete ==
  /\ Doing("delete") /\ axState[Which] \in {"none", "gone"} /\ axAt' = axAt + 1
  /\ UNCHANGED <<axState, axRunning, axInside, axAgain>>

-----------------------------------------------------------------------------
(* The other threads. *)

Busy == {t \in AppThreads : axInside[t] # "nothing"}
Armed == axAt > Len(OnInit)      \* an alarm is set with a key, in the main loop

(* A singleton comes from Get, whatever became of the one before.            *)
Use(t, o) ==
  /\ t \in axRunning /\ axInside[t] = "nothing" /\ Cardinality(Busy) < MaxInside
  /\ o \in Uses(t)
  /\ t = "alarm" /\ o # "Logger" => Armed
  /\ <<t, o>> \in Checked => axState[o] = "live"
  /\ axInside' = [axInside EXCEPT ![t] = o]
  /\ IF o \in Singletons /\ axState[o] \in {"none", "gone"}
     THEN /\ axState' = [axState EXCEPT ![o] = "live"]
          /\ axAgain' = IF axState[o] = "gone" THEN axAgain \cup {o} ELSE axAgain
          /\ Cardinality(axAgain') <= MaxAgain
     ELSE UNCHANGED <<axState, axAgain>>
  /\ UNCHANGED <<axAt, axRunning>>

LeaveObject(t) ==
  /\ axInside[t] # "nothing" /\ axInside' = [axInside EXCEPT ![t] = "nothing"]
  /\ UNCHANGED <<axAt, axState, axRunning, axAgain>>

AppNext ==
  \/ Construct \/ Initialise \/ Run \/ BeginDelete \/ EndDelete \/ NothingToDelete
  \/ \E t \in AppThreads : LeaveObject(t) \/ \E o \in Objects : Use(t, o)
AppSpec == AppInit /\ [][AppNext]_axVars

-----------------------------------------------------------------------------
(* Properties. *)

(* What a thread uses is not there, or is being destroyed under it.          *)
Harmed(t) ==
  LET o == axInside[t]
  IN  /\ o # "nothing" /\ axState[o] # "live"
      /\ ~(Owner[t] = o /\ o \in JoinsFirst)

(* The order of OnExit is right, and its first comment with it, but for what *)
(* follows: the ports go before those who send through them, the settings,   *)
(* the sensors and everything a macro needs before the threads that use      *)
(* them, and a serial port and the Modbus handler are half destroyed when    *)
(* they wait for their threads.                                              *)
TooLate ==
  {<<"can", "CanSerialPort">>, <<"did", "CanSerialPort">>, <<"sender", "DataSerialPort">>,
   <<"server", "Settings">>, <<"graph", "Sensors">>, <<"alarm", "Logger">>}
  \cup MacroThreads \X MacroUses
  \cup {<<"can_port", "CanSerialPort">>, <<"data_port", "DataSerialPort">>, <<"port", "SerialPort">>,
         <<"modbus", "modbus_handler">>}
UsedWhileThere == \A t \in AppThreads : Harmed(t) => <<t, axInside[t]>> \in TooLate

(* A destructor finds what it uses: the observers it leaves (the comment at  *)
(* CustomKeyboard.cpp:57), the log it writes to (:63).                       *)
DestructorsFindTheirs ==
  \A o \in Objects : axState[o] = "dying" => \A u \in DestructorUses(o) : axState[u] = "live"

(* Destroyed is destroyed, for all but the seven that come back: a second    *)
(* server, database or serial port is never made, and nothing else is left.  *)
ComesBack == {"CanSerialPort", "DataSerialPort", "Settings", "CustomMacro", "PrintScreenSaver", "Sensors", "Logger"}
NothingElseLeft ==
  /\ axAgain \subseteq ComesBack
  /\ axAt > Len(Life) => axRunning = {} /\ \A o \in Objects : axState[o] = "live" => o \in axAgain

AppExitSafe == UsedWhileThere /\ DestructorsFindTheirs /\ NothingElseLeft
=============================================================================
