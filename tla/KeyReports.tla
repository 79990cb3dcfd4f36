----------------------------- MODULE KeyReports -----------------------------
(***************************************************************************)
(* The second keyboard's reports: SerialPort::OnDataReceived               *)
(* (src/src/SerialPort.cpp), which processes what one read returned or     *)
(* forwards it to the program in a virtual machine, whose SerialTcpBackend *)
(* (src/src/SerialTcpBackend.cpp) takes it for its own, and                *)
(* CustomMacro::ProcessReceivedData (src/src/CustomMacro.cpp), which takes *)
(* a read for a report if it is as long as one.  A report tells what is    *)
(* held: a modifier or none, a first key or none; on the line it is two    *)
(* halves, so that reads may cut and join reports; one that noise changes  *)
(* is refused like one that is cut.  What a text executes is in MacroKeys. *)
(***************************************************************************)
EXTENDS Integers, Sequences, SequencesExt

CONSTANTS KeyNames,         \* the keys
          MaxReports,       \* bound: reports sent
          MaxOnLine         \* bound: halves not read yet

NoKey == "none"
ASSUME KeyNamesAssumption == KeyNames \cap {NoKey, "shift"} = {}

Programs == {"host", "guest"}
Report == [mod : {NoKey, "shift"}, key : {NoKey} \cup KeyNames]
Released == [mod |-> NoKey, key |-> NoKey]
Short == [mod |-> "reset", key |-> NoKey]     \* the message of a keyboard that restarts

(* The text of a report, as it is appended to pressed_keys.                  *)
TextOf(r) == (IF r.mod = NoKey THEN <<>> ELSE <<r.mod>>) \o (IF r.key = NoKey THEN <<>> ELSE <<r.key>>)

VARIABLES
  krHeld,      \* what is held, as the keyboard reports it
  krSent,      \* reports sent
  krLine,      \* halves on the serial line: [of, half]
  krAdvanced,  \* advanced_key_binding
  krForward,   \* forward_serial_to_tcp
  krInVm,      \* IsUsingVmOrWsl: the window in front is a virtual machine's
  krConns,     \* what the connections to the guest carry, in the order they were made
  krPressed,   \* each program's pressed_keys
  krOwed,      \* history: reports sent that begin something after nothing was held, less the
               \* texts of one report executed
  krFresh,     \* history: none was sent since nothing was held
  krGhost,     \* history: a text was executed that is one report's, but not of the one taken
  krLost       \* history: a message was refused, or overtaken, or went to
               \* one program while the other had keys pressed

krLineVars == <<krHeld, krSent, krLine, krFresh>>
krSettings == <<krAdvanced, krForward>>
krMacro == <<krPressed, krGhost>>
krVars == <<krLineVars, krSettings, krInVm, krConns, krMacro, krOwed, krLost>>

KeyReportsInit ==
  /\ krHeld = Released /\ krSent = 0 /\ krLine = <<>>
  /\ krAdvanced \in BOOLEAN /\ krForward \in BOOLEAN /\ krInVm = FALSE
  /\ krConns = <<>>
  /\ krPressed = [p \in Programs |-> <<>>]
  /\ krOwed = 0 /\ krFresh = TRUE
  /\ krGhost = FALSE /\ krLost = FALSE

-----------------------------------------------------------------------------
(* The keyboard. *)

(* What a report starts: in the advanced mode, a modifier alone nothing.     *)
Begins(r) == IF krAdvanced THEN r.key # NoKey ELSE r # Released

Halves(r) == <<[of |-> r, half |-> 1], [of |-> r, half |-> 2]>>

SendReport ==
  /\ krSent < MaxReports /\ krSent' = krSent + 1
  /\ \E r \in Report :
       /\ (r.mod # krHeld.mod) # (r.key # krHeld.key) \/ (r = Released /\ krHeld # r)
       /\ krHeld' = r
       /\ krLine' = krLine \o Halves(r)
       /\ krOwed' = IF krFresh /\ Begins(r) THEN krOwed + 1 ELSE krOwed
       /\ krFresh' = (r = Released \/ (krFresh /\ ~Begins(r)))
  /\ Len(krLine') <= MaxOnLine
  /\ UNCHANGED <<krSettings, krInVm, krConns, krMacro, krLost>>

(* It restarts and says so in a message of its own length.                   *)
Restarts ==
  /\ krSent < MaxReports /\ krSent' = krSent + 1
  /\ krHeld' = Released /\ krFresh' = TRUE
  /\ krLine' = Append(krLine, [of |-> Short, half |-> 1]) /\ Len(krLine') <= MaxOnLine
  /\ UNCHANGED <<krSettings, krInVm, krConns, krMacro, krOwed, krLost>>

-----------------------------------------------------------------------------
(* CustomMacro::ProcessReceivedData. *)

(* Two halves are as long as a report, and the checksum is right if they are *)
(* the two of one.                                                           *)
RightLength(data) == Len(data) = 2 /\ \A k \in 1..2 : data[k].of # Short
CrcOk(data) ==
  /\ data[1].half = 1 /\ data[2].half = 2
  /\ data[1].of = data[2].of

AllReleasedNever(r) == FALSE          \* mutant
AllReleasedAgain(r) == r = Released

Executes(text, r) ==
  LET one == text \in {TextOf(other) : other \in Report}
  IN  /\ krOwed' = IF one THEN krOwed - 1 ELSE krOwed
      /\ krGhost' = (krGhost \/ (one /\ text # TextOf(r)))

Ignored == UNCHANGED <<krMacro, krOwed>>

ProcessReport(p, r) ==
  IF AllReleasedAgain(r)
    THEN krPressed' = [krPressed EXCEPT ![p] = <<>>] /\ UNCHANGED <<krOwed, krGhost>>
  ELSE IF krAdvanced /\ r.key = NoKey THEN Ignored
  ELSE /\ krPressed' = [krPressed EXCEPT ![p] = @ \o TextOf(r)]
       /\ Executes(krPressed'[p], r)

Valid(data) == RightLength(data) /\ CrcOk(data)
ProcessReceivedData(p, data, overtakes) ==
  /\ IF Valid(data) THEN ProcessReport(p, data[1].of) ELSE Ignored
  /\ krLost' = \/ krLost \/ ~Valid(data) \/ overtakes
               \/ \E q \in Programs \ {p} : krPressed[q] # <<>>

-----------------------------------------------------------------------------
(* A read of the serial port returns what is there, up to its size; the data *)
(* go to the macros, or over a connection of their own, whose failure nobody *)
(* hears of.                                                                 *)
SendTcpBlocking(data) ==
  \/ krConns' = Append(krConns, data) /\ UNCHANGED <<krMacro, krOwed, krLost>>
  \/ krLost' = TRUE /\ UNCHANGED <<krConns, krMacro, krOwed>>

OnSerialData ==
  \E n \in 1..Len(krLine) :
    /\ krLine' = SubSeq(krLine, n + 1, Len(krLine))
    /\ LET data == SubSeq(krLine, 1, n)
       IN  IF krForward /\ krInVm THEN SendTcpBlocking(data)
           ELSE ProcessReceivedData("host", data, krConns # <<>>) /\ UNCHANGED krConns
    /\ UNCHANGED <<krHeld, krSent, krFresh, krSettings, krInVm>>

(* SerialTcpBackend::echo: each connection has a coroutine of its own, and   *)
(* any of those that wait may go on first.                                   *)
Echo ==
  \E k \in 1..Len(krConns) :
    /\ krConns' = RemoveAt(krConns, k)
    /\ ProcessReceivedData("guest", krConns[k], k # 1)
    /\ UNCHANGED <<krLineVars, krSettings, krInVm>>

(* Another window comes to the front. *)
ToForeground ==
  /\ krForward /\ krInVm' = ~krInVm
  /\ UNCHANGED <<krLineVars, krSettings, krConns, krMacro, krOwed, krLost>>

KeyReportsNext ==
  \/ SendReport \/ Restarts \/ OnSerialData \/ Echo \/ ToForeground
KeyReportsSpec == KeyReportsInit /\ [][KeyReportsNext]_krVars

-----------------------------------------------------------------------------
(* Properties. *)

(* In the advanced mode no macro of one combination runs on a report of      *)
(* another, whatever becomes of the reports.  In the other a lost release    *)
(* joins what is pressed next to what was released.                          *)
RunsWhatWasHeld == krGhost => ~krAdvanced /\ krLost

(* When every key is up and everything sent has come, no program believes    *)
(* that one is down, and each combination that began something was run once, *)
(* unless a report was lost on the way.  The message of a keyboard that      *)
(* restarts is lost too: CustomMacro.cpp:767 is there to take it, but it is  *)
(* shorter than a report and refused before, at :756.                        *)
NothingOnItsWay == krLine = <<>> /\ krConns = <<>> /\ krHeld = Released
ReleasesArrive == NothingOnItsWay /\ ~krLost => \A p \in Programs : krPressed[p] = <<>>
EachRunsOnce == NothingOnItsWay /\ ~krLost => krOwed = 0

KeyReportsSafe == RunsWhatWasHeld /\ ReleasesArrive /\ EachRunsOnce
=============================================================================
