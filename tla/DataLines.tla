----------------------------- MODULE DataLines -----------------------------
(***************************************************************************)
(* DataSerialPort::ProcessReceivedFrames (src/src/DataSerialPort.cpp) cuts *)
(* what is received, in pieces of any size, into lines that end with a     *)
(* carriage return.  It walks over m_CircBuff with iterators and erases    *)
(* under them; here the walk is followed position by position.  A byte is  *)
(* CR or a letter.                                                         *)
(***************************************************************************)
EXTENDS Integers, Sequences

CONSTANTS Letters,   \* bytes other than the carriage return
          MaxBytes   \* bound: bytes received

ASSUME MaxBytesAssumption == MaxBytes \in Nat

CR == "cr"

VARIABLES
  dlBuffer,   \* m_CircBuff
  dlLines,    \* what DataSender::OnDataReceived was called with
  dlStream    \* history: all bytes received

dlVars == <<dlBuffer, dlLines, dlStream>>

DataLinesInit == dlBuffer = <<>> /\ dlLines = <<>> /\ dlStream = <<>>

CutAll(b, from, to) == SubSeq(b, to + 2, Len(b))      \* mutant: the bytes before a line go too
Cut(b, from, to) == SubSeq(b, 1, from - 1) \o SubSeq(b, to + 1, Len(b))

(* One turn of the inner loop at position at, with start for start_char (0:  *)
(* end()) and again for b_continue.  A turn that changes nothing has left    *)
(* the loop: at the end, or at the last byte of the buffer.                  *)
WalkTurn(w) ==
  LET b == w.buffer
      i == w.at
      line == SubSeq(b, w.start, i - 1)
      left == IF i - w.start = Len(b) - 1 THEN <<>> ELSE Cut(b, w.start, i - 1)
  IN  IF i > Len(b) THEN w
      ELSE IF b[i] = CR THEN
             IF w.start = 0 THEN [w EXCEPT !.buffer = Cut(b, i, i)]
             ELSE [buffer |-> left, lines |-> Append(w.lines, line), again |-> TRUE,
                   at |-> w.start + 1, start |-> 0]
      ELSE IF Len(b) < 2 THEN w
      ELSE [w EXCEPT !.at = i + 1, !.start = IF w.start = 0 THEN i ELSE w.start]

(* The inner loop, of as many turns as there are bytes at most.              *)
Walked(p) ==
  LET w[n \in 0..Len(p.buffer)] ==
        IF n = 0 THEN [p EXCEPT !.again = FALSE, !.at = 1, !.start = 0] ELSE WalkTurn(w[n - 1])
  IN  w[Len(p.buffer)]

(* The outer loop, as long as the inner one found a line. *)
WalkAgain(p) == IF p.buffer = <<>> \/ ~p.again THEN p ELSE Walked(p)
ProcessReceivedFrames(buffer, lines) ==
  LET p[n \in 0..Len(buffer)] ==
        IF n = 0 THEN [buffer |-> buffer, lines |-> lines, again |-> TRUE, at |-> 1, start |-> 0]
        ELSE WalkAgain(p[n - 1])
  IN  p[Len(buffer)]

OnLineData(bytes) ==
  LET p == ProcessReceivedFrames(dlBuffer \o bytes, dlLines)
  IN  /\ dlBuffer' = p.buffer /\ dlLines' = p.lines
      /\ dlStream' = dlStream \o bytes

DataLinesNext ==
  \E n \in 1..(MaxBytes - Len(dlStream)) : \E bytes \in [1..n -> Letters \cup {CR}] :
    OnLineData(bytes)

DataLinesSpec == DataLinesInit /\ [][DataLinesNext]_dlVars

-----------------------------------------------------------------------------
(* The lines of a stream, byte by byte: a carriage return ends the one that  *)
(* was begun, if there is one.                                               *)
TakeByte(t, byte) ==
  IF byte # CR THEN [t EXCEPT !.rest = Append(@, byte)]
  ELSE IF t.rest = <<>> THEN t
  ELSE [lines |-> Append(t.lines, t.rest), rest |-> <<>>]

Taken(start, s) ==
  LET t[n \in 0..Len(s)] == IF n = 0 THEN start ELSE TakeByte(t[n - 1], s[n])
  IN  t[Len(s)]

NothingTaken == [lines |-> <<>>, rest |-> <<>>]

(* However the stream is cut into pieces, what is delivered are its lines,   *)
(* in order and whole, without the empty ones.                               *)
LinesWhole == dlLines = Taken(NothingTaken, dlStream).lines
=============================================================================
