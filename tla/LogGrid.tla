------------------------------ MODULE LogGrid ------------------------------
(***************************************************************************)
(* What the log panels of the CAN bus and of the Modbus master are made of: *)
(* a std::vector of the entries that were recorded, and a wxGrid that a     *)
(* timer fills from it (src/src/gui/CanPanel/CanLogPanel.cpp,               *)
(* src/src/gui/ModbusMasterPanel.cpp).  The panels walk over the vector     *)
(* with an iterator and no lock while other threads push.                   *)
(***************************************************************************)
EXTENDS Integers, Sequences

(* m_LogEntries: its elements, its capacity and how often it moved.          *)
NoEntries == [items |-> <<>>, cap |-> 0, moved |-> 0]

Larger(a, b) == IF a > b THEN a ELSE b

PushBack(v, e) ==
  IF Len(v.items) < v.cap THEN [v EXCEPT !.items = Append(@, e)]
  ELSE [items |-> Append(v.items, e), moved |-> v.moved + 1,
        cap |-> Larger(v.cap + v.cap \div 2, Len(v.items) + 1)]

PushAll(v, s) ==
  LET pushed[n \in 0..Len(s)] == IF n = 0 THEN v ELSE PushBack(pushed[n - 1], s[n])
  IN  pushed[Len(s)]

Clear(v) == [v EXCEPT !.items = <<>>]

(* The grid: the entries of its rows 1..cnt, the number of rows it has (one, *)
(* empty, from the start), inserted_until and is_something_inserted.         *)
NewGrid == [rows |-> <<>>, height |-> 1, until |-> 0, inserted |-> FALSE]

ClearRecordingsFromGrid(g) == [NewGrid EXCEPT !.height = 0]

AppendRow(g, e) ==
  [g EXCEPT !.rows = Append(@, e), !.height = IF @ <= Len(g.rows) THEN @ + 1 ELSE @]

(* The walk: the index of the iterator in the vector it was taken from.      *)
Walk(v, g) == [at |-> g.until + 1, moved |-> v.moved]

(* The iterator is one of the vector as it is, not behind its end.           *)
WalkValid(w, v) == w.moved = v.moved /\ w.at <= Len(v.items) + 1
=============================================================================
