----------------------------- MODULE BitFields -----------------------------
(***************************************************************************)
(* The named bit fields of a CAN frame or a Modbus register, and the texts  *)
(* in which the user sees and types them: libs/bitfield, HandleBitReading   *)
(* and HandleBitWriting of src/src/CanEntryHandler.cpp, the inputs of       *)
(* src/src/gui/CanPanel/BitEditorDialog.cpp.  Widths are scaled: a frame    *)
(* has Bits bits for 64, a byte ByteBits for 8, an int IntBits for 32.  A   *)
(* frame is the number its bytes spell, the first one most significant.     *)
(***************************************************************************)
EXTENDS Integers, Sequences, SequencesExt, Folds

CONSTANTS Bits, ByteBits, IntBits,
          MaxFields       \* MAX_BITEDITOR_FIELDS: 32

ASSUME FieldsAssumption == MaxFields \in Nat

(* A row of a mapping; the offset and the length are uint8_t.                *)
FieldRows == [off : Nat, len : Nat, type : STRING]

Bytes == Bits \div ByteBits

(* get_bitfield: 0 if the field is not inside the size bytes there are.      *)
GetBitfield(data, size, off, len) ==
  IF len = 0 \/ off + len > size * ByteBits THEN 0
  ELSE (data \div 2^(Bits - off - len)) % 2^len

(* set_bitfield: refused if the number, as an unsigned one of Bits bits, is  *)
(* too large for the field or the field is not inside the frame.             *)
SetBitfield(data, off, len, n) ==
  IF n % 2^Bits >= 2^len \/ len = 0 \/ off + len > Bits THEN data
  ELSE data + (n - GetBitfield(data, Bytes, off, len)) * 2^(Bits - off - len)

(* A type: CBT_FLOAT and CBT_DOUBLE are read and never written.              *)
Width(type) == IF type \in {"u8", "i8"} THEN ByteBits ELSE Bits
Signed(type) == type \in {"i8", "i64"}
TypeMax(type) == 2^(Width(type) - (IF Signed(type) THEN 1 ELSE 0)) - 1

AsType(type, n) ==
  LET m == n % 2^Width(type)
  IN  IF m > TypeMax(type) THEN m - 2^Width(type) ELSE m

-----------------------------------------------------------------------------
(* A text is a sign and digits; the digit 99 is a character that is none in  *)
(* any base, as the point of a float.                                        *)

Digits(n, base) ==
  LET d[k \in 0..n] == IF k < base THEN <<k>> ELSE Append(d[k \div base], k % base)
  IN  d[n]

Text(n, base) == [neg |-> n < 0, digits |-> Digits(IF n < 0 THEN -n ELSE n, base)]
Junk == [neg |-> FALSE, digits |-> <<99>>]

IsNumber(text) == ~text.neg /\ \A k \in DOMAIN text.digits : text.digits[k] < 10

(* stoll, stoi: the number the longest prefix that is one spells, << >> if   *)
(* there is none or it needs more than width bits (they throw).              *)
Parse(text, base, width) ==
  LET d == text.digits
      some == {k \in 1..Len(d) : \A j \in 1..k : d[j] < base}
      abs == FoldLeft(LAMBDA v, x : v * base + x, 0,
                      SubSeq(d, 1, IF some = {} THEN 0 ELSE CHOOSE k \in some : \A j \in some : j <= k))
      n == IF text.neg THEN -abs ELSE abs
  IN  IF some = {} \/ n >= 2^(width - 1) \/ n < -(2^(width - 1)) THEN <<>> ELSE <<n>>

(* HandleBitReading: the text of a field [off, len, type].                   *)
Cell(field, data, size) ==
  LET n == GetBitfield(data, size, field.off, field.len)
  IN  IF field.type = "float" THEN [Text(n, 10) EXCEPT !.digits = @ \o <<99, 0>>]
      ELSE Text(AsType(field.type, n), 10)

Cells(map, data, size) == [k \in 1..Len(map) |-> Cell(map[k], data, size)]

-----------------------------------------------------------------------------
(* The loop over the fields: [data, pos (the next text), past (a text was    *)
(* read behind the last one, which is undefined)].                           *)

WriteField(w, field, texts) ==
  LET n == Parse(texts[w.pos], 10, IntBits)
      put == SetBitfield(w.data, field.off, field.len, AsType(field.type, n[1]))
  IN  IF field.type = "float" THEN w
      ELSE IF w.pos > Len(texts) THEN [w EXCEPT !.pos = @ + 1, !.past = TRUE]
      ELSE [w EXCEPT !.pos = @ + 1, !.data = IF n = <<>> THEN @ ELSE put]

WriteParsed(w, field, texts) ==     \* mutant: a text that is no number is not passed over
  IF field.type # "float" /\ w.pos <= Len(texts) /\ Parse(texts[w.pos], 10, IntBits) = <<>>
    THEN w ELSE WriteField(w, field, texts)

HandleBitWriting(w, field, texts) == WriteField(w, field, texts)

Written(map, data, texts) ==
  LET w[n \in 0..Len(map)] == IF n = 0 THEN [data |-> data, pos |-> 1, past |-> FALSE]
                              ELSE HandleBitWriting(w[n - 1], map[n], texts)
  IN  w[Len(map)]

-----------------------------------------------------------------------------
(* The dialog: what the fields had when it was shown, the inputs, the base,  *)
(* and for the properties what was typed since and whether the base was      *)
(* changed.                                                                  *)

Dialog(target, cells) ==
  LET v == SubSeq(cells, 1, IF Len(cells) > MaxFields THEN MaxFields ELSE Len(cells))
  IN  [target |-> target, values |-> v, inputs |-> v, base |-> 10,
       typed |-> [k \in 1..Len(v) |-> <<>>], clean |-> TRUE]

(* A click on a base: the inputs show the values again; in hexadecimal and   *)
(* binary only those that are numbers, one after another from the first.     *)
Numbers(d) == SelectSeq(d.values, IsNumber)

Rebased(d, base) ==
  [d EXCEPT !.base = base, !.clean = FALSE,
            !.typed = [k \in DOMAIN d.values |-> <<>>],
            !.inputs = [k \in DOMAIN d.values |->
                         IF base = 10 THEN d.values[k]
                         ELSE IF k <= Len(Numbers(d)) THEN Text(Parse(Numbers(d)[k], 10, Bits)[1], base)
                         ELSE d.inputs[k]]]

(* stoll throws for a value that only fits an unsigned number.               *)
Throws(d, base) == base # 10 /\ \E k \in DOMAIN Numbers(d) : Parse(Numbers(d)[k], 10, Bits) = <<>>

(* GetOutput: the inputs in decimal; one that is no number stays as it is.   *)
Output(d) ==
  [k \in DOMAIN d.inputs |->
    LET n == Parse(d.inputs[k], d.base, Bits)
    IN  IF d.base = 10 \/ n = <<>> THEN d.inputs[k] ELSE Text(n[1], 10)]

Typed(d, k, text) == [d EXCEPT !.inputs[k] = text, !.typed[k] = Parse(text, d.base, Bits)]

-----------------------------------------------------------------------------
(* What an OK or Apply must do to field k of the map.  A field is within     *)
(* reach if the dialog has an input for it, no float is before it, it is     *)
(* inside the frame, not larger than its type and shares no bit with another.*)
InField(f, bit) == f.off <= bit /\ bit < f.off + f.len

WithinReach(map, k) ==
  /\ k <= MaxFields
  /\ map[k].off + map[k].len <= Bits /\ map[k].len <= Width(map[k].type)
  /\ \A j \in 1..k : map[j].type # "float"
  /\ \A j \in DOMAIN map : j # k => \A b \in 0..(Bits - 1) : ~(InField(map[j], b) /\ InField(map[k], b))

(* A number that was typed, and fits, is there; a field that was not touched *)
(* has what the dialog showed or what it had just before: unless negative    *)
(* values displaced those behind them when the base was changed.             *)
Fits(f, n) == n >= 0 /\ n < 2^f.len /\ n <= TypeMax(f.type) /\ n < 2^(IntBits - 1)

EditIsRight(map, d, before, after) ==
  \A k \in DOMAIN map : WithinReach(map, k) =>
    LET f == map[k]
        now == GetBitfield(after, Bytes, f.off, f.len)
    IN  /\ d.typed[k] # <<>> /\ Fits(f, d.typed[k][1]) => now = d.typed[k][1]
        /\ (d.inputs[k] = d.values[k] /\ d.clean) \/ (~d.clean /\ d.typed[k] = <<>> /\ Len(Numbers(d)) = Len(d.values) /\ d.inputs[k] # Junk)
             => \/ now = GetBitfield(before, Bytes, f.off, f.len)
                \/ now = Parse(d.values[k], 10, Bits + 1)[1] % 2^f.len

(* The bits of no field stay.                                                *)
RestIsKept(map, before, after) ==
  \A b \in 0..(Bits - 1) :
    (\A k \in DOMAIN map : ~InField(map[k], b)) =>
      GetBitfield(after, Bytes, b, 1) = GetBitfield(before, Bytes, b, 1)
=============================================================================
