----------------------------- MODULE CmdParams -----------------------------
(***************************************************************************)
(* The parameters of a command (Command, src/src/CmdExecutor.cpp): the     *)
(* text holds placeholders "[({PARAM:default})]", m_params holds the       *)
(* values.  A text is its placeholders, each after a gap of so many        *)
(* characters, and the length of its tail; the searches compare positions  *)
(* in the text, so values have a length.                                   *)
(***************************************************************************)
EXTENDS Integers, Sequences, SequencesExt, FiniteSetsExt, Sublists

CONSTANTS Values,             \* the values given: <<name, length>>
          MaxHoles, Gaps,     \* bounds: placeholders of a text, the gaps there are
          MaxEdits            \* bound: values and texts given

VARIABLES
  cpText,     \* m_cmd: [holes |-> Seq([gap, val]), tail]
  cpParams,   \* m_params
  cpRun,      \* what was executed last: [vals: substituted, left: placeholders in it]
  cpEdits,    \* edits so far
  cpFits,     \* history: the last save had values of about the old lengths
  cpSaved     \* history: the values of the last save, or <<>>

cpVars == <<cpText, cpParams, cpRun, cpEdits, cpFits, cpSaved>>

Width(v) == v[2]
ASSUME ParamsAssumption == Values # {} /\ MaxHoles \in Nat /\ Gaps \subseteq Nat /\ \A v \in Values : Width(v) \in Nat

Opening == 9      \* "[({PARAM:"
Closing == 3      \* "})]"

Hole(h) == Opening + Width(h.val) + Closing
Before(holes, i) == SumsTo([k \in 1..Len(holes) |-> holes[k].gap + Hole(holes[k])])[i - 1]
StartOf(holes, i) == Before(holes, i) + holes[i].gap
EndOf(holes, i) == StartOf(holes, i) + Opening + Width(holes[i].val)
LengthOf(t) == Before(t.holes, Len(t.holes) + 1) + t.tail

(* The placeholder found from pos: the first that ends at pos + 3 or later,  *)
(* and only if it does not start before pos - 1; else 0.                     *)
FoundFrom(holes, pos) ==
  LET ending == {i \in DOMAIN holes : EndOf(holes, i) >= pos + 3}
  IN  IF ending # {} /\ StartOf(holes, Min(ending)) >= pos - 1 THEN Min(ending) ELSE 0

(* LoadParametersFromString: every placeholder's default.                    *)
LoadParametersFromString(t) == [i \in DOMAIN t.holes |-> t.holes[i].val]

(* HandleParameters: the text with values put for the placeholders.  The     *)
(* loop ends at the length of the text as it was.                            *)
Run(t, params) ==
  LET value(i) == IF i \in DOMAIN params THEN params[i] ELSE t.holes[i].val
      put == SumsTo([k \in 1..Len(t.holes) |-> t.holes[k].gap + Width(value(k))])
      stops == {i \in DOMAIN t.holes : put[i] >= LengthOf(t) - 1}
      done == IF stops = {} THEN Len(t.holes) ELSE Min(stops)
  IN  [vals |-> [i \in 1..done |-> value(i)], left |-> Len(t.holes) - done]

(* One turn of SaveParametersToString: the next search begins where the old  *)
(* value would have ended.                                                   *)
NextFromNew(at, old, new) == at + Opening + new     \* mutant: where the new value ends
NextFrom(at, old, new) == at + Opening + old
SaveOne(t, params, s) ==
  LET i == FoundFrom(s.holes, s.pos)
  IN  IF s.pos >= LengthOf(t) - 1 \/ i = 0 \/ s.count >= Len(params) THEN s
      ELSE [holes |-> [s.holes EXCEPT ![i].val = params[s.count + 1]],
            pos   |-> NextFrom(StartOf(s.holes, i), Width(s.holes[i].val), Width(params[s.count + 1])),
            count |-> s.count + 1]
Turns(t, params) ==
  LET turn[n \in 0..Len(t.holes)] == IF n = 0 THEN [holes |-> t.holes, pos |-> 1, count |-> 0]
                                     ELSE SaveOne(t, params, turn[n - 1])
  IN  turn
SaveParametersToString(t, params) == [t EXCEPT !.holes = Turns(t, params)[Len(t.holes)].holes]

-----------------------------------------------------------------------------
(* What the user types. *)
Texts == [holes : BoundedSeq([gap : Gaps, val : Values], MaxHoles), tail : {0, 4}]
Nothing == [vals |-> <<>>, left |-> 0]

CmdParamsInit ==
  /\ cpText \in Texts
  /\ cpParams = LoadParametersFromString(cpText)
  /\ cpRun = Nothing /\ cpEdits = 0 /\ cpFits = TRUE /\ cpSaved = <<>>

Execute(params) == cpRun' = Run(cpText, params)
OnClick == Execute(cpParams) /\ UNCHANGED <<cpText, cpParams, cpEdits, cpFits, cpSaved>>

(* Ok in the dialog of the parameters; a command without any has no dialog.  *)
OnMiddleClick ==
  /\ cpEdits < MaxEdits /\ cpEdits' = cpEdits + 1
  /\ \E i \in DOMAIN cpParams, v \in Values : cpParams' = [cpParams EXCEPT ![i] = v]
  /\ Execute(cpParams')
  /\ cpSaved' = <<>>
  /\ UNCHANGED <<cpText, cpFits>>

(* Edit of the command: SetCmd leaves the parameters as they were.           *)
SetCmd ==
  /\ cpEdits < MaxEdits /\ cpEdits' = cpEdits + 1
  /\ cpText' \in {[cpText EXCEPT !.holes = Append(@, [gap |-> 0, val |-> CHOOSE v \in Values : TRUE])],
                  [cpText EXCEPT !.holes = SubSeq(@, 2, Len(@))],
                  [cpText EXCEPT !.holes = <<>>, !.tail = 4]}
  /\ cpSaved' = <<>>
  /\ UNCHANGED <<cpParams, cpRun, cpFits>>

(* Of Save: a value may be up to two characters longer than the one it       *)
(* replaces, and shorter by the gap after it and four; and all together must *)
(* not push the search beyond the length that the text had.                  *)
Filled(holes, params) ==
  [i \in DOMAIN holes |-> IF i \in DOMAIN params THEN [holes[i] EXCEPT !.val = params[i]] ELSE holes[i]]
FitsAt(t, params, i) ==
  LET old == Width(t.holes[i].val) new == Width(params[i])
  IN  i < Len(t.holes) =>
        /\ new - old < Closing /\ old - new <= t.holes[i + 1].gap + Closing + 1
        /\ StartOf(Filled(t.holes, params), i) + Opening + old < LengthOf(t) - 1
Fits(t, params) == \A i \in DOMAIN params \cap DOMAIN t.holes : FitsAt(t, params, i)

SaveCommand ==
  /\ cpText' = SaveParametersToString(cpText, cpParams)
  /\ cpFits' = Fits(cpText, cpParams) /\ cpSaved' = cpParams
  /\ UNCHANGED <<cpParams, cpRun, cpEdits>>

(* A load, or a copy: the parameters of the text.                            *)
LoadCommand ==
  /\ cpParams' = LoadParametersFromString(cpText)
  /\ cpSaved' = <<>>
  /\ UNCHANGED <<cpText, cpRun, cpEdits, cpFits>>

CmdParamsNext == OnClick \/ OnMiddleClick \/ SetCmd \/ SaveCommand \/ LoadCommand
CmdParamsSpec == CmdParamsInit /\ [][CmdParamsNext]_cpVars

-----------------------------------------------------------------------------
(* Properties. *)

(* Save writes each parameter into its own placeholder, as many as there are *)
(* of both, although the text shifts under the search, as long as the        *)
(* lengths fit: beyond, the following ones are skipped or take the wrong     *)
(* value, and where the old length ends, the rest are not saved at all.      *)
SavedInPlace ==
  cpFits => \A i \in DOMAIN cpSaved \cap DOMAIN cpText.holes : cpText.holes[i].val = cpSaved[i]

(* Every placeholder of what is executed was replaced, unless a value is     *)
(* longer than its whole placeholder was.                                    *)
AllSubstituted ==
  LET run == Run(cpText, cpParams)
  IN  (\A i \in DOMAIN cpParams \cap DOMAIN cpText.holes :
         Width(cpParams[i]) <= Hole(cpText.holes[i])) => run.left = 0

CmdParamsSafe == SavedInPlace /\ AllSubstituted
=============================================================================
