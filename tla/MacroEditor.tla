---------------------------- MODULE MacroEditor ----------------------------
(***************************************************************************)
(* The macros as they are edited, written and read: KeybrdPanel            *)
(* (src/src/gui/Configuration.cpp), the macro part of Settings::SaveFile   *)
(* and LoadFile (src/src/Settings.cpp), GenerateText and ParseMacroKeys    *)
(* (src/src/CustomMacro.cpp).  The lists of the panel know a macro by the  *)
(* names of its application and key, and an element by its number.         *)
(* An element is its number of making and its kind: "plain"; "closing", a  *)
(* text with a ] in it; "prefix", a text with a keyword in it; "release",  *)
(* a MOUSE_RELEASE; "cut", what is left of a "closing".                    *)
(***************************************************************************)
EXTENDS Naturals, Sequences, SequencesExt, FiniteSets, FiniteSetsExt

CONSTANTS MacroKeysOf, Reserved,   \* keys; those bound to another function
          AppNames,                \* with "Global"
          MaxApps, MaxElements,    \* bounds: applications, elements made
          MaxMenus                 \* bound: uses of the menu of the main list

VARIABLES
  meApps,      \* macros: [name, bind: the keys with a name, vec: key -> elements]
  meSel,       \* root_sel_str, child_sel_str: <<application, key>>, or <<>>
  meRows,      \* the details list: the elements it shows
  meFile,      \* settings.ini: the same, as written
  meMade,      \* elements made
  meMenus,     \* uses of the menu of the main list
  meStale,     \* history: the menu was used since the details list was filled
  meTwins,     \* history: two applications had the same name
  meGone,      \* history: elements deleted by the user
  meClash,     \* history: a macro was renamed to a key in use
  meEnd        \* "" or what went wrong: range, null, throw

meKeep == <<meMenus, meTwins, meClash>>
meVars == <<meApps, meSel, meRows, meFile, meMade, meStale, meGone, meKeep, meEnd>>

Named(apps, name) == {a \in DOMAIN apps : apps[a].name = name}
NewApp(name) == [name |-> name, bind |-> {}, vec |-> << >>]
Put(vec, k, els) == [x \in DOMAIN vec \cup {k} |-> IF x = k THEN els ELSE vec[x]]
Without(vec, k) == [x \in DOMAIN vec \ {k} |-> vec[x]]
Of(vec, k) == IF k \in DOMAIN vec THEN vec[k] ELSE <<>>

(* key_vec[...] makes the macro when there is none.                          *)
Touched(apps, a, k) == [apps EXCEPT ![a].vec = Put(@, k, Of(@, k))]

(* UpdateDetailsTree: of the first application with the name selected.       *)
UpdateDetailsTree(apps, sel) ==
  LET a == Min(Named(apps, sel[1]))
  IN  /\ meSel' = sel
      /\ IF sel = <<>> \/ Named(apps, sel[1]) = {} THEN meApps' = apps /\ meRows' = <<>>
         ELSE meApps' = Touched(apps, a, sel[2]) /\ meRows' = Of(apps[a].vec, sel[2])
      /\ meStale' = FALSE

MacroEditorInit ==
  /\ meApps = << [name |-> "Global", bind |-> {"k1"}, vec |-> [k \in {"k1"} |-> <<[n |-> 1, kind |-> "plain"]>>]] >>
  /\ meSel = <<>> /\ meRows = <<>> /\ meFile = meApps
  /\ meMade = 1 /\ meMenus = 0 /\ meStale = FALSE /\ meTwins = FALSE
  /\ meGone = {} /\ meClash = FALSE /\ meEnd = ""

-----------------------------------------------------------------------------
(* The main list. *)
Items == {<<meApps[a].name, k>> : a \in DOMAIN meApps, k \in MacroKeysOf}
Listed(it) == \E a \in Named(meApps, it[1]) : it[2] \in meApps[a].bind

SelectMain ==
  /\ \E it \in Items : Listed(it) /\ UpdateDetailsTree(meApps, it)
  /\ UNCHANGED <<meFile, meMade, meGone, meKeep, meEnd>>

Menu ==
  /\ meMenus < MaxMenus /\ meMenus' = meMenus + 1
  /\ meStale' = TRUE
  /\ UNCHANGED <<meSel, meRows, meFile, meMade>>

AddNewApplication(a, name) ==
  /\ Menu /\ meApps[a].bind # {} /\ Len(meApps) < MaxApps
  /\ meApps' = InsertAt(meApps, Min(Named(meApps, meApps[a].name)) + 1, NewApp(name))
  /\ meTwins' = (meTwins \/ Named(meApps, name) # {})
  /\ UNCHANGED <<meGone, meClash, meEnd>>

AddNewMacroKey(a, k) ==
  LET f == Min(Named(meApps, meApps[a].name))
  IN  /\ Menu /\ k \notin DOMAIN meApps[f].vec
      /\ meApps' = [meApps EXCEPT ![f].bind = @ \cup {k}]
      /\ UNCHANGED <<meTwins, meGone, meClash, meEnd>>

(* Rename of a macro: of the selected one; when the new key is in use        *)
(* insert() does nothing and the node goes.  extract() of a name that is not *)
(* there gives no node to rename.                                            *)
MovedKey(s, old, new) == IF new \in s \ {old} THEN s \ {old} ELSE (s \ {old}) \cup {new}
MovedVec(vec, old, new) ==
  IF new \in DOMAIN vec \ {old} THEN Without(vec, old)
  ELSE Put(Without(vec, old), new, vec[old])

RenameMacro(new) ==
  LET a == Min(Named(meApps, meSel[1])) old == meSel[2]
  IN  /\ Menu /\ meSel # <<>> /\ Named(meApps, meSel[1]) # {}
      /\ IF old \notin DOMAIN meApps[a].vec
           THEN meEnd' = "throw" /\ UNCHANGED <<meApps, meClash>>
         ELSE IF old \notin meApps[a].bind
           THEN meEnd' = "null" /\ UNCHANGED <<meApps, meClash>>
         ELSE /\ meApps' = [meApps EXCEPT ![a].bind = MovedKey(@, old, new),
                                          ![a].vec = MovedVec(@, old, new)]
              /\ meClash' = (meClash \/ new \in (DOMAIN meApps[a].vec) \ {old})
              /\ UNCHANGED meEnd
      /\ UNCHANGED <<meTwins, meGone>>

RenameApplication(a, name) ==
  /\ Menu
  /\ meApps' = [meApps EXCEPT ![Min(Named(meApps, meApps[a].name))].name = name]
  /\ meTwins' = (meTwins \/ Named(meApps, name) # {})
  /\ UNCHANGED <<meGone, meClash, meEnd>>

NumbersIn(app) == UNION {{e.n : e \in ToSet(app.vec[k])} : k \in DOMAIN app.vec}

(* Delete of an application: remove_if moves the others to the front, and    *)
(* erase with one iterator erases one element, whatever the number removed:  *)
(* behind it stay moved-from, null pointers, and removed ones.               *)
DeleteApplication(a) ==
  LET name == meApps[a].name
      others == SelectSeq(meApps, LAMBDA x : x.name # name)
      behind == (Len(others) + 2)..Len(meApps)
      null(p) == meApps[p].name # name
  IN  /\ Menu
      /\ meApps' = others \o [i \in 1..Cardinality(behind) |-> meApps[Len(others) + 1 + i]]
      /\ meEnd' = IF \E p \in behind : null(p) THEN "null" ELSE meEnd
      /\ meGone' = meGone \cup UNION {NumbersIn(meApps[b]) : b \in Named(meApps, name)}
      /\ UNCHANGED <<meTwins, meClash>>

DeleteMacro(a, k) ==
  LET f == Min(Named(meApps, meApps[a].name))
  IN  /\ Menu /\ k \in meApps[a].bind
      /\ meApps' = [meApps EXCEPT ![f].vec = Without(@, k), ![f].bind = @ \ {k}]
      /\ meGone' = meGone \cup {e.n : e \in ToSet(Of(meApps[f].vec, k))}
      /\ UNCHANGED <<meTwins, meClash, meEnd>>

-----------------------------------------------------------------------------
(* The details list: a row is selected and something done to the element     *)
(* with its number, in the first application of the name, or the last.       *)
First == Min(Named(meApps, meSel[1]))
Final == Max(Named(meApps, meSel[1]))

Change(a, i, els) ==      \* els is what the elements become, when there is an i-th
  IF i > Len(Of(meApps[a].vec, meSel[2]))
    THEN meEnd' = "range" /\ UNCHANGED <<meApps, meSel, meRows, meStale>>
    ELSE UpdateDetailsTree([meApps EXCEPT ![a].vec = Put(@, meSel[2], els)], meSel) /\ UNCHANGED meEnd

Row(i) == i \in DOMAIN meRows /\ Named(meApps, meSel[1]) # {} /\ UNCHANGED <<meFile, meKeep>>
Vec(a) == Of(meApps[a].vec, meSel[2])
NewElements == [n : {meMade + 1}, kind : {"plain", "closing", "prefix", "release"}]
MakesOne == meMade < MaxElements /\ meMade' = meMade + 1

EraseNext(x, i) == RemoveAt(x, IF i < Len(x) THEN i + 1 ELSE i)      \* mutant: the element after
EraseOne(x, i) == RemoveAt(x, i)

DeleteSelected(i) ==
  /\ Row(i) /\ Change(First, i, EraseOne(Vec(First), i))
  /\ meGone' = meGone \cup {meRows[i].n} /\ UNCHANGED meMade

AddNewMacro(i) ==      \* after a number beyond the end: at the end
  /\ Row(i) /\ MakesOne
  /\ \E e \in NewElements :
       UpdateDetailsTree([meApps EXCEPT ![First].vec = Put(@, meSel[2],
          IF i > Len(Vec(First)) THEN Append(Vec(First), e) ELSE InsertAt(Vec(First), i + 1, e))], meSel)
  /\ UNCHANGED <<meGone, meEnd>>

(* An element whose text is refused is not made, but the one after the       *)
(* selected one is selected all the same.                                    *)
AddRefused(i) ==
  /\ Row(i) /\ Change(First, i + 1, Vec(First))
  /\ UNCHANGED <<meGone, meMade>>

Edit(i) ==      \* OnItemActivated
  /\ Row(i) /\ MakesOne
  /\ \E e \in NewElements :
       UpdateDetailsTree([meApps EXCEPT ![First].vec = Put(@, meSel[2],
          IF i > Len(Vec(First)) THEN Append(Vec(First), e) ELSE [Vec(First) EXCEPT ![i] = e])], meSel)
  /\ meGone' = meGone \cup {meRows[i].n} /\ UNCHANGED meEnd

CloneMacro(i) ==
  /\ Row(i) /\ Len(Vec(Final)) < MaxElements
  /\ Change(Final, i, InsertAt(Vec(Final), i + 1, Vec(Final)[i]))
  /\ UNCHANGED <<meGone, meMade>>

Swapped(x, i, j) == [x EXCEPT ![i] = x[j], ![j] = x[i]]
MoveUp(i) ==
  /\ Row(i)
  /\ LET x == Vec(Final)
     IN Change(Final, i, IF i = 1 THEN Append(Tail(x), Head(x)) ELSE Swapped(x, i, i - 1))
  /\ UNCHANGED <<meGone, meMade>>
MoveDown(i) ==
  /\ Row(i)
  /\ LET x == Vec(Final)
     IN Change(Final, i, IF i = Len(x) THEN <<Last(x)>> \o Front(x) ELSE Swapped(x, i, i + 1))
  /\ UNCHANGED <<meGone, meMade>>

-----------------------------------------------------------------------------
(* SaveFile: a macro without an entry in key_vec is not written. *)
SaveFile ==
  /\ meFile' = [a \in DOMAIN meApps |-> [meApps[a] EXCEPT !.bind = DOMAIN meApps[a].vec]]
  /\ UNCHANGED <<meApps, meSel, meRows, meMade, meStale, meGone, meKeep, meEnd>>

(* ParseMacroKeys: up to the first element that is not one keyword and one   *)
(* bracket; a MOUSE_RELEASE keeps its bracket and is refused.                *)
Whole(els) ==
  LET bad == {i \in DOMAIN els : els[i].kind \in {"closing", "prefix"}}
  IN  IF bad = {} THEN els
      ELSE LET b == Min(bad)
           IN  SubSeq(els, 1, b - 1) \o (IF els[b].kind = "closing" THEN <<[els[b] EXCEPT !.kind = "cut"]>> ELSE <<>>)
Parse(els) == SelectSeq(Whole(els), LAMBDA e : e.kind # "release")

LoadedApp(a) ==
  LET keys == DOMAIN meFile[a].vec \ Reserved
      named == {k \in keys : Parse(meFile[a].vec[k]) # <<>>}
  IN  [name |-> IF a = 1 THEN "Global" ELSE meFile[a].name, bind |-> keys,
       vec |-> [k \in named |-> Parse(meFile[a].vec[k])]]
LoadedApps == [a \in DOMAIN meFile |-> LoadedApp(a)]

(* LoadFile, with the Reload of the tray icon: without the section of the    *)
(* global macros nothing is loaded.                                          *)
LoadFile ==
  /\ meFile # <<>>
  /\ UpdateDetailsTree(LoadedApps, meSel)
  /\ meTwins' = (meTwins \/ \E a, b \in DOMAIN meFile : a # b /\ LoadedApp(a).name = LoadedApp(b).name)
  /\ meGone' = 1..meMade
  /\ UNCHANGED <<meFile, meMade, meMenus, meClash, meEnd>>

MacroEditorNext ==
  /\ meEnd = ""
  /\ \/ SelectMain \/ SaveFile \/ LoadFile
     \/ \E a \in DOMAIN meApps :
          \/ DeleteApplication(a)
          \/ \E name \in AppNames : AddNewApplication(a, name) \/ RenameApplication(a, name)
          \/ \E k \in MacroKeysOf : AddNewMacroKey(a, k) \/ DeleteMacro(a, k)
     \/ \E k \in MacroKeysOf : RenameMacro(k)
     \/ \E i \in DOMAIN meRows :
          \/ DeleteSelected(i) \/ AddNewMacro(i) \/ AddRefused(i) \/ Edit(i)
          \/ CloneMacro(i) \/ MoveUp(i) \/ MoveDown(i)

MacroEditorSpec == MacroEditorInit /\ [][MacroEditorNext]_meVars

-----------------------------------------------------------------------------
(* Properties. *)

(* What is done to a row is done to the element it shows, as long as no two  *)
(* applications have one name and the menu of the main list was not used     *)
(* since: the details list then shows what was there.                        *)
RowsShowElements ==
  (meSel # <<>> /\ ~meStale /\ ~meTwins /\ meEnd = "" /\ Named(meApps, meSel[1]) # {}) =>
     meRows = Vec(Final)

(* An element number beyond the macro needs a stale list, twins, or the      *)
(* refused element behind the last; a null pointer needs twins, or a stale   *)
(* selection.                                                                *)
EndsNeedStale ==
  /\ meEnd = "throw" => meStale
  /\ meEnd = "null" => meTwins \/ meStale

(* No element is lost but by its deletion, its edit, or a rename to a key in *)
(* use.                                                                      *)
ElementsKept ==
  (~meClash /\ meEnd = "") =>
     1..meMade \subseteq meGone \cup UNION {NumbersIn(meApps[a]) : a \in DOMAIN meApps}

(* What is saved now comes back as it is, key by key, except what the text   *)
(* cannot carry: the keys of other functions, MOUSE_RELEASE, the elements    *)
(* from one with a bracket or a keyword on; and the first application is     *)
(* Global.                                                                   *)
SavedComesBack ==
  \A a \in DOMAIN meFile : \A k \in DOMAIN meFile[a].vec \ Reserved :
    LET els == meFile[a].vec[k]
    IN  (\A i \in DOMAIN els : els[i].kind \in {"plain", "cut"}) => Of(LoadedApp(a).vec, k) = els

MacroEditorSafe == RowsShowElements /\ EndsNeedStale /\ ElementsKept /\ SavedComesBack
=============================================================================
