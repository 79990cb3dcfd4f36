--------------------------- MODULE Streams_proofs ---------------------------
(***************************************************************************)
(* What arrives in pieces: the lines of the data port, for any number of   *)
(* bytes and letters; the reports of the second keyboard, for any keys,    *)
(* reports and reads; the log on its panel, for any number of entries.     *)
(***************************************************************************)
EXTENDS MCServices, FiniteSetTheorems, SequenceTheorems, TLAPS

-----------------------------------------------------------------------------
(* The data port: what the lines of a stream are, piece by piece.            *)

Received == Letters \cup {CR}
Takings == [lines : Seq(Seq(Received)), rest : Seq(Received)]
Nothing(lines) == [lines |-> lines, rest |-> <<>>]

LEMMA TakeByteIs ==
  ASSUME NEW t \in Takings, NEW byte \in Received
  PROVE  /\ TakeByte(t, byte) \in Takings
         /\ byte # CR => TakeByte(t, byte) = [lines |-> t.lines, rest |-> Append(t.rest, byte)]
         /\ byte = CR /\ t.rest = <<>> => TakeByte(t, byte) = t
         /\ byte = CR /\ t.rest # <<>> => TakeByte(t, byte) = Nothing(Append(t.lines, t.rest))
<1>1. t.lines \in Seq(Seq(Received)) /\ t.rest \in Seq(Received) /\ t = [lines |-> t.lines, rest |-> t.rest]
  BY DEF Takings
<1>2. byte # CR => TakeByte(t, byte) = [lines |-> t.lines, rest |-> Append(t.rest, byte)]
  <2>1. byte # CR => TakeByte(t, byte) = [t EXCEPT !.rest = Append(@, byte)]
    BY Zenon DEF TakeByte
  <2>2. [t EXCEPT !.rest = Append(@, byte)] = [lines |-> t.lines, rest |-> Append(t.rest, byte)]
    <3>1. PICK l, r : l = t.lines /\ r = t.rest /\ t = [lines |-> l, rest |-> r]
      BY <1>1, Zenon
    <3> DEFINE x == Append(r, byte)
    <3>2. [t EXCEPT !.rest = Append(@, byte)] = [[lines |-> l, rest |-> r] EXCEPT !.rest = x]
      BY <3>1, Zenon
    <3> HIDE DEF x
    <3>3. [[lines |-> l, rest |-> r] EXCEPT !.rest = x] = [lines |-> l, rest |-> x]
      OBVIOUS
    <3> QED
      BY <3>1, <3>2, <3>3, Zenon DEF x
  <2> QED
    BY <2>1, <2>2, Zenon
<1>3. byte = CR /\ t.rest = <<>> => TakeByte(t, byte) = t
  BY Zenon DEF TakeByte
<1>4. byte = CR /\ t.rest # <<>> => TakeByte(t, byte) = Nothing(Append(t.lines, t.rest))
  BY Zenon DEF TakeByte, Nothing
<1>5. Append(t.rest, byte) \in Seq(Received) /\ Append(t.lines, t.rest) \in Seq(Seq(Received))
      /\ <<>> \in Seq(Received)
  BY <1>1, AppendProperties
<1>6. [lines |-> t.lines, rest |-> Append(t.rest, byte)] \in Takings
      /\ Nothing(Append(t.lines, t.rest)) \in Takings
  BY <1>1, <1>5 DEF Takings, Nothing
<1> QED
  BY <1>2, <1>3, <1>4, <1>6, Zenon

IsTaken(f, start, s) ==
  f = [n \in 0..Len(s) |-> IF n = 0 THEN start ELSE TakeByte(f[n - 1], s[n])]
TakenUpTo(start, s) == CHOOSE f : IsTaken(f, start, s)

LEMMA TakenStep ==
  ASSUME NEW start \in Takings, NEW s \in Seq(Received)
  PROVE  /\ Taken(start, s) = TakenUpTo(start, s)[Len(s)]
         /\ TakenUpTo(start, s)[0] = start
         /\ \A n \in 1..Len(s) : TakenUpTo(start, s)[n] = TakeByte(TakenUpTo(start, s)[n - 1], s[n])
<1> DEFINE A == Takings
           m == Len(s)
           Fn == [n \in 1..m |-> [u \in A |-> TakeByte(u, s[n])]]
<1>1. m \in Nat /\ \A n \in 1..m : s[n] \in Received
  OBVIOUS
<1>2. ASSUME NEW u \in A, NEW n \in 1..m PROVE TakeByte(u, s[n]) \in A
  BY <1>1, TakeByteIs
<1>3. Fn \in [1..m -> [A -> A]]
  BY <1>2
<1>4. \A u \in A, n \in 1..m : Fn[n][u] = TakeByte(u, s[n])
  OBVIOUS
<1>5. start \in A
  OBVIOUS
<1> HIDE DEF A, Fn, m
<1>6. PICK f \in [0..m -> A] : f[0] = start /\ \A n \in 1..m : f[n] = Fn[n][f[n - 1]]
  <2> DEFINE Rec(B, b, k) == \A H \in [1..k -> [B -> B]] :
          \E f \in [0..k -> B] : f[0] = b /\ \A n \in 1..k : f[n] = H[n][f[n - 1]]
  <2>0. \A B : \A b \in B : \A k \in Nat : Rec(B, b, k)
    BY RecAll
  <2>1. \A b \in A : \A k \in Nat : Rec(A, b, k)
    <3> HIDE DEF Rec
    <3> QED
      BY <2>0, Zenon
  <2>2. \A k \in Nat : \A H \in [1..k -> [A -> A]] :
          \E f \in [0..k -> A] : f[0] = start /\ \A n \in 1..k : f[n] = H[n][f[n - 1]]
    BY <1>5, <2>1, Zenon
  <2>3. \A H \in [1..m -> [A -> A]] :
          \E f \in [0..m -> A] : f[0] = start /\ \A n \in 1..m : f[n] = H[n][f[n - 1]]
    BY <1>1, <2>2, Zenon
  <2> QED
    BY <1>3, <2>3, Zenon
<1>7. \A n \in 1..m : f[n] = TakeByte(f[n - 1], s[n])
  <2> TAKE n \in 1..m
  <2>1. n - 1 \in 0..m
    BY <1>1
  <2> QED
    BY <1>4, <1>6, <2>1
<1>8. f = [n \in 0..m |-> IF n = 0 THEN start ELSE TakeByte(f[n - 1], s[n])]
  BY <1>1, <1>6, <1>7
<1>9. \E h : IsTaken(h, start, s)
  BY <1>8 DEF IsTaken, m
<1> DEFINE g == TakenUpTo(start, s)
<1>10. IsTaken(g, start, s)
  BY <1>9 DEF TakenUpTo
<1>11. Taken(start, s) = g[m]
  BY DEF Taken, IsTaken, TakenUpTo, m
<1> HIDE DEF g
<1>12. g[0] = start /\ \A n \in 1..m : g[n] = TakeByte(g[n - 1], s[n])
  <2> DEFINE B(n) == IF n = 0 THEN start ELSE TakeByte(g[n - 1], s[n])
  <2>1. g = [n \in 0..m |-> B(n)]
    BY <1>10 DEF IsTaken, m
  <2>2. \A n \in 0..m : g[n] = B(n)
    <3> HIDE DEF B
    <3> QED
      BY <2>1
  <2> QED
    BY <1>1, <2>2
<1> QED
  BY <1>11, <1>12 DEF g, m

LEMMA TakenEmpty == ASSUME NEW start \in Takings PROVE Taken(start, <<>>) = start
<1>1. <<>> \in Seq(Received) /\ Len(<<>>) = 0
  OBVIOUS
<1>2. Taken(start, <<>>) = TakenUpTo(start, <<>>)[Len(<<>>)] /\ TakenUpTo(start, <<>>)[0] = start
  BY <1>1, TakenStep, Zenon
<1> QED
  BY <1>1, <1>2, Zenon

(* Taking what is left of a stream continues with what was taken of it.      *)
LEMMA TakenConcat ==
  ASSUME NEW start \in Takings, NEW s \in Seq(Received), NEW r \in Seq(Received)
  PROVE  /\ Taken(start, s) \in Takings
         /\ Taken(start, s \o r) = Taken(Taken(start, s), r)
<1> DEFINE f == TakenUpTo(start, s)
           t == s \o r
           g == TakenUpTo(start, t)
<1>0. Len(s) \in Nat /\ Len(r) \in Nat /\ \A n \in 1..Len(s) : s[n] \in Received
  OBVIOUS
<1>1. /\ Taken(start, s) = f[Len(s)] /\ f[0] = start
      /\ \A n \in 1..Len(s) : f[n] = TakeByte(f[n - 1], s[n])
  BY TakenStep, Zenon
<1>2. /\ t \in Seq(Received) /\ Len(t) = Len(s) + Len(r)
      /\ \A i \in 1..(Len(s) + Len(r)) : t[i] = IF i <= Len(s) THEN s[i] ELSE r[i - Len(s)]
  BY ConcatProperties, Zenon
<1> HIDE DEF f, t
<1>3. /\ Taken(start, t) = g[Len(t)] /\ g[0] = start
      /\ \A n \in 1..Len(t) : g[n] = TakeByte(g[n - 1], t[n])
  <2>1. t \in Seq(Received)
    BY <1>2
  <2> QED
    BY <2>1, TakenStep, Zenon
<1> HIDE DEF g
<1> DEFINE Good == {n \in Nat : n <= Len(s) => f[n] = g[n] /\ f[n] \in Takings}
<1>4. 0 \in Good
  BY <1>1, <1>3
<1>5. ASSUME NEW n \in Nat, n \in Good PROVE n + 1 \in Good
  <2> SUFFICES ASSUME n + 1 <= Len(s) PROVE f[n + 1] = g[n + 1] /\ f[n + 1] \in Takings
    OBVIOUS
  <2>1. n + 1 \in 1..Len(s) /\ n + 1 \in 1..Len(t) /\ n + 1 \in 1..(Len(s) + Len(r)) /\ (n + 1) - 1 = n
        /\ n <= Len(s)
    BY <1>0, <1>2
  <2>2. t[n + 1] = s[n + 1] /\ s[n + 1] \in Received
    BY <1>0, <1>2, <2>1
  <2>3. f[n] = g[n] /\ f[n] \in Takings
    BY <1>5, <2>1
  <2>4. f[n + 1] = TakeByte(f[n], s[n + 1]) /\ g[n + 1] = TakeByte(g[n], t[n + 1])
    BY <1>1, <1>3, <2>1
  <2>5. TakeByte(f[n], s[n + 1]) \in Takings
    BY <2>2, <2>3, TakeByteIs
  <2> QED
    BY <2>2, <2>3, <2>4, <2>5
<1>6. Len(s) \in Good
  <2> HIDE DEF Good
  <2> QED
    BY <1>0, <1>4, <1>5, SetInduction
<1>7. f[Len(s)] = g[Len(s)] /\ f[Len(s)] \in Takings
  BY <1>0, <1>6
<1> DEFINE u == f[Len(s)]
           h == TakenUpTo(u, r)
<1>8. /\ Taken(u, r) = h[Len(r)] /\ h[0] = u
      /\ \A n \in 1..Len(r) : h[n] = TakeByte(h[n - 1], r[n])
  <2>1. u \in Takings
    BY <1>7
  <2> HIDE DEF u
  <2> QED
    BY <2>1, TakenStep, Zenon
<1> HIDE DEF h, Good
<1> DEFINE Well == {n \in Nat : n <= Len(r) => g[Len(s) + n] = h[n]}
<1>9. 0 \in Well
  BY <1>0, <1>7, <1>8
<1>10. ASSUME NEW n \in Nat, n \in Well PROVE n + 1 \in Well
  <2> SUFFICES ASSUME n + 1 <= Len(r) PROVE g[Len(s) + (n + 1)] = h[n + 1]
    OBVIOUS
  <2> DEFINE k == Len(s) + (n + 1)
  <2>1. /\ n + 1 \in 1..Len(r) /\ k \in 1..Len(t) /\ k \in 1..(Len(s) + Len(r)) /\ (n + 1) - 1 = n
        /\ n <= Len(r) /\ ~(k <= Len(s)) /\ k - Len(s) = n + 1 /\ k - 1 = Len(s) + n
    BY <1>0, <1>2
  <2>2. t[k] = r[n + 1]
    BY <1>2, <2>1
  <2>3. g[Len(s) + n] = h[n]
    BY <1>10, <2>1
  <2>4. g[k] = TakeByte(g[Len(s) + n], t[k])
    BY <1>3, <2>1
  <2>5. h[n + 1] = TakeByte(h[n], r[n + 1])
    BY <1>8, <2>1
  <2> QED
    BY <2>2, <2>3, <2>4, <2>5, Zenon
<1>11. Len(r) \in Well
  <2> HIDE DEF Well
  <2> QED
    BY <1>0, <1>9, <1>10, SetInduction
<1>12. g[Len(s) + Len(r)] = h[Len(r)]
  BY <1>0, <1>11
<1>13. Taken(start, t) = Taken(u, r)
  BY <1>2, <1>3, <1>8, <1>12
<1> QED
  BY <1>1, <1>7, <1>13 DEF t

(* Carriage returns before a line change nothing; letters are gathered. *)
LEMMA TakenReturns ==
  ASSUME NEW start \in Takings, start.rest = <<>>, NEW s \in Seq(Received), \A n \in 1..Len(s) : s[n] = CR
  PROVE  Taken(start, s) = start
<1> DEFINE f == TakenUpTo(start, s)
           Good == {n \in Nat : n <= Len(s) => f[n] = start}
<1>1. /\ Taken(start, s) = f[Len(s)] /\ f[0] = start /\ Len(s) \in Nat
      /\ \A n \in 1..Len(s) : f[n] = TakeByte(f[n - 1], s[n])
  BY TakenStep
<1> HIDE DEF f
<1>2. 0 \in Good
  BY <1>1
<1>3. ASSUME NEW n \in Nat, n \in Good PROVE n + 1 \in Good
  <2> SUFFICES ASSUME n + 1 <= Len(s) PROVE f[n + 1] = start
    OBVIOUS
  <2>1. n + 1 \in 1..Len(s) /\ (n + 1) - 1 = n /\ n <= Len(s)
    BY <1>1
  <2>2. f[n + 1] = TakeByte(start, CR)
    BY <1>1, <1>3, <2>1
  <2>3. CR \in Received
    BY DEF Received
  <2> QED
    BY <2>2, <2>3, TakeByteIs
<1>4. Len(s) \in Good
  <2> HIDE DEF Good
  <2> QED
    BY <1>1, <1>2, <1>3, SetInduction
<1> QED
  BY <1>1, <1>4

LEMMA TakenLetters ==
  ASSUME NEW lines \in Seq(Seq(Received)), NEW s \in Seq(Received), \A n \in 1..Len(s) : s[n] # CR
  PROVE  Taken(Nothing(lines), s) = [lines |-> lines, rest |-> s]
<1> DEFINE f == TakenUpTo(Nothing(lines), s)
           b(n) == SubSeq(s, 1, n)
           Good == {n \in Nat : n <= Len(s) => f[n] = [lines |-> lines, rest |-> b(n)]}
<1>0. Len(s) \in Nat /\ \A n \in 1..Len(s) : s[n] \in Received
  OBVIOUS
<1>1. /\ Taken(Nothing(lines), s) = f[Len(s)] /\ f[0] = Nothing(lines)
      /\ \A n \in 1..Len(s) : f[n] = TakeByte(f[n - 1], s[n])
  <2>1. Nothing(lines) \in Takings
    BY DEF Nothing, Takings
  <2> QED
    BY <2>1, TakenStep
<1> HIDE DEF f
<1>2. 0 \in Good
  <2>1. b(0) = <<>>
    BY SubSeqEmpty
  <2> HIDE DEF b
  <2> QED
    BY <1>1, <2>1 DEF Nothing
<1>3. ASSUME NEW n \in Nat, n \in Good PROVE n + 1 \in Good
  <2> SUFFICES ASSUME n + 1 <= Len(s) PROVE f[n + 1] = [lines |-> lines, rest |-> b(n + 1)]
    OBVIOUS
  <2>1. n + 1 \in 1..Len(s) /\ (n + 1) - 1 = n /\ n <= Len(s)
    BY <1>0
  <2>2. /\ f[n + 1] = TakeByte(f[n], s[n + 1]) /\ f[n] = [lines |-> lines, rest |-> b(n)]
        /\ s[n + 1] \in Received /\ s[n + 1] # CR
    BY <1>0, <1>1, <1>3, <2>1
  <2>3. b(n) \in Seq(Received) /\ b(n + 1) = Append(b(n), s[n + 1])
    <3>1. b(n) \in Seq(Received)
      BY <1>0, <2>1, SubSeqProperties
    <3>2. b(n + 1) = b(n) \o <<s[n + 1]>>
      <4>1. 1 \in 1..Len(s) /\ n + 1 \in 1..Len(s) /\ n + 1 - 1 = n
        BY <1>0, <2>1
      <4> QED
        BY <4>1, SubSeqRecursiveSecond
    <3>3. b(n) \o <<s[n + 1]>> = Append(b(n), s[n + 1])
      <4> HIDE DEF b
      <4> QED
        BY <2>2, <3>1
    <3> QED
      BY <3>1, <3>2, <3>3, Zenon
  <2> HIDE DEF b
  <2> DEFINE v == [lines |-> lines, rest |-> b(n)]
  <2>4. v \in Takings /\ v.lines = lines /\ v.rest = b(n)
    BY <2>3 DEF Takings
  <2> HIDE DEF v
  <2>5. TakeByte(v, s[n + 1]) = [lines |-> lines, rest |-> Append(b(n), s[n + 1])]
    BY <2>2, <2>4, TakeByteIs
  <2> QED
    BY <2>2, <2>3, <2>5, Zenon DEF v
<1>4. Len(s) \in Good
  <2> HIDE DEF Good
  <2> QED
    BY <1>0, <1>2, <1>3, SetInduction
<1>5. b(Len(s)) = s
  BY SubSeqFull
<1> HIDE DEF b
<1> QED
  BY <1>0, <1>1, <1>4, <1>5
-----------------------------------------------------------------------------
(* Splitting a buffer at a line.                                             *)

LEMMA SplitAt ==
  ASSUME NEW S, NEW b \in Seq(S), NEW i \in 0..Len(b)
  PROVE  /\ SubSeq(b, 1, i) \in Seq(S) /\ Len(SubSeq(b, 1, i)) = i
         /\ \A j \in 1..i : SubSeq(b, 1, i)[j] = b[j]
         /\ SubSeq(b, i + 1, Len(b)) \in Seq(S) /\ Len(SubSeq(b, i + 1, Len(b))) = Len(b) - i
         /\ \A j \in 1..(Len(b) - i) : SubSeq(b, i + 1, Len(b))[j] = b[i + j]
         /\ b = SubSeq(b, 1, i) \o SubSeq(b, i + 1, Len(b))
<1>0. Len(b) \in Nat /\ i \in Nat /\ i <= Len(b) /\ \A j \in 1..Len(b) : b[j] \in S
  OBVIOUS
<1> DEFINE a == SubSeq(b, 1, i)
           c == SubSeq(b, i + 1, Len(b))
<1>1. a \in Seq(S) /\ Len(a) = i /\ \A j \in 1..i : a[j] = b[j]
  <2>1. 1 \in Int /\ i \in Int /\ \A j \in 1..i : b[j] \in S
    BY <1>0
  <2>2. /\ a \in Seq(S) /\ Len(a) = (IF 1 <= i THEN i - 1 + 1 ELSE 0)
        /\ \A j \in 1..(i - 1 + 1) : a[j] = b[1 + j - 1]
    BY <2>1, SubSeqProperties
  <2> HIDE DEF a
  <2> QED
    BY <1>0, <2>2
<1>2. c \in Seq(S) /\ Len(c) = Len(b) - i /\ \A j \in 1..(Len(b) - i) : c[j] = b[i + j]
  <2>1. i + 1 \in Int /\ Len(b) \in Int /\ \A j \in (i + 1)..Len(b) : b[j] \in S
    BY <1>0
  <2>2. /\ c \in Seq(S) /\ Len(c) = (IF i + 1 <= Len(b) THEN Len(b) - (i + 1) + 1 ELSE 0)
        /\ \A j \in 1..(Len(b) - (i + 1) + 1) : c[j] = b[(i + 1) + j - 1]
    BY <2>1, SubSeqProperties
  <2>3. \A j \in 1..(Len(b) - i) : (i + 1) + j - 1 = i + j /\ j \in 1..(Len(b) - (i + 1) + 1)
    BY <1>0
  <2>4. Len(c) = Len(b) - i
    <3> HIDE DEF c
    <3> QED
      BY <1>0, <2>2
  <2> HIDE DEF c
  <2> QED
    BY <2>2, <2>3, <2>4
<1>3. b = a \o c
  <2>1. SubSeq(b, 1, i) \o SubSeq(b, i + 1, Len(b)) = SubSeq(b, 1, Len(b))
    <3>1. 1 \in 1..(Len(b) + 1) /\ i \in (1 - 1)..Len(b) /\ Len(b) \in i..Len(b)
      BY <1>0
    <3> QED
      BY <3>1, ConcatAdjacentSubSeq
  <2>2. SubSeq(b, 1, Len(b)) = b
    BY SubSeqFull
  <2> QED
    BY <2>1, <2>2
<1> QED
  BY <1>1, <1>2, <1>3, Zenon

(* What is before a line, the line, and the rest from its carriage return on.*)
IsSplit(S, b, f, i, a, l, c) ==
  /\ a \in Seq(S) /\ Len(a) = f - 1 /\ \A j \in 1..(f - 1) : a[j] = b[j]
  /\ l \in Seq(S) /\ Len(l) = i - f /\ \A j \in 1..(i - f) : l[j] = b[(f - 1) + j]
  /\ c \in Seq(S) /\ Len(c) = Len(b) - (i - 1)
  /\ \A j \in 1..(Len(b) - (i - 1)) : c[j] = b[(i - 1) + j]
  /\ b = a \o (l \o c)
  /\ a \o c \in Seq(S) /\ Len(a \o c) = Len(b) - (i - f)
  /\ \A j \in 1..(f - 1) : (a \o c)[j] = b[j]
  /\ (a \o c)[f] = b[i]

LEMMA SplitLine ==
  ASSUME NEW S, NEW b \in Seq(S), NEW f \in 1..Len(b), NEW i \in f..Len(b)
  PROVE  IsSplit(S, b, f, i, SubSeq(b, 1, f - 1), SubSeq(b, f, i - 1), SubSeq(b, i, Len(b)))
<1> DEFINE a == SubSeq(b, 1, f - 1)
           l == SubSeq(b, f, i - 1)
           c == SubSeq(b, i, Len(b))
           r == SubSeq(b, f, Len(b))
           ac == a \o c
<1>0. Len(b) \in Nat /\ f \in Nat /\ i \in Nat /\ 1 <= f /\ f <= i /\ i <= Len(b)
      /\ \A j \in 1..Len(b) : b[j] \in S
  OBVIOUS
<1>1. /\ a \in Seq(S) /\ Len(a) = f - 1 /\ \A j \in 1..(f - 1) : a[j] = b[j]
      /\ r \in Seq(S) /\ Len(r) = Len(b) - (f - 1) /\ \A j \in 1..(Len(b) - (f - 1)) : r[j] = b[(f - 1) + j]
      /\ b = a \o r
  <2>1. f - 1 \in 0..Len(b) /\ (f - 1) + 1 = f
    BY <1>0
  <2> HIDE DEF a, r
  <2> QED
    BY <2>1, SplitAt DEF a, r
<1>2. /\ c \in Seq(S) /\ Len(c) = Len(b) - (i - 1) /\ \A j \in 1..(Len(b) - (i - 1)) : c[j] = b[(i - 1) + j]
  <2>1. i - 1 \in 0..Len(b) /\ (i - 1) + 1 = i
    BY <1>0
  <2> QED
    BY <2>1, SplitAt
<1>3. /\ l \in Seq(S) /\ Len(l) = i - f /\ \A j \in 1..(i - f) : l[j] = b[(f - 1) + j]
  <2>1. f \in Int /\ i - 1 \in Int /\ \A j \in f..(i - 1) : b[j] \in S
    BY <1>0
  <2>2. /\ l \in Seq(S) /\ Len(l) = (IF f <= i - 1 THEN (i - 1) - f + 1 ELSE 0)
        /\ \A j \in 1..((i - 1) - f + 1) : l[j] = b[f + j - 1]
    BY <2>1, SubSeqProperties
  <2>3. \A j \in 1..(i - f) : f + j - 1 = (f - 1) + j /\ j \in 1..((i - 1) - f + 1)
    BY <1>0
  <2>4. Len(l) = i - f
    <3> HIDE DEF l
    <3> QED
      BY <1>0, <2>2
  <2> HIDE DEF l
  <2> QED
    BY <2>2, <2>3, <2>4
<1>4. r = l \o c
  <2>1. f \in 1..(Len(b) + 1) /\ i - 1 \in (f - 1)..Len(b) /\ Len(b) \in (i - 1)..Len(b) /\ (i - 1) + 1 = i
    BY <1>0
  <2>2. SubSeq(b, f, i - 1) \o SubSeq(b, (i - 1) + 1, Len(b)) = SubSeq(b, f, Len(b))
    BY <2>1, ConcatAdjacentSubSeq
  <2> QED
    BY <2>1, <2>2
<1> HIDE DEF a, l, c, r
<1>5. b = a \o (l \o c)
  BY <1>1, <1>4, Zenon
<1>6. a \in Seq(S) /\ c \in Seq(S)
  BY <1>1, <1>2
<1>7. /\ ac \in Seq(S) /\ Len(ac) = Len(a) + Len(c)
      /\ \A j \in 1..(Len(a) + Len(c)) : ac[j] = IF j <= Len(a) THEN a[j] ELSE c[j - Len(a)]
  BY <1>6, ConcatProperties, Zenon
<1> HIDE DEF ac
<1>8. Len(a) = f - 1 /\ Len(c) = Len(b) - (i - 1) /\ Len(ac) = Len(b) - (i - f)
  BY <1>0, <1>1, <1>2, <1>7
<1>9. ASSUME NEW j \in 1..(f - 1) PROVE ac[j] = b[j]
  <2>1. j \in 1..(Len(a) + Len(c)) /\ j <= Len(a)
    BY <1>0, <1>8
  <2> QED
    BY <1>1, <1>7, <2>1
<1>10. ac[f] = b[i]
  <2>1. f \in 1..(Len(a) + Len(c)) /\ ~(f <= Len(a)) /\ f - Len(a) = 1 /\ 1 \in 1..(Len(b) - (i - 1))
        /\ (i - 1) + 1 = i
    BY <1>0, <1>8
  <2>2. ac[f] = c[1] /\ c[1] = b[(i - 1) + 1]
    BY <1>2, <1>7, <2>1
  <2> QED
    BY <2>1, <2>2
<1>11. /\ a \in Seq(S) /\ Len(a) = f - 1 /\ \A j \in 1..(f - 1) : a[j] = b[j]
       /\ l \in Seq(S) /\ Len(l) = i - f /\ \A j \in 1..(i - f) : l[j] = b[(f - 1) + j]
       /\ c \in Seq(S) /\ Len(c) = Len(b) - (i - 1)
       /\ \A j \in 1..(Len(b) - (i - 1)) : c[j] = b[(i - 1) + j]
       /\ b = a \o (l \o c)
       /\ ac \in Seq(S) /\ Len(ac) = Len(b) - (i - f)
       /\ \A j \in 1..(f - 1) : ac[j] = b[j]
       /\ ac[f] = b[i]
  BY <1>1, <1>2, <1>3, <1>5, <1>7, <1>8, <1>9, <1>10, Zenon
<1> QED
  BY <1>11, Zenon DEF a, l, c, ac, IsSplit

LEMMA NothingTakes == ASSUME NEW lines \in Seq(Seq(Received)) PROVE Nothing(lines) \in Takings
BY DEF Nothing, Takings

(* A carriage return ends a line that was begun. *)
LEMMA TakenEnds ==
  ASSUME NEW t \in Takings, t.rest # <<>>, NEW c \in Seq(Received), Len(c) > 0, c[1] = CR
  PROVE  Taken(t, c) = Taken(Nothing(Append(t.lines, t.rest)), c)
<1> DEFINE h == SubSeq(c, 1, 1)
           d == SubSeq(c, 1 + 1, Len(c))
           u == Nothing(Append(t.lines, t.rest))
<1>1. h \in Seq(Received) /\ Len(h) = 1 /\ d \in Seq(Received) /\ c = h \o d /\ h[1] = c[1]
  <2>1. 1 \in 0..Len(c) /\ 1 \in 1..1
    OBVIOUS
  <2> QED
    BY <2>1, SplitAt
<1>2. u \in Takings /\ u.rest = <<>>
  <2>1. Append(t.lines, t.rest) \in Seq(Seq(Received))
    BY AppendProperties DEF Takings
  <2> QED
    BY <2>1, NothingTakes DEF Nothing
<1> HIDE DEF h, d
<1>3. Taken(t, h) = u
  <2>1. /\ Taken(t, h) = TakenUpTo(t, h)[Len(h)] /\ TakenUpTo(t, h)[0] = t
        /\ \A n \in 1..Len(h) : TakenUpTo(t, h)[n] = TakeByte(TakenUpTo(t, h)[n - 1], h[n])
    BY <1>1, TakenStep
  <2>2. 1 \in 1..1 /\ 1 - 1 = 0
    OBVIOUS
  <2>3. TakenUpTo(t, h)[1] = TakeByte(TakenUpTo(t, h)[1 - 1], h[1])
    BY <1>1, <2>1, <2>2, Zenon
  <2>4. Taken(t, h) = TakeByte(t, CR)
    BY <1>1, <2>1, <2>2, <2>3, Zenon
  <2>5. CR \in Received
    BY DEF Received
  <2> QED
    BY <2>4, <2>5, TakeByteIs
<1> HIDE DEF u
<1>4. Taken(u, h) = u
  <2>1. \A n \in 1..Len(h) : h[n] = CR
    BY <1>1
  <2> QED
    BY <1>1, <1>2, <2>1, TakenReturns
<1>5. Taken(t, h \o d) = Taken(Taken(t, h), d) /\ Taken(u, h \o d) = Taken(Taken(u, h), d)
  BY <1>1, <1>2, TakenConcat
<1> QED
  BY <1>1, <1>3, <1>4, <1>5, Zenon DEF u

(* With the line from f to i - 1 cut out, the rest of the buffer is taken.   *)
IsCut(lines, b, f, i) ==
  /\ SubSeq(b, f, i - 1) \in Seq(Received)
  /\ Taken(Nothing(lines), b) = Taken(Nothing(Append(lines, SubSeq(b, f, i - 1))), Cut(b, f, i - 1))
  /\ i - f = Len(b) - 1 =>
       Taken(Nothing(lines), b) = Taken(Nothing(Append(lines, SubSeq(b, f, i - 1))), <<>>)
  /\ Append(lines, SubSeq(b, f, i - 1)) \in Seq(Seq(Received))
  /\ Cut(b, f, i - 1) \in Seq(Received) /\ Len(Cut(b, f, i - 1)) = Len(b) - (i - f)
  /\ \A j \in 1..f : Cut(b, f, i - 1)[j] = CR

LEMMA TakenCut ==
  ASSUME NEW lines \in Seq(Seq(Received)), NEW b \in Seq(Received), NEW f \in 1..Len(b), NEW i \in (f + 1)..Len(b),
         \A j \in 1..(f - 1) : b[j] = CR, \A j \in f..(i - 1) : b[j] # CR, b[i] = CR
  PROVE  IsCut(lines, b, f, i)
<1> DEFINE a == SubSeq(b, 1, f - 1)
           l == SubSeq(b, f, i - 1)
           c == SubSeq(b, i, Len(b))
           t == [lines |-> lines, rest |-> l]
           n == Nothing(lines)
           m == Nothing(Append(lines, l))
<1>0. Len(b) \in Nat /\ f \in Nat /\ i \in Nat /\ 1 <= f /\ f < i /\ i <= Len(b) /\ i \in f..Len(b)
      /\ (i - 1) + 1 = i
  OBVIOUS
<1>1. /\ a \in Seq(Received) /\ Len(a) = f - 1 /\ \A j \in 1..(f - 1) : a[j] = b[j]
      /\ l \in Seq(Received) /\ Len(l) = i - f /\ \A j \in 1..(i - f) : l[j] = b[(f - 1) + j]
      /\ c \in Seq(Received) /\ Len(c) = Len(b) - (i - 1)
      /\ \A j \in 1..(Len(b) - (i - 1)) : c[j] = b[(i - 1) + j]
      /\ b = a \o (l \o c) /\ a \o c \in Seq(Received) /\ Len(a \o c) = Len(b) - (i - f)
      /\ \A j \in 1..(f - 1) : (a \o c)[j] = b[j]
      /\ (a \o c)[f] = b[i]
  <2> HIDE DEF a, l, c
  <2>1. IsSplit(Received, b, f, i, a, l, c)
    BY <1>0, SplitLine, Zenon DEF a, l, c
  <2> QED
    BY <2>1, Zenon DEF IsSplit
<1>2. Cut(b, f, i - 1) = a \o c
  BY <1>0, Zenon DEF Cut
<1> HIDE DEF a, l, c
<1>3. \A j \in 1..Len(a) : a[j] = CR
  BY <1>1
<1>4. \A j \in 1..Len(l) : l[j] # CR
  <2> TAKE j \in 1..Len(l)
  <2>1. j \in 1..(i - f) /\ (f - 1) + j \in f..(i - 1)
    BY <1>0, <1>1
  <2> QED
    BY <1>1, <2>1
<1>5. Len(c) > 0 /\ c[1] = CR
  <2>1. 1 \in 1..(Len(b) - (i - 1))
    BY <1>0
  <2>2. c[1] = b[(i - 1) + 1]
    BY <1>1, <2>1, Zenon
  <2>3. Len(c) = Len(b) - (i - 1)
    BY <1>1, Zenon
  <2>4. Len(c) > 0
    BY <1>0, <2>3
  <2> QED
    BY <1>0, <2>2, <2>4, Zenon
<1>6. l # <<>> /\ Append(lines, l) \in Seq(Seq(Received))
  BY <1>0, <1>1, AppendProperties
<1>7. n \in Takings /\ m \in Takings /\ n.rest = <<>> /\ m.rest = <<>> /\ t \in Takings
      /\ t.rest = l /\ t.lines = lines
  BY <1>1, <1>6, NothingTakes DEF Nothing, Takings
<1>8. Taken(n, l) = t
  BY <1>1, <1>4, TakenLetters
<1> HIDE DEF n, m, t
<1>9. Taken(n, a) = n /\ Taken(m, a) = m
  BY <1>1, <1>3, <1>7, TakenReturns
<1>10. Taken(t, c) = Taken(m, c)
  BY <1>1, <1>5, <1>6, <1>7, TakenEnds DEF m
<1>11. Taken(n, b) = Taken(m, c)
  <2> DEFINE lc == l \o c
  <2>1. lc \in Seq(Received)
    BY <1>1
  <2>2. Taken(n, lc) = Taken(Taken(n, l), c)
    BY <1>1, <1>7, TakenConcat
  <2> HIDE DEF lc
  <2>3. Taken(n, a \o lc) = Taken(Taken(n, a), lc)
    BY <1>1, <1>7, <2>1, TakenConcat
  <2>4. b = a \o lc
    BY <1>1 DEF lc
  <2> QED
    BY <1>8, <1>9, <1>10, <2>2, <2>3, <2>4, Zenon
<1>12. Taken(m, a \o c) = Taken(m, c)
  BY <1>1, <1>7, <1>9, TakenConcat
<1>13. ASSUME i - f = Len(b) - 1 PROVE Taken(m, c) = Taken(m, <<>>)
  <2>1. Len(c) = 1
    <3>1. Len(c) = Len(b) - (i - 1)
      BY <1>1, Zenon
    <3>2. i = Len(b)
      BY <1>0, <1>13
    <3> QED
      BY <1>0, <3>1, <3>2
  <2>2. \A j \in 1..Len(c) : c[j] = CR
    BY <1>5, <2>1
  <2>3. Taken(m, c) = m
    BY <1>1, <1>7, <2>2, TakenReturns
  <2>4. Taken(m, <<>>) = m
    BY <1>7, TakenEmpty
  <2> QED
    BY <2>3, <2>4
<1>14. a \o c \in Seq(Received) /\ Len(a \o c) = Len(b) - (i - f) /\ \A j \in 1..f : (a \o c)[j] = CR
  <2>1. \A j \in 1..f : j \in 1..(f - 1) \/ j = f
    BY <1>0
  <2> DEFINE k == a \o c
  <2>2. (\A j \in 1..(f - 1) : k[j] = b[j]) /\ k[f] = CR
    BY <1>1
  <2> HIDE DEF k
  <2>3. \A j \in 1..f : k[j] = CR
    BY <2>1, <2>2
  <2> QED
    BY <1>1, <2>3, Zenon DEF k
<1> QED
  BY <1>1, <1>2, <1>6, <1>11, <1>12, <1>13, <1>14, Zenon DEF n, m, l, IsCut

LEMMA TakenSkip ==
  ASSUME NEW lines \in Seq(Seq(Received)), NEW b \in Seq(Received), NEW i \in 1..Len(b),
         \A j \in 1..i : b[j] = CR
  PROVE  /\ Cut(b, i, i) \in Seq(Received) /\ Len(Cut(b, i, i)) = Len(b) - 1
         /\ \A j \in 1..(i - 1) : Cut(b, i, i)[j] = CR
         /\ Taken(Nothing(lines), b) = Taken(Nothing(lines), Cut(b, i, i))
<1> DEFINE a == SubSeq(b, 1, i)
           a0 == SubSeq(b, 1, i - 1)
           c == SubSeq(b, i + 1, Len(b))
           n == Nothing(lines)
           k == a0 \o c
<1>0. Len(b) \in Nat /\ i \in Nat /\ i \in 0..Len(b) /\ i - 1 \in 0..Len(b) /\ 1 <= i
  OBVIOUS
<1>1. /\ a \in Seq(Received) /\ Len(a) = i /\ \A j \in 1..i : a[j] = b[j]
      /\ c \in Seq(Received) /\ Len(c) = Len(b) - i /\ b = a \o c
  BY <1>0, SplitAt
<1>2. a0 \in Seq(Received) /\ Len(a0) = i - 1 /\ \A j \in 1..(i - 1) : a0[j] = b[j]
  BY <1>0, SplitAt
<1>3. Cut(b, i, i) = k
  BY Zenon DEF Cut
<1>4. n \in Takings /\ n.rest = <<>>
  BY NothingTakes DEF Nothing
<1> HIDE DEF a, a0, c, n
<1>5. /\ k \in Seq(Received) /\ Len(k) = Len(a0) + Len(c)
      /\ \A j \in 1..(Len(a0) + Len(c)) : k[j] = IF j <= Len(a0) THEN a0[j] ELSE c[j - Len(a0)]
  <2>1. a0 \in Seq(Received) /\ c \in Seq(Received)
    BY <1>1, <1>2
  <2> QED
    BY <2>1, ConcatProperties, Zenon
<1>6. Taken(n, a) = n /\ Taken(n, a0) = n
  <2>1. (\A j \in 1..Len(a) : a[j] = CR) /\ (\A j \in 1..Len(a0) : a0[j] = CR)
    BY <1>0, <1>1, <1>2
  <2> QED
    BY <1>1, <1>2, <1>4, <2>1, TakenReturns
<1>7. Taken(n, a \o c) = Taken(Taken(n, a), c) /\ Taken(n, k) = Taken(Taken(n, a0), c)
  BY <1>1, <1>2, <1>4, TakenConcat
<1> HIDE DEF k
<1>8. Len(k) = Len(b) - 1
  BY <1>0, <1>1, <1>2, <1>5
<1>9. \A j \in 1..(i - 1) : k[j] = CR
  <2> TAKE j \in 1..(i - 1)
  <2>1. j \in 1..(Len(a0) + Len(c)) /\ j <= Len(a0) /\ j \in 1..i
    BY <1>0, <1>1, <1>2
  <2> QED
    BY <1>2, <1>5, <2>1
<1>10. k \in Seq(Received) /\ Taken(n, b) = Taken(n, k)
  BY <1>1, <1>5, <1>6, <1>7, Zenon
<1> QED
  BY <1>3, <1>8, <1>9, <1>10, Zenon DEF n
-----------------------------------------------------------------------------
(* The walk over the buffer: what was before it is not taken twice, and the  *)
(* turns are enough.                                                         *)

Walks == [buffer : Seq(Received), lines : Seq(Seq(Received)), again : BOOLEAN, at : Nat \ {0}, start : Nat]

(* Before a line is begun all bytes passed are carriage returns; after that  *)
(* they are its bytes.  Until a line is found the walk is at the front.      *)
InLine(b, i, f) ==
  IF f = 0 THEN (i <= Len(b) + 1 \/ Len(b) = 0) /\ \A j \in 1..(i - 1) : j <= Len(b) => b[j] = CR
  ELSE i <= Len(b) + 1 /\ f < i /\ (\A j \in 1..(f - 1) : b[j] = CR) /\ \A j \in f..(i - 1) : b[j] # CR
AtFront(g, i, f) == ~g => (f = 0 => i = 1) /\ f <= 1
Shorter(g, b, m) == Len(b) <= m /\ (g => Len(b) < m)

Walking(T, m) == {w \in Walks : /\ InLine(w.buffer, w.at, w.start) /\ AtFront(w.again, w.at, w.start)
                                /\ Shorter(w.again, w.buffer, m)
                                /\ Taken(Nothing(w.lines), w.buffer) = T}

ToGo(w) == Len(w.buffer) + 1 - w.at
WalkEnds(w) == w.at > Len(w.buffer) \/ (w.buffer[w.at] # CR /\ Len(w.buffer) < 2)

LEMMA WalkingParts ==
  ASSUME NEW T, NEW m \in Nat, NEW b \in Seq(Received), NEW l \in Seq(Seq(Received)), NEW g \in BOOLEAN,
         NEW i \in Nat \ {0}, NEW f \in Nat,
         InLine(b, i, f), AtFront(g, i, f), Shorter(g, b, m), Taken(Nothing(l), b) = T
  PROVE  [buffer |-> b, lines |-> l, again |-> g, at |-> i, start |-> f] \in Walking(T, m)
<1> DEFINE w == [buffer |-> b, lines |-> l, again |-> g, at |-> i, start |-> f]
<1>1. w \in Walks
  BY Zenon DEF Walks
<1>2. w.buffer = b /\ w.lines = l /\ w.again = g /\ w.at = i /\ w.start = f
  BY Zenon
<1> HIDE DEF w
<1>3. /\ InLine(w.buffer, w.at, w.start) /\ AtFront(w.again, w.at, w.start)
      /\ Shorter(w.again, w.buffer, m) /\ Taken(Nothing(w.lines), w.buffer) = T
  BY <1>2, Zenon
<1> QED
  BY <1>1, <1>3, Zenon DEF Walking, w

(* The five ways a turn can go. *)
CutOut(x, b, i, f) == (i - f = Len(b) - 1 /\ x = <<>>) \/ (i - f # Len(b) - 1 /\ x = Cut(b, f, i - 1))
AfterLine(x, b, l, i, f) ==
  [buffer |-> x, lines |-> Append(l, SubSeq(b, f, i - 1)), again |-> TRUE, at |-> f + 1, start |-> 0]
LineTurn(v, b, l, i, f) == \E x : v = AfterLine(x, b, l, i, f) /\ CutOut(x, b, i, f)
IsTurn(w, v, b, l, g, i, f) ==
  /\ i > Len(b) => v = w
  /\ i <= Len(b) /\ b[i] = CR /\ f = 0 =>
       v = [buffer |-> Cut(b, i, i), lines |-> l, again |-> g, at |-> i, start |-> 0]
  /\ i <= Len(b) /\ b[i] = CR /\ f # 0 =>
       LineTurn(v, b, l, i, f)
  /\ i <= Len(b) /\ b[i] # CR /\ Len(b) < 2 => v = w
  /\ i <= Len(b) /\ b[i] # CR /\ ~(Len(b) < 2) =>
       v = [buffer |-> b, lines |-> l, again |-> g, at |-> i + 1, start |-> IF f = 0 THEN i ELSE f]

IsStepOn(v, b, l, g, x, y) == v = [buffer |-> b, lines |-> l, again |-> g, at |-> y, start |-> x]

LEMMA WalkAgainSet ==
  ASSUME NEW b, NEW l, NEW g, NEW i, NEW f, NEW c
  PROVE  [[buffer |-> b, lines |-> l, again |-> g, at |-> i, start |-> f] EXCEPT !.again = c]
           = [buffer |-> b, lines |-> l, again |-> c, at |-> i, start |-> f]
OBVIOUS

LEMMA WalkPlaces ==
  ASSUME NEW b, NEW l, NEW g, NEW i, NEW f, NEW x, NEW y
  PROVE  IsStepOn([[buffer |-> b, lines |-> l, again |-> g, at |-> i, start |-> f] EXCEPT !.at = y, !.start = x],
                  b, l, g, x, y)
<1> DEFINE w == [buffer |-> b, lines |-> l, again |-> g, at |-> i, start |-> f]
           v == [buffer |-> b, lines |-> l, again |-> g, at |-> y, start |-> f]
<1>1. [w EXCEPT !.at = y] = v
  OBVIOUS
<1>2. [v EXCEPT !.start = x] = [buffer |-> b, lines |-> l, again |-> g, at |-> y, start |-> x]
  OBVIOUS
<1>3. [w EXCEPT !.at = y, !.start = x] = [[w EXCEPT !.at = y] EXCEPT !.start = x]
  <2> HIDE DEF w
  <2> QED
    OBVIOUS
<1> QED
  BY <1>1, <1>2, <1>3, Zenon DEF IsStepOn

LEMMA WalkTurnIs ==
  ASSUME NEW b, NEW l, NEW g, NEW i \in Nat, NEW f \in Nat, Len(b) \in Nat
  PROVE  LET w == [buffer |-> b, lines |-> l, again |-> g, at |-> i, start |-> f]
         IN  IsTurn(w, WalkTurn(w), b, l, g, i, f)
<1> DEFINE w == [buffer |-> b, lines |-> l, again |-> g, at |-> i, start |-> f]
           left == IF i - f = Len(b) - 1 THEN <<>> ELSE Cut(b, f, i - 1)
<1>1. w.buffer = b /\ w.lines = l /\ w.again = g /\ w.at = i /\ w.start = f
  BY Zenon
<1>2. [w EXCEPT !.buffer = Cut(b, i, i)] = [buffer |-> Cut(b, i, i), lines |-> l, again |-> g, at |-> i, start |-> f]
  OBVIOUS
<1>3. [w EXCEPT !.at = i + 1, !.start = IF f = 0 THEN i ELSE f]
        = [buffer |-> b, lines |-> l, again |-> g, at |-> i + 1, start |-> IF f = 0 THEN i ELSE f]
  <2> DEFINE x == IF f = 0 THEN i ELSE f
             y == i + 1
  <2> HIDE DEF x, y
  <2>1. IsStepOn([w EXCEPT !.at = y, !.start = x], b, l, g, x, y)
    BY WalkPlaces, Zenon
  <2> HIDE DEF w
  <2>2. [w EXCEPT !.at = y, !.start = x] = [buffer |-> b, lines |-> l, again |-> g, at |-> y, start |-> x]
    BY <2>1, Zenon DEF IsStepOn
  <2> QED
    BY <2>2, Zenon DEF x, y
<1>4. i > Len(b) <=> ~(i <= Len(b))
  OBVIOUS
<1>5. WalkTurn(w) =
         IF i > Len(b) THEN w
         ELSE IF b[i] = CR THEN
                IF f = 0 THEN [w EXCEPT !.buffer = Cut(b, i, i)]
                ELSE [buffer |-> left, lines |-> Append(l, SubSeq(b, f, i - 1)), again |-> TRUE,
                      at |-> f + 1, start |-> 0]
         ELSE IF Len(b) < 2 THEN w
         ELSE [w EXCEPT !.at = i + 1, !.start = IF f = 0 THEN i ELSE f]
  <2> HIDE DEF w
  <2> QED
    BY <1>1, Zenon DEF WalkTurn
<1>6. (i - f = Len(b) - 1 /\ left = <<>>) \/ (i - f # Len(b) - 1 /\ left = Cut(b, f, i - 1))
  BY Zenon
<1> HIDE DEF w, left
<1>7. i > Len(b) => WalkTurn(w) = w
  BY <1>5, Zenon
<1>8. i <= Len(b) /\ b[i] = CR /\ f = 0 =>
        WalkTurn(w) = [buffer |-> Cut(b, i, i), lines |-> l, again |-> g, at |-> i, start |-> 0]
  BY <1>2, <1>4, <1>5, Zenon
<1>9. i <= Len(b) /\ b[i] = CR /\ f # 0 => LineTurn(WalkTurn(w), b, l, i, f)
  <2> SUFFICES ASSUME i <= Len(b) /\ b[i] = CR /\ f # 0 PROVE LineTurn(WalkTurn(w), b, l, i, f)
    OBVIOUS
  <2>1. WalkTurn(w) = [buffer |-> left, lines |-> Append(l, SubSeq(b, f, i - 1)), again |-> TRUE, at |-> f + 1, start |-> 0]
    BY <1>4, <1>5, Zenon
  <2> QED
    BY <1>6, <2>1, Zenon DEF LineTurn, AfterLine, CutOut
<1>10. i <= Len(b) /\ b[i] # CR /\ Len(b) < 2 => WalkTurn(w) = w
  BY <1>4, <1>5, Zenon
<1>11. i <= Len(b) /\ b[i] # CR /\ ~(Len(b) < 2) =>
        WalkTurn(w) = [buffer |-> b, lines |-> l, again |-> g, at |-> i + 1, start |-> IF f = 0 THEN i ELSE f]
  BY <1>3, <1>4, <1>5, Zenon
<1>12. IsTurn(w, WalkTurn(w), b, l, g, i, f)
  BY <1>6, <1>7, <1>8, <1>9, <1>10, <1>11, Zenon DEF IsTurn
<1> QED
  BY <1>12, Zenon DEF w

LEMMA RoundTurnKeeps ==
  ASSUME NEW T, NEW m \in Nat, NEW w \in Walking(T, m)
  PROVE  /\ WalkTurn(w) \in Walking(T, m)
         /\ WalkEnds(w) => WalkTurn(w) = w
         /\ ~WalkEnds(w) => ToGo(WalkTurn(w)) <= ToGo(w) - 1
<1>1. PICK b, l, g, i, f : b = w.buffer /\ l = w.lines /\ g = w.again /\ i = w.at /\ f = w.start
  BY Zenon
<1>2. w \in Walks /\ InLine(b, i, f) /\ AtFront(g, i, f) /\ Shorter(g, b, m) /\ Taken(Nothing(l), b) = T
  BY <1>1, Zenon DEF Walking
<1>3. /\ w = [buffer |-> b, lines |-> l, again |-> g, at |-> i, start |-> f]
      /\ b \in Seq(Received) /\ l \in Seq(Seq(Received)) /\ g \in BOOLEAN /\ i \in Nat \ {0} /\ f \in Nat
  BY <1>1, <1>2 DEF Walks
<1>4. Len(b) \in Nat /\ i \in Nat /\ i >= 1 /\ f \in Nat
  BY <1>3
<1> DEFINE v == WalkTurn(w)
<1>5. IsTurn(w, v, b, l, g, i, f)
  BY <1>3, <1>4, WalkTurnIs, Zenon
<1>6. (WalkEnds(w) <=> i > Len(b) \/ (b[i] # CR /\ Len(b) < 2)) /\ ToGo(w) = Len(b) + 1 - i
  BY <1>1, Zenon DEF WalkEnds, ToGo
<1> HIDE DEF v
<1>7. CASE WalkEnds(w)
  <2>1. v = w
    BY <1>4, <1>5, <1>6, <1>7 DEF IsTurn
  <2> QED
    BY <1>7, <2>1, Zenon DEF v
<1>8. CASE ~WalkEnds(w)
  <2>1. i <= Len(b) /\ (b[i] = CR \/ ~(Len(b) < 2)) /\ i \in 1..Len(b)
    BY <1>4, <1>6, <1>8
  <2>2. CASE b[i] = CR /\ f = 0
    <3> DEFINE x == Cut(b, i, i)
    <3>1. v = [buffer |-> x, lines |-> l, again |-> g, at |-> i, start |-> 0]
      BY <1>5, <2>1, <2>2, Zenon DEF IsTurn
    <3>2. \A j \in 1..i : b[j] = CR
      BY <1>2, <1>4, <2>1, <2>2 DEF InLine
    <3>3. /\ x \in Seq(Received) /\ Len(x) = Len(b) - 1
          /\ \A j \in 1..(i - 1) : x[j] = CR
          /\ Taken(Nothing(l), b) = Taken(Nothing(l), x)
      BY <1>3, <2>1, <3>2, TakenSkip, Zenon
    <3> HIDE DEF x
    <3>4. InLine(x, i, 0)
      BY <1>4, <2>1, <3>3 DEF InLine
    <3>5. AtFront(g, i, 0)
      BY <1>2, <2>2 DEF AtFront
    <3>6. Shorter(g, x, m)
      BY <1>2, <1>4, <3>3 DEF Shorter
    <3>7. v \in Walking(T, m)
      BY <1>2, <1>3, <1>4, <3>1, <3>3, <3>4, <3>5, <3>6, WalkingParts
    <3>8. ToGo(v) = Len(x) + 1 - i
      BY <3>1, Zenon DEF ToGo
    <3>9. ToGo(v) <= ToGo(w) - 1
      BY <1>4, <1>6, <3>3, <3>8
    <3> QED
      BY <1>8, <3>7, <3>9, Zenon DEF v
  <2>3. CASE b[i] = CR /\ f # 0
    <3> DEFINE k == SubSeq(b, f, i - 1)
               u == Append(l, k)
    <3>1. PICK x : /\ v = [buffer |-> x, lines |-> u, again |-> TRUE, at |-> f + 1, start |-> 0]
                   /\ (i - f = Len(b) - 1 /\ x = <<>>) \/ (i - f # Len(b) - 1 /\ x = Cut(b, f, i - 1))
      <4>1. LineTurn(v, b, l, i, f)
        BY <1>5, <2>1, <2>3, Zenon DEF IsTurn
      <4>2. PICK x : v = AfterLine(x, b, l, i, f) /\ CutOut(x, b, i, f)
        BY <4>1, Zenon DEF LineTurn
      <4> QED
        BY <4>2, Zenon DEF AfterLine, CutOut
    <3>2. /\ f < i /\ f \in 1..Len(b) /\ i \in (f + 1)..Len(b)
          /\ \A j \in 1..(f - 1) : b[j] = CR
          /\ \A j \in f..(i - 1) : b[j] # CR
      BY <1>2, <1>4, <2>1, <2>3 DEF InLine
    <3>3. /\ Taken(Nothing(l), b) = Taken(Nothing(u), Cut(b, f, i - 1))
          /\ i - f = Len(b) - 1 => Taken(Nothing(l), b) = Taken(Nothing(u), <<>>)
          /\ u \in Seq(Seq(Received))
          /\ Cut(b, f, i - 1) \in Seq(Received) /\ Len(Cut(b, f, i - 1)) = Len(b) - (i - f)
          /\ \A j \in 1..f : Cut(b, f, i - 1)[j] = CR
      <4>1. IsCut(l, b, f, i)
        BY <1>3, <2>3, <3>2, TakenCut
      <4> QED
        BY <4>1, Zenon DEF IsCut
    <3> HIDE DEF k, u
    <3>4. x \in Seq(Received) /\ Taken(Nothing(u), x) = T /\ (Len(x) = 0 \/ Len(x) = Len(b) - (i - f))
          /\ \A j \in 1..f : j <= Len(x) => x[j] = CR
      <4>1. CASE x = <<>> /\ i - f = Len(b) - 1
        <5>1. Len(x) = 0 /\ x \in Seq(Received) /\ \A j \in 1..f : ~(j <= Len(x))
          BY <1>4, <4>1
        <5> QED
          BY <1>2, <3>3, <4>1, <5>1, Zenon
      <4>2. CASE x = Cut(b, f, i - 1)
        BY <1>2, <3>3, <4>2, Zenon
      <4> QED
        BY <3>1, <4>1, <4>2, Zenon
    <3>5. Len(x) <= Len(b) - 1 /\ Len(x) <= Len(b) - (i - f) /\ Len(x) \in Nat
      BY <1>4, <3>2, <3>4
    <3>6. InLine(x, f + 1, 0)
      <4>1. f + 1 <= Len(x) + 1 \/ Len(x) = 0
        BY <1>4, <2>1, <3>2, <3>4
      <4>2. \A j \in 1..((f + 1) - 1) : j <= Len(x) => x[j] = CR
        BY <1>4, <3>4
      <4> QED
        BY <4>1, <4>2, Zenon DEF InLine
    <3>7. AtFront(TRUE, f + 1, 0)
      BY DEF AtFront
    <3>8. Shorter(TRUE, x, m)
      BY <1>2, <1>4, <3>5 DEF Shorter
    <3>9. v \in Walking(T, m)
      <4>1. f + 1 \in Nat \ {0} /\ 0 \in Nat /\ TRUE \in BOOLEAN
        BY <1>4
      <4> QED
        BY <3>1, <3>3, <3>4, <3>6, <3>7, <3>8, <4>1, WalkingParts, Zenon
    <3>10. ToGo(v) = Len(x) + 1 - (f + 1)
      BY <3>1, Zenon DEF ToGo
    <3>11. ToGo(v) <= ToGo(w) - 1
      BY <1>4, <1>6, <2>1, <3>2, <3>4, <3>5, <3>10
    <3> QED
      BY <1>8, <3>9, <3>11, Zenon DEF v
  <2>4. CASE b[i] # CR
    <3> DEFINE h == IF f = 0 THEN i ELSE f
    <3>1. v = [buffer |-> b, lines |-> l, again |-> g, at |-> i + 1, start |-> h]
      BY <1>5, <2>1, <2>4, Zenon DEF IsTurn
    <3>2. h \in Nat /\ h > 0 /\ h < i + 1
      BY <1>2, <1>4 DEF InLine
    <3>3. InLine(b, i + 1, h)
      <4>1. \A j \in 1..(h - 1) : b[j] = CR
        BY <1>2, <1>4, <2>1 DEF InLine
      <4>2. \A j \in h..((i + 1) - 1) : b[j] # CR
        <5> TAKE j \in h..((i + 1) - 1)
        <5>1. j = i \/ (f # 0 /\ j \in f..(i - 1))
          BY <1>4
        <5> QED
          BY <1>2, <2>4, <5>1 DEF InLine
      <4> HIDE DEF h
      <4>3. h # 0 /\ i + 1 <= Len(b) + 1
        BY <1>4, <2>1, <3>2
      <4> QED
        BY <3>2, <4>1, <4>2, <4>3, Zenon DEF InLine
    <3>4. AtFront(g, i + 1, h)
      BY <1>2, <1>4 DEF AtFront
    <3> HIDE DEF h
    <3>5. v \in Walking(T, m)
      <4>1. i + 1 \in Nat \ {0}
        BY <1>4
      <4> QED
        BY <1>2, <1>3, <3>1, <3>2, <3>3, <3>4, <4>1, WalkingParts, Zenon
    <3>6. ToGo(v) = Len(b) + 1 - (i + 1)
      BY <3>1, Zenon DEF ToGo
    <3>7. ToGo(v) <= ToGo(w) - 1
      BY <1>4, <1>6, <3>6
    <3> QED
      BY <1>8, <3>5, <3>7, Zenon DEF v
  <2> QED
    BY <2>2, <2>3, <2>4
<1> QED
  BY <1>7, <1>8

LEMMA OneByte ==
  ASSUME NEW n \in Nat, NEW i \in Nat, NEW j \in Nat, i # 0, 1 <= j, j <= n, ~(i > n), n < 2
  PROVE  n = 1 /\ i = 1 /\ j = 1
OBVIOUS

(* When the walk is over without a line there is no carriage return left.    *)
LEMMA WalkLeavesLetters ==
  ASSUME NEW T, NEW m \in Nat, NEW w \in Walking(T, m), WalkEnds(w), ~w.again
  PROVE  \A j \in 1..Len(w.buffer) : w.buffer[j] # CR
<1>1. PICK b, i, f : b = w.buffer /\ i = w.at /\ f = w.start
  BY Zenon
<1>2. InLine(b, i, f) /\ (f = 0 => i = 1) /\ f <= 1 /\ (i > Len(b) \/ (b[i] # CR /\ Len(b) < 2))
  BY <1>1, Zenon DEF Walking, WalkEnds, AtFront
<1>3. b \in Seq(Received) /\ i \in Nat \ {0} /\ f \in Nat /\ Len(b) \in Nat
  BY <1>1 DEF Walking, Walks
<1>4. \A j \in 1..Len(b) : b[j] # CR
  <2> TAKE j \in 1..Len(b)
  <2>1. CASE i > Len(b)
    <3>1. f # 0 /\ f = 1 /\ j \in f..(i - 1)
      BY <1>2, <1>3, <2>1
    <3> QED
      BY <1>2, <3>1, Zenon DEF InLine
  <2>2. CASE ~(i > Len(b))
    <3>1. Len(b) < 2
      BY <1>2, <2>2, Zenon
    <3>2. Len(b) = 1 /\ i = 1 /\ j = 1
      <4>1. Len(b) \in Nat /\ i \in Nat /\ i # 0 /\ j \in Nat /\ 1 <= j /\ j <= Len(b)
        BY <1>3
      <4> QED
        BY <2>2, <3>1, <4>1, OneByte
    <3> QED
      BY <1>2, <2>2, <3>2, Zenon
  <2> QED
    BY <2>1, <2>2
<1> QED
  BY <1>1, <1>4

(* A walk of k turns is in A as long as each turn keeps to A. *)
HasTurns(A, k, b, H) == \E f \in [0..k -> A] : f[0] = b /\ \A n \in 1..k : f[n] = H[f[n - 1]]

LEMMA TurnsExist ==
  ASSUME NEW A, NEW k \in Nat, NEW b \in A, NEW H \in [A -> A]
  PROVE  HasTurns(A, k, b, H)
<1> DEFINE Rec(B, a, n) == \A G \in [1..n -> [B -> B]] :
          \E f \in [0..n -> B] : f[0] = a /\ \A j \in 1..n : f[j] = G[j][f[j - 1]]
           Fn == [n \in 1..k |-> H]
<1>1. \A B : \A a \in B : \A n \in Nat : Rec(B, a, n)
  BY RecAll
<1>2. Rec(A, b, k)
  <2> HIDE DEF Rec
  <2> QED
    BY <1>1, Zenon
<1>3. Fn \in [1..k -> [A -> A]] /\ \A n \in 1..k : Fn[n] = H
  BY Zenon
<1> HIDE DEF Fn
<1>4. PICK f \in [0..k -> A] : f[0] = b /\ \A j \in 1..k : f[j] = Fn[j][f[j - 1]]
  BY <1>2, <1>3, Zenon
<1>5. \A j \in 1..k : f[j] = H[f[j - 1]]
  BY <1>3, <1>4, Zenon
<1> QED
  BY <1>4, <1>5, Zenon DEF HasTurns

WalkStart(p) == [p EXCEPT !.again = FALSE, !.at = 1, !.start = 0]
IsWalked(f, p) == f = [n \in 0..Len(p.buffer) |-> IF n = 0 THEN WalkStart(p) ELSE WalkTurn(f[n - 1])]
Turns(p) == CHOOSE f : IsWalked(f, p)

(* What a walk leaves of a buffer of m bytes. *)
WalkLeft(q, T, m) ==
  /\ q \in Walks /\ Taken(Nothing(q.lines), q.buffer) = T /\ Len(q.buffer) <= m
  /\ q.again => Len(q.buffer) < m
  /\ ~q.again => \A j \in 1..Len(q.buffer) : q.buffer[j] # CR

LEMMA WalkStartIs ==
  ASSUME NEW p \in Walks
  PROVE  WalkStart(p) \in Walking(Taken(Nothing(p.lines), p.buffer), Len(p.buffer))
         /\ WalkStart(p).buffer = p.buffer /\ WalkStart(p).at = 1
<1>1. PICK b, l, g, i, f : b = p.buffer /\ l = p.lines /\ g = p.again /\ i = p.at /\ f = p.start
  BY Zenon
<1>2. /\ p = [buffer |-> b, lines |-> l, again |-> g, at |-> i, start |-> f]
      /\ b \in Seq(Received) /\ l \in Seq(Seq(Received))
  BY <1>1 DEF Walks
<1> DEFINE w == [buffer |-> b, lines |-> l, again |-> FALSE, at |-> 1, start |-> 0]
<1>3. WalkStart(p) = w
  <2> DEFINE u == [buffer |-> b, lines |-> l, again |-> FALSE, at |-> i, start |-> f]
  <2>1. [p EXCEPT !.again = FALSE] = u
    <3> DEFINE c == FALSE
               v == [buffer |-> b, lines |-> l, again |-> g, at |-> i, start |-> f]
    <3>1. [p EXCEPT !.again = FALSE] = [v EXCEPT !.again = c]
      BY <1>2, Zenon
    <3> HIDE DEF c
    <3>2. [v EXCEPT !.again = c] = [buffer |-> b, lines |-> l, again |-> c, at |-> i, start |-> f]
      BY WalkAgainSet
    <3> QED
      BY <3>1, <3>2, Zenon DEF c
  <2>2. IsStepOn([u EXCEPT !.at = 1, !.start = 0], b, l, FALSE, 0, 1)
    BY WalkPlaces, Zenon
  <2>3. [p EXCEPT !.again = FALSE, !.at = 1, !.start = 0] = [[p EXCEPT !.again = FALSE] EXCEPT !.at = 1, !.start = 0]
    <3> HIDE <1>2
    <3> QED
      OBVIOUS
  <2> HIDE DEF u
  <2> QED
    BY <2>1, <2>2, <2>3, Zenon DEF WalkStart, IsStepOn
<1>4. Len(b) \in Nat /\ InLine(b, 1, 0) /\ AtFront(FALSE, 1, 0) /\ Shorter(FALSE, b, Len(b))
  BY <1>2 DEF InLine, AtFront, Shorter
<1>5. w \in Walking(Taken(Nothing(l), b), Len(b))
  <2>1. 1 \in Nat \ {0} /\ 0 \in Nat /\ FALSE \in BOOLEAN
    OBVIOUS
  <2> QED
    BY <1>2, <1>4, <2>1, WalkingParts, Zenon
<1>6. w.buffer = b /\ w.at = 1
  BY Zenon
<1> HIDE DEF w
<1> QED
  BY <1>1, <1>3, <1>5, <1>6, Zenon

LEMMA WalkedLeaves ==
  ASSUME NEW p \in Walks
  PROVE  WalkLeft(Walked(p), Taken(Nothing(p.lines), p.buffer), Len(p.buffer))
<1> DEFINE T == Taken(Nothing(p.lines), p.buffer)
           m == Len(p.buffer)
           A == Walking(T, m)
           H == [u \in A |-> WalkTurn(u)]
           s == WalkStart(p)
<1>1. m \in Nat /\ s \in A /\ s.buffer = p.buffer /\ s.at = 1
  <2>1. p.buffer \in Seq(Received)
    BY DEF Walks
  <2>2. m \in Nat
    BY <2>1
  <2> QED
    BY <2>2, WalkStartIs, Zenon
<1> HIDE DEF T, m, s
<1>2. \A u \in A : WalkTurn(u) \in A
  BY <1>1, RoundTurnKeeps
<1>3. H \in [A -> A] /\ \A u \in A : H[u] = WalkTurn(u)
  BY <1>2, Zenon
<1> HIDE DEF A, H
<1>4. PICK f \in [0..m -> A] : f[0] = s /\ \A n \in 1..m : f[n] = H[f[n - 1]]
  <2>1. HasTurns(A, m, s, H)
    BY <1>1, <1>3, TurnsExist, Zenon
  <2> QED
    BY <2>1, Zenon DEF HasTurns
<1>5. \A n \in 1..m : f[n - 1] \in A /\ f[n] = WalkTurn(f[n - 1])
  <2> TAKE n \in 1..m
  <2>1. n - 1 \in 0..m
    BY <1>1
  <2>2. f[n - 1] \in A
    BY <1>4, <2>1, Zenon
  <2> QED
    BY <1>3, <1>4, <2>2, Zenon
<1>6. f = [n \in 0..m |-> IF n = 0 THEN s ELSE WalkTurn(f[n - 1])]
  BY <1>1, <1>4, <1>5
<1> DEFINE g == Turns(p)
<1>7. IsWalked(g, p)
  <2>1. IsWalked(f, p)
    BY <1>6, Zenon DEF IsWalked, m, s
  <2> QED
    BY <2>1, Zenon DEF Turns
<1>8. Walked(p) = g[m]
  BY Zenon DEF Walked, IsWalked, Turns, WalkStart, m
<1> HIDE DEF g
<1>9. g[0] = s /\ \A n \in 1..m : g[n] = WalkTurn(g[n - 1])
  <2> DEFINE B(n) == IF n = 0 THEN s ELSE WalkTurn(g[n - 1])
  <2>1. g = [n \in 0..m |-> B(n)]
    BY <1>7, Zenon DEF IsWalked, m, s
  <2>2. \A n \in 0..m : g[n] = B(n)
    <3> HIDE DEF B
    <3> QED
      BY <2>1
  <2>3. 0 \in 0..m /\ \A n \in 1..m : n \in 0..m /\ n # 0
    BY <1>1
  <2> QED
    BY <2>2, <2>3, Zenon
<1> DEFINE Good == {n \in Nat : n <= m => g[n] \in A /\ (WalkEnds(g[n]) \/ ToGo(g[n]) <= m - n)}
<1>10. 0 \in Good
  <2>1. ToGo(g[0]) = m + 1 - 1
    BY <1>1, <1>9, Zenon DEF ToGo, m
  <2> QED
    BY <1>1, <1>9, <2>1
<1>11. ASSUME NEW n \in Nat, n \in Good PROVE n + 1 \in Good
  <2> SUFFICES ASSUME n + 1 <= m PROVE g[n + 1] \in A /\ (WalkEnds(g[n + 1]) \/ ToGo(g[n + 1]) <= m - (n + 1))
    OBVIOUS
  <2>1. n + 1 \in 1..m /\ (n + 1) - 1 = n /\ n <= m
    BY <1>1
  <2>2. g[n] \in A /\ (WalkEnds(g[n]) \/ ToGo(g[n]) <= m - n) /\ g[n + 1] = WalkTurn(g[n])
    BY <1>9, <1>11, <2>1
  <2>3. /\ WalkTurn(g[n]) \in A
        /\ WalkEnds(g[n]) => WalkTurn(g[n]) = g[n]
        /\ ~WalkEnds(g[n]) => ToGo(WalkTurn(g[n])) <= ToGo(g[n]) - 1
    BY <1>1, <2>2, RoundTurnKeeps DEF A
  <2>4. ToGo(g[n]) \in Int /\ ToGo(g[n + 1]) \in Int
    <3>1. \A u \in A : ToGo(u) \in Int
      <4> TAKE u \in A
      <4>1. u.buffer \in Seq(Received) /\ u.at \in Nat
        BY DEF A, Walking, Walks
      <4> QED
        BY <4>1 DEF ToGo
    <3> QED
      BY <2>2, <2>3, <3>1, Zenon
  <2>5. CASE WalkEnds(g[n])
    BY <2>2, <2>3, <2>5, Zenon
  <2>6. CASE ~WalkEnds(g[n])
    <3>1. ToGo(g[n]) <= m - n /\ ToGo(g[n + 1]) <= ToGo(g[n]) - 1 /\ g[n + 1] \in A
      BY <2>2, <2>3, <2>6, Zenon
    <3>2. ToGo(g[n + 1]) <= m - (n + 1)
      BY <1>1, <2>4, <3>1
    <3> QED
      BY <3>1, <3>2, Zenon
  <2> QED
    BY <2>5, <2>6
<1>12. m \in Good
  <2> HIDE DEF Good
  <2> QED
    BY <1>1, <1>10, <1>11, SetInduction
<1> DEFINE q == g[m]
<1>13. q \in A /\ (WalkEnds(q) \/ ToGo(q) <= 0)
  BY <1>1, <1>12
<1> HIDE DEF q, Good
<1>14. q \in Walks /\ Shorter(q.again, q.buffer, m) /\ Taken(Nothing(q.lines), q.buffer) = T
  BY <1>13, Zenon DEF A, Walking
<1>15. WalkEnds(q)
  <2>1. q.buffer \in Seq(Received) /\ q.at \in Nat
    BY <1>14 DEF Walks
  <2>2. Len(q.buffer) \in Nat
    BY <2>1
  <2>3. CASE ToGo(q) <= 0
    <3>1. q.at > Len(q.buffer)
      BY <2>1, <2>2, <2>3 DEF ToGo
    <3> QED
      BY <3>1, Zenon DEF WalkEnds
  <2> QED
    BY <1>13, <2>3, Zenon
<1>16. ~q.again => \A j \in 1..Len(q.buffer) : q.buffer[j] # CR
  BY <1>1, <1>13, <1>15, WalkLeavesLetters, Zenon DEF A
<1>17. WalkLeft(q, T, m)
  BY <1>14, <1>16, Zenon DEF WalkLeft, Shorter
<1> QED
  BY <1>8, <1>17, Zenon DEF q, T, m

(* The walks go on until one leaves nothing, or finds no line. *)
NoReturns(b) == \A j \in 1..Len(b) : b[j] # CR
Rounds(T) == {w \in Walks : Taken(Nothing(w.lines), w.buffer) = T /\ (~w.again => NoReturns(w.buffer))}
FirstRound(buffer, lines) == [buffer |-> buffer, lines |-> lines, again |-> TRUE, at |-> 1, start |-> 0]
IsRounds(f, buffer, lines) ==
  f = [n \in 0..Len(buffer) |-> IF n = 0 THEN FirstRound(buffer, lines) ELSE WalkAgain(f[n - 1])]
RoundsOf(buffer, lines) == CHOOSE f : IsRounds(f, buffer, lines)

LEMMA RoundKeeps ==
  ASSUME NEW T, NEW w \in Rounds(T)
  PROVE  /\ WalkAgain(w) \in Rounds(T)
         /\ w.buffer = <<>> \/ ~w.again => WalkAgain(w) = w
         /\ w.buffer # <<>> /\ w.again =>
              ~WalkAgain(w).again \/ Len(WalkAgain(w).buffer) < Len(w.buffer)
<1>1. w \in Walks /\ Taken(Nothing(w.lines), w.buffer) = T
  BY Zenon DEF Rounds
<1>2. CASE w.buffer = <<>> \/ ~w.again
  <2>1. WalkAgain(w) = w
    BY <1>2, Zenon DEF WalkAgain
  <2> QED
    BY <1>2, <2>1, Zenon
<1>3. CASE ~(w.buffer = <<>> \/ ~w.again)
  <2> DEFINE q == Walked(w)
  <2>1. WalkAgain(w) = q
    BY <1>3, Zenon DEF WalkAgain
  <2>2. WalkLeft(q, T, Len(w.buffer))
    BY <1>1, WalkedLeaves, Zenon
  <2> HIDE DEF q
  <2>3. q \in Rounds(T) /\ (~q.again \/ Len(q.buffer) < Len(w.buffer))
    BY <2>2, Zenon DEF WalkLeft, Rounds, NoReturns
  <2> QED
    BY <1>3, <2>1, <2>3, Zenon
<1> QED
  BY <1>2, <1>3, Zenon

LEMMA FramesLeave ==
  ASSUME NEW buffer \in Seq(Received), NEW lines \in Seq(Seq(Received))
  PROVE  /\ ProcessReceivedFrames(buffer, lines) \in Rounds(Taken(Nothing(lines), buffer))
         /\ NoReturns(ProcessReceivedFrames(buffer, lines).buffer)
<1> DEFINE T == Taken(Nothing(lines), buffer)
           m == Len(buffer)
           A == Rounds(T)
           H == [u \in A |-> WalkAgain(u)]
           s == FirstRound(buffer, lines)
<1>1. m \in Nat /\ s \in A /\ s.buffer = buffer
  <2>1. s \in Walks
    <3>1. 1 \in Nat \ {0} /\ 0 \in Nat /\ TRUE \in BOOLEAN
      OBVIOUS
    <3> QED
      BY <3>1, Zenon DEF Walks, FirstRound
  <2>2. s.buffer = buffer /\ s.lines = lines /\ s.again = TRUE
    BY Zenon DEF FirstRound
  <2>3. m \in Nat
    OBVIOUS
  <2> HIDE DEF s
  <2> QED
    BY <2>1, <2>2, <2>3, Zenon DEF Rounds
<1> HIDE DEF T, m, s
<1>2. \A u \in A : WalkAgain(u) \in A
  BY RoundKeeps
<1>3. H \in [A -> A] /\ \A u \in A : H[u] = WalkAgain(u)
  BY <1>2, Zenon
<1> HIDE DEF A, H
<1>4. PICK f \in [0..m -> A] : f[0] = s /\ \A n \in 1..m : f[n] = H[f[n - 1]]
  <2>1. HasTurns(A, m, s, H)
    BY <1>1, <1>3, TurnsExist, Zenon
  <2> QED
    BY <2>1, Zenon DEF HasTurns
<1>5. \A n \in 1..m : f[n - 1] \in A /\ f[n] = WalkAgain(f[n - 1])
  <2> TAKE n \in 1..m
  <2>1. n - 1 \in 0..m
    BY <1>1
  <2>2. f[n - 1] \in A
    BY <1>4, <2>1, Zenon
  <2> QED
    BY <1>3, <1>4, <2>2, Zenon
<1>6. f = [n \in 0..m |-> IF n = 0 THEN s ELSE WalkAgain(f[n - 1])]
  BY <1>1, <1>4, <1>5
<1> DEFINE g == RoundsOf(buffer, lines)
<1>7. IsRounds(g, buffer, lines)
  <2>1. IsRounds(f, buffer, lines)
    BY <1>6, Zenon DEF IsRounds, m, s
  <2> QED
    BY <2>1, Zenon DEF RoundsOf
<1>8. ProcessReceivedFrames(buffer, lines) = g[m]
  BY Zenon DEF ProcessReceivedFrames, IsRounds, RoundsOf, FirstRound, m
<1> HIDE DEF g
<1>9. g[0] = s /\ \A n \in 1..m : g[n] = WalkAgain(g[n - 1])
  <2> DEFINE B(n) == IF n = 0 THEN s ELSE WalkAgain(g[n - 1])
  <2>1. g = [n \in 0..m |-> B(n)]
    BY <1>7, Zenon DEF IsRounds, m, s
  <2>2. \A n \in 0..m : g[n] = B(n)
    <3> HIDE DEF B
    <3> QED
      BY <2>1
  <2>3. 0 \in 0..m /\ \A n \in 1..m : n \in 0..m /\ n # 0
    BY <1>1
  <2> QED
    BY <2>2, <2>3, Zenon
<1> DEFINE Over(w) == w.buffer = <<>> \/ ~w.again
           Good == {n \in Nat : n <= m => g[n] \in A /\ (Over(g[n]) \/ Len(g[n].buffer) <= m - n)}
<1>10. 0 \in Good
  <2>1. Len(g[0].buffer) = m
    BY <1>1, <1>9, Zenon DEF m
  <2> QED
    BY <1>1, <1>9, <2>1
<1>11. ASSUME NEW n \in Nat, n \in Good PROVE n + 1 \in Good
  <2> SUFFICES ASSUME n + 1 <= m PROVE g[n + 1] \in A /\ (Over(g[n + 1]) \/ Len(g[n + 1].buffer) <= m - (n + 1))
    OBVIOUS
  <2>1. n + 1 \in 1..m /\ (n + 1) - 1 = n /\ n <= m
    BY <1>1
  <2>2. g[n] \in A /\ (Over(g[n]) \/ Len(g[n].buffer) <= m - n) /\ g[n + 1] = WalkAgain(g[n])
    BY <1>9, <1>11, <2>1
  <2>3. /\ WalkAgain(g[n]) \in A
        /\ Over(g[n]) => WalkAgain(g[n]) = g[n]
        /\ ~Over(g[n]) => ~WalkAgain(g[n]).again \/ Len(WalkAgain(g[n]).buffer) < Len(g[n].buffer)
    BY <2>2, RoundKeeps, Zenon DEF A
  <2>4. Len(g[n].buffer) \in Nat /\ Len(g[n + 1].buffer) \in Nat
    <3>1. \A u \in A : Len(u.buffer) \in Nat
      <4> TAKE u \in A
      <4>1. u.buffer \in Seq(Received)
        BY DEF A, Rounds, Walks
      <4> QED
        BY <4>1
    <3> QED
      BY <2>2, <2>3, <3>1, Zenon
  <2>5. CASE Over(g[n])
    BY <2>2, <2>3, <2>5, Zenon
  <2>6. CASE ~Over(g[n])
    <3>1. /\ Len(g[n].buffer) <= m - n /\ g[n + 1] \in A
          /\ ~g[n + 1].again \/ Len(g[n + 1].buffer) < Len(g[n].buffer)
      BY <2>2, <2>3, <2>6, Zenon
    <3>2. CASE ~g[n + 1].again
      BY <3>1, <3>2, Zenon
    <3>3. CASE Len(g[n + 1].buffer) < Len(g[n].buffer)
      <4>1. Len(g[n].buffer) <= m - n
        BY <3>1, Zenon
      <4>2. Len(g[n + 1].buffer) <= m - (n + 1)
        BY <1>1, <2>4, <3>3, <4>1
      <4> QED
        BY <3>1, <4>2, Zenon
    <3> QED
      BY <3>1, <3>2, <3>3, Zenon
  <2> QED
    BY <2>5, <2>6
<1>12. m \in Good
  <2> HIDE DEF Good
  <2> QED
    BY <1>1, <1>10, <1>11, SetInduction
<1> DEFINE q == g[m]
<1>13. q \in A /\ (q.buffer = <<>> \/ ~q.again \/ Len(q.buffer) <= 0)
  <2> HIDE DEF Over
  <2>1. q \in A /\ (Over(q) \/ Len(q.buffer) <= 0)
    BY <1>1, <1>12
  <2> QED
    BY <2>1, Zenon DEF Over
<1> HIDE DEF q, Good, Over
<1>14. NoReturns(q.buffer)
  <2>1. q.buffer \in Seq(Received) /\ (~q.again => NoReturns(q.buffer))
    BY <1>13 DEF A, Rounds, Walks
  <2>2. CASE Len(q.buffer) <= 0 \/ q.buffer = <<>>
    BY <2>1, <2>2 DEF NoReturns
  <2> QED
    BY <1>13, <2>1, <2>2, Zenon
<1> QED
  BY <1>8, <1>13, <1>14, Zenon DEF q, A, T
-----------------------------------------------------------------------------
(* What is delivered and what is buffered is what the stream gives.          *)
DlInv ==
  /\ dlBuffer \in Seq(Received) /\ dlLines \in Seq(Seq(Received)) /\ dlStream \in Seq(Received)
  /\ NoReturns(dlBuffer)
  /\ Taken(NothingTaken, dlStream) = [lines |-> dlLines, rest |-> dlBuffer]

LEMMA DlStarts == DataLinesInit => DlInv
<1> SUFFICES ASSUME DataLinesInit PROVE DlInv
  OBVIOUS
<1>1. dlBuffer = <<>> /\ dlLines = <<>> /\ dlStream = <<>>
  BY DEF DataLinesInit
<1>2. <<>> \in Seq(Received) /\ <<>> \in Seq(Seq(Received)) /\ NoReturns(<<>>)
  BY DEF NoReturns
<1>3. NothingTaken \in Takings
  BY <1>2 DEF NothingTaken, Takings
<1>4. Taken(NothingTaken, <<>>) = NothingTaken
  BY <1>3, TakenEmpty, Zenon
<1> QED
  BY <1>1, <1>2, <1>4, Zenon DEF DlInv, NothingTaken

LEMMA DlKeeps == DlInv /\ [DataLinesNext]_dlVars => DlInv'
<1> SUFFICES ASSUME DlInv, [DataLinesNext]_dlVars PROVE DlInv'
  OBVIOUS
<1>0. /\ dlBuffer \in Seq(Received) /\ dlLines \in Seq(Seq(Received)) /\ dlStream \in Seq(Received)
      /\ NoReturns(dlBuffer)
      /\ Taken(NothingTaken, dlStream) = [lines |-> dlLines, rest |-> dlBuffer]
  BY DEF DlInv
<1>1. CASE UNCHANGED dlVars
  BY <1>1, Zenon DEF dlVars, DlInv
<1>2. ASSUME NEW n \in 1..(MaxBytes - Len(dlStream)), NEW bytes \in [1..n -> Letters \cup {CR}], OnLineData(bytes)
      PROVE  DlInv'
  <2> DEFINE b == dlBuffer \o bytes
             p == ProcessReceivedFrames(b, dlLines)
             t == [lines |-> dlLines, rest |-> dlBuffer]
  <2>1. bytes \in Seq(Received)
    <3>1. n \in Nat
      BY <1>0, MaxBytesAssumption
    <3> QED
      BY <1>2, <3>1 DEF Received
  <2>2. b \in Seq(Received) /\ dlStream \o bytes \in Seq(Received)
    BY <1>0, <2>1, ConcatProperties
  <2>3. dlBuffer' = p.buffer /\ dlLines' = p.lines /\ dlStream' = dlStream \o bytes
    BY <1>2, Zenon DEF OnLineData
  <2>4. Taken(Nothing(dlLines), dlBuffer) = t
    BY <1>0, TakenLetters, Zenon DEF NoReturns
  <2>5. NothingTaken \in Takings /\ Nothing(dlLines) \in Takings
    <3>1. <<>> \in Seq(Received) /\ <<>> \in Seq(Seq(Received))
      OBVIOUS
    <3> QED
      BY <1>0, <3>1, NothingTakes, Zenon DEF NothingTaken, Takings
  <2>6. Taken(NothingTaken, dlStream \o bytes) = Taken(Nothing(dlLines), b)
    <3> DEFINE u == Nothing(dlLines)
    <3>1. Taken(NothingTaken, dlStream \o bytes) = Taken(t, bytes)
      BY <1>0, <2>1, <2>5, TakenConcat
    <3>2. u \in Takings
      BY <2>5
    <3> HIDE DEF u, t
    <3>3. Taken(u, dlBuffer \o bytes) = Taken(Taken(u, dlBuffer), bytes)
      BY <1>0, <2>1, <3>2, TakenConcat
    <3> QED
      BY <2>4, <3>1, <3>3, Zenon DEF u
  <2> HIDE DEF b, t
  <2>7. p \in Rounds(Taken(Nothing(dlLines), b)) /\ NoReturns(p.buffer)
    BY <1>0, <2>2, FramesLeave, Zenon
  <2> HIDE DEF p
  <2>8. p \in Walks /\ Taken(Nothing(p.lines), p.buffer) = Taken(Nothing(dlLines), b)
    BY <2>7, Zenon DEF Rounds
  <2>9. p.buffer \in Seq(Received) /\ p.lines \in Seq(Seq(Received))
    BY <2>8 DEF Walks
  <2>10. Taken(Nothing(p.lines), p.buffer) = [lines |-> p.lines, rest |-> p.buffer]
    BY <2>7, <2>9, TakenLetters, Zenon DEF NoReturns
  <2>11. /\ dlBuffer' \in Seq(Received) /\ dlLines' \in Seq(Seq(Received)) /\ dlStream' \in Seq(Received)
         /\ NoReturns(dlBuffer')
         /\ Taken(NothingTaken, dlStream') = [lines |-> dlLines', rest |-> dlBuffer']
    BY <2>2, <2>3, <2>6, <2>7, <2>8, <2>9, <2>10, Zenon
  <2>12. NothingTaken' = NothingTaken /\ Received' = Received
    BY Zenon DEF NothingTaken, Received
  <2> QED
    BY <2>11, Zenon DEF DlInv, NoReturns
<1> QED
  BY <1>1, <1>2, Zenon DEF DataLinesNext

LEMMA DlMeans == DlInv => LinesWhole
<1> SUFFICES ASSUME DlInv PROVE dlLines = Taken(NothingTaken, dlStream).lines
  BY DEF LinesWhole
<1>1. Taken(NothingTaken, dlStream) = [lines |-> dlLines, rest |-> dlBuffer]
  BY DEF DlInv
<1>2. [lines |-> dlLines, rest |-> dlBuffer].lines = dlLines
  OBVIOUS
<1> QED
  BY <1>1, <1>2, Zenon
-----------------------------------------------------------------------------
(* The log: what the timer has shown, and what it has still to take, is the  *)
(* log from where the list was cleared.                                      *)

LogEntry == [n : Nat, level : LogLevels, text : Texts]
ShownEntry == [entry : LogEntry, by : {"timer", "search"}]
ShownByTimer == {s \in ShownEntry : s.by = "timer"}
InsideLog == {<<>>} \cup [msg : Message, walks : SUBSET Texts, freed : BOOLEAN]
Taken1 == Len(lgAll) - Len(lgPending)     \* entries the timer has taken

LeTyped ==
  /\ lgAt \in [LogThreads -> InsideLog] /\ lgFilters \subseteq Texts
  /\ lgAll \in Seq(LogEntry) /\ lgPending \in Seq(LogEntry) /\ lgFile \in Seq(LogEntry)
  /\ lgShown \in Seq(ShownEntry) /\ lgCut \in Nat
LeOrder ==
  /\ \A k \in 1..Len(lgAll) : lgAll[k].n = k
  /\ Len(lgPending) <= Len(lgAll)
  /\ \A k \in 1..Len(lgPending) : lgPending[k] = lgAll[Taken1 + k]
  /\ Distinct(lgFile) /\ \A k \in 1..Len(lgFile) : lgFile[k].n <= Len(lgAll)
LeTimed ==
  /\ lgCut <= Taken1
  /\ Len(Within(lgShown, ShownByTimer)) = Taken1 - lgCut
  /\ \A k \in 1..(Taken1 - lgCut) : Within(lgShown, ShownByTimer)[k].entry = lgAll[lgCut + k]
LeOnce ==
  /\ ShownOnce
  /\ \A j \in 1..Len(lgShown), k \in 1..Len(lgPending) :
       lgShown[j].entry = lgPending[k] => lgShown[j].entry \in lgTwice
  /\ \A j \in 1..Len(lgShown) : lgShown[j].entry.n <= Len(lgAll)
LeInv == LeTyped /\ LeOrder /\ LeTimed /\ LeOnce

LEMMA LeInit == LogInit => LeInv
<1> SUFFICES ASSUME LogInit PROVE LeInv
  OBVIOUS
<1>1. /\ lgAll = <<>> /\ lgPending = <<>> /\ lgFile = <<>> /\ lgShown = <<>> /\ lgCut = 0 /\ lgFilters = {}
      /\ lgAt = [t \in LogThreads |-> <<>>]
  BY DEF LogInit
<1>2. LeTyped
  BY <1>1 DEF LeTyped, InsideLog
<1>3. LeOrder
  BY <1>1 DEF LeOrder, Distinct, Taken1
<1>4. LeTimed
  <2>1. Within(lgShown, ShownByTimer) = <<>>
    BY <1>1, WithinEmpty
  <2> QED
    BY <1>1, <2>1 DEF LeTimed, Taken1
<1>5. LeOnce
  BY <1>1 DEF LeOnce, ShownOnce
<1> QED
  BY <1>2, <1>3, <1>4, <1>5 DEF LeInv

(* What only the threads inside and the user's settings change. *)
LEMMA LeFrame ==
  ASSUME LeInv, UNCHANGED <<lgKept, lgList>>, lgAt' \in [LogThreads -> InsideLog], lgFilters' \subseteq Texts
  PROVE  LeInv'
<1>1. /\ lgAll' = lgAll /\ lgPending' = lgPending /\ lgFile' = lgFile
      /\ lgShown' = lgShown /\ lgCut' = lgCut /\ lgTwice' = lgTwice
  BY DEF lgKept, lgList
<1>2. LeTyped'
  BY <1>1 DEF LeInv, LeTyped
<1>3. LeOrder' /\ LeTimed' /\ LeOnce'
  BY <1>1, Zenon DEF LeInv, LeOrder, LeTimed, LeOnce, ShownOnce, Taken1
<1> QED
  BY <1>2, <1>3 DEF LeInv

(* An entry is accepted. *)
LEMMA LeAccepts ==
  ASSUME LeInv, NEW t \in LogThreads, Accept(t)
  PROVE  LeInv'
<1> DEFINE e == [n |-> Len(lgAll) + 1, level |-> lgAt[t].msg.level, text |-> lgAt[t].msg.text]
           m == Len(lgAll)
           p == Len(lgPending)
<1>0. LeTyped /\ LeOrder /\ LeTimed /\ LeOnce
  BY DEF LeInv
<1>1. /\ lgAll \in Seq(LogEntry) /\ lgPending \in Seq(LogEntry) /\ lgFile \in Seq(LogEntry)
      /\ lgShown \in Seq(ShownEntry) /\ lgCut \in Nat /\ m \in Nat /\ p \in Nat
  BY <1>0 DEF LeTyped
<1>2. e \in LogEntry /\ e.n = m + 1
  <2>1. lgAt[t] \in InsideLog /\ lgAt[t] # <<>>
    BY <1>0 DEF LeTyped, Accept
  <2>2. lgAt[t].msg \in Message
    BY <2>1 DEF InsideLog
  <2>3. lgAt[t].msg.level \in LogLevels /\ lgAt[t].msg.text \in Texts
    BY <2>2 DEF Message
  <2>4. m + 1 \in Nat
    BY <1>1
  <2> QED
    BY <2>3, <2>4 DEF LogEntry
<1>3. /\ lgAll' = Append(lgAll, e) /\ lgPending' = Append(lgPending, e)
      /\ lgFile' = (IF e.level >= Verbose THEN Append(lgFile, e) ELSE lgFile)
      /\ lgShown' = lgShown /\ lgCut' = lgCut /\ lgTwice' = lgTwice
      /\ lgAt' = [lgAt EXCEPT ![t] = <<>>] /\ lgFilters' = lgFilters
  BY DEF Accept, lgGui, lgList
<1> HIDE DEF e
<1>4. /\ lgAll' \in Seq(LogEntry) /\ Len(lgAll') = m + 1 /\ lgAll'[m + 1] = e
      /\ \A k \in 1..m : lgAll'[k] = lgAll[k]
      /\ lgPending' \in Seq(LogEntry) /\ Len(lgPending') = p + 1 /\ lgPending'[p + 1] = e
      /\ \A k \in 1..p : lgPending'[k] = lgPending[k]
  BY <1>1, <1>2, <1>3, AppendProperties
<1>5. Taken1' = Taken1 /\ Taken1 = m - p
  BY <1>1, <1>4 DEF Taken1
<1>6. e \notin Elements(lgFile) /\ Distinct(lgFile) /\ \A k \in 1..Len(lgFile) : lgFile[k].n <= m
  <2>1. Distinct(lgFile) /\ \A k \in 1..Len(lgFile) : lgFile[k].n <= m
    BY <1>0, Zenon DEF LeOrder
  <2>2. \A k \in 1..Len(lgFile) : lgFile[k] # e
    BY <1>1, <1>2, <2>1
  <2>3. DOMAIN lgFile = 1..Len(lgFile)
    BY <1>1
  <2>4. e \notin Elements(lgFile)
    BY <2>2, <2>3, Zenon DEF Elements
  <2> QED
    BY <2>1, <2>4, Zenon
<1>7. lgFile' \in Seq(LogEntry) /\ Distinct(lgFile') /\ \A k \in 1..Len(lgFile') : lgFile'[k].n <= m + 1
  <2>1. CASE lgFile' = lgFile
    <3>1. \A k \in 1..Len(lgFile) : lgFile[k].n <= m + 1
      <4>1. \A k \in 1..Len(lgFile) : lgFile[k].n \in Nat
        <5> TAKE k \in 1..Len(lgFile)
        <5>1. lgFile \in Seq(LogEntry)
          BY <1>1, Zenon
        <5>2. lgFile[k] \in LogEntry
          BY <5>1
        <5> QED
          BY <5>2 DEF LogEntry
      <4> QED
        BY <1>1, <1>6, <4>1
    <3> QED
      BY <1>1, <1>6, <2>1, <3>1, Zenon
  <2>2. CASE lgFile' = Append(lgFile, e)
    <3>1. Distinct(Append(lgFile, e))
      BY <1>1, <1>2, <1>6, DistinctAppend, Zenon
    <3>2. /\ Append(lgFile, e) \in Seq(LogEntry) /\ Len(Append(lgFile, e)) = Len(lgFile) + 1
          /\ Append(lgFile, e)[Len(lgFile) + 1] = e
          /\ \A k \in 1..Len(lgFile) : Append(lgFile, e)[k] = lgFile[k]
      BY <1>1, <1>2, AppendProperties
    <3>3. \A k \in 1..(Len(lgFile) + 1) : Append(lgFile, e)[k].n <= m + 1
      <4> TAKE k \in 1..(Len(lgFile) + 1)
      <4>1. CASE k = Len(lgFile) + 1
        BY <1>1, <1>2, <3>2, <4>1
      <4>2. CASE k # Len(lgFile) + 1
        <5>1. k \in 1..Len(lgFile)
          BY <1>1, <4>2
        <5>2. Append(lgFile, e)[k].n = lgFile[k].n /\ lgFile[k].n <= m /\ lgFile[k] \in LogEntry
          BY <1>1, <1>6, <3>2, <5>1
        <5> QED
          BY <1>1, <5>2 DEF LogEntry
      <4> QED
        BY <4>1, <4>2
    <3> QED
      BY <2>2, <3>1, <3>2, <3>3, Zenon
  <2> QED
    BY <1>3, <2>1, <2>2, Zenon
<1>8. LeTyped'
  <2>1. lgAt' \in [LogThreads -> InsideLog]
    BY <1>0, <1>3 DEF LeTyped, InsideLog
  <2>2. lgFilters' \subseteq Texts
    BY <1>0, <1>3 DEF LeTyped
  <2> QED
    BY <1>1, <1>3, <1>4, <1>7, <2>1, <2>2, Zenon DEF LeTyped, InsideLog, Message, LogEntry, ShownEntry
<1>9. LeOrder'
  <2>1. \A k \in 1..(m + 1) : lgAll'[k].n = k
    <3> TAKE k \in 1..(m + 1)
    <3>1. k = m + 1 \/ k \in 1..m
      BY <1>1
    <3> QED
      BY <1>0, <1>2, <1>4, <3>1, Zenon DEF LeOrder
  <2>2. p <= m /\ p + 1 <= m + 1
    BY <1>0, <1>1 DEF LeOrder
  <2>3. \A k \in 1..(p + 1) : lgPending'[k] = lgAll'[Taken1 + k]
    <3> TAKE k \in 1..(p + 1)
    <3>1. CASE k = p + 1
      <4>1. Taken1 + k = m + 1
        BY <1>1, <1>5, <3>1
      <4> QED
        BY <1>4, <3>1, <4>1
    <3>2. CASE k # p + 1
      <4>1. k \in 1..p /\ Taken1 + k \in 1..m
        BY <1>1, <1>5, <2>2, <3>2
      <4> QED
        BY <1>0, <1>4, <4>1, Zenon DEF LeOrder
    <3> QED
      BY <3>1, <3>2
  <2> QED
    BY <1>4, <1>5, <1>7, <2>1, <2>2, <2>3, Zenon DEF LeOrder, Distinct
<1>10. LeTimed'
  <2>1. lgCut <= Taken1 /\ Len(Within(lgShown, ShownByTimer)) = Taken1 - lgCut
        /\ \A k \in 1..(Taken1 - lgCut) : Within(lgShown, ShownByTimer)[k].entry = lgAll[lgCut + k]
    BY <1>0, Zenon DEF LeTimed
  <2>2. \A k \in 1..(Taken1 - lgCut) : lgAll'[lgCut + k] = lgAll[lgCut + k]
    <3> TAKE k \in 1..(Taken1 - lgCut)
    <3>1. lgCut + k \in 1..m
      BY <1>1, <1>5, <2>1
    <3> QED
      BY <1>4, <3>1
  <2>3. ShownByTimer' = ShownByTimer
    BY Zenon DEF ShownByTimer, ShownEntry, LogEntry
  <2> QED
    BY <1>3, <1>5, <2>1, <2>2, <2>3, Zenon DEF LeTimed
<1>11. LeOnce'
  <2>1. /\ ShownOnce
        /\ \A j \in 1..Len(lgShown), k \in 1..p : lgShown[j].entry = lgPending[k] => lgShown[j].entry \in lgTwice
        /\ \A j \in 1..Len(lgShown) : lgShown[j].entry.n <= m
    BY <1>0, Zenon DEF LeOnce
  <2>2. \A j \in 1..Len(lgShown) : lgShown[j].entry # e /\ lgShown[j].entry.n <= m + 1
    <3> TAKE j \in 1..Len(lgShown)
    <3>0. lgShown \in Seq(ShownEntry)
      BY <1>1, Zenon
    <3>1. lgShown[j].entry.n <= m /\ lgShown[j].entry \in LogEntry
      <4>1. lgShown[j] \in ShownEntry
        BY <3>0
      <4>2. lgShown[j].entry \in LogEntry
        BY <4>1 DEF ShownEntry
      <4> QED
        BY <2>1, <4>2, Zenon
    <3>2. lgShown[j].entry.n \in Nat
      BY <3>1 DEF LogEntry
    <3> QED
      BY <1>1, <1>2, <3>1, <3>2
  <2>3. \A j \in 1..Len(lgShown), k \in 1..(p + 1) : lgShown[j].entry = lgPending'[k] => lgShown[j].entry \in lgTwice
    <3> TAKE j \in 1..Len(lgShown), k \in 1..(p + 1)
    <3>1. k = p + 1 \/ k \in 1..p
      BY <1>1
    <3> QED
      BY <1>4, <2>1, <2>2, <3>1, Zenon
  <2> QED
    BY <1>3, <1>4, <2>1, <2>2, <2>3, Zenon DEF LeOnce, ShownOnce
<1> QED
  BY <1>8, <1>9, <1>10, <1>11 DEF LeInv

(* What the timer or a search puts into the list. *)
LEMMA Shows ==
  ASSUME NEW s \in Seq(LogEntry), NEW by \in {"timer", "search"}
  PROVE  /\ Show(s, by) \in Seq(ShownEntry) /\ Len(Show(s, by)) = Len(s)
         /\ \A k \in 1..Len(s) : Show(s, by)[k].entry = s[k] /\ Show(s, by)[k].by = by
         /\ by = "timer" => Within(Show(s, by), ShownByTimer) = Show(s, by)
         /\ by # "timer" => Within(Show(s, by), ShownByTimer) = <<>>
<1> DEFINE f == Show(s, by)
<1>1. /\ f \in Seq(ShownEntry) /\ Len(f) = Len(s)
      /\ \A k \in 1..Len(s) : f[k] = [entry |-> s[k], by |-> by] /\ f[k] \in ShownEntry
  <2>1. Len(s) \in Nat /\ \A k \in 1..Len(s) : s[k] \in LogEntry
    OBVIOUS
  <2>2. \A k \in 1..Len(s) : [entry |-> s[k], by |-> by] \in ShownEntry
    BY <2>1 DEF ShownEntry
  <2>3. f = [k \in 1..Len(s) |-> [entry |-> s[k], by |-> by]]
    BY Zenon DEF Show
  <2> HIDE DEF f
  <2>4. \A k \in 1..Len(s) : f[k] = [entry |-> s[k], by |-> by] /\ f[k] \in ShownEntry
    BY <2>2, <2>3
  <2>5. f \in [1..Len(s) -> ShownEntry]
    BY <2>2, <2>3
  <2>6. f \in Seq(ShownEntry) /\ Len(f) = Len(s)
    BY <2>1, <2>5
  <2> QED
    BY <2>4, <2>6, Zenon
<1> HIDE DEF f
<1>2. \A k \in 1..Len(s) : f[k].entry = s[k] /\ f[k].by = by
  <2> TAKE k \in 1..Len(s)
  <2>1. f[k] = [entry |-> s[k], by |-> by]
    BY <1>1, Zenon
  <2>2. [entry |-> s[k], by |-> by].entry = s[k] /\ [entry |-> s[k], by |-> by].by = by
    BY Zenon
  <2> QED
    BY <2>1, <2>2, Zenon
<1>3. by = "timer" => Within(f, ShownByTimer) = f
  <2> SUFFICES ASSUME by = "timer" PROVE Within(f, ShownByTimer) = f
    OBVIOUS
  <2>1. Within(f, ShownByTimer) = Within(f, ShownEntry)
    <3>1. \A k \in 1..Len(f) : f[k] \in ShownByTimer <=> f[k] \in ShownEntry
      BY <1>1, <1>2, Zenon DEF ShownByTimer
    <3> QED
      BY <1>1, <3>1, WithinAgree, Zenon
  <2>2. Within(f, ShownEntry) = f
    <3>1. ShownEntry \subseteq ShownEntry
      OBVIOUS
    <3> QED
      BY <1>1, <3>1, WithinAll, Zenon
  <2> QED
    BY <2>1, <2>2, Zenon
<1>4. by # "timer" => Within(f, ShownByTimer) = <<>>
  <2> SUFFICES ASSUME by # "timer" PROVE Within(f, ShownByTimer) = <<>>
    OBVIOUS
  <2>1. Within(f, ShownByTimer) = Within(f, {})
    <3>1. \A k \in 1..Len(f) : f[k] \in ShownByTimer <=> f[k] \in {}
      BY <1>1, <1>2, Zenon DEF ShownByTimer
    <3> QED
      BY <1>1, <3>1, WithinAgree, Zenon
  <2>2. Within(f, {}) \in Seq(ShownEntry \cap {})
    BY <1>1, WithinTyped, Zenon
  <2>3. Within(f, {}) = <<>>
    <3>1. ShownEntry \cap {} = {}
      OBVIOUS
    <3> DEFINE w == Within(f, {})
    <3>2. w \in Seq({})
      BY <2>2, <3>1, Zenon
    <3> HIDE DEF w
    <3>3. w = <<>>
      BY <3>2
    <3> QED
      BY <3>3 DEF w
  <2> QED
    BY <2>1, <2>3, Zenon
<1> QED
  BY <1>1, <1>2, <1>3, <1>4, Zenon DEF f

(* The timer takes what is pending. *)
LEMMA LeTicks ==
  ASSUME LeInv, Tick
  PROVE  LeInv'
<1> DEFINE m == Len(lgAll)
           p == Len(lgPending)
           new == Show(lgPending, "timer")
           l == Len(lgShown)
           w == Within(lgShown, ShownByTimer)
<1>0. LeTyped /\ LeOrder /\ LeTimed /\ LeOnce
  BY DEF LeInv
<1>1. /\ lgAll \in Seq(LogEntry) /\ lgPending \in Seq(LogEntry) /\ lgFile \in Seq(LogEntry)
      /\ lgShown \in Seq(ShownEntry) /\ lgCut \in Nat /\ m \in Nat /\ p \in Nat /\ l \in Nat
  BY <1>0 DEF LeTyped
<1>2. /\ new \in Seq(ShownEntry) /\ Len(new) = p
      /\ \A k \in 1..p : new[k].entry = lgPending[k] /\ new[k].by = "timer"
      /\ Within(new, ShownByTimer) = new
  BY <1>1, Shows, Zenon
<1>3. /\ lgShown' = lgShown \o new /\ lgPending' = <<>>
      /\ lgAll' = lgAll /\ lgFile' = lgFile /\ lgCut' = lgCut /\ lgTwice' = lgTwice
      /\ lgAt' = lgAt /\ lgFilters' = lgFilters
  BY DEF Tick, PendingTaken, lgGui
<1> HIDE DEF new
<1>4. /\ lgShown' \in Seq(ShownEntry) /\ Len(lgShown') = l + p
      /\ \A k \in 1..(l + p) : lgShown'[k] = IF k <= l THEN lgShown[k] ELSE new[k - l]
  <2>1. lgShown \in Seq(ShownEntry) /\ new \in Seq(ShownEntry) /\ Len(new) = p
    BY <1>1, <1>2
  <2>2. /\ lgShown \o new \in Seq(ShownEntry) /\ Len(lgShown \o new) = Len(lgShown) + Len(new)
        /\ \A k \in 1..(Len(lgShown) + Len(new)) :
             (lgShown \o new)[k] = IF k <= Len(lgShown) THEN lgShown[k] ELSE new[k - Len(lgShown)]
    BY <2>1, ConcatProperties, Zenon
  <2> QED
    BY <1>3, <2>1, <2>2, Zenon
<1>5. Taken1' = m /\ Taken1 = m - p
  BY <1>1, <1>3 DEF Taken1
<1>6. LeTyped'
  <2>1. <<>> \in Seq(LogEntry)
    OBVIOUS
  <2> QED
    BY <1>0, <1>1, <1>3, <1>4, <2>1, Zenon DEF LeTyped, InsideLog, Message, LogEntry, ShownEntry
<1>7. LeOrder'
  <2>1. Len(<<>>) = 0 /\ 0 <= m /\ \A k \in 1..0 : FALSE
    BY <1>1
  <2> QED
    BY <1>0, <1>3, <2>1, Zenon DEF LeOrder, Distinct
<1>8. LeTimed'
  <2>1. lgCut <= Taken1 /\ Len(w) = Taken1 - lgCut /\ \A k \in 1..(Taken1 - lgCut) : w[k].entry = lgAll[lgCut + k]
    BY <1>0, Zenon DEF LeTimed
  <2>2. p <= m /\ \A k \in 1..p : lgPending[k] = lgAll[Taken1 + k]
    BY <1>0, Zenon DEF LeOrder
  <2>3. ShownByTimer' = ShownByTimer
    BY Zenon DEF ShownByTimer, ShownEntry, LogEntry
  <2>4. Within(lgShown', ShownByTimer) = w \o new
    <3>0. lgShown \in Seq(ShownEntry) /\ new \in Seq(ShownEntry)
      BY <1>1, <1>2
    <3>1. Within(lgShown \o new, ShownByTimer) = Within(lgShown, ShownByTimer) \o Within(new, ShownByTimer)
      BY <3>0, WithinConcat
    <3> QED
      BY <1>2, <1>3, <3>1, Zenon
  <2>5. w \in Seq(ShownEntry)
    <3>1. w \in Seq(ShownEntry \cap ShownByTimer)
      BY <1>1, WithinTyped, Zenon
    <3>2. ShownEntry \cap ShownByTimer \subseteq ShownEntry
      OBVIOUS
    <3> HIDE DEF w
    <3> QED
      BY <3>1, <3>2
  <2> HIDE DEF w
  <2> DEFINE v == w \o new
  <2>6. /\ Len(v) = Len(w) + p
        /\ \A k \in 1..(Len(w) + p) : v[k] = IF k <= Len(w) THEN w[k] ELSE new[k - Len(w)]
    <3>1. /\ Len(v) = Len(w) + Len(new)
          /\ \A k \in 1..(Len(w) + Len(new)) : v[k] = IF k <= Len(w) THEN w[k] ELSE new[k - Len(w)]
      <4>1. w \in Seq(ShownEntry) /\ new \in Seq(ShownEntry)
        BY <1>2, <2>5
      <4> QED
        BY <4>1, ConcatProperties, Zenon
    <3> QED
      BY <1>2, <3>1, Zenon
  <2> HIDE DEF v
  <2>7. Len(w) \in Nat /\ Len(v) = m - lgCut /\ lgCut <= m
    BY <1>1, <1>5, <2>1, <2>2, <2>5, <2>6
  <2>8. \A k \in 1..(m - lgCut) : v[k].entry = lgAll[lgCut + k]
    <3> TAKE k \in 1..(m - lgCut)
    <3>0. k \in 1..(Len(w) + p)
      BY <1>1, <2>6, <2>7
    <3>1. CASE k <= Len(w)
      <4>1. k \in 1..(Taken1 - lgCut)
        BY <1>1, <1>5, <2>1, <3>1
      <4>2. v[k] = w[k]
        BY <2>6, <3>0, <3>1
      <4> QED
        BY <2>1, <4>1, <4>2, Zenon
    <3>2. CASE ~(k <= Len(w))
      <4>1. k - Len(w) \in 1..p /\ Taken1 + (k - Len(w)) = lgCut + k
        BY <1>1, <1>5, <2>1, <2>2, <2>7, <3>0, <3>2
      <4>2. v[k] = new[k - Len(w)]
        BY <2>6, <3>0, <3>2
      <4>3. new[k - Len(w)].entry = lgPending[k - Len(w)] /\ lgPending[k - Len(w)] = lgAll[Taken1 + (k - Len(w))]
        BY <1>2, <2>2, <4>1, Zenon
      <4> QED
        BY <4>1, <4>2, <4>3, Zenon
    <3> QED
      BY <3>1, <3>2
  <2>9. Within(lgShown', ShownByTimer) = v
    BY <2>4, Zenon DEF v
  <2> QED
    BY <1>3, <1>5, <2>3, <2>7, <2>8, <2>9, Zenon DEF LeTimed
<1>9. LeOnce'
  <2>1. /\ \A j, k \in 1..l : j # k /\ lgShown[j].entry = lgShown[k].entry => lgShown[j].entry \in lgTwice
        /\ \A j \in 1..l, k \in 1..p : lgShown[j].entry = lgPending[k] => lgShown[j].entry \in lgTwice
        /\ \A j \in 1..l : lgShown[j].entry.n <= m
    BY <1>0, Zenon DEF LeOnce, ShownOnce
  <2>2. p <= m /\ (\A k \in 1..p : lgPending[k] = lgAll[Taken1 + k]) /\ \A k \in 1..m : lgAll[k].n = k
    BY <1>0, Zenon DEF LeOrder
  <2>3. \A k \in 1..p : lgPending[k].n = Taken1 + k /\ lgPending[k].n <= m
    <3> TAKE k \in 1..p
    <3>1. Taken1 + k \in 1..m /\ Taken1 + k <= m
      BY <1>1, <1>5, <2>2
    <3> QED
      BY <2>2, <3>1, Zenon
  <2>4. \A k \in 1..(l + p) :
           \/ k \in 1..l /\ lgShown'[k].entry = lgShown[k].entry
           \/ k - l \in 1..p /\ lgShown'[k].entry = lgPending[k - l]
    <3> TAKE k \in 1..(l + p)
    <3>1. CASE k <= l
      <4>1. k \in 1..l
        BY <1>1, <3>1
      <4> QED
        BY <1>4, <3>1, <4>1
    <3>2. CASE ~(k <= l)
      <4>1. k - l \in 1..p
        BY <1>1, <3>2
      <4>2. lgShown'[k] = new[k - l]
        BY <1>4, <3>2
      <4> QED
        BY <1>2, <4>1, <4>2, Zenon
    <3> QED
      BY <3>1, <3>2
  <2>5. \A j, k \in 1..(l + p) : j # k /\ lgShown'[j].entry = lgShown'[k].entry => lgShown'[j].entry \in lgTwice
    <3> TAKE j, k \in 1..(l + p)
    <3> SUFFICES ASSUME j # k, lgShown'[j].entry = lgShown'[k].entry PROVE lgShown'[j].entry \in lgTwice
      OBVIOUS
    <3>1. CASE j - l \in 1..p /\ lgShown'[j].entry = lgPending[j - l] /\ k - l \in 1..p /\ lgShown'[k].entry = lgPending[k - l]
      <4>1. lgPending[j - l].n = Taken1 + (j - l) /\ lgPending[k - l].n = Taken1 + (k - l)
        BY <2>3, <3>1, Zenon
      <4>2. lgPending[j - l].n = lgPending[k - l].n
        BY <3>1
      <4>3. Taken1 + (j - l) = Taken1 + (k - l)
        BY <4>1, <4>2, Zenon
      <4> QED
        BY <1>1, <1>5, <4>3
    <3> QED
      BY <2>1, <2>4, <3>1, Zenon
  <2>6. \A j \in 1..(l + p) : lgShown'[j].entry.n <= m
    BY <2>1, <2>3, <2>4, Zenon
  <2>7. \A k \in 1..Len(<<>>) : FALSE
    OBVIOUS
  <2> QED
    BY <1>3, <1>4, <2>5, <2>6, <2>7, Zenon DEF LeOnce, ShownOnce
<1> QED
  BY <1>6, <1>7, <1>8, <1>9 DEF LeInv

(* The list is emptied, and may then show what is in the file. *)
LEMMA LeClears ==
  ASSUME LeInv, Cleared, NEW s \in Seq(LogEntry), Distinct(s), \A k \in 1..Len(s) : s[k].n <= Len(lgAll),
         lgShown' = Show(s, "search"), \A k \in 1..Len(s) : s[k] \in Elements(lgPending) => s[k] \in lgTwice',
         UNCHANGED <<lgFilters, lgAt, lgKept>>
  PROVE  LeInv'
<1> DEFINE m == Len(lgAll)
           p == Len(lgPending)
<1>0. LeTyped /\ LeOrder /\ LeTimed /\ LeOnce
  BY DEF LeInv
<1>1. lgAll \in Seq(LogEntry) /\ lgPending \in Seq(LogEntry) /\ lgCut \in Nat /\ m \in Nat /\ p \in Nat /\ Len(s) \in Nat
  BY <1>0 DEF LeTyped
<1>2. /\ lgAll' = lgAll /\ lgPending' = lgPending /\ lgFile' = lgFile /\ lgAt' = lgAt /\ lgFilters' = lgFilters
      /\ lgCut' = m - p
  BY DEF lgKept, Cleared
<1>3. /\ lgShown' \in Seq(ShownEntry) /\ Len(lgShown') = Len(s)
      /\ \A k \in 1..Len(s) : lgShown'[k].entry = s[k]
      /\ Within(lgShown', ShownByTimer) = <<>>
  <2>1. "search" \in {"timer", "search"} /\ "search" # "timer"
    OBVIOUS
  <2> DEFINE f == Show(s, "search")
  <2>2. /\ f \in Seq(ShownEntry) /\ Len(f) = Len(s)
        /\ \A k \in 1..Len(s) : f[k].entry = s[k]
        /\ Within(f, ShownByTimer) = <<>>
    BY <2>1, Shows, Zenon
  <2> QED
    BY <2>2, Zenon
<1>4. Taken1' = Taken1 /\ Taken1 = m - p /\ p <= m
  BY <1>0, <1>1, <1>2 DEF Taken1, LeOrder
<1>5. LeTyped'
  <2>1. m - p \in Nat
    BY <1>1, <1>4
  <2> QED
    BY <1>0, <1>2, <1>3, <2>1, Zenon DEF LeTyped, InsideLog, Message, LogEntry, ShownEntry
<1>6. LeOrder'
  BY <1>0, <1>2, <1>4, Zenon DEF LeOrder, Distinct
<1>7. LeTimed'
  <2>1. m - p <= m - p /\ (m - p) - (m - p) = 0 /\ Len(<<>>) = 0 /\ \A k \in 1..0 : FALSE
    BY <1>1
  <2>2. ShownByTimer' = ShownByTimer
    BY Zenon DEF ShownByTimer, ShownEntry, LogEntry
  <2> QED
    BY <1>2, <1>3, <1>4, <2>1, <2>2, Zenon DEF LeTimed
<1>8. LeOnce'
  <2>0. DOMAIN s = 1..Len(s) /\ DOMAIN lgPending = 1..p
    BY <1>1
  <2>1. \A j, k \in 1..Len(s) : j # k /\ lgShown'[j].entry = lgShown'[k].entry => lgShown'[j].entry \in lgTwice'
    BY <1>3, <2>0, Zenon DEF Distinct
  <2>2. \A j \in 1..Len(s), k \in 1..p : lgShown'[j].entry = lgPending[k] => lgShown'[j].entry \in lgTwice'
    BY <1>3, <2>0, Zenon DEF Elements
  <2>3. \A j \in 1..Len(s) : lgShown'[j].entry.n <= m
    BY <1>3, Zenon
  <2> QED
    BY <1>2, <1>3, <2>1, <2>2, <2>3, Zenon DEF LeOnce, ShownOnce
<1> QED
  BY <1>5, <1>6, <1>7, <1>8 DEF LeInv

LEMMA LeSearches ==
  ASSUME LeInv, SearchInLogFile
  PROVE  LeInv'
<1>0. LeTyped /\ LeOrder
  BY DEF LeInv
<1>1. PICK S : lgShown' = Show(Within(lgFile, S), "search")
  BY Zenon DEF SearchInLogFile
<1>2. Cleared /\ lgTwice' = Elements(lgPending) /\ UNCHANGED <<lgFilters, lgAt, lgKept>>
  BY DEF SearchInLogFile
<1> DEFINE s == Within(lgFile, S)
<1>3. lgFile \in Seq(LogEntry) /\ Distinct(lgFile) /\ \A k \in 1..Len(lgFile) : lgFile[k].n <= Len(lgAll)
  BY <1>0, Zenon DEF LeTyped, LeOrder
<1>4. s \in Seq(LogEntry)
  <2>1. s \in Seq(LogEntry \cap S)
    BY <1>3, WithinTyped, Zenon
  <2> HIDE DEF s
  <2>2. LogEntry \cap S \subseteq LogEntry
    OBVIOUS
  <2> QED
    BY <2>1, <2>2
<1>5. Distinct(s)
  BY <1>3, WithinDistinct, Zenon
<1>6. Elements(s) \subseteq Elements(lgFile)
  <2>1. Elements(s) = Elements(lgFile) \cap S
    BY <1>3, WithinElements, Zenon
  <2> QED
    BY <2>1, Zenon
<1> HIDE DEF s
<1>7. \A k \in 1..Len(s) : s[k].n <= Len(lgAll)
  <2> TAKE k \in 1..Len(s)
  <2>1. DOMAIN s = 1..Len(s) /\ DOMAIN lgFile = 1..Len(lgFile)
    BY <1>3, <1>4
  <2>2. s[k] \in Elements(s)
    BY <2>1, Zenon DEF Elements
  <2>3. s[k] \in Elements(lgFile)
    BY <1>6, <2>2
  <2> QED
    BY <1>3, <2>1, <2>3, Zenon DEF Elements
<1> QED
  BY <1>1, <1>2, <1>4, <1>5, <1>7, LeClears, Zenon DEF s

LEMMA LePresses ==
  ASSUME LeInv, PressClear
  PROVE  LeInv'
<1>1. Cleared /\ lgShown' = <<>> /\ UNCHANGED <<lgFilters, lgAt, lgKept>>
  BY DEF PressClear
<1> DEFINE s == <<>>
<1>2. s \in Seq(LogEntry) /\ Distinct(s) /\ \A k \in 1..Len(s) : FALSE
  BY DEF Distinct
<1>3. Show(s, "search") = s
  BY DEF Show
<1> HIDE DEF s
<1>4. lgShown' = Show(s, "search")
  BY <1>1, <1>3, Zenon DEF s
<1> QED
  BY <1>1, <1>2, <1>4, LeClears, Zenon

LEMMA LeKeeps == LeInv /\ [LogNext]_lgVars => LeInv'
<1> SUFFICES ASSUME LeInv, [LogNext]_lgVars PROVE LeInv'
  OBVIOUS
<1>0. lgAt \in [LogThreads -> InsideLog] /\ lgFilters \subseteq Texts
  BY DEF LeInv, LeTyped
<1>1. CASE UNCHANGED lgVars
  <2>1. UNCHANGED <<lgKept, lgList>> /\ lgAt' = lgAt /\ lgFilters' = lgFilters
    BY <1>1 DEF lgVars, lgGui
  <2>2. lgAt' \in [LogThreads -> InsideLog] /\ lgFilters' \subseteq Texts
    BY <1>0, <2>1, Zenon
  <2> QED
    BY <2>1, <2>2, LeFrame, Zenon
<1>2. ASSUME NEW t \in LogThreads, LogBegins(t) PROVE LeInv'
  <2>1. PICK q \in Message : lgAt' = [lgAt EXCEPT ![t] = [msg |-> q, walks |-> lgFilters, freed |-> FALSE]]
    BY <1>2 DEF LogBegins
  <2>2. UNCHANGED <<lgKept, lgList>> /\ lgFilters' = lgFilters
    BY <1>2 DEF LogBegins, lgGui
  <2>3. [msg |-> q, walks |-> lgFilters, freed |-> FALSE] \in InsideLog
    BY <1>0 DEF InsideLog
  <2>4. lgAt' \in [LogThreads -> InsideLog]
    BY <1>0, <2>1, <2>3
  <2> QED
    BY <1>0, <2>2, <2>4, LeFrame
<1>3. ASSUME NEW t \in LogThreads, FilteredOut(t) PROVE LeInv'
  <2>1. UNCHANGED <<lgKept, lgList>> /\ lgFilters' = lgFilters /\ lgAt' = [lgAt EXCEPT ![t] = <<>>]
    BY <1>3 DEF FilteredOut, lgGui
  <2>2. lgAt' \in [LogThreads -> InsideLog]
    BY <1>0, <2>1 DEF InsideLog
  <2> QED
    BY <1>0, <2>1, <2>2, LeFrame
<1>4. ASSUME NEW t \in LogThreads, Accept(t) PROVE LeInv'
  BY <1>4, LeAccepts
<1>5. CASE MakePanel
  <2>1. UNCHANGED <<lgKept, lgList>> /\ lgAt' = lgAt /\ lgFilters' = lgFilters
    BY <1>5 DEF MakePanel
  <2> QED
    BY <1>0, <2>1, LeFrame
<1>6. CASE Tick
  BY <1>6, LeTicks
<1>7. CASE SetDefaultLogLevel
  <2>1. UNCHANGED <<lgKept, lgList>> /\ lgAt' = lgAt /\ lgFilters' = lgFilters
    BY <1>7 DEF SetDefaultLogLevel
  <2> QED
    BY <1>0, <2>1, LeFrame
<1>8. CASE SetLogFilters
  <2>1. UNCHANGED <<lgKept, lgList>> /\ lgFilters' \subseteq Texts
    BY <1>8 DEF SetLogFilters
  <2>2. \A t \in LogThreads : lgAt'[t] \in InsideLog
    <3> TAKE t \in LogThreads
    <3>1. lgAt'[t] = IF lgAt[t] # <<>> /\ lgAt[t].walks # {} THEN [lgAt[t] EXCEPT !.freed = TRUE] ELSE lgAt[t]
      BY <1>8 DEF SetLogFilters
    <3>2. lgAt[t] \in InsideLog
      BY <1>0
    <3>3. CASE lgAt[t] # <<>> /\ lgAt[t].walks # {}
      BY <3>1, <3>2, <3>3 DEF InsideLog
    <3>4. CASE ~(lgAt[t] # <<>> /\ lgAt[t].walks # {})
      BY <3>1, <3>2, <3>4, Zenon
    <3> QED
      BY <3>3, <3>4
  <2>3. lgAt' \in [LogThreads -> InsideLog]
    <3>1. lgAt' = [t \in LogThreads |-> IF lgAt[t] # <<>> /\ lgAt[t].walks # {}
                                          THEN [lgAt[t] EXCEPT !.freed = TRUE] ELSE lgAt[t]]
      BY <1>8, Zenon DEF SetLogFilters
    <3> DEFINE f == [t \in LogThreads |-> IF lgAt[t] # <<>> /\ lgAt[t].walks # {}
                                          THEN [lgAt[t] EXCEPT !.freed = TRUE] ELSE lgAt[t]]
    <3>2. \A t \in LogThreads : f[t] \in InsideLog
      <4> HIDE DEF f
      <4> QED
        BY <2>2, <3>1, Zenon DEF f
    <3>3. f \in [LogThreads -> InsideLog]
      BY <3>2, Zenon
    <3> QED
      BY <3>1, <3>3, Zenon
  <2> QED
    BY <2>1, <2>3, LeFrame
<1>9. CASE SearchInLogFile
  BY <1>9, LeSearches
<1>10. CASE PressClear
  BY <1>10, LePresses
<1> QED
  BY <1>1, <1>2, <1>3, <1>4, <1>5, <1>6, <1>7, <1>8, <1>9, <1>10, Zenon DEF LogNext

LEMMA LeMeans == LeInv => LogSafe
<1> SUFFICES ASSUME LeInv PROVE LogSafe
  OBVIOUS
<1>0. LeTyped /\ LeOrder /\ LeTimed /\ LeOnce
  BY DEF LeInv
<1> DEFINE m == Len(lgAll)
           p == Len(lgPending)
           w == ByTimer
           f == [k \in 1..Len(w) |-> w[k].entry]
           g == SubSeq(lgAll, lgCut + 1, m)
<1>1. /\ lgAll \in Seq(LogEntry) /\ lgPending \in Seq(LogEntry) /\ lgCut \in Nat /\ m \in Nat /\ p \in Nat
      /\ lgShown \in Seq(ShownEntry)
  BY <1>0 DEF LeTyped
<1>2. w = Within(lgShown, ShownByTimer)
  <2>1. \A k \in 1..Len(lgShown) : lgShown[k] \in {s \in Elements(lgShown) : s.by = "timer"} <=> lgShown[k] \in ShownByTimer
    <3> TAKE k \in 1..Len(lgShown)
    <3>1. lgShown[k] \in ShownEntry /\ DOMAIN lgShown = 1..Len(lgShown)
      BY <1>1
    <3>2. lgShown[k] \in Elements(lgShown)
      BY <3>1, Zenon DEF Elements
    <3> QED
      BY <3>1, <3>2, Zenon DEF ShownByTimer
  <2> QED
    BY <1>1, <2>1, WithinAgree, Zenon DEF ByTimer
<1> HIDE DEF w
<1>3. /\ Taken1 = m - p /\ lgCut <= m - p /\ p <= m /\ Len(w) = (m - p) - lgCut
      /\ \A k \in 1..((m - p) - lgCut) : w[k].entry = lgAll[lgCut + k]
      /\ \A k \in 1..p : lgPending[k] = lgAll[(m - p) + k]
  BY <1>0, <1>2, Zenon DEF LeTimed, LeOrder, Taken1
<1>4. Len(w) \in Nat /\ \A k \in 1..m : lgAll[k] \in LogEntry
  BY <1>1, <1>3
<1>5. f \in Seq(LogEntry) /\ Len(f) = Len(w) /\ \A k \in 1..Len(w) : f[k] = lgAll[lgCut + k]
  <2>1. \A k \in 1..Len(w) : w[k].entry = lgAll[lgCut + k] /\ lgCut + k \in 1..m
    BY <1>1, <1>3
  <2>2. \A k \in 1..Len(w) : w[k].entry \in LogEntry
    BY <1>4, <2>1
  <2>3. f \in [1..Len(w) -> LogEntry]
    BY <2>2, Zenon
  <2>4. \A k \in 1..Len(w) : f[k] = lgAll[lgCut + k]
    BY <2>1, Zenon
  <2> HIDE DEF f
  <2>5. f \in Seq(LogEntry) /\ Len(f) = Len(w)
    BY <1>4, <2>3
  <2> QED
    BY <2>4, <2>5
<1>6. g \in Seq(LogEntry) /\ Len(g) = m - lgCut /\ \A k \in 1..(m - lgCut) : g[k] = lgAll[lgCut + k]
  <2>1. lgCut + 1 \in Int /\ m \in Int /\ \A k \in (lgCut + 1)..m : lgAll[k] \in LogEntry
    BY <1>1, <1>4
  <2>2. /\ g \in Seq(LogEntry) /\ Len(g) = (IF lgCut + 1 <= m THEN m - (lgCut + 1) + 1 ELSE 0)
        /\ \A k \in 1..(m - (lgCut + 1) + 1) : g[k] = lgAll[(lgCut + 1) + k - 1]
    BY <2>1, SubSeqProperties
  <2>3. \A k \in 1..(m - lgCut) : (lgCut + 1) + k - 1 = lgCut + k /\ k \in 1..(m - (lgCut + 1) + 1)
    BY <1>1
  <2>4. Len(g) = m - lgCut
    <3> HIDE DEF g
    <3> QED
      BY <1>1, <1>3, <2>2
  <2> HIDE DEF g
  <2> QED
    BY <2>2, <2>3, <2>4
<1> HIDE DEF f, g
<1> DEFINE h == f \o lgPending
<1>7. /\ h \in Seq(LogEntry) /\ Len(h) = Len(f) + p
      /\ \A k \in 1..(Len(f) + p) : h[k] = IF k <= Len(f) THEN f[k] ELSE lgPending[k - Len(f)]
  BY <1>1, <1>5, ConcatProperties, Zenon
<1> HIDE DEF h
<1>8. Len(h) = m - lgCut
  BY <1>1, <1>3, <1>5, <1>7
<1>9. \A k \in 1..(m - lgCut) : h[k] = lgAll[lgCut + k]
  <2> TAKE k \in 1..(m - lgCut)
  <2>0. k \in 1..(Len(f) + p)
    BY <1>7, <1>8
  <2>1. CASE k <= Len(f)
    <3>1. h[k] = f[k] /\ k \in 1..Len(w)
      BY <1>5, <1>7, <2>0, <2>1
    <3> QED
      BY <1>5, <3>1
  <2>2. CASE ~(k <= Len(f))
    <3>1. k - Len(f) \in 1..p /\ (m - p) + (k - Len(f)) = lgCut + k
      BY <1>1, <1>3, <1>4, <1>5, <2>0, <2>2
    <3>2. h[k] = lgPending[k - Len(f)]
      BY <1>7, <2>0, <2>2
    <3> QED
      BY <1>3, <3>1, <3>2, Zenon
  <2> QED
    BY <2>1, <2>2
<1>10. h = g
  <2>1. h \in Seq(LogEntry) /\ g \in Seq(LogEntry) /\ Len(h) = m - lgCut /\ Len(g) = m - lgCut
    BY <1>6, <1>7, <1>8
  <2>2. \A k \in 1..Len(h) : h[k] = g[k]
    BY <1>6, <1>8, <1>9
  <2> QED
    BY <2>1, <2>2, SeqEqual
<1>11. NoEntryLost
  BY <1>10, Zenon DEF NoEntryLost, h, f, g, w
<1> QED
  BY <1>0, <1>11 DEF LogSafe, LeOnce
-----------------------------------------------------------------------------
(* The second keyboard: the texts of its reports.                            *)

KeyTexts == {"shift"} \cup KeyNames
NotOne(t) == \A other \in Report : t # TextOf(other)

(* What is pressed when another report follows, in the advanced mode and in  *)
(* the other: its text is no report's any more.                              *)
Hot(t) == Len(t) >= 2 \/ (Len(t) = 1 /\ t[1] # "shift")
Dead(t) == Len(t) >= 3 \/ (Len(t) = 2 /\ t[1] # "shift")

(* The keyboard's next report: one key more or less, or all are released.    *)
Changes(h, r) == (r.mod # h.mod) # (r.key # h.key) \/ (r = Released /\ h # r)
FirstText(t, h) == t = TextOf(h) /\ (h.mod = NoKey \/ h.key = NoKey) /\ h # Released

LEMMA TwoTexts == ASSUME NEW x, NEW y PROVE <<x>> \o <<y>> = <<x, y>>
<1> DEFINE S == {x, y}
           a == <<x>>
           b == <<y>>
           c == <<x, y>>
<1>1. /\ a \in Seq(S) /\ Len(a) = 1 /\ a[1] = x
      /\ b \in Seq(S) /\ Len(b) = 1 /\ b[1] = y
      /\ c \in Seq(S) /\ Len(c) = 2 /\ c[1] = x /\ c[2] = y
  OBVIOUS
<1> HIDE DEF a, b, c, S
<1> DEFINE d == a \o b
<1>2. /\ d \in Seq(S) /\ Len(d) = Len(a) + Len(b)
      /\ \A k \in 1..(Len(a) + Len(b)) : d[k] = IF k <= Len(a) THEN a[k] ELSE b[k - Len(a)]
  <2>1. a \in Seq(S) /\ b \in Seq(S)
    BY <1>1
  <2> QED
    BY <2>1, ConcatProperties, Zenon
<1> HIDE DEF d
<1>3. Len(d) = 2 /\ d[1] = x /\ d[2] = y
  BY <1>1, <1>2
<1>4. \A k \in 1..Len(d) : d[k] = c[k]
  BY <1>1, <1>3
<1>5. d = c
  <2>1. d \in Seq(S) /\ c \in Seq(S) /\ Len(d) = Len(c)
    BY <1>1, <1>2, <1>3
  <2> QED
    BY <1>4, <2>1, SeqEqual
<1> QED
  BY <1>5 DEF a, b, c, d

LEMMA TextIs ==
  ASSUME NEW r \in Report
  PROVE  /\ TextOf(r) \in Seq(KeyTexts)
         /\ r.mod = NoKey /\ r.key = NoKey => TextOf(r) = <<>> /\ r = Released
         /\ r.mod # NoKey /\ r.key = NoKey => TextOf(r) = <<"shift">> /\ r # Released
         /\ r.mod = NoKey /\ r.key # NoKey => TextOf(r) = <<r.key>> /\ r # Released /\ r.key \in KeyNames
         /\ r.mod # NoKey /\ r.key # NoKey => TextOf(r) = <<"shift", r.key>> /\ r # Released /\ r.key \in KeyNames
<1>1. r.mod \in {NoKey, "shift"} /\ r.key \in {NoKey} \cup KeyNames /\ r = [mod |-> r.mod, key |-> r.key]
  BY DEF Report
<1>2. Released.mod = NoKey /\ Released.key = NoKey
  BY DEF Released
<1>3. r.mod = NoKey /\ r.key = NoKey => r = Released
  BY <1>1 DEF Released
<1>4. CASE r.mod = NoKey /\ r.key = NoKey
  <2>1. TextOf(r) = <<>>
    BY <1>4 DEF TextOf
  <2> QED
    BY <1>3, <1>4, <2>1
<1>5. CASE r.mod # NoKey /\ r.key = NoKey
  <2>1. TextOf(r) = <<"shift">>
    BY <1>1, <1>5 DEF TextOf
  <2>2. <<"shift">> \in Seq(KeyTexts)
    BY DEF KeyTexts
  <2> QED
    BY <1>2, <1>5, <2>1, <2>2
<1>6. CASE r.mod = NoKey /\ r.key # NoKey
  <2>1. TextOf(r) = <<r.key>>
    BY <1>1, <1>6 DEF TextOf
  <2>2. <<r.key>> \in Seq(KeyTexts) /\ r.key \in KeyNames
    BY <1>1, <1>6 DEF KeyTexts
  <2> QED
    BY <1>2, <1>6, <2>1, <2>2
<1>7. CASE r.mod # NoKey /\ r.key # NoKey
  <2>1. TextOf(r) = <<"shift", r.key>>
    <3>1. TextOf(r) = <<r.mod>> \o <<r.key>> /\ r.mod = "shift"
      BY <1>1, <1>7, Zenon DEF TextOf
    <3>2. <<"shift">> \o <<r.key>> = <<"shift", r.key>>
      BY TwoTexts
    <3> QED
      BY <3>1, <3>2, Zenon
  <2>2. <<"shift", r.key>> \in Seq(KeyTexts) /\ r.key \in KeyNames
    BY <1>1, <1>7 DEF KeyTexts
  <2> QED
    BY <1>2, <1>7, <2>1, <2>2
<1> QED
  BY <1>4, <1>5, <1>6, <1>7

LEMMA Small ==
  \A n \in Nat : /\ n >= 2 => n >= 3 \/ n = 2
                 /\ n >= 3 => n >= 2
                 /\ n = 2 => n >= 2 /\ ~(n >= 3)
                 /\ n < 2 => ~(n >= 3) /\ n # 2
                 /\ n = 1 \/ n = 2 => n >= 1
OBVIOUS

LEMMA NoReportsText ==
  ASSUME NEW t \in Seq(KeyTexts), Dead(t)
  PROVE  NotOne(t)
<1> SUFFICES ASSUME NEW o \in Report, t = TextOf(o) PROVE FALSE
  BY DEF NotOne
<1>1. \/ t = <<>> \/ t = <<"shift">> \/ t = <<o.key>> \/ t = <<"shift", o.key>>
  BY TextIs
<1>2. Len(t) < 2 \/ (Len(t) = 2 /\ t[1] = "shift")
  <2>1. Len(<<>>) < 2 /\ Len(<<"shift">>) < 2 /\ Len(<<o.key>>) < 2
        /\ Len(<<"shift", o.key>>) = 2 /\ <<"shift", o.key>>[1] = "shift"
    OBVIOUS
  <2> QED
    BY <1>1, <2>1, Zenon
<1>3. Len(t) \in Nat
  OBVIOUS
<1>4. CASE Len(t) < 2
  <2>1. ~(Len(t) >= 3) /\ Len(t) # 2
    BY <1>3, <1>4, Small, Zenon
  <2> QED
    BY <2>1, Zenon DEF Dead
<1>5. CASE Len(t) = 2 /\ t[1] = "shift"
  <2>1. ~(Len(t) >= 3)
    BY <1>3, <1>5, Small, Zenon
  <2> QED
    BY <1>5, <2>1, Zenon DEF Dead
<1> QED
  BY <1>2, <1>4, <1>5

LEMMA Grows ==
  ASSUME NEW t \in Seq(KeyTexts), NEW r \in Report
  PROVE  /\ t \o TextOf(r) \in Seq(KeyTexts) /\ (Len(t) > 0 => (t \o TextOf(r))[1] = t[1])
         /\ Len(t \o TextOf(r)) = Len(t) + Len(TextOf(r))
         /\ t = <<>> => t \o TextOf(r) = TextOf(r)
<1>1. TextOf(r) \in Seq(KeyTexts)
  BY TextIs
<1> DEFINE u == TextOf(r)
<1> HIDE DEF u
<1>2. u \in Seq(KeyTexts)
  BY <1>1 DEF u
<1>3. /\ t \o u \in Seq(KeyTexts) /\ (Len(t) > 0 => (t \o u)[1] = t[1])
      /\ Len(t \o u) = Len(t) + Len(u) /\ (t = <<>> => t \o u = u)
  BY <1>2
<1> QED
  BY <1>3 DEF u

LEMMA HotStays ==
  ASSUME NEW t \in Seq(KeyTexts), NEW r \in Report, r.key # NoKey, Hot(t) \/ t = <<>>
  PROVE  Hot(t \o TextOf(r)) /\ (t # <<>> => NotOne(t \o TextOf(r)))
<1> DEFINE u == t \o TextOf(r)
<1>1. /\ u \in Seq(KeyTexts) /\ (Len(t) > 0 => u[1] = t[1])
      /\ Len(u) = Len(t) + Len(TextOf(r)) /\ (t = <<>> => u = TextOf(r))
  BY Grows
<1>2. TextOf(r) = <<r.key>> \/ TextOf(r) = <<"shift", r.key>>
  BY TextIs
<1>3. Len(TextOf(r)) >= 1 /\ Len(TextOf(r)) \in Nat /\ Len(t) \in Nat /\ r.key # "shift"
  <2>1. r.key \in KeyNames
    BY DEF Report
  <2>2. Len(<<r.key>>) = 1 /\ Len(<<"shift", r.key>>) = 2
    OBVIOUS
  <2>3. Len(TextOf(r)) = 1 \/ Len(TextOf(r)) = 2
    BY <1>2, <2>2, Zenon
  <2>4. Len(t) \in Nat /\ r.key # "shift"
    BY <2>1, KeyNamesAssumption
  <2>5. 1 \in Nat /\ 2 \in Nat
    OBVIOUS
  <2> QED
    BY <2>3, <2>4, <2>5, Small, Zenon
<1> HIDE DEF u
<1>4. CASE t = <<>>
  <2>1. Hot(<<r.key>>) /\ Hot(<<"shift", r.key>>)
    BY <1>3 DEF Hot
  <2> QED
    BY <1>1, <1>2, <1>4, <2>1 DEF u
<1>5. CASE t # <<>>
  <2>1. Len(t) >= 2 \/ (Len(t) = 1 /\ t[1] # "shift")
    BY <1>5 DEF Hot
  <2>2. Len(u) >= 3 \/ (Len(u) = 2 /\ u[1] # "shift")
    BY <1>1, <1>3, <2>1
  <2>3. Dead(u) /\ Hot(u)
    <3>1. Len(u) \in Nat
      BY <1>1
    <3> QED
      BY <2>2, <3>1, Small, Zenon DEF Dead, Hot
  <2> QED
    BY <1>1, <2>3, NoReportsText DEF u
<1> QED
  BY <1>4, <1>5

LEMMA DeadStays ==
  ASSUME NEW t \in Seq(KeyTexts), NEW h \in Report, NEW r \in Report,
         r # Released, Changes(h, r), FirstText(t, h) \/ Dead(t)
  PROVE  Dead(t \o TextOf(r)) /\ NotOne(t \o TextOf(r))
<1> DEFINE u == t \o TextOf(r)
<1>1. /\ u \in Seq(KeyTexts) /\ (Len(t) > 0 => u[1] = t[1])
      /\ Len(u) = Len(t) + Len(TextOf(r))
  BY Grows
<1>2. /\ TextOf(r) = <<"shift">> \/ TextOf(r) = <<r.key>> \/ TextOf(r) = <<"shift", r.key>>
      /\ r.mod # NoKey /\ r.key # NoKey => TextOf(r) = <<"shift", r.key>>
  BY TextIs
<1>3. Len(TextOf(r)) >= 1 /\ Len(TextOf(r)) \in Nat /\ Len(t) \in Nat
      /\ (r.mod # NoKey /\ r.key # NoKey => Len(TextOf(r)) = 2)
  <2>1. Len(<<"shift">>) = 1 /\ Len(<<r.key>>) = 1 /\ Len(<<"shift", r.key>>) = 2 /\ Len(t) \in Nat
    OBVIOUS
  <2>2. Len(TextOf(r)) = 1 \/ Len(TextOf(r)) = 2
    BY <1>2, <2>1, Zenon
  <2>3. r.mod # NoKey /\ r.key # NoKey => Len(TextOf(r)) = 2
    BY <1>2, <2>1, Zenon
  <2>4. 1 \in Nat /\ 2 \in Nat
    OBVIOUS
  <2> QED
    BY <2>1, <2>2, <2>3, <2>4, Small, Zenon
<1> HIDE DEF u
<1>4. CASE Dead(t)
  <2>1. Len(u) >= 3
    BY <1>1, <1>3, <1>4 DEF Dead
  <2>2. Dead(u)
    BY <2>1 DEF Dead
  <2> QED
    BY <1>1, <2>2, NoReportsText DEF u
<1>5. CASE FirstText(t, h)
  <2>1. /\ h.mod \in {NoKey, "shift"} /\ h.key \in {NoKey} \cup KeyNames
        /\ r.mod \in {NoKey, "shift"} /\ r.key \in {NoKey} \cup KeyNames /\ (r.mod # NoKey \/ r.key # NoKey)
    BY TextIs DEF Report
  <2>2. (r.mod # h.mod) # (r.key # h.key)
    BY <1>5 DEF Changes
  <2>3. CASE h.mod # NoKey
    <3>1. t = <<"shift">> /\ h.key = NoKey
      BY <1>5, <2>3, TextIs DEF FirstText
    <3>2. r.mod # NoKey /\ r.key # NoKey
      BY <2>1, <2>2, <2>3, <3>1
    <3>3. Len(t) = 1 /\ Len(u) = 3
      <4>1. Len(<<"shift">>) = 1
        OBVIOUS
      <4>2. Len(t) = 1 /\ Len(TextOf(r)) = 2 /\ Len(u) = Len(t) + Len(TextOf(r))
        BY <1>1, <1>3, <3>1, <3>2, <4>1, Zenon
      <4> QED
        BY <4>2
    <3>4. Dead(u)
      BY <3>3 DEF Dead
    <3> QED
      BY <1>1, <3>4, NoReportsText DEF u
  <2>4. CASE h.mod = NoKey
    <3>1. t = <<h.key>> /\ h.key \in KeyNames
      <4>1. h.key # NoKey
        BY <1>5, <2>4, TextIs DEF FirstText
      <4> QED
        BY <1>5, <2>4, <4>1, TextIs DEF FirstText
    <3>2. Len(t) = 1 /\ t[1] # "shift" /\ Len(u) >= 2
      <4>1. h.key # "shift"
        BY <3>1, KeyNamesAssumption
      <4> QED
        BY <1>1, <1>3, <3>1, <4>1
    <3>3. Len(u) \in Nat /\ u[1] # "shift"
      BY <1>1, <3>2
    <3>4. Dead(u)
      <4>1. Len(u) >= 3 \/ Len(u) = 2
        BY <3>2, <3>3, Small, Zenon
      <4> QED
        BY <3>3, <4>1, Zenon DEF Dead
    <3> QED
      BY <1>1, <3>4, NoReportsText DEF u
  <2> QED
    BY <2>3, <2>4
<1> QED
  BY <1>4, <1>5
-----------------------------------------------------------------------------
(* The reports on their way: those that came whole, as connections and as    *)
(* halves on the line, up to something that is sure to be refused.           *)

Half == [of : Report \cup {Short}, half : {1, 2}]
IsReport(data, r) == Valid(data) /\ data[1].of = r
Comes(line, j, r) ==
  /\ 2 * j <= Len(line)
  /\ line[2 * j - 1].of = r /\ line[2 * j - 1].half = 1
  /\ line[2 * j].of = r /\ line[2 * j].half = 2
BadHalf(x) == x.of = Short \/ x.half = 2

GoodsOf(line, conns, m, H) ==
  /\ H \in [0..m -> Report] /\ \A i \in 1..m : Changes(H[i - 1], H[i])
  /\ \A k \in 1..m : k <= Len(conns) => IsReport(conns[k], H[k])
  /\ \A k \in 1..m : k > Len(conns) => Comes(line, k - Len(conns), H[k])
EndsOf(line, conns, m, H, held) ==
  m >= Len(conns) /\ Len(line) = 2 * (m - Len(conns)) /\ H[m] = held
BadOf(line, conns, m) ==
  \/ m < Len(conns) /\ ~Valid(conns[m + 1])
  \/ m >= Len(conns) /\ Len(line) > 2 * (m - Len(conns)) /\ BadHalf(line[2 * (m - Len(conns)) + 1])

LEMMA ShortIsNone == Short \notin Report
BY DEF Short, Report, NoKey

LEMMA ValidIs ==
  ASSUME NEW data \in Seq(Half)
  PROVE  /\ Valid(data) => /\ Len(data) = 2 /\ data[1].of \in Report /\ data[1].half = 1
                           /\ data[2].of = data[1].of /\ data[2].half = 2
         /\ Len(data) = 2 /\ data[1].of \in Report /\ data[1].half = 1
              /\ data[2].of = data[1].of /\ data[2].half = 2 => Valid(data)
<1>0. 1 \in 1..2 /\ 2 \in 1..2 /\ \A k \in 1..2 : k = 1 \/ k = 2
  OBVIOUS
<1>1. ASSUME Valid(data)
      PROVE  /\ Len(data) = 2 /\ data[1].of \in Report /\ data[1].half = 1
             /\ data[2].of = data[1].of /\ data[2].half = 2
  <2>1. /\ Len(data) = 2 /\ data[1].half = 1 /\ data[2].of = data[1].of /\ data[2].half = 2
        /\ data[1].of # Short
    BY <1>0, <1>1, Zenon DEF Valid, RightLength, CrcOk
  <2>2. data[1] \in Half
    <3>1. 1 \in 1..Len(data)
      BY <2>1
    <3> QED
      BY <3>1, ElementOfSeq, Zenon
  <2>3. data[1].of \in Report \cup {Short}
    BY <2>2, Zenon DEF Half
  <2> QED
    BY <2>1, <2>3, Zenon
<1>2. ASSUME Len(data) = 2, data[1].of \in Report, data[1].half = 1, data[2].of = data[1].of, data[2].half = 2
      PROVE  Valid(data)
  BY <1>0, <1>2, ShortIsNone, Zenon DEF Valid, RightLength, CrcOk
<1> QED
  BY <1>1, <1>2, Zenon

LEMMA BadRead ==
  ASSUME NEW data \in Seq(Half), Len(data) > 0, BadHalf(data[1])
  PROVE  ~Valid(data)
<1> SUFFICES ASSUME Valid(data) PROVE FALSE
  OBVIOUS
<1>1. data[1].of \in Report /\ data[1].half = 1
  BY ValidIs
<1>2. data[1].of # Short
  BY <1>1, ShortIsNone, Zenon
<1> QED
  BY <1>1, <1>2 DEF BadHalf

(* A read takes the front of the line. *)
IsRead(line, n, data, rest) ==
  /\ data \in Seq(Half) /\ Len(data) = n /\ \A j \in 1..n : data[j] = line[j]
  /\ rest \in Seq(Half) /\ Len(rest) = Len(line) - n /\ \A j \in 1..(Len(line) - n) : rest[j] = line[n + j]

LEMMA ReadIs ==
  ASSUME NEW line \in Seq(Half), NEW n \in 1..Len(line)
  PROVE  IsRead(line, n, SubSeq(line, 1, n), SubSeq(line, n + 1, Len(line)))
<1>1. n \in 0..Len(line)
  OBVIOUS
<1> QED
  BY <1>1, SplitAt, Zenon DEF IsRead

(* What is read of a line whose next report came whole, or that is bad.      *)
LEMMA ReadsNext ==
  ASSUME NEW line \in Seq(Half), NEW n \in 1..Len(line), NEW data, NEW rest, IsRead(line, n, data, rest), Valid(data)
  PROVE  n = 2 /\ ~BadHalf(line[1]) /\ \A r : Comes(line, 1, r) => data[1].of = r
<1>1. data \in Seq(Half) /\ Len(data) = n /\ \A j \in 1..n : data[j] = line[j]
  BY DEF IsRead
<1>2. Len(data) = 2
  BY <1>1, ValidIs
<1>3. n = 2 /\ 1 \in 1..n
  BY <1>1, <1>2
<1>4. data[1] = line[1]
  BY <1>1, <1>3, Zenon
<1>5. ~BadHalf(data[1])
  <2>1. Len(data) > 0
    BY <1>2
  <2> QED
    BY <1>1, <2>1, BadRead
<1>6. \A r : Comes(line, 1, r) => line[1].of = r
  <2>1. 2 * 1 - 1 = 1
    OBVIOUS
  <2> QED
    BY <2>1, Zenon DEF Comes
<1> QED
  BY <1>3, <1>4, <1>5, <1>6, Zenon

(* What comes on the line when a report of it was read. *)
LEMMA ComesOn ==
  ASSUME NEW line \in Seq(Half), 2 \in 1..Len(line), NEW data, NEW rest, IsRead(line, 2, data, rest)
  PROVE  /\ \A j \in Nat \ {0}, r \in Report : Comes(line, j + 1, r) => Comes(rest, j, r)
         /\ \A j \in Nat : Len(line) > 2 * (j + 1) =>
              Len(rest) > 2 * j /\ rest[2 * j + 1] = line[2 * (j + 1) + 1]
<1>1. rest \in Seq(Half) /\ Len(rest) = Len(line) - 2 /\ \A j \in 1..(Len(line) - 2) : rest[j] = line[2 + j]
  BY DEF IsRead
<1>2. Len(line) \in Nat /\ Len(rest) \in Nat
  BY <1>1
<1>3. ASSUME NEW j \in Nat \ {0}, NEW r \in Report, Comes(line, j + 1, r) PROVE Comes(rest, j, r)
  <2>1. 2 * (j + 1) <= Len(line)
    BY <1>3, Zenon DEF Comes
  <2>2. /\ 2 * j - 1 \in 1..(Len(line) - 2) /\ 2 * j \in 1..(Len(line) - 2) /\ 2 * j <= Len(rest)
        /\ 2 + (2 * j - 1) = 2 * (j + 1) - 1 /\ 2 + 2 * j = 2 * (j + 1)
    BY <1>1, <1>2, <2>1
  <2>3. rest[2 * j - 1] = line[2 * (j + 1) - 1] /\ rest[2 * j] = line[2 * (j + 1)]
    BY <1>1, <2>2, Zenon
  <2> QED
    BY <1>3, <2>2, <2>3, Zenon DEF Comes
<1>4. ASSUME NEW j \in Nat, Len(line) > 2 * (j + 1)
      PROVE  Len(rest) > 2 * j /\ rest[2 * j + 1] = line[2 * (j + 1) + 1]
  <2>1. /\ 2 * j + 1 \in 1..(Len(line) - 2) /\ Len(rest) > 2 * j
        /\ 2 + (2 * j + 1) = 2 * (j + 1) + 1
    BY <1>1, <1>2, <1>4
  <2>2. rest[2 * j + 1] = line[2 + (2 * j + 1)]
    BY <1>1, <2>1
  <2>3. rest[2 * j + 1] = line[2 * (j + 1) + 1]
    BY <2>1, <2>2
  <2> QED
    BY <2>1, <2>3
<1> QED
  BY <1>3, <1>4, Zenon

(* A read that is forwarded is on its way as before, or is sure to be        *)
(* refused after the reports before it.                                      *)
OnItsWay(line, conns, line2, conns2, m, H, held) ==
  /\ GoodsOf(line2, conns2, m, H)
  /\ EndsOf(line, conns, m, H, held) => EndsOf(line2, conns2, m, H, held)
  /\ BadOf(line, conns, m) => BadOf(line2, conns2, m)
Upto(H, k) == [i \in 0..k |-> H[i]]
StopsAt(line, conns, k, H) == GoodsOf(line, conns, k, Upto(H, k)) /\ BadOf(line, conns, k)

LEMMA Forwards ==
  ASSUME NEW line \in Seq(Half), NEW conns \in Seq(Seq(Half)), NEW m \in Nat, NEW H, NEW held,
         GoodsOf(line, conns, m, H), EndsOf(line, conns, m, H, held) \/ BadOf(line, conns, m),
         NEW n \in 1..Len(line), NEW data, NEW rest, IsRead(line, n, data, rest)
  PROVE  \/ OnItsWay(line, conns, rest, Append(conns, data), m, H, held)
         \/ \E k \in 0..m : StopsAt(rest, Append(conns, data), k, H)
<1> DEFINE c == Len(conns)
           d == Append(conns, data)
<1>0. data \in Seq(Half) /\ rest \in Seq(Half) /\ c \in Nat /\ Len(line) \in Nat
  BY DEF IsRead
<1>1. d \in Seq(Seq(Half)) /\ Len(d) = c + 1 /\ d[c + 1] = data /\ \A k \in 1..c : d[k] = conns[k]
  BY <1>0, AppendProperties
<1> HIDE DEF d
<1>2. /\ H \in [0..m -> Report] /\ \A i \in 1..m : Changes(H[i - 1], H[i])
      /\ \A k \in 1..m : k <= c => IsReport(conns[k], H[k])
      /\ \A k \in 1..m : k > c => Comes(line, k - c, H[k])
  BY Zenon DEF GoodsOf
<1>3. \A k \in 1..m : k <= c => IsReport(d[k], H[k])
  <2> TAKE k \in 1..m
  <2> SUFFICES ASSUME k <= c PROVE IsReport(d[k], H[k])
    OBVIOUS
  <2>1. k \in 1..c
    BY <1>0
  <2>2. d[k] = conns[k]
    BY <1>1, <2>1
  <2> QED
    BY <1>2, <2>2, Zenon
<1>4. CASE m < c
  <2>1. \A k \in 1..m : k <= c /\ ~(k > c + 1)
    BY <1>0, <1>4
  <2>2. GoodsOf(rest, d, m, H)
    BY <1>1, <1>2, <1>3, <2>1, Zenon DEF GoodsOf
  <2>3. ~EndsOf(line, conns, m, H, held) /\ ~(m >= c)
    <3>1. ~(m >= c)
      BY <1>0, <1>4
    <3> QED
      BY <3>1, Zenon DEF EndsOf
  <2>4. ~Valid(conns[m + 1])
    BY <1>4, <2>3, Zenon DEF BadOf
  <2>5. m + 1 \in 1..c /\ m < c + 1
    BY <1>0, <1>4
  <2>6. BadOf(rest, d, m)
    <3>1. d[m + 1] = conns[m + 1]
      BY <1>1, <2>5
    <3> QED
      BY <1>1, <2>4, <2>5, <3>1, Zenon DEF BadOf
  <2>7. OnItsWay(line, conns, rest, d, m, H, held)
    BY <2>2, <2>3, <2>6, Zenon DEF OnItsWay
  <2> QED
    BY <2>7, Zenon DEF d
<1>5. CASE m >= c /\ Valid(data)
  <2>0. /\ EndsOf(line, conns, m, H, held) => Len(line) = 2 * (m - c)
        /\ BadOf(line, conns, m) => Len(line) > 2 * (m - c) /\ BadHalf(line[2 * (m - c) + 1])
    <3>1. ~(m < c)
      BY <1>0, <1>5
    <3> QED
      BY <3>1, Zenon DEF EndsOf, BadOf
  <2>1. n = 2 /\ ~BadHalf(line[1]) /\ \A r : Comes(line, 1, r) => data[1].of = r
    BY <1>5, ReadsNext
  <2>2. m >= c + 1
    <3> SUFFICES ASSUME m = c PROVE FALSE
      BY <1>0, <1>5
    <3>1. 2 * (m - c) = 0 /\ 2 * (m - c) + 1 = 1 /\ Len(line) # 0
      BY <1>0
    <3> QED
      BY <2>0, <2>1, <3>1, Zenon
  <2>3. /\ 2 \in 1..Len(line) /\ c + 1 \in 1..m /\ c + 1 > c /\ (c + 1) - c = 1
        /\ m \in 1..m
    BY <1>0, <2>1, <2>2
  <2>4. data[1].of = H[c + 1]
    <3>1. Comes(line, (c + 1) - c, H[c + 1])
      BY <1>2, <2>3, Zenon
    <3>2. Comes(line, 1, H[c + 1])
      BY <2>3, <3>1
    <3> QED
      BY <2>1, <3>2, Zenon
  <2>5. IsRead(line, 2, data, rest)
    BY <2>1, Zenon
  <2>6. /\ \A j \in Nat \ {0}, r \in Report : Comes(line, j + 1, r) => Comes(rest, j, r)
        /\ \A j \in Nat : Len(line) > 2 * (j + 1) =>
             Len(rest) > 2 * j /\ rest[2 * j + 1] = line[2 * (j + 1) + 1]
    BY <2>3, <2>5, ComesOn
  <2>7. GoodsOf(rest, d, m, H)
    <3>1. \A k \in 1..m : k <= c + 1 => IsReport(d[k], H[k])
      <4> TAKE k \in 1..m
      <4>1. k <= c + 1 => k <= c \/ k = c + 1
        BY <1>0
      <4>2. IsReport(d[c + 1], H[c + 1])
        BY <1>1, <1>5, <2>4, Zenon DEF IsReport
      <4> QED
        BY <1>3, <4>1, <4>2, Zenon
    <3>2. \A k \in 1..m : k > c + 1 => Comes(rest, k - (c + 1), H[k])
      <4> TAKE k \in 1..m
      <4> SUFFICES ASSUME k > c + 1 PROVE Comes(rest, k - (c + 1), H[k])
        OBVIOUS
      <4>1. k > c /\ k - (c + 1) \in Nat \ {0} /\ (k - (c + 1)) + 1 = k - c /\ k \in 0..m
        BY <1>0
      <4>2. Comes(line, (k - (c + 1)) + 1, H[k]) /\ H[k] \in Report
        BY <1>2, <4>1
      <4> QED
        BY <2>6, <4>1, <4>2
    <3> QED
      BY <1>1, <1>2, <3>1, <3>2, Zenon DEF GoodsOf
  <2>8. /\ m >= c + 1 /\ ~(m < c + 1) /\ m - (c + 1) \in Nat /\ (m - (c + 1)) + 1 = m - c
        /\ Len(rest) = Len(line) - 2
    BY <1>0, <2>2, <2>5 DEF IsRead
  <2>9. EndsOf(line, conns, m, H, held) => EndsOf(rest, d, m, H, held)
    <3> SUFFICES ASSUME EndsOf(line, conns, m, H, held) PROVE EndsOf(rest, d, m, H, held)
      OBVIOUS
    <3>1. Len(rest) = 2 * (m - (c + 1))
      BY <1>0, <2>0, <2>8
    <3> QED
      BY <1>1, <2>8, <3>1, Zenon DEF EndsOf
  <2>10. BadOf(line, conns, m) => BadOf(rest, d, m)
    <3> SUFFICES ASSUME BadOf(line, conns, m) PROVE BadOf(rest, d, m)
      OBVIOUS
    <3>1. Len(line) > 2 * ((m - (c + 1)) + 1)
      BY <2>0, <2>8
    <3>2. Len(rest) > 2 * (m - (c + 1)) /\ rest[2 * (m - (c + 1)) + 1] = line[2 * ((m - (c + 1)) + 1) + 1]
      BY <2>6, <2>8, <3>1, Zenon
    <3>3. BadHalf(line[2 * ((m - (c + 1)) + 1) + 1])
      BY <2>0, <2>8
    <3> QED
      BY <1>1, <2>8, <3>2, <3>3, Zenon DEF BadOf
  <2> QED
    BY <2>7, <2>9, <2>10, Zenon DEF OnItsWay, d
<1>6. CASE m >= c /\ ~Valid(data)
  <2>1. c \in 0..m /\ c < c + 1 /\ \A k \in 1..c : k \in 1..m /\ k \in 0..c /\ k - 1 \in 0..c /\ k <= c /\ ~(k > c + 1)
    BY <1>0, <1>6
  <2>2. \A i \in 0..c : Upto(H, c)[i] = H[i]
    BY DEF Upto
  <2>3. Upto(H, c) \in [0..c -> Report]
    BY <1>2, <2>1 DEF Upto
  <2>4. GoodsOf(rest, d, c, Upto(H, c))
    BY <1>1, <1>2, <1>3, <2>1, <2>2, <2>3, Zenon DEF GoodsOf
  <2>5. BadOf(rest, d, c)
    BY <1>1, <1>6, <2>1, Zenon DEF BadOf
  <2>6. StopsAt(rest, d, c, H)
    BY <2>4, <2>5, Zenon DEF StopsAt
  <2> QED
    BY <2>1, <2>6, Zenon DEF d
<1>7. m < c \/ m >= c
  BY <1>0
<1> QED
  BY <1>4, <1>5, <1>6, <1>7, Zenon

(* The first report on its way is taken: from the line when no connection is *)
(* left, or from the first connection.                                       *)
Later(H, m) == [i \in 0..(m - 1) |-> H[i + 1]]
ReportTaken(line, conns, line2, conns2, m, H, held, r) ==
  /\ m >= 1 /\ r = H[1]
  /\ GoodsOf(line2, conns2, m - 1, Later(H, m))
  /\ EndsOf(line, conns, m, H, held) => EndsOf(line2, conns2, m - 1, Later(H, m), held)
  /\ BadOf(line, conns, m) => BadOf(line2, conns2, m - 1)

LEMMA LaterIs ==
  ASSUME NEW m \in Nat, m >= 1, NEW H \in [0..m -> Report], \A i \in 1..m : Changes(H[i - 1], H[i])
  PROVE  /\ Later(H, m) \in [0..(m - 1) -> Report]
         /\ \A i \in 1..(m - 1) : Changes(Later(H, m)[i - 1], Later(H, m)[i])
         /\ \A i \in 0..(m - 1) : Later(H, m)[i] = H[i + 1]
<1>1. \A i \in 0..(m - 1) : i + 1 \in 0..m /\ i + 1 \in 1..m
  OBVIOUS
<1>2. \A i \in 1..(m - 1) : i \in 0..(m - 1) /\ i - 1 \in 0..(m - 1) /\ (i - 1) + 1 = (i + 1) - 1
  OBVIOUS
<1>3. \A i \in 0..(m - 1) : Later(H, m)[i] = H[i + 1]
  BY Zenon DEF Later
<1>4. Later(H, m) \in [0..(m - 1) -> Report]
  BY <1>1 DEF Later
<1>5. \A i \in 1..(m - 1) : Changes(Later(H, m)[i - 1], Later(H, m)[i])
  <2> TAKE i \in 1..(m - 1)
  <2>1. Later(H, m)[i] = H[i + 1] /\ Later(H, m)[i - 1] = H[(i - 1) + 1] /\ (i - 1) + 1 = (i + 1) - 1
    BY <1>2, <1>3, Zenon
  <2>2. Changes(H[(i + 1) - 1], H[i + 1])
    BY <1>1, <1>2, Zenon
  <2> QED
    BY <2>1, <2>2, Zenon
<1> QED
  BY <1>3, <1>4, <1>5, Zenon

LEMMA LineTaken ==
  ASSUME NEW line \in Seq(Half), NEW m \in Nat, NEW H, NEW held,
         GoodsOf(line, <<>>, m, H), EndsOf(line, <<>>, m, H, held) \/ BadOf(line, <<>>, m),
         NEW n \in 1..Len(line), NEW data, NEW rest, IsRead(line, n, data, rest), Valid(data)
  PROVE  ReportTaken(line, <<>>, rest, <<>>, m, H, held, data[1].of)
<1>0. Len(line) \in Nat /\ Len(<<>>) = 0 /\ data \in Seq(Half) /\ rest \in Seq(Half)
  BY DEF IsRead
<1>1. n = 2 /\ ~BadHalf(line[1]) /\ \A r : Comes(line, 1, r) => data[1].of = r
  BY ReadsNext
<1>2. /\ EndsOf(line, <<>>, m, H, held) => Len(line) = 2 * m /\ H[m] = held
      /\ BadOf(line, <<>>, m) => Len(line) > 2 * m /\ BadHalf(line[2 * m + 1])
  <2>1. ~(m < 0) /\ m - 0 = m
    OBVIOUS
  <2> QED
    BY <1>0, <2>1, Zenon DEF EndsOf, BadOf
<1>3. m >= 1
  <2> SUFFICES ASSUME m = 0 PROVE FALSE
    OBVIOUS
  <2>1. 2 * m = 0 /\ 2 * m + 1 = 1 /\ Len(line) # 0
    BY <1>0
  <2> QED
    BY <1>1, <1>2, <2>1, Zenon
<1>4. /\ H \in [0..m -> Report] /\ \A i \in 1..m : Changes(H[i - 1], H[i])
      /\ \A k \in 1..m : Comes(line, k, H[k])
  <2>1. \A k \in 1..m : k > 0 /\ k - 0 = k
    OBVIOUS
  <2> QED
    BY <1>0, <2>1, Zenon DEF GoodsOf
<1>5. data[1].of = H[1]
  <2>1. 1 \in 1..m
    BY <1>3
  <2> QED
    BY <1>1, <1>4, <2>1, Zenon
<1>6. 2 \in 1..Len(line) /\ IsRead(line, 2, data, rest) /\ Len(rest) = Len(line) - 2
  BY <1>0, <1>1 DEF IsRead
<1>7. /\ \A j \in Nat \ {0}, r \in Report : Comes(line, j + 1, r) => Comes(rest, j, r)
      /\ \A j \in Nat : Len(line) > 2 * (j + 1) =>
           Len(rest) > 2 * j /\ rest[2 * j + 1] = line[2 * (j + 1) + 1]
  BY <1>6, ComesOn
<1> DEFINE L == Later(H, m)
<1>8. /\ L \in [0..(m - 1) -> Report]
      /\ \A i \in 1..(m - 1) : Changes(L[i - 1], L[i])
      /\ \A i \in 0..(m - 1) : L[i] = H[i + 1]
  BY <1>3, <1>4, LaterIs
<1> HIDE DEF L
<1>9. m - 1 \in Nat /\ (m - 1) + 1 = m /\ m - 1 >= 0 /\ ~(m - 1 < 0) /\ (m - 1) - 0 = m - 1 /\ m - 1 \in 0..(m - 1)
  BY <1>3
<1>10. GoodsOf(rest, <<>>, m - 1, L)
  <2>1. \A k \in 1..(m - 1) : Comes(rest, k, L[k])
    <3> TAKE k \in 1..(m - 1)
    <3>1. k \in Nat \ {0} /\ k + 1 \in 1..m /\ k + 1 \in 0..m /\ k \in 0..(m - 1)
      OBVIOUS
    <3>2. Comes(line, k + 1, H[k + 1]) /\ H[k + 1] \in Report
      BY <1>4, <3>1
    <3>3. L[k] = H[k + 1]
      BY <1>8, <3>1, Zenon
    <3> QED
      BY <1>7, <3>1, <3>2, <3>3, Zenon
  <2>2. \A k \in 1..(m - 1) : ~(k <= 0) /\ k - 0 = k
    OBVIOUS
  <2> QED
    BY <1>0, <1>8, <2>1, <2>2, Zenon DEF GoodsOf
<1>11. EndsOf(line, <<>>, m, H, held) => EndsOf(rest, <<>>, m - 1, L, held)
  <2> SUFFICES ASSUME EndsOf(line, <<>>, m, H, held) PROVE EndsOf(rest, <<>>, m - 1, L, held)
    OBVIOUS
  <2>1. Len(rest) = 2 * (m - 1)
    BY <1>0, <1>2, <1>6
  <2>2. L[m - 1] = held
    BY <1>2, <1>8, <1>9, Zenon
  <2> QED
    BY <1>0, <1>9, <2>1, <2>2, Zenon DEF EndsOf
<1>12. BadOf(line, <<>>, m) => BadOf(rest, <<>>, m - 1)
  <2> SUFFICES ASSUME BadOf(line, <<>>, m) PROVE BadOf(rest, <<>>, m - 1)
    OBVIOUS
  <2>1. Len(line) > 2 * ((m - 1) + 1)
    BY <1>2, <1>9, Zenon
  <2>2. Len(rest) > 2 * (m - 1) /\ rest[2 * (m - 1) + 1] = line[2 * ((m - 1) + 1) + 1]
    BY <1>7, <1>9, <2>1, Zenon
  <2>3. BadHalf(rest[2 * (m - 1) + 1])
    BY <1>2, <1>9, <2>2, Zenon
  <2> QED
    BY <1>0, <1>9, <2>2, <2>3, Zenon DEF BadOf
<1> QED
  BY <1>3, <1>5, <1>10, <1>11, <1>12, Zenon DEF ReportTaken, L

LEMMA FirstRemoved ==
  ASSUME NEW T, NEW s \in Seq(T), Len(s) >= 1
  PROVE  /\ RemoveAt(s, 1) \in Seq(T) /\ Len(RemoveAt(s, 1)) = Len(s) - 1
         /\ \A k \in 1..(Len(s) - 1) : RemoveAt(s, 1)[k] = s[k + 1]
<1>1. SubSeq(s, 1, 1 - 1) = <<>>
  OBVIOUS
<1>2. /\ SubSeq(s, 1 + 1, Len(s)) \in Seq(T) /\ Len(SubSeq(s, 1 + 1, Len(s))) = Len(s) - 1
      /\ \A k \in 1..(Len(s) - 1) : SubSeq(s, 1 + 1, Len(s))[k] = s[k + 1]
  <2>1. 1 \in 0..Len(s)
    OBVIOUS
  <2>2. /\ SubSeq(s, 1 + 1, Len(s)) \in Seq(T) /\ Len(SubSeq(s, 1 + 1, Len(s))) = Len(s) - 1
        /\ \A k \in 1..(Len(s) - 1) : SubSeq(s, 1 + 1, Len(s))[k] = s[1 + k]
    BY <2>1, SplitAt, Zenon
  <2>3. \A k \in 1..(Len(s) - 1) : 1 + k = k + 1
    OBVIOUS
  <2> QED
    BY <2>2, <2>3, Zenon
<1>3. RemoveAt(s, 1) = SubSeq(s, 1 + 1, Len(s))
  <2>1. \A t \in Seq(T) : <<>> \o t = t
    OBVIOUS
  <2> QED
    BY <1>1, <1>2, <2>1, Zenon DEF RemoveAt
<1> QED
  BY <1>2, <1>3, Zenon

LEMMA ConnTaken ==
  ASSUME NEW line \in Seq(Half), NEW conns \in Seq(Seq(Half)), NEW m \in Nat, NEW H, NEW held,
         GoodsOf(line, conns, m, H), EndsOf(line, conns, m, H, held) \/ BadOf(line, conns, m),
         Len(conns) >= 1, Valid(conns[1])
  PROVE  ReportTaken(line, conns, line, RemoveAt(conns, 1), m, H, held, conns[1][1].of)
<1> DEFINE c == Len(conns)
           d == RemoveAt(conns, 1)
<1>0. c \in Nat /\ Len(line) \in Nat
  OBVIOUS
<1>1. /\ d \in Seq(Seq(Half)) /\ Len(d) = c - 1 /\ \A k \in 1..(c - 1) : d[k] = conns[k + 1]
  BY FirstRemoved
<1> HIDE DEF d
<1>2. /\ EndsOf(line, conns, m, H, held) => m >= c /\ Len(line) = 2 * (m - c) /\ H[m] = held
      /\ BadOf(line, conns, m) =>
           \/ m < c /\ ~Valid(conns[m + 1])
           \/ m >= c /\ Len(line) > 2 * (m - c) /\ BadHalf(line[2 * (m - c) + 1])
  BY Zenon DEF EndsOf, BadOf
<1>3. m >= 1
  <2> SUFFICES ASSUME m = 0 PROVE FALSE
    OBVIOUS
  <2>1. m < c /\ ~(m >= c) /\ m + 1 = 1
    BY <1>0
  <2> QED
    BY <1>2, <2>1, Zenon
<1>4. /\ H \in [0..m -> Report] /\ \A i \in 1..m : Changes(H[i - 1], H[i])
      /\ \A k \in 1..m : k <= c => IsReport(conns[k], H[k])
      /\ \A k \in 1..m : k > c => Comes(line, k - c, H[k])
  BY Zenon DEF GoodsOf
<1>5. conns[1][1].of = H[1]
  <2>1. 1 \in 1..m /\ 1 <= c
    BY <1>0, <1>3
  <2> QED
    BY <1>4, <2>1, Zenon DEF IsReport
<1> DEFINE L == Later(H, m)
<1>6. /\ L \in [0..(m - 1) -> Report]
      /\ \A i \in 1..(m - 1) : Changes(L[i - 1], L[i])
      /\ \A i \in 0..(m - 1) : L[i] = H[i + 1]
  BY <1>3, <1>4, LaterIs
<1> HIDE DEF L
<1>7. /\ m - 1 \in Nat /\ (m - 1) + 1 = m /\ (m - 1) - (c - 1) = m - c /\ m - 1 \in 0..(m - 1)
      /\ (m >= c => m - 1 >= c - 1) /\ (m < c => m - 1 < c - 1 /\ m \in 1..(c - 1))
  BY <1>0, <1>3
<1>8. GoodsOf(line, d, m - 1, L)
  <2>1. ASSUME NEW k \in 1..(m - 1)
        PROVE  (k <= c - 1 => IsReport(d[k], L[k])) /\ (k > c - 1 => Comes(line, k - (c - 1), L[k]))
    <3>1. /\ k + 1 \in 1..m /\ k \in 0..(m - 1) /\ k - (c - 1) = (k + 1) - c
          /\ (k <= c - 1 => k + 1 <= c /\ k \in 1..(c - 1)) /\ (k > c - 1 => k + 1 > c)
      BY <1>0
    <3>2. L[k] = H[k + 1]
      BY <1>6, <3>1, Zenon
    <3>3. k <= c - 1 => IsReport(d[k], L[k])
      BY <1>1, <1>4, <3>1, <3>2, Zenon
    <3>4. k > c - 1 => Comes(line, k - (c - 1), L[k])
      BY <1>4, <3>1, <3>2, Zenon
    <3> QED
      BY <3>3, <3>4
  <2> QED
    BY <1>1, <1>6, <2>1, Zenon DEF GoodsOf
<1>9. EndsOf(line, conns, m, H, held) => EndsOf(line, d, m - 1, L, held)
  <2> SUFFICES ASSUME EndsOf(line, conns, m, H, held) PROVE EndsOf(line, d, m - 1, L, held)
    OBVIOUS
  <2>1. L[m - 1] = held
    BY <1>2, <1>6, <1>7, Zenon
  <2> QED
    BY <1>1, <1>2, <1>7, <2>1, Zenon DEF EndsOf
<1>10. BadOf(line, conns, m) => BadOf(line, d, m - 1)
  <2> SUFFICES ASSUME BadOf(line, conns, m) PROVE BadOf(line, d, m - 1)
    OBVIOUS
  <2>1. CASE m < c /\ ~Valid(conns[m + 1])
    <3>1. d[m] = conns[m + 1]
      BY <1>1, <1>7, <2>1, Zenon
    <3> QED
      BY <1>1, <1>7, <2>1, <3>1, Zenon DEF BadOf
  <2>2. CASE m >= c /\ Len(line) > 2 * (m - c) /\ BadHalf(line[2 * (m - c) + 1])
    BY <1>1, <1>7, <2>2, Zenon DEF BadOf
  <2> QED
    BY <1>2, <2>1, <2>2, Zenon
<1> QED
  BY <1>3, <1>5, <1>8, <1>9, <1>10, Zenon DEF ReportTaken, L, d

(* Another report is sent after those that came whole; what is bad stays so. *)
AndThen(H, m, r) == [i \in 0..(m + 1) |-> IF i <= m THEN H[i] ELSE r]

LEMMA HalvesIs ==
  ASSUME NEW line \in Seq(Half), NEW r \in Report
  PROVE  /\ line \o Halves(r) \in Seq(Half) /\ Len(line \o Halves(r)) = Len(line) + 2
         /\ \A j \in 1..Len(line) : (line \o Halves(r))[j] = line[j]
         /\ (line \o Halves(r))[Len(line) + 1] = [of |-> r, half |-> 1]
         /\ (line \o Halves(r))[Len(line) + 2] = [of |-> r, half |-> 2]
<1> DEFINE a == [of |-> r, half |-> 1]
           b == [of |-> r, half |-> 2]
<1>1. a \in Half /\ b \in Half
  BY DEF Half
<1>2. Halves(r) = <<a, b>>
  BY DEF Halves
<1> HIDE DEF a, b
<1> DEFINE t == <<a, b>>
<1>3. t \in Seq(Half) /\ Len(t) = 2 /\ t[1] = a /\ t[2] = b
  BY <1>1
<1> HIDE DEF t
<1>4. /\ line \o t \in Seq(Half) /\ Len(line \o t) = Len(line) + 2
      /\ \A j \in 1..Len(line) : (line \o t)[j] = line[j]
      /\ (line \o t)[Len(line) + 1] = t[1] /\ (line \o t)[Len(line) + 2] = t[2]
  <2>1. t \in Seq(Half)
    BY <1>3
  <2>2. /\ line \o t \in Seq(Half) /\ Len(line \o t) = Len(line) + Len(t)
        /\ \A k \in 1..(Len(line) + Len(t)) :
             (line \o t)[k] = IF k <= Len(line) THEN line[k] ELSE t[k - Len(line)]
    BY <2>1, ConcatProperties, Zenon
  <2> DEFINE u == line \o t
  <2> HIDE DEF u
  <2>3. /\ u \in Seq(Half) /\ Len(u) = Len(line) + 2 /\ Len(line) \in Nat
        /\ \A k \in 1..(Len(line) + 2) : u[k] = IF k <= Len(line) THEN line[k] ELSE t[k - Len(line)]
    BY <1>3, <2>2 DEF u
  <2>4. \A j \in 1..Len(line) : u[j] = line[j]
    BY <2>3
  <2>5. u[Len(line) + 1] = t[1] /\ u[Len(line) + 2] = t[2]
    BY <2>3
  <2> QED
    BY <2>3, <2>4, <2>5 DEF u
<1> QED
  BY <1>2, <1>3, <1>4, Zenon DEF t, a, b

LEMMA LineGrows ==
  ASSUME NEW line \in Seq(Half), NEW more \in Seq(Half), Len(more) >= Len(line),
         \A j \in 1..Len(line) : more[j] = line[j],
         NEW conns \in Seq(Seq(Half)), NEW m \in Nat, NEW H, GoodsOf(line, conns, m, H)
  PROVE  /\ GoodsOf(more, conns, m, H)
         /\ BadOf(line, conns, m) => BadOf(more, conns, m)
<1>0. Len(conns) \in Nat /\ Len(line) \in Nat /\ Len(more) \in Nat
  OBVIOUS
<1>1. ASSUME NEW j \in Nat \ {0}, NEW r, Comes(line, j, r) PROVE Comes(more, j, r)
  <2>1. 2 * j <= Len(line)
    BY <1>1, Zenon DEF Comes
  <2>2. 2 * j - 1 \in 1..Len(line) /\ 2 * j \in 1..Len(line) /\ 2 * j <= Len(more)
    BY <1>0, <2>1
  <2>3. more[2 * j - 1] = line[2 * j - 1] /\ more[2 * j] = line[2 * j]
    BY <2>2, Zenon
  <2> QED
    BY <1>1, <2>2, <2>3, Zenon DEF Comes
<1>2. GoodsOf(more, conns, m, H)
  <2>1. \A k \in 1..m : k > Len(conns) => k - Len(conns) \in Nat \ {0}
    BY <1>0
  <2> QED
    BY <1>1, <2>1, Zenon DEF GoodsOf
<1>3. BadOf(line, conns, m) => BadOf(more, conns, m)
  <2> SUFFICES ASSUME m >= Len(conns), Len(line) > 2 * (m - Len(conns)), BadHalf(line[2 * (m - Len(conns)) + 1])
               PROVE  Len(more) > 2 * (m - Len(conns)) /\ BadHalf(more[2 * (m - Len(conns)) + 1])
    BY Zenon DEF BadOf
  <2>1. Len(more) > 2 * (m - Len(conns)) /\ 2 * (m - Len(conns)) + 1 \in 1..Len(line)
    BY <1>0
  <2> QED
    BY <2>1, Zenon
<1> QED
  BY <1>2, <1>3

IsSent(line, conns, m, H, r) ==
  /\ GoodsOf(line \o Halves(r), conns, m + 1, AndThen(H, m, r))
  /\ EndsOf(line \o Halves(r), conns, m + 1, AndThen(H, m, r), r)
  /\ AndThen(H, m, r)[m + 1] = r /\ \A i \in 0..m : AndThen(H, m, r)[i] = H[i]

LEMMA Sent ==
  ASSUME NEW line \in Seq(Half), NEW conns \in Seq(Seq(Half)), NEW m \in Nat, NEW H, NEW held, NEW r \in Report,
         GoodsOf(line, conns, m, H), EndsOf(line, conns, m, H, held), Changes(held, r)
  PROVE  IsSent(line, conns, m, H, r)
<1> DEFINE c == Len(conns)
           more == line \o Halves(r)
           G == AndThen(H, m, r)
<1>0. c \in Nat /\ Len(line) \in Nat
  OBVIOUS
<1>1. /\ more \in Seq(Half) /\ Len(more) = Len(line) + 2
      /\ \A j \in 1..Len(line) : more[j] = line[j]
      /\ more[Len(line) + 1] = [of |-> r, half |-> 1] /\ more[Len(line) + 2] = [of |-> r, half |-> 2]
  BY HalvesIs
<1> HIDE DEF more
<1>2. m >= c /\ Len(line) = 2 * (m - c) /\ H[m] = held
  BY Zenon DEF EndsOf
<1>3. GoodsOf(more, conns, m, H)
  <2>1. Len(more) >= Len(line)
    BY <1>0, <1>1
  <2> QED
    BY <1>1, <2>1, LineGrows
<1>4. /\ H \in [0..m -> Report] /\ \A i \in 1..m : Changes(H[i - 1], H[i])
      /\ \A k \in 1..m : k <= c => IsReport(conns[k], H[k])
      /\ \A k \in 1..m : k > c => Comes(more, k - c, H[k])
  BY <1>3, Zenon DEF GoodsOf
<1>5. G \in [0..(m + 1) -> Report] /\ G[m + 1] = r /\ \A i \in 0..m : G[i] = H[i]
  BY <1>4 DEF AndThen
<1> HIDE DEF G
<1>6. /\ \A i \in 1..(m + 1) : i \in 1..m \/ i = m + 1
      /\ \A i \in 1..m : i \in 0..m /\ i - 1 \in 0..m
      /\ (m + 1) - 1 = m /\ m \in 0..m /\ m + 1 >= c /\ ~(m + 1 <= c) /\ (m + 1) - c = (m - c) + 1
  BY <1>0, <1>2
<1>7. Comes(more, (m + 1) - c, r)
  <2>1. /\ 2 * ((m + 1) - c) <= Len(more)
        /\ 2 * ((m + 1) - c) - 1 = Len(line) + 1 /\ 2 * ((m + 1) - c) = Len(line) + 2
    BY <1>0, <1>1, <1>2
  <2>2. /\ more[Len(line) + 1].of = r /\ more[Len(line) + 1].half = 1
        /\ more[Len(line) + 2].of = r /\ more[Len(line) + 2].half = 2
    BY <1>1
  <2> QED
    BY <2>1, <2>2, Zenon DEF Comes
<1>8. GoodsOf(more, conns, m + 1, G)
  <2>1. \A i \in 1..(m + 1) : Changes(G[i - 1], G[i])
    BY <1>2, <1>4, <1>5, <1>6, Zenon
  <2>2. \A k \in 1..(m + 1) : k <= c => IsReport(conns[k], G[k])
    BY <1>4, <1>5, <1>6, Zenon
  <2>3. \A k \in 1..(m + 1) : k > c => Comes(more, k - c, G[k])
    BY <1>4, <1>5, <1>6, <1>7, Zenon
  <2> QED
    BY <1>5, <2>1, <2>2, <2>3, Zenon DEF GoodsOf
<1>9. EndsOf(more, conns, m + 1, G, r)
  <2>1. Len(more) = 2 * ((m + 1) - c)
    BY <1>0, <1>1, <1>2
  <2> QED
    BY <1>5, <1>6, <2>1, Zenon DEF EndsOf
<1> QED
  BY <1>5, <1>8, <1>9, Zenon DEF more, G, IsSent

LEMMA RestartSent ==
  ASSUME NEW line \in Seq(Half), NEW conns \in Seq(Seq(Half)), NEW m \in Nat, NEW H, NEW held, NEW x \in Half,
         BadHalf(x), GoodsOf(line, conns, m, H), EndsOf(line, conns, m, H, held) \/ BadOf(line, conns, m)
  PROVE  /\ GoodsOf(Append(line, x), conns, m, H)
         /\ BadOf(Append(line, x), conns, m)
<1> DEFINE more == Append(line, x)
<1>0. Len(conns) \in Nat /\ Len(line) \in Nat
  OBVIOUS
<1>1. /\ more \in Seq(Half) /\ Len(more) = Len(line) + 1 /\ Len(more) >= Len(line)
      /\ \A j \in 1..Len(line) : more[j] = line[j]
      /\ more[Len(line) + 1] = x
  OBVIOUS
<1> HIDE DEF more
<1>2. GoodsOf(more, conns, m, H) /\ (BadOf(line, conns, m) => BadOf(more, conns, m))
  BY <1>1, LineGrows
<1>3. EndsOf(line, conns, m, H, held) => BadOf(more, conns, m)
  <2> SUFFICES ASSUME EndsOf(line, conns, m, H, held) PROVE BadOf(more, conns, m)
    OBVIOUS
  <2>1. m >= Len(conns) /\ Len(line) = 2 * (m - Len(conns))
    BY Zenon DEF EndsOf
  <2>2. Len(more) > 2 * (m - Len(conns))
    BY <1>0, <1>1, <2>1
  <2> QED
    BY <1>1, <2>1, <2>2, Zenon DEF BadOf
<1> QED
  BY <1>2, <1>3, Zenon DEF more
-----------------------------------------------------------------------------
(* What is pressed, by the report last taken, and what a report makes of it. *)

NothingHeld(pressed) == \A p \in Programs : pressed[p] = <<>>
Only(pressed, p) == \A q \in Programs : q # p => pressed[q] = <<>>
BeginsIn(adv, r) == IF adv THEN r.key # NoKey ELSE r # Released

(* In the advanced mode, whatever is lost. *)
AllHot(pressed, ghost) == ~ghost /\ \A p \in Programs : pressed[p] = <<>> \/ Hot(pressed[p])

(* While nothing is lost.  Outside the advanced mode what is pressed is a    *)
(* report's only when that is the first since nothing was held.              *)
Begun(pressed, ghost, adv, h) ==
  /\ \E p \in Programs : Only(pressed, p)
  /\ h = Released => NothingHeld(pressed)
  /\ ~adv => /\ ~ghost
             /\ NothingHeld(pressed) => h = Released
             /\ \A p \in Programs : pressed[p] # <<>> => FirstText(pressed[p], h) \/ Dead(pressed[p])

IsProcessed(p, r, adv, pressed, ghost, owed, pressed2, ghost2, owed2) ==
  LET same == pressed2 = pressed /\ ghost2 = ghost /\ owed2 = owed
      text == pressed2[p]
  IN  /\ r = Released => pressed2 = [pressed EXCEPT ![p] = <<>>] /\ ghost2 = ghost /\ owed2 = owed
      /\ r # Released /\ ~BeginsIn(adv, r) => same
      /\ r # Released /\ BeginsIn(adv, r) =>
           /\ pressed2 = [pressed EXCEPT ![p] = @ \o TextOf(r)]
           /\ NotOne(text) => owed2 = owed /\ ghost2 = ghost
           /\ ~NotOne(text) => owed2 = owed - 1
           /\ ~NotOne(text) /\ text = TextOf(r) => ghost2 = ghost

LEMMA ReleasedBegins == \A adv \in BOOLEAN : ~BeginsIn(adv, Released)
BY DEF BeginsIn, Released

LEMMA ProcessIs ==
  ASSUME NEW p \in Programs, NEW r \in Report, krAdvanced \in BOOLEAN, krGhost \in BOOLEAN, ProcessReport(p, r)
  PROVE  /\ IsProcessed(p, r, krAdvanced, krPressed, krGhost, krOwed, krPressed', krGhost', krOwed')
         /\ krGhost' \in BOOLEAN
<1>1. CASE r = Released
  <2>1. krPressed' = [krPressed EXCEPT ![p] = <<>>] /\ krOwed' = krOwed /\ krGhost' = krGhost
    BY <1>1, Zenon DEF ProcessReport, AllReleasedAgain
  <2> QED
    BY <1>1, <2>1, ReleasedBegins, Zenon DEF IsProcessed
<1>2. CASE r # Released /\ ~BeginsIn(krAdvanced, r)
  <2>1. krAdvanced /\ r.key = NoKey
    BY <1>2, Zenon DEF BeginsIn
  <2>2. krPressed' = krPressed /\ krOwed' = krOwed /\ krGhost' = krGhost
    BY <1>2, <2>1, Zenon DEF ProcessReport, AllReleasedAgain, Ignored, krMacro
  <2> QED
    BY <1>2, <2>2, Zenon DEF IsProcessed
<1>3. CASE r # Released /\ BeginsIn(krAdvanced, r)
  <2>1. ~(krAdvanced /\ r.key = NoKey)
    BY <1>3, Zenon DEF BeginsIn
  <2>2. krPressed' = [krPressed EXCEPT ![p] = @ \o TextOf(r)] /\ Executes(krPressed'[p], r)
    BY <1>3, <2>1, Zenon DEF ProcessReport, AllReleasedAgain
  <2> DEFINE text == krPressed'[p]
             one == text \in {TextOf(other) : other \in Report}
  <2>3. one <=> ~NotOne(text)
    BY Zenon DEF NotOne
  <2>4. /\ krOwed' = IF one THEN krOwed - 1 ELSE krOwed
        /\ krGhost' = (krGhost \/ (one /\ text # TextOf(r)))
    BY <2>2, Zenon DEF Executes
  <2> HIDE DEF one
  <2>5. /\ NotOne(text) => krOwed' = krOwed
        /\ ~NotOne(text) => krOwed' = krOwed - 1
    BY <2>3, <2>4, Zenon
  <2>6. ~(one /\ text # TextOf(r)) => krGhost' = krGhost
    BY <2>4, Zenon
  <2>7. /\ NotOne(text) => krGhost' = krGhost
        /\ ~NotOne(text) /\ text = TextOf(r) => krGhost' = krGhost
    BY <2>3, <2>6, Zenon
  <2>8. krGhost' \in BOOLEAN
    BY <2>4, Zenon
  <2> QED
    BY <1>3, <2>2, <2>5, <2>7, <2>8, Zenon DEF IsProcessed
<1>4. r = Released => krGhost' = krGhost
  BY Zenon DEF ProcessReport, AllReleasedAgain
<1> QED
  BY <1>1, <1>2, <1>3, Zenon DEF IsProcessed

(* One text, in the advanced mode. *)
LEMMA HotText ==
  ASSUME NEW t \in Seq(KeyTexts), NEW r \in Report, t = <<>> \/ Hot(t), BeginsIn(TRUE, r)
  PROVE  /\ t \o TextOf(r) \in Seq(KeyTexts) /\ Hot(t \o TextOf(r)) /\ t \o TextOf(r) # <<>>
         /\ t = <<>> => t \o TextOf(r) = TextOf(r) /\ ~NotOne(t \o TextOf(r))
         /\ t # <<>> => NotOne(t \o TextOf(r))
<1>1. r.key # NoKey
  BY DEF BeginsIn
<1>2. Hot(t \o TextOf(r)) /\ (t # <<>> => NotOne(t \o TextOf(r)))
  BY <1>1, HotStays
<1>3. t \o TextOf(r) \in Seq(KeyTexts) /\ (t = <<>> => t \o TextOf(r) = TextOf(r))
  BY Grows
<1>4. ~Hot(<<>>)
  BY DEF Hot
<1>5. ~NotOne(TextOf(r))
  BY DEF NotOne
<1> QED
  BY <1>2, <1>3, <1>4, <1>5, Zenon

(* And outside it. *)
LEMMA AloneText ==
  ASSUME NEW t \in Seq(KeyTexts), NEW h \in Report, NEW r \in Report, r # Released, Changes(h, r),
         t = <<>> => h = Released, t # <<>> => FirstText(t, h) \/ Dead(t)
  PROVE  /\ t \o TextOf(r) \in Seq(KeyTexts) /\ t \o TextOf(r) # <<>>
         /\ FirstText(t \o TextOf(r), r) \/ Dead(t \o TextOf(r))
         /\ t = <<>> => t \o TextOf(r) = TextOf(r) /\ ~NotOne(t \o TextOf(r))
         /\ t # <<>> => NotOne(t \o TextOf(r))
<1>1. t \o TextOf(r) \in Seq(KeyTexts) /\ (t = <<>> => t \o TextOf(r) = TextOf(r))
  BY Grows
<1>2. ~NotOne(TextOf(r))
  BY DEF NotOne
<1>3. ~Dead(<<>>)
  BY DEF Dead
<1>4. TextOf(r) # <<>>
  <2>1. <<"shift">> # <<>> /\ <<r.key>> # <<>> /\ <<"shift", r.key>> # <<>>
    OBVIOUS
  <2> QED
    BY <2>1, TextIs, Zenon
<1>5. CASE t = <<>>
  <2>1. r.mod = NoKey \/ r.key = NoKey
    <3>1. (r.mod # Released.mod) # (r.key # Released.key)
      BY <1>5 DEF Changes
    <3> QED
      BY <3>1 DEF Released
  <2>2. FirstText(TextOf(r), r)
    BY <2>1, Zenon DEF FirstText
  <2> QED
    BY <1>1, <1>2, <1>4, <1>5, <2>2, Zenon
<1>6. CASE t # <<>>
  <2>1. Dead(t \o TextOf(r)) /\ NotOne(t \o TextOf(r))
    BY <1>6, DeadStays
  <2> QED
    BY <1>1, <1>3, <1>6, <2>1, Zenon
<1> QED
  BY <1>5, <1>6, Zenon

IsAfter(p, r, adv, pressed, ghost, owed, pressed2, ghost2, owed2) ==
  /\ pressed2 \in [Programs -> Seq(KeyTexts)] /\ owed2 \in Int
  /\ \A q \in Programs : q # p => pressed2[q] = pressed[q]
  /\ r = Released => pressed2[p] = <<>> /\ owed2 = owed /\ ghost2 = ghost
  /\ r # Released /\ ~BeginsIn(adv, r) => pressed2 = pressed /\ owed2 = owed /\ ghost2 = ghost
  /\ r # Released /\ BeginsIn(adv, r) => pressed2[p] = pressed[p] \o TextOf(r)

LEMMA PressedTyped ==
  ASSUME NEW p \in Programs, NEW r \in Report, NEW pressed \in [Programs -> Seq(KeyTexts)], NEW ghost, NEW owed \in Int,
         NEW adv \in BOOLEAN, NEW pressed2, NEW ghost2, NEW owed2,
         IsProcessed(p, r, adv, pressed, ghost, owed, pressed2, ghost2, owed2)
  PROVE  IsAfter(p, r, adv, pressed, ghost, owed, pressed2, ghost2, owed2)
<1>1. CASE r = Released
  <2>1. pressed2 = [pressed EXCEPT ![p] = <<>>] /\ ghost2 = ghost /\ owed2 = owed
    BY <1>1, Zenon DEF IsProcessed
  <2>2. <<>> \in Seq(KeyTexts)
    OBVIOUS
  <2>3. /\ pressed2 \in [Programs -> Seq(KeyTexts)] /\ pressed2[p] = <<>>
        /\ \A q \in Programs : q # p => pressed2[q] = pressed[q]
    BY <2>1, <2>2
  <2> QED
    BY <1>1, <2>1, <2>3, ReleasedBegins, Zenon DEF IsAfter
<1>2. CASE r # Released /\ ~BeginsIn(adv, r)
  <2>1. pressed2 = pressed /\ owed2 = owed /\ ghost2 = ghost
    BY <1>2, Zenon DEF IsProcessed
  <2> QED
    BY <1>2, <2>1, Zenon DEF IsAfter
<1>3. CASE r # Released /\ BeginsIn(adv, r)
  <2>1. /\ pressed2 = [pressed EXCEPT ![p] = pressed[p] \o TextOf(r)]
        /\ owed2 = owed \/ owed2 = owed - 1
    BY <1>3, Zenon DEF IsProcessed
  <2>2. pressed[p] \o TextOf(r) \in Seq(KeyTexts)
    BY Grows
  <2> DEFINE u == pressed[p] \o TextOf(r)
  <2> HIDE DEF u
  <2>3. pressed2 = [pressed EXCEPT ![p] = u] /\ u \in Seq(KeyTexts)
    BY <2>1, <2>2 DEF u
  <2>4. /\ pressed2 \in [Programs -> Seq(KeyTexts)] /\ pressed2[p] = u
        /\ \A q \in Programs : q # p => pressed2[q] = pressed[q]
    BY <2>3
  <2> QED
    <3>1. pressed2[p] = pressed[p] \o TextOf(r) /\ owed2 \in Int
      BY <2>1, <2>4 DEF u
    <3> QED
      BY <1>3, <2>4, <3>1, Zenon DEF IsAfter
<1> QED
  BY <1>1, <1>2, <1>3

(* What is pressed after a report was taken: whatever was lost, and when     *)
(* nothing was.                                                              *)
LEMMA StaysHot ==
  ASSUME NEW p \in Programs, NEW r \in Report, NEW pressed \in [Programs -> Seq(KeyTexts)], NEW ghost, NEW owed \in Int,
         AllHot(pressed, ghost), NEW pressed2, NEW ghost2, NEW owed2,
         IsProcessed(p, r, TRUE, pressed, ghost, owed, pressed2, ghost2, owed2)
  PROVE  AllHot(pressed2, ghost2)
<1>1. /\ \A q \in Programs : q # p => pressed2[q] = pressed[q]
      /\ r = Released => pressed2[p] = <<>> /\ ghost2 = ghost
      /\ r # Released /\ ~BeginsIn(TRUE, r) => pressed2 = pressed /\ ghost2 = ghost
      /\ r # Released /\ BeginsIn(TRUE, r) => pressed2[p] = pressed[p] \o TextOf(r)
  <2>1. TRUE \in BOOLEAN
    OBVIOUS
  <2>2. IsAfter(p, r, TRUE, pressed, ghost, owed, pressed2, ghost2, owed2)
    BY <2>1, PressedTyped, Zenon
  <2> QED
    BY <2>2, Zenon DEF IsAfter
<1>2. ~ghost /\ \A q \in Programs : pressed[q] = <<>> \/ Hot(pressed[q])
  BY Zenon DEF AllHot
<1>3. CASE r # Released /\ BeginsIn(TRUE, r)
  <2> DEFINE t == pressed[p]
  <2>1. t \in Seq(KeyTexts) /\ (t = <<>> \/ Hot(t))
    BY <1>2
  <2>2. /\ Hot(t \o TextOf(r))
        /\ t = <<>> => t \o TextOf(r) = TextOf(r) /\ ~NotOne(t \o TextOf(r))
        /\ t # <<>> => NotOne(t \o TextOf(r))
    BY <1>3, <2>1, HotText
  <2>3. ghost2 = ghost
    <3>1. /\ NotOne(pressed2[p]) => ghost2 = ghost
          /\ ~NotOne(pressed2[p]) /\ pressed2[p] = TextOf(r) => ghost2 = ghost
      BY <1>3, Zenon DEF IsProcessed
    <3> QED
      BY <1>1, <1>3, <2>2, <3>1, Zenon
  <2> QED
    BY <1>1, <1>2, <1>3, <2>2, <2>3, Zenon DEF AllHot
<1>4. CASE r = Released \/ ~BeginsIn(TRUE, r)
  <2>1. ghost2 = ghost /\ \A q \in Programs : pressed2[q] = <<>> \/ pressed2[q] = pressed[q]
    BY <1>1, <1>4, Zenon
  <2> QED
    BY <1>2, <2>1, Zenon DEF AllHot
<1> QED
  BY <1>3, <1>4

LEMMA IdleOnly ==
  ASSUME NEW p \in Programs, NEW pressed, Only(pressed, p)
  PROVE  NothingHeld(pressed) <=> pressed[p] = <<>>
BY Zenon DEF NothingHeld, Only

Less(owed, one) == IF one THEN owed - 1 ELSE owed
Fewer(owed, before, adv, r) == Less(owed, before /\ BeginsIn(adv, r))
FreshAfter(next, before, adv, r) == next <=> r = Released \/ (before /\ ~BeginsIn(adv, r))
Follows(r, adv, pressed, owed, pressed2, ghost2, owed2) ==
  /\ Begun(pressed2, ghost2, adv, r)
  /\ FreshAfter(NothingHeld(pressed2), NothingHeld(pressed), adv, r)
  /\ owed2 = Fewer(owed, NothingHeld(pressed), adv, r)

LEMMA StaysBegun ==
  ASSUME NEW p \in Programs, NEW r \in Report, NEW h \in Report, NEW pressed \in [Programs -> Seq(KeyTexts)],
         NEW ghost, NEW owed \in Int, NEW adv \in BOOLEAN, Begun(pressed, ghost, adv, h), adv => AllHot(pressed, ghost),
         Only(pressed, p), Changes(h, r), NEW pressed2, NEW ghost2, NEW owed2,
         IsProcessed(p, r, adv, pressed, ghost, owed, pressed2, ghost2, owed2)
  PROVE  Follows(r, adv, pressed, owed, pressed2, ghost2, owed2)
<1>1. /\ \A q \in Programs : q # p => pressed2[q] = pressed[q]
      /\ r = Released => pressed2[p] = <<>> /\ owed2 = owed /\ ghost2 = ghost
      /\ r # Released /\ ~BeginsIn(adv, r) => pressed2 = pressed /\ owed2 = owed /\ ghost2 = ghost
      /\ r # Released /\ BeginsIn(adv, r) => pressed2[p] = pressed[p] \o TextOf(r)
  <2>1. IsAfter(p, r, adv, pressed, ghost, owed, pressed2, ghost2, owed2)
    BY PressedTyped, Zenon
  <2> QED
    BY <2>1, Zenon DEF IsAfter
<1>2. Only(pressed2, p)
  BY <1>1, Zenon DEF Only
<1>3. (NothingHeld(pressed) <=> pressed[p] = <<>>) /\ (NothingHeld(pressed2) <=> pressed2[p] = <<>>)
  BY <1>2, IdleOnly, Zenon
<1>4. ~adv => /\ ~ghost
              /\ NothingHeld(pressed) => h = Released
              /\ pressed[p] # <<>> => FirstText(pressed[p], h) \/ Dead(pressed[p])
  BY Zenon DEF Begun
<1>5. CASE r = Released
  <2>1. NothingHeld(pressed2) /\ owed2 = owed /\ ghost2 = ghost /\ ~BeginsIn(adv, r)
    BY <1>1, <1>3, <1>5, ReleasedBegins, Zenon
  <2>2. Begun(pressed2, ghost2, adv, r)
    BY <1>2, <1>4, <1>5, <2>1, Zenon DEF Begun, NothingHeld
  <2> QED
    BY <1>5, <2>1, <2>2, Zenon DEF Less, Fewer, FreshAfter, Follows
<1>6. CASE r # Released /\ ~BeginsIn(adv, r)
  <2>1. pressed2 = pressed /\ owed2 = owed /\ ghost2 = ghost
    BY <1>1, <1>6, Zenon
  <2>2. adv
    BY <1>6, Zenon DEF BeginsIn
  <2>3. Begun(pressed2, ghost2, adv, r)
    BY <1>2, <1>6, <2>2, Zenon DEF Begun
  <2> QED
    BY <1>6, <2>1, <2>3, Zenon DEF Less, Fewer, FreshAfter, Follows
<1>7. CASE r # Released /\ BeginsIn(adv, r)
  <2> DEFINE t == pressed[p]
             u == t \o TextOf(r)
  <2>1. /\ t \in Seq(KeyTexts) /\ pressed2[p] = u
    BY <1>1, <1>7
  <2>2. /\ u # <<>> /\ (t = <<>> => u = TextOf(r) /\ ~NotOne(u)) /\ (t # <<>> => NotOne(u))
        /\ ~adv => FirstText(u, r) \/ Dead(u)
    <3>1. CASE adv
      <4>1. t = <<>> \/ Hot(t)
        BY <3>1, Zenon DEF AllHot
      <4>2. BeginsIn(TRUE, r)
        BY <1>7, <3>1, Zenon DEF BeginsIn
      <4> QED
        BY <2>1, <3>1, <4>1, <4>2, HotText
    <3>2. CASE ~adv
      <4>1. (t = <<>> => h = Released) /\ (t # <<>> => FirstText(t, h) \/ Dead(t))
        BY <1>3, <1>4, <3>2, Zenon
      <4> QED
        BY <1>7, <2>1, <3>2, <4>1, AloneText
    <3> QED
      BY <3>1, <3>2
  <2> HIDE DEF t, u
  <2>3. /\ NotOne(u) => owed2 = owed /\ ghost2 = ghost
        /\ ~NotOne(u) => owed2 = owed - 1
        /\ ~NotOne(u) /\ u = TextOf(r) => ghost2 = ghost
    BY <1>7, <2>1, Zenon DEF IsProcessed
  <2>4. ~NothingHeld(pressed2) /\ ghost2 = ghost /\ owed2 = Less(owed, t = <<>>)
    BY <1>3, <2>1, <2>2, <2>3, Zenon DEF Less
  <2>5. Begun(pressed2, ghost2, adv, r)
    <3>1. ~adv => \A q \in Programs : pressed2[q] # <<>> => FirstText(pressed2[q], r) \/ Dead(pressed2[q])
      BY <1>2, <2>1, <2>2, Zenon DEF Only
    <3> QED
      BY <1>2, <1>4, <1>7, <2>4, <3>1, Zenon DEF Begun
  <2>6. t = <<>> <=> NothingHeld(pressed)
    BY <1>3 DEF t
  <2>7. owed2 = Less(owed, NothingHeld(pressed) /\ BeginsIn(adv, r))
    BY <1>7, <2>4, <2>6, Zenon DEF Less
  <2> QED
    BY <1>7, <2>4, <2>5, <2>7, Zenon DEF Fewer, FreshAfter, Follows
<1> QED
  BY <1>5, <1>6, <1>7, Zenon
-----------------------------------------------------------------------------
(* The combinations that the reports on their way begin: in front of which   *)
(* of them nothing is held, and how many were begun up to each.              *)

Counts(m, H, Fr, C, adv, idle, fresh, owed) ==
  /\ C \in [0..m -> Int] /\ C[0] = 0 /\ C[m] = owed
  /\ 0 \in Fr <=> idle
  /\ m \in Fr <=> fresh
  /\ \A i \in 0..(m - 1) : i + 1 \in Fr <=> H[i + 1] = Released \/ (i \in Fr /\ ~BeginsIn(adv, H[i + 1]))
  /\ \A i \in 0..(m - 1) : C[i] = Less(C[i + 1], i \in Fr /\ BeginsIn(adv, H[i + 1]))
Counted(m, H, adv, idle, fresh, owed) == \E Fr, C : Counts(m, H, Fr, C, adv, idle, fresh, owed)

LEMMA CountsTaken ==
  ASSUME NEW m \in Nat, m >= 1, NEW H, NEW adv, NEW idle, NEW fresh, NEW owed,
         Counted(m, H, adv, idle, fresh, owed), NEW r, r = H[1], NEW idle2,
         FreshAfter(idle2, idle, adv, r)
  PROVE  Counted(m - 1, Later(H, m), adv, idle2, fresh, Fewer(owed, idle, adv, r))
<1> PICK Fr, C : Counts(m, H, Fr, C, adv, idle, fresh, owed)
  BY Zenon DEF Counted
<1> DEFINE D == {i \in 0..(m - 1) : i + 1 \in Fr}
           B == [i \in 0..(m - 1) |-> C[i + 1] - C[0 + 1]]
           L == Later(H, m)
<1>1. /\ C \in [0..m -> Int] /\ C[0] = 0 /\ C[m] = owed
      /\ 0 \in Fr <=> idle
      /\ m \in Fr <=> fresh
      /\ \A i \in 0..(m - 1) : i + 1 \in Fr <=> H[i + 1] = Released \/ (i \in Fr /\ ~BeginsIn(adv, H[i + 1]))
      /\ \A i \in 0..(m - 1) : C[i] = Less(C[i + 1], i \in Fr /\ BeginsIn(adv, H[i + 1]))
  BY Zenon DEF Counts
<1>2. /\ m - 1 \in 0..(m - 1) /\ 0 \in 0..(m - 1) /\ m - 1 \in Nat /\ r = H[0 + 1]
      /\ \A i \in 0..(m - 1) : i + 1 \in 0..m
      /\ \A i \in 0..((m - 1) - 1) : i \in 0..(m - 1) /\ i + 1 \in 0..(m - 1)
  OBVIOUS
<1>3. /\ B \in [0..(m - 1) -> Int] /\ \A i \in 0..(m - 1) : B[i] = C[i + 1] - C[0 + 1]
  BY <1>1
<1>4. \A i \in 0..(m - 1) : L[i] = H[i + 1]
  BY Zenon DEF Later
<1>5. \A i \in 0..(m - 1) : i \in D <=> i + 1 \in Fr
  BY Zenon
<1> HIDE DEF D, B, L
<1>6. (0 \in D <=> idle2) /\ (m - 1 \in D <=> fresh)
  <2>1. 0 + 1 \in Fr <=> r = Released \/ (0 \in Fr /\ ~BeginsIn(adv, r))
    BY <1>1, <1>2, Zenon
  <2>2. (m - 1) + 1 \in Fr <=> m \in Fr
    OBVIOUS
  <2>3. (0 \in D <=> 0 + 1 \in Fr) /\ (m - 1 \in D <=> (m - 1) + 1 \in Fr)
    BY <1>2, <1>5, Zenon
  <2> QED
    BY <1>1, <2>1, <2>2, <2>3, Zenon DEF FreshAfter
<1>7. C[0 + 1] \in Int /\ owed \in Int
  BY <1>1
<1>8. B[0] = 0
  <2>1. B[0] = C[0 + 1] - C[0 + 1]
    BY <1>2, <1>3, Zenon
  <2> QED
    BY <1>7, <2>1
<1>9. B[m - 1] = Less(owed, idle /\ BeginsIn(adv, r))
  <2>1. C[0] = Less(C[0 + 1], 0 \in Fr /\ BeginsIn(adv, r))
    BY <1>1, <1>2, Zenon
  <2>2. B[m - 1] = owed - C[0 + 1]
    <3>1. B[m - 1] = C[(m - 1) + 1] - C[0 + 1]
      BY <1>2, <1>3, Zenon
    <3>2. (m - 1) + 1 = m
      OBVIOUS
    <3> QED
      BY <1>1, <3>1, <3>2, Zenon
  <2>3. CASE idle /\ BeginsIn(adv, r)
    <3>1. C[0] = C[0 + 1] - 1
      BY <1>1, <2>1, <2>3, Zenon DEF Less
    <3>2. C[0 + 1] = 1
      BY <1>1, <1>7, <3>1
    <3>3. B[m - 1] = owed - 1
      BY <2>2, <3>2, Zenon
    <3> QED
      BY <2>3, <3>3, Zenon DEF Less
  <2>4. CASE ~(idle /\ BeginsIn(adv, r))
    <3>1. C[0 + 1] = 0
      BY <1>1, <2>1, <2>4, Zenon DEF Less
    <3>2. B[m - 1] = owed
      BY <1>7, <2>2, <3>1
    <3> QED
      BY <2>4, <3>2, Zenon DEF Less
  <2> QED
    BY <2>3, <2>4
<1>10. \A i \in 0..((m - 1) - 1) : i + 1 \in D <=> L[i + 1] = Released \/ (i \in D /\ ~BeginsIn(adv, L[i + 1]))
  <2> TAKE i \in 0..((m - 1) - 1)
  <2>1. L[i + 1] = H[(i + 1) + 1] /\ (i \in D <=> i + 1 \in Fr) /\ (i + 1 \in D <=> (i + 1) + 1 \in Fr)
    BY <1>2, <1>4, <1>5, Zenon
  <2>2. (i + 1) + 1 \in Fr <=> H[(i + 1) + 1] = Released \/ (i + 1 \in Fr /\ ~BeginsIn(adv, H[(i + 1) + 1]))
    BY <1>1, <1>2, Zenon
  <2> QED
    BY <2>1, <2>2, Zenon
<1>11. \A i \in 0..((m - 1) - 1) : B[i] = Less(B[i + 1], i \in D /\ BeginsIn(adv, L[i + 1]))
  <2> TAKE i \in 0..((m - 1) - 1)
  <2>1. L[i + 1] = H[(i + 1) + 1] /\ (i \in D <=> i + 1 \in Fr)
    BY <1>2, <1>4, <1>5, Zenon
  <2>2. C[i + 1] = Less(C[(i + 1) + 1], i + 1 \in Fr /\ BeginsIn(adv, H[(i + 1) + 1]))
    BY <1>1, <1>2, Zenon
  <2>3. B[i] = C[i + 1] - C[0 + 1] /\ B[i + 1] = C[(i + 1) + 1] - C[0 + 1]
    BY <1>2, <1>3, Zenon
  <2>4. C[i + 1] \in Int /\ C[(i + 1) + 1] \in Int
    BY <1>1, <1>2
  <2>5. CASE i + 1 \in Fr /\ BeginsIn(adv, H[(i + 1) + 1])
    <3>1. C[i + 1] = C[(i + 1) + 1] - 1
      BY <2>2, <2>5, Zenon DEF Less
    <3>2. B[i] = B[i + 1] - 1
      BY <1>7, <2>3, <2>4, <3>1
    <3> QED
      BY <2>1, <2>5, <3>2, Zenon DEF Less
  <2>6. CASE ~(i + 1 \in Fr /\ BeginsIn(adv, H[(i + 1) + 1]))
    <3>1. C[i + 1] = C[(i + 1) + 1]
      BY <2>2, <2>6, Zenon DEF Less
    <3>2. B[i] = B[i + 1]
      BY <2>3, <3>1, Zenon
    <3> QED
      BY <2>1, <2>6, <3>2, Zenon DEF Less
  <2> QED
    BY <2>5, <2>6
<1>12. Counts(m - 1, L, D, B, adv, idle2, fresh, Less(owed, idle /\ BeginsIn(adv, r)))
  BY <1>3, <1>6, <1>8, <1>9, <1>10, <1>11, Zenon DEF Counts
<1> QED
  BY <1>12, Zenon DEF L, Counted, Fewer

LEMMA CountsSent ==
  ASSUME NEW m \in Nat, NEW H, NEW adv, NEW idle, NEW fresh, NEW owed, NEW r, NEW G,
         G[m + 1] = r, \A i \in 0..m : G[i] = H[i],
         Counted(m, H, adv, idle, fresh, owed), NEW fresh2, NEW owed2,
         FreshAfter(fresh2, fresh, adv, r), owed2 \in Int, owed = Fewer(owed2, fresh, adv, r)
  PROVE  Counted(m + 1, G, adv, idle, fresh2, owed2)
<1> PICK Fr, C : Counts(m, H, Fr, C, adv, idle, fresh, owed)
  BY Zenon DEF Counted
<1> DEFINE D == {i \in 0..(m + 1) : IF i <= m THEN i \in Fr ELSE fresh2}
           B == [i \in 0..(m + 1) |-> IF i <= m THEN C[i] ELSE owed2]
<1>1. /\ C \in [0..m -> Int] /\ C[0] = 0 /\ C[m] = owed
      /\ 0 \in Fr <=> idle
      /\ m \in Fr <=> fresh
      /\ \A i \in 0..(m - 1) : i + 1 \in Fr <=> H[i + 1] = Released \/ (i \in Fr /\ ~BeginsIn(adv, H[i + 1]))
      /\ \A i \in 0..(m - 1) : C[i] = Less(C[i + 1], i \in Fr /\ BeginsIn(adv, H[i + 1]))
  BY Zenon DEF Counts
<1>2. /\ B \in [0..(m + 1) -> Int] /\ B[m + 1] = owed2 /\ \A i \in 0..m : B[i] = C[i]
  BY <1>1
<1>3. (\A i \in 0..m : i \in D <=> i \in Fr) /\ (m + 1 \in D <=> fresh2)
  <2>1. m + 1 \in 0..(m + 1) /\ ~(m + 1 <= m) /\ \A i \in 0..m : i \in 0..(m + 1) /\ i <= m
    OBVIOUS
  <2> QED
    BY <2>1, Zenon
<1> HIDE DEF D, B
<1>4. /\ \A i \in 0..((m + 1) - 1) : i \in 0..(m - 1) \/ i = m
      /\ \A i \in 0..(m - 1) : i \in 0..m /\ i + 1 \in 0..m
      /\ m \in 0..m /\ 0 \in 0..m
  OBVIOUS
<1>5. B[0] = 0 /\ (0 \in D <=> idle)
  BY <1>1, <1>2, <1>3, <1>4, Zenon
<1>6. \A i \in 0..((m + 1) - 1) : i + 1 \in D <=> G[i + 1] = Released \/ (i \in D /\ ~BeginsIn(adv, G[i + 1]))
  <2>1. ASSUME NEW i \in 0..(m - 1)
        PROVE  i + 1 \in D <=> G[i + 1] = Released \/ (i \in D /\ ~BeginsIn(adv, G[i + 1]))
    <3>1. G[i + 1] = H[i + 1] /\ (i \in D <=> i \in Fr) /\ (i + 1 \in D <=> i + 1 \in Fr)
      BY <1>3, <1>4, Zenon
    <3> QED
      BY <1>1, <3>1, Zenon
  <2>2. m + 1 \in D <=> G[m + 1] = Released \/ (m \in D /\ ~BeginsIn(adv, G[m + 1]))
    <3>1. m \in D <=> fresh
      BY <1>1, <1>3, <1>4, Zenon
    <3> QED
      BY <1>3, <3>1, Zenon DEF FreshAfter
  <2> QED
    BY <1>4, <2>1, <2>2, Zenon
<1>7. \A i \in 0..((m + 1) - 1) : B[i] = Less(B[i + 1], i \in D /\ BeginsIn(adv, G[i + 1]))
  <2>1. ASSUME NEW i \in 0..(m - 1) PROVE B[i] = Less(B[i + 1], i \in D /\ BeginsIn(adv, G[i + 1]))
    <3>1. B[i] = C[i] /\ B[i + 1] = C[i + 1] /\ G[i + 1] = H[i + 1] /\ (i \in D <=> i \in Fr)
      BY <1>2, <1>3, <1>4, Zenon
    <3>2. C[i] = Less(C[i + 1], i \in Fr /\ BeginsIn(adv, H[i + 1]))
      BY <1>1, Zenon
    <3> QED
      BY <3>1, <3>2, Zenon DEF Less
  <2>2. B[m] = Less(B[m + 1], m \in D /\ BeginsIn(adv, G[m + 1]))
    <3>1. B[m] = owed /\ B[m + 1] = owed2 /\ (m \in D <=> fresh)
      BY <1>1, <1>2, <1>3, <1>4, Zenon
    <3> QED
      BY <3>1, Zenon DEF Less, Fewer
  <2> QED
    BY <1>4, <2>1, <2>2, Zenon
<1>8. Counts(m + 1, G, D, B, adv, idle, fresh2, owed2)
  BY <1>2, <1>3, <1>5, <1>6, <1>7, Zenon DEF Counts
<1> QED
  BY <1>8, Zenon DEF Counted
-----------------------------------------------------------------------------
(* The invariant of the second keyboard: while nothing is lost, what was sent*)
(* and not taken are whole reports, each the keyboard's next, up to the last *)
(* one sent or to a message that will be refused.                            *)

Ending(line, conns, m, H, held, adv, pressed, fresh, owed) ==
  \/ EndsOf(line, conns, m, H, held) /\ Counted(m, H, adv, NothingHeld(pressed), fresh, owed)
  \/ BadOf(line, conns, m)
Coming(line, conns, held, adv, pressed, ghost, fresh, owed) ==
  \E m \in Nat : \E H :
    /\ GoodsOf(line, conns, m, H)
    /\ Begun(pressed, ghost, adv, H[0])
    /\ Ending(line, conns, m, H, held, adv, pressed, fresh, owed)

KrTyped ==
  /\ krLine \in Seq(Half) /\ krConns \in Seq(Seq(Half)) /\ krHeld \in Report
  /\ krPressed \in [Programs -> Seq(KeyTexts)] /\ krOwed \in Int
  /\ krAdvanced \in BOOLEAN /\ krGhost \in BOOLEAN /\ krFresh \in BOOLEAN /\ krLost \in BOOLEAN
KrHot == krAdvanced => AllHot(krPressed, krGhost)
KrComing == ~krLost => Coming(krLine, krConns, krHeld, krAdvanced, krPressed, krGhost, krFresh, krOwed)
KrInv == KrTyped /\ KrHot /\ KrComing

LEMMA EndOrBad ==
  ASSUME NEW line, NEW conns, NEW m, NEW H, NEW held, NEW adv, NEW pressed, NEW fresh, NEW owed,
         Ending(line, conns, m, H, held, adv, pressed, fresh, owed)
  PROVE  EndsOf(line, conns, m, H, held) \/ BadOf(line, conns, m)
BY Zenon DEF Ending

LEMMA ComingSent ==
  ASSUME NEW line \in Seq(Half), NEW conns \in Seq(Seq(Half)), NEW held \in Report, NEW adv, NEW pressed, NEW ghost,
         NEW fresh, NEW owed \in Int, Coming(line, conns, held, adv, pressed, ghost, fresh, owed),
         NEW r \in Report, Changes(held, r), NEW fresh2, NEW owed2 \in Int,
         FreshAfter(fresh2, fresh, adv, r), owed = Fewer(owed2, fresh, adv, r)
  PROVE  Coming(line \o Halves(r), conns, r, adv, pressed, ghost, fresh2, owed2)
<1> PICK m \in Nat : \E H :
       /\ GoodsOf(line, conns, m, H) /\ Begun(pressed, ghost, adv, H[0])
       /\ Ending(line, conns, m, H, held, adv, pressed, fresh, owed)
  BY Zenon DEF Coming
<1>1. PICK H :
       /\ GoodsOf(line, conns, m, H) /\ Begun(pressed, ghost, adv, H[0])
       /\ Ending(line, conns, m, H, held, adv, pressed, fresh, owed)
  OBVIOUS
<1>2. CASE EndsOf(line, conns, m, H, held) /\ Counted(m, H, adv, NothingHeld(pressed), fresh, owed)
  <2> DEFINE G == AndThen(H, m, r)
  <2>1. /\ GoodsOf(line \o Halves(r), conns, m + 1, G)
        /\ EndsOf(line \o Halves(r), conns, m + 1, G, r)
        /\ G[m + 1] = r /\ \A i \in 0..m : G[i] = H[i]
    <3>1. IsSent(line, conns, m, H, r)
      BY <1>1, <1>2, Sent, Zenon
    <3> QED
      BY <3>1, Zenon DEF IsSent
  <2> HIDE DEF G
  <2> DEFINE idle == NothingHeld(pressed)
  <2> HIDE DEF idle
  <2>3. Counted(m, H, adv, idle, fresh, owed)
    BY <1>2 DEF idle
  <2>4. Counted(m + 1, G, adv, idle, fresh2, owed2)
    BY <2>1, <2>3, CountsSent, Zenon
  <2>5. G[0] = H[0] /\ m + 1 \in Nat
    <3>1. 0 \in 0..m /\ m + 1 \in Nat
      OBVIOUS
    <3> QED
      BY <2>1, <3>1, Zenon
  <2>6. Ending(line \o Halves(r), conns, m + 1, G, r, adv, pressed, fresh2, owed2)
    BY <2>1, <2>4, Zenon DEF Ending, idle
  <2>7. Begun(pressed, ghost, adv, G[0])
    BY <1>1, <2>5, Zenon
  <2> QED
    BY <2>1, <2>5, <2>6, <2>7, Zenon DEF Coming
<1>3. CASE BadOf(line, conns, m)
  <2> DEFINE more == line \o Halves(r)
  <2>1. /\ more \in Seq(Half) /\ Len(more) = Len(line) + 2 /\ \A j \in 1..Len(line) : more[j] = line[j]
    BY HalvesIs
  <2> HIDE DEF more
  <2>2. Len(more) >= Len(line)
    BY <2>1
  <2>3. GoodsOf(more, conns, m, H) /\ BadOf(more, conns, m)
    BY <1>1, <1>3, <2>1, <2>2, LineGrows, Zenon
  <2>4. Ending(more, conns, m, H, r, adv, pressed, fresh2, owed2)
    BY <2>3, Zenon DEF Ending
  <2>5. Coming(more, conns, r, adv, pressed, ghost, fresh2, owed2)
    BY <1>1, <2>3, <2>4, Zenon DEF Coming
  <2> QED
    BY <2>5 DEF more
<1> QED
  BY <1>1, <1>2, <1>3, Zenon DEF Ending

LEMMA ComingRestart ==
  ASSUME NEW line \in Seq(Half), NEW conns \in Seq(Seq(Half)), NEW held \in Report, NEW adv, NEW pressed, NEW ghost,
         NEW fresh, NEW owed \in Int, Coming(line, conns, held, adv, pressed, ghost, fresh, owed),
         NEW x \in Half, BadHalf(x), NEW held2, NEW fresh2
  PROVE  Coming(Append(line, x), conns, held2, adv, pressed, ghost, fresh2, owed)
<1> PICK m \in Nat : \E H :
       /\ GoodsOf(line, conns, m, H) /\ Begun(pressed, ghost, adv, H[0])
       /\ Ending(line, conns, m, H, held, adv, pressed, fresh, owed)
  BY Zenon DEF Coming
<1>1. PICK H :
       /\ GoodsOf(line, conns, m, H) /\ Begun(pressed, ghost, adv, H[0])
       /\ Ending(line, conns, m, H, held, adv, pressed, fresh, owed)
  OBVIOUS
<1>2. EndsOf(line, conns, m, H, held) \/ BadOf(line, conns, m)
  BY <1>1, EndOrBad, Zenon
<1>3. GoodsOf(Append(line, x), conns, m, H) /\ BadOf(Append(line, x), conns, m)
  BY <1>1, <1>2, RestartSent, Zenon
<1>4. Ending(Append(line, x), conns, m, H, held2, adv, pressed, fresh2, owed)
  BY <1>3, Zenon DEF Ending
<1> QED
  BY <1>1, <1>3, <1>4, Zenon DEF Coming

LEMMA ComingForwarded ==
  ASSUME NEW line \in Seq(Half), NEW conns \in Seq(Seq(Half)), NEW held \in Report, NEW adv, NEW pressed, NEW ghost,
         NEW fresh, NEW owed \in Int, Coming(line, conns, held, adv, pressed, ghost, fresh, owed),
         NEW n \in 1..Len(line), NEW data, NEW rest, IsRead(line, n, data, rest)
  PROVE  Coming(rest, Append(conns, data), held, adv, pressed, ghost, fresh, owed)
<1> PICK m \in Nat : \E H :
       /\ GoodsOf(line, conns, m, H) /\ Begun(pressed, ghost, adv, H[0])
       /\ Ending(line, conns, m, H, held, adv, pressed, fresh, owed)
  BY Zenon DEF Coming
<1>1. PICK H :
       /\ GoodsOf(line, conns, m, H) /\ Begun(pressed, ghost, adv, H[0])
       /\ Ending(line, conns, m, H, held, adv, pressed, fresh, owed)
  OBVIOUS
<1>2. EndsOf(line, conns, m, H, held) \/ BadOf(line, conns, m)
  BY <1>1, EndOrBad, Zenon
<1> DEFINE d == Append(conns, data)
<1>3. \/ OnItsWay(line, conns, rest, d, m, H, held)
      \/ \E k \in 0..m : StopsAt(rest, d, k, H)
  BY <1>1, <1>2, Forwards, Zenon
<1> HIDE DEF d
<1>4. CASE OnItsWay(line, conns, rest, d, m, H, held)
  <2>1. /\ GoodsOf(rest, d, m, H)
        /\ Ending(rest, d, m, H, held, adv, pressed, fresh, owed)
    BY <1>1, <1>4, Zenon DEF OnItsWay, Ending
  <2> QED
    BY <1>1, <2>1, Zenon DEF Coming, d
<1>5. ASSUME NEW k \in 0..m, StopsAt(rest, d, k, H)
      PROVE  Coming(rest, d, held, adv, pressed, ghost, fresh, owed)
  <2>1. GoodsOf(rest, d, k, Upto(H, k)) /\ Ending(rest, d, k, Upto(H, k), held, adv, pressed, fresh, owed)
    BY <1>5, Zenon DEF StopsAt, Ending
  <2>2. k \in Nat /\ 0 \in 0..k
    OBVIOUS
  <2>3. Upto(H, k)[0] = H[0]
    BY <2>2, Zenon DEF Upto
  <2>4. Begun(pressed, ghost, adv, Upto(H, k)[0])
    BY <1>1, <2>3, Zenon
  <2> QED
    BY <2>1, <2>2, <2>4, Zenon DEF Coming
<1> QED
  BY <1>3, <1>4, <1>5, Zenon DEF d

WayTakes(line, conns, line2, conns2, held, r) ==
  \A m \in Nat : \A H :
    /\ GoodsOf(line, conns, m, H)
    /\ EndsOf(line, conns, m, H, held) \/ BadOf(line, conns, m)
    => ReportTaken(line, conns, line2, conns2, m, H, held, r)

NextTaken(line, conns, line2, conns2, held, p, r, adv, pressed, ghost, fresh, owed, pressed2, ghost2, owed2) ==
  /\ p \in Programs /\ r \in Report /\ pressed \in [Programs -> Seq(KeyTexts)] /\ owed \in Int /\ adv \in BOOLEAN
  /\ Coming(line, conns, held, adv, pressed, ghost, fresh, owed)
  /\ adv => AllHot(pressed, ghost)
  /\ WayTakes(line, conns, line2, conns2, held, r) /\ Only(pressed, p)
  /\ IsProcessed(p, r, adv, pressed, ghost, owed, pressed2, ghost2, owed2)

LEMMA ComingTaken ==
  ASSUME NEW line, NEW conns, NEW line2, NEW conns2, NEW held, NEW p, NEW r, NEW adv, NEW pressed, NEW ghost,
         NEW fresh, NEW owed, NEW pressed2, NEW ghost2, NEW owed2,
         NextTaken(line, conns, line2, conns2, held, p, r, adv, pressed, ghost, fresh, owed, pressed2, ghost2, owed2)
  PROVE  Coming(line2, conns2, held, adv, pressed2, ghost2, fresh, owed2)
<1>0. /\ p \in Programs /\ r \in Report /\ pressed \in [Programs -> Seq(KeyTexts)] /\ owed \in Int /\ adv \in BOOLEAN
      /\ Coming(line, conns, held, adv, pressed, ghost, fresh, owed)
      /\ adv => AllHot(pressed, ghost)
      /\ WayTakes(line, conns, line2, conns2, held, r) /\ Only(pressed, p)
      /\ IsProcessed(p, r, adv, pressed, ghost, owed, pressed2, ghost2, owed2)
  BY Zenon DEF NextTaken
<1> PICK m \in Nat : \E H :
       /\ GoodsOf(line, conns, m, H) /\ Begun(pressed, ghost, adv, H[0])
       /\ Ending(line, conns, m, H, held, adv, pressed, fresh, owed)
  BY <1>0, Zenon DEF Coming
<1>1. PICK H :
       /\ GoodsOf(line, conns, m, H) /\ Begun(pressed, ghost, adv, H[0])
       /\ Ending(line, conns, m, H, held, adv, pressed, fresh, owed)
  OBVIOUS
<1>2. EndsOf(line, conns, m, H, held) \/ BadOf(line, conns, m)
  BY <1>1, EndOrBad, Zenon
<1> DEFINE L == Later(H, m)
<1>3. /\ m >= 1 /\ r = H[1]
      /\ GoodsOf(line2, conns2, m - 1, L)
      /\ EndsOf(line, conns, m, H, held) => EndsOf(line2, conns2, m - 1, L, held)
      /\ BadOf(line, conns, m) => BadOf(line2, conns2, m - 1)
  BY <1>0, <1>1, <1>2, Zenon DEF WayTakes, ReportTaken
<1>4. H \in [0..m -> Report] /\ Changes(H[0], r)
  <2>1. H \in [0..m -> Report] /\ \A i \in 1..m : Changes(H[i - 1], H[i])
    BY <1>1, Zenon DEF GoodsOf
  <2>2. 1 \in 1..m /\ H[1 - 1] = H[0]
    BY <1>3
  <2> QED
    BY <1>3, <2>1, <2>2, Zenon
<1>5. H[0] \in Report /\ L[0] = r
  <2>1. 0 \in 0..m /\ 0 \in 0..(m - 1) /\ H[0 + 1] = H[1]
    BY <1>3
  <2>2. L[0] = H[0 + 1]
    BY <2>1, Zenon DEF Later
  <2> QED
    BY <1>3, <1>4, <2>1, <2>2, Zenon
<1> HIDE DEF L
<1>6. /\ Begun(pressed2, ghost2, adv, r)
      /\ FreshAfter(NothingHeld(pressed2), NothingHeld(pressed), adv, r)
      /\ owed2 = Fewer(owed, NothingHeld(pressed), adv, r)
  <2> DEFINE h == H[0]
  <2>1. h \in Report /\ Changes(h, r) /\ Begun(pressed, ghost, adv, h)
    BY <1>1, <1>4, <1>5
  <2> HIDE DEF h
  <2>2. Follows(r, adv, pressed, owed, pressed2, ghost2, owed2)
    BY <1>0, <2>1, StaysBegun, Zenon
  <2> QED
    BY <2>2, Zenon DEF Follows
<1>7. Ending(line2, conns2, m - 1, L, held, adv, pressed2, fresh, owed2)
  <2>1. CASE BadOf(line, conns, m)
    BY <1>3, <2>1, Zenon DEF Ending
  <2>2. CASE EndsOf(line, conns, m, H, held) /\ Counted(m, H, adv, NothingHeld(pressed), fresh, owed)
    <3> DEFINE idle == NothingHeld(pressed)
               idle2 == NothingHeld(pressed2)
    <3>1. Counted(m, H, adv, idle, fresh, owed)
      BY <2>2, Zenon
    <3>2. FreshAfter(idle2, idle, adv, r) /\ owed2 = Fewer(owed, idle, adv, r)
      BY <1>6
    <3> HIDE DEF idle, idle2
    <3>3. Counted(m - 1, L, adv, idle2, fresh, Fewer(owed, idle, adv, r))
      BY <1>3, <3>1, <3>2, CountsTaken, Zenon DEF L
    <3>4. Counted(m - 1, L, adv, idle2, fresh, owed2)
      BY <3>2, <3>3, Zenon
    <3> QED
      BY <1>3, <2>2, <3>4, Zenon DEF Ending, idle2
  <2> QED
    BY <1>1, <2>1, <2>2, Zenon DEF Ending
<1>8. m - 1 \in Nat /\ Begun(pressed2, ghost2, adv, L[0])
  <2>1. m - 1 \in Nat
    BY <1>3
  <2> QED
    BY <1>5, <1>6, <2>1, Zenon
<1> QED
  BY <1>3, <1>7, <1>8, Zenon DEF Coming

LEMMA KrStarts == KeyReportsInit => KrInv
<1> SUFFICES ASSUME KeyReportsInit PROVE KrInv
  OBVIOUS
<1>1. /\ krHeld = Released /\ krLine = <<>> /\ krConns = <<>> /\ krAdvanced \in BOOLEAN
      /\ krPressed = [p \in Programs |-> <<>>] /\ krOwed = 0 /\ krFresh = TRUE /\ krGhost = FALSE /\ krLost = FALSE
  BY DEF KeyReportsInit
<1>2. Released \in Report
  BY DEF Released, Report
<1>3. KrTyped
  <2>1. <<>> \in Seq(Half) /\ <<>> \in Seq(Seq(Half)) /\ <<>> \in Seq(KeyTexts) /\ 0 \in Int
        /\ TRUE \in BOOLEAN /\ FALSE \in BOOLEAN
    OBVIOUS
  <2>2. krPressed \in [Programs -> Seq(KeyTexts)]
    <3>1. \A p \in Programs : <<>> \in Seq(KeyTexts)
      BY <2>1, Zenon
    <3> QED
      BY <1>1, <3>1
  <2> QED
    BY <1>1, <1>2, <2>1, <2>2, Zenon DEF KrTyped
<1>4. NothingHeld(krPressed)
  BY <1>1, Zenon DEF NothingHeld
<1>5. KrHot
  BY <1>1, <1>4, Zenon DEF KrHot, AllHot, NothingHeld
<1> DEFINE H == [i \in 0..0 |-> Released]
           C == [i \in 0..0 |-> 0]
           Fr == {0}
<1>6. H \in [0..0 -> Report] /\ H[0] = Released /\ C \in [0..0 -> Int] /\ C[0] = 0
  BY <1>2
<1>7. 0 \in Fr
  OBVIOUS
<1> HIDE DEF H, C, Fr
<1>8. 0 \in Nat /\ (\A i \in 1..0 : FALSE) /\ (\A i \in 0..(0 - 1) : FALSE) /\ 0 - 0 = 0 /\ 2 * 0 = 0 /\ 0 >= 0
      /\ Len(<<>>) = 0
  OBVIOUS
<1>9. GoodsOf(<<>>, <<>>, 0, H) /\ EndsOf(<<>>, <<>>, 0, H, Released)
  BY <1>6, <1>8, Zenon DEF GoodsOf, EndsOf
<1>10. Counted(0, H, krAdvanced, NothingHeld(krPressed), TRUE, 0)
  BY <1>4, <1>6, <1>7, <1>8, Zenon DEF Counted, Counts
<1>11. Begun(krPressed, FALSE, krAdvanced, H[0])
  <2>1. \E p \in Programs : Only(krPressed, p)
    BY <1>4, Zenon DEF NothingHeld, Only, Programs
  <2> QED
    BY <1>4, <1>6, <2>1, Zenon DEF Begun, NothingHeld
<1>12. Coming(<<>>, <<>>, Released, krAdvanced, krPressed, FALSE, TRUE, 0)
  BY <1>8, <1>9, <1>10, <1>11, Zenon DEF Coming, Ending
<1> QED
  BY <1>1, <1>3, <1>5, <1>12, Zenon DEF KrInv, KrComing

LEMMA KrMeans == KrInv => KeyReportsSafe
<1> SUFFICES ASSUME KrInv PROVE KeyReportsSafe
  OBVIOUS
<1>1. KrTyped /\ KrHot /\ KrComing
  BY Zenon DEF KrInv
<1>2. ASSUME ~krLost
      PROVE  /\ krAdvanced \/ ~krGhost
             /\ NothingOnItsWay => NothingHeld(krPressed) /\ krOwed = 0
  <2> PICK m \in Nat : \E H :
         /\ GoodsOf(krLine, krConns, m, H) /\ Begun(krPressed, krGhost, krAdvanced, H[0])
         /\ Ending(krLine, krConns, m, H, krHeld, krAdvanced, krPressed, krFresh, krOwed)
    BY <1>1, <1>2, Zenon DEF KrComing, Coming
  <2>1. PICK H :
         /\ GoodsOf(krLine, krConns, m, H) /\ Begun(krPressed, krGhost, krAdvanced, H[0])
         /\ Ending(krLine, krConns, m, H, krHeld, krAdvanced, krPressed, krFresh, krOwed)
    OBVIOUS
  <2>2. ASSUME NothingOnItsWay PROVE NothingHeld(krPressed) /\ krOwed = 0
    <3>1. krLine = <<>> /\ krConns = <<>> /\ krHeld = Released
      BY <2>2, Zenon DEF NothingOnItsWay
    <3>2. Len(krLine) = 0 /\ Len(krConns) = 0
      BY <3>1
    <3>3. ~BadOf(krLine, krConns, m)
      <4>1. ~(m < 0) /\ ~(0 > 2 * (m - 0))
        OBVIOUS
      <4> QED
        BY <3>2, <4>1, Zenon DEF BadOf
    <3>4. EndsOf(krLine, krConns, m, H, krHeld) /\ Counted(m, H, krAdvanced, NothingHeld(krPressed), krFresh, krOwed)
      BY <2>1, <3>3, Zenon DEF Ending
    <3>5. m = 0 /\ H[m] = Released
      <4>1. 0 = 2 * (m - 0) /\ H[m] = Released
        BY <3>1, <3>2, <3>4, Zenon DEF EndsOf
      <4> QED
        BY <4>1
    <3>6. NothingHeld(krPressed)
      BY <2>1, <3>5, Zenon DEF Begun
    <3>7. krOwed = 0
      BY <3>4, <3>5, Zenon DEF Counted, Counts
    <3> QED
      BY <3>6, <3>7
  <2> QED
    BY <2>1, <2>2, Zenon DEF Begun
<1>3. RunsWhatWasHeld
  <2>1. krGhost => ~krAdvanced
    BY <1>1, Zenon DEF KrHot, AllHot
  <2> QED
    BY <1>2, <2>1, Zenon DEF RunsWhatWasHeld
<1>4. ReleasesArrive /\ EachRunsOnce
  BY <1>2, Zenon DEF ReleasesArrive, EachRunsOnce, NothingHeld
<1> QED
  BY <1>3, <1>4, Zenon DEF KeyReportsSafe

LEMMA ReportKeeps ==
  ASSUME KrInv, NEW p \in Programs, NEW data \in Seq(Half), NEW overtakes, ProcessReceivedData(p, data, overtakes),
         krAdvanced' = krAdvanced, krHeld' = krHeld, krFresh' = krFresh,
         krLine' \in Seq(Half), krConns' \in Seq(Seq(Half)),
         ~overtakes /\ Valid(data) => WayTakes(krLine, krConns, krLine', krConns', krHeld, data[1].of)
  PROVE  KrInv'
<1>1. KrTyped /\ KrHot /\ KrComing
  BY Zenon DEF KrInv
<1>2. /\ krHeld \in Report /\ krPressed \in [Programs -> Seq(KeyTexts)] /\ krOwed \in Int
      /\ krAdvanced \in BOOLEAN /\ krGhost \in BOOLEAN /\ krFresh \in BOOLEAN /\ krLost \in BOOLEAN
  BY <1>1, Zenon DEF KrTyped
<1>3. krLost' \in BOOLEAN /\ (~krLost' => ~krLost /\ Valid(data) /\ ~overtakes /\ Only(krPressed, p))
  <2>1. krLost' = \/ krLost \/ ~Valid(data) \/ overtakes
                  \/ \E q \in Programs \ {p} : krPressed[q] # <<>>
    BY Zenon DEF ProcessReceivedData
  <2>2. ~(\E q \in Programs \ {p} : krPressed[q] # <<>>) => Only(krPressed, p)
    BY Zenon DEF Only
  <2> QED
    BY <2>1, <2>2, Zenon
<1>4. CASE ~Valid(data)
  <2>1. krPressed' = krPressed /\ krGhost' = krGhost /\ krOwed' = krOwed /\ krLost'
    <3>1. Ignored
      BY <1>4, Zenon DEF ProcessReceivedData
    <3> QED
      BY <1>3, <1>4, <3>1, Zenon DEF Ignored, krMacro
  <2>2. KrTyped'
    BY <1>2, <1>3, <2>1, Zenon DEF KrTyped
  <2>3. KrHot' /\ KrComing'
    BY <1>1, <2>1, Zenon DEF KrHot, KrComing
  <2> QED
    BY <2>2, <2>3, Zenon DEF KrInv
<1>5. CASE Valid(data)
  <2> DEFINE r == data[1].of
  <2>1. r \in Report
    BY <1>5, ValidIs
  <2>2. ProcessReport(p, r)
    BY <1>5, Zenon DEF ProcessReceivedData
  <2> HIDE DEF r
  <2>3. /\ IsProcessed(p, r, krAdvanced, krPressed, krGhost, krOwed, krPressed', krGhost', krOwed')
        /\ krGhost' \in BOOLEAN
    BY <1>2, <2>1, <2>2, ProcessIs, Zenon
  <2>4. IsAfter(p, r, krAdvanced, krPressed, krGhost, krOwed, krPressed', krGhost', krOwed')
    BY <1>2, <2>1, <2>3, PressedTyped, Zenon
  <2>5. KrTyped'
    BY <1>2, <1>3, <2>3, <2>4, Zenon DEF KrTyped, IsAfter
  <2>6. KrHot'
    <3>1. CASE krAdvanced
      <4>1. IsProcessed(p, r, TRUE, krPressed, krGhost, krOwed, krPressed', krGhost', krOwed')
        <5>1. krAdvanced = TRUE
          BY <3>1, <1>2
        <5> QED
          BY <2>3, <5>1, Zenon
      <4>2. AllHot(krPressed, krGhost)
        BY <1>1, <3>1, Zenon DEF KrHot
      <4>3. AllHot(krPressed', krGhost')
        BY <1>2, <2>1, <4>1, <4>2, StaysHot, Zenon
      <4> QED
        BY <4>3, Zenon DEF KrHot
    <3>2. CASE ~krAdvanced
      BY <3>2, Zenon DEF KrHot
    <3> QED
      BY <3>1, <3>2
  <2>7. KrComing'
    <3> SUFFICES ASSUME ~krLost' PROVE Coming(krLine', krConns', krHeld', krAdvanced', krPressed', krGhost', krFresh', krOwed')
      BY Zenon DEF KrComing
    <3>1. /\ ~krLost /\ Only(krPressed, p) /\ WayTakes(krLine, krConns, krLine', krConns', krHeld, r)
      BY <1>3, Zenon DEF r
    <3>2. Coming(krLine, krConns, krHeld, krAdvanced, krPressed, krGhost, krFresh, krOwed)
      BY <1>1, <3>1, Zenon DEF KrComing
    <3>3. krAdvanced => AllHot(krPressed, krGhost)
      BY <1>1, Zenon DEF KrHot
    <3>4. Coming(krLine', krConns', krHeld, krAdvanced, krPressed', krGhost', krFresh, krOwed')
      <4>1. NextTaken(krLine, krConns, krLine', krConns', krHeld, p, r, krAdvanced, krPressed, krGhost, krFresh, krOwed,
                     krPressed', krGhost', krOwed')
        BY <1>2, <2>1, <2>3, <3>1, <3>2, <3>3, Zenon DEF NextTaken
      <4> QED
        BY <4>1, ComingTaken, Zenon
    <3> QED
      BY <3>4, Zenon
  <2> QED
    BY <2>5, <2>6, <2>7, Zenon DEF KrInv
<1> QED
  BY <1>4, <1>5

LEMMA LineTakes ==
  ASSUME NEW line \in Seq(Half), NEW n \in 1..Len(line), NEW data, NEW rest, IsRead(line, n, data, rest), Valid(data), NEW held
  PROVE  WayTakes(line, <<>>, rest, <<>>, held, data[1].of)
BY LineTaken, Zenon DEF WayTakes

LEMMA ConnTakes ==
  ASSUME NEW line \in Seq(Half), NEW conns \in Seq(Seq(Half)), Len(conns) >= 1, Valid(conns[1]), NEW held
  PROVE  WayTakes(line, conns, line, RemoveAt(conns, 1), held, conns[1][1].of)
BY ConnTaken, Zenon DEF WayTakes

LEMMA RemovedTyped ==
  ASSUME NEW T, NEW s \in Seq(T), NEW k \in 1..Len(s)
  PROVE  RemoveAt(s, k) \in Seq(T)
<1>1. k - 1 \in 0..Len(s) /\ k \in 0..Len(s)
  OBVIOUS
<1>2. SubSeq(s, 1, k - 1) \in Seq(T) /\ SubSeq(s, k + 1, Len(s)) \in Seq(T)
  BY <1>1, SplitAt, Zenon
<1>3. \A a, b \in Seq(T) : a \o b \in Seq(T)
  OBVIOUS
<1> QED
  BY <1>2, <1>3, Zenon DEF RemoveAt

LEMMA KrKeeps == KrInv /\ [KeyReportsNext]_krVars => KrInv'
<1> SUFFICES ASSUME KrInv, [KeyReportsNext]_krVars PROVE KrInv'
  OBVIOUS
<1>0. /\ KrTyped /\ KrHot /\ KrComing
      /\ krLine \in Seq(Half) /\ krConns \in Seq(Seq(Half)) /\ krHeld \in Report
      /\ krPressed \in [Programs -> Seq(KeyTexts)] /\ krOwed \in Int
      /\ krAdvanced \in BOOLEAN /\ krGhost \in BOOLEAN /\ krFresh \in BOOLEAN /\ krLost \in BOOLEAN
  BY Zenon DEF KrInv, KrTyped
<1>1. CASE SendReport
  <2>1. PICK r \in Report :
          /\ (r.mod # krHeld.mod) # (r.key # krHeld.key) \/ (r = Released /\ krHeld # r)
          /\ krHeld' = r
          /\ krLine' = krLine \o Halves(r)
          /\ krOwed' = IF krFresh /\ Begins(r) THEN krOwed + 1 ELSE krOwed
          /\ krFresh' = (r = Released \/ (krFresh /\ ~Begins(r)))
    BY <1>1, Zenon DEF SendReport
  <2>2. /\ krAdvanced' = krAdvanced /\ krConns' = krConns /\ krPressed' = krPressed
        /\ krGhost' = krGhost /\ krLost' = krLost
    BY <1>1, Zenon DEF SendReport, krSettings, krMacro
  <2>3. Changes(krHeld, r) /\ (Begins(r) <=> BeginsIn(krAdvanced, r))
    BY <2>1, Zenon DEF Changes, Begins, BeginsIn
  <2>4. FreshAfter(krFresh', krFresh, krAdvanced, r) /\ krFresh' \in BOOLEAN
    BY <2>1, <2>3, Zenon DEF FreshAfter
  <2>5. krOwed' \in Int /\ krOwed = Fewer(krOwed', krFresh, krAdvanced, r)
    <3>1. CASE krFresh /\ BeginsIn(krAdvanced, r)
      <4>1. krOwed' = krOwed + 1
        BY <2>1, <2>3, <3>1, Zenon
      <4>2. krOwed' \in Int /\ krOwed = krOwed' - 1
        BY <1>0, <4>1
      <4> QED
        BY <3>1, <4>2, Zenon DEF Fewer, Less
    <3>2. CASE ~(krFresh /\ BeginsIn(krAdvanced, r))
      <4>1. krOwed' = krOwed
        BY <2>1, <2>3, <3>2, Zenon
      <4> QED
        BY <1>0, <3>2, <4>1, Zenon DEF Fewer, Less
    <3> QED
      BY <3>1, <3>2
  <2>6. krLine \o Halves(r) \in Seq(Half)
    BY <1>0, HalvesIs
  <2>7. KrTyped'
    BY <1>0, <2>1, <2>2, <2>4, <2>5, <2>6, Zenon DEF KrTyped
  <2>8. KrHot'
    BY <1>0, <2>2, Zenon DEF KrHot
  <2>9. KrComing'
    <3> SUFFICES ASSUME ~krLost' PROVE Coming(krLine', krConns', krHeld', krAdvanced', krPressed', krGhost', krFresh', krOwed')
      BY Zenon DEF KrComing
    <3>1. Coming(krLine, krConns, krHeld, krAdvanced, krPressed, krGhost, krFresh, krOwed)
      BY <1>0, <2>2, Zenon DEF KrComing
    <3>2. Coming(krLine \o Halves(r), krConns, r, krAdvanced, krPressed, krGhost, krFresh', krOwed')
      BY <1>0, <2>3, <2>4, <2>5, <3>1, ComingSent, Zenon
    <3> QED
      BY <2>1, <2>2, <3>2, Zenon
  <2> QED
    BY <2>7, <2>8, <2>9, Zenon DEF KrInv
<1>2. CASE Restarts
  <2> DEFINE x == [of |-> Short, half |-> 1]
  <2>1. x \in Half /\ BadHalf(x) /\ Released \in Report
    BY DEF Half, BadHalf, Released, Report
  <2>2. /\ krHeld' = Released /\ krFresh' = TRUE /\ krLine' = Append(krLine, x)
        /\ krAdvanced' = krAdvanced /\ krConns' = krConns /\ krPressed' = krPressed
        /\ krGhost' = krGhost /\ krLost' = krLost /\ krOwed' = krOwed
    BY <1>2, Zenon DEF Restarts, krSettings, krMacro
  <2> HIDE DEF x
  <2>3. Append(krLine, x) \in Seq(Half) /\ TRUE \in BOOLEAN
    BY <1>0, <2>1
  <2>4. KrTyped'
    BY <1>0, <2>1, <2>2, <2>3, Zenon DEF KrTyped
  <2>5. KrHot'
    BY <1>0, <2>2, Zenon DEF KrHot
  <2>6. KrComing'
    <3> SUFFICES ASSUME ~krLost' PROVE Coming(krLine', krConns', krHeld', krAdvanced', krPressed', krGhost', krFresh', krOwed')
      BY Zenon DEF KrComing
    <3>1. Coming(krLine, krConns, krHeld, krAdvanced, krPressed, krGhost, krFresh, krOwed)
      BY <1>0, <2>2, Zenon DEF KrComing
    <3>2. Coming(Append(krLine, x), krConns, Released, krAdvanced, krPressed, krGhost, TRUE, krOwed)
      BY <1>0, <2>1, <3>1, ComingRestart, Zenon
    <3> QED
      BY <2>2, <3>2, Zenon
  <2> QED
    BY <2>4, <2>5, <2>6, Zenon DEF KrInv
<1>3. CASE OnSerialData
  <2>1. PICK n \in 1..Len(krLine) :
          /\ krLine' = SubSeq(krLine, n + 1, Len(krLine))
          /\ IF krForward /\ krInVm THEN SendTcpBlocking(SubSeq(krLine, 1, n))
             ELSE ProcessReceivedData("host", SubSeq(krLine, 1, n), krConns # <<>>) /\ UNCHANGED krConns
          /\ UNCHANGED <<krHeld, krSent, krFresh, krSettings, krInVm>>
    BY <1>3, Zenon DEF OnSerialData
  <2> DEFINE data == SubSeq(krLine, 1, n)
             rest == SubSeq(krLine, n + 1, Len(krLine))
  <2>2. IsRead(krLine, n, data, rest)
    BY <1>0, ReadIs
  <2>3. /\ krLine' = rest /\ krHeld' = krHeld /\ krFresh' = krFresh /\ krAdvanced' = krAdvanced
        /\ \/ SendTcpBlocking(data)
           \/ ProcessReceivedData("host", data, krConns # <<>>) /\ krConns' = krConns
    BY <2>1, Zenon DEF krSettings
  <2> HIDE DEF data, rest
  <2>4. data \in Seq(Half) /\ rest \in Seq(Half)
    BY <2>2, Zenon DEF IsRead
  <2>5. CASE SendTcpBlocking(data)
    <3>1. CASE krConns' = Append(krConns, data) /\ UNCHANGED <<krMacro, krOwed, krLost>>
      <4>1. /\ krConns' = Append(krConns, data) /\ krPressed' = krPressed /\ krGhost' = krGhost
            /\ krOwed' = krOwed /\ krLost' = krLost
        BY <3>1, Zenon DEF krMacro
      <4>2. Append(krConns, data) \in Seq(Seq(Half))
        BY <1>0, <2>4, AppendProperties
      <4>3. KrTyped'
        BY <1>0, <2>3, <2>4, <4>1, <4>2, Zenon DEF KrTyped
      <4>4. KrHot'
        BY <1>0, <2>3, <4>1, Zenon DEF KrHot
      <4>5. KrComing'
        <5> SUFFICES ASSUME ~krLost' PROVE Coming(krLine', krConns', krHeld', krAdvanced', krPressed', krGhost', krFresh', krOwed')
          BY Zenon DEF KrComing
        <5>1. Coming(krLine, krConns, krHeld, krAdvanced, krPressed, krGhost, krFresh, krOwed)
          BY <1>0, <4>1, Zenon DEF KrComing
        <5>2. Coming(rest, Append(krConns, data), krHeld, krAdvanced, krPressed, krGhost, krFresh, krOwed)
          BY <1>0, <2>2, <5>1, ComingForwarded, Zenon
        <5> QED
          BY <2>3, <4>1, <5>2, Zenon
      <4> QED
        BY <4>3, <4>4, <4>5, Zenon DEF KrInv
    <3>2. CASE krLost' = TRUE /\ UNCHANGED <<krConns, krMacro, krOwed>>
      <4>1. /\ krConns' = krConns /\ krPressed' = krPressed /\ krGhost' = krGhost
            /\ krOwed' = krOwed /\ krLost' /\ krLost' \in BOOLEAN
        BY <3>2, Zenon DEF krMacro
      <4>2. KrTyped'
        BY <1>0, <2>3, <2>4, <4>1, Zenon DEF KrTyped
      <4>3. KrHot' /\ KrComing'
        BY <1>0, <2>3, <4>1, Zenon DEF KrHot, KrComing
      <4> QED
        BY <4>2, <4>3, Zenon DEF KrInv
    <3> QED
      BY <2>5, <3>1, <3>2, Zenon DEF SendTcpBlocking
  <2>6. CASE ProcessReceivedData("host", data, krConns # <<>>) /\ krConns' = krConns
    <3>1. "host" \in Programs
      BY DEF Programs
    <3>2. ~(krConns # <<>>) /\ Valid(data) => WayTakes(krLine, krConns, krLine', krConns', krHeld, data[1].of)
      BY <1>0, <2>2, <2>3, <2>6, LineTakes, Zenon
    <3>3. krLine' \in Seq(Half) /\ krConns' \in Seq(Seq(Half))
      BY <1>0, <2>3, <2>4, <2>6, Zenon
    <3> QED
      BY <2>3, <2>4, <2>6, <3>1, <3>2, <3>3, ReportKeeps, Zenon
  <2> QED
    BY <2>3, <2>5, <2>6, Zenon
<1>4. CASE Echo
  <2>1. PICK k \in 1..Len(krConns) :
          /\ krConns' = RemoveAt(krConns, k)
          /\ ProcessReceivedData("guest", krConns[k], k # 1)
          /\ UNCHANGED <<krLineVars, krSettings, krInVm>>
    BY <1>4, Zenon DEF Echo
  <2>2. krLine' = krLine /\ krHeld' = krHeld /\ krFresh' = krFresh /\ krAdvanced' = krAdvanced
    BY <2>1, Zenon DEF krLineVars, krSettings
  <2>3. krConns[k] \in Seq(Half) /\ Len(krConns) >= 1 /\ "guest" \in Programs
    BY <1>0 DEF Programs
  <2>4. krConns' \in Seq(Seq(Half)) /\ krLine' \in Seq(Half)
    BY <1>0, <2>1, <2>2, RemovedTyped, Zenon
  <2>5. ~(k # 1) /\ Valid(krConns[k]) => WayTakes(krLine, krConns, krLine', krConns', krHeld, krConns[k][1].of)
    BY <1>0, <2>1, <2>2, <2>3, ConnTakes, Zenon
  <2> QED
    BY <2>1, <2>2, <2>3, <2>4, <2>5, ReportKeeps, Zenon
<1>5. CASE ToForeground \/ UNCHANGED krVars
  <2>1. /\ krLine' = krLine /\ krHeld' = krHeld /\ krFresh' = krFresh /\ krAdvanced' = krAdvanced
        /\ krConns' = krConns /\ krPressed' = krPressed /\ krGhost' = krGhost /\ krLost' = krLost /\ krOwed' = krOwed
    BY <1>5, Zenon DEF ToForeground, krVars, krLineVars, krSettings, krMacro
  <2> QED
    BY <1>0, <2>1, Zenon DEF KrInv, KrTyped, KrHot, KrComing
<1> QED
  BY <1>1, <1>2, <1>3, <1>4, <1>5, Zenon DEF KeyReportsNext
-----------------------------------------------------------------------------
(* The data port alone: however the reads cut the stream, its lines are      *)
(* delivered whole, in order and once (StdDataSerialHandler::OnUartDataRecv).*)
THEOREM LinesAreWhole == DataLinesSpec => []LinesWhole
<1> QED
  BY DlStarts, DlKeeps, DlMeans, PTL DEF DataLinesSpec

(* The second keyboard alone: no macro of one combination runs on a report of*)
(* another, and unless a report was lost every release arrives and every     *)
(* combination that began something was run once.                            *)
THEOREM ReportsAreSafe == KeyReportsSpec => []KeyReportsSafe
<1> QED
  BY KrStarts, KrKeeps, KrMeans, PTL DEF KeyReportsSpec

(* The log panel alone: it shows every entry accepted since it was cleared,  *)
(* or will, in order, and none twice unless a search met it while it waited. *)
THEOREM LogIsSafe == LogSpec => []LogSafe
<1> QED
  BY LeInit, LeKeeps, LeMeans, PTL DEF LogSpec

(* Beside each other and the other services: a step of one leaves the others *)
(* alone.                                                                    *)
LEMMA StepsOfStreams ==
  [MCNext]_<<part, dsVars, dlVars, tsVars, snVars, mkVars, maVars, edVars, exVars>> =>
    [DataLinesNext]_dlVars /\ [KeyReportsNext]_krVars /\ [LogNext]_lgVars
<1> DEFINE Steps == [DataLinesNext]_dlVars /\ [KeyReportsNext]_krVars /\ [LogNext]_lgVars
<1> SUFFICES ASSUME [MCNext]_<<part, dsVars, dlVars, tsVars, snVars, mkVars, maVars, edVars, exVars>>
             PROVE  Steps
  OBVIOUS
<1>1. /\ UNCHANGED exVars => UNCHANGED krVars /\ UNCHANGED lgVars
      /\ UNCHANGED seVars => UNCHANGED dlVars
  BY Zenon DEF exVars, seVars
<1>2. CASE UNCHANGED <<part, dsVars, dlVars, tsVars, snVars, mkVars, maVars, edVars, exVars>>
  BY <1>1, <1>2, Zenon
<1>3. CASE MCNext
  BY <1>1, <1>3, Zenon DEF MCNext
<1> QED
  BY <1>2, <1>3

(* Whatever else runs, a line of serial data reaches the macros whole and    *)
(* once however the reads cut it; no macro runs for keys that were not held, *)
(* and every release arrives unless a report was lost; and the log shows     *)
(* what was written, in order and once: for any number of bytes, letters,    *)
(* keys, reports and entries.                                                *)
THEOREM StreamsAreWhole == MCSpec => []StreamsWhole
<1>1. MCInit => DlInv /\ KrInv /\ LeInv
  BY DlStarts, KrStarts, LeInit DEF MCInit
<1>2. DlInv /\ KrInv /\ LeInv /\ [MCNext]_<<part, dsVars, dlVars, tsVars, snVars, mkVars, maVars, edVars, exVars>>
        => DlInv' /\ KrInv' /\ LeInv'
  BY StepsOfStreams, DlKeeps, KrKeeps, LeKeeps
<1>3. DlInv /\ KrInv /\ LeInv => StreamsWhole
  BY DlMeans, KrMeans, LeMeans DEF StreamsWhole
<1> QED
  BY <1>1, <1>2, <1>3, PTL DEF MCSpec
=============================================================================
