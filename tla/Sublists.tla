------------------------------ MODULE Sublists ------------------------------
(***************************************************************************)
(* The part of a list that a filter, a level or a deletion leaves, the     *)
(* sums of a list's beginnings, and the facts about them that the proofs   *)
(* rest on.  SelectSeq and FoldLeft take an operator, which the provers    *)
(* cannot expand; here the elements kept are a set, what is added a list.  *)
(***************************************************************************)
EXTENDS Integers, Sequences, WellFoundedInduction, TLAPS

(* The elements of s that are in S, in their order, up to the n-th.          *)
KeptUpTo(s, S) ==
  LET kept[n \in 0..Len(s)] == IF n = 0 THEN <<>>
                               ELSE IF s[n] \in S THEN Append(kept[n - 1], s[n]) ELSE kept[n - 1]
  IN  kept
Within(s, S) == KeptUpTo(s, S)[Len(s)]

(* The sums of the first 0, 1, ... numbers of a list.                        *)
SumsTo(lens) ==
  LET sum[n \in 0..Len(lens)] == IF n = 0 THEN 0 ELSE sum[n - 1] + lens[n]
  IN  sum

(* A set of numbers has a least one. *)
LEMMA LeastOf ==
  ASSUME NEW D, D \subseteq Nat, D # {}
  PROVE  \E d \in D : \A e \in D : d <= e
<1> DEFINE Below == {p \in Nat \X Nat : p[1] < p[2]}
<1>1. OpToRel(<, Nat) = Below
  BY DEF OpToRel
<1>2. IsWellFoundedOn(Below, Nat)
  BY <1>1, NatLessThanWellFounded
<1>3. PICK d \in D : \A e \in D : ~(<<e, d>> \in Below)
  BY <1>2, WFMin
<1>4. \A e \in D : ~(e < d)
  BY <1>3
<1> QED
  BY <1>4

(* Induction, for a set of numbers. *)
LEMMA SetInduction ==
  ASSUME NEW S, 0 \in S, \A n \in Nat : n \in S => n + 1 \in S
  PROVE  \A n \in Nat : n \in S
<1> SUFFICES ASSUME ~(\A n \in Nat : n \in S) PROVE FALSE
  OBVIOUS
<1> DEFINE D == {n \in Nat : n \notin S}
<1>1. PICK d \in D : \A e \in D : d <= e
  BY LeastOf
<1>2. d # 0 /\ d - 1 \in Nat /\ d - 1 \notin D
  BY <1>1
<1>3. d - 1 \in S
  BY <1>2
<1> QED
  BY <1>1, <1>2, <1>3

(* A recursive function on the numbers up to m exists. *)
LEMMA RecExists ==
  ASSUME NEW A, NEW a \in A, NEW m \in Nat, NEW F \in [1..m -> [A -> A]]
  PROVE  \E f \in [0..m -> A] : f[0] = a /\ \A n \in 1..m : f[n] = F[n][f[n - 1]]
<1> DEFINE Upto(k, f) == f \in [0..k -> A] /\ f[0] = a /\ \A n \in 1..k : f[n] = F[n][f[n - 1]]
           Good == {k \in Nat : k <= m => \E f : Upto(k, f)}
<1>1. 0 \in Good
  <2>1. Upto(0, [n \in 0..0 |-> a])
    OBVIOUS
  <2> QED
    BY <2>1
<1>2. ASSUME NEW k \in Nat, k \in Good PROVE k + 1 \in Good
  <2> SUFFICES ASSUME k + 1 <= m PROVE \E f : Upto(k + 1, f)
    OBVIOUS
  <2>1. PICK f : Upto(k, f)
    BY <1>2
  <2> DEFINE e == F[k + 1][f[k]]
             g == [n \in 0..(k + 1) |-> IF n = k + 1 THEN e ELSE f[n]]
  <2>2. f[k] \in A /\ k + 1 \in 1..m
    BY <2>1
  <2>3. e \in A
    BY <2>2
  <2> HIDE DEF e
  <2>4. g \in [0..(k + 1) -> A]
    BY <2>1, <2>3
  <2>5. g[0] = a
    BY <2>1
  <2>6. ASSUME NEW n \in 1..(k + 1) PROVE g[n] = F[n][g[n - 1]]
    <3>1. CASE n = k + 1
      <4>1. g[n] = e /\ n - 1 = k /\ g[k] = f[k]
        BY <3>1
      <4> QED
        BY <3>1, <4>1 DEF e
    <3>2. CASE n # k + 1
      <4>1. n \in 1..k /\ n - 1 \in 0..k
        BY <3>2
      <4>2. g[n] = f[n] /\ g[n - 1] = f[n - 1]
        BY <4>1
      <4> QED
        BY <2>1, <4>1, <4>2
    <3> QED
      BY <3>1, <3>2
  <2>7. Upto(k + 1, g)
    BY <2>4, <2>5, <2>6
  <2> HIDE DEF Upto, g
  <2> QED
    BY <2>7
<1>3. m \in Good
  <2> HIDE DEF Good
  <2> QED
    BY <1>1, <1>2, SetInduction
<1> QED
  BY <1>3

LEMMA RecAll ==
  \A A : \A a \in A : \A m \in Nat : \A F \in [1..m -> [A -> A]] :
    \E f \in [0..m -> A] : f[0] = a /\ \A n \in 1..m : f[n] = F[n][f[n - 1]]
BY RecExists

(* The sums are numbers, each is the one before and one more of the list. *)
IsSums(f, lens) == f = [n \in 0..Len(lens) |-> IF n = 0 THEN 0 ELSE f[n - 1] + lens[n]]

LEMMA SumsAre ==
  ASSUME NEW lens \in Seq(Nat)
  PROVE  /\ SumsTo(lens) \in [0..Len(lens) -> Nat] /\ SumsTo(lens)[0] = 0
         /\ \A n \in 1..Len(lens) : SumsTo(lens)[n] = SumsTo(lens)[n - 1] + lens[n]
<1> DEFINE m == Len(lens)
           F == [n \in 1..m |-> [x \in Nat |-> x + lens[n]]]
<1>1. m \in Nat /\ F \in [1..m -> [Nat -> Nat]] /\ 0 \in Nat
  OBVIOUS
<1>2. PICK f \in [0..m -> Nat] : f[0] = 0 /\ \A n \in 1..m : f[n] = F[n][f[n - 1]]
  <2> HIDE DEF F, m
  <2> DEFINE Rec(B, b, k) == \A H \in [1..k -> [B -> B]] :
          \E f \in [0..k -> B] : f[0] = b /\ \A n \in 1..k : f[n] = H[n][f[n - 1]]
  <2>0. \A B : \A b \in B : \A k \in Nat : Rec(B, b, k)
    BY RecAll
  <2> HIDE DEF Rec
  <2>1. Rec(Nat, 0, m)
    BY <1>1, <2>0
  <2> QED
    BY <1>1, <2>1 DEF Rec
<1>3. \A n \in 1..m : f[n] = f[n - 1] + lens[n]
  <2> TAKE n \in 1..m
  <2> HIDE DEF F
  <2>1. f[n - 1] \in Nat
    BY <1>1, <1>2
  <2> QED
    BY <1>2, <2>1 DEF F
<1>4. IsSums(f, lens)
  BY <1>2, <1>3 DEF IsSums
<1>5. SumsTo(lens) = CHOOSE g : IsSums(g, lens)
  BY DEF SumsTo, IsSums
<1>6. IsSums(SumsTo(lens), lens)
  BY <1>4, <1>5
<1> DEFINE g == SumsTo(lens)
<1>7. g = [n \in 0..m |-> IF n = 0 THEN 0 ELSE g[n - 1] + lens[n]]
  BY <1>6 DEF IsSums
<1> HIDE DEF g
<1>8. g[0] = 0 /\ \A n \in 1..m : g[n] = g[n - 1] + lens[n]
  <2>1. \A n \in 0..m : g[n] = IF n = 0 THEN 0 ELSE g[n - 1] + lens[n]
    BY <1>7, Zenon
  <2> QED
    BY <1>1, <2>1
<1>9. \A n \in Nat : n <= m => g[n] \in Nat
  <2> DEFINE Good == {n \in Nat : n <= m => g[n] \in Nat}
  <2>1. 0 \in Good
    BY <1>8
  <2>2. ASSUME NEW n \in Nat, n \in Good PROVE n + 1 \in Good
    <3> SUFFICES ASSUME n + 1 <= m PROVE g[n + 1] \in Nat
      OBVIOUS
    <3>1. n + 1 \in 1..m /\ (n + 1) - 1 = n /\ g[n] \in Nat
      BY <1>1, <2>2
    <3>2. lens[n + 1] \in Nat
      BY <3>1
    <3> QED
      BY <1>8, <3>1, <3>2
  <2> HIDE DEF Good
  <2>3. \A n \in Nat : n \in Good
    BY <2>1, <2>2, SetInduction
  <2> QED
    BY <2>3 DEF Good
<1>10. g \in [0..m -> Nat]
  BY <1>1, <1>7, <1>9
<1> QED
  BY <1>8, <1>10 DEF g

(* The recursion is well defined.                                            *)
IsKept(f, s, S) ==
  f = [n \in 0..Len(s) |-> IF n = 0 THEN <<>>
                           ELSE IF s[n] \in S THEN Append(f[n - 1], s[n]) ELSE f[n - 1]]

LEMMA KeptExists ==
  ASSUME NEW T, NEW s \in Seq(T), NEW S
  PROVE  IsKept(KeptUpTo(s, S), s, S)
<1> DEFINE Turn(f, n) == IF n = 0 THEN <<>>
                         ELSE IF s[n] \in S THEN Append(f[n - 1], s[n]) ELSE f[n - 1]
           Upto(f, m) == f = [n \in 0..m |-> Turn(f, n)]
           Good == {m \in Nat : \E f : Upto(f, m)}
<1>1. 0 \in Good
  <2>1. Upto([n \in 0..0 |-> <<>>], 0)
    OBVIOUS
  <2> QED
    BY <2>1
<1>2. \A m \in Nat : m \in Good => m + 1 \in Good
  <2> TAKE m \in Nat
  <2> HAVE m \in Good
  <2>1. PICK f : Upto(f, m)
    OBVIOUS
  <2>5. \A n \in 0..m : f[n] = Turn(f, n)
    <3> HIDE DEF Turn
    <3> QED
      BY <2>1
  <2> DEFINE g == [n \in 0..(m + 1) |-> IF n <= m THEN f[n] ELSE Turn(f, n)]
  <2>2. ASSUME NEW n \in 0..(m + 1) PROVE g[n] = Turn(g, n)
    <3>1. CASE n = m + 1
      <4>1. g[n] = Turn(f, n) /\ g[n - 1] = f[n - 1] /\ n # 0
        BY <3>1
      <4> QED
        BY <4>1
    <3>2. CASE n <= m
      <4>1. g[n] = f[n] /\ (n # 0 => g[n - 1] = f[n - 1])
        BY <3>2
      <4>2. f[n] = Turn(f, n)
        BY <2>5, <3>2
      <4> QED
        BY <4>1, <4>2
    <3> QED
      BY <3>1, <3>2
  <2>3. Upto(g, m + 1)
    BY <2>2
  <2>4. \E h : Upto(h, m + 1)
    BY <2>3
  <2> HIDE DEF Upto
  <2> QED
    BY <2>4
<1>3. Len(s) \in Good
  <2> HIDE DEF Good
  <2> QED
    BY <1>1, <1>2, SetInduction
<1>4. \E f : IsKept(f, s, S)
  BY <1>3 DEF IsKept
<1>5. KeptUpTo(s, S) = CHOOSE f : IsKept(f, s, S)
  BY DEF KeptUpTo, IsKept
<1> QED
  BY <1>4, <1>5

LEMMA KeptStep ==
  ASSUME NEW T, NEW s \in Seq(T), NEW S
  PROVE  /\ KeptUpTo(s, S)[0] = <<>>
         /\ \A n \in 1..Len(s) :
              KeptUpTo(s, S)[n] = IF s[n] \in S THEN Append(KeptUpTo(s, S)[n - 1], s[n])
                                  ELSE KeptUpTo(s, S)[n - 1]
<1> DEFINE f == KeptUpTo(s, S)
           Turn(g, n) == IF n = 0 THEN <<>>
                         ELSE IF s[n] \in S THEN Append(g[n - 1], s[n]) ELSE g[n - 1]
<1>1. f = [n \in 0..Len(s) |-> Turn(f, n)]
  BY KeptExists DEF IsKept
<1> HIDE DEF f
<1>2. \A n \in 0..Len(s) : f[n] = Turn(f, n)
  <2> HIDE DEF Turn
  <2> QED
    BY <1>1
<1>3. f[0] = <<>> /\ \A n \in 1..Len(s) : f[n] = IF s[n] \in S THEN Append(f[n - 1], s[n]) ELSE f[n - 1]
  BY <1>2
<1> QED
  BY <1>3 DEF f

(* What is kept of a beginning depends on this beginning only, and on which  *)
(* of its elements are in the set.                                           *)
LEMMA KeptAgree ==
  ASSUME NEW T, NEW s \in Seq(T), NEW t \in Seq(T), NEW S, NEW U, NEW m \in Nat,
         m <= Len(s), m <= Len(t),
         \A n \in 1..m : s[n] = t[n] /\ (s[n] \in S <=> s[n] \in U)
  PROVE  \A n \in 0..m : KeptUpTo(s, S)[n] = KeptUpTo(t, U)[n]
<1> DEFINE f == KeptUpTo(s, S)
           g == KeptUpTo(t, U)
           Good == {n \in Nat : n <= m => f[n] = g[n]}
<1>1. f[0] = <<>> /\ \A n \in 1..Len(s) : f[n] = IF s[n] \in S THEN Append(f[n - 1], s[n]) ELSE f[n - 1]
  BY KeptStep
<1>2. g[0] = <<>> /\ \A n \in 1..Len(t) : g[n] = IF t[n] \in U THEN Append(g[n - 1], t[n]) ELSE g[n - 1]
  BY KeptStep
<1> HIDE DEF f, g
<1>3. 0 \in Good
  BY <1>1, <1>2
<1>4. ASSUME NEW n \in Nat, n \in Good PROVE n + 1 \in Good
  <2>1. CASE n + 1 <= m
    <3>1. n + 1 \in 1..m /\ n + 1 \in 1..Len(s) /\ n + 1 \in 1..Len(t) /\ (n + 1) - 1 = n /\ n <= m
      BY <2>1
    <3>2. f[n] = g[n]
      BY <1>4, <3>1
    <3> QED
      BY <3>1, <3>2, <1>1, <1>2
  <2> QED
    BY <2>1
<1>5. \A n \in Nat : n \in Good
  <2> HIDE DEF Good
  <2> QED
    BY <1>3, <1>4, SetInduction
<1> QED
  BY <1>5 DEF f, g

LEMMA WithinEmpty == \A S : Within(<<>>, S) = <<>>
<1> TAKE S
<1>1. <<>> \in Seq({}) /\ Len(<<>>) = 0
  OBVIOUS
<1>2. KeptUpTo(<<>>, S)[0] = <<>>
  BY <1>1, KeptStep
<1> QED
  BY <1>1, <1>2 DEF Within

LEMMA WithinAppend ==
  ASSUME NEW T, NEW s \in Seq(T), NEW e \in T, NEW S
  PROVE  Within(Append(s, e), S) = IF e \in S THEN Append(Within(s, S), e) ELSE Within(s, S)
<1> DEFINE t == Append(s, e)
<1>1. t \in Seq(T) /\ Len(t) = Len(s) + 1 /\ t[Len(s) + 1] = e /\ \A n \in 1..Len(s) : t[n] = s[n]
  OBVIOUS
<1>2. Len(s) \in Nat /\ Len(s) + 1 \in 1..Len(t) /\ (Len(s) + 1) - 1 = Len(s)
  BY <1>1
<1> HIDE DEF t
<1>3. KeptUpTo(t, S)[Len(s)] = KeptUpTo(s, S)[Len(s)]
  <2>1. \A n \in 0..Len(s) : KeptUpTo(s, S)[n] = KeptUpTo(t, S)[n]
    BY <1>1, <1>2, KeptAgree
  <2> QED
    BY <2>1, <1>2
<1>4. KeptUpTo(t, S)[Len(s) + 1] = IF e \in S THEN Append(KeptUpTo(t, S)[Len(s)], e)
                                   ELSE KeptUpTo(t, S)[Len(s)]
  BY <1>1, <1>2, KeptStep
<1> QED
  BY <1>1, <1>3, <1>4 DEF Within, t

LEMMA WithinAgree ==
  ASSUME NEW T, NEW s \in Seq(T), NEW S, NEW U,
         \A n \in 1..Len(s) : s[n] \in S <=> s[n] \in U
  PROVE  Within(s, S) = Within(s, U)
<1>1. Len(s) \in Nat
  OBVIOUS
<1>2. \A n \in 0..Len(s) : KeptUpTo(s, S)[n] = KeptUpTo(s, U)[n]
  BY <1>1, KeptAgree
<1> QED
  BY <1>1, <1>2 DEF Within

(* One more of the beginning of a list. *)
LEMMA WithinNext ==
  ASSUME NEW T, NEW s \in Seq(T), NEW S, NEW n \in Nat, n < Len(s)
  PROVE  Within(SubSeq(s, 1, n + 1), S) =
           IF s[n + 1] \in S THEN Append(Within(SubSeq(s, 1, n), S), s[n + 1])
           ELSE Within(SubSeq(s, 1, n), S)
<1>1. SubSeq(s, 1, n) \in Seq(T) /\ s[n + 1] \in T
  OBVIOUS
<1>2. SubSeq(s, 1, n + 1) = Append(SubSeq(s, 1, n), s[n + 1])
  OBVIOUS
<1> DEFINE r == SubSeq(s, 1, n)
           e == s[n + 1]
<1>4. r \in Seq(T) /\ e \in T
  BY <1>1
<1>3. Within(Append(r, e), S) = IF e \in S THEN Append(Within(r, S), e) ELSE Within(r, S)
  <2> HIDE DEF r, e
  <2> QED
    BY <1>4, WithinAppend
<1> QED
  BY <1>2, <1>3

(* What holds of the empty list and of a list with one more element holds of *)
(* every list.                                                               *)
LEMMA SeqInduction ==
  ASSUME NEW T, NEW G, <<>> \in G,
         \A s \in Seq(T), e \in T : s \in G => Append(s, e) \in G
  PROVE  \A s \in Seq(T) : s \in G
<1> DEFINE Good == {n \in Nat : \A s \in Seq(T) : Len(s) = n => s \in G}
<1>1. 0 \in Good
  OBVIOUS
<1>2. ASSUME NEW n \in Nat, n \in Good PROVE n + 1 \in Good
  <2> SUFFICES ASSUME NEW s \in Seq(T), Len(s) = n + 1 PROVE s \in G
    OBVIOUS
  <2>1. SubSeq(s, 1, n) \in Seq(T) /\ Len(SubSeq(s, 1, n)) = n /\ s[n + 1] \in T
    OBVIOUS
  <2>2. s = Append(SubSeq(s, 1, n), s[n + 1])
    OBVIOUS
  <2> QED
    BY <1>2, <2>1, <2>2
<1>3. \A n \in Nat : n \in Good
  <2> HIDE DEF Good
  <2> QED
    BY <1>1, <1>2, SetInduction
<1> QED
  <2> TAKE s \in Seq(T)
  <2>1. Len(s) \in Good
    BY <1>3
  <2> QED
    BY <2>1

LEMMA WithinTyped ==
  ASSUME NEW T, NEW S
  PROVE  \A s \in Seq(T) : Within(s, S) \in Seq(T \cap S) /\ Len(Within(s, S)) <= Len(s)
<1> DEFINE G == {s \in Seq(T) : Within(s, S) \in Seq(T \cap S) /\ Len(Within(s, S)) <= Len(s)}
<1>1. <<>> \in G
  <2>1. Within(<<>>, S) = <<>> /\ <<>> \in Seq(T) /\ Len(<<>>) = 0
    BY WithinEmpty
  <2>2. <<>> \in Seq(T \cap S)
    OBVIOUS
  <2>3. Within(<<>>, S) \in Seq(T \cap S)
    BY <2>1, <2>2
  <2>4. Len(Within(<<>>, S)) <= Len(<<>>)
    <3>1. Len(Within(<<>>, S)) = Len(<<>>)
      BY <2>1, Zenon
    <3> QED
      BY <3>1, <2>1
  <2> QED
    BY <2>1, <2>3, <2>4, Zenon
<1>2. ASSUME NEW s \in Seq(T), NEW e \in T, s \in G PROVE Append(s, e) \in G
  <2>1. Within(Append(s, e), S) = IF e \in S THEN Append(Within(s, S), e) ELSE Within(s, S)
    BY WithinAppend
  <2>2. Append(s, e) \in Seq(T) /\ Len(Append(s, e)) = Len(s) + 1 /\ Len(s) \in Nat
    OBVIOUS
  <2>3. Within(s, S) \in Seq(T \cap S) /\ Len(Within(s, S)) <= Len(s)
    BY <1>2
  <2>4. CASE e \in S
    <3>1. Append(Within(s, S), e) \in Seq(T \cap S)
      BY <2>3, <2>4
    <3>2. Len(Append(Within(s, S), e)) = Len(Within(s, S)) + 1 /\ Len(Within(s, S)) \in Nat
      BY <2>3
    <3> QED
      BY <2>1, <2>2, <2>3, <2>4, <3>1, <3>2
  <2>5. CASE e \notin S
    BY <2>1, <2>2, <2>3, <2>5
  <2> QED
    BY <2>4, <2>5
<1> HIDE DEF G
<1>3. \A s \in Seq(T) : s \in G
  BY <1>1, <1>2, SeqInduction
<1> QED
  BY <1>3 DEF G

(* The elements of a list. *)
Elements(s) == {s[n] : n \in DOMAIN s}

LEMMA ElementsAppend ==
  ASSUME NEW T, NEW s \in Seq(T), NEW e \in T
  PROVE  Elements(Append(s, e)) = Elements(s) \cup {e}
<1>1. /\ DOMAIN Append(s, e) = 1..(Len(s) + 1) /\ DOMAIN s = 1..Len(s) /\ Len(s) \in Nat
      /\ Append(s, e)[Len(s) + 1] = e /\ \A n \in 1..Len(s) : Append(s, e)[n] = s[n]
  OBVIOUS
<1> DEFINE t == Append(s, e)
<1>2. Elements(t) \subseteq Elements(s) \cup {e}
  <2> SUFFICES ASSUME NEW n \in DOMAIN t PROVE t[n] \in Elements(s) \cup {e}
    BY DEF Elements
  <2>1. CASE n = Len(s) + 1
    BY <1>1, <2>1
  <2>2. CASE n \in 1..Len(s)
    BY <1>1, <2>2 DEF Elements
  <2> QED
    BY <1>1, <2>1, <2>2
<1>3. Elements(s) \cup {e} \subseteq Elements(t)
  <2>1. e \in Elements(t)
    <3>1. Len(s) + 1 \in DOMAIN t /\ t[Len(s) + 1] = e
      BY <1>1
    <3> QED
      BY <3>1 DEF Elements
  <2>2. ASSUME NEW n \in DOMAIN s PROVE s[n] \in Elements(t)
    <3>1. n \in DOMAIN t /\ t[n] = s[n]
      BY <1>1
    <3> QED
      BY <3>1 DEF Elements
  <2> QED
    BY <2>1, <2>2 DEF Elements
<1> QED
  BY <1>2, <1>3

LEMMA WithinElements ==
  ASSUME NEW T, NEW S
  PROVE  \A s \in Seq(T) : Elements(Within(s, S)) = Elements(s) \cap S
<1> DEFINE G == {s \in Seq(T) : Elements(Within(s, S)) = Elements(s) \cap S}
<1>1. <<>> \in G
  BY WithinEmpty DEF Elements
<1>2. ASSUME NEW s \in Seq(T), NEW e \in T, s \in G PROVE Append(s, e) \in G
  <2>1. Within(Append(s, e), S) = IF e \in S THEN Append(Within(s, S), e) ELSE Within(s, S)
    BY WithinAppend
  <2>2. Elements(Append(s, e)) = Elements(s) \cup {e}
    BY ElementsAppend
  <2>3. Within(s, S) \in Seq(T)
    <3>1. Within(s, S) \in Seq(T \cap S)
      BY WithinTyped
    <3> QED
      BY <3>1
  <2>4. Elements(Append(Within(s, S), e)) = Elements(Within(s, S)) \cup {e}
    BY <2>3, ElementsAppend
  <2>5. Append(s, e) \in Seq(T)
    OBVIOUS
  <2> QED
    BY <1>2, <2>1, <2>2, <2>4, <2>5
<1> HIDE DEF G
<1>3. \A s \in Seq(T) : s \in G
  BY <1>1, <1>2, SeqInduction
<1> QED
  BY <1>3 DEF G

LEMMA ConcatAppend ==
  \A T : \A e \in T : \A a \in Seq(T), b \in Seq(T) : Append(a \o b, e) = a \o Append(b, e)
OBVIOUS

LEMMA WithinConcat ==
  ASSUME NEW T, NEW s \in Seq(T), NEW S
  PROVE  \A t \in Seq(T) : Within(s \o t, S) = Within(s, S) \o Within(t, S)
<1> DEFINE G == {t \in Seq(T) : Within(s \o t, S) = Within(s, S) \o Within(t, S)}
<1>0. Within(s, S) \in Seq(T \cap S)
  BY WithinTyped
<1>1. <<>> \in G
  BY <1>0, WithinEmpty
<1>2. ASSUME NEW t \in Seq(T), NEW e \in T, t \in G PROVE Append(t, e) \in G
  <2>1. Within(Append(t, e), S) = IF e \in S THEN Append(Within(t, S), e) ELSE Within(t, S)
    BY WithinAppend
  <2>2. s \o Append(t, e) = Append(s \o t, e) /\ s \o t \in Seq(T) /\ Append(t, e) \in Seq(T)
    OBVIOUS
  <2>3. Within(Append(s \o t, e), S) = IF e \in S THEN Append(Within(s \o t, S), e) ELSE Within(s \o t, S)
    BY <2>2, WithinAppend
  <2>4. Within(t, S) \in Seq(T \cap S)
    BY WithinTyped
  <2>5. CASE e \in S
    <3>1. Append(Within(s, S) \o Within(t, S), e) = Within(s, S) \o Append(Within(t, S), e)
      <4>1. Within(s, S) \in Seq(T) /\ Within(t, S) \in Seq(T)
        BY <1>0, <2>4
      <4>2. \A a \in Seq(T), b \in Seq(T) : Append(a \o b, e) = a \o Append(b, e)
        BY ConcatAppend, Zenon
      <4> QED
        BY <4>1, <4>2, Zenon
    <3> QED
      BY <1>2, <2>1, <2>2, <2>3, <2>5, <3>1
  <2>6. CASE e \notin S
    BY <1>2, <2>1, <2>2, <2>3, <2>6
  <2> QED
    BY <2>5, <2>6
<1> HIDE DEF G
<1>3. \A t \in Seq(T) : t \in G
  BY <1>1, <1>2, SeqInduction
<1> QED
  BY <1>3 DEF G

(* All of a list, of which nothing is left out. *)
LEMMA WithinAll ==
  ASSUME NEW T, NEW S, T \subseteq S
  PROVE  \A s \in Seq(T) : Within(s, S) = s
<1> DEFINE G == {s \in Seq(T) : Within(s, S) = s}
<1>1. <<>> \in G
  BY WithinEmpty
<1>2. ASSUME NEW s \in Seq(T), NEW e \in T, s \in G PROVE Append(s, e) \in G
  <2>1. Within(Append(s, e), S) = IF e \in S THEN Append(Within(s, S), e) ELSE Within(s, S)
    BY WithinAppend
  <2> QED
    BY <1>2, <2>1
<1> HIDE DEF G
<1>3. \A s \in Seq(T) : s \in G
  BY <1>1, <1>2, SeqInduction
<1> QED
  BY <1>3 DEF G

(* A list without repetition. *)
Distinct(s) == \A m, n \in DOMAIN s : s[m] = s[n] => m = n

LEMMA DistinctAppend ==
  ASSUME NEW T, NEW s \in Seq(T), NEW e \in T
  PROVE  Distinct(Append(s, e)) <=> Distinct(s) /\ e \notin Elements(s)
<1> DEFINE t == Append(s, e)
<1>1. /\ DOMAIN t = 1..(Len(s) + 1) /\ DOMAIN s = 1..Len(s) /\ Len(s) \in Nat
      /\ t[Len(s) + 1] = e /\ \A n \in 1..Len(s) : t[n] = s[n]
  OBVIOUS
<1> HIDE DEF t
<1>2. ASSUME Distinct(t) PROVE Distinct(s) /\ e \notin Elements(s)
  BY <1>1, <1>2 DEF Distinct, Elements
<1>3. ASSUME Distinct(s), e \notin Elements(s) PROVE Distinct(t)
  <2> SUFFICES ASSUME NEW m \in 1..(Len(s) + 1), NEW n \in 1..(Len(s) + 1), t[m] = t[n] PROVE m = n
    BY <1>1 DEF Distinct
  <2>1. \A k \in 1..Len(s) : s[k] # e
    BY <1>1, <1>3 DEF Elements
  <2>2. CASE m \in 1..Len(s) /\ n \in 1..Len(s)
    BY <1>1, <1>3, <2>2 DEF Distinct
  <2>3. CASE m = Len(s) + 1 \/ n = Len(s) + 1
    BY <1>1, <2>1, <2>3
  <2> QED
    BY <1>1, <2>2, <2>3
<1> QED
  BY <1>2, <1>3 DEF t

LEMMA WithinDistinct ==
  ASSUME NEW T, NEW S
  PROVE  \A s \in Seq(T) : Distinct(s) => Distinct(Within(s, S))
<1> DEFINE G == {s \in Seq(T) : Distinct(s) => Distinct(Within(s, S))}
<1>1. <<>> \in G
  BY WithinEmpty DEF Distinct
<1>2. ASSUME NEW s \in Seq(T), NEW e \in T, s \in G PROVE Append(s, e) \in G
  <2> SUFFICES ASSUME Distinct(Append(s, e)) PROVE Distinct(Within(Append(s, e), S))
    OBVIOUS
  <2>1. Within(Append(s, e), S) = IF e \in S THEN Append(Within(s, S), e) ELSE Within(s, S)
    BY WithinAppend
  <2>2. Distinct(s) /\ e \notin Elements(s)
    BY DistinctAppend
  <2>3. Distinct(Within(s, S))
    BY <1>2, <2>2
  <2>4. Within(s, S) \in Seq(T)
    <3>1. Within(s, S) \in Seq(T \cap S)
      BY WithinTyped
    <3> QED
      BY <3>1
  <2>5. e \notin Elements(Within(s, S))
    BY <2>2, WithinElements
  <2>6. Distinct(Append(Within(s, S), e))
    BY <2>3, <2>4, <2>5, DistinctAppend
  <2> QED
    BY <2>1, <2>3, <2>6
<1> HIDE DEF G
<1>3. \A s \in Seq(T) : s \in G
  BY <1>1, <1>2, SeqInduction
<1> QED
  BY <1>3 DEF G
=============================================================================
