--------------------------- MODULE Services_proofs ---------------------------
(***************************************************************************)
(* Safety of the services that run beside the CAN bus: the data sender for *)
(* every list of entries and any number of requests, the TCP server for    *)
(* any number of clients, sessions and messages, the macro keys and the    *)
(* alarm for every duration, the power saver, the exit, the sensors and    *)
(* the editors of bits and registers.                                      *)
(***************************************************************************)
EXTENDS MCServices, FiniteSetTheorems, SequenceTheorems, TLAPS

-----------------------------------------------------------------------------
(* The data sender: the entries are sent in turn, an answer that is reported *)
(* well is the one to the last request, and each request is written once.    *)

Entries    == [auto : BOOLEAN, count : {1, 2}, idle : BOOLEAN]
Index      == 1..Len(dsEntries)
Asked(w, e, k) == { j \in 1..k : w[j] = e }      \* the requests of e among the first k
Count(w, e, k) == Cardinality(Asked(w, e, k))

SenderType ==
  /\ dsEntries \in Seq(Entries) /\ Len(dsEntries) \in Nat \ {0}
  /\ dsPc \in {"loop", "auto", "trigger", "sent"}
  /\ dsIndex \in Index
  /\ dsTimes \in [Index -> Nat]
  /\ dsWhat \in Seq(Index)

Requests    == Nat \ {0}
Underway(p) == IF p = 0 THEN 0 ELSE 1

TimesInv == \A e \in Index : dsTimes[e] = Count(dsWhat, e, Made) % dsEntries[e].count
Following(e) == IF dsTimes[e] = 0 THEN After(e) ELSE e

(* m_sentTimes counts the turns of an entry that are not complete, and the   *)
(* current entry follows from it and from the entry sent last.               *)
TurnInv ==
  /\ SendsInTurn
  /\ TimesInv
  /\ Made > 0 => dsIndex = Following(dsWhat[Made])

(* Without a doubt there is one request only to be answered, the last, and   *)
(* what has come is its answer.                                              *)
AnswerInv ==
  /\ dsResponse \in Nat /\ dsBus \subseteq Nat /\ dsTorn \in BOOLEAN /\ dsDoubt \in BOOLEAN
  /\ OkIsOfLastRequest
  /\ ~dsDoubt /\ ~dsTorn =>
       /\ \A k \in dsBus : k = Made
       /\ \A i \in 1..Len(dsQueue) : dsQueue[i] = Made
       /\ dsRx \/ dsReceived => dsResponse = Made

(* A queue q of the last of m requests, while p is being sent, s was sent    *)
(* and l were lost: those that left the queue, or are just sent, are among   *)
(* these.                                                                    *)
IsQueue(q, m, p, s, l) ==
  /\ m \in Nat /\ p \in Nat /\ l \in Nat /\ s \in Seq(Nat) /\ Len(q) <= m
  /\ \A i \in 1..Len(q) : q[i] = m - Len(q) + i
  /\ \A i \in 1..Len(s) : s[i] <= m - Len(q) + Underway(p)
  /\ \A i, j \in 1..Len(s) : i < j => s[i] < s[j]
  /\ m - Len(q) + Underway(p) <= Len(s) + l

QueueInv ==
  /\ dsQueue \in Seq(Requests)
  /\ ~dsTorn => IsQueue(dsQueue, Made, dsPort, dsSent, dsLost)

SenderInv == SenderType /\ TurnInv /\ QueueInv /\ AnswerInv
-----------------------------------------------------------------------------
(* Counting the requests of an entry. *)

LEMMA AskedFinite ==
  ASSUME NEW w, NEW e, NEW k \in Nat
  PROVE  IsFiniteSet(Asked(w, e, k)) /\ Count(w, e, k) \in Nat
<1>1. IsFiniteSet(1..k)
  BY FS_Interval
<1>2. IsFiniteSet(Asked(w, e, k))
  BY <1>1, FS_Subset DEF Asked
<1> QED
  BY <1>2, FS_CardinalityType DEF Count

(* One more request leaves the counts of the earlier ones, and adds one to   *)
(* its own entry's.                                                          *)
LEMMA CountAppend ==
  ASSUME NEW S, NEW w \in Seq(S), NEW x \in S, NEW e
  PROVE  /\ \A k \in 0..Len(w) : Count(Append(w, x), e, k) = Count(w, e, k)
         /\ Count(Append(w, x), e, Len(w) + 1) =
              Count(w, e, Len(w)) + (IF x = e THEN 1 ELSE 0)
<1> DEFINE n == Len(w)
           v == Append(w, x)
<1>1. n \in Nat /\ v[n + 1] = x /\ \A j \in 1..n : v[j] = w[j]
  OBVIOUS
<1>2. \A k \in 0..n : Asked(v, e, k) = Asked(w, e, k)
  BY <1>1 DEF Asked
<1>3. Asked(v, e, n + 1) = Asked(w, e, n) \cup (IF x = e THEN {n + 1} ELSE {})
  BY <1>1 DEF Asked
<1>4. n + 1 \notin Asked(w, e, n)
  BY <1>1 DEF Asked
<1>6. IsFiniteSet(Asked(w, e, n)) /\ Count(w, e, n) \in Nat
  BY <1>1, AskedFinite
<1>5. Count(v, e, n + 1) = Count(w, e, n) + (IF x = e THEN 1 ELSE 0)
  <2>1. CASE x = e
    <3>1. Asked(v, e, n + 1) = Asked(w, e, n) \cup {n + 1}
      BY <1>3, <2>1
    <3>2. Cardinality(Asked(w, e, n) \cup {n + 1}) = Cardinality(Asked(w, e, n)) + 1
      BY <1>4, <1>6, FS_AddElement
    <3> QED
      BY <2>1, <3>1, <3>2 DEF Count
  <2>2. CASE x # e
    <3>1. Asked(v, e, n + 1) = Asked(w, e, n)
      BY <1>3, <2>2
    <3> QED
      BY <1>6, <2>2, <3>1 DEF Count
  <2> QED
    BY <2>1, <2>2
<1> QED
  BY <1>2, <1>5 DEF Count

(* An entry that was asked at all has been counted. *)
LEMMA CountPositive ==
  ASSUME NEW w, NEW k \in Nat \ {0}
  PROVE  Count(w, w[k], k) > 0
<1>1. k \in Asked(w, w[k], k) /\ IsFiniteSet(Asked(w, w[k], k)) /\ Count(w, w[k], k) \in Nat
  BY AskedFinite DEF Asked
<1>2. Cardinality(Asked(w, w[k], k)) # 0
  BY <1>1, FS_EmptySet
<1> QED
  BY <1>1, <1>2 DEF Count

-----------------------------------------------------------------------------
(* The turns. *)

USE DataSenderAssumption

LEMMA InIndex ==
  ASSUME SenderType, NEW e \in Index
  PROVE  /\ dsEntries[e] \in Entries /\ dsEntries[e].count \in {1, 2}
         /\ dsTimes[e] \in Nat /\ After(e) \in Index
         /\ After(e) = (e % Len(dsEntries)) + 1
<1>1. Len(dsEntries) \in Nat \ {0} /\ e \in 1..Len(dsEntries)
  BY DEF SenderType, Index
<1>2. dsEntries[e] \in Entries
  BY <1>1, ElementOfSeq DEF SenderType
<1>3. After(e) \in Index
  BY <1>1 DEF After, Index
<1>4. After(e) = (e % Len(dsEntries)) + 1
  <2>1. CASE e = Len(dsEntries)
    BY <1>1, <2>1 DEF After
  <2>2. CASE e < Len(dsEntries)
    BY <1>1, <2>2 DEF After
  <2> QED
    BY <1>1, <2>1, <2>2
<1>5. dsTimes[e] \in Nat
  BY DEF SenderType
<1>6. dsEntries[e].count \in {1, 2}
  BY <1>2 DEF Entries
<1> QED
  BY <1>2, <1>3, <1>4, <1>5, <1>6

(* The turn of the current entry: it is sent, and the next one is due when   *)
(* its count is reached.                                                     *)
LEMMA TurnKeeps ==
  ASSUME SenderType, TurnInv, Turn(dsIndex), SendData(dsIndex), UNCHANGED dsEntries
  PROVE  /\ dsIndex' \in Index' /\ dsTimes' \in [Index' -> Nat] /\ dsWhat' \in Seq(Index')
         /\ SendsInTurn'
         /\ TimesInv' /\ (Made > 0 => dsIndex = Following(dsWhat[Made]))'
<1> DEFINE c == dsEntries[dsIndex].count
           n == IF c = 1 THEN 1 ELSE dsTimes[dsIndex] + 1
<1>1. /\ dsIndex \in Index /\ Index' = Index /\ dsWhat \in Seq(Index) /\ Made \in Nat
      /\ dsTimes \in [Index -> Nat] /\ c \in {1, 2} /\ dsTimes[dsIndex] \in Nat
      /\ After(dsIndex) \in Index
  BY InIndex, LenProperties DEF SenderType, Index, Made, After
<1>2. /\ dsWhat' = Append(dsWhat, dsIndex)
      /\ dsTimes' = [dsTimes EXCEPT ![dsIndex] = IF n >= c THEN 0 ELSE n]
      /\ dsIndex' = IF n >= c THEN After(dsIndex) ELSE dsIndex
  BY DEF Turn, SendData
<1>3. /\ dsWhat' \in Seq(Index) /\ Made' = Made + 1 /\ dsWhat'[Made + 1] = dsIndex
      /\ \A j \in 1..Made : dsWhat'[j] = dsWhat[j] /\ dsWhat[j] \in Index
  BY <1>1, <1>2, ElementOfSeq DEF Made
<1>4. dsTimes' \in [Index -> Nat] /\ dsIndex' \in Index
  BY <1>1, <1>2
<1>5. /\ \A e : Count(dsWhat', e, Made + 1) = Count(dsWhat, e, Made) + (IF dsIndex = e THEN 1 ELSE 0)
      /\ \A e : \A k \in 1..Made : Count(dsWhat', e, k) = Count(dsWhat, e, k)
      /\ \A e : Count(dsWhat, e, Made) \in Nat
  <2> DEFINE I == Index
  <2>1. dsWhat \in Seq(I) /\ dsIndex \in I
    BY <1>1
  <2> HIDE DEF I
  <2>2. ASSUME NEW e
        PROVE  /\ \A k \in 0..Made : Count(dsWhat', e, k) = Count(dsWhat, e, k)
               /\ Count(dsWhat', e, Made + 1) = Count(dsWhat, e, Made) + (IF dsIndex = e THEN 1 ELSE 0)
    <3>1. dsWhat' = Append(dsWhat, dsIndex)
      BY <1>2
    <3>2. /\ \A k \in 0..Len(dsWhat) : Count(Append(dsWhat, dsIndex), e, k) = Count(dsWhat, e, k)
          /\ Count(Append(dsWhat, dsIndex), e, Len(dsWhat) + 1)
               = Count(dsWhat, e, Len(dsWhat)) + (IF dsIndex = e THEN 1 ELSE 0)
      BY <2>1, CountAppend
    <3> QED
      BY <3>1, <3>2, Zenon DEF Made
  <2>3. \A e : Count(dsWhat, e, Made) \in Nat
    BY <1>1, AskedFinite
  <2>4. \A k \in 1..Made : k \in 0..Made
    BY <1>1
  <2> QED
    BY <2>2, <2>3, <2>4
<1>6. \A e \in Index : dsTimes[e] = Count(dsWhat, e, Made) % dsEntries[e].count
  BY DEF TurnInv, TimesInv
<1>7. dsTimes'[dsIndex] = Count(dsWhat', dsIndex, Made + 1) % c
  <2> DEFINE m == Count(dsWhat, dsIndex, Made)
             t == dsTimes[dsIndex]
  <2>1. /\ m \in Nat /\ t = m % c
        /\ Count(dsWhat', dsIndex, Made + 1) = m + 1
        /\ dsTimes'[dsIndex] = IF n >= c THEN 0 ELSE n
    BY <1>1, <1>2, <1>5, <1>6
  <2> HIDE DEF m
  <2>2. CASE c = 1
    BY <2>1, <2>2
  <2>3. CASE c = 2
    <3>1. t \in {0, 1} /\ (m + 1) % 2 = (IF t + 1 >= 2 THEN 0 ELSE t + 1)
      BY <2>1, <2>3
    <3> QED
      BY <2>1, <2>3, <3>1
  <2> QED
    BY <1>1, <2>2, <2>3
<1>8. TimesInv'
  <2> SUFFICES ASSUME NEW e \in Index, e # dsIndex
               PROVE  dsTimes'[e] = Count(dsWhat', e, Made') % dsEntries'[e].count
    BY <1>1, <1>3, <1>7 DEF TimesInv
  <2>1. dsTimes'[e] = dsTimes[e] /\ Count(dsWhat', e, Made + 1) = Count(dsWhat, e, Made)
    BY <1>1, <1>2, <1>5
  <2> QED
    BY <1>3, <1>6, <2>1
<1>9. (Made > 0 => dsIndex = Following(dsWhat[Made]))'
  <2>1. dsIndex' = IF dsTimes'[dsIndex] = 0 THEN After(dsIndex) ELSE dsIndex
    BY <1>1, <1>2
  <2> QED
    BY <1>3, <2>1 DEF Following, After
<1>10. SendsInTurn'
  <2> SUFFICES ASSUME NEW k \in 1..Made
               PROVE  IF Count(dsWhat', dsWhat'[k], k) % dsEntries[dsWhat'[k]].count = 0
                        THEN dsWhat'[k + 1] = (dsWhat'[k] % Len(dsEntries)) + 1
                        ELSE dsWhat'[k + 1] = dsWhat'[k]
    <3>1. \A k \in 1..Made : dsWhat'[k] \in 1..Len(dsEntries)
      BY <1>3 DEF Index
    <3> QED
      BY <1>1, <1>3, <3>1, SMTT(30) DEF SendsInTurn, Round, Count, Asked
  <2>1. dsWhat'[k] = dsWhat[k] /\ dsWhat[k] \in Index
    BY <1>3
  <2>2. Count(dsWhat', dsWhat'[k], k) = Count(dsWhat, dsWhat[k], k)
    BY <1>5, <2>1
  <2>3. CASE k = Made
    <3>1. dsIndex = IF dsTimes[dsWhat[Made]] = 0 THEN After(dsWhat[Made]) ELSE dsWhat[Made]
      BY <1>1, <2>3 DEF TurnInv, Following
    <3>2. dsTimes[dsWhat[k]] = Count(dsWhat, dsWhat[k], k) % dsEntries[dsWhat[k]].count
      BY <1>6, <2>1, <2>3
    <3>3. After(dsWhat[k]) = (dsWhat[k] % Len(dsEntries)) + 1
      BY <2>1, InIndex
    <3> QED
      BY <1>3, <2>1, <2>2, <2>3, <3>1, <3>2, <3>3
  <2>4. CASE k # Made
    <3>1. k \in 1..(Made - 1) /\ k + 1 \in 1..Made
      BY <1>1, <2>4
    <3>2. IF Cardinality({ j \in 1..k : dsWhat[j] = dsWhat[k] }) % Round[dsWhat[k]] = 0
            THEN dsWhat[k + 1] = (dsWhat[k] % Len(dsEntries)) + 1
            ELSE dsWhat[k + 1] = dsWhat[k]
      BY <3>1 DEF TurnInv, SendsInTurn
    <3>3. Round[dsWhat[k]] = dsEntries[dsWhat[k]].count
      BY <2>1 DEF Round, Index
    <3> QED
      BY <1>3, <2>1, <2>2, <3>1, <3>2, <3>3 DEF Count, Asked
  <2> QED
    BY <2>3, <2>4
<1> QED
  BY <1>1, <1>2, <1>3, <1>4, <1>8, <1>9, <1>10

(* Steps that send nothing keep the turns.                                   *)
LEMMA TurnFrame ==
  ASSUME SenderType, TurnInv, UNCHANGED <<dsEntries, dsIndex, dsTimes, dsWhat>>,
         dsPc' \in {"loop", "auto", "trigger", "sent"}
  PROVE  SenderType' /\ TurnInv'
<1>1. SenderType'
  BY DEF SenderType, Index
<1>2. SendsInTurn'
  BY DEF TurnInv, SendsInTurn, Round, Made
<1>3. TimesInv'
  BY DEF TurnInv, TimesInv, Index, Made
<1>4. (Made > 0 => dsIndex = Following(dsWhat[Made]))'
  BY DEF TurnInv, Made, Following, After
<1> QED
  BY <1>1, <1>2, <1>3, <1>4 DEF TurnInv
-----------------------------------------------------------------------------
(* The queue of the port and the answers. *)

LEMMA QueueFacts ==
  ASSUME NEW s \in Seq(Requests)
  PROVE  /\ Len(s) \in Nat /\ (s = <<>> <=> Len(s) = 0)
         /\ s # <<>> => Head(s) \in Requests /\ Head(s) = s[1] /\ Tail(s) \in Seq(Requests)
                        /\ Len(Tail(s)) = Len(s) - 1
                        /\ \A i \in 1..(Len(s) - 1) : Tail(s)[i] = s[i + 1]
  BY EmptySeq, LenProperties, HeadTailProperties, ElementOfSeq

(* A torn queue holds requests, too.                                         *)
LEMMA FoundIsQueue == \A n \in Nat : Found(n) \subseteq Seq(Requests)
<1> SUFFICES ASSUME NEW n \in Nat, NEW q \in Found(n)
             PROVE  q \in Seq(Requests)
  OBVIOUS
<1>1. CASE q = <<>>
  BY <1>1, EmptySeq
<1>2. CASE \E k \in 1..n : q = <<k>>
  <2>1. PICK k \in 1..n : q = <<k>>
    BY <1>2
  <2>2. k \in Requests
    BY DEF Requests
  <2> QED
    BY <2>1, <2>2
<1> QED
  BY <1>1, <1>2 DEF Found

(* The push of AddToTxQueue.                                                 *)
LEMMA PushIsQueue ==
  ASSUME NEW q \in Seq(Requests), NEW m, NEW p, NEW s, NEW l, IsQueue(q, m, p, s, l)
  PROVE  /\ Append(q, m + 1) \in Seq(Requests)
         /\ Append(q, m + 1) # <<>> /\ Len(Append(q, m + 1)) = Len(q) + 1
         /\ \A i \in 1..Len(q) : Append(q, m + 1)[i] = q[i]
         /\ Append(q, m + 1)[Len(q) + 1] = m + 1
         /\ IsQueue(Append(q, m + 1), m + 1, p, s, l)
<1> DEFINE r == Append(q, m + 1)
           n == Len(q)
<1>1. /\ m \in Nat /\ p \in Nat /\ l \in Nat /\ s \in Seq(Nat) /\ n <= m
      /\ \A i \in 1..n : q[i] = m - n + i
      /\ \A i \in 1..Len(s) : s[i] <= m - n + Underway(p)
      /\ \A i, j \in 1..Len(s) : i < j => s[i] < s[j]
      /\ m - n + Underway(p) <= Len(s) + l
  BY DEF IsQueue
<1>2. n \in Nat
  BY QueueFacts
<1>3. m + 1 \in Requests
  BY <1>1 DEF Requests
<1>4. /\ r \in Seq(Requests) /\ Len(r) = n + 1 /\ r[n + 1] = m + 1
      /\ \A i \in 1..n : r[i] = q[i]
  BY <1>2, <1>3
<1>5. r # <<>>
  BY <1>2, <1>4
<1> HIDE DEF r, n
<1>6. Len(r) <= m + 1 /\ (m + 1) - Len(r) = m - n /\ m + 1 \in Nat
  BY <1>1, <1>2, <1>4
<1>7. \A i \in 1..Len(r) : r[i] = (m + 1) - Len(r) + i
  <2> SUFFICES ASSUME NEW i \in 1..Len(r) PROVE r[i] = (m + 1) - Len(r) + i
    OBVIOUS
  <2>1. i \in 1..n \/ i = n + 1
    BY <1>2, <1>4
  <2>2. CASE i \in 1..n
    <3>1. r[i] = m - n + i
      BY <1>1, <1>4, <2>2
    <3> QED
      BY <1>6, <3>1
  <2>3. CASE i = n + 1
    <3>1. m - n + (n + 1) = m + 1 /\ r[i] = m + 1
      BY <1>1, <1>2, <1>4, <2>3
    <3> QED
      BY <1>6, <2>3, <3>1
  <2> QED
    BY <2>1, <2>2, <2>3
<1>8. IsQueue(r, m + 1, p, s, l)
  BY <1>1, <1>6, <1>7, Zenon DEF IsQueue
<1> QED
  BY <1>4, <1>5, <1>8 DEF r, n

(* The pops: of an overflow, which is a loss, and of what was just sent.     *)
LEMMA PopIsQueue ==
  ASSUME NEW q \in Seq(Requests), NEW m, NEW p, NEW s, NEW l, IsQueue(q, m, p, s, l), q # <<>>
  PROVE  /\ IsQueue(Tail(q), m, p, s, l + 1)
         /\ p # 0 => IsQueue(Tail(q), m, 0, s, l)
<1> DEFINE r == Tail(q)
           n == Len(q)
<1>1. /\ m \in Nat /\ p \in Nat /\ l \in Nat /\ s \in Seq(Nat) /\ n <= m
      /\ \A i \in 1..n : q[i] = m - n + i
      /\ \A i \in 1..Len(s) : s[i] <= m - n + Underway(p)
      /\ \A i, j \in 1..Len(s) : i < j => s[i] < s[j]
      /\ m - n + Underway(p) <= Len(s) + l
  BY DEF IsQueue
<1>2. n \in Nat \ {0} /\ Len(r) = n - 1 /\ \A i \in 1..(n - 1) : r[i] = q[i + 1]
  BY QueueFacts
<1>3. Len(s) \in Nat /\ Underway(p) \in {0, 1} /\ (p # 0 => Underway(p) = 1) /\ Underway(0) = 0
      /\ \A i \in 1..Len(s) : s[i] \in Nat
  BY <1>1, LenProperties, ElementOfSeq DEF Underway
<1> HIDE DEF r, n
<1>4. Len(r) <= m /\ m - Len(r) = m - n + 1 /\ l + 1 \in Nat
  BY <1>1, <1>2
<1>5. \A i \in 1..Len(r) : r[i] = m - Len(r) + i
  <2> SUFFICES ASSUME NEW i \in 1..Len(r) PROVE r[i] = m - Len(r) + i
    OBVIOUS
  <2>1. i + 1 \in 1..n /\ i \in 1..(n - 1)
    BY <1>2
  <2>2. r[i] = q[i + 1] /\ q[i + 1] = m - n + (i + 1)
    BY <1>1, <1>2, <2>1
  <2> QED
    BY <1>1, <1>2, <1>4, <2>1, <2>2
<1>6. IsQueue(r, m, p, s, l + 1)
  <2>1. ASSUME NEW i \in 1..Len(s)
        PROVE  s[i] <= m - Len(r) + Underway(p)
    <3>1. s[i] \in Nat /\ s[i] <= m - n + Underway(p)
      BY <1>1, <1>3
    <3>2. \A u \in {0, 1}, x \in Nat : x <= m - n + u => x <= m - n + 1 + u
      BY <1>1, <1>2
    <3> QED
      BY <1>3, <1>4, <3>1, <3>2
  <2>2. m - Len(r) + Underway(p) <= Len(s) + (l + 1)
    BY <1>1, <1>2, <1>3, <1>4
  <2> QED
    BY <1>1, <1>4, <1>5, <2>1, <2>2, Zenon DEF IsQueue
<1>7. ASSUME p # 0 PROVE IsQueue(r, m, 0, s, l)
  <2>1. \A i \in 1..Len(s) : s[i] <= m - Len(r) + Underway(0)
    BY <1>1, <1>2, <1>3, <1>4, <1>7
  <2>2. m - Len(r) + Underway(0) <= Len(s) + l /\ 0 \in Nat
    BY <1>1, <1>2, <1>3, <1>4, <1>7
  <2> QED
    BY <1>1, <1>4, <1>5, <2>1, <2>2, Zenon DEF IsQueue
<1> QED
  BY <1>6, <1>7 DEF r

(* The front goes out.                                                       *)
LEMMA FrontIsQueue ==
  ASSUME NEW q \in Seq(Requests), NEW m, NEW s, NEW l, IsQueue(q, m, 0, s, l), q # <<>>
  PROVE  IsQueue(q, m, Head(q), Append(s, Head(q)), l)
<1> DEFINE t == Append(s, Head(q))
           n == Len(q)
           h == Head(q)
           k == Len(s)
<1>1. /\ m \in Nat /\ l \in Nat /\ s \in Seq(Nat) /\ n <= m
      /\ \A i \in 1..n : q[i] = m - n + i
      /\ \A i \in 1..k : s[i] <= m - n + Underway(0)
      /\ \A i, j \in 1..k : i < j => s[i] < s[j]
      /\ m - n + Underway(0) <= k + l
  BY DEF IsQueue
<1>2. n \in Nat \ {0} /\ h \in Requests /\ h = q[1]
  BY QueueFacts
<1>3. h = m - n + 1 /\ h \in Nat /\ h # 0 /\ Underway(h) = 1 /\ Underway(0) = 0
  BY <1>1, <1>2 DEF Underway, Requests
<1>4. /\ t \in Seq(Nat) /\ Len(t) = k + 1 /\ t[k + 1] = h /\ k \in Nat
      /\ \A i \in 1..k : t[i] = s[i] /\ s[i] \in Nat
  BY <1>1, <1>3, LenProperties, ElementOfSeq
<1> HIDE DEF t, n, h, k
<1>5. \A i \in 1..k : t[i] < h /\ t[i] \in Nat
  BY <1>1, <1>2, <1>3, <1>4
<1>6. \A i \in 1..Len(t) : t[i] <= m - n + Underway(h)
  BY <1>1, <1>2, <1>3, <1>4, <1>5
<1>7. \A i, j \in 1..Len(t) : i < j => t[i] < t[j]
  <2> SUFFICES ASSUME NEW i \in 1..Len(t), NEW j \in 1..Len(t), i < j
               PROVE  t[i] < t[j]
    OBVIOUS
  <2>1. i \in 1..k /\ (j \in 1..k \/ j = k + 1)
    BY <1>4
  <2>2. CASE j \in 1..k
    BY <1>1, <1>4, <2>1, <2>2
  <2>3. CASE j = k + 1
    BY <1>4, <1>5, <2>1, <2>3
  <2> QED
    BY <2>1, <2>2, <2>3
<1>8. m - n + Underway(h) <= Len(t) + l
  BY <1>1, <1>2, <1>3, <1>4
<1>9. IsQueue(q, m, h, t, l)
  BY <1>1, <1>3, <1>4, <1>6, <1>7, <1>8, Zenon DEF IsQueue, n
<1> QED
  BY <1>9 DEF t, h

(* All are taken off.                                                        *)
LEMMA ClearIsQueue ==
  ASSUME NEW q \in Seq(Requests), NEW m, NEW p, NEW s, NEW l, IsQueue(q, m, p, s, l)
  PROVE  IsQueue(<<>>, m, p, s, l + Len(q))
<1> DEFINE n == Len(q)
<1>1. /\ m \in Nat /\ p \in Nat /\ l \in Nat /\ s \in Seq(Nat) /\ n <= m
      /\ \A i \in 1..Len(s) : s[i] <= m - n + Underway(p)
      /\ \A i, j \in 1..Len(s) : i < j => s[i] < s[j]
      /\ m - n + Underway(p) <= Len(s) + l
  BY DEF IsQueue
<1>2. n \in Nat /\ Len(<<>>) = 0 /\ Underway(p) \in {0, 1}
      /\ Len(s) \in Nat /\ \A i \in 1..Len(s) : s[i] \in Nat
  BY <1>1, QueueFacts, LenProperties, ElementOfSeq DEF Underway
<1> HIDE DEF n
<1>3. /\ Len(<<>>) <= m /\ l + n \in Nat
      /\ \A i \in 1..Len(<<>>) : <<>>[i] = m - Len(<<>>) + i
  BY <1>1, <1>2
<1>4. /\ \A i \in 1..Len(s) : s[i] <= m - Len(<<>>) + Underway(p)
      /\ m - Len(<<>>) + Underway(p) <= Len(s) + (l + n)
  BY <1>1, <1>2
<1>5. IsQueue(<<>>, m, p, s, l + n)
  BY <1>1, <1>3, <1>4, Zenon DEF IsQueue
<1> QED
  BY <1>5 DEF n

(* SendData puts the request behind those that are queued; when there is no  *)
(* other, it is alone.                                                       *)
LEMMA SendKeeps ==
  ASSUME QueueInv, AnswerInv, Made \in Nat, NEW e \in Index, dsWhat \in Seq(Index),
         SendData(e), UNCHANGED <<dsPort, dsBus, dsRx, dsTorn, dsSent>>, OkIsOfLastRequest'
  PROVE  QueueInv' /\ AnswerInv'
<1>1. /\ dsWhat' = Append(dsWhat, e) /\ dsResponse' = 0 /\ dsReceived' = FALSE
      /\ dsDoubt' = (dsBus # {} \/ dsQueue # <<>> \/ dsRx)
      /\ AddToTxQueue
      /\ dsTorn' = dsTorn /\ dsPort' = dsPort /\ dsBus' = dsBus /\ dsSent' = dsSent /\ dsRx' = dsRx
  BY DEF SendData
<1>2. Made' = Made + 1
  BY <1>1 DEF Made
<1>3. dsQueue \in Seq(Requests) /\ dsTorn \in BOOLEAN
  BY DEF QueueInv, AnswerInv
<1>4. CASE dsTorn
  <2>1. dsQueue' \in Seq(Requests)
    BY <1>1, <1>4, FoundIsQueue DEF AddToTxQueue
  <2> QED
    BY <1>1, <1>4, <2>1 DEF QueueInv, AnswerInv
<1>5. CASE ~dsTorn
  <2> DEFINE r == Append(dsQueue, Made + 1)
             full == Len(r) > DataQueueMax
  <2>1. IsQueue(dsQueue, Made, dsPort, dsSent, dsLost)
    BY <1>5 DEF QueueInv
  <2>2. /\ dsQueue' = IF full THEN Tail(r) ELSE r
        /\ dsLost' = IF full THEN dsLost + 1 ELSE dsLost
    BY <1>1, <1>5 DEF AddToTxQueue
  <2>3. /\ r \in Seq(Requests) /\ r # <<>> /\ Len(r) = Len(dsQueue) + 1
        /\ \A i \in 1..Len(dsQueue) : r[i] = dsQueue[i]
        /\ r[Len(dsQueue) + 1] = Made + 1
        /\ IsQueue(r, Made + 1, dsPort, dsSent, dsLost)
    BY <1>3, <2>1, PushIsQueue
  <2> HIDE DEF r, full
  <2>4. IsQueue(Tail(r), Made + 1, dsPort, dsSent, dsLost + 1) /\ Tail(r) \in Seq(Requests)
    BY <2>3, PopIsQueue, QueueFacts
  <2>5. QueueInv'
    <3>1. dsQueue' \in Seq(Requests) /\ IsQueue(dsQueue', Made + 1, dsPort, dsSent, dsLost')
      BY <2>2, <2>3, <2>4, Zenon
    <3> QED
      BY <1>1, <1>2, <3>1 DEF QueueInv
  <2>6. dsQueue = <<>> => \A i \in 1..Len(dsQueue') : dsQueue'[i] = Made + 1
    <3> SUFFICES ASSUME dsQueue = <<>>
                 PROVE  \A i \in 1..Len(dsQueue') : dsQueue'[i] = Made + 1
      OBVIOUS
    <3>1. Len(r) = 1 /\ r[1] = Made + 1
      BY <1>3, <2>3
    <3>2. ~full
      BY <3>1 DEF full, DataSenderAssumption
    <3>3. dsQueue' = r
      BY <2>2, <3>2
    <3>4. ASSUME NEW i \in 1..Len(r) PROVE r[i] = Made + 1
      <4>1. i = 1
        BY <3>1
      <4> QED
        BY <3>1, <4>1
    <3> QED
      BY <3>3, <3>4
  <2>7. AnswerInv'
    <3>1. dsResponse' \in Nat /\ dsBus' \subseteq Nat /\ dsTorn' \in BOOLEAN /\ dsDoubt' \in BOOLEAN
      BY <1>1 DEF AnswerInv
    <3>2. ASSUME ~dsDoubt' PROVE dsBus' = {} /\ dsQueue = <<>> /\ ~dsRx' /\ ~dsReceived'
      <4>1. dsDoubt' = (dsBus # {} \/ dsQueue # <<>> \/ dsRx) /\ dsBus' = dsBus /\ dsRx' = dsRx /\ dsReceived' = FALSE
        BY <1>1
      <4>2. ~(dsBus # {} \/ dsQueue # <<>> \/ dsRx)
        BY <3>2, <4>1, Zenon
      <4>3. dsBus = {} /\ dsQueue = <<>> /\ ~dsRx
        BY <4>2
      <4>4. ~dsRx'
        BY <4>1, <4>3
      <4>5. ~dsReceived'
        BY <4>1
      <4> QED
        BY <4>1, <4>3, <4>4, <4>5
    <3>3. ASSUME ~dsDoubt', NEW i \in 1..Len(dsQueue') PROVE dsQueue'[i] = Made'
      BY <1>2, <2>6, <3>2, <3>3
    <3> QED
      BY <3>1, <3>2, <3>3 DEF AnswerInv
  <2> QED
    BY <2>5, <2>7
<1> QED
  BY <1>3, <1>4, <1>5

LEMMA InitSenderInv == DataSenderInit => SenderInv
<1> SUFFICES ASSUME DataSenderInit PROVE SenderInv
  OBVIOUS
<1>1. PICK n \in 1..MaxEntries : dsEntries \in [1..n -> Entries]
  BY DEF DataSenderInit, Entries
<1>2. dsEntries \in Seq(Entries) /\ Len(dsEntries) \in Nat \ {0}
  BY <1>1
<1>3. /\ dsPc = "loop" /\ dsIndex = 1 /\ dsTimes = [i \in 1..Len(dsEntries) |-> 0]
      /\ dsResponse = 0 /\ dsReceived = FALSE /\ dsRx = FALSE /\ dsQueue = <<>> /\ dsPort = 0
      /\ dsBus = {} /\ dsTorn = FALSE /\ dsSent = <<>> /\ dsLost = 0 /\ dsWhat = <<>>
      /\ dsDoubt = FALSE /\ dsVerdict.got = dsVerdict.asked
  BY DEF DataSenderInit, NoVerdict
<1>4. SenderType
  <2>1. dsIndex \in Index /\ dsTimes \in [Index -> Nat]
    BY <1>2, <1>3 DEF Index
  <2>2. dsWhat \in Seq(Index)
    BY <1>3, EmptySeq
  <2> QED
    BY <1>2, <1>3, <2>1, <2>2 DEF SenderType
<1>5. Made = 0
  BY <1>3 DEF Made
<1>6. SendsInTurn
  BY <1>5 DEF SendsInTurn
<1>7. TimesInv
  <2> SUFFICES ASSUME NEW e \in Index
               PROVE  dsTimes[e] = Count(dsWhat, e, Made) % dsEntries[e].count
    BY DEF TimesInv
  <2>1. Asked(dsWhat, e, 0) = {}
    BY DEF Asked
  <2>2. Count(dsWhat, e, 0) = 0
    BY <2>1, FS_EmptySet DEF Count
  <2>3. dsEntries[e].count \in {1, 2}
    BY <1>4, InIndex
  <2> QED
    BY <1>3, <1>5, <2>2, <2>3 DEF Index
<1>8. TurnInv
  BY <1>3, <1>5, <1>6, <1>7 DEF TurnInv
<1>9. AnswerInv
  <2>1. Len(dsQueue) = 0 /\ OkIsOfLastRequest
    BY <1>3 DEF OkIsOfLastRequest
  <2>2. dsResponse \in Nat /\ dsBus \subseteq Nat /\ dsTorn \in BOOLEAN /\ dsDoubt \in BOOLEAN
    BY <1>3
  <2> QED
    BY <1>3, <2>1, <2>2 DEF AnswerInv
<1>10. QueueInv
  <2>1. <<>> \in Seq(Requests) /\ <<>> \in Seq(Nat) /\ Len(<<>>) = 0
    BY EmptySeq
  <2>2. IsQueue(<<>>, 0, 0, <<>>, 0)
    BY <2>1 DEF IsQueue, Underway
  <2> QED
    BY <1>3, <1>5, <2>1, <2>2 DEF QueueInv
<1> QED
  BY <1>4, <1>8, <1>9, <1>10 DEF SenderInv

-----------------------------------------------------------------------------
(* The steps. *)

LEMMA AutoSendKeeps ==
  ASSUME SenderInv, AutoSend
  PROVE  SenderInv'
<1>1. /\ SenderType /\ TurnInv /\ AnswerInv /\ QueueInv
      /\ dsIndex \in Index /\ Made \in Nat /\ dsWhat \in Seq(Index)
  BY LenProperties DEF SenderInv, SenderType, Made
<1>2. /\ dsPc = "loop" /\ dsPc' = "auto" /\ dsEntries' = dsEntries
      /\ dsRx' = dsRx /\ dsPort' = dsPort /\ dsBus' = dsBus /\ dsTorn' = dsTorn
      /\ dsSent' = dsSent /\ dsVerdict' = dsVerdict
  BY DEF AutoSend
<1>3. OkIsOfLastRequest'
  BY <1>1, <1>2 DEF AnswerInv, OkIsOfLastRequest
<1>4. CASE Turn(dsIndex) /\ SendData(dsIndex)
  <2>1. /\ dsIndex' \in Index' /\ dsTimes' \in [Index' -> Nat] /\ dsWhat' \in Seq(Index')
        /\ SendsInTurn' /\ TimesInv' /\ (Made > 0 => dsIndex = Following(dsWhat[Made]))'
    BY <1>1, <1>2, <1>4, TurnKeeps
  <2>2. SenderType' /\ TurnInv'
    BY <1>1, <1>2, <2>1 DEF SenderType, TurnInv, Index
  <2>3. QueueInv' /\ AnswerInv'
    BY <1>1, <1>2, <1>3, <1>4, SendKeeps
  <2> QED
    BY <2>2, <2>3 DEF SenderInv
<1>5. CASE UNCHANGED <<dsTimes, dsIndex, dsResponse, dsReceived, dsWhat, dsDoubt, dsQueue, dsLost>>
  <2>1. SenderType' /\ TurnInv'
    BY <1>1, <1>2, <1>5, TurnFrame
  <2>2. QueueInv' /\ AnswerInv'
    BY <1>1, <1>2, <1>3, <1>5 DEF QueueInv, AnswerInv, Made
  <2> QED
    BY <2>1, <2>2 DEF SenderInv
<1> QED
  BY <1>4, <1>5 DEF AutoSend

(* A verdict that is not in doubt is of the last request.                    *)
LEMMA JudgedKeeps ==
  ASSUME AnswerInv, dsReceived, Judged
  PROVE  OkIsOfLastRequest'
<1>1. \/ dsVerdict' = NoVerdict
      \/ dsVerdict' = [asked |-> Made, got |-> dsResponse] /\ dsResponse = Made
  BY DEF AnswerInv, Judged
<1> QED
  BY <1>1 DEF OkIsOfLastRequest, NoVerdict

(* The trigger's answer is that of the entry before it.                      *)
LEMMA TriggerAnsweredKeeps ==
  ASSUME SenderInv, TriggerAnswered
  PROVE  SenderInv'
<1>1. /\ SenderType /\ TurnInv /\ AnswerInv /\ QueueInv
      /\ dsIndex \in Index /\ Made \in Nat /\ dsWhat \in Seq(Index)
  BY LenProperties DEF SenderInv, SenderType, Made
<1>2. /\ dsPc = "trigger" /\ dsReceived /\ Judged /\ dsPc' = "sent"
      /\ dsEntries' = dsEntries /\ dsPort' = dsPort /\ dsRx' = dsRx /\ dsBus' = dsBus
      /\ dsTorn' = dsTorn /\ dsSent' = dsSent /\ Turn(dsIndex) /\ SendData(dsIndex)
  BY DEF TriggerAnswered
<1>3. /\ dsIndex' \in Index' /\ dsTimes' \in [Index' -> Nat] /\ dsWhat' \in Seq(Index')
      /\ SendsInTurn' /\ TimesInv' /\ (Made > 0 => dsIndex = Following(dsWhat[Made]))'
  BY <1>1, <1>2, TurnKeeps
<1>4. SenderType' /\ TurnInv'
  BY <1>1, <1>2, <1>3 DEF SenderType, TurnInv, Index
<1>5. OkIsOfLastRequest'
  BY <1>1, <1>2, JudgedKeeps
<1>6. QueueInv' /\ AnswerInv'
  BY <1>1, <1>2, <1>5, SendKeeps
<1> QED
  BY <1>4, <1>6 DEF SenderInv

(* The other steps of the worker send nothing.                               *)
LEMMA WorkerKeeps ==
  ASSUME SenderInv, AutoAnswered \/ TriggerWait \/ TriggerReset \/ NoResponse
  PROVE  SenderInv'
<1>1. SenderType /\ TurnInv /\ AnswerInv /\ QueueInv
  BY DEF SenderInv
<1>2. /\ dsEntries' = dsEntries /\ dsIndex' = dsIndex /\ dsTimes' = dsTimes
      /\ dsWhat' = dsWhat /\ dsQueue' = dsQueue /\ dsPort' = dsPort /\ dsBus' = dsBus
      /\ dsTorn' = dsTorn /\ dsSent' = dsSent /\ dsLost' = dsLost /\ dsDoubt' = dsDoubt
      /\ dsRx' = dsRx /\ dsResponse' = dsResponse /\ (dsReceived' => dsReceived)
      /\ dsPc' \in {"loop", "trigger"}
  BY DEF AutoAnswered, TriggerWait, TriggerReset, NoResponse, dsList, dsWire, dsAnswer, dsPast
<1>3. SenderType' /\ TurnInv'
  BY <1>1, <1>2, TurnFrame
<1>4. OkIsOfLastRequest'
  <2>1. CASE AutoAnswered
    BY <1>1, <2>1, JudgedKeeps DEF AutoAnswered
  <2>2. CASE TriggerWait \/ TriggerReset
    BY <1>1, <2>2 DEF TriggerWait, TriggerReset, dsPast, AnswerInv, OkIsOfLastRequest
  <2>3. CASE NoResponse
    BY <2>3 DEF NoResponse, NoVerdict, OkIsOfLastRequest
  <2> QED
    BY <2>1, <2>2, <2>3
<1>5. QueueInv' /\ AnswerInv'
  BY <1>1, <1>2, <1>4 DEF QueueInv, AnswerInv, Made
<1> QED
  BY <1>3, <1>5 DEF SenderInv

(* The threads of the port, and the GUI.                                     *)
LEMMA PortKeeps ==
  ASSUME SenderInv,
         \/ Line \/ Announce \/ SendFront \/ PopFront \/ StartSending \/ StopSending
         \/ Collide \/ UNCHANGED dsVars
  PROVE  SenderInv'
<1>1. /\ SenderType /\ TurnInv /\ AnswerInv /\ QueueInv /\ dsQueue \in Seq(Requests)
      /\ dsTorn \in BOOLEAN /\ Made \in Nat
  BY LenProperties DEF SenderInv, AnswerInv, QueueInv, SenderType, Made
<1>2. /\ dsEntries' = dsEntries /\ dsIndex' = dsIndex /\ dsTimes' = dsTimes
      /\ dsPc' = dsPc /\ dsWhat' = dsWhat /\ dsVerdict' = dsVerdict
  BY DEF Line, OnDataReceived, Announce, SendFront, PopFront, StartSending, StopSending, Collide,
         dsVars, dsList, dsPast
<1>3. SenderType' /\ TurnInv'
  BY <1>1, <1>2, TurnFrame DEF SenderType
<1>4. OkIsOfLastRequest' /\ Made' = Made
  BY <1>1, <1>2 DEF AnswerInv, OkIsOfLastRequest, Made
<1>5. CASE Line
  <2>1. PICK k \in dsBus \cup {0} : OnDataReceived(k)
    BY <1>5 DEF Line
  <2>2. /\ dsBus' = dsBus \ {k} /\ dsResponse' = k /\ dsRx' = TRUE
        /\ dsDoubt' = (dsDoubt \/ k = 0) /\ dsReceived' = dsReceived /\ dsQueue' = dsQueue
        /\ dsPort' = dsPort /\ dsTorn' = dsTorn /\ dsSent' = dsSent /\ dsLost' = dsLost
    BY <2>1 DEF OnDataReceived
  <2>3. k \in Nat
    BY <1>1, <2>1 DEF AnswerInv
  <2>4. AnswerInv'
    BY <1>1, <1>4, <2>1, <2>2, <2>3 DEF AnswerInv
  <2>5. QueueInv'
    BY <1>1, <1>4, <2>2 DEF QueueInv
  <2> QED
    BY <1>3, <2>4, <2>5 DEF SenderInv
<1>6. CASE Announce \/ StartSending \/ UNCHANGED dsVars
  <2>1. /\ dsQueue' = dsQueue /\ dsPort' = dsPort /\ dsBus' = dsBus /\ dsTorn' = dsTorn
        /\ dsSent' = dsSent /\ dsLost' = dsLost /\ dsDoubt' = dsDoubt /\ dsResponse' = dsResponse
        /\ (dsRx' \/ dsReceived' => dsRx \/ dsReceived)
    BY <1>6 DEF Announce, StartSending, dsVars, dsWire, dsAnswer, dsPast
  <2> QED
    BY <1>1, <1>3, <1>4, <2>1 DEF SenderInv, QueueInv, AnswerInv
<1>7. CASE SendFront
  <2>1. /\ dsPort = 0 /\ dsQueue # <<>> /\ dsPort' = Head(dsQueue)
        /\ dsBus' = dsBus \cup {Head(dsQueue)} /\ dsQueue' = dsQueue
        /\ dsSent' = (IF dsTorn THEN dsSent ELSE Append(dsSent, Head(dsQueue)))
        /\ dsTorn' = dsTorn /\ dsLost' = dsLost /\ dsDoubt' = dsDoubt
        /\ dsRx' = dsRx /\ dsReceived' = dsReceived /\ dsResponse' = dsResponse
    BY <1>7 DEF SendFront, dsAnswer, dsPast
  <2>2. Len(dsQueue) \in Nat \ {0} /\ Head(dsQueue) = dsQueue[1] /\ Head(dsQueue) \in Nat
    BY <1>1, <2>1, QueueFacts DEF Requests
  <2>3. QueueInv'
    <3>1. ~dsTorn => IsQueue(dsQueue, Made, Head(dsQueue), Append(dsSent, Head(dsQueue)), dsLost)
      BY <1>1, <2>1, FrontIsQueue DEF QueueInv
    <3> QED
      BY <1>1, <1>4, <2>1, <3>1 DEF QueueInv
  <2>4. AnswerInv'
    <3>1. ~dsDoubt /\ ~dsTorn => Head(dsQueue) = Made
      BY <1>1, <2>2 DEF AnswerInv
    <3> QED
      BY <1>1, <1>4, <2>1, <2>2, <3>1 DEF AnswerInv
  <2> QED
    BY <1>3, <2>3, <2>4 DEF SenderInv
<1>8. CASE PopFront
  <2>1. /\ dsPort # 0 /\ dsPort' = 0 /\ dsTorn' = (dsTorn \/ dsQueue = <<>>)
        /\ (IF dsTorn' THEN dsQueue' \in Found(Made) ELSE dsQueue' = Tail(dsQueue))
        /\ dsBus' = dsBus /\ dsSent' = dsSent /\ dsLost' = dsLost /\ dsDoubt' = dsDoubt
        /\ dsRx' = dsRx /\ dsReceived' = dsReceived /\ dsResponse' = dsResponse
    BY <1>8 DEF PopFront, dsAnswer, dsPast
  <2>2. CASE dsTorn'
    <3>1. dsQueue' \in Seq(Requests)
      BY <1>1, <2>1, <2>2, FoundIsQueue
    <3> QED
      BY <1>1, <1>3, <1>4, <2>1, <2>2, <3>1 DEF SenderInv, QueueInv, AnswerInv
  <2>3. CASE ~dsTorn'
    <3>1. ~dsTorn /\ dsQueue # <<>> /\ dsQueue' = Tail(dsQueue)
      BY <1>1, <2>1, <2>3
    <3>2. /\ Len(dsQueue) \in Nat \ {0} /\ Tail(dsQueue) \in Seq(Requests)
          /\ Len(Tail(dsQueue)) = Len(dsQueue) - 1
          /\ \A i \in 1..(Len(dsQueue) - 1) : Tail(dsQueue)[i] = dsQueue[i + 1]
      BY <1>1, <3>1, QueueFacts
    <3>3. IsQueue(Tail(dsQueue), Made, 0, dsSent, dsLost)
      BY <1>1, <2>1, <3>1, PopIsQueue DEF QueueInv
    <3>4. QueueInv'
      BY <1>4, <2>1, <3>1, <3>2, <3>3 DEF QueueInv
    <3>5. ~dsDoubt => \A i \in 1..Len(dsQueue') : dsQueue'[i] = Made
      BY <1>1, <3>1, <3>2 DEF AnswerInv
    <3>6. AnswerInv'
      BY <1>1, <1>4, <2>1, <3>1, <3>5 DEF AnswerInv
    <3> QED
      BY <1>3, <3>4, <3>6 DEF SenderInv
  <2> QED
    BY <2>2, <2>3
<1>9. CASE StopSending
  <2>1. /\ (IF dsTorn THEN dsQueue' \in Found(Made) /\ UNCHANGED dsLost
                      ELSE dsQueue' = <<>> /\ dsLost' = dsLost + Len(dsQueue))
        /\ dsPort' = dsPort /\ dsBus' = dsBus /\ dsTorn' = dsTorn /\ dsSent' = dsSent
        /\ dsDoubt' = dsDoubt
        /\ dsRx' = dsRx /\ dsReceived' = dsReceived /\ dsResponse' = dsResponse
    BY <1>9 DEF StopSending, dsAnswer, dsPast
  <2>2. CASE dsTorn
    <3>1. dsQueue' \in Seq(Requests)
      BY <1>1, <2>1, <2>2, FoundIsQueue
    <3> QED
      BY <1>1, <1>3, <1>4, <2>1, <2>2, <3>1 DEF SenderInv, QueueInv, AnswerInv
  <2>3. CASE ~dsTorn
    <3>1. dsQueue' = <<>> /\ <<>> \in Seq(Requests) /\ dsLost' = dsLost + Len(dsQueue)
      BY <2>1, <2>3, EmptySeq
    <3>2. IsQueue(<<>>, Made, dsPort, dsSent, dsLost + Len(dsQueue))
      BY <1>1, <2>3, ClearIsQueue DEF QueueInv
    <3>3. QueueInv'
      BY <1>4, <2>1, <3>1, <3>2 DEF QueueInv
    <3>4. AnswerInv'
      BY <1>1, <1>4, <2>1, <3>1 DEF AnswerInv
    <3> QED
      BY <1>3, <3>3, <3>4 DEF SenderInv
  <2> QED
    BY <1>1, <2>2, <2>3
<1>10. CASE Collide
  <2>1. /\ dsTorn' = TRUE /\ dsQueue' \in Found(Made) /\ dsDoubt' = dsDoubt
        /\ dsResponse' = dsResponse /\ dsBus' = dsBus
    BY <1>10 DEF Collide, dsAnswer, dsPast
  <2>2. dsQueue' \in Seq(Requests)
    BY <1>1, <2>1, FoundIsQueue
  <2> QED
    BY <1>1, <1>3, <1>4, <2>1, <2>2 DEF SenderInv, QueueInv, AnswerInv
<1> QED
  BY <1>5, <1>6, <1>7, <1>8, <1>9, <1>10

LEMMA SenderKeeps == SenderInv /\ [DataSenderNext]_dsVars => SenderInv'
  BY AutoSendKeeps, TriggerAnsweredKeeps, WorkerKeeps, PortKeeps DEF DataSenderNext

(* Whatever times out, is answered late, comes unasked, overflows or is      *)
(* stopped in between: the entries are sent in turn, each m_maxSendCount     *)
(* times (HandleAutoSendFrames, HandleTriggerSendFrames); "RX Data OK" is    *)
(* said of the answer to the last request, unless a line came that it did    *)
(* not ask for or it was made before all others were answered; and until two *)
(* threads meet at m_TxQueue a request is written once and in turn, and one  *)
(* that is not was taken off by an overflow or by ClearBuffers.              *)
THEOREM SenderIsSafe == DataSenderSpec => []DataSenderSafe
<1>1. SenderInv => DataSenderSafe
  <2> SUFFICES ASSUME SenderInv PROVE DataSenderSafe
    OBVIOUS
  <2>1. /\ SendsInTurn /\ OkIsOfLastRequest
        /\ ~dsTorn => IsQueue(dsQueue, Made, dsPort, dsSent, dsLost)
        /\ dsQueue \in Seq(Requests)
    BY DEF SenderInv, TurnInv, AnswerInv, QueueInv
  <2>2. SentOnce
    BY <2>1 DEF IsQueue, SentOnce
  <2>3. LossIsCounted
    <3> SUFFICES ASSUME ~dsTorn PROVE Made - Len(dsQueue) <= Len(dsSent) + dsLost
      BY DEF LossIsCounted
    <3>1. /\ Made \in Nat /\ Len(dsQueue) \in Nat /\ Len(dsSent) \in Nat /\ dsLost \in Nat
          /\ Underway(dsPort) \in {0, 1}
          /\ Made - Len(dsQueue) + Underway(dsPort) <= Len(dsSent) + dsLost
      BY <2>1, QueueFacts, LenProperties DEF IsQueue, Underway
    <3> QED
      BY <3>1
  <2> QED
    BY <2>1, <2>2, <2>3 DEF DataSenderSafe
<1> QED
  BY InitSenderInv, SenderKeeps, <1>1, PTL DEF DataSenderSpec

HIDE DataSenderAssumption
-----------------------------------------------------------------------------
(* The TCP server. *)

Numbered == Nat \ {0}
Given == UNION {ToSet(tsGiven[s]) : s \in SessionIds}

TcpType ==
  /\ tsFrom \in Seq(Clients) /\ Len(tsFrom) <= MaxSessions
  /\ tsOpen \subseteq Accepted /\ tsSessions \subseteq Accepted
  /\ tsReading \subseteq Accepted /\ tsClosing \subseteq Accepted
  /\ tsTimer \subseteq Accepted /\ tsUp \in BOOLEAN /\ tsMet \subseteq tsFailed
  /\ tsWriting \in [SessionIds -> Nat]
  /\ tsPending \in [SessionIds -> Seq(Numbered)]
  /\ tsGiven \in [SessionIds -> Seq(Numbered)]
  /\ tsSent \in [SessionIds -> Seq(Numbered)]

(* The messages are numbered in the order they were made, without a gap.     *)
NumberInv == \E n \in Nat : Given = 1..n

(* What is written, pending or under way is what was given, by number and by *)
(* count.                                                                    *)
Under(s) == IF tsWriting[s] = 0 THEN {} ELSE {tsWriting[s]}
KeptInv ==
  \A s \in SessionIds \ tsFailed :
    /\ Len(tsGiven[s]) = Len(tsSent[s]) + Len(tsPending[s])
                         + (IF tsWriting[s] = 0 THEN 0 ELSE 1)
    /\ ToSet(tsGiven[s]) = ToSet(tsSent[s]) \cup ToSet(tsPending[s]) \cup Under(s)

(* A session that shares its address with none is listed as long as it is    *)
(* open, so that no message reaches it when it was closed after its reply.   *)
Lone(s) == \A t \in Accepted \ {s} : tsFrom[t] # tsFrom[s]
LoneInv ==
  tsUp =>
    /\ tsReading \subseteq tsOpen
    /\ tsReading \cap tsClosing = {}
    /\ \A s \in Accepted : Lone(s) =>
         /\ s \in tsSessions <=> s \in tsOpen
         /\ s \in tsClosing \ tsMet /\ s \notin tsOpen => tsPending[s] = <<>>

TcpInv == TcpType /\ NumberInv /\ KeptInv /\ LoneInv /\ ListCountsOpen

LEMMA InToSet ==
  ASSUME NEW S, NEW w \in Seq(S)
  PROVE  \A x : x \in ToSet(w) <=> \E i \in 1..Len(w) : w[i] = x
BY LenProperties DEF ToSet

LEMMA ToSetFacts ==
  ASSUME NEW S, NEW w \in Seq(S)
  PROVE  /\ \A e \in S : /\ Append(w, e) \in Seq(S) /\ Len(Append(w, e)) = Len(w) + 1
                         /\ ToSet(Append(w, e)) = ToSet(w) \cup {e}
         /\ w # <<>> => /\ Head(w) \in S /\ Tail(w) \in Seq(S)
                        /\ Len(w) = Len(Tail(w)) + 1
                        /\ ToSet(w) = {Head(w)} \cup ToSet(Tail(w))
         /\ w = <<>> => Len(w) = 0 /\ ToSet(w) = {}
         /\ Len(w) \in Nat
<1>1. ASSUME NEW e \in S
      PROVE  /\ Append(w, e) \in Seq(S) /\ Len(Append(w, e)) = Len(w) + 1
             /\ ToSet(Append(w, e)) = ToSet(w) \cup {e}
  <2>1. /\ Append(w, e) \in Seq(S) /\ Len(Append(w, e)) = Len(w) + 1
        /\ Len(w) \in Nat
        /\ \A i \in 1..Len(w) : Append(w, e)[i] = w[i]
        /\ Append(w, e)[Len(w) + 1] = e
    OBVIOUS
  <2>2. \A x : x \in ToSet(Append(w, e)) <=> \E i \in 1..(Len(w) + 1) : Append(w, e)[i] = x
    <3> DEFINE v == Append(w, e)
    <3>1. v \in Seq(S) /\ Len(v) = Len(w) + 1
      BY <2>1
    <3> HIDE DEF v
    <3>2. \A x : x \in ToSet(v) <=> \E i \in 1..Len(v) : v[i] = x
      BY <3>1, InToSet
    <3>3. \A x : x \in ToSet(v) <=> \E i \in 1..(Len(w) + 1) : v[i] = x
      BY <3>1, <3>2
    <3> QED
      BY <3>3 DEF v
  <2>3. \A x : x \in ToSet(w) <=> \E i \in 1..Len(w) : w[i] = x
    BY InToSet
  <2> QED
    BY <2>1, <2>2, <2>3
<1>2. ASSUME w # <<>>
      PROVE  /\ Head(w) \in S /\ Tail(w) \in Seq(S)
             /\ Len(w) = Len(Tail(w)) + 1
             /\ ToSet(w) = {Head(w)} \cup ToSet(Tail(w))
  <2>1. Len(w) \in Nat \ {0} /\ Head(w) \in S /\ Tail(w) \in Seq(S)
    BY <1>2, EmptySeq, HeadTailProperties
  <2>2. Len(Tail(w)) = Len(w) - 1 /\ \A i \in 1..Len(Tail(w)) : Tail(w)[i] = w[i + 1]
    BY <2>1
  <2>3. Head(w) = w[1]
    BY <2>1
  <2>4. \A x : x \in ToSet(Tail(w)) <=> \E i \in 1..(Len(w) - 1) : w[i + 1] = x
    <3> DEFINE v == Tail(w)
    <3>1. v \in Seq(S) /\ Len(v) = Len(w) - 1 /\ \A i \in 1..Len(v) : v[i] = w[i + 1]
      BY <2>1, <2>2
    <3> HIDE DEF v
    <3>2. \A x : x \in ToSet(v) <=> \E i \in 1..Len(v) : v[i] = x
      BY <3>1, InToSet
    <3>3. \A x : x \in ToSet(v) <=> \E i \in 1..(Len(w) - 1) : w[i + 1] = x
      BY <3>1, <3>2
    <3> QED
      BY <3>3 DEF v
  <2>5. \A x : x \in ToSet(w) <=> \E i \in 1..Len(w) : w[i] = x
    BY InToSet
  <2>6. ASSUME NEW x
        PROVE  x \in ToSet(w) <=> x = Head(w) \/ x \in ToSet(Tail(w))
    <3>1. ASSUME NEW i \in 1..Len(w), i # 1
          PROVE  i - 1 \in 1..(Len(w) - 1) /\ (i - 1) + 1 = i
      BY <2>1, <3>1
    <3>2. \A i \in 1..(Len(w) - 1) : i + 1 \in 1..Len(w)
      BY <2>1
    <3>3. 1 \in 1..Len(w)
      BY <2>1
    <3>4. (\E i \in 1..Len(w) : w[i] = x) <=>
            w[1] = x \/ \E i \in 1..(Len(w) - 1) : w[i + 1] = x
      BY <3>1, <3>2, <3>3
    <3> QED
      BY <2>3, <2>4, <2>5, <3>4
  <2>7. ToSet(w) = {Head(w)} \cup ToSet(Tail(w))
    BY <2>6
  <2> QED
    BY <2>1, <2>2, <2>7
<1>3. ASSUME w = <<>> PROVE Len(w) = 0 /\ ToSet(w) = {}
  BY <1>3 DEF ToSet
<1> QED
  BY <1>1, <1>2, <1>3

LEMMA AcceptedIds ==
  ASSUME TcpType
  PROVE  /\ Len(tsFrom) \in Nat /\ Accepted \subseteq SessionIds
         /\ \A s \in Accepted : tsFrom[s] \in Clients
BY TcpBoundsAssumption DEF TcpType, Accepted, SessionIds

LEMMA InitTcp == TcpInit => TcpInv
<1> SUFFICES ASSUME TcpInit PROVE TcpInv
  OBVIOUS
<1> USE DEF TcpInit
<1>1. TcpType
  BY TcpBoundsAssumption DEF TcpType, Accepted
<1>2. Given = 1..0
  BY DEF Given, ToSet
<1>3. NumberInv
  BY <1>2 DEF NumberInv
<1>4. KeptInv
  BY DEF KeptInv, Under, ToSet
<1>5. LoneInv
  BY DEF LoneInv, Accepted
<1>6. ListCountsOpen
  BY DEF ListCountsOpen
<1> QED
  BY <1>1, <1>3, <1>4, <1>5, <1>6 DEF TcpInv

-----------------------------------------------------------------------------
(* The list of sessions: StopSession takes one of the address off. *)

Listed(c) == {t \in tsSessions : tsFrom[t] = c}
Opened(c) == {t \in tsOpen : tsFrom[t] = c}

LEMMA FiniteLists ==
  ASSUME TcpType, NEW c
  PROVE  IsFiniteSet(Listed(c)) /\ IsFiniteSet(Opened(c))
<1>1. IsFiniteSet(Accepted)
  BY AcceptedIds, FS_Interval DEF Accepted
<1> QED
  BY <1>1, FS_Subset DEF TcpType, Listed, Opened

LEMMA ListsSame ==
  ASSUME ListCountsOpen, UNCHANGED <<tsFrom, tsOpen, tsSessions, tsUp>>
  PROVE  ListCountsOpen'
BY DEF ListCountsOpen

LEMMA StopEffect ==
  ASSUME TcpInv, tsUp, NEW s \in Accepted, StopSession(s)
  PROVE  /\ tsOpen' = tsOpen \ {s} /\ tsReading' = tsReading \ {s}
         /\ s \in tsOpen => \E t \in tsSessions : /\ tsFrom[t] = tsFrom[s]
                                                  /\ tsSessions' = tsSessions \ {t}
         /\ s \notin tsOpen => tsSessions' = tsSessions
<1>1. CASE s \notin tsOpen
  BY <1>1 DEF StopSession, TcpInv, LoneInv
<1>2. CASE s \in tsOpen
  <2>1. tsFrom[s] \in Clients
    BY AcceptedIds DEF TcpInv
  <2>2. Cardinality(Listed(tsFrom[s])) = Cardinality(Opened(tsFrom[s]))
    BY <2>1 DEF TcpInv, ListCountsOpen, Listed, Opened
  <2>3. Opened(tsFrom[s]) # {}
    BY <1>2 DEF Opened
  <2>4. Listed(tsFrom[s]) # {}
    BY <2>2, <2>3, FiniteLists, FS_EmptySet DEF TcpInv
  <2>5. SameAddress(s) # {}
    BY <2>4 DEF SameAddress, Listed
  <2> QED
    BY <1>2, <2>5 DEF StopSession, SameAddress
<1> QED
  BY <1>1, <1>2

LEMMA StopCounts ==
  ASSUME TcpInv, tsUp, NEW s \in Accepted, StopSession(s), UNCHANGED <<tsFrom, tsUp>>
  PROVE  ListCountsOpen'
<1>1. CASE s \notin tsOpen
  BY <1>1, StopEffect, ListsSame DEF TcpInv, StopSession
<1>2. CASE s \in tsOpen
  <2>1. PICK t \in tsSessions : tsFrom[t] = tsFrom[s] /\ tsSessions' = tsSessions \ {t}
    BY <1>2, StopEffect
  <2>2. tsOpen' = tsOpen \ {s}
    BY StopEffect
  <2> SUFFICES ASSUME NEW c \in Clients
               PROVE  Cardinality(Listed(c)') = Cardinality(Opened(c)')
    BY DEF ListCountsOpen, Listed, Opened
  <2>3. /\ Cardinality(Listed(c)) = Cardinality(Opened(c))
        /\ IsFiniteSet(Listed(c)) /\ IsFiniteSet(Opened(c))
    BY FiniteLists DEF TcpInv, ListCountsOpen, Listed, Opened
  <2>4. CASE c = tsFrom[s]
    <3>1. /\ Listed(c)' = Listed(c) \ {t} /\ t \in Listed(c)
          /\ Opened(c)' = Opened(c) \ {s} /\ s \in Opened(c)
      BY <2>1, <2>2, <2>4, <1>2 DEF Listed, Opened
    <3>2. /\ Cardinality(Listed(c) \ {t}) = Cardinality(Listed(c)) - 1
          /\ Cardinality(Opened(c) \ {s}) = Cardinality(Opened(c)) - 1
      BY <2>3, <3>1, FS_RemoveElement
    <3> QED
      BY <2>3, <3>1, <3>2
  <2>5. CASE c # tsFrom[s]
    <3>1. Listed(c)' = Listed(c) /\ Opened(c)' = Opened(c)
      BY <2>1, <2>2, <2>5 DEF Listed, Opened
    <3> QED
      BY <2>3, <3>1
  <2> QED
    BY <2>4, <2>5
<1> QED
  BY <1>1, <1>2

(* A lone session is listed as long as it is open, whoever stops. *)
LEMMA StopLone ==
  ASSUME TcpInv, tsUp, NEW s \in Accepted, StopSession(s), UNCHANGED tsFrom
  PROVE  /\ tsReading' \subseteq tsOpen'
         /\ \A x \in Accepted : Lone(x) => (x \in tsSessions' <=> x \in tsOpen')
<1>1. tsReading' \subseteq tsOpen'
  BY StopEffect DEF TcpInv, LoneInv
<1>2. ASSUME NEW x \in Accepted, Lone(x)
      PROVE  x \in tsSessions' <=> x \in tsOpen'
  <2>1. x \in tsSessions <=> x \in tsOpen
    BY <1>2 DEF TcpInv, LoneInv
  <2>2. CASE s \notin tsOpen
    BY <2>1, <2>2, StopEffect
  <2>3. CASE s \in tsOpen
    <3>1. PICK t \in tsSessions : tsFrom[t] = tsFrom[s] /\ tsSessions' = tsSessions \ {t}
      BY <2>3, StopEffect
    <3>2. t \in Accepted
      BY DEF TcpInv, TcpType
    <3>3. t = x <=> s = x
      BY <1>2, <3>1, <3>2 DEF Lone
    <3> QED
      BY <2>1, <3>1, <3>3, StopEffect
  <2> QED
    BY <2>2, <2>3
<1> QED
  BY <1>1, <1>2

LEMMA StopTypes ==
  ASSUME TcpInv, NEW s \in Accepted, StopSession(s)
  PROVE  tsOpen' \subseteq Accepted /\ tsSessions' \subseteq Accepted
         /\ tsReading' \subseteq Accepted
BY DEF StopSession, TcpInv, TcpType

-----------------------------------------------------------------------------
(* The messages of one session. *)

Kept(s) ==
  /\ Len(tsGiven[s]) = Len(tsSent[s]) + Len(tsPending[s]) + (IF tsWriting[s] = 0 THEN 0 ELSE 1)
  /\ ToSet(tsGiven[s]) = ToSet(tsSent[s]) \cup ToSet(tsPending[s]) \cup Under(s)

LEMMA KeptIs == KeptInv <=> \A s \in SessionIds \ tsFailed : Kept(s)
BY DEF KeptInv, Kept

LEMMA KeptSame ==
  ASSUME NEW s, Kept(s), tsGiven'[s] = tsGiven[s], tsSent'[s] = tsSent[s],
         tsPending'[s] = tsPending[s], tsWriting'[s] = tsWriting[s]
  PROVE  Kept(s)'
BY DEF Kept, Under

LEMMA SeqsOf ==
  ASSUME TcpType, NEW s \in SessionIds
  PROVE  /\ tsGiven[s] \in Seq(Numbered) /\ tsSent[s] \in Seq(Numbered)
         /\ tsPending[s] \in Seq(Numbered) /\ tsWriting[s] \in Nat
BY DEF TcpType

LEMMA Sums ==
  \A a, b \in Nat : (a + b + 1) + 1 = a + (b + 1) + 1
                    /\ a + (b + 1) + 1 = (a + 1) + b + 1
                    /\ a + (b + 1) = a + b + 1
OBVIOUS

(* SendAsync of a new message. *)
LEMMA KeptGiven ==
  ASSUME TcpType, NEW s \in SessionIds, Kept(s), NEW m \in Numbered,
         tsGiven'[s] = Append(tsGiven[s], m), tsSent'[s] = tsSent[s],
         \/ /\ tsWriting[s] # 0 /\ tsWriting'[s] = tsWriting[s]
            /\ tsPending'[s] = Append(tsPending[s], m)
         \/ /\ tsWriting[s] = 0 /\ tsWriting'[s] = m
            /\ tsPending'[s] = tsPending[s]
  PROVE  Kept(s)'
<1>1. /\ Len(tsGiven'[s]) = Len(tsGiven[s]) + 1
      /\ ToSet(tsGiven'[s]) = ToSet(tsGiven[s]) \cup {m}
  BY SeqsOf, ToSetFacts
<1>2. /\ Len(Append(tsPending[s], m)) = Len(tsPending[s]) + 1
      /\ ToSet(Append(tsPending[s], m)) = ToSet(tsPending[s]) \cup {m}
  BY SeqsOf, ToSetFacts
<1>3. Len(tsPending[s]) \in Nat /\ Len(tsSent[s]) \in Nat /\ m # 0
  BY SeqsOf DEF Numbered
<1>4. CASE tsWriting[s] # 0 /\ tsWriting'[s] = tsWriting[s]
           /\ tsPending'[s] = Append(tsPending[s], m)
  <2>1. Under(s)' = Under(s)
    BY <1>4 DEF Under
  <2>2. ToSet(tsGiven'[s]) = ToSet(tsSent'[s]) \cup ToSet(tsPending'[s]) \cup Under(s)'
    BY <1>1, <1>2, <1>4, <2>1 DEF Kept
  <2>3. Len(tsGiven[s]) = Len(tsSent[s]) + Len(tsPending[s]) + 1
    BY <1>4 DEF Kept
  <2>4. Len(tsPending'[s]) = Len(tsPending[s]) + 1 /\ Len(tsSent'[s]) = Len(tsSent[s])
    BY <1>2, <1>4
  <2>5. Len(tsGiven'[s]) = Len(tsSent'[s]) + Len(tsPending'[s]) + 1
    <3>1. (Len(tsSent[s]) + Len(tsPending[s]) + 1) + 1 = Len(tsSent[s]) + (Len(tsPending[s]) + 1) + 1
      BY <1>3, Sums, Zenon
    <3> QED
      BY <1>1, <2>3, <2>4, <3>1, Zenon
  <2> QED
    BY <1>4, <2>2, <2>5 DEF Kept
<1>5. CASE tsWriting[s] = 0 /\ tsWriting'[s] = m /\ tsPending'[s] = tsPending[s]
  <2>1. Under(s)' = {m} /\ Under(s) = {}
    BY <1>5, <1>3 DEF Under
  <2>2. ToSet(tsGiven'[s]) = ToSet(tsSent'[s]) \cup ToSet(tsPending'[s]) \cup Under(s)'
    BY <1>1, <1>5, <2>1 DEF Kept
  <2>3. Len(tsGiven'[s]) = Len(tsSent'[s]) + Len(tsPending'[s]) + 1
    BY <1>1, <1>3, <1>5 DEF Kept
  <2> QED
    BY <1>3, <1>5, <2>2, <2>3 DEF Kept
<1> QED
  BY <1>4, <1>5

(* HandleWrite: what was under way is written.                              *)
LEMMA KeptWritten ==
  ASSUME TcpType, NEW s \in SessionIds, Kept(s), tsWriting[s] # 0,
         tsGiven'[s] = tsGiven[s], tsSent'[s] = Append(tsSent[s], tsWriting[s]),
         tsPending'[s] = tsPending[s], tsWriting'[s] = 0
  PROVE  Kept(s)'
<1>1. tsWriting[s] \in Numbered
  BY SeqsOf DEF Numbered
<1>2. /\ Len(tsSent'[s]) = Len(tsSent[s]) + 1
      /\ ToSet(tsSent'[s]) = ToSet(tsSent[s]) \cup {tsWriting[s]}
  BY <1>1, SeqsOf, ToSetFacts
<1>3. Under(s) = {tsWriting[s]} /\ Under(s)' = {}
  BY DEF Under
<1>4. ToSet(tsGiven'[s]) = ToSet(tsSent'[s]) \cup ToSet(tsPending'[s]) \cup Under(s)'
  BY <1>2, <1>3 DEF Kept
<1>5. Len(tsGiven'[s]) = Len(tsSent'[s]) + Len(tsPending'[s]) + 0
  <2> DEFINE a == Len(tsSent[s])
             b == Len(tsPending[s])
  <2>1. Len(tsGiven'[s]) = a + b + 1 /\ a \in Nat /\ b \in Nat
    <3>1. a \in Nat /\ b \in Nat
      BY SeqsOf, LenProperties
    <3>2. Len(tsGiven[s]) = a + b + (IF tsWriting[s] = 0 THEN 0 ELSE 1)
      BY DEF Kept
    <3> QED
      BY <3>1, <3>2
  <2>2. Len(tsSent'[s]) = a + 1 /\ Len(tsPending'[s]) = b
    BY <1>2
  <2> HIDE DEF a, b
  <2> QED
    BY <2>1, <2>2
<1> QED
  BY <1>4, <1>5 DEF Kept

(* SendNextPending: the next pending one is sent, or goes to the back.       *)
LEMMA KeptMoved ==
  ASSUME TcpType, NEW s \in SessionIds, Kept(s), tsPending[s] # <<>>,
         tsGiven'[s] = tsGiven[s], tsSent'[s] = tsSent[s],
         \/ /\ tsWriting[s] # 0 /\ tsWriting'[s] = tsWriting[s]
            /\ tsPending'[s] = Append(Tail(tsPending[s]), Head(tsPending[s]))
         \/ /\ tsWriting[s] = 0 /\ tsWriting'[s] = Head(tsPending[s])
            /\ tsPending'[s] = Tail(tsPending[s])
  PROVE  Kept(s)'
<1>1. /\ Head(tsPending[s]) \in Numbered
      /\ Tail(tsPending[s]) \in Seq(Numbered)
      /\ Len(tsPending[s]) = Len(Tail(tsPending[s])) + 1
      /\ ToSet(tsPending[s]) = {Head(tsPending[s])} \cup ToSet(Tail(tsPending[s]))
  BY SeqsOf, ToSetFacts
<1>2. Len(Tail(tsPending[s])) \in Nat /\ Len(tsSent[s]) \in Nat
  BY <1>1, SeqsOf, ToSetFacts
<1>3. CASE tsWriting[s] # 0 /\ tsWriting'[s] = tsWriting[s]
           /\ tsPending'[s] = Append(Tail(tsPending[s]), Head(tsPending[s]))
  <2>0. /\ Len(tsPending'[s]) = Len(Tail(tsPending[s])) + 1
        /\ ToSet(tsPending'[s]) = ToSet(Tail(tsPending[s])) \cup {Head(tsPending[s])}
    <3> DEFINE rest == Tail(tsPending[s])
               first == Head(tsPending[s])
    <3>1. rest \in Seq(Numbered) /\ first \in Numbered
      BY <1>1
    <3>2. tsPending'[s] = Append(rest, first)
      BY <1>3
    <3> HIDE DEF rest, first
    <3>3. /\ Len(Append(rest, first)) = Len(rest) + 1
          /\ ToSet(Append(rest, first)) = ToSet(rest) \cup {first}
      BY <3>1, ToSetFacts
    <3> QED
      BY <3>2, <3>3 DEF rest, first
  <2>1. /\ Len(tsPending'[s]) = Len(tsPending[s])
        /\ ToSet(tsPending'[s]) = ToSet(tsPending[s])
    BY <1>1, <2>0
  <2>2. Under(s)' = Under(s)
    BY <1>3 DEF Under
  <2> QED
    BY <1>3, <2>1, <2>2 DEF Kept
<1>4. CASE tsWriting[s] = 0 /\ tsWriting'[s] = Head(tsPending[s])
           /\ tsPending'[s] = Tail(tsPending[s])
  <2>1. Under(s) = {} /\ Under(s)' = {Head(tsPending[s])} /\ tsWriting'[s] # 0
    BY <1>1, <1>4 DEF Under, Numbered
  <2>2. ToSet(tsGiven'[s]) = ToSet(tsSent'[s]) \cup ToSet(tsPending'[s]) \cup Under(s)'
    BY <1>1, <1>4, <2>1 DEF Kept
  <2>3. Len(tsGiven[s]) = Len(tsSent[s]) + Len(tsPending[s])
    <3>1. Len(tsGiven[s]) = Len(tsSent[s]) + Len(tsPending[s]) + 0
      BY <1>4 DEF Kept
    <3> QED
      BY <1>1, <1>2, <3>1
  <2>4. /\ Len(tsPending'[s]) = Len(Tail(tsPending[s]))
        /\ Len(tsGiven'[s]) = Len(tsGiven[s]) /\ Len(tsSent'[s]) = Len(tsSent[s])
    BY <1>4
  <2>5. Len(tsGiven'[s]) = Len(tsSent'[s]) + Len(tsPending'[s]) + 1
    <3>1. Len(tsSent[s]) + (Len(Tail(tsPending[s])) + 1) = Len(tsSent[s]) + Len(Tail(tsPending[s])) + 1
      BY <1>2, Sums, Zenon
    <3> QED
      BY <1>1, <2>3, <2>4, <3>1, Zenon
  <2> QED
    BY <2>1, <2>2, <2>5 DEF Kept
<1> QED
  BY <1>3, <1>4

(* The next number is a new one. *)
LEMMA NextNumber ==
  ASSUME NumberInv
  PROVE  /\ MessagesMade + 1 \in Numbered
         /\ \E n \in Nat : Given = 1..n /\ MessagesMade = n
<1>1. PICK n \in Nat : Given = 1..n
  BY DEF NumberInv
<1>2. MessagesMade = Cardinality(Given)
  BY DEF MessagesMade, Given
<1>3. Cardinality(1..n) = n
  BY FS_Interval
<1> QED
  BY <1>1, <1>2, <1>3 DEF Numbered

LEMMA NumberAdded ==
  ASSUME NumberInv, Given' = Given \cup {MessagesMade + 1}
  PROVE  NumberInv'
<1>1. PICK n \in Nat : Given = 1..n /\ MessagesMade = n
  BY NextNumber
<1>2. Given' = 1..(n + 1)
  BY <1>1
<1> QED
  BY <1>2 DEF NumberInv

LEMMA NumberSame ==
  ASSUME NumberInv, UNCHANGED tsGiven
  PROVE  NumberInv'
<1>1. Given' = Given
  BY DEF Given
<1> QED
  BY <1>1 DEF NumberInv

-----------------------------------------------------------------------------
(* The steps. *)

LEMMA KeptOne ==
  ASSUME TcpInv, NEW s \in SessionIds, tsFailed \subseteq tsFailed',
         \A x \in SessionIds \ {s} :
            /\ tsGiven'[x] = tsGiven[x] /\ tsSent'[x] = tsSent[x]
            /\ tsPending'[x] = tsPending[x] /\ tsWriting'[x] = tsWriting[x],
         Kept(s) => Kept(s)' \/ s \in tsFailed'
  PROVE  KeptInv'
<1> SUFFICES ASSUME NEW x \in SessionIds \ tsFailed'
             PROVE  Kept(x)'
  BY DEF KeptInv, Kept
<1>1. Kept(x)
  BY KeptIs DEF TcpInv
<1>2. CASE x = s
  BY <1>1, <1>2
<1>3. CASE x # s
  BY <1>1, <1>3, KeptSame
<1> QED
  BY <1>2, <1>3

LEMMA KeptUntouched ==
  ASSUME KeptInv, UNCHANGED <<tsGiven, tsSent, tsPending, tsWriting>>, tsFailed \subseteq tsFailed'
  PROVE  KeptInv'
BY DEF KeptInv, Under

LEMMA LoneSame ==
  ASSUME TcpInv, UNCHANGED <<tsFrom, tsOpen, tsSessions, tsUp>>,
         tsMet \subseteq tsMet', tsReading' \subseteq tsReading,
         tsUp => tsReading' \cap tsClosing' = {},
         \A x \in Accepted :
            tsUp /\ Lone(x) /\ x \in tsClosing' \ tsMet' /\ x \notin tsOpen => tsPending'[x] = <<>>
  PROVE  LoneInv'
<1>1. Accepted' = Accepted /\ \A x : Lone(x)' <=> Lone(x)
  BY DEF Accepted, Lone
<1> QED
  BY <1>1 DEF TcpInv, LoneInv

LEMMA AcceptStep ==
  ASSUME TcpInv, NEW c \in Clients, HandleAccept(c)
  PROVE  TcpInv'
<1> DEFINE k == Len(tsFrom) + 1
<1>0. /\ tsUp /\ Len(tsFrom) < MaxSessions /\ tsFrom' = Append(tsFrom, c)
      /\ tsOpen' = tsOpen \cup {k} /\ tsSessions' = tsSessions \cup {k}
      /\ tsReading' = tsReading \cup {k}
      /\ UNCHANGED <<tsUp, tsSend, tsPast>>
  BY DEF HandleAccept
<1>1. /\ tsFrom \in Seq(Clients) /\ Len(tsFrom) \in Nat
      /\ Len(tsFrom') = k /\ tsFrom'[k] = c
      /\ \A x \in Accepted : tsFrom'[x] = tsFrom[x]
      /\ Accepted' = Accepted \cup {k} /\ k \notin Accepted
      /\ tsFrom' \in Seq(Clients)
  <2>1. tsFrom \in Seq(Clients) /\ Len(tsFrom) \in Nat
    BY DEF TcpInv, TcpType
  <2>2. /\ Len(tsFrom') = k /\ tsFrom'[k] = c /\ tsFrom' \in Seq(Clients)
        /\ \A x \in 1..Len(tsFrom) : tsFrom'[x] = tsFrom[x]
    BY <1>0, <2>1
  <2> QED
    BY <2>1, <2>2 DEF Accepted
<1>2. TcpType'
  <2>1. Len(tsFrom') <= MaxSessions
    BY <1>0, <1>1, TcpBoundsAssumption
  <2> HIDE DEF k
  <2> QED
    BY <1>0, <1>1, <2>1 DEF TcpInv, TcpType, tsSend, tsPast
<1>3. NumberInv' /\ KeptInv'
  BY <1>0, NumberSame, KeptUntouched DEF TcpInv, tsSend, tsPast
<1>4. k \notin tsOpen /\ k \notin tsSessions /\ k \notin tsClosing
  BY <1>1 DEF TcpInv, TcpType
<1> HIDE DEF k
<1>5. LoneInv'
  <2>1. ASSUME NEW x \in Accepted, Lone(x)'
        PROVE  Lone(x)
    BY <1>1, <2>1 DEF Lone
  <2>2. tsReading' \subseteq tsOpen' /\ tsReading' \cap tsClosing' = {}
    BY <1>0, <1>4 DEF TcpInv, LoneInv, tsSend
  <2>3. ASSUME NEW x \in Accepted', Lone(x)'
        PROVE  /\ x \in tsSessions' <=> x \in tsOpen'
               /\ x \in tsClosing' \ tsMet' /\ x \notin tsOpen' => tsPending'[x] = <<>>
    <3>1. CASE x = k
      BY <3>1, <1>0
    <3>2. CASE x \in Accepted
      BY <3>2, <2>1, <2>3, <1>0, <1>1 DEF TcpInv, LoneInv, tsSend, tsPast
    <3> QED
      BY <3>1, <3>2, <1>1
  <2> QED
    BY <2>2, <2>3 DEF LoneInv
<1>6. ListCountsOpen'
  <2> SUFFICES ASSUME NEW d \in Clients
               PROVE  Cardinality(Listed(d)') = Cardinality(Opened(d)')
    BY DEF ListCountsOpen, Listed, Opened
  <2>1. /\ Cardinality(Listed(d)) = Cardinality(Opened(d))
        /\ IsFiniteSet(Listed(d)) /\ IsFiniteSet(Opened(d))
    BY <1>0, FiniteLists DEF TcpInv, ListCountsOpen, Listed, Opened
  <2>2. tsSessions \subseteq Accepted /\ tsOpen \subseteq Accepted
    BY DEF TcpInv, TcpType
  <2>3. CASE d = c
    <3>1. /\ Listed(d)' = Listed(d) \cup {k} /\ k \notin Listed(d)
          /\ Opened(d)' = Opened(d) \cup {k} /\ k \notin Opened(d)
      BY <1>0, <1>1, <1>4, <2>2, <2>3 DEF Listed, Opened
    <3>2. /\ Cardinality(Listed(d) \cup {k}) = Cardinality(Listed(d)) + 1
          /\ Cardinality(Opened(d) \cup {k}) = Cardinality(Opened(d)) + 1
      BY <2>1, <3>1, FS_AddElement
    <3> QED
      BY <2>1, <3>1, <3>2
  <2>4. CASE d # c
    <3>1. Listed(d)' = Listed(d) /\ Opened(d)' = Opened(d)
      BY <1>0, <1>1, <1>4, <2>2, <2>4 DEF Listed, Opened
    <3> QED
      BY <2>1, <3>1
  <2> QED
    BY <2>3, <2>4
<1> QED
  BY <1>2, <1>3, <1>5, <1>6 DEF TcpInv

LEMMA ReadReplyStep ==
  ASSUME TcpInv, NEW s \in Accepted, HandleReadReply(s)
  PROVE  TcpInv'
<1> DEFINE m == MessagesMade + 1
<1>0. /\ tsUp /\ s \in tsReading /\ tsReading' = tsReading \ {s}
      /\ tsGiven' = [tsGiven EXCEPT ![s] = Append(@, m)]
      /\ SendAsync(s, m)
      /\ tsClosing' = tsClosing \cup {s}
      /\ UNCHANGED <<tsFrom, tsOpen, tsSessions, tsUp, tsSent, tsFailed, tsMet>>
  BY DEF HandleReadReply
<1>1. m \in Numbered
  BY NextNumber DEF TcpInv
<1>2. s \in SessionIds
  BY AcceptedIds DEF TcpInv
<1>3. Given' = Given \cup {m}
  <2>1. /\ \A x \in SessionIds \ {s} : tsGiven'[x] = tsGiven[x]
        /\ tsGiven'[s] = Append(tsGiven[s], m)
    BY <1>0, <1>2 DEF TcpInv, TcpType
  <2>2. tsGiven[s] \in Seq(Numbered)
    BY <1>2, SeqsOf DEF TcpInv
  <2> HIDE DEF m
  <2>3. ToSet(tsGiven'[s]) = ToSet(tsGiven[s]) \cup {m}
    BY <1>1, <2>1, <2>2, ToSetFacts
  <2>4. \A x : x \in Given' <=> \E y \in SessionIds : x \in ToSet(tsGiven'[y])
    BY DEF Given
  <2>5. \A x : x \in Given <=> \E y \in SessionIds : x \in ToSet(tsGiven[y])
    BY DEF Given
  <2> QED
    BY <1>2, <2>1, <2>3, <2>4, <2>5
<1>4. NumberInv'
  BY <1>3, NumberAdded DEF TcpInv
<1> HIDE DEF m
<1>5. /\ tsGiven' \in [SessionIds -> Seq(Numbered)]
      /\ tsPending' \in [SessionIds -> Seq(Numbered)]
      /\ tsWriting' \in [SessionIds -> Nat] /\ tsTimer' \subseteq Accepted
      /\ \A x \in SessionIds \ {s} :
            /\ tsGiven'[x] = tsGiven[x] /\ tsSent'[x] = tsSent[x]
            /\ tsPending'[x] = tsPending[x] /\ tsWriting'[x] = tsWriting[x]
      /\ tsGiven'[s] = Append(tsGiven[s], m)
      /\ \/ /\ tsWriting[s] # 0 /\ tsWriting'[s] = tsWriting[s]
            /\ tsPending'[s] = Append(tsPending[s], m)
         \/ /\ tsWriting[s] = 0 /\ tsWriting'[s] = m
            /\ tsPending'[s] = tsPending[s]
  <2>1. m \in Nat
    BY <1>1 DEF Numbered
  <2>2. Append(tsGiven[s], m) \in Seq(Numbered) /\ Append(tsPending[s], m) \in Seq(Numbered)
    BY <1>1, <1>2, SeqsOf, ToSetFacts DEF TcpInv
  <2> QED
    BY <1>0, <1>2, <2>1, <2>2 DEF TcpInv, TcpType, SendAsync
<1>6. TcpType'
  <2>1. Accepted' = Accepted
    BY <1>0 DEF Accepted
  <2> QED
    BY <1>0, <1>5, <2>1 DEF TcpInv, TcpType
<1>7. KeptInv'
  <2>1. Kept(s) => Kept(s)'
    BY <1>0, <1>1, <1>2, <1>5, KeptGiven DEF TcpInv
  <2> QED
    BY <1>0, <1>2, <1>5, <2>1, KeptOne
<1>8. LoneInv'
  <2>1. s \in tsOpen /\ tsReading' \cap tsClosing' = {}
    BY <1>0 DEF TcpInv, LoneInv
  <2>2. ASSUME NEW x \in Accepted, Lone(x), x \in tsClosing' \ tsMet', x \notin tsOpen
        PROVE  tsPending'[x] = <<>>
    <3>1. x # s /\ x \in SessionIds
      BY <2>1, <2>2, AcceptedIds DEF TcpInv
    <3> QED
      BY <3>1, <2>2, <1>0, <1>5 DEF TcpInv, LoneInv
  <2> QED
    BY <1>0, <2>1, <2>2, LoneSame
<1>9. ListCountsOpen'
  BY <1>0, ListsSame DEF TcpInv
<1> QED
  BY <1>4, <1>6, <1>7, <1>8, <1>9 DEF TcpInv

(* A read that ends without a reply, or fails. *)
LEMMA ReadStep ==
  ASSUME TcpInv, NEW s \in Accepted, HandleReadClose(s) \/ HandleReadError(s)
  PROVE  TcpInv'
<1>0. /\ tsUp /\ s \in tsReading
      /\ UNCHANGED <<tsFrom, tsUp, tsSend, tsPast>>
      /\ Accepted' = Accepted
  BY DEF HandleReadClose, HandleReadError, Accepted
<1>1. NumberInv' /\ KeptInv'
  BY <1>0, NumberSame, KeptUntouched DEF TcpInv, tsSend, tsPast
<1>2. CASE HandleReadClose(s)
  <2>0. StopSession(s)
    BY <1>2 DEF HandleReadClose
  <2>1. TcpType'
    BY <1>0, <2>0, StopTypes DEF TcpInv, TcpType, tsSend, tsPast
  <2>2. ListCountsOpen'
    BY <1>0, <2>0, StopCounts
  <2>3. LoneInv'
    <3>1. \A x \in Accepted : Lone(x)' <=> Lone(x)
      BY <1>0 DEF Lone
    <3>2. tsOpen' = tsOpen \ {s} /\ tsReading' = tsReading \ {s} /\ s \notin tsClosing
      BY <1>0, <2>0, StopEffect DEF TcpInv, LoneInv
    <3>3. /\ tsReading' \subseteq tsOpen'
          /\ \A x \in Accepted : Lone(x) => (x \in tsSessions' <=> x \in tsOpen')
      BY <1>0, <2>0, StopLone
    <3>4. tsReading' \cap tsClosing' = {}
      BY <1>0, <3>2 DEF TcpInv, LoneInv, tsSend
    <3>5. ASSUME NEW x \in Accepted, Lone(x), x \in tsClosing' \ tsMet', x \notin tsOpen'
          PROVE  tsPending'[x] = <<>>
      BY <1>0, <3>2, <3>5 DEF TcpInv, LoneInv, tsSend, tsPast
    <3> QED
      BY <1>0, <3>1, <3>3, <3>4, <3>5 DEF LoneInv
  <2> QED
    BY <1>1, <2>1, <2>2, <2>3 DEF TcpInv
<1>3. CASE HandleReadError(s)
  <2>0. tsReading' = tsReading \ {s} /\ UNCHANGED <<tsOpen, tsSessions>>
    BY <1>3 DEF HandleReadError
  <2>1. TcpType'
    BY <1>0, <2>0 DEF TcpInv, TcpType, tsSend, tsPast
  <2>2. ListCountsOpen'
    BY <1>0, <2>0, ListsSame DEF TcpInv
  <2>3. LoneInv'
    <3>1. tsReading' \subseteq tsReading /\ tsReading' \cap tsClosing' = {}
      BY <1>0, <2>0 DEF TcpInv, LoneInv, tsSend
    <3>2. \A x \in Accepted :
            tsUp /\ Lone(x) /\ x \in tsClosing' \ tsMet' /\ x \notin tsOpen => tsPending'[x] = <<>>
      BY <1>0 DEF TcpInv, LoneInv, tsSend, tsPast
    <3>3. tsMet' = tsMet
      BY <1>0 DEF tsPast
    <3> QED
      BY <1>0, <2>0, <3>1, <3>2, <3>3, LoneSame
  <2> QED
    BY <1>1, <2>1, <2>2, <2>3 DEF TcpInv
<1> QED
  BY <1>2, <1>3

(* A session that has nothing left is stopped after its reply.               *)
LEMMA StoppedLone ==
  ASSUME TcpInv, tsUp, NEW s \in Accepted, StopSession(s),
         UNCHANGED <<tsFrom, tsUp, tsClosing, tsPending, tsMet>>, tsPending[s] = <<>>
  PROVE  LoneInv'
<1>1. Accepted' = Accepted /\ \A x \in Accepted : Lone(x)' <=> Lone(x)
  BY DEF Lone, Accepted
<1>2. tsOpen' = tsOpen \ {s} /\ tsReading' = tsReading \ {s}
  BY StopEffect
<1>3. /\ tsReading' \subseteq tsOpen'
      /\ \A x \in Accepted : Lone(x) => (x \in tsSessions' <=> x \in tsOpen')
  BY StopLone
<1>4. tsReading' \cap tsClosing' = {}
  BY <1>2 DEF TcpInv, LoneInv
<1>5. ASSUME NEW x \in Accepted, Lone(x), x \in tsClosing' \ tsMet', x \notin tsOpen'
      PROVE  tsPending'[x] = <<>>
  BY <1>2, <1>5 DEF TcpInv, LoneInv
<1> QED
  BY <1>1, <1>3, <1>4, <1>5 DEF LoneInv

LEMMA PendingFacts ==
  ASSUME TcpInv, NEW s \in SessionIds, tsPending[s] # <<>>
  PROVE  /\ Head(tsPending[s]) \in Nat /\ Tail(tsPending[s]) \in Seq(Numbered)
         /\ Append(Tail(tsPending[s]), Head(tsPending[s])) \in Seq(Numbered)
<1> DEFINE rest == Tail(tsPending[s])
           first == Head(tsPending[s])
<1>1. rest \in Seq(Numbered) /\ first \in Numbered
  BY SeqsOf, ToSetFacts DEF TcpInv
<1> HIDE DEF rest, first
<1>2. Append(rest, first) \in Seq(Numbered) /\ first \in Nat
  BY <1>1 DEF Numbered
<1> QED
  BY <1>1, <1>2 DEF rest, first

(* What SendNextPending does to the session and leaves of the others.        *)
Moved(s) ==
  /\ tsPending' \in [SessionIds -> Seq(Numbered)] /\ tsTimer' \subseteq Accepted
  /\ tsWriting' \in [SessionIds -> Nat]
  /\ \A x \in SessionIds \ {s} : tsPending'[x] = tsPending[x] /\ tsWriting'[x] = tsWriting[x]
  /\ \/ /\ tsWriting[s] # 0 /\ tsWriting'[s] = tsWriting[s]
        /\ tsPending'[s] = Append(Tail(tsPending[s]), Head(tsPending[s]))
     \/ /\ tsWriting[s] = 0 /\ tsWriting'[s] = Head(tsPending[s])
        /\ tsPending'[s] = Tail(tsPending[s])

LEMMA NextMoves ==
  ASSUME TcpInv, NEW s \in Accepted, tsPending[s] # <<>>, SendNextPending(s),
         tsWriting[s] = 0 => tsTimer' \subseteq tsTimer
  PROVE  Moved(s)
<1>1. s \in SessionIds
  BY AcceptedIds DEF TcpInv
<1>2. CASE tsWriting[s] # 0
  <2>1. /\ tsPending' = [tsPending EXCEPT ![s] = Append(Tail(tsPending[s]), Head(tsPending[s]))]
        /\ UNCHANGED tsWriting /\ tsTimer' = tsTimer \cup {s}
    BY <1>2 DEF SendNextPending
  <2> QED
    BY <1>1, <1>2, <2>1, PendingFacts DEF TcpInv, TcpType, Moved
<1>3. CASE tsWriting[s] = 0
  <2>1. /\ tsPending' = [tsPending EXCEPT ![s] = Tail(tsPending[s])]
        /\ tsWriting' = [tsWriting EXCEPT ![s] = Head(tsPending[s])]
    BY <1>3 DEF SendNextPending
  <2> QED
    BY <1>1, <1>3, <2>1, PendingFacts DEF TcpInv, TcpType, Moved
<1> QED
  BY <1>2, <1>3

(* The next message is sent, of HandleWrite or of the timer.                 *)
LEMMA MovedStep ==
  ASSUME TcpInv, NEW s \in Accepted, Moved(s), tsPending[s] # <<>>,
         UNCHANGED <<tsFrom, tsOpen, tsSessions, tsReading, tsUp, tsClosing, tsGiven, tsSent,
                     tsFailed, tsMet>>
  PROVE  TcpInv'
<1>0. s \in SessionIds /\ Accepted' = Accepted
  BY AcceptedIds DEF TcpInv, Accepted
<1>1. TcpType'
  BY <1>0 DEF TcpInv, TcpType, Moved
<1>2. NumberInv'
  BY NumberSame DEF TcpInv
<1>3. KeptInv'
  <2>1. Kept(s) => Kept(s)'
    BY <1>0, KeptMoved DEF TcpInv, Moved
  <2> QED
    BY <1>0, <2>1, KeptOne DEF Moved
<1>4. LoneInv'
  <2>1. tsUp => tsReading' \cap tsClosing' = {}
    BY DEF TcpInv, LoneInv
  <2>2. ASSUME tsUp, NEW x \in Accepted, Lone(x), x \in tsClosing' \ tsMet', x \notin tsOpen
        PROVE  tsPending'[x] = <<>>
    <3>1. x \in SessionIds /\ tsPending[x] = <<>>
      BY <2>2, AcceptedIds DEF TcpInv, LoneInv
    <3>2. x # s
      BY <3>1
    <3> QED
      BY <3>1, <3>2 DEF Moved
  <2> QED
    BY <2>1, <2>2, LoneSame
<1>5. ListCountsOpen'
  BY ListsSame DEF TcpInv
<1> QED
  BY <1>1, <1>2, <1>3, <1>4, <1>5 DEF TcpInv

(* A session that has nothing pending is stopped or left alone.              *)
LEMMA StoppedStep ==
  ASSUME TcpInv, NEW s \in Accepted, tsPending[s] = <<>>,
         StopSession(s) \/ UNCHANGED <<tsOpen, tsSessions, tsReading>>,
         UNCHANGED <<tsFrom, tsUp, tsClosing, tsWriting, tsPending, tsGiven, tsSent, tsMet>>,
         tsTimer' \subseteq tsTimer, tsFailed \subseteq tsFailed'
  PROVE  TcpInv'
<1>0. Accepted' = Accepted
  BY DEF Accepted
<1>1. KeptInv'
  BY KeptUntouched DEF TcpInv
<1>2. NumberInv'
  BY NumberSame DEF TcpInv
<1>3. CASE StopSession(s)
  <2>1. TcpType'
    BY <1>0, <1>3, StopTypes DEF TcpInv, TcpType
  <2>2. LoneInv' /\ ListCountsOpen'
    <3>1. CASE tsUp
      BY <1>3, <3>1, StoppedLone, StopCounts
    <3>2. CASE ~tsUp
      BY <3>2 DEF LoneInv, ListCountsOpen
    <3> QED
      BY <3>1, <3>2
  <2> QED
    BY <1>1, <1>2, <2>1, <2>2 DEF TcpInv
<1>4. CASE UNCHANGED <<tsOpen, tsSessions, tsReading>>
  <2>1. TcpType'
    BY <1>0, <1>4 DEF TcpInv, TcpType
  <2>2. LoneInv'
    <3>1. tsUp => tsReading' \cap tsClosing' = {}
      BY <1>4 DEF TcpInv, LoneInv
    <3>2. \A x \in Accepted :
            tsUp /\ Lone(x) /\ x \in tsClosing' \ tsMet' /\ x \notin tsOpen => tsPending'[x] = <<>>
      BY DEF TcpInv, LoneInv
    <3> QED
      BY <1>4, <3>1, <3>2, LoneSame
  <2>3. ListCountsOpen'
    BY <1>4, ListsSame DEF TcpInv
  <2> QED
    BY <1>1, <1>2, <2>1, <2>2, <2>3 DEF TcpInv
<1> QED
  BY <1>3, <1>4

(* The first step of HandleWrite.                                            *)
LEMMA WriteStep ==
  ASSUME TcpInv, NEW s \in Accepted, HandleWrite(s) \/ HandleWriteError(s)
  PROVE  TcpInv'
<1>0. /\ tsUp /\ tsWriting' = [tsWriting EXCEPT ![s] = 0]
      /\ UNCHANGED <<tsFrom, tsOpen, tsSessions, tsReading, tsUp, tsClosing, tsPending, tsTimer,
                     tsGiven, tsMet>>
      /\ tsFailed \subseteq tsFailed' /\ Accepted' = Accepted
  BY DEF HandleWrite, HandleWriteError, tsLists, Accepted
<1>1. s \in SessionIds
  BY AcceptedIds DEF TcpInv
<1>2. /\ tsWriting' \in [SessionIds -> Nat] /\ tsWriting'[s] = 0
      /\ \A x \in SessionIds \ {s} : tsWriting'[x] = tsWriting[x]
  BY <1>0, <1>1 DEF TcpInv, TcpType
<1>3. \/ s \in tsFailed' /\ tsSent' = tsSent
      \/ tsWriting[s] # 0 /\ tsSent' = [tsSent EXCEPT ![s] = Append(@, tsWriting[s])]
  <2>1. CASE HandleWriteError(s)
    BY <2>1 DEF HandleWriteError
  <2>2. CASE HandleWrite(s)
    <3>1. s \in tsMet => s \in tsFailed'
      BY <2>2 DEF HandleWrite, TcpInv, TcpType
    <3> QED
      BY <2>2, <3>1 DEF HandleWrite
  <2> QED
    BY <2>1, <2>2
<1>4. /\ tsSent' \in [SessionIds -> Seq(Numbered)]
      /\ \A x \in SessionIds \ {s} : tsSent'[x] = tsSent[x]
      /\ \/ s \in tsFailed'
         \/ tsWriting[s] # 0 /\ tsSent'[s] = Append(tsSent[s], tsWriting[s])
  <2>1. tsWriting[s] # 0 => Append(tsSent[s], tsWriting[s]) \in Seq(Numbered)
    BY <1>1, SeqsOf, ToSetFacts DEF TcpInv, Numbered
  <2> QED
    BY <1>1, <1>3, <2>1 DEF TcpInv, TcpType
<1>5. TcpType'
  BY <1>0, <1>2, <1>4 DEF TcpInv, TcpType
<1>6. NumberInv'
  BY <1>0, NumberSame DEF TcpInv
<1>7. KeptInv'
  <2>1. Kept(s) => Kept(s)' \/ s \in tsFailed'
    BY <1>0, <1>1, <1>2, <1>4, KeptWritten DEF TcpInv
  <2> QED
    BY <1>0, <1>1, <1>2, <1>4, <2>1, KeptOne
<1>8. LoneInv'
  <2>1. tsReading' \cap tsClosing' = {}
    BY <1>0 DEF TcpInv, LoneInv
  <2>2. \A x \in Accepted :
          tsUp /\ Lone(x) /\ x \in tsClosing' \ tsMet' /\ x \notin tsOpen => tsPending'[x] = <<>>
    BY <1>0 DEF TcpInv, LoneInv
  <2> QED
    BY <1>0, <2>1, <2>2, LoneSame
<1>9. ListCountsOpen'
  BY <1>0, ListsSame DEF TcpInv
<1> QED
  BY <1>5, <1>6, <1>7, <1>8, <1>9 DEF TcpInv

(* Its second, also after the server was stopped.                            *)
LEMMA WriteNextStep ==
  ASSUME TcpInv, NEW s \in Accepted, HandleWriteNext(s)
  PROVE  TcpInv'
<1>0. UNCHANGED <<tsFrom, tsUp, tsClosing, tsGiven, tsSent, tsFailed, tsMet>>
  BY DEF HandleWriteNext, tsLists, tsPast
<1>1. CASE tsPending[s] # <<>>
  <2>1. /\ SendNextPending(s) /\ (tsWriting[s] = 0 => UNCHANGED tsTimer)
        /\ UNCHANGED <<tsOpen, tsSessions, tsReading>>
    BY <1>1 DEF HandleWriteNext, tsLists
  <2>2. Moved(s)
    BY <1>1, <2>1, NextMoves
  <2> QED
    BY <1>0, <1>1, <2>1, <2>2, MovedStep
<1>2. CASE tsPending[s] = <<>>
  <2>1. /\ StopSession(s) \/ UNCHANGED <<tsOpen, tsSessions, tsReading>>
        /\ UNCHANGED <<tsWriting, tsPending, tsTimer>>
    BY <1>2 DEF HandleWriteNext
  <2> QED
    BY <1>0, <1>2, <2>1, StoppedStep
<1> QED
  BY <1>1, <1>2

(* The queue is emptied only of a session whose write has failed.            *)
HandlingInv == \A s : tsHandling = <<s, FALSE>> => s \in tsFailed

LEMMA WriteEmptiesStep ==
  ASSUME TcpInv, HandlingInv, NEW s \in Accepted, HandleWriteEmpties(s)
  PROVE  TcpInv'
<1>0. /\ tsPending' = [tsPending EXCEPT ![s] = <<>>] /\ s \in tsFailed
      /\ UNCHANGED <<tsFrom, tsOpen, tsSessions, tsReading, tsUp, tsClosing, tsTimer, tsWriting,
                     tsGiven, tsSent, tsFailed, tsMet>>
      /\ Accepted' = Accepted
  BY DEF HandleWriteEmpties, HandlingInv, tsLists, tsPast, Accepted
<1>1. s \in SessionIds
  BY AcceptedIds DEF TcpInv
<1>2. /\ tsPending' \in [SessionIds -> Seq(Numbered)] /\ tsPending'[s] = <<>>
      /\ \A x \in SessionIds \ {s} : tsPending'[x] = tsPending[x]
  BY <1>0, <1>1, EmptySeq DEF TcpInv, TcpType
<1>3. TcpType'
  BY <1>0, <1>2 DEF TcpInv, TcpType
<1>4. NumberInv'
  BY <1>0, NumberSame DEF TcpInv
<1>5. KeptInv'
  BY <1>0, <1>1, <1>2, KeptOne
<1>6. LoneInv'
  <2>1. tsUp => tsReading' \cap tsClosing' = {}
    BY <1>0 DEF TcpInv, LoneInv
  <2>2. ASSUME tsUp, NEW x \in Accepted, Lone(x), x \in tsClosing' \ tsMet', x \notin tsOpen
        PROVE  tsPending'[x] = <<>>
    <3>1. x \in SessionIds /\ tsPending[x] = <<>>
      BY <1>0, <2>2, AcceptedIds DEF TcpInv, LoneInv
    <3> QED
      BY <1>2, <3>1
  <2> QED
    BY <1>0, <2>1, <2>2, LoneSame
<1>7. ListCountsOpen'
  BY <1>0, ListsSame DEF TcpInv
<1> QED
  BY <1>3, <1>4, <1>5, <1>6, <1>7 DEF TcpInv

LEMMA HandlingStep == HandlingInv /\ [TcpNext]_tsVars => HandlingInv'
<1> SUFFICES ASSUME HandlingInv, [TcpNext]_tsVars PROVE HandlingInv'
  OBVIOUS
<1>1. CASE UNCHANGED tsHandling /\ tsFailed \subseteq tsFailed'
  BY <1>1 DEF HandlingInv
<1>2. CASE tsHandling' = <<>>
  BY <1>2 DEF HandlingInv
<1>3. ASSUME NEW s, HandleWrite(s) PROVE HandlingInv'
  BY <1>3 DEF HandleWrite, HandlingInv
<1>4. ASSUME NEW s, HandleWriteError(s) PROVE HandlingInv'
  BY <1>4 DEF HandleWriteError, HandlingInv
<1>5. CASE UNCHANGED tsVars
  BY <1>1, <1>5 DEF tsVars, tsPast
<1>6. ASSUME NEW c, HandleAccept(c) PROVE HandlingInv'
  BY <1>1, <1>6 DEF HandleAccept, tsPast
<1>7. ASSUME NEW s, HandleReadReply(s) \/ HandleReadClose(s) \/ HandleReadError(s)
      PROVE  HandlingInv'
  BY <1>1, <1>7 DEF HandleReadReply, HandleReadClose, HandleReadError, tsPast
<1>8. ASSUME NEW s, HandleTransferTimer(s) PROVE HandlingInv'
  BY <1>1, <1>8 DEF HandleTransferTimer
<1>9. ASSUME NEW s, HandleWriteNext(s) \/ HandleWriteEmpties(s) PROVE HandlingInv'
  BY <1>2, <1>9 DEF HandleWriteNext, HandleWriteEmpties
<1>10. ASSUME NEW s, BroadcastMeets(s) PROVE HandlingInv'
  BY <1>1, <1>10 DEF BroadcastMeets
<1>11. CASE BroadcastMessage \/ StopServer
  BY <1>1, <1>11 DEF BroadcastMessage, StopServer, tsPast
<1> QED
  BY <1>3, <1>4, <1>5, <1>6, <1>7, <1>8, <1>9, <1>10, <1>11 DEF TcpNext

LEMMA TimerStep ==
  ASSUME TcpInv, NEW s \in Accepted, HandleTransferTimer(s)
  PROVE  TcpInv'
<1>0. tsUp /\ s \in tsTimer /\ UNCHANGED <<tsFrom, tsUp, tsClosing, tsGiven, tsSent, tsMet>>
  BY DEF HandleTransferTimer, tsLists
<1>1. CASE tsPending[s] # <<>>
  <2>1. /\ SendNextPending(s)
        /\ tsWriting[s] = 0 => tsTimer' = tsTimer \ {s}
        /\ UNCHANGED <<tsOpen, tsSessions, tsReading, tsFailed>>
    BY <1>1 DEF HandleTransferTimer, tsLists
  <2>2. Moved(s)
    BY <1>1, <2>1, NextMoves
  <2> QED
    BY <1>0, <1>1, <2>1, <2>2, MovedStep
<1>2. CASE tsPending[s] = <<>>
  <2>1. /\ tsTimer' = tsTimer \ {s} /\ UNCHANGED <<tsWriting, tsPending>>
        /\ tsFailed \subseteq tsFailed'
        /\ StopSession(s) \/ UNCHANGED <<tsOpen, tsSessions, tsReading>>
    BY <1>2 DEF HandleTransferTimer
  <2> QED
    BY <1>0, <1>2, <2>1, StoppedStep
<1> QED
  BY <1>1, <1>2

LEMMA BroadcastStep ==
  ASSUME TcpInv, BroadcastMessage
  PROVE  TcpInv'
<1> DEFINE m == MessagesMade + 1
<1>0. /\ tsUp /\ tsSessions # {}
      /\ tsGiven' = [s \in SessionIds |->
                       IF s \in tsSessions THEN Append(tsGiven[s], m) ELSE tsGiven[s]]
      /\ tsWriting' = [s \in SessionIds |->
                       IF s \in tsSessions /\ tsWriting[s] = 0 THEN m ELSE tsWriting[s]]
      /\ tsPending' = [s \in SessionIds |->
                       IF s \in tsSessions /\ tsWriting[s] # 0 THEN Append(tsPending[s], m)
                       ELSE tsPending[s]]
      /\ tsTimer' = tsTimer \cup {s \in tsSessions : tsWriting[s] # 0}
      /\ UNCHANGED <<tsFrom, tsOpen, tsSessions, tsReading, tsUp, tsClosing, tsSent, tsFailed,
                     tsMet>>
      /\ Accepted' = Accepted
  BY DEF BroadcastMessage, Handed, tsLists, Accepted
<1>1. m \in Numbered
  BY NextNumber DEF TcpInv
<1>2. tsSessions \subseteq SessionIds /\ tsSessions \subseteq Accepted
  BY AcceptedIds DEF TcpInv, TcpType
<1>3. NumberInv'
  <2> SUFFICES Given' = Given \cup {m}
    BY NumberAdded DEF TcpInv
  <2> HIDE DEF m
  <2>1. ASSUME NEW s \in SessionIds
        PROVE  ToSet(tsGiven'[s]) = ToSet(tsGiven[s]) \cup (IF s \in tsSessions THEN {m} ELSE {})
    <3>1. ToSet(Append(tsGiven[s], m)) = ToSet(tsGiven[s]) \cup {m}
      BY <1>1, SeqsOf, ToSetFacts DEF TcpInv
    <3> QED
      BY <1>0, <3>1
  <2>2. \A x : x \in Given' <=> \E y \in SessionIds : x \in ToSet(tsGiven'[y])
    BY DEF Given
  <2>3. \A x : x \in Given <=> \E y \in SessionIds : x \in ToSet(tsGiven[y])
    BY DEF Given
  <2>4. PICK t \in tsSessions : t \in SessionIds
    BY <1>0, <1>2
  <2> QED
    BY <2>1, <2>2, <2>3, <2>4
<1> HIDE DEF m
<1>4. TcpType'
  <2>1. \A s \in SessionIds : /\ Append(tsGiven[s], m) \in Seq(Numbered)
                              /\ Append(tsPending[s], m) \in Seq(Numbered)
    BY <1>1, SeqsOf, ToSetFacts DEF TcpInv
  <2>2. tsGiven' \in [SessionIds -> Seq(Numbered)]
    BY <1>0, <2>1 DEF TcpInv, TcpType
  <2>3. tsPending' \in [SessionIds -> Seq(Numbered)]
    BY <1>0, <2>1 DEF TcpInv, TcpType
  <2>4. tsWriting' \in [SessionIds -> Nat]
    BY <1>0, <1>1 DEF TcpInv, TcpType, Numbered
  <2> QED
    BY <1>0, <1>2, <2>2, <2>3, <2>4 DEF TcpInv, TcpType
<1>5. KeptInv'
  <2> SUFFICES ASSUME NEW s \in SessionIds \ tsFailed
               PROVE  Kept(s)'
    BY <1>0 DEF KeptInv, Kept
  <2>1. Kept(s)
    BY KeptIs DEF TcpInv
  <2>2. CASE s \in tsSessions
    BY <1>0, <1>1, <2>1, <2>2, KeptGiven DEF TcpInv
  <2>3. CASE s \notin tsSessions
    BY <1>0, <2>1, <2>3, KeptSame
  <2> QED
    BY <2>2, <2>3
<1>6. LoneInv'
  <2>1. tsReading' \cap tsClosing' = {}
    BY <1>0 DEF TcpInv, LoneInv
  <2>2. ASSUME NEW x \in Accepted, Lone(x), x \in tsClosing' \ tsMet', x \notin tsOpen
        PROVE  tsPending'[x] = <<>>
    <3>1. x \notin tsSessions /\ tsPending[x] = <<>> /\ x \in SessionIds
      BY <1>0, <2>2, AcceptedIds DEF TcpInv, LoneInv
    <3> QED
      BY <1>0, <3>1
  <2> QED
    BY <1>0, <2>1, <2>2, LoneSame
<1>7. ListCountsOpen'
  BY <1>0, ListsSame DEF TcpInv
<1> QED
  BY <1>3, <1>4, <1>5, <1>6, <1>7 DEF TcpInv

(* A broadcast that meets HandleWrite in h: only the others keep their       *)
(* messages.                                                                 *)
LEMMA MeetsStep ==
  ASSUME TcpInv, NEW h \in Accepted, BroadcastMeets(h)
  PROVE  TcpInv'
<1> DEFINE m == MessagesMade + 1
<1>0. /\ tsUp /\ tsFailed' = tsFailed \cup {h} /\ tsMet' = tsMet \cup {h}
      /\ UNCHANGED <<tsFrom, tsOpen, tsSessions, tsReading, tsUp, tsClosing, tsSent>>
      /\ Accepted' = Accepted
  BY DEF BroadcastMeets, tsLists, Accepted
<1>10. PICK reached \in SUBSET tsSessions :
          /\ reached # {}
          /\ tsGiven' = [s \in SessionIds |->
                           IF s \in reached THEN Append(tsGiven[s], m) ELSE tsGiven[s]]
          /\ \E now \in {0, m} \cup ToSet(tsPending[h]),
                left \in {tsPending[h], Append(tsPending[h], m), <<>>}, armed \in SUBSET {h} :
             /\ tsWriting' = [s \in SessionIds |->
                         IF s = h THEN now
                         ELSE IF s \in reached /\ tsWriting[s] = 0 THEN m ELSE tsWriting[s]]
             /\ tsPending' = [s \in SessionIds |->
                         IF s = h THEN left
                         ELSE IF s \in reached /\ tsWriting[s] # 0 THEN Append(tsPending[s], m)
                         ELSE tsPending[s]]
             /\ tsTimer' = tsTimer \cup armed \cup {s \in reached \ {h} : tsWriting[s] # 0}
  BY DEF BroadcastMeets, Handed, m
<1>11. PICK now \in {0, m} \cup ToSet(tsPending[h]),
            left \in {tsPending[h], Append(tsPending[h], m), <<>>}, armed \in SUBSET {h} :
          /\ tsWriting' = [s \in SessionIds |->
                      IF s = h THEN now
                      ELSE IF s \in reached /\ tsWriting[s] = 0 THEN m ELSE tsWriting[s]]
          /\ tsPending' = [s \in SessionIds |->
                      IF s = h THEN left
                      ELSE IF s \in reached /\ tsWriting[s] # 0 THEN Append(tsPending[s], m)
                      ELSE tsPending[s]]
          /\ tsTimer' = tsTimer \cup armed \cup {s \in reached \ {h} : tsWriting[s] # 0}
  BY <1>10
<1>2. m \in Numbered
  BY NextNumber DEF TcpInv
<1>3. /\ reached \subseteq SessionIds /\ reached \subseteq Accepted /\ h \in SessionIds
      /\ reached \subseteq tsSessions
  BY AcceptedIds DEF TcpInv, TcpType
<1>4. NumberInv'
  <2> SUFFICES Given' = Given \cup {m}
    BY NumberAdded DEF TcpInv
  <2> HIDE DEF m
  <2>1. ASSUME NEW s \in SessionIds
        PROVE  ToSet(tsGiven'[s]) = ToSet(tsGiven[s]) \cup (IF s \in reached THEN {m} ELSE {})
    <3>1. ToSet(Append(tsGiven[s], m)) = ToSet(tsGiven[s]) \cup {m}
      BY <1>2, SeqsOf, ToSetFacts DEF TcpInv
    <3> QED
      BY <1>10, <1>11, <3>1
  <2>2. \A x : x \in Given' <=> \E y \in SessionIds : x \in ToSet(tsGiven'[y])
    BY DEF Given
  <2>3. \A x : x \in Given <=> \E y \in SessionIds : x \in ToSet(tsGiven[y])
    BY DEF Given
  <2>4. PICK t \in reached : t \in SessionIds
    BY <1>10, <1>11, <1>3
  <2>5. ASSUME NEW x
        PROVE  x \in Given' <=> x \in Given \/ x = m
    <3>1. \A y \in SessionIds :
            x \in ToSet(tsGiven'[y]) <=> x \in ToSet(tsGiven[y]) \/ (y \in reached /\ x = m)
      BY <2>1
    <3> QED
      BY <2>2, <2>3, <2>4, <3>1
  <2> QED
    BY <2>5
<1> HIDE DEF m
<1>5. TcpType'
  <2>1. \A s \in SessionIds : /\ Append(tsGiven[s], m) \in Seq(Numbered)
                              /\ Append(tsPending[s], m) \in Seq(Numbered)
                              /\ tsPending[s] \in Seq(Numbered) /\ tsGiven[s] \in Seq(Numbered)
    BY <1>2, SeqsOf, ToSetFacts DEF TcpInv
  <2>2. left \in Seq(Numbered)
    BY <1>3, <2>1, EmptySeq
  <2>3. now \in Nat /\ m \in Nat
    <3>1. \A x \in ToSet(tsPending[h]) : x \in Numbered
      BY <1>3, <2>1, InToSet, ElementOfSeq
    <3> QED
      BY <1>2, <3>1 DEF Numbered
  <2>4. tsGiven' \in [SessionIds -> Seq(Numbered)]
    BY <1>10, <1>11, <2>1
  <2>5. tsPending' \in [SessionIds -> Seq(Numbered)]
    BY <1>10, <1>11, <2>1, <2>2
  <2>6. tsWriting' \in [SessionIds -> Nat]
    BY <1>10, <1>11, <2>3 DEF TcpInv, TcpType
  <2>7. tsTimer' \subseteq Accepted
    BY <1>10, <1>11, <1>3 DEF TcpInv, TcpType
  <2> QED
    BY <1>0, <2>4, <2>5, <2>6, <2>7 DEF TcpInv, TcpType
<1>6. KeptInv'
  <2> SUFFICES ASSUME NEW s \in SessionIds \ tsFailed, s # h
               PROVE  Kept(s)'
    BY <1>0 DEF KeptInv, Kept
  <2>1. Kept(s)
    BY KeptIs DEF TcpInv
  <2>2. CASE s \in reached
    BY <1>0, <1>10, <1>11, <1>2, <2>1, <2>2, KeptGiven DEF TcpInv
  <2>3. CASE s \notin reached
    BY <1>0, <1>10, <1>11, <2>1, <2>3, KeptSame
  <2> QED
    BY <2>2, <2>3
<1>7. LoneInv'
  <2>1. tsReading' \cap tsClosing' = {}
    BY <1>0 DEF TcpInv, LoneInv
  <2>2. ASSUME NEW x \in Accepted, Lone(x), x \in tsClosing' \ tsMet', x \notin tsOpen
        PROVE  tsPending'[x] = <<>>
    <3>1. x \notin tsSessions /\ tsPending[x] = <<>> /\ x \in SessionIds /\ x # h
      BY <1>0, <2>2, AcceptedIds DEF TcpInv, LoneInv
    <3> QED
      BY <1>10, <1>11, <1>3, <3>1
  <2> QED
    BY <1>0, <2>1, <2>2, LoneSame
<1>8. ListCountsOpen'
  BY <1>0, ListsSame DEF TcpInv
<1> QED
  BY <1>4, <1>5, <1>6, <1>7, <1>8 DEF TcpInv

LEMMA StopServerStep ==
  ASSUME TcpInv, StopServer
  PROVE  TcpInv'
<1>0. /\ tsUp' = FALSE
      /\ tsOpen' = tsOpen \ tsSessions /\ tsSessions' = {} /\ tsReading' = tsReading \ tsSessions
      /\ UNCHANGED <<tsFrom, tsSend, tsPast>>
      /\ Accepted' = Accepted
  BY DEF StopServer, Accepted
<1>1. TcpType'
  BY <1>0 DEF TcpInv, TcpType, tsSend, tsPast
<1>2. NumberInv' /\ KeptInv'
  BY <1>0, NumberSame, KeptUntouched DEF TcpInv, tsSend, tsPast
<1>3. LoneInv' /\ ListCountsOpen'
  BY <1>0 DEF LoneInv, ListCountsOpen
<1> QED
  BY <1>1, <1>2, <1>3 DEF TcpInv

LEMMA TcpStep == TcpInv /\ HandlingInv /\ [TcpNext]_tsVars => TcpInv'
<1> SUFFICES ASSUME TcpInv, HandlingInv, [TcpNext]_tsVars PROVE TcpInv'
  OBVIOUS
<1>1. CASE TcpNext
  BY <1>1, AcceptStep, ReadReplyStep, ReadStep, WriteStep, WriteNextStep, WriteEmptiesStep,
     TimerStep, BroadcastStep, MeetsStep, StopServerStep DEF TcpNext
<1>2. CASE UNCHANGED tsVars
  <2>0. /\ UNCHANGED <<tsFrom, tsOpen, tsSessions, tsReading, tsUp, tsClosing, tsWriting,
                       tsPending, tsTimer, tsGiven, tsSent, tsFailed, tsMet>>
        /\ Accepted' = Accepted
    BY <1>2 DEF tsVars, tsLists, tsSend, tsPast, Accepted
  <2>1. TcpType'
    BY <2>0 DEF TcpInv, TcpType
  <2>2. NumberInv' /\ KeptInv'
    BY <2>0, NumberSame, KeptUntouched DEF TcpInv
  <2>3. LoneInv' /\ ListCountsOpen'
    BY <2>0, ListsSame DEF TcpInv, LoneInv, Lone
  <2> QED
    BY <2>1, <2>2, <2>3 DEF TcpInv
<1> QED
  BY <1>1, <1>2

(* KeptInv says of the three parts what MessagesKept says of their           *)
(* concatenation.                                                            *)
LEMMA ToSetConcat ==
  ASSUME NEW S, NEW v \in Seq(S), NEW w \in Seq(S)
  PROVE  /\ v \o w \in Seq(S) /\ Len(v \o w) = Len(v) + Len(w)
         /\ ToSet(v \o w) = ToSet(v) \cup ToSet(w)
<1>1. /\ v \o w \in Seq(S) /\ Len(v \o w) = Len(v) + Len(w)
      /\ \A i \in 1..(Len(v) + Len(w)) :
           (v \o w)[i] = IF i <= Len(v) THEN v[i] ELSE w[i - Len(v)]
  BY ConcatProperties
<1>2. Len(v) \in Nat /\ Len(w) \in Nat
  OBVIOUS
<1> DEFINE u == v \o w
<1>3. \A x : x \in ToSet(v) <=> \E i \in 1..Len(v) : v[i] = x
  BY InToSet
<1>4. \A x : x \in ToSet(w) <=> \E i \in 1..Len(w) : w[i] = x
  BY InToSet
<1>5. /\ u \in Seq(S) /\ Len(u) = Len(v) + Len(w)
      /\ \A i \in 1..(Len(v) + Len(w)) :
           u[i] = IF i <= Len(v) THEN v[i] ELSE w[i - Len(v)]
  BY <1>1
<1> HIDE DEF u
<1>6. \A x : x \in ToSet(u) <=> \E i \in 1..Len(u) : u[i] = x
  BY <1>5, InToSet
<1>7. \A i \in 1..Len(v) : i \in 1..Len(u) /\ u[i] = v[i]
  BY <1>2, <1>5
<1>8. \A i \in 1..Len(w) : i + Len(v) \in 1..Len(u) /\ u[i + Len(v)] = w[i]
  <2> SUFFICES ASSUME NEW i \in 1..Len(w)
               PROVE  i + Len(v) \in 1..Len(u) /\ u[i + Len(v)] = w[i]
    OBVIOUS
  <2>1. i + Len(v) \in 1..(Len(v) + Len(w)) /\ ~(i + Len(v) <= Len(v))
        /\ (i + Len(v)) - Len(v) = i
    BY <1>2
  <2> QED
    BY <1>5, <2>1
<1>9. \A i \in 1..Len(u) : \/ i \in 1..Len(v) /\ u[i] = v[i]
                           \/ i - Len(v) \in 1..Len(w) /\ u[i] = w[i - Len(v)]
  BY <1>2, <1>5
<1>10. ToSet(u) = ToSet(v) \cup ToSet(w)
  <2>1. \A x : x \in ToSet(v) \/ x \in ToSet(w) => x \in ToSet(u)
    BY <1>3, <1>4, <1>6, <1>7, <1>8, ZenonT(30)
  <2>2. \A x : x \in ToSet(u) => x \in ToSet(v) \/ x \in ToSet(w)
    BY <1>3, <1>4, <1>6, <1>9, ZenonT(30)
  <2> QED
    BY <2>1, <2>2
<1> QED
  BY <1>1, <1>10 DEF u

LEMMA OneOrNone ==
  ASSUME NEW n \in Nat
  PROVE  \E e \in Seq(Numbered) :
           /\ e = IF n = 0 THEN <<>> ELSE <<n>>
           /\ Len(e) = IF n = 0 THEN 0 ELSE 1
           /\ ToSet(e) = IF n = 0 THEN {} ELSE {n}
<1>1. CASE n = 0
  <2>1. <<>> \in Seq(Numbered) /\ Len(<<>>) = 0 /\ ToSet(<<>>) = {}
    BY EmptySeq, ToSetFacts
  <2> WITNESS <<>> \in Seq(Numbered)
  <2> QED
    BY <1>1, <2>1
<1>2. CASE n # 0
  <2>1. <<n>> \in Seq(Numbered) /\ Len(<<n>>) = 1
    BY <1>2 DEF Numbered
  <2>2. ToSet(<<n>>) = {n}
    BY DEF ToSet
  <2> QED
    BY <1>2, <2>1, <2>2
<1> QED
  BY <1>1, <1>2

LEMMA KeptMessages == TcpInv => MessagesKept
<1> SUFFICES ASSUME TcpInv, NEW s \in Accepted \ tsFailed
             PROVE  LET held == tsSent[s] \o tsPending[s]
                                \o (IF tsWriting[s] = 0 THEN <<>> ELSE <<tsWriting[s]>>)
                    IN Len(held) = Len(tsGiven[s]) /\ ToSet(held) = ToSet(tsGiven[s])
  BY DEF MessagesKept
<1>1. s \in SessionIds
  BY AcceptedIds DEF TcpInv
<1>2. tsSent[s] \in Seq(Numbered) /\ tsPending[s] \in Seq(Numbered) /\ tsWriting[s] \in Nat
  BY <1>1, SeqsOf DEF TcpInv
<1>3. PICK e \in Seq(Numbered) :
        /\ e = IF tsWriting[s] = 0 THEN <<>> ELSE <<tsWriting[s]>>
        /\ Len(e) = IF tsWriting[s] = 0 THEN 0 ELSE 1
        /\ ToSet(e) = Under(s)
  BY <1>2, OneOrNone DEF Under
<1>4. Kept(s)
  BY <1>1, KeptIs DEF TcpInv
<1> DEFINE v == tsSent[s] \o tsPending[s]
<1>5. /\ v \in Seq(Numbered) /\ Len(v) = Len(tsSent[s]) + Len(tsPending[s])
      /\ ToSet(v) = ToSet(tsSent[s]) \cup ToSet(tsPending[s])
  BY <1>2, ToSetConcat
<1> HIDE DEF v
<1>6. Len(v \o e) = Len(v) + Len(e) /\ ToSet(v \o e) = ToSet(v) \cup ToSet(e)
  <2>1. /\ v \in Seq(Numbered) /\ e \in Seq(Numbered)
    BY <1>5
  <2> QED
    BY <2>1, ToSetConcat, ZenonT(30)
<1>7. /\ Len(tsGiven[s]) = Len(v) + Len(e)
      /\ ToSet(tsGiven[s]) = ToSet(v) \cup ToSet(e)
  BY <1>3, <1>4, <1>5 DEF Kept
<1> QED
  BY <1>3, <1>6, <1>7 DEF v

LEMMA DoneWhenClosed == TcpInv => ClosedWhenDone
BY DEF TcpInv, LoneInv, TcpType, Lone, ClosedWhenDone

(* Whatever the clients do and in whatever order reads, writes, timers,      *)
(* broadcasts and failures come: each address has as many sessions in        *)
(* Server::sessions as are open; no message is lost or written twice of a    *)
(* session whose writes succeed and in which no broadcast and HandleWrite    *)
(* are at the same time; and such a session, when it shares its address with *)
(* none, is closed only when it has nothing pending.                         *)
THEOREM TcpIsSafe == TcpSpec => []TcpServerSafe
<1>1. TcpInv => TcpServerSafe
  BY KeptMessages, DoneWhenClosed DEF TcpServerSafe, TcpInv
<1>2. TcpInit => HandlingInv
  BY DEF TcpInit, HandlingInv
<1> QED
  BY InitTcp, TcpStep, <1>2, HandlingStep, <1>1, PTL DEF TcpSpec

-----------------------------------------------------------------------------
(* The macro keys and the alarm. *)

KeysType ==
  /\ mkPc \in [Threads -> {"idle", "lock", "sem", "armed", "clear", "dialog", "cancel"}]
  /\ mkPc["keyboard"] \in {"idle", "lock", "sem", "armed", "clear"}
  /\ mkPc["alarm"] \in {"idle", "lock", "clear"}
  /\ mkFlag \in BOOLEAN /\ mkDialog \in BOOLEAN /\ mkTwo \in BOOLEAN /\ mkDirect \in BOOLEAN
  /\ mkSem \in Nat /\ mkText \in 0..MaxDuration
  /\ mkLeft \in Int /\ mkSince \in Nat /\ mkSet \in 0..MaxDuration

(* Between is_armed and duration nothing is said of the alarm; else it has   *)
(* the seconds to go that were not counted yet.                              *)
Writes ==
  mkPc["gui"] \in {"armed", "cancel"} \/ mkPc["keyboard"] = "armed"
TimeInv ==
  mkArmed /\ ~Writes =>
    mkSet <= mkSince \/ mkSet <= mkLeft + mkSince

(* A thread waits for the dialog, which the GUI also does while it shows it. *)
Waits(t) == mkPc[t] \in {"sem", "dialog"}

(* As long as no two requests met, one thread waits exactly while there is   *)
(* one request, in one of its three stages.                                  *)
RequestInv ==
  ~mkTwo =>
    /\ ~(Waits("keyboard") /\ Waits("gui"))
    /\ Waits("keyboard") \/ Waits("gui") <=> mkFlag \/ mkDialog \/ mkSem > 0
    /\ mkFlag => ~mkDialog
    /\ mkFlag \/ mkDialog => mkSem = 0
    /\ mkSem <= 1
    /\ mkPc["gui"] = "dialog" => mkDialog
    /\ mkDirect /\ mkPc["gui"] = "sem" => mkSem = 1

(* Only a click leads the GUI to executor_mtx. *)
ClickInv == mkPc["gui"] = "lock" => ~mkDirect

KeysInv == KeysType /\ TimeInv /\ RequestInv /\ ClickInv /\ NotEarly

(* A second less to go is a second more that was counted. *)
LEMMA SecondCounted ==
  ASSUME NEW set \in Int, NEW left \in Int, NEW since \in Int, NEW left2 \in Int, NEW since2 \in Int,
         since2 >= since, since2 = since + 1 \/ since2 > set,
         left2 = left - 1 \/ (left < 0 /\ left2 = left),
         set <= since \/ set <= left + since
  PROVE  set <= since2 \/ set <= left2 + since2
  OBVIOUS

LEMMA KeysInit == MacroKeysInit => KeysInv
<1>1. 0 \in 0..MaxDuration
  BY DurationAssumption
<1> SUFFICES ASSUME MacroKeysInit
             PROVE  KeysInv
  OBVIOUS
<1>2. \A t \in Threads : mkPc[t] = "idle"
  BY DEF MacroKeysInit
<1>3. mkPc["keyboard"] = "idle" /\ mkPc["gui"] = "idle" /\ mkPc["alarm"] = "idle"
  BY <1>2 DEF Threads
<1>4. KeysType
  <2>1. mkPc \in [Threads -> {"idle", "lock", "sem", "armed", "clear", "dialog", "cancel"}]
    BY DEF MacroKeysInit
  <2>2. mkText \in 0..MaxDuration /\ mkSet \in 0..MaxDuration
    BY <1>1 DEF MacroKeysInit
  <2>3. mkFlag \in BOOLEAN /\ mkDialog \in BOOLEAN /\ mkTwo \in BOOLEAN /\ mkDirect \in BOOLEAN
    BY DEF MacroKeysInit
  <2>4. mkSem \in Nat /\ mkLeft \in Int /\ mkSince \in Nat
    BY DEF MacroKeysInit
  <2>5. /\ mkPc["keyboard"] \in {"idle", "lock", "sem", "armed", "clear"}
        /\ mkPc["alarm"] \in {"idle", "lock", "clear"}
    BY <1>3
  <2> QED
    BY <2>1, <2>2, <2>3, <2>4, <2>5, Zenon DEF KeysType
<1>5. RequestInv
  BY <1>3 DEF MacroKeysInit, RequestInv, Waits
<1> QED
  BY <1>3, <1>4, <1>5 DEF MacroKeysInit, KeysInv, TimeInv, ClickInv, NotEarly

(* The time of the alarm is the worker's, the user's and that of who sets it. *)
LEMMA KeysTime ==
  ASSUME KeysType, TimeInv, NotEarly, [MacroKeysNext]_mkVars
  PROVE  TimeInv' /\ NotEarly'
<1> USE DEF KeysType, TimeInv, NotEarly, Writes, Threads, Goes
<1>1. CASE WorkerThread
  <2>1. /\ mkSince' >= mkSince /\ mkSince' \in Nat
        /\ mkSince' = mkSince + 1 \/ mkSince' > mkSet
    BY <1>1, DurationAssumption DEF WorkerThread
  <2>2. mkLeft' \in Int /\ (mkLeft' = mkLeft - 1 \/ (mkLeft < 0 /\ mkLeft' = mkLeft))
    BY <1>1 DEF WorkerThread
  <2>3. mkArmed /\ mkSet' = mkSet
    BY <1>1 DEF WorkerThread
  <2>4. Writes' <=> Writes
    BY <1>1 DEF WorkerThread, Press
  <2>5. ASSUME ~Writes
        PROVE  mkSet <= mkSince' \/ mkSet <= mkLeft' + mkSince'
    <3>1. mkSet <= mkSince \/ mkSet <= mkLeft + mkSince
      BY <2>3, <2>5
    <3>2. mkSet \in Int /\ mkSince \in Int /\ mkLeft \in Int
      BY DurationAssumption
    <3>3. mkSince' \in Int /\ mkLeft' \in Int
      BY <2>1, <2>2
    <3> HIDE DEF KeysType, TimeInv, NotEarly, Writes
    <3> QED
      BY <2>1, <2>2, <3>1, <3>2, <3>3, SecondCounted
  <2>6. TimeInv'
    BY <2>3, <2>4, <2>5
  <2>7. ASSUME ~Writes, GoesOff(mkLeft - 1)
        PROVE  ~(mkSince' < mkSet)
    <3>1. mkSet <= mkSince \/ mkSet <= mkLeft + mkSince
      BY <2>3, <2>7
    <3> QED
      BY <2>1, <2>7, <3>1 DEF GoesOff
  <2>8. NotEarly'
    BY <1>1, <2>7 DEF WorkerThread
  <2> QED
    BY <2>6, <2>8
<1>2. ASSUME NEW t \in Threads, SetDuration(t)
      PROVE  TimeInv' /\ NotEarly'
  BY <1>2 DEF SetDuration, mkBox
<1>3. ASSUME NEW t \in Threads, ArmAlarm(t)
      PROVE  TimeInv' /\ NotEarly'
  BY <1>3 DEF ArmAlarm, mkKeys
<1>4. ASSUME NEW t \in Threads, ClearPressed(t) \/ ExecuteKeypresses(t)
      PROVE  TimeInv' /\ NotEarly'
  <2>1. /\ mkArmed' => mkArmed
        /\ UNCHANGED <<mkLeft, mkSince, mkSet, mkEarly>>
    <3>1. CASE ClearPressed(t)
      BY <3>1 DEF ClearPressed
    <3>2. CASE ExecuteKeypresses(t)
      BY <3>2 DEF ExecuteKeypresses, mkAlarm
    <3> QED
      BY <1>4, <3>1, <3>2
  <2>2. PICK pc \in {"idle", "clear", "sem"} : mkPc' = [mkPc EXCEPT ![t] = pc]
    BY <1>4 DEF ClearPressed, ExecuteKeypresses
  <2>3. mkPc[t] \in {"lock", "clear"}
    BY <1>4 DEF ClearPressed, ExecuteKeypresses
  <2>4. Writes' <=> Writes
    BY <2>2, <2>3
  <2> QED
    BY <2>1, <2>4
<1>5. ASSUME NEW k \in Keys, KeyReceived(k) \/ ClickKey(k)
      PROVE  TimeInv' /\ NotEarly'
  BY <1>5 DEF KeyReceived, ClickKey, Press, mkBox, mkAlarm
<1>6. CASE AllReleased \/ On10MsTimer \/ SetupAlarm \/ EndDialog
  BY <1>6 DEF AllReleased, On10MsTimer, SetupAlarm, EndDialog, Press, mkBox, mkAlarm, mkKeys
<1>7. CASE CancelAlarm \/ Disarm
  BY <1>7 DEF CancelAlarm, Disarm, mkBox, mkAlarm, mkKeys
<1>8. CASE UNCHANGED mkVars
  BY <1>8 DEF mkVars, mkKeys, mkBox, mkAlarm
<1> QED
  BY <1>1, <1>2, <1>3, <1>4, <1>5, <1>6, <1>7, <1>8 DEF MacroKeysNext

LEMMA KeysTypes ==
  ASSUME KeysType, [MacroKeysNext]_mkVars
  PROVE  KeysType'
<1> USE DEF KeysType, Threads, Goes
<1>0. 0 \in 0..MaxDuration
  BY DurationAssumption
<1>1. CASE WorkerThread
  BY <1>1 DEF WorkerThread, Press, mkKeys, mkBox
<1>2. ASSUME NEW t \in Threads, SetDuration(t)
      PROVE  KeysType'
  BY <1>2 DEF SetDuration, mkBox
<1>3. ASSUME NEW t \in Threads, ArmAlarm(t)
      PROVE  KeysType'
  BY <1>3 DEF ArmAlarm, mkKeys
<1>4. ASSUME NEW t \in Threads, ClearPressed(t)
      PROVE  KeysType'
  BY <1>4 DEF ClearPressed, Press, mkBox
<1>5. ASSUME NEW t \in Threads, ExecuteKeypresses(t)
      PROVE  KeysType'
  BY <1>5 DEF ExecuteKeypresses, AskForDialog, mkAlarm
<1>6. ASSUME NEW k \in Keys, KeyReceived(k) \/ ClickKey(k)
      PROVE  KeysType'
  BY <1>6 DEF KeyReceived, ClickKey, Press, mkBox, mkAlarm
<1>7. CASE AllReleased \/ On10MsTimer \/ SetupAlarm
  BY <1>7 DEF AllReleased, On10MsTimer, SetupAlarm, Press, mkBox, mkAlarm, mkKeys
<1>8. CASE EndDialog
  <2>1. mkText' \in 0..MaxDuration
    BY <1>8, DurationAssumption DEF EndDialog
  <2>2. mkPc' = IF mkPc["gui"] = "dialog" THEN [mkPc EXCEPT !["gui"] = "sem"] ELSE mkPc
    BY <1>8 DEF EndDialog
  <2>3. UNCHANGED <<mkDirect, mkFlag, mkTwo, mkLeft, mkSince, mkSet>> /\ mkDialog' = FALSE /\ mkSem' = mkSem + 1
    BY <1>8 DEF EndDialog, mkAlarm
  <2>5. mkDialog' \in BOOLEAN
    BY <2>3, Zenon
  <2>8. mkSem' \in Nat
    BY <1>8 DEF EndDialog
  <2>6. mkFlag' \in BOOLEAN /\ mkTwo' \in BOOLEAN /\ mkDirect' \in BOOLEAN
    BY <2>3, Zenon
  <2>7. mkLeft' \in Int /\ mkSince' \in Nat /\ mkSet' \in 0..MaxDuration
    BY <2>3, Zenon
  <2>4. /\ mkPc' \in [Threads -> {"idle", "lock", "sem", "armed", "clear", "dialog", "cancel"}]
        /\ mkPc'["keyboard"] = mkPc["keyboard"] /\ mkPc'["alarm"] = mkPc["alarm"]
    BY <2>2
  <2> QED
    BY <2>1, <2>4, <2>5, <2>6, <2>7, <2>8, Zenon
<1>9. CASE CancelAlarm \/ Disarm
  BY <1>0, <1>9 DEF CancelAlarm, Disarm, mkBox, mkAlarm, mkKeys
<1>10. CASE UNCHANGED mkVars
  BY <1>10 DEF mkVars, mkKeys, mkBox, mkAlarm
<1> QED
  BY <1>1, <1>2, <1>3, <1>4, <1>5, <1>6, <1>7, <1>8, <1>9, <1>10 DEF MacroKeysNext

(* A request is made where there is none, shown, answered and taken by the   *)
(* thread that made it.                                                      *)
LEMMA KeysRequests ==
  ASSUME KeysType, RequestInv, ClickInv, [MacroKeysNext]_mkVars
  PROVE  RequestInv' /\ ClickInv'
<1> USE DEF KeysType, RequestInv, ClickInv, Waits, Threads, Goes
<1>1. CASE WorkerThread
  BY <1>1 DEF WorkerThread, Press, mkKeys, mkBox
<1>2. ASSUME NEW t \in Threads, SetDuration(t)
      PROVE  RequestInv' /\ ClickInv'
  BY <1>2 DEF SetDuration, mkBox
<1>3. ASSUME NEW t \in Threads, ArmAlarm(t)
      PROVE  RequestInv' /\ ClickInv'
  BY <1>3 DEF ArmAlarm, mkKeys
<1>4. ASSUME NEW t \in Threads, ClearPressed(t)
      PROVE  RequestInv' /\ ClickInv'
  BY <1>4 DEF ClearPressed, Press, mkBox
<1>5. ASSUME NEW t \in Threads, ExecuteKeypresses(t)
      PROVE  RequestInv' /\ ClickInv'
  <2>1. CASE mkPressed = <<"a">> /\ t # "alarm"
    <3>1. /\ mkPc[t] = "lock" /\ mkPc' = [mkPc EXCEPT ![t] = "sem"]
          /\ mkFlag' = TRUE /\ UNCHANGED <<mkDirect, mkDialog, mkSem>>
          /\ mkTwo \/ mkFlag \/ mkDialog \/ mkSem > 0 => mkTwo'
      BY <1>5, <2>1 DEF ExecuteKeypresses, AskForDialog
    <3>2. t \in {"keyboard", "gui"} /\ mkPc'[t] = "sem"
      BY <2>1, <3>1
    <3>3. \A u \in {"keyboard", "gui"} : u # t => mkPc'[u] = mkPc[u]
      BY <3>1
    <3>4. ClickInv'
      BY <3>1, <3>2, <3>3
    <3>5. ASSUME ~mkTwo'
          PROVE  ~mkFlag /\ ~mkDialog /\ mkSem = 0 /\ ~mkTwo
      BY <3>1, <3>5
    <3>6. ASSUME ~mkTwo'
          PROVE  ~Waits("keyboard") /\ ~Waits("gui")
      BY <3>5, <3>6
    <3>7. ASSUME ~mkTwo'
          PROVE  \A u \in {"keyboard", "gui"} : Waits(u)' <=> u = t
      BY <3>2, <3>3, <3>6, <3>7
    <3>8. ASSUME ~mkTwo'
          PROVE  ~(mkDirect' /\ mkPc'["gui"] = "sem")
      BY <3>1, <3>2, <3>3, <3>6, <3>8
    <3>9. ASSUME ~mkTwo'
          PROVE  mkPc'["gui"] # "dialog"
      BY <3>2, <3>3, <3>6, <3>9
    <3>10. RequestInv'
      BY <3>1, <3>2, <3>5, <3>7, <3>8, <3>9
    <3> QED
      BY <3>4, <3>10
  <2>2. CASE ~(mkPressed = <<"a">> /\ t # "alarm")
    <3>1. PICK pc \in {"idle", "clear"} : mkPc' = [mkPc EXCEPT ![t] = pc]
      BY <1>5, <2>2 DEF ExecuteKeypresses
    <3>2. UNCHANGED <<mkFlag, mkTwo, mkDirect, mkDialog, mkSem>> /\ mkPc[t] = "lock"
      BY <1>5, <2>2 DEF ExecuteKeypresses
    <3> QED
      BY <3>1, <3>2
  <2> QED
    BY <2>1, <2>2
<1>6. ASSUME NEW k \in Keys, KeyReceived(k) \/ ClickKey(k)
      PROVE  RequestInv' /\ ClickInv'
  BY <1>6 DEF KeyReceived, ClickKey, Press, mkBox, mkAlarm
<1>7. CASE AllReleased \/ On10MsTimer
  BY <1>7 DEF AllReleased, On10MsTimer, Press, mkBox, mkAlarm, mkKeys
<1>8. CASE SetupAlarm
  <2>1. /\ mkPc["gui"] = "idle" /\ ~mkDialog
        /\ mkFlag' = FALSE /\ mkDialog' = TRUE /\ mkDirect' = TRUE /\ mkSem' = mkSem
        /\ mkPc' = [mkPc EXCEPT !["gui"] = "dialog"]
        /\ mkTwo \/ mkFlag \/ mkSem > 0 \/ mkPc["keyboard"] = "sem" => mkTwo'
    BY <1>8 DEF SetupAlarm
  <2>2. mkPc'["gui"] = "dialog" /\ mkPc'["keyboard"] = mkPc["keyboard"]
    BY <2>1
  <2>3. ASSUME ~mkTwo'
        PROVE  mkSem = 0 /\ ~Waits("keyboard")
    BY <2>1, <2>3
  <2> QED
    BY <2>1, <2>2, <2>3
<1>9. CASE EndDialog
  BY <1>9 DEF EndDialog, mkAlarm, mkKeys
<1>10. CASE CancelAlarm \/ Disarm
  BY <1>10 DEF CancelAlarm, Disarm, mkBox, mkAlarm, mkKeys
<1>11. CASE UNCHANGED mkVars
  BY <1>11 DEF mkVars, mkKeys, mkBox, mkAlarm
<1> QED
  BY <1>1, <1>2, <1>3, <1>4, <1>5, <1>6, <1>7, <1>8, <1>9, <1>10, <1>11 DEF MacroKeysNext

(* The alarm never goes off before its time while none of its fields is      *)
(* between the two writes, who waits for the dialog gets it unless requests  *)
(* met, and the GUI waits for itself only behind a click (HandleKeypress,    *)
(* SetupAlarm, WorkerThread): for every duration.                            *)
THEOREM KeysAreSafe == MacroKeysSpec => []MacroKeysSafe
<1>1. MacroKeysInit => KeysInv
  BY KeysInit
<1>2. KeysInv /\ [MacroKeysNext]_mkVars => KeysInv'
  BY KeysTypes, KeysTime, KeysRequests DEF KeysInv
<1>3. KeysInv => MacroKeysSafe
  <2> SUFFICES ASSUME KeysInv
               PROVE  MacroKeysSafe
    OBVIOUS
  <2>1. DialogComes
    BY DEF KeysInv, KeysType, RequestInv, DialogComes, Waits, Threads
  <2>2. GuiFree
    BY DEF KeysInv, KeysType, RequestInv, ClickInv, GuiFree, GuiHeldUp, Waits, Threads
  <2> QED
    BY <2>1, <2>2 DEF KeysInv, MacroKeysSafe
<1> QED
  BY <1>1, <1>2, <1>3, PTL DEF MacroKeysSpec
-----------------------------------------------------------------------------
(* The power saver: the flag follows the scheme, and the median is the one   *)
(* of the samples whenever their number is even.                             *)

PsType ==
  /\ psOn \in BOOLEAN /\ psEnabled \in BOOLEAN /\ psReduced \in BOOLEAN /\ psLapse \in BOOLEAN
  /\ psTimeout \in Nat /\ psIdle \in Nat /\ psSeen \in Nat \cup {-1}
  /\ psSamples \in Seq(Loads) /\ psMedian \in Loads

PsInv ==
  /\ PsType
  /\ SchemeKnown
  /\ FullForUser
  /\ SlowWhenIdle
  /\ MedianIsMiddle

(* Of the three loads there are, one is in the middle of any samples.        *)
LEMMA MiddleExists ==
  ASSUME NEW q \in Seq(Loads), q # <<>>
  PROVE  /\ MedianOf(q) \in Loads
         /\ Len(q) \in Nat
         /\ Cardinality(Smaller(q, MedianOf(q))) \in Nat /\ Cardinality(NotLarger(q, MedianOf(q))) \in Nat
         /\ Cardinality(Smaller(q, MedianOf(q))) <= Len(q) \div 2
         /\ Len(q) \div 2 < Cardinality(NotLarger(q, MedianOf(q)))
<1> DEFINE h == Len(q) \div 2
           V == {q[k] : k \in DOMAIN q}
           Good(x) == Cardinality(Smaller(q, x)) <= h /\ h < Cardinality(NotLarger(q, x))
<1>1. Len(q) \in Nat \ {0} /\ DOMAIN q = 1..Len(q) /\ \A k \in 1..Len(q) : q[k] \in Loads
  OBVIOUS
<1>2. h \in Nat /\ h < Len(q)
  BY <1>1
<1>3. \A x : IsFiniteSet(Smaller(q, x)) /\ IsFiniteSet(NotLarger(q, x))
  <2>1. IsFiniteSet(1..Len(q))
    BY <1>1, FS_Interval
  <2> QED
    BY <1>1, <2>1, FS_Subset DEF Smaller, NotLarger
<1>4. \A x : Cardinality(Smaller(q, x)) \in Nat /\ Cardinality(NotLarger(q, x)) \in Nat
  BY <1>3, FS_CardinalityType
<1>5. V \subseteq Loads
  BY <1>1
<1>6. Smaller(q, 0) = {} /\ NotLarger(q, 90) = 1..Len(q)
  <2>1. \A k \in 1..Len(q) : ~(q[k] < 0) /\ q[k] <= 90
    BY <1>1 DEF Loads
  <2> QED
    BY <1>1, <2>1, Zenon DEF Smaller, NotLarger
<1>7. Smaller(q, 60) = NotLarger(q, 0) /\ Smaller(q, 90) = NotLarger(q, 60)
  <2>1. \A k \in 1..Len(q) : (q[k] < 60 <=> q[k] <= 0) /\ (q[k] < 90 <=> q[k] <= 60)
    BY <1>1 DEF Loads
  <2> QED
    BY <1>1, <2>1, Zenon DEF Smaller, NotLarger
<1>8. Cardinality(Smaller(q, 0)) = 0 /\ Cardinality(NotLarger(q, 90)) = Len(q)
  <2>1. Cardinality({}) = 0
    BY FS_EmptySet
  <2>2. \A n \in Nat : Cardinality(1..n) = n
    <3> TAKE n \in Nat
    <3>1. Cardinality(1..n) = IF 1 > n THEN 0 ELSE n - 1 + 1
      BY FS_Interval
    <3> QED
      BY <3>1
  <2>3. Len(q) \in Nat
    BY <1>1
  <2> QED
    BY <1>6, <2>1, <2>2, <2>3, Zenon
<1> HIDE DEF h
<1>9. \E x \in Loads : Good(x)
  <2>1. CASE h < Cardinality(NotLarger(q, 0))
    BY <1>2, <1>8, <2>1 DEF Loads
  <2>2. CASE ~(h < Cardinality(NotLarger(q, 0))) /\ h < Cardinality(NotLarger(q, 60))
    <3>1. Good(60)
      BY <1>2, <1>4, <1>7, <2>2
    <3> QED
      BY <3>1 DEF Loads
  <2>3. CASE ~(h < Cardinality(NotLarger(q, 60)))
    <3>1. Good(90)
      BY <1>2, <1>4, <1>7, <1>8, <2>3
    <3> QED
      BY <3>1 DEF Loads
  <2> QED
    BY <2>1, <2>2, <2>3
<1>10. PICK x \in Loads : Good(x)
  BY <1>9
<1>11. x \in V
  <2> SUFFICES ASSUME x \notin V PROVE FALSE
    OBVIOUS
  <2>1. Smaller(q, x) = NotLarger(q, x)
    <3>1. \A k \in 1..Len(q) : q[k] # x /\ q[k] \in Int /\ x \in Int
      BY <1>1 DEF Loads
    <3> QED
      BY <1>1, <3>1 DEF Smaller, NotLarger
  <2> QED
    BY <1>2, <1>4, <1>10, <2>1
<1>12. \E y \in V : Good(y)
  BY <1>10, <1>11
<1>13. MedianOf(q) = CHOOSE y \in V : Good(y)
  BY DEF MedianOf, h
<1>14. MedianOf(q) \in V /\ Good(MedianOf(q))
  <2> HIDE DEF V, Good
  <2> QED
    BY <1>12, <1>13
<1> QED
  BY <1>1, <1>4, <1>5, <1>14 DEF h

(* What a sample leaves: the samples that are there, and their middle.       *)
LEMMA SampleKeeps ==
  ASSUME PsType, MedianIsMiddle, (\E load \in Loads : Sample(load)) \/ NoSample
  PROVE  psSamples' \in Seq(Loads) /\ psMedian' \in Loads /\ MedianIsMiddle'
<1>1. CASE NoSample
  BY <1>1 DEF NoSample, PsType, MedianIsMiddle
<1>2. CASE \E load \in Loads : Sample(load)
  <2>1. PICK load \in Loads : Sample(load)
    BY <1>2
  <2>2. PICK q : q = psSamples'
    OBVIOUS
  <2>3. q \in Seq(Loads) /\ q # <<>>
    <3>1. psSamples \in Seq(Loads)
      BY DEF PsType
    <3>2. Len(psSamples) >= QueueSize => psSamples # <<>>
      BY <3>1, PowerAssumption
    <3>3. psSamples # <<>> => Tail(psSamples) \in Seq(Loads)
      BY <3>1
    <3>4. \A s \in Seq(Loads) : Append(s, load) \in Seq(Loads) /\ Append(s, load) # <<>>
      OBVIOUS
    <3> QED
      BY <2>1, <2>2, <3>1, <3>2, <3>3, <3>4, Zenon DEF Sample, Sampled
  <2>4. psMedian' = IF Len(q) % 2 = 1 THEN psMedian ELSE MedianOf(q)
    BY <2>1, <2>2 DEF Sample
  <2>5. /\ MedianOf(q) \in Loads /\ Len(q) \in Nat
        /\ Cardinality(Smaller(q, MedianOf(q))) \in Nat /\ Cardinality(NotLarger(q, MedianOf(q))) \in Nat
        /\ Cardinality(Smaller(q, MedianOf(q))) <= Len(q) \div 2
        /\ Len(q) \div 2 < Cardinality(NotLarger(q, MedianOf(q)))
    BY <2>3, MiddleExists
  <2>6. psMedian' \in Loads
    BY <2>4, <2>5 DEF PsType
  <2>7. ASSUME Len(q) % 2 = 0
        PROVE  /\ 2 * Cardinality(NotLarger(q, psMedian')) > Len(q)
               /\ 2 * Cardinality(Smaller(q, psMedian')) <= Len(q)
    <3>1. psMedian' = MedianOf(q)
      BY <2>4, <2>5, <2>7
    <3>2. \A c, d, n \in Nat : n % 2 = 0 /\ c <= n \div 2 /\ n \div 2 < d => 2 * d > n /\ 2 * c <= n
      OBVIOUS
    <3> QED
      BY <2>5, <2>7, <3>1, <3>2
  <2> QED
    BY <2>2, <2>3, <2>6, <2>7 DEF MedianIsMiddle
<1> QED
  BY <1>1, <1>2

LEMMA PsInit == PowerInit => PsInv
<1> SUFFICES ASSUME PowerInit PROVE PsInv
  OBVIOUS
<1>1. PsType
  <2>1. psTimeout \in Nat /\ psSamples \in Seq(Loads) /\ psMedian \in Loads
    BY PowerAssumption DEF PowerInit, Loads
  <2> QED
    BY <2>1 DEF PowerInit, PsType
<1> QED
  BY <1>1 DEF PowerInit, PsInv, SchemeKnown, FullForUser, SlowWhenIdle, MedianIsMiddle

LEMMA ProcessKeeps ==
  ASSUME PsInv, psOn, psEnabled, Process, UNCHANGED <<psOn, psEnabled, psTimeout>>
  PROVE  /\ psReduced' \in BOOLEAN /\ psLapse' \in BOOLEAN /\ psSeen' \in Nat
         /\ psSamples' \in Seq(Loads) /\ psMedian' \in Loads /\ MedianIsMiddle'
         /\ SchemeKnown' /\ FullForUser' /\ SlowWhenIdle'
<1> DEFINE reduces  == psIdle > psTimeout /\ ~psReduced /\ psMedian < MinLoad
           restores == psIdle <= psTimeout /\ psReduced /\ BelowTimeout(psIdle)
           then     == IF reduces THEN TRUE ELSE IF restores THEN FALSE ELSE psReduced
<1>1. psSamples' \in Seq(Loads) /\ psMedian' \in Loads /\ MedianIsMiddle'
  BY SampleKeeps DEF PsInv, Process
<1>2. psSeen' = psIdle /\ psReduced' = (then /\ ~(psSamples' # psSamples /\ psMedian' > MaxLoad))
  BY DEF Process
<1>3. psReduced' \in BOOLEAN /\ (psReduced' => then)
  BY <1>2
<1>4. psReduced \in BOOLEAN /\ psLapse \in BOOLEAN /\ psIdle \in Nat /\ psTimeout \in Nat
  BY DEF PsInv, PsType
<1>5. psReduced' => psReduced \/ reduces
  BY <1>3
<1>6. psReduced' => ~restores
  BY <1>3, <1>4
<1>7. SlowWhenIdle'
  BY <1>2, <1>4, <1>5, <1>6 DEF SlowWhenIdle, BelowTimeout, Hysteresis
<1>8. FullForUser'
  BY <1>2, <1>4, <1>5, <1>6 DEF FullForUser, BelowTimeout, Hysteresis
<1>9. psLapse' \in BOOLEAN /\ SchemeKnown'
  <2> DEFINE t == then
  <2>1. IF psReduced' # psReduced THEN SetScheme(IF psReduced' THEN "low" ELSE "full")
        ELSE IF t = psReduced' THEN KeepScheme
        ELSE \/ psScheme' = "full" /\ UNCHANGED psLapse
             \/ psScheme' \in {"low", psScheme} /\ psLapse' = TRUE
    BY DEF Process
  <2>2. t \in BOOLEAN /\ (psReduced' => t)
    BY <1>3, <1>4
  <2>3. ~psLapse => (psScheme = "low" <=> psReduced)
    BY DEF PsInv, SchemeKnown
  <2> HIDE DEF t
  <2>4. psOn' = psOn
    OBVIOUS
  <2>5. CASE psReduced' # psReduced
    <3>1. \/ psScheme' = (IF psReduced' THEN "low" ELSE "full") /\ psLapse' = psLapse
          \/ psLapse' = TRUE
      BY <2>1, <2>5, Zenon DEF SetScheme
    <3>2. (psReduced' <=> ~psReduced) /\ psOn'
      BY <1>3, <1>4, <2>4, <2>5
    <3>3. psLapse' \in BOOLEAN
      BY <1>4, <3>1, Zenon
    <3>4. ~psLapse' => psScheme' = (IF psReduced' THEN "low" ELSE "full")
      BY <3>1, Zenon
    <3>5. ~psLapse' => (psScheme' = "low" <=> psReduced')
      BY <3>4
    <3> QED
      BY <3>2, <3>3, <3>5, Zenon DEF SchemeKnown
  <2>6. CASE psReduced' = psReduced
    <3>1. \/ psScheme' = psScheme /\ psLapse' = psLapse
          \/ psScheme' = "full" /\ psLapse' = psLapse /\ t # psReduced'
          \/ psLapse' = TRUE
      BY <2>1, <2>6, Zenon DEF KeepScheme
    <3>2. t # psReduced' => ~psReduced'
      BY <1>3, <2>2
    <3>3. psOn' /\ (psReduced' <=> psReduced)
      BY <2>4, <2>6
    <3>4. psLapse' \in BOOLEAN
      BY <1>4, <3>1, Zenon
    <3>5. ~psLapse' => \/ psScheme' = psScheme /\ ~psLapse
                       \/ psScheme' = "full" /\ ~psReduced'
      BY <3>1, <3>2, Zenon
    <3>6. ~psLapse' => (psScheme' = "low" <=> psReduced')
      BY <2>3, <3>3, <3>5
    <3> QED
      BY <3>3, <3>4, <3>6, Zenon DEF SchemeKnown
  <2> QED
    BY <2>5, <2>6
<1> QED
  BY <1>1, <1>2, <1>3, <1>4, <1>7, <1>8, <1>9

LEMMA PsKeeps == PsInv /\ [PowerNext]_psVars => PsInv'
<1> SUFFICES ASSUME PsInv, [PowerNext]_psVars PROVE PsInv'
  OBVIOUS
<1> USE DEF PsInv
<1>1. CASE UNCHANGED psVars
  BY <1>1 DEF psVars, PsType, SchemeKnown, FullForUser, SlowWhenIdle, MedianIsMiddle
<1>2. CASE TimerTurn
  <2>1. psIdle' \in Nat
    BY <1>2 DEF TimerTurn, SimulateUserActivity, PsType
  <2>2. UNCHANGED <<psOn, psEnabled, psTimeout>> /\ psOn
    BY <1>2 DEF TimerTurn
  <2>3. CASE psEnabled
    <3>1. Process
      BY <1>2, <2>3 DEF TimerTurn
    <3>2. /\ psReduced' \in BOOLEAN /\ psLapse' \in BOOLEAN /\ psSeen' \in Nat
          /\ psSamples' \in Seq(Loads) /\ psMedian' \in Loads /\ MedianIsMiddle'
          /\ SchemeKnown' /\ FullForUser' /\ SlowWhenIdle'
      BY <2>2, <2>3, <3>1, ProcessKeeps
    <3>3. PsType'
      BY <2>1, <2>2, <3>2 DEF PsType
    <3> QED
      BY <3>2, <3>3
  <2>4. CASE ~psEnabled
    <3>1. UNCHANGED <<psSeen, psSamples, psMedian, psReduced, psScheme, psLapse>>
      BY <1>2, <2>4 DEF TimerTurn
    <3> QED
      BY <2>1, <2>2, <3>1 DEF PsType, SchemeKnown, FullForUser, SlowWhenIdle, MedianIsMiddle
  <2> QED
    BY <2>3, <2>4
<1>3. CASE Wait \/ Input
  <2>1. psIdle' \in Nat
    <3>1. CASE Wait
      <4>1. psIdle' \in IdleTimes
        BY <3>1 DEF Wait
      <4> QED
        BY <4>1, PowerAssumption
    <3>2. CASE Input
      BY <3>2 DEF Input
    <3> QED
      BY <1>3, <3>1, <3>2
  <2>2. UNCHANGED <<psOn, psEnabled, psTimeout, psReduced, psScheme, psSamples, psMedian, psSeen, psLapse>>
    BY <1>3 DEF Wait, Input
  <2> QED
    BY <2>1, <2>2 DEF PsType, SchemeKnown, FullForUser, SlowWhenIdle, MedianIsMiddle
<1>4. CASE Configure
  <2>1. psEnabled' \in BOOLEAN /\ psTimeout' \in Nat /\ psSeen' = -1
    BY <1>4, PowerAssumption DEF Configure
  <2>2. UNCHANGED <<psOn, psReduced, psScheme, psSamples, psMedian, psIdle, psTurns, psLapse>>
    BY <1>4 DEF Configure
  <2> QED
    BY <2>1, <2>2 DEF PsType, SchemeKnown, FullForUser, SlowWhenIdle, MedianIsMiddle
<1>5. CASE Exit \/ Killed
  <2>1. psOn' = FALSE /\ UNCHANGED <<psEnabled, psTimeout, psReduced, psSamples, psMedian, psIdle, psSeen>>
    BY <1>5 DEF Exit, Killed
  <2>2. psLapse' \in BOOLEAN /\ (~psLapse' => psScheme' # "low")
    <3>1. CASE Exit
      BY <3>1 DEF Exit, SetScheme, PsType
    <3>2. CASE Killed
      BY <3>2 DEF Killed, PsType
    <3> QED
      BY <1>5, <3>1, <3>2
  <2> QED
    BY <2>1, <2>2 DEF PsType, SchemeKnown, FullForUser, SlowWhenIdle, MedianIsMiddle
<1>6. CASE Restart
  <2>1. psOn' = TRUE /\ ~psOn /\ psReduced' = FALSE /\ psSamples' = <<>> /\ psMedian' = 0 /\ psSeen' = -1
    BY <1>6 DEF Restart
  <2>2. UNCHANGED <<psEnabled, psTimeout, psScheme, psIdle, psTurns, psLapse>>
    BY <1>6 DEF Restart
  <2>3. <<>> \in Seq(Loads) /\ 0 \in Loads /\ -1 \in Nat \cup {-1}
    BY DEF Loads
  <2>4. PsType'
    BY <2>1, <2>2, <2>3 DEF PsType
  <2> QED
    BY <2>1, <2>2, <2>4 DEF SchemeKnown, FullForUser, SlowWhenIdle, MedianIsMiddle
<1> QED
  BY <1>1, <1>2, <1>3, <1>4, <1>5, <1>6 DEF PowerNext
-----------------------------------------------------------------------------
(* The life of the application: where in it each object is first deleted.    *)

Leaves ==
  [can_entry |-> 22, cmd_executor |-> 23, did_handler |-> 21,
   modbus_handler |-> 24, data_sender |-> 25, alarm_entry |-> 39,
   Settings |-> 27, SerialPort |-> 36, CanSerialPort |-> 19,
   DataSerialPort |-> 20, Server |-> 29, Sensors |-> 30,
   DatabaseLogic |-> 31, PrintScreenSaver |-> 32,
   DirectoryBackup |-> 33, SerialTcpBackend |-> 35, CorsairHid |-> 37,
   CustomMacro |-> 28, IdlePowerSaver |-> 26, Logger |-> 38]

Built    == <<"can_entry", "cmd_executor", "did_handler", "modbus_handler",
             "data_sender", "alarm_entry">>
Started == <<"Settings", "SerialPort", "CanSerialPort", "DataSerialPort",
             "Server", "DirectoryBackup", "SerialTcpBackend", "CorsairHid",
             "can_entry", "did_handler", "data_sender">>
Deleted == <<"CanSerialPort", "DataSerialPort", "did_handler", "can_entry",
             "cmd_executor", "modbus_handler", "data_sender",
             "IdlePowerSaver", "Settings", "CustomMacro", "Server",
             "Sensors", "DatabaseLogic", "PrintScreenSaver",
             "DirectoryBackup", "DatabaseLogic", "SerialTcpBackend",
             "SerialPort", "CorsairHid", "Logger", "alarm_entry">>

(* The steps of Life. *)
LEMMA DoesWhat ==
  ASSUME NEW what, NEW names \in Seq(Objects)
  PROVE  /\ Does(what, names) \in Seq({what} \X Objects) /\ Len(Does(what, names)) = Len(names)
         /\ \A k \in 1..Len(names) : Does(what, names)[k] = <<what, names[k]>>
<1>1. DOMAIN names = 1..Len(names) /\ Len(names) \in Nat /\ \A k \in 1..Len(names) : names[k] \in Objects
  OBVIOUS
<1>2. Does(what, names) = [k \in 1..Len(names) |-> <<what, names[k]>>]
  BY <1>1 DEF Does
<1>3. \A k \in 1..Len(names) : <<what, names[k]>> \in {what} \X Objects
  BY <1>1
<1> HIDE DEF Does
<1> QED
  BY <1>1, <1>2, <1>3

LEMMA MadeNames ==
  /\ Built \in Seq(Objects) /\ Len(Built) = 6
  /\ Built[1] = "can_entry" /\ Built[2] = "cmd_executor" /\ Built[3] = "did_handler"
  /\ Built[4] = "modbus_handler" /\ Built[5] = "data_sender" /\ Built[6] = "alarm_entry"
BY DEF Built, Objects, Handlers, Singletons

LEMMA StartedNames ==
  /\ Started \in Seq(Objects) /\ Len(Started) = 11
  /\ Started[1] = "Settings" /\ Started[2] = "SerialPort" /\ Started[3] = "CanSerialPort"
  /\ Started[4] = "DataSerialPort" /\ Started[5] = "Server" /\ Started[6] = "DirectoryBackup"
  /\ Started[7] = "SerialTcpBackend" /\ Started[8] = "CorsairHid" /\ Started[9] = "can_entry"
  /\ Started[10] = "did_handler" /\ Started[11] = "data_sender"
BY DEF Started, Objects, Handlers, Singletons

LEMMA DeletedNames ==
  /\ Deleted \in Seq(Objects) /\ Len(Deleted) = 21
  /\ Deleted[1] = "CanSerialPort" /\ Deleted[2] = "DataSerialPort" /\ Deleted[3] = "did_handler"
  /\ Deleted[4] = "can_entry" /\ Deleted[5] = "cmd_executor" /\ Deleted[6] = "modbus_handler"
  /\ Deleted[7] = "data_sender" /\ Deleted[8] = "IdlePowerSaver" /\ Deleted[9] = "Settings"
  /\ Deleted[10] = "CustomMacro" /\ Deleted[11] = "Server" /\ Deleted[12] = "Sensors"
  /\ Deleted[13] = "DatabaseLogic" /\ Deleted[14] = "PrintScreenSaver" /\ Deleted[15] = "DirectoryBackup"
  /\ Deleted[16] = "DatabaseLogic" /\ Deleted[17] = "SerialTcpBackend" /\ Deleted[18] = "SerialPort"
  /\ Deleted[19] = "CorsairHid" /\ Deleted[20] = "Logger" /\ Deleted[21] = "alarm_entry"
BY DEF Deleted, Objects, Handlers, Singletons

LEMMA DeletedInTurn ==
  Deleted = <<"CanSerialPort", "DataSerialPort">> \o <<"did_handler", "can_entry">> \o
     <<"cmd_executor", "modbus_handler", "data_sender", "IdlePowerSaver", "Settings", "CustomMacro", "Server",
       "Sensors", "DatabaseLogic", "PrintScreenSaver", "DirectoryBackup", "DatabaseLogic", "SerialTcpBackend",
       "SerialPort", "CorsairHid", "Logger", "alarm_entry">>
BY DEF Deleted

LEMMA LifeSteps ==
  /\ Len(OnInit) = 17 /\ Len(Life) = 39
  /\ \A k \in 1..6 : Life[k] = <<"new", Built[k]>>
  /\ \A k \in 7..17 : Life[k] = <<"init", Started[k - 6]>>
  /\ Life[18] = <<"run", "the main loop">>
  /\ \A k \in 19..39 : Life[k] = <<"delete", Deleted[k - 18]>>
<1> DEFINE a == Does("new", Built)
           b == Does("init", Started)
           r == <<<<"run", "the main loop">>>>
           d == Does("delete", Deleted)
<1>1. OnInit = a \o b /\ Life = a \o b \o r \o d
  <2>1. OnExit = d
    BY DeletedInTurn DEF OnExit, OnExitWith
  <2> QED
    BY <2>1 DEF Life, OnInit, Built, Started
<1>2. /\ a \in Seq({"new"} \X Objects) /\ Len(a) = 6
      /\ \A k \in 1..6 : a[k] = <<"new", Built[k]>>
  BY MadeNames, DoesWhat
<1>3. /\ b \in Seq({"init"} \X Objects) /\ Len(b) = 11
      /\ \A k \in 1..11 : b[k] = <<"init", Started[k]>>
  BY StartedNames, DoesWhat
<1>4. /\ d \in Seq({"delete"} \X Objects) /\ Len(d) = 21
      /\ \A k \in 1..21 : d[k] = <<"delete", Deleted[k]>>
  <2>1. Deleted \in Seq(Objects) /\ Len(Deleted) = 21
    BY DeletedNames
  <2> HIDE DEF d
  <2>2. /\ d \in Seq({"delete"} \X Objects) /\ Len(d) = Len(Deleted)
        /\ \A k \in 1..Len(Deleted) : d[k] = <<"delete", Deleted[k]>>
    BY <2>1, DoesWhat DEF d
  <2> QED
    BY <2>1, <2>2, Zenon
<1> DEFINE T == ({"new"} \X Objects) \cup ({"init"} \X Objects) \cup ({"delete"} \X Objects)
                \cup {<<"run", "the main loop">>}
<1>5. a \in Seq(T) /\ b \in Seq(T) /\ r \in Seq(T) /\ d \in Seq(T) /\ Len(r) = 1
      /\ r[1] = <<"run", "the main loop">>
  <2>1. \A S : S \subseteq T => Seq(S) \subseteq Seq(T)
    <3> HIDE DEF T
    <3> QED
      OBVIOUS
  <2>2. <<"run", "the main loop">> \in T
    OBVIOUS
  <2>3. r \in Seq(T) /\ Len(r) = 1 /\ r[1] = <<"run", "the main loop">>
    <3> DEFINE e == <<"run", "the main loop">>
    <3>1. \A S : \A x \in S : <<x>> \in Seq(S) /\ Len(<<x>>) = 1 /\ <<x>>[1] = x
      OBVIOUS
    <3> HIDE DEF T, e
    <3>2. e \in T /\ r = <<e>>
      BY <2>2 DEF e
    <3> HIDE DEF r
    <3> QED
      BY <3>1, <3>2, Zenon DEF e
  <2>4. {"new"} \X Objects \subseteq T /\ {"init"} \X Objects \subseteq T /\ {"delete"} \X Objects \subseteq T
    OBVIOUS
  <2> HIDE DEF a, b, d, r, T
  <2> QED
    BY <1>2, <1>3, <1>4, <2>1, <2>3, <2>4
<1> HIDE DEF a, b, d, r, T
<1>6. /\ a \o b \in Seq(T) /\ Len(a \o b) = 17
      /\ \A k \in 1..17 : (a \o b)[k] = IF k <= 6 THEN a[k] ELSE b[k - 6]
  <2>1. a \in Seq(T) /\ b \in Seq(T) /\ Len(a) = 6 /\ Len(b) = 11
    BY <1>2, <1>3, <1>5
  <2>2. /\ a \o b \in Seq(T) /\ Len(a \o b) = Len(a) + Len(b)
        /\ \A i \in 1..(Len(a) + Len(b)) : (a \o b)[i] = IF i <= Len(a) THEN a[i] ELSE b[i - Len(a)]
    BY <2>1, ConcatProperties
  <2> DEFINE c == a \o b
  <2> HIDE DEF c
  <2>4. /\ c \in Seq(T) /\ Len(c) = Len(a) + Len(b)
        /\ \A i \in 1..(Len(a) + Len(b)) : c[i] = IF i <= Len(a) THEN a[i] ELSE b[i - Len(a)]
    BY <2>2, Zenon DEF c
  <2>3. /\ c \in Seq(T) /\ Len(c) = 17
        /\ \A k \in 1..17 : c[k] = IF k <= 6 THEN a[k] ELSE b[k - 6]
    BY <2>1, <2>4
  <2> QED
    BY <2>3 DEF c
<1> DEFINE ab == a \o b
<1> HIDE DEF ab
<1>7. /\ ab \o r \in Seq(T) /\ Len(ab \o r) = 18
      /\ \A k \in 1..18 : (ab \o r)[k] = IF k <= 17 THEN ab[k] ELSE r[k - 17]
  <2>1. ab \in Seq(T) /\ r \in Seq(T) /\ Len(ab) = 17 /\ Len(r) = 1
    BY <1>5, <1>6 DEF ab
  <2>2. /\ ab \o r \in Seq(T) /\ Len(ab \o r) = Len(ab) + Len(r)
        /\ \A i \in 1..(Len(ab) + Len(r)) : (ab \o r)[i] = IF i <= Len(ab) THEN ab[i] ELSE r[i - Len(ab)]
    BY <2>1, ConcatProperties
  <2> DEFINE c == ab \o r
  <2> HIDE DEF c
  <2>4. /\ c \in Seq(T) /\ Len(c) = Len(ab) + Len(r)
        /\ \A i \in 1..(Len(ab) + Len(r)) : c[i] = IF i <= Len(ab) THEN ab[i] ELSE r[i - Len(ab)]
    BY <2>2, Zenon DEF c
  <2>3. /\ c \in Seq(T) /\ Len(c) = 18
        /\ \A k \in 1..18 : c[k] = IF k <= 17 THEN ab[k] ELSE r[k - 17]
    BY <2>1, <2>4
  <2> QED
    BY <2>3 DEF c
<1> DEFINE abr == ab \o r
<1> HIDE DEF abr
<1>8. /\ abr \o d \in Seq(T) /\ Len(abr \o d) = 39
      /\ \A k \in 1..39 : (abr \o d)[k] = IF k <= 18 THEN abr[k] ELSE d[k - 18]
  <2>1. abr \in Seq(T) /\ d \in Seq(T) /\ Len(abr) = 18 /\ Len(d) = 21
    BY <1>4, <1>5, <1>7 DEF abr
  <2>2. /\ abr \o d \in Seq(T) /\ Len(abr \o d) = Len(abr) + Len(d)
        /\ \A i \in 1..(Len(abr) + Len(d)) : (abr \o d)[i] = IF i <= Len(abr) THEN abr[i] ELSE d[i - Len(abr)]
    BY <2>1, ConcatProperties
  <2> DEFINE c == abr \o d
  <2> HIDE DEF c
  <2>4. /\ c \in Seq(T) /\ Len(c) = Len(abr) + Len(d)
        /\ \A i \in 1..(Len(abr) + Len(d)) : c[i] = IF i <= Len(abr) THEN abr[i] ELSE d[i - Len(abr)]
    BY <2>2, Zenon DEF c
  <2>3. /\ c \in Seq(T) /\ Len(c) = 39
        /\ \A k \in 1..39 : c[k] = IF k <= 18 THEN abr[k] ELSE d[k - 18]
    BY <2>1, <2>4
  <2> QED
    BY <2>3 DEF c
<1> DEFINE l == abr \o d
<1>9. OnInit = ab /\ Life = l
  BY <1>1 DEF ab, abr
<1>14. Len(OnInit) = 17 /\ Len(Life) = 39
  BY <1>6, <1>8, <1>9 DEF ab
<1> HIDE DEF l
<1>10. /\ \A k \in 1..39 : l[k] = IF k <= 18 THEN abr[k] ELSE d[k - 18]
       /\ \A k \in 1..18 : abr[k] = IF k <= 17 THEN ab[k] ELSE r[k - 17]
       /\ \A k \in 1..17 : ab[k] = IF k <= 6 THEN a[k] ELSE b[k - 6]
  BY <1>6, <1>7, <1>8 DEF ab, abr, l
<1>11. /\ \A k \in 1..6 : l[k] = a[k]
       /\ \A k \in 7..17 : l[k] = b[k - 6]
       /\ l[18] = r[1]
       /\ \A k \in 19..39 : l[k] = d[k - 18]
  BY <1>10
<1>15. \A k \in 7..17 : k - 6 \in 1..11
  OBVIOUS
<1>16. \A k \in 19..39 : k - 18 \in 1..21
  OBVIOUS
<1> QED
  BY <1>2, <1>3, <1>4, <1>5, <1>9, <1>11, <1>14, <1>15, <1>16, Zenon

(* An object is deleted at Leaves, and only there but for the database,      *)
(* which is deleted twice.                                                   *)
LEMMA LeavesNames ==
  /\ Leaves \in [Objects -> 19..39]
  /\ Leaves["can_entry"] = 22 /\ Leaves["cmd_executor"] = 23
  /\ Leaves["did_handler"] = 21 /\ Leaves["modbus_handler"] = 24
  /\ Leaves["data_sender"] = 25 /\ Leaves["alarm_entry"] = 39
  /\ Leaves["Settings"] = 27 /\ Leaves["SerialPort"] = 36
  /\ Leaves["CanSerialPort"] = 19 /\ Leaves["DataSerialPort"] = 20
  /\ Leaves["Server"] = 29 /\ Leaves["Sensors"] = 30
  /\ Leaves["DatabaseLogic"] = 31 /\ Leaves["PrintScreenSaver"] = 32
  /\ Leaves["DirectoryBackup"] = 33 /\ Leaves["SerialTcpBackend"] = 35
  /\ Leaves["CorsairHid"] = 37 /\ Leaves["CustomMacro"] = 28
  /\ Leaves["IdlePowerSaver"] = 26 /\ Leaves["Logger"] = 38
BY DEF Leaves, Objects, Handlers, Singletons

LEMMA LeavesInTurn ==
  /\ \A k \in 19..39 : Deleted[k - 18] \in Objects /\ Leaves[Deleted[k - 18]] <= k
  /\ \A k \in 19..39 : Deleted[k - 18] # "DatabaseLogic" => Leaves[Deleted[k - 18]] = k
  /\ \A o \in Objects : Deleted[Leaves[o] - 18] = o
<1> DEFINE Right(k, o) == /\ Deleted[k - 18] = o /\ o \in Objects /\ Leaves[o] <= k
                          /\ o # "DatabaseLogic" => Leaves[o] = k
<1>1. Right(19, "CanSerialPort")
  BY DeletedNames, LeavesNames DEF Objects, Handlers, Singletons
<1>2. Right(20, "DataSerialPort")
  BY DeletedNames, LeavesNames DEF Objects, Handlers, Singletons
<1>3. Right(21, "did_handler")
  BY DeletedNames, LeavesNames DEF Objects, Handlers, Singletons
<1>4. Right(22, "can_entry")
  BY DeletedNames, LeavesNames DEF Objects, Handlers, Singletons
<1>5. Right(23, "cmd_executor")
  BY DeletedNames, LeavesNames DEF Objects, Handlers, Singletons
<1>6. Right(24, "modbus_handler")
  BY DeletedNames, LeavesNames DEF Objects, Handlers, Singletons
<1>7. Right(25, "data_sender")
  BY DeletedNames, LeavesNames DEF Objects, Handlers, Singletons
<1>8. Right(26, "IdlePowerSaver")
  BY DeletedNames, LeavesNames DEF Objects, Handlers, Singletons
<1>9. Right(27, "Settings")
  BY DeletedNames, LeavesNames DEF Objects, Handlers, Singletons
<1>10. Right(28, "CustomMacro")
  BY DeletedNames, LeavesNames DEF Objects, Handlers, Singletons
<1>11. Right(29, "Server")
  BY DeletedNames, LeavesNames DEF Objects, Handlers, Singletons
<1>12. Right(30, "Sensors")
  BY DeletedNames, LeavesNames DEF Objects, Handlers, Singletons
<1>13. Right(31, "DatabaseLogic")
  BY DeletedNames, LeavesNames DEF Objects, Handlers, Singletons
<1>14. Right(32, "PrintScreenSaver")
  BY DeletedNames, LeavesNames DEF Objects, Handlers, Singletons
<1>15. Right(33, "DirectoryBackup")
  BY DeletedNames, LeavesNames DEF Objects, Handlers, Singletons
<1>16. Right(34, "DatabaseLogic")
  BY DeletedNames, LeavesNames DEF Objects, Handlers, Singletons
<1>17. Right(35, "SerialTcpBackend")
  BY DeletedNames, LeavesNames DEF Objects, Handlers, Singletons
<1>18. Right(36, "SerialPort")
  BY DeletedNames, LeavesNames DEF Objects, Handlers, Singletons
<1>19. Right(37, "CorsairHid")
  BY DeletedNames, LeavesNames DEF Objects, Handlers, Singletons
<1>20. Right(38, "Logger")
  BY DeletedNames, LeavesNames DEF Objects, Handlers, Singletons
<1>21. Right(39, "alarm_entry")
  BY DeletedNames, LeavesNames DEF Objects, Handlers, Singletons
<1> HIDE DEF Right
<1>22. \A k \in 19..39 : \E o : Right(k, o)
  <2>1. \A k \in 19..39 : k = 19 \/ k = 20 \/ k = 21 \/ k = 22 \/ k = 23 \/ k = 24 \/ k = 25 \/ k = 26 \/ k = 27 \/ k = 28
        \/ k = 29 \/ k = 30 \/ k = 31 \/ k = 32 \/ k = 33 \/ k = 34 \/ k = 35 \/ k = 36 \/ k = 37 \/ k = 38 \/ k = 39
    OBVIOUS
  <2>2. \E o : Right(19, o)
    BY <1>1, Zenon
  <2>3. \E o : Right(20, o)
    BY <1>2, Zenon
  <2>4. \E o : Right(21, o)
    BY <1>3, Zenon
  <2>5. \E o : Right(22, o)
    BY <1>4, Zenon
  <2>6. \E o : Right(23, o)
    BY <1>5, Zenon
  <2>7. \E o : Right(24, o)
    BY <1>6, Zenon
  <2>8. \E o : Right(25, o)
    BY <1>7, Zenon
  <2>9. \E o : Right(26, o)
    BY <1>8, Zenon
  <2>10. \E o : Right(27, o)
    BY <1>9, Zenon
  <2>11. \E o : Right(28, o)
    BY <1>10, Zenon
  <2>12. \E o : Right(29, o)
    BY <1>11, Zenon
  <2>13. \E o : Right(30, o)
    BY <1>12, Zenon
  <2>14. \E o : Right(31, o)
    BY <1>13, Zenon
  <2>15. \E o : Right(32, o)
    BY <1>14, Zenon
  <2>16. \E o : Right(33, o)
    BY <1>15, Zenon
  <2>17. \E o : Right(34, o)
    BY <1>16, Zenon
  <2>18. \E o : Right(35, o)
    BY <1>17, Zenon
  <2>19. \E o : Right(36, o)
    BY <1>18, Zenon
  <2>20. \E o : Right(37, o)
    BY <1>19, Zenon
  <2>21. \E o : Right(38, o)
    BY <1>20, Zenon
  <2>22. \E o : Right(39, o)
    BY <1>21, Zenon
  <2> HIDE DEF Right
  <2>30. ASSUME NEW k \in 19..39 PROVE \E o : Right(k, o)
    BY <2>1, <2>2, <2>3, <2>4, <2>5, <2>6, <2>7, <2>8, <2>9, <2>10, <2>11, <2>12, <2>13, <2>14, <2>15, <2>16, <2>17, <2>18, <2>19, <2>20, <2>21, <2>22
  <2> QED
    BY <2>30
<1>23. \A o \in Objects : Deleted[Leaves[o] - 18] = o
  <2> TAKE o \in Objects
  <2>1. CASE o = "can_entry"
    BY <2>1, DeletedNames, LeavesNames
  <2>2. CASE o = "cmd_executor"
    BY <2>2, DeletedNames, LeavesNames
  <2>3. CASE o = "did_handler"
    BY <2>3, DeletedNames, LeavesNames
  <2>4. CASE o = "modbus_handler"
    BY <2>4, DeletedNames, LeavesNames
  <2>5. CASE o = "data_sender"
    BY <2>5, DeletedNames, LeavesNames
  <2>6. CASE o = "alarm_entry"
    BY <2>6, DeletedNames, LeavesNames
  <2>7. CASE o = "Settings"
    BY <2>7, DeletedNames, LeavesNames
  <2>8. CASE o = "SerialPort"
    BY <2>8, DeletedNames, LeavesNames
  <2>9. CASE o = "CanSerialPort"
    BY <2>9, DeletedNames, LeavesNames
  <2>10. CASE o = "DataSerialPort"
    BY <2>10, DeletedNames, LeavesNames
  <2>11. CASE o = "Server"
    BY <2>11, DeletedNames, LeavesNames
  <2>12. CASE o = "Sensors"
    BY <2>12, DeletedNames, LeavesNames
  <2>13. CASE o = "DatabaseLogic"
    BY <2>13, DeletedNames, LeavesNames
  <2>14. CASE o = "PrintScreenSaver"
    BY <2>14, DeletedNames, LeavesNames
  <2>15. CASE o = "DirectoryBackup"
    BY <2>15, DeletedNames, LeavesNames
  <2>16. CASE o = "SerialTcpBackend"
    BY <2>16, DeletedNames, LeavesNames
  <2>17. CASE o = "CorsairHid"
    BY <2>17, DeletedNames, LeavesNames
  <2>18. CASE o = "CustomMacro"
    BY <2>18, DeletedNames, LeavesNames
  <2>19. CASE o = "IdlePowerSaver"
    BY <2>19, DeletedNames, LeavesNames
  <2>20. CASE o = "Logger"
    BY <2>20, DeletedNames, LeavesNames
  <2> QED
    BY <2>1, <2>2, <2>3, <2>4, <2>5, <2>6, <2>7, <2>8, <2>9, <2>10, <2>11, <2>12, <2>13, <2>14, <2>15, <2>16, <2>17, <2>18, <2>19, <2>20 DEF Objects, Handlers, Singletons
<1>24. ASSUME NEW k \in 19..39
       PROVE  /\ Deleted[k - 18] \in Objects /\ Leaves[Deleted[k - 18]] <= k
              /\ Deleted[k - 18] # "DatabaseLogic" => Leaves[Deleted[k - 18]] = k
  <2>1. PICK o : Right(k, o)
    BY <1>22
  <2>2. Deleted[k - 18] = o /\ o \in Objects /\ Leaves[o] <= k /\ (o # "DatabaseLogic" => Leaves[o] = k)
    BY <2>1 DEF Right
  <2> QED
    BY <2>2, Zenon
<1> QED
  BY <1>23, <1>24

LEMMA ThreadsUse ==
  \A t \in AppThreads :
    /\ Owner[t] \in Objects /\ Uses(t) \subseteq Objects
    /\ \A o \in Uses(t) : Leaves[o] <= Leaves[Owner[t]] =>
         \/ <<t, o>> \in TooLate
         \/ Owner[t] = o /\ o \in JoinsFirst
    /\ \A o \in Uses(t) \cap Singletons : Leaves[o] < Leaves[Owner[t]] => o \in ComesBack
<1> TAKE t \in AppThreads
<1> QED
  BY DEF AppThreads, Owner, Uses, MacroUses, MacroThreads, Leaves, TooLate, JoinsFirst, ComesBack,
         Objects, Handlers, Singletons
-----------------------------------------------------------------------------
(* The application: what is there, and who runs, at each step of its life.   *)

AxType ==
  /\ axAt \in 1..40
  /\ axState \in [Objects -> {"none", "live", "dying", "gone"}]
  /\ axRunning \subseteq AppThreads
  /\ axInside \in [AppThreads -> Objects \cup {"nothing"}]
  /\ axAgain \subseteq ComesBack

(* An object is there until it is deleted, from the first of Init on; what   *)
(* is there later was made again.                                            *)
ThereInTime ==
  \A o \in Objects :
    /\ axState[o] = "dying" => axAt \in 19..39 /\ Deleted[axAt - 18] = o
    /\ axState[o] = "none" => axAt < 8
    /\ axAt <= Leaves[o] => axState[o] # "gone"
    /\ axAt > Leaves[o] => axState[o] = "gone" \/ o \in axAgain

(* A thread runs no longer than its owner is there, and is in nothing that   *)
(* was never made.                                                           *)
RunsInTime ==
  \A t \in AppThreads :
    /\ t \in axRunning => /\ axState[Owner[t]] \in {"live", "dying"} /\ axAt <= Leaves[Owner[t]]
                          /\ axAt < 8 => t \in {"modbus", "alarm"}
    /\ axInside[t] # "nothing" =>
         t \in axRunning /\ axInside[t] \in Uses(t) /\ axState[axInside[t]] # "none"

MadeInTime == \A k \in 1..6 : axAt > k => axState[Built[k]] # "none"

AxInv == AxType /\ ThereInTime /\ RunsInTime /\ MadeInTime

LEMMA StepAt ==
  ASSUME axAt \in 1..40
  PROVE  /\ Doing("new") => axAt \in 1..6 /\ Which = Built[axAt]
         /\ Doing("init") => axAt \in 7..17 /\ Which = Started[axAt - 6]
         /\ Doing("run") => axAt = 18
         /\ Doing("delete") => axAt \in 19..39 /\ Which = Deleted[axAt - 18]
<1>1. Len(Life) = 39
  BY LifeSteps
<1>2. axAt <= 39 => \/ axAt \in 1..6 /\ Life[axAt] = <<"new", Built[axAt]>>
                    \/ axAt \in 7..17 /\ Life[axAt] = <<"init", Started[axAt - 6]>>
                    \/ axAt = 18 /\ Life[axAt] = <<"run", "the main loop">>
                    \/ axAt \in 19..39 /\ Life[axAt] = <<"delete", Deleted[axAt - 18]>>
  <2>1. axAt <= 39 => axAt \in 1..6 \/ axAt \in 7..17 \/ axAt = 18 \/ axAt \in 19..39
    OBVIOUS
  <2> QED
    BY <2>1, LifeSteps
<1>3. \A x, y : <<x, y>>[1] = x /\ <<x, y>>[2] = y
  OBVIOUS
<1>4. axAt <= 39 => \/ axAt \in 1..6 /\ Life[axAt][1] = "new" /\ Which = Built[axAt]
                    \/ axAt \in 7..17 /\ Life[axAt][1] = "init" /\ Which = Started[axAt - 6]
                    \/ axAt = 18 /\ Life[axAt][1] = "run"
                    \/ axAt \in 19..39 /\ Life[axAt][1] = "delete" /\ Which = Deleted[axAt - 18]
  <2>1. \A x, y : Life[axAt] = <<x, y>> => Life[axAt][1] = x /\ Which = y
    <3> SUFFICES ASSUME NEW x, NEW y, Life[axAt] = <<x, y>> PROVE Life[axAt][1] = x /\ Which = y
      BY Zenon
    <3>1. <<x, y>>[1] = x /\ <<x, y>>[2] = y
      OBVIOUS
    <3> QED
      BY <3>1, Zenon DEF Which
  <2> QED
    BY <1>2, <2>1, Zenon
<1>5. \A what : Doing(what) => axAt <= 39 /\ Life[axAt][1] = what
  BY <1>1, Zenon DEF Doing
<1> DEFINE what == Life[axAt][1]
<1> HIDE DEF what
<1>6. axAt <= 39 => \/ axAt \in 1..6 /\ what = "new" /\ Which = Built[axAt]
                    \/ axAt \in 7..17 /\ what = "init" /\ Which = Started[axAt - 6]
                    \/ axAt = 18 /\ what = "run"
                    \/ axAt \in 19..39 /\ what = "delete" /\ Which = Deleted[axAt - 18]
  BY <1>4, Zenon DEF what
<1>7. \A x : Doing(x) => axAt <= 39 /\ what = x
  BY <1>5, Zenon DEF what
<1> QED
  BY <1>6, <1>7

LEMMA AxInit == AppInit => AxInv
<1> SUFFICES ASSUME AppInit PROVE AxInv
  OBVIOUS
<1> USE DEF AppInit
<1>1. axAt = 1 /\ 1 \in 1..40
  OBVIOUS
<1>2. \A o \in Objects : axState[o] = "none" /\ Leaves[o] \in 19..39
  BY LeavesNames
<1>3. AxType
  BY <1>1 DEF AxType
<1>4. ThereInTime
  BY <1>1, <1>2 DEF ThereInTime
<1>5. RunsInTime
  BY DEF RunsInTime
<1>6. MadeInTime
  BY <1>1 DEF MadeInTime
<1> QED
  BY <1>3, <1>4, <1>5, <1>6 DEF AxInv

(* The objects that Init starts, and the threads it starts with them.        *)
LEMMA StartedThreads ==
  /\ Handlers = {Built[k] : k \in 1..6}
  /\ \A k \in 7..17 : Started[k - 6] \in Objects
  /\ "DatabaseLogic" \in Singletons /\ "DirectoryBackup" \in Singletons
  /\ "modbus_handler" \in Objects /\ "alarm_entry" \in Objects
  /\ Owner["graph"] = "DatabaseLogic" /\ Owner["backup"] = "DirectoryBackup"
  /\ "graph" \in AppThreads /\ "backup" \in AppThreads
  /\ \A t \in AppThreads : Owner[t] \in {"modbus_handler", "alarm_entry"} => t \in {"modbus", "alarm"}
<1>1. Handlers = {Built[k] : k \in 1..6}
  <2>1. \A k \in 1..6 : k = 1 \/ k = 2 \/ k = 3 \/ k = 4 \/ k = 5 \/ k = 6
    OBVIOUS
  <2> QED
    BY <2>1, MadeNames DEF Handlers
<1>2. \A k \in 7..17 : Started[k - 6] \in Objects
  <2> TAKE k \in 7..17
  <2>1. k - 6 \in 1..11
    OBVIOUS
  <2>2. Started \in Seq(Objects) /\ Len(Started) = 11
    BY StartedNames
  <2>3. \A j \in 1..11 : Started[j] \in Objects
    BY <2>2, ElementOfSeq
  <2> QED
    BY <2>1, <2>3
<1>3. \A t \in AppThreads : Owner[t] \in {"modbus_handler", "alarm_entry"} => t \in {"modbus", "alarm"}
  BY DEF AppThreads, Owner
<1> QED
  BY <1>1, <1>2, <1>3 DEF Objects, Handlers, Singletons, Owner, AppThreads
LEMMA AxBefore ==
  ASSUME AxInv, NEW o \in Objects
  PROVE  /\ axAt >= 8 /\ axAt <= Leaves[o] => axState[o] \in {"live", "dying"}
         /\ axAt < 19 => axState[o] \in {"none", "live"}
         /\ axAt \in 1..40 /\ Leaves[o] \in 19..39
<1>1. axAt \in 1..40 /\ axState[o] \in {"none", "live", "dying", "gone"} /\ Leaves[o] \in 19..39
  BY LeavesNames DEF AxInv, AxType
<1>2. /\ axState[o] = "dying" => axAt \in 19..39
      /\ axState[o] = "none" => axAt < 8
      /\ axAt <= Leaves[o] => axState[o] # "gone"
  BY DEF AxInv, ThereInTime
<1> QED
  BY <1>1, <1>2

(* Init: an object is made, or those that are still missing.                 *)
LEMMA ConstructKeeps == ASSUME AxInv, Construct PROVE AxInv'
<1>1. axAt \in 1..6 /\ Which = Built[axAt] /\ axAt' = axAt + 1
  BY StepAt DEF AxInv, AxType, Construct
<1>2. PICK o \in Handlers : o = Which
  BY <1>1, StartedThreads
<1>3. o \in Objects /\ axState' = [axState EXCEPT ![o] = "live"]
  BY <1>2 DEF Construct, Objects
<1>4. axRunning' = axRunning \cup (IF o \in {"modbus_handler", "alarm_entry"} THEN ThreadsOf(o) ELSE {})
  BY <1>2, Zenon DEF Construct
<1>5. axInside' = axInside /\ axAgain' = axAgain
  BY DEF Construct
<1>6. axAt' \in 2..7 /\ axAt \in 1..6
  BY <1>1
<1>7. axState \in [Objects -> {"none", "live", "dying", "gone"}]
  BY DEF AxInv, AxType
<1>8. \A x \in Objects : axState'[x] = IF x = o THEN "live" ELSE axState[x]
  BY <1>3, <1>7
<1>9. \A x \in Objects : axState[x] \in {"none", "live"} /\ axState'[x] \in {"none", "live"} /\ Leaves[x] \in 19..39
  BY <1>6, <1>8, AxBefore
<1>10. AxType'
  <2>1. axRunning' \subseteq AppThreads
    BY <1>4 DEF AxInv, AxType, ThreadsOf
  <2>2. axState' \in [Objects -> {"none", "live", "dying", "gone"}]
    BY <1>3, <1>7
  <2>3. axAt' \in 1..40
    BY <1>6
  <2> QED
    BY <1>5, <2>1, <2>2, <2>3 DEF AxInv, AxType
<1>11. ThereInTime'
  BY <1>6, <1>9 DEF ThereInTime
<1>12. RunsInTime'
  <2> SUFFICES ASSUME NEW t \in AppThreads
               PROVE  /\ t \in axRunning' => /\ axState'[Owner[t]] \in {"live", "dying"} /\ axAt' <= Leaves[Owner[t]]
                                             /\ axAt' < 8 => t \in {"modbus", "alarm"}
                      /\ axInside'[t] # "nothing" =>
                           t \in axRunning' /\ axInside'[t] \in Uses(t) /\ axState'[axInside'[t]] # "none"
    BY Zenon DEF RunsInTime
  <2>1. Owner[t] \in Objects /\ Uses(t) \subseteq Objects
    BY ThreadsUse
  <2>2. /\ t \in axRunning => axState[Owner[t]] \in {"live", "dying"} /\ t \in {"modbus", "alarm"}
        /\ axInside[t] # "nothing" =>
             t \in axRunning /\ axInside[t] \in Uses(t) /\ axState[axInside[t]] # "none"
    BY <1>6 DEF AxInv, RunsInTime
  <2>3. t \in axRunning' => t \in axRunning \/ (o \in {"modbus_handler", "alarm_entry"} /\ Owner[t] = o)
    BY <1>4 DEF ThreadsOf
  <2>4. t \in axRunning' => axState'[Owner[t]] \in {"live", "dying"} /\ t \in {"modbus", "alarm"}
    BY <1>8, <2>1, <2>2, <2>3, StartedThreads
  <2>5. t \in axRunning' => axAt' <= Leaves[Owner[t]]
    BY <1>6, <1>9, <2>1
  <2>6. axInside[t] # "nothing" => t \in axRunning' /\ axState'[axInside[t]] # "none"
    BY <1>4, <1>8, <2>1, <2>2
  <2> QED
    BY <1>5, <2>2, <2>4, <2>5, <2>6
<1>13. MadeInTime'
  <2> SUFFICES ASSUME NEW k \in 1..6, axAt' > k PROVE axState'[Built[k]] # "none"
    BY DEF MadeInTime
  <2>1. Built[k] \in Objects
    BY StartedThreads DEF Objects
  <2>2. k = axAt \/ axAt > k
    BY <1>1, <1>6
  <2>3. CASE k = axAt
    BY <1>1, <1>2, <1>8, <2>1, <2>3
  <2>4. CASE axAt > k
    <3>1. axState[Built[k]] # "none"
      BY <2>4 DEF AxInv, MadeInTime
    <3> QED
      BY <1>8, <2>1, <3>1
  <2> QED
    BY <2>2, <2>3, <2>4
<1> QED
  BY <1>10, <1>11, <1>12, <1>13 DEF AxInv

LEMMA InitialiseKeeps == ASSUME AxInv, Initialise PROVE AxInv'
<1>1. axAt \in 7..17 /\ Which = Started[axAt - 6] /\ axAt' = axAt + 1
  BY StepAt DEF AxInv, AxType, Initialise
<1>2. PICK w \in Objects : w = Which
  BY <1>1, StartedThreads
<1>3. axState' = [o \in Objects |-> IF o \in Singletons /\ axState[o] = "none" THEN "live" ELSE axState[o]]
  BY DEF Initialise
<1>4. axRunning' = axRunning \cup (IF w = "DirectoryBackup" THEN {} ELSE ThreadsOf(w))
                             \cup (IF w = "Server" THEN {"graph"} ELSE {})
  BY <1>2, Zenon DEF Initialise
<1>5. axInside' = axInside /\ axAgain' = axAgain
  BY DEF Initialise
<1>6. axAt' \in 8..18 /\ axAt \in 7..17
  BY <1>1
<1>7. \A x \in Objects : axState[x] \in {"none", "live"} /\ Leaves[x] \in 19..39
  BY <1>6, AxBefore
<1>8. \A x \in Objects : axState'[x] = "live"
  <2> TAKE x \in Objects
  <2>1. axState'[x] = IF x \in Singletons /\ axState[x] = "none" THEN "live" ELSE axState[x]
    BY <1>3
  <2>2. CASE x \in Singletons
    BY <1>7, <2>1, <2>2
  <2>3. CASE x \in Handlers
    <3>1. PICK k \in 1..6 : x = Built[k]
      BY <2>3, StartedThreads
    <3>2. axAt > k
      BY <1>6
    <3>3. axState[x] # "none"
      BY <3>1, <3>2 DEF AxInv, MadeInTime
    <3> QED
      BY <1>7, <2>1, <3>3
  <2> QED
    BY <2>2, <2>3 DEF Objects
<1>9. AxType'
  <2>1. axRunning' \subseteq AppThreads
    BY <1>4, StartedThreads DEF AxInv, AxType, ThreadsOf
  <2>2. axState' \in [Objects -> {"none", "live", "dying", "gone"}]
    BY <1>3, <1>8
  <2>3. axAt' \in 1..40
    BY <1>6
  <2> QED
    BY <1>5, <2>1, <2>2, <2>3 DEF AxInv, AxType
<1>10. ThereInTime'
  BY <1>6, <1>7, <1>8 DEF ThereInTime
<1>11. RunsInTime'
  <2> SUFFICES ASSUME NEW t \in AppThreads
               PROVE  /\ t \in axRunning' => /\ axState'[Owner[t]] \in {"live", "dying"} /\ axAt' <= Leaves[Owner[t]]
                                             /\ axAt' < 8 => t \in {"modbus", "alarm"}
                      /\ axInside'[t] # "nothing" =>
                           t \in axRunning' /\ axInside'[t] \in Uses(t) /\ axState'[axInside'[t]] # "none"
    BY Zenon DEF RunsInTime
  <2>1. Owner[t] \in Objects /\ Uses(t) \subseteq Objects
    BY ThreadsUse
  <2>2. axInside[t] # "nothing" => t \in axRunning /\ axInside[t] \in Uses(t)
    BY DEF AxInv, RunsInTime
  <2>3. axRunning \subseteq axRunning'
    BY <1>4
  <2> QED
    BY <1>5, <1>6, <1>7, <1>8, <2>1, <2>2, <2>3
<1>12. MadeInTime'
  BY <1>8, StartedThreads DEF MadeInTime, Objects
<1> QED
  BY <1>9, <1>10, <1>11, <1>12 DEF AxInv

LEMMA RunKeeps == ASSUME AxInv, Run PROVE AxInv'
<1>1. axAt = 18 /\ axAt' = 19
  <2>1. axAt = 18
    BY StepAt DEF AxInv, AxType, Run
  <2> QED
    BY <2>1 DEF Run
<1>2. axState' = axState /\ axInside' = axInside /\ axAgain' = axAgain /\ axRunning' \in {axRunning, axRunning \cup {"backup"}}
  BY DEF Run
<1>3. \A x \in Objects : axState[x] \in {"none", "live"} /\ axState[x] = "live" /\ Leaves[x] \in 19..39
  BY <1>1, AxBefore
<1>4. AxType'
  BY <1>1, <1>2, StartedThreads DEF AxInv, AxType
<1>5. ThereInTime'
  BY <1>1, <1>2, <1>3 DEF ThereInTime
<1>6. RunsInTime'
  <2> SUFFICES ASSUME NEW t \in AppThreads
               PROVE  /\ t \in axRunning' => /\ axState'[Owner[t]] \in {"live", "dying"} /\ axAt' <= Leaves[Owner[t]]
                                             /\ axAt' < 8 => t \in {"modbus", "alarm"}
                      /\ axInside'[t] # "nothing" =>
                           t \in axRunning' /\ axInside'[t] \in Uses(t) /\ axState'[axInside'[t]] # "none"
    BY Zenon DEF RunsInTime
  <2>1. Owner[t] \in Objects /\ Uses(t) \subseteq Objects
    BY ThreadsUse
  <2>2. axInside[t] # "nothing" => t \in axRunning /\ axInside[t] \in Uses(t)
    BY DEF AxInv, RunsInTime
  <2>3. axRunning \subseteq axRunning'
    BY <1>2
  <2> QED
    BY <1>1, <1>2, <1>3, <2>1, <2>2, <2>3
<1>7. MadeInTime'
  BY <1>2, <1>3, StartedThreads DEF MadeInTime, Objects
<1> QED
  BY <1>4, <1>5, <1>6, <1>7 DEF AxInv

(* OnExit: an object begins to be destroyed, is gone, or was before.         *)
LEMMA DeleteAt ==
  ASSUME AxInv, Doing("delete")
  PROVE  /\ axAt \in 19..39 /\ Which = Deleted[axAt - 18] /\ Which \in Objects
         /\ Leaves[Which] <= axAt
         /\ \A o \in Objects : Leaves[o] = axAt => o = Which
         /\ \A o \in Objects : axState[o] # "none" /\ (axState[o] = "dying" => o = Which)
<1>1. axAt \in 19..39 /\ Which = Deleted[axAt - 18]
  BY StepAt DEF AxInv, AxType
<1>2. Which \in Objects /\ Leaves[Which] <= axAt
  BY <1>1, LeavesInTurn
<1>3. \A o \in Objects : Leaves[o] = axAt => o = Which
  BY <1>1, LeavesInTurn
<1>4. ASSUME NEW o \in Objects PROVE axState[o] # "none" /\ (axState[o] = "dying" => o = Which)
  BY <1>1 DEF AxInv, ThereInTime
<1> QED
  BY <1>1, <1>2, <1>3, <1>4

LEMMA BeginKeeps == ASSUME AxInv, BeginDelete PROVE AxInv'
<1>1. /\ axAt \in 19..39 /\ Which = Deleted[axAt - 18] /\ Which \in Objects
      /\ \A o \in Objects : axState[o] # "none" /\ (axState[o] = "dying" => o = Which)
  BY DeleteAt DEF BeginDelete
<1>2. PICK w \in Objects : w = Which
  BY <1>1
<1>3. axState[w] = "live" /\ axState' = [axState EXCEPT ![w] = "dying"]
      /\ UNCHANGED <<axAt, axRunning, axInside, axAgain>>
  BY <1>2, Zenon DEF BeginDelete
<1>4. \A x \in Objects : axState'[x] = IF x = w THEN "dying" ELSE axState[x]
  BY <1>3 DEF AxInv, AxType
<1>5. AxType'
  BY <1>3 DEF AxInv, AxType
<1>6. ThereInTime'
  <2> SUFFICES ASSUME NEW o \in Objects
               PROVE  /\ axState'[o] = "dying" => axAt \in 19..39 /\ Deleted[axAt - 18] = o
                      /\ axState'[o] # "none"
                      /\ axAt <= Leaves[o] => axState'[o] # "gone"
                      /\ axAt > Leaves[o] => axState'[o] = "gone" \/ o \in axAgain
    BY <1>3, Zenon DEF ThereInTime
  <2>1. /\ axState[o] # "none" /\ (axAt <= Leaves[o] => axState[o] # "gone")
        /\ axAt > Leaves[o] => axState[o] = "gone" \/ o \in axAgain
        /\ axState[o] = "dying" => o = w
    BY <1>1, <1>2 DEF AxInv, ThereInTime
  <2> QED
    BY <1>1, <1>2, <1>3, <1>4, <2>1
<1>7. RunsInTime'
  <2> SUFFICES ASSUME NEW t \in AppThreads
               PROVE  /\ t \in axRunning => /\ axState'[Owner[t]] \in {"live", "dying"} /\ axAt <= Leaves[Owner[t]]
                                            /\ axAt < 8 => t \in {"modbus", "alarm"}
                      /\ axInside[t] # "nothing" =>
                           t \in axRunning /\ axInside[t] \in Uses(t) /\ axState'[axInside[t]] # "none"
    BY <1>3, Zenon DEF RunsInTime
  <2>1. Owner[t] \in Objects /\ Uses(t) \subseteq Objects
    BY ThreadsUse
  <2>2. /\ t \in axRunning => /\ axState[Owner[t]] \in {"live", "dying"} /\ axAt <= Leaves[Owner[t]]
                              /\ axAt < 8 => t \in {"modbus", "alarm"}
        /\ axInside[t] # "nothing" =>
             t \in axRunning /\ axInside[t] \in Uses(t) /\ axState[axInside[t]] # "none"
    BY Zenon DEF AxInv, RunsInTime
  <2> QED
    BY <1>4, <2>1, <2>2
<1>8. MadeInTime'
  BY <1>3, <1>4, StartedThreads DEF AxInv, MadeInTime, Objects
<1> QED
  BY <1>5, <1>6, <1>7, <1>8 DEF AxInv

LEMMA EndKeeps == ASSUME AxInv, EndDelete PROVE AxInv'
<1>1. /\ axAt \in 19..39 /\ Which = Deleted[axAt - 18] /\ Which \in Objects /\ Leaves[Which] <= axAt
      /\ \A o \in Objects : Leaves[o] = axAt => o = Which
      /\ \A o \in Objects : axState[o] # "none" /\ (axState[o] = "dying" => o = Which)
  BY DeleteAt DEF EndDelete
<1>2. PICK w \in Objects : w = Which
  BY <1>1
<1>3. /\ axState[w] = "dying" /\ axState' = [axState EXCEPT ![w] = "gone"] /\ axAt' = axAt + 1
      /\ \A t \in ThreadsOf(w) : axInside[t] = "nothing"
      /\ axRunning' = axRunning \ ThreadsOf(w) /\ axInside' = axInside /\ axAgain' = axAgain
  BY <1>2, Zenon DEF EndDelete
<1>4. \A x \in Objects : axState'[x] = IF x = w THEN "gone" ELSE axState[x]
  BY <1>3 DEF AxInv, AxType
<1>5. AxType'
  BY <1>1, <1>3 DEF AxInv, AxType
<1>6. ThereInTime'
  <2> SUFFICES ASSUME NEW o \in Objects
               PROVE  /\ axState'[o] # "dying" /\ axState'[o] # "none"
                      /\ axAt + 1 <= Leaves[o] => axState'[o] # "gone"
                      /\ axAt + 1 > Leaves[o] => axState'[o] = "gone" \/ o \in axAgain
    BY <1>3, Zenon DEF ThereInTime
  <2>1. /\ axState[o] # "none" /\ (axAt <= Leaves[o] => axState[o] # "gone")
        /\ axAt > Leaves[o] => axState[o] = "gone" \/ o \in axAgain
        /\ axState[o] = "dying" => o = w
    BY <1>1, <1>2 DEF AxInv, ThereInTime
  <2>2. Leaves[o] \in 19..39 /\ (Leaves[o] = axAt => o = w) /\ Leaves[w] <= axAt
    BY <1>1, <1>2, LeavesNames
  <2> QED
    BY <1>1, <1>4, <2>1, <2>2
<1>7. RunsInTime'
  <2> SUFFICES ASSUME NEW t \in AppThreads
               PROVE  /\ t \in axRunning' => axState'[Owner[t]] \in {"live", "dying"} /\ axAt + 1 <= Leaves[Owner[t]]
                      /\ axInside[t] # "nothing" =>
                           t \in axRunning' /\ axInside[t] \in Uses(t) /\ axState'[axInside[t]] # "none"
    <3>1. ~(axAt + 1 < 8)
      BY <1>1
    <3> QED
      BY <1>3, <3>1, Zenon DEF RunsInTime
  <2>1. Owner[t] \in Objects /\ Uses(t) \subseteq Objects
    BY ThreadsUse
  <2>2. /\ t \in axRunning => axState[Owner[t]] \in {"live", "dying"} /\ axAt <= Leaves[Owner[t]]
        /\ axInside[t] # "nothing" =>
             t \in axRunning /\ axInside[t] \in Uses(t) /\ axState[axInside[t]] # "none"
    BY Zenon DEF AxInv, RunsInTime
  <2>3. t \in ThreadsOf(w) <=> Owner[t] = w
    BY DEF ThreadsOf
  <2>4. Leaves[Owner[t]] \in 19..39 /\ (Leaves[Owner[t]] = axAt => Owner[t] = w)
    BY <1>1, <1>2, <2>1, LeavesNames
  <2>5. t \in axRunning' <=> t \in axRunning /\ Owner[t] # w
    BY <1>3, <2>3
  <2>6. axInside[t] # "nothing" => Owner[t] # w
    BY <1>3, <2>3
  <2> QED
    BY <1>1, <1>4, <2>1, <2>2, <2>4, <2>5, <2>6
<1>8. MadeInTime'
  <2>1. \A x \in Objects : axState'[x] # "none"
    BY <1>1, <1>4
  <2> QED
    BY <2>1, StartedThreads DEF MadeInTime, Objects
<1> QED
  BY <1>5, <1>6, <1>7, <1>8 DEF AxInv

LEMMA NothingKeeps == ASSUME AxInv, NothingToDelete PROVE AxInv'
<1>1. /\ axAt \in 19..39 /\ Which = Deleted[axAt - 18] /\ Which \in Objects /\ Leaves[Which] <= axAt
      /\ \A o \in Objects : Leaves[o] = axAt => o = Which
      /\ \A o \in Objects : axState[o] # "none" /\ (axState[o] = "dying" => o = Which)
  BY DeleteAt DEF NothingToDelete
<1>2. PICK w \in Objects : w = Which
  BY <1>1
<1>3. /\ axState[w] \in {"none", "gone"} /\ axAt' = axAt + 1
      /\ axState' = axState /\ axRunning' = axRunning /\ axInside' = axInside /\ axAgain' = axAgain
  BY <1>2, Zenon DEF NothingToDelete
<1>4. axState[w] = "gone" /\ \A o \in Objects : axState[o] # "dying"
  BY <1>1, <1>2, <1>3
<1>5. AxType'
  BY <1>1, <1>3 DEF AxInv, AxType
<1>6. ThereInTime'
  <2> SUFFICES ASSUME NEW o \in Objects
               PROVE  /\ axState[o] # "dying" /\ axState[o] # "none"
                      /\ axAt + 1 <= Leaves[o] => axState[o] # "gone"
                      /\ axAt + 1 > Leaves[o] => axState[o] = "gone" \/ o \in axAgain
    BY <1>3, Zenon DEF ThereInTime
  <2>1. /\ axState[o] # "none" /\ (axAt <= Leaves[o] => axState[o] # "gone")
        /\ axAt > Leaves[o] => axState[o] = "gone" \/ o \in axAgain
    BY <1>1, <1>2 DEF AxInv, ThereInTime
  <2>2. Leaves[o] \in 19..39 /\ (Leaves[o] = axAt => o = w) /\ Leaves[w] <= axAt
    BY <1>1, <1>2, LeavesNames
  <2> QED
    BY <1>1, <1>4, <2>1, <2>2
<1>7. RunsInTime'
  <2> SUFFICES ASSUME NEW t \in AppThreads
               PROVE  /\ t \in axRunning => axState[Owner[t]] \in {"live", "dying"} /\ axAt + 1 <= Leaves[Owner[t]]
                      /\ axInside[t] # "nothing" =>
                           t \in axRunning /\ axInside[t] \in Uses(t) /\ axState[axInside[t]] # "none"
    <3>1. ~(axAt + 1 < 8)
      BY <1>1
    <3> QED
      BY <1>3, <3>1, Zenon DEF RunsInTime
  <2>1. Owner[t] \in Objects
    BY ThreadsUse
  <2>2. /\ t \in axRunning => axState[Owner[t]] \in {"live", "dying"} /\ axAt <= Leaves[Owner[t]]
        /\ axInside[t] # "nothing" =>
             t \in axRunning /\ axInside[t] \in Uses(t) /\ axState[axInside[t]] # "none"
    BY Zenon DEF AxInv, RunsInTime
  <2>4. Leaves[Owner[t]] \in 19..39 /\ (Leaves[Owner[t]] = axAt => Owner[t] = w)
    BY <1>1, <1>2, <2>1, LeavesNames
  <2> QED
    BY <1>1, <1>4, <2>1, <2>2, <2>4
<1>8. MadeInTime'
  BY <1>1, <1>3, StartedThreads DEF MadeInTime, Objects
<1> QED
  BY <1>5, <1>6, <1>7, <1>8 DEF AxInv

-----------------------------------------------------------------------------
(* A use: what is asked for by Get and is not there is made, and only the    *)
(* seven are asked for when they are gone.                                   *)
LEMMA UseKeeps == ASSUME AxInv, NEW t \in AppThreads, NEW o \in Objects, Use(t, o) PROVE AxInv'
<1>1. /\ t \in axRunning /\ o \in Uses(t) /\ (t = "alarm" /\ o # "Logger" => axAt > 17)
      /\ <<t, o>> \in Checked => axState[o] = "live"
      /\ axInside' = [axInside EXCEPT ![t] = o] /\ axAt' = axAt /\ axRunning' = axRunning
  BY LifeSteps DEF Use, Armed
<1> DEFINE again == IF axState[o] = "gone" THEN axAgain \cup {o} ELSE axAgain
           makes == o \in Singletons /\ axState[o] \in {"none", "gone"}
<1>2. IF makes THEN axState' = [axState EXCEPT ![o] = "live"] /\ axAgain' = again
      ELSE axState' = axState /\ axAgain' = axAgain
  BY DEF Use
<1>3. /\ axState \in [Objects -> {"none", "live", "dying", "gone"}] /\ axAt \in 1..40 /\ axAgain \subseteq ComesBack
      /\ axInside \in [AppThreads -> Objects \cup {"nothing"}]
  BY DEF AxInv, AxType
<1>4. Owner[t] \in Objects /\ Leaves[Owner[t]] \in 19..39 /\ Leaves[o] \in 19..39
  BY ThreadsUse, LeavesNames
<1>5. axAt <= Leaves[Owner[t]] /\ (axAt < 8 => t \in {"modbus", "alarm"})
  BY <1>1 DEF AxInv, RunsInTime
<1>6. axState[o] = "gone" => axAt > Leaves[o]
  BY <1>3, <1>4 DEF AxInv, ThereInTime
<1>7. o \in Singletons /\ axState[o] = "gone" => o \in ComesBack
  BY <1>1, <1>3, <1>4, <1>5, <1>6, ThreadsUse
<1>8. ~makes => axState[o] # "none"
  <2> SUFFICES ASSUME o \notin Singletons, axState[o] = "none" PROVE FALSE
    OBVIOUS
  <2>1. axAt < 8
    BY DEF AxInv, ThereInTime
  <2>2. t \in {"modbus", "alarm"} /\ o # "Logger"
    BY <1>5, <2>1 DEF Singletons
  <2>3. t # "alarm"
    BY <1>1, <1>3, <2>1, <2>2
  <2>4. o = "modbus_handler"
    BY <1>1, <2>2, <2>3 DEF Uses
  <2> QED
    BY <1>1, <2>2, <2>3, <2>4 DEF Checked
<1>9. \A x \in Objects : /\ axState'[x] = (IF makes /\ x = o THEN "live" ELSE axState[x])
                         /\ x \in axAgain' <=> x \in axAgain \/ (makes /\ x = o /\ axState[o] = "gone")
  <2>1. CASE makes
    BY <1>2, <1>3, <2>1
  <2>2. CASE ~makes
    BY <1>2, <2>2
  <2> QED
    BY <2>1, <2>2
<1>10. axState'[o] # "none"
  BY <1>8, <1>9
<1>11. AxType'
  <2>1. axAgain' \subseteq ComesBack
    BY <1>2, <1>3, <1>7
  <2>2. axState' \in [Objects -> {"none", "live", "dying", "gone"}]
    BY <1>2, <1>3
  <2>3. axInside' \in [AppThreads -> Objects \cup {"nothing"}]
    BY <1>1, <1>3
  <2> QED
    BY <1>1, <2>1, <2>2, <2>3 DEF AxInv, AxType
<1> HIDE DEF makes, again
<1>12. ThereInTime'
  <2> SUFFICES ASSUME NEW x \in Objects
               PROVE  /\ axState'[x] = "dying" => axAt \in 19..39 /\ Deleted[axAt - 18] = x
                      /\ axState'[x] = "none" => axAt < 8
                      /\ axAt <= Leaves[x] => axState'[x] # "gone"
                      /\ axAt > Leaves[x] => axState'[x] = "gone" \/ x \in axAgain'
    BY <1>1, Zenon DEF ThereInTime
  <2>1. /\ axState[x] = "dying" => axAt \in 19..39 /\ Deleted[axAt - 18] = x
        /\ axState[x] = "none" => axAt < 8
        /\ axAt <= Leaves[x] => axState[x] # "gone"
        /\ axAt > Leaves[x] => axState[x] = "gone" \/ x \in axAgain
    BY Zenon DEF AxInv, ThereInTime
  <2>2. CASE makes /\ x = o
    <3>1. axState'[x] = "live" /\ (axState[x] = "gone" => x \in axAgain') /\ (x \in axAgain => x \in axAgain')
      BY <1>9, <2>2, Zenon
    <3> QED
      BY <2>1, <3>1
  <2>3. CASE ~(makes /\ x = o)
    <3>1. axState'[x] = axState[x] /\ (x \in axAgain => x \in axAgain')
      BY <1>9, <2>3, Zenon
    <3> QED
      BY <2>1, <3>1
  <2> QED
    BY <2>2, <2>3
<1>13. RunsInTime'
  <2> SUFFICES ASSUME NEW u \in AppThreads
               PROVE  /\ u \in axRunning => /\ axState'[Owner[u]] \in {"live", "dying"} /\ axAt <= Leaves[Owner[u]]
                                            /\ axAt < 8 => u \in {"modbus", "alarm"}
                      /\ axInside'[u] # "nothing" =>
                           u \in axRunning /\ axInside'[u] \in Uses(u) /\ axState'[axInside'[u]] # "none"
    BY <1>1, Zenon DEF RunsInTime
  <2>1. Owner[u] \in Objects /\ Uses(u) \subseteq Objects
    BY ThreadsUse
  <2>2. /\ u \in axRunning => /\ axState[Owner[u]] \in {"live", "dying"} /\ axAt <= Leaves[Owner[u]]
                              /\ axAt < 8 => u \in {"modbus", "alarm"}
        /\ axInside[u] # "nothing" =>
             u \in axRunning /\ axInside[u] \in Uses(u) /\ axState[axInside[u]] # "none"
    BY Zenon DEF AxInv, RunsInTime
  <2>3. u \in axRunning => axState'[Owner[u]] \in {"live", "dying"}
    BY <1>9, <2>1, <2>2
  <2>4. \A x \in Objects : axState[x] # "none" => axState'[x] # "none"
    BY <1>9
  <2>5. axInside'[u] = IF u = t THEN o ELSE axInside[u]
    BY <1>1, <1>3
  <2>6. CASE u = t
    BY <1>1, <1>10, <2>2, <2>3, <2>5, <2>6
  <2>7. CASE u # t
    BY <2>1, <2>2, <2>3, <2>4, <2>5, <2>7
  <2> QED
    BY <2>6, <2>7
<1>14. MadeInTime'
  <2>1. \A x \in Objects : axState[x] # "none" => axState'[x] # "none"
    BY <1>9
  <2> QED
    BY <1>1, <2>1, StartedThreads DEF AxInv, MadeInTime, Objects
<1> QED
  BY <1>11, <1>12, <1>13, <1>14 DEF AxInv

LEMMA LeaveKeeps == ASSUME AxInv, NEW t \in AppThreads, LeaveObject(t) PROVE AxInv'
<1>1. /\ axInside' = [axInside EXCEPT ![t] = "nothing"]
      /\ UNCHANGED <<axAt, axState, axRunning, axAgain>>
  BY DEF LeaveObject
<1>2. axInside \in [AppThreads -> Objects \cup {"nothing"}]
  BY DEF AxInv, AxType
<1>3. \A u \in AppThreads : axInside'[u] = IF u = t THEN "nothing" ELSE axInside[u]
  BY <1>1, <1>2
<1>4. AxType'
  BY <1>1, <1>2 DEF AxInv, AxType
<1>5. ThereInTime' /\ MadeInTime'
  BY <1>1 DEF AxInv, ThereInTime, MadeInTime
<1>6. RunsInTime'
  BY <1>1, <1>3 DEF AxInv, RunsInTime
<1> QED
  BY <1>4, <1>5, <1>6 DEF AxInv

LEMMA AxKeeps == AxInv /\ [AppNext]_axVars => AxInv'
<1> SUFFICES ASSUME AxInv, [AppNext]_axVars PROVE AxInv'
  OBVIOUS
<1>1. CASE UNCHANGED axVars
  BY <1>1 DEF axVars, AxInv, AxType, ThereInTime, RunsInTime, MadeInTime
<1>2. CASE AppNext
  BY <1>2, ConstructKeeps, InitialiseKeeps, RunKeeps, BeginKeeps, EndKeeps, NothingKeeps, UseKeeps, LeaveKeeps
     DEF AppNext
<1> QED
  BY <1>1, <1>2

LEMMA AxMeans == AxInv => AppExitSafe
<1> SUFFICES ASSUME AxInv PROVE AppExitSafe
  OBVIOUS
<1>1. ASSUME NEW t \in AppThreads, Harmed(t) PROVE <<t, axInside[t]>> \in TooLate
  <2> DEFINE o == axInside[t]
  <2>1. o # "nothing" /\ axState[o] # "live" /\ ~(Owner[t] = o /\ o \in JoinsFirst)
    BY <1>1 DEF Harmed
  <2>2. t \in axRunning /\ o \in Uses(t) /\ axState[o] # "none" /\ axAt <= Leaves[Owner[t]]
    BY <2>1 DEF AxInv, RunsInTime
  <2>3. o \in Objects /\ Owner[t] \in Objects
    BY <2>2, ThreadsUse
  <2> HIDE DEF o
  <2>4. axState[o] \in {"dying", "gone"} /\ axAt \in 1..40 /\ Leaves[o] \in 19..39 /\ Leaves[Owner[t]] \in 19..39
    BY <2>1, <2>2, <2>3, LeavesNames DEF AxInv, AxType
  <2>5. Leaves[o] <= axAt
    <3>1. CASE axState[o] = "dying"
      <4>1. axAt \in 19..39 /\ Deleted[axAt - 18] = o
        BY <2>3, <3>1 DEF AxInv, ThereInTime
      <4> QED
        BY <4>1, LeavesInTurn
    <3>2. CASE axState[o] = "gone"
      <4>1. ~(axAt <= Leaves[o])
        BY <2>3, <3>2 DEF AxInv, ThereInTime
      <4> QED
        BY <2>4, <4>1
    <3> QED
      BY <2>4, <3>1, <3>2
  <2>6. Leaves[o] <= Leaves[Owner[t]]
    BY <2>2, <2>4, <2>5
  <2>7. <<t, o>> \in TooLate
    BY <2>1, <2>2, <2>6, ThreadsUse
  <2> QED
    BY <2>7 DEF o
<1>2. ASSUME NEW o \in Objects, axState[o] = "dying", NEW u \in DestructorUses(o) PROVE axState[u] = "live"
  <2>1. \/ o = "did_handler" /\ u = "can_entry"
        \/ o = "IdlePowerSaver" /\ u = "Logger"
    BY <1>2 DEF DestructorUses
  <2>2. axAt \in 19..39 /\ Deleted[axAt - 18] = o
    BY <1>2 DEF AxInv, ThereInTime
  <2>3. Leaves[o] = axAt
    <3>1. o # "DatabaseLogic"
      BY <2>1
    <3> QED
      BY <2>2, <3>1, LeavesInTurn
  <2>4. u \in Objects /\ axAt < Leaves[u]
    BY <2>1, <2>3, LeavesNames DEF Objects, Handlers, Singletons
  <2>5. axState[u] \in {"live", "dying"}
    BY <2>2, <2>4, AxBefore
  <2>6. axState[u] # "dying"
    <3> SUFFICES ASSUME axState[u] = "dying" PROVE FALSE
      OBVIOUS
    <3>1. Deleted[axAt - 18] = u
      BY <2>4 DEF AxInv, ThereInTime
    <3> QED
      BY <2>1, <2>2, <3>1
  <2> QED
    BY <2>5, <2>6
<1>3. axAgain \subseteq ComesBack
  BY DEF AxInv, AxType
<1>4. ASSUME axAt > Len(Life) PROVE axRunning = {} /\ \A o \in Objects : axState[o] = "live" => o \in axAgain
  <2>1. axAt > 39 /\ axAt \in 1..40
    BY <1>4, LifeSteps DEF AxInv, AxType
  <2>2. \A o \in Objects : axAt > Leaves[o] /\ ~(axAt <= Leaves[o])
    BY <2>1, LeavesNames
  <2>3. axRunning = {}
    <3>1. \A t \in AppThreads : t \notin axRunning
      BY <2>2, ThreadsUse DEF AxInv, RunsInTime
    <3> QED
      BY <3>1 DEF AxInv, AxType
  <2>4. \A o \in Objects : axState[o] = "live" => o \in axAgain
    BY <2>2 DEF AxInv, ThereInTime
  <2> QED
    BY <2>3, <2>4
<1> QED
  BY <1>1, <1>2, <1>3, <1>4 DEF AppExitSafe, UsedWhileThere, DestructorsFindTheirs, NothingElseLeft
-----------------------------------------------------------------------------
(* The sensors: until the button starts the graphs during an insertion, the  *)
(* two threads use the database in turn, and a run of the query of the latest*)
(* rows has appended those from its first one to the one before snNext.      *)

First == (IF snUpTo > GraphResolution THEN snUpTo - GraphResolution ELSE 0) + 1
Taking == snNext - First

SnType ==
  /\ snSum \in Nat /\ snCnt \in Nat /\ snFinal \in [summed : Nat, dividedBy : Nat]
  /\ snPc \in {"idle", "insert", "query", "add", "update", "crashed"}
  /\ snRows \in Nat /\ snLast \in Seq(Nat) /\ Len(snLast) <= GraphResolution
  /\ snFuture \in {"none", "running", "ready"}
  /\ snJob \in {"off", "open", "prepare", "latest", "write"}
  /\ snNext \in Nat /\ snUpTo \in Nat
  /\ snDb \in {"closed", "insert", "generate"} /\ snTwo \in BOOLEAN /\ snTorn \in BOOLEAN

CountsAll == snSum < CountModulus => snCnt = snSum

InTurn ==
  /\ snJob # "off" <=> snFuture = "running"
  /\ ~snTwo =>
       /\ snPc \in {"query", "add"} => snJob = "off"
       /\ snPc = "query" => snDb = "insert"
       /\ snJob \in {"prepare", "latest", "write"} => snDb = "generate"

HasTaken ==
  ~snTwo /\ snJob \in {"latest", "write"} =>
    /\ snNext \in First..(snUpTo + 1) /\ Taking <= Len(snLast)
    /\ \A i \in 1..Taking : snLast[Len(snLast) - Taking + i] = First + i - 1
    /\ snJob = "write" => snNext = snUpTo + 1

SnInv == SnType /\ CountsAll /\ MeanOfAll /\ InTurn /\ HandleOfOwn /\ HasTaken

(* A value is added at the end, and the oldest makes room for it. *)
IsLatest(s, x, t) ==
  /\ t \in Seq(Nat) /\ Len(t) <= GraphResolution
  /\ Len(t) = (IF Len(s) >= GraphResolution THEN Len(s) ELSE Len(s) + 1)
  /\ t[Len(t)] = x
  /\ \A i \in 1..(Len(t) - 1) : t[Len(t) - i] = s[Len(s) - i + 1]

LEMMA LatestIs ==
  ASSUME NEW s \in Seq(Nat), Len(s) <= GraphResolution, NEW x \in Nat
  PROVE  IsLatest(s, x, Latest(s, x))
<1>0. Len(s) \in Nat /\ GraphResolution \in Nat \ {0}
  BY SensorsAssumption
<1>1. CASE Len(s) >= GraphResolution
  <2> DEFINE r == Tail(s)
             t == Append(r, x)
  <2>1. s # <<>>
    BY <1>0, <1>1
  <2>2. r \in Seq(Nat) /\ Len(r) = Len(s) - 1 /\ \A i \in 1..Len(r) : r[i] = s[i + 1]
    BY <2>1, HeadTailProperties
  <2>3. Latest(s, x) = t
    BY <1>1 DEF Latest
  <2> HIDE DEF r
  <2>4. t \in Seq(Nat) /\ Len(t) = Len(r) + 1 /\ t[Len(r) + 1] = x /\ \A i \in 1..Len(r) : t[i] = r[i]
    BY <2>2
  <2> HIDE DEF t
  <2>5. Len(t) = Len(s)
    BY <1>0, <2>2, <2>4
  <2>6. ASSUME NEW i \in 1..(Len(t) - 1) PROVE t[Len(t) - i] = s[Len(s) - i + 1]
    <3>1. Len(t) - i \in 1..Len(r)
      BY <1>0, <2>2, <2>4
    <3>2. t[Len(t) - i] = r[Len(t) - i] /\ r[Len(t) - i] = s[(Len(t) - i) + 1]
      BY <2>2, <2>4, <3>1
    <3> QED
      BY <2>5, <3>2
  <2> QED
    BY <1>0, <1>1, <2>2, <2>3, <2>4, <2>5, <2>6 DEF IsLatest
<1>2. CASE ~(Len(s) >= GraphResolution)
  <2> DEFINE t == Append(s, x)
  <2>1. Latest(s, x) = t
    BY <1>2 DEF Latest
  <2>2. t \in Seq(Nat) /\ Len(t) = Len(s) + 1 /\ t[Len(s) + 1] = x /\ \A i \in 1..Len(s) : t[i] = s[i]
    OBVIOUS
  <2> HIDE DEF t
  <2>3. ASSUME NEW i \in 1..(Len(t) - 1) PROVE t[Len(t) - i] = s[Len(s) - i + 1]
    <3>1. Len(t) - i \in 1..Len(s) /\ Len(t) - i = Len(s) - i + 1
      BY <1>0, <2>2
    <3> QED
      BY <2>2, <3>1
  <2> QED
    BY <1>0, <1>2, <2>1, <2>2, <2>3 DEF IsLatest
<1> QED
  BY <1>1, <1>2

LEMMA SnInit == SensorsInit => SnInv
<1> SUFFICES ASSUME SensorsInit PROVE SnInv
  OBVIOUS
<1>1. SnType
  <2>1. snFinal \in [summed : Nat, dividedBy : Nat] /\ snSum \in Nat /\ snCnt \in Nat /\ snNext \in Nat /\ snUpTo \in Nat
    BY DEF SensorsInit
  <2>2. snLast \in Seq(Nat) /\ Len(snLast) <= GraphResolution /\ snRows \in Nat
    BY SensorsAssumption DEF SensorsInit
  <2> QED
    BY <2>1, <2>2 DEF SensorsInit, SnType
<1> QED
  BY <1>1 DEF SensorsInit, SnInv, CountsAll, MeanOfAll, InTurn, HandleOfOwn, HasTaken

(* A measurement that is added. *)
LEMMA AddKeeps == ASSUME SnInv, AddMeasurement PROVE SnInv'
<1>1. snLast \in Seq(Nat) /\ Len(snLast) <= GraphResolution /\ snRows \in Nat
  BY DEF SnInv, SnType
<1>2. IsLatest(snLast, snRows, snLast')
  BY <1>1, LatestIs DEF AddMeasurement
<1>3. snLast' \in Seq(Nat) /\ Len(snLast') <= GraphResolution
  BY <1>2 DEF IsLatest
<1>4. snTwo \/ snJob = "off"
  BY DEF SnInv, InTurn, AddMeasurement
<1>5. snPc' = "update" /\ UNCHANGED <<snMeas, snRows, snGraphs, snGen, snDb, snTwo, snTorn>>
  BY DEF AddMeasurement
<1>6. SnType'
  BY <1>3, <1>5 DEF SnInv, SnType, snMeas, snGen
<1>7. CountsAll' /\ MeanOfAll' /\ InTurn' /\ HandleOfOwn'
  BY <1>5 DEF SnInv, CountsAll, MeanOfAll, InTurn, HandleOfOwn, snMeas, snGen
<1>8. HasTaken'
  BY <1>4, <1>5 DEF HasTaken, snGen
<1> QED
  BY <1>6, <1>7, <1>8 DEF SnInv

(* A row of the query of the latest. *)
LEMMA QueryKeeps == ASSUME SnInv, QueryLatest PROVE SnInv'
<1>1. snLast \in Seq(Nat) /\ Len(snLast) <= GraphResolution /\ Len(snLast) \in Nat /\ snNext \in Nat /\ snUpTo \in Nat
  BY DEF SnInv, SnType
<1>0. UNCHANGED <<snMeas, snPc, snRows, snGraphs, snFuture, snUpTo, snDb, snTwo, snTorn>> /\ snJob = "latest"
  BY DEF QueryLatest
<1>2. CountsAll' /\ MeanOfAll' /\ HandleOfOwn'
  BY <1>0 DEF SnInv, CountsAll, MeanOfAll, HandleOfOwn, snMeas
<1>3. CASE snNext > snUpTo
  <2>1. snJob' = "write" /\ snLast' = snLast /\ snNext' = snNext
    BY <1>3 DEF QueryLatest
  <2>2. SnType' /\ InTurn'
    BY <1>0, <2>1 DEF SnInv, SnType, InTurn, snMeas
  <2>3. HasTaken'
    <3> SUFFICES ASSUME ~snTwo' PROVE HasTaken'
      BY DEF HasTaken
    <3>1. /\ snNext \in First..(snUpTo + 1) /\ Taking <= Len(snLast)
          /\ \A i \in 1..Taking : snLast[Len(snLast) - Taking + i] = First + i - 1
      BY <1>0 DEF SnInv, HasTaken
    <3>2. First' = First /\ Taking' = Taking /\ First \in Nat
      BY <1>0, <1>1, <2>1, SensorsAssumption DEF First, Taking
    <3>3. snNext = snUpTo + 1
      BY <1>1, <1>3, <3>1, <3>2
    <3> QED
      BY <1>0, <2>1, <3>1, <3>2, <3>3 DEF HasTaken
  <2> QED
    BY <1>2, <2>2, <2>3 DEF SnInv
<1>4. CASE ~(snNext > snUpTo)
  <2>1. snLast' = Latest(snLast, snNext) /\ snNext' = snNext + 1 /\ snJob' = snJob
    BY <1>4 DEF QueryLatest
  <2>2. IsLatest(snLast, snNext, snLast')
    BY <1>1, <2>1, LatestIs
  <2>3. SnType' /\ InTurn'
    BY <1>0, <1>1, <2>1, <2>2 DEF SnInv, SnType, InTurn, IsLatest, snMeas
  <2>4. HasTaken'
    <3> SUFFICES ASSUME ~snTwo' PROVE HasTaken'
      BY DEF HasTaken
    <3>1. /\ snNext \in First..(snUpTo + 1) /\ Taking <= Len(snLast)
          /\ \A i \in 1..Taking : snLast[Len(snLast) - Taking + i] = First + i - 1
      BY <1>0 DEF SnInv, HasTaken
    <3>2. First' = First /\ First \in Nat /\ Taking \in Nat /\ Taking' = Taking + 1
      BY <1>0, <1>1, <2>1, <3>1, SensorsAssumption DEF First, Taking
    <3>3. snNext <= snUpTo /\ snNext = First + Taking /\ Taking + 1 <= GraphResolution
      BY <1>1, <1>4, <3>1, <3>2, SensorsAssumption DEF First, Taking
    <3> DEFINE l == snLast'
               c == Taking
               f == First
    <3>4. /\ Len(l) \in Nat /\ Len(l) = (IF Len(snLast) >= GraphResolution THEN Len(snLast) ELSE Len(snLast) + 1)
          /\ l[Len(l)] = snNext
          /\ \A i \in 1..(Len(l) - 1) : l[Len(l) - i] = snLast[Len(snLast) - i + 1]
      <4>1. snLast' \in Seq(Nat)
        BY <2>2, Zenon DEF IsLatest
      <4>2. Len(snLast') \in Nat
        BY <4>1
      <4> QED
        BY <2>2, <4>2, Zenon DEF IsLatest
    <3>5. c \in Nat /\ f \in Nat /\ c <= Len(snLast) /\ snNext = f + c /\ c + 1 <= GraphResolution
      BY <3>1, <3>2, <3>3
    <3>6. \A i \in 1..c : snLast[Len(snLast) - c + i] = f + i - 1
      BY <3>1
    <3> HIDE DEF l, c, f
    <3>7. c + 1 <= Len(l)
      BY <1>1, <3>4, <3>5, SensorsAssumption
    <3>8. ASSUME NEW i \in 1..(c + 1) PROVE l[Len(l) - (c + 1) + i] = f + i - 1
      <4>1. CASE i = c + 1
        <5>0. Len(l) \in Nat /\ c \in Nat /\ f \in Nat
          BY <3>4, <3>5
        <5>1. Len(l) - (c + 1) + i = Len(l) /\ f + i - 1 = f + c
          BY <4>1, <5>0
        <5> QED
          BY <3>4, <3>5, <5>1
      <4>2. CASE i # c + 1
        <5> DEFINE j == (c + 1) - i
        <5>1. /\ j \in 1..(Len(l) - 1) /\ i \in 1..c /\ Len(l) - (c + 1) + i = Len(l) - j
              /\ Len(snLast) - j + 1 = Len(snLast) - c + i
          BY <1>1, <3>4, <3>5, <3>7, <4>2
        <5> HIDE DEF j
        <5>2. l[Len(l) - j] = snLast[Len(snLast) - j + 1]
          BY <3>4, <5>1
        <5> QED
          BY <3>6, <5>1, <5>2
      <4> QED
        BY <4>1, <4>2
    <3>9. /\ Taking' <= Len(snLast')
          /\ \A i \in 1..Taking' : snLast'[Len(snLast') - Taking' + i] = First' + i - 1
      BY <3>2, <3>7, <3>8 DEF l, c, f
    <3>10. snNext' \in First'..(snUpTo' + 1)
      BY <1>0, <1>1, <2>1, <3>1, <3>2, <3>3
    <3> QED
      BY <1>0, <2>1, <3>9, <3>10 DEF HasTaken
  <2> QED
    BY <1>2, <2>3, <2>4 DEF SnInv
<1> QED
  BY <1>3, <1>4

LEMMA PrepareKeeps == ASSUME SnInv, PrepareLatest PROVE SnInv'
<1>1. /\ UNCHANGED <<snMeas, snPc, snData, snFuture, snDb, snTwo>> /\ snJob = "prepare"
      /\ snUpTo' = snRows
      /\ snNext' = (IF snRows > GraphResolution THEN snRows - GraphResolution ELSE 0) + 1
      /\ snTorn' = (snTorn \/ snDb = "closed")
      /\ snJob' = IF snDb = "closed" THEN "write" ELSE "latest"
  BY DEF PrepareLatest
<1>2. SnType'
  BY <1>1, SensorsAssumption DEF SnInv, SnType, snMeas, snData
<1>3. CountsAll' /\ MeanOfAll' /\ InTurn'
  BY <1>1 DEF SnInv, CountsAll, MeanOfAll, InTurn, snMeas
<1>4. HandleOfOwn'
  BY <1>1 DEF SnInv, HandleOfOwn, InTurn
<1>5. HasTaken'
  <2> SUFFICES ASSUME ~snTwo' PROVE HasTaken'
    BY DEF HasTaken
  <2>1. snDb # "closed"
    BY <1>1 DEF SnInv, InTurn
  <2>2. snNext' = First' /\ snJob' = "latest" /\ snNext' \in Nat /\ snUpTo' \in Nat /\ Len(snLast') \in Nat
    BY <1>1, <1>2, <2>1 DEF First, SnType
  <2>3. PICK n : n = snNext'
    OBVIOUS
  <2>4. PICK u : u = snUpTo'
    OBVIOUS
  <2>5. n \in Nat /\ u \in Nat /\ First' = n /\ n <= u + 1
    BY <1>1, <2>2, <2>3, <2>4, SensorsAssumption DEF SnInv, SnType
  <2>6. Taking' = n - n
    BY <2>3, <2>5, Zenon DEF Taking
  <2>7. Taking' = 0
    <3>1. n - n = 0
      BY <2>5
    <3> QED
      BY <2>6, <3>1, Zenon
  <2>8. n \in n..(u + 1)
    BY <2>5
  <2>9. snNext' \in First'..(snUpTo' + 1)
    BY <2>3, <2>4, <2>5, <2>8, Zenon
  <2>10. Taking' <= Len(snLast') /\ \A i \in 1..Taking' : FALSE
    BY <2>2, <2>7
  <2>11. snJob' # "write"
    BY <2>2
  <2> QED
    BY <2>9, <2>10, <2>11, Zenon DEF HasTaken
<1> QED
  BY <1>2, <1>3, <1>4, <1>5 DEF SnInv

LEMMA SnKeeps == SnInv /\ [SensorsNext]_snVars => SnInv'
<1> SUFFICES ASSUME SnInv, [SensorsNext]_snVars PROVE SnInv'
  OBVIOUS
<1>0. UNCHANGED <<snLast, snNext, snUpTo, snTwo, snJob>> => HasTaken'
  BY DEF SnInv, HasTaken, First, Taking
<1>1. CASE UNCHANGED snVars
  <2>1. SnType'
    BY <1>1 DEF SnInv, SnType, snVars, snMeas, snData, snGen
  <2> QED
    BY <1>0, <1>1, <2>1 DEF SnInv, snVars, snMeas, snData, snGen, CountsAll, MeanOfAll, InTurn, HandleOfOwn
<1>2. CASE HandleMeasurement
  <2>1. /\ snSum' = snSum + 1 /\ snCnt' = (snCnt + 1) % CountModulus
        /\ UNCHANGED <<snFinal, snPc, snData, snGen, snDb, snTwo, snTorn>>
    BY <1>2 DEF HandleMeasurement, Add
  <2>2. SnType'
    BY <2>1, SensorsAssumption DEF SnInv, SnType, snData, snGen
  <2>3. CountsAll'
    <3> SUFFICES ASSUME snSum + 1 < CountModulus PROVE snCnt' = snSum + 1
      BY <2>1 DEF CountsAll
    <3>1. snSum \in Nat /\ CountModulus \in Nat \ {0} /\ snCnt = snSum
      BY SensorsAssumption DEF SnInv, SnType, CountsAll
    <3> QED
      BY <2>1, <3>1
  <2> QED
    BY <1>0, <2>1, <2>2, <2>3 DEF SnInv, snData, snGen, MeanOfAll, InTurn, HandleOfOwn
<1>3. CASE Finalize
  <2>1. /\ snFinal' = [summed |-> snSum, dividedBy |-> snCnt] /\ snSum' = 0 /\ snCnt' = 0
        /\ snPc' \in {"crashed", "insert"} /\ UNCHANGED <<snData, snGen, snDb, snTwo, snTorn>>
    BY <1>3 DEF Finalize
  <2>2. SnType'
    BY <2>1 DEF SnInv, SnType, snData, snGen
  <2>3. CountsAll' /\ MeanOfAll'
    BY <2>1 DEF SnInv, CountsAll, MeanOfAll
  <2> QED
    BY <1>0, <2>1, <2>2, <2>3 DEF SnInv, snData, snGen, InTurn, HandleOfOwn
<1>4. CASE WaitForGraphs
  <2>1. /\ snFuture # "running" /\ snFuture' = "none" /\ snDb' = "insert" /\ snPc' = "query"
        /\ UNCHANGED <<snMeas, snData, snJob, snNext, snUpTo, snTwo, snTorn>>
    BY <1>4 DEF WaitForGraphs
  <2>2. SnType'
    BY <2>1 DEF SnInv, SnType, snData, snMeas
  <2> QED
    BY <1>0, <2>1, <2>2 DEF SnInv, snData, snMeas, InTurn, HandleOfOwn, CountsAll, MeanOfAll
<1>5. CASE InsertMeasurement
  <2>1. /\ snPc = "query" /\ snPc' = "add"
        /\ IF snDb = "closed" THEN snTorn' = TRUE /\ UNCHANGED snRows
           ELSE snRows' = snRows + 1 /\ UNCHANGED snTorn
        /\ snDb' = IF snJob = "latest" THEN snDb ELSE "closed"
        /\ UNCHANGED <<snMeas, snLast, snGraphs, snGen, snTwo>>
    BY <1>5 DEF InsertMeasurement
  <2>2. SnType'
    <3>1. snRows' \in Nat /\ snTorn' \in BOOLEAN /\ snDb' \in {"closed", "insert", "generate"}
      <4>1. (snTorn' = TRUE /\ snRows' = snRows) \/ (snRows' = snRows + 1 /\ snTorn' = snTorn)
        BY <2>1, Zenon
      <4>2. snDb' = snDb \/ snDb' = "closed"
        BY <2>1, Zenon
      <4>3. snRows \in Nat /\ snTorn \in BOOLEAN /\ snDb \in {"closed", "insert", "generate"}
        BY DEF SnInv, SnType
      <4>4. snTorn' \in BOOLEAN /\ snDb' \in {"closed", "insert", "generate"}
        BY <4>1, <4>2, <4>3, Zenon
      <4>5. snRows' = snRows \/ snRows' = snRows + 1
        BY <4>1, Zenon
      <4>6. snRows' \in Nat
        <5>1. snRows \in Nat
          BY <4>3
        <5> QED
          BY <4>5, <5>1
      <4> QED
        BY <4>4, <4>6
    <3> QED
      BY <2>1, <3>1 DEF SnInv, SnType, snGen, snMeas
  <2> QED
    BY <1>0, <2>1, <2>2 DEF SnInv, snGen, snMeas, InTurn, HandleOfOwn, CountsAll, MeanOfAll
<1>6. CASE AddMeasurement
  BY <1>6, AddKeeps
<1>7. ASSUME GenerateGraphs
      PROVE  /\ snNext' = snNext /\ snUpTo' = snUpTo
             /\ snFuture' \in {"none", "running", "ready"} /\ snJob' \in {"off", "open", "prepare", "latest", "write"}
             /\ snJob' # "off" <=> snFuture' = "running"
             /\ snJob' = snJob \/ (snJob' = "open" /\ snFuture # "running" /\ snJob = "off")
  BY <1>7 DEF GenerateGraphs, snGen, SnInv, SnType, InTurn
<1>8. CASE UpdateDatabase
  <2>1. /\ snPc' = "idle" /\ UNCHANGED <<snMeas, snRows, snLast, snDb, snTwo, snTorn>>
        /\ GenerateGraphs \/ UNCHANGED snGen
    BY <1>8 DEF UpdateDatabase
  <2>2. /\ snNext' = snNext /\ snUpTo' = snUpTo
        /\ snFuture' \in {"none", "running", "ready"} /\ snJob' \in {"off", "open", "prepare", "latest", "write"}
        /\ snJob' # "off" <=> snFuture' = "running"
        /\ snJob' = snJob \/ snJob' = "open"
    BY <1>7, <2>1 DEF snGen, SnInv, SnType, InTurn
  <2>3. SnType'
    BY <2>1, <2>2 DEF SnInv, SnType, snMeas
  <2>4. HasTaken'
    BY <1>0, <2>1, <2>2 DEF HasTaken
  <2> QED
    BY <2>1, <2>2, <2>3, <2>4 DEF SnInv, snMeas, InTurn, HandleOfOwn, CountsAll, MeanOfAll
<1>9. CASE PressGenerate
  <2>1. /\ GenerateGraphs
        /\ snTwo' = (snTwo \/ (snFuture # "running" /\ snPc \in {"query", "add"}))
        /\ UNCHANGED <<snMeas, snPc, snData, snDb, snTorn>>
    BY <1>9 DEF PressGenerate
  <2>2. SnType'
    BY <1>7, <2>1 DEF SnInv, SnType, snMeas, snData
  <2>3. HasTaken'
    <3>1. CASE snJob' = "open"
      BY <3>1 DEF HasTaken
    <3>2. CASE snJob' = snJob
      <4>1. ~snTwo' => ~snTwo
        BY <2>1
      <4>2. snLast' = snLast /\ snNext' = snNext /\ snUpTo' = snUpTo /\ First' = First /\ Taking' = Taking
        BY <1>7, <2>1 DEF snData, First, Taking
      <4> QED
        BY <3>2, <4>1, <4>2 DEF SnInv, HasTaken
    <3> QED
      BY <1>7, <2>1, <3>1, <3>2
  <2> QED
    BY <1>7, <2>1, <2>2, <2>3 DEF SnInv, snMeas, snData, InTurn, HandleOfOwn, CountsAll, MeanOfAll
<1>10. CASE OpenForGraphs
  <2>1. /\ snJob = "open" /\ snJob' = "prepare" /\ snDb' = "generate"
        /\ UNCHANGED <<snMeas, snPc, snData, snFuture, snNext, snUpTo, snTwo, snTorn>>
    BY <1>10 DEF OpenForGraphs
  <2>2. SnType'
    BY <2>1 DEF SnInv, SnType, snMeas, snData
  <2>3. HasTaken'
    BY <2>1 DEF HasTaken
  <2> QED
    BY <2>1, <2>2, <2>3 DEF SnInv, snMeas, snData, InTurn, HandleOfOwn, CountsAll, MeanOfAll
<1>11. CASE PrepareLatest
  BY <1>11, PrepareKeeps
<1>12. CASE QueryLatest
  BY <1>12, QueryKeeps
<1>13. CASE EndOfJob
  <2>1. /\ snJob = "write" /\ snJob' = "off" /\ snFuture' = "ready" /\ snDb' = "closed"
        /\ UNCHANGED <<snMeas, snPc, snRows, snLast, snNext, snUpTo, snTwo, snTorn>>
    BY <1>13 DEF EndOfJob
  <2>2. SnType'
    BY <2>1 DEF SnInv, SnType, snMeas
  <2>3. HasTaken'
    BY <2>1 DEF HasTaken
  <2> QED
    BY <2>1, <2>2, <2>3 DEF SnInv, snMeas, InTurn, HandleOfOwn, CountsAll, MeanOfAll
<1> QED
  BY <1>1, <1>2, <1>3, <1>4, <1>5, <1>6, <1>8, <1>9, <1>10, <1>11, <1>12, <1>13 DEF SensorsNext

LEMMA SnMeans == SnInv => SensorsSafe
<1> SUFFICES ASSUME SnInv PROVE SensorsSafe
  OBVIOUS
<1>1. ASSUME snJob = "write", ~snTwo
      PROVE  LET n == IF snUpTo < GraphResolution THEN snUpTo ELSE GraphResolution IN
             /\ Len(snLast) <= GraphResolution
             /\ \A i \in 1..n : snLast[Len(snLast) - n + i] = snUpTo - n + i
  <2> DEFINE n == IF snUpTo < GraphResolution THEN snUpTo ELSE GraphResolution
  <2>1. /\ snNext = snUpTo + 1 /\ Len(snLast) <= GraphResolution /\ snUpTo \in Nat /\ Len(snLast) \in Nat
        /\ \A i \in 1..Taking : snLast[Len(snLast) - Taking + i] = First + i - 1
    BY <1>1 DEF SnInv, HasTaken, SnType
  <2>2. Taking = n /\ First = snUpTo - n + 1 /\ n \in Nat
    BY <2>1, SensorsAssumption DEF Taking, First
  <2>3. \A i \in 1..n : (snUpTo - n + 1) + i - 1 = snUpTo - n + i
    BY <2>1, <2>2
  <2> HIDE DEF n
  <2>4. \A i \in 1..n : snLast[Len(snLast) - n + i] = snUpTo - n + i
    BY <2>1, <2>2, <2>3
  <2> QED
    BY <2>1, <2>4 DEF n
<1> QED
  BY <1>1 DEF SnInv, SensorsSafe, EndsWithLatest
-----------------------------------------------------------------------------
(* The bit editor: the mapping stays in the order of the offsets, and an     *)
(* edit reads at most one text for each field.                               *)

Rising(m) == \A j, k \in 1..Len(m) : j < k => m[j].off < m[k].off

LEMMA OffsetsOf ==
  ASSUME NEW m \in Seq(FieldRows)
  PROVE  Len(m) \in Nat /\ \A j \in 1..Len(m) : m[j] \in FieldRows /\ m[j].off \in Nat
<1>1. Len(m) \in Nat /\ \A j \in 1..Len(m) : m[j] \in FieldRows
  BY ElementOfSeq
<1>2. \A r \in FieldRows : r.off \in Nat
  BY DEF FieldRows
<1> QED
  BY <1>1, <1>2

(* A row has one place among those loaded before it. *)
LEMMA PlaceOf ==
  ASSUME NEW m \in Seq(FieldRows), Rising(m), NEW r \in FieldRows,
         \A j \in 1..Len(m) : m[j].off # r.off
  PROVE  \E k \in 0..Len(m) : /\ \A j \in 1..k : m[j].off < r.off
                              /\ \A j \in (k + 1)..Len(m) : r.off < m[j].off
<1> DEFINE D == {k \in 0..Len(m) : \A j \in (k + 1)..Len(m) : r.off < m[j].off}
<1>1. /\ Len(m) \in Nat /\ r.off \in Nat
      /\ \A j \in 1..Len(m) : m[j].off \in Nat
  <2>1. r.off \in Nat
    BY DEF FieldRows
  <2> QED
    BY <2>1, OffsetsOf, Zenon
<1>2. Len(m) \in D /\ D \subseteq Nat
  BY <1>1
<1>3. PICK k \in D : \A e \in D : k <= e
  <2> HIDE DEF D
  <2> QED
    BY <1>2, LeastOf
<1>4. k \in 0..Len(m) /\ \A j \in (k + 1)..Len(m) : r.off < m[j].off
  OBVIOUS
<1>5. ASSUME NEW j \in 1..k PROVE m[j].off < r.off
  <2>1. k - 1 \in 0..Len(m) /\ ~(k <= k - 1) /\ j <= k /\ k \in 1..Len(m) /\ j \in 1..Len(m)
    BY <1>1, <1>4
  <2>2. PICK i \in ((k - 1) + 1)..Len(m) : ~(r.off < m[i].off)
    <3>1. k - 1 \notin D
      BY <1>3, <2>1, Zenon
    <3> QED
      BY <2>1, <3>1, Zenon
  <2>3. i = k
    BY <1>1, <1>4, <2>1, <2>2
  <2>4. m[k].off < r.off
    BY <1>1, <2>1, <2>2, <2>3
  <2>5. j = k \/ m[j].off < m[k].off
    <3>1. j = k \/ j < k
      BY <1>1, <2>1
    <3>2. \A x, y \in 1..Len(m) : x < y => m[x].off < m[y].off
      BY Zenon DEF Rising
    <3> QED
      BY <2>1, <3>1, <3>2, Zenon
  <2> QED
    BY <1>1, <2>1, <2>4, <2>5
<1> QED
  BY <1>4, <1>5

(* What a list with one element more between the k-th and the next is. *)
Inserting(m, k, r) == SubSeq(m, 1, k) \o <<r>> \o SubSeq(m, k + 1, Len(m))

IsInserted(T, m, k, r, n) ==
  /\ n \in Seq(T) /\ Len(n) = Len(m) + 1
  /\ \A i \in 1..k : n[i] = m[i]
  /\ n[k + 1] = r
  /\ \A i \in (k + 2)..(Len(m) + 1) : n[i] = m[i - 1]

LEMMA Inserted ==
  ASSUME NEW T, NEW m \in Seq(T), NEW r \in T, NEW k \in 0..Len(m)
  PROVE  IsInserted(T, m, k, r, Inserting(m, k, r))
<1> DEFINE a == SubSeq(m, 1, k)
           c == SubSeq(m, k + 1, Len(m))
           b == <<r>>
           ab == a \o b
           n == ab \o c
<1>0. Len(m) \in Nat /\ k \in Nat /\ k <= Len(m) /\ \A i \in 1..Len(m) : m[i] \in T
  BY ElementOfSeq
<1>1. a \in Seq(T) /\ Len(a) = k /\ \A i \in 1..k : a[i] = m[i]
  <2>1. 1 \in Int /\ k \in Int /\ \A i \in 1..k : m[i] \in T
    BY <1>0
  <2>2. /\ a \in Seq(T) /\ Len(a) = (IF 1 <= k THEN k - 1 + 1 ELSE 0)
        /\ \A i \in 1..(k - 1 + 1) : a[i] = m[1 + i - 1]
    BY <2>1, SubSeqProperties
  <2> HIDE DEF a
  <2> QED
    BY <1>0, <2>2
<1>2. c \in Seq(T) /\ Len(c) = Len(m) - k /\ \A i \in 1..(Len(m) - k) : c[i] = m[k + i]
  <2>1. k + 1 \in Int /\ Len(m) \in Int /\ \A i \in (k + 1)..Len(m) : m[i] \in T
    BY <1>0
  <2>2. /\ c \in Seq(T) /\ Len(c) = (IF k + 1 <= Len(m) THEN Len(m) - (k + 1) + 1 ELSE 0)
        /\ \A i \in 1..(Len(m) - (k + 1) + 1) : c[i] = m[(k + 1) + i - 1]
    BY <2>1, SubSeqProperties
  <2>3. \A i \in 1..(Len(m) - k) : (k + 1) + i - 1 = k + i /\ i \in 1..(Len(m) - (k + 1) + 1)
    BY <1>0
  <2>4. Len(c) = Len(m) - k
    <3> HIDE DEF c
    <3> QED
      BY <1>0, <2>2
  <2> HIDE DEF c
  <2> QED
    BY <2>2, <2>3, <2>4
<1>3. b \in Seq(T) /\ Len(b) = 1 /\ b[1] = r
  OBVIOUS
<1> HIDE DEF a, b, c
<1>4. a \in Seq(T) /\ b \in Seq(T) /\ c \in Seq(T)
  BY <1>1, <1>2, <1>3, Zenon
<1>5. /\ ab \in Seq(T) /\ Len(ab) = Len(a) + Len(b)
      /\ \A i \in 1..(Len(a) + Len(b)) : ab[i] = IF i <= Len(a) THEN a[i] ELSE b[i - Len(a)]
  BY <1>4, ConcatProperties, Zenon
<1> HIDE DEF ab
<1>6. ab \in Seq(T)
  BY <1>5
<1>7. /\ n \in Seq(T) /\ Len(n) = Len(ab) + Len(c)
      /\ \A i \in 1..(Len(ab) + Len(c)) : n[i] = IF i <= Len(ab) THEN ab[i] ELSE c[i - Len(ab)]
  BY <1>4, <1>6, ConcatProperties, Zenon
<1> HIDE DEF n
<1>8. Len(ab) = k + 1 /\ Len(n) = Len(m) + 1
  BY <1>0, <1>1, <1>2, <1>3, <1>5, <1>7
<1>9. /\ \A i \in 1..k : ab[i] = m[i]
      /\ ab[k + 1] = r
  BY <1>0, <1>1, <1>3, <1>5
<1>10. ASSUME NEW i \in 1..(k + 1) PROVE n[i] = ab[i]
  <2>1. i \in 1..(Len(ab) + Len(c)) /\ i <= Len(ab)
    BY <1>0, <1>2, <1>8
  <2> QED
    BY <1>7, <2>1, Zenon
<1>11. ASSUME NEW i \in (k + 2)..(Len(m) + 1) PROVE n[i] = m[i - 1]
  <2>1. /\ i - (k + 1) \in 1..(Len(m) - k) /\ k + (i - (k + 1)) = i - 1
        /\ i \in 1..(Len(ab) + Len(c)) /\ ~(i <= Len(ab))
    BY <1>0, <1>2, <1>8
  <2>2. n[i] = c[i - Len(ab)]
    BY <1>7, <2>1
  <2>3. c[i - (k + 1)] = m[k + (i - (k + 1))]
    BY <1>2, <2>1
  <2> QED
    BY <1>8, <2>1, <2>2, <2>3
<1>12. n = Inserting(m, k, r)
  BY DEF a, b, c, ab, n, Inserting
<1>13. /\ \A i \in 1..k : n[i] = m[i]
       /\ n[k + 1] = r
  BY <1>0, <1>9, <1>10
<1> QED
  BY <1>7, <1>8, <1>11, <1>12, <1>13, Zenon DEF IsInserted

(* A row that is loaded keeps the order. *)
LEMMA LoadKeeps ==
  ASSUME NEW m \in Seq(FieldRows), Rising(m), NEW r \in FieldRows
  PROVE  /\ LoadField(m, r) \in Seq(FieldRows) /\ Rising(LoadField(m, r))
         /\ Len(m) <= Len(LoadField(m, r))
<1>0. DOMAIN m = 1..Len(m) /\ Len(m) \in Nat
  OBVIOUS
<1>0a. r.off \in Nat
  BY DEF FieldRows
<1>1. CASE r.type = "?" \/ \E j \in DOMAIN m : m[j].off = r.off
  <2>1. LoadField(m, r) = m
    BY <1>1, Zenon DEF LoadField
  <2> QED
    BY <1>0, <2>1
<1>2. CASE ~(r.type = "?" \/ \E j \in DOMAIN m : m[j].off = r.off)
  <2> DEFINE P(k) == /\ \A j \in 1..k : m[j].off < r.off
                     /\ \A j \in (k + 1)..Len(m) : r.off < m[j].off
             k == CHOOSE k \in 0..Len(m) : P(k)
             n == Inserting(m, k, r)
  <2>1. \E i \in 0..Len(m) : P(i)
    <3>1. \A j \in 1..Len(m) : m[j].off # r.off
      BY <1>0, <1>2, Zenon
    <3> QED
      BY <3>1, PlaceOf, Zenon
  <2>2. k \in 0..Len(m) /\ P(k)
    <3> HIDE DEF P
    <3> QED
      BY <2>1
  <2>3. LoadField(m, r) = n
    BY <1>2, Zenon DEF LoadField, Inserting
  <2> HIDE DEF k
  <2>7. /\ n \in Seq(FieldRows) /\ Len(n) = Len(m) + 1
        /\ \A i \in 1..k : n[i] = m[i]
        /\ n[k + 1] = r
        /\ \A i \in (k + 2)..(Len(m) + 1) : n[i] = m[i - 1]
    <3>1. k \in 0..Len(m)
      BY <2>2
    <3>2. IsInserted(FieldRows, m, k, r, n)
      BY <3>1, Inserted, Zenon
    <3> QED
      BY <3>2, Zenon DEF IsInserted
  <2> HIDE DEF n
  <2>8. /\ \A i \in 1..k : n[i].off = m[i].off /\ m[i].off < r.off
        /\ n[k + 1].off = r.off
        /\ \A i \in (k + 2)..(Len(m) + 1) : n[i].off = m[i - 1].off /\ r.off < m[i - 1].off
    <3>1. /\ \A i \in 1..k : n[i] = m[i]
          /\ n[k + 1] = r
      BY <1>0, <2>2, <2>7
    <3>2. \A i \in (k + 2)..(Len(m) + 1) : i - 1 \in (k + 1)..Len(m) /\ n[i] = m[i - 1]
      BY <1>0, <2>2, <2>7
    <3> QED
      BY <2>2, <2>7, <3>1, <3>2
  <2>9. ASSUME NEW i \in 1..Len(n), NEW j \in 1..Len(n), i < j PROVE n[i].off < n[j].off
    <3>1. r.off \in Nat /\ \A x \in 1..Len(m) : m[x].off \in Nat
      BY OffsetsOf, <1>0a, Zenon
    <3>2. \A x, y \in 1..Len(m) : x < y => m[x].off < m[y].off
      BY DEF Rising
    <3>3. CASE j <= k
      BY <1>0, <2>2, <2>7, <2>8, <2>9, <3>2, <3>3
    <3>4. CASE i <= k /\ j = k + 1
      BY <1>0, <2>2, <2>7, <2>8, <3>4
    <3>5. CASE i <= k /\ j > k + 1
      <4>1. /\ i \in 1..k /\ i \in 1..Len(m)
            /\ j \in (k + 2)..(Len(m) + 1) /\ j - 1 \in 1..Len(m)
        BY <1>0, <2>2, <2>7, <3>5
      <4>2. n[i].off < r.off /\ r.off < n[j].off /\ n[i].off \in Nat /\ n[j].off \in Nat
        BY <2>8, <3>1, <4>1
      <4> QED
        BY <1>0a, <4>2
    <3>6. CASE i = k + 1 /\ j > k + 1
      BY <1>0, <2>2, <2>7, <2>8, <3>6
    <3>7. CASE i > k + 1 /\ j > k + 1
      <4>1. i - 1 \in 1..Len(m) /\ j - 1 \in 1..Len(m) /\ i - 1 < j - 1
        BY <1>0, <2>2, <2>7, <2>9, <3>7
      <4>2. n[i].off = m[i - 1].off /\ n[j].off = m[j - 1].off
        BY <1>0, <2>2, <2>7, <2>8, <3>7
      <4> QED
        BY <3>2, <4>1, <4>2
    <3> QED
      BY <1>0, <2>2, <2>7, <2>9, <3>3, <3>4, <3>5, <3>6, <3>7
  <2> QED
    BY <1>0, <2>3, <2>7, <2>9 DEF Rising
<1> QED
  BY <1>1, <1>2

IsLoaded(w, map, rows) ==
  w = [n \in 0..Len(rows) |-> IF n = 0 THEN map ELSE LoadField(w[n - 1], rows[n])]

(* A file that is loaded adds to the mapping and keeps its order. *)
LEMMA LoadsKeep ==
  ASSUME NEW map \in Seq(FieldRows), Rising(map), NEW rows \in Seq(FieldRows)
  PROVE  /\ LoadFields(map, rows) \in Seq(FieldRows) /\ Rising(LoadFields(map, rows))
         /\ Len(map) <= Len(LoadFields(map, rows))
<1> DEFINE A == {x \in Seq(FieldRows) : Rising(x) /\ Len(map) <= Len(x)}
           m == Len(rows)
           Fn == [n \in 1..m |-> [u \in A |-> LoadField(u, rows[n])]]
<1>1. m \in Nat /\ \A n \in 1..m : rows[n] \in FieldRows
  BY OffsetsOf
<1>2. ASSUME NEW u \in A, NEW n \in 1..m PROVE LoadField(u, rows[n]) \in A
  <2>1. u \in Seq(FieldRows) /\ Rising(u) /\ rows[n] \in FieldRows /\ Len(map) <= Len(u)
    BY <1>1
  <2>2. /\ LoadField(u, rows[n]) \in Seq(FieldRows) /\ Rising(LoadField(u, rows[n]))
        /\ Len(u) <= Len(LoadField(u, rows[n]))
    BY <2>1, LoadKeeps, Zenon
  <2>3. Len(map) \in Nat /\ Len(u) \in Nat /\ Len(LoadField(u, rows[n])) \in Nat
    BY <2>1, <2>2
  <2>4. Len(map) <= Len(LoadField(u, rows[n]))
    BY <2>1, <2>2, <2>3
  <2> QED
    BY <2>2, <2>4
<1>3. Fn \in [1..m -> [A -> A]]
  BY <1>2
<1>4. \A u \in A, n \in 1..m : Fn[n][u] = LoadField(u, rows[n])
  OBVIOUS
<1>5. map \in A
  OBVIOUS
<1> HIDE DEF A, Fn, m
<1>6. PICK f \in [0..m -> A] : f[0] = map /\ \A n \in 1..m : f[n] = Fn[n][f[n - 1]]
  <2> DEFINE Rec(B, b, k) == \A H \in [1..k -> [B -> B]] :
          \E f \in [0..k -> B] : f[0] = b /\ \A n \in 1..k : f[n] = H[n][f[n - 1]]
  <2>0. \A B : \A b \in B : \A k \in Nat : Rec(B, b, k)
    BY RecAll
  <2>1. \A b \in A : \A k \in Nat : Rec(A, b, k)
    <3> HIDE DEF Rec
    <3> QED
      BY <2>0, Zenon
  <2>2. \A k \in Nat : \A H \in [1..k -> [A -> A]] :
          \E f \in [0..k -> A] : f[0] = map /\ \A n \in 1..k : f[n] = H[n][f[n - 1]]
    BY <1>5, <2>1, Zenon
  <2>3. \A H \in [1..m -> [A -> A]] :
          \E f \in [0..m -> A] : f[0] = map /\ \A n \in 1..m : f[n] = H[n][f[n - 1]]
    BY <1>1, <2>2, Zenon
  <2> QED
    BY <1>3, <2>3, Zenon
<1>7. \A n \in 1..m : f[n] = LoadField(f[n - 1], rows[n])
  <2> TAKE n \in 1..m
  <2>1. n - 1 \in 0..m
    BY <1>1
  <2> QED
    BY <1>4, <1>6, <2>1
<1>8. f = [n \in 0..m |-> IF n = 0 THEN map ELSE LoadField(f[n - 1], rows[n])]
  BY <1>1, <1>6, <1>7
<1>9. \E h : IsLoaded(h, map, rows)
  BY <1>8 DEF IsLoaded, m
<1> DEFINE g == CHOOSE h : IsLoaded(h, map, rows)
<1>10. IsLoaded(g, map, rows)
  BY <1>9
<1>11. LoadFields(map, rows) = g[m]
  BY DEF LoadFields, IsLoaded, m
<1> HIDE DEF g
<1>12. g[0] = map /\ \A n \in 1..m : g[n] = LoadField(g[n - 1], rows[n])
  <2> DEFINE B(n) == IF n = 0 THEN map ELSE LoadField(g[n - 1], rows[n])
  <2>1. g = [n \in 0..m |-> B(n)]
    BY <1>10 DEF IsLoaded, m
  <2>2. \A n \in 0..m : g[n] = B(n)
    <3> HIDE DEF B
    <3> QED
      BY <2>1
  <2> QED
    BY <1>1, <2>2
<1> DEFINE Good == {n \in Nat : n <= m => g[n] \in A}
<1>13. 0 \in Good
  BY <1>5, <1>12
<1>14. ASSUME NEW n \in Nat, n \in Good PROVE n + 1 \in Good
  <2> SUFFICES ASSUME n + 1 <= m PROVE g[n + 1] \in A
    OBVIOUS
  <2>1. n + 1 \in 1..m /\ (n + 1) - 1 = n /\ n <= m
    BY <1>1
  <2>2. g[n] \in A
    BY <1>14, <2>1
  <2>3. g[n + 1] = LoadField(g[n], rows[n + 1])
    BY <1>12, <2>1
  <2> QED
    BY <1>2, <2>1, <2>2, <2>3
<1>15. m \in Good
  <2> HIDE DEF Good
  <2> QED
    BY <1>1, <1>13, <1>14, SetInduction
<1>16. LoadFields(map, rows) \in A
  BY <1>1, <1>11, <1>15
<1> QED
  BY <1>16 DEF A

IsWritten(w, map, data, texts) ==
  w = [n \in 0..Len(map) |-> IF n = 0 THEN [data |-> data, pos |-> 1, past |-> FALSE]
                             ELSE HandleBitWriting(w[n - 1], map[n], texts)]

(* The recursion is well defined. *)
LEMMA WrittenExists ==
  ASSUME NEW T, NEW map \in Seq(T), NEW data, NEW texts
  PROVE  \E w : IsWritten(w, map, data, texts)
<1> DEFINE FieldTurn(f, n) == IF n = 0 THEN [data |-> data, pos |-> 1, past |-> FALSE]
                         ELSE HandleBitWriting(f[n - 1], map[n], texts)
           Upto(f, m) == f = [n \in 0..m |-> FieldTurn(f, n)]
           Good == {m \in Nat : \E f : Upto(f, m)}
<1>1. 0 \in Good
  <2>1. Upto([n \in 0..0 |-> [data |-> data, pos |-> 1, past |-> FALSE]], 0)
    OBVIOUS
  <2> QED
    BY <2>1
<1>2. \A m \in Nat : m \in Good => m + 1 \in Good
  <2> TAKE m \in Nat
  <2> HAVE m \in Good
  <2>1. PICK f : Upto(f, m)
    OBVIOUS
  <2>5. \A n \in 0..m : f[n] = FieldTurn(f, n)
    <3> HIDE DEF FieldTurn
    <3> QED
      BY <2>1
  <2> DEFINE g == [n \in 0..(m + 1) |-> IF n <= m THEN f[n] ELSE FieldTurn(f, n)]
  <2>2. ASSUME NEW n \in 0..(m + 1) PROVE g[n] = FieldTurn(g, n)
    <3>1. CASE n = m + 1
      <4>1. g[n] = FieldTurn(f, n) /\ g[n - 1] = f[n - 1] /\ n # 0
        BY <3>1
      <4> QED
        BY <4>1
    <3>2. CASE n <= m
      <4>1. g[n] = f[n] /\ (n # 0 => g[n - 1] = f[n - 1])
        BY <3>2
      <4>2. f[n] = FieldTurn(f, n)
        <5> HIDE DEF FieldTurn
        <5> QED
          BY <2>5, <3>2
      <4> QED
        BY <4>1, <4>2
    <3> QED
      BY <3>1, <3>2
  <2>3. Upto(g, m + 1)
    BY <2>2
  <2>4. \E h : Upto(h, m + 1)
    BY <2>3
  <2> HIDE DEF Upto
  <2> QED
    BY <2>4
<1>3. Len(map) \in Good
  <2> HIDE DEF Good
  <2> QED
    BY <1>1, <1>2, SetInduction
<1> QED
  BY <1>3 DEF IsWritten

(* An edit reads at most one text for each field, so it reads past the last  *)
(* one only if there are fewer of them than fields.                          *)
LEMMA WrittenPast ==
  ASSUME NEW T, NEW map \in Seq(T), NEW data, NEW texts, Len(texts) \in Nat
  PROVE  /\ Written(map, data, texts).past \in BOOLEAN
         /\ Written(map, data, texts).past => Len(texts) < Len(map)
<1> DEFINE g == CHOOSE w : IsWritten(w, map, data, texts)
           m == Len(map)
           Start == [data |-> data, pos |-> 1, past |-> FALSE]
<1>1. IsWritten(g, map, data, texts)
  BY WrittenExists
<1>2. Written(map, data, texts) = g[m] /\ m \in Nat
  BY DEF Written, IsWritten
<1> HIDE DEF g
<1>3. g[0] = Start /\ \A n \in 1..m : g[n] = WriteField(g[n - 1], map[n], texts)
  <2> DEFINE B(n) == IF n = 0 THEN Start ELSE WriteField(g[n - 1], map[n], texts)
  <2>1. g = [n \in 0..m |-> B(n)]
    BY <1>1 DEF IsWritten, HandleBitWriting
  <2>2. \A n \in 0..m : g[n] = B(n)
    <3> HIDE DEF B
    <3> QED
      BY <2>1
  <2> HIDE DEF Start
  <2> QED
    BY <1>2, <2>2
<1> DEFINE Fine(w, n) ==
             /\ DOMAIN w = {"data", "pos", "past"}
             /\ w.pos \in Nat /\ w.pos <= n + 1
             /\ w.past \in BOOLEAN /\ (w.past => Len(texts) < n)
           Good == {n \in Nat : n <= m => Fine(g[n], n)}
<1> HIDE DEF m
<1>4. 0 \in Good
  <2>1. Fine(Start, 0)
    OBVIOUS
  <2> HIDE DEF Fine, Start
  <2> QED
    BY <1>3, <2>1
<1>5. ASSUME NEW w, NEW n \in Nat, Fine(w, n), NEW f PROVE Fine(WriteField(w, f, texts), n + 1)
  <2> DEFINE p == Parse(texts[w.pos], 10, IntBits)
             put == SetBitfield(w.data, f.off, f.len, AsType(f.type, p[1]))
             d == IF p = <<>> THEN w.data ELSE put
  <2>1. CASE f.type = "float"
    <3>1. WriteField(w, f, texts) = w
      BY <2>1, Zenon DEF WriteField
    <3> QED
      BY <1>5, <3>1
  <2>2. CASE f.type # "float" /\ w.pos > Len(texts)
    <3>1. WriteField(w, f, texts) = [w EXCEPT !.pos = @ + 1, !.past = TRUE]
      BY <2>2, Zenon DEF WriteField
    <3> QED
      BY <1>5, <2>2, <3>1
  <2>3. CASE f.type # "float" /\ ~(w.pos > Len(texts))
    <3>1. WriteField(w, f, texts) = [w EXCEPT !.pos = w.pos + 1, !.data = d]
      BY <2>3, Zenon DEF WriteField
    <3> HIDE DEF d
    <3> QED
      BY <1>5, <3>1
  <2> QED
    BY <2>1, <2>2, <2>3
<1>6. ASSUME NEW n \in Nat, n \in Good PROVE n + 1 \in Good
  <2> HIDE DEF Fine
  <2> SUFFICES ASSUME n + 1 <= m PROVE Fine(g[n + 1], n + 1)
    OBVIOUS
  <2>1. n + 1 \in 1..m /\ (n + 1) - 1 = n /\ n <= m
    BY <1>2 DEF m
  <2>2. g[n + 1] = WriteField(g[n], map[n + 1], texts)
    BY <1>3, <2>1
  <2>3. Fine(g[n], n)
    BY <1>6, <2>1
  <2> QED
    BY <1>5, <2>2, <2>3
<1>7. m \in Good
  <2> HIDE DEF Good
  <2> QED
    BY <1>2, <1>4, <1>6, SetInduction DEF m
<1>8. Fine(g[m], m)
  <2> HIDE DEF Fine
  <2> QED
    BY <1>2, <1>7 DEF m
<1> QED
  BY <1>2, <1>8 DEF m
-----------------------------------------------------------------------------
(* The dialog: as many inputs as fields, up to MaxFields of them.            *)

Lesser(n) == IF n > MaxFields THEN MaxFields ELSE n
Parts == {"target", "values", "inputs", "base", "typed", "clean"}
Inputs(d, n) == DOMAIN d = Parts /\ DOMAIN d.values = 1..Lesser(n) /\ DOMAIN d.inputs = 1..Lesser(n)

LEMMA LenOf ==
  ASSUME NEW n \in Nat, NEW f, f = [k \in 1..n |-> f[k]]
  PROVE  Len(f) = n
<1> DEFINE S == {f[k] : k \in 1..n}
<1>1. f \in [1..n -> S]
  OBVIOUS
<1> HIDE DEF S
<1>2. f \in Seq(S)
  BY <1>1
<1> QED
  BY <1>1, <1>2

LEMMA DialogHas ==
  ASSUME NEW target, NEW map \in Seq(FieldRows), NEW data, NEW size
  PROVE  /\ Inputs(Dialog(target, Cells(map, data, size)), Len(map))
         /\ Cells(map, data, size) # <<>> => Len(map) > 0
<1> DEFINE c == Cells(map, data, size)
           v == SubSeq(c, 1, Lesser(Len(map)))
<1>1. Len(map) \in Nat /\ Lesser(Len(map)) \in Nat /\ Lesser(Len(map)) <= Len(map)
  BY FieldsAssumption DEF Lesser
<1>2. Len(c) = Len(map)
  <2>1. c = [k \in 1..Len(map) |-> c[k]]
    BY DEF Cells
  <2> HIDE DEF c
  <2> QED
    BY <1>1, <2>1, LenOf
<1>3. DOMAIN v = 1..Lesser(Len(map))
  <2> DEFINE S == {c[k] : k \in 1..Len(map)}
             l == Lesser(Len(map))
  <2>1. 1 \in Int /\ l \in Int /\ \A i \in 1..l : c[i] \in S
    BY <1>1
  <2> HIDE DEF l, c, S
  <2>2. SubSeq(c, 1, l) \in Seq(S) /\ Len(SubSeq(c, 1, l)) = IF 1 <= l THEN l - 1 + 1 ELSE 0
    BY <2>1, SubSeqProperties
  <2>3. Len(SubSeq(c, 1, l)) = l
    BY <1>1, <2>2 DEF l
  <2>4. DOMAIN SubSeq(c, 1, l) = 1..l
    BY <2>2, <2>3
  <2> QED
    BY <2>4 DEF l
<1>4. Dialog(target, c) = [target |-> target, values |-> v, inputs |-> v, base |-> 10,
                           typed |-> [k \in 1..Len(v) |-> <<>>], clean |-> TRUE]
  BY <1>2 DEF Dialog, Lesser
<1> HIDE DEF v
<1>5. Inputs(Dialog(target, c), Len(map))
  BY <1>3, <1>4 DEF Inputs, Parts
<1>6. Len(map) = 0 => c = <<>>
  BY DEF Cells
<1> QED
  BY <1>1, <1>5, <1>6

LEMMA TypedHas ==
  ASSUME NEW d, NEW n, Inputs(d, n), NEW k, NEW text
  PROVE  Inputs(Typed(d, k, text), n)
<1> DEFINE p == Parse(text, d.base, Bits)
<1>1. Typed(d, k, text) = [d EXCEPT !.inputs[k] = text, !.typed[k] = p]
  BY DEF Typed
<1> HIDE DEF p
<1> QED
  BY <1>1 DEF Inputs, Parts

LEMMA RebasedHas ==
  ASSUME NEW d, NEW n, Inputs(d, n), NEW base
  PROVE  Inputs(Rebased(d, base), n)
<1> DEFINE e(k) == IF base = 10 THEN d.values[k]
                   ELSE IF k <= Len(Numbers(d)) THEN Text(Parse(Numbers(d)[k], 10, Bits)[1], base)
                   ELSE d.inputs[k]
           f == [k \in DOMAIN d.values |-> e(k)]
           t == [k \in DOMAIN d.values |-> <<>>]
<1>1. Rebased(d, base) = [d EXCEPT !.base = base, !.clean = FALSE, !.typed = t, !.inputs = f]
  BY DEF Rebased
<1>2. DOMAIN f = DOMAIN d.values
  <2> HIDE DEF e
  <2> QED
    OBVIOUS
<1> HIDE DEF f, t
<1> QED
  BY <1>1, <1>2 DEF Inputs, Parts

LEMMA OutputHas ==
  ASSUME NEW d, NEW n \in Nat, Inputs(d, n)
  PROVE  Len(Output(d)) = Lesser(n) /\ Lesser(n) \in Nat
<1>1. Lesser(n) \in Nat
  BY FieldsAssumption DEF Lesser
<1> DEFINE o == Output(d)
<1>2. o = [k \in 1..Lesser(n) |-> o[k]]
  <2> DEFINE e(k) == LET m == Parse(d.inputs[k], d.base, Bits)
                     IN  IF d.base = 10 \/ m = <<>> THEN d.inputs[k] ELSE Text(m[1], 10)
  <2>1. o = [k \in 1..Lesser(n) |-> e(k)]
    BY Zenon DEF Output, Inputs
  <2> HIDE DEF e, o
  <2> QED
    BY <2>1
<1> HIDE DEF o
<1>3. Len(o) = Lesser(n)
  BY <1>1, <1>2, LenOf
<1> QED
  BY <1>1, <1>3 DEF o

(* An edit from a dialog of the mapping reads past the last text only if     *)
(* there are more fields than the dialog has inputs.                         *)
LEMMA EditReads ==
  ASSUME NEW map \in Seq(FieldRows), NEW data, NEW d, Inputs(d, Len(map))
  PROVE  /\ Written(map, data, Output(d)).past \in BOOLEAN
         /\ Written(map, data, Output(d)).past => Len(map) > MaxFields
<1>1. Len(map) \in Nat
  OBVIOUS
<1>2. Len(Output(d)) = Lesser(Len(map)) /\ Lesser(Len(map)) \in Nat
  BY <1>1, OutputHas
<1>3. /\ Written(map, data, Output(d)).past \in BOOLEAN
      /\ Written(map, data, Output(d)).past => Len(Output(d)) < Len(map)
  BY <1>2, WrittenPast
<1>4. Lesser(Len(map)) < Len(map) => Len(map) > MaxFields
  BY <1>1, FieldsAssumption DEF Lesser
<1> QED
  BY <1>2, <1>3, <1>4
-----------------------------------------------------------------------------
(* The bits of a frame. *)

BeInv ==
  /\ beMap \in Seq(FieldRows) /\ Rising(beMap)
  /\ beDialog # <<>> => Inputs(beDialog[1], Len(beMap))
  /\ bePast \in BOOLEAN /\ (bePast => Len(beMap) > MaxFields)

LEMMA BeInit == BitEditorInit => BeInv
<1> SUFFICES ASSUME BitEditorInit PROVE BeInv
  OBVIOUS
<1>1. PICK rows \in FrameMaps : beMap = LoadFields(<<>>, rows)
  BY DEF BitEditorInit
<1>2. rows \in Seq(FieldRows) /\ <<>> \in Seq(FieldRows) /\ Rising(<<>>)
  BY FrameMapsAssumption DEF Rising
<1>3. beMap \in Seq(FieldRows) /\ Rising(beMap)
  BY <1>1, <1>2, LoadsKeep
<1>4. beDialog = <<>> /\ bePast = FALSE
  BY DEF BitEditorInit
<1> QED
  BY <1>3, <1>4 DEF BeInv

LEMMA LoadMappingKeeps == ASSUME BeInv, LoadMapping PROVE BeInv'
<1>1. PICK rows \in FrameMaps : beMap' = LoadFields(beMap, rows)
  BY DEF LoadMapping
<1>2. rows \in Seq(FieldRows) /\ beMap \in Seq(FieldRows) /\ Rising(beMap)
  BY FrameMapsAssumption DEF BeInv
<1>3. beMap' \in Seq(FieldRows) /\ Rising(beMap') /\ Len(beMap) <= Len(beMap')
  BY <1>1, <1>2, LoadsKeep
<1>4. beDialog' = <<>> /\ bePast' = bePast
  BY DEF LoadMapping, BitNoDialog
<1>5. Len(beMap) \in Nat /\ Len(beMap') \in Nat /\ MaxFields \in Nat
  BY <1>2, <1>3, FieldsAssumption
<1>6. bePast' => Len(beMap') > MaxFields
  BY <1>3, <1>4, <1>5 DEF BeInv
<1> QED
  BY <1>3, <1>4, <1>6 DEF BeInv

LEMMA BeSame ==
  ASSUME BeInv, beMap' = beMap, beDialog' = beDialog \/ beDialog' = <<>>, bePast' = bePast
  PROVE  BeInv'
BY DEF BeInv

LEMMA BeShown ==
  ASSUME BeInv, beMap' = beMap, bePast' = bePast, NEW d, beDialog' = <<d>>, Inputs(d, Len(beMap))
  PROVE  BeInv'
<1>1. beDialog'[1] = d
  OBVIOUS
<1> QED
  BY <1>1 DEF BeInv

LEMMA OkKeeps == ASSUME BeInv, NEW again \in BOOLEAN, OnApplyOrOk(again) PROVE BeInv'
<1>1. CASE beDialog[1].target = "rx"
  BY <1>1, BeSame DEF OnApplyOrOk
<1>2. CASE beDialog[1].target # "rx"
  <2> DEFINE w == Written(beMap, beTx.data, Output(beDialog[1]))
  <2>1. /\ bePast' = (bePast \/ w.past) /\ beMap' = beMap
        /\ beDialog' = IF again THEN <<Dialog("tx", Cells(beMap, beTx'.data, Bytes))>> ELSE <<>>
    BY <1>2 DEF OnApplyOrOk, ApplyEditingOnFrameId, GetOutput
  <2>2. beMap \in Seq(FieldRows) /\ Inputs(beDialog[1], Len(beMap))
    BY DEF BeInv, OnApplyOrOk, BitOpen
  <2>3. w.past \in BOOLEAN /\ (w.past => Len(beMap) > MaxFields)
    BY <2>2, EditReads
  <2> HIDE DEF w
  <2>4. bePast' \in BOOLEAN /\ (bePast' => Len(beMap') > MaxFields)
    BY <2>1, <2>3 DEF BeInv
  <2>5. beDialog' # <<>> => Inputs(beDialog'[1], Len(beMap'))
    <3> DEFINE d == Dialog("tx", Cells(beMap, beTx'.data, Bytes))
    <3>1. Inputs(d, Len(beMap))
      BY <2>2, DialogHas
    <3>2. beDialog' = <<d>> \/ beDialog' = <<>>
      BY <2>1
    <3> HIDE DEF d
    <3> QED
      BY <2>1, <3>1, <3>2
  <2> QED
    BY <2>1, <2>4, <2>5 DEF BeInv
<1> QED
  BY <1>1, <1>2

LEMMA BeKeeps == BeInv /\ [BitEditorNext]_beVars => BeInv'
<1> SUFFICES ASSUME BeInv, [BitEditorNext]_beVars PROVE BeInv'
  OBVIOUS
<1>0. beMap \in Seq(FieldRows)
  BY DEF BeInv
<1>1. CASE UNCHANGED beVars
  BY <1>1, BeSame DEF beVars
<1>2. CASE LoadMapping
  BY <1>2, LoadMappingKeeps
<1>3. CASE ShowBits
  <2> DEFINE d == Dialog("rx", Cells(beMap, beRx[1].data, beRx[1].size))
  <2>1. beMap' = beMap /\ bePast' = bePast /\ beDialog' = <<d>>
    BY <1>3 DEF ShowBits, GetMapForFrameId
  <2>2. Inputs(d, Len(beMap))
    BY <1>0, DialogHas
  <2> HIDE DEF d
  <2> QED
    BY <2>1, <2>2, BeShown
<1>4. CASE EditBits
  <2> DEFINE d == Dialog("tx", Cells(beMap, beTx.data, beTx.size))
  <2>1. beMap' = beMap /\ bePast' = bePast /\ beDialog' = <<d>>
    BY <1>4 DEF EditBits, GetMapForFrameId
  <2>2. Inputs(d, Len(beMap))
    BY <1>0, DialogHas
  <2> HIDE DEF d
  <2> QED
    BY <2>1, <2>2, BeShown
<1>5. CASE RemoveRxFrame
  BY <1>5, BeSame DEF RemoveRxFrame
<1>6. CASE TypeText
  <2>1. PICK k, t : beDialog' = <<Typed(beDialog[1], k, t)>>
    BY <1>6 DEF TypeText
  <2> DEFINE d == Typed(beDialog[1], k, t)
  <2>2. Inputs(beDialog[1], Len(beMap)) /\ beMap' = beMap /\ bePast' = bePast
    BY <1>6 DEF BeInv, TypeText, BitOpen
  <2>3. Inputs(d, Len(beMap))
    BY <2>2, TypedHas
  <2>4. beDialog' = <<d>>
    BY <2>1
  <2> HIDE DEF d
  <2> QED
    BY <2>2, <2>3, <2>4, BeShown
<1>7. CASE OnRadioButtonClicked
  <2>1. PICK b \in {2, 10, 16} :
          beDialog' = IF beDown' THEN beDialog ELSE <<Rebased(beDialog[1], b)>>
    BY <1>7 DEF OnRadioButtonClicked
  <2>2. Inputs(beDialog[1], Len(beMap)) /\ beMap' = beMap /\ bePast' = bePast
    BY <1>7 DEF BeInv, OnRadioButtonClicked, BitOpen
  <2> DEFINE d == Rebased(beDialog[1], b)
  <2>3. Inputs(d, Len(beMap))
    BY <2>2, RebasedHas
  <2>4. beDialog' = beDialog \/ beDialog' = <<d>>
    BY <2>1
  <2> HIDE DEF d
  <2> QED
    BY <2>2, <2>3, <2>4, BeShown, BeSame
<1>8. CASE OnApply
  BY <1>8, OkKeeps DEF OnApply
<1>9. CASE OnOk
  BY <1>9, OkKeeps DEF OnOk
<1>10. CASE OnClose
  BY <1>10, BeSame DEF OnClose
<1>11. CASE OnFrameReceived
  BY <1>11, BeSame DEF OnFrameReceived
<1>12. CASE SetFrameField
  BY <1>12, BeSame DEF SetFrameField
<1> QED
  BY <1>1, <1>2, <1>3, <1>4, <1>5, <1>6, <1>7, <1>8, <1>9, <1>10, <1>11, <1>12 DEF BitEditorNext

LEMMA BeMeans == BeInv => BitsSafe
<1> SUFFICES ASSUME BeInv PROVE BitsSafe
  OBVIOUS
<1>1. beMap \in Seq(FieldRows) /\ DOMAIN beMap = 1..Len(beMap)
  BY DEF BeInv
<1> QED
  BY <1>1 DEF BeInv, BitsSafe, Rising

-----------------------------------------------------------------------------
(* The bits of a register. *)

ReInv ==
  /\ reMap \in Seq(FieldRows)
  /\ reDialog # <<>> => Inputs(reDialog[1], Len(reMap))
  /\ rePast \in BOOLEAN /\ (rePast => Len(reMap) > MaxFields)

LEMMA ReInit == RegisterEditorInit => ReInv
BY RegisterMapsAssumption DEF RegisterEditorInit, ReInv

LEMMA ReSame ==
  ASSUME ReInv, reMap' = reMap, reDialog' = reDialog \/ reDialog' = <<>>, rePast' = rePast
  PROVE  ReInv'
BY DEF ReInv

LEMMA ReShown ==
  ASSUME ReInv, reMap' = reMap, rePast' = rePast, NEW d, reDialog' = <<d>>, Inputs(d, Len(reMap))
  PROVE  ReInv'
<1>1. reDialog'[1] = d
  OBVIOUS
<1> QED
  BY <1>1 DEF ReInv

LEMMA RegOkKeeps == ASSUME ReInv, NEW again \in BOOLEAN, RegApplyOrOk(again) PROVE ReInv'
<1>1. CASE reDialog[1].target = "input"
  BY <1>1, ReSame DEF RegApplyOrOk
<1>2. CASE reDialog[1].target # "input"
  <2> DEFINE w == Written(reMap, reHolding, Output(reDialog[1]))
  <2>1. /\ rePast' = (rePast \/ w.past) /\ reMap' = reMap
        /\ reDialog' = IF again THEN <<Dialog("holding", Cells(reMap, reHolding', Bytes))>> ELSE <<>>
    BY <1>2 DEF RegApplyOrOk, ApplyEditingOnHolding, RegGetOutput
  <2>2. reMap \in Seq(FieldRows) /\ Inputs(reDialog[1], Len(reMap))
    BY DEF ReInv, RegApplyOrOk, RegOpen
  <2>3. w.past \in BOOLEAN /\ (w.past => Len(reMap) > MaxFields)
    BY <2>2, EditReads
  <2> HIDE DEF w
  <2>4. rePast' \in BOOLEAN /\ (rePast' => Len(reMap') > MaxFields)
    BY <2>1, <2>3 DEF ReInv
  <2>5. reDialog' # <<>> => Inputs(reDialog'[1], Len(reMap'))
    <3> DEFINE d == Dialog("holding", Cells(reMap, reHolding', Bytes))
    <3>1. Inputs(d, Len(reMap))
      BY <2>2, DialogHas
    <3>2. reDialog' = <<d>> \/ reDialog' = <<>>
      BY <2>1
    <3> HIDE DEF d
    <3> QED
      BY <2>1, <3>1, <3>2
  <2> QED
    BY <2>1, <2>4, <2>5 DEF ReInv
<1> QED
  BY <1>1, <1>2

LEMMA ReKeeps == ReInv /\ [RegisterEditorNext]_reVars => ReInv'
<1> SUFFICES ASSUME ReInv, [RegisterEditorNext]_reVars PROVE ReInv'
  OBVIOUS
<1>0. reMap \in Seq(FieldRows)
  BY DEF ReInv
<1>1. CASE UNCHANGED reVars
  BY <1>1, ReSame DEF reVars
<1>2. CASE \E row \in Rows : GetMapForHolding(row)
  <2>1. PICK row \in Rows : GetMapForHolding(row)
    BY <1>2
  <2> DEFINE d == Dialog(row, RegisterCells(row))
  <2>2. reMap' = reMap /\ rePast' = rePast /\ (reDialog' = reDialog \/ reDialog' = <<d>>)
    BY <2>1 DEF GetMapForHolding
  <2>3. Inputs(d, Len(reMap))
    <3> DEFINE v == IF row = "holding" THEN reHolding ELSE reInput
    <3>1. RegisterCells(row) = Cells(reMap, v, Bytes)
      BY DEF RegisterCells
    <3> HIDE DEF v
    <3> QED
      BY <1>0, <3>1, DialogHas
  <2> HIDE DEF d
  <2> QED
    BY <2>2, <2>3, ReShown, ReSame
<1>3. CASE RegTypeText
  <2>1. PICK k, t : reDialog' = <<Typed(reDialog[1], k, t)>>
    BY <1>3 DEF RegTypeText
  <2> DEFINE d == Typed(reDialog[1], k, t)
  <2>2. Inputs(reDialog[1], Len(reMap)) /\ reMap' = reMap /\ rePast' = rePast
    BY <1>3 DEF ReInv, RegTypeText, RegOpen
  <2>3. Inputs(d, Len(reMap))
    BY <2>2, TypedHas
  <2>4. reDialog' = <<d>>
    BY <2>1
  <2> HIDE DEF d
  <2> QED
    BY <2>2, <2>3, <2>4, ReShown
<1>4. CASE RegRadioButtonClicked
  <2>1. PICK b \in {2, 10, 16} :
          reDialog' = IF reDown' THEN reDialog ELSE <<Rebased(reDialog[1], b)>>
    BY <1>4 DEF RegRadioButtonClicked
  <2>2. Inputs(reDialog[1], Len(reMap)) /\ reMap' = reMap /\ rePast' = rePast
    BY <1>4 DEF ReInv, RegRadioButtonClicked, RegOpen
  <2> DEFINE d == Rebased(reDialog[1], b)
  <2>3. Inputs(d, Len(reMap))
    BY <2>2, RebasedHas
  <2>4. reDialog' = reDialog \/ reDialog' = <<d>>
    BY <2>1
  <2> HIDE DEF d
  <2> QED
    BY <2>2, <2>3, <2>4, ReShown, ReSame
<1>5. CASE RegOnApply
  BY <1>5, RegOkKeeps DEF RegOnApply
<1>6. CASE RegOnOk
  BY <1>6, RegOkKeeps DEF RegOnOk
<1>7. CASE RegOnClose
  BY <1>7, ReSame DEF RegOnClose
<1>8. CASE SendPending
  BY <1>8, ReSame DEF SendPending
<1>9. CASE PollRegisters
  BY <1>9, ReSame DEF PollRegisters
<1> QED
  BY <1>1, <1>2, <1>3, <1>4, <1>5, <1>6, <1>7, <1>8, <1>9 DEF RegisterEditorNext

LEMMA ReMeans == ReInv => RegistersSafe
BY DEF ReInv, RegistersSafe
-----------------------------------------------------------------------------
(* The services side by side: a step of one leaves the others alone.         *)

LEMMA PsMeans == PsInv => PowerSafe
BY DEF PsInv, PowerSafe

LEMMA StepsOfParts ==
  [MCNext]_<<part, dsVars, dlVars, tsVars, snVars, mkVars, maVars, edVars, exVars>> =>
    /\ [PowerNext]_psVars /\ [AppNext]_axVars
    /\ [SensorsNext]_snVars /\ [BitEditorNext]_beVars /\ [RegisterEditorNext]_reVars
<1> DEFINE Steps == /\ [PowerNext]_psVars /\ [AppNext]_axVars
                    /\ [SensorsNext]_snVars /\ [BitEditorNext]_beVars /\ [RegisterEditorNext]_reVars
<1> SUFFICES ASSUME [MCNext]_<<part, dsVars, dlVars, tsVars, snVars, mkVars, maVars, edVars, exVars>>
             PROVE  Steps
  OBVIOUS
<1>1. /\ UNCHANGED maVars => UNCHANGED psVars
      /\ UNCHANGED exVars => UNCHANGED axVars
      /\ UNCHANGED edVars => UNCHANGED beVars /\ UNCHANGED reVars
      /\ UNCHANGED seVars => UNCHANGED snVars
  BY Zenon DEF maVars, exVars, edVars, seVars
<1>2. CASE UNCHANGED <<part, dsVars, dlVars, tsVars, snVars, mkVars, maVars, edVars, exVars>>
  BY <1>1, <1>2, Zenon
<1>3. CASE MCNext
  BY <1>1, <1>3, Zenon DEF MCNext
<1> QED
  BY <1>2, <1>3

(* Whatever else runs, the power saver follows the scheme and the median of  *)
(* its samples, and the exit uses no object before it is made or after it is *)
(* deleted, for every value of the constants.                                *)
THEOREM PowerAndExitAreSafe == MCSpec => []PowerAndExitSafe
<1>1. MCInit => PsInv /\ AxInv
  BY PsInit, AxInit DEF MCInit
<1>2. PsInv /\ AxInv /\ [MCNext]_<<part, dsVars, dlVars, tsVars, snVars, mkVars, maVars, edVars, exVars>>
        => PsInv' /\ AxInv'
  BY StepsOfParts, PsKeeps, AxKeeps
<1>3. PsInv /\ AxInv => PowerAndExitSafe
  BY PsMeans, AxMeans DEF PowerAndExitSafe
<1> QED
  BY <1>1, <1>2, <1>3, PTL DEF MCSpec

(* Whatever else runs, a mean is of all the measurements it is of, the graph *)
(* of the latest ends with them, and an edit of bits reads a text that is not*)
(* there only where the dialog has too few inputs: for any resolution, any   *)
(* number of measurements, rows and fields.                                  *)
THEOREM SensorsAndBitsAreSafe == MCSpec => []SensorsAndBitsSafe
<1>1. MCInit => SnInv /\ BeInv /\ ReInv
  BY SnInit, BeInit, ReInit DEF MCInit
<1>2. SnInv /\ BeInv /\ ReInv /\ [MCNext]_<<part, dsVars, dlVars, tsVars, snVars, mkVars, maVars, edVars, exVars>>
        => SnInv' /\ BeInv' /\ ReInv'
  BY StepsOfParts, SnKeeps, BeKeeps, ReKeeps
<1>3. SnInv /\ BeInv /\ ReInv => SensorsAndBitsSafe
  BY SnMeans, BeMeans, ReMeans DEF SensorsAndBitsSafe
<1> QED
  BY <1>1, <1>2, <1>3, PTL DEF MCSpec
=============================================================================
