---------------------------- MODULE PacketStreams ----------------------------
(***************************************************************************)
(* Lemmas about the sequences that the models of connections, login and    *)
(* launcher pass packets and records in: one recv takes n packets of a     *)
(* stream, a thread the head of a queue or of a pool, and a triggered      *)
(* thread leaves the list of its kind.                                     *)
(***************************************************************************)
EXTENDS Naturals, Integers, Sequences, SequencesExt, SequenceTheorems, TLAPS

(* What follows the first n.                                                *)
After(s, n) == SubSeq(s, n + 1, Len(s))

(* Whether e is there, and there once at most.                              *)
In(s, e) == \E i \in DOMAIN s : s[i] = e
Once(s, e) == \A i, j \in DOMAIN s : s[i] = e /\ s[j] = e => i = j

LEMMA Rest ==
  ASSUME NEW S, NEW s \in Seq(S), NEW n \in 1..Len(s)
  PROVE  /\ Head(s) = s[1] /\ s[1] \in S /\ 1 \in DOMAIN s
         /\ After(s, n) \in Seq(S)
         /\ \A i \in DOMAIN After(s, n) :
              After(s, n)[i] = s[i + n] /\ i + n \in DOMAIN s /\ i + n > n
         /\ \A i \in DOMAIN s : i > n => \E j \in DOMAIN After(s, n) : i = j + n
<1> DEFINE L == Len(s)
           r == After(s, n)
<1>1. L \in Nat /\ DOMAIN s = 1..L /\ s # <<>> /\ n \in Int /\ n >= 1 /\ n <= L
  OBVIOUS
<1>2. Head(s) = s[1] /\ s[1] \in S
  BY <1>1, ElementOfSeq
<1>3. (n + 1) \in Int /\ L \in Int /\ (\A i \in (n + 1) .. L : s[i] \in S)
  BY <1>1, ElementOfSeq
<1>4. /\ r \in Seq(S)
      /\ Len(r) = IF n + 1 <= L THEN L - (n + 1) + 1 ELSE 0
      /\ \A i \in 1 .. L - (n + 1) + 1 : r[i] = s[n + 1 + i - 1]
  BY <1>3, SubSeqProperties DEF After
<1> HIDE DEF L, r
<1>5. Len(r) = L - n
  BY <1>1, <1>4
<1>6. DOMAIN r = 1 .. L - n
  BY <1>4, <1>5, LenProperties
<1>7. ASSUME NEW i \in DOMAIN r PROVE r[i] = s[i + n] /\ i + n \in DOMAIN s /\ i + n > n
  <2>1. i \in 1 .. L - (n + 1) + 1 /\ n + 1 + i - 1 = i + n
    BY <1>1, <1>6
  <2>2. r[i] = s[n + 1 + i - 1]
    BY <1>4, <2>1
  <2>3. r[i] = s[i + n]
    BY <2>1, <2>2
  <2>4. QED
    BY <1>1, <1>6, <2>3
<1>8. ASSUME NEW i \in DOMAIN s, i > n PROVE i - n \in DOMAIN r /\ i = (i - n) + n
  BY <1>1, <1>6, <1>8
<1>9. QED
  BY <1>1, <1>2, <1>4, <1>7, <1>8 DEF r

(* What the head and the rest of a stream hold, the stream held.            *)
LEMMA RestIn ==
  ASSUME NEW S, NEW s \in Seq(S), NEW n \in 1..Len(s), NEW e
  PROVE  /\ In(s, Head(s))
         /\ In(After(s, n), e) => In(s, e)
         /\ Once(s, e) => Once(After(s, n), e) /\ ~(Head(s) = e /\ In(After(s, n), e))
         /\ In(s, e) => Head(s) = e \/ In(After(s, n), e) \/ \E j \in 2..n : s[j] = e
<1> DEFINE r == After(s, n)
<1>1. /\ Head(s) = s[1] /\ 1 \in DOMAIN s
      /\ \A i \in DOMAIN r : r[i] = s[i + n] /\ i + n \in DOMAIN s /\ i + n > n
      /\ \A i \in DOMAIN s : i > n => \E j \in DOMAIN r : i = j + n
  BY Rest
<1>2. n \in Int /\ n >= 1 /\ DOMAIN s \subseteq Nat \ {0}
  OBVIOUS
<1>3. DOMAIN r \subseteq Int
  <2>1. r \in Seq(S)
    BY Rest
  <2>2. QED
    BY <2>1, LenProperties
<1> HIDE DEF r
<1>4. In(s, Head(s)) /\ (In(r, e) => In(s, e))
  BY <1>1 DEF In
<1>5. ASSUME Once(s, e), NEW i \in DOMAIN r, NEW j \in DOMAIN r, r[i] = e, r[j] = e PROVE i = j
  <2>1. i + n = j + n
    BY <1>1, <1>5 DEF Once
  <2>2. QED
    BY <2>1, <1>2, <1>3
<1>6. ASSUME Once(s, e), Head(s) = e, NEW i \in DOMAIN r, r[i] = e PROVE FALSE
  <2>1. i + n = 1
    BY <1>1, <1>6 DEF Once
  <2>2. QED
    BY <2>1, <1>1, <1>2, <1>3
<1>7. ASSUME NEW i \in DOMAIN s, s[i] = e, Head(s) # e, ~In(r, e) PROVE i \in 2..n
  <2>1. i # 1
    BY <1>1, <1>7
  <2>2. ~(i > n)
    BY <1>1, <1>7 DEF In
  <2>3. QED
    BY <2>1, <2>2, <1>2
<1>8. Once(s, e) => Once(r, e)
  BY <1>5 DEF Once
<1>9. Once(s, e) => ~(Head(s) = e /\ In(r, e))
  BY <1>6 DEF In
<1>10. In(s, e) => Head(s) = e \/ In(r, e) \/ \E j \in 2..n : s[j] = e
  <2>1. SUFFICES ASSUME In(s, e), Head(s) # e, ~In(r, e) PROVE \E j \in 2..n : s[j] = e
    OBVIOUS
  <2>2. PICK i \in DOMAIN s : s[i] = e
    BY <2>1 DEF In
  <2>3. QED
    BY <2>1, <2>2, <1>7
<1>11. QED
  BY <1>4, <1>8, <1>9, <1>10 DEF r

LEMMA Appended ==
  ASSUME NEW S, NEW s \in Seq(S), NEW x \in S
  PROVE  Append(s, x) \in Seq(S)
BY AppendProperties

LEMMA AppendedIn ==
  ASSUME NEW S, NEW s \in Seq(S), NEW x \in S, NEW e
  PROVE  /\ In(Append(s, x), e) <=> In(s, e) \/ x = e
         /\ Once(s, e) /\ ~(x = e /\ In(s, e)) => Once(Append(s, x), e)
<1> DEFINE t == Append(s, x)
           l == Len(s) + 1
<1>1. /\ DOMAIN t = DOMAIN s \cup {l} /\ l \notin DOMAIN s /\ t[l] = x
      /\ \A i \in DOMAIN s : t[i] = s[i]
  BY AppendProperties, LenProperties
<1> HIDE DEF t, l
<1>2. In(t, e) <=> In(s, e) \/ x = e
  BY <1>1 DEF In
<1>3. Once(s, e) /\ ~(x = e /\ In(s, e)) => Once(t, e)
  BY <1>1 DEF In, Once
<1>4. QED
  BY <1>2, <1>3 DEF t

LEMMA Tailed ==
  ASSUME NEW S, NEW s \in Seq(S), s # <<>>
  PROVE  Tail(s) = After(s, 1) /\ 1 \in 1..Len(s)
<1>1. Len(s) \in Nat /\ Len(s) # 0
  BY LenProperties, EmptySeq
<1>2. QED
  BY <1>1 DEF After

(* A triggered thread leaves the list of its kind: the others close up.     *)
LEMMA Removed ==
  ASSUME NEW S, NEW s \in Seq(S), NEW i \in DOMAIN s
  PROVE  /\ RemoveAt(s, i) \in Seq(S)
         /\ \A j \in DOMAIN s : /\ j < i => j \in DOMAIN RemoveAt(s, i) /\ RemoveAt(s, i)[j] = s[j]
                                /\ j > i => j - 1 \in DOMAIN RemoveAt(s, i)
                                            /\ RemoveAt(s, i)[j - 1] = s[j]
         /\ \A j \in DOMAIN RemoveAt(s, i) :
              /\ j < i => j \in DOMAIN s /\ RemoveAt(s, i)[j] = s[j]
              /\ ~(j < i) => j + 1 \in DOMAIN s /\ j + 1 > i /\ RemoveAt(s, i)[j] = s[j + 1]
<1> DEFINE L == Len(s)
           a == SubSeq(s, 1, i - 1)
           b == SubSeq(s, i + 1, Len(s))
           r == RemoveAt(s, i)
<1>1. L \in Nat /\ DOMAIN s = 1..L /\ i \in Int /\ 1 <= i /\ i <= L
  OBVIOUS
<1>2. \A j \in 1..L : s[j] \in S
  BY <1>1, ElementOfSeq
<1>3. /\ a \in Seq(S) /\ Len(a) = i - 1
      /\ \A j \in 1..(i - 1) : a[j] = s[j]
  <2>1. 1 \in Int /\ (i - 1) \in Int /\ \A j \in 1..(i - 1) : s[j] \in S
    BY <1>1, <1>2
  <2>2. /\ SubSeq(s, 1, i - 1) \in Seq(S)
        /\ Len(SubSeq(s, 1, i - 1)) = IF 1 <= i - 1 THEN (i - 1) - 1 + 1 ELSE 0
        /\ \A j \in 1 .. ((i - 1) - 1 + 1) : SubSeq(s, 1, i - 1)[j] = s[1 + j - 1]
    BY <2>1, SubSeqProperties
  <2>3. \A j \in 1..(i - 1) : j \in 1 .. ((i - 1) - 1 + 1) /\ 1 + j - 1 = j
    BY <1>1
  <2> HIDE DEF a
  <2>4. a \in Seq(S) /\ Len(a) = i - 1
    BY <2>2, <1>1 DEF a
  <2>5. ASSUME NEW j \in 1..(i - 1) PROVE a[j] = s[j]
    BY <2>2, <2>3, <2>5 DEF a
  <2>6. QED
    BY <2>4, <2>5
<1>4. /\ b \in Seq(S) /\ Len(b) = L - i
      /\ \A j \in 1..(L - i) : b[j] = s[i + j]
  <2>1. (i + 1) \in Int /\ L \in Int /\ \A j \in (i + 1)..L : s[j] \in S
    BY <1>1, <1>2
  <2>2. /\ SubSeq(s, i + 1, L) \in Seq(S)
        /\ Len(SubSeq(s, i + 1, L)) = IF i + 1 <= L THEN L - (i + 1) + 1 ELSE 0
        /\ \A j \in 1 .. (L - (i + 1) + 1) : SubSeq(s, i + 1, L)[j] = s[(i + 1) + j - 1]
    BY <2>1, SubSeqProperties
  <2>3. \A j \in 1..(L - i) : j \in 1 .. (L - (i + 1) + 1) /\ (i + 1) + j - 1 = i + j
    BY <1>1
  <2>4. b \in Seq(S) /\ Len(b) = L - i
    BY <2>2, <1>1
  <2> HIDE DEF b, L
  <2>5. ASSUME NEW j \in 1..(L - i) PROVE b[j] = s[i + j]
    BY <2>2, <2>3, <2>5 DEF b, L
  <2>6. QED
    BY <2>4, <2>5
<1>5. r = a \o b
  BY DEF RemoveAt
<1> HIDE DEF a, b, r, L
<1>6. /\ r \in Seq(S) /\ Len(r) = Len(a) + Len(b)
      /\ \A j \in 1 .. Len(a) + Len(b) : r[j] = IF j <= Len(a) THEN a[j] ELSE b[j - Len(a)]
  BY <1>3, <1>4, <1>5, ConcatProperties
<1>7. DOMAIN r = 1..(L - 1)
  <2>1. Len(r) = L - 1
    BY <1>1, <1>3, <1>4, <1>6
  <2>2. QED
    BY <2>1, <1>6, LenProperties
<1>8. ASSUME NEW j \in 1..(L - 1) PROVE r[j] = IF j < i THEN s[j] ELSE s[j + 1]
  <2>1. r[j] = IF j <= i - 1 THEN a[j] ELSE b[j - (i - 1)]
    <3>1. j \in 1 .. Len(a) + Len(b)
      BY <1>1, <1>3, <1>4, <1>8
    <3>2. r[j] = IF j <= Len(a) THEN a[j] ELSE b[j - Len(a)]
      BY <1>6, <3>1
    <3>3. QED
      BY <1>3, <3>2
  <2>2. CASE j < i
    BY <2>1, <2>2, <1>1, <1>3
  <2>3. CASE ~(j < i)
    <3>1. j - (i - 1) \in 1..(L - i) /\ i + (j - (i - 1)) = j + 1
      BY <2>3, <1>1, <1>8
    <3>2. b[j - (i - 1)] = s[j + 1]
      BY <3>1, <1>4
    <3>3. QED
      BY <2>1, <2>3, <3>2, <1>1, <1>8
  <2>4. QED
    BY <2>2, <2>3
<1>9. ASSUME NEW j \in DOMAIN s
      PROVE  /\ j < i => j \in DOMAIN r /\ r[j] = s[j]
             /\ j > i => j - 1 \in DOMAIN r /\ r[j - 1] = s[j]
  BY <1>1, <1>7, <1>8, <1>9
<1>10. ASSUME NEW j \in DOMAIN r
       PROVE  /\ j < i => j \in DOMAIN s /\ r[j] = s[j]
              /\ ~(j < i) => j + 1 \in DOMAIN s /\ j + 1 > i /\ r[j] = s[j + 1]
  BY <1>1, <1>7, <1>8, <1>10
<1>11. QED
  BY <1>6, <1>9, <1>10 DEF r

LEMMA RemovedIn ==
  ASSUME NEW S, NEW s \in Seq(S), NEW i \in DOMAIN s, NEW e
  PROVE  /\ In(RemoveAt(s, i), e) => In(s, e)
         /\ In(s, e) /\ s[i] # e => In(RemoveAt(s, i), e)
         /\ Once(s, e) => Once(RemoveAt(s, i), e) /\ ~(s[i] = e /\ In(RemoveAt(s, i), e))
<1> DEFINE r == RemoveAt(s, i)
<1>1. /\ r \in Seq(S)
      /\ \A j \in DOMAIN s : /\ j < i => j \in DOMAIN r /\ r[j] = s[j]
                             /\ j > i => j - 1 \in DOMAIN r /\ r[j - 1] = s[j]
      /\ \A j \in DOMAIN r : /\ j < i => j \in DOMAIN s /\ r[j] = s[j]
                             /\ ~(j < i) => j + 1 \in DOMAIN s /\ j + 1 > i /\ r[j] = s[j + 1]
  BY Removed, Zenon
<1>2. DOMAIN s \subseteq Int /\ DOMAIN r \subseteq Int
  BY <1>1, LenProperties
<1> HIDE DEF r
<1>3. In(r, e) => In(s, e)
  BY <1>1 DEF In
<1>4. In(s, e) /\ s[i] # e => In(r, e)
  <2>1. \A j \in DOMAIN s : j = i \/ j < i \/ j > i
    BY <1>2
  <2>2. QED
    BY <1>1, <2>1 DEF In
<1>5. ASSUME Once(s, e), NEW j \in DOMAIN r, NEW k \in DOMAIN r, r[j] = e, r[k] = e PROVE j = k
  <2> DEFINE at(l) == IF l < i THEN l ELSE l + 1
  <2>1. at(j) \in DOMAIN s /\ s[at(j)] = e /\ at(k) \in DOMAIN s /\ s[at(k)] = e
    BY <1>1, <1>5
  <2>2. at(j) = at(k)
    <3> HIDE DEF at
    <3>1. QED
      BY <1>5, <2>1 DEF Once
  <2>3. QED
    BY <2>2, <1>2
<1>6. ASSUME Once(s, e), s[i] = e, NEW j \in DOMAIN r, r[j] = e PROVE FALSE
  <2> DEFINE l == IF j < i THEN j ELSE j + 1
  <2>1. l \in DOMAIN s /\ s[l] = e /\ l # i
    BY <1>1, <1>2, <1>6
  <2> HIDE DEF l
  <2>2. QED
    BY <1>6, <2>1 DEF Once
<1>7. Once(s, e) => Once(r, e)
  BY <1>5 DEF Once
<1>8. Once(s, e) => ~(s[i] = e /\ In(r, e))
  BY <1>6 DEF In
<1>9. QED
  BY <1>3, <1>4, <1>7, <1>8 DEF r

(* The last of s that is in T, if there is one, is e.                       *)
LastIs(s, T, e) ==
  \A i \in DOMAIN s : s[i] \in T /\ (\A j \in DOMAIN s : j > i => s[j] \notin T) => s[i] = e
Free(s, T) == \A i \in DOMAIN s : s[i] \notin T

LEMMA AppendedLast ==
  ASSUME NEW S, NEW s \in Seq(S), NEW x \in S, NEW T, NEW e
  PROVE  /\ Append(s, x) \in Seq(S)
         /\ x \in T => LastIs(Append(s, x), T, x) /\ ~Free(Append(s, x), T)
         /\ x \notin T /\ LastIs(s, T, e) => LastIs(Append(s, x), T, e)
         /\ x \notin T => (Free(Append(s, x), T) <=> Free(s, T))
<1> DEFINE t == Append(s, x)
           l == Len(s) + 1
<1>1. /\ DOMAIN t = DOMAIN s \cup {l} /\ t[l] = x /\ t \in Seq(S)
      /\ \A i \in DOMAIN s : t[i] = s[i]
  BY AppendProperties, LenProperties
<1>2. \A i \in DOMAIN s : l > i /\ ~(i > l)
  BY LenProperties
<1>3. ~(l > l)
  BY LenProperties
<1> HIDE DEF t, l
<1>4. x \in T => LastIs(t, T, x) /\ ~Free(t, T)
  BY <1>1, <1>2 DEF LastIs, Free
<1>5. x \notin T /\ LastIs(s, T, e) => LastIs(t, T, e)
  BY <1>1, <1>2 DEF LastIs
<1>6. x \notin T => (Free(t, T) <=> Free(s, T))
  BY <1>1 DEF Free
<1>7. QED
  BY <1>1, <1>4, <1>5, <1>6 DEF t

LEMMA RestLast ==
  ASSUME NEW S, NEW s \in Seq(S), NEW n \in 1..Len(s), NEW T, NEW e, LastIs(s, T, e)
  PROVE  LastIs(After(s, n), T, e)
<1> DEFINE r == After(s, n)
<1>1. /\ \A i \in DOMAIN r : r[i] = s[i + n] /\ i + n \in DOMAIN s
      /\ \A i \in DOMAIN s : i > n => \E j \in DOMAIN r : i = j + n
      /\ r \in Seq(S)
  BY Rest
<1>2. n \in Int /\ DOMAIN s \subseteq Nat /\ DOMAIN r \subseteq Nat
  BY <1>1, LenProperties
<1> HIDE DEF r
<1>3. SUFFICES ASSUME NEW i \in DOMAIN r, r[i] \in T, \A j \in DOMAIN r : j > i => r[j] \notin T
               PROVE  r[i] = e
  BY DEF LastIs, r
<1>4. ASSUME NEW k \in DOMAIN s, k > i + n PROVE s[k] \notin T
  <2>1. k > n
    BY <1>2, <1>4
  <2>2. PICK j \in DOMAIN r : k = j + n
    BY <1>1, <2>1
  <2>3. j > i
    BY <1>2, <1>4, <2>2
  <2>4. QED
    BY <1>1, <1>3, <2>2, <2>3
<1>5. QED
  BY <1>1, <1>3, <1>4 DEF LastIs

(* The one that goes was the last, or there is a later one.                 *)
LEMMA RestFree ==
  ASSUME NEW S, NEW s \in Seq(S), s # <<>>, NEW T, NEW e, LastIs(s, T, e)
  PROVE  /\ Free(After(s, 1), T) /\ Head(s) \in T => Head(s) = e
         /\ Head(s) \notin T => (Free(After(s, 1), T) <=> Free(s, T))
<1> DEFINE r == After(s, 1)
<1>1. 1 \in 1..Len(s)
  BY Tailed
<1>2. /\ Head(s) = s[1] /\ 1 \in DOMAIN s
      /\ \A i \in DOMAIN r : r[i] = s[i + 1] /\ i + 1 \in DOMAIN s
      /\ \A i \in DOMAIN s : i > 1 => \E j \in DOMAIN r : i = j + 1
  BY <1>1, Rest
<1>3. \A i \in DOMAIN s : i = 1 \/ i > 1
  BY LenProperties
<1> HIDE DEF r
<1>4. Free(r, T) => \A j \in DOMAIN s : j > 1 => s[j] \notin T
  BY <1>2 DEF Free
<1>5. Free(r, T) /\ Head(s) \in T => Head(s) = e
  BY <1>2, <1>4 DEF LastIs
<1>6. Head(s) \notin T => (Free(r, T) <=> Free(s, T))
  BY <1>2, <1>3 DEF Free
<1>7. QED
  BY <1>5, <1>6 DEF r

LEMMA RemovedLast ==
  ASSUME NEW S, NEW s \in Seq(S), NEW i \in DOMAIN s, NEW T, NEW e, LastIs(s, T, e)
  PROVE  /\ s[i] \notin T => LastIs(RemoveAt(s, i), T, e) /\ (Free(RemoveAt(s, i), T) <=> Free(s, T))
         /\ s[i] \in T /\ Free(RemoveAt(s, i), T) => s[i] = e
         /\ (\E j \in DOMAIN s : j < i /\ s[j] \in T)
              \/ Free(RemoveAt(s, i), T) \/ LastIs(RemoveAt(s, i), T, e)
<1> DEFINE r == RemoveAt(s, i)
<1>1. /\ r \in Seq(S)
      /\ \A j \in DOMAIN s : /\ j < i => j \in DOMAIN r /\ r[j] = s[j]
                             /\ j > i => j - 1 \in DOMAIN r /\ r[j - 1] = s[j]
      /\ \A j \in DOMAIN r : /\ j < i => j \in DOMAIN s /\ r[j] = s[j]
                             /\ ~(j < i) => j + 1 \in DOMAIN s /\ j + 1 > i /\ r[j] = s[j + 1]
  BY Removed, Zenon
<1>2. DOMAIN s \subseteq Int /\ DOMAIN r \subseteq Int /\ i \in Int
  BY <1>1, LenProperties
<1>3. \A j \in DOMAIN s : j = i \/ j < i \/ j > i
  BY <1>2
<1> HIDE DEF r
<1> DEFINE at(l) == IF l < i THEN l ELSE l + 1
<1>4. \A j \in DOMAIN r : at(j) \in DOMAIN s /\ at(j) # i /\ r[j] = s[at(j)]
  BY <1>1, <1>2
<1>5. ASSUME NEW k \in DOMAIN s, k # i PROVE \E j \in DOMAIN r : at(j) = k
  <2>1. CASE k < i
    BY <2>1, <1>1
  <2>2. CASE k > i
    <3>1. k - 1 \in DOMAIN r /\ at(k - 1) = k
      BY <2>2, <1>1, <1>2
    <3>2. QED
      BY <3>1
  <2>3. QED
    BY <1>3, <1>5, <2>1, <2>2
<1>6. \A j, k \in DOMAIN r : at(k) > at(j) => k > j
  BY <1>2
<1> HIDE DEF at
<1>7. s[i] \notin T => (Free(r, T) <=> Free(s, T))
  BY <1>4, <1>5 DEF Free
<1>8. ASSUME NEW j \in DOMAIN r, r[j] \in T, \A k \in DOMAIN r : k > j => r[k] \notin T,
             s[i] \notin T \/ at(j) > i
      PROVE  r[j] = e
  <2>1. ASSUME NEW k \in DOMAIN s, k > at(j) PROVE s[k] \notin T
    <3>1. CASE k = i
      <4>1. ~(at(j) > i)
        BY <2>1, <3>1, <1>2, <1>4
      <4>2. QED
        BY <4>1, <1>8, <3>1
    <3>2. CASE k # i
      <4>1. PICK l \in DOMAIN r : at(l) = k
        BY <1>5, <3>2
      <4>2. l > j
        BY <1>6, <2>1, <4>1
      <4>3. QED
        BY <1>4, <1>8, <4>1, <4>2
    <3>3. QED
      BY <3>1, <3>2
  <2>2. QED
    BY <1>4, <1>8, <2>1 DEF LastIs
<1>9. s[i] \notin T => LastIs(r, T, e)
  BY <1>8 DEF LastIs
<1>10. s[i] \in T /\ Free(r, T) => s[i] = e
  <2>1. Free(r, T) => \A k \in DOMAIN s : k > i => s[k] \notin T
    <3>1. SUFFICES ASSUME Free(r, T), NEW k \in DOMAIN s, k > i PROVE s[k] \notin T
      OBVIOUS
    <3>2. k # i
      BY <1>2, <3>1
    <3>3. PICK j \in DOMAIN r : at(j) = k
      BY <1>5, <3>2
    <3>4. QED
      BY <1>4, <3>1, <3>3 DEF Free
  <2>2. QED
    BY <2>1 DEF LastIs
<1>11. (\E j \in DOMAIN s : j < i /\ s[j] \in T) \/ LastIs(r, T, e)
  <2>1. SUFFICES ASSUME \A j \in DOMAIN s : j < i => s[j] \notin T PROVE LastIs(r, T, e)
    OBVIOUS
  <2>2. \A j \in DOMAIN r : r[j] \in T => at(j) > i
    BY <1>3, <1>4, <2>1
  <2>3. QED
    BY <1>8, <2>2 DEF LastIs
<1>12. QED
  BY <1>7, <1>9, <1>10, <1>11 DEF r
=============================================================================
