---------------------------- MODULE SequenceLemmas ----------------------------
(***************************************************************************)
(* What the proofs about the lists of the program need of sequences: the   *)
(* vector::erase of one element, and push_back.                            *)
(***************************************************************************)
EXTENDS Integers, SequencesExt, SequenceTheorems, WellFoundedInduction, TLAPS

(* RemoveAt takes one element away and keeps the order of the others.      *)
LEMMA RemovedAt ==
    ASSUME NEW S, NEW s \in Seq(S), NEW i \in DOMAIN s
    PROVE  /\ RemoveAt(s, i) \in Seq(S)
           /\ Len(RemoveAt(s, i)) = Len(s) - 1
           /\ \A j \in 1 .. Len(s) - 1 :
                 RemoveAt(s, i)[j] = IF j < i THEN s[j] ELSE s[j + 1]
<1> DEFINE front == SubSeq(s, 1, i - 1)
           back == SubSeq(s, i + 1, Len(s))
<1>1. /\ Len(s) \in Nat /\ DOMAIN s = 1 .. Len(s) /\ i \in 1 .. Len(s)
      /\ \A j \in 1 .. Len(s) : s[j] \in S
  OBVIOUS
<1>2. /\ front \in Seq(S) /\ Len(front) = i - 1
      /\ \A j \in 1 .. i - 1 : front[j] = s[j]
  <2>1. /\ front \in Seq(S) /\ Len(front) = IF 1 <= i - 1 THEN (i - 1) - 1 + 1 ELSE 0
        /\ \A j \in 1 .. (i - 1) - 1 + 1 : front[j] = s[1 + j - 1]
    <3>1. 1 \in Int /\ i - 1 \in Int /\ \A j \in 1 .. i - 1 : s[j] \in S
      BY <1>1
    <3>2. QED
      BY <3>1, SubSeqProperties
  <2> HIDE DEF front
  <2>2. QED
    BY <1>1, <2>1
<1>3. /\ back \in Seq(S) /\ Len(back) = Len(s) - i
      /\ \A j \in 1 .. Len(s) - i : back[j] = s[i + j]
  <2>1. /\ back \in Seq(S)
        /\ Len(back) = IF i + 1 <= Len(s) THEN Len(s) - (i + 1) + 1 ELSE 0
        /\ \A j \in 1 .. Len(s) - (i + 1) + 1 : back[j] = s[(i + 1) + j - 1]
    <3>1. i + 1 \in Int /\ Len(s) \in Int /\ \A j \in i + 1 .. Len(s) : s[j] \in S
      BY <1>1
    <3>2. QED
      BY <3>1, SubSeqProperties
  <2> HIDE DEF back
  <2>2. Len(back) = Len(s) - i
    BY <1>1, <2>1
  <2>3. ASSUME NEW j \in 1 .. Len(s) - i
        PROVE  back[j] = s[i + j]
    <3>1. j \in 1 .. Len(s) - (i + 1) + 1 /\ (i + 1) + j - 1 = i + j
      BY <1>1
    <3>2. back[j] = s[(i + 1) + j - 1]
      BY <2>1, <3>1
    <3>3. QED
      BY <3>1, <3>2
  <2>4. QED
    BY <2>1, <2>2, <2>3
<1>4. RemoveAt(s, i) = front \o back
  BY DEF RemoveAt
<1> HIDE DEF front, back
<1>5. /\ front \o back \in Seq(S) /\ Len(front \o back) = Len(front) + Len(back)
      /\ \A j \in 1 .. Len(front) + Len(back) :
            (front \o back)[j] = IF j <= Len(front) THEN front[j] ELSE back[j - Len(front)]
  BY <1>2, <1>3, ConcatProperties
<1> DEFINE r == front \o back
<1>6. r \in Seq(S) /\ Len(r) = Len(s) - 1
  BY <1>1, <1>2, <1>3, <1>5
<1>7. ASSUME NEW j \in 1 .. Len(s) - 1
      PROVE  r[j] = IF j < i THEN s[j] ELSE s[j + 1]
  <2>1. r[j] = IF j <= i - 1 THEN front[j] ELSE back[j - (i - 1)]
    BY <1>1, <1>2, <1>3, <1>5
  <2>2. CASE j < i
    BY <1>1, <1>2, <2>1, <2>2
  <2>3. CASE ~ (j < i)
    <3>1. j - (i - 1) \in 1 .. Len(s) - i /\ i + (j - (i - 1)) = j + 1
      BY <1>1, <2>3
    <3>2. back[j - (i - 1)] = s[j + 1]
      BY <1>3, <3>1
    <3>3. QED
      BY <1>1, <2>1, <2>3, <3>2
  <2>4. QED
    BY <2>2, <2>3
<1>8. QED
  BY <1>4, <1>6, <1>7

(* From a sequence without repetitions it takes the element away for good. *)
LEMMA RemovedOnce ==
    ASSUME NEW S, NEW s \in Seq(S), IsInjective(s), NEW i \in DOMAIN s
    PROVE  /\ IsInjective(RemoveAt(s, i))
           /\ ToSet(RemoveAt(s, i)) = ToSet(s) \ {s[i]}
<1> DEFINE r == RemoveAt(s, i)
<1>1. /\ Len(s) \in Nat \ {0} /\ DOMAIN s = 1 .. Len(s) /\ i \in 1 .. Len(s)
  OBVIOUS
<1>2. /\ r \in Seq(S) /\ Len(r) = Len(s) - 1
      /\ \A j \in 1 .. Len(s) - 1 : r[j] = IF j < i THEN s[j] ELSE s[j + 1]
  BY RemovedAt
<1> HIDE DEF r
<1>3. DOMAIN r = 1 .. Len(s) - 1
  BY <1>1, <1>2
<1>4. \A j, k \in 1 .. Len(s) : s[j] = s[k] => j = k
  BY <1>1 DEF IsInjective
<1>5. IsInjective(r)
  BY <1>1, <1>2, <1>3, <1>4 DEF IsInjective
<1>6. ASSUME NEW j \in DOMAIN r
      PROVE  \E k \in DOMAIN s : r[j] = s[k] /\ k # i
  BY <1>1, <1>2, <1>3
<1>7. ASSUME NEW k \in DOMAIN s, k # i
      PROVE  \E j \in DOMAIN r : r[j] = s[k]
  <2>1. CASE k < i
    BY <1>1, <1>2, <1>3, <2>1
  <2>2. CASE k > i
    <3>1. k - 1 \in DOMAIN r /\ ~(k - 1 < i) /\ (k - 1) + 1 = k
      BY <1>1, <1>3, <2>2
    <3>2. r[k - 1] = s[k]
      BY <1>2, <1>3, <3>1
    <3>3. QED
      BY <3>1, <3>2
  <2>3. QED
    BY <1>1, <1>7, <2>1, <2>2
<1>8. ToSet(r) = ToSet(s) \ {s[i]}
  BY <1>1, <1>4, <1>6, <1>7 DEF ToSet
<1>9. QED
  BY <1>5, <1>8 DEF r

(* A sequence split after its k-th element.                                *)
LEMMA SplitAfter ==
    ASSUME NEW S, NEW s \in Seq(S), NEW k \in 0 .. Len(s)
    PROVE  /\ SubSeq(s, 1, k) \in Seq(S) /\ Len(SubSeq(s, 1, k)) = k
           /\ \A i \in 1 .. k : SubSeq(s, 1, k)[i] = s[i]
           /\ SubSeq(s, k + 1, Len(s)) \in Seq(S)
           /\ Len(SubSeq(s, k + 1, Len(s))) = Len(s) - k
           /\ \A i \in 1 .. Len(s) - k : SubSeq(s, k + 1, Len(s))[i] = s[k + i]
<1> DEFINE first == SubSeq(s, 1, k)
           rest == SubSeq(s, k + 1, Len(s))
<1>1. Len(s) \in Nat /\ k \in Nat /\ k <= Len(s) /\ \A i \in 1 .. Len(s) : s[i] \in S
  OBVIOUS
<1>2. /\ first \in Seq(S) /\ Len(first) = IF 1 <= k THEN k - 1 + 1 ELSE 0
      /\ \A i \in 1 .. k - 1 + 1 : first[i] = s[1 + i - 1]
  <2>1. 1 \in Int /\ k \in Int /\ \A i \in 1 .. k : s[i] \in S
    BY <1>1
  <2>2. QED
    BY <2>1, SubSeqProperties
<1>3. /\ rest \in Seq(S) /\ Len(rest) = IF k + 1 <= Len(s) THEN Len(s) - (k + 1) + 1 ELSE 0
      /\ \A i \in 1 .. Len(s) - (k + 1) + 1 : rest[i] = s[(k + 1) + i - 1]
  <2>1. k + 1 \in Int /\ Len(s) \in Int /\ \A i \in k + 1 .. Len(s) : s[i] \in S
    BY <1>1
  <2>2. QED
    BY <2>1, SubSeqProperties
<1> HIDE DEF first, rest
<1>4. Len(first) = k /\ \A i \in 1 .. k : first[i] = s[i]
  BY <1>1, <1>2
<1>5. Len(rest) = Len(s) - k
  BY <1>1, <1>3
<1>6. ASSUME NEW i \in 1 .. Len(s) - k PROVE rest[i] = s[k + i]
  <2>1. i \in 1 .. Len(s) - (k + 1) + 1 /\ (k + 1) + i - 1 = k + i
    BY <1>1
  <2>2. QED
    BY <1>3, <2>1
<1>7. QED
  BY <1>2, <1>3, <1>4, <1>5, <1>6 DEF first, rest

(* Whatever the sequence repeats, every other element stays.               *)
LEMMA RemovedKeeps ==
    ASSUME NEW S, NEW s \in Seq(S), NEW i \in DOMAIN s, NEW e \in ToSet(s), e # s[i]
    PROVE  e \in ToSet(RemoveAt(s, i))
<1> DEFINE r == RemoveAt(s, i)
<1>1. /\ Len(s) \in Nat \ {0} /\ DOMAIN s = 1 .. Len(s) /\ i \in 1 .. Len(s)
  OBVIOUS
<1>2. /\ r \in Seq(S) /\ Len(r) = Len(s) - 1
      /\ \A j \in 1 .. Len(s) - 1 : r[j] = IF j < i THEN s[j] ELSE s[j + 1]
  BY RemovedAt
<1> HIDE DEF r
<1>3. DOMAIN r = 1 .. Len(s) - 1
  BY <1>1, <1>2
<1>4. PICK k \in DOMAIN s : e = s[k]
  BY DEF ToSet
<1>5. \E j \in DOMAIN r : r[j] = e
  <2>1. CASE k < i
    BY <1>1, <1>2, <1>3, <1>4, <2>1
  <2>2. CASE ~ (k < i)
    <3>1. k - 1 \in DOMAIN r /\ ~ (k - 1 < i) /\ (k - 1) + 1 = k
      BY <1>1, <1>3, <1>4, <2>2
    <3>2. QED
      BY <1>2, <1>3, <1>4, <3>1
  <2>3. QED
    BY <2>1, <2>2
<1>6. QED
  BY <1>5 DEF r, ToSet

(* push_back adds one element.                                             *)
LEMMA AppendedTo ==
    ASSUME NEW S, NEW s \in Seq(S), NEW e \in S
    PROVE  Append(s, e) \in Seq(S) /\ ToSet(Append(s, e)) = ToSet(s) \cup {e}
<1> DEFINE r == Append(s, e)
<1>1. /\ r \in Seq(S) /\ Len(r) = Len(s) + 1 /\ r[Len(s) + 1] = e
      /\ \A i \in 1 .. Len(s) : r[i] = s[i]
  OBVIOUS
<1> HIDE DEF r
<1>2. /\ Len(s) \in Nat /\ DOMAIN s = 1 .. Len(s)
      /\ DOMAIN r = 1 .. Len(s) \cup {Len(s) + 1}
  BY <1>1
<1>3. ToSet(r) = ToSet(s) \cup {e}
  BY <1>1, <1>2 DEF ToSet
<1>4. QED
  BY <1>1, <1>3 DEF r

(* An element put behind or before all the others, and two that change     *)
(* places: the list holds the same, each once.                             *)
LEMMA MovedToBack ==
    ASSUME NEW S, NEW s \in Seq(S), IsInjective(s), NEW i \in DOMAIN s
    PROVE  LET r == Append(RemoveAt(s, i), s[i])
           IN  r \in Seq(S) /\ IsInjective(r) /\ ToSet(r) = ToSet(s)
<1> DEFINE q == RemoveAt(s, i)
<1>1. /\ q \in Seq(S) /\ s[i] \in S /\ s[i] \in ToSet(s)
      /\ IsInjective(q) /\ ToSet(q) = ToSet(s) \ {s[i]}
  <2>1. q \in Seq(S) /\ IsInjective(q) /\ ToSet(q) = ToSet(s) \ {s[i]}
    BY RemovedAt, RemovedOnce
  <2>2. s[i] \in S /\ s[i] \in ToSet(s)
    BY DEF ToSet
  <2>3. QED
    BY <2>1, <2>2
<1> HIDE DEF q
<1>2. Append(q, s[i]) \in Seq(S) /\ ToSet(Append(q, s[i])) = ToSet(q) \cup {s[i]}
  BY <1>1, AppendedTo
<1>3. IsInjective(Append(q, s[i]))
  <2>1. /\ DOMAIN q = 1 .. Len(q) /\ Len(q) \in Nat
        /\ DOMAIN Append(q, s[i]) = 1 .. Len(q) + 1
        /\ \A j \in 1 .. Len(q) : Append(q, s[i])[j] = q[j]
        /\ Append(q, s[i])[Len(q) + 1] = s[i]
    BY <1>1
  <2>2. \A j \in 1 .. Len(q) : q[j] # s[i]
    BY <1>1, <2>1 DEF ToSet
  <2>3. QED
    BY <1>1, <2>1, <2>2 DEF IsInjective
<1>4. QED
  BY <1>1, <1>2, <1>3 DEF q

LEMMA MovedToFront ==
    ASSUME NEW S, NEW s \in Seq(S), IsInjective(s), NEW i \in DOMAIN s
    PROVE  LET r == <<s[i]>> \o RemoveAt(s, i)
           IN  r \in Seq(S) /\ IsInjective(r) /\ ToSet(r) = ToSet(s)
<1> DEFINE q == RemoveAt(s, i)
           r == <<s[i]>> \o q
<1>1. /\ q \in Seq(S) /\ s[i] \in S /\ s[i] \in ToSet(s)
      /\ IsInjective(q) /\ ToSet(q) = ToSet(s) \ {s[i]}
  <2>1. q \in Seq(S) /\ IsInjective(q) /\ ToSet(q) = ToSet(s) \ {s[i]}
    BY RemovedAt, RemovedOnce
  <2>2. s[i] \in S /\ s[i] \in ToSet(s)
    BY DEF ToSet
  <2>3. QED
    BY <2>1, <2>2
<1> HIDE DEF q
<1>2. r \in Seq(S)
  BY <1>1
<1>3. /\ DOMAIN q = 1 .. Len(q) /\ Len(q) \in Nat
      /\ DOMAIN r = 1 .. Len(q) + 1 /\ r[1] = s[i]
      /\ \A j \in 2 .. Len(q) + 1 : r[j] = q[j - 1]
  BY <1>1
<1> HIDE DEF r
<1>4. \A j \in 1 .. Len(q) : q[j] # s[i]
  BY <1>1, <1>3 DEF ToSet
<1>5. IsInjective(r)
  <2> SUFFICES ASSUME NEW a \in 1 .. Len(q) + 1, NEW b \in 1 .. Len(q) + 1, r[a] = r[b]
               PROVE  a = b
    BY <1>3 DEF IsInjective
  <2>1. CASE a = 1 \/ b = 1
    <3>1. \A j \in 2 .. Len(q) + 1 : r[j] # r[1]
      BY <1>3, <1>4
    <3>2. QED
      BY <1>3, <2>1, <3>1
  <2>2. CASE a # 1 /\ b # 1
    <3>1. a - 1 \in DOMAIN q /\ b - 1 \in DOMAIN q /\ q[a - 1] = q[b - 1]
      BY <1>3, <2>2
    <3>2. a - 1 = b - 1
      BY <1>1, <3>1 DEF IsInjective
    <3>3. QED
      BY <1>3, <3>2
  <2>3. QED
    BY <2>1, <2>2
<1>6. ToSet(r) = ToSet(q) \cup {s[i]}
  <2>1. ASSUME NEW e \in ToSet(r) PROVE e \in ToSet(q) \cup {s[i]}
    <3>1. PICK j \in 1 .. Len(q) + 1 : e = r[j]
      BY <1>3 DEF ToSet
    <3>2. CASE j = 1
      BY <1>3, <3>1, <3>2
    <3>3. CASE j # 1
      <4>1. j - 1 \in 1 .. Len(q) /\ e = q[j - 1]
        BY <1>3, <3>1, <3>3
      <4>2. QED
        BY <1>3, <4>1 DEF ToSet
    <3>4. QED
      BY <3>2, <3>3
  <2>2. s[i] \in ToSet(r)
    <3>1. 1 \in DOMAIN r
      BY <1>3
    <3>2. QED
      BY <1>3, <3>1 DEF ToSet
  <2>3. ASSUME NEW e \in ToSet(q) PROVE e \in ToSet(r)
    <3>1. PICK j \in 1 .. Len(q) : e = q[j]
      BY <1>3 DEF ToSet
    <3>2. j + 1 \in DOMAIN r /\ r[j + 1] = q[j]
      BY <1>3
    <3>3. QED
      BY <3>1, <3>2 DEF ToSet
  <2>4. QED
    BY <2>1, <2>2, <2>3
<1>7. QED
  BY <1>1, <1>2, <1>5, <1>6 DEF q, r

LEMMA Exchanged ==
    ASSUME NEW S, NEW s \in Seq(S), IsInjective(s), NEW i \in 1 .. Len(s) - 1
    PROVE  LET r == [s EXCEPT ![i] = s[i + 1], ![i + 1] = s[i]]
           IN  r \in Seq(S) /\ IsInjective(r) /\ ToSet(r) = ToSet(s)
<1> DEFINE r == [s EXCEPT ![i] = s[i + 1], ![i + 1] = s[i]]
<1>1. /\ DOMAIN s = 1 .. Len(s) /\ Len(s) \in Nat /\ i \in DOMAIN s /\ i + 1 \in DOMAIN s
      /\ \A j \in DOMAIN s : s[j] \in S
  OBVIOUS
<1>2. /\ DOMAIN r = DOMAIN s /\ r[i] = s[i + 1] /\ r[i + 1] = s[i]
      /\ \A j \in DOMAIN s : j # i /\ j # i + 1 => r[j] = s[j]
  BY <1>1
<1>3. r = [j \in DOMAIN s |-> r[j]]
  BY <1>1
<1> HIDE DEF r
<1>4. \A j \in 1 .. Len(s) : r[j] \in S
  BY <1>1, <1>2
<1>5. r \in Seq(S)
  <2>1. r \in [1 .. Len(s) -> S]
    BY <1>1, <1>3, <1>4
  <2>2. QED
    BY <1>1, <2>1, SeqDef
<1>6. IsInjective(r)
  BY <1>1, <1>2 DEF IsInjective
<1>7. ToSet(r) = ToSet(s)
  <2>1. \A j \in DOMAIN r : \E k \in DOMAIN s : r[j] = s[k]
    BY <1>1, <1>2
  <2>2. \A k \in DOMAIN s : \E j \in DOMAIN r : r[j] = s[k]
    BY <1>1, <1>2
  <2>3. QED
    BY <2>1, <2>2 DEF ToSet
<1>8. QED
  BY <1>5, <1>6, <1>7 DEF r

-------------------------------------------------------------------------------
(* Numbers, and functions that are defined by recursion.                   *)

(* A set of numbers has a least one, and a bounded one a greatest.         *)
LEMMA LeastNat ==
    ASSUME NEW I, I \subseteq Nat, I # {}
    PROVE  \E m \in I : \A k \in I : m <= k
<1> DEFINE R == {p \in Nat \X Nat : p[1] < p[2]}
<1>1. IsWellFoundedOn(R, Nat)
  BY NatLessThanWellFounded DEF OpToRel
<1>2. \A x, y \in Nat : <<x, y>> \in R <=> x < y
  OBVIOUS
<1> HIDE DEF R
<1>3. PICK m \in I : \A y \in I : ~ (<<y, m>> \in R)
  BY <1>1, WFMin
<1>4. \A y \in I : ~ (y < m)
  BY <1>2, <1>3
<1>5. QED
  BY <1>4

LEMMA GreatestNat ==
    ASSUME NEW n \in Nat, NEW I, I \subseteq 1 .. n, I # {}
    PROVE  \E m \in I : \A k \in I : k <= m
<1> DEFINE J == {n - k : k \in I}
<1>1. J \subseteq Nat /\ J # {}
  <2>1. \A k \in I : n - k \in Nat
    OBVIOUS
  <2>2. PICK k \in I : TRUE
    OBVIOUS
  <2>3. n - k \in J
    OBVIOUS
  <2>4. QED
    BY <2>1, <2>3
<1>2. PICK j \in J : \A k \in J : j <= k
  BY <1>1, LeastNat
<1>3. PICK m \in I : j = n - m
  OBVIOUS
<1>4. \A k \in I : n - m <= n - k
  BY <1>2, <1>3
<1>5. QED
  BY <1>4

(* A function on D is defined by recursion: step makes its values of those *)
(* of lower rank, all of which are below n.                                *)
Recursion(D, Y, step, rank, n) ==
    /\ [D -> Y] # {} /\ step \in [[D -> Y] -> [D -> Y]]
    /\ rank \in [D -> Nat] /\ n \in Nat /\ \A x \in D : rank[x] < n
    /\ \A g, h \in [D -> Y], x \in D :
          (\A y \in D : rank[y] < rank[x] => g[y] = h[y]) => step[g][x] = step[h][x]

LEMMA FixedPoint ==
    ASSUME NEW D, NEW Y, NEW step, NEW rank, NEW n, Recursion(D, Y, step, rank, n)
    PROVE  \E g \in [D -> Y] : step[g] = g
<1> USE DEF Recursion
<1> DEFINE Upto(g, m) == \A x \in D : rank[x] < m => step[g][x] = g[x]
           I == {m \in Nat : ~ \E g \in [D -> Y] : Upto(g, m)}
<1>1. n \notin I
  <2> SUFFICES ASSUME I # {} PROVE FALSE
    BY DEF I
  <2>1. PICK m \in I : \A k \in I : m <= k
    BY LeastNat
  <2>2. m # 0
    <3>1. \A g \in [D -> Y] : Upto(g, 0)
      OBVIOUS
    <3>2. QED
      BY <2>1, <3>1
  <2>3. m - 1 \in Nat /\ m - 1 \notin I
    BY <2>1, <2>2
  <2>4. PICK g \in [D -> Y] : Upto(g, m - 1)
    BY <2>3
  <2>5. step[g] \in [D -> Y]
    OBVIOUS
  <2>6. Upto(step[g], m)
    <3> SUFFICES ASSUME NEW x \in D, rank[x] < m PROVE step[step[g]][x] = step[g][x]
      OBVIOUS
    <3>1. \A y \in D : rank[y] < rank[x] => step[g][y] = g[y]
      <4> SUFFICES ASSUME NEW y \in D, rank[y] < rank[x] PROVE step[g][y] = g[y]
        OBVIOUS
      <4>1. rank[y] \in Nat /\ rank[x] \in Nat /\ m \in Nat
        OBVIOUS
      <4>2. rank[y] < m - 1
        BY <4>1
      <4>3. QED
        BY <2>4, <4>2
    <3>2. QED
      BY <2>5, <3>1
  <2>7. QED
    BY <2>1, <2>5, <2>6
<1>2. PICK g \in [D -> Y] : Upto(g, n)
  BY <1>1
<1>3. \A x \in D : step[g][x] = g[x]
  BY <1>2
<1>4. step[g] \in [D -> Y]
  OBVIOUS
<1>5. QED
  BY <1>3, <1>4

===============================================================================
