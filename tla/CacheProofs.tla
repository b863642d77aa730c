----------------------------- MODULE CacheProofs -----------------------------
(***************************************************************************)
(* What MCCaches checks of the nine policies of the factory on a small     *)
(* instance, proved for every capacity, every set of keys and every size   *)
(* of a queue, a pool or a sketch that MCCaches and the policies assume.   *)
(*                                                                         *)
(* IInv, near the end, is the inductive invariant: each policy's own, for  *)
(* the one that was built. The lemmas of a policy carry its letter: U for  *)
(* LRU, B for FIFO, K for CLOCK, V for SIEVE, Q for 2Q, S for S3-FIFO, T   *)
(* for W-TinyLFU, A for ARC and L for LFU; X is for the slot table and the *)
(* linked list LRU, CLOCK and SIEVE share. Each policy ends in three       *)
(* lemmas: its Step keeps its invariant and is a step of the order it      *)
(* promises, its Start establishes both, and Typed says what follows. The  *)
(* theorems are at the end.                                                *)
(***************************************************************************)

EXTENDS MCCaches, FiniteSetTheorems, SequenceTheorems, WellFoundedInduction, TLAPS

(* What every proof below uses of a sequence: its places, its members, its *)
(* ends.                                                                   *)
LEMMA LineElements ==
    ASSUME NEW S, NEW s \in Seq(S)
    PROVE  /\ Len(s) \in Nat
           /\ DOMAIN s = 1..Len(s)
           /\ Range(s) = {s[i] : i \in 1..Len(s)}
           /\ Range(s) \subseteq S
           /\ IsInjective(s) <=> \A i, j \in 1..Len(s) : s[i] = s[j] => i = j
           /\ s = <<>> <=> Len(s) = 0
           /\ s # <<>> => Last(s) = s[Len(s)] /\ Head(s) = s[1]
           /\ s = <<>> <=> Range(s) = {}
<1>1. /\ Len(s) \in Nat
      /\ s \in [1..Len(s) -> S]
      /\ DOMAIN s = 1..Len(s)
    BY LenProperties
<1>2. Range(s) = {s[i] : i \in 1..Len(s)}
    BY <1>1 DEF Range
<1>3. s = <<>> <=> Len(s) = 0
    BY EmptySeq
<1>4. Range(s) \subseteq S
    BY <1>1, <1>2
<1>6. IsInjective(s) <=> \A i, j \in 1..Len(s) : s[i] = s[j] => i = j
    BY <1>1 DEF IsInjective
<1>7. s # <<>> => Last(s) = s[Len(s)] /\ Head(s) = s[1]
    BY DEF Last
<1>8. s = <<>> <=> Range(s) = {}
  <2>1. CASE Len(s) = 0
    BY <1>3, <1>2, <2>1
  <2>2. CASE Len(s) # 0
    <3>1. 1 \in 1..Len(s)
        BY <2>2, <1>1
    <3>2. QED
        BY <3>1, <1>2, <1>3, <2>2
  <2>3. QED
    BY <2>1, <2>2
<1>9. QED
    BY <1>1, <1>2, <1>3, <1>4, <1>6, <1>7, <1>8

(* One who joins in front. *)
LEMMA JoinFront ==
    ASSUME NEW S, NEW s \in Seq(S), IsInjective(s), NEW k \in S, k \notin Range(s)
    PROVE  /\ <<k>> \o s \in Seq(S)
           /\ IsInjective(<<k>> \o s)
           /\ Range(<<k>> \o s) = Range(s) \cup {k}
           /\ Len(<<k>> \o s) = Len(s) + 1
           /\ (<<k>> \o s)[1] = k
           /\ \A i \in 2..(Len(s) + 1) : (<<k>> \o s)[i] = s[i - 1]
<1> DEFINE t == <<k>> \o s
<1>1. /\ t \in Seq(S) /\ Len(t) = Len(s) + 1 /\ t[1] = k
      /\ \A i \in 2..(Len(s) + 1) : t[i] = s[i - 1]
  <2>1. <<k>> \in Seq(S) /\ Len(<<k>>) = 1 /\ <<k>>[1] = k
    OBVIOUS
  <2>2. Len(s) \in Nat
    BY LenProperties
  <2>3. /\ t \in Seq(S) /\ Len(t) = Len(<<k>>) + Len(s)
        /\ \A i \in 1 .. Len(<<k>>) + Len(s) :
             t[i] = IF i <= Len(<<k>>) THEN <<k>>[i] ELSE s[i - Len(<<k>>)]
    BY <2>1, ConcatProperties
  <2>4. QED
    BY <2>1, <2>2, <2>3
<1>2. Len(s) \in Nat /\ Range(s) = {s[i] : i \in 1..Len(s)}
    BY LineElements
<1> HIDE DEF t
<1>3. Range(t) = {t[i] : i \in 1..Len(t)}
    BY <1>1, LineElements
<1>4. Range(t) = Range(s) \cup {k}
  <2>1. ASSUME NEW e \in Range(t) PROVE e \in Range(s) \cup {k}
    <3>1. PICK i \in 1..Len(t) : t[i] = e
        BY <1>3
    <3>2. i = 1 \/ (i - 1 \in 1..Len(s) /\ t[i] = s[i - 1])
        BY <1>1, <1>2
    <3>3. QED
        BY <3>1, <3>2, <1>1, <1>2
  <2>2. k \in Range(t)
    BY <1>1, <1>2, <1>3
  <2>3. ASSUME NEW e \in Range(s) PROVE e \in Range(t)
    <3>1. PICK i \in 1..Len(s) : s[i] = e
        BY <1>2
    <3>2. i + 1 \in 1..Len(t) /\ i + 1 \in 2..(Len(s) + 1) /\ (i + 1) - 1 = i
        BY <1>1, <1>2
    <3>3. t[i + 1] = e
        BY <3>1, <3>2, <1>1
    <3>4. QED
        BY <3>2, <3>3, <1>3
  <2>4. QED
    BY <2>1, <2>2, <2>3
<1>5. IsInjective(t)
  <2>1. SUFFICES ASSUME NEW i \in 1..Len(t), NEW j \in 1..Len(t), t[i] = t[j]
                 PROVE  i = j
    BY <1>1, LineElements
  <2>2. \A x \in 1..Len(t) : x # 1 => x - 1 \in 1..Len(s) /\ t[x] = s[x - 1] /\ t[x] \in Range(s)
    BY <1>1, <1>2
  <2>3. \A x, y \in 1..Len(s) : s[x] = s[y] => x = y
    BY LineElements
  <2>4. QED
    BY <2>1, <2>2, <2>3, <1>1
<1>6. QED
    BY <1>1, <1>4, <1>5 DEF t

(* One who joins at the end. *)
LEMMA JoinBack ==
    ASSUME NEW S, NEW s \in Seq(S), IsInjective(s), NEW k \in S, k \notin Range(s)
    PROVE  /\ Append(s, k) \in Seq(S)
           /\ IsInjective(Append(s, k))
           /\ Range(Append(s, k)) = Range(s) \cup {k}
           /\ Len(Append(s, k)) = Len(s) + 1
           /\ Append(s, k)[Len(s) + 1] = k
           /\ \A i \in 1..Len(s) : Append(s, k)[i] = s[i]
<1> DEFINE t == Append(s, k)
<1>1. /\ t \in Seq(S) /\ Len(t) = Len(s) + 1 /\ t[Len(s) + 1] = k
      /\ \A i \in 1..Len(s) : t[i] = s[i]
    BY AppendProperties
<1>2. Len(s) \in Nat /\ Range(s) = {s[i] : i \in 1..Len(s)}
    BY LineElements
<1> HIDE DEF t
<1>3. Range(t) = {t[i] : i \in 1..Len(t)}
    BY <1>1, LineElements
<1>4. \A i \in 1..Len(t) : i \in 1..Len(s) \/ i = Len(s) + 1
    BY <1>1, <1>2
<1>5. \A i \in 1..Len(s) : i \in 1..Len(t)
    BY <1>1, <1>2
<1>6. Len(s) + 1 \in 1..Len(t)
    BY <1>1, <1>2
<1>7. Range(t) = Range(s) \cup {k}
    BY <1>1, <1>2, <1>3, <1>4, <1>5, <1>6
<1>8. IsInjective(t)
  <2>1. SUFFICES ASSUME NEW i \in 1..Len(t), NEW j \in 1..Len(t), t[i] = t[j]
                 PROVE  i = j
    BY <1>1, LineElements
  <2>2. \A x \in 1..Len(s) : t[x] = s[x] /\ t[x] \in Range(s)
    BY <1>1, <1>2
  <2>3. \A x, y \in 1..Len(s) : s[x] = s[y] => x = y
    BY LineElements
  <2>4. QED
    BY <2>1, <2>2, <2>3, <1>1, <1>4
<1>9. QED
    BY <1>1, <1>7, <1>8 DEF t

(* All but the last. *)
LEMMA LeaveBack ==
    ASSUME NEW S, NEW s \in Seq(S), IsInjective(s), s # <<>>
    PROVE  /\ Front(s) \in Seq(S)
           /\ IsInjective(Front(s))
           /\ Range(Front(s)) = Range(s) \ {Last(s)}
           /\ Len(Front(s)) = Len(s) - 1
           /\ Last(s) \in Range(s)
           /\ \A i \in 1..(Len(s) - 1) : Front(s)[i] = s[i]
<1> DEFINE t == Front(s)
           n == Len(s)
<1>1. /\ n \in Nat \ {0} /\ Range(s) = {s[i] : i \in 1..n} /\ Last(s) = s[n]
      /\ \A i, j \in 1..n : s[i] = s[j] => i = j
      /\ \A i \in 1..n : s[i] \in S
  <2>1. \A i \in 1..n : s[i] \in S
    BY ElementOfSeq
  <2>2. QED
    BY <2>1, LineElements
<1>2. /\ t \in Seq(S) /\ Len(t) = n - 1
      /\ \A i \in 1..(n - 1) : t[i] = s[i]
  <2>1. 1 \in Int /\ n - 1 \in Int /\ \A i \in 1..(n - 1) : s[i] \in S
    BY <1>1
  <2>2. /\ SubSeq(s, 1, n - 1) \in Seq(S)
        /\ Len(SubSeq(s, 1, n - 1)) = IF 1 <= n - 1 THEN (n - 1) - 1 + 1 ELSE 0
        /\ \A i \in 1 .. (n - 1) - 1 + 1 : SubSeq(s, 1, n - 1)[i] = s[1 + i - 1]
    BY <2>1, SubSeqProperties
  <2>3. Len(SubSeq(s, 1, n - 1)) = n - 1
    <3>1. n \in Nat /\ n # 0
        BY <1>1
    <3>2. \A m \in Nat : m # 0 => (IF 1 <= m - 1 THEN (m - 1) - 1 + 1 ELSE 0) = m - 1
        OBVIOUS
    <3>3. QED
        BY <2>2, <3>1, <3>2
  <2>4. ASSUME NEW i \in 1..(n - 1) PROVE SubSeq(s, 1, n - 1)[i] = s[i]
    <3>1. i \in 1 .. (n - 1) - 1 + 1 /\ 1 + i - 1 = i
        BY <1>1
    <3>2. QED
        BY <3>1, <2>2
  <2>5. t = SubSeq(s, 1, n - 1)
    BY DEF Front
  <2>6. QED
    BY <2>2, <2>3, <2>4, <2>5
<1> HIDE DEF t, n
<1>3. Range(t) = {t[i] : i \in 1..Len(t)}
    BY <1>2, LineElements
<1>4. Range(t) = Range(s) \ {Last(s)}
  <2>1. \A i \in 1..(n - 1) : i \in 1..n /\ i # n
    BY <1>1
  <2>2. \A i \in 1..n : i # n => i \in 1..(n - 1)
    BY <1>1
  <2>3. n \in 1..n
    BY <1>1
  <2>4. QED
    BY <1>1, <1>2, <1>3, <2>1, <2>2, <2>3
<1>5. IsInjective(t)
  <2>1. \A i \in 1..(n - 1) : i \in 1..n
    BY <1>1
  <2>2. QED
    BY <2>1, <1>1, <1>2, LineElements
<1>6. QED
    BY <1>1, <1>2, <1>4, <1>5 DEF t, n

(* All but the first. *)
LEMMA LeaveFront ==
    ASSUME NEW S, NEW s \in Seq(S), IsInjective(s), s # <<>>
    PROVE  /\ Tail(s) \in Seq(S)
           /\ IsInjective(Tail(s))
           /\ Range(Tail(s)) = Range(s) \ {Head(s)}
           /\ Len(Tail(s)) = Len(s) - 1
           /\ Head(s) \in Range(s)
           /\ \A i \in 1..(Len(s) - 1) : Tail(s)[i] = s[i + 1]
<1> DEFINE t == Tail(s)
           n == Len(s)
<1>1. /\ n \in Nat \ {0} /\ Range(s) = {s[i] : i \in 1..n} /\ Head(s) = s[1]
      /\ \A i, j \in 1..n : s[i] = s[j] => i = j
    BY LineElements
<1>2. /\ t \in Seq(S) /\ Len(t) = n - 1
      /\ \A i \in 1..(n - 1) : t[i] = s[i + 1]
    BY HeadTailProperties
<1> HIDE DEF t, n
<1>3. Range(t) = {t[i] : i \in 1..Len(t)}
    BY <1>2, LineElements
<1>4. Range(t) = Range(s) \ {Head(s)}
  <2>1. \A i \in 1..(n - 1) : i + 1 \in 1..n /\ i + 1 # 1
    BY <1>1
  <2>2. \A i \in 1..n : i # 1 => i - 1 \in 1..(n - 1) /\ (i - 1) + 1 = i
    BY <1>1
  <2>3. 1 \in 1..n
    BY <1>1
  <2>4. ASSUME NEW e \in Range(t) PROVE e \in Range(s) \ {s[1]}
    BY <1>1, <1>2, <1>3, <2>1, <2>3
  <2>5. ASSUME NEW e \in Range(s), e # s[1] PROVE e \in Range(t)
    <3>1. PICK i \in 1..n : e = s[i]
        BY <1>1
    <3>2. t[i - 1] = e /\ i - 1 \in 1..Len(t)
        BY <3>1, <2>5, <2>2, <1>2
    <3>3. QED
        BY <3>2, <1>3
  <2>6. QED
    BY <2>4, <2>5, <1>1
<1>5. IsInjective(t)
  <2>1. SUFFICES ASSUME NEW i \in 1..Len(t), NEW j \in 1..Len(t), t[i] = t[j]
                 PROVE  i = j
    BY <1>2, LineElements
  <2>2. i + 1 \in 1..n /\ j + 1 \in 1..n /\ s[i + 1] = s[j + 1] /\ i \in Int /\ j \in Int
    BY <2>1, <1>1, <1>2
  <2>3. i + 1 = j + 1
    BY <2>2, <1>1
  <2>4. QED
    BY <2>2, <2>3
<1>6. QED
  <2>1. Head(s) \in Range(s)
    <3>1. 1 \in 1..n
        BY <1>1
    <3>2. QED
        BY <3>1, <1>1
  <2>2. QED
    BY <2>1, <1>1, <1>2, <1>4, <1>5 DEF t, n

(* One who leaves from anywhere: the others close ranks. *)
LEMMA LeaveAt ==
    ASSUME NEW S, NEW s \in Seq(S), IsInjective(s), NEW p \in 1..Len(s)
    PROVE  /\ Remove(s, s[p]) \in Seq(S)
           /\ Len(Remove(s, s[p])) = Len(s) - 1
           /\ \A i \in 1..(Len(s) - 1) :
                 Remove(s, s[p])[i] = IF i < p THEN s[i] ELSE s[i + 1]
           /\ Remove(s, s[p]) = WithoutAt(s, p)
<1> DEFINE n == Len(s)
<1>1. /\ n \in Nat \ {0}
      /\ \A i, j \in 1..n : s[i] = s[j] => i = j
      /\ \A i \in 1..n : s[i] \in S
      /\ p \in 1..n
  <2>1. \A i \in 1..n : s[i] \in S
    BY ElementOfSeq
  <2>2. QED
    BY <2>1, LineElements
<1>2. (CHOOSE i \in DOMAIN s : s[i] = s[p]) = p
  <2>1. DOMAIN s = 1..n
    BY LineElements
  <2>2. \A i \in DOMAIN s : s[i] = s[p] => i = p
    BY <1>1, <2>1
  <2>3. QED
    BY <1>1, <2>1, <2>2
<1>3. Remove(s, s[p]) = WithoutAt(s, p)
  <2>1. s[p] \in Range(s)
    BY <1>1, LineElements
  <2>2. QED
    BY <2>1, <1>2 DEF Remove
<1>4. WithoutAt(s, p) = SubSeq(s, 1, p - 1) \o SubSeq(s, p + 1, n)
    BY DEF WithoutAt
<1> DEFINE a == SubSeq(s, 1, p - 1)
           b == SubSeq(s, p + 1, n)
<1>5. /\ a \in Seq(S) /\ Len(a) = p - 1
      /\ \A i \in 1..(p - 1) : a[i] = s[i]
  <2>1. 1 \in Int /\ p - 1 \in Int /\ \A i \in 1..(p - 1) : s[i] \in S
    BY <1>1
  <2>2. /\ SubSeq(s, 1, p - 1) \in Seq(S)
        /\ Len(SubSeq(s, 1, p - 1)) = IF 1 <= p - 1 THEN (p - 1) - 1 + 1 ELSE 0
        /\ \A i \in 1 .. (p - 1) - 1 + 1 : SubSeq(s, 1, p - 1)[i] = s[1 + i - 1]
    BY <2>1, SubSeqProperties
  <2>3. QED
    BY <2>2, <1>1
<1>6. /\ b \in Seq(S) /\ Len(b) = n - p
      /\ \A i \in 1..(n - p) : b[i] = s[p + i]
  <2>1. p + 1 \in Int /\ n \in Int /\ \A i \in (p + 1)..n : s[i] \in S
    BY <1>1
  <2>2. /\ SubSeq(s, p + 1, n) \in Seq(S)
        /\ Len(SubSeq(s, p + 1, n)) = IF p + 1 <= n THEN n - (p + 1) + 1 ELSE 0
        /\ \A i \in 1 .. n - (p + 1) + 1 : SubSeq(s, p + 1, n)[i] = s[(p + 1) + i - 1]
    BY <2>1, SubSeqProperties
  <2>3. QED
    BY <2>2, <1>1
<1> HIDE DEF a, b, n
<1>7. /\ a \o b \in Seq(S) /\ Len(a \o b) = Len(a) + Len(b)
      /\ \A i \in 1 .. Len(a) + Len(b) : (a \o b)[i] = IF i <= Len(a) THEN a[i] ELSE b[i - Len(a)]
    BY <1>5, <1>6, ConcatProperties
<1>8. Len(a \o b) = n - 1
    BY <1>1, <1>5, <1>6, <1>7
<1>9. ASSUME NEW i \in 1..(n - 1)
      PROVE  (a \o b)[i] = IF i < p THEN s[i] ELSE s[i + 1]
  <2>1. i \in 1..(Len(a) + Len(b)) /\ (i <= Len(a) <=> i < p) /\ i \in Int
    BY <1>1, <1>5, <1>6, <1>9
  <2>2. CASE i < p
    <3>1. i \in 1..(p - 1)
        BY <2>2, <1>1
    <3>2. QED
        BY <2>1, <2>2, <3>1, <1>5, <1>7
  <2>3. CASE ~ (i < p)
    <3>1. i - Len(a) \in 1..(n - p) /\ p + (i - Len(a)) = i + 1
        BY <2>3, <1>1, <1>5, <1>9
    <3>2. (a \o b)[i] = b[i - Len(a)]
        BY <2>1, <2>3, <1>7
    <3>3. QED
        BY <2>3, <3>1, <3>2, <1>6
  <2>4. QED
    BY <2>2, <2>3
<1>10. Remove(s, s[p]) = a \o b
    BY <1>3, <1>4 DEF a, b, n
<1>11. QED
    BY <1>3, <1>7, <1>8, <1>9, <1>10 DEF n

(* Remove(s, k) is s without k, in the same order, one place shorter if k *)
(* was there.                                                             *)
LEMMA Leave ==
    ASSUME NEW S, NEW s \in Seq(S), IsInjective(s), NEW k
    PROVE  /\ Remove(s, k) \in Seq(S)
           /\ IsInjective(Remove(s, k))
           /\ Range(Remove(s, k)) = Range(s) \ {k}
           /\ Len(Remove(s, k)) = IF k \in Range(s) THEN Len(s) - 1 ELSE Len(s)
           /\ k \notin Range(s) => Remove(s, k) = s
<1> DEFINE t == Remove(s, k)
           n == Len(s)
<1>1. /\ n \in Nat /\ Range(s) = {s[i] : i \in 1..n}
      /\ \A i, j \in 1..n : s[i] = s[j] => i = j
    BY LineElements
<1>2. CASE k \notin Range(s)
  <2>1. t = s
    BY <1>1, <1>2 DEF Remove
  <2>2. QED
    BY <2>1, <1>2
<1>3. CASE k \in Range(s)
  <2>1. PICK p \in 1..n : s[p] = k
    BY <1>1, <1>3
  <2>2. /\ t \in Seq(S) /\ Len(t) = n - 1
        /\ \A i \in 1..(n - 1) : t[i] = IF i < p THEN s[i] ELSE s[i + 1]
    BY <2>1, LeaveAt
  <2> HIDE DEF t, n
  <2>3. Range(t) = {t[i] : i \in 1..(n - 1)}
    BY <2>2, LineElements
  <2>4. \A i \in 1..(n - 1) : i \in 1..n /\ i + 1 \in 1..n
    BY <1>1
  <2>5. ASSUME NEW e \in Range(t) PROVE e \in Range(s) \ {k}
    <3>1. PICK i \in 1..(n - 1) : t[i] = e
        BY <2>3
    <3>2. \E j \in 1..n : j # p /\ e = s[j]
      <4>1. CASE i < p
        BY <4>1, <3>1, <2>2, <2>4
      <4>2. CASE ~ (i < p)
        <5>1. i + 1 # p
            BY <4>2, <2>1, <3>1, <1>1
        <5>2. QED
            BY <4>2, <5>1, <3>1, <2>2, <2>4
      <4>3. QED
        BY <4>1, <4>2
    <3>3. QED
        BY <3>2, <2>1, <1>1
  <2>6. ASSUME NEW e \in Range(s), e # k PROVE e \in Range(t)
    <3>1. PICK j \in 1..n : s[j] = e
        BY <1>1
    <3>2. j # p
        BY <3>1, <2>1, <2>6
    <3>3. CASE j < p
      <4>1. j \in 1..(n - 1)
        BY <3>3, <2>1, <3>1, <1>1
      <4>2. QED
        BY <4>1, <3>3, <3>1, <2>2, <2>3
    <3>4. CASE ~ (j < p)
      <4>1. j - 1 \in 1..(n - 1) /\ ~ (j - 1 < p) /\ (j - 1) + 1 = j
        BY <3>4, <3>2, <2>1, <3>1, <1>1
      <4>2. t[j - 1] = e
        BY <4>1, <3>1, <2>2
      <4>3. QED
        BY <4>1, <4>2, <2>3
    <3>5. QED
        BY <3>3, <3>4
  <2>7. Range(t) = Range(s) \ {k}
    BY <2>5, <2>6
  <2>8. IsInjective(t)
    <3>1. SUFFICES ASSUME NEW i \in 1..(n - 1), NEW j \in 1..(n - 1), t[i] = t[j]
                   PROVE  i = j
        BY <2>2, LineElements
    <3>2. DEFINE up(x) == IF x < p THEN x ELSE x + 1
    <3>3. up(i) \in 1..n /\ up(j) \in 1..n /\ t[i] = s[up(i)] /\ t[j] = s[up(j)]
        BY <2>2, <2>4
    <3>4. up(i) = up(j)
        BY <3>1, <3>3, <1>1
    <3>5. QED
        BY <3>1, <3>4, <2>1, <1>1
  <2>9. QED
    BY <2>2, <2>7, <2>8, <1>3 DEF t, n
<1>4. QED
    BY <1>2, <1>3

(* As many keys as places. *)
LEMMA LineSize ==
    ASSUME NEW S, NEW s \in Seq(S), IsInjective(s)
    PROVE  IsFiniteSet(Range(s)) /\ Cardinality(Range(s)) = Len(s)
<1>1. Len(s) \in Nat /\ Range(s) = {s[i] : i \in 1..Len(s)}
      /\ \A i, j \in 1..Len(s) : s[i] = s[j] => i = j
    BY LineElements
<1>2. s \in [1..Len(s) -> Range(s)]
  <2>1. s \in [1..Len(s) -> S]
    BY LenProperties
  <2>2. QED
    BY <2>1, <1>1
<1>3. IsFiniteSet(1..Len(s)) /\ Cardinality(1..Len(s)) = Len(s)
  <2>1. 1 \in Int /\ Len(s) \in Int /\ (IF 1 > Len(s) THEN 0 ELSE Len(s) - 1 + 1) = Len(s)
    BY <1>1
  <2>2. QED
    BY <2>1, FS_Interval
<1>4. s \in Bijection(1..Len(s), Range(s))
    BY <1>1, <1>2 DEF Bijection, Injection, Surjection, IsInjective
<1>5. ExistsBijection(1..Len(s), Range(s))
    BY <1>4 DEF ExistsBijection
<1>6. QED
    BY <1>3, <1>5, FS_Bijection

(* Two lines that share no one. *)
LEMMA LinesTogether ==
    ASSUME NEW S, NEW s \in Seq(S), IsInjective(s), NEW t \in Seq(S), IsInjective(t),
           Range(s) \cap Range(t) = {}
    PROVE  /\ s \o t \in Seq(S)
           /\ IsInjective(s \o t)
           /\ Range(s \o t) = Range(s) \cup Range(t)
           /\ Len(s \o t) = Len(s) + Len(t)
<1> DEFINE u == s \o t
           m == Len(s)
           n == Len(t)
<1>1. /\ u \in Seq(S) /\ Len(u) = m + n
      /\ \A i \in 1..(m + n) : u[i] = IF i <= m THEN s[i] ELSE t[i - m]
    BY ConcatProperties
<1>2. /\ m \in Nat /\ n \in Nat
      /\ Range(s) = {s[i] : i \in 1..m} /\ Range(t) = {t[i] : i \in 1..n}
      /\ \A i, j \in 1..m : s[i] = s[j] => i = j
      /\ \A i, j \in 1..n : t[i] = t[j] => i = j
    BY LineElements
<1> HIDE DEF u, m, n
<1>3. Range(u) = {u[i] : i \in 1..(m + n)}
    BY <1>1, LineElements
<1>4. \A i \in 1..(m + n) :
         \/ i \in 1..m /\ u[i] = s[i] /\ u[i] \in Range(s)
         \/ i > m /\ i - m \in 1..n /\ u[i] = t[i - m] /\ u[i] \in Range(t)
  <2>1. SUFFICES ASSUME NEW i \in 1..(m + n)
                 PROVE \/ i \in 1..m /\ u[i] = s[i] /\ u[i] \in Range(s)
                       \/ i > m /\ i - m \in 1..n /\ u[i] = t[i - m] /\ u[i] \in Range(t)
    OBVIOUS
  <2>2. CASE i <= m
    <3>1. i \in 1..m
        BY <2>2, <1>2
    <3>2. QED
        BY <3>1, <2>2, <1>1, <1>2
  <2>3. CASE ~ (i <= m)
    <3>1. i > m /\ i - m \in 1..n
        BY <2>3, <1>2
    <3>2. QED
        BY <3>1, <2>3, <1>1, <1>2
  <2>4. QED
    BY <2>2, <2>3
<1>5. Range(s) \subseteq Range(u)
  <2>1. \A i \in 1..m : i \in 1..(m + n) /\ u[i] = s[i]
    BY <1>1, <1>2
  <2>2. QED
    BY <2>1, <1>2, <1>3
<1>6. Range(t) \subseteq Range(u)
  <2>1. \A i \in 1..n : m + i \in 1..(m + n) /\ u[m + i] = t[i]
    <3>1. SUFFICES ASSUME NEW i \in 1..n PROVE m + i \in 1..(m + n) /\ u[m + i] = t[i]
        OBVIOUS
    <3>2. m + i \in 1..(m + n) /\ ~ (m + i <= m) /\ (m + i) - m = i
        BY <1>2
    <3>3. QED
        BY <3>2, <1>1
  <2>2. QED
    BY <2>1, <1>2, <1>3
<1>7. Range(u) = Range(s) \cup Range(t)
    BY <1>3, <1>4, <1>5, <1>6
<1>8. IsInjective(u)
  <2>1. SUFFICES ASSUME NEW i \in 1..(m + n), NEW j \in 1..(m + n), u[i] = u[j]
                 PROVE  i = j
    BY <1>1, LineElements
  <2>2. CASE i \in 1..m /\ u[i] \in Range(s) /\ u[i] = s[i]
    BY <2>1, <2>2, <1>2, <1>4
  <2>3. CASE i > m /\ i - m \in 1..n /\ u[i] = t[i - m] /\ u[i] \in Range(t)
    <3>1. j > m /\ j - m \in 1..n /\ u[j] = t[j - m]
        BY <2>1, <2>3, <1>4
    <3>2. i - m = j - m
        BY <2>1, <2>3, <3>1, <1>2
    <3>3. QED
        BY <3>2, <1>2
  <2>4. QED
    BY <2>2, <2>3, <1>4
<1>9. QED
    BY <1>1, <1>7, <1>8 DEF u, m, n

-----------------------------------------------------------------------------
(* The harness: one key comes, one key goes. *)
LEMMA OneComes ==
    ASSUME NEW S, IsFiniteSet(S), NEW c \in Nat, Cardinality(S) <= c, NEW k, k \notin S
    PROVE  /\ IsFiniteSet(S \cup {k})
           /\ Cardinality(S \cup {k}) = Cardinality(S) + 1
           /\ Cardinality(S \cup {k}) \in 0 .. c + 1
<1>1. /\ IsFiniteSet(S \cup {k})
      /\ Cardinality(S \cup {k}) = Cardinality(S) + 1
    BY FS_AddElement
<1>2. Cardinality(S) \in Nat
    BY FS_CardinalityType
<1>3. QED
    BY <1>1, <1>2

(* A finite set without one member. *)
LEMMA OneGoes ==
    ASSUME NEW S, IsFiniteSet(S), NEW c \in Nat, Cardinality(S) \in 0..c, NEW k
    PROVE  /\ IsFiniteSet(S \ {k})
           /\ Cardinality(S \ {k}) \in 0..c
           /\ k \in S => Cardinality(S \ {k}) = Cardinality(S) - 1
<1>1. /\ IsFiniteSet(S \ {k})
      /\ Cardinality(S \ {k}) = IF k \in S THEN Cardinality(S) - 1 ELSE Cardinality(S)
    BY FS_RemoveElement
<1>2. Cardinality(S) \in Nat /\ Cardinality(S \ {k}) \in Nat
    BY <1>1, FS_CardinalityType
<1>3. QED
    BY <1>1, <1>2

(* What the harness's side of the invariant of every policy is. *)
Held(S, c) == resident \subseteq S /\ IsFiniteSet(resident) /\ Cardinality(resident) \in 0 .. c + 1

(* The harness's counter. *)
Counted(S) == event \in [op : {"none"}] \cup [op : {"hit", "miss", "evict"}, key : S]

(* Two sequences hold a set between them, and share nothing. *)
LEMMA Between ==
    ASSUME NEW S, NEW s \in Seq(S), IsInjective(s), NEW t \in Seq(S), IsInjective(t),
           Range(s) \cap Range(t) = {}
    PROVE  /\ IsFiniteSet(Range(s) \cup Range(t))
           /\ Cardinality(Range(s) \cup Range(t)) = Len(s) + Len(t)
<1>1. /\ s \o t \in Seq(S) /\ IsInjective(s \o t)
      /\ Range(s \o t) = Range(s) \cup Range(t)
      /\ Len(s \o t) = Len(s) + Len(t)
    BY LinesTogether
<1>2. IsFiniteSet(Range(s \o t)) /\ Cardinality(Range(s \o t)) = Len(s \o t)
    BY <1>1, LineSize
<1>3. QED
    BY <1>1, <1>2

(* A set of naturals that is not empty has a least member. *)
LEMMA LeastNumber ==
    ASSUME NEW S \in SUBSET Nat, S # {}
    PROVE  \E m \in S : \A x \in S : m <= x
<1>1. PICK n \in S : TRUE
    OBVIOUS
<1> DEFINE Below(m) == S \cap (0..m)
           T == {Below(m) : m \in S \cap (0..n)}
           R == StrictSubsetOrdering(0..n)
<1>2. IsFiniteSet(0..n)
    BY FS_Interval
<1>3. T \subseteq SUBSET (0..n) /\ Below(n) \in T
    BY <1>1
<1>4. IsWellFoundedOn(R, SUBSET (0..n))
    BY <1>2, FS_FiniteSubsetsOfFinite, FS_StrictSubsetOrderingWellFounded, Zenon
<1>5. \E U \in T : \A V \in T : ~ (<<V, U>> \in R)
    <2>1. T # {}
        BY <1>3
    <2> HIDE DEF T, R
    <2>2. QED
        BY <1>3, <1>4, <2>1, WFMin, Zenon
<1>6. PICK m \in S \cap (0..n) : \A V \in T : ~ (<<V, Below(m)>> \in R)
    BY <1>5
<1>7. ASSUME NEW x \in S, x < m
      PROVE  FALSE
    <2>1. Below(x) \in T
        BY <1>6, <1>7
    <2>2. Below(x) \subseteq Below(m) /\ Below(x) # Below(m)
        BY <1>6, <1>7
    <2>3. Below(x) \in SUBSET (0..n) /\ Below(m) \in SUBSET (0..n)
        BY <1>3, <1>6, <2>1
    <2>4. <<Below(x), Below(m)>> \in R
        BY <2>2, <2>3 DEF StrictSubsetOrdering
    <2>5. QED
        BY <1>6, <2>1, <2>4
<1>8. \A x \in S : m <= x
    BY <1>6, <1>7
<1>9. QED
    BY <1>6, <1>8

-----------------------------------------------------------------------------
(* The slot table and the list threaded through it. *)
XSlots == 0..Capacity

(* Every slot is free or in use, never both, and the index leads to the slot *)
(* of each key.                                                              *)
XTable(ix, ks, fr, res) ==
    /\ fr \in Seq(XSlots) /\ IsInjective(fr)
    /\ DOMAIN ks \subseteq XSlots
    /\ Range(fr) = XSlots \ DOMAIN ks
    /\ DOMAIN ix = res
    /\ {ks[s] : s \in DOMAIN ks} = res
    /\ \A s \in DOMAIN ks : ix[ks[s]] = s

(* A function with one more place, and with one less. *)
XPut(f, x, y) == [z \in DOMAIN f \cup {x} |-> IF z = x THEN y ELSE f[z]]

XCut(f, x) == [z \in DOMAIN f \ {x} |-> f[z]]

(* The index finds the slot that holds the key. *)
LEMMA XFinds ==
    ASSUME NEW ix, NEW ks, NEW fr, NEW res, XTable(ix, ks, fr, res), NEW k \in res
    PROVE  ix[k] \in DOMAIN ks /\ ks[ix[k]] = k /\ ix[k] \in XSlots
<1>1. PICK s \in DOMAIN ks : ks[s] = k
    BY DEF XTable
<1>2. ix[k] = s
    BY <1>1 DEF XTable
<1>3. QED
    BY <1>1, <1>2 DEF XTable

(* What taking the slot s for k does to the table, and giving it back. *)
XTaken(ix, ks, fr, res, k, s) ==
    /\ s \in XSlots /\ s \notin DOMAIN ks
    /\ DOMAIN XPut(ks, s, k) = DOMAIN ks \cup {s}
    /\ XPut(ks, s, k)[s] = k
    /\ \A t \in DOMAIN ks : XPut(ks, s, k)[t] = ks[t]
    /\ XPut(ix, k, s)[k] = s
    /\ \A x \in res : XPut(ix, k, s)[x] = ix[x]
    /\ XTable(XPut(ix, k, s), XPut(ks, s, k), Front(fr), res \cup {k})

XGiven(ix, ks, fr, res, s) ==
    /\ ks[s] \in res
    /\ DOMAIN XCut(ks, s) = DOMAIN ks \ {s}
    /\ \A t \in DOMAIN ks \ {s} : XCut(ks, s)[t] = ks[t] /\ ks[t] # ks[s]
    /\ \A x \in res \ {ks[s]} : XCut(ix, ks[s])[x] = ix[x]
    /\ XTable(XCut(ix, ks[s]), XCut(ks, s), Append(fr, s), res \ {ks[s]})

(* TakeSlot: taking the last free slot for a new key keeps the table sound. *)
LEMMA XTakes ==
    ASSUME NEW ix, NEW ks, NEW fr, NEW res, XTable(ix, ks, fr, res),
           NEW k, k \notin res, fr # <<>>, NEW s, s = Last(fr)
    PROVE  XTaken(ix, ks, fr, res, k, s)
<1> DEFINE ks2 == XPut(ks, s, k)
           ix2 == XPut(ix, k, s)
<1>1. /\ Front(fr) \in Seq(XSlots) /\ IsInjective(Front(fr))
      /\ Range(Front(fr)) = Range(fr) \ {s} /\ s \in Range(fr)
    BY LeaveBack DEF XTable
<1>2. s \in XSlots /\ s \notin DOMAIN ks
    BY <1>1 DEF XTable
<1>3. /\ DOMAIN ks2 = DOMAIN ks \cup {s} /\ ks2[s] = k
      /\ \A t \in DOMAIN ks : ks2[t] = ks[t]
    BY <1>2 DEF XPut
<1>4. /\ DOMAIN ix2 = res \cup {k} /\ ix2[k] = s
      /\ \A x \in res : ix2[x] = ix[x]
    BY DEF XPut, XTable
<1> HIDE DEF ks2, ix2
<1>5. Range(Front(fr)) = XSlots \ DOMAIN ks2
    BY <1>1, <1>3 DEF XTable
<1>6. {ks2[t] : t \in DOMAIN ks2} = res \cup {k}
    BY <1>3 DEF XTable
<1>7. \A t \in DOMAIN ks2 : ix2[ks2[t]] = t
  <2>1. \A t \in DOMAIN ks : ks[t] \in res /\ ix[ks[t]] = t
    BY DEF XTable
  <2>2. QED
    BY <2>1, <1>3, <1>4
<1>8. DOMAIN ks2 \subseteq XSlots
    BY <1>2, <1>3 DEF XTable
<1>9. XTable(ix2, ks2, Front(fr), res \cup {k})
    BY <1>1, <1>4, <1>5, <1>6, <1>7, <1>8 DEF XTable
<1>10. QED
    BY <1>2, <1>3, <1>4, <1>9 DEF ks2, ix2, XTaken

(* ReleaseSlot: giving a slot back keeps the table sound, and no other key *)
(* moves.                                                                  *)
LEMMA XGives ==
    ASSUME NEW ix, NEW ks, NEW fr, NEW res, XTable(ix, ks, fr, res), NEW s \in DOMAIN ks
    PROVE  XGiven(ix, ks, fr, res, s)
<1> DEFINE k == ks[s]
           ks2 == XCut(ks, s)
           ix2 == XCut(ix, k)
<1>1. s \in XSlots /\ s \notin Range(fr) /\ k \in res /\ ix[k] = s
    BY DEF XTable
<1>2. /\ Append(fr, s) \in Seq(XSlots) /\ IsInjective(Append(fr, s))
      /\ Range(Append(fr, s)) = Range(fr) \cup {s}
    BY <1>1, JoinBack DEF XTable
<1>3. DOMAIN ks2 = DOMAIN ks \ {s} /\ \A t \in DOMAIN ks \ {s} : ks2[t] = ks[t]
    BY DEF XCut
<1>4. DOMAIN ix2 = res \ {k} /\ \A x \in res \ {k} : ix2[x] = ix[x]
    BY DEF XCut, XTable
<1>5. \A t \in DOMAIN ks \ {s} : ks[t] # k /\ ks[t] \in res /\ ix[ks[t]] = t
    BY <1>1 DEF XTable
<1> HIDE DEF k, ks2, ix2
<1>6. Range(Append(fr, s)) = XSlots \ DOMAIN ks2
    BY <1>1, <1>2, <1>3 DEF XTable
<1>7. {ks2[t] : t \in DOMAIN ks2} = res \ {k}
    BY <1>3, <1>5 DEF XTable, k
<1>8. \A t \in DOMAIN ks2 : ix2[ks2[t]] = t
    BY <1>3, <1>4, <1>5
<1>9. XTable(ix2, ks2, Append(fr, s), res \ {k})
    BY <1>2, <1>3, <1>4, <1>6, <1>7, <1>8 DEF XTable
<1>10. QED
    BY <1>1, <1>3, <1>4, <1>5, <1>9 DEF ks2, ix2, k, XGiven

XNil == -1
XOff == -2

(* Neither of the two marks for no slot is a slot. *)
LEMMA XEnds == XNil \notin XSlots /\ XOff \notin XSlots /\ XOff # XNil
BY CapacityAssumption DEF XNil, XOff, XSlots

XLinks == [XSlots -> XSlots \cup {XNil, XOff}]

(* The links forth and back spell s, whose ends are hd and tl.             *)
XChain(forth, back, hd, tl, off, s) ==
    /\ s \in Seq(XSlots) /\ IsInjective(s)
    /\ forth \in XLinks /\ back \in XLinks
    /\ \A i \in 1..Len(s) : /\ forth[s[i]] = (IF i = Len(s) THEN XNil ELSE s[i + 1])
                            /\ back[s[i]] = (IF i = 1 THEN XNil ELSE s[i - 1])
    /\ \A x \in XSlots \ Range(s) : forth[x] = off /\ back[x] = off
    /\ hd = (IF s = <<>> THEN XNil ELSE s[1])
    /\ tl = (IF s = <<>> THEN XNil ELSE s[Len(s)])

XLink(f, x, y) == [z \in XSlots |-> IF z = x THEN y ELSE f[z]]

XMend(f, x, off, at, to) ==
    [z \in XSlots |-> IF z = x THEN off ELSE IF z = at THEN to ELSE f[z]]

(* pb_ilist_push_front: linking a slot in front puts it in front of the *)
(* line.                                                                *)
LEMMA XPushes ==
    ASSUME NEW f, NEW b, NEW h, NEW t, NEW off, NEW s, XChain(f, b, h, t, off, s),
           NEW x \in XSlots, x \notin Range(s),
           NEW f2, f2 = XLink(f, x, h), NEW b2, b2 = XMend(b, x, XNil, h, x),
           NEW t2, t2 = IF h = XNil THEN x ELSE t
    PROVE  XChain(f2, b2, x, t2, off, <<x>> \o s)
<1> DEFINE s2 == <<x>> \o s
           n == Len(s)
<1>1. s \in Seq(XSlots) /\ IsInjective(s)
    BY DEF XChain
<1>2. /\ n \in Nat /\ \A i \in 1..n : s[i] \in XSlots /\ s[i] \in Range(s)
      /\ \A i, j \in 1..n : s[i] = s[j] => i = j
      /\ Range(s) \subseteq XSlots
  <2>1. \A i \in 1..n : s[i] \in Range(s)
    BY <1>1, LineElements
  <2>2. QED
    BY <1>1, <2>1, LineElements
<1>3. /\ s2 \in Seq(XSlots) /\ IsInjective(s2) /\ Range(s2) = Range(s) \cup {x}
      /\ Len(s2) = n + 1 /\ s2[1] = x
      /\ \A i \in 2..(n + 1) : s2[i] = s[i - 1]
    BY <1>1, JoinFront
<1>4. /\ s = <<>> <=> n = 0
      /\ h = (IF n = 0 THEN XNil ELSE s[1])
      /\ t = (IF n = 0 THEN XNil ELSE s[n])
    BY <1>1, LineElements DEF XChain
<1>5. /\ f \in XLinks /\ b \in XLinks
      /\ \A i \in 1..n : /\ f[s[i]] = (IF i = n THEN XNil ELSE s[i + 1])
                         /\ b[s[i]] = (IF i = 1 THEN XNil ELSE s[i - 1])
      /\ \A y \in XSlots \ Range(s) : f[y] = off /\ b[y] = off
    BY DEF XChain
<1>6. /\ \A y \in XSlots : f2[y] = IF y = x THEN h ELSE f[y]
      /\ \A y \in XSlots : b2[y] = IF y = x THEN XNil ELSE IF y = h THEN x ELSE b[y]
    BY DEF XLink, XMend
<1>7. h \in XSlots \cup {XNil} /\ (h = XNil <=> n = 0)
  <2>1. n # 0 => s[1] \in XSlots
    BY <1>2
  <2>2. QED
    BY <2>1, <1>4, XEnds
<1> HIDE DEF s2, n
<1>8. f2 \in XLinks /\ b2 \in XLinks
    BY <1>5, <1>7 DEF XLinks, XLink, XMend
<1>9. ASSUME NEW i \in 1..(n + 1)
      PROVE  /\ f2[s2[i]] = (IF i = n + 1 THEN XNil ELSE s2[i + 1])
             /\ b2[s2[i]] = (IF i = 1 THEN XNil ELSE s2[i - 1])
  <2>1. CASE i = 1
    <3>1. f2[x] = h /\ b2[x] = XNil
        BY <1>6
    <3>2. h = (IF 1 = n + 1 THEN XNil ELSE s2[2])
        <4>1. n # 0 => (2 \in 2..(n + 1) /\ 2 - 1 = 1)
            BY <1>2
        <4>2. n # 0 => s2[2] = s[1]
            BY <4>1, <1>3
        <4>3. 1 = n + 1 <=> n = 0
            BY <1>2
        <4>4. QED
            BY <4>2, <4>3, <1>4
    <3>3. QED
        BY <3>1, <3>2, <2>1, <1>3
  <2>2. CASE i # 1
    <3>1. /\ i \in 2..(n + 1) /\ i - 1 \in 1..n /\ (i - 1) + 1 = i /\ n # 0
          /\ (i - 1 = n <=> i = n + 1)
          /\ i # n + 1 => i + 1 \in 2..(n + 1) /\ (i + 1) - 1 = i
          /\ i # 2 => i - 1 \in 2..(n + 1)
          /\ i - 1 = 1 <=> i = 2
        BY <2>2, <1>2, <1>9
    <3>2. s2[i] = s[i - 1] /\ s[i - 1] \in XSlots /\ s[i - 1] # x
        BY <3>1, <1>2, <1>3
    <3>3. f2[s2[i]] = f[s[i - 1]] /\ b2[s2[i]] = IF s[i - 1] = h THEN x ELSE b[s[i - 1]]
        BY <3>2, <1>6
    <3>4. /\ f[s[i - 1]] = (IF i = n + 1 THEN XNil ELSE s[i])
          /\ i # n + 1 => s2[i + 1] = s[i]
        BY <3>1, <1>3, <1>5
    <3>5. h = s[1] /\ (s[i - 1] = h <=> i = 2)
        <4>1. 1 \in 1..n
            BY <3>1, <1>2
        <4>2. QED
            BY <4>1, <3>1, <1>2, <1>4
    <3>6. i = 2 => s2[i - 1] = x
        BY <1>3
    <3>7. i # 2 => b[s[i - 1]] = s[(i - 1) - 1] /\ s2[i - 1] = s[(i - 1) - 1]
        BY <3>1, <1>3, <1>5
    <3>8. QED
        BY <2>2, <3>3, <3>4, <3>5, <3>6, <3>7
  <2>3. QED
    BY <2>1, <2>2
<1>10. \A y \in XSlots \ Range(s2) : f2[y] = off /\ b2[y] = off
  <2>1. n # 0 => h \in Range(s)
    <3>1. n # 0 => 1 \in 1..n
        BY <1>2
    <3>2. QED
        BY <3>1, <1>2, <1>4
  <2>2. QED
    BY <2>1, <1>3, <1>5, <1>6, <1>7, XEnds
<1>11. t2 = s2[n + 1] /\ s2 # <<>>
  <2>1. s2 # <<>>
    BY <1>3, EmptySeq, <1>2
  <2>2. n # 0 => (n + 1 \in 2..(n + 1) /\ (n + 1) - 1 = n)
    BY <1>2
  <2>3. n = 0 => s2[n + 1] = x
    BY <1>3
  <2>4. n # 0 => s2[n + 1] = s[n]
    BY <2>2, <1>3
  <2>5. QED
    BY <2>1, <2>3, <2>4, <1>4, <1>7
<1>12. QED
    BY <1>3, <1>8, <1>9, <1>10, <1>11 DEF XChain, s2

(* pb_ilist_remove: the neighbours close ranks, wherever in the line the *)
(* slot was.                                                             *)
LEMMA XPulls ==
    ASSUME NEW f, NEW b, NEW h, NEW t, NEW off \in {XNil, XOff}, NEW s, XChain(f, b, h, t, off, s),
           NEW p \in 1..Len(s), NEW x, x = s[p],
           NEW f2, f2 = XMend(f, x, off, b[x], f[x]),
           NEW b2, b2 = XMend(b, x, off, f[x], b[x]),
           NEW h2, h2 = (IF b[x] = XNil THEN f[x] ELSE h),
           NEW t2, t2 = (IF f[x] = XNil THEN b[x] ELSE t)
    PROVE  XChain(f2, b2, h2, t2, off, Remove(s, x))
<1> DEFINE s2 == Remove(s, x)
           n == Len(s)
<1>1. s \in Seq(XSlots) /\ IsInjective(s)
    BY DEF XChain
<1>2. /\ n \in Nat /\ \A i \in 1..n : s[i] \in XSlots /\ s[i] \in Range(s)
      /\ \A i, j \in 1..n : s[i] = s[j] => i = j
      /\ Range(s) \subseteq XSlots
  <2>1. \A i \in 1..n : s[i] \in Range(s)
    BY <1>1, LineElements
  <2>2. QED
    BY <1>1, <2>1, LineElements
<1>3. /\ s2 \in Seq(XSlots) /\ IsInjective(s2) /\ Range(s2) = Range(s) \ {x}
      /\ Len(s2) = n - 1
      /\ \A i \in 1..(n - 1) : s2[i] = IF i < p THEN s[i] ELSE s[i + 1]
  <2>1. x \in Range(s)
    BY <1>2
  <2>2. /\ s2 \in Seq(XSlots) /\ IsInjective(s2) /\ Range(s2) = Range(s) \ {x}
        /\ Len(s2) = n - 1
    BY <1>1, <2>1, Leave
  <2>3. \A i \in 1..(n - 1) : s2[i] = IF i < p THEN s[i] ELSE s[i + 1]
    BY <1>1, LeaveAt
  <2>4. QED
    BY <2>2, <2>3
<1>4. /\ s # <<>> /\ h = s[1] /\ t = s[n]
      /\ s2 = <<>> <=> n = 1
  <2>1. n # 0
    BY <1>2
  <2>2. s # <<>>
    BY <1>1, <2>1, LineElements
  <2>3. s2 = <<>> <=> n - 1 = 0
    BY <1>3, EmptySeq
  <2>4. QED
    BY <2>2, <2>3, <1>2 DEF XChain
<1>5. /\ f \in XLinks /\ b \in XLinks
      /\ \A i \in 1..n : /\ f[s[i]] = (IF i = n THEN XNil ELSE s[i + 1])
                         /\ b[s[i]] = (IF i = 1 THEN XNil ELSE s[i - 1])
      /\ \A y \in XSlots \ Range(s) : f[y] = off /\ b[y] = off
    BY DEF XChain
<1> DEFINE a == f[x]
           c == b[x]
<1>6. /\ a = (IF p = n THEN XNil ELSE s[p + 1])
      /\ c = (IF p = 1 THEN XNil ELSE s[p - 1])
    BY <1>5
<1>7. /\ \A y \in XSlots : f2[y] = IF y = x THEN off ELSE IF y = c THEN a ELSE f[y]
      /\ \A y \in XSlots : b2[y] = IF y = x THEN off ELSE IF y = a THEN c ELSE b[y]
    BY DEF XMend
<1>8. h2 = (IF c = XNil THEN a ELSE h) /\ t2 = (IF a = XNil THEN c ELSE t)
    OBVIOUS
<1>9. x \in XSlots /\ a \in XSlots \cup {XNil} /\ c \in XSlots \cup {XNil}
  <2>1. p # n => p + 1 \in 1..n
    BY <1>2
  <2>2. p # 1 => p - 1 \in 1..n
    BY <1>2
  <2>3. QED
    BY <2>1, <2>2, <1>2, <1>6
<1>10. f2 \in XLinks /\ b2 \in XLinks
    BY <1>5, <1>9 DEF XLinks, XMend
<1> HIDE DEF s2, n, a, c
<1>11. /\ p # n <=> a # XNil
       /\ p # 1 <=> c # XNil
  <2>1. p # n => p + 1 \in 1..n
    BY <1>2 DEF n
  <2>2. p # 1 => p - 1 \in 1..n
    BY <1>2 DEF n
  <2>3. QED
    BY <2>1, <2>2, <1>2, <1>6, XEnds
<1>12. p \in 1..n
    BY DEF n
<1>13. ASSUME NEW i \in 1..(n - 1)
       PROVE  /\ f2[s2[i]] = (IF i = n - 1 THEN XNil ELSE s2[i + 1])
              /\ b2[s2[i]] = (IF i = 1 THEN XNil ELSE s2[i - 1])
  <2>0. n \in Nat /\ p \in 1..n /\ i \in 1..(n - 1)
    BY <1>2, <1>12
  <2>1. /\ i \in 1..n /\ i + 1 \in 1..n
        /\ i # n - 1 => i + 1 \in 1..(n - 1) /\ (i + 1) + 1 \in 1..n
        /\ i # 1 => i - 1 \in 1..(n - 1) /\ i - 1 \in 1..n /\ (i - 1) + 1 = i
        /\ p # n => p + 1 \in 1..n
        /\ p # 1 => p - 1 \in 1..n
    BY <2>0
  <2>2. CASE i < p
    <3>1. /\ s2[i] = s[i] /\ i # p /\ i # n /\ ~ (i = p + 1)
          /\ i # 1 => i - 1 < p
        BY <2>0, <2>1, <2>2, <1>3
    <3>2. s[i] # x /\ s[i] # a /\ (s[i] = c <=> i = p - 1)
        <4>1. s[i] # x
            BY <3>1, <2>1, <1>2, <1>12
        <4>2. s[i] # a
            BY <3>1, <2>1, <1>2, <1>6, XEnds
        <4>3. p # 1
            BY <2>0, <2>2
        <4>4. QED
            BY <4>1, <4>2, <4>3, <2>1, <1>2, <1>6
    <3>3. b2[s[i]] = b[s[i]] /\ f2[s[i]] = IF i = p - 1 THEN a ELSE f[s[i]]
        BY <3>2, <2>1, <1>2, <1>7
    <3>4. b[s[i]] = (IF i = 1 THEN XNil ELSE s[i - 1]) /\ f[s[i]] = s[i + 1]
        BY <3>1, <2>1, <1>5
    <3>5. i # 1 => s2[i - 1] = s[i - 1]
        BY <3>1, <2>1, <1>3
    <3>6. b2[s2[i]] = (IF i = 1 THEN XNil ELSE s2[i - 1])
        BY <3>1, <3>3, <3>4, <3>5
    <3>7. f2[s2[i]] = (IF i = n - 1 THEN XNil ELSE s2[i + 1])
        <4>1. CASE i = p - 1
            <5>1. /\ i = n - 1 <=> p = n
                  /\ ~ (i + 1 < p) /\ (i + 1) + 1 = p + 1
                BY <2>0, <4>1
            <5>2. i # n - 1 => s2[i + 1] = s[p + 1]
                BY <5>1, <2>1, <1>3
            <5>3. QED
                BY <4>1, <5>1, <5>2, <3>1, <3>3, <1>6
        <4>2. CASE i # p - 1
            <5>1. i + 1 < p /\ i # n - 1
                BY <2>0, <2>2, <4>2
            <5>2. s2[i + 1] = s[i + 1]
                BY <5>1, <2>1, <1>3
            <5>3. QED
                BY <4>2, <5>1, <5>2, <3>1, <3>3, <3>4
        <4>3. QED
            BY <4>1, <4>2
    <3>8. QED
        BY <3>6, <3>7
  <2>3. CASE ~ (i < p)
    <3>1. /\ s2[i] = s[i + 1] /\ i + 1 # p /\ i + 1 # 1 /\ ~ (i + 1 = p - 1)
          /\ (i + 1 = n <=> i = n - 1) /\ (i + 1 = p + 1 <=> i = p) /\ p # n
          /\ ~ (i + 1 < p) /\ (i + 1) - 1 = i
        BY <2>0, <2>1, <2>3, <1>3
    <3>2. s[i + 1] # x /\ s[i + 1] # c /\ (s[i + 1] = a <=> i = p)
        <4>1. s[i + 1] # x
            BY <3>1, <2>1, <1>2, <1>12
        <4>2. s[i + 1] # c
            BY <3>1, <2>1, <1>2, <1>6, XEnds
        <4>3. QED
            BY <4>1, <4>2, <3>1, <2>1, <1>2, <1>6
    <3>3. f2[s[i + 1]] = f[s[i + 1]] /\ b2[s[i + 1]] = IF i = p THEN c ELSE b[s[i + 1]]
        BY <3>2, <2>1, <1>2, <1>7
    <3>4. f[s[i + 1]] = (IF i = n - 1 THEN XNil ELSE s[(i + 1) + 1]) /\ b[s[i + 1]] = s[i]
        BY <3>1, <2>1, <1>5
    <3>5. i # n - 1 => s2[i + 1] = s[(i + 1) + 1]
        BY <3>1, <2>1, <1>3
    <3>6. f2[s2[i]] = (IF i = n - 1 THEN XNil ELSE s2[i + 1])
        BY <3>1, <3>3, <3>4, <3>5
    <3>7. b2[s2[i]] = (IF i = 1 THEN XNil ELSE s2[i - 1])
        <4>1. CASE i = p
            <5>1. i # 1 => (i - 1 < p /\ p # 1)
                BY <2>0, <4>1
            <5>2. i # 1 => s2[i - 1] = s[i - 1]
                BY <5>1, <2>1, <1>3
            <5>3. QED
                BY <4>1, <5>2, <3>1, <3>3, <1>6
        <4>2. CASE i # p
            <5>1. i # 1 /\ ~ (i - 1 < p) /\ (i - 1) + 1 = i
                BY <2>0, <2>3, <4>2
            <5>2. s2[i - 1] = s[i]
                BY <5>1, <2>1, <1>3
            <5>3. QED
                BY <4>2, <5>1, <5>2, <3>1, <3>3, <3>4
        <4>3. QED
            BY <4>1, <4>2
    <3>8. QED
        BY <3>6, <3>7
  <2>4. QED
    BY <2>2, <2>3
<1>14. \A y \in XSlots \ Range(s2) : f2[y] = off /\ b2[y] = off
  <2>1. SUFFICES ASSUME NEW y \in XSlots \ Range(s2) PROVE f2[y] = off /\ b2[y] = off
    OBVIOUS
  <2>2. CASE y = x
    BY <2>2, <1>7
  <2>3. CASE y # x
    <3>1. y \notin Range(s)
        BY <2>1, <2>3, <1>3
    <3>2. y # a /\ y # c
        <4>1. p # n => p + 1 \in 1..n
            BY <1>2, <1>12
        <4>2. p # 1 => p - 1 \in 1..n
            BY <1>2, <1>12
        <4>3. (a = XNil \/ a \in Range(s)) /\ (c = XNil \/ c \in Range(s))
            BY <4>1, <4>2, <1>2, <1>6
        <4>4. QED
            BY <4>3, <3>1, <2>1, XEnds
    <3>3. QED
        BY <2>1, <2>3, <3>1, <3>2, <1>5, <1>7
  <2>4. QED
    BY <2>2, <2>3
<1>15. h2 = (IF s2 = <<>> THEN XNil ELSE s2[1])
  <2>1. CASE n = 1
    <3>1. p = 1 /\ p = n
        BY <2>1, <1>12
    <3>2. QED
        BY <2>1, <3>1, <1>4, <1>6, <1>8
  <2>2. CASE n # 1
    <3>1. 1 \in 1..(n - 1) /\ (1 < p <=> p # 1) /\ (p = 1 => 1 + 1 = p + 1)
        BY <2>2, <1>2, <1>12
    <3>2. s2[1] = IF p # 1 THEN s[1] ELSE s[p + 1]
        BY <3>1, <1>3
    <3>3. QED
        BY <2>2, <3>2, <1>4, <1>6, <1>8, <1>11
  <2>3. QED
    BY <2>1, <2>2
<1>16. t2 = (IF s2 = <<>> THEN XNil ELSE s2[n - 1])
  <2>1. CASE n = 1
    <3>1. p = 1 /\ p = n
        BY <2>1, <1>12
    <3>2. QED
        BY <2>1, <3>1, <1>4, <1>6, <1>8
  <2>2. CASE n # 1
    <3>1. /\ n - 1 \in 1..(n - 1) /\ (n - 1 < p <=> p = n) /\ (n - 1) + 1 = n
          /\ (p = n => p # 1) /\ (p = n => n - 1 = p - 1)
        BY <2>2, <1>2, <1>12
    <3>2. s2[n - 1] = IF p = n THEN s[p - 1] ELSE s[n]
        BY <3>1, <1>3
    <3>3. QED
        BY <2>2, <3>1, <3>2, <1>4, <1>6, <1>8, <1>11
  <2>3. QED
    BY <2>1, <2>2
<1>17. QED
    BY <1>3, <1>10, <1>13, <1>14, <1>15, <1>16 DEF XChain, s2

(* What walking the links from one end finds.                              *)
XThreaded(links, from, n) ==
    LET at[i \in 1..n] ==
            IF i = 1 THEN from
            ELSE IF at[i - 1] = XNil THEN XNil ELSE links[at[i - 1]]
    IN  [i \in 1 .. Cardinality({i \in 1..n : at[i] # XNil}) |-> at[i]]

(* The walk itself, place by place. *)
XWalks(at, links, from, n) ==
    at = [i \in 1..n |-> IF i = 1 THEN from
                         ELSE IF at[i - 1] = XNil THEN XNil ELSE links[at[i - 1]]]

(* Walking the links from one end finds the whole line, in order. *)
LEMMA XThreads ==
    ASSUME NEW f, NEW b, NEW h, NEW t, NEW off, NEW s, XChain(f, b, h, t, off, s),
           NEW n \in Nat \ {0}, Len(s) <= n
    PROVE  XThreaded(f, h, n) = s
<1> DEFINE m == Len(s)
           w == [i \in 1..n |-> IF i <= m THEN s[i] ELSE XNil]
<1>1. s \in Seq(XSlots)
    BY DEF XChain
<1>2. /\ m \in Nat /\ m <= n
      /\ \A i \in 1..m : s[i] \in XSlots /\ s[i] # XNil
      /\ \A i \in 1..m : f[s[i]] = (IF i = m THEN XNil ELSE s[i + 1])
      /\ h = (IF m = 0 THEN XNil ELSE s[1])
  <2>1. \A i \in 1..m : s[i] \in XSlots
    BY <1>1, ElementOfSeq
  <2>2. s = <<>> <=> m = 0
    BY <1>1, LineElements
  <2>3. m \in Nat
    BY <1>1, LenProperties
  <2>4. QED
    BY <2>1, <2>2, <2>3, XEnds DEF XChain
<1> HIDE DEF m
<1>3. XWalks(w, f, h, n)
  <2>1. ASSUME NEW i \in 1..n
        PROVE  w[i] = IF i = 1 THEN h ELSE IF w[i - 1] = XNil THEN XNil ELSE f[w[i - 1]]
    <3>1. CASE i = 1
        <4>1. 1 <= m <=> m # 0
            BY <1>2
        <4>2. QED
            BY <4>1, <3>1, <2>1, <1>2
    <3>2. CASE i # 1
        <4>1. /\ i - 1 \in 1..n /\ (i - 1) + 1 = i
              /\ i - 1 <= m => i - 1 \in 1..m
              /\ i <= m <=> (i - 1 <= m /\ i - 1 # m)
            BY <3>2, <2>1, <1>2
        <4>2. w[i - 1] = (IF i - 1 <= m THEN s[i - 1] ELSE XNil) /\ w[i] = (IF i <= m THEN s[i] ELSE XNil)
            BY <4>1, <2>1
        <4>3. CASE i - 1 <= m
            <5>1. w[i - 1] = s[i - 1] /\ w[i - 1] # XNil
                BY <4>1, <4>2, <4>3, <1>2
            <5>2. f[s[i - 1]] = (IF i - 1 = m THEN XNil ELSE s[i])
                BY <4>1, <4>3, <1>2
            <5>3. QED
                BY <5>1, <5>2, <4>1, <4>2, <4>3, <3>2
        <4>4. CASE ~ (i - 1 <= m)
            BY <4>1, <4>2, <4>4, <3>2
        <4>5. QED
            BY <4>3, <4>4
    <3>3. QED
        BY <3>1, <3>2
  <2> DEFINE v == [i \in 1..n |-> IF i = 1 THEN h
                                  ELSE IF w[i - 1] = XNil THEN XNil ELSE f[w[i - 1]]]
  <2>2. w = v
    BY <2>1
  <2>3. QED
    BY <2>2, Zenon DEF XWalks
<1>4. ASSUME NEW at, XWalks(at, f, h, n)
      PROVE  at = w
  <2> DEFINE D == {i \in 1..n : at[i] # w[i]}
  <2>1. D = {}
    <3>1. SUFFICES ASSUME D # {} PROVE FALSE
        OBVIOUS
    <3>2. D \in SUBSET Nat
        OBVIOUS
    <3>3. PICK i \in D : \A j \in D : i <= j
        BY <3>1, <3>2, LeastNumber
    <3>4. i \in 1..n /\ at[i] # w[i]
        BY <3>3
    <3>5. /\ at[i] = IF i = 1 THEN h ELSE IF at[i - 1] = XNil THEN XNil ELSE f[at[i - 1]]
          /\ w[i] = IF i = 1 THEN h ELSE IF w[i - 1] = XNil THEN XNil ELSE f[w[i - 1]]
        <4>1. at = [j \in 1..n |-> IF j = 1 THEN h
                                   ELSE IF at[j - 1] = XNil THEN XNil ELSE f[at[j - 1]]]
            BY <1>4, Zenon DEF XWalks
        <4>2. w = [j \in 1..n |-> IF j = 1 THEN h
                                  ELSE IF w[j - 1] = XNil THEN XNil ELSE f[w[j - 1]]]
            BY <1>3, Zenon DEF XWalks
        <4> HIDE DEF w
        <4>3. at[i] = IF i = 1 THEN h ELSE IF at[i - 1] = XNil THEN XNil ELSE f[at[i - 1]]
            BY <4>1, <3>4, Zenon
        <4>4. w[i] = IF i = 1 THEN h ELSE IF w[i - 1] = XNil THEN XNil ELSE f[w[i - 1]]
            BY <4>2, <3>4, Zenon
        <4>5. QED
            BY <4>3, <4>4
    <3>6. i # 1
        BY <3>4, <3>5
    <3>7. i - 1 \in 1..n /\ ~ (i <= i - 1)
        BY <3>4, <3>6
    <3>8. at[i - 1] = w[i - 1]
        BY <3>3, <3>7
    <3> HIDE DEF w, D
    <3>9. QED
        BY <3>4, <3>5, <3>8
  <2>2. DOMAIN at = 1..n /\ at = [j \in 1..n |-> at[j]]
    <3> DEFINE v == [i \in 1..n |-> IF i = 1 THEN h
                                    ELSE IF at[i - 1] = XNil THEN XNil ELSE f[at[i - 1]]]
    <3>1. at = v
        BY <1>4, Zenon DEF XWalks
    <3>2. v = [j \in 1..n |-> v[j]] /\ DOMAIN v = 1..n
        OBVIOUS
    <3>3. QED
        BY <3>1, <3>2, Zenon
  <2>3. w = [j \in 1..n |-> w[j]]
    OBVIOUS
  <2> HIDE DEF w
  <2>4. \A j \in 1..n : at[j] = w[j]
    BY <2>1
  <2>5. QED
    BY <2>2, <2>3, <2>4
<1> DEFINE walk == CHOOSE at : XWalks(at, f, h, n)
<1>5. walk = w
  <2>1. XWalks(walk, f, h, n)
    BY <1>3, Zenon
  <2>2. QED
    BY <2>1, <1>4
<1>6. XThreaded(f, h, n) = [i \in 1 .. Cardinality({i \in 1..n : walk[i] # XNil}) |-> walk[i]]
    BY Zenon DEF XThreaded, XWalks
<1> HIDE DEF walk
<1>7. {i \in 1..n : walk[i] # XNil} = 1..m
  <2>1. \A i \in 1..n : walk[i] # XNil <=> i <= m
    <3>1. \A i \in 1..n : i <= m => i \in 1..m
        BY <1>2
    <3>2. QED
        BY <3>1, <1>2, <1>5
  <2>2. \A i \in 1..m : i \in 1..n /\ i <= m
    BY <1>2
  <2>3. \A i \in 1..n : i <= m => i \in 1..m
    BY <1>2
  <2>4. QED
    BY <2>1, <2>2, <2>3
<1>8. Cardinality(1..m) = m
  <2>1. 1 \in Int /\ m \in Int /\ (IF 1 > m THEN 0 ELSE m - 1 + 1) = m
    BY <1>2
  <2>2. QED
    BY <2>1, FS_Interval
<1>9. XThreaded(f, h, n) = [i \in 1..m |-> walk[i]]
    BY <1>6, <1>7, <1>8
<1>10. \A i \in 1..m : walk[i] = s[i]
  <2>1. \A i \in 1..m : i \in 1..n /\ i <= m
    BY <1>2
  <2>2. QED
    BY <2>1, <1>5
<1>11. s = [i \in 1..m |-> s[i]]
    BY <1>1, LenProperties DEF m
<1>12. QED
    BY <1>9, <1>10, <1>11

(* No more slots in a line than there are. *)
LEMMA XLong ==
    ASSUME NEW s \in Seq(XSlots), IsInjective(s)
    PROVE  Len(s) \in 0 .. Capacity + 1
<1>1. IsFiniteSet(Range(s)) /\ Cardinality(Range(s)) = Len(s) /\ Len(s) \in Nat
    BY LineSize, LineElements
<1>2. Capacity \in Nat
    BY CapacityAssumption
<1>3. IsFiniteSet(XSlots) /\ Cardinality(XSlots) = Capacity + 1
  <2>1. 0 \in Int /\ Capacity \in Int /\ (IF 0 > Capacity THEN 0 ELSE Capacity - 0 + 1) = Capacity + 1
    BY <1>2
  <2>2. QED
    BY <2>1, FS_Interval DEF XSlots
<1>4. Range(s) \subseteq XSlots
    BY LineElements
<1>5. Cardinality(Range(s)) <= Cardinality(XSlots)
    BY <1>3, <1>4, FS_Subset
<1>6. QED
    BY <1>1, <1>2, <1>3, <1>5

(* The last to leave, and the first to come to the front. *)
LEMMA LastGoes ==
    ASSUME NEW S, NEW s \in Seq(S), IsInjective(s), s # <<>>
    PROVE  Remove(s, Last(s)) = Front(s)
<1> DEFINE n == Len(s)
<1>1. n \in Nat /\ n \in 1..n /\ Last(s) = s[n]
  <2>1. n \in Nat /\ n # 0
    BY LineElements
  <2>2. QED
    BY <2>1 DEF Last
<1>2. /\ Remove(s, s[n]) \in Seq(S) /\ Len(Remove(s, s[n])) = n - 1
      /\ \A i \in 1..(n - 1) : Remove(s, s[n])[i] = IF i < n THEN s[i] ELSE s[i + 1]
    BY <1>1, LeaveAt
<1>3. /\ Front(s) \in Seq(S) /\ Len(Front(s)) = n - 1
      /\ \A i \in 1..(n - 1) : Front(s)[i] = s[i]
    BY LeaveBack
<1>4. \A i \in 1..(n - 1) : i < n
    BY <1>1
<1> DEFINE t == Remove(s, s[n])
           u == Front(s)
<1> HIDE DEF t, u, n
<1>5. t \in Seq(S) /\ u \in Seq(S) /\ Len(t) = Len(u) /\ \A i \in 1..Len(t) : t[i] = u[i]
    BY <1>2, <1>3, <1>4 DEF t, u
<1>6. t = u
    BY <1>5, SeqEqual
<1>7. QED
    BY <1>1, <1>6 DEF t, u

(* Moving the first to the front changes nothing. *)
LEMMA FirstStays ==
    ASSUME NEW S, NEW s \in Seq(S), IsInjective(s), s # <<>>, NEW x, x = s[1]
    PROVE  <<x>> \o Remove(s, x) = s
<1> DEFINE n == Len(s)
           r == Remove(s, x)
<1>1. n \in Nat /\ n # 0 /\ 1 \in 1..n
    BY LineElements
<1>2. x \in S /\ x \in Range(s)
  <2>1. x \in Range(s)
    BY <1>1, LineElements
  <2>2. QED
    BY <2>1, LineElements
<1>3. /\ r \in Seq(S) /\ Len(r) = n - 1 /\ IsInjective(r) /\ x \notin Range(r)
      /\ \A i \in 1..(n - 1) : r[i] = IF i < 1 THEN s[i] ELSE s[i + 1]
  <2>1. IsInjective(r) /\ Range(r) = Range(s) \ {x}
    BY Leave
  <2>2. /\ r \in Seq(S) /\ Len(r) = n - 1
        /\ \A i \in 1..(n - 1) : r[i] = IF i < 1 THEN s[i] ELSE s[i + 1]
    BY <1>1, LeaveAt
  <2>3. QED
    BY <2>1, <2>2
<1> HIDE DEF r
<1> DEFINE t == <<x>> \o r
<1>4. /\ t \in Seq(S) /\ Len(t) = (n - 1) + 1 /\ t[1] = x
      /\ \A i \in 2..((n - 1) + 1) : t[i] = r[i - 1]
    BY <1>2, <1>3, JoinFront
<1> HIDE DEF t, n
<1>5. \A i \in 1..n : t[i] = s[i]
  <2>1. \A i \in 1..n : i = 1 \/ (i \in 2..((n - 1) + 1) /\ i - 1 \in 1..(n - 1) /\ ~ (i - 1 < 1)
                                     /\ (i - 1) + 1 = i)
    BY <1>1
  <2>2. QED
    BY <2>1, <1>3, <1>4
<1>6. Len(t) = Len(s)
    BY <1>1, <1>4 DEF n
<1>7. t = s
    BY <1>4, <1>5, <1>6, SeqEqual DEF n
<1>8. QED
    BY <1>7 DEF t, r

(* The keys in a line of slots. *)
XNames(ks, s) == [i \in DOMAIN s |-> ks[s[i]]]

XFit(ks, S, T) == \A t \in S : ks[t] \in T

(* The keys in a line of slots, place by place. *)
LEMMA XNamed ==
    ASSUME NEW T, NEW ks, NEW s \in Seq(XSlots), XFit(ks, Range(s), T)
    PROVE  /\ XNames(ks, s) \in Seq(T)
           /\ Len(XNames(ks, s)) = Len(s)
           /\ \A i \in 1..Len(s) : XNames(ks, s)[i] = ks[s[i]]
<1> DEFINE n == Len(s)
<1>1. n \in Nat /\ DOMAIN s = 1..n /\ \A i \in 1..n : s[i] \in Range(s)
    BY LineElements
<1>2. \A i \in 1..n : ks[s[i]] \in T
    BY <1>1 DEF XFit
<1>3. XNames(ks, s) = [i \in 1..n |-> ks[s[i]]]
    BY <1>1 DEF XNames
<1> HIDE DEF n
<1>4. XNames(ks, s) \in Seq(T) /\ Len(XNames(ks, s)) = n
    BY <1>1, <1>2, <1>3
<1>5. QED
    BY <1>3, <1>4 DEF n

(* The keys of a line depend on the slots in it alone. *)
LEMMA XNamesSame ==
    ASSUME NEW ks, NEW kn, NEW s \in Seq(XSlots), \A t \in Range(s) : kn[t] = ks[t]
    PROVE  XNames(kn, s) = XNames(ks, s)
<1>1. \A i \in DOMAIN s : s[i] \in Range(s)
    BY LineElements
<1>2. QED
    BY <1>1 DEF XNames

(* A slot linked in front puts its key in front. *)
LEMMA XNamesPush ==
    ASSUME NEW T, NEW ks, NEW s \in Seq(XSlots), IsInjective(s),
           NEW x \in XSlots, x \notin Range(s),
           XFit(ks, Range(s) \cup {x}, T)
    PROVE  XNames(ks, <<x>> \o s) = <<ks[x]>> \o XNames(ks, s)
<1> DEFINE n == Len(s)
           s2 == <<x>> \o s
           u == XNames(ks, s)
           v == <<ks[x]>> \o u
           w == XNames(ks, s2)
<1>1. /\ s2 \in Seq(XSlots) /\ Len(s2) = n + 1 /\ s2[1] = x
      /\ Range(s2) = Range(s) \cup {x}
      /\ \A i \in 2..(n + 1) : s2[i] = s[i - 1]
    BY JoinFront
<1>2. n \in Nat
    BY LenProperties
<1> HIDE DEF s2
<1>3. w \in Seq(T) /\ Len(w) = n + 1 /\ \A i \in 1..(n + 1) : w[i] = ks[s2[i]]
  <2>1. w \in Seq(T) /\ Len(w) = Len(s2) /\ \A i \in 1..Len(s2) : w[i] = ks[s2[i]]
    <3>1. s2 \in Seq(XSlots) /\ XFit(ks, Range(s2), T)
        BY <1>1
    <3>2. QED
        BY <3>1, XNamed
  <2>2. QED
    BY <2>1, <1>1
<1>4. u \in Seq(T) /\ Len(u) = n /\ \A i \in 1..n : u[i] = ks[s[i]]
  <2>1. XFit(ks, Range(s), T)
    BY DEF XFit
  <2>2. QED
    BY <2>1, XNamed
<1> HIDE DEF u, w, n
<1>5. /\ v \in Seq(T) /\ Len(v) = n + 1 /\ v[1] = ks[x]
      /\ \A i \in 2..(n + 1) : v[i] = u[i - 1]
  <2>1. <<ks[x]>> \in Seq(T) /\ Len(<<ks[x]>>) = 1 /\ <<ks[x]>>[1] = ks[x]
    BY DEF XFit
  <2>2. /\ v \in Seq(T) /\ Len(v) = Len(<<ks[x]>>) + Len(u)
        /\ \A i \in 1 .. Len(<<ks[x]>>) + Len(u) :
              v[i] = IF i <= Len(<<ks[x]>>) THEN <<ks[x]>>[i] ELSE u[i - Len(<<ks[x]>>)]
    BY <2>1, <1>4, ConcatProperties
  <2>3. /\ v \in Seq(T) /\ Len(v) = 1 + n
        /\ \A i \in 1 .. 1 + n : v[i] = IF i <= 1 THEN <<ks[x]>>[i] ELSE u[i - 1]
    BY <2>1, <2>2, <1>4
  <2> HIDE DEF v
  <2>4. 1 \in 1..(1 + n) /\ 1 + n = n + 1 /\ \A i \in 2..(n + 1) : i \in 1..(1 + n) /\ ~ (i <= 1)
    BY <1>2
  <2>5. QED
    BY <2>1, <2>3, <2>4
<1> HIDE DEF v
<1>6. \A i \in 1..(n + 1) : v[i] = w[i]
  <2>1. \A i \in 1..(n + 1) : i = 1 \/ (i \in 2..(n + 1) /\ i - 1 \in 1..n)
    BY <1>2
  <2>2. v[1] = w[1]
    <3>1. 1 \in 1..(n + 1)
        BY <1>2
    <3>2. QED
        BY <3>1, <1>1, <1>3, <1>5
  <2>3. \A i \in 2..(n + 1) : i \in 1..(n + 1) /\ i - 1 \in 1..n
    BY <1>2
  <2>4. ASSUME NEW i \in 2..(n + 1) PROVE v[i] = w[i]
    <3>1. w[i] = ks[s2[i]] /\ s2[i] = s[i - 1]
        BY <2>3, <1>1, <1>3
    <3>2. v[i] = u[i - 1] /\ u[i - 1] = ks[s[i - 1]]
        BY <2>3, <1>4, <1>5
    <3>3. QED
        BY <3>1, <3>2
  <2>5. QED
    BY <2>1, <2>2, <2>4
<1>7. v = w
    BY <1>3, <1>5, <1>6, SeqEqual
<1>8. QED
    BY <1>7 DEF v, w, u, s2

(* A slot unlinked takes its key, and no other, out of the line of keys. *)
LEMMA XNamesRemove ==
    ASSUME NEW T, NEW ks, NEW s \in Seq(XSlots), IsInjective(s), NEW x \in Range(s),
           XFit(ks, Range(s), T),
           \A t, u \in Range(s) : ks[t] = ks[u] => t = u
    PROVE  /\ IsInjective(XNames(ks, s))
           /\ XNames(ks, Remove(s, x)) = Remove(XNames(ks, s), ks[x])
<1> DEFINE n == Len(s)
           r == Remove(s, x)
           a == XNames(ks, s)
           b == XNames(ks, r)
<1>1. n \in Nat /\ \A i \in 1..n : s[i] \in Range(s)
    BY LineElements
<1>2. a \in Seq(T) /\ Len(a) = n /\ \A i \in 1..n : a[i] = ks[s[i]]
    BY XNamed
<1>3. IsInjective(a)
  <2>1. \A i, j \in 1..n : s[i] = s[j] => i = j
    BY LineElements
  <2>2. \A i, j \in 1..n : a[i] = a[j] => i = j
    BY <2>1, <1>1, <1>2
  <2> HIDE DEF a, n
  <2>3. \A i, j \in 1..Len(a) : a[i] = a[j] => i = j
    BY <2>2, <1>2
  <2>4. QED
    BY <2>3, <1>2, LineElements
<1>4. PICK p \in 1..n : x = s[p]
    BY LineElements
<1>5. /\ r \in Seq(XSlots) /\ Range(r) = Range(s) \ {x} /\ Len(r) = n - 1
      /\ \A i \in 1..(n - 1) : r[i] = IF i < p THEN s[i] ELSE s[i + 1]
  <2>1. r \in Seq(XSlots) /\ Range(r) = Range(s) \ {x} /\ Len(r) = n - 1
    BY Leave
  <2>2. \A i \in 1..(n - 1) : r[i] = IF i < p THEN s[i] ELSE s[i + 1]
    BY <1>4, LeaveAt
  <2>3. QED
    BY <2>1, <2>2
<1> HIDE DEF r
<1>6. b \in Seq(T) /\ Len(b) = n - 1 /\ \A i \in 1..(n - 1) : b[i] = ks[r[i]]
  <2>1. XFit(ks, Range(r), T) /\ r \in Seq(XSlots)
    BY <1>5 DEF XFit
  <2>2. b \in Seq(T) /\ Len(b) = Len(r) /\ \A i \in 1..Len(r) : b[i] = ks[r[i]]
    BY <2>1, XNamed
  <2>3. QED
    BY <2>2, <1>5
<1> HIDE DEF a, b, n
<1> DEFINE c == Remove(a, a[p])
<1>7. /\ c \in Seq(T) /\ Len(c) = n - 1
      /\ \A i \in 1..(n - 1) : c[i] = IF i < p THEN a[i] ELSE a[i + 1]
  <2>1. p \in 1..Len(a)
    BY <1>2, <1>4
  <2>2. /\ c \in Seq(T) /\ Len(c) = Len(a) - 1
        /\ \A i \in 1..(Len(a) - 1) : c[i] = IF i < p THEN a[i] ELSE a[i + 1]
    BY <2>1, <1>2, <1>3, LeaveAt
  <2>3. QED
    BY <2>2, <1>2
<1> HIDE DEF c
<1>8. \A i \in 1..(n - 1) : b[i] = c[i]
  <2>1. \A i \in 1..(n - 1) : i \in 1..n /\ i + 1 \in 1..n
    BY <1>1
  <2>2. ASSUME NEW i \in 1..(n - 1) PROVE b[i] = c[i]
    <3>1. a[i] = ks[s[i]] /\ a[i + 1] = ks[s[i + 1]]
        BY <2>1, <1>2
    <3>2. CASE i < p
        BY <3>1, <3>2, <1>5, <1>6, <1>7
    <3>3. CASE ~ (i < p)
        BY <3>1, <3>3, <1>5, <1>6, <1>7
    <3>4. QED
        BY <3>2, <3>3
  <2>3. QED
    BY <2>2
<1>9. b = c
    BY <1>6, <1>7, <1>8, SeqEqual
<1>10. a[p] = ks[x]
    BY <1>2, <1>4
<1>11. QED
    BY <1>3, <1>9, <1>10 DEF a, b, c, r

(* The victim's side. *)
LEMMA XNamesFront ==
    ASSUME NEW T, NEW ks, NEW s \in Seq(XSlots), IsInjective(s), s # <<>>,
           XFit(ks, Range(s), T),
           \A t, u \in Range(s) : ks[t] = ks[u] => t = u
    PROVE  /\ XNames(ks, Front(s)) = Front(XNames(ks, s))
           /\ Last(XNames(ks, s)) = ks[Last(s)]
           /\ Last(s) \in Range(s)
<1> DEFINE a == XNames(ks, s)
<1>1. Remove(s, Last(s)) = Front(s) /\ Last(s) \in Range(s) /\ Last(s) = s[Len(s)]
    BY LastGoes, LeaveBack DEF Last
<1>2. IsInjective(a) /\ XNames(ks, Remove(s, Last(s))) = Remove(a, ks[Last(s)])
    BY <1>1, XNamesRemove
<1>3. a \in Seq(T) /\ Len(a) = Len(s) /\ \A i \in 1..Len(s) : a[i] = ks[s[i]]
    BY XNamed
<1>4. Len(s) \in 1..Len(s) /\ Len(s) # 0
  <2>1. Len(s) \in Nat /\ Len(s) # 0
    BY LineElements
  <2>2. QED
    BY <2>1
<1> HIDE DEF a
<1>5. a # <<>> /\ Last(a) = ks[Last(s)]
  <2>1. a # <<>>
    BY <1>3, <1>4, LineElements
  <2>2. Last(a) = a[Len(s)]
    BY <1>3 DEF Last
  <2>3. QED
    BY <2>1, <2>2, <1>1, <1>3, <1>4
<1>6. Remove(a, Last(a)) = Front(a)
    BY <1>2, <1>3, <1>5, LastGoes
<1>7. QED
    BY <1>1, <1>2, <1>5, <1>6 DEF a

(* Nothing held, and every slot free. *)
LEMMA XStarts ==
    ASSUME NEW ix, ix = [k \in {} |-> 0], NEW ks, ks = [s \in {} |-> 0],
           NEW fr, fr = [i \in 1..(Capacity + 1) |-> Capacity + 1 - i]
    PROVE  XTable(ix, ks, fr, {}) /\ DOMAIN ks = {}
<1>1. Capacity \in Nat
    BY CapacityAssumption
<1>2. fr \in Seq(XSlots)
  <2>1. Capacity + 1 \in Nat /\ \A i \in 1..(Capacity + 1) : Capacity + 1 - i \in 0..Capacity
    BY <1>1
  <2>2. fr \in [1..(Capacity + 1) -> XSlots]
    BY <2>1 DEF XSlots
  <2>3. QED
    BY <2>1, <2>2, SeqDef
<1>3. IsInjective(fr)
  <2>1. \A i, j \in 1..(Capacity + 1) : Capacity + 1 - i = Capacity + 1 - j => i = j
    BY <1>1
  <2>2. QED
    BY <2>1 DEF IsInjective
<1>4. Range(fr) = XSlots
  <2>1. \A x \in 0..Capacity : Capacity + 1 - x \in 1..(Capacity + 1) /\ Capacity + 1 - (Capacity + 1 - x) = x
    BY <1>1
  <2>2. \A i \in 1..(Capacity + 1) : Capacity + 1 - i \in 0..Capacity
    BY <1>1
  <2>3. QED
    BY <2>1, <2>2 DEF Range, XSlots
<1>5. QED
    BY <1>2, <1>3, <1>4 DEF XTable

(* A list with nothing on it. *)
LEMMA XEmpty ==
    ASSUME NEW off \in {XNil, XOff}, NEW f, f = [s \in XSlots |-> off]
    PROVE  XChain(f, f, XNil, XNil, off, <<>>)
<1>1. <<>> \in Seq(XSlots) /\ IsInjective(<<>>) /\ Range(<<>>) = {} /\ Len(<<>>) = 0
    BY EmptySeq DEF IsInjective, Range
<1>2. f \in XLinks
    BY DEF XLinks
<1>3. 1..0 = {}
    OBVIOUS
<1>4. QED
    BY <1>1, <1>2, <1>3 DEF XChain

(* The keys whose bit is set. *)
XBits(ix, bits) == {k \in DOMAIN ix : bits[ix[k]]}

XBitmap(bits) == bits \in [XSlots -> BOOLEAN]

XMark(bits, s, b) == [bits EXCEPT ![s] = b]

(* A key's bit is set; a slot's bit is cleared, which was the bit of the   *)
(* key k, or of none; and another map from keys to slots keeps the bits.   *)
XBitIs(ix, bits, k) == XBits(ix, XMark(bits, ix[k], TRUE)) = XBits(ix, bits) \cup {k}

XBitIsNot(ix, bits, s, k) ==
    /\ XBits(ix, XMark(bits, s, FALSE)) = XBits(ix, bits) \ {k}
    /\ k \in XBits(ix, bits) <=> bits[s]

XBitsStay(ix, bits, i2, b2) == XBits(i2, b2) = XBits(ix, bits)

(* A hit sets the bit of its key and of no other. *)
LEMMA XBitSet ==
    ASSUME NEW ix, NEW ks, NEW fr, NEW res, XTable(ix, ks, fr, res),
           NEW bits, XBitmap(bits), NEW k \in res
    PROVE  XBitIs(ix, bits, k)
<1> DEFINE b2 == XMark(bits, ix[k], TRUE)
<1>1. \A x \in res : ix[x] \in XSlots /\ (ix[x] = ix[k] => x = k)
  <2>1. \A x \in res : ix[x] \in XSlots /\ ks[ix[x]] = x
    BY XFinds
  <2>2. QED
    BY <2>1
<1>2. \A x \in res : b2[ix[x]] <=> bits[ix[x]] \/ x = k
    BY <1>1 DEF XMark, XBitmap
<1>3. DOMAIN ix = res
    BY DEF XTable
<1> HIDE DEF b2
<1>4. QED
    BY <1>2, <1>3 DEF XBits, b2, XBitIs

(* A key enters a slot with its bit cleared, and the bits of the others *)
(* stay.                                                                *)
LEMMA XBitNew ==
    ASSUME NEW ix, NEW ks, NEW fr, NEW res, XTable(ix, ks, fr, res),
           NEW bits, XBitmap(bits), NEW k, k \notin res, NEW s \in XSlots, s \notin DOMAIN ks
    PROVE  XBitsStay(ix, bits, XPut(ix, k, s), XMark(bits, s, FALSE))
<1> DEFINE b2 == XMark(bits, s, FALSE)
           ix2 == XPut(ix, k, s)
<1>1. \A x \in res : ix[x] \in XSlots /\ ix[x] # s
    BY XFinds
<1>2. DOMAIN ix = res
    BY DEF XTable
<1>3. /\ DOMAIN ix2 = res \cup {k} /\ ix2[k] = s
      /\ \A x \in res : ix2[x] = ix[x]
    BY <1>2 DEF XPut
<1>4. ~ b2[s] /\ \A x \in res : b2[ix[x]] = bits[ix[x]]
    BY <1>1 DEF XMark, XBitmap
<1> HIDE DEF b2, ix2
<1>5. \A x \in res \cup {k} : b2[ix2[x]] <=> x \in res /\ bits[ix[x]]
    BY <1>3, <1>4
<1>6. QED
    BY <1>2, <1>3, <1>5 DEF XBits, b2, ix2, XBitsStay

(* The hand clears the bit of the key in the slot and of no other. *)
LEMMA XBitCleared ==
    ASSUME NEW ix, NEW ks, NEW fr, NEW res, XTable(ix, ks, fr, res),
           NEW bits, XBitmap(bits), NEW s \in DOMAIN ks
    PROVE  XBitIsNot(ix, bits, s, ks[s])
<1> DEFINE b2 == XMark(bits, s, FALSE)
<1>0. s \in XSlots
    BY DEF XTable
<1>1. \A x \in res : ix[x] \in XSlots /\ (ix[x] = s <=> x = ks[s])
  <2>1. \A x \in res : ix[x] \in XSlots /\ ks[ix[x]] = x
    BY XFinds
  <2>2. ix[ks[s]] = s
    BY DEF XTable
  <2>3. QED
    BY <2>1, <2>2
<1>2. \A x \in res : b2[ix[x]] <=> bits[ix[x]] /\ x # ks[s]
    BY <1>1, <1>0 DEF XMark, XBitmap
<1>3. DOMAIN ix = res /\ ks[s] \in res /\ ix[ks[s]] = s
    BY DEF XTable
<1> HIDE DEF b2
<1>4. QED
    BY <1>2, <1>3 DEF XBits, b2, XBitIsNot

(* A key evicted with its bit cleared leaves the bits of the others. *)
LEMMA XBitGoes ==
    ASSUME NEW ix, NEW ks, NEW fr, NEW res, XTable(ix, ks, fr, res),
           NEW bits, XBitmap(bits), NEW s \in DOMAIN ks, ~ bits[s]
    PROVE  XBitsStay(ix, bits, XCut(ix, ks[s]), bits)
<1>1. DOMAIN ix = res /\ ks[s] \in res /\ ix[ks[s]] = s
    BY DEF XTable
<1>2. /\ DOMAIN XCut(ix, ks[s]) = res \ {ks[s]}
      /\ \A x \in res \ {ks[s]} : XCut(ix, ks[s])[x] = ix[x]
    BY <1>1 DEF XCut
<1>3. QED
    BY <1>1, <1>2 DEF XBits, XBitsStay

(* The slots in a line are those in use, and hold the keys in res.         *)
XLine(o, ks, res) ==
    /\ o \in Seq(XSlots) /\ IsInjective(o)
    /\ Range(o) = DOMAIN ks
    /\ {ks[t] : t \in DOMAIN ks} = res
    /\ \A s, t \in DOMAIN ks : ks[s] = ks[t] => s = t

(* A queue of the slots in use holds the keys the harness holds. *)
LEMMA XLined ==
    ASSUME NEW ix, NEW ks, NEW fr, NEW res, XTable(ix, ks, fr, res),
           NEW o \in Seq(XSlots), IsInjective(o), Range(o) = DOMAIN ks
    PROVE  XLine(o, ks, res)
<1>1. \A s \in DOMAIN ks : ix[ks[s]] = s
    BY DEF XTable
<1>2. \A s, t \in DOMAIN ks : ks[s] = ks[t] => s = t
    BY <1>1
<1>3. QED
    BY <1>2 DEF XLine, XTable

(* Every key held is in one of the first n places, and in no other. *)
XKeyed(o, ks, res, n) ==
    /\ n \in Nat
    /\ \A i \in 1..n : o[i] \in DOMAIN ks /\ o[i] \in XSlots
    /\ \A i, j \in 1..n : ks[o[i]] = ks[o[j]] => i = j
    /\ \A x \in res : \E j \in 1..n : ks[o[j]] = x
    /\ \A i \in 1..n : ks[o[i]] \in res
    /\ o # <<>> => Head(o) = o[1] /\ 1 \in 1..n

(* Each key held is in one place of the queue. *)
LEMMA XLineKeys ==
    ASSUME NEW o, NEW ks, NEW res, XLine(o, ks, res), NEW n, n = Len(o)
    PROVE  XKeyed(o, ks, res, n)
<1>1. /\ o \in Seq(XSlots) /\ IsInjective(o) /\ Range(o) = DOMAIN ks
      /\ {ks[t] : t \in DOMAIN ks} = res
      /\ \A s, t \in DOMAIN ks : ks[s] = ks[t] => s = t
    BY DEF XLine
<1>2. /\ n \in Nat
      /\ DOMAIN ks = {o[i] : i \in 1..n} /\ DOMAIN ks \subseteq XSlots
      /\ \A i, j \in 1..n : o[i] = o[j] => i = j
      /\ o = <<>> <=> n = 0
      /\ o # <<>> => Head(o) = o[1]
  <2>1. /\ Len(o) \in Nat
        /\ Range(o) = {o[i] : i \in 1..Len(o)} /\ Range(o) \subseteq XSlots
        /\ \A i, j \in 1..Len(o) : o[i] = o[j] => i = j
        /\ o = <<>> <=> Len(o) = 0
        /\ o # <<>> => Head(o) = o[1]
    BY <1>1, LineElements
  <2>2. QED
    BY <2>1, <1>1
<1>3. o # <<>> => 1 \in 1..n
    BY <1>2
<1>4. /\ \A i \in 1..n : o[i] \in DOMAIN ks /\ o[i] \in XSlots
      /\ \A t \in DOMAIN ks : \E i \in 1..n : o[i] = t
    BY <1>2
<1>5. \A i, j \in 1..n : ks[o[i]] = ks[o[j]] => i = j
  <2>1. SUFFICES ASSUME NEW i \in 1..n, NEW j \in 1..n, ks[o[i]] = ks[o[j]] PROVE i = j
    OBVIOUS
  <2>2. o[i] = o[j]
    BY <2>1, <1>1, <1>4
  <2>3. QED
    BY <2>2, <1>2
<1>6. \A x \in res : \E j \in 1..n : ks[o[j]] = x
    BY <1>1, <1>4
<1>7. \A i \in 1..n : ks[o[i]] \in res
    BY <1>1, <1>4
<1>8. QED
    BY <1>2, <1>3, <1>4, <1>5, <1>6, <1>7 DEF XKeyed

-----------------------------------------------------------------------------
(* LRU *)
LEMMA UCardinality == \A S : LRU!Cardinality(S) = Cardinality(S)
BY Zenon DEF LRU!Cardinality, Cardinality

(* LRU's operators are those of this module. *)
LEMMA UWords ==
    /\ \A s : LRU!Range(s) = Range(s) /\ (LRU!IsInjective(s) <=> IsInjective(s))
    /\ \A s : LRU!Front(s) = Front(s) /\ LRU!Last(s) = Last(s)
    /\ LRU!OverCapacity <=> Cardinality(resident) > Capacity
    /\ LRU!SlotIds = XSlots /\ LRU!Nil = XNil /\ LRU!Unlinked = XOff
BY UCardinality DEF LRU!Range, Range, LRU!IsInjective, IsInjective, LRU!Front, Front, LRU!Last,
   Last, LRU!OverCapacity, LRU!SlotIds, XSlots, LRU!Nil, XNil, LRU!Unlinked, XOff

URecord == [next : XLinks, prev : XLinks, head : XSlots \cup {XNil}, tail : XSlots \cup {XNil},
            length : 0 .. Capacity + 1]

(* The list l spells s. *)
UList(l, s) ==
    /\ l \in URecord
    /\ XChain(l.next, l.prev, l.head, l.tail, XOff, s)
    /\ l.length = Len(s)

(* A list made of its parts. *)
LEMMA UMade ==
    ASSUME NEW f, NEW b, NEW h, NEW t, NEW s, XChain(f, b, h, t, XOff, s),
           NEW n, n = Len(s),
           NEW l, l = [next |-> f, prev |-> b, head |-> h, tail |-> t, length |-> n]
    PROVE  UList(l, s)
<1>1. /\ s \in Seq(XSlots) /\ IsInjective(s) /\ f \in XLinks /\ b \in XLinks
      /\ h = (IF s = <<>> THEN XNil ELSE s[1])
      /\ t = (IF s = <<>> THEN XNil ELSE s[Len(s)])
    BY DEF XChain
<1>2. Len(s) \in 0 .. Capacity + 1
    BY <1>1, XLong
<1>3. h \in XSlots \cup {XNil} /\ t \in XSlots \cup {XNil}
  <2>1. CASE s = <<>>
    BY <2>1, <1>1
  <2>2. CASE s # <<>>
    <3>1. Len(s) \in Nat /\ Len(s) # 0
        BY <2>2, <1>1, LineElements
    <3>2. 1 \in 1..Len(s) /\ Len(s) \in 1..Len(s)
        BY <3>1
    <3>3. s[1] \in XSlots /\ s[Len(s)] \in XSlots
        BY <3>2, <1>1, ElementOfSeq
    <3>4. QED
        BY <3>3, <2>2, <1>1
  <2>3. QED
    BY <2>1, <2>2
<1>4. l \in URecord
    BY <1>1, <1>2, <1>3 DEF URecord
<1>5. l.next = f /\ l.prev = b /\ l.head = h /\ l.tail = t /\ l.length = n
    OBVIOUS
<1>6. QED
    BY <1>4, <1>5 DEF UList

(* LRU: pb_ilist_push_front keeps next and previous links and both ends in *)
(* agreement.                                                              *)
LEMMA UPushes ==
    ASSUME NEW l, NEW s, UList(l, s), NEW x \in XSlots, x \notin Range(s)
    PROVE  UList(LRU!PushFront(l, x), <<x>> \o s)
<1> DEFINE f == XLink(l.next, x, l.head)
           b == XMend(l.prev, x, XNil, l.head, x)
           t == IF l.head = XNil THEN x ELSE l.tail
           n == l.length + 1
<1>1. /\ l.next \in XLinks /\ l.prev \in XLinks /\ l.head # x
      /\ s \in Seq(XSlots) /\ IsInjective(s)
  <2>1. /\ l.next \in XLinks /\ l.prev \in XLinks
        /\ s \in Seq(XSlots) /\ IsInjective(s)
        /\ l.head = (IF s = <<>> THEN XNil ELSE s[1])
    BY DEF UList, XChain
  <2>2. s # <<>> => s[1] \in Range(s)
    <3>1. s # <<>> => 1 \in 1..Len(s)
        BY <2>1, LineElements
    <3>2. QED
        BY <3>1, <2>1, LineElements
  <2>3. QED
    BY <2>1, <2>2, XEnds
<1>2. [l.next EXCEPT ![x] = l.head] = f
    BY <1>1 DEF XLink, XLinks
<1>3. DOMAIN l.next = XSlots
    BY <1>1 DEF XLinks
<1>4. [y \in XSlots |-> CASE y = x -> XNil [] y = l.head -> x [] OTHER -> l.prev[y]] = b
    BY <1>1 DEF XMend
<1>5. LRU!PushFront(l, x) = [next |-> f, prev |-> b, head |-> x, tail |-> t, length |-> n]
    BY <1>2, <1>3, <1>4, UWords DEF LRU!PushFront, LRU!Slots
<1>6. XChain(l.next, l.prev, l.head, l.tail, XOff, s)
    BY DEF UList
<1> HIDE DEF f, b, t, n
<1>7. XChain(f, b, x, t, XOff, <<x>> \o s)
    BY <1>6, XPushes DEF f, b, t
<1>8. n = Len(<<x>> \o s)
  <2>1. Len(<<x>> \o s) = Len(s) + 1
    BY <1>1, JoinFront
  <2>2. QED
    BY <2>1 DEF n, UList
<1>9. QED
    BY <1>5, <1>7, <1>8, UMade

(* LRU: unlink does, whether the slot is at an end, between two others or *)
(* alone.                                                                 *)
LEMMA UUnlinks ==
    ASSUME NEW l, NEW s, UList(l, s), NEW x \in Range(s)
    PROVE  UList(LRU!Unlink(l, x), Remove(s, x))
<1> DEFINE a == l.next[x]
           c == l.prev[x]
           f == XMend(l.next, x, XOff, c, a)
           b == XMend(l.prev, x, XOff, a, c)
           h == IF c = XNil THEN a ELSE l.head
           t == IF a = XNil THEN c ELSE l.tail
           n == l.length - 1
<1>1. /\ l.next \in XLinks /\ l.prev \in XLinks
      /\ s \in Seq(XSlots) /\ IsInjective(s)
      /\ XChain(l.next, l.prev, l.head, l.tail, XOff, s)
    BY DEF UList, XChain
<1>2. PICK p \in 1..Len(s) : x = s[p]
    BY <1>1, LineElements
<1>3. a # x /\ c # x
  <2>1. /\ a = (IF p = Len(s) THEN XNil ELSE s[p + 1])
        /\ c = (IF p = 1 THEN XNil ELSE s[p - 1])
    BY <1>1, <1>2 DEF XChain
  <2>2. /\ Len(s) \in Nat /\ \A i, j \in 1..Len(s) : s[i] = s[j] => i = j
    BY <1>1, LineElements
  <2>3. p # Len(s) => p + 1 \in 1..Len(s) /\ p + 1 # p
    BY <2>2
  <2>4. p # 1 => p - 1 \in 1..Len(s) /\ p - 1 # p
    BY <2>2
  <2>5. x \in XSlots
    BY <1>1, LineElements
  <2>6. QED
    BY <2>1, <2>2, <2>3, <2>4, <2>5, <1>2, XEnds
<1>4. DOMAIN l.next = XSlots
    BY <1>1 DEF XLinks
<1>5. /\ [y \in XSlots |-> CASE y = x -> XOff [] y = c -> a [] OTHER -> l.next[y]] = f
      /\ [y \in XSlots |-> CASE y = x -> XOff [] y = a -> c [] OTHER -> l.prev[y]] = b
    BY <1>3 DEF XMend
<1>6. LRU!Unlink(l, x) = [next |-> f, prev |-> b, head |-> h, tail |-> t, length |-> n]
    BY <1>4, <1>5, UWords DEF LRU!Unlink, LRU!Slots
<1> HIDE DEF f, b, h, t, n
<1>7. XChain(f, b, h, t, XOff, Remove(s, x))
  <2>1. /\ f = XMend(l.next, x, XOff, l.prev[x], l.next[x])
        /\ b = XMend(l.prev, x, XOff, l.next[x], l.prev[x])
        /\ h = (IF l.prev[x] = XNil THEN l.next[x] ELSE l.head)
        /\ t = (IF l.next[x] = XNil THEN l.prev[x] ELSE l.tail)
        /\ XOff \in {XNil, XOff}
    BY DEF f, b, h, t
  <2>2. QED
    BY <1>1, <1>2, <2>1, XPulls
<1>8. n = Len(Remove(s, x))
  <2>1. Len(Remove(s, x)) = Len(s) - 1
    BY <1>1, Leave
  <2>2. QED
    BY <2>1 DEF n, UList
<1>9. QED
    BY <1>6, <1>7, <1>8, UMade

(* LRU: a hit moves its slot to the front, and the others keep their order. *)
LEMMA UMoves ==
    ASSUME NEW l, NEW s, UList(l, s), NEW x \in Range(s)
    PROVE  UList(LRU!MoveToFront(l, x), <<x>> \o Remove(s, x))
<1>1. /\ s \in Seq(XSlots) /\ IsInjective(s) /\ s # <<>> /\ x \in XSlots
      /\ l.head = s[1]
  <2>1. s \in Seq(XSlots) /\ IsInjective(s) /\ l.head = (IF s = <<>> THEN XNil ELSE s[1])
    BY DEF UList, XChain
  <2>2. s # <<>> /\ x \in XSlots
    BY <2>1, LineElements
  <2>3. QED
    BY <2>1, <2>2
<1>2. CASE l.head = x
    BY <1>1, <1>2, FirstStays DEF LRU!MoveToFront
<1>3. CASE l.head # x
  <2> DEFINE m == LRU!Unlink(l, x)
             r == Remove(s, x)
  <2>1. UList(m, r)
    BY UUnlinks
  <2>2. x \notin Range(r)
    BY <1>1, Leave
  <2>3. LRU!MoveToFront(l, x) = LRU!PushFront(m, x)
    BY <1>3 DEF LRU!MoveToFront
  <2> HIDE DEF m, r
  <2>4. UList(LRU!PushFront(m, x), <<x>> \o r)
    BY <2>1, <2>2, <1>1, UPushes
  <2>5. QED
    BY <2>3, <2>4 DEF r
<1>4. QED
    BY <1>2, <1>3

(* LRU: pb_ilist_pop_back takes the last of the list. *)
LEMMA UPops ==
    ASSUME NEW l, NEW s, UList(l, s), l.tail # XNil
    PROVE  /\ s # <<>> /\ l.tail = Last(s) /\ Last(s) \in Range(s)
           /\ UList(LRU!PopBack(l), Front(s))
<1>1. /\ s \in Seq(XSlots) /\ IsInjective(s)
      /\ l.tail = (IF s = <<>> THEN XNil ELSE s[Len(s)])
    BY DEF UList, XChain
<1>2. s # <<>> /\ l.tail = Last(s)
    BY <1>1 DEF Last
<1>3. Last(s) \in Range(s) /\ Remove(s, Last(s)) = Front(s)
    BY <1>1, <1>2, LeaveBack, LastGoes
<1>4. LRU!PopBack(l) = LRU!Unlink(l, Last(s))
    BY <1>2, UWords DEF LRU!PopBack
<1>5. UList(LRU!Unlink(l, Last(s)), Remove(s, Last(s)))
    BY <1>3, UUnlinks
<1>6. QED
    BY <1>2, <1>3, <1>4, <1>5

(* LRU: walking the links spells the list, so the module's Linked is that *)
(* list.                                                                  *)
LEMMA UStretches ==
    ASSUME NEW l, NEW s, UList(l, s)
    PROVE  LRU!Linked(l) = s
<1>1. /\ XChain(l.next, l.prev, l.head, l.tail, XOff, s) /\ l.next \in XLinks
      /\ s \in Seq(XSlots) /\ IsInjective(s)
    BY DEF UList, XChain
<1>2. DOMAIN l.next = XSlots
    BY <1>1 DEF XLinks
<1>3. Cardinality(XSlots) = Capacity + 1 /\ Capacity + 1 \in Nat \ {0}
  <2>1. Capacity \in Nat
    BY CapacityAssumption
  <2>2. 0 \in Int /\ Capacity \in Int /\ (IF 0 > Capacity THEN 0 ELSE Capacity - 0 + 1) = Capacity + 1
    BY <2>1
  <2>3. Cardinality(XSlots) = Capacity + 1
    BY <2>2, FS_Interval DEF XSlots
  <2>4. QED
    BY <2>1, <2>3
<1>4. Len(s) <= Capacity + 1
    BY <1>1, <1>3, XLong
<1>5. LRU!Linked(l) = XThreaded(l.next, l.head, Capacity + 1)
  <2>1. LRU!Linked(l) = LRU!Threaded(l.next, l.head, Capacity + 1)
    BY <1>2, <1>3, UCardinality DEF LRU!Linked, LRU!Slots
  <2>2. \A f, h, n : LRU!Threaded(f, h, n) = XThreaded(f, h, n)
    BY UCardinality, Zenon DEF LRU!Threaded, XThreaded, LRU!Nil, XNil
  <2>3. QED
    BY <2>1, <2>2
<1>6. QED
    BY <1>1, <1>3, <1>4, <1>5, XThreads

(* LRU: the order it implements counts as this module does. *)
LEMMA URCardinality == \A S : LRU!R!Cardinality(S) = Cardinality(S)
BY Zenon DEF LRU!R!Cardinality, Cardinality

(* LRU: and has its operators. *)
LEMMA URWords ==
    /\ \A s : LRU!R!Front(s) = Front(s) /\ LRU!R!Last(s) = Last(s)
    /\ \A s, x : LRU!R!Remove(s, x) = Remove(s, x)
    /\ LRU!R!OverCapacity <=> Cardinality(resident) > Capacity
BY URCardinality DEF LRU!R!Range, Range, LRU!R!Front, Front, LRU!R!Last, Last, LRU!R!Remove, Remove,
   LRU!R!WithoutAt, WithoutAt, LRU!R!OverCapacity

(* The list spells s, and its slots are those in use. *)
UHolds(s) ==
    /\ UList(recency, s)
    /\ Range(s) = DOMAIN keys

(* LRU's invariant: the links spell one list of the slots in use. *)
UInv ==
    /\ Held(FewKeys, Capacity)
    /\ Counted(FewKeys)
    /\ XTable(index, keys, free, resident)
    /\ \E s : UHolds(s)

(* LRU: what the order read from the links is, as long as they spell a list. *)
LEMMA UOrder ==
    ASSUME UInv, NEW s, UHolds(s)
    PROVE  /\ s \in Seq(XSlots) /\ IsInjective(s)
           /\ LRU!KeyOrder = XNames(keys, s)
           /\ XFit(keys, Range(s), FewKeys)
           /\ \A t, u \in Range(s) : keys[t] = keys[u] => t = u
<1>1. s \in Seq(XSlots) /\ IsInjective(s) /\ Range(s) = DOMAIN keys
    BY DEF UHolds, UList, XChain
<1>2. LRU!KeyOrder = XNames(keys, s)
    BY UStretches DEF LRU!KeyOrder, XNames, UHolds
<1>3. /\ resident \subseteq FewKeys
      /\ \A t \in DOMAIN keys : keys[t] \in resident /\ index[keys[t]] = t
    BY DEF UInv, XTable, Held
<1>4. QED
    BY <1>1, <1>2, <1>3 DEF XFit

(* LRU: a hit makes its key the most recent one. *)
LEMMA UHits ==
    ASSUME UInv, NEW k \in FewKeys, LRU!Hit(k)
    PROVE  UInv' /\ LRU!R!Hit(k)
<1>1. PICK s : UHolds(s)
    BY DEF UInv
<1>2. /\ s \in Seq(XSlots) /\ IsInjective(s) /\ Range(s) = DOMAIN keys
      /\ LRU!KeyOrder = XNames(keys, s)
      /\ XFit(keys, Range(s), FewKeys)
      /\ \A t, u \in Range(s) : keys[t] = keys[u] => t = u
    BY <1>1, UOrder DEF UHolds
<1>3. /\ k \in resident /\ resident' = resident /\ event' = [op |-> "hit", key |-> k]
      /\ recency' = LRU!MoveToFront(recency, index[k])
      /\ keys' = keys /\ index' = index /\ free' = free
    BY DEF LRU!Hit, LRU!LookupHits, LRU!tableVars
<1> DEFINE x == index[k]
           r == Remove(s, x)
           s2 == <<x>> \o r
<1>4. x \in DOMAIN keys /\ keys[x] = k /\ x \in XSlots
    BY <1>3, XFinds DEF UInv
<1>5. UList(recency', s2)
    BY <1>1, <1>2, <1>3, <1>4, UMoves DEF UHolds
<1>6. r \in Seq(XSlots) /\ IsInjective(r) /\ Range(r) = Range(s) \ {x}
    BY <1>2, Leave
<1>15. XNames(keys, r) = Remove(XNames(keys, s), k)
    BY <1>2, <1>4, XNamesRemove
<1> HIDE DEF x, r
<1>7. Range(s2) = DOMAIN keys'
  <2>1. Range(s2) = (Range(s) \ {x}) \cup {x}
    BY <1>4, <1>6, JoinFront
  <2>2. QED
    BY <2>1, <1>2, <1>3, <1>4
<1>8. \E z : UList(recency', z) /\ Range(z) = DOMAIN keys'
    BY <1>5, <1>7
<1>9. UInv'
    BY <1>3, <1>8 DEF UInv, UHolds, Held, Counted
<1>10. LRU!KeyOrder' = XNames(keys, s2)
  <2>1. LRU!Linked(recency') = s2
    BY <1>5, UStretches
  <2>2. QED
    BY <2>1, <1>3 DEF LRU!KeyOrder, XNames
<1>11. XNames(keys, s2) = <<k>> \o Remove(XNames(keys, s), k)
  <2>1. /\ r \in Seq(XSlots) /\ IsInjective(r) /\ x \in XSlots
        /\ XFit(keys, Range(r) \cup {x}, FewKeys) /\ x \notin Range(r)
    BY <1>2, <1>4, <1>6 DEF XFit
  <2>2. XNames(keys, <<x>> \o r) = <<keys[x]>> \o XNames(keys, r)
    BY <2>1, XNamesPush
  <2>3. QED
    BY <2>2, <1>4, <1>15
<1>12. LRU!R!Hit(k)
  <2>1. LRU!R!LookupHits(k)
    BY <1>3, UWords, URWords DEF LRU!R!LookupHits, LRU!Hit, LRU!LookupHits
  <2>2. LRU!KeyOrder' = <<k>> \o LRU!R!Remove(LRU!KeyOrder, k)
    BY <1>2, <1>10, <1>11, URWords
  <2>3. QED
    BY <2>1, <2>2 DEF LRU!R!Hit
<1>13. QED
    BY <1>9, <1>12

(* LRU: a miss puts its key in front, in a slot that was free. *)
LEMMA UMisses ==
    ASSUME UInv, NEW k \in FewKeys, LRU!Miss(k)
    PROVE  UInv' /\ LRU!R!Miss(k)
<1>1. PICK s : UHolds(s)
    BY DEF UInv
<1>2. /\ s \in Seq(XSlots) /\ IsInjective(s) /\ Range(s) = DOMAIN keys
      /\ LRU!KeyOrder = XNames(keys, s)
      /\ XFit(keys, Range(s), FewKeys)
    BY <1>1, UOrder DEF UHolds
<1> DEFINE x == Last(free)
           s2 == <<x>> \o s
<1>3. /\ k \notin resident /\ resident' = resident \cup {k} /\ event' = [op |-> "miss", key |-> k]
      /\ Cardinality(resident) <= Capacity
      /\ recency' = LRU!PushFront(recency, x) /\ free # <<>> /\ free' = Front(free)
      /\ keys' = XPut(keys, x, k) /\ index' = XPut(index, k, x)
  <2>1. Cardinality(resident) <= Capacity
    BY UWords, CapacityAssumption DEF LRU!Miss, LRU!LookupMisses, UInv, Held
  <2>2. QED
    BY <2>1, UWords DEF LRU!Miss, LRU!LookupMisses, LRU!TakeSlot, LRU!NextSlot, XPut
<1>4. /\ x \in XSlots /\ x \notin DOMAIN keys
      /\ DOMAIN keys' = DOMAIN keys \cup {x} /\ keys'[x] = k
      /\ \A t \in DOMAIN keys : keys'[t] = keys[t]
      /\ XTable(index', keys', free', resident')
  <2>1. XTable(index, keys, free, resident) /\ x = Last(free) /\ free # <<>> /\ k \notin resident
    BY <1>3 DEF UInv
  <2> HIDE DEF x
  <2>2. XTaken(index, keys, free, resident, k, x)
    BY <2>1, XTakes
  <2>3. QED
    BY <2>2, <1>3 DEF XTaken
<1>5. UList(recency', s2)
    BY <1>1, <1>2, <1>3, <1>4, UPushes DEF UHolds
<1> HIDE DEF x
<1>6. Range(s2) = DOMAIN keys'
    BY <1>2, <1>4, JoinFront
<1>7. \E z : UList(recency', z) /\ Range(z) = DOMAIN keys'
    BY <1>5, <1>6
<1>8. Held(FewKeys, Capacity)' /\ Counted(FewKeys)'
    BY <1>3, OneComes, CapacityAssumption DEF UInv, Held, Counted
<1>9. UInv'
    BY <1>4, <1>7, <1>8 DEF UInv, UHolds
<1>10. LRU!KeyOrder' = XNames(keys', s2)
  <2>1. LRU!Linked(recency') = s2
    BY <1>5, UStretches
  <2>2. QED
    BY <2>1 DEF LRU!KeyOrder, XNames
<1>11. XNames(keys', s2) = <<k>> \o XNames(keys, s)
  <2>1. XNames(keys', s) = XNames(keys, s)
    BY <1>2, <1>4, XNamesSame
  <2>2. XFit(keys', Range(s) \cup {x}, FewKeys)
    BY <1>2, <1>4 DEF XFit
  <2>3. x \notin Range(s) /\ x \in XSlots
    BY <1>2, <1>4
  <2>4. XNames(keys', <<x>> \o s) = <<keys'[x]>> \o XNames(keys', s)
    <3> DEFINE kk == keys'
    <3>1. XFit(kk, Range(s) \cup {x}, FewKeys)
        BY <2>2
    <3> HIDE DEF kk
    <3>2. XNames(kk, <<x>> \o s) = <<kk[x]>> \o XNames(kk, s)
        BY <1>2, <3>1, <2>3, XNamesPush
    <3>3. QED
        BY <3>2 DEF kk
  <2>5. QED
    BY <2>1, <2>4, <1>4
<1>12. LRU!R!Miss(k)
  <2>1. LRU!R!LookupMisses(k)
    BY <1>3, UWords, URWords DEF LRU!R!LookupMisses, LRU!Miss, LRU!LookupMisses
  <2>2. LRU!KeyOrder' = <<k>> \o LRU!KeyOrder
    BY <1>2, <1>10, <1>11
  <2>3. QED
    BY <2>1, <2>2 DEF LRU!R!Miss
<1>13. QED
    BY <1>9, <1>12

(* LRU: evict() takes the least recent key and frees its slot. *)
LEMMA UEvicts ==
    ASSUME UInv, LRU!Evict
    PROVE  UInv' /\ LRU!R!Evict
<1>1. PICK s : UHolds(s)
    BY DEF UInv
<1>2. /\ s \in Seq(XSlots) /\ IsInjective(s) /\ Range(s) = DOMAIN keys
      /\ LRU!KeyOrder = XNames(keys, s)
      /\ XFit(keys, Range(s), FewKeys)
      /\ \A t, u \in Range(s) : keys[t] = keys[u] => t = u
    BY <1>1, UOrder DEF UHolds
<1>3. recency.tail # XNil /\ recency' = LRU!PopBack(recency)
    BY UWords DEF LRU!Evict
<1>4. /\ s # <<>> /\ recency.tail = Last(s) /\ Last(s) \in Range(s)
      /\ UList(recency', Front(s))
    BY <1>1, <1>3, UPops DEF UHolds
<1> DEFINE x == Last(s)
           v == keys[x]
<1>5. /\ resident' = resident \ {v} /\ event' = [op |-> "evict", key |-> v]
      /\ keys' = XCut(keys, x) /\ index' = XCut(index, v) /\ free' = Append(free, x)
    BY <1>4 DEF LRU!Evict, LRU!Discard, LRU!ReleaseSlot, XCut
<1>6. /\ v \in resident
      /\ DOMAIN keys' = DOMAIN keys \ {x}
      /\ \A t \in DOMAIN keys \ {x} : keys'[t] = keys[t]
      /\ XTable(index', keys', free', resident')
  <2>1. x \in DOMAIN keys /\ XTable(index, keys, free, resident)
    BY <1>2, <1>4 DEF UInv
  <2>2. /\ keys' = XCut(keys, x) /\ index' = XCut(index, keys[x])
        /\ free' = Append(free, x) /\ resident' = resident \ {keys[x]}
    BY <1>5
  <2>3. v = keys[x]
    OBVIOUS
  <2> HIDE DEF x, v
  <2>4. XGiven(index, keys, free, resident, x)
    BY <2>1, XGives
  <2>5. QED
    BY <2>2, <2>3, <2>4 DEF XGiven
<1>7. Range(Front(s)) = Range(s) \ {x} /\ Front(s) \in Seq(XSlots)
    BY <1>2, <1>4, LeaveBack
<1>8. \E z : UList(recency', z) /\ Range(z) = DOMAIN keys'
    BY <1>2, <1>4, <1>6, <1>7
<1>9. Held(FewKeys, Capacity)' /\ Counted(FewKeys)'
  <2>1. Capacity + 1 \in Nat /\ IsFiniteSet(resident) /\ Cardinality(resident) \in 0 .. Capacity + 1
    BY CapacityAssumption DEF UInv, Held
  <2>2. IsFiniteSet(resident') /\ Cardinality(resident') \in 0 .. Capacity + 1
    BY <2>1, <1>5, OneGoes
  <2>3. QED
    BY <2>2, <1>5, <1>6 DEF UInv, Held, Counted
<1>10. UInv'
    BY <1>6, <1>8, <1>9 DEF UInv, UHolds
<1>11. LRU!KeyOrder' = XNames(keys', Front(s))
  <2>1. LRU!Linked(recency') = Front(s)
    BY <1>4, UStretches
  <2>2. QED
    BY <2>1 DEF LRU!KeyOrder, XNames
<1>12. XNames(keys', Front(s)) = XNames(keys, Front(s))
    BY <1>2, <1>6, <1>7, XNamesSame
<1>13. XNames(keys, Front(s)) = Front(XNames(keys, s)) /\ Last(XNames(keys, s)) = v
    BY <1>2, <1>4, XNamesFront
<1>14. LRU!R!Evict
  <2>1. LRU!R!Discard(LRU!R!Last(LRU!KeyOrder))
    BY <1>2, <1>4, <1>13, UWords, URWords DEF LRU!R!Discard, LRU!Evict, LRU!Discard
  <2>2. LRU!KeyOrder' = LRU!R!Front(LRU!KeyOrder)
    BY <1>2, <1>11, <1>12, <1>13, URWords
  <2>3. QED
    BY <2>1, <2>2 DEF LRU!R!Evict
<1>15. QED
    BY <1>10, <1>14

(* LRU: every call keeps the invariant and is a step of the recency order. *)
LEMMA UStep ==
    ASSUME UInv, LRU!Next
    PROVE  UInv' /\ LRU!R!Next
BY UHits, UMisses, UEvicts DEF LRU!Next, LRU!R!Next

(* LRU: the constructor, too. *)
LEMMA UStart == LRU!Init => UInv /\ LRU!R!Init
<1>1. SUFFICES ASSUME LRU!Init PROVE UInv /\ LRU!R!Init
    OBVIOUS
<1>2. /\ XTable(index, keys, free, resident) /\ DOMAIN keys = {}
  <2>1. resident = {}
    BY <1>1 DEF LRU!Init, LRU!HarnessInit
  <2>2. QED
    BY <1>1, <2>1, XStarts DEF LRU!Init, LRU!TableInit
<1>3. Len(<<>>) = 0 /\ Range(<<>>) = {}
    BY EmptySeq DEF Range
<1>4. UList(recency, <<>>)
  <2> DEFINE f == [s \in XSlots |-> XOff]
  <2>1. recency = [next |-> f, prev |-> f, head |-> XNil, tail |-> XNil, length |-> 0]
    BY <1>1, UWords DEF LRU!Init, LRU!Cleared
  <2>2. XChain(f, f, XNil, XNil, XOff, <<>>)
    BY XEmpty
  <2> HIDE DEF f
  <2>3. QED
    BY <2>1, <2>2, <1>3, UMade
<1>5. UHolds(<<>>)
    BY <1>2, <1>3, <1>4 DEF UHolds
<1>6. Held(FewKeys, Capacity) /\ Counted(FewKeys)
  <2>1. IsFiniteSet({}) /\ Cardinality({}) = 0 /\ Capacity + 1 \in Nat
    BY FS_EmptySet, CapacityAssumption
  <2>2. QED
    BY <1>1, <2>1 DEF LRU!Init, LRU!HarnessInit, Held, Counted
<1>7. LRU!R!Init
  <2>1. LRU!KeyOrder = <<>>
    <3>1. LRU!Linked(recency) = <<>>
        BY <1>4, UStretches
    <3>2. QED
        BY <3>1 DEF LRU!KeyOrder
  <2>2. QED
    BY <1>1, <2>1 DEF LRU!R!Init, LRU!R!HarnessInit, LRU!Init, LRU!HarnessInit
<1>8. QED
    BY <1>2, <1>5, <1>6, <1>7 DEF UInv

(* LRU: what the invariant gives. *)
LEMMA UTyped == UInv => LRU!TypeOK /\ LRU!LinksAgree
<1>1. SUFFICES ASSUME UInv PROVE LRU!TypeOK /\ LRU!LinksAgree
    OBVIOUS
<1>2. PICK s : UHolds(s)
    BY <1>1 DEF UInv
<1>3. /\ s \in Seq(XSlots) /\ IsInjective(s) /\ Range(s) = DOMAIN keys
      /\ recency \in URecord
      /\ XChain(recency.next, recency.prev, recency.head, recency.tail, XOff, s)
      /\ recency.length = Len(s) /\ recency.next \in XLinks
    BY <1>2 DEF UHolds, UList, XChain
<1>4. LRU!HarnessTypeOK
    BY <1>1, UCardinality, CapacityAssumption DEF UInv, Held, Counted, LRU!HarnessTypeOK
<1>5. LRU!TableOK
    BY <1>1, UWords DEF UInv, XTable, LRU!TableOK
<1>6. LRU!Cardinality(XSlots) = Capacity + 1
  <2>1. 0 \in Int /\ Capacity \in Int /\ (IF 0 > Capacity THEN 0 ELSE Capacity - 0 + 1) = Capacity + 1
    BY CapacityAssumption
  <2>2. QED
    BY <2>1, UCardinality, FS_Interval DEF XSlots
<1>7. LRU!IsList(recency, LRU!SlotIds)
    BY <1>3, <1>6, UWords DEF LRU!IsList, URecord, XLinks
<1>8. LRU!Linked(recency) = s
    BY <1>2, UStretches DEF UHolds
<1>9. LRU!Threads(recency.next, recency.prev, s, LRU!Unlinked)
  <2>1. DOMAIN recency.next = XSlots
    BY <1>3 DEF XLinks
  <2>2. QED
    BY <2>1, <1>3, UWords DEF LRU!Threads, XChain
<1>10. LRU!Whole(recency)
  <2>1. s # <<>> => Head(s) = s[1] /\ Last(s) = s[Len(s)]
    BY <1>3, LineElements
  <2>2. /\ recency.head = (IF s = <<>> THEN XNil ELSE s[1])
        /\ recency.tail = (IF s = <<>> THEN XNil ELSE s[Len(s)])
    BY <1>3 DEF XChain
  <2>3. QED
    BY <2>1, <2>2, <1>3, <1>8, <1>9, UWords DEF LRU!Whole
<1>11. QED
    BY <1>3, <1>4, <1>5, <1>7, <1>8, <1>10, UWords DEF LRU!TypeOK, LRU!LinksAgree

-----------------------------------------------------------------------------
(* FIFO *)

(* The i-th slot from h on, around the ring. *)
BSlot(h, i) == IF h + i >= Capacity + 1 THEN h + i - (Capacity + 1) ELSE h + i

(* FIFO: the places of the ring from a head on are all different. *)
LEMMA BRing ==
    ASSUME NEW h \in 0..Capacity
    PROVE  /\ \A i \in 0..Capacity : BSlot(h, i) \in 0..Capacity
           /\ \A i, j \in 0..Capacity : BSlot(h, i) = BSlot(h, j) => i = j
           /\ BSlot(h, 0) = h
           /\ BSlot(h, 1) \in 0..Capacity
           /\ \A i \in 0..(Capacity - 1) : BSlot(BSlot(h, 1), i) = BSlot(h, i + 1)
BY CapacityAssumption DEF BSlot

(* The keys in n slots from h on, the last of them first. *)
BKeys(h, n, sl) == [i \in 1..n |-> sl[BSlot(h, n - i)]]

BUsed(h, n) == {BSlot(h, i) : i \in 0..(n - 1)}

(* The ring holds the keys in res, each once. *)
BHolds(h, n, sl, res) ==
    /\ h \in 0..Capacity /\ n \in 0 .. Capacity + 1
    /\ DOMAIN sl = BUsed(h, n)
    /\ {sl[s] : s \in DOMAIN sl} = res
    /\ \A s, t \in DOMAIN sl : sl[s] = sl[t] => s = t

(* FIFO: the queue the ring holds, place by place. *)
LEMMA BLine ==
    ASSUME NEW h, NEW n, NEW sl, NEW res, BHolds(h, n, sl, res), NEW T, res \subseteq T
    PROVE  /\ BKeys(h, n, sl) \in Seq(T) /\ Len(BKeys(h, n, sl)) = n
           /\ \A i \in 1..n : BKeys(h, n, sl)[i] = sl[BSlot(h, n - i)]
<1>1. n \in Nat
    BY CapacityAssumption DEF BHolds
<1>2. \A i \in 1..n : n - i \in 0..(n - 1)
    BY <1>1
<1>3. \A i \in 1..n : sl[BSlot(h, n - i)] \in T
    BY <1>2 DEF BHolds, BUsed
<1>4. BKeys(h, n, sl) \in [1..n -> T]
    BY <1>3 DEF BKeys
<1>5. BKeys(h, n, sl) \in Seq(T)
    BY <1>1, <1>4, SeqDef
<1>6. Len(BKeys(h, n, sl)) = n
    BY <1>1, <1>4, <1>5, LenProperties
<1>7. QED
    BY <1>5, <1>6 DEF BKeys

BFirst(k, u) == <<k>> \o u

BWithin(res, T) == res \subseteq T

(* FIFO: a key written behind the last is the first of the queue. *)
LEMMA BJoins ==
    ASSUME NEW h, NEW n, NEW sl, NEW res, BHolds(h, n, sl, res), n < Capacity + 1,
           NEW T, BWithin(res, T), NEW k \in T, k \notin res,
           NEW s2, s2 = XPut(sl, BSlot(h, n), k)
    PROVE  /\ BHolds(h, n + 1, s2, res \cup {k})
           /\ BKeys(h, n + 1, s2) = BFirst(k, BKeys(h, n, sl))
<1> DEFINE x == BSlot(h, n)
           u == BKeys(h, n, sl)
           u2 == BKeys(h, n + 1, s2)
<1>1. /\ h \in 0..Capacity /\ n \in 0..Capacity /\ Capacity \in Nat /\ n \in Nat
      /\ DOMAIN sl = BUsed(h, n)
      /\ {sl[s] : s \in DOMAIN sl} = res
      /\ \A s, t \in DOMAIN sl : sl[s] = sl[t] => s = t
    BY CapacityAssumption DEF BHolds
<1>2. /\ \A i \in 0..Capacity : BSlot(h, i) \in 0..Capacity
      /\ \A i, j \in 0..Capacity : BSlot(h, i) = BSlot(h, j) => i = j
    BY <1>1, BRing
<1>3. x \notin DOMAIN sl
  <2>1. \A i \in 0..(n - 1) : i \in 0..Capacity /\ i # n
    BY <1>1
  <2>2. QED
    BY <2>1, <1>1, <1>2 DEF BUsed
<1>4. BUsed(h, n + 1) = BUsed(h, n) \cup {x}
  <2>1. \A i \in 0..n : i \in 0..(n - 1) \/ i = n
    BY <1>1
  <2>2. (n + 1) - 1 = n /\ n \in 0..n /\ \A i \in 0..(n - 1) : i \in 0..n
    BY <1>1
  <2>3. QED
    BY <2>1, <2>2 DEF BUsed
<1> HIDE DEF x
<1>5. DOMAIN s2 = DOMAIN sl \cup {x} /\ s2[x] = k /\ \A s \in DOMAIN sl : s2[s] = sl[s]
    BY <1>3 DEF XPut, x
<1>6. BHolds(h, n + 1, s2, res \cup {k})
  <2>1. n + 1 \in 0 .. Capacity + 1
    BY <1>1
  <2>2. DOMAIN s2 = BUsed(h, n + 1)
    BY <1>1, <1>4, <1>5
  <2>3. {s2[s] : s \in DOMAIN s2} = res \cup {k}
    BY <1>1, <1>5
  <2>4. \A s, t \in DOMAIN s2 : s2[s] = s2[t] => s = t
    BY <1>1, <1>5
  <2>5. QED
    BY <2>1, <2>2, <2>3, <2>4, <1>1 DEF BHolds
<1>7. u \in Seq(T) /\ Len(u) = n /\ \A i \in 1..n : u[i] = sl[BSlot(h, n - i)]
    BY BLine DEF BWithin
<1>8. /\ u2 \in Seq(T) /\ Len(u2) = n + 1
      /\ \A i \in 1..(n + 1) : u2[i] = s2[BSlot(h, (n + 1) - i)]
  <2>1. BHolds(h, n + 1, s2, res \cup {k}) /\ res \cup {k} \subseteq T
    BY <1>6 DEF BWithin
  <2>2. QED
    BY <2>1, BLine
<1> HIDE DEF u, u2
<1> DEFINE v == <<k>> \o u
<1>9. /\ v \in Seq(T) /\ Len(v) = n + 1 /\ v[1] = k
      /\ \A i \in 2..(n + 1) : v[i] = u[i - 1]
  <2>1. <<k>> \in Seq(T) /\ Len(<<k>>) = 1 /\ <<k>>[1] = k
    OBVIOUS
  <2>2. /\ v \in Seq(T) /\ Len(v) = Len(<<k>>) + Len(u)
        /\ \A i \in 1 .. Len(<<k>>) + Len(u) :
              v[i] = IF i <= Len(<<k>>) THEN <<k>>[i] ELSE u[i - Len(<<k>>)]
    BY <2>1, <1>7, ConcatProperties
  <2>3. /\ v \in Seq(T) /\ Len(v) = 1 + n
        /\ \A i \in 1 .. 1 + n : v[i] = IF i <= 1 THEN <<k>>[i] ELSE u[i - 1]
    BY <2>1, <2>2, <1>7
  <2> HIDE DEF v
  <2>4. 1 \in 1..(1 + n) /\ 1 + n = n + 1 /\ \A i \in 2..(n + 1) : i \in 1..(1 + n) /\ ~ (i <= 1)
    BY <1>1
  <2>5. QED
    BY <2>1, <2>3, <2>4
<1> HIDE DEF v
<1>10. \A i \in 1..(n + 1) : u2[i] = v[i]
  <2>1. SUFFICES ASSUME NEW i \in 1..(n + 1) PROVE u2[i] = v[i]
    OBVIOUS
  <2>2. CASE i = 1
    <3>1. (n + 1) - 1 = n
        BY <1>1
    <3>2. QED
        BY <3>1, <2>2, <1>5, <1>8, <1>9 DEF x
  <2>3. CASE i # 1
    <3>1. i \in 2..(n + 1) /\ i - 1 \in 1..n /\ (n + 1) - i = n - (i - 1) /\ n - (i - 1) \in 0..(n - 1)
        BY <2>3, <1>1
    <3>2. BSlot(h, (n + 1) - i) \in DOMAIN sl
        BY <3>1, <1>1 DEF BUsed
    <3>3. u2[i] = sl[BSlot(h, n - (i - 1))]
        BY <3>1, <3>2, <1>5, <1>8
    <3>4. v[i] = sl[BSlot(h, n - (i - 1))]
        BY <3>1, <1>7, <1>9
    <3>5. QED
        BY <3>3, <3>4
  <2>4. QED
    BY <2>2, <2>3
<1>11. u2 = v
    BY <1>8, <1>9, <1>10, SeqEqual
<1>12. QED
    BY <1>6, <1>11 DEF u, u2, v, BFirst

(* FIFO: advancing the head drops the last of the queue. *)
LEMMA BLeaves ==
    ASSUME NEW h, NEW n, NEW sl, NEW res, BHolds(h, n, sl, res), n > 0,
           NEW T, BWithin(res, T),
           NEW s2, s2 = XCut(sl, h), NEW h2, h2 = BSlot(h, 1)
    PROVE  /\ sl[h] \in res
           /\ BHolds(h2, n - 1, s2, res \ {sl[h]})
           /\ Last(BKeys(h, n, sl)) = sl[h]
           /\ BKeys(h2, n - 1, s2) = Front(BKeys(h, n, sl))
<1> DEFINE u == BKeys(h, n, sl)
           u2 == BKeys(h2, n - 1, s2)
<1>1. /\ h \in 0..Capacity /\ n \in 1 .. Capacity + 1 /\ Capacity \in Nat /\ n \in Nat
      /\ DOMAIN sl = BUsed(h, n)
      /\ {sl[s] : s \in DOMAIN sl} = res
      /\ \A s, t \in DOMAIN sl : sl[s] = sl[t] => s = t
    BY CapacityAssumption DEF BHolds
<1>2. /\ \A i, j \in 0..Capacity : BSlot(h, i) = BSlot(h, j) => i = j
      /\ BSlot(h, 0) = h /\ h2 \in 0..Capacity
      /\ \A i \in 0..(Capacity - 1) : BSlot(h2, i) = BSlot(h, i + 1)
    BY <1>1, BRing
<1>3. h \in DOMAIN sl /\ sl[h] \in res
  <2>1. 0 \in 0..(n - 1)
    BY <1>1
  <2>2. h \in BUsed(h, n)
    BY <2>1, <1>2 DEF BUsed
  <2>3. QED
    BY <2>2, <1>1
<1>4. BUsed(h2, n - 1) = BUsed(h, n) \ {h}
  <2>1. \A i \in 0..((n - 1) - 1) : /\ i + 1 \in 0..(n - 1) /\ i \in 0..(Capacity - 1)
                                    /\ i + 1 \in 0..Capacity /\ i + 1 # 0 /\ 0 \in 0..Capacity
    BY <1>1
  <2>2. ASSUME NEW i \in 0..((n - 1) - 1)
        PROVE  BSlot(h2, i) \in BUsed(h, n) /\ BSlot(h2, i) # h
    <3>1. BSlot(h2, i) = BSlot(h, i + 1)
        BY <2>1, <1>2
    <3>2. BSlot(h, i + 1) # BSlot(h, 0)
        BY <2>1, <1>2
    <3>3. QED
        BY <3>1, <3>2, <2>1, <1>2 DEF BUsed
  <2>3. ASSUME NEW i \in 0..(n - 1), BSlot(h, i) # h
        PROVE  BSlot(h, i) \in BUsed(h2, n - 1)
    <3>1. i # 0
        BY <2>3, <1>2
    <3>2. i - 1 \in 0..((n - 1) - 1) /\ i - 1 \in 0..(Capacity - 1) /\ (i - 1) + 1 = i
        BY <3>1, <1>1
    <3>3. BSlot(h2, i - 1) = BSlot(h, i)
        BY <3>2, <1>2
    <3>4. QED
        BY <3>2, <3>3 DEF BUsed
  <2>4. QED
    BY <2>2, <2>3 DEF BUsed
<1>5. DOMAIN s2 = DOMAIN sl \ {h} /\ \A s \in DOMAIN sl \ {h} : s2[s] = sl[s]
    BY DEF XCut
<1>6. BHolds(h2, n - 1, s2, res \ {sl[h]})
  <2>1. n - 1 \in 0 .. Capacity + 1
    BY <1>1
  <2>2. DOMAIN s2 = BUsed(h2, n - 1)
    BY <1>1, <1>4, <1>5
  <2>3. {s2[s] : s \in DOMAIN s2} = res \ {sl[h]}
    BY <1>1, <1>3, <1>5
  <2>4. \A s, t \in DOMAIN s2 : s2[s] = s2[t] => s = t
    BY <1>1, <1>5
  <2>5. QED
    BY <2>1, <2>2, <2>3, <2>4, <1>2 DEF BHolds
<1>7. u \in Seq(T) /\ Len(u) = n /\ \A i \in 1..n : u[i] = sl[BSlot(h, n - i)]
    BY BLine DEF BWithin
<1>8. /\ u2 \in Seq(T) /\ Len(u2) = n - 1
      /\ \A i \in 1..(n - 1) : u2[i] = s2[BSlot(h2, (n - 1) - i)]
  <2>1. BHolds(h2, n - 1, s2, res \ {sl[h]}) /\ res \ {sl[h]} \subseteq T
    BY <1>6 DEF BWithin
  <2>2. QED
    BY <2>1, BLine
<1> HIDE DEF u, u2
<1>9. Last(u) = sl[h]
  <2>1. n \in 1..n /\ n - n = 0
    BY <1>1
  <2>2. QED
    BY <2>1, <1>2, <1>7 DEF Last
<1> DEFINE v == Front(u)
<1>10. v \in Seq(T) /\ Len(v) = n - 1 /\ \A i \in 1..(n - 1) : v[i] = u[i]
  <2>1. v = SubSeq(u, 1, n - 1)
    BY <1>7 DEF Front
  <2>2. 1 \in 1..(n + 1) /\ n - 1 \in 0..n
    BY <1>1
  <2>3. /\ v \in Seq(T)
        /\ Len(v) = (IF 1 <= n - 1 THEN n - 1 - 1 + 1 ELSE 0)
        /\ \A i \in 1..(n - 1 - 1 + 1) : v[i] = u[1 + i - 1]
    BY <2>1, <2>2, <1>7, SubSeqProperties
  <2> HIDE DEF v
  <2>4. Len(v) = n - 1 /\ n - 1 - 1 + 1 = n - 1 /\ \A i \in 1..(n - 1) : 1 + i - 1 = i
    BY <2>3, <1>1
  <2>5. QED
    BY <2>3, <2>4
<1> HIDE DEF v
<1>11. \A i \in 1..(n - 1) : u2[i] = v[i]
  <2>1. SUFFICES ASSUME NEW i \in 1..(n - 1) PROVE u2[i] = v[i]
    OBVIOUS
  <2>2. /\ (n - 1) - i \in 0..(Capacity - 1) /\ ((n - 1) - i) + 1 = n - i
        /\ (n - 1) - i \in 0..((n - 1) - 1) /\ i \in 1..n
    BY <1>1
  <2>3. BSlot(h2, (n - 1) - i) = BSlot(h, n - i)
    BY <2>2, <1>2
  <2>4. BSlot(h2, (n - 1) - i) \in DOMAIN s2
    BY <2>2, <1>1, <1>4, <1>5 DEF BUsed
  <2>5. QED
    BY <2>2, <2>3, <2>4, <1>5, <1>7, <1>8, <1>10
<1>12. u2 = v
    BY <1>8, <1>10, <1>11, SeqEqual
<1>13. QED
    BY <1>3, <1>6, <1>9, <1>12 DEF u, u2, v

(* FIFO: its modules count as this one does. *)
LEMMA BCardinality ==
    /\ \A S : FIFO!Cardinality(S) = Cardinality(S)
    /\ \A S : FIFO!A!Cardinality(S) = Cardinality(S)
BY Zenon DEF FIFO!Cardinality, FIFO!A!Cardinality, Cardinality

(* FIFO: its operators are those of this module. *)
LEMMA BWords ==
    /\ \A s : FIFO!A!Front(s) = Front(s) /\ FIFO!A!Last(s) = Last(s)
    /\ FIFO!OverCapacity <=> Cardinality(resident) > Capacity
    /\ FIFO!A!OverCapacity <=> Cardinality(resident) > Capacity
    /\ FIFO!RingSize = Capacity + 1
BY BCardinality DEF FIFO!A!Front, Front, FIFO!A!Last, Last, FIFO!OverCapacity, FIFO!A!OverCapacity,
   FIFO!RingSize

(* FIFO: the wrap of the code is the place in the ring. *)
LEMMA BWraps == \A h, i \in Int : FIFO!Wrap(h + i) = BSlot(h, i)
BY CapacityAssumption DEF FIFO!RingSize, FIFO!Wrap, BSlot

BOrder(h, n, sl) == [i \in 1..n |-> sl[FIFO!Wrap(h + n - i)]]

(* FIFO: the order the module reads from the ring is the queue's. *)
LEMMA BOrdered ==
    ASSUME NEW h \in Int, NEW n \in Int, NEW sl
    PROVE  BOrder(h, n, sl) = BKeys(h, n, sl)
<1>1. \A i \in 1..n : h + n - i = h + (n - i)
    OBVIOUS
<1>2. \A i \in 1..n : FIFO!Wrap(h + n - i) = BSlot(h, n - i)
    BY <1>1, BWraps
<1>3. QED
    BY <1>2 DEF BOrder, BKeys

(* FIFO's invariant: the ring holds the keys, each once. *)
BInv ==
    /\ Held(FewKeys, Capacity)
    /\ Counted(FewKeys)
    /\ BHolds(head, length, slots, resident)

(* FIFO: a hit changes no one's turn. *)
LEMMA BHits ==
    ASSUME BInv, NEW k \in FewKeys, FIFO!Hit(k)
    PROVE  BInv' /\ FIFO!A!Next
<1>1. /\ k \in resident /\ resident' = resident /\ event' = [op |-> "hit", key |-> k]
      /\ slots' = slots /\ head' = head /\ length' = length
      /\ ~ (Cardinality(resident) > Capacity)
    BY BWords DEF FIFO!Hit, FIFO!LookupHits
<1>2. BInv'
    BY <1>1 DEF BInv, Held, Counted
<1>3. FIFO!A!Hit(k)
    BY <1>1, BWords DEF FIFO!A!Hit, FIFO!A!LookupHits
<1>4. QED
    BY <1>2, <1>3, Zenon DEF FIFO!A!Next

(* FIFO: a miss joins the queue; the ring has room for one over capacity. *)
LEMMA BMisses ==
    ASSUME BInv, NEW k \in FewKeys, FIFO!Miss(k)
    PROVE  BInv' /\ FIFO!A!Next
<1>1. BHolds(head, length, slots, resident) /\ resident \subseteq FewKeys
    BY DEF BInv, Held
<1>2. head \in Int /\ length \in Int
    BY <1>1, CapacityAssumption DEF BHolds
<1>3. /\ k \notin resident /\ resident' = resident \cup {k} /\ event' = [op |-> "miss", key |-> k]
      /\ ~ (Cardinality(resident) > Capacity) /\ length < Capacity + 1
      /\ slots' = XPut(slots, BSlot(head, length), k) /\ length' = length + 1 /\ head' = head
  <2>1. FIFO!Wrap(head + length) = BSlot(head, length)
    BY <1>2, BWraps
  <2>2. QED
    BY <2>1, BWords DEF FIFO!Miss, FIFO!LookupMisses, XPut
<1> DEFINE s2 == XPut(slots, BSlot(head, length), k)
<1>4. s2 = XPut(slots, BSlot(head, length), k)
    OBVIOUS
<1> HIDE DEF s2
<1>5. /\ BHolds(head, length + 1, s2, resident \cup {k})
      /\ BKeys(head, length + 1, s2) = <<k>> \o BKeys(head, length, slots)
  <2> DEFINE n == length
  <2>1. /\ BHolds(head, n, slots, resident) /\ n < Capacity + 1 /\ BWithin(resident, FewKeys)
        /\ k \in FewKeys /\ k \notin resident /\ s2 = XPut(slots, BSlot(head, n), k)
    BY <1>1, <1>3, <1>4 DEF BWithin
  <2> HIDE DEF n
  <2>2. /\ BHolds(head, n + 1, s2, resident \cup {k})
        /\ BKeys(head, n + 1, s2) = BFirst(k, BKeys(head, n, slots))
    BY <2>1, BJoins
  <2>3. QED
    BY <2>2 DEF n, BFirst
<1>6. slots' = s2
    BY <1>3, <1>4
<1>7. Held(FewKeys, Capacity)' /\ Counted(FewKeys)'
  <2>1. Cardinality(resident) <= Capacity
    BY <1>3, CapacityAssumption DEF BInv, Held
  <2>2. QED
    BY <2>1, <1>3, OneComes, CapacityAssumption DEF BInv, Held, Counted
<1>8. BInv'
    BY <1>3, <1>5, <1>6, <1>7 DEF BInv
<1>9. BOrder(head', length', slots') = <<k>> \o BOrder(head, length, slots)
  <2>1. BOrder(head, length, slots) = BKeys(head, length, slots)
    BY <1>2, BOrdered
  <2>2. BOrder(head, length + 1, s2) = BKeys(head, length + 1, s2)
    BY <1>2, BOrdered
  <2>3. QED
    BY <2>1, <2>2, <1>3, <1>5, <1>6
<1>10. FIFO!A!Miss(k)
  <2>1. FIFO!A!LookupMisses(k)
    BY <1>3, BWords DEF FIFO!A!LookupMisses
  <2>2. QED
    BY <2>1, <1>9 DEF FIFO!A!Miss, BOrder
<1>11. QED
    BY <1>8, <1>10, Zenon DEF FIFO!A!Next

(* FIFO: evict() takes the one that has waited longest. *)
LEMMA BEvicts ==
    ASSUME BInv, FIFO!Evict
    PROVE  BInv' /\ FIFO!A!Next
<1>1. BHolds(head, length, slots, resident) /\ resident \subseteq FewKeys
    BY DEF BInv, Held
<1>2. head \in Int /\ length \in Int
    BY <1>1, CapacityAssumption DEF BHolds
<1> DEFINE v == slots[head]
<1>3. /\ resident' = resident \ {v} /\ event' = [op |-> "evict", key |-> v]
      /\ Cardinality(resident) > Capacity /\ length > 0
      /\ slots' = XCut(slots, head) /\ length' = length - 1 /\ head' = BSlot(head, 1)
  <2>1. FIFO!Wrap(head + 1) = BSlot(head, 1)
    BY <1>2, BWraps
  <2>2. QED
    BY <2>1, BWords DEF FIFO!Evict, FIFO!Discard, XCut
<1> DEFINE s2 == XCut(slots, head)
           h2 == BSlot(head, 1)
<1>4. s2 = XCut(slots, head) /\ h2 = BSlot(head, 1) /\ v = slots[head]
    OBVIOUS
<1> HIDE DEF s2, h2, v
<1>5. /\ slots[head] \in resident
      /\ BHolds(h2, length - 1, s2, resident \ {slots[head]})
      /\ Last(BKeys(head, length, slots)) = slots[head]
      /\ BKeys(h2, length - 1, s2) = Front(BKeys(head, length, slots))
  <2> DEFINE n == length
  <2>1. /\ BHolds(head, n, slots, resident) /\ n > 0 /\ BWithin(resident, FewKeys)
        /\ s2 = XCut(slots, head) /\ h2 = BSlot(head, 1)
    BY <1>1, <1>3, <1>4 DEF BWithin
  <2> HIDE DEF n
  <2>2. /\ slots[head] \in resident
        /\ BHolds(h2, n - 1, s2, resident \ {slots[head]})
        /\ Last(BKeys(head, n, slots)) = slots[head]
        /\ BKeys(h2, n - 1, s2) = Front(BKeys(head, n, slots))
    BY <2>1, BLeaves
  <2>3. QED
    BY <2>2 DEF n
<1>6. slots' = s2 /\ head' = h2
    BY <1>3, <1>4
<1>7. Held(FewKeys, Capacity)' /\ Counted(FewKeys)'
  <2>1. Capacity + 1 \in Nat /\ IsFiniteSet(resident) /\ Cardinality(resident) \in 0 .. Capacity + 1
    BY CapacityAssumption DEF BInv, Held
  <2>2. IsFiniteSet(resident') /\ Cardinality(resident') \in 0 .. Capacity + 1
    BY <2>1, <1>3, OneGoes
  <2>3. QED
    BY <2>2, <1>3, <1>4, <1>5 DEF BInv, Held, Counted
<1>8. BInv'
    BY <1>3, <1>4, <1>5, <1>6, <1>7 DEF BInv
<1>9. /\ BOrder(head', length', slots') = Front(BOrder(head, length, slots))
      /\ Last(BOrder(head, length, slots)) = v
  <2>1. BOrder(head, length, slots) = BKeys(head, length, slots)
    BY <1>2, BOrdered
  <2>2. BOrder(h2, length - 1, s2) = BKeys(h2, length - 1, s2)
    <3>1. h2 \in Int /\ length - 1 \in Int
        BY <1>2, <1>5, CapacityAssumption DEF BHolds
    <3>2. QED
        BY <3>1, BOrdered
  <2>3. QED
    BY <2>1, <2>2, <1>3, <1>4, <1>5, <1>6
<1>10. FIFO!A!Evict
  <2>1. FIFO!A!Discard(v)
    BY <1>3, BWords DEF FIFO!A!Discard
  <2>2. FIFO!A!Last(BOrder(head, length, slots)) = v
    BY <1>9, BWords
  <2>3. FIFO!A!Front(BOrder(head, length, slots)) = BOrder(head', length', slots')
    BY <1>9, BWords
  <2>4. QED
    BY <2>1, <2>2, <2>3 DEF FIFO!A!Evict, BOrder
<1>11. QED
    BY <1>8, <1>10, Zenon DEF FIFO!A!Next

(* FIFO: every call keeps the invariant and is a step of the queue. *)
LEMMA BStep ==
    ASSUME BInv, FIFO!Next
    PROVE  BInv' /\ FIFO!A!Next
BY BHits, BMisses, BEvicts DEF FIFO!Next

(* FIFO: the constructor, too. *)
LEMMA BStart == FIFO!Init => BInv /\ FIFO!A!Init
<1>1. SUFFICES ASSUME FIFO!Init PROVE BInv /\ FIFO!A!Init
    OBVIOUS
<1>2. /\ resident = {} /\ event = [op |-> "none"] /\ DOMAIN slots = {} /\ head = 0 /\ length = 0
    BY <1>1 DEF FIFO!Init, FIFO!HarnessInit
<1>3. BUsed(0, 0) = {}
    BY DEF BUsed
<1>4. BHolds(head, length, slots, resident)
    BY <1>2, <1>3, CapacityAssumption DEF BHolds
<1>5. Held(FewKeys, Capacity) /\ Counted(FewKeys)
  <2>1. IsFiniteSet({}) /\ Cardinality({}) = 0 /\ Capacity + 1 \in Nat
    BY FS_EmptySet, CapacityAssumption
  <2>2. QED
    BY <1>2, <2>1 DEF Held, Counted
<1>6. FIFO!A!Init
  <2>1. BOrder(head, length, slots) = BKeys(head, length, slots)
    BY <1>2, BOrdered
  <2>2. BKeys(head, length, slots) \in Seq(FewKeys) /\ Len(BKeys(head, length, slots)) = 0
    <3>1. resident \subseteq FewKeys
        BY <1>2
    <3>2. QED
        BY <3>1, <1>2, <1>4, BLine
  <2>3. BOrder(head, length, slots) = <<>>
    BY <2>1, <2>2, EmptySeq
  <2>4. QED
    BY <2>3, <1>2 DEF FIFO!A!Init, FIFO!A!HarnessInit, BOrder
<1>7. QED
    BY <1>4, <1>5, <1>6 DEF BInv

(* FIFO: what the invariant gives. *)
LEMMA BTyped == BInv => FIFO!TypeOK
<1>1. SUFFICES ASSUME BInv PROVE FIFO!TypeOK
    OBVIOUS
<1>2. FIFO!HarnessTypeOK
    BY <1>1, BCardinality, CapacityAssumption DEF BInv, Held, Counted, FIFO!HarnessTypeOK
<1>3. \A i \in 0..(length - 1) : FIFO!Wrap(head + i) = BSlot(head, i)
    BY <1>1, BWraps, CapacityAssumption DEF BInv, BHolds
<1>4. DOMAIN slots = {FIFO!Wrap(head + i) : i \in 0..(length - 1)}
    BY <1>1, <1>3 DEF BInv, BHolds, BUsed
<1>5. QED
    BY <1>1, <1>2, <1>4, BWords DEF FIFO!TypeOK, BInv, BHolds

-----------------------------------------------------------------------------
(* CLOCK *)
LEMMA KCardinality ==
    /\ \A S : CLOCK!Cardinality(S) = Cardinality(S)
    /\ \A S : CLOCK!C!Cardinality(S) = Cardinality(S)
BY Zenon DEF CLOCK!Cardinality, CLOCK!C!Cardinality, Cardinality

(* CLOCK's operators are those of this module. *)
LEMMA KWords ==
    /\ \A s : CLOCK!Range(s) = Range(s) /\ (CLOCK!IsInjective(s) <=> IsInjective(s))
    /\ \A s : CLOCK!Front(s) = Front(s) /\ CLOCK!Last(s) = Last(s)
    /\ CLOCK!OverCapacity <=> Cardinality(resident) > Capacity
    /\ CLOCK!C!OverCapacity <=> Cardinality(resident) > Capacity
    /\ CLOCK!SlotIds = XSlots
BY KCardinality DEF CLOCK!Range, Range, CLOCK!IsInjective, IsInjective, CLOCK!Front, Front,
   CLOCK!Last, Last, CLOCK!OverCapacity, CLOCK!C!OverCapacity, CLOCK!SlotIds, XSlots

(* Whoever was there before the key in a place of the queue is in a place  *)
(* nearer the hand.                                                        *)
KAheadOf(ah, ks, o, n) ==
    \A i \in 1..n : \A x \in ah[ks[o[i]]] : \E j \in 1..n : j < i /\ ks[o[j]] = x

KAhead(ah, ks, o) == KAheadOf(ah, ks, o, Len(o))

(* CLOCK's invariant: the queue holds the slots in use, in the order of *)
(* their lifetimes.                                                     *)
KInv ==
    /\ Held(FewKeys, Capacity)
    /\ Counted(FewKeys)
    /\ XTable(index, keys, free, resident)
    /\ XBitmap(referenced)
    /\ order \in Seq(XSlots) /\ IsInjective(order)
    /\ Range(order) = DOMAIN keys
    /\ DOMAIN ahead = resident
    /\ KAhead(ahead, keys, order)

(* Who was there before each key, once k has started a lifetime. *)
KHistory(res, k, ah) == [x \in res |-> IF x = k THEN res \ {k} ELSE ah[x] \ {k}]

(* CLOCK: a key enters behind all the others. *)
LEMMA KJoins ==
    ASSUME NEW o, NEW ks, NEW res, XLine(o, ks, res), NEW ah, KAhead(ah, ks, o),
           NEW k, k \notin res, NEW s \in XSlots, s \notin DOMAIN ks
    PROVE  KAhead(KHistory(res \cup {k}, k, ah), XPut(ks, s, k), Append(o, s))
<1> DEFINE n == Len(o)
           o2 == Append(o, s)
           kn == XPut(ks, s, k)
           a2 == KHistory(res \cup {k}, k, ah)
<1>1. /\ n \in Nat
      /\ \A i \in 1..n : o[i] \in DOMAIN ks
      /\ \A x \in res : \E j \in 1..n : ks[o[j]] = x
      /\ \A i \in 1..n : ks[o[i]] \in res
  <2>1. XKeyed(o, ks, res, n)
    BY XLineKeys
  <2> HIDE DEF n
  <2>2. QED
    BY <2>1 DEF XKeyed
<1>2. /\ Len(o2) = n + 1 /\ o2[n + 1] = s
      /\ \A i \in 1..n : o2[i] = o[i]
    BY JoinBack DEF XLine
<1>3. kn[s] = k /\ \A t \in DOMAIN ks : kn[t] = ks[t]
    BY DEF XPut
<1>4. a2[k] = res /\ \A x \in res : a2[x] = ah[x] \ {k}
    BY DEF KHistory
<1>5. \A i \in 1..n : \A x \in ah[ks[o[i]]] : \E j \in 1..n : j < i /\ ks[o[j]] = x
    BY DEF KAhead, KAheadOf
<1> HIDE DEF n, o2, kn, a2
<1>6. ASSUME NEW i \in 1..n, NEW x \in a2[kn[o2[i]]]
      PROVE  \E j \in 1..(n + 1) : j < i /\ kn[o2[j]] = x
  <2>1. kn[o2[i]] = ks[o[i]] /\ ks[o[i]] \in res
    BY <1>1, <1>2, <1>3
  <2>2. x \in ah[ks[o[i]]]
    BY <2>1, <1>4, <1>6
  <2>3. PICK j \in 1..n : j < i /\ ks[o[j]] = x
    BY <2>2, <1>5
  <2>4. j \in 1..(n + 1) /\ kn[o2[j]] = ks[o[j]]
    BY <1>1, <1>2, <1>3
  <2>5. QED
    BY <2>3, <2>4
<1>7. ASSUME NEW x \in a2[kn[o2[n + 1]]]
      PROVE  \E j \in 1..(n + 1) : j < n + 1 /\ kn[o2[j]] = x
  <2>1. x \in res
    BY <1>2, <1>3, <1>4, <1>7
  <2>2. PICK j \in 1..n : ks[o[j]] = x
    BY <2>1, <1>1
  <2>3. j \in 1..(n + 1) /\ j < n + 1
    BY <1>1
  <2>4. kn[o2[j]] = ks[o[j]]
    BY <1>1, <1>2, <1>3
  <2>5. QED
    BY <2>2, <2>3, <2>4
<1>8. \A i \in 1..(n + 1) : i \in 1..n \/ i = n + 1
    BY <1>1
<1>9. \A i \in 1..(n + 1) : \A x \in a2[kn[o2[i]]] :
            \E j \in 1..(n + 1) : j < i /\ kn[o2[j]] = x
    BY <1>6, <1>7, <1>8
<1>10. KAhead(a2, kn, o2)
  <2>1. KAheadOf(a2, kn, o2, n + 1)
    BY <1>9 DEF KAheadOf
  <2>2. QED
    BY <2>1, <1>2, Zenon DEF KAhead
<1>11. QED
    BY <1>10 DEF o2, kn, a2

(* No one is behind v any more, and all slots but s hold what they held.   *)
KForgets(a2, ah, res, v) == \A x \in res \ {v} : a2[x] = ah[x] \ {v}

XBut(kn, ks, s) == \A t \in DOMAIN ks \ {s} : kn[t] = ks[t]

(* CLOCK: no one is left who came before the key at the hand, so it has had *)
(* its time.                                                                *)
LEMMA KLeaves ==
    ASSUME NEW o, NEW ks, NEW res, XLine(o, ks, res), NEW ah, KAhead(ah, ks, o), o # <<>>,
           NEW s, s = Head(o), NEW a2, KForgets(a2, ah, res, ks[s]),
           NEW kn, XBut(kn, ks, s)
    PROVE  /\ KAhead(a2, kn, Tail(o))
           /\ \A x \in ah[ks[s]] : FALSE
<1> DEFINE n == Len(o)
           o2 == Tail(o)
           v == ks[s]
<1>1. /\ n \in Nat
      /\ \A i \in 1..n : o[i] \in DOMAIN ks
      /\ \A i, j \in 1..n : ks[o[i]] = ks[o[j]] => i = j
      /\ \A i \in 1..n : ks[o[i]] \in res
      /\ s = o[1] /\ 1 \in 1..n
  <2>1. XKeyed(o, ks, res, n)
    BY XLineKeys
  <2> HIDE DEF n
  <2>2. QED
    BY <2>1 DEF XKeyed
<1>2. /\ Len(o2) = n - 1
      /\ \A i \in 1..(n - 1) : o2[i] = o[i + 1]
    BY LeaveFront DEF XLine
<1>3. \A i \in 1..n : \A x \in ah[ks[o[i]]] : \E j \in 1..n : j < i /\ ks[o[j]] = x
    BY DEF KAhead, KAheadOf
<1>4. v = ks[o[1]]
    BY <1>1
<1> HIDE DEF n, o2, v
<1>5. \A i \in 2..n : ks[o[i]] \in res \ {v} /\ o[i] \in DOMAIN ks \ {s} /\ i \in 1..n
    BY <1>1, <1>4
<1>6. ASSUME NEW i \in 1..(n - 1), NEW x \in a2[kn[o2[i]]]
      PROVE  \E j \in 1..(n - 1) : j < i /\ kn[o2[j]] = x
  <2>1. i + 1 \in 2..n
    BY <1>1
  <2>2. kn[o2[i]] = ks[o[i + 1]] /\ ks[o[i + 1]] \in res \ {v}
    BY <2>1, <1>2, <1>5 DEF XBut
  <2>3. x \in ah[ks[o[i + 1]]] /\ x # v
    BY <2>2, <1>6 DEF v, KForgets
  <2>4. PICK j \in 1..n : j < i + 1 /\ ks[o[j]] = x
    BY <2>1, <2>3, <1>3, <1>5
  <2>5. j # 1
    BY <2>3, <2>4, <1>4
  <2>6. j - 1 \in 1..(n - 1) /\ j - 1 < i /\ (j - 1) + 1 = j /\ j \in 2..n
    BY <2>4, <2>5, <1>1
  <2>7. o2[j - 1] = o[j]
    BY <2>6, <1>2
  <2>8. kn[o[j]] = ks[o[j]]
    BY <2>6, <1>5 DEF XBut
  <2>9. QED
    BY <2>4, <2>6, <2>7, <2>8
<1>7. \A x \in ah[v] : FALSE
    BY <1>1, <1>3, <1>4
<1>8. \A i \in 1..(n - 1) : \A x \in a2[kn[o2[i]]] :
            \E j \in 1..(n - 1) : j < i /\ kn[o2[j]] = x
    BY <1>6
<1>9. KAhead(a2, kn, o2)
  <2>1. KAheadOf(a2, kn, o2, n - 1)
    BY <1>8 DEF KAheadOf
  <2>2. QED
    BY <2>1, <1>2, Zenon DEF KAhead
<1>10. QED
    BY <1>7, <1>9 DEF o2, v

(* CLOCK: a hit sets the bit, and no one moves. *)
LEMMA KHits ==
    ASSUME KInv, NEW k \in FewKeys, CLOCK!Hit(k)
    PROVE  KInv' /\ CLOCK!C!Hit(k) /\ CLOCK!FullLifetime
<1>1. /\ k \in resident /\ resident' = resident /\ event' = [op |-> "hit", key |-> k]
      /\ keys' = keys /\ index' = index /\ free' = free /\ order' = order /\ ahead' = ahead
      /\ referenced' = [referenced EXCEPT ![index[k]] = TRUE]
    BY DEF CLOCK!Hit, CLOCK!LookupHits, CLOCK!tableVars
<1>2. XTable(index, keys, free, resident) /\ XBitmap(referenced) /\ k \in resident
    BY <1>1 DEF KInv
<1>3. XBitmap(referenced')
    BY <1>1, <1>2 DEF XBitmap
<1>4. KInv'
    BY <1>1, <1>3 DEF KInv, Held, Counted, KAhead
<1>5. XBitIs(index, referenced, k)
    BY <1>2, XBitSet
<1>6. CLOCK!C!Hit(k)
  <2>1. CLOCK!C!LookupHits(k)
    BY <1>1, KWords DEF CLOCK!C!LookupHits, CLOCK!Hit, CLOCK!LookupHits
  <2>2. QED
    BY <2>1, <1>1, <1>5 DEF CLOCK!C!Hit, XBits, XMark, XBitIs
<1>7. CLOCK!FullLifetime
    BY <1>1 DEF CLOCK!FullLifetime
<1>8. QED
    BY <1>4, <1>6, <1>7

(* CLOCK: the key spared goes behind all the others. *)
LEMMA KSparesOne ==
    ASSUME NEW o, NEW ks, NEW res, XLine(o, ks, res), NEW ah, KAhead(ah, ks, o), o # <<>>,
           NEW s, s = Head(o)
    PROVE  /\ KAhead(KHistory(res, ks[s], ah), ks, Append(Tail(o), s))
           /\ XLine(Append(Tail(o), s), ks, res)
<1> DEFINE n == Len(o)
           t == Tail(o)
           o2 == Append(t, s)
           v == ks[s]
           a2 == KHistory(res, v, ah)
<1>1. /\ n \in Nat
      /\ \A i \in 1..n : ks[o[i]] \in res
      /\ \A i, j \in 1..n : ks[o[i]] = ks[o[j]] => i = j
      /\ s = o[1] /\ 1 \in 1..n
      /\ \A x \in res : \E j \in 1..n : ks[o[j]] = x
  <2>1. XKeyed(o, ks, res, n)
    BY XLineKeys
  <2> HIDE DEF n
  <2>2. QED
    BY <2>1 DEF XKeyed
<1>2. /\ t \in Seq(XSlots) /\ IsInjective(t)
      /\ Range(t) = Range(o) \ {s} /\ s \in Range(o) /\ Range(o) \subseteq XSlots
      /\ Len(t) = n - 1
      /\ \A i \in 1..(n - 1) : t[i] = o[i + 1]
    BY LeaveFront, LineElements DEF XLine
<1> HIDE DEF t
<1>3. /\ o2 \in Seq(XSlots) /\ IsInjective(o2) /\ Range(o2) = Range(o)
      /\ Len(o2) = n /\ o2[n] = s
      /\ \A i \in 1..(n - 1) : o2[i] = o[i + 1]
  <2>1. s \in XSlots /\ s \notin Range(t)
    BY <1>2
  <2>2. /\ o2 \in Seq(XSlots) /\ IsInjective(o2) /\ Range(o2) = Range(t) \cup {s}
        /\ Len(o2) = Len(t) + 1 /\ o2[Len(t) + 1] = s
        /\ \A i \in 1..Len(t) : o2[i] = t[i]
    BY <2>1, <1>2, JoinBack
  <2>3. (n - 1) + 1 = n
    BY <1>1
  <2>4. QED
    BY <2>2, <2>3, <1>2
<1>4. XLine(o2, ks, res)
    BY <1>3 DEF XLine
<1>5. \A i \in 1..n : \A x \in ah[ks[o[i]]] : \E j \in 1..n : j < i /\ ks[o[j]] = x
    BY DEF KAhead, KAheadOf
<1>6. v = ks[o[1]]
    BY <1>1
<1>7. a2[v] = res \ {v} /\ \A x \in res \ {v} : a2[x] = ah[x] \ {v}
    BY <1>1 DEF KHistory
<1> HIDE DEF n, o2, v, a2
<1>8. \A i \in 2..n : ks[o[i]] \in res \ {v} /\ i \in 1..n
    BY <1>1, <1>6
<1>9. ASSUME NEW i \in 1..(n - 1), NEW x \in a2[ks[o2[i]]]
      PROVE  \E j \in 1..n : j < i /\ ks[o2[j]] = x
  <2>1. i + 1 \in 2..n
    BY <1>1
  <2>2. ks[o2[i]] = ks[o[i + 1]] /\ ks[o[i + 1]] \in res \ {v}
    BY <2>1, <1>3, <1>8
  <2>3. x \in ah[ks[o[i + 1]]] /\ x # v
    BY <2>2, <1>7, <1>9
  <2>4. PICK j \in 1..n : j < i + 1 /\ ks[o[j]] = x
    BY <2>1, <2>3, <1>5, <1>8
  <2>5. j # 1
    BY <2>3, <2>4, <1>6
  <2>6. j - 1 \in 1..(n - 1) /\ j - 1 < i /\ (j - 1) + 1 = j /\ j - 1 \in 1..n
    BY <2>4, <2>5, <1>1
  <2>7. o2[j - 1] = o[j]
    BY <2>6, <1>3
  <2>8. QED
    BY <2>4, <2>6, <2>7
<1>10. ASSUME NEW x \in a2[ks[o2[n]]]
       PROVE  \E j \in 1..n : j < n /\ ks[o2[j]] = x
  <2>1. ks[o2[n]] = v
    BY <1>3 DEF v
  <2>2. x \in res /\ x # v
    BY <2>1, <1>7, <1>10
  <2>3. PICK j \in 1..n : ks[o[j]] = x
    BY <2>2, <1>1
  <2>4. j # 1
    BY <2>2, <2>3, <1>6
  <2>5. j - 1 \in 1..(n - 1) /\ j - 1 < n /\ (j - 1) + 1 = j /\ j - 1 \in 1..n
    BY <2>3, <2>4, <1>1
  <2>6. o2[j - 1] = o[j]
    BY <2>5, <1>3
  <2>7. QED
    BY <2>3, <2>5, <2>6
<1>11. \A i \in 1..n : i \in 1..(n - 1) \/ i = n
    BY <1>1
<1>12. \A i \in 1..n : \A x \in a2[ks[o2[i]]] : \E j \in 1..n : j < i /\ ks[o2[j]] = x
    BY <1>9, <1>10, <1>11
<1>13. KAhead(a2, ks, o2)
  <2>1. KAheadOf(a2, ks, o2, n)
    BY <1>12 DEF KAheadOf
  <2>2. QED
    BY <2>1, <1>3, Zenon DEF KAhead
<1>14. QED
    BY <1>4, <1>13 DEF o2, a2, v, t

(* CLOCK: a miss takes a free slot, behind the others, its bit cleared. *)
LEMMA KMisses ==
    ASSUME KInv, NEW k \in FewKeys, CLOCK!Miss(k)
    PROVE  KInv' /\ CLOCK!C!Miss(k) /\ CLOCK!FullLifetime
<1> DEFINE s == Last(free)
<1>1. /\ k \notin resident /\ resident' = resident \cup {k} /\ event' = [op |-> "miss", key |-> k]
      /\ Cardinality(resident) <= Capacity
      /\ order' = Append(order, s) /\ free # <<>> /\ free' = Front(free)
      /\ keys' = XPut(keys, s, k) /\ index' = XPut(index, k, s)
      /\ referenced' = XMark(referenced, s, FALSE)
      /\ ahead' = KHistory(resident \cup {k}, k, ahead)
  <2>1. Cardinality(resident) <= Capacity
    BY KWords, CapacityAssumption DEF CLOCK!Miss, CLOCK!LookupMisses, KInv, Held
  <2>2. /\ k \notin resident /\ resident' = resident \cup {k} /\ event' = [op |-> "miss", key |-> k]
        /\ order' = Append(order, s) /\ free # <<>> /\ free' = Front(free)
        /\ keys' = XPut(keys, s, k) /\ index' = XPut(index, k, s)
        /\ referenced' = XMark(referenced, s, FALSE)
    BY KWords DEF CLOCK!Miss, CLOCK!LookupMisses, CLOCK!TakeSlot, CLOCK!NextSlot, XPut, XMark
  <2>3. ahead' = KHistory(resident \cup {k}, k, ahead)
    BY <2>2 DEF CLOCK!Miss, CLOCK!Requeue, KHistory
  <2>4. QED
    BY <2>1, <2>2, <2>3
<1>2. /\ XTable(index, keys, free, resident) /\ s = Last(free) /\ free # <<>> /\ k \notin resident
      /\ XBitmap(referenced)
    BY <1>1 DEF KInv
<1>3. /\ order \in Seq(XSlots) /\ IsInjective(order) /\ Range(order) = DOMAIN keys
      /\ KAhead(ahead, keys, order)
    BY DEF KInv
<1> HIDE DEF s
<1>4. XTaken(index, keys, free, resident, k, s)
    BY <1>2, XTakes
<1>5. /\ s \in XSlots /\ s \notin DOMAIN keys
      /\ DOMAIN XPut(keys, s, k) = DOMAIN keys \cup {s}
      /\ XTable(XPut(index, k, s), XPut(keys, s, k), Front(free), resident \cup {k})
    BY <1>4 DEF XTaken
<1>6. XLine(order, keys, resident)
    BY <1>2, <1>3, XLined
<1>7. KAhead(KHistory(resident \cup {k}, k, ahead), XPut(keys, s, k), Append(order, s))
    BY <1>2, <1>3, <1>5, <1>6, KJoins
<1>8. /\ Append(order, s) \in Seq(XSlots) /\ IsInjective(Append(order, s))
      /\ Range(Append(order, s)) = DOMAIN keys \cup {s}
    BY <1>3, <1>5, JoinBack
<1>9. XBitmap(XMark(referenced, s, FALSE))
    BY <1>2, <1>5 DEF XBitmap, XMark
<1>10. Held(FewKeys, Capacity)' /\ Counted(FewKeys)'
    BY <1>1, OneComes, CapacityAssumption DEF KInv, Held, Counted
<1>11. DOMAIN KHistory(resident \cup {k}, k, ahead) = resident \cup {k}
    BY DEF KHistory
<1>12. KInv'
    BY <1>1, <1>5, <1>7, <1>8, <1>9, <1>10, <1>11 DEF KInv
<1>13. XBitsStay(index, referenced, XPut(index, k, s), XMark(referenced, s, FALSE))
    BY <1>2, <1>5, XBitNew
<1>14. CLOCK!C!Miss(k)
  <2>1. CLOCK!C!LookupMisses(k)
    BY <1>1, KWords DEF CLOCK!C!LookupMisses, CLOCK!Miss, CLOCK!LookupMisses
  <2>2. QED
    BY <2>1, <1>1, <1>13 DEF CLOCK!C!Miss, XBits, XBitsStay
<1>15. CLOCK!FullLifetime
    BY <1>1 DEF CLOCK!FullLifetime
<1>16. QED
    BY <1>12, <1>14, <1>15

(* CLOCK: the hand passes a key whose bit is set, clears it, and starts it *)
(* anew.                                                                   *)
LEMMA KSpares ==
    ASSUME KInv, CLOCK!Spare
    PROVE  KInv' /\ CLOCK!C!Next /\ CLOCK!FullLifetime
<1> DEFINE s == Head(order)
           v == keys[s]
<1>1. /\ Cardinality(resident) > Capacity /\ order # <<>> /\ referenced[s]
      /\ referenced' = XMark(referenced, s, FALSE)
      /\ order' = Append(Tail(order), s)
      /\ resident' = resident /\ event' = event /\ keys' = keys /\ index' = index /\ free' = free
      /\ ahead' = KHistory(resident, v, ahead)
    BY KWords DEF CLOCK!Spare, CLOCK!Requeue, CLOCK!harnessVars, CLOCK!tableVars, XMark, KHistory
<1>2. /\ XTable(index, keys, free, resident) /\ XBitmap(referenced)
      /\ order \in Seq(XSlots) /\ IsInjective(order) /\ Range(order) = DOMAIN keys
      /\ KAhead(ahead, keys, order) /\ order # <<>> /\ s = Head(order) /\ v = keys[s]
    BY <1>1 DEF KInv
<1> HIDE DEF s, v
<1>3. XLine(order, keys, resident)
    BY <1>2, XLined
<1>4. /\ KAhead(KHistory(resident, v, ahead), keys, Append(Tail(order), s))
      /\ XLine(Append(Tail(order), s), keys, resident)
    BY <1>2, <1>3, KSparesOne
<1>5. s \in DOMAIN keys /\ s \in XSlots /\ v \in resident
  <2>1. s \in DOMAIN keys
    BY <1>2, LeaveFront
  <2>2. QED
    BY <2>1, <1>2 DEF XTable
<1>6. XBitmap(XMark(referenced, s, FALSE))
    BY <1>2, <1>5 DEF XBitmap, XMark
<1>7. DOMAIN KHistory(resident, v, ahead) = resident
    BY DEF KHistory
<1>8. KInv'
    BY <1>1, <1>4, <1>6, <1>7 DEF KInv, XLine, Held, Counted
<1>9. XBitIsNot(index, referenced, s, v)
    BY <1>2, <1>5, XBitCleared
<1>10. CLOCK!C!Spare(v)
    BY <1>1, <1>9, KWords DEF CLOCK!C!Spare, XBits, XBitIsNot, CLOCK!C!harnessVars
<1>11. v \in FewKeys
    BY <1>5 DEF KInv, Held
<1>12. CLOCK!FullLifetime
    BY <1>1 DEF CLOCK!FullLifetime
<1>13. CLOCK!C!Next
    BY <1>10, <1>11 DEF CLOCK!C!Next, CLOCK!C!Spare
<1>14. QED
    BY <1>8, <1>12, <1>13

(* CLOCK: the hand evicts a key whose bit is cleared, whose full lifetime is *)
(* over.                                                                     *)
LEMMA KEvicts ==
    ASSUME KInv, CLOCK!Evict
    PROVE  KInv' /\ CLOCK!C!Next /\ CLOCK!FullLifetime
<1> DEFINE s == Head(order)
           v == keys[s]
<1>1. /\ order # <<>> /\ ~ referenced[s] /\ order' = Tail(order)
      /\ resident' = resident \ {v} /\ event' = [op |-> "evict", key |-> v]
      /\ keys' = XCut(keys, s) /\ index' = XCut(index, v) /\ free' = Append(free, s)
      /\ referenced' = referenced
      /\ ahead' = [x \in resident \ {v} |-> ahead[x] \ {v}]
    BY DEF CLOCK!Evict, CLOCK!Discard, CLOCK!ReleaseSlot, CLOCK!Leave, XCut
<1>2. /\ XTable(index, keys, free, resident) /\ XBitmap(referenced)
      /\ order \in Seq(XSlots) /\ IsInjective(order) /\ Range(order) = DOMAIN keys
      /\ KAhead(ahead, keys, order) /\ order # <<>> /\ s = Head(order) /\ v = keys[s]
      /\ DOMAIN ahead = resident
    BY <1>1 DEF KInv
<1>3. XLine(order, keys, resident)
    BY <1>2, XLined
<1>4. /\ Tail(order) \in Seq(XSlots) /\ IsInjective(Tail(order))
      /\ Range(Tail(order)) = DOMAIN keys \ {s} /\ s \in DOMAIN keys
    BY <1>2, LeaveFront
<1> HIDE DEF s, v
<1>5. XGiven(index, keys, free, resident, s)
    BY <1>2, <1>4, XGives
<1>6. /\ v \in resident
      /\ DOMAIN XCut(keys, s) = DOMAIN keys \ {s}
      /\ \A t \in DOMAIN keys \ {s} : XCut(keys, s)[t] = keys[t]
      /\ XTable(XCut(index, v), XCut(keys, s), Append(free, s), resident \ {v})
    BY <1>5, <1>2 DEF XGiven
<1> DEFINE a2 == [x \in resident \ {v} |-> ahead[x] \ {v}]
<1>7. DOMAIN a2 = resident \ {v} /\ KForgets(a2, ahead, resident, keys[s])
    BY <1>2 DEF KForgets
<1>8. ahead' = a2
    BY <1>1
<1> HIDE DEF a2
<1>9. KAhead(a2, XCut(keys, s), Tail(order)) /\ \A x \in ahead[keys[s]] : FALSE
  <2>1. XBut(XCut(keys, s), keys, s)
    BY <1>6 DEF XBut
  <2>2. QED
    BY <2>1, <1>2, <1>3, <1>7, KLeaves
<1>10. Held(FewKeys, Capacity)' /\ Counted(FewKeys)'
  <2>1. Capacity + 1 \in Nat /\ IsFiniteSet(resident) /\ Cardinality(resident) \in 0 .. Capacity + 1
    BY CapacityAssumption DEF KInv, Held
  <2>2. IsFiniteSet(resident') /\ Cardinality(resident') \in 0 .. Capacity + 1
    BY <2>1, <1>1, OneGoes
  <2>3. QED
    BY <2>2, <1>1, <1>6 DEF KInv, Held, Counted
<1>11. KInv'
    BY <1>1, <1>2, <1>4, <1>6, <1>7, <1>8, <1>9, <1>10 DEF KInv
<1>12. XBitsStay(index, referenced, XCut(index, v), referenced)
    BY <1>1, <1>2, <1>4, XBitGoes
<1>13. v \notin XBits(index, referenced)
  <2>1. index[v] = s
    BY <1>2, <1>4 DEF XTable
  <2>2. QED
    BY <2>1, <1>1 DEF XBits
<1>14. CLOCK!C!Evict(v)
  <2>1. CLOCK!C!Discard(v)
    BY <1>1, <1>2, KWords DEF CLOCK!C!Discard, CLOCK!Evict, CLOCK!Discard
  <2>2. QED
    BY <2>1, <1>1, <1>6, <1>12, <1>13 DEF CLOCK!C!Evict, XBits, XBitsStay
<1>15. CLOCK!FullLifetime
  <2>1. ahead[v] = {}
    BY <1>2, <1>9
  <2>2. QED
    BY <2>1, <1>1 DEF CLOCK!FullLifetime
<1>16. v \in FewKeys
    BY <1>6 DEF KInv, Held
<1>17. QED
    BY <1>11, <1>14, <1>15, <1>16 DEF CLOCK!C!Next

(* CLOCK: every step keeps the invariant, is one of second chance, and keeps *)
(* the lifetimes.                                                            *)
LEMMA KStep ==
    ASSUME KInv, CLOCK!Next
    PROVE  KInv' /\ CLOCK!C!Next /\ CLOCK!FullLifetime
<1>1. ASSUME NEW k \in FewKeys, CLOCK!Hit(k)
      PROVE  KInv' /\ CLOCK!C!Next /\ CLOCK!FullLifetime
    BY <1>1, KHits DEF CLOCK!C!Next
<1>2. ASSUME NEW k \in FewKeys, CLOCK!Miss(k)
      PROVE  KInv' /\ CLOCK!C!Next /\ CLOCK!FullLifetime
    BY <1>2, KMisses DEF CLOCK!C!Next
<1>3. CASE CLOCK!Spare
    BY <1>3, KSpares
<1>4. CASE CLOCK!Evict
    BY <1>4, KEvicts
<1>5. QED
    BY <1>1, <1>2, <1>3, <1>4 DEF CLOCK!Next

(* CLOCK: the constructor, too. *)
LEMMA KStart == CLOCK!Init => KInv /\ CLOCK!C!Init
<1>1. SUFFICES ASSUME CLOCK!Init PROVE KInv /\ CLOCK!C!Init
    OBVIOUS
<1>2. /\ resident = {} /\ event = [op |-> "none"] /\ DOMAIN index = {}
      /\ referenced = [s \in XSlots |-> FALSE] /\ order = <<>> /\ DOMAIN ahead = {}
    BY <1>1, KWords DEF CLOCK!Init, CLOCK!HarnessInit, CLOCK!TableInit
<1>3. XTable(index, keys, free, resident) /\ DOMAIN keys = {}
    BY <1>1, <1>2, XStarts DEF CLOCK!Init, CLOCK!TableInit
<1>4. <<>> \in Seq(XSlots) /\ IsInjective(<<>>) /\ Range(<<>>) = {} /\ Len(<<>>) = 0
    BY EmptySeq DEF IsInjective, Range
<1>5. Held(FewKeys, Capacity) /\ Counted(FewKeys)
  <2>1. IsFiniteSet({}) /\ Cardinality({}) = 0 /\ Capacity + 1 \in Nat
    BY FS_EmptySet, CapacityAssumption
  <2>2. QED
    BY <1>2, <2>1 DEF Held, Counted
<1>6. KAhead(ahead, keys, order)
    BY <1>2, <1>4 DEF KAhead, KAheadOf
<1>7. KInv
    BY <1>2, <1>3, <1>4, <1>5, <1>6 DEF KInv, XBitmap
<1>8. CLOCK!C!Init
    BY <1>2 DEF CLOCK!C!Init, CLOCK!C!HarnessInit
<1>9. QED
    BY <1>7, <1>8

(* CLOCK: what the invariant gives. *)
LEMMA KTyped == KInv => CLOCK!TypeOK
<1>1. SUFFICES ASSUME KInv PROVE CLOCK!TypeOK
    OBVIOUS
<1>2. CLOCK!HarnessTypeOK
    BY <1>1, KCardinality, CapacityAssumption DEF KInv, Held, Counted, CLOCK!HarnessTypeOK
<1>3. CLOCK!TableOK
    BY <1>1, KWords DEF KInv, XTable, CLOCK!TableOK
<1>4. QED
    BY <1>1, <1>2, <1>3, KWords DEF KInv, XBitmap, CLOCK!TypeOK

-----------------------------------------------------------------------------
(* SIEVE *)

(* The neighbours of a slot on a list are on it too, and others. *)
XNear(s, x, y) == y = XNil \/ (y \in Range(s) /\ y # x)

(* The neighbours of a slot on a list are on it too, or there is none. *)
LEMMA XNeighbours ==
    ASSUME NEW f, NEW b, NEW h, NEW t, NEW off, NEW s, XChain(f, b, h, t, off, s),
           NEW x \in Range(s)
    PROVE  XNear(s, x, f[x]) /\ XNear(s, x, b[x]) /\ x \in XSlots
<1>1. /\ s \in Seq(XSlots) /\ IsInjective(s)
      /\ \A i \in 1..Len(s) : /\ f[s[i]] = (IF i = Len(s) THEN XNil ELSE s[i + 1])
                              /\ b[s[i]] = (IF i = 1 THEN XNil ELSE s[i - 1])
    BY DEF XChain
<1>2. /\ Len(s) \in Nat
      /\ Range(s) = {s[i] : i \in 1..Len(s)} /\ Range(s) \subseteq XSlots
      /\ \A i, j \in 1..Len(s) : s[i] = s[j] => i = j
    BY <1>1, LineElements
<1> DEFINE n == Len(s)
<1>3. /\ n \in Nat /\ \A i \in 1..n : s[i] \in Range(s)
      /\ \A i, j \in 1..n : s[i] = s[j] => i = j
    BY <1>2
<1>4. PICK p \in 1..n : x = s[p]
    BY <1>2
<1>5. /\ f[s[p]] = (IF p = n THEN XNil ELSE s[p + 1])
      /\ b[s[p]] = (IF p = 1 THEN XNil ELSE s[p - 1])
    BY <1>1
<1> HIDE DEF n
<1>6. /\ p # n => p + 1 \in 1..n /\ p + 1 # p
      /\ p # 1 => p - 1 \in 1..n /\ p - 1 # p
    BY <1>3
<1>7. XNear(s, x, f[x])
    BY <1>3, <1>4, <1>5, <1>6 DEF XNear
<1>8. XNear(s, x, b[x])
    BY <1>3, <1>4, <1>5, <1>6 DEF XNear
<1>9. QED
    BY <1>2, <1>7, <1>8

(* The ends of a list are on it. *)
LEMMA XEndsOn ==
    ASSUME NEW f, NEW b, NEW h, NEW t, NEW off, NEW s, XChain(f, b, h, t, off, s)
    PROVE  /\ h = XNil \/ h \in Range(s)
           /\ t = XNil \/ t \in Range(s)
           /\ s \in Seq(XSlots) /\ IsInjective(s) /\ Range(s) \subseteq XSlots
<1>1. /\ s \in Seq(XSlots) /\ IsInjective(s)
      /\ h = (IF s = <<>> THEN XNil ELSE s[1])
      /\ t = (IF s = <<>> THEN XNil ELSE s[Len(s)])
    BY DEF XChain
<1>2. /\ Len(s) \in Nat /\ (s = <<>> <=> Len(s) = 0)
      /\ Range(s) = {s[i] : i \in 1..Len(s)} /\ Range(s) \subseteq XSlots
    BY <1>1, LineElements
<1>3. s # <<>> => 1 \in 1..Len(s) /\ Len(s) \in 1..Len(s)
    BY <1>2
<1>4. QED
    BY <1>1, <1>2, <1>3

(* The pairs of which the first is nearer the front of u. *)
VAges(res, u) ==
    {pair \in res \X res : \E i, j \in DOMAIN u : i < j /\ u[i] = pair[1] /\ u[j] = pair[2]}

(* The keys in both states keep their ages. *)
VKept(res, r2, u, u2) ==
    VAges(res, u) \cap ((res \cap r2) \X (res \cap r2)) \subseteq VAges(r2, u2)

(* SIEVE: a key in front leaves the ages of the others. *)
LEMMA VPushed ==
    ASSUME NEW T, NEW u \in Seq(T), IsInjective(u), NEW k \in T, k \notin Range(u),
           NEW res, NEW r2
    PROVE  VKept(res, r2, u, <<k>> \o u)
<1> DEFINE n == Len(u)
           u2 == <<k>> \o u
<1>1. n \in Nat /\ DOMAIN u = 1..n
    BY LineElements
<1>2. /\ u2 \in Seq(T) /\ Len(u2) = n + 1
      /\ \A i \in 2..(n + 1) : u2[i] = u[i - 1]
    BY JoinFront
<1>3. DOMAIN u2 = 1..(n + 1)
    BY <1>2, LineElements
<1> HIDE DEF n, u2
<1>4. ASSUME NEW x, NEW y, <<x, y>> \in VAges(res, u), x \in r2, y \in r2
      PROVE  <<x, y>> \in VAges(r2, u2)
  <2>1. PICK i \in 1..n, j \in 1..n : i < j /\ u[i] = x /\ u[j] = y
    BY <1>1, <1>4 DEF VAges
  <2>2. /\ i + 1 \in 2..(n + 1) /\ j + 1 \in 2..(n + 1) /\ i + 1 < j + 1
        /\ (i + 1) - 1 = i /\ (j + 1) - 1 = j
        /\ i + 1 \in 1..(n + 1) /\ j + 1 \in 1..(n + 1)
    BY <1>1, <2>1
  <2>3. u2[i + 1] = x /\ u2[j + 1] = y
    BY <2>1, <2>2, <1>2
  <2>4. QED
    BY <2>2, <2>3, <1>3, <1>4 DEF VAges
<1>5. \A pair \in VAges(res, u) : pair = <<pair[1], pair[2]>>
    BY DEF VAges
<1>6. QED
    BY <1>4, <1>5 DEF VKept, u2

(* SIEVE: so does a key that goes. *)
LEMMA VPulled ==
    ASSUME NEW T, NEW u \in Seq(T), IsInjective(u), NEW v \in Range(u),
           NEW res, NEW r2, v \notin r2
    PROVE  VKept(res, r2, u, Remove(u, v))
<1> DEFINE n == Len(u)
           u2 == Remove(u, v)
<1>1. /\ n \in Nat /\ DOMAIN u = 1..n
      /\ \A i, j \in 1..n : u[i] = u[j] => i = j
    BY LineElements
<1>2. PICK p \in 1..n : v = u[p]
    BY LineElements
<1>3. /\ u2 \in Seq(T) /\ Len(u2) = n - 1
      /\ \A i \in 1..(n - 1) : u2[i] = IF i < p THEN u[i] ELSE u[i + 1]
    BY <1>2, LeaveAt
<1>4. DOMAIN u2 = 1..(n - 1)
    BY <1>3, LineElements
<1> HIDE DEF n, u2
<1> DEFINE place(i) == IF i < p THEN i ELSE i - 1
<1>5. \A i \in 1..n : i # p => place(i) \in 1..(n - 1) /\ u2[place(i)] = u[i]
  <2>1. SUFFICES ASSUME NEW i \in 1..n, i # p
                 PROVE  place(i) \in 1..(n - 1) /\ u2[place(i)] = u[i]
    OBVIOUS
  <2>2. CASE i < p
    <3>1. i \in 1..(n - 1) /\ place(i) = i
        BY <2>2, <1>1, <1>2
    <3>2. QED
        BY <3>1, <2>2, <1>3
  <2>3. CASE ~ (i < p)
    <3>1. i - 1 \in 1..(n - 1) /\ place(i) = i - 1 /\ ~ (i - 1 < p) /\ (i - 1) + 1 = i
        BY <2>1, <2>3, <1>1, <1>2
    <3>2. QED
        BY <3>1, <1>3
  <2>4. QED
    BY <2>2, <2>3
<1>6. \A i, j \in 1..n : i # p /\ j # p /\ i < j => place(i) < place(j)
    BY <1>1, <1>2
<1> HIDE DEF place
<1>7. ASSUME NEW x, NEW y, <<x, y>> \in VAges(res, u), x \in r2, y \in r2
      PROVE  <<x, y>> \in VAges(r2, u2)
  <2>1. PICK i \in 1..n, j \in 1..n : i < j /\ u[i] = x /\ u[j] = y
    BY <1>1, <1>7 DEF VAges
  <2>2. i # p /\ j # p
    BY <2>1, <1>2, <1>7
  <2>3. /\ place(i) \in 1..(n - 1) /\ place(j) \in 1..(n - 1) /\ place(i) < place(j)
        /\ u2[place(i)] = x /\ u2[place(j)] = y
    BY <2>1, <2>2, <1>5, <1>6
  <2>4. QED
    BY <2>3, <1>4, <1>7 DEF VAges
<1>8. \A pair \in VAges(res, u) : pair = <<pair[1], pair[2]>>
    BY DEF VAges
<1>9. QED
    BY <1>7, <1>8 DEF VKept, u2

(* SIEVE: so does no change. *)
LEMMA VStayed ==
    ASSUME NEW res, NEW u
    PROVE  VKept(res, res, u, u)
BY DEF VKept

(* SIEVE: its modules count as this one does. *)
LEMMA VCardinality ==
    /\ \A S : SIEVE!Cardinality(S) = Cardinality(S)
    /\ \A S : SIEVE!C!Cardinality(S) = Cardinality(S)
BY Zenon DEF SIEVE!Cardinality, SIEVE!C!Cardinality, Cardinality

(* SIEVE: its operators are those of this module. *)
LEMMA VWords ==
    /\ \A s : SIEVE!Range(s) = Range(s) /\ (SIEVE!IsInjective(s) <=> IsInjective(s))
    /\ \A s : SIEVE!Front(s) = Front(s) /\ SIEVE!Last(s) = Last(s)
    /\ SIEVE!OverCapacity <=> Cardinality(resident) > Capacity
    /\ SIEVE!C!OverCapacity <=> Cardinality(resident) > Capacity
    /\ SIEVE!SlotIds = XSlots /\ SIEVE!Nil = XNil
BY VCardinality DEF SIEVE!Range, Range, SIEVE!IsInjective, IsInjective, SIEVE!Front, Front,
   SIEVE!Last, Last, SIEVE!OverCapacity, SIEVE!C!OverCapacity, SIEVE!SlotIds, XSlots, SIEVE!Nil, XNil

VRecord == [newer : XLinks, older : XLinks, newest : XSlots \cup {XNil}, oldest : XSlots \cup {XNil}]

(* The list l spells s, the newest first. *)
VList(l, s) ==
    /\ l \in VRecord
    /\ XChain(l.older, l.newer, l.newest, l.oldest, XNil, s)

(* SIEVE: links that spell a line are a list. *)
LEMMA VMade ==
    ASSUME NEW f, NEW b, NEW h, NEW t, NEW s, XChain(f, b, h, t, XNil, s),
           NEW l, l = [newer |-> b, older |-> f, newest |-> h, oldest |-> t]
    PROVE  VList(l, s)
<1>1. f \in XLinks /\ b \in XLinks
    BY DEF XChain
<1>2. h \in XSlots \cup {XNil} /\ t \in XSlots \cup {XNil}
    BY XEndsOn
<1>3. l \in VRecord
    BY <1>1, <1>2 DEF VRecord
<1>4. l.older = f /\ l.newer = b /\ l.newest = h /\ l.oldest = t
    OBVIOUS
<1>5. QED
    BY <1>3, <1>4 DEF VList

(* SIEVE: a miss linked as the newest keeps the links of both directions in *)
(* agreement.                                                               *)
LEMMA VPushes ==
    ASSUME NEW s, VList(list, s), NEW x \in XSlots, x \notin Range(s)
    PROVE  VList(SIEVE!LinkNewest(x), <<x>> \o s)
<1> DEFINE f == XLink(list.older, x, list.newest)
           b == XMend(list.newer, x, XNil, list.newest, x)
           t == IF list.newest = XNil THEN x ELSE list.oldest
<1>1. /\ XChain(list.older, list.newer, list.newest, list.oldest, XNil, s)
      /\ list.older \in XLinks /\ list.newer \in XLinks
    BY DEF VList, XChain
<1>2. list.newest # x
  <2>1. list.newest = XNil \/ list.newest \in Range(s)
    BY <1>1, XEndsOn
  <2>2. QED
    BY <2>1, XEnds
<1>3. [list.older EXCEPT ![x] = list.newest] = f
    BY <1>1 DEF XLink, XLinks
<1>4. [y \in XSlots |-> CASE y = x -> XNil [] y = list.newest -> x [] OTHER -> list.newer[y]] = b
    BY <1>2 DEF XMend
<1>5. SIEVE!LinkNewest(x) = [newer |-> b, older |-> f, newest |-> x, oldest |-> t]
    BY <1>3, <1>4, VWords DEF SIEVE!LinkNewest
<1> HIDE DEF f, b, t
<1>6. XChain(f, b, x, t, XNil, <<x>> \o s)
    BY <1>1, XPushes DEF f, b, t
<1>7. QED
    BY <1>5, <1>6, VMade

(* SIEVE: sieve_unlink does, wherever the slot was. *)
LEMMA VUnlinks ==
    ASSUME NEW s, VList(list, s), NEW x \in Range(s)
    PROVE  VList(SIEVE!Without(x), Remove(s, x))
<1> DEFINE a == list.older[x]
           c == list.newer[x]
           f == XMend(list.older, x, XNil, c, a)
           b == XMend(list.newer, x, XNil, a, c)
           h == IF c = XNil THEN a ELSE list.newest
           t == IF a = XNil THEN c ELSE list.oldest
<1>1. /\ XChain(list.older, list.newer, list.newest, list.oldest, XNil, s)
      /\ s \in Seq(XSlots) /\ IsInjective(s)
    BY DEF VList, XChain
<1>2. PICK p \in 1..Len(s) : x = s[p]
    BY <1>1, LineElements
<1>3. a # x /\ c # x
  <2>1. XNear(s, x, list.older[x]) /\ XNear(s, x, list.newer[x]) /\ x \in XSlots
    BY <1>1, XNeighbours
  <2>2. QED
    BY <2>1, XEnds DEF XNear
<1>4. /\ [y \in XSlots |-> CASE y = x -> XNil [] y = c -> a [] OTHER -> list.older[y]] = f
      /\ [y \in XSlots |-> CASE y = x -> XNil [] y = a -> c [] OTHER -> list.newer[y]] = b
    BY <1>3 DEF XMend
<1>5. SIEVE!Without(x) = [newer |-> b, older |-> f, newest |-> h, oldest |-> t]
    BY <1>4, VWords DEF SIEVE!Without
<1> HIDE DEF f, b, h, t
<1>6. XChain(f, b, h, t, XNil, Remove(s, x))
  <2>1. /\ f = XMend(list.older, x, XNil, list.newer[x], list.older[x])
        /\ b = XMend(list.newer, x, XNil, list.older[x], list.newer[x])
        /\ h = (IF list.newer[x] = XNil THEN list.older[x] ELSE list.newest)
        /\ t = (IF list.older[x] = XNil THEN list.newer[x] ELSE list.oldest)
        /\ XNil \in {XNil, XOff}
    BY DEF f, b, h, t
  <2>2. QED
    BY <1>1, <1>2, <2>1, XPulls
<1>7. QED
    BY <1>5, <1>6, VMade

(* SIEVE: walking the links from the newest spells the list. *)
LEMMA VStretches ==
    ASSUME NEW l, NEW s, VList(l, s)
    PROVE  SIEVE!Threaded(l.older, l.newest, Capacity + 1) = s
<1>1. /\ XChain(l.older, l.newer, l.newest, l.oldest, XNil, s)
      /\ s \in Seq(XSlots) /\ IsInjective(s)
    BY DEF VList, XChain
<1>2. Capacity + 1 \in Nat \ {0}
    BY CapacityAssumption
<1>3. Len(s) <= Capacity + 1
  <2>1. Len(s) \in 0 .. Capacity + 1
    BY <1>1, XLong
  <2>2. QED
    BY <2>1, <1>2
<1>4. \A f, h, n : SIEVE!Threaded(f, h, n) = XThreaded(f, h, n)
    BY VCardinality, Zenon DEF SIEVE!Threaded, XThreaded, SIEVE!Nil, XNil
<1>5. XThreaded(l.older, l.newest, Capacity + 1) = s
    BY <1>1, <1>2, <1>3, XThreads
<1>6. QED
    BY <1>4, <1>5

(* The list spells s, and its slots are those in use. *)
VHolds(s) ==
    /\ VList(list, s)
    /\ Range(s) = DOMAIN keys

(* SIEVE's invariant: the links spell one list, and the hand is on it or *)
(* nowhere.                                                              *)
VInv ==
    /\ Held(FewKeys, Capacity)
    /\ Counted(FewKeys)
    /\ XTable(index, keys, free, resident)
    /\ XBitmap(visited)
    /\ {hand, cursor} \subseteq DOMAIN keys \cup {XNil}
    /\ cursor # XNil => Cardinality(resident) > Capacity
    /\ \E s : VHolds(s)

(* SIEVE: the order and the ages read from the links, as long as they spell *)
(* a list.                                                                  *)
LEMMA VOrder ==
    ASSUME VInv, NEW s, VHolds(s)
    PROVE  /\ s \in Seq(XSlots) /\ IsInjective(s) /\ Range(s) = DOMAIN keys
           /\ SIEVE!KeyOrder = XNames(keys, s)
           /\ XFit(keys, Range(s), FewKeys)
           /\ \A t, u \in Range(s) : keys[t] = keys[u] => t = u
           /\ SIEVE!Ages = VAges(resident, XNames(keys, s))
<1>1. s \in Seq(XSlots) /\ IsInjective(s) /\ Range(s) = DOMAIN keys
    BY DEF VHolds, VList, XChain
<1>2. SIEVE!KeyOrder = XNames(keys, s)
    BY VStretches DEF SIEVE!KeyOrder, SIEVE!Order, XNames, VHolds
<1>3. /\ resident \subseteq FewKeys
      /\ \A t \in DOMAIN keys : keys[t] \in resident /\ index[keys[t]] = t
    BY DEF VInv, XTable, Held
<1>4. SIEVE!Ages = VAges(resident, XNames(keys, s))
    BY <1>2, Zenon DEF SIEVE!Ages, VAges
<1>5. QED
    BY <1>1, <1>2, <1>3, <1>4 DEF XFit

(* What the next state spells. *)
LEMMA VAgesNext ==
    ASSUME NEW s2, VList(list', s2)
    PROVE  SIEVE!Ages' = VAges(resident', XNames(keys', s2))
<1>1. SIEVE!Threaded(list'.older, list'.newest, Capacity + 1) = s2
    BY VStretches
<1>2. SIEVE!KeyOrder' = XNames(keys', s2)
    BY <1>1 DEF SIEVE!KeyOrder, SIEVE!Order, XNames
<1>3. QED
    BY <1>2, Zenon DEF SIEVE!Ages, VAges

(* The hand examines a slot in use. *)
LEMMA VExamined ==
    ASSUME VInv, NEW s, VHolds(s), NEW x, x = SIEVE!Examined, x # XNil
    PROVE  x \in Range(s) /\ x \in DOMAIN keys
<1>1. list.oldest = XNil \/ list.oldest \in Range(s)
    BY XEndsOn DEF VHolds, VList
<1>2. QED
    BY <1>1, VWords DEF VInv, VHolds, SIEVE!Examined

(* SIEVE: a hit sets the bit, and no one moves. *)
LEMMA VHits ==
    ASSUME VInv, NEW k \in FewKeys, SIEVE!Hit(k)
    PROVE  VInv' /\ SIEVE!C!Next /\ SIEVE!NothingMoves
<1>1. /\ k \in resident /\ resident' = resident /\ event' = [op |-> "hit", key |-> k]
      /\ keys' = keys /\ index' = index /\ free' = free
      /\ list' = list /\ hand' = hand /\ cursor' = cursor
      /\ visited' = XMark(visited, index[k], TRUE)
    BY DEF SIEVE!Hit, SIEVE!LookupHits, SIEVE!tableVars, XMark
<1>2. XTable(index, keys, free, resident) /\ XBitmap(visited) /\ k \in resident
    BY <1>1 DEF VInv
<1>3. XBitmap(visited')
    BY <1>1, <1>2 DEF XBitmap, XMark
<1>4. VInv'
    BY <1>1, <1>3 DEF VInv, Held, Counted, VHolds
<1>5. XBitIs(index, visited, k)
    BY <1>2, XBitSet
<1>6. SIEVE!C!Hit(k)
  <2>1. SIEVE!C!LookupHits(k)
    BY <1>1, VWords DEF SIEVE!C!LookupHits, SIEVE!Hit, SIEVE!LookupHits
  <2>2. QED
    BY <2>1, <1>1, <1>5 DEF SIEVE!C!Hit, XBits, XBitIs
<1>7. SIEVE!C!Next
    BY <1>6, Zenon DEF SIEVE!C!Next
<1>8. SIEVE!NothingMoves
  <2>1. PICK s : VHolds(s)
    BY DEF VInv
  <2>2. SIEVE!Ages = VAges(resident, XNames(keys, s))
    BY <2>1, VOrder
  <2>3. VList(list', s)
    BY <2>1, <1>1 DEF VHolds
  <2>4. SIEVE!Ages' = VAges(resident', XNames(keys', s))
    BY <2>3, VAgesNext
  <2>5. SIEVE!Ages' = SIEVE!Ages
    BY <2>2, <2>4, <1>1
  <2>6. QED
    BY <2>5 DEF SIEVE!NothingMoves
<1>9. QED
    BY <1>4, <1>7, <1>8

(* A stay is what the two states' ages say. *)
LEMMA VSettles ==
    ASSUME NEW u, NEW u2, SIEVE!Ages = VAges(resident, u), SIEVE!Ages' = VAges(resident', u2),
           VKept(resident, resident', u, u2)
    PROVE  SIEVE!NothingMoves
BY DEF SIEVE!NothingMoves, VKept

(* SIEVE: a miss links its key as the newest; the hand stays where it was. *)
LEMMA VMisses ==
    ASSUME VInv, NEW k \in FewKeys, SIEVE!Miss(k)
    PROVE  VInv' /\ SIEVE!C!Next /\ SIEVE!NothingMoves
<1> DEFINE x == Last(free)
<1>1. /\ k \notin resident /\ resident' = resident \cup {k} /\ event' = [op |-> "miss", key |-> k]
      /\ ~ (Cardinality(resident) > Capacity)
      /\ list' = SIEVE!LinkNewest(x) /\ free # <<>> /\ free' = Front(free)
      /\ keys' = XPut(keys, x, k) /\ index' = XPut(index, k, x)
      /\ visited' = XMark(visited, x, FALSE) /\ hand' = hand /\ cursor' = cursor
    BY VWords DEF SIEVE!Miss, SIEVE!LookupMisses, SIEVE!TakeSlot, SIEVE!NextSlot, XPut, XMark
<1>2. PICK s : VHolds(s)
    BY DEF VInv
<1>3. /\ s \in Seq(XSlots) /\ IsInjective(s) /\ Range(s) = DOMAIN keys
      /\ XFit(keys, Range(s), FewKeys) /\ VList(list, s)
      /\ \A t, u \in Range(s) : keys[t] = keys[u] => t = u
      /\ SIEVE!Ages = VAges(resident, XNames(keys, s))
    BY <1>2, VOrder DEF VHolds
<1>4. /\ XTable(index, keys, free, resident) /\ x = Last(free) /\ free # <<>> /\ k \notin resident
      /\ XBitmap(visited)
    BY <1>1 DEF VInv
<1> HIDE DEF x
<1>5. XTaken(index, keys, free, resident, k, x)
    BY <1>4, XTakes
<1>6. /\ x \in XSlots /\ x \notin Range(s)
      /\ DOMAIN keys' = DOMAIN keys \cup {x} /\ keys'[x] = k
      /\ \A t \in Range(s) : keys'[t] = keys[t]
      /\ XTable(index', keys', free', resident')
    BY <1>1, <1>3, <1>5 DEF XTaken
<1>7. VList(list', <<x>> \o s)
    BY <1>1, <1>3, <1>6, VPushes
<1>8. Range(<<x>> \o s) = DOMAIN keys'
    BY <1>3, <1>6, JoinFront
<1>9. \E z : VList(list', z) /\ Range(z) = DOMAIN keys'
    BY <1>7, <1>8
<1>10. XBitmap(visited')
    BY <1>1, <1>4, <1>6 DEF XBitmap, XMark
<1>11. Held(FewKeys, Capacity)' /\ Counted(FewKeys)'
  <2>1. Cardinality(resident) <= Capacity
    BY <1>1, CapacityAssumption DEF VInv, Held
  <2>2. QED
    BY <2>1, <1>1, OneComes, CapacityAssumption DEF VInv, Held, Counted
<1>12. /\ {hand', cursor'} \subseteq DOMAIN keys' \cup {XNil}
       /\ cursor' # XNil => Cardinality(resident') > Capacity
    BY <1>1, <1>6 DEF VInv
<1>13. VInv'
    BY <1>6, <1>9, <1>10, <1>11, <1>12 DEF VInv, VHolds
<1>14. XBitsStay(index, visited, XPut(index, k, x), XMark(visited, x, FALSE))
  <2>1. x \notin DOMAIN keys
    BY <1>3, <1>6
  <2>2. QED
    BY <2>1, <1>4, <1>6, XBitNew
<1>15. SIEVE!C!Miss(k)
  <2>1. SIEVE!C!LookupMisses(k)
    BY <1>1, VWords DEF SIEVE!C!LookupMisses, SIEVE!Miss, SIEVE!LookupMisses
  <2>2. QED
    BY <2>1, <1>1, <1>14 DEF SIEVE!C!Miss, XBits, XBitsStay
<1>16. SIEVE!C!Next
    BY <1>15, Zenon DEF SIEVE!C!Next
<1>17. XNames(keys', <<x>> \o s) = <<k>> \o XNames(keys, s)
  <2> DEFINE kk == keys'
  <2>1. XFit(kk, Range(s) \cup {x}, FewKeys)
    BY <1>3, <1>6 DEF XFit
  <2>2. \A t \in Range(s) : kk[t] = keys[t]
    BY <1>6
  <2>3. kk[x] = k
    BY <1>6
  <2> HIDE DEF kk
  <2>4. XNames(kk, <<x>> \o s) = <<kk[x]>> \o XNames(kk, s)
    <3>1. /\ s \in Seq(XSlots) /\ IsInjective(s) /\ x \in XSlots /\ x \notin Range(s)
          /\ XFit(kk, Range(s) \cup {x}, FewKeys)
        BY <1>3, <1>6, <2>1
    <3>2. QED
        BY <3>1, XNamesPush
  <2>5. XNames(kk, s) = XNames(keys, s)
    BY <1>3, <2>2, XNamesSame
  <2>6. QED
    BY <2>3, <2>4, <2>5 DEF kk
<1>18. SIEVE!NothingMoves
  <2> DEFINE u == XNames(keys, s)
  <2>1. SIEVE!Ages' = VAges(resident', <<k>> \o u)
    BY <1>7, <1>17, VAgesNext
  <2>2. u \in Seq(FewKeys) /\ IsInjective(u) /\ k \notin Range(u)
    <3>1. /\ u \in Seq(FewKeys) /\ Len(u) = Len(s)
          /\ \A i \in 1..Len(s) : u[i] = keys[s[i]]
        BY <1>3, XNamed
    <3>2. Len(s) \in Nat /\ \A i \in 1..Len(s) : s[i] \in Range(s)
        BY <1>3, LineElements
    <3>3. \A i, j \in 1..Len(s) : s[i] = s[j] => i = j
        BY <1>3, LineElements
    <3> DEFINE n == Len(s)
    <3>4. \A i, j \in 1..n : u[i] = u[j] => i = j
      <4>1. SUFFICES ASSUME NEW i \in 1..n, NEW j \in 1..n, u[i] = u[j] PROVE i = j
        OBVIOUS
      <4>2. s[i] = s[j]
        BY <4>1, <3>1, <3>2, <1>3
      <4>3. QED
        BY <4>2, <3>3
    <3> HIDE DEF u, n
    <3>5. IsInjective(u)
      <4>1. \A i, j \in 1..Len(u) : u[i] = u[j] => i = j
        BY <3>1, <3>4 DEF n
      <4>2. QED
        BY <4>1, <3>1, LineElements
    <3>6. \A i \in 1..n : u[i] \in resident
      <4>1. \A t \in DOMAIN keys : keys[t] \in resident
        BY <1>4 DEF XTable
      <4>2. QED
        BY <4>1, <3>1, <3>2, <1>3 DEF n
    <3>7. Range(u) = {u[i] : i \in 1..n}
      <4>1. Range(u) = {u[i] : i \in 1..Len(u)}
        BY <3>1, LineElements
      <4>2. QED
        BY <4>1, <3>1 DEF n
    <3>8. QED
        BY <3>1, <3>5, <3>6, <3>7, <1>1
  <2> HIDE DEF u
  <2>3. VKept(resident, resident', u, <<k>> \o u)
    BY <2>2, VPushed
  <2>4. QED
    BY <2>1, <2>3, <1>3, VSettles DEF u
<1>19. QED
    BY <1>13, <1>16, <1>18

(* SIEVE: the hand clears a bit and goes on to the next newer; no one moves. *)
LEMMA VSpares ==
    ASSUME VInv, SIEVE!Spare
    PROVE  VInv' /\ SIEVE!C!Next /\ SIEVE!NothingMoves
<1> DEFINE x == SIEVE!Examined
           v == keys[x]
<1>1. /\ Cardinality(resident) > Capacity /\ x # XNil /\ visited[x]
      /\ visited' = XMark(visited, x, FALSE)
      /\ cursor' = (IF list.newer[x] = XNil THEN list.oldest ELSE list.newer[x])
      /\ resident' = resident /\ event' = event /\ keys' = keys /\ index' = index /\ free' = free
      /\ list' = list /\ hand' = hand
    BY VWords DEF SIEVE!Spare, SIEVE!Newer, SIEVE!harnessVars, SIEVE!tableVars, XMark
<1>2. PICK s : VHolds(s)
    BY DEF VInv
<1>3. x \in Range(s) /\ x \in DOMAIN keys
    BY <1>1, <1>2, VExamined
<1>4. /\ XTable(index, keys, free, resident) /\ XBitmap(visited)
      /\ XChain(list.older, list.newer, list.newest, list.oldest, XNil, s)
      /\ Range(s) = DOMAIN keys /\ v = keys[x]
    BY <1>2 DEF VInv, VHolds, VList
<1> HIDE DEF x, v
<1>5. XNear(s, x, list.newer[x]) /\ x \in XSlots
    BY <1>3, <1>4, XNeighbours
<1>6. list.oldest = XNil \/ list.oldest \in Range(s)
    BY <1>4, XEndsOn
<1>7. cursor' \in DOMAIN keys \cup {XNil}
    BY <1>1, <1>4, <1>5, <1>6 DEF XNear
<1>8. XBitmap(XMark(visited, x, FALSE))
    BY <1>4, <1>5 DEF XBitmap, XMark
<1>9. VInv'
  <2>1. /\ {hand', cursor'} \subseteq DOMAIN keys' \cup {XNil}
        /\ cursor' # XNil => Cardinality(resident') > Capacity
    BY <1>1, <1>7 DEF VInv
  <2>2. \E z : VList(list', z) /\ Range(z) = DOMAIN keys'
    BY <1>1, <1>2 DEF VHolds
  <2>3. XBitmap(visited')
    BY <1>1, <1>8
  <2>4. XTable(index', keys', free', resident')
    BY <1>1, <1>4
  <2>5. Held(FewKeys, Capacity)' /\ Counted(FewKeys)'
    BY <1>1 DEF VInv, Held, Counted
  <2>6. QED
    BY <2>1, <2>2, <2>3, <2>4, <2>5 DEF VInv, VHolds
<1>10. v \in resident /\ v \in FewKeys
    BY <1>3, <1>4 DEF XTable, VInv, Held
<1>11. XBitIsNot(index, visited, x, v)
    BY <1>3, <1>4, XBitCleared
<1>12. SIEVE!C!Spare(v)
    BY <1>1, <1>11, VWords DEF SIEVE!C!Spare, XBits, XBitIsNot, SIEVE!C!harnessVars
<1>13. SIEVE!C!Next
    BY <1>10, <1>12 DEF SIEVE!C!Next, SIEVE!C!Spare
<1>14. SIEVE!NothingMoves
  <2>1. SIEVE!Ages = VAges(resident, XNames(keys, s))
    BY <1>2, VOrder
  <2>2. VList(list', s)
    BY <1>1, <1>2 DEF VHolds
  <2>3. SIEVE!Ages' = VAges(resident', XNames(keys', s))
    BY <2>2, VAgesNext
  <2>4. SIEVE!Ages' = SIEVE!Ages
    BY <2>1, <2>3, <1>1
  <2>5. QED
    BY <2>4 DEF SIEVE!NothingMoves
<1>15. QED
    BY <1>9, <1>13, <1>14

(* SIEVE: the hand leaves the slot before it is unlinked and given back. *)
LEMMA VEvicts ==
    ASSUME VInv, SIEVE!Evict
    PROVE  VInv' /\ SIEVE!C!Next /\ SIEVE!NothingMoves
<1> DEFINE x == SIEVE!Examined
           v == keys[x]
<1>1. /\ x # XNil /\ ~ visited[x] /\ Cardinality(resident) > Capacity
      /\ resident' = resident \ {v} /\ event' = [op |-> "evict", key |-> v]
      /\ keys' = XCut(keys, x) /\ index' = XCut(index, v) /\ free' = Append(free, x)
      /\ hand' = list.newer[x] /\ cursor' = XNil /\ list' = SIEVE!Without(x)
      /\ visited' = visited
    BY VWords DEF SIEVE!Evict, SIEVE!Discard, SIEVE!ReleaseSlot, SIEVE!Newer, XCut
<1>2. PICK s : VHolds(s)
    BY DEF VInv
<1>3. x \in Range(s) /\ x \in DOMAIN keys
    BY <1>1, <1>2, VExamined
<1>4. /\ XTable(index, keys, free, resident) /\ XBitmap(visited)
      /\ XChain(list.older, list.newer, list.newest, list.oldest, XNil, s)
      /\ VList(list, s)
      /\ Range(s) = DOMAIN keys /\ v = keys[x]
    BY <1>2 DEF VInv, VHolds, VList
<1>5. /\ s \in Seq(XSlots) /\ IsInjective(s)
      /\ XFit(keys, Range(s), FewKeys)
      /\ \A t, u \in Range(s) : keys[t] = keys[u] => t = u
      /\ SIEVE!Ages = VAges(resident, XNames(keys, s))
    BY <1>2, VOrder
<1> HIDE DEF x, v
<1>6. XNear(s, x, list.newer[x]) /\ x \in XSlots
    BY <1>3, <1>4, XNeighbours
<1>7. XGiven(index, keys, free, resident, x)
    BY <1>3, <1>4, XGives
<1>8. /\ v \in resident
      /\ DOMAIN keys' = DOMAIN keys \ {x}
      /\ \A t \in DOMAIN keys \ {x} : keys'[t] = keys[t]
      /\ XTable(index', keys', free', resident')
    BY <1>1, <1>4, <1>7 DEF XGiven
<1>9. VList(list', Remove(s, x))
    BY <1>1, <1>3, <1>4, VUnlinks
<1>10. Remove(s, x) \in Seq(XSlots) /\ Range(Remove(s, x)) = Range(s) \ {x}
    BY <1>5, Leave
<1>11. \E z : VList(list', z) /\ Range(z) = DOMAIN keys'
    BY <1>4, <1>8, <1>9, <1>10
<1>12. Held(FewKeys, Capacity)' /\ Counted(FewKeys)'
  <2>1. Capacity + 1 \in Nat /\ IsFiniteSet(resident) /\ Cardinality(resident) \in 0 .. Capacity + 1
    BY CapacityAssumption DEF VInv, Held
  <2>2. IsFiniteSet(resident') /\ Cardinality(resident') \in 0 .. Capacity + 1
    BY <2>1, <1>1, OneGoes
  <2>3. QED
    BY <2>2, <1>1, <1>8 DEF VInv, Held, Counted
<1>13. /\ {hand', cursor'} \subseteq DOMAIN keys' \cup {XNil}
       /\ cursor' # XNil => Cardinality(resident') > Capacity
    BY <1>1, <1>4, <1>6, <1>8 DEF XNear
<1>14. VInv'
  <2>1. XBitmap(visited')
    BY <1>1, <1>4
  <2>2. QED
    BY <2>1, <1>8, <1>11, <1>12, <1>13 DEF VInv, VHolds
<1>15. XBitsStay(index, visited, XCut(index, v), visited)
    BY <1>1, <1>3, <1>4, XBitGoes
<1>16. v \notin XBits(index, visited)
  <2>1. index[v] = x
    BY <1>3, <1>4 DEF XTable
  <2>2. QED
    BY <2>1, <1>1 DEF XBits
<1>17. SIEVE!C!Evict(v)
  <2>1. SIEVE!C!Discard(v)
    BY <1>1, VWords DEF SIEVE!C!Discard
  <2>2. QED
    BY <2>1, <1>1, <1>8, <1>15, <1>16 DEF SIEVE!C!Evict, XBits, XBitsStay
<1>18. SIEVE!C!Next
  <2>1. v \in FewKeys
    BY <1>8 DEF VInv, Held
  <2>2. QED
    BY <2>1, <1>17 DEF SIEVE!C!Next
<1>19. SIEVE!NothingMoves
  <2> DEFINE u == XNames(keys, s)
  <2>1. IsInjective(u) /\ XNames(keys, Remove(s, x)) = Remove(u, v)
    BY <1>3, <1>4, <1>5, XNamesRemove
  <2>2. XNames(keys', Remove(s, x)) = XNames(keys, Remove(s, x))
    BY <1>4, <1>8, <1>10, XNamesSame
  <2>3. SIEVE!Ages' = VAges(resident', XNames(keys', Remove(s, x)))
    BY <1>9, VAgesNext
  <2>4. u \in Seq(FewKeys) /\ v \in Range(u)
    <3>1. /\ u \in Seq(FewKeys) /\ Len(u) = Len(s)
          /\ \A i \in 1..Len(s) : u[i] = keys[s[i]]
        BY <1>5, XNamed
    <3>2. PICK p \in 1..Len(s) : x = s[p]
        BY <1>3, <1>5, LineElements
    <3>3. u[p] = v /\ p \in 1..Len(u)
        BY <3>1, <3>2, <1>4
    <3> HIDE DEF u
    <3>4. QED
        BY <3>1, <3>3, LineElements
  <2> HIDE DEF u
  <2>5. v \notin resident'
    BY <1>1
  <2>6. VKept(resident, resident', u, Remove(u, v))
    BY <2>1, <2>4, <2>5, VPulled
  <2>7. SIEVE!Ages' = VAges(resident', Remove(u, v))
    BY <2>1, <2>2, <2>3
  <2>8. SIEVE!Ages = VAges(resident, u)
    BY <1>5 DEF u
  <2>9. QED
    BY <2>6, <2>7, <2>8, VSettles
<1>20. QED
    BY <1>14, <1>18, <1>19

(* SIEVE: every step keeps the invariant, is one of the bits, and moves no *)
(* one.                                                                    *)
LEMMA VStep ==
    ASSUME VInv, SIEVE!Next
    PROVE  VInv' /\ SIEVE!C!Next /\ SIEVE!NothingMoves
BY VHits, VMisses, VSpares, VEvicts DEF SIEVE!Next

(* SIEVE: the constructor, too. *)
LEMMA VStart == SIEVE!Init => VInv /\ SIEVE!C!Init
<1>1. SUFFICES ASSUME SIEVE!Init PROVE VInv /\ SIEVE!C!Init
    OBVIOUS
<1> DEFINE f == [s \in XSlots |-> XNil]
<1>2. /\ resident = {} /\ event = [op |-> "none"] /\ DOMAIN index = {}
      /\ visited = [s \in XSlots |-> FALSE] /\ hand = XNil /\ cursor = XNil
      /\ list = [newer |-> f, older |-> f, newest |-> XNil, oldest |-> XNil]
    BY <1>1, VWords DEF SIEVE!Init, SIEVE!HarnessInit, SIEVE!TableInit, SIEVE!EmptyList
<1>3. XTable(index, keys, free, resident) /\ DOMAIN keys = {}
    BY <1>1, <1>2, XStarts DEF SIEVE!Init, SIEVE!TableInit
<1>4. VList(list, <<>>)
  <2>1. XChain(f, f, XNil, XNil, XNil, <<>>)
    BY XEmpty
  <2> HIDE DEF f
  <2>2. QED
    BY <2>1, <1>2, VMade
<1>5. Held(FewKeys, Capacity) /\ Counted(FewKeys)
  <2>1. IsFiniteSet({}) /\ Cardinality({}) = 0 /\ Capacity + 1 \in Nat
    BY FS_EmptySet, CapacityAssumption
  <2>2. QED
    BY <1>2, <2>1 DEF Held, Counted
<1>6. VHolds(<<>>)
    BY <1>3, <1>4, EmptySeq DEF VHolds, Range
<1>7. VInv
    BY <1>2, <1>3, <1>5, <1>6 DEF VInv, XBitmap
<1>8. SIEVE!C!Init
    BY <1>2 DEF SIEVE!C!Init, SIEVE!C!HarnessInit
<1>9. QED
    BY <1>7, <1>8

(* SIEVE: what the invariant gives. *)
LEMMA VTyped == VInv => SIEVE!TypeOK /\ SIEVE!LinksAgree /\ SIEVE!HandIsHeld
<1>1. SUFFICES ASSUME VInv PROVE SIEVE!TypeOK /\ SIEVE!LinksAgree /\ SIEVE!HandIsHeld
    OBVIOUS
<1>2. PICK s : VHolds(s)
    BY <1>1 DEF VInv
<1>3. /\ s \in Seq(XSlots) /\ IsInjective(s) /\ Range(s) = DOMAIN keys
      /\ list \in VRecord
      /\ XChain(list.older, list.newer, list.newest, list.oldest, XNil, s)
      /\ list.older \in XLinks /\ list.newer \in XLinks
    BY <1>2 DEF VHolds, VList, XChain
<1>4. SIEVE!HarnessTypeOK
    BY <1>1, VCardinality, CapacityAssumption DEF VInv, Held, Counted, SIEVE!HarnessTypeOK
<1>5. SIEVE!TableOK
    BY <1>1, VWords DEF VInv, XTable, SIEVE!TableOK
<1>6. \A y \in XSlots : list.older[y] \in XSlots \cup {XNil} /\ list.newer[y] \in XSlots \cup {XNil}
  <2>1. SUFFICES ASSUME NEW y \in XSlots
                 PROVE  list.older[y] \in XSlots \cup {XNil} /\ list.newer[y] \in XSlots \cup {XNil}
    OBVIOUS
  <2>2. CASE y \in Range(s)
    <3>1. XNear(s, y, list.older[y]) /\ XNear(s, y, list.newer[y]) /\ Range(s) \subseteq XSlots
        BY <2>2, <1>3, XNeighbours, XEndsOn
    <3>2. QED
        BY <3>1 DEF XNear
  <2>3. CASE y \notin Range(s)
    BY <2>3, <1>3 DEF XChain
  <2>4. QED
    BY <2>2, <2>3
<1>7. list \in [newer : [XSlots -> XSlots \cup {XNil}], older : [XSlots -> XSlots \cup {XNil}],
                newest : XSlots \cup {XNil}, oldest : XSlots \cup {XNil}]
  <2>1. list.older \in [XSlots -> XSlots \cup {XNil}] /\ list.newer \in [XSlots -> XSlots \cup {XNil}]
    BY <1>3, <1>6 DEF XLinks
  <2>2. QED
    BY <2>1, <1>3 DEF VRecord
<1>8. DOMAIN keys \subseteq XSlots
    BY <1>1 DEF VInv, XTable
<1>9. SIEVE!TypeOK
    BY <1>1, <1>4, <1>5, <1>7, <1>8, VWords DEF SIEVE!TypeOK, VInv, XBitmap
<1>10. SIEVE!Order = s
    BY <1>2, VStretches DEF VHolds, SIEVE!Order
<1>11. SIEVE!Threads(list.older, list.newer, s, SIEVE!Nil)
  <2>1. DOMAIN list.older = XSlots
    BY <1>3 DEF XLinks
  <2>2. QED
    BY <2>1, <1>3, VWords DEF SIEVE!Threads, XChain
<1>12. SIEVE!LinksAgree
  <2>1. s # <<>> => Last(s) = s[Len(s)]
    BY <1>3, LineElements
  <2>2. list.oldest = (IF s = <<>> THEN XNil ELSE s[Len(s)])
    BY <1>3 DEF XChain
  <2>3. QED
    BY <2>1, <2>2, <1>3, <1>10, <1>11, VWords DEF SIEVE!LinksAgree
<1>13. SIEVE!HandIsHeld
    BY <1>1, VWords DEF SIEVE!HandIsHeld, VInv
<1>14. QED
    BY <1>9, <1>12, <1>13

-----------------------------------------------------------------------------
(* 2Q *)
LEMMA QCardinality == \A S : Q!Cardinality(S) = Cardinality(S)
BY Zenon DEF Q!Cardinality, Cardinality

(* 2Q's operators are those of this module. *)
LEMMA QWords ==
    /\ \A s : Q!Range(s) = Range(s) /\ (Q!IsInjective(s) <=> IsInjective(s))
    /\ \A s : Q!Front(s) = Front(s) /\ Q!Last(s) = Last(s)
    /\ \A s, x : Q!Remove(s, x) = Remove(s, x)
    /\ Q!OverCapacity <=> Cardinality(resident) > Capacity
BY QCardinality DEF Q!Range, Range, Q!IsInjective, IsInjective, Q!Front, Front, Q!Last, Last,
   Q!Remove, Remove, Q!WithoutAt, WithoutAt, Q!OverCapacity

(* Every key of Am missed twice; every key in A1in or remembered, once.    *)
QInv ==
    /\ Held(Keys, Capacity)
    /\ Counted(Keys)
    /\ a1in \in Seq(Keys) /\ IsInjective(a1in)
    /\ am \in Seq(Keys) /\ IsInjective(am)
    /\ a1out \in Seq(Keys) /\ IsInjective(a1out)
    /\ Range(a1in) \cap Range(am) = {}
    /\ Range(a1in) \cup Range(am) = resident
    /\ Range(a1out) \cap resident = {}
    /\ Len(a1out) <= KoutSize
    /\ missed \in [Keys -> 0..2]
    /\ \A k \in Range(am) : missed[k] = 2
    /\ \A k \in Range(a1in) \cup Range(a1out) : missed[k] \in 1..2

(* 2Q: what is assumed of the two queues' sizes. *)
LEMMA QShares == Capacity \in Nat \ {0} /\ KinSize \in 1..Capacity /\ KoutSize \in 1..Capacity
BY CapacityAssumption, PoliciesAreBuilt DEF Q!SharesAssumption

(* A hit leaves A1in alone, and moves a key of Am to the front of it. *)
LEMMA QHits ==
    ASSUME QInv, NEW k \in Keys, Q!HitAdmission(k) \/ Q!HitMain(k)
    PROVE  QInv' /\ Len(am') = Len(am)
<1>1. k \in resident /\ resident' = resident /\ Counted(Keys)'
    BY DEF Q!HitAdmission, Q!HitMain, Q!LookupHits, Counted
<1>2. a1in' = a1in /\ a1out' = a1out /\ missed' = missed
    BY DEF Q!HitAdmission, Q!HitMain
<1>3. CASE Q!HitAdmission(k)
  <2>1. am' = am
    BY <1>3 DEF Q!HitAdmission
  <2>2. QED
    BY <1>1, <1>2, <2>1 DEF QInv, Held
<1>4. CASE Q!HitMain(k)
  <2>1. k \in Range(am) /\ am' = <<k>> \o Remove(am, k)
    BY <1>4, QWords DEF Q!HitMain, Q!MoveToMainHead
  <2>2. /\ Remove(am, k) \in Seq(Keys) /\ IsInjective(Remove(am, k))
        /\ Range(Remove(am, k)) = Range(am) \ {k}
        /\ Len(Remove(am, k)) = Len(am) - 1
    BY <2>1, Leave DEF QInv
  <2>3. /\ am' \in Seq(Keys) /\ IsInjective(am')
        /\ Range(am') = Range(am) /\ Len(am') = (Len(am) - 1) + 1
    <3>1. k \notin Range(Remove(am, k)) /\ (Range(am) \ {k}) \cup {k} = Range(am)
        BY <2>1, <2>2
    <3> DEFINE rest == Remove(am, k)
    <3>2. rest \in Seq(Keys) /\ IsInjective(rest) /\ k \notin Range(rest)
        BY <2>2, <3>1
    <3> HIDE DEF rest
    <3>3. /\ <<k>> \o rest \in Seq(Keys) /\ IsInjective(<<k>> \o rest)
          /\ Range(<<k>> \o rest) = Range(rest) \cup {k}
          /\ Len(<<k>> \o rest) = Len(rest) + 1
        BY <3>2, JoinFront
    <3>4. QED
        BY <2>1, <2>2, <3>1, <3>3 DEF rest
  <2>4. Len(am) \in Nat
    BY LenProperties DEF QInv
  <2>5. QED
    BY <1>1, <1>2, <2>3, <2>4 DEF QInv, Held
<1>5. QED
    BY <1>3, <1>4

(* A miss goes to Am when its key is remembered, and to A1in when it is not. *)
LEMMA QMisses ==
    ASSUME QInv, NEW k \in Keys, Q!MissGhost(k) \/ Q!MissNew(k)
    PROVE  QInv' /\ Len(am') >= Len(am)
<1>1. /\ ~ (Cardinality(resident) > Capacity) /\ k \notin resident
      /\ resident' = resident \cup {k} /\ Counted(Keys)'
      /\ missed' = [missed EXCEPT ![k] = IF @ < 2 THEN @ + 1 ELSE @]
    BY QWords DEF Q!MissGhost, Q!MissNew, Q!LookupMisses, Q!CountMiss, Counted
<1>2. Held(Keys, Capacity)'
  <2>1. Cardinality(resident) <= Capacity /\ Capacity \in Nat
    BY <1>1, QShares DEF QInv, Held
  <2>2. QED
    BY <1>1, <2>1, OneComes DEF QInv, Held
<1>3. /\ missed' \in [Keys -> 0..2]
      /\ missed'[k] = IF missed[k] < 2 THEN missed[k] + 1 ELSE missed[k]
      /\ \A x \in Keys \ {k} : missed'[x] = missed[x]
    BY <1>1 DEF QInv
<1>4. /\ Range(a1in) \subseteq Keys /\ Range(am) \subseteq Keys /\ Range(a1out) \subseteq Keys
      /\ Len(am) \in Nat /\ Len(a1out) \in Nat
    BY LineElements DEF QInv
<1>5. k \notin Range(a1in) /\ k \notin Range(am)
    BY <1>1 DEF QInv
<1>6. CASE Q!MissGhost(k)
  <2>1. /\ k \in Range(a1out) /\ a1out' = Remove(a1out, k)
        /\ am' = <<k>> \o am /\ a1in' = a1in
    BY <1>6, QWords DEF Q!MissGhost, Q!Forget
  <2>2. /\ a1out' \in Seq(Keys) /\ IsInjective(a1out')
        /\ Range(a1out') = Range(a1out) \ {k}
        /\ Len(a1out') = Len(a1out) - 1
    BY <2>1, Leave DEF QInv
  <2>3. /\ am' \in Seq(Keys) /\ IsInjective(am')
        /\ Range(am') = Range(am) \cup {k} /\ Len(am') = Len(am) + 1
    BY <2>1, <1>5, JoinFront DEF QInv
  <2>4. missed'[k] = 2
    BY <1>3, <2>1 DEF QInv
  <2>5. Len(a1out') <= KoutSize /\ Len(am') >= Len(am)
    BY <2>2, <2>3, <1>4, QShares DEF QInv
  <2>6. \A x \in Range(am') : missed'[x] = 2
    BY <2>3, <2>4, <1>3, <1>4 DEF QInv
  <2>7. \A x \in Range(a1in') \cup Range(a1out') : missed'[x] \in 1..2
    BY <2>1, <2>2, <1>3, <1>4, <1>5 DEF QInv
  <2>8. /\ Range(a1in') \cap Range(am') = {}
        /\ Range(a1in') \cup Range(am') = resident'
        /\ Range(a1out') \cap resident' = {}
    BY <1>1, <1>5, <2>1, <2>2, <2>3 DEF QInv
  <2>9. QED
    BY <1>1, <1>2, <1>3, <2>1, <2>2, <2>3, <2>5, <2>6, <2>7, <2>8 DEF QInv
<1>7. CASE Q!MissNew(k)
  <2>1. /\ k \notin Range(a1out) /\ a1in' = Append(a1in, k)
        /\ am' = am /\ a1out' = a1out
    BY <1>7, QWords DEF Q!MissNew
  <2>2. /\ a1in' \in Seq(Keys) /\ IsInjective(a1in')
        /\ Range(a1in') = Range(a1in) \cup {k}
    BY <2>1, <1>5, JoinBack DEF QInv
  <2>3. missed'[k] \in 1..2
    BY <1>3 DEF QInv
  <2>4. \A x \in Range(am') : missed'[x] = 2
    BY <2>1, <1>3, <1>4, <1>5 DEF QInv
  <2>5. \A x \in Range(a1in') \cup Range(a1out') : missed'[x] \in 1..2
    BY <2>1, <2>2, <2>3, <1>3, <1>4 DEF QInv
  <2>6. /\ Range(a1in') \cap Range(am') = {}
        /\ Range(a1in') \cup Range(am') = resident'
        /\ Range(a1out') \cap resident' = {}
    BY <1>1, <1>5, <2>1, <2>2 DEF QInv
  <2>7. QED
    BY <1>1, <1>2, <1>3, <1>4, <2>1, <2>2, <2>4, <2>5, <2>6 DEF QInv
<1>8. QED
    BY <1>6, <1>7

(* An evict() from Am leaves Am with its share at least. *)
LEMMA QEvicts ==
    ASSUME QInv, Q!EvictAdmission \/ Q!EvictMain
    PROVE  QInv' /\ (Len(am') < Len(am) => Len(am') >= Capacity - KinSize)
<1>1. /\ Len(am) \in Nat /\ Len(a1in) \in Nat /\ Len(a1out) \in Nat
      /\ Range(a1in) \subseteq Keys /\ Range(am) \subseteq Keys /\ Range(a1out) \subseteq Keys
      /\ a1in = <<>> <=> Len(a1in) = 0
      /\ am = <<>> <=> Len(am) = 0
    BY LineElements DEF QInv
<1>2. Cardinality(resident) = Len(a1in) + Len(am)
    BY Between DEF QInv
<1>3. Cardinality(resident) > Capacity
    BY QWords DEF Q!EvictAdmission, Q!EvictMain, Q!Discard
<1>4. CASE Q!EvictAdmission
  <2> DEFINE k == Head(a1in)
             old == IF Len(a1out) = KoutSize THEN Front(a1out) ELSE a1out
  <2>1. /\ a1in # <<>> /\ resident' = resident \ {k}
        /\ event' = [op |-> "evict", key |-> k]
        /\ a1in' = Tail(a1in) /\ a1out' = <<k>> \o old
        /\ am' = am /\ missed' = missed
    BY <1>4, QWords DEF Q!EvictAdmission, Q!TakeFromAdmission, Q!Discard, Q!Remember
  <2>2. /\ a1in' \in Seq(Keys) /\ IsInjective(a1in')
        /\ Range(a1in') = Range(a1in) \ {k} /\ k \in Range(a1in)
    BY <2>1, LeaveFront DEF QInv
  <2>3. k \in resident /\ k \in Keys /\ k \notin Range(am) /\ k \notin Range(a1out)
    BY <2>2, <1>1 DEF QInv
  <2>4. /\ old \in Seq(Keys) /\ IsInjective(old) /\ Range(old) \subseteq Range(a1out)
        /\ Len(old) <= KoutSize - 1 /\ Len(old) \in Nat
    <3>1. CASE Len(a1out) = KoutSize
      <4>1. a1out # <<>>
        BY <3>1, QShares, EmptySeq DEF QInv
      <4>2. /\ Front(a1out) \in Seq(Keys) /\ IsInjective(Front(a1out))
            /\ Range(Front(a1out)) = Range(a1out) \ {Last(a1out)}
            /\ Len(Front(a1out)) = Len(a1out) - 1
        BY <4>1, LeaveBack DEF QInv
      <4>3. QED
        BY <3>1, <4>2, QShares
    <3>2. CASE Len(a1out) # KoutSize
        BY <3>2, <1>1, QShares DEF QInv
    <3>3. QED
        BY <3>1, <3>2
  <2> HIDE DEF k, old
  <2>5. /\ a1out' \in Seq(Keys) /\ IsInjective(a1out')
        /\ Range(a1out') = Range(old) \cup {k}
        /\ Len(a1out') = Len(old) + 1
    BY <2>1, <2>3, <2>4, JoinFront
  <2>6. Held(Keys, Capacity)'
    <3>1. Capacity + 1 \in Nat
        BY QShares
    <3>2. QED
        BY <2>1, <3>1, OneGoes DEF QInv, Held
  <2>7. Counted(Keys)'
    BY <2>1, <2>3 DEF Counted
  <2>8. Len(a1out') <= KoutSize
    BY <2>4, <2>5, QShares
  <2>9. /\ Range(a1in') \cap Range(am') = {}
        /\ Range(a1in') \cup Range(am') = resident'
        /\ Range(a1out') \cap resident' = {}
    BY <2>1, <2>2, <2>3, <2>4, <2>5 DEF QInv
  <2>10. \A x \in Range(a1in') \cup Range(a1out') : missed'[x] \in 1..2
    BY <2>1, <2>2, <2>4, <2>5 DEF QInv
  <2>11. QInv'
    BY <2>1, <2>2, <2>5, <2>6, <2>7, <2>8, <2>9, <2>10 DEF QInv
  <2>12. QED
    BY <2>1, <2>11, <1>1
<1>5. CASE Q!EvictMain
  <2> DEFINE k == Last(am)
  <2>1. /\ am # <<>> /\ resident' = resident \ {k}
        /\ event' = [op |-> "evict", key |-> k]
        /\ am' = Front(am)
        /\ a1in' = a1in /\ a1out' = a1out /\ missed' = missed
        /\ a1in = <<>> \/ ~ (Len(a1in) > KinSize)
    BY <1>5, QWords DEF Q!EvictMain, Q!TakeFromAdmission, Q!Discard
  <2>2. /\ am' \in Seq(Keys) /\ IsInjective(am')
        /\ Range(am') = Range(am) \ {k} /\ k \in Range(am)
        /\ Len(am') = Len(am) - 1
    BY <2>1, LeaveBack DEF QInv
  <2> HIDE DEF k
  <2>3. k \in Keys /\ k \notin Range(a1in)
    BY <2>2, <1>1 DEF QInv
  <2>4. Held(Keys, Capacity)'
    <3>1. Capacity + 1 \in Nat
        BY QShares
    <3>2. QED
        BY <2>1, <3>1, OneGoes DEF QInv, Held
  <2>5. Counted(Keys)'
    BY <2>1, <2>3 DEF Counted
  <2>6. /\ Range(a1in') \cap Range(am') = {}
        /\ Range(a1in') \cup Range(am') = resident'
        /\ Range(a1out') \cap resident' = {}
    BY <2>1, <2>2, <2>3 DEF QInv
  <2>7. QInv'
    BY <2>1, <2>2, <2>4, <2>5, <2>6 DEF QInv
  <2>8. Len(a1in) <= KinSize
    BY <2>1, <1>1, QShares
  <2>9. QED
    BY <2>2, <2>7, <2>8, <1>1, <1>2, <1>3, QShares
<1>6. QED
    BY <1>4, <1>5

(* Every call keeps the invariant, and main its share. *)
LEMMA QStep ==
    ASSUME QInv, Q!Next
    PROVE  QInv' /\ Q!MainKeepsItsShare
<1>1. Len(am) \in Nat
    BY LenProperties DEF QInv
<1>2. ASSUME NEW k \in Keys, Q!HitAdmission(k) \/ Q!HitMain(k) \/ Q!MissGhost(k) \/ Q!MissNew(k)
      PROVE  QInv' /\ Q!MainKeepsItsShare
  <2>1. QInv' /\ Len(am') >= Len(am)
    BY <1>1, <1>2, QHits, QMisses
  <2>2. Len(am') \in Nat
    BY <2>1, LenProperties DEF QInv
  <2>3. QED
    BY <2>1, <2>2, <1>1 DEF Q!MainKeepsItsShare
<1>3. ASSUME Q!EvictAdmission \/ Q!EvictMain
      PROVE  QInv' /\ Q!MainKeepsItsShare
    BY <1>3, QEvicts DEF Q!MainKeepsItsShare
<1>4. QED
    BY <1>2, <1>3 DEF Q!Next

(* The constructor establishes the invariant. *)
LEMMA QStart == Q!Init => QInv
<1>1. SUFFICES ASSUME Q!Init PROVE QInv
    OBVIOUS
<1>2. <<>> \in Seq(Keys) /\ IsInjective(<<>>) /\ Range(<<>>) = {} /\ Len(<<>>) = 0
    BY EmptySeq DEF IsInjective, Range
<1>3. IsFiniteSet({}) /\ Cardinality({}) = 0
    BY FS_EmptySet
<1>4. QED
    BY <1>1, <1>2, <1>3, QShares DEF Q!Init, Q!HarnessInit, QInv, Held, Counted

(* What the invariant gives. *)
LEMMA QTyped == QInv => Q!TypeOK /\ Q!MainIsEarned
<1>1. SUFFICES ASSUME QInv PROVE Q!TypeOK /\ Q!MainIsEarned
    OBVIOUS
<1>2. Q!HarnessTypeOK
    BY <1>1, QCardinality, QShares DEF QInv, Held, Counted, Q!HarnessTypeOK
<1>3. /\ a1in \o am \in Seq(Keys) /\ IsInjective(a1in \o am)
      /\ Range(a1in \o am) = resident
  <2>1. /\ a1in \in Seq(Keys) /\ IsInjective(a1in)
        /\ am \in Seq(Keys) /\ IsInjective(am)
        /\ Range(a1in) \cap Range(am) = {}
        /\ Range(a1in) \cup Range(am) = resident
    BY <1>1 DEF QInv
  <2>2. QED
    BY <2>1, LinesTogether
<1>4. IsInjective((a1in \o am) \o a1out)
    BY <1>1, <1>3, LinesTogether DEF QInv
<1>5. Range(a1out) \subseteq Keys
    BY <1>1, LineElements DEF QInv
<1>6. QED
    BY <1>1, <1>2, <1>3, <1>4, <1>5, QWords DEF QInv, Q!TypeOK, Q!MainIsEarned

-----------------------------------------------------------------------------
(* S3-FIFO *)
LEMMA SCardinality == \A S : S3!Cardinality(S) = Cardinality(S)
BY Zenon DEF S3!Cardinality, Cardinality

(* S3-FIFO's operators are those of this module. *)
LEMMA SWords ==
    /\ \A s : S3!Range(s) = Range(s) /\ (S3!IsInjective(s) <=> IsInjective(s))
    /\ \A s : S3!Front(s) = Front(s) /\ S3!Last(s) = Last(s)
    /\ \A s, x : S3!Remove(s, x) = Remove(s, x)
    /\ S3!OverCapacity <=> Cardinality(resident) > Capacity
BY SCardinality DEF S3!Range, Range, S3!IsInjective, IsInjective, S3!Front, Front, S3!Last, Last,
   S3!Remove, Remove, S3!WithoutAt, WithoutAt, S3!OverCapacity

(* In the middle of an evict() the cache is over capacity, and main is     *)
(* only asked when small is short of its share.                            *)
SInv ==
    /\ Held(Keys, Capacity)
    /\ Counted(Keys)
    /\ small \in Seq(Keys) /\ IsInjective(small)
    /\ main \in Seq(Keys) /\ IsInjective(main)
    /\ ghosts \in Seq(Keys) /\ IsInjective(ghosts)
    /\ Range(small) \cap Range(main) = {}
    /\ Range(small) \cup Range(main) = resident
    /\ Range(ghosts) \cap resident = {}
    /\ Len(ghosts) <= Capacity - SmallSize
    /\ frequency \in [resident -> 0..3]
    /\ phase \in {"idle", "small", "main"}
    /\ phase # "idle" => Cardinality(resident) > Capacity
    /\ phase = "main" => Len(small) < SmallSize

(* S3-FIFO: what is assumed of the queues' sizes. *)
LEMMA SShares == /\ Capacity \in Nat \ {0} /\ SmallSize \in 1 .. Capacity - 1
                 /\ S3!MainSize = Capacity - SmallSize /\ S3!GhostSize = Capacity - SmallSize
                 /\ Capacity - SmallSize \in Nat \ {0}
                 /\ S3!MaxFrequency = 3
<1>1. Capacity \in Nat \ {0} /\ SmallSize \in 1 .. Capacity - 1
    BY CapacityAssumption, PoliciesAreBuilt DEF S3!SmallAssumption
<1>2. QED
    BY <1>1 DEF S3!MainSize, S3!GhostSize, S3!MaxFrequency

(* S3-FIFO: the lengths of the queues, and what main holds when it is asked. *)
LEMMA SSizes ==
    ASSUME SInv
    PROVE  /\ Len(small) \in Nat /\ Len(main) \in Nat /\ Len(ghosts) \in Nat
           /\ Cardinality(resident) = Len(small) + Len(main)
           /\ Range(small) \subseteq Keys /\ Range(main) \subseteq Keys
           /\ Range(ghosts) \subseteq Keys
           /\ small = <<>> <=> Len(small) = 0
           /\ main = <<>> <=> Len(main) = 0
           /\ phase = "main" => Len(main) > Capacity - SmallSize + 1
<1>1. /\ Len(small) \in Nat /\ Len(main) \in Nat /\ Len(ghosts) \in Nat
      /\ Range(small) \subseteq Keys /\ Range(main) \subseteq Keys
      /\ Range(ghosts) \subseteq Keys
      /\ small = <<>> <=> Len(small) = 0
      /\ main = <<>> <=> Len(main) = 0
    BY LineElements DEF SInv
<1>2. Cardinality(resident) = Len(small) + Len(main)
    BY Between DEF SInv
<1>3. phase = "main" => Len(main) > Capacity - SmallSize + 1
    BY <1>1, <1>2, SShares DEF SInv
<1>4. QED
    BY <1>1, <1>2, <1>3

(* A hit only counts, up to 3. *)
LEMMA SHits ==
    ASSUME SInv, NEW k \in Keys, S3!Hit(k)
    PROVE  SInv' /\ main' = main
<1>1. /\ k \in resident /\ resident' = resident /\ Counted(Keys)'
      /\ frequency' = [frequency EXCEPT ![k] = IF @ < 3 THEN @ + 1 ELSE @]
      /\ UNCHANGED <<small, main, ghosts, phase>>
    BY SShares DEF S3!Hit, S3!LookupHits, Counted
<1>2. frequency' \in [resident -> 0..3]
    BY <1>1 DEF SInv
<1>3. QED
    BY <1>1, <1>2 DEF SInv, Held

(* A miss goes to main when its key is remembered, and to small when it is *)
(* not.                                                                    *)
LEMMA SMisses ==
    ASSUME SInv, NEW k \in Keys, S3!MissGhost(k) \/ S3!MissNew(k)
    PROVE  SInv' /\ Len(main') >= Len(main)
<1>1. /\ ~ (Cardinality(resident) > Capacity) /\ k \notin resident
      /\ resident' = resident \cup {k} /\ Counted(Keys)'
      /\ frequency' = S3!With(frequency, k, 0)
      /\ phase' = phase
    BY SWords DEF S3!MissGhost, S3!MissNew, S3!LookupMisses, Counted
<1>2. Held(Keys, Capacity)'
  <2>1. Cardinality(resident) <= Capacity /\ Capacity \in Nat
    BY <1>1, SShares DEF SInv, Held
  <2>2. QED
    BY <1>1, <2>1, OneComes DEF SInv, Held
<1>3. frequency' \in [resident' -> 0..3]
    BY <1>1 DEF SInv, S3!With
<1>4. phase = "idle"
    BY <1>1 DEF SInv
<1>5. k \notin Range(small) /\ k \notin Range(main)
    BY <1>1 DEF SInv
<1>6. CASE S3!MissGhost(k)
  <2>1. /\ k \in Range(ghosts) /\ ghosts' = Remove(ghosts, k)
        /\ main' = Append(main, k) /\ small' = small
    BY <1>6, SWords DEF S3!MissGhost, S3!Forget
  <2>2. /\ ghosts' \in Seq(Keys) /\ IsInjective(ghosts')
        /\ Range(ghosts') = Range(ghosts) \ {k}
        /\ Len(ghosts') = Len(ghosts) - 1
    BY <2>1, Leave DEF SInv
  <2>3. /\ main' \in Seq(Keys) /\ IsInjective(main')
        /\ Range(main') = Range(main) \cup {k} /\ Len(main') = Len(main) + 1
    BY <2>1, <1>5, JoinBack DEF SInv
  <2>4. Len(ghosts') <= Capacity - SmallSize /\ Len(main') >= Len(main)
    BY <2>2, <2>3, SSizes, SShares DEF SInv
  <2>5. /\ Range(small') \cap Range(main') = {}
        /\ Range(small') \cup Range(main') = resident'
        /\ Range(ghosts') \cap resident' = {}
    BY <1>1, <1>5, <2>1, <2>2, <2>3 DEF SInv
  <2>6. QED
    BY <1>1, <1>2, <1>3, <1>4, <2>1, <2>2, <2>3, <2>4, <2>5 DEF SInv
<1>7. CASE S3!MissNew(k)
  <2>1. /\ k \notin Range(ghosts) /\ small' = Append(small, k)
        /\ main' = main /\ ghosts' = ghosts
    BY <1>7, SWords DEF S3!MissNew
  <2>2. /\ small' \in Seq(Keys) /\ IsInjective(small')
        /\ Range(small') = Range(small) \cup {k}
    BY <2>1, <1>5, JoinBack DEF SInv
  <2>3. /\ Range(small') \cap Range(main') = {}
        /\ Range(small') \cup Range(main') = resident'
        /\ Range(ghosts') \cap resident' = {}
    BY <1>1, <1>5, <2>1, <2>2 DEF SInv
  <2>4. Len(main) \in Nat
    BY SSizes
  <2>5. QED
    BY <1>1, <1>2, <1>3, <1>4, <2>1, <2>2, <2>3, <2>4 DEF SInv
<1>8. QED
    BY <1>6, <1>7

(* A turn of evict() that spares or promotes a key takes none from main. *)
LEMMA STurns ==
    ASSUME SInv, S3!EvictCalled \/ S3!PromoteFromSmall \/ S3!SmallDrained \/ S3!SpareInMain
    PROVE  SInv' /\ Len(main') >= Len(main)
<1>0. Len(main) \in Nat /\ Len(small) \in Nat
    BY SSizes
<1>1. CASE S3!EvictCalled
  <2>1. /\ Cardinality(resident) > Capacity
        /\ phase' = IF Len(small) >= SmallSize THEN "small" ELSE "main"
        /\ UNCHANGED <<resident, event, small, main, ghosts, frequency>>
    BY <1>1, SWords DEF S3!EvictCalled, S3!SmallHasItsShare, S3!harnessVars
  <2>2. phase' = "main" => Len(small) < SmallSize
    BY <2>1, <1>0, SShares
  <2>3. QED
    BY <2>1, <2>2, <1>0 DEF SInv, Held, Counted
<1>2. CASE S3!PromoteFromSmall
  <2> DEFINE k == Head(small)
  <2>1. /\ phase = "small" /\ small # <<>>
        /\ small' = Tail(small) /\ main' = Append(main, k)
        /\ UNCHANGED <<resident, event, ghosts, frequency, phase>>
    BY <1>2 DEF S3!PromoteFromSmall, S3!harnessVars
  <2>2. /\ small' \in Seq(Keys) /\ IsInjective(small')
        /\ Range(small') = Range(small) \ {k} /\ k \in Range(small)
    BY <2>1, LeaveFront DEF SInv
  <2> HIDE DEF k
  <2>3. k \in Keys /\ k \notin Range(main)
    BY <2>2, SSizes DEF SInv
  <2>4. /\ main' \in Seq(Keys) /\ IsInjective(main')
        /\ Range(main') = Range(main) \cup {k} /\ Len(main') = Len(main) + 1
    BY <2>1, <2>3, JoinBack DEF SInv
  <2>5. /\ Range(small') \cap Range(main') = {}
        /\ Range(small') \cup Range(main') = resident'
    BY <2>1, <2>2, <2>3, <2>4 DEF SInv
  <2>6. QED
    BY <2>1, <2>2, <2>4, <2>5, <1>0 DEF SInv, Held, Counted
<1>3. CASE S3!SmallDrained
  <2>1. /\ phase = "small" /\ phase' = "main" /\ small = <<>>
        /\ UNCHANGED <<resident, event, small, main, ghosts, frequency>>
    BY <1>3 DEF S3!SmallDrained, S3!harnessVars
  <2>2. Len(small) < SmallSize
    BY <2>1, SSizes, SShares
  <2>3. QED
    BY <2>1, <2>2, <1>0 DEF SInv, Held, Counted
<1>4. CASE S3!SpareInMain
  <2> DEFINE k == Head(main)
             rest == Tail(main)
  <2>1. /\ phase = "main" /\ main # <<>> /\ frequency[k] > 0
        /\ main' = Append(rest, k)
        /\ frequency' = [frequency EXCEPT ![k] = @ - 1]
        /\ UNCHANGED <<resident, event, small, ghosts, phase>>
    BY <1>4 DEF S3!SpareInMain, S3!harnessVars
  <2>2. /\ rest \in Seq(Keys) /\ IsInjective(rest)
        /\ Range(rest) = Range(main) \ {k} /\ k \in Range(main)
        /\ Len(rest) = Len(main) - 1
    BY <2>1, LeaveFront DEF SInv
  <2> HIDE DEF k, rest
  <2>3. k \in Keys /\ k \in resident /\ k \notin Range(rest)
    BY <2>2, SSizes DEF SInv
  <2>4. /\ main' \in Seq(Keys) /\ IsInjective(main')
        /\ Range(main') = Range(rest) \cup {k} /\ Len(main') = Len(rest) + 1
    BY <2>1, <2>2, <2>3, JoinBack
  <2>5. Range(main') = Range(main) /\ Len(main') = Len(main)
    BY <2>2, <2>4, <1>0
  <2>6. frequency' \in [resident -> 0..3]
    BY <2>1, <2>3 DEF SInv
  <2>7. QED
    BY <2>1, <2>4, <2>5, <2>6, <1>0 DEF SInv, Held, Counted
<1>5. QED
    BY <1>1, <1>2, <1>3, <1>4

(* The turn that ends evict() leaves main with its share at least. *)
LEMMA SEvicts ==
    ASSUME SInv, S3!EvictFromSmall \/ S3!EvictFromMain
    PROVE  SInv' /\ (Len(main') < Len(main) => Len(main') >= Capacity - SmallSize)
<1>1. CASE S3!EvictFromSmall
  <2> DEFINE k == Head(small)
             old == IF Len(ghosts) = Capacity - SmallSize THEN Front(ghosts) ELSE ghosts
  <2>1. /\ small # <<>> /\ resident' = resident \ {k}
        /\ event' = [op |-> "evict", key |-> k]
        /\ small' = Tail(small) /\ ghosts' = <<k>> \o old
        /\ frequency' = [x \in DOMAIN frequency \ {k} |-> frequency[x]]
        /\ phase' = "idle" /\ main' = main
    BY <1>1, SWords, SShares DEF S3!EvictFromSmall, S3!Discard, S3!Remember, S3!Without
  <2>2. /\ small' \in Seq(Keys) /\ IsInjective(small')
        /\ Range(small') = Range(small) \ {k} /\ k \in Range(small)
    BY <2>1, LeaveFront DEF SInv
  <2>3. k \in resident /\ k \in Keys /\ k \notin Range(main) /\ k \notin Range(ghosts)
    BY <2>2, SSizes DEF SInv
  <2>4. /\ old \in Seq(Keys) /\ IsInjective(old) /\ Range(old) \subseteq Range(ghosts)
        /\ Len(old) <= Capacity - SmallSize - 1 /\ Len(old) \in Nat
    <3>1. CASE Len(ghosts) = Capacity - SmallSize
      <4>1. ghosts # <<>>
        BY <3>1, SShares, EmptySeq DEF SInv
      <4>2. /\ Front(ghosts) \in Seq(Keys) /\ IsInjective(Front(ghosts))
            /\ Range(Front(ghosts)) = Range(ghosts) \ {Last(ghosts)}
            /\ Len(Front(ghosts)) = Len(ghosts) - 1
        BY <4>1, LeaveBack DEF SInv
      <4>3. QED
        BY <3>1, <4>2, SShares
    <3>2. CASE Len(ghosts) # Capacity - SmallSize
      <4>1. Len(ghosts) \in Nat /\ Len(ghosts) <= Capacity - SmallSize
        BY SSizes DEF SInv
      <4>2. Len(ghosts) <= Capacity - SmallSize - 1
        BY <3>2, <4>1, SShares
      <4>3. QED
        BY <3>2, <4>1, <4>2 DEF SInv
    <3>3. QED
        BY <3>1, <3>2
  <2> HIDE DEF k, old
  <2>5. /\ ghosts' \in Seq(Keys) /\ IsInjective(ghosts')
        /\ Range(ghosts') = Range(old) \cup {k}
        /\ Len(ghosts') = Len(old) + 1
    BY <2>1, <2>3, <2>4, JoinFront
  <2>6. Held(Keys, Capacity)'
    <3>1. Capacity + 1 \in Nat
        BY SShares
    <3>2. QED
        BY <2>1, <3>1, OneGoes DEF SInv, Held
  <2>7. Counted(Keys)'
    BY <2>1, <2>3 DEF Counted
  <2>8. Len(ghosts') <= Capacity - SmallSize
    BY <2>4, <2>5, SShares
  <2>9. /\ Range(small') \cap Range(main') = {}
        /\ Range(small') \cup Range(main') = resident'
        /\ Range(ghosts') \cap resident' = {}
    BY <2>1, <2>2, <2>3, <2>4, <2>5 DEF SInv
  <2>10. frequency' \in [resident' -> 0..3]
    BY <2>1 DEF SInv
  <2>11. SInv'
    BY <2>1, <2>2, <2>5, <2>6, <2>7, <2>8, <2>9, <2>10 DEF SInv
  <2>12. Len(main) \in Nat
    BY SSizes
  <2>13. QED
    BY <2>1, <2>11, <2>12
<1>2. CASE S3!EvictFromMain
  <2> DEFINE k == Head(main)
  <2>1. /\ phase = "main" /\ main # <<>> /\ resident' = resident \ {k}
        /\ event' = [op |-> "evict", key |-> k]
        /\ main' = Tail(main)
        /\ frequency' = [x \in DOMAIN frequency \ {k} |-> frequency[x]]
        /\ phase' = "idle" /\ small' = small /\ ghosts' = ghosts
    BY <1>2, SWords DEF S3!EvictFromMain, S3!Discard, S3!Without
  <2>2. /\ main' \in Seq(Keys) /\ IsInjective(main')
        /\ Range(main') = Range(main) \ {k} /\ k \in Range(main)
        /\ Len(main') = Len(main) - 1
    BY <2>1, LeaveFront DEF SInv
  <2> HIDE DEF k
  <2>3. k \in Keys /\ k \notin Range(small)
    BY <2>2, SSizes DEF SInv
  <2>4. Held(Keys, Capacity)'
    <3>1. Capacity + 1 \in Nat
        BY SShares
    <3>2. QED
        BY <2>1, <3>1, OneGoes DEF SInv, Held
  <2>5. Counted(Keys)'
    BY <2>1, <2>3 DEF Counted
  <2>6. /\ Range(small') \cap Range(main') = {}
        /\ Range(small') \cup Range(main') = resident'
        /\ Range(ghosts') \cap resident' = {}
    BY <2>1, <2>2, <2>3 DEF SInv
  <2>7. frequency' \in [resident' -> 0..3]
    BY <2>1 DEF SInv
  <2>8. SInv'
    BY <2>1, <2>2, <2>4, <2>5, <2>6, <2>7 DEF SInv
  <2>9. Len(main) \in Nat /\ Len(main) > Capacity - SmallSize + 1
    BY <2>1, SSizes
  <2>10. QED
    BY <2>2, <2>8, <2>9, SShares
<1>3. QED
    BY <1>1, <1>2

(* Every turn of every call keeps the invariant, and main its share. *)
LEMMA SStep ==
    ASSUME SInv, S3!Next
    PROVE  SInv' /\ S3!MainKeepsItsShare
<1>1. Len(main) \in Nat
    BY SSizes
<1>2. ASSUME NEW k \in Keys, S3!Hit(k) \/ S3!MissGhost(k) \/ S3!MissNew(k)
      PROVE  SInv' /\ Len(main') >= Len(main)
    BY <1>1, <1>2, SHits, SMisses
<1>3. ASSUME SInv', Len(main') >= Len(main)
      PROVE  S3!MainKeepsItsShare
  <2>1. Len(main') \in Nat
    BY <1>3, LenProperties DEF SInv
  <2>2. QED
    BY <1>1, <1>3, <2>1 DEF S3!MainKeepsItsShare
<1>4. ASSUME S3!EvictFromSmall \/ S3!EvictFromMain
      PROVE  SInv' /\ S3!MainKeepsItsShare
    BY <1>4, SEvicts, SShares DEF S3!MainKeepsItsShare
<1>5. QED
    BY <1>2, <1>3, <1>4, STurns DEF S3!Next, S3!Evict

(* The constructor establishes the invariant. *)
LEMMA SStart == S3!Init => SInv
<1>1. SUFFICES ASSUME S3!Init PROVE SInv
    OBVIOUS
<1>2. <<>> \in Seq(Keys) /\ IsInjective(<<>>) /\ Range(<<>>) = {} /\ Len(<<>>) = 0
    BY EmptySeq DEF IsInjective, Range
<1>3. IsFiniteSet({}) /\ Cardinality({}) = 0
    BY FS_EmptySet
<1>4. QED
    BY <1>1, <1>2, <1>3, SShares DEF S3!Init, S3!HarnessInit, SInv, Held, Counted

(* What the invariant gives: main is never asked when it is empty. *)
LEMMA STyped == SInv => S3!TypeOK /\ S3!MainAnswers
<1>1. SUFFICES ASSUME SInv PROVE S3!TypeOK /\ S3!MainAnswers
    OBVIOUS
<1>2. S3!HarnessTypeOK
    BY <1>1, SCardinality, SShares DEF SInv, Held, Counted, S3!HarnessTypeOK
<1>3. /\ small \o main \in Seq(Keys) /\ IsInjective(small \o main)
      /\ Range(small \o main) = resident
  <2>1. /\ small \in Seq(Keys) /\ IsInjective(small)
        /\ main \in Seq(Keys) /\ IsInjective(main)
        /\ Range(small) \cap Range(main) = {}
        /\ Range(small) \cup Range(main) = resident
    BY <1>1 DEF SInv
  <2>2. QED
    BY <2>1, LinesTogether
<1>4. IsInjective((small \o main) \o ghosts)
    BY <1>1, <1>3, LinesTogether DEF SInv
<1>5. S3!MainAnswers
    BY <1>1, SSizes, SShares DEF S3!MainAnswers
<1>6. QED
    BY <1>1, <1>2, <1>3, <1>4, <1>5, SWords, SShares DEF SInv, S3!TypeOK

-----------------------------------------------------------------------------
(* W-TinyLFU *)
LEMMA TCardinality == \A S : TINY!Cardinality(S) = Cardinality(S)
BY Zenon DEF TINY!Cardinality, Cardinality

(* W-TinyLFU's operators are those of this module. *)
LEMMA TWords ==
    /\ \A s : TINY!Range(s) = Range(s) /\ (TINY!IsInjective(s) <=> IsInjective(s))
    /\ \A s : TINY!Front(s) = Front(s) /\ TINY!Last(s) = Last(s)
    /\ \A s, x : TINY!Remove(s, x) = Remove(s, x)
    /\ TINY!OverCapacity <=> Cardinality(resident) > Capacity
BY TCardinality DEF TINY!Range, Range, TINY!IsInjective, IsInjective, TINY!Front, Front,
   TINY!Last, Last, TINY!Remove, Remove, TINY!WithoutAt, WithoutAt, TINY!OverCapacity

(* W-TinyLFU: what is assumed of its sizes. *)
LEMMA TShares ==
    /\ Capacity \in Nat \ {0} /\ WindowSize \in 1 .. Capacity - 1
    /\ TINY!MainSize = Capacity - WindowSize /\ Capacity - WindowSize \in Nat \ {0}
    /\ ProtectedSize \in 1 .. Capacity - WindowSize
    /\ SampleLimit \in Nat \ {0} /\ MaxCount \in Nat \ {0}
    /\ DoorRows \subseteq Rows /\ Rows # {}
    /\ Position \in [Keys -> [Rows -> TINY!Cells]]
<1>1. Capacity \in Nat \ {0}
    BY CapacityAssumption
<1>2. /\ WindowSize \in 1 .. Capacity - 1
      /\ ProtectedSize \in 1 .. TINY!MainSize
      /\ SampleLimit \in Nat \ {0} /\ MaxCount \in Nat \ {0}
      /\ DoorRows \subseteq Rows /\ Rows # {}
      /\ Position \in [Keys -> [Rows -> TINY!Cells]]
    BY PoliciesAreBuilt DEF TINY!SketchAssumption
<1>3. QED
    BY <1>1, <1>2 DEF TINY!MainSize

(* What is remembered: every counter of a key has at least what the key    *)
(* would have in a sketch of its own, and a key seen is at the door.       *)
TSketch ==
    /\ sketch \in [Rows -> [TINY!Cells -> 0 .. MaxCount]]
    /\ doorkeeper \subseteq TINY!Cells
    /\ sampled \in 0 .. SampleLimit - 1
    /\ own \in [Keys -> [seen : BOOLEAN, count : 0 .. MaxCount]]
    /\ \A k \in Keys : \A r \in Rows : sketch[r][Position[k][r]] >= own[k].count
    /\ \A k \in Keys : own[k].seen => TINY!DoorCells(k) \subseteq doorkeeper

(* What is held: the window is over its size only when the cache is, and   *)
(* then main is full.                                                      *)
TInv ==
    /\ Held(Keys, Capacity)
    /\ Counted(Keys)
    /\ window \in Seq(Keys) /\ IsInjective(window)
    /\ probation \in Seq(Keys) /\ IsInjective(probation)
    /\ protected \in Seq(Keys) /\ IsInjective(protected)
    /\ Range(window) \cap Range(probation) = {}
    /\ Range(window) \cap Range(protected) = {}
    /\ Range(probation) \cap Range(protected) = {}
    /\ Range(window) \cup Range(probation) \cup Range(protected) = resident
    /\ Len(protected) <= ProtectedSize
    /\ Len(probation) + Len(protected) <= Capacity - WindowSize
    /\ Len(window) > WindowSize => Len(probation) + Len(protected) = Capacity - WindowSize
    /\ TSketch

(* Halving keeps counters in order, so it never takes one below what it *)
(* stands for.                                                          *)
LEMMA THalf ==
    \A a, b \in Nat : /\ a \div 2 \in Nat /\ a \div 2 <= a
                      /\ a >= b => a \div 2 >= b \div 2
OBVIOUS

(* Recording an access keeps what is remembered. *)
LEMMA TRecords ==
    ASSUME TSketch, NEW k \in Keys, TINY!Record(k)
    PROVE  TSketch'
<1> DEFINE knocked == TINY!KnockedBefore(k)
           door   == IF knocked THEN doorkeeper ELSE doorkeeper \cup TINY!DoorCells(k)
           counts == IF knocked THEN TINY!Increment(k) ELSE sketch
           noted  == [own EXCEPT ![k] =
                        [seen  |-> TRUE,
                         count |-> IF @.seen THEN TINY!Saturated(@.count) ELSE @.count]]
           mine   == [seen  |-> TRUE,
                      count |-> IF own[k].seen THEN TINY!Saturated(own[k].count) ELSE own[k].count]
<1>1. /\ sampled + 1 >= SampleLimit =>
            /\ sketch' = TINY!Halved(counts) /\ doorkeeper' = {} /\ sampled' = 0
            /\ own' = [x \in Keys |-> [seen |-> FALSE, count |-> noted[x].count \div 2]]
      /\ ~ (sampled + 1 >= SampleLimit) =>
            sketch' = counts /\ doorkeeper' = door /\ sampled' = sampled + 1 /\ own' = noted
    BY DEF TINY!Record
<1>2. \A n \in 0..MaxCount : /\ TINY!Saturated(n) \in 0..MaxCount /\ TINY!Saturated(n) >= n
                             /\ \A m \in 0..MaxCount : n >= m => TINY!Saturated(n) >= TINY!Saturated(m)
    BY TShares DEF TINY!Saturated
<1>3. \A x \in Keys : \A r \in Rows : Position[x][r] \in TINY!Cells
    BY TShares
<1>4. \A x \in Keys : TINY!DoorCells(x) \subseteq TINY!Cells
    BY <1>3, TShares DEF TINY!DoorCells
<1>5. counts \in [Rows -> [TINY!Cells -> 0 .. MaxCount]]
  <2>1. TINY!Increment(k) \in [Rows -> [TINY!Cells -> 0 .. MaxCount]]
    BY <1>2 DEF TSketch, TINY!Increment
  <2>2. QED
    BY <2>1 DEF TSketch
<1>6. /\ noted \in [Keys -> [seen : BOOLEAN, count : 0 .. MaxCount]]
      /\ noted[k] = mine
      /\ \A x \in Keys : x # k => noted[x] = own[x]
  <2>1. noted[k] = mine
    BY DEF TSketch
  <2>2. mine \in [seen : BOOLEAN, count : 0 .. MaxCount]
    <3>1. own[k].count \in 0 .. MaxCount
        BY DEF TSketch
    <3>2. QED
        BY <3>1, <1>2
  <2>3. DOMAIN noted = Keys /\ \A x \in Keys : x # k => noted[x] = own[x]
    BY DEF TSketch
  <2>4. \A x \in Keys : noted[x] \in [seen : BOOLEAN, count : 0 .. MaxCount]
    BY <2>1, <2>2, <2>3 DEF TSketch
  <2>5. noted = [x \in Keys |-> noted[x]]
    BY DEF TSketch
  <2> HIDE DEF noted, mine
  <2>6. QED
    BY <2>1, <2>3, <2>4, <2>5
<1>7. \A r \in Rows : \A c \in TINY!Cells : counts[r][c] >= sketch[r][c]
  <2>1. \A r \in Rows : \A c \in TINY!Cells : sketch[r][c] \in 0..MaxCount
    BY DEF TSketch
  <2>2. \A r \in Rows : \A c \in TINY!Cells :
           TINY!Increment(k)[r][c] = IF c = Position[k][r] THEN TINY!Saturated(sketch[r][c]) ELSE sketch[r][c]
    BY DEF TINY!Increment
  <2>3. \A r \in Rows : \A c \in TINY!Cells : TINY!Increment(k)[r][c] >= sketch[r][c]
    BY <2>1, <2>2, <1>2
  <2>4. QED
    BY <2>1, <2>3
<1>8. \A x \in Keys : noted[x].seen => TINY!DoorCells(x) \subseteq door
  <2>1. \A x \in Keys : x # k => noted[x] = own[x]
    BY <1>6
  <2>2. TINY!DoorCells(k) \subseteq door
    BY DEF TINY!KnockedBefore
  <2>3. \A x \in Keys : own[x].seen => TINY!DoorCells(x) \subseteq door
    BY DEF TSketch
  <2>4. QED
    BY <2>1, <2>2, <2>3
<1>9. \A x \in Keys : \A r \in Rows : counts[r][Position[x][r]] >= noted[x].count
  <2>1. SUFFICES ASSUME NEW x \in Keys, NEW r \in Rows
                 PROVE  counts[r][Position[x][r]] >= noted[x].count
    OBVIOUS
  <2>2. /\ sketch[r][Position[x][r]] >= own[x].count
        /\ counts[r][Position[x][r]] >= sketch[r][Position[x][r]]
        /\ sketch[r][Position[x][r]] \in 0..MaxCount
        /\ counts[r][Position[x][r]] \in 0..MaxCount
        /\ own[x].count \in 0..MaxCount /\ own[x].seen \in BOOLEAN
    BY <1>3, <1>5, <1>7 DEF TSketch
  <2>3. CASE x = k /\ own[k].seen
    <3>1. knocked
        BY <2>3 DEF TSketch, TINY!KnockedBefore
    <3>2. counts[r][Position[k][r]] = TINY!Saturated(sketch[r][Position[k][r]])
        BY <3>1, <1>3 DEF TINY!Increment
    <3>3. noted[k].count = TINY!Saturated(own[k].count)
        BY <2>3, <1>6
    <3> HIDE DEF noted, counts
    <3>4. QED
        BY <2>2, <2>3, <3>2, <3>3, <1>2
  <2>4. CASE ~ (x = k /\ own[k].seen)
    <3>1. noted[x].count = own[x].count
        BY <2>4, <1>6
    <3> HIDE DEF noted, counts
    <3>2. QED
        BY <2>2, <3>1, <1>2
  <2>5. QED
    BY <2>3, <2>4
<1> HIDE DEF noted, counts, door, mine
<1>10. CASE sampled + 1 >= SampleLimit
  <2>1. /\ sketch' = [r \in Rows |-> [c \in TINY!Cells |-> counts[r][c] \div 2]]
        /\ doorkeeper' = {} /\ sampled' = 0
        /\ own' = [x \in Keys |-> [seen |-> FALSE, count |-> noted[x].count \div 2]]
    BY <1>1, <1>10 DEF TINY!Halved
  <2>2. \A n \in 0..MaxCount : n \div 2 \in 0..MaxCount
    BY THalf, TShares
  <2>3. sketch' \in [Rows -> [TINY!Cells -> 0 .. MaxCount]]
    BY <2>1, <2>2, <1>5
  <2>4. /\ own' \in [Keys -> [seen : BOOLEAN, count : 0 .. MaxCount]]
        /\ \A x \in Keys : ~ own'[x].seen
    BY <2>1, <2>2, <1>6
  <2>5. \A x \in Keys : \A r \in Rows : sketch'[r][Position[x][r]] >= own'[x].count
    <3>1. SUFFICES ASSUME NEW x \in Keys, NEW r \in Rows
                   PROVE  sketch'[r][Position[x][r]] >= own'[x].count
        OBVIOUS
    <3>2. /\ sketch'[r][Position[x][r]] = counts[r][Position[x][r]] \div 2
          /\ own'[x].count = noted[x].count \div 2
        BY <2>1, <1>3
    <3>3. /\ counts[r][Position[x][r]] \in Nat /\ noted[x].count \in Nat
          /\ counts[r][Position[x][r]] >= noted[x].count
        BY <1>3, <1>5, <1>6, <1>9
    <3>4. QED
        BY <3>2, <3>3, THalf
  <2>6. sampled' \in 0 .. SampleLimit - 1
    BY <2>1, TShares
  <2>7. QED
    BY <2>1, <2>3, <2>4, <2>5, <2>6 DEF TSketch, TINY!DoorCells
<1>11. CASE ~ (sampled + 1 >= SampleLimit)
  <2>1. sketch' = counts /\ doorkeeper' = door /\ sampled' = sampled + 1 /\ own' = noted
    BY <1>1, <1>11
  <2>2. sampled' \in 0 .. SampleLimit - 1
    BY <2>1, <1>11, TShares DEF TSketch
  <2>3. doorkeeper' \subseteq TINY!Cells
    BY <2>1, <1>4 DEF TSketch, door
  <2>4. QED
    BY <2>1, <2>2, <2>3, <1>5, <1>6, <1>8, <1>9 DEF TSketch, TINY!DoorCells
<1>12. QED
    BY <1>10, <1>11

(* One who goes to the front of the line. *)
LEMMA MoveUp ==
    ASSUME NEW S, NEW s \in Seq(S), IsInjective(s), NEW k \in Range(s)
    PROVE  /\ <<k>> \o Remove(s, k) \in Seq(S)
           /\ IsInjective(<<k>> \o Remove(s, k))
           /\ Range(<<k>> \o Remove(s, k)) = Range(s)
           /\ Len(<<k>> \o Remove(s, k)) = Len(s)
<1> DEFINE rest == Remove(s, k)
<1>1. /\ rest \in Seq(S) /\ IsInjective(rest)
      /\ Range(rest) = Range(s) \ {k} /\ Len(rest) = Len(s) - 1
    BY Leave
<1>2. k \in S /\ Len(s) \in Nat
    BY LineElements
<1> HIDE DEF rest
<1>3. /\ <<k>> \o rest \in Seq(S) /\ IsInjective(<<k>> \o rest)
      /\ Range(<<k>> \o rest) = Range(rest) \cup {k}
      /\ Len(<<k>> \o rest) = Len(rest) + 1
    BY <1>1, <1>2, JoinFront
<1>4. (Range(s) \ {k}) \cup {k} = Range(s)
    OBVIOUS
<1>5. (Len(s) - 1) + 1 = Len(s)
    BY <1>2
<1>6. QED
    BY <1>1, <1>3, <1>4, <1>5 DEF rest

(* W-TinyLFU: the lengths of the three lists. *)
LEMMA TSizes ==
    ASSUME TInv
    PROVE  /\ Len(window) \in Nat /\ Len(probation) \in Nat /\ Len(protected) \in Nat
           /\ Cardinality(resident) = Len(window) + Len(probation) + Len(protected)
           /\ Range(window) \subseteq Keys /\ Range(probation) \subseteq Keys
           /\ Range(protected) \subseteq Keys
           /\ window = <<>> <=> Len(window) = 0
           /\ probation = <<>> <=> Len(probation) = 0
           /\ protected = <<>> <=> Len(protected) = 0
           /\ Cardinality(resident) > Capacity <=> Len(window) > WindowSize
           /\ Len(window) <= WindowSize + 1
<1>1. /\ Len(window) \in Nat /\ Len(probation) \in Nat /\ Len(protected) \in Nat
      /\ Range(window) \subseteq Keys /\ Range(probation) \subseteq Keys
      /\ Range(protected) \subseteq Keys
      /\ window = <<>> <=> Len(window) = 0
      /\ probation = <<>> <=> Len(probation) = 0
      /\ protected = <<>> <=> Len(protected) = 0
    BY LineElements DEF TInv
<1>2. Cardinality(resident) = Len(window) + Len(probation) + Len(protected)
  <2> DEFINE main1 == probation \o protected
  <2>1. /\ probation \o protected \in Seq(Keys) /\ IsInjective(probation \o protected)
        /\ Range(probation \o protected) = Range(probation) \cup Range(protected)
        /\ Len(probation \o protected) = Len(probation) + Len(protected)
    BY LinesTogether DEF TInv
  <2>2. /\ main1 \in Seq(Keys) /\ IsInjective(main1)
        /\ Range(main1) = Range(probation) \cup Range(protected)
        /\ Len(main1) = Len(probation) + Len(protected)
    BY <2>1
  <2> HIDE DEF main1
  <2>3. Range(window) \cap Range(main1) = {}
    BY <2>2 DEF TInv
  <2>4. Cardinality(Range(window) \cup Range(main1)) = Len(window) + Len(main1)
    BY <2>2, <2>3, Between DEF TInv
  <2>5. Range(window) \cup Range(main1) = resident
    BY <2>2 DEF TInv
  <2>6. Cardinality(resident) = Len(window) + Len(main1)
    BY <2>4, <2>5
  <2>7. QED
    BY <2>2, <2>6, <1>1
<1>3. /\ Cardinality(resident) > Capacity <=> Len(window) > WindowSize
      /\ Len(window) <= WindowSize + 1
  <2>1. /\ Cardinality(resident) <= Capacity + 1
        /\ Len(probation) + Len(protected) <= Capacity - WindowSize
        /\ Len(window) > WindowSize => Len(probation) + Len(protected) = Capacity - WindowSize
    BY TShares DEF TInv, Held
  <2>2. QED
    BY <2>1, <1>1, <1>2, TShares
<1>4. QED
    BY <1>1, <1>2, <1>3

(* A hit moves keys between the lists of main, and demotes one when *)
(* protected is full.                                               *)
LEMMA THits ==
    ASSUME TInv, NEW k \in Keys,
           TINY!HitWindow(k) \/ TINY!HitProbation(k) \/ TINY!HitProtected(k)
    PROVE  TInv' /\ resident' = resident
<1>1. k \in resident /\ resident' = resident /\ Counted(Keys)' /\ TINY!Record(k)
    BY DEF TINY!HitWindow, TINY!HitProbation, TINY!HitProtected, TINY!LookupHits, Counted
<1>2. TSketch'
    BY <1>1, TRecords DEF TInv
<1>3. Held(Keys, Capacity)'
    BY <1>1 DEF TInv, Held
<1>4. CASE TINY!HitWindow(k)
  <2>1. /\ k \in Range(window) /\ window' = <<k>> \o Remove(window, k)
        /\ UNCHANGED <<probation, protected>>
    BY <1>4, TWords DEF TINY!HitWindow, TINY!MoveToFront
  <2>2. /\ window' \in Seq(Keys) /\ IsInjective(window')
        /\ Range(window') = Range(window) /\ Len(window') = Len(window)
    BY <2>1, MoveUp DEF TInv
  <2>3. QED
    BY <1>1, <1>2, <1>3, <2>1, <2>2 DEF TInv
<1>5. CASE TINY!HitProtected(k)
  <2>1. /\ k \in Range(protected) /\ protected' = <<k>> \o Remove(protected, k)
        /\ UNCHANGED <<probation, window>>
    BY <1>5, TWords DEF TINY!HitProtected, TINY!MoveToFront
  <2>2. /\ protected' \in Seq(Keys) /\ IsInjective(protected')
        /\ Range(protected') = Range(protected) /\ Len(protected') = Len(protected)
    BY <2>1, MoveUp DEF TInv
  <2>3. QED
    BY <1>1, <1>2, <1>3, <2>1, <2>2 DEF TInv
<1>6. CASE TINY!HitProbation(k)
  <2> DEFINE raised == <<k>> \o protected
             rest   == Remove(probation, k)
  <2>1. /\ k \in Range(probation) /\ window' = window
        /\ Len(raised) > ProtectedSize =>
              protected' = Front(raised) /\ probation' = <<Last(raised)>> \o rest
        /\ ~ (Len(raised) > ProtectedSize) => protected' = raised /\ probation' = rest
    BY <1>6, TWords DEF TINY!HitProbation
  <2>2. /\ rest \in Seq(Keys) /\ IsInjective(rest)
        /\ Range(rest) = Range(probation) \ {k} /\ Len(rest) = Len(probation) - 1
    BY <2>1, Leave DEF TInv
  <2>3. k \in Keys /\ k \notin Range(protected) /\ k \notin Range(window)
    BY <2>1 DEF TInv
  <2>4. /\ raised \in Seq(Keys) /\ IsInjective(raised)
        /\ Range(raised) = Range(protected) \cup {k} /\ Len(raised) = Len(protected) + 1
    BY <2>3, JoinFront DEF TInv
  <2> HIDE DEF raised, rest
  <2>5. /\ Len(protected) \in Nat /\ Len(probation) \in Nat
        /\ Range(protected) \subseteq Keys
        /\ Len(protected) <= ProtectedSize
        /\ Len(rest) + Len(raised) = Len(probation) + Len(protected)
    BY <2>2, <2>4, TSizes DEF TInv
  <2>6. CASE Len(raised) > ProtectedSize
    <3>1. raised # <<>>
        BY <2>4, <2>5, EmptySeq
    <3>2. /\ Front(raised) \in Seq(Keys) /\ IsInjective(Front(raised))
          /\ Range(Front(raised)) = Range(raised) \ {Last(raised)}
          /\ Last(raised) \in Range(raised)
          /\ Len(Front(raised)) = Len(raised) - 1
        BY <3>1, <2>4, LeaveBack
    <3> DEFINE d == Last(raised)
    <3>3. d \in Keys /\ d \notin Range(rest) /\ d \in Range(probation) \cup Range(protected)
        BY <3>2, <2>1, <2>2, <2>3, <2>4, <2>5 DEF TInv
    <3> HIDE DEF d
    <3>4. /\ <<d>> \o rest \in Seq(Keys) /\ IsInjective(<<d>> \o rest)
          /\ Range(<<d>> \o rest) = Range(rest) \cup {d}
          /\ Len(<<d>> \o rest) = Len(rest) + 1
        BY <3>3, <2>2, JoinFront
    <3>5. protected' = Front(raised) /\ probation' = <<d>> \o rest
        BY <2>1, <2>6 DEF d
    <3>6. /\ Len(protected') <= ProtectedSize
          /\ Len(probation') + Len(protected') = Len(probation) + Len(protected)
      <4>1. Len(protected') = Len(protected) /\ Len(probation') = Len(probation)
        BY <3>2, <3>4, <3>5, <2>2, <2>4, <2>5
      <4>2. QED
        BY <4>1, <2>5
    <3>7. /\ Range(protected') = Range(raised) \ {d}
          /\ Range(probation') = Range(rest) \cup {d}
          /\ d \in Range(raised)
        BY <3>2, <3>4, <3>5 DEF d
    <3>8. /\ Range(window') \cap Range(probation') = {}
          /\ Range(window') \cap Range(protected') = {}
          /\ Range(probation') \cap Range(protected') = {}
          /\ Range(window') \cup Range(probation') \cup Range(protected') = resident'
        BY <3>7, <2>1, <2>2, <2>3, <2>4, <1>1 DEF TInv
    <3>9. QED
        BY <1>1, <1>2, <1>3, <2>1, <3>2, <3>4, <3>5, <3>6, <3>8 DEF TInv
  <2>7. CASE ~ (Len(raised) > ProtectedSize)
    <3>1. protected' = raised /\ probation' = rest
        BY <2>1, <2>7
    <3>2. /\ Len(protected') <= ProtectedSize
          /\ Len(probation') + Len(protected') = Len(probation) + Len(protected)
        BY <3>1, <2>4, <2>5, <2>7, TShares
    <3>3. /\ Range(window') \cap Range(probation') = {}
          /\ Range(window') \cap Range(protected') = {}
          /\ Range(probation') \cap Range(protected') = {}
          /\ Range(window') \cup Range(probation') \cup Range(protected') = resident'
        BY <3>1, <2>1, <2>2, <2>3, <2>4, <1>1 DEF TInv
    <3>4. QED
        BY <1>1, <1>2, <1>3, <2>1, <2>2, <2>4, <3>1, <3>2, <3>3 DEF TInv
  <2>8. QED
    BY <2>6, <2>7
<1>7. QED
    BY <1>1, <1>4, <1>5, <1>6

(* A miss enters the window, and its oldest goes to main while main has *)
(* room.                                                                *)
LEMMA TMisses ==
    ASSUME TInv, NEW k \in Keys, TINY!Miss(k)
    PROVE  TInv' /\ resident \subseteq resident'
<1> DEFINE entered == <<k>> \o window
<1>1. /\ ~ (Cardinality(resident) > Capacity) /\ k \notin resident
      /\ resident' = resident \cup {k} /\ Counted(Keys)' /\ TINY!Record(k)
      /\ protected' = protected
    BY TWords DEF TINY!Miss, TINY!LookupMisses, Counted
<1>2. /\ Len(window) + 1 > WindowSize /\ Len(probation) + Len(protected) < Capacity - WindowSize =>
            window' = Front(entered) /\ probation' = <<Last(entered)>> \o probation
      /\ ~ (Len(window) + 1 > WindowSize /\ Len(probation) + Len(protected) < Capacity - WindowSize) =>
            window' = entered /\ probation' = probation
    BY TWords, TShares DEF TINY!Miss, TINY!MainHasRoom
<1>3. Held(Keys, Capacity)'
  <2>1. Cardinality(resident) <= Capacity /\ Capacity \in Nat
    BY <1>1, TShares DEF TInv, Held
  <2>2. QED
    BY <1>1, <2>1, OneComes DEF TInv, Held
<1>4. TSketch'
    BY <1>1, TRecords DEF TInv
<1>5. k \notin Range(window) /\ k \notin Range(probation) /\ k \notin Range(protected)
    BY <1>1 DEF TInv
<1>6. /\ entered \in Seq(Keys) /\ IsInjective(entered)
      /\ Range(entered) = Range(window) \cup {k} /\ Len(entered) = Len(window) + 1
    BY <1>5, JoinFront DEF TInv
<1> HIDE DEF entered
<1>7. /\ Len(window) \in Nat /\ Len(probation) \in Nat /\ Len(protected) \in Nat
      /\ Len(window) <= WindowSize /\ Range(window) \subseteq Keys
    BY <1>1, TSizes, TShares
<1>8. CASE Len(window) + 1 > WindowSize /\ Len(probation) + Len(protected) < Capacity - WindowSize
  <2> DEFINE d == Last(entered)
             front == Front(entered)
  <2>1. entered # <<>>
    BY <1>6, <1>7, EmptySeq
  <2>2. /\ front \in Seq(Keys) /\ IsInjective(front)
        /\ Range(front) = Range(entered) \ {d} /\ d \in Range(entered)
        /\ Len(front) = Len(entered) - 1
    BY <2>1, <1>6, LeaveBack
  <2>3. window' = front /\ probation' = <<d>> \o probation
    BY <1>2, <1>8
  <2> HIDE DEF d, front
  <2>4. d \in Keys /\ d \notin Range(probation) /\ d \notin Range(protected)
    BY <2>2, <1>5, <1>6, <1>7 DEF TInv
  <2>5. /\ probation' \in Seq(Keys) /\ IsInjective(probation')
        /\ Range(probation') = Range(probation) \cup {d}
        /\ Len(probation') = Len(probation) + 1
    BY <2>3, <2>4, JoinFront DEF TInv
  <2>6. /\ Len(probation') + Len(protected') <= Capacity - WindowSize
        /\ ~ (Len(window') > WindowSize)
    BY <1>1, <1>6, <1>7, <1>8, <2>2, <2>3, <2>5, TShares
  <2>7. /\ Range(window') = (Range(window) \cup {k}) \ {d}
        /\ d \in Range(window) \cup {k}
        /\ Range(probation') = Range(probation) \cup {d}
        /\ Range(protected') = Range(protected)
    BY <1>1, <1>6, <2>2, <2>3, <2>5
  <2>8. /\ Range(window') \cap Range(probation') = {}
        /\ Range(window') \cap Range(protected') = {}
        /\ Range(probation') \cap Range(protected') = {}
    BY <2>4, <2>7, <1>5 DEF TInv
  <2>9. Range(window') \cup Range(probation') \cup Range(protected') = resident'
    BY <2>7, <1>1 DEF TInv
  <2>10. QED
    BY <1>1, <1>3, <1>4, <2>2, <2>3, <2>5, <2>6, <2>8, <2>9 DEF TInv
<1>9. CASE ~ (Len(window) + 1 > WindowSize /\ Len(probation) + Len(protected) < Capacity - WindowSize)
  <2>1. window' = entered /\ probation' = probation
    BY <1>2, <1>9
  <2>2. Len(window') > WindowSize => Len(probation) + Len(protected) = Capacity - WindowSize
    <3>1. Len(probation) + Len(protected) <= Capacity - WindowSize
        BY DEF TInv
    <3>2. SUFFICES ASSUME Len(entered) > WindowSize
                   PROVE  ~ (Len(probation) + Len(protected) < Capacity - WindowSize)
        BY <3>1, <2>1, <1>7, TShares
    <3>3. Len(window) + 1 > WindowSize
        BY <3>2, <1>6
    <3>4. QED
        BY <3>3, <1>9
  <2>3. /\ Range(window') \cap Range(probation') = {}
        /\ Range(window') \cap Range(protected') = {}
        /\ Range(probation') \cap Range(protected') = {}
        /\ Range(window') \cup Range(probation') \cup Range(protected') = resident'
    BY <1>1, <1>5, <1>6, <2>1 DEF TInv
  <2>4. QED
    BY <1>1, <1>3, <1>4, <1>6, <2>1, <2>2, <2>3 DEF TInv
<1>10. QED
    BY <1>1, <1>8, <1>9

(* Every set of numbers that has a member has a least one.                 *)
(* The contest: the victim is main's, the candidate the window's.          *)
LEMMA TVictim ==
    ASSUME TInv, Cardinality(resident) > Capacity
    PROVE  /\ Len(window) = WindowSize + 1 /\ window # <<>>
           /\ Len(probation) + Len(protected) = Capacity - WindowSize
           /\ \/ /\ probation # <<>> /\ TINY!MainVictim = Last(probation)
                 /\ TINY!MainVictim \in Range(probation)
              \/ /\ probation = <<>> /\ protected # <<>> /\ TINY!MainVictim = Last(protected)
                 /\ TINY!MainVictim \in Range(protected)
           /\ TINY!Candidate = Last(window) /\ TINY!Candidate \in Range(window)
           /\ TINY!ContestIsHeld
<1>1. /\ Len(window) \in Nat /\ Len(probation) \in Nat /\ Len(protected) \in Nat
      /\ Len(window) > WindowSize /\ Len(window) <= WindowSize + 1
      /\ window = <<>> <=> Len(window) = 0
      /\ probation = <<>> <=> Len(probation) = 0
      /\ protected = <<>> <=> Len(protected) = 0
    BY TSizes
<1>2. Len(probation) + Len(protected) = Capacity - WindowSize
    BY <1>1 DEF TInv
<1>3. Len(window) = WindowSize + 1 /\ window # <<>> /\ TINY!ContestIsHeld
    BY <1>1, TShares DEF TINY!ContestIsHeld
<1>4. TINY!Candidate = Last(window) /\ Last(window) \in Range(window)
    BY <1>3, LeaveBack, TWords DEF TInv, TINY!Candidate
<1>5. CASE probation # <<>>
  <2>1. Last(probation) \in Range(probation)
    BY <1>5, LeaveBack DEF TInv
  <2>2. TINY!MainVictim = Last(probation)
    BY <1>5, TWords DEF TINY!MainVictim
  <2>3. QED
    BY <1>2, <1>3, <1>4, <1>5, <2>1, <2>2
<1>6. CASE probation = <<>>
  <2>1. protected # <<>>
    BY <1>1, <1>2, <1>6, TShares
  <2>2. Last(protected) \in Range(protected)
    BY <2>1, LeaveBack DEF TInv
  <2>3. TINY!MainVictim = Last(protected)
    BY <1>6, <2>1, TWords DEF TINY!MainVictim
  <2>4. QED
    BY <1>2, <1>3, <1>4, <1>6, <2>1, <2>2, <2>3
<1>7. QED
    BY <1>5, <1>6

(* The contest lost by the victim takes probation's last. *)
LEMMA TVictimGoes ==
    ASSUME TInv, TINY!EvictVictim
    PROVE  TInv' /\ TINY!ProtectedAreSafe
<1> DEFINE v == TINY!MainVictim
           c == TINY!Candidate
           rest == Remove(probation, v)
           front == Front(window)
<1>1. /\ Cardinality(resident) > Capacity /\ resident' = resident \ {v}
      /\ event' = [op |-> "evict", key |-> v]
      /\ UNCHANGED <<sketch, doorkeeper, sampled, own>>
    BY TWords DEF TINY!EvictVictim, TINY!Discard
<1>2. /\ Len(window) = WindowSize + 1 /\ window # <<>>
      /\ Len(probation) + Len(protected) = Capacity - WindowSize
      /\ \/ probation # <<>> /\ v \in Range(probation)
         \/ probation = <<>> /\ v \in Range(protected)
      /\ c = Last(window) /\ c \in Range(window) /\ TINY!ContestIsHeld
    BY <1>1, TVictim
<1>3. /\ probation' = <<c>> \o rest /\ window' = Remove(front, v)
      /\ protected' = Remove(protected, v)
    BY <1>2, TWords DEF TINY!EvictVictim
<1>4. /\ front \in Seq(Keys) /\ IsInjective(front)
      /\ Range(front) = Range(window) \ {c} /\ Len(front) = Len(window) - 1
    BY <1>2, LeaveBack DEF TInv
<1>5. /\ rest \in Seq(Keys) /\ IsInjective(rest) /\ Range(rest) = Range(probation) \ {v}
      /\ Len(rest) = IF v \in Range(probation) THEN Len(probation) - 1 ELSE Len(probation)
    BY Leave DEF TInv
<1>6. /\ protected' \in Seq(Keys) /\ IsInjective(protected')
      /\ Range(protected') = Range(protected) \ {v}
      /\ Len(protected') = IF v \in Range(protected) THEN Len(protected) - 1 ELSE Len(protected)
    BY <1>3, Leave DEF TInv
<1> HIDE DEF v, c, rest, front
<1>7. v \notin Range(window)
    BY <1>2 DEF TInv
<1>8. window' = front
    BY <1>3, <1>4, <1>7, Leave
<1>9. c \in Keys /\ c \notin Range(rest) /\ v \in Keys
    BY <1>2, <1>5, TSizes DEF TInv
<1>10. /\ probation' \in Seq(Keys) /\ IsInjective(probation')
       /\ Range(probation') = Range(rest) \cup {c} /\ Len(probation') = Len(rest) + 1
    BY <1>3, <1>5, <1>9, JoinFront
<1>11. Held(Keys, Capacity)'
  <2>1. Capacity + 1 \in Nat
    BY TShares
  <2>2. QED
    BY <1>1, <2>1, OneGoes DEF TInv, Held
<1>12. Counted(Keys)'
    BY <1>1, <1>9 DEF Counted
<1>13. TSketch'
    BY <1>1 DEF TInv, TSketch, TINY!DoorCells
<1>14. Len(probation) \in Nat /\ Len(protected) \in Nat
    BY TSizes
<1>15. /\ Len(protected') <= ProtectedSize
       /\ Len(probation') + Len(protected') <= Capacity - WindowSize
       /\ ~ (Len(window') > WindowSize)
  <2>1. ~ (Len(window') > WindowSize)
    BY <1>2, <1>4, <1>8, TShares
  <2>2. CASE probation # <<>> /\ v \in Range(probation)
    <3>1. v \notin Range(protected)
        BY <2>2 DEF TInv
    <3>2. Len(protected') = Len(protected) /\ Len(probation') = Len(probation) - 1 + 1
        BY <2>2, <3>1, <1>5, <1>6, <1>10
    <3>3. QED
        BY <2>1, <3>2, <1>14, TShares DEF TInv
  <2>3. CASE probation = <<>> /\ v \in Range(protected)
    <3>1. v \notin Range(probation)
        BY <2>3 DEF TInv
    <3>2. Len(protected') = Len(protected) - 1 /\ Len(probation') = Len(probation) + 1
        BY <2>3, <3>1, <1>5, <1>6, <1>10
    <3>3. Len(protected) <= ProtectedSize /\ Len(probation) + Len(protected) <= Capacity - WindowSize
        BY DEF TInv
    <3>4. QED
        BY <2>1, <3>2, <3>3, <1>14, TShares
  <2>4. QED
    BY <2>2, <2>3, <1>2
<1>16. /\ Range(window') = Range(window) \ {c}
       /\ Range(probation') = (Range(probation) \ {v}) \cup {c}
       /\ Range(protected') = Range(protected) \ {v}
    BY <1>4, <1>5, <1>6, <1>8, <1>10
<1>17. /\ Range(window') \cap Range(probation') = {}
       /\ Range(window') \cap Range(protected') = {}
       /\ Range(probation') \cap Range(protected') = {}
    BY <1>2, <1>16 DEF TInv
<1>18. Range(window') \cup Range(probation') \cup Range(protected') = resident'
  <2>1. v # c
    BY <1>2, <1>7
  <2>2. resident = Range(window) \cup Range(probation) \cup Range(protected)
    BY DEF TInv
  <2>3. QED
    BY <2>1, <2>2, <1>1, <1>2, <1>7, <1>16
<1>19. TInv'
    BY <1>4, <1>6, <1>8, <1>10, <1>11, <1>12, <1>13, <1>15, <1>17, <1>18 DEF TInv
<1>20. TINY!ProtectedAreSafe
  <2>1. SUFFICES ASSUME ProtectedSize < Capacity - WindowSize
                 PROVE  Range(protected) \subseteq resident'
    BY TWords, TShares DEF TINY!ProtectedAreSafe
  <2>2. Len(protected) <= ProtectedSize /\ Len(probation) # 0
    BY <2>1, <1>2, <1>14, TShares DEF TInv
  <2>3. v \in Range(probation)
    BY <2>2, <1>2, EmptySeq
  <2>4. QED
    BY <2>3, <1>1 DEF TInv
<1>21. QED
    BY <1>19, <1>20

(* The contest lost by the candidate takes the window's last. *)
LEMMA TCandidateGoes ==
    ASSUME TInv, TINY!EvictCandidate
    PROVE  TInv' /\ TINY!ProtectedAreSafe
<1> DEFINE c == TINY!Candidate
<1>1. /\ Cardinality(resident) > Capacity /\ resident' = resident \ {c}
      /\ event' = [op |-> "evict", key |-> c]
      /\ window' = Front(window)
      /\ UNCHANGED <<probation, protected, sketch, doorkeeper, sampled, own>>
    BY TWords DEF TINY!EvictCandidate, TINY!Discard
<1>2. /\ Len(window) = WindowSize + 1 /\ window # <<>>
      /\ c = Last(window) /\ c \in Range(window)
    BY <1>1, TVictim
<1>3. /\ window' \in Seq(Keys) /\ IsInjective(window')
      /\ Range(window') = Range(window) \ {c} /\ Len(window') = Len(window) - 1
    BY <1>1, <1>2, LeaveBack DEF TInv
<1> HIDE DEF c
<1>4. Held(Keys, Capacity)'
  <2>1. Capacity + 1 \in Nat
    BY TShares
  <2>2. QED
    BY <1>1, <2>1, OneGoes DEF TInv, Held
<1>5. Counted(Keys)'
  <2>1. c \in Keys
    BY <1>2, TSizes
  <2>2. QED
    BY <1>1, <2>1 DEF Counted
<1>6. TSketch'
    BY <1>1 DEF TInv, TSketch, TINY!DoorCells
<1>7. ~ (Len(window') > WindowSize)
    BY <1>2, <1>3, TShares
<1>8. c \notin Range(probation) /\ c \notin Range(protected)
    BY <1>2 DEF TInv
<1>9. /\ Range(window') \cap Range(probation') = {}
      /\ Range(window') \cap Range(protected') = {}
      /\ Range(probation') \cap Range(protected') = {}
      /\ Range(window') \cup Range(probation') \cup Range(protected') = resident'
    BY <1>1, <1>2, <1>3, <1>8 DEF TInv
<1>10. TInv'
    BY <1>1, <1>3, <1>4, <1>5, <1>6, <1>7, <1>9 DEF TInv
<1>11. TINY!ProtectedAreSafe
    BY <1>1, <1>8, TWords DEF TINY!ProtectedAreSafe, TInv
<1>12. QED
    BY <1>10, <1>11

(* Every call keeps the invariant, and no evict() takes a protected key. *)
LEMMA TStep ==
    ASSUME TInv, TINY!Next
    PROVE  TInv' /\ TINY!ProtectedAreSafe
<1>1. ASSUME resident \subseteq resident'
      PROVE  TINY!ProtectedAreSafe
    BY <1>1, TWords DEF TINY!ProtectedAreSafe, TInv
<1>2. ASSUME NEW k \in Keys,
             TINY!HitWindow(k) \/ TINY!HitProbation(k) \/ TINY!HitProtected(k) \/ TINY!Miss(k)
      PROVE  TInv' /\ resident \subseteq resident'
    BY <1>2, THits, TMisses
<1>3. QED
    BY <1>1, <1>2, TVictimGoes, TCandidateGoes DEF TINY!Next

(* The constructor establishes the invariant. *)
LEMMA TStart == TINY!Init => TInv
<1>1. SUFFICES ASSUME TINY!Init PROVE TInv
    OBVIOUS
<1>2. <<>> \in Seq(Keys) /\ IsInjective(<<>>) /\ Range(<<>>) = {} /\ Len(<<>>) = 0
    BY EmptySeq DEF IsInjective, Range
<1>3. IsFiniteSet({}) /\ Cardinality({}) = 0
    BY FS_EmptySet
<1>4. TSketch
  <2>1. 0 \in 0..MaxCount /\ 0 \in 0 .. SampleLimit - 1
    BY TShares
  <2>2. /\ sketch = [r \in Rows |-> [c \in TINY!Cells |-> 0]]
        /\ doorkeeper = {} /\ sampled = 0
        /\ own = [k \in Keys |-> [seen |-> FALSE, count |-> 0]]
    BY <1>1 DEF TINY!Init
  <2>3. \A k \in Keys : \A r \in Rows : sketch[r][Position[k][r]] = 0
    BY <2>2, TShares
  <2>4. QED
    BY <2>1, <2>2, <2>3 DEF TSketch
<1>5. QED
    BY <1>1, <1>2, <1>3, <1>4, TShares DEF TINY!Init, TINY!HarnessInit, TInv, Held, Counted

(* What the invariant gives: the sketch never underestimates, and every *)
(* evict() is a contest.                                                *)
LEMMA TTyped == TInv => /\ TINY!TypeOK /\ TINY!NeverUnderestimates
                        /\ TINY!EveryEvictionIsAContest
<1>1. SUFFICES ASSUME TInv
               PROVE  TINY!TypeOK /\ TINY!NeverUnderestimates /\ TINY!EveryEvictionIsAContest
    OBVIOUS
<1>2. TINY!HarnessTypeOK
    BY <1>1, TCardinality, TShares DEF TInv, Held, Counted, TINY!HarnessTypeOK
<1>3. IsInjective((window \o probation) \o protected)
  <2> DEFINE s == window \o probation
  <2>1. /\ s \in Seq(Keys) /\ IsInjective(s) /\ Range(s) = Range(window) \cup Range(probation)
    BY <1>1, LinesTogether DEF TInv
  <2> HIDE DEF s
  <2>2. IsInjective(s \o protected)
    BY <1>1, <2>1, LinesTogether DEF TInv
  <2>3. QED
    BY <2>2 DEF s
<1>4. TINY!TypeOK
    BY <1>1, <1>2, <1>3, TWords DEF TInv, TSketch, TINY!TypeOK
<1>5. TINY!EveryEvictionIsAContest
    BY <1>1, TSizes, TShares, TWords
       DEF TInv, TINY!EveryEvictionIsAContest, TINY!ContestIsHeld, TINY!MainHasRoom
<1>6. ASSUME NEW k \in Keys
      PROVE  TINY!Estimate(k) >= own[k].count + IF own[k].seen THEN 1 ELSE 0
  <2> DEFINE at(r) == sketch[r][Position[k][r]]
  <2>1. \A r \in Rows : at(r) \in 0..MaxCount /\ at(r) >= own[k].count
    BY <1>1, TShares DEF TInv, TSketch
  <2>2. PICK m \in {at(r) : r \in Rows} : \A x \in {at(r) : r \in Rows} : m <= x
    <3>1. {at(r) : r \in Rows} \in SUBSET Nat /\ {at(r) : r \in Rows} # {}
        BY <2>1, TShares
    <3>2. QED
        BY <3>1, LeastNumber
  <2>3. \E n \in 0 .. MaxCount : (\E r \in Rows : at(r) = n) /\ (\A r \in Rows : at(r) >= n)
    BY <2>1, <2>2
  <2>4. \E r \in Rows : at(r) = TINY!MinCount(k)
    BY <2>3 DEF TINY!MinCount
  <2>5. TINY!MinCount(k) \in Nat /\ TINY!MinCount(k) >= own[k].count /\ own[k].count \in Nat
    BY <2>1, <2>4, <1>1 DEF TInv, TSketch
  <2>6. own[k].seen => TINY!KnockedBefore(k)
    BY <1>1 DEF TInv, TSketch, TINY!KnockedBefore
  <2>7. QED
    BY <2>5, <2>6 DEF TINY!Estimate
<1>7. QED
    BY <1>4, <1>5, <1>6 DEF TINY!NeverUnderestimates

-----------------------------------------------------------------------------
(* ARC *)
LEMMA ACardinality == \A S : ARC!Cardinality(S) = Cardinality(S)
BY Zenon DEF ARC!Cardinality, Cardinality

(* ARC's operators are those of this module. *)
LEMMA AWords ==
    /\ \A s : ARC!Range(s) = Range(s) /\ (ARC!IsInjective(s) <=> IsInjective(s))
    /\ \A s : ARC!Front(s) = Front(s) /\ ARC!Last(s) = Last(s)
    /\ \A s, x : ARC!Remove(s, x) = Remove(s, x)
    /\ ARC!OverCapacity <=> Cardinality(resident) > ArcCapacity
    /\ ArcCapacity \in Nat \ {0}
    /\ ARC!Names = {"T1", "T2", "B1", "B2"}
BY ACardinality, PoliciesAreBuilt DEF ARC!Range, Range, ARC!IsInjective, IsInjective,
   ARC!Front, Front, ARC!Last, Last, ARC!Remove, Remove, ARC!WithoutAt, WithoutAt,
   ARC!OverCapacity, ARC!Names

ANames == {"T1", "T2", "B1", "B2"}

Places(ls, n) == Len(ls[n])

(* Four lines, and no key in two places. *)
ADirectory(ls) ==
    /\ ls \in [ANames -> Seq(Keys)]
    /\ \A n \in ANames : IsInjective(ls[n])
    /\ \A m, n \in ANames : m # n => Range(ls[m]) \cap Range(ls[n]) = {}

(* The four lists, each by itself. *)
LEMMA ASizes ==
    ASSUME NEW ls, ADirectory(ls), NEW n \in ANames
    PROVE  /\ ls[n] \in Seq(Keys) /\ IsInjective(ls[n])
           /\ Places(ls, n) \in Nat /\ Range(ls[n]) \subseteq Keys
           /\ ls[n] = <<>> <=> Places(ls, n) = 0
           /\ ls[n] = <<>> <=> Range(ls[n]) = {}
<1>1. ls[n] \in Seq(Keys) /\ IsInjective(ls[n])
    BY DEF ADirectory
<1>2. QED
    BY <1>1, LineElements DEF Places

(* One of the lines is another. *)
LEMMA AChanges ==
    ASSUME NEW ls, ADirectory(ls), NEW n \in ANames, NEW s \in Seq(Keys), IsInjective(s),
           \A m \in ANames \ {n} : Range(s) \cap Range(ls[m]) = {}
    PROVE  /\ ADirectory([ls EXCEPT ![n] = s])
           /\ [ls EXCEPT ![n] = s][n] = s
           /\ \A m \in ANames \ {n} : [ls EXCEPT ![n] = s][m] = ls[m]
<1> DEFINE t == [ls EXCEPT ![n] = s]
<1>1. /\ t \in [ANames -> Seq(Keys)] /\ t[n] = s
      /\ \A m \in ANames \ {n} : t[m] = ls[m]
    BY DEF ADirectory
<1> HIDE DEF t
<1>2. \A m \in ANames : IsInjective(t[m])
    BY <1>1 DEF ADirectory
<1>3. \A m, o \in ANames : m # o => Range(t[m]) \cap Range(t[o]) = {}
    BY <1>1 DEF ADirectory
<1>4. QED
    BY <1>1, <1>2, <1>3 DEF t, ADirectory

(* A key in none of the lines joins one. *)
LEMMA ALinks ==
    ASSUME NEW ls, ADirectory(ls), NEW n \in ANames, NEW k \in Keys,
           \A m \in ANames : k \notin Range(ls[m])
    PROVE  /\ ADirectory(ARC!Linked(ls, n, k))
           /\ Range(ARC!Linked(ls, n, k)[n]) = Range(ls[n]) \cup {k}
           /\ Places(ARC!Linked(ls, n, k), n) = Places(ls, n) + 1
           /\ \A m \in ANames \ {n} : ARC!Linked(ls, n, k)[m] = ls[m]
<1> DEFINE s == <<k>> \o ls[n]
<1>1. ls[n] \in Seq(Keys) /\ IsInjective(ls[n])
    BY ASizes
<1>2. /\ s \in Seq(Keys) /\ IsInjective(s)
      /\ Range(s) = Range(ls[n]) \cup {k} /\ Len(s) = Places(ls, n) + 1
    BY <1>1, JoinFront DEF Places
<1>3. ARC!Linked(ls, n, k) = [ls EXCEPT ![n] = s]
    BY DEF ARC!Linked
<1> HIDE DEF s
<1>4. \A m \in ANames \ {n} : Range(s) \cap Range(ls[m]) = {}
    BY <1>2 DEF ADirectory
<1>5. /\ ADirectory([ls EXCEPT ![n] = s])
      /\ [ls EXCEPT ![n] = s][n] = s
      /\ \A m \in ANames \ {n} : [ls EXCEPT ![n] = s][m] = ls[m]
    BY <1>2, <1>4, AChanges
<1>6. QED
    BY <1>2, <1>3, <1>5 DEF Places

(* A line loses its oldest. *)
LEMMA ALoses ==
    ASSUME NEW ls, ADirectory(ls), NEW n \in ANames, ls[n] # <<>>
    PROVE  /\ ADirectory([ls EXCEPT ![n] = Front(ls[n])])
           /\ Range([ls EXCEPT ![n] = Front(ls[n])][n]) = Range(ls[n]) \ {Last(ls[n])}
           /\ Places([ls EXCEPT ![n] = Front(ls[n])], n) = Places(ls, n) - 1
           /\ \A m \in ANames \ {n} : [ls EXCEPT ![n] = Front(ls[n])][m] = ls[m]
           /\ Last(ls[n]) \in Range(ls[n])
<1> DEFINE s == Front(ls[n])
<1>1. ls[n] \in Seq(Keys) /\ IsInjective(ls[n])
    BY ASizes
<1>2. /\ s \in Seq(Keys) /\ IsInjective(s)
      /\ Range(s) = Range(ls[n]) \ {Last(ls[n])} /\ Len(s) = Places(ls, n) - 1
      /\ Last(ls[n]) \in Range(ls[n])
    BY <1>1, LeaveBack DEF Places
<1> HIDE DEF s
<1>3. \A m \in ANames \ {n} : Range(s) \cap Range(ls[m]) = {}
    BY <1>2 DEF ADirectory
<1>4. /\ ADirectory([ls EXCEPT ![n] = s])
      /\ [ls EXCEPT ![n] = s][n] = s
      /\ \A m \in ANames \ {n} : [ls EXCEPT ![n] = s][m] = ls[m]
    BY <1>2, <1>3, AChanges
<1>5. QED
    BY <1>2, <1>4 DEF s, Places

(* The oldest ghost is dropped, if there is one. *)
LEMMA ADrops ==
    ASSUME NEW ls, ADirectory(ls), NEW n \in ANames
    PROVE  /\ ADirectory(ARC!DropOldestGhost(ls, n))
           /\ Range(ARC!DropOldestGhost(ls, n)[n]) \subseteq Range(ls[n])
           /\ ls[n] # <<>> => Places(ARC!DropOldestGhost(ls, n), n) = Places(ls, n) - 1
           /\ ls[n] = <<>> => Places(ARC!DropOldestGhost(ls, n), n) = 0
           /\ \A m \in ANames \ {n} : ARC!DropOldestGhost(ls, n)[m] = ls[m]
<1>1. CASE ls[n] = <<>>
  <2>1. ARC!DropOldestGhost(ls, n) = ls
    BY <1>1 DEF ARC!DropOldestGhost
  <2>2. QED
    BY <1>1, <2>1, ASizes
<1>2. CASE ls[n] # <<>>
  <2>1. ARC!DropOldestGhost(ls, n) = [ls EXCEPT ![n] = Front(ls[n])]
    BY <1>2, AWords DEF ARC!DropOldestGhost
  <2> DEFINE t == [ls EXCEPT ![n] = Front(ls[n])]
  <2>2. /\ ADirectory(t) /\ Range(t[n]) = Range(ls[n]) \ {Last(ls[n])}
        /\ Places(t, n) = Places(ls, n) - 1
        /\ \A m \in ANames \ {n} : t[m] = ls[m]
    BY <1>2, ALoses
  <2>3. ARC!DropOldestGhost(ls, n) = t
    BY <2>1
  <2> HIDE DEF t
  <2>4. QED
    BY <1>2, <2>2, <2>3
<1>3. QED
    BY <1>1, <1>2

(* A key leaves whichever line it is in. *)
LEMMA AUnlinks ==
    ASSUME NEW ls, ADirectory(ls), NEW k
    PROVE  /\ ADirectory(ARC!Unlinked(ls, k))
           /\ \A m \in ANames :
                 /\ Range(ARC!Unlinked(ls, k)[m]) = Range(ls[m]) \ {k}
                 /\ Places(ARC!Unlinked(ls, k), m) =
                       IF k \in Range(ls[m]) THEN Places(ls, m) - 1 ELSE Places(ls, m)
<1> DEFINE t == ARC!Unlinked(ls, k)
<1>1. t = [m \in ANames |-> Remove(ls[m], k)]
    BY AWords DEF ARC!Unlinked, ANames
<1>2. \A m \in ANames :
         /\ Remove(ls[m], k) \in Seq(Keys) /\ IsInjective(Remove(ls[m], k))
         /\ Range(Remove(ls[m], k)) = Range(ls[m]) \ {k}
         /\ Len(Remove(ls[m], k)) = IF k \in Range(ls[m]) THEN Places(ls, m) - 1 ELSE Places(ls, m)
    BY ASizes, Leave DEF Places
<1> HIDE DEF t
<1>3. \A m \in ANames : t[m] = Remove(ls[m], k)
    BY <1>1
<1>4. t \in [ANames -> Seq(Keys)]
    BY <1>1, <1>2
<1>5. \A m, n \in ANames : m # n => Range(t[m]) \cap Range(t[n]) = {}
    BY <1>2, <1>3 DEF ADirectory
<1>6. QED
    BY <1>2, <1>3, <1>4, <1>5 DEF t, ADirectory, Places

(* REPLACE: one of the cache lists gives its oldest to its ghosts. *)
AGives(ls, t, from, to, v) ==
    /\ ls[from] # <<>> /\ v = Last(ls[from]) /\ v \in Range(ls[from])
    /\ Range(t[from]) = Range(ls[from]) \ {v} /\ Places(t, from) = Places(ls, from) - 1
    /\ Range(t[to]) = Range(ls[to]) \cup {v} /\ Places(t, to) = Places(ls, to) + 1
    /\ \A m \in ANames \ {from, to} : t[m] = ls[m]

(* arc_evict_oldest: the oldest of a cache list becomes the newest of its *)
(* ghosts.                                                                *)
LEMMA ADemotes ==
    ASSUME NEW ls, ADirectory(ls), NEW from \in {"T1", "T2"}, ls[from] # <<>>
    PROVE  /\ ADirectory(ARC!Demote(ls, from))
           /\ \/ from = "T1" /\ AGives(ls, ARC!Demote(ls, from), "T1", "B1", Last(ls[from]))
              \/ from = "T2" /\ AGives(ls, ARC!Demote(ls, from), "T2", "B2", Last(ls[from]))
<1> DEFINE to == IF from = "T1" THEN "B1" ELSE "B2"
<1>0. (from = "T1" /\ to = "B1") \/ (from = "T2" /\ to = "B2")
    OBVIOUS
<1> HIDE DEF to
<1> DEFINE v == Last(ls[from])
           s == [ls EXCEPT ![from] = Front(ls[from])]
<1>1. from \in ANames /\ to \in ANames /\ from # to /\ ARC!GhostOf[from] = to
    BY <1>0 DEF ANames, ARC!GhostOf
<1>2. /\ ADirectory(s) /\ Range(s[from]) = Range(ls[from]) \ {v}
      /\ Places(s, from) = Places(ls, from) - 1
      /\ \A m \in ANames \ {from} : s[m] = ls[m]
      /\ v \in Range(ls[from])
    BY <1>1, ALoses
<1>3. ARC!Demote(ls, from) = ARC!Linked(s, to, v)
    BY <1>1, AWords DEF ARC!Demote
<1> HIDE DEF v, s
<1>4. v \in Keys
    BY <1>1, <1>2, ASizes
<1>5. \A m \in ANames : v \notin Range(s[m])
    BY <1>1, <1>2 DEF ADirectory
<1>6. /\ ADirectory(ARC!Linked(s, to, v))
      /\ Range(ARC!Linked(s, to, v)[to]) = Range(s[to]) \cup {v}
      /\ Places(ARC!Linked(s, to, v), to) = Places(s, to) + 1
      /\ \A m \in ANames \ {to} : ARC!Linked(s, to, v)[m] = s[m]
  <2>1. ADirectory(s) /\ to \in ANames
    BY <1>1, <1>2
  <2>2. QED
    BY <2>1, <1>4, <1>5, ALinks
<1>7. AGives(ls, ARC!Demote(ls, from), from, to, v)
  <2>1. /\ Places(ARC!Linked(s, to, v), from) = Places(s, from)
        /\ Places(s, to) = Places(ls, to)
    BY <1>1, <1>2, <1>6 DEF Places
  <2>2. QED
    BY <2>1, <1>1, <1>2, <1>3, <1>6 DEF AGives, v
<1>8. QED
    BY <1>0, <1>3, <1>6, <1>7 DEF v

(* REPLACE keeps every key in one list at most, and the list that gives has *)
(* one to give.                                                             *)
LEMMA AReplaces ==
    ASSUME NEW ls, ADirectory(ls), NEW goal, NEW fromB2, ARC!CanReplace(ls, goal, fromB2)
    PROVE  LET giver == ARC!Giver(ls, goal, fromB2)
               v     == Last(ls[giver])
               t     == ARC!Demote(ls, giver)
           IN  /\ ADirectory(t)
               /\ \/ giver = "T1" /\ AGives(ls, t, "T1", "B1", v)
                  \/ giver = "T2" /\ AGives(ls, t, "T2", "B2", v)
<1> DEFINE giver == ARC!Giver(ls, goal, fromB2)
<1>1. giver \in {"T1", "T2"}
    BY DEF ARC!Giver
<1>2. ls[giver] # <<>>
    BY DEF ARC!CanReplace
<1> HIDE DEF giver
<1>3. /\ ADirectory(ARC!Demote(ls, giver))
      /\ \/ giver = "T1" /\ AGives(ls, ARC!Demote(ls, giver), "T1", "B1", Last(ls[giver]))
         \/ giver = "T2" /\ AGives(ls, ARC!Demote(ls, giver), "T2", "B2", Last(ls[giver]))
    BY <1>1, <1>2, ADemotes
<1>4. QED
    BY <1>3 DEF giver

(* What REPLACE does, whichever list gives.                                *)
AReplaced(ls, t, v) ==
    /\ v \in Range(ls["T1"]) \cup Range(ls["T2"])
    /\ Range(t["T1"]) \cup Range(t["T2"]) = (Range(ls["T1"]) \cup Range(ls["T2"])) \ {v}
    /\ Range(t["T1"]) \cup Range(t["B1"]) = Range(ls["T1"]) \cup Range(ls["B1"])
    /\ Range(t["T2"]) \cup Range(t["B2"]) = Range(ls["T2"]) \cup Range(ls["B2"])
    /\ Range(ls["B1"]) \subseteq Range(t["B1"]) /\ Range(ls["B2"]) \subseteq Range(t["B2"])
    /\ Places(t, "T1") + Places(t, "T2") = Places(ls, "T1") + Places(ls, "T2") - 1
    /\ Places(t, "T1") + Places(t, "B1") = Places(ls, "T1") + Places(ls, "B1")
    /\ Places(t, "T2") + Places(t, "B2") = Places(ls, "T2") + Places(ls, "B2")

(* The same, of whichever list gives. *)
LEMMA AEitherGives ==
    ASSUME NEW ls, ADirectory(ls), NEW goal, NEW fromB2, ARC!CanReplace(ls, goal, fromB2)
    PROVE  LET giver == ARC!Giver(ls, goal, fromB2)
               t     == ARC!Demote(ls, giver)
           IN  ADirectory(t) /\ AReplaced(ls, t, Last(ls[giver]))
<1> DEFINE giver == ARC!Giver(ls, goal, fromB2)
           v     == Last(ls[giver])
           t     == ARC!Demote(ls, giver)
<1>1. /\ ADirectory(t)
      /\ \/ giver = "T1" /\ AGives(ls, t, "T1", "B1", v)
         \/ giver = "T2" /\ AGives(ls, t, "T2", "B2", v)
    BY AReplaces
<1> HIDE DEF giver, v, t
<1>2. /\ Places(ls, "T1") \in Nat /\ Places(ls, "T2") \in Nat
      /\ Places(ls, "B1") \in Nat /\ Places(ls, "B2") \in Nat
    BY ASizes DEF ANames
<1>3. /\ Range(ls["T1"]) \cap Range(ls["T2"]) = {}
    BY DEF ADirectory, ANames
<1>4. CASE AGives(ls, t, "T1", "B1", v)
  <2>1. /\ v \in Range(ls["T1"])
        /\ Range(t["T1"]) = Range(ls["T1"]) \ {v} /\ Places(t, "T1") = Places(ls, "T1") - 1
        /\ Range(t["B1"]) = Range(ls["B1"]) \cup {v} /\ Places(t, "B1") = Places(ls, "B1") + 1
        /\ t["T2"] = ls["T2"] /\ t["B2"] = ls["B2"]
    BY <1>4 DEF AGives, ANames
  <2>2. /\ Places(t, "T1") + Places(t, "T2") = Places(ls, "T1") + Places(ls, "T2") - 1
        /\ Places(t, "T1") + Places(t, "B1") = Places(ls, "T1") + Places(ls, "B1")
        /\ Places(t, "T2") + Places(t, "B2") = Places(ls, "T2") + Places(ls, "B2")
    <3>1. /\ Places(t, "T1") = Places(ls, "T1") - 1 /\ Places(t, "B1") = Places(ls, "B1") + 1
          /\ Places(t, "T2") = Places(ls, "T2") /\ Places(t, "B2") = Places(ls, "B2")
        BY <2>1 DEF Places
    <3>2. QED
        BY <3>1, <1>2
  <2>3. AReplaced(ls, t, v)
    BY <2>1, <2>2, <1>3 DEF AReplaced
  <2>4. QED
    BY <1>1, <2>3 DEF giver, v, t
<1>5. CASE AGives(ls, t, "T2", "B2", v)
  <2>1. /\ v \in Range(ls["T2"])
        /\ Range(t["T2"]) = Range(ls["T2"]) \ {v} /\ Places(t, "T2") = Places(ls, "T2") - 1
        /\ Range(t["B2"]) = Range(ls["B2"]) \cup {v} /\ Places(t, "B2") = Places(ls, "B2") + 1
        /\ t["T1"] = ls["T1"] /\ t["B1"] = ls["B1"]
    BY <1>5 DEF AGives, ANames
  <2>2. /\ Places(t, "T1") + Places(t, "T2") = Places(ls, "T1") + Places(ls, "T2") - 1
        /\ Places(t, "T1") + Places(t, "B1") = Places(ls, "T1") + Places(ls, "B1")
        /\ Places(t, "T2") + Places(t, "B2") = Places(ls, "T2") + Places(ls, "B2")
    <3>1. /\ Places(t, "T2") = Places(ls, "T2") - 1 /\ Places(t, "B2") = Places(ls, "B2") + 1
          /\ Places(t, "T1") = Places(ls, "T1") /\ Places(t, "B1") = Places(ls, "B1")
        BY <2>1 DEF Places
    <3>2. QED
        BY <3>1, <1>2
  <2>3. AReplaced(ls, t, v)
    BY <2>1, <2>2, <1>3 DEF AReplaced
  <2>4. QED
    BY <1>1, <2>3 DEF giver, v, t
<1>6. QED
    BY <1>1, <1>4, <1>5

(* The paper's bounds. *)
ABounded(ls) ==
    /\ Places(ls, "T1") + Places(ls, "B1") <= ArcCapacity
    /\ Places(ls, "T1") + Places(ls, "T2") <= ArcCapacity
    /\ Places(ls, "T1") + Places(ls, "T2") + Places(ls, "B1") + Places(ls, "B2") <= 2 * ArcCapacity
    /\ Places(ls, "B1") + Places(ls, "B2") > 0 => Places(ls, "T1") + Places(ls, "T2") = ArcCapacity

(* The lists a key may be in, by the number of its uses. *)
AUsed(ls, u) ==
    /\ \A x \in Range(ls["T1"]) \cup Range(ls["B1"]) : u[x] = 1
    /\ \A x \in Range(ls["T2"]) \cup Range(ls["B2"]) : u[x] = 2
    /\ \A x \in Keys : (\A n \in ANames : x \notin Range(ls[n])) => u[x] = 0

(* The victim waits for its evict() while the cache lists are full.        *)
AInv ==
    /\ Held(Keys, ArcCapacity)
    /\ Counted(Keys)
    /\ ADirectory(lists)
    /\ ABounded(lists)
    /\ \/ pending = {}
       \/ \E v \in Keys : /\ pending = {v}
                          /\ v \notin Range(lists["T1"]) \cup Range(lists["T2"])
                          /\ Places(lists, "T1") + Places(lists, "T2") = ArcCapacity
    /\ Range(lists["T1"]) \cup Range(lists["T2"]) \cup pending = resident
    /\ target \in 0..ArcCapacity
    /\ uses \in [Keys -> 0..2]
    /\ AUsed(lists, uses)

(* When the cache is over capacity, a victim waits. *)
LEMMA AListed ==
    ASSUME AInv
    PROVE  /\ ArcCapacity \in Nat \ {0}
           /\ Places(lists, "T1") \in Nat /\ Places(lists, "T2") \in Nat
           /\ Places(lists, "B1") \in Nat /\ Places(lists, "B2") \in Nat
           /\ Range(lists["T1"]) \cap Range(lists["T2"]) = {}
           /\ Cardinality(resident) > ArcCapacity <=> pending # {}
           /\ pending = {} => resident = Range(lists["T1"]) \cup Range(lists["T2"])
<1>1. /\ Places(lists, "T1") \in Nat /\ Places(lists, "T2") \in Nat
      /\ Places(lists, "B1") \in Nat /\ Places(lists, "B2") \in Nat
      /\ lists["T1"] \in Seq(Keys) /\ IsInjective(lists["T1"])
      /\ lists["T2"] \in Seq(Keys) /\ IsInjective(lists["T2"])
    BY ASizes DEF AInv, ANames
<1>2. Range(lists["T1"]) \cap Range(lists["T2"]) = {}
    BY DEF AInv, ADirectory, ANames
<1> DEFINE cached == Range(lists["T1"]) \cup Range(lists["T2"])
<1>3. IsFiniteSet(cached) /\ Cardinality(cached) = Places(lists, "T1") + Places(lists, "T2")
    BY <1>1, <1>2, Between DEF Places
<1> HIDE DEF cached
<1>4. ArcCapacity \in Nat \ {0}
    BY AWords
<1>5. CASE pending = {}
  <2>1. resident = cached
    BY <1>5 DEF AInv, cached
  <2>2. ~ (Cardinality(resident) > ArcCapacity)
    <3>1. Places(lists, "T1") + Places(lists, "T2") <= ArcCapacity
        BY DEF AInv, ABounded
    <3>2. Cardinality(resident) = Places(lists, "T1") + Places(lists, "T2")
        BY <2>1, <1>3
    <3>3. QED
        BY <3>1, <3>2, <1>1, <1>4
  <2>3. QED
    BY <1>1, <1>2, <1>4, <1>5, <2>1, <2>2 DEF cached
<1>6. CASE pending # {}
  <2>1. PICK v \in Keys : /\ pending = {v} /\ v \notin cached
                          /\ Places(lists, "T1") + Places(lists, "T2") = ArcCapacity
    BY <1>6 DEF AInv, cached
  <2>2. Cardinality(cached \cup {v}) = Cardinality(cached) + 1
    BY <2>1, <1>3, FS_AddElement
  <2>3. resident = cached \cup {v}
    BY <2>1 DEF AInv, cached
  <2>4. Cardinality(resident) = ArcCapacity + 1
    BY <2>1, <2>2, <2>3, <1>3
  <2>5. QED
    BY <1>1, <1>2, <1>4, <1>6, <2>4
<1>7. QED
    BY <1>5, <1>6

(* A call counts one use of its key, which is where a key used that often *)
(* belongs.                                                               *)
LEMMA ACounts ==
    ASSUME ADirectory(lists), ADirectory(lists'), uses \in [Keys -> 0..2], AUsed(lists, uses),
           NEW k \in Keys, ARC!CountUse(k),
           \A x \in Keys \ {k} :
              /\ x \in Range(lists'["T1"]) \cup Range(lists'["B1"])
                    => x \in Range(lists["T1"]) \cup Range(lists["B1"])
              /\ x \in Range(lists'["T2"]) \cup Range(lists'["B2"])
                    => x \in Range(lists["T2"]) \cup Range(lists["B2"]),
           \/ k \in Range(lists'["T2"]) /\ \E n \in ANames : k \in Range(lists[n])
           \/ k \in Range(lists'["T1"]) /\ \A n \in ANames : k \notin Range(lists[n])
    PROVE  uses' \in [Keys -> 0..2] /\ AUsed(lists', uses')
<1>1. uses' = [x \in Keys |->
                  IF x = k THEN IF uses[k] < 2 THEN uses[k] + 1 ELSE 2
                  ELSE IF \E n \in ANames : x \in Range(lists'[n]) THEN uses[x] ELSE 0]
    BY AWords DEF ARC!CountUse, ANames
<1>2. uses' \in [Keys -> 0..2]
    BY <1>1
<1>3. \A x \in Keys \ {k} : uses'[x] = IF \E n \in ANames : x \in Range(lists'[n])
                                       THEN uses[x] ELSE 0
    BY <1>1
<1>4. uses'[k] = IF uses[k] < 2 THEN uses[k] + 1 ELSE 2
    BY <1>1
<1>5. \A n \in ANames : Range(lists[n]) \subseteq Keys /\ Range(lists'[n]) \subseteq Keys
    BY ASizes
<1>6. "T1" \in ANames /\ "T2" \in ANames /\ "B1" \in ANames /\ "B2" \in ANames
    BY DEF ANames
<1>7. \A x \in Range(lists'["T1"]) \cup Range(lists'["B1"]) : uses'[x] = 1
  <2>1. SUFFICES ASSUME NEW x \in Range(lists'["T1"]) \cup Range(lists'["B1"])
                 PROVE  uses'[x] = 1
    OBVIOUS
  <2>2. CASE x # k
    <3>1. x \in Keys \ {k} /\ x \in Range(lists["T1"]) \cup Range(lists["B1"])
        BY <2>2, <1>5, <1>6
    <3>2. uses[x] = 1
        BY <3>1 DEF AUsed
    <3>3. QED
        BY <3>1, <3>2, <1>3, <1>6
  <2>3. CASE x = k
    <3>1. k \notin Range(lists'["T2"])
        BY <2>3 DEF ADirectory, ANames
    <3>2. uses[k] = 0
        BY <3>1 DEF AUsed
    <3>3. QED
        BY <2>3, <3>2, <1>4
  <2>4. QED
    BY <2>2, <2>3
<1>8. \A x \in Range(lists'["T2"]) \cup Range(lists'["B2"]) : uses'[x] = 2
  <2>1. SUFFICES ASSUME NEW x \in Range(lists'["T2"]) \cup Range(lists'["B2"])
                 PROVE  uses'[x] = 2
    OBVIOUS
  <2>2. CASE x # k
    <3>1. x \in Keys \ {k} /\ x \in Range(lists["T2"]) \cup Range(lists["B2"])
        BY <2>2, <1>5, <1>6
    <3>2. uses[x] = 2
        BY <3>1 DEF AUsed
    <3>3. QED
        BY <3>1, <3>2, <1>3, <1>6
  <2>3. CASE x = k
    <3>1. k \notin Range(lists'["T1"])
        BY <2>3 DEF ADirectory, ANames
    <3>2. uses[k] = 1 \/ uses[k] = 2
        BY <3>1 DEF AUsed, ANames
    <3>3. QED
        BY <2>3, <3>2, <1>4
  <2>4. QED
    BY <2>2, <2>3
<1>9. ASSUME NEW x \in Keys, \A n \in ANames : x \notin Range(lists'[n])
      PROVE  uses'[x] = 0
  <2>1. x # k
    BY <1>6, <1>9
  <2>2. QED
    BY <2>1, <1>3, <1>9
<1>10. QED
    BY <1>2, <1>7, <1>8, <1>9 DEF AUsed

(* A hit moves its key to the front of T2. *)
LEMMA AHits ==
    ASSUME AInv, NEW k \in Keys, ARC!Hit(k)
    PROVE  AInv'
<1> DEFINE d == ARC!Unlinked(lists, k)
<1>1. /\ k \in resident /\ resident' = resident /\ Counted(Keys)'
      /\ ~ (Cardinality(resident) > ArcCapacity)
      /\ k \in Range(lists["T1"]) \cup Range(lists["T2"])
      /\ lists' = ARC!Linked(d, "T2", k) /\ ARC!CountUse(k)
      /\ target' = target /\ pending' = pending
    BY AWords DEF ARC!Hit, ARC!LookupHits, Counted
<1>2. /\ ADirectory(d)
      /\ \A m \in ANames : /\ Range(d[m]) = Range(lists[m]) \ {k}
                           /\ Places(d, m) = IF k \in Range(lists[m]) THEN Places(lists, m) - 1
                                             ELSE Places(lists, m)
    BY AUnlinks DEF AInv
<1> HIDE DEF d
<1>3. \A m \in ANames : k \notin Range(d[m])
    BY <1>2
<1>4. /\ ADirectory(lists')
      /\ Range(lists'["T2"]) = Range(d["T2"]) \cup {k}
      /\ Places(lists', "T2") = Places(d, "T2") + 1
      /\ \A m \in ANames \ {"T2"} : lists'[m] = d[m]
  <2>1. "T2" \in ANames
    BY DEF ANames
  <2>2. QED
    BY <2>1, <1>1, <1>2, <1>3, ALinks
<1>5. /\ Range(lists'["T1"]) = Range(lists["T1"]) \ {k}
      /\ Range(lists'["T2"]) = Range(lists["T2"]) \cup {k}
      /\ Range(lists'["B1"]) = Range(lists["B1"]) \ {k}
      /\ Range(lists'["B2"]) = Range(lists["B2"]) \ {k}
    BY <1>2, <1>4 DEF ANames
<1>6. k \notin Range(lists["B1"]) /\ k \notin Range(lists["B2"])
      /\ (k \in Range(lists["T1"]) <=> k \notin Range(lists["T2"]))
    BY <1>1 DEF AInv, ADirectory, ANames
<1>7. /\ Places(lists', "T1") = Places(d, "T1")
      /\ Places(lists', "B1") = Places(d, "B1") /\ Places(lists', "B2") = Places(d, "B2")
    BY <1>4 DEF ANames, Places
<1>8. /\ Places(d, "B1") = Places(lists, "B1") /\ Places(d, "B2") = Places(lists, "B2")
      /\ Places(d, "T1") = IF k \in Range(lists["T1"]) THEN Places(lists, "T1") - 1
                           ELSE Places(lists, "T1")
      /\ Places(d, "T2") = IF k \in Range(lists["T2"]) THEN Places(lists, "T2") - 1
                           ELSE Places(lists, "T2")
    BY <1>2, <1>6 DEF ANames
<1>9. /\ Places(lists', "T1") + Places(lists', "T2") = Places(lists, "T1") + Places(lists, "T2")
      /\ Places(lists', "T1") <= Places(lists, "T1")
      /\ Places(lists', "B1") = Places(lists, "B1") /\ Places(lists', "B2") = Places(lists, "B2")
      /\ Places(lists', "T1") \in Int /\ Places(lists', "T2") \in Int
    BY <1>4, <1>6, <1>7, <1>8, AListed
<1>10. ABounded(lists')
    BY <1>9, AListed DEF AInv, ABounded
<1>11. pending = {}
    BY <1>1, AListed
<1>12. uses' \in [Keys -> 0..2] /\ AUsed(lists', uses')
  <2>1. \A x \in Keys \ {k} :
            /\ x \in Range(lists'["T1"]) \cup Range(lists'["B1"])
                  => x \in Range(lists["T1"]) \cup Range(lists["B1"])
            /\ x \in Range(lists'["T2"]) \cup Range(lists'["B2"])
                  => x \in Range(lists["T2"]) \cup Range(lists["B2"])
    BY <1>5
  <2>2. k \in Range(lists'["T2"]) /\ \E n \in ANames : k \in Range(lists[n])
    BY <1>1, <1>5 DEF ANames
  <2>3. /\ ADirectory(lists) /\ uses \in [Keys -> 0..2] /\ AUsed(lists, uses)
    BY DEF AInv
  <2>4. QED
    BY <2>1, <2>2, <2>3, <1>1, <1>4, ACounts
<1>13. Range(lists'["T1"]) \cup Range(lists'["T2"]) \cup pending' = resident'
    BY <1>1, <1>5 DEF AInv
<1>14. QED
    BY <1>1, <1>4, <1>10, <1>11, <1>12, <1>13 DEF AInv, Held

(* A miss that chooses a victim; the rest of a miss is alike.              *)
LEMMA AMissed ==
    ASSUME AInv, NEW k \in Keys, ARC!LookupMisses(k)
    PROVE  /\ k \notin resident /\ resident' = resident \cup {k}
           /\ pending = {} /\ Held(Keys, ArcCapacity)' /\ Counted(Keys)'
           /\ resident = Range(lists["T1"]) \cup Range(lists["T2"])
<1>1. /\ ~ (Cardinality(resident) > ArcCapacity) /\ k \notin resident
      /\ resident' = resident \cup {k} /\ Counted(Keys)'
    BY AWords DEF ARC!LookupMisses, Counted
<1>2. Held(Keys, ArcCapacity)'
  <2>1. Cardinality(resident) <= ArcCapacity /\ ArcCapacity \in Nat
    BY <1>1, AWords DEF AInv, Held
  <2>2. QED
    BY <1>1, <2>1, OneComes DEF AInv, Held
<1>3. QED
    BY <1>1, <1>2, AListed

(* The target stays between none and all of the capacity. *)
LEMMA AAdapts ==
    ASSUME AInv, NEW n \in {"B1", "B2"}, lists[n] # <<>>
    PROVE  ARC!Adapted(n) \in 0..ArcCapacity
<1>1. /\ Places(lists, "B1") \in Nat /\ Places(lists, "B2") \in Nat
      /\ ArcCapacity \in Nat \ {0} /\ target \in 0..ArcCapacity
    BY AListed DEF AInv
<1>2. Places(lists, n) \in Nat \ {0}
    BY <1>1, ASizes DEF AInv, ANames
<1> DEFINE other == Places(lists, IF n = "B1" THEN "B2" ELSE "B1")
           own1  == Places(lists, n)
           move  == ARC!StepOf(lists, n)
<1>3. other \in Nat
    BY <1>1
<1>4. move = IF own1 >= other THEN 1 ELSE other \div own1
    BY DEF ARC!StepOf, Places
<1>5. own1 \in Nat \ {0}
    BY <1>2
<1> HIDE DEF other, own1
<1>6. \A a \in Nat, b \in Nat \ {0} : a \div b \in Nat
    OBVIOUS
<1>7. move \in Nat
    BY <1>3, <1>4, <1>5, <1>6
<1> HIDE DEF move
<1>8. ARC!Adapted(n) = IF n = "B1" THEN IF target + move > ArcCapacity THEN ArcCapacity
                                        ELSE target + move
                       ELSE IF target < move THEN 0 ELSE target - move
    BY DEF ARC!Adapted, move
<1>9. QED
    BY <1>1, <1>7, <1>8

(* A remembered key adapts the target, demotes one key, and enters T2. *)
LEMMA AGhostMisses ==
    ASSUME AInv, NEW k \in Keys, NEW n \in {"B1", "B2"}, ARC!MissGhost(k, n)
    PROVE  AInv'
<1> DEFINE goal == ARC!Adapted(n)
           giver == ARC!Giver(lists, goal, n = "B2")
           v == Last(lists[giver])
           t == ARC!Demote(lists, giver)
           d == ARC!Unlinked(t, k)
<1>1. /\ ARC!LookupMisses(k) /\ k \in Range(lists[n]) /\ target' = goal
      /\ ARC!CanReplace(lists, goal, n = "B2")
      /\ lists' = ARC!Linked(d, "T2", k) /\ pending' = {v} /\ ARC!CountUse(k)
    BY AWords DEF ARC!MissGhost
<1>2. /\ k \notin resident /\ resident' = resident \cup {k}
      /\ pending = {} /\ Held(Keys, ArcCapacity)' /\ Counted(Keys)'
      /\ resident = Range(lists["T1"]) \cup Range(lists["T2"])
    BY <1>1, AMissed
<1>3. target' \in 0..ArcCapacity
  <2>1. lists[n] # <<>>
    BY <1>1 DEF Range
  <2>2. QED
    BY <2>1, <1>1, AAdapts
<1>4. ADirectory(t) /\ AReplaced(lists, t, v)
    BY <1>1, AEitherGives DEF AInv
<1> HIDE DEF goal, giver, v, t
<1>5. /\ ADirectory(d)
      /\ \A m \in ANames : /\ Range(d[m]) = Range(t[m]) \ {k}
                           /\ Places(d, m) = IF k \in Range(t[m]) THEN Places(t, m) - 1
                                             ELSE Places(t, m)
    BY <1>4, AUnlinks
<1> HIDE DEF d
<1>6. /\ k \in Range(t[n]) /\ \A m \in ANames \ {n} : k \notin Range(t[m])
  <2>1. k \in Range(t[n])
    BY <1>1, <1>4 DEF AReplaced
  <2>2. QED
    BY <2>1, <1>4 DEF ADirectory, ANames
<1>7. \A m \in ANames : k \notin Range(d[m])
    BY <1>5
<1>8. /\ ADirectory(lists')
      /\ Range(lists'["T2"]) = Range(d["T2"]) \cup {k}
      /\ Places(lists', "T2") = Places(d, "T2") + 1
      /\ \A m \in ANames \ {"T2"} : lists'[m] = d[m]
  <2>1. "T2" \in ANames
    BY DEF ANames
  <2>2. QED
    BY <2>1, <1>1, <1>5, <1>7, ALinks
<1>9. /\ Range(lists'["T1"]) = Range(t["T1"])
      /\ Range(lists'["T2"]) = Range(t["T2"]) \cup {k}
      /\ Range(lists'["B1"]) = Range(t["B1"]) \ {k}
      /\ Range(lists'["B2"]) = Range(t["B2"]) \ {k}
    BY <1>5, <1>6, <1>8 DEF ANames
<1>10. /\ Places(lists', "T1") = Places(t, "T1")
       /\ Places(lists', "T2") = Places(t, "T2") + 1
       /\ Places(lists', "B1") = IF n = "B1" THEN Places(t, "B1") - 1 ELSE Places(t, "B1")
       /\ Places(lists', "B2") = IF n = "B2" THEN Places(t, "B2") - 1 ELSE Places(t, "B2")
  <2>1. /\ Places(lists', "T1") = Places(d, "T1")
        /\ Places(lists', "B1") = Places(d, "B1") /\ Places(lists', "B2") = Places(d, "B2")
    BY <1>8 DEF ANames, Places
  <2>2. /\ Places(d, "T1") = Places(t, "T1") /\ Places(d, "T2") = Places(t, "T2")
        /\ Places(d, "B1") = IF n = "B1" THEN Places(t, "B1") - 1 ELSE Places(t, "B1")
        /\ Places(d, "B2") = IF n = "B2" THEN Places(t, "B2") - 1 ELSE Places(t, "B2")
    BY <1>5, <1>6 DEF ANames
  <2>3. QED
    BY <2>1, <2>2, <1>8
<1>11. /\ Places(t, "T1") + Places(t, "T2") = Places(lists, "T1") + Places(lists, "T2") - 1
       /\ Places(t, "T1") + Places(t, "B1") = Places(lists, "T1") + Places(lists, "B1")
       /\ Places(t, "T2") + Places(t, "B2") = Places(lists, "T2") + Places(lists, "B2")
    BY <1>4 DEF AReplaced
<1>12. /\ Places(t, "T1") \in Nat /\ Places(t, "T2") \in Nat
       /\ Places(t, "B1") \in Nat /\ Places(t, "B2") \in Nat
    BY <1>4, ASizes DEF ANames
<1>13. Places(lists, "B1") + Places(lists, "B2") > 0
  <2>1. Places(lists, n) # 0
    BY <1>1, ASizes DEF AInv, ANames
  <2>2. QED
    BY <2>1, AListed
<1>14. /\ Places(lists, "T1") + Places(lists, "T2") = ArcCapacity
       /\ Places(lists, "T1") + Places(lists, "B1") <= ArcCapacity
       /\ Places(lists, "T1") + Places(lists, "T2") + Places(lists, "B1") + Places(lists, "B2")
             <= 2 * ArcCapacity
    BY <1>13 DEF AInv, ABounded
<1>15. ABounded(lists') /\ Places(lists', "T1") + Places(lists', "T2") = ArcCapacity
    BY <1>10, <1>11, <1>12, <1>14, AListed DEF ABounded
<1>16. /\ Range(lists'["T1"]) \cup Range(lists'["T2"]) = (resident \ {v}) \cup {k}
       /\ v \in resident /\ v # k /\ v \in Keys
  <2>1. v \in resident
    BY <1>2, <1>4 DEF AReplaced
  <2>2. v # k /\ v \in Keys
    BY <2>1, <1>2 DEF AInv, Held
  <2>3. QED
    BY <2>1, <2>2, <1>2, <1>4, <1>9 DEF AReplaced
<1>17. uses' \in [Keys -> 0..2] /\ AUsed(lists', uses')
  <2>1. \A x \in Keys \ {k} :
            /\ x \in Range(lists'["T1"]) \cup Range(lists'["B1"])
                  => x \in Range(lists["T1"]) \cup Range(lists["B1"])
            /\ x \in Range(lists'["T2"]) \cup Range(lists'["B2"])
                  => x \in Range(lists["T2"]) \cup Range(lists["B2"])
    BY <1>4, <1>9 DEF AReplaced
  <2>2. k \in Range(lists'["T2"]) /\ \E m \in ANames : k \in Range(lists[m])
    BY <1>1, <1>9 DEF ANames
  <2>3. /\ ADirectory(lists) /\ uses \in [Keys -> 0..2] /\ AUsed(lists, uses)
    BY DEF AInv
  <2>4. QED
    BY <2>1, <2>2, <2>3, <1>1, <1>8, ACounts
<1>18. /\ v \notin Range(lists'["T1"]) \cup Range(lists'["T2"])
       /\ Range(lists'["T1"]) \cup Range(lists'["T2"]) \cup pending' = resident'
    BY <1>1, <1>2, <1>16
<1>19. QED
    BY <1>1, <1>2, <1>3, <1>8, <1>15, <1>16, <1>17, <1>18 DEF AInv

(* The cache lists are full, and there is room in the directory.           *)
ARoomMade(e) ==
    /\ ADirectory(e)
    /\ \A m \in ANames : Range(e[m]) \subseteq Range(lists[m])
    /\ e["T1"] = lists["T1"] /\ e["T2"] = lists["T2"]
    /\ Places(e, "T1") + Places(e, "T2") = ArcCapacity
    /\ Places(e, "T1") + Places(e, "B1") < ArcCapacity
    /\ Places(e, "T1") + Places(e, "T2") + Places(e, "B1") + Places(e, "B2") < 2 * ArcCapacity

(* A new key then has one key demoted, and is first in T1.                 *)
AReplacing(e, k) ==
    /\ ARC!CanReplace(e, target, FALSE)
    /\ lists' = ARC!Linked(ARC!Demote(e, ARC!Giver(e, target, FALSE)), "T1", k)
    /\ pending' = {Last(e[ARC!Giver(e, target, FALSE)])}

(* A new key that demotes another, once there is room in the directory. *)
LEMMA ANewReplaces ==
    ASSUME AInv, NEW k \in Keys, ARC!LookupMisses(k), k \notin ARC!Remembered,
           NEW e, ARoomMade(e), AReplacing(e, k),
           ARC!CountUse(k), target' = target
    PROVE  AInv'
<1> DEFINE giver == ARC!Giver(e, target, FALSE)
           v == Last(e[giver])
           t == ARC!Demote(e, giver)
<1>1. ADirectory(t) /\ AReplaced(e, t, v)
    BY AEitherGives DEF ARoomMade, AReplacing
<1>2. lists' = ARC!Linked(t, "T1", k) /\ pending' = {v}
    BY DEF AReplacing
<1> HIDE DEF giver, v, t
<1>3. /\ k \notin resident /\ resident' = resident \cup {k}
      /\ pending = {} /\ Held(Keys, ArcCapacity)' /\ Counted(Keys)'
      /\ resident = Range(lists["T1"]) \cup Range(lists["T2"])
    BY AMissed
<1>4. \A m \in ANames : k \notin Range(lists[m])
    BY AWords DEF ARC!Remembered, ANames
<1>5. \A m \in ANames : k \notin Range(t[m])
    BY <1>1, <1>4 DEF AReplaced, ANames, ARoomMade
<1>6. /\ ADirectory(lists')
      /\ Range(lists'["T1"]) = Range(t["T1"]) \cup {k}
      /\ Places(lists', "T1") = Places(t, "T1") + 1
      /\ \A m \in ANames \ {"T1"} : lists'[m] = t[m]
  <2>1. "T1" \in ANames /\ ADirectory(t)
    BY <1>1 DEF ANames
  <2>2. /\ ADirectory(ARC!Linked(t, "T1", k))
        /\ Range(ARC!Linked(t, "T1", k)["T1"]) = Range(t["T1"]) \cup {k}
        /\ Places(ARC!Linked(t, "T1", k), "T1") = Places(t, "T1") + 1
        /\ \A m \in ANames \ {"T1"} : ARC!Linked(t, "T1", k)[m] = t[m]
    BY <2>1, <1>5, ALinks
  <2>3. QED
    BY <2>2, <1>2
<1>7. lists'["T2"] = t["T2"] /\ lists'["B1"] = t["B1"] /\ lists'["B2"] = t["B2"]
    BY <1>6 DEF ANames
<1>8. /\ Places(lists', "T2") = Places(t, "T2")
      /\ Places(lists', "B1") = Places(t, "B1") /\ Places(lists', "B2") = Places(t, "B2")
    BY <1>7 DEF Places
<1>9. /\ Places(t, "T1") \in Nat /\ Places(t, "T2") \in Nat
      /\ Places(t, "B1") \in Nat /\ Places(t, "B2") \in Nat
      /\ Places(e, "T1") \in Nat /\ Places(e, "T2") \in Nat
      /\ Places(e, "B1") \in Nat /\ Places(e, "B2") \in Nat
    BY <1>1, ASizes DEF ANames, ARoomMade
<1>10. /\ Places(t, "T1") + Places(t, "T2") = Places(e, "T1") + Places(e, "T2") - 1
       /\ Places(t, "T1") + Places(t, "B1") = Places(e, "T1") + Places(e, "B1")
       /\ Places(t, "T2") + Places(t, "B2") = Places(e, "T2") + Places(e, "B2")
    BY <1>1 DEF AReplaced
<1>11. ABounded(lists') /\ Places(lists', "T1") + Places(lists', "T2") = ArcCapacity
  <2>1. Places(lists', "T1") = Places(t, "T1") + 1
    BY <1>6
  <2>2. ArcCapacity \in Nat
    BY AWords
  <2>3. /\ Places(e, "T1") + Places(e, "T2") = ArcCapacity
        /\ Places(e, "T1") + Places(e, "B1") < ArcCapacity
        /\ Places(e, "T1") + Places(e, "T2") + Places(e, "B1") + Places(e, "B2") < 2 * ArcCapacity
    BY DEF ARoomMade
  <2>4. Places(lists', "T1") + Places(lists', "T2") = ArcCapacity
    BY <2>1, <2>2, <2>3, <1>8, <1>9, <1>10
  <2>5. Places(lists', "T1") + Places(lists', "B1") <= ArcCapacity
    BY <2>1, <2>2, <2>3, <1>8, <1>9, <1>10
  <2>6. Places(lists', "T1") + Places(lists', "T2") + Places(lists', "B1") + Places(lists', "B2")
           <= 2 * ArcCapacity
    <3>1. Places(lists', "T2") + Places(lists', "B2") = Places(e, "T2") + Places(e, "B2")
        BY <1>8, <1>10
    <3>2. Places(lists', "T1") + Places(lists', "B1") = Places(e, "T1") + Places(e, "B1") + 1
        BY <2>1, <1>8, <1>9, <1>10
    <3>3. QED
        BY <3>1, <3>2, <2>1, <2>2, <2>3, <1>8, <1>9
  <2>7. QED
    BY <2>2, <2>4, <2>5, <2>6 DEF ABounded
<1>12. /\ Range(lists'["T1"]) \cup Range(lists'["T2"]) = (resident \ {v}) \cup {k}
       /\ v \in resident /\ v # k /\ v \in Keys
  <2>0. e["T1"] = lists["T1"] /\ e["T2"] = lists["T2"]
    BY DEF ARoomMade
  <2>1. v \in resident
    BY <2>0, <1>1, <1>3 DEF AReplaced
  <2>2. v # k /\ v \in Keys
    BY <2>1, <1>3 DEF AInv, Held
  <2>3. QED
    BY <2>0, <2>1, <2>2, <1>1, <1>3, <1>6, <1>7 DEF AReplaced
<1>13. uses' \in [Keys -> 0..2] /\ AUsed(lists', uses')
  <2>1. /\ e["T1"] = lists["T1"] /\ e["T2"] = lists["T2"]
        /\ Range(e["B1"]) \subseteq Range(lists["B1"]) /\ Range(e["B2"]) \subseteq Range(lists["B2"])
    BY DEF ANames, ARoomMade
  <2>2. \A x \in Keys \ {k} :
            /\ x \in Range(lists'["T1"]) \cup Range(lists'["B1"])
                  => x \in Range(lists["T1"]) \cup Range(lists["B1"])
            /\ x \in Range(lists'["T2"]) \cup Range(lists'["B2"])
                  => x \in Range(lists["T2"]) \cup Range(lists["B2"])
    BY <2>1, <1>1, <1>6, <1>7 DEF AReplaced
  <2>3. k \in Range(lists'["T1"]) /\ \A m \in ANames : k \notin Range(lists[m])
    BY <1>4, <1>6
  <2>4. /\ ADirectory(lists) /\ uses \in [Keys -> 0..2] /\ AUsed(lists, uses)
    BY DEF AInv
  <2>5. QED
    BY <2>2, <2>3, <2>4, <1>6, ACounts
<1>14. /\ v \notin Range(lists'["T1"]) \cup Range(lists'["T2"])
       /\ Range(lists'["T1"]) \cup Range(lists'["T2"]) \cup pending' = resident'
    BY <1>2, <1>3, <1>12
<1>15. target' \in 0..ArcCapacity
    BY DEF AInv
<1>16. QED
    BY <1>2, <1>3, <1>6, <1>11, <1>12, <1>13, <1>14, <1>15 DEF AInv

(* The ghosts dropped in each case.                                        *)
LEMMA ARecentDropped ==
    ASSUME AInv, Places(lists, "T1") + Places(lists, "B1") = ArcCapacity,
           Places(lists, "T1") < ArcCapacity
    PROVE  ARoomMade(ARC!DropOldestGhost(lists, "B1"))
<1> DEFINE e == ARC!DropOldestGhost(lists, "B1")
<1>1. /\ ArcCapacity \in Nat \ {0}
      /\ Places(lists, "T1") \in Nat /\ Places(lists, "T2") \in Nat
      /\ Places(lists, "B1") \in Nat /\ Places(lists, "B2") \in Nat
    BY AListed
<1>2. "B1" \in ANames /\ ADirectory(lists)
    BY DEF ANames, AInv
<1>3. lists["B1"] # <<>>
    BY <1>1, <1>2, ASizes
<1>4. /\ ADirectory(e) /\ Range(e["B1"]) \subseteq Range(lists["B1"])
      /\ Places(e, "B1") = Places(lists, "B1") - 1
      /\ \A m \in ANames \ {"B1"} : e[m] = lists[m]
    BY <1>2, <1>3, ADrops
<1> HIDE DEF e
<1>5. \A m \in ANames : Range(e[m]) \subseteq Range(lists[m])
    BY <1>4
<1>6. e["T1"] = lists["T1"] /\ e["T2"] = lists["T2"] /\ e["B2"] = lists["B2"]
    BY <1>4 DEF ANames
<1>7. /\ Places(e, "T1") = Places(lists, "T1") /\ Places(e, "T2") = Places(lists, "T2")
      /\ Places(e, "B2") = Places(lists, "B2")
    BY <1>6 DEF Places
<1>8. /\ Places(lists, "T1") + Places(lists, "T2") = ArcCapacity
      /\ Places(lists, "T1") + Places(lists, "T2") + Places(lists, "B1") + Places(lists, "B2")
            <= 2 * ArcCapacity
    BY <1>1 DEF AInv, ABounded
<1>9. QED
    BY <1>1, <1>4, <1>5, <1>6, <1>7, <1>8 DEF e, ARoomMade

(* Dropping the oldest ghost of B2 makes that room when the directory is *)
(* full.                                                                 *)
LEMMA ATrims ==
    ASSUME AInv, Places(lists, "T1") + Places(lists, "B1") < ArcCapacity,
           ARC!Total(lists) >= ArcCapacity
    PROVE  ARoomMade(ARC!Trimmed)
<1> DEFINE e == ARC!Trimmed
<1>1. /\ ArcCapacity \in Nat \ {0}
      /\ Places(lists, "T1") \in Nat /\ Places(lists, "T2") \in Nat
      /\ Places(lists, "B1") \in Nat /\ Places(lists, "B2") \in Nat
    BY AListed
<1>2. ARC!Total(lists) = Places(lists, "T1") + Places(lists, "T2")
                         + Places(lists, "B1") + Places(lists, "B2")
    BY DEF ARC!Total, Places
<1>3. "B2" \in ANames /\ ADirectory(lists)
    BY DEF ANames, AInv
<1>4. /\ Places(lists, "T1") + Places(lists, "T2") = ArcCapacity
      /\ Places(lists, "T1") + Places(lists, "T2") + Places(lists, "B1") + Places(lists, "B2")
            <= 2 * ArcCapacity
  <2>1. /\ Places(lists, "T1") + Places(lists, "T2") <= ArcCapacity
        /\ Places(lists, "T1") + Places(lists, "T2") + Places(lists, "B1") + Places(lists, "B2")
              <= 2 * ArcCapacity
        /\ Places(lists, "B1") + Places(lists, "B2") > 0
              => Places(lists, "T1") + Places(lists, "T2") = ArcCapacity
    BY DEF AInv, ABounded
  <2>2. QED
    BY <2>1, <1>1, <1>2
<1>5. CASE ARC!Total(lists) = 2 * ArcCapacity
  <2>1. e = ARC!DropOldestGhost(lists, "B2")
    BY <1>5 DEF ARC!Trimmed
  <2>2. Places(lists, "B2") # 0
    BY <1>1, <1>2, <1>4, <1>5
  <2>3. lists["B2"] # <<>>
    BY <2>2, <1>3, ASizes
  <2> HIDE DEF e
  <2>4. /\ ADirectory(e) /\ Range(e["B2"]) \subseteq Range(lists["B2"])
        /\ Places(e, "B2") = Places(lists, "B2") - 1
        /\ \A m \in ANames \ {"B2"} : e[m] = lists[m]
    BY <2>1, <2>3, <1>3, ADrops
  <2>5. \A m \in ANames : Range(e[m]) \subseteq Range(lists[m])
    BY <2>4
  <2>6. e["T1"] = lists["T1"] /\ e["T2"] = lists["T2"] /\ e["B1"] = lists["B1"]
    BY <2>4 DEF ANames
  <2>7. /\ Places(e, "T1") = Places(lists, "T1") /\ Places(e, "T2") = Places(lists, "T2")
        /\ Places(e, "B1") = Places(lists, "B1")
    BY <2>6 DEF Places
  <2>8. QED
    BY <1>1, <1>4, <2>4, <2>5, <2>6, <2>7 DEF e, ARoomMade
<1>6. CASE ARC!Total(lists) # 2 * ArcCapacity
  <2>1. e = lists
    BY <1>6 DEF ARC!Trimmed
  <2> HIDE DEF e
  <2>2. Places(lists, "T1") + Places(lists, "T2") + Places(lists, "B1") + Places(lists, "B2")
           < 2 * ArcCapacity
    BY <1>1, <1>2, <1>4, <1>6
  <2>3. QED
    BY <1>3, <1>4, <2>1, <2>2 DEF e, ARoomMade
<1>7. QED
    BY <1>5, <1>6

(* A new key keeps the bounds when T1 and B1 are full, and when the cache *)
(* is.                                                                    *)
LEMMA ANewMisses ==
    ASSUME AInv, NEW k \in Keys,
           ARC!MissRecentSideFull(k) \/ ARC!MissCacheFull(k)
    PROVE  AInv'
<1>1. ARC!LookupMisses(k) /\ k \notin ARC!Remembered /\ ARC!CountUse(k) /\ target' = target
    BY DEF ARC!MissRecentSideFull, ARC!MissCacheFull
<1>2. CASE ARC!MissRecentSideFull(k)
  <2> DEFINE e == ARC!DropOldestGhost(lists, "B1")
  <2>1. /\ Places(lists, "T1") + Places(lists, "B1") = ArcCapacity
        /\ Places(lists, "T1") < ArcCapacity
        /\ AReplacing(e, k)
    BY <1>2, AWords DEF ARC!MissRecentSideFull, Places, AReplacing
  <2>2. ARoomMade(e)
    BY <2>1, ARecentDropped
  <2> HIDE DEF e
  <2>3. QED
    BY <1>1, <2>1, <2>2, ANewReplaces
<1>3. CASE ARC!MissCacheFull(k)
  <2> DEFINE e == ARC!Trimmed
  <2>1. /\ Places(lists, "T1") + Places(lists, "B1") < ArcCapacity
        /\ ARC!Total(lists) >= ArcCapacity
        /\ AReplacing(e, k)
    BY <1>3, AWords DEF ARC!MissCacheFull, Places, AReplacing
  <2>2. ARoomMade(e)
    BY <2>1, ATrims
  <2> HIDE DEF e
  <2>3. QED
    BY <1>1, <2>1, <2>2, ANewReplaces
<1>4. QED
    BY <1>2, <1>3

(* T1 is the whole cache, and its oldest leaves for good.                  *)
LEMMA ARecentCacheFull ==
    ASSUME AInv, NEW k \in Keys, ARC!MissRecentCacheFull(k)
    PROVE  AInv'
<1> DEFINE front == Front(lists["T1"])
           v == Last(lists["T1"])
           s == <<k>> \o front
<1>1. /\ ARC!LookupMisses(k) /\ k \notin ARC!Remembered /\ ARC!CountUse(k)
      /\ target' = target /\ pending' = {v}
      /\ Places(lists, "T1") + Places(lists, "B1") = ArcCapacity
      /\ Places(lists, "T1") = ArcCapacity
    BY AWords DEF ARC!MissRecentCacheFull, Places
<1>2. lists' = [lists EXCEPT !["T1"] = s]
    BY AWords DEF ARC!MissRecentCacheFull
<1>3. /\ k \notin resident /\ resident' = resident \cup {k}
      /\ pending = {} /\ Held(Keys, ArcCapacity)' /\ Counted(Keys)'
      /\ resident = Range(lists["T1"]) \cup Range(lists["T2"])
    BY <1>1, AMissed
<1>4. \A m \in ANames : k \notin Range(lists[m])
    BY <1>1, AWords DEF ARC!Remembered, ANames
<1>5. /\ ADirectory(lists) /\ "T1" \in ANames
    BY DEF AInv, ANames
<1>6. /\ lists["T1"] \in Seq(Keys) /\ IsInjective(lists["T1"]) /\ lists["T1"] # <<>>
      /\ Range(lists["T1"]) \subseteq Keys
    BY <1>1, <1>5, ASizes, AWords
<1>7. /\ front \in Seq(Keys) /\ IsInjective(front)
      /\ Range(front) = Range(lists["T1"]) \ {v} /\ v \in Range(lists["T1"])
      /\ Len(front) = Len(lists["T1"]) - 1
    BY <1>6, LeaveBack
<1> HIDE DEF front, v
<1>8. k \notin Range(front)
    BY <1>4, <1>5, <1>7
<1>9. /\ s \in Seq(Keys) /\ IsInjective(s) /\ Range(s) = Range(front) \cup {k}
      /\ Len(s) = Len(front) + 1
    BY <1>7, <1>8, JoinFront
<1> HIDE DEF s
<1>10. \A m \in ANames \ {"T1"} : Range(s) \cap Range(lists[m]) = {}
    BY <1>4, <1>5, <1>7, <1>9 DEF ADirectory
<1>11. /\ ADirectory(lists') /\ lists'["T1"] = s
       /\ \A m \in ANames \ {"T1"} : lists'[m] = lists[m]
  <2>1. /\ ADirectory([lists EXCEPT !["T1"] = s])
        /\ [lists EXCEPT !["T1"] = s]["T1"] = s
        /\ \A m \in ANames \ {"T1"} : [lists EXCEPT !["T1"] = s][m] = lists[m]
    BY <1>5, <1>9, <1>10, AChanges
  <2>2. QED
    BY <2>1, <1>2
<1>12. lists'["T2"] = lists["T2"] /\ lists'["B1"] = lists["B1"] /\ lists'["B2"] = lists["B2"]
    BY <1>11 DEF ANames
<1>13. Places(lists', "T1") = Places(lists, "T1")
  <2>1. Len(s) = Len(lists["T1"]) - 1 + 1 /\ Places(lists', "T1") = Len(s)
    BY <1>7, <1>9, <1>11 DEF Places
  <2>2. Len(lists["T1"]) \in Nat
    BY <1>6, LenProperties
  <2>3. Len(s) = Len(lists["T1"])
    BY <2>1, <2>2
  <2>4. QED
    BY <2>1, <2>3 DEF Places
<1>14. /\ Places(lists', "T2") = Places(lists, "T2")
       /\ Places(lists', "B1") = Places(lists, "B1") /\ Places(lists', "B2") = Places(lists, "B2")
    BY <1>12 DEF Places
<1>15. ABounded(lists')
    BY <1>13, <1>14 DEF AInv, ABounded
<1>16. Places(lists', "T1") + Places(lists', "T2") = ArcCapacity
  <2>1. Places(lists, "T1") + Places(lists, "T2") <= ArcCapacity
    BY DEF AInv, ABounded
  <2>2. QED
    BY <2>1, <1>1, <1>13, <1>14, AListed
<1>17. /\ v \in Keys /\ v # k /\ v \notin Range(lists["T2"])
    BY <1>4, <1>5, <1>6, <1>7, AListed
<1>18. /\ v \notin Range(lists'["T1"]) \cup Range(lists'["T2"])
       /\ Range(lists'["T1"]) \cup Range(lists'["T2"]) \cup pending' = resident'
    BY <1>1, <1>3, <1>7, <1>9, <1>11, <1>12, <1>17
<1>19. uses' \in [Keys -> 0..2] /\ AUsed(lists', uses')
  <2>1. \A x \in Keys \ {k} :
            /\ x \in Range(lists'["T1"]) \cup Range(lists'["B1"])
                  => x \in Range(lists["T1"]) \cup Range(lists["B1"])
            /\ x \in Range(lists'["T2"]) \cup Range(lists'["B2"])
                  => x \in Range(lists["T2"]) \cup Range(lists["B2"])
    BY <1>7, <1>9, <1>11, <1>12
  <2>2. k \in Range(lists'["T1"]) /\ \A m \in ANames : k \notin Range(lists[m])
    BY <1>4, <1>9, <1>11
  <2>3. /\ uses \in [Keys -> 0..2] /\ AUsed(lists, uses)
    BY DEF AInv
  <2>4. QED
    BY <2>1, <2>2, <2>3, <1>1, <1>5, <1>11, ACounts
<1>20. target' \in 0..ArcCapacity
    BY <1>1 DEF AInv
<1>21. QED
    BY <1>1, <1>3, <1>11, <1>15, <1>16, <1>17, <1>18, <1>19, <1>20 DEF AInv

(* A new key enters T1 while there is room in the cache. *)
LEMMA ARoomLeft ==
    ASSUME AInv, NEW k \in Keys, ARC!MissWithRoom(k)
    PROVE  AInv'
<1>1. /\ ARC!LookupMisses(k) /\ k \notin ARC!Remembered /\ ARC!CountUse(k)
      /\ target' = target /\ pending' = pending
      /\ Places(lists, "T1") + Places(lists, "B1") < ArcCapacity
      /\ ARC!Total(lists) < ArcCapacity
      /\ lists' = ARC!Linked(lists, "T1", k)
    BY AWords DEF ARC!MissWithRoom, Places
<1>2. /\ k \notin resident /\ resident' = resident \cup {k}
      /\ pending = {} /\ Held(Keys, ArcCapacity)' /\ Counted(Keys)'
      /\ resident = Range(lists["T1"]) \cup Range(lists["T2"])
    BY <1>1, AMissed
<1>3. \A m \in ANames : k \notin Range(lists[m])
    BY <1>1, AWords DEF ARC!Remembered, ANames
<1>4. /\ ADirectory(lists')
      /\ Range(lists'["T1"]) = Range(lists["T1"]) \cup {k}
      /\ Places(lists', "T1") = Places(lists, "T1") + 1
      /\ \A m \in ANames \ {"T1"} : lists'[m] = lists[m]
  <2>1. "T1" \in ANames /\ ADirectory(lists)
    BY DEF ANames, AInv
  <2>2. QED
    BY <2>1, <1>1, <1>3, ALinks
<1>5. lists'["T2"] = lists["T2"] /\ lists'["B1"] = lists["B1"] /\ lists'["B2"] = lists["B2"]
    BY <1>4 DEF ANames
<1>6. /\ Places(lists', "T2") = Places(lists, "T2")
      /\ Places(lists', "B1") = Places(lists, "B1") /\ Places(lists', "B2") = Places(lists, "B2")
    BY <1>5 DEF Places
<1>7. ABounded(lists')
  <2>1. ARC!Total(lists) = Places(lists, "T1") + Places(lists, "T2")
                           + Places(lists, "B1") + Places(lists, "B2")
    BY DEF ARC!Total, Places
  <2>2. /\ ArcCapacity \in Nat \ {0}
        /\ Places(lists, "T1") \in Nat /\ Places(lists, "T2") \in Nat
        /\ Places(lists, "B1") \in Nat /\ Places(lists, "B2") \in Nat
    BY AListed
  <2>3. /\ Places(lists, "B1") + Places(lists, "B2") > 0
              => Places(lists, "T1") + Places(lists, "T2") = ArcCapacity
    BY DEF AInv, ABounded
  <2>4. Places(lists, "B1") = 0 /\ Places(lists, "B2") = 0
    <3>1. ARC!Total(lists) < ArcCapacity
        BY <1>1
    <3>2. QED
        BY <3>1, <2>1, <2>2, <2>3
  <2>5. QED
    BY <1>1, <1>4, <1>6, <2>1, <2>2, <2>4 DEF ABounded
<1>8. uses' \in [Keys -> 0..2] /\ AUsed(lists', uses')
  <2>1. \A x \in Keys \ {k} :
            /\ x \in Range(lists'["T1"]) \cup Range(lists'["B1"])
                  => x \in Range(lists["T1"]) \cup Range(lists["B1"])
            /\ x \in Range(lists'["T2"]) \cup Range(lists'["B2"])
                  => x \in Range(lists["T2"]) \cup Range(lists["B2"])
    BY <1>4, <1>5
  <2>2. k \in Range(lists'["T1"]) /\ \A m \in ANames : k \notin Range(lists[m])
    BY <1>3, <1>4
  <2>3. /\ ADirectory(lists) /\ uses \in [Keys -> 0..2] /\ AUsed(lists, uses)
    BY DEF AInv
  <2>4. QED
    BY <2>1, <2>2, <2>3, <1>1, <1>4, ACounts
<1>9. Range(lists'["T1"]) \cup Range(lists'["T2"]) \cup pending' = resident'
    BY <1>1, <1>2, <1>4, <1>5
<1>10. target' \in 0..ArcCapacity /\ pending' = {}
    BY <1>1, <1>2 DEF AInv
<1>11. QED
    BY <1>2, <1>4, <1>7, <1>8, <1>9, <1>10 DEF AInv

(* evict() hands the waiting victim over. *)
LEMMA AEvicts ==
    ASSUME AInv, ARC!Evict
    PROVE  AInv'
<1>1. PICK v \in pending : ARC!Discard(v) /\ pending' = {} /\ UNCHANGED <<lists, target, uses>>
    BY DEF ARC!Evict
<1>2. resident' = resident \ {v} /\ event' = [op |-> "evict", key |-> v]
    BY <1>1 DEF ARC!Discard
<1>3. pending = {v} /\ v \in Keys /\ v \notin Range(lists["T1"]) \cup Range(lists["T2"])
    BY <1>1 DEF AInv
<1>4. Held(Keys, ArcCapacity)'
  <2>1. ArcCapacity + 1 \in Nat
    BY AWords
  <2>2. QED
    BY <1>2, <2>1, OneGoes DEF AInv, Held
<1>5. Counted(Keys)'
    BY <1>2, <1>3 DEF Counted
<1>6. Range(lists'["T1"]) \cup Range(lists'["T2"]) \cup pending' = resident'
    BY <1>1, <1>2, <1>3 DEF AInv
<1>7. QED
    BY <1>1, <1>4, <1>5, <1>6 DEF AInv

(* Every call keeps the invariant. *)
LEMMA AStep ==
    ASSUME AInv, ARC!Next
    PROVE  AInv'
<1>1. ASSUME NEW k \in Keys, ARC!Hit(k) \/ ARC!Miss(k)
      PROVE  AInv'
    BY <1>1, AHits, AGhostMisses, ANewMisses, ARecentCacheFull, ARoomLeft DEF ARC!Miss
<1>2. QED
    BY <1>1, AEvicts DEF ARC!Next

(* The constructor establishes the invariant. *)
LEMMA AStart == ARC!Init => AInv
<1>1. SUFFICES ASSUME ARC!Init PROVE AInv
    OBVIOUS
<1>2. <<>> \in Seq(Keys) /\ IsInjective(<<>>) /\ Range(<<>>) = {} /\ Len(<<>>) = 0
    BY EmptySeq DEF IsInjective, Range
<1>3. IsFiniteSet({}) /\ Cardinality({}) = 0 /\ ArcCapacity \in Nat \ {0}
    BY FS_EmptySet, AWords
<1>4. lists = [n \in ANames |-> <<>>]
    BY <1>1, AWords DEF ARC!Init, ANames
<1>5. \A n \in ANames : lists[n] = <<>>
    BY <1>4
<1>6. ADirectory(lists)
    BY <1>2, <1>4, <1>5 DEF ADirectory
<1>7. /\ Places(lists, "T1") = 0 /\ Places(lists, "T2") = 0
      /\ Places(lists, "B1") = 0 /\ Places(lists, "B2") = 0
      /\ Range(lists["T1"]) = {} /\ Range(lists["T2"]) = {}
      /\ Range(lists["B1"]) = {} /\ Range(lists["B2"]) = {}
    BY <1>2, <1>5 DEF Places, ANames
<1>8. ABounded(lists)
    BY <1>3, <1>7 DEF ABounded
<1>9. uses = [k \in Keys |-> 0]
    BY <1>1 DEF ARC!Init
<1>10. uses \in [Keys -> 0..2] /\ AUsed(lists, uses)
    BY <1>7, <1>9 DEF AUsed
<1>11. QED
    BY <1>1, <1>3, <1>6, <1>7, <1>8, <1>10 DEF ARC!Init, ARC!HarnessInit, AInv, Held, Counted

(* REPLACE finds an entry in T2, or takes T1's.                            *)
LEMMA ACanReplace ==
    ASSUME NEW ls, ADirectory(ls), NEW goal, NEW fromB2,
           Places(ls, "T2") # 0 \/ ARC!TakeFromT1(ls, goal, fromB2)
    PROVE  ARC!CanReplace(ls, goal, fromB2)
<1>1. CASE ARC!TakeFromT1(ls, goal, fromB2)
  <2>1. ARC!Giver(ls, goal, fromB2) = "T1"
    BY <1>1 DEF ARC!Giver
  <2>2. Places(ls, "T1") >= 1
    BY <1>1 DEF ARC!TakeFromT1, Places
  <2>3. ls["T1"] # <<>>
    BY <2>2, ASizes DEF ANames
  <2>4. QED
    BY <2>1, <2>3 DEF ARC!CanReplace
<1>2. CASE ~ ARC!TakeFromT1(ls, goal, fromB2)
  <2>1. ARC!Giver(ls, goal, fromB2) = "T2"
    BY <1>2 DEF ARC!Giver
  <2>2. ls["T2"] # <<>>
    BY <1>2, ASizes DEF ANames
  <2>3. QED
    BY <2>1, <2>2 DEF ARC!CanReplace
<1>3. QED
    BY <1>1, <1>2

(* REPLACE always finds a key to demote, and a victim waits when one is *)
(* asked for.                                                           *)
LEMMA AAnswers == AInv => ARC!AlwaysAnswers
<1>1. SUFFICES ASSUME AInv PROVE ARC!AlwaysAnswers
    OBVIOUS
<1>2. /\ ArcCapacity \in Nat \ {0}
      /\ Places(lists, "T1") \in Nat /\ Places(lists, "T2") \in Nat
      /\ Places(lists, "B1") \in Nat /\ Places(lists, "B2") \in Nat
      /\ ARC!OverCapacity <=> pending # {}
      /\ pending = {} => resident = Range(lists["T1"]) \cup Range(lists["T2"])
    BY <1>1, AListed, AWords
<1>3. /\ Places(lists, "T1") + Places(lists, "B1") <= ArcCapacity
      /\ Places(lists, "T1") + Places(lists, "T2") <= ArcCapacity
      /\ Places(lists, "B1") + Places(lists, "B2") > 0
            => Places(lists, "T1") + Places(lists, "T2") = ArcCapacity
    BY <1>1 DEF AInv, ABounded
<1>4. ADirectory(lists)
    BY <1>1 DEF AInv
<1>5. ASSUME NEW n \in {"B1", "B2"}, lists[n] # <<>>
      PROVE  ARC!CanReplace(lists, ARC!Adapted(n), n = "B2")
  <2> DEFINE goal == ARC!Adapted(n)
  <2>1. goal \in 0..ArcCapacity
    BY <1>1, <1>5, AAdapts
  <2> HIDE DEF goal
  <2>2. Places(lists, n) # 0
    BY <1>4, <1>5, ASizes DEF ANames
  <2>3. Places(lists, "T1") + Places(lists, "T2") = ArcCapacity
    BY <1>2, <1>3, <2>2
  <2>4. CASE Places(lists, "T2") # 0
    BY <1>4, <2>4, ACanReplace DEF goal
  <2>5. CASE Places(lists, "T2") = 0
    <3>1. Places(lists, "T1") = ArcCapacity
        BY <1>2, <2>3, <2>5
    <3>2. Places(lists, "B1") = 0
        BY <1>2, <1>3, <3>1
    <3>3. n = "B2"
        BY <2>2, <3>2
    <3>4. /\ Places(lists, "T1") >= 1
          /\ Places(lists, "T1") = goal \/ Places(lists, "T1") > goal
        BY <1>2, <2>1, <3>1
    <3>5. ARC!TakeFromT1(lists, goal, n = "B2")
        BY <3>3, <3>4 DEF ARC!TakeFromT1, Places
    <3>6. QED
        BY <1>4, <3>5, ACanReplace DEF goal
  <2>6. QED
    BY <2>4, <2>5
<1>6. ASSUME Places(lists, "T1") + Places(lists, "B1") = ArcCapacity,
             Places(lists, "T1") # ArcCapacity
      PROVE  ARC!CanReplace(ARC!DropOldestGhost(lists, "B1"), target, FALSE)
  <2> DEFINE e == ARC!DropOldestGhost(lists, "B1")
  <2>1. Places(lists, "T1") < ArcCapacity
    BY <1>2, <1>6
  <2>2. ARoomMade(e)
    BY <1>1, <1>6, <2>1, ARecentDropped
  <2> HIDE DEF e
  <2>3. /\ ADirectory(e) /\ e["T1"] = lists["T1"] /\ e["T2"] = lists["T2"]
        /\ Places(e, "T1") + Places(e, "T2") = ArcCapacity
    BY <2>2 DEF ARoomMade
  <2>4. Places(e, "T1") = Places(lists, "T1") /\ Places(e, "T2") = Places(lists, "T2")
    BY <2>3 DEF Places
  <2>5. Places(e, "T2") # 0
    BY <1>2, <2>1, <2>3, <2>4
  <2>6. QED
    BY <2>3, <2>5, ACanReplace DEF e
<1>7. ASSUME Places(lists, "T1") + Places(lists, "B1") < ArcCapacity,
             ARC!Total(lists) >= ArcCapacity
      PROVE  ARC!CanReplace(ARC!Trimmed, target, FALSE)
  <2> DEFINE e == ARC!Trimmed
  <2>1. ARoomMade(e)
    BY <1>1, <1>7, ATrims
  <2> HIDE DEF e
  <2>2. /\ ADirectory(e) /\ e["T1"] = lists["T1"] /\ e["T2"] = lists["T2"]
        /\ Places(e, "T1") + Places(e, "T2") = ArcCapacity
    BY <2>1 DEF ARoomMade
  <2>3. Places(e, "T1") = Places(lists, "T1") /\ Places(e, "T2") = Places(lists, "T2")
    BY <2>2 DEF Places
  <2>4. Places(e, "T2") # 0
    <3>1. Places(lists, "T1") < ArcCapacity
        BY <1>2, <1>7
    <3>2. QED
        BY <3>1, <1>2, <2>2, <2>3
  <2>5. QED
    BY <2>2, <2>4, ACanReplace DEF e
<1>8. /\ ARC!Total(lists) \in Nat
      /\ Places(lists, "T1") + Places(lists, "B1") \in Nat
  <2>1. ARC!Total(lists) = Places(lists, "T1") + Places(lists, "T2")
                           + Places(lists, "B1") + Places(lists, "B2")
    BY DEF ARC!Total, Places
  <2>2. QED
    BY <1>2, <2>1
<1>9. \/ Places(lists, "T1") + Places(lists, "B1") >= ArcCapacity
      \/ ARC!Total(lists) < ArcCapacity
      \/ ARC!CanReplace(ARC!Trimmed, target, FALSE)
  <2>1. ArcCapacity \in Nat
    BY <1>2
  <2>2. CASE Places(lists, "T1") + Places(lists, "B1") < ArcCapacity /\ ARC!Total(lists) >= ArcCapacity
    BY <1>7, <2>2
  <2>3. CASE Places(lists, "T1") + Places(lists, "B1") >= ArcCapacity \/ ARC!Total(lists) < ArcCapacity
    BY <2>3
  <2>4. \A m, n, c \in Nat : (m < c /\ n >= c) \/ m >= c \/ n < c
    OBVIOUS
  <2>5. QED
    BY <1>8, <2>1, <2>2, <2>3, <2>4
<1>10. QED
    BY <1>2, <1>5, <1>6, <1>9, AWords DEF ARC!AlwaysAnswers, Places

(* What the invariant gives. *)
LEMMA ATyped == AInv => ARC!TypeOK /\ ARC!DirectoryBounds /\ ARC!SeenOnceOrTwice
<1>1. SUFFICES ASSUME AInv PROVE ARC!TypeOK /\ ARC!DirectoryBounds /\ ARC!SeenOnceOrTwice
    OBVIOUS
<1>2. ARC!HarnessTypeOK
    BY <1>1, ACardinality, AWords DEF AInv, Held, Counted, ARC!HarnessTypeOK
<1>3. /\ lists["T1"] \in Seq(Keys) /\ IsInjective(lists["T1"])
      /\ lists["T2"] \in Seq(Keys) /\ IsInjective(lists["T2"])
      /\ lists["B1"] \in Seq(Keys) /\ IsInjective(lists["B1"])
      /\ lists["B2"] \in Seq(Keys) /\ IsInjective(lists["B2"])
      /\ Range(lists["T1"]) \cap Range(lists["T2"]) = {}
      /\ (Range(lists["T1"]) \cup Range(lists["T2"])) \cap Range(lists["B1"]) = {}
      /\ (Range(lists["T1"]) \cup Range(lists["T2"]) \cup Range(lists["B1"]))
           \cap Range(lists["B2"]) = {}
    BY <1>1 DEF AInv, ADirectory, ANames
<1>4. IsInjective(((lists["T1"] \o lists["T2"]) \o lists["B1"]) \o lists["B2"])
  <2> DEFINE a == lists["T1"] \o lists["T2"]
             b == a \o lists["B1"]
  <2>1. a \in Seq(Keys) /\ IsInjective(a) /\ Range(a) = Range(lists["T1"]) \cup Range(lists["T2"])
    BY <1>3, LinesTogether
  <2> HIDE DEF a
  <2>2. b \in Seq(Keys) /\ IsInjective(b) /\ Range(b) = Range(a) \cup Range(lists["B1"])
    BY <1>3, <2>1, LinesTogether
  <2> HIDE DEF b
  <2>3. IsInjective(b \o lists["B2"])
    BY <1>3, <2>1, <2>2, LinesTogether
  <2>4. QED
    BY <2>3 DEF a, b
<1>5. ARC!TypeOK
  <2>1. pending \cap (Range(lists["T1"]) \cup Range(lists["T2"])) = {}
    BY <1>1 DEF AInv
  <2>2. QED
    BY <1>1, <1>2, <1>4, <2>1, AWords DEF AInv, ARC!TypeOK
<1>6. ARC!DirectoryBounds
  <2>1. /\ Places(lists, "T1") + Places(lists, "B1") <= ArcCapacity
        /\ Places(lists, "T1") + Places(lists, "T2") <= ArcCapacity
        /\ Places(lists, "T1") + Places(lists, "T2") + Places(lists, "B1") + Places(lists, "B2")
              <= 2 * ArcCapacity
        /\ Places(lists, "B1") + Places(lists, "B2") > 0
              => Places(lists, "T1") + Places(lists, "T2") = ArcCapacity
    BY <1>1 DEF AInv, ABounded
  <2>2. QED
    BY <2>1 DEF ARC!DirectoryBounds, ARC!Total, Places
<1>7. ARC!SeenOnceOrTwice
    BY <1>1, AWords DEF AInv, AUsed, ARC!SeenOnceOrTwice
<1>8. QED
    BY <1>5, <1>6, <1>7

-----------------------------------------------------------------------------
(* LFU *)
LEMMA LCardinality == \A S : LFU!Cardinality(S) = Cardinality(S)
BY Zenon DEF LFU!Cardinality, Cardinality

(* LFU's operators are those of this module. *)
LEMMA LWords ==
    /\ \A s : LFU!Range(s) = Range(s) /\ (LFU!IsInjective(s) <=> IsInjective(s))
    /\ \A s, x : LFU!Remove(s, x) = Remove(s, x) /\ LFU!WithoutAt(s, x) = WithoutAt(s, x)
    /\ LFU!OverCapacity <=> Cardinality(resident) > Capacity
BY LCardinality DEF LFU!Range, Range, LFU!IsInjective, IsInjective, LFU!Front, Front, LFU!Last,
   Last, LFU!Remove, Remove, LFU!WithoutAt, WithoutAt, LFU!OverCapacity

(* A class of the list, without its links. *)
LClass == [freq : Nat, entries : Seq(Keys)]

(* The classes on a list. *)
LEMMA LRange == \A cs \in Seq(LClass) : Range(cs) = {cs[i] : i \in 1..Len(cs)}
BY LineElements

(* The class list: strictly ascending. *)
LRow(cs) ==
    /\ cs \in Seq(LClass)
    /\ \A i, j \in 1..Len(cs) : i < j => cs[i].freq < cs[j].freq

(* On an ascending list a count stands for one class. *)
LEMMA LRowWords ==
    ASSUME NEW cs, LRow(cs)
    PROVE  /\ Len(cs) \in Nat /\ DOMAIN cs = 1..Len(cs)
           /\ \A i \in 1..Len(cs) : cs[i] \in LClass /\ cs[i].freq \in Nat
           /\ \A i, j \in 1..Len(cs) : cs[i].freq = cs[j].freq => i = j
           /\ IsInjective(cs)
           /\ Range(cs) = {cs[i] : i \in 1..Len(cs)}
           /\ \A c, d \in Range(cs) : c.freq = d.freq => c = d
<1>1. /\ Len(cs) \in Nat /\ DOMAIN cs = 1..Len(cs)
      /\ Range(cs) = {cs[i] : i \in 1..Len(cs)}
    BY LineElements DEF LRow
<1>2. \A i \in 1..Len(cs) : cs[i] \in LClass /\ cs[i].freq \in Nat
  <2>1. \A i \in 1..Len(cs) : cs[i] \in LClass
    BY ElementOfSeq DEF LRow
  <2>2. \A c \in LClass : c.freq \in Nat
    BY DEF LClass
  <2>3. QED
    BY <2>1, <2>2
<1>3. ASSUME NEW i \in 1..Len(cs), NEW j \in 1..Len(cs), cs[i].freq = cs[j].freq PROVE i = j
    BY <1>1, <1>2, <1>3 DEF LRow
<1>4. IsInjective(cs)
    BY <1>1, <1>3 DEF IsInjective
<1>5. QED
    BY <1>1, <1>2, <1>3, <1>4

(* A class put into the list at its place. *)
LInserted(cs, n, c) == SubSeq(cs, 1, n) \o <<c>> \o SubSeq(cs, n + 1, Len(cs))

(* lfu_insert_class_after: a class put where its count belongs keeps the *)
(* list ascending.                                                       *)
LEMMA LInsert ==
    ASSUME NEW cs, LRow(cs), NEW n \in 0..Len(cs), NEW c \in LClass,
           n > 0 => cs[n].freq < c.freq,
           n < Len(cs) => c.freq < cs[n + 1].freq,
           NEW s, s = LInserted(cs, n, c)
    PROVE  /\ LRow(s)
           /\ Len(s) = Len(cs) + 1
           /\ \A i \in 1..n : s[i] = cs[i]
           /\ s[n + 1] = c
           /\ Range(s) = Range(cs) \cup {c}
<1> DEFINE m == Len(cs)
           a == SubSeq(cs, 1, n)
           b == SubSeq(cs, n + 1, m)
           t == a \o <<c>>
<1>0. m \in Nat /\ n \in 0..m
    BY LRowWords
<1>1. m \in Nat /\ n \in 0..m /\ \A i \in 1..m : cs[i] \in LClass
    BY LRowWords
<1>2. a \in Seq(LClass) /\ Len(a) = n /\ \A i \in 1..n : a[i] = cs[i]
  <2>1. 1 \in Int /\ n \in Int /\ \A i \in 1..n : cs[i] \in LClass
    BY <1>1
  <2>2. /\ SubSeq(cs, 1, n) \in Seq(LClass)
        /\ Len(SubSeq(cs, 1, n)) = IF 1 <= n THEN n - 1 + 1 ELSE 0
        /\ \A i \in 1 .. n - 1 + 1 : SubSeq(cs, 1, n)[i] = cs[1 + i - 1]
    BY <2>1, SubSeqProperties
  <2>3. QED
    BY <2>2, <1>1
<1>3. b \in Seq(LClass) /\ Len(b) = m - n /\ \A i \in 1..(m - n) : b[i] = cs[n + i]
  <2>1. n + 1 \in Int /\ m \in Int /\ \A i \in (n + 1)..m : cs[i] \in LClass
    BY <1>1
  <2>2. /\ SubSeq(cs, n + 1, m) \in Seq(LClass)
        /\ Len(SubSeq(cs, n + 1, m)) = IF n + 1 <= m THEN m - (n + 1) + 1 ELSE 0
        /\ \A i \in 1 .. m - (n + 1) + 1 : SubSeq(cs, n + 1, m)[i] = cs[(n + 1) + i - 1]
    BY <2>1, SubSeqProperties
  <2>3. /\ (IF n + 1 <= m THEN m - (n + 1) + 1 ELSE 0) = m - n
        /\ m - (n + 1) + 1 = m - n
        /\ \A i \in 1..(m - n) : (n + 1) + i - 1 = n + i
    BY <1>0
  <2>4. QED
    BY <2>2, <2>3
<1>4. <<c>> \in Seq(LClass) /\ Len(<<c>>) = 1 /\ <<c>>[1] = c
    OBVIOUS
<1>5. s = t \o b
    BY DEF LInserted
<1> HIDE DEF a, b, m
<1>6. /\ t \in Seq(LClass) /\ Len(t) = n + 1
      /\ \A i \in 1..n : t[i] = cs[i]
      /\ t[n + 1] = c
  <2>1. /\ t \in Seq(LClass) /\ Len(t) = n + 1
        /\ \A i \in 1..(n + 1) : t[i] = IF i <= n THEN a[i] ELSE <<c>>[i - n]
    BY <1>1, <1>2, <1>4, ConcatProperties
  <2>2. \A i \in 1..n : i \in 1..(n + 1) /\ i <= n
    BY <1>1
  <2>3. n + 1 \in 1..(n + 1) /\ ~ (n + 1 <= n) /\ (n + 1) - n = 1
    BY <1>1
  <2>4. \A i \in 1..n : t[i] = cs[i]
    BY <2>1, <2>2, <1>2
  <2>5. t[n + 1] = <<c>>[(n + 1) - n]
    BY <2>1, <2>3
  <2>6. QED
    BY <2>1, <2>4, <2>5, <2>3, <1>4
<1> HIDE DEF t
<1>7. /\ s \in Seq(LClass) /\ Len(s) = m + 1
      /\ \A i \in 1..n : s[i] = cs[i]
      /\ s[n + 1] = c
      /\ \A i \in (n + 2)..(m + 1) : s[i] = cs[i - 1]
  <2>1. /\ s \in Seq(LClass) /\ Len(s) = (n + 1) + (m - n)
        /\ \A i \in 1..((n + 1) + (m - n)) : s[i] = IF i <= n + 1 THEN t[i] ELSE b[i - (n + 1)]
    <3>1. /\ t \o b \in Seq(LClass)
          /\ Len(t \o b) = Len(t) + Len(b)
          /\ \A i \in 1 .. Len(t) + Len(b) :
                (t \o b)[i] = IF i <= Len(t) THEN t[i] ELSE b[i - Len(t)]
        BY <1>3, <1>6, ConcatProperties
    <3>2. QED
        BY <3>1, <1>3, <1>5, <1>6
  <2>2. (n + 1) + (m - n) = m + 1
    BY <1>1
  <2>3. \A i \in 1..n : i \in 1..(m + 1) /\ i <= n + 1
    BY <1>1
  <2>4. n + 1 \in 1..(m + 1) /\ n + 1 <= n + 1
    BY <1>1
  <2>5. \A i \in (n + 2)..(m + 1) :
            /\ i \in 1..(m + 1) /\ ~ (i <= n + 1)
            /\ i - (n + 1) \in 1..(m - n) /\ n + (i - (n + 1)) = i - 1
    BY <1>1
  <2>6. QED
    BY <2>1, <2>2, <2>3, <2>4, <2>5, <1>3, <1>6
<1>8. Range(s) = Range(cs) \cup {c}
  <2>1. Range(s) = {s[i] : i \in 1..(m + 1)} /\ Range(cs) = {cs[i] : i \in 1..m}
    <3>1. s \in Seq(LClass)
        BY <1>7
    <3>2. Range(s) = {s[i] : i \in 1..Len(s)}
        BY <3>1, LRange
    <3>3. QED
        BY <3>2, <1>7, LRowWords DEF m
  <2>2. \A i \in 1..(m + 1) : s[i] \in Range(cs) \cup {c}
    <3>1. \A i \in 1..(m + 1) : i \in 1..n \/ i = n + 1 \/ (i \in (n + 2)..(m + 1) /\ i - 1 \in 1..m)
        BY <1>1
    <3>2. \A i \in 1..n : i \in 1..m
        BY <1>1
    <3>3. QED
        BY <3>1, <3>2, <2>1, <1>7
  <2>3. \A i \in 1..m : cs[i] \in Range(s)
    <3>1. \A i \in 1..m : (i \in 1..n /\ i \in 1..(m + 1))
                            \/ (i + 1 \in (n + 2)..(m + 1) /\ i + 1 \in 1..(m + 1) /\ (i + 1) - 1 = i)
        BY <1>0
    <3>2. \A i \in 1..m : (i \in 1..(m + 1) /\ s[i] = cs[i])
                            \/ (i + 1 \in 1..(m + 1) /\ s[i + 1] = cs[i])
        BY <3>1, <1>7
    <3>3. QED
        BY <3>2, <2>1
  <2>4. c \in Range(s)
    <3>1. n + 1 \in 1..(m + 1)
        BY <1>1
    <3>2. QED
        BY <3>1, <2>1, <1>7
  <2>5. QED
    BY <2>1, <2>2, <2>3, <2>4
<1>9. ASSUME NEW i \in 1..(m + 1), NEW j \in 1..(m + 1), i < j
      PROVE  s[i].freq < s[j].freq
  <2>1. /\ \A x \in 1..m : cs[x].freq \in Nat
        /\ \A x, y \in 1..m : x < y => cs[x].freq < cs[y].freq
        /\ c.freq \in Nat
        /\ n > 0 => cs[n].freq < c.freq
        /\ n < m => c.freq < cs[n + 1].freq
    BY LRowWords DEF LRow, LClass, m
  <2>2. CASE j \in 1..n
    <3>1. i \in 1..n /\ i \in 1..m /\ j \in 1..m
        BY <2>2, <1>1, <1>9
    <3>2. QED
        BY <3>1, <2>1, <2>2, <1>7, <1>9
  <2>3. CASE j = n + 1
    <3>1. i \in 1..n /\ i \in 1..m /\ n \in 1..m /\ n > 0 /\ (i = n \/ i < n)
        BY <2>3, <1>0, <1>9
    <3>2. s[i].freq = cs[i].freq /\ s[j].freq = c.freq
        BY <3>1, <2>3, <1>7
    <3>3. /\ cs[i].freq = cs[n].freq \/ cs[i].freq < cs[n].freq
          /\ cs[i].freq \in Nat /\ cs[n].freq \in Nat /\ c.freq \in Nat
          /\ cs[n].freq < c.freq
        BY <3>1, <2>1
    <3>4. \A x, y, z \in Nat : ((x = y \/ x < y) /\ y < z) => x < z
        OBVIOUS
    <3>5. QED
        BY <3>2, <3>3, <3>4
  <2>4. CASE j \in (n + 2)..(m + 1)
    <3>1. /\ j - 1 \in 1..m /\ n + 1 \in 1..m /\ n < m
          /\ \/ (i \in 1..n /\ i \in 1..m /\ i < j - 1)
             \/ i = n + 1
             \/ (i \in (n + 2)..(m + 1) /\ i - 1 \in 1..m /\ i - 1 < j - 1)
          /\ (n + 1 = j - 1 \/ n + 1 < j - 1)
        BY <2>4, <1>0, <1>9
    <3>2. s[j].freq = cs[j - 1].freq
        BY <2>4, <1>7
    <3>3. c.freq < cs[j - 1].freq
        <4>1. cs[n + 1].freq = cs[j - 1].freq \/ cs[n + 1].freq < cs[j - 1].freq
            BY <3>1, <2>1
        <4>2. QED
            BY <4>1, <3>1, <2>1
    <3>4. CASE i \in 1..n /\ i \in 1..m /\ i < j - 1
        BY <3>1, <3>2, <3>4, <2>1, <1>7
    <3>5. CASE i = n + 1
        BY <3>2, <3>3, <3>5, <1>7
    <3>6. CASE i \in (n + 2)..(m + 1) /\ i - 1 \in 1..m /\ i - 1 < j - 1
        BY <3>1, <3>2, <3>6, <2>1, <1>7
    <3>7. QED
        BY <3>1, <3>4, <3>5, <3>6
  <2>5. j \in 1..n \/ j = n + 1 \/ j \in (n + 2)..(m + 1)
    BY <1>1
  <2>6. QED
    BY <2>2, <2>3, <2>4, <2>5
<1>10. LRow(s)
    BY <1>7, <1>9 DEF LRow
<1>11. QED
    BY <1>7, <1>8, <1>10 DEF m

(* The entries of one class changed. *)
LReplaced(cs, n, c) == [cs EXCEPT ![n] = c]

(* A class that changes only its entries keeps its place. *)
LEMMA LReplace ==
    ASSUME NEW cs, LRow(cs), NEW n \in 1..Len(cs), NEW c \in LClass, c.freq = cs[n].freq,
           NEW s, s = LReplaced(cs, n, c)
    PROVE  /\ LRow(s)
           /\ Len(s) = Len(cs)
           /\ s[n] = c
           /\ \A i \in 1..Len(cs) : i # n => s[i] = cs[i]
           /\ Range(s) = (Range(cs) \ {cs[n]}) \cup {c}
<1>1. /\ Len(cs) \in Nat /\ DOMAIN cs = 1..Len(cs)
      /\ Range(cs) = {cs[i] : i \in 1..Len(cs)}
      /\ \A i \in 1..Len(cs) : cs[i] \in LClass /\ cs[i].freq \in Nat
      /\ \A i, j \in 1..Len(cs) : cs[i].freq = cs[j].freq => i = j
    BY LRowWords
<1>2. cs \in Seq(LClass)
    BY DEF LRow
<1>3. /\ s \in Seq(LClass) /\ Len(s) = Len(cs)
      /\ s[n] = c
      /\ \A i \in 1..Len(cs) : i # n => s[i] = cs[i]
    BY <1>1, <1>2 DEF LReplaced
<1>4. Range(s) = {s[i] : i \in 1..Len(cs)}
  <2>1. s \in Seq(LClass)
    BY <1>3
  <2>2. Range(s) = {s[i] : i \in 1..Len(s)}
    BY <2>1, LRange
  <2>3. QED
    BY <2>2, <1>3
<1>5. Range(s) = (Range(cs) \ {cs[n]}) \cup {c}
    BY <1>1, <1>3, <1>4
<1>6. \A i \in 1..Len(cs) : s[i].freq = cs[i].freq
    BY <1>3
<1>7. LRow(s)
    BY <1>1, <1>3, <1>6 DEF LRow
<1>8. QED
    BY <1>3, <1>5, <1>7

(* A class released. *)
LEMMA LRelease ==
    ASSUME NEW cs, LRow(cs), NEW n \in 1..Len(cs), NEW s, s = WithoutAt(cs, n)
    PROVE  /\ LRow(s)
           /\ Len(s) = Len(cs) - 1
           /\ Range(s) = Range(cs) \ {cs[n]}
<1>1. /\ Len(cs) \in Nat /\ DOMAIN cs = 1..Len(cs)
      /\ Range(cs) = {cs[i] : i \in 1..Len(cs)}
      /\ \A i \in 1..Len(cs) : cs[i].freq \in Nat
      /\ IsInjective(cs) /\ cs \in Seq(LClass)
      /\ \A i, j \in 1..Len(cs) : i < j => cs[i].freq < cs[j].freq
    BY LRowWords DEF LRow
<1>2. /\ s = Remove(cs, cs[n])
      /\ s \in Seq(LClass) /\ Len(s) = Len(cs) - 1
      /\ \A i \in 1..(Len(cs) - 1) : s[i] = IF i < n THEN cs[i] ELSE cs[i + 1]
  <2>1. /\ Remove(cs, cs[n]) \in Seq(LClass)
        /\ Len(Remove(cs, cs[n])) = Len(cs) - 1
        /\ \A i \in 1..(Len(cs) - 1) :
              Remove(cs, cs[n])[i] = IF i < n THEN cs[i] ELSE cs[i + 1]
        /\ Remove(cs, cs[n]) = WithoutAt(cs, n)
    BY <1>1, LeaveAt
  <2>2. QED
    BY <2>1
<1>3. Range(s) = Range(cs) \ {cs[n]}
    BY <1>1, <1>2, Leave
<1>4. ASSUME NEW i \in 1..Len(s), NEW j \in 1..Len(s), i < j
      PROVE  s[i].freq < s[j].freq
  <2>0. Len(cs) \in Nat /\ Len(s) = Len(cs) - 1 /\ n \in 1..Len(cs)
    BY <1>1, <1>2
  <2>1. /\ i \in 1..(Len(cs) - 1) /\ j \in 1..(Len(cs) - 1)
        /\ i \in 1..Len(cs) /\ j \in 1..Len(cs) /\ i + 1 \in 1..Len(cs) /\ j + 1 \in 1..Len(cs)
        /\ i < j + 1 /\ i + 1 < j + 1 /\ (j < n => i < n)
    BY <2>0, <1>4
  <2>2. QED
    BY <2>1, <1>1, <1>2, <1>4
<1>5. LRow(s)
    BY <1>2, <1>4 DEF LRow
<1>6. QED
    BY <1>2, <1>3, <1>5

(* A class with one entry more, behind the others.                         *)
LMore(c, k) == [freq |-> c.freq, entries |-> Append(c.entries, k)]

(* What is left of a class without one entry: not a class without any.     *)
LLeft(c, k) ==
    IF c.entries = <<k>> THEN {}
    ELSE {[freq |-> c.freq, entries |-> Remove(c.entries, k)]}

(* A class with other entries. *)
LEMMA LRecord ==
    ASSUME NEW c \in LClass, NEW e
    PROVE  [c EXCEPT !.entries = e] = [freq |-> c.freq, entries |-> e]
BY DEF LClass

(* An entry appended to a class joins behind the others. *)
LEMMA LAppends ==
    ASSUME NEW cs, LRow(cs), NEW n \in 1..Len(cs), NEW k \in Keys,
           NEW s, s = LFU!Appended(cs, n, k)
    PROVE  /\ LRow(s)
           /\ Len(s) = Len(cs)
           /\ s[n] = LMore(cs[n], k)
           /\ \A i \in 1..Len(cs) : i # n => s[i] = cs[i]
           /\ Range(s) = (Range(cs) \ {cs[n]}) \cup {LMore(cs[n], k)}
<1>1. cs[n] \in LClass
    BY LRowWords
<1>2. [cs[n] EXCEPT !.entries = Append(cs[n].entries, k)] = LMore(cs[n], k)
    BY <1>1, LRecord DEF LMore
<1>3. s = [cs EXCEPT ![n] = LMore(cs[n], k)]
    BY <1>2 DEF LFU!Appended
<1>4. LMore(cs[n], k) \in LClass /\ LMore(cs[n], k).freq = cs[n].freq
  <2>1. Append(cs[n].entries, k) \in Seq(Keys)
    BY <1>1, AppendProperties DEF LClass
  <2>2. QED
    BY <1>1, <2>1 DEF LClass, LMore
<1> DEFINE c == LMore(cs[n], k)
<1>5. c \in LClass /\ c.freq = cs[n].freq /\ s = LReplaced(cs, n, c)
    BY <1>3, <1>4 DEF LReplaced
<1> HIDE DEF c
<1>6. /\ LRow(s) /\ Len(s) = Len(cs) /\ s[n] = c
      /\ \A i \in 1..Len(cs) : i # n => s[i] = cs[i]
      /\ Range(s) = (Range(cs) \ {cs[n]}) \cup {c}
    BY <1>5, LReplace
<1>7. QED
    BY <1>6 DEF c

(* An entry removed leaves its class, which is released when it was the only *)
(* one.                                                                      *)
LEMMA LRemoves ==
    ASSUME NEW cs, LRow(cs), NEW n \in 1..Len(cs), IsInjective(cs[n].entries), NEW k,
           NEW s, s = LFU!Removed(cs, n, k)
    PROVE  /\ LRow(s)
           /\ Range(s) = (Range(cs) \ {cs[n]}) \cup LLeft(cs[n], k)
<1>1. cs[n] \in LClass
    BY LRowWords
<1>2. CASE cs[n].entries = <<k>>
  <2>1. s = WithoutAt(cs, n)
    BY <1>2, LWords DEF LFU!Removed, LFU!ReleaseClass
  <2>2. LLeft(cs[n], k) = {}
    BY <1>2 DEF LLeft
  <2>3. QED
    BY <2>1, <2>2, LRelease
<1>3. CASE cs[n].entries # <<k>>
  <2> DEFINE c == [freq |-> cs[n].freq, entries |-> Remove(cs[n].entries, k)]
  <2>1. [cs[n] EXCEPT !.entries = Remove(cs[n].entries, k)] = c
    BY <1>1 DEF LClass
  <2>2. s = LReplaced(cs, n, c)
    BY <1>3, <2>1, LWords DEF LFU!Removed, LReplaced
  <2>3. c \in LClass /\ c.freq = cs[n].freq
    <3>1. Remove(cs[n].entries, k) \in Seq(Keys)
        BY <1>1, Leave DEF LClass
    <3>2. QED
        BY <1>1, <3>1 DEF LClass
  <2>4. LLeft(cs[n], k) = {c}
    BY <1>3 DEF LLeft
  <2> HIDE DEF c
  <2>5. LRow(s) /\ Range(s) = (Range(cs) \ {cs[n]}) \cup {c}
    BY <2>2, <2>3, LReplace
  <2>6. QED
    BY <2>4, <2>5
<1>4. QED
    BY <1>2, <1>3

(* The classes share the keys out between them. *)
LKeys(C) == UNION {Range(c.entries) : c \in C}

LParts(C) ==
    /\ \A c \in C : IsInjective(c.entries) /\ c.entries # <<>> /\ c.freq \in 1..MaxUses
    /\ \A c, d \in C : c # d => Range(c.entries) \cap Range(d.entries) = {}

(* LFU's invariant: the classes ascend, none is empty, and each key is in *)
(* one of them.                                                           *)
LInv ==
    /\ Held(Keys, Capacity)
    /\ Counted(Keys)
    /\ LRow(classes)
    /\ LParts(Range(classes))
    /\ LKeys(Range(classes)) = resident

(* A key held is in the class its entry points to. *)
LEMMA LFinds ==
    ASSUME LInv, NEW k \in resident
    PROVE  /\ LFU!ClassOf(k) \in 1..Len(classes)
           /\ k \in Range(classes[LFU!ClassOf(k)].entries)
           /\ classes[LFU!ClassOf(k)] \in Range(classes)
<1>1. DOMAIN classes = 1..Len(classes) /\ Range(classes) = {classes[i] : i \in 1..Len(classes)}
    BY LRowWords DEF LInv
<1>2. PICK c \in Range(classes) : k \in Range(c.entries)
    BY DEF LInv, LKeys
<1>3. \E i \in DOMAIN classes : k \in Range(classes[i].entries)
    BY <1>1, <1>2
<1>4. LFU!ClassOf(k) \in DOMAIN classes /\ k \in Range(classes[LFU!ClassOf(k)].entries)
    BY <1>3, LWords DEF LFU!ClassOf
<1>5. QED
    BY <1>1, <1>4

(* The entries in use are those of the keys held. *)
LEMMA LEntries == LInv => LFU!Entries = resident
<1>1. SUFFICES ASSUME LInv PROVE LFU!Entries = resident
    OBVIOUS
<1>2. DOMAIN classes = 1..Len(classes) /\ Range(classes) = {classes[i] : i \in 1..Len(classes)}
    BY <1>1, LRowWords DEF LInv
<1>3. LFU!Entries = LKeys(Range(classes))
    BY <1>2, LWords DEF LFU!Entries, LKeys
<1>4. QED
    BY <1>1, <1>3 DEF LInv

(* A class takes a key at least of those held. *)
LEMMA LSize == LInv => Len(classes) <= Cardinality(resident)
<1>1. SUFFICES ASSUME LInv PROVE Len(classes) <= Cardinality(resident)
    OBVIOUS
<1> DEFINE n == Len(classes)
           first == [i \in 1..n |-> classes[i].entries[1]]
<1>2. n \in Nat /\ \A i \in 1..n : classes[i] \in LClass /\ classes[i] \in Range(classes)
    BY <1>1, LRowWords DEF LInv
<1>3. \A i \in 1..n : first[i] \in Range(classes[i].entries)
  <2>1. SUFFICES ASSUME NEW i \in 1..n PROVE classes[i].entries[1] \in Range(classes[i].entries)
    OBVIOUS
  <2>2. classes[i].entries \in Seq(Keys) /\ classes[i].entries # <<>>
    BY <1>1, <1>2 DEF LClass, LInv, LParts
  <2>3. QED
    BY <2>2, LeaveFront, LineElements, <1>1, <1>2 DEF LInv, LParts
<1>4. \A i \in 1..n : first[i] \in resident
    BY <1>1, <1>2, <1>3 DEF LInv, LKeys
<1>5. \A i, j \in 1..n : first[i] = first[j] => i = j
  <2>1. SUFFICES ASSUME NEW i \in 1..n, NEW j \in 1..n, first[i] = first[j] PROVE i = j
    OBVIOUS
  <2>2. classes[i] = classes[j]
    BY <1>1, <1>2, <1>3, <2>1 DEF LInv, LParts
  <2>3. QED
    BY <2>2, <1>1, LRowWords DEF LInv
<1>6. first \in [1..n -> resident]
    BY <1>4
<1> HIDE DEF first
<1>7. first \in Injection(1..n, resident)
    BY <1>5, <1>6 DEF Injection, IsInjective
<1>8. Cardinality(1..n) <= Cardinality(resident)
    BY <1>1, <1>7, FS_Injection DEF LInv, Held
<1>9. Cardinality(1..n) = n
  <2>1. 1 \in Int /\ n \in Int /\ (IF 1 > n THEN 0 ELSE n - 1 + 1) = n
    BY <1>2
  <2>2. QED
    BY <2>1, FS_Interval
<1>10. QED
    BY <1>8, <1>9

(* A key whose removal empties a class was alone in it. *)
LEMMA LAlone ==
    ASSUME NEW s \in Seq(Keys), IsInjective(s), NEW k \in Range(s), Remove(s, k) = <<>>
    PROVE  s = <<k>>
<1>1. Len(Remove(s, k)) = Len(s) - 1
    BY Leave
<1>2. Len(Remove(s, k)) = 0
    BY EmptySeq
<1>3. Len(s) = 1
  <2>1. Len(s) \in Nat
    BY LenProperties
  <2>2. QED
    BY <1>1, <1>2, <2>1
<1>4. s[1] = k
  <2>1. Range(s) = {s[i] : i \in 1..1}
    BY <1>3, LineElements
  <2>2. QED
    BY <2>1
<1>5. QED
    BY <1>3, <1>4

(* A class with one key more. *)
LEMMA LGains ==
    ASSUME NEW c \in LClass, IsInjective(c.entries), NEW k \in Keys, k \notin Range(c.entries)
    PROVE  /\ LMore(c, k) \in LClass
           /\ LMore(c, k).freq = c.freq
           /\ IsInjective(LMore(c, k).entries)
           /\ LMore(c, k).entries # <<>>
           /\ Range(LMore(c, k).entries) = Range(c.entries) \cup {k}
<1>1. c.entries \in Seq(Keys) /\ c.freq \in Nat
    BY DEF LClass
<1> DEFINE s == Append(c.entries, k)
<1>2. s \in Seq(Keys) /\ IsInjective(s) /\ Range(s) = Range(c.entries) \cup {k}
    BY <1>1, JoinBack
<1> HIDE DEF s
<1>3. s # <<>>
    BY <1>2, LineElements
<1>4. LMore(c, k) = [freq |-> c.freq, entries |-> s]
    BY DEF LMore, s
<1>5. LMore(c, k) \in LClass
    BY <1>1, <1>2, <1>4 DEF LClass
<1>6. QED
    BY <1>2, <1>3, <1>4, <1>5

(* A class with one key less, or none. *)
LEMMA LLoses ==
    ASSUME NEW c \in LClass, IsInjective(c.entries), NEW k \in Range(c.entries)
    PROVE  /\ \A e \in LLeft(c, k) :
                 /\ e \in LClass
                 /\ e.freq = c.freq
                 /\ IsInjective(e.entries)
                 /\ e.entries # <<>>
                 /\ Range(e.entries) = Range(c.entries) \ {k}
           /\ \A d, e \in LLeft(c, k) : d = e
           /\ \A x \in Range(c.entries) : x = k \/ LLeft(c, k) # {}
<1>1. c.entries \in Seq(Keys) /\ c.freq \in Nat
    BY DEF LClass
<1>2. CASE c.entries = <<k>>
  <2>1. LLeft(c, k) = {}
    BY <1>2 DEF LLeft
  <2>2. Range(c.entries) = {k}
    BY <1>2 DEF Range
  <2>3. QED
    BY <2>1, <2>2
<1>3. CASE c.entries # <<k>>
  <2> DEFINE s == Remove(c.entries, k)
  <2>1. s \in Seq(Keys) /\ IsInjective(s) /\ Range(s) = Range(c.entries) \ {k}
    BY <1>1, Leave
  <2>2. s # <<>>
    BY <1>1, <1>3, LAlone
  <2>3. LLeft(c, k) = {[freq |-> c.freq, entries |-> s]}
    BY <1>3 DEF LLeft
  <2> HIDE DEF s
  <2>4. [freq |-> c.freq, entries |-> s] \in LClass
    BY <1>1, <2>1 DEF LClass
  <2>5. QED
    BY <2>1, <2>2, <2>3, <2>4
<1>4. QED
    BY <1>2, <1>3

(* A key that goes from one class to another, or to a new one.             *)
LEMMA LShares ==
    ASSUME NEW C, C \subseteq LClass, LParts(C),
           NEW c \in C, NEW k \in Range(c.entries), k \in Keys,
           NEW d \in LClass, d # c, d \in C \/ d.entries = <<>>, d.freq \in 1..MaxUses,
           NEW D, D = (C \ {c, d}) \cup {LMore(d, k)} \cup LLeft(c, k)
    PROVE  LParts(D) /\ LKeys(D) = LKeys(C)
<1> DEFINE more == LMore(d, k)
           left == LLeft(c, k)
<1>1. c \in LClass /\ IsInjective(c.entries) /\ c.freq \in 1..MaxUses
    BY DEF LParts
<1>2. IsInjective(d.entries) /\ k \notin Range(d.entries)
  <2>1. CASE d \in C
    BY <2>1 DEF LParts
  <2>2. CASE d.entries = <<>>
    BY <2>2 DEF IsInjective, Range
  <2>3. QED
    BY <2>1, <2>2
<1>3. /\ more.freq = d.freq /\ IsInjective(more.entries) /\ more.entries # <<>>
      /\ Range(more.entries) = Range(d.entries) \cup {k}
    BY <1>2, LGains
<1>4. /\ \A e \in left : /\ e.freq = c.freq /\ IsInjective(e.entries) /\ e.entries # <<>>
                         /\ Range(e.entries) = Range(c.entries) \ {k}
      /\ \A e, f \in left : e = f
      /\ \A x \in Range(c.entries) : x = k \/ left # {}
    BY <1>1, LLoses
<1>5. D = (C \ {c, d}) \cup {more} \cup left
    OBVIOUS
<1>6. Range(d.entries) \subseteq LKeys(C)
    BY DEF LKeys, Range
<1> HIDE DEF more, left
<1>7. \A e \in C \ {c, d} : /\ Range(e.entries) \cap Range(c.entries) = {}
                            /\ Range(e.entries) \cap Range(d.entries) = {}
  <2>1. SUFFICES ASSUME NEW e \in C \ {c, d}
                 PROVE  /\ Range(e.entries) \cap Range(c.entries) = {}
                        /\ Range(e.entries) \cap Range(d.entries) = {}
    OBVIOUS
  <2>2. Range(e.entries) \cap Range(c.entries) = {}
    BY DEF LParts
  <2>3. CASE d \in C
    BY <2>2, <2>3 DEF LParts
  <2>4. CASE d.entries = <<>>
    BY <2>2, <2>4 DEF Range
  <2>5. QED
    BY <2>3, <2>4
<1>8. Range(c.entries) \cap Range(d.entries) = {}
  <2>1. CASE d \in C
    BY <2>1 DEF LParts
  <2>2. CASE d.entries = <<>>
    BY <2>2 DEF Range
  <2>3. QED
    BY <2>1, <2>2
<1>9. ASSUME NEW e \in D
      PROVE  IsInjective(e.entries) /\ e.entries # <<>> /\ e.freq \in 1..MaxUses
  <2>1. CASE e \in C \ {c, d}
    BY <2>1 DEF LParts
  <2>2. CASE e = more
    BY <2>2, <1>3
  <2>3. CASE e \in left
    BY <2>3, <1>1, <1>4
  <2>4. QED
    BY <1>5, <2>1, <2>2, <2>3
<1>10. ASSUME NEW e \in D, NEW f \in D, e # f
       PROVE  Range(e.entries) \cap Range(f.entries) = {}
  <2>1. CASE e \in C \ {c, d} /\ f \in C \ {c, d}
    BY <2>1, <1>10 DEF LParts
  <2>2. CASE e = more /\ f \in C \ {c, d}
    BY <2>2, <1>3, <1>7
  <2>3. CASE f = more /\ e \in C \ {c, d}
    BY <2>3, <1>3, <1>7
  <2>4. CASE e \in left /\ f \in C \ {c, d}
    BY <2>4, <1>4, <1>7
  <2>5. CASE f \in left /\ e \in C \ {c, d}
    BY <2>5, <1>4, <1>7
  <2>6. CASE e = more /\ f \in left
    BY <2>6, <1>3, <1>4, <1>8
  <2>7. CASE f = more /\ e \in left
    BY <2>7, <1>3, <1>4, <1>8
  <2>8. QED
    BY <1>4, <1>5, <1>10, <2>1, <2>2, <2>3, <2>4, <2>5, <2>6, <2>7
<1>11. LKeys(D) \subseteq LKeys(C)
  <2>1. SUFFICES ASSUME NEW e \in D PROVE Range(e.entries) \subseteq LKeys(C)
    BY DEF LKeys
  <2>2. \A f \in C : Range(f.entries) \subseteq LKeys(C)
    BY DEF LKeys
  <2>3. CASE e \in C \ {c, d}
    BY <2>2, <2>3
  <2>4. CASE e = more
    BY <2>2, <2>4, <1>3, <1>6
  <2>5. CASE e \in left
    BY <2>2, <2>5, <1>4
  <2>6. QED
    BY <1>5, <2>3, <2>4, <2>5
<1>12. LKeys(C) \subseteq LKeys(D)
  <2>1. SUFFICES ASSUME NEW e \in C, NEW x \in Range(e.entries) PROVE x \in LKeys(D)
    BY DEF LKeys
  <2>2. \A f \in D : Range(f.entries) \subseteq LKeys(D)
    BY DEF LKeys
  <2>3. CASE e \notin {c, d}
    BY <1>5, <2>2, <2>3
  <2>4. CASE e = d \/ x = k
    BY <1>3, <1>5, <2>2, <2>4
  <2>5. CASE e = c /\ x # k
    <3>1. PICK f \in left : TRUE
        BY <1>4, <2>5
    <3>2. x \in Range(f.entries)
        BY <3>1, <1>4, <2>5
    <3>3. QED
        BY <3>1, <3>2, <1>5, <2>2
  <2>6. QED
    BY <2>3, <2>4, <2>5
<1>13. QED
    BY <1>9, <1>10, <1>11, <1>12 DEF LParts

(* A key that comes.                                                       *)
LEMMA LJoins ==
    ASSUME NEW C, C \subseteq LClass, LParts(C), NEW k \in Keys, k \notin LKeys(C),
           NEW d \in LClass, d \in C \/ d.entries = <<>>, d.freq \in 1..MaxUses,
           NEW D, D = (C \ {d}) \cup {LMore(d, k)}
    PROVE  LParts(D) /\ LKeys(D) = LKeys(C) \cup {k}
<1> DEFINE more == LMore(d, k)
<1>1. \A e \in C : Range(e.entries) \subseteq LKeys(C) /\ k \notin Range(e.entries)
    BY DEF LKeys
<1>2. /\ IsInjective(d.entries) /\ k \notin Range(d.entries)
      /\ Range(d.entries) \subseteq LKeys(C)
  <2>1. CASE d \in C
    BY <2>1, <1>1 DEF LParts
  <2>2. CASE d.entries = <<>>
    BY <2>2 DEF IsInjective, Range
  <2>3. QED
    BY <2>1, <2>2
<1>3. /\ more.freq = d.freq /\ IsInjective(more.entries) /\ more.entries # <<>>
      /\ Range(more.entries) = Range(d.entries) \cup {k}
    BY <1>2, LGains
<1>4. D = (C \ {d}) \cup {more}
    OBVIOUS
<1> HIDE DEF more
<1>5. \A e \in C \ {d} : Range(e.entries) \cap Range(d.entries) = {}
  <2>1. CASE d \in C
    BY <2>1 DEF LParts
  <2>2. CASE d.entries = <<>>
    BY <2>2 DEF Range
  <2>3. QED
    BY <2>1, <2>2
<1>6. \A e \in D : IsInjective(e.entries) /\ e.entries # <<>> /\ e.freq \in 1..MaxUses
  <2>1. \A e \in C \ {d} : IsInjective(e.entries) /\ e.entries # <<>> /\ e.freq \in 1..MaxUses
    BY DEF LParts
  <2>2. QED
    BY <2>1, <1>3, <1>4
<1>7. ASSUME NEW e \in D, NEW f \in D, e # f
      PROVE  Range(e.entries) \cap Range(f.entries) = {}
  <2>1. CASE e \in C \ {d} /\ f \in C \ {d}
    BY <2>1, <1>7 DEF LParts
  <2>2. CASE e = more /\ f \in C \ {d}
    BY <2>2, <1>1, <1>3, <1>5
  <2>3. CASE f = more /\ e \in C \ {d}
    BY <2>3, <1>1, <1>3, <1>5
  <2>4. QED
    BY <1>4, <1>7, <2>1, <2>2, <2>3
<1>8. LKeys(D) \subseteq LKeys(C) \cup {k}
    BY <1>1, <1>2, <1>3, <1>4 DEF LKeys
<1>9. LKeys(C) \cup {k} \subseteq LKeys(D)
  <2>1. \A f \in D : Range(f.entries) \subseteq LKeys(D)
    BY DEF LKeys
  <2>2. k \in LKeys(D)
    BY <2>1, <1>3, <1>4
  <2>3. ASSUME NEW e \in C PROVE Range(e.entries) \subseteq LKeys(D)
    BY <2>1, <1>3, <1>4
  <2>4. QED
    BY <2>2, <2>3 DEF LKeys
<1>10. QED
    BY <1>6, <1>7, <1>8, <1>9 DEF LParts

(* A key that goes.                                                        *)
LEMMA LGoes ==
    ASSUME NEW C, C \subseteq LClass, LParts(C), NEW c \in C, NEW k \in Range(c.entries),
           NEW D, D = (C \ {c}) \cup LLeft(c, k)
    PROVE  LParts(D) /\ LKeys(D) = LKeys(C) \ {k}
<1> DEFINE left == LLeft(c, k)
<1>1. /\ c \in LClass /\ IsInjective(c.entries) /\ c.freq \in 1..MaxUses
      /\ \A e \in C \ {c} : Range(e.entries) \cap Range(c.entries) = {}
    BY DEF LParts
<1>2. /\ \A e \in left : /\ e.freq = c.freq /\ IsInjective(e.entries) /\ e.entries # <<>>
                         /\ Range(e.entries) = Range(c.entries) \ {k}
      /\ \A e, f \in left : e = f
      /\ \A x \in Range(c.entries) : x = k \/ left # {}
    BY <1>1, LLoses
<1>3. D = (C \ {c}) \cup left
    OBVIOUS
<1> HIDE DEF left
<1>4. \A e \in D : IsInjective(e.entries) /\ e.entries # <<>> /\ e.freq \in 1..MaxUses
  <2>1. \A e \in C \ {c} : IsInjective(e.entries) /\ e.entries # <<>> /\ e.freq \in 1..MaxUses
    BY DEF LParts
  <2>2. QED
    BY <2>1, <1>1, <1>2, <1>3
<1>5. ASSUME NEW e \in D, NEW f \in D, e # f
      PROVE  Range(e.entries) \cap Range(f.entries) = {}
  <2>1. CASE e \in C \ {c} /\ f \in C \ {c}
    BY <2>1, <1>5 DEF LParts
  <2>2. CASE e \in left /\ f \in C \ {c}
    BY <2>2, <1>1, <1>2
  <2>3. CASE f \in left /\ e \in C \ {c}
    BY <2>3, <1>1, <1>2
  <2>4. QED
    BY <1>2, <1>3, <1>5, <2>1, <2>2, <2>3
<1>6. \A e \in D : Range(e.entries) \subseteq LKeys(C) \ {k}
  <2>1. \A e \in C : Range(e.entries) \subseteq LKeys(C)
    BY DEF LKeys
  <2>2. QED
    BY <2>1, <1>1, <1>2, <1>3
<1>7. ASSUME NEW e \in C, NEW x \in Range(e.entries), x # k PROVE x \in LKeys(D)
  <2>1. \A f \in D : Range(f.entries) \subseteq LKeys(D)
    BY DEF LKeys
  <2>2. CASE e # c
    BY <2>1, <2>2, <1>3
  <2>3. CASE e = c
    <3>1. PICK f \in left : TRUE
        BY <1>2, <1>7, <2>3
    <3>2. QED
        BY <3>1, <1>2, <1>3, <1>7, <2>1, <2>3
  <2>4. QED
    BY <2>2, <2>3
<1>8. LKeys(D) = LKeys(C) \ {k}
    BY <1>6, <1>7 DEF LKeys
<1>9. QED
    BY <1>4, <1>5, <1>8 DEF LParts

(* The class after a class, or the first, found or made. *)
LEMMA LNeighbour ==
    ASSUME LRow(classes), NEW i \in 1..Len(classes), NEW s, s = LFU!ClassAfter(i)
    PROVE  /\ LRow(s) /\ i + 1 \in 1..Len(s) /\ i \in 1..Len(s)
           /\ s[i] = classes[i]
           /\ s[i + 1] \in LClass
           /\ s[i + 1].freq = classes[i].freq + 1
           /\ Range(s) = Range(classes) \cup {s[i + 1]}
           /\ s[i + 1] \in Range(classes) \/ s[i + 1].entries = <<>>
           /\ Len(s) <= Len(classes) + 1
<1>1. /\ Len(classes) \in Nat
      /\ \A j \in 1..Len(classes) : classes[j] \in LClass /\ classes[j].freq \in Nat
      /\ Range(classes) = {classes[j] : j \in 1..Len(classes)}
      /\ \A j, l \in 1..Len(classes) : j < l => classes[j].freq < classes[l].freq
    BY LRowWords DEF LRow
<1>2. CASE i < Len(classes) /\ classes[i + 1].freq = classes[i].freq + 1
  <2>1. s = classes
    BY <1>2 DEF LFU!ClassAfter
  <2>2. i + 1 \in 1..Len(classes) /\ i \in 1..Len(classes) /\ Len(classes) <= Len(classes) + 1
    BY <1>1, <1>2
  <2>3. QED
    BY <2>1, <2>2, <1>1, <1>2
<1>3. CASE ~ (i < Len(classes) /\ classes[i + 1].freq = classes[i].freq + 1)
  <2> DEFINE c == LFU!NewClass(classes[i].freq + 1)
  <2>1. c \in LClass /\ c.freq = classes[i].freq + 1 /\ c.entries = <<>>
    BY <1>1 DEF LClass, LFU!NewClass
  <2>2. s = LInserted(classes, i, c)
    BY <1>3 DEF LFU!ClassAfter, LFU!InsertClassAfter, LInserted
  <2> HIDE DEF c
  <2>3. i \in 0..Len(classes) /\ i \in 1..i
    BY <1>1
  <2>4. classes[i].freq < c.freq
    BY <1>1, <2>1
  <2>5. i < Len(classes) => c.freq < classes[i + 1].freq
    <3>1. SUFFICES ASSUME i < Len(classes) PROVE c.freq < classes[i + 1].freq
        OBVIOUS
    <3>2. i + 1 \in 1..Len(classes) /\ i < i + 1
        BY <3>1, <1>1
    <3>3. /\ classes[i].freq \in Nat /\ classes[i + 1].freq \in Nat
          /\ classes[i].freq < classes[i + 1].freq
          /\ classes[i + 1].freq # classes[i].freq + 1
        BY <3>1, <3>2, <1>1, <1>3
    <3>4. \A m, n \in Nat : (m < n /\ n # m + 1) => m + 1 < n
        OBVIOUS
    <3>5. QED
        BY <3>3, <3>4, <2>1
  <2>6. /\ LRow(s) /\ Len(s) = Len(classes) + 1
        /\ \A j \in 1..i : s[j] = classes[j]
        /\ s[i + 1] = c
        /\ Range(s) = Range(classes) \cup {c}
    BY <2>1, <2>2, <2>3, <2>4, <2>5, LInsert
  <2>7. i + 1 \in 1..(Len(classes) + 1) /\ i \in 1..(Len(classes) + 1)
    BY <1>1
  <2>8. QED
    BY <2>1, <2>3, <2>6, <2>7, <1>1
<1>4. QED
    BY <1>2, <1>3

(* The class of keys used once is the first, found or made. *)
LEMMA LLowest ==
    ASSUME LRow(classes), NEW s, s = LFU!FirstClass,
           \A c \in Range(classes) : c.freq # 0
    PROVE  /\ LRow(s) /\ 1 \in 1..Len(s)
           /\ s[1] \in LClass
           /\ s[1].freq = 1
           /\ Range(s) = Range(classes) \cup {s[1]}
           /\ s[1] \in Range(classes) \/ s[1].entries = <<>>
           /\ Len(s) <= Len(classes) + 1
<1>1. /\ Len(classes) \in Nat
      /\ \A j \in 1..Len(classes) : classes[j] \in LClass /\ classes[j].freq \in Nat
      /\ Range(classes) = {classes[j] : j \in 1..Len(classes)}
      /\ classes \in Seq(LClass)
      /\ classes # <<>> => Len(classes) # 0
  <2>1. classes \in Seq(LClass)
    BY DEF LRow
  <2>2. QED
    BY <2>1, LRowWords, EmptySeq
<1>2. CASE classes # <<>> /\ classes[1].freq = 1
  <2>1. s = classes
    BY <1>2 DEF LFU!FirstClass
  <2>2. 1 \in 1..Len(classes) /\ Len(classes) <= Len(classes) + 1
    BY <1>1, <1>2
  <2>3. QED
    BY <2>1, <2>2, <1>1, <1>2
<1>3. CASE ~ (classes # <<>> /\ classes[1].freq = 1)
  <2> DEFINE c == LFU!NewClass(1)
             n == Len(classes)
  <2>1. c \in LClass /\ c.freq = 1 /\ c.entries = <<>>
    BY DEF LClass, LFU!NewClass
  <2>2. s = <<c>> \o classes
    BY <1>3 DEF LFU!FirstClass, LFU!InsertClassFirst
  <2> HIDE DEF c
  <2>3. s = LInserted(classes, 0, c)
    <3>1. SubSeq(classes, 1, 0) = <<>>
        BY <1>1, SubSeqProperties, EmptySeq
    <3>2. <<>> \o <<c>> = <<c>>
        BY <2>1, ConcatEmptySeq
    <3>3. SubSeq(classes, 0 + 1, n) = classes
        BY <1>1, SubSeqFull
    <3>4. QED
        BY <2>2, <3>1, <3>2, <3>3 DEF LInserted
  <2>4. 0 < n => c.freq < classes[0 + 1].freq
    <3>1. SUFFICES ASSUME 0 < n PROVE c.freq < classes[1].freq
        OBVIOUS
    <3>2. 1 \in 1..n
        BY <3>1, <1>1
    <3>3. classes[1].freq \in Nat /\ classes[1].freq # 0 /\ classes[1].freq # 1
        <4>1. classes # <<>>
            BY <3>1, <1>1, EmptySeq
        <4>2. QED
            BY <4>1, <3>2, <1>1, <1>3
    <3>4. QED
        BY <3>3, <2>1
  <2>5. 0 \in 0..n /\ ~ (0 > 0)
    BY <1>1
  <2>6. /\ LRow(s) /\ Len(s) = n + 1
        /\ s[0 + 1] = c
        /\ Range(s) = Range(classes) \cup {c}
    BY <2>1, <2>3, <2>4, <2>5, LInsert
  <2>7. QED
    BY <2>1, <2>6, <1>1
<1>4. QED
    BY <1>2, <1>3

(* What is assumed of the capacity and of the bound on uses. *)
LEMMA LBounds == Capacity \in Nat \ {0} /\ MaxUses \in Nat \ {0}
BY CapacityAssumption, PoliciesAreBuilt DEF LFU!UsesAssumption

(* What the list looks like when a key has moved up. *)
LEMMA LPromotes ==
    ASSUME LInv, NEW k \in resident, LFU!Promote(k)
    PROVE  \E c \in Range(classes), d \in LClass :
              /\ c = classes[LFU!ClassOf(k)]
              /\ k \in Range(c.entries)
              /\ d.freq = c.freq + 1
              /\ d # c
              /\ d \in Range(classes) \/ d.entries = <<>>
              /\ LRow(classes')
              /\ Range(classes') = (Range(classes) \ {c, d}) \cup {LMore(d, k)} \cup LLeft(c, k)
<1> DEFINE i == LFU!ClassOf(k)
           c == classes[i]
           grown == LFU!ClassAfter(i)
           d == grown[i + 1]
           mid == LFU!Appended(grown, i + 1, k)
<1>1. i \in 1..Len(classes) /\ k \in Range(c.entries) /\ c \in Range(classes) /\ k \in Keys
    BY LFinds DEF LInv, Held
<1>2. classes' = LFU!Removed(mid, i, k)
    BY DEF LFU!Promote
<1>3. LRow(classes) /\ Len(classes) \in Nat /\ c \in LClass /\ c.freq \in Nat
    BY <1>1, LRowWords DEF LInv
<1>4. /\ LRow(grown) /\ i + 1 \in 1..Len(grown) /\ i \in 1..Len(grown)
      /\ grown[i] = c
      /\ d \in LClass
      /\ d.freq = c.freq + 1
      /\ Range(grown) = Range(classes) \cup {d}
      /\ d \in Range(classes) \/ d.entries = <<>>
    BY <1>1, <1>3, LNeighbour
<1>5. i \in Nat /\ i # i + 1 /\ c.freq # c.freq + 1
    BY <1>1, <1>3
<1> HIDE DEF i, c, grown, d
<1>6. /\ LRow(mid) /\ Len(mid) = Len(grown)
      /\ mid[i] = c
      /\ Range(mid) = (Range(grown) \ {d}) \cup {LMore(d, k)}
  <2>1. /\ LRow(mid) /\ Len(mid) = Len(grown)
        /\ \A j \in 1..Len(grown) : j # i + 1 => mid[j] = grown[j]
        /\ Range(mid) = (Range(grown) \ {d}) \cup {LMore(d, k)}
    BY <1>1, <1>4, LAppends DEF d
  <2>2. QED
    BY <2>1, <1>4, <1>5
<1> HIDE DEF mid
<1>7. LRow(classes') /\ Range(classes') = (Range(mid) \ {c}) \cup LLeft(c, k)
  <2>1. IsInjective(mid[i].entries) /\ i \in 1..Len(mid)
    BY <1>1, <1>4, <1>6 DEF LInv, LParts
  <2>2. QED
    BY <1>2, <1>6, <2>1, LRemoves
<1>8. d # c /\ LMore(d, k) # c
    BY <1>4, <1>5 DEF LMore
<1>9. Range(classes') = (Range(classes) \ {c, d}) \cup {LMore(d, k)} \cup LLeft(c, k)
    BY <1>4, <1>6, <1>7, <1>8
<1>10. c = classes[LFU!ClassOf(k)]
    BY DEF c, i
<1>11. QED
    BY <1>1, <1>4, <1>7, <1>8, <1>9, <1>10

(* A hit moves its key to the class of the next count, and releases the *)
(* class it emptied.                                                    *)
LEMMA LHits ==
    ASSUME LInv, NEW k \in Keys, LFU!Hit(k)
    PROVE  LInv'
<1>1. /\ k \in resident /\ resident' = resident /\ Counted(Keys)'
      /\ classes[LFU!ClassOf(k)].freq < MaxUses /\ LFU!Promote(k)
    BY DEF LFU!Hit, LFU!LookupHits, Counted
<1>2. PICK c \in Range(classes), d \in LClass :
              /\ c = classes[LFU!ClassOf(k)]
              /\ k \in Range(c.entries)
              /\ d.freq = c.freq + 1
              /\ d # c
              /\ d \in Range(classes) \/ d.entries = <<>>
              /\ LRow(classes')
              /\ Range(classes') = (Range(classes) \ {c, d}) \cup {LMore(d, k)} \cup LLeft(c, k)
    BY <1>1, LPromotes
<1>3. Range(classes) \subseteq LClass /\ LParts(Range(classes))
    BY LineElements DEF LInv, LRow
<1>4. d.freq \in 1..MaxUses
  <2>1. c.freq \in 1..MaxUses /\ c.freq < MaxUses
    BY <1>1, <1>2, <1>3 DEF LParts
  <2>2. QED
    BY <2>1, <1>2, LBounds
<1>5. LParts(Range(classes')) /\ LKeys(Range(classes')) = LKeys(Range(classes))
    BY <1>2, <1>3, <1>4, LShares
<1>6. QED
    BY <1>1, <1>2, <1>5 DEF LInv, Held

(* What a miss does to the classes. *)
LEMMA LEnters ==
    ASSUME LInv, NEW k \in Keys, LFU!Miss(k)
    PROVE  \E d \in LClass : /\ d.freq = 1
                             /\ d \in Range(classes) \/ d.entries = <<>>
                             /\ LRow(classes')
                             /\ Range(classes') = (Range(classes) \ {d}) \cup {LMore(d, k)}
<1> DEFINE first == LFU!FirstClass
           d == first[1]
<1>1. classes' = LFU!Appended(first, 1, k)
    BY DEF LFU!Miss
<1>2. Range(classes) \subseteq LClass /\ LParts(Range(classes)) /\ LRow(classes)
    BY LineElements DEF LInv, LRow
<1>3. \A c \in Range(classes) : c.freq # 0
    BY <1>2, LBounds DEF LParts
<1>4. /\ LRow(first) /\ 1 \in 1..Len(first)
      /\ d \in LClass
      /\ d.freq = 1
      /\ Range(first) = Range(classes) \cup {d}
      /\ d \in Range(classes) \/ d.entries = <<>>
    BY <1>2, <1>3, LLowest
<1> HIDE DEF first
<1>5. LRow(classes') /\ Range(classes') = (Range(first) \ {d}) \cup {LMore(d, k)}
    BY <1>1, <1>4, LAppends
<1> HIDE DEF d
<1>6. Range(classes') = (Range(classes) \ {d}) \cup {LMore(d, k)}
    BY <1>4, <1>5
<1>7. QED
    BY <1>4, <1>5, <1>6

(* A miss puts its key in the class of keys used once. *)
LEMMA LMisses ==
    ASSUME LInv, NEW k \in Keys, LFU!Miss(k)
    PROVE  LInv'
<1>1. /\ k \notin resident /\ resident' = resident \cup {k} /\ Counted(Keys)'
      /\ ~ (Cardinality(resident) > Capacity)
    BY LWords DEF LFU!Miss, LFU!LookupMisses, Counted
<1>2. Range(classes) \subseteq LClass /\ LParts(Range(classes)) /\ LRow(classes)
    BY LineElements DEF LInv, LRow
<1>3. PICK d \in LClass : /\ d.freq = 1
                          /\ d \in Range(classes) \/ d.entries = <<>>
                          /\ LRow(classes')
                          /\ Range(classes') = (Range(classes) \ {d}) \cup {LMore(d, k)}
    BY LEnters
<1>4. k \notin LKeys(Range(classes)) /\ d.freq \in 1..MaxUses
    BY <1>1, <1>3, LBounds DEF LInv
<1>5. LParts(Range(classes')) /\ LKeys(Range(classes')) = LKeys(Range(classes)) \cup {k}
    BY <1>2, <1>3, <1>4, LJoins
<1>6. Held(Keys, Capacity)'
  <2>1. IsFiniteSet(resident) /\ Cardinality(resident) <= Capacity /\ Capacity \in Nat
    BY <1>1, LBounds DEF LInv, Held
  <2>2. QED
    BY <1>1, <2>1, OneComes DEF LInv, Held
<1>7. QED
    BY <1>1, <1>3, <1>5, <1>6 DEF LInv

(* What an evict() does to the classes. *)
LEMMA LLeaves ==
    ASSUME LInv, LFU!Evict
    PROVE  \E c \in Range(classes), v \in Keys :
              /\ c = classes[1] /\ 1 \in 1..Len(classes)
              /\ c.entries # <<>> /\ v = Head(c.entries) /\ v \in Range(c.entries)
              /\ LFU!Discard(v)
              /\ LRow(classes')
              /\ Range(classes') = (Range(classes) \ {c}) \cup LLeft(c, v)
<1> DEFINE c == classes[1]
           v == Head(c.entries)
<1>1. /\ classes # <<>> /\ c.entries # <<>>
      /\ LFU!Discard(v)
      /\ classes' = LFU!Removed(classes, 1, v)
    BY DEF LFU!Evict
<1>2. /\ Range(classes) \subseteq LClass /\ LParts(Range(classes)) /\ LRow(classes)
      /\ classes \in Seq(LClass)
    BY LineElements DEF LInv, LRow
<1>3. 1 \in 1..Len(classes) /\ c \in Range(classes) /\ c \in LClass
  <2>1. Len(classes) \in Nat /\ Len(classes) # 0
    BY <1>1, <1>2, EmptySeq, LenProperties
  <2>2. 1 \in 1..Len(classes)
    BY <2>1
  <2>3. QED
    BY <2>2, <1>2, LRowWords
<1>4. IsInjective(c.entries) /\ c.entries \in Seq(Keys)
    BY <1>2, <1>3 DEF LParts, LClass
<1>5. v \in Range(c.entries)
    BY <1>1, <1>4, LeaveFront
<1>6. v \in Keys
    BY <1>4, <1>5, LineElements
<1>7. v = Head(c.entries) /\ c = classes[1]
    OBVIOUS
<1> HIDE DEF c, v
<1>8. LRow(classes') /\ Range(classes') = (Range(classes) \ {c}) \cup LLeft(c, v)
    BY <1>1, <1>2, <1>3, <1>4, LRemoves DEF c
<1>9. QED
    BY <1>1, <1>3, <1>5, <1>6, <1>7, <1>8

(* An evict() takes a key from the lowest class, and releases the class it *)
(* emptied.                                                                *)
LEMMA LEvicts ==
    ASSUME LInv, LFU!Evict
    PROVE  LInv'
<1>1. PICK c \in Range(classes), v \in Keys :
              /\ v \in Range(c.entries)
              /\ LFU!Discard(v)
              /\ LRow(classes')
              /\ Range(classes') = (Range(classes) \ {c}) \cup LLeft(c, v)
    BY LLeaves
<1>2. Range(classes) \subseteq LClass /\ LParts(Range(classes))
    BY LineElements DEF LInv, LRow
<1>3. resident' = resident \ {v} /\ Counted(Keys)'
    BY <1>1 DEF LFU!Discard, Counted
<1>4. LParts(Range(classes')) /\ LKeys(Range(classes')) = LKeys(Range(classes)) \ {v}
    BY <1>1, <1>2, LGoes
<1>5. Held(Keys, Capacity)'
  <2>1. Capacity + 1 \in Nat
    BY LBounds
  <2>2. QED
    BY <1>3, <2>1, OneGoes DEF LInv, Held
<1>6. QED
    BY <1>1, <1>3, <1>4, <1>5 DEF LInv

(* The constructor establishes the invariant. *)
LEMMA LBegins == LFU!Init => LInv
<1>1. SUFFICES ASSUME LFU!Init PROVE LInv
    OBVIOUS
<1>2. resident = {} /\ event = [op |-> "none"] /\ classes = <<>>
    BY <1>1 DEF LFU!Init, LFU!HarnessInit
<1>3. <<>> \in Seq(LClass) /\ Len(<<>>) = 0 /\ Range(<<>>) = {}
    BY EmptySeq DEF Range
<1>4. LRow(classes)
    BY <1>2, <1>3 DEF LRow
<1>5. LParts(Range(classes)) /\ LKeys(Range(classes)) = resident
    BY <1>2, <1>3 DEF LParts, LKeys
<1>6. Held(Keys, Capacity)
    BY <1>2, FS_EmptySet, LBounds DEF Held
<1>7. QED
    BY <1>2, <1>4, <1>5, <1>6 DEF LInv, Counted

(* What the invariant gives: the class pool has one for every count in use, *)
(* and a spare.                                                             *)
LEMMA LTyped == LInv => LFU!TypeOK /\ LFU!ClassesAscend /\ LFU!PoolsSuffice
<1>1. SUFFICES ASSUME LInv PROVE LFU!TypeOK /\ LFU!ClassesAscend /\ LFU!PoolsSuffice
    OBVIOUS
<1>2. LFU!HarnessTypeOK
    BY <1>1, LCardinality, LBounds DEF LInv, Held, Counted, LFU!HarnessTypeOK
<1>3. /\ Len(classes) \in Nat /\ DOMAIN classes = 1..Len(classes)
      /\ \A i \in 1..Len(classes) : classes[i] \in Range(classes)
      /\ \A i, j \in 1..Len(classes) : i # j => classes[i] # classes[j]
      /\ LRow(classes)
      /\ \A i, j \in 1..Len(classes) : i < j => classes[i].freq < classes[j].freq
    BY <1>1, LRowWords DEF LInv, LRow
<1>4. Len(classes) <= Cardinality(resident) /\ Cardinality(resident) \in 0 .. Capacity + 1
    BY <1>1, LSize DEF LInv, Held
<1>5. Len(classes) <= Capacity + 1
    BY <1>3, <1>4, LBounds
<1>6. LFU!TypeOK
  <2>1. \A i \in 1..Len(classes) : /\ classes[i].freq \in 1..MaxUses
                                   /\ IsInjective(classes[i].entries)
    BY <1>1, <1>3 DEF LInv, LParts
  <2>2. \A i, j \in 1..Len(classes) :
            i # j => Range(classes[i].entries) \cap Range(classes[j].entries) = {}
    BY <1>1, <1>3 DEF LInv, LParts
  <2>3. LFU!Entries = resident
    BY <1>1, LEntries
  <2>4. QED
    BY <2>1, <2>2, <2>3, <1>2, <1>3, <1>5, LWords DEF LFU!TypeOK
<1>7. LFU!ClassesAscend
    BY <1>1, <1>3 DEF LFU!ClassesAscend, LInv, LParts
<1>8. ASSUME ~ LFU!OverCapacity
      PROVE  /\ LFU!Cardinality(LFU!Entries) <= Capacity
             /\ Len(LFU!FirstClass) <= LFU!ClassPool
             /\ \A k \in LFU!Entries : Len(LFU!ClassAfter(LFU!ClassOf(k))) <= LFU!ClassPool
  <2>1. Cardinality(resident) <= Capacity /\ Len(classes) + 1 <= Capacity + 1
        /\ LFU!ClassPool = Capacity + 1
    BY <1>3, <1>4, <1>8, LWords, LBounds DEF LFU!ClassPool
  <2>2. \A x \in Nat : (x <= Len(classes) + 1) => x <= LFU!ClassPool
    BY <2>1, <1>3, LBounds
  <2>3. LFU!Cardinality(LFU!Entries) <= Capacity
    BY <2>1, <1>1, LEntries, LCardinality
  <2>4. Len(LFU!FirstClass) <= LFU!ClassPool
    <3> DEFINE s == LFU!FirstClass
    <3>1. \A c \in Range(classes) : c.freq # 0
        BY <1>1, LBounds DEF LInv, LParts
    <3>2. LRow(s) /\ Len(s) <= Len(classes) + 1
        BY <3>1, <1>3, LLowest
    <3> HIDE DEF s
    <3>3. Len(s) <= LFU!ClassPool
        BY <3>2, <2>2, LRowWords
    <3>4. QED
        BY <3>3 DEF s
  <2>5. ASSUME NEW k \in LFU!Entries
        PROVE  Len(LFU!ClassAfter(LFU!ClassOf(k))) <= LFU!ClassPool
    <3> DEFINE i == LFU!ClassOf(k)
               s == LFU!ClassAfter(i)
    <3>1. i \in 1..Len(classes)
        BY <2>5, <1>1, LEntries, LFinds
    <3> HIDE DEF i
    <3>2. LRow(s) /\ Len(s) <= Len(classes) + 1
        BY <3>1, <1>3, LNeighbour
    <3> HIDE DEF s
    <3>3. Len(s) <= LFU!ClassPool
        BY <3>2, <2>2, LRowWords
    <3>4. QED
        BY <3>3 DEF s, i
  <2>6. QED
    BY <2>3, <2>4, <2>5
<1>9. QED
    BY <1>6, <1>7, <1>8 DEF LFU!PoolsSuffice

-----------------------------------------------------------------------------
(* LFU's ranking *)

(* Two keys of one class, the first of them there the longer. *)
LEarlier(s, x, y) == \E i, j \in DOMAIN s : i < j /\ s[i] = x /\ s[j] = y

(* Whoever joins a class at the back comes after all the others. *)
LEMMA LEarlierBack ==
    ASSUME NEW s \in Seq(Keys), IsInjective(s), NEW k \in Keys, k \notin Range(s),
           NEW t, t = Append(s, k)
    PROVE  /\ \A x, y : (x # k /\ y # k) => (LEarlier(t, x, y) <=> LEarlier(s, x, y))
           /\ \A x \in Range(s) : LEarlier(t, x, k)
           /\ \A x : ~ LEarlier(t, k, x)
<1> DEFINE n == Len(s)
<1>1. /\ n \in Nat /\ DOMAIN s = 1..n /\ Range(s) = {s[i] : i \in 1..n}
    BY LineElements
<1>2. /\ t \in Seq(Keys) /\ IsInjective(t) /\ Len(t) = n + 1
      /\ t[n + 1] = k /\ \A i \in 1..n : t[i] = s[i]
    BY JoinBack
<1>3. DOMAIN t = 1..(n + 1) /\ \A i, j \in 1..(n + 1) : t[i] = t[j] => i = j
    BY <1>2, LineElements
<1> HIDE DEF n
<1>4. /\ \A i \in 1..(n + 1) : i \in 1..n \/ i = n + 1
      /\ \A i \in 1..n : i \in 1..(n + 1) /\ i < n + 1
      /\ n + 1 \in 1..(n + 1)
      /\ \A j \in 1..(n + 1) : ~ (n + 1 < j)
    BY <1>1
<1>5. ASSUME NEW x, NEW y, x # k, y # k
      PROVE  LEarlier(t, x, y) <=> LEarlier(s, x, y)
  <2>1. \A i \in 1..(n + 1) : (t[i] = x \/ t[i] = y) => i \in 1..n
    BY <1>2, <1>4, <1>5
  <2>2. QED
    BY <2>1, <1>1, <1>2, <1>3, <1>4 DEF LEarlier
<1>6. ASSUME NEW x \in Range(s) PROVE LEarlier(t, x, k)
  <2>1. PICK i \in 1..n : s[i] = x
    BY <1>1
  <2>2. QED
    BY <2>1, <1>2, <1>3, <1>4 DEF LEarlier
<1>7. ASSUME NEW x, LEarlier(t, k, x) PROVE FALSE
  <2>1. PICK i \in 1..(n + 1), j \in 1..(n + 1) : i < j /\ t[i] = k
    BY <1>3, <1>7 DEF LEarlier
  <2>2. i = n + 1
    BY <2>1, <1>2, <1>3, <1>4
  <2>3. QED
    BY <2>1, <2>2, <1>4
<1>8. QED
    BY <1>5, <1>6, <1>7

(* Whoever leaves does not change the order of the others. *)
LEMMA LEarlierLeft ==
    ASSUME NEW s \in Seq(Keys), IsInjective(s), NEW k \in Range(s), NEW t, t = Remove(s, k)
    PROVE  \A x, y : (x # k /\ y # k) => (LEarlier(t, x, y) <=> LEarlier(s, x, y))
<1> DEFINE n == Len(s)
<1>1. /\ n \in Nat /\ DOMAIN s = 1..n /\ Range(s) = {s[i] : i \in 1..n}
    BY LineElements
<1>2. PICK p \in 1..n : s[p] = k
    BY <1>1
<1>3. /\ t \in Seq(Keys) /\ Len(t) = n - 1
      /\ \A i \in 1..(n - 1) : t[i] = IF i < p THEN s[i] ELSE s[i + 1]
    BY <1>2, LeaveAt
<1>4. DOMAIN t = 1..(n - 1)
    BY <1>3, LineElements
<1> HIDE DEF n
<1> DEFINE up(i) == IF i < p THEN i ELSE i + 1
           dn(i) == IF i < p THEN i ELSE i - 1
<1>5. \A i \in 1..(n - 1) : up(i) \in 1..n /\ t[i] = s[up(i)]
    BY <1>1, <1>3
<1>6. \A i, j \in 1..(n - 1) : i < j => up(i) < up(j)
    BY <1>1
<1>7. \A i \in 1..n : i # p => dn(i) \in 1..(n - 1) /\ up(dn(i)) = i
    BY <1>1
<1>8. \A i, j \in 1..n : (i # p /\ j # p /\ i < j) => dn(i) < dn(j)
    BY <1>1
<1> HIDE DEF up, dn
<1>9. ASSUME NEW x, NEW y, x # k, y # k, LEarlier(t, x, y)
      PROVE  LEarlier(s, x, y)
  <2>1. PICK i \in 1..(n - 1), j \in 1..(n - 1) : i < j /\ t[i] = x /\ t[j] = y
    BY <1>4, <1>9 DEF LEarlier
  <2>2. QED
    BY <2>1, <1>1, <1>5, <1>6 DEF LEarlier
<1>10. ASSUME NEW x, NEW y, x # k, y # k, LEarlier(s, x, y)
       PROVE  LEarlier(t, x, y)
  <2>1. PICK i \in 1..n, j \in 1..n : i < j /\ s[i] = x /\ s[j] = y
    BY <1>1, <1>10 DEF LEarlier
  <2>2. i # p /\ j # p
    BY <2>1, <1>2, <1>10
  <2>3. /\ dn(i) \in 1..(n - 1) /\ dn(j) \in 1..(n - 1) /\ dn(i) < dn(j)
        /\ t[dn(i)] = x /\ t[dn(j)] = y
    BY <2>1, <2>2, <1>5, <1>7, <1>8
  <2>4. QED
    BY <2>3, <1>4 DEF LEarlier
<1>11. QED
    BY <1>9, <1>10

(* The head of a class comes before all the others. *)
LEMMA LEarlierFront ==
    ASSUME NEW s \in Seq(Keys), s # <<>>
    PROVE  \A x \in Range(s) \ {Head(s)} : LEarlier(s, Head(s), x)
<1> DEFINE n == Len(s)
<1>1. /\ n \in Nat /\ n # 0 /\ DOMAIN s = 1..n /\ Range(s) = {s[i] : i \in 1..n} /\ Head(s) = s[1]
    BY LineElements
<1> HIDE DEF n
<1>2. SUFFICES ASSUME NEW x \in Range(s) \ {s[1]} PROVE LEarlier(s, s[1], x)
    BY <1>1
<1>3. PICK i \in 1..n : s[i] = x
    BY <1>1
<1>4. 1 \in 1..n /\ 1 < i
    BY <1>1, <1>2, <1>3
<1>5. QED
    BY <1>1, <1>3, <1>4 DEF LEarlier

(* The class of a key, its count and its rank, as the set of classes has it. *)
LHome(C, k) == CHOOSE c \in C : k \in Range(c.entries)

LUses(C, k) == LHome(C, k).freq

LFirst(C, x, y) ==
    \/ LUses(C, x) < LUses(C, y)
    \/ LUses(C, x) = LUses(C, y) /\ LEarlier(LHome(C, x).entries, x, y)

(* A key is in one class only. *)
LEMMA LHomes ==
    ASSUME NEW C, LParts(C), NEW c \in C, NEW k \in Range(c.entries)
    PROVE  LHome(C, k) = c
<1>1. \A d \in C : k \in Range(d.entries) => d = c
    BY DEF LParts
<1>2. QED
    BY <1>1 DEF LHome

(* The class of a key held, and its count. *)
LEMMA LAtHome ==
    ASSUME NEW C, LParts(C), NEW k \in LKeys(C)
    PROVE  /\ LHome(C, k) \in C /\ k \in Range(LHome(C, k).entries)
           /\ LUses(C, k) \in Nat /\ LUses(C, k) = LHome(C, k).freq
<1>1. PICK c \in C : k \in Range(c.entries)
    BY DEF LKeys
<1>2. LHome(C, k) = c
    BY <1>1, LHomes
<1>3. c.freq \in Nat
    BY <1>1, LBounds DEF LParts
<1>4. QED
    BY <1>1, <1>2, <1>3 DEF LUses

(* The other keys keep their counts and their order. *)
LKeptIn(c, e, k) ==
    /\ e.freq = c.freq
    /\ \A x, y : (x # k /\ y # k) => (LEarlier(e.entries, x, y) <=> LEarlier(c.entries, x, y))

LKept(C, D, k) ==
    \A c \in C : \A x \in Range(c.entries) \ {k} :
        \E e \in D : x \in Range(e.entries) /\ LKeptIn(c, e, k)

(* Keys that keep their classes keep their counts and their order. *)
LEMMA LKeeps ==
    ASSUME NEW C, LParts(C), NEW D, LParts(D), NEW k, LKept(C, D, k)
    PROVE  /\ \A x \in LKeys(C) \ {k} : x \in LKeys(D) /\ LUses(D, x) = LUses(C, x)
           /\ \A x, y \in LKeys(C) \ {k} : LFirst(D, x, y) <=> LFirst(C, x, y)
<1>1. ASSUME NEW x \in LKeys(C) \ {k}
      PROVE  /\ x \in LKeys(D) /\ LUses(D, x) = LUses(C, x)
             /\ LKeptIn(LHome(C, x), LHome(D, x), k)
  <2>1. LHome(C, x) \in C /\ x \in Range(LHome(C, x).entries) \ {k}
    BY LAtHome
  <2>2. PICK e \in D : x \in Range(e.entries) /\ LKeptIn(LHome(C, x), e, k)
    BY <2>1 DEF LKept
  <2>3. LHome(D, x) = e
    BY <2>2, LHomes
  <2>4. QED
    BY <2>2, <2>3 DEF LKeys, LUses, LKeptIn
<1>2. ASSUME NEW x \in LKeys(C) \ {k}, NEW y \in LKeys(C) \ {k}
      PROVE  LFirst(D, x, y) <=> LFirst(C, x, y)
  <2>1. /\ LUses(D, x) = LUses(C, x) /\ LUses(D, y) = LUses(C, y)
        /\ LEarlier(LHome(D, x).entries, x, y) <=> LEarlier(LHome(C, x).entries, x, y)
    BY <1>1 DEF LKeptIn
  <2>2. QED
    BY <2>1 DEF LFirst
<1>3. QED
    BY <1>1, <1>2

(* The ranking as the set of classes has it. *)
LRank(C) == {pair \in LKeys(C) \X LKeys(C) : LFirst(C, pair[1], pair[2])}

(* A ranking without one key; one key put above those used n times. *)
LWithout(rank, k) == {pair \in rank : pair[1] # k /\ pair[2] # k}

LAtMost(C, k, n) == {x \in LKeys(C) \ {k} : LUses(C, x) <= n}

LAbove(C, k, n) ==
    (LAtMost(C, k, n) \X {k}) \cup ({k} \X ((LKeys(C) \ {k}) \ LAtMost(C, k, n)))

(* The ranking, pair by pair. *)
LEMMA LPairs == \A C, x, y :
    <<x, y>> \in LRank(C) <=> x \in LKeys(C) /\ y \in LKeys(C) /\ LFirst(C, x, y)
BY DEF LRank

(* What a key put above those used n times adds, pair by pair. *)
LEMMA LAbovePairs == \A C, k, n, x, y :
    <<x, y>> \in LAbove(C, k, n) <=>
        \/ x \in LAtMost(C, k, n) /\ y = k
        \/ x = k /\ y \in LKeys(C) \ {k} /\ y \notin LAtMost(C, k, n)
BY DEF LAbove

(* Two sets of pairs are the same when their pairs are. *)
LAlike(S, A, B) ==
    /\ A \in SUBSET (S \X S) /\ B \in SUBSET (S \X S)
    /\ \A x, y \in S : <<x, y>> \in A <=> <<x, y>> \in B

(* Rankings that agree on every pair are the same. *)
LEMMA LSamePairs == \A S, A, B : LAlike(S, A, B) => A = B
<1>1. SUFFICES ASSUME NEW S, NEW A, NEW B, LAlike(S, A, B) PROVE A = B
    OBVIOUS
<1>2. \A z \in S \X S : \E x, y \in S : z = <<x, y>>
    OBVIOUS
<1>3. \A z \in S \X S : z \in A <=> z \in B
    BY <1>1, <1>2 DEF LAlike
<1>4. QED
    BY <1>1, <1>3 DEF LAlike

(* A key that goes leaves the ranking of the others. *)
LEMMA LRankLess ==
    ASSUME NEW C, LParts(C), NEW D, LParts(D), NEW k, LKept(C, D, k),
           LKeys(D) = LKeys(C) \ {k}
    PROVE  LRank(D) = LWithout(LRank(C), k)
<1> DEFINE A == LRank(D)
           B == LWithout(LRank(C), k)
           S == LKeys(C)
<1>1. A \in SUBSET (S \X S) /\ B \in SUBSET (S \X S)
    BY DEF LRank, LWithout
<1>2. ASSUME NEW x \in S, NEW y \in S PROVE <<x, y>> \in A <=> <<x, y>> \in B
  <2>1. <<x, y>> \in B <=> LFirst(C, x, y) /\ x # k /\ y # k
    BY LPairs DEF LWithout
  <2>2. <<x, y>> \in A <=> x # k /\ y # k /\ LFirst(D, x, y)
    BY LPairs
  <2>3. x # k /\ y # k => (LFirst(D, x, y) <=> LFirst(C, x, y))
    BY LKeeps
  <2>4. QED
    BY <2>1, <2>2, <2>3
<1> HIDE DEF A, B, S
<1>3. LAlike(S, A, B)
    BY <1>1, <1>2 DEF LAlike
<1>4. A = B
    BY <1>3, LSamePairs
<1>5. QED
    BY <1>4 DEF A, B

(* The key is the last of its class. *)
LTop(D, k, n) ==
    /\ k \in LKeys(D)
    /\ LUses(D, k) = n
    /\ \A x \in Range(LHome(D, k).entries) \ {k} : LEarlier(LHome(D, k).entries, x, k)
    /\ \A x : ~ LEarlier(LHome(D, k).entries, k, x)

(* The classes differ in their counts. *)
LCounts(D) == \A c, d \in D : c.freq = d.freq => c = d

(* The last of its class ranks above those used no more, and below all *)
(* others.                                                             *)
LEMMA LTopmost ==
    ASSUME NEW D, LParts(D), LCounts(D), NEW k, NEW n \in Nat, LTop(D, k, n)
    PROVE  /\ ~ LFirst(D, k, k)
           /\ \A x \in LKeys(D) \ {k} : /\ LFirst(D, x, k) <=> LUses(D, x) <= n
                                        /\ LFirst(D, k, x) <=> ~ (LUses(D, x) <= n)
<1>1. k \in LKeys(D) /\ LUses(D, k) = n /\ LHome(D, k) \in D
    BY LAtHome DEF LTop
<1>2. ~ LFirst(D, k, k)
    BY <1>1 DEF LTop, LFirst
<1>3. ASSUME NEW x \in LKeys(D) \ {k}
      PROVE  /\ LFirst(D, x, k) <=> LUses(D, x) <= n
             /\ LFirst(D, k, x) <=> ~ (LUses(D, x) <= n)
  <2>1. LUses(D, x) \in Nat /\ LHome(D, x) \in D /\ x \in Range(LHome(D, x).entries)
    BY LAtHome
  <2>2. LUses(D, x) = n => LEarlier(LHome(D, x).entries, x, k)
    <3>1. SUFFICES ASSUME LUses(D, x) = n PROVE LEarlier(LHome(D, x).entries, x, k)
        OBVIOUS
    <3>2. LHome(D, x) = LHome(D, k)
        BY <3>1, <1>1, <2>1 DEF LCounts, LUses
    <3>3. QED
        BY <3>2, <2>1 DEF LTop
  <2>3. ~ LEarlier(LHome(D, k).entries, k, x)
    BY DEF LTop
  <2>4. LFirst(D, x, k) <=> LUses(D, x) < n \/ (LUses(D, x) = n /\ LEarlier(LHome(D, x).entries, x, k))
    BY <1>1 DEF LFirst
  <2>5. LFirst(D, k, x) <=> n < LUses(D, x)
    BY <1>1, <2>3 DEF LFirst
  <2>6. QED
    BY <2>1, <2>2, <2>4, <2>5
<1>4. QED
    BY <1>2, <1>3

(* A key that comes or moves up ranks as its count says, and the others as *)
(* before.                                                                 *)
LEMMA LRankMore ==
    ASSUME NEW C, LParts(C), NEW D, LParts(D), LCounts(D), NEW k, LKept(C, D, k),
           NEW n \in Nat, LTop(D, k, n), LKeys(D) = LKeys(C) \cup {k}
    PROVE  LRank(D) = LWithout(LRank(C), k) \cup LAbove(C, k, n)
<1> DEFINE A == LRank(D)
           B == LWithout(LRank(C), k) \cup LAbove(C, k, n)
           S == LKeys(C) \cup {k}
<1>1. A \in SUBSET (S \X S) /\ B \in SUBSET (S \X S)
    BY DEF LRank, LWithout, LAbove, LAtMost
<1>2. ASSUME NEW x \in S, NEW y \in S PROVE <<x, y>> \in A <=> <<x, y>> \in B
  <2>1. <<x, y>> \in A <=> LFirst(D, x, y)
    BY LPairs
  <2>2. <<x, y>> \in LWithout(LRank(C), k) <=>
            x \in LKeys(C) /\ y \in LKeys(C) /\ LFirst(C, x, y) /\ x # k /\ y # k
    BY LPairs DEF LWithout
  <2>3. <<x, y>> \in LAbove(C, k, n) <=>
            \/ x \in LKeys(C) \ {k} /\ LUses(C, x) <= n /\ y = k
            \/ x = k /\ y \in LKeys(C) \ {k} /\ ~ (LUses(C, y) <= n)
    BY LAbovePairs DEF LAtMost
  <2>4. CASE x # k /\ y # k
    <3>1. LFirst(D, x, y) <=> LFirst(C, x, y)
        BY <2>4, LKeeps
    <3>2. QED
        BY <3>1, <2>1, <2>2, <2>3, <2>4
  <2>5. CASE x # k /\ y = k
    <3>1. x \in LKeys(D) \ {k} /\ LUses(D, x) = LUses(C, x)
        BY <2>5, LKeeps
    <3>2. LFirst(D, x, k) <=> LUses(D, x) <= n
        BY <3>1, LTopmost
    <3>3. QED
        BY <3>1, <3>2, <2>1, <2>2, <2>3, <2>5
  <2>6. CASE x = k /\ y # k
    <3>1. y \in LKeys(D) \ {k} /\ LUses(D, y) = LUses(C, y)
        BY <2>6, LKeeps
    <3>2. LFirst(D, k, y) <=> ~ (LUses(D, y) <= n)
        BY <3>1, LTopmost
    <3>3. QED
        BY <3>1, <3>2, <2>1, <2>2, <2>3, <2>6
  <2>7. CASE x = k /\ y = k
    <3>1. ~ LFirst(D, k, k)
        BY LTopmost
    <3>2. QED
        BY <3>1, <2>1, <2>2, <2>3, <2>7
  <2>8. QED
    BY <2>4, <2>5, <2>6, <2>7
<1> HIDE DEF A, B, S
<1>3. LAlike(S, A, B)
    BY <1>1, <1>2 DEF LAlike
<1>4. A = B
    BY <1>3, LSamePairs
<1>5. QED
    BY <1>4 DEF A, B

(* What a key's coming and going makes of the classes. *)
LEMMA LKeptSame == \A c, k : LKeptIn(c, c, k)
BY DEF LKeptIn

(* A class keeps the order of its keys when one more joins. *)
LEMMA LKeptMore ==
    ASSUME NEW d \in LClass, IsInjective(d.entries), NEW k \in Keys, k \notin Range(d.entries)
    PROVE  /\ LKeptIn(d, LMore(d, k), k)
           /\ \A x \in Range(LMore(d, k).entries) \ {k} : LEarlier(LMore(d, k).entries, x, k)
           /\ \A x : ~ LEarlier(LMore(d, k).entries, k, x)
           /\ Range(LMore(d, k).entries) = Range(d.entries) \cup {k}
           /\ LMore(d, k).freq = d.freq
<1>1. d.entries \in Seq(Keys)
    BY DEF LClass
<1>2. LMore(d, k).entries = Append(d.entries, k) /\ LMore(d, k).freq = d.freq
    BY DEF LMore
<1> DEFINE s == d.entries
           t == LMore(d, k).entries
<1>a. s \in Seq(Keys) /\ IsInjective(s) /\ k \notin Range(s) /\ t = Append(s, k)
    BY <1>1, <1>2
<1> HIDE DEF s, t
<1>3. /\ \A x, y : (x # k /\ y # k) => (LEarlier(t, x, y) <=> LEarlier(s, x, y))
      /\ \A x \in Range(s) : LEarlier(t, x, k)
      /\ \A x : ~ LEarlier(t, k, x)
    BY <1>a, LEarlierBack
<1>4. Range(LMore(d, k).entries) = Range(d.entries) \cup {k}
    BY LGains
<1>5. QED
    BY <1>2, <1>3, <1>4 DEF LKeptIn, s, t

(* And when one leaves. *)
LEMMA LKeptLeft ==
    ASSUME NEW c \in LClass, IsInjective(c.entries), NEW k \in Range(c.entries)
    PROVE  \A e \in LLeft(c, k) : LKeptIn(c, e, k) /\ Range(e.entries) = Range(c.entries) \ {k}
<1>1. c.entries \in Seq(Keys)
    BY DEF LClass
<1>2. SUFFICES ASSUME NEW e \in LLeft(c, k)
               PROVE  LKeptIn(c, e, k) /\ Range(e.entries) = Range(c.entries) \ {k}
    OBVIOUS
<1>3. e.entries = Remove(c.entries, k) /\ e.freq = c.freq
    BY DEF LLeft
<1>4. \A x, y : (x # k /\ y # k) => (LEarlier(e.entries, x, y) <=> LEarlier(c.entries, x, y))
    BY <1>1, <1>3, LEarlierLeft
<1>5. Range(e.entries) = Range(c.entries) \ {k}
    BY LLoses
<1>6. QED
    BY <1>3, <1>4, <1>5 DEF LKeptIn

(* A key that moves up a class leaves the other keys as they were. *)
LEMMA LKeptUp ==
    ASSUME NEW C, C \subseteq LClass, LParts(C),
           NEW c \in C, NEW k \in Range(c.entries), k \in Keys,
           NEW d \in LClass, d # c, d \in C \/ d.entries = <<>>,
           NEW D, D = (C \ {c, d}) \cup {LMore(d, k)} \cup LLeft(c, k), LParts(D)
    PROVE  /\ LKept(C, D, k)
           /\ LTop(D, k, d.freq)
<1>1. c \in LClass /\ IsInjective(c.entries)
    BY DEF LParts
<1>2. IsInjective(d.entries) /\ k \notin Range(d.entries)
  <2>1. CASE d \in C
    BY <2>1 DEF LParts
  <2>2. CASE d.entries = <<>>
    BY <2>2 DEF IsInjective, Range
  <2>3. QED
    BY <2>1, <2>2
<1> DEFINE more == LMore(d, k)
           left == LLeft(c, k)
<1>3. /\ LKeptIn(d, more, k)
      /\ \A x \in Range(more.entries) \ {k} : LEarlier(more.entries, x, k)
      /\ \A x : ~ LEarlier(more.entries, k, x)
      /\ Range(more.entries) = Range(d.entries) \cup {k}
      /\ more.freq = d.freq
    BY <1>2, LKeptMore
<1>4. /\ \A e \in left : LKeptIn(c, e, k) /\ Range(e.entries) = Range(c.entries) \ {k}
      /\ \A x \in Range(c.entries) : x = k \/ left # {}
    BY <1>1, LKeptLeft, LLoses
<1>5. D = (C \ {c, d}) \cup {more} \cup left
    OBVIOUS
<1> HIDE DEF more, left
<1>6. LKept(C, D, k)
  <2>1. SUFFICES ASSUME NEW f \in C, NEW x \in Range(f.entries) \ {k}
                 PROVE  \E e \in D : x \in Range(e.entries) /\ LKeptIn(f, e, k)
    BY DEF LKept
  <2>2. CASE f = c
    <3>1. PICK e \in left : TRUE
        BY <1>4, <2>1, <2>2
    <3>2. e \in D /\ x \in Range(e.entries) /\ LKeptIn(f, e, k)
        BY <3>1, <1>4, <1>5, <2>1, <2>2
    <3>3. QED
        BY <3>2
  <2>3. CASE f = d
    <3>1. more \in D /\ x \in Range(more.entries) /\ LKeptIn(f, more, k)
        BY <1>3, <1>5, <2>1, <2>3
    <3>2. QED
        BY <3>1
  <2>4. CASE f # c /\ f # d
    <3>1. f \in D /\ LKeptIn(f, f, k)
        BY <1>5, <2>4, LKeptSame
    <3>2. QED
        BY <3>1, <2>1
  <2>5. QED
    BY <2>2, <2>3, <2>4
<1>7. LTop(D, k, d.freq)
  <2>1. more \in D /\ k \in Range(more.entries)
    BY <1>3, <1>5
  <2>2. LHome(D, k) = more /\ k \in LKeys(D)
    BY <2>1, LHomes DEF LKeys
  <2>3. QED
    BY <2>2, <1>3 DEF LTop, LUses
<1>8. QED
    BY <1>6, <1>7

(* A key that comes leaves the other keys as they were. *)
LEMMA LKeptNew ==
    ASSUME NEW C, C \subseteq LClass, LParts(C), NEW k \in Keys, k \notin LKeys(C),
           NEW d \in LClass, d \in C \/ d.entries = <<>>,
           NEW D, D = (C \ {d}) \cup {LMore(d, k)}, LParts(D)
    PROVE  /\ LKept(C, D, k)
           /\ LTop(D, k, d.freq)
<1>2. IsInjective(d.entries) /\ k \notin Range(d.entries)
  <2>1. CASE d \in C
    BY <2>1 DEF LParts, LKeys
  <2>2. CASE d.entries = <<>>
    BY <2>2 DEF IsInjective, Range
  <2>3. QED
    BY <2>1, <2>2
<1> DEFINE more == LMore(d, k)
<1>3. /\ LKeptIn(d, more, k)
      /\ \A x \in Range(more.entries) \ {k} : LEarlier(more.entries, x, k)
      /\ \A x : ~ LEarlier(more.entries, k, x)
      /\ Range(more.entries) = Range(d.entries) \cup {k}
      /\ more.freq = d.freq
    BY <1>2, LKeptMore
<1>5. D = (C \ {d}) \cup {more}
    OBVIOUS
<1> HIDE DEF more
<1>6. LKept(C, D, k)
  <2>1. SUFFICES ASSUME NEW f \in C, NEW x \in Range(f.entries) \ {k}
                 PROVE  \E e \in D : x \in Range(e.entries) /\ LKeptIn(f, e, k)
    BY DEF LKept
  <2>3. CASE f = d
    <3>1. more \in D /\ x \in Range(more.entries) /\ LKeptIn(f, more, k)
        BY <1>3, <1>5, <2>1, <2>3
    <3>2. QED
        BY <3>1
  <2>4. CASE f # d
    <3>1. f \in D /\ LKeptIn(f, f, k)
        BY <1>5, <2>4, LKeptSame
    <3>2. QED
        BY <3>1, <2>1
  <2>5. QED
    BY <2>3, <2>4
<1>7. LTop(D, k, d.freq)
  <2>1. more \in D /\ k \in Range(more.entries)
    BY <1>3, <1>5
  <2>2. LHome(D, k) = more /\ k \in LKeys(D)
    BY <2>1, LHomes DEF LKeys
  <2>3. QED
    BY <2>2, <1>3 DEF LTop, LUses
<1>8. QED
    BY <1>6, <1>7

(* And a key that goes. *)
LEMMA LKeptOut ==
    ASSUME NEW C, C \subseteq LClass, LParts(C),
           NEW c \in C, NEW k \in Range(c.entries),
           NEW D, D = (C \ {c}) \cup LLeft(c, k)
    PROVE  LKept(C, D, k)
<1>1. c \in LClass /\ IsInjective(c.entries)
    BY DEF LParts
<1> DEFINE left == LLeft(c, k)
<1>4. /\ \A e \in left : LKeptIn(c, e, k) /\ Range(e.entries) = Range(c.entries) \ {k}
      /\ \A x \in Range(c.entries) : x = k \/ left # {}
    BY <1>1, LKeptLeft, LLoses
<1>5. D = (C \ {c}) \cup left
    OBVIOUS
<1> HIDE DEF left
<1>6. SUFFICES ASSUME NEW f \in C, NEW x \in Range(f.entries) \ {k}
               PROVE  \E e \in D : x \in Range(e.entries) /\ LKeptIn(f, e, k)
    BY DEF LKept
<1>7. CASE f = c
  <2>1. PICK e \in left : TRUE
    BY <1>4, <1>6, <1>7
  <2>2. e \in D /\ x \in Range(e.entries) /\ LKeptIn(f, e, k)
    BY <2>1, <1>4, <1>5, <1>6, <1>7
  <2>3. QED
    BY <2>2
<1>8. CASE f # c
  <2>1. f \in D /\ LKeptIn(f, f, k)
    BY <1>5, <1>8, LKeptSame
  <2>2. QED
    BY <2>1, <1>6
<1>9. QED
    BY <1>7, <1>8

(* The ranking LFU's class list stands for. *)
LBelow == {pair \in LFU!Entries \X LFU!Entries : LFU!GoesFirst(pair[1], pair[2])}

LCount == [k \in LFU!Entries |-> classes[LFU!ClassOf(k)].freq]

LTally(C) == [k \in LKeys(C) |-> LUses(C, k)]

(* The ranking the list of classes stands for depends on the classes alone. *)
LEMMA LView ==
    LInv => /\ LFU!Entries = LKeys(Range(classes))
            /\ LBelow = LRank(Range(classes))
            /\ LCount = LTally(Range(classes))
<1> DEFINE C == Range(classes)
<1>1. SUFFICES ASSUME LInv
               PROVE  LFU!Entries = LKeys(C) /\ LBelow = LRank(C) /\ LCount = LTally(C)
    OBVIOUS
<1>2. LFU!Entries = LKeys(C) /\ LKeys(C) = resident /\ LParts(C)
    BY <1>1, LEntries DEF LInv
<1>3. ASSUME NEW x \in LKeys(C)
      PROVE  /\ LFU!ClassOf(x) \in 1..Len(classes)
             /\ classes[LFU!ClassOf(x)] = LHome(C, x)
             /\ classes[LFU!ClassOf(x)].freq = LUses(C, x)
  <2>1. /\ LFU!ClassOf(x) \in 1..Len(classes)
        /\ x \in Range(classes[LFU!ClassOf(x)].entries)
        /\ classes[LFU!ClassOf(x)] \in C
    BY <1>1, <1>2, LFinds
  <2>2. LHome(C, x) = classes[LFU!ClassOf(x)]
    BY <2>1, <1>2, LHomes
  <2>3. QED
    BY <2>1, <2>2 DEF LUses
<1>4. /\ \A i, j \in 1..Len(classes) : i < j => classes[i].freq < classes[j].freq
      /\ Len(classes) \in Nat
      /\ \A i \in 1..Len(classes) : classes[i].freq \in Nat
    BY <1>1, LRowWords DEF LInv, LRow
<1> HIDE DEF C
<1>5. ASSUME NEW x \in LKeys(C), NEW y \in LKeys(C)
      PROVE  LFU!GoesFirst(x, y) <=> LFirst(C, x, y)
  <2> DEFINE i == LFU!ClassOf(x)
             j == LFU!ClassOf(y)
  <2>1. /\ i \in 1..Len(classes) /\ j \in 1..Len(classes)
        /\ classes[i].freq = LUses(C, x) /\ classes[j].freq = LUses(C, y)
        /\ classes[i] = LHome(C, x)
    BY <1>3
  <2>2. LFU!GoesFirst(x, y) <=> i < j \/ (i = j /\ LEarlier(classes[i].entries, x, y))
    BY DEF LFU!GoesFirst, LEarlier
  <2> HIDE DEF i, j
  <2>3. /\ i < j <=> classes[i].freq < classes[j].freq
        /\ i = j <=> classes[i].freq = classes[j].freq
    BY <2>1, <1>4
  <2>4. QED
    BY <2>1, <2>2, <2>3 DEF LFirst
<1>6. LBelow = LRank(C)
    BY <1>2, <1>5 DEF LBelow, LRank
<1>7. LCount = LTally(C)
    BY <1>2, <1>3 DEF LCount, LTally
<1>8. QED
    BY <1>2, <1>6, <1>7

(* The same of the next state. *)
LEMMA LViewNext ==
    ASSUME LInv'
    PROVE  /\ LFU!Entries' = LKeys(Range(classes'))
           /\ LBelow' = LRank(Range(classes'))
           /\ LCount' = LTally(Range(classes'))
<1>1. (LInv => /\ LFU!Entries = LKeys(Range(classes))
               /\ LBelow = LRank(Range(classes))
               /\ LCount = LTally(Range(classes)))'
    BY LView, PTL
<1>2. QED
    BY <1>1

(* The frequency order's operators are those of this module. *)
LEMMA LFWords ==
    /\ \A s : LFU!F!Range(s) = Range(s)
    /\ LFU!F!OverCapacity <=> LFU!OverCapacity
BY Zenon DEF LFU!F!Range, Range, LFU!F!OverCapacity, LFU!OverCapacity, LFU!F!Cardinality,
   LFU!Cardinality

(* The two of a pair. *)
LEMMA LPairRange == \A S : \A pair \in S \X S : Range(pair) = {pair[1], pair[2]}
<1>1. SUFFICES ASSUME NEW S, NEW x \in S, NEW y \in S PROVE Range(<<x, y>>) = {x, y}
    OBVIOUS
<1>2. DOMAIN <<x, y>> = 1..2 /\ <<x, y>>[1] = x /\ <<x, y>>[2] = y
    OBVIOUS
<1>3. QED
    BY <1>2 DEF Range

(* What the frequency order calls the ranking without a key. *)
LEMMA LUnranked ==
    ASSUME LInv, NEW k
    PROVE  LFU!F!Unranked(k) = LWithout(LRank(Range(classes)), k)
<1> DEFINE E == LFU!Entries
<1>1. LFU!F!Unranked(k) = {pair \in LBelow : k \notin Range(pair)}
    BY LFWords DEF LFU!F!Unranked, LBelow
<1>2. \A pair \in LBelow : Range(pair) = {pair[1], pair[2]}
  <2>1. LBelow \subseteq E \X E
    BY DEF LBelow
  <2> HIDE DEF E
  <2>2. QED
    BY <2>1, LPairRange
<1>3. LBelow = LRank(Range(classes))
    BY LView
<1>4. QED
    BY <1>1, <1>2, <1>3 DEF LWithout

(* What it calls the ranking with a key put above those used n times. *)
LEMMA LRanked ==
    ASSUME LInv, NEW k, NEW n
    PROVE  LFU!F!Ranked(k, n) =
               LWithout(LRank(Range(classes)), k) \cup LAbove(Range(classes), k, n)
<1> DEFINE C == Range(classes)
           E == LFU!Entries
           others == resident \ {k}
           atMost == {x \in others : LCount[x] <= n}
<1>1. LFU!F!Ranked(k, n) =
          LFU!F!Unranked(k) \cup (atMost \X {k}) \cup ({k} \X (others \ atMost))
    BY DEF LFU!F!Ranked, LCount
<1>2. resident = LKeys(C) /\ LCount = LTally(C)
    BY LView DEF LInv
<1>3. atMost = LAtMost(C, k, n)
    BY <1>2 DEF LAtMost, LTally
<1>4. LFU!F!Unranked(k) = LWithout(LRank(C), k)
    BY LUnranked
<1> HIDE DEF C, atMost
<1>5. QED
    BY <1>1, <1>2, <1>3, <1>4 DEF LAbove, C

(* What the next list of classes is, whatever the step. *)
LEMMA LRowNext ==
    ASSUME LInv, LInv'
    PROVE  /\ Range(classes) \subseteq LClass
           /\ LParts(Range(classes)) /\ LKeys(Range(classes)) = resident
           /\ LParts(Range(classes')) /\ LCounts(Range(classes'))
           /\ LKeys(Range(classes')) = resident'
<1>1. Range(classes) \subseteq LClass
    BY LineElements DEF LInv, LRow
<1>2. LRow(classes') /\ LParts(Range(classes')) /\ LKeys(Range(classes')) = resident'
    BY DEF LInv
<1>3. LCounts(Range(classes'))
    BY <1>2, LRowWords DEF LCounts
<1>4. QED
    BY <1>1, <1>2, <1>3 DEF LInv

(* A hit ranks its key above all keys used as often as it is now. *)
LEMMA LHitRanks ==
    ASSUME LInv, NEW k \in Keys, LFU!Hit(k)
    PROVE  LInv' /\ LFU!F!Next
<1> DEFINE C == Range(classes)
           D == Range(classes')
<1>1. LInv'
    BY LHits
<1>2. /\ k \in resident /\ resident' = resident /\ LFU!Promote(k) /\ LFU!LookupHits(k)
    BY DEF LFU!Hit, LFU!LookupHits
<1>3. PICK c \in C, d \in LClass :
              /\ c = classes[LFU!ClassOf(k)]
              /\ k \in Range(c.entries)
              /\ d.freq = c.freq + 1
              /\ d # c
              /\ d \in C \/ d.entries = <<>>
              /\ LRow(classes')
              /\ D = (C \ {c, d}) \cup {LMore(d, k)} \cup LLeft(c, k)
    BY <1>2, LPromotes
<1>4. /\ C \subseteq LClass /\ LParts(C) /\ LKeys(C) = resident
      /\ LParts(D) /\ LCounts(D) /\ LKeys(D) = resident
    BY <1>1, <1>2, LRowNext
<1>5. LBelow' = LRank(D) /\ LCount' = LTally(D) /\ LCount = LTally(C)
    BY <1>1, LViewNext, LView
<1> HIDE DEF C, D
<1>6. LKept(C, D, k) /\ LTop(D, k, d.freq)
    BY <1>3, <1>4, LKeptUp
<1>7. LUses(C, k) = c.freq /\ d.freq \in Nat
    BY <1>3, <1>4, LHomes DEF LUses, LClass
<1>8. LKeys(D) = LKeys(C) \cup {k}
    BY <1>2, <1>4
<1>9. LRank(D) = LWithout(LRank(C), k) \cup LAbove(C, k, d.freq)
    BY <1>4, <1>6, <1>7, <1>8, LRankMore
<1>10. LCount[k] + 1 = d.freq
    BY <1>2, <1>3, <1>4, <1>5, <1>7 DEF LTally
<1>11. LBelow' = LFU!F!Ranked(k, LCount[k] + 1)
    BY <1>5, <1>9, <1>10, LRanked DEF C
<1>12. LCount' = [LCount EXCEPT ![k] = @ + 1]
  <2>1. /\ \A x \in resident \ {k} : LUses(D, x) = LUses(C, x)
        /\ LUses(D, k) = LUses(C, k) + 1
    BY <1>3, <1>4, <1>6, <1>7, LKeeps DEF LTop
  <2>2. LTally(D) = [LTally(C) EXCEPT ![k] = @ + 1]
    BY <2>1, <1>2, <1>4 DEF LTally
  <2>3. QED
    BY <2>2, <1>5
<1>13. LFU!F!Hit(k)
  <2>1. LFU!F!LookupHits(k)
    BY <1>2, LFWords DEF LFU!F!LookupHits, LFU!LookupHits
  <2>2. QED
    BY <2>1, <1>11, <1>12 DEF LFU!F!Hit, LBelow, LCount
<1>14. QED
    BY <1>1, <1>13, Zenon DEF LFU!F!Next

(* A miss ranks its key above the keys used once, and below the others. *)
LEMMA LMissRanks ==
    ASSUME LInv, NEW k \in Keys, LFU!Miss(k)
    PROVE  LInv' /\ LFU!F!Next
<1> DEFINE C == Range(classes)
           D == Range(classes')
<1>1. LInv'
    BY LMisses
<1>2. /\ k \notin resident /\ resident' = resident \cup {k} /\ LFU!LookupMisses(k)
    BY DEF LFU!Miss, LFU!LookupMisses
<1>3. PICK d \in LClass : /\ d.freq = 1
                          /\ d \in C \/ d.entries = <<>>
                          /\ LRow(classes')
                          /\ D = (C \ {d}) \cup {LMore(d, k)}
    BY LEnters
<1>4. /\ C \subseteq LClass /\ LParts(C) /\ LKeys(C) = resident
      /\ LParts(D) /\ LCounts(D) /\ LKeys(D) = resident'
    BY <1>1, LRowNext
<1>5. LBelow' = LRank(D) /\ LCount' = LTally(D) /\ LCount = LTally(C)
    BY <1>1, LViewNext, LView
<1> HIDE DEF C, D
<1>6. LKept(C, D, k) /\ LTop(D, k, 1)
  <2>1. k \notin LKeys(C)
    BY <1>2, <1>4
  <2>2. LKept(C, D, k) /\ LTop(D, k, d.freq)
    BY <2>1, <1>3, <1>4, LKeptNew
  <2>3. QED
    BY <2>2, <1>3
<1>7. LKeys(D) = LKeys(C) \cup {k}
    BY <1>2, <1>4
<1>8. LRank(D) = LWithout(LRank(C), k) \cup LAbove(C, k, 1)
    BY <1>4, <1>6, <1>7, LRankMore
<1>9. LBelow' = LFU!F!Ranked(k, 1)
    BY <1>5, <1>8, LRanked DEF C
<1>10. LCount' = [x \in DOMAIN LCount \cup {k} |-> IF x = k THEN 1 ELSE LCount[x]]
  <2>1. /\ \A x \in resident : x # k /\ LUses(D, x) = LUses(C, x)
        /\ LUses(D, k) = 1
    BY <1>2, <1>4, <1>6, LKeeps DEF LTop
  <2>2. DOMAIN LTally(C) = resident /\ DOMAIN LTally(D) = resident \cup {k}
    BY <1>2, <1>4 DEF LTally
  <2>3. \A x \in resident \cup {k} : LTally(D)[x] = IF x = k THEN 1 ELSE LTally(C)[x]
    BY <2>1, <1>2, <1>4 DEF LTally
  <2>4. LTally(D) = [x \in resident \cup {k} |-> LTally(D)[x]]
    BY <2>2 DEF LTally
  <2>5. LTally(D) = [x \in resident \cup {k} |-> IF x = k THEN 1 ELSE LTally(C)[x]]
    BY <2>3, <2>4
  <2>6. QED
    BY <2>2, <2>5, <1>5
<1>11. LFU!F!Miss(k)
  <2>1. LFU!F!LookupMisses(k)
    BY <1>2, LFWords DEF LFU!F!LookupMisses, LFU!LookupMisses
  <2>2. QED
    BY <2>1, <1>9, <1>10 DEF LFU!F!Miss, LBelow, LCount
<1>12. QED
    BY <1>1, <1>11, Zenon DEF LFU!F!Next

(* An evict() takes the key that ranks lowest. *)
LEMMA LEvictRanks ==
    ASSUME LInv, LFU!Evict
    PROVE  LInv' /\ LFU!F!Next
<1> DEFINE C == Range(classes)
           D == Range(classes')
<1>1. LInv'
    BY LEvicts
<1>2. PICK c \in C, v \in Keys :
              /\ c = classes[1] /\ 1 \in 1..Len(classes)
              /\ c.entries # <<>> /\ v = Head(c.entries) /\ v \in Range(c.entries)
              /\ LFU!Discard(v)
              /\ LRow(classes')
              /\ D = (C \ {c}) \cup LLeft(c, v)
    BY LLeaves
<1>3. resident' = resident \ {v}
    BY <1>2 DEF LFU!Discard
<1>4. /\ C \subseteq LClass /\ LParts(C) /\ LKeys(C) = resident
      /\ LParts(D) /\ LCounts(D) /\ LKeys(D) = resident'
    BY <1>1, LRowNext
<1>5. /\ LBelow' = LRank(D) /\ LCount' = LTally(D)
      /\ LBelow = LRank(C) /\ LCount = LTally(C)
    BY <1>1, LViewNext, LView
<1>6. \A e \in C : e = c \/ c.freq < e.freq
  <2>1. /\ C = {classes[i] : i \in 1..Len(classes)} /\ Len(classes) \in Nat
        /\ \A i, j \in 1..Len(classes) : i < j => classes[i].freq < classes[j].freq
    BY LRowWords DEF LInv, LRow
  <2>2. \A i \in 1..Len(classes) : i = 1 \/ 1 < i
    BY <2>1
  <2>3. QED
    BY <2>1, <2>2, <1>2
<1> HIDE DEF C, D
<1>7. LKept(C, D, v)
    BY <1>2, <1>4, LKeptOut
<1>8. LKeys(D) = LKeys(C) \ {v}
    BY <1>3, <1>4
<1>9. LRank(D) = LWithout(LRank(C), v)
    BY <1>4, <1>7, <1>8, LRankLess
<1>10. LBelow' = LFU!F!Unranked(v)
    BY <1>5, <1>9, LUnranked DEF C
<1>11. LCount' = [x \in DOMAIN LCount \ {v} |-> LCount[x]]
  <2>1. \A x \in resident \ {v} : LUses(D, x) = LUses(C, x)
    BY <1>4, <1>7, LKeeps
  <2>2. DOMAIN LTally(C) = resident
    BY <1>4 DEF LTally
  <2>3. LTally(D) = [x \in resident \ {v} |-> LTally(C)[x]]
    BY <2>1, <1>3, <1>4 DEF LTally
  <2>4. QED
    BY <2>2, <2>3, <1>5
<1>12. \A x \in resident \ {v} : <<v, x>> \in LBelow
  <2>1. SUFFICES ASSUME NEW x \in resident \ {v} PROVE <<v, x>> \in LRank(C)
    BY <1>5
  <2>2. LHome(C, v) = c /\ v \in LKeys(C)
    BY <1>2, <1>4, LHomes DEF LKeys
  <2>3. LHome(C, x) \in C /\ x \in Range(LHome(C, x).entries) /\ x \in LKeys(C)
    BY <1>4, LAtHome
  <2>4. CASE LHome(C, x) = c
    <3>1. c.entries \in Seq(Keys)
        BY <1>2, <1>4 DEF LClass
    <3>2. LEarlier(c.entries, v, x)
        BY <3>1, <1>2, <2>1, <2>3, <2>4, LEarlierFront
    <3>3. LFirst(C, v, x)
        BY <3>2, <2>2, <2>4 DEF LFirst, LUses
    <3>4. QED
        BY <3>3, <2>2, <2>3, LPairs
  <2>5. CASE LHome(C, x) # c
    <3>1. LUses(C, v) < LUses(C, x)
        BY <1>6, <2>2, <2>3, <2>5 DEF LUses
    <3>2. LFirst(C, v, x)
        BY <3>1 DEF LFirst
    <3>3. QED
        BY <3>2, <2>2, <2>3, LPairs
  <2>6. QED
    BY <2>4, <2>5
<1>13. LFU!F!Evict(v)
  <2>1. LFU!F!Discard(v)
    BY <1>2, LFWords DEF LFU!F!Discard, LFU!Discard
  <2>2. v \in resident
    BY <1>2, <1>4 DEF LKeys
  <2>3. QED
    BY <2>1, <2>2, <1>10, <1>11, <1>12 DEF LFU!F!Evict, LBelow, LCount
<1>14. QED
    BY <1>1, <1>2, <1>13, Zenon DEF LFU!F!Next

(* Every call keeps the invariant and is a step of the frequency order. *)
LEMMA LStep ==
    ASSUME LInv, LFU!Next
    PROVE  LInv' /\ LFU!F!Next
BY LHitRanks, LMissRanks, LEvictRanks DEF LFU!Next

(* The constructor, too. *)
LEMMA LStart == LFU!Init => LInv /\ LFU!F!Init
<1>1. SUFFICES ASSUME LFU!Init PROVE LInv /\ LFU!F!Init
    OBVIOUS
<1>2. resident = {} /\ LFU!HarnessInit
    BY <1>1 DEF LFU!Init, LFU!HarnessInit
<1>3. LInv
    BY <1>1, LBegins
<1>4. LFU!Entries = {}
    BY <1>2, <1>3, LEntries
<1>5. LBelow = {} /\ LCount = [k \in {} |-> 0]
    BY <1>4 DEF LBelow, LCount
<1>6. LFU!F!HarnessInit
    BY <1>2 DEF LFU!F!HarnessInit, LFU!HarnessInit
<1>7. LFU!F!Init
    BY <1>5, <1>6 DEF LFU!F!Init, LBelow, LCount
<1>8. QED
    BY <1>3, <1>7

-----------------------------------------------------------------------------
(* The factory's nine policies, and the one it built. *)

(* The strengthening: each policy's own invariant, while it is the one.    *)
IInv ==
    /\ policy \in {"lru", "fifo", "clock", "sieve", "2q", "arc", "s3_fifo", "lfu", "w_tinylfu"}
    /\ policy = "lru" => UInv
    /\ policy = "fifo" => BInv
    /\ policy = "clock" => KInv
    /\ policy = "sieve" => VInv
    /\ policy = "2q" => QInv
    /\ policy = "arc" => AInv
    /\ policy = "s3_fifo" => SInv
    /\ policy = "lfu" => LInv
    /\ policy = "w_tinylfu" => TInv

(* What a step of the policy built may do to the order it promises. *)
OrderStep ==
    CASE policy = "lru"   -> [LRU!R!Next]_(LRU!R!orderVars)
      [] policy = "fifo"  -> [FIFO!A!Next]_(FIFO!A!orderVars)
      [] policy = "clock" -> [CLOCK!C!Next]_(CLOCK!C!chanceVars)
      [] policy = "sieve" -> [SIEVE!C!Next]_(SIEVE!C!chanceVars)
      [] policy = "lfu"   -> [LFU!F!Next]_(LFU!F!rankedVars)
      [] OTHER            -> TRUE

SparedStep ==
    /\ policy = "clock" => CLOCK!FullLifetime
    /\ policy = "sieve" => SIEVE!NothingMoves

ScanStep ==
    /\ policy = "2q" => Q!MainKeepsItsShare
    /\ policy = "s3_fifo" => S3!MainKeepsItsShare
    /\ policy = "w_tinylfu" => TINY!ProtectedAreSafe

(* Every policy starts in its invariant, and in the order it implements. *)
LEMMA PolicyStarts ==
    ASSUME Init
    PROVE  /\ IInv
           /\ LRU!R!Init /\ FIFO!A!Init /\ CLOCK!C!Init /\ SIEVE!C!Init /\ LFU!F!Init
<1>1. /\ policy \in {"lru", "fifo", "clock", "sieve", "2q", "arc", "s3_fifo", "lfu", "w_tinylfu"}
      /\ LRU!Init /\ FIFO!Init /\ CLOCK!Init /\ SIEVE!Init
      /\ Q!Init /\ ARC!Init /\ S3!Init /\ LFU!Init /\ TINY!Init
    BY DEF Init
<1>2. /\ UInv /\ BInv /\ KInv /\ VInv /\ QInv /\ AInv /\ SInv /\ LInv /\ TInv
      /\ LRU!R!Init /\ FIFO!A!Init /\ CLOCK!C!Init /\ SIEVE!C!Init /\ LFU!F!Init
    BY <1>1, UStart, BStart, KStart, VStart, QStart, AStart, SStart, LStart, TStart
<1>3. QED
    BY <1>1, <1>2 DEF IInv

(* A step of the one policy built, as the theorems below see it. *)
LEMMA PolicySteps ==
    ASSUME IInv, Next
    PROVE  IInv' /\ OrderStep /\ SparedStep /\ ScanStep
<1>1. CASE LruMoves
  <2>1. policy = "lru" /\ policy' = "lru" /\ UInv /\ LRU!Next
    BY <1>1 DEF LruMoves, IInv
  <2>2. UInv' /\ LRU!R!Next
    BY <2>1, UStep
  <2>3. QED
    BY <2>1, <2>2 DEF IInv, OrderStep, SparedStep, ScanStep
<1>2. CASE FifoMoves
  <2>1. policy = "fifo" /\ policy' = "fifo" /\ BInv /\ FIFO!Next
    BY <1>2 DEF FifoMoves, IInv
  <2>2. BInv' /\ FIFO!A!Next
    BY <2>1, BStep
  <2>3. QED
    BY <2>1, <2>2 DEF IInv, OrderStep, SparedStep, ScanStep
<1>3. CASE ClockMoves
  <2>1. policy = "clock" /\ policy' = "clock" /\ KInv /\ CLOCK!Next
    BY <1>3 DEF ClockMoves, IInv
  <2>2. KInv' /\ CLOCK!C!Next /\ CLOCK!FullLifetime
    BY <2>1, KStep
  <2>3. QED
    BY <2>1, <2>2 DEF IInv, OrderStep, SparedStep, ScanStep
<1>4. CASE SieveMoves
  <2>1. policy = "sieve" /\ policy' = "sieve" /\ VInv /\ SIEVE!Next
    BY <1>4 DEF SieveMoves, IInv
  <2>2. VInv' /\ SIEVE!C!Next /\ SIEVE!NothingMoves
    BY <2>1, VStep
  <2>3. QED
    BY <2>1, <2>2 DEF IInv, OrderStep, SparedStep, ScanStep
<1>5. CASE TwoQueueMoves
  <2>1. policy = "2q" /\ policy' = "2q" /\ QInv /\ Q!Next
    BY <1>5 DEF TwoQueueMoves, IInv
  <2>2. QInv' /\ Q!MainKeepsItsShare
    BY <2>1, QStep
  <2>3. QED
    BY <2>1, <2>2 DEF IInv, OrderStep, SparedStep, ScanStep
<1>6. CASE ArcMoves
  <2>1. policy = "arc" /\ policy' = "arc" /\ AInv /\ ARC!Next
    BY <1>6 DEF ArcMoves, IInv
  <2>2. AInv'
    BY <2>1, AStep
  <2>3. QED
    BY <2>1, <2>2 DEF IInv, OrderStep, SparedStep, ScanStep
<1>7. CASE S3FifoMoves
  <2>1. policy = "s3_fifo" /\ policy' = "s3_fifo" /\ SInv /\ S3!Next
    BY <1>7 DEF S3FifoMoves, IInv
  <2>2. SInv' /\ S3!MainKeepsItsShare
    BY <2>1, SStep
  <2>3. QED
    BY <2>1, <2>2 DEF IInv, OrderStep, SparedStep, ScanStep
<1>8. CASE LfuMoves
  <2>1. policy = "lfu" /\ policy' = "lfu" /\ LInv /\ LFU!Next
    BY <1>8 DEF LfuMoves, IInv
  <2>2. LInv' /\ LFU!F!Next
    BY <2>1, LStep
  <2>3. QED
    BY <2>1, <2>2 DEF IInv, OrderStep, SparedStep, ScanStep
<1>9. CASE WTinyLfuMoves
  <2>1. policy = "w_tinylfu" /\ policy' = "w_tinylfu" /\ TInv /\ TINY!Next
    BY <1>9 DEF WTinyLfuMoves, IInv
  <2>2. TInv' /\ TINY!ProtectedAreSafe
    BY <2>1, TStep
  <2>3. QED
    BY <2>1, <2>2 DEF IInv, OrderStep, SparedStep, ScanStep
<1>10. QED
    BY <1>1, <1>2, <1>3, <1>4, <1>5, <1>6, <1>7, <1>8, <1>9 DEF Next

(* A step that changes nothing keeps the invariant. *)
LEMMA PolicyRests ==
    ASSUME IInv, UNCHANGED vars
    PROVE  IInv'
<1> USE DEF vars, harnessVars, listVars, scanVars
<1>1. policy' = policy /\ resident' = resident /\ event' = event
    OBVIOUS
<1>2. UInv => UInv'
  <2>1. index' = index /\ keys' = keys /\ free' = free /\ recency' = recency
    BY DEF tableVars
  <2>2. QED
    BY <1>1, <2>1 DEF UInv, Held, Counted, UHolds
<1>3. BInv => BInv'
  <2>1. slots' = slots /\ head' = head /\ length' = length
    BY DEF fifoVars
  <2>2. QED
    BY <1>1, <2>1 DEF BInv, Held, Counted
<1>4. KInv => KInv'
  <2>1. /\ index' = index /\ keys' = keys /\ free' = free
        /\ referenced' = referenced /\ order' = order /\ ahead' = ahead
    BY DEF tableVars, clockVars
  <2>2. QED
    BY <1>1, <2>1 DEF KInv, Held, Counted
<1>5. VInv => VInv'
  <2>1. /\ index' = index /\ keys' = keys /\ free' = free
        /\ list' = list /\ visited' = visited /\ hand' = hand /\ cursor' = cursor
    BY DEF tableVars, sieveVars
  <2>2. QED
    BY <1>1, <2>1 DEF VInv, Held, Counted, VHolds
<1>6. QInv => QInv'
  <2>1. a1in' = a1in /\ am' = am /\ a1out' = a1out /\ missed' = missed
    BY DEF twoQueueVars
  <2>2. QED
    BY <1>1, <2>1 DEF QInv, Held, Counted
<1>7. AInv => AInv'
  <2>1. lists' = lists /\ target' = target /\ pending' = pending /\ uses' = uses
    BY DEF arcVars
  <2>2. QED
    BY <1>1, <2>1 DEF AInv, Held, Counted
<1>8. SInv => SInv'
  <2>1. /\ small' = small /\ main' = main /\ ghosts' = ghosts
        /\ frequency' = frequency /\ phase' = phase
    BY DEF s3FifoVars
  <2>2. QED
    BY <1>1, <2>1 DEF SInv, Held, Counted
<1>9. LInv => LInv'
    BY <1>1 DEF LInv, Held, Counted
<1>10. TInv => TInv'
  <2>1. /\ window' = window /\ probation' = probation /\ protected' = protected
        /\ sketch' = sketch /\ doorkeeper' = doorkeeper /\ sampled' = sampled /\ own' = own
    BY DEF wTinyLfuVars
  <2>2. QED
    BY <1>1, <2>1 DEF TInv, Held, Counted, TSketch
<1>11. QED
    BY <1>1, <1>2, <1>3, <1>4, <1>5, <1>6, <1>7, <1>8, <1>9, <1>10 DEF IInv

(* What the invariant says is what the runs check. *)
LEMMA PolicyTypes ==
    ASSUME IInv
    PROVE  TypeOK /\ LinksAgree /\ MemoryIsTrue /\ PoolsSuffice /\ AlwaysAnswers
<1>1. policy = "lru" => LRU!TypeOK /\ LRU!LinksAgree
    BY UTyped DEF IInv
<1>2. policy = "fifo" => FIFO!TypeOK
    BY BTyped DEF IInv
<1>3. policy = "clock" => CLOCK!TypeOK
    BY KTyped DEF IInv
<1>4. policy = "sieve" => SIEVE!TypeOK /\ SIEVE!LinksAgree /\ SIEVE!HandIsHeld
    BY VTyped DEF IInv
<1>5. policy = "2q" => Q!TypeOK /\ Q!MainIsEarned
    BY QTyped DEF IInv
<1>6. policy = "arc" => /\ ARC!TypeOK /\ ARC!DirectoryBounds /\ ARC!SeenOnceOrTwice
                        /\ ARC!AlwaysAnswers
    BY ATyped, AAnswers DEF IInv
<1>7. policy = "s3_fifo" => S3!TypeOK /\ S3!MainAnswers
    BY STyped DEF IInv
<1>8. policy = "lfu" => LFU!TypeOK /\ LFU!ClassesAscend /\ LFU!PoolsSuffice
    BY LTyped DEF IInv
<1>9. policy = "w_tinylfu" => /\ TINY!TypeOK /\ TINY!NeverUnderestimates
                              /\ TINY!EveryEvictionIsAContest
    BY TTyped DEF IInv
<1>10. policy \in {"lru", "fifo", "clock", "sieve", "2q", "arc", "s3_fifo", "lfu", "w_tinylfu"}
    BY DEF IInv
<1>11. TypeOK
    BY <1>1, <1>2, <1>3, <1>4, <1>5, <1>6, <1>7, <1>8, <1>9, <1>10 DEF TypeOK
<1>12. QED
    BY <1>1, <1>4, <1>5, <1>6, <1>7, <1>8, <1>9, <1>11
    DEF LinksAgree, MemoryIsTrue, PoolsSuffice, AlwaysAnswers

(* The invariant of the policy built holds from the constructor on. *)
LEMMA PoliciesStaySound == Spec => []IInv
<1>1. Init => IInv
    BY PolicyStarts
<1>2. IInv /\ [Next]_vars => IInv'
    BY PolicySteps, PolicyRests
<1>3. QED
    BY <1>1, <1>2, PTL DEF Spec

(* No slot is lost or used twice, and each key is in one queue, list or    *)
(* class of its policy, which together hold what the harness holds.        *)
THEOREM CachesAreTyped == Spec => []TypeOK
<1>1. IInv => TypeOK
    BY PolicyTypes
<1>2. QED
    BY <1>1, PoliciesStaySound, PTL

(* Next and previous links and both ends always spell one list of the      *)
(* slots in use, and SIEVE's hand never rests on a slot given back         *)
(* (ilist.c, sieve_unlink, sieve_evict).                                   *)
THEOREM LinksStaySound == Spec => []LinksAgree
<1>1. IInv => LinksAgree
    BY PolicyTypes
<1>2. QED
    BY <1>1, PoliciesStaySound, PTL

(* What 2Q, ARC and W-TinyLFU still hold of a key's past did happen        *)
(* (two_q_on_access, arc_on_access, wtlfu_on_access).                      *)
THEOREM MemoryStaysTrue == Spec => []MemoryIsTrue
<1>1. IInv => MemoryIsTrue
    BY PolicyTypes
<1>2. QED
    BY <1>1, PoliciesStaySound, PTL

(* ARC's lists keep the paper's bounds, and neither of LFU's pools is ever *)
(* asked for more than its constructor reserved (lfu promote, acquire).    *)
THEOREM PoolsAlwaysSuffice == Spec => []PoolsSuffice
<1>1. IInv => PoolsSuffice
    BY PolicyTypes
<1>2. QED
    BY <1>1, PoliciesStaySound, PTL

(* Every call is answered: ARC's victim waits exactly when it is asked for,*)
(* S3-FIFO's main is never asked empty, W-TinyLFU always holds a contest.  *)
THEOREM CallsAreAnswered == Spec => []AlwaysAnswers
<1>1. IInv => AlwaysAnswers
    BY PolicyTypes
<1>2. QED
    BY <1>1, PoliciesStaySound, PTL

(* LRU, FIFO, CLOCK, SIEVE and LFU each implement the order they promise:  *)
(* the links, bits, hands and classes are only a faster way to keep it.    *)
THEOREM PoliciesImplementOrder == Spec => ImplementsOrder
<1>1. Init => LRU!R!Init /\ FIFO!A!Init /\ CLOCK!C!Init /\ SIEVE!C!Init /\ LFU!F!Init
    BY PolicyStarts
<1>2. IInv /\ [Next]_vars => [OrderStep]_vars
    BY PolicySteps
<1>3. IInv /\ [Next]_vars =>
          [CASE policy = "lru"   -> [LRU!R!Next]_(LRU!R!orderVars)
             [] policy = "fifo"  -> [FIFO!A!Next]_(FIFO!A!orderVars)
             [] policy = "clock" -> [CLOCK!C!Next]_(CLOCK!C!chanceVars)
             [] policy = "sieve" -> [SIEVE!C!Next]_(SIEVE!C!chanceVars)
             [] policy = "lfu"   -> [LFU!F!Next]_(LFU!F!rankedVars)
             [] OTHER            -> TRUE]_vars
    BY <1>2, Zenon DEF OrderStep
<1>4. QED
    BY <1>1, <1>3, PoliciesStaySound, PTL DEF Spec, ImplementsOrder

(* A key CLOCK spares starts a full new lifetime, one SIEVE spares does    *)
(* not move (clock_evict, sieve_evict).                                    *)
THEOREM SparedAreKeptInPlace == Spec => SparedKeepTheirPlace
<1>1. IInv /\ [Next]_vars =>
          [/\ policy = "clock" => CLOCK!FullLifetime
           /\ policy = "sieve" => SIEVE!NothingMoves]_vars
    BY PolicySteps DEF SparedStep
<1>2. QED
    BY <1>1, PoliciesStaySound, PTL DEF Spec, SparedKeepTheirPlace

(* No scan, however long, takes main below its share in 2Q and S3-FIFO, or *)
(* a protected key out of W-TinyLFU.                                       *)
THEOREM ScansNeverReachMain == Spec => ScansStopShort
<1>1. IInv /\ [Next]_vars =>
          [/\ policy = "2q" => Q!MainKeepsItsShare
           /\ policy = "s3_fifo" => S3!MainKeepsItsShare
           /\ policy = "w_tinylfu" => TINY!ProtectedAreSafe]_vars
    BY PolicySteps DEF ScanStep
<1>2. QED
    BY <1>1, PoliciesStaySound, PTL DEF Spec, ScansStopShort

=============================================================================
