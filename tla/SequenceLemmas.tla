---------------------------- MODULE SequenceLemmas -----------------------------
(***************************************************************************)
(* What the operations on a list do to the set of its values, for lists    *)
(* without repetitions.                                                    *)
(***************************************************************************)
EXTENDS Integers, Functions, SequenceTheorems, TLAPS

\* The values of a sequence to which an item was appended.
LEMMA RangeAppend ==
  ASSUME NEW S, NEW q \in Seq(S), NEW i \in S
  PROVE  /\ Range(Append(q, i)) = Range(q) \cup {i}
         /\ i \notin Range(q) /\ IsInjective(q) => IsInjective(Append(q, i))
<1> DEFINE r == Append(q, i)
<1>1. /\ DOMAIN r = 1..(Len(q) + 1)
      /\ DOMAIN q = 1..Len(q)
      /\ Len(q) \in Nat
  OBVIOUS
<1>2. \A n \in DOMAIN q : r[n] = q[n]
  OBVIOUS
<1>3. r[Len(q) + 1] = i
  OBVIOUS
<1> HIDE DEF r
<1>4. Range(r) = Range(q) \cup {i}
  BY <1>1, <1>2, <1>3 DEF Range
<1>5. ASSUME i \notin Range(q), IsInjective(q) PROVE IsInjective(r)
  BY <1>1, <1>2, <1>3, <1>5 DEF Range, IsInjective
<1> QED
  BY <1>4, <1>5 DEF r

\* The values of a sequence from which the head was taken.
LEMMA RangeTail ==
  ASSUME NEW S, NEW q \in Seq(S), q # <<>>, IsInjective(q)
  PROVE  /\ Head(q) \in Range(q)
         /\ Range(Tail(q)) = Range(q) \ {Head(q)}
         /\ IsInjective(Tail(q))
<1> DEFINE r == Tail(q)
<1>1. /\ DOMAIN r = 1..(Len(q) - 1)
      /\ DOMAIN q = 1..Len(q)
      /\ Len(q) \in Nat /\ Len(q) > 0
  OBVIOUS
<1>2. /\ \A n \in DOMAIN r : r[n] = q[n + 1]
      /\ Head(q) = q[1]
  OBVIOUS
<1> HIDE DEF r
<1>3. Head(q) \in Range(q)
  BY <1>1, <1>2 DEF Range
<1>4. \A n \in DOMAIN q : q[n] # Head(q) => n - 1 \in DOMAIN r /\ r[n - 1] = q[n]
  BY <1>1, <1>2
<1>5. \A n \in DOMAIN r : r[n] # Head(q)
  BY <1>1, <1>2 DEF IsInjective
<1>6. Range(r) = Range(q) \ {Head(q)}
  BY <1>1, <1>2, <1>4, <1>5 DEF Range
<1>7. IsInjective(r)
  BY <1>1, <1>2 DEF IsInjective
<1> QED
  BY <1>3, <1>6, <1>7 DEF r

\* The values of a sequence to which n new ones were appended.
LEMMA RangeExtend ==
  ASSUME NEW q \in Seq(Nat), NEW c \in Nat, NEW n \in Nat, NEW s \in Seq(Nat), NEW r,
         IsInjective(q), \A m \in Range(q) : m <= c,
         Len(s) = n, \A i \in 1 .. n : s[i] = c + i,
         r = q \o s
  PROVE  /\ r \in Seq(Nat)
         /\ Len(r) = Len(q) + n
         /\ Range(r) = Range(q) \cup (c + 1) .. (c + n)
         /\ IsInjective(r)
<1>1. /\ r \in Seq(Nat) /\ Len(r) = Len(q) + n
      /\ \A i \in 1 .. Len(q) + n : r[i] = IF i <= Len(q) THEN q[i] ELSE s[i - Len(q)]
  BY ConcatProperties
<1>2. /\ r \in Seq(Nat)
      /\ Len(r) = Len(q) + n
      /\ DOMAIN r = 1 .. (Len(q) + n)
      /\ DOMAIN q = 1 .. Len(q)
      /\ Len(q) \in Nat
  BY <1>1
<1>3. /\ \A i \in 1 .. Len(q) : r[i] = q[i]
      /\ \A i \in 1 .. Len(q) + n : i > Len(q) => r[i] = c + (i - Len(q))
  OBVIOUS
<1>4. Range(r) = Range(q) \cup (c + 1) .. (c + n)
  <2>1. ASSUME NEW v \in Range(r) PROVE v \in Range(q) \cup (c + 1) .. (c + n)
    <3>1. PICK i \in DOMAIN r : v = r[i]
      BY DEF Range
    <3>2. CASE i \in 1 .. Len(q)
      BY <3>1, <3>2, <1>2, <1>3 DEF Range
    <3>3. CASE i \notin 1 .. Len(q)
      <4>1. i \in Int /\ i > Len(q) /\ i <= Len(q) + n
        BY <3>3, <1>2
      <4>2. v = c + (i - Len(q))
        BY <4>1, <3>1, <1>2, <1>3
      <4> QED
        BY <4>1, <4>2, <1>2
    <3> QED
      BY <3>2, <3>3
  <2>2. ASSUME NEW v \in Range(q) PROVE v \in Range(r)
    BY <1>2, <1>3 DEF Range
  <2>3. ASSUME NEW v \in (c + 1) .. (c + n) PROVE v \in Range(r)
    <3> DEFINE k == Len(q) + (v - c)
    <3>1. k \in 1 .. (Len(q) + n) /\ k > Len(q) /\ c + (k - Len(q)) = v
      BY <1>2
    <3>2. r[k] = v /\ k \in DOMAIN r
      BY <3>1, <1>2, <1>3
    <3> QED
      BY <3>2 DEF Range
  <2> QED
    BY <2>1, <2>2, <2>3
<1>5. IsInjective(r)
  <2> SUFFICES ASSUME NEW i \in DOMAIN r, NEW j \in DOMAIN r, r[i] = r[j] PROVE i = j
    BY DEF IsInjective
  <2>1. CASE i \in 1 .. Len(q) /\ j \in 1 .. Len(q)
    BY <2>1, <1>2, <1>3 DEF IsInjective
  <2>2. ASSUME NEW k \in DOMAIN r, k \notin 1 .. Len(q)
        PROVE  k \in Int /\ k > Len(q) /\ r[k] = c + (k - Len(q))
    <3>1. k \in 1 .. (Len(q) + n) /\ k > Len(q)
      BY <2>2, <1>2
    <3>2. k \in Int
      BY <3>1, <1>2
    <3>3. r[k] = c + (k - Len(q))
      BY <3>1, <1>3
    <3> QED
      BY <3>1, <3>2, <3>3
  <2>3. ASSUME NEW k \in 1 .. Len(q) PROVE r[k] <= c /\ r[k] \in Nat
    <3>1. q[k] \in Nat
      BY <1>2
    <3>2. q[k] \in Range(q)
      BY <1>2 DEF Range
    <3> QED
      BY <3>1, <3>2, <1>3
  <2>4. CASE i \notin 1 .. Len(q) /\ j \notin 1 .. Len(q)
    BY <2>4, <2>2, <1>2
  <2>5. CASE i \in 1 .. Len(q) /\ j \notin 1 .. Len(q)
    BY <2>5, <2>2, <2>3, <1>2
  <2>6. CASE i \notin 1 .. Len(q) /\ j \in 1 .. Len(q)
    BY <2>6, <2>2, <2>3, <1>2
  <2> QED
    BY <2>1, <2>4, <2>5, <2>6
<1> QED
  BY <1>2, <1>4, <1>5
================================================================================
