----------------------------- MODULE DBPool_proofs -----------------------------
(***************************************************************************)
(* Proofs about DBPool for any finite set of users, any size of the pool   *)
(* and any number of calls.                                                *)
(***************************************************************************)
EXTENDS DBPool, SequenceLemmas, FiniteSetTheorems, TLAPS

\* Nobody calls before the semaphore exists.
Opened == sem = -1 => phase # "ready" /\ \A u \in Users : pc[u] = "idle"

\* While the pool is being filled no call is waiting, and the list holds what
\* sem_init is going to promise and what users have yet to post.
Filling ==
  phase = "filled" =>
    /\ \A u \in Users : pc[u] \notin {"wait", "woken"}
    /\ Len(connList) >= Size + Cardinality(Posting)

\* A user has a connection while it uses one.
Holding == \A u \in Users : pc[u] = "use" => hand[u] # NoConn

IInv == TypeOK /\ Opened /\ Filling /\ Holding /\ Exclusive /\ SemaphoreAccounting

-----------------------------------------------------------------------------
(***************************************************************************)
(* Counting users.                                                         *)
(***************************************************************************)
LEMMA Finite ==
  /\ IsFiniteSet(Woken) /\ IsFiniteSet(Posting)
  /\ Cardinality(Woken) \in Nat /\ Cardinality(Posting) \in Nat
<1>1. IsFiniteSet(Woken) /\ IsFiniteSet(Posting)
  BY UsersAssumption, FS_Subset DEF Woken, Posting
<1> QED
  BY <1>1, FS_CardinalityType

\* A user that goes from one place to another is counted there, and no longer here.
LEMMA Moves ==
  ASSUME NEW u \in Users, NEW to, TypeOK,
         \A v \in Users : pc'[v] = IF v = u THEN to ELSE pc[v]
  PROVE  /\ pc[u] = "woken" => Cardinality(Woken) # 0
         /\ pc[u] = "woken" /\ to # "woken" => Cardinality(Woken') = Cardinality(Woken) - 1
         /\ pc[u] # "woken" /\ to = "woken" => Cardinality(Woken') = Cardinality(Woken) + 1
         /\ pc[u] # "woken" /\ to # "woken" => Cardinality(Woken') = Cardinality(Woken)
         /\ pc[u] = "post" /\ to # "post" => Cardinality(Posting') = Cardinality(Posting) - 1
         /\ pc[u] # "post" /\ to = "post" => Cardinality(Posting') = Cardinality(Posting) + 1
         /\ pc[u] # "post" /\ to # "post" => Cardinality(Posting') = Cardinality(Posting)
<1>1. /\ pc[u] = "woken" => u \in Woken
      /\ pc[u] = "woken" /\ to # "woken" => Woken' = Woken \ {u}
      /\ pc[u] # "woken" /\ to = "woken" => u \notin Woken /\ Woken' = Woken \cup {u}
      /\ pc[u] # "woken" /\ to # "woken" => Woken' = Woken
  BY DEF Woken, TypeOK
<1>2. /\ pc[u] = "post" => u \in Posting
      /\ pc[u] = "post" /\ to # "post" => Posting' = Posting \ {u}
      /\ pc[u] # "post" /\ to = "post" => u \notin Posting /\ Posting' = Posting \cup {u}
      /\ pc[u] # "post" /\ to # "post" => Posting' = Posting
  BY DEF Posting, TypeOK
<1>3. /\ \A S : IsFiniteSet(S) /\ u \in S =>
           Cardinality(S \ {u}) = Cardinality(S) - 1 /\ Cardinality(S) # 0
      /\ \A S : IsFiniteSet(S) /\ u \notin S => Cardinality(S \cup {u}) = Cardinality(S) + 1
  BY FS_AddElement, FS_RemoveElement, FS_EmptySet
<1>4. /\ pc[u] = "woken" => Cardinality(Woken) # 0
      /\ pc[u] = "woken" /\ to # "woken" => Cardinality(Woken') = Cardinality(Woken) - 1
      /\ pc[u] # "woken" /\ to = "woken" => Cardinality(Woken') = Cardinality(Woken) + 1
      /\ pc[u] # "woken" /\ to # "woken" => Cardinality(Woken') = Cardinality(Woken)
  BY <1>1, <1>3, Finite
<1>5. /\ pc[u] = "post" /\ to # "post" => Cardinality(Posting') = Cardinality(Posting) - 1
      /\ pc[u] # "post" /\ to = "post" => Cardinality(Posting') = Cardinality(Posting) + 1
      /\ pc[u] # "post" /\ to # "post" => Cardinality(Posting') = Cardinality(Posting)
  BY <1>2, <1>3, Finite
<1> QED
  BY <1>4, <1>5

LEMMA NobodyThere == NoCall => Cardinality(Woken) = 0 /\ Cardinality(Posting) = 0
BY FS_EmptySet DEF NoCall, Woken, Posting

-----------------------------------------------------------------------------
LEMMA InitHolds == Init => IInv
<1> SUFFICES ASSUME Init PROVE IInv
  OBVIOUS
<1> USE DEF Init
<1>1. TypeOK
  BY BoundsAssumption, SizeAssumption DEF TypeOK
<1>2. Opened /\ Filling /\ SemaphoreAccounting
  BY DEF Opened, Filling, SemaphoreAccounting
<1>3. Holding /\ Exclusive
  BY DEF Holding, Exclusive, Range, IsInjective
<1> QED
  BY <1>1, <1>2, <1>3 DEF IInv

-----------------------------------------------------------------------------
(***************************************************************************)
(* The owner.                                                              *)
(***************************************************************************)
LEMMA InitConnectionHolds == IInv /\ InitConnection => IInv'
<1> SUFFICES ASSUME IInv, NEW n \in 0 .. Size, NoCall,
                    phase = "closed", inits < Inits,
                    connList' = connList \o [i \in 1 .. n |-> created + i],
                    created' = created + n,
                    curSize' = n,
                    phase' = (IF n = Size THEN "filled" ELSE "closed"),
                    inits' = inits + 1,
                    UNCHANGED <<sem, deleted, spare, users>>
             PROVE  IInv'
  BY DEF InitConnection
<1> USE SizeAssumption, BoundsAssumption DEF IInv, TypeOK, users
<1>1. /\ connList' \in Seq(Nat)
      /\ Len(connList') = Len(connList) + n
      /\ Range(connList') = Range(connList) \cup (created + 1) .. (created + n)
      /\ IsInjective(connList')
  <2>1. Range(connList) \subseteq 1 .. created
    BY RangeOfSeq
  <2>2. connList \in Seq(Nat)
    BY <2>1, SeqOfRange, SeqMonotonic
  <2>3. \A m \in Range(connList) : m <= created
    BY <2>1
  <2>4. IsInjective(connList) /\ created \in Nat /\ n \in Nat
    BY DEF Exclusive
  <2> DEFINE new == [i \in 1 .. n |-> created + i]
  <2>5. new \in Seq(Nat) /\ Len(new) = n /\ \A i \in 1 .. n : new[i] = created + i
    OBVIOUS
  <2>6. connList' = connList \o new
    OBVIOUS
  <2> HIDE DEF IInv, TypeOK, new
  <2> QED
    BY <2>2, <2>3, <2>4, <2>5, <2>6, RangeExtend
<1>2. Range(connList) \subseteq 1 .. created
  BY RangeOfSeq
<1>3. connList' \in Seq(1 .. created')
  <2>1. Range(connList') \subseteq 1 .. created'
    BY <1>1, <1>2
  <2> QED
    BY <2>1, <1>1, SeqOfRange, SeqMonotonic
<1>4. TypeOK'
  <2>1. phase' \in {"closed", "filled", "ready"} /\ curSize' \in 0 .. Size
        /\ inits' \in 0 .. Inits /\ created' \in Nat
    OBVIOUS
  <2>2. hand' \in [Users -> 1 .. created' \cup {NoConn}] /\ deleted' \in SUBSET (1 .. created')
    OBVIOUS
  <2>3. UNCHANGED <<sem, pc, spare, uses>>
    OBVIOUS
  <2> QED
    BY <1>3, <2>1, <2>2, <2>3
<1>5. Opened' /\ SemaphoreAccounting'
  BY DEF Opened, SemaphoreAccounting
<1>6. Filling'
  <2> SUFFICES ASSUME phase' = "filled"
               PROVE  /\ \A u \in Users : pc[u] \notin {"wait", "woken"}
                      /\ Len(connList') >= Size + Cardinality(Posting')
    BY DEF Filling
  <2>1. \A u \in Users : pc[u] \notin {"wait", "woken"}
    BY DEF NoCall
  <2>2. Cardinality(Posting) = 0 /\ Posting' = Posting
    BY NobodyThere DEF Posting
  <2>3. n = Size /\ Len(connList) \in Nat
    OBVIOUS
  <2> QED
    BY <2>1, <2>2, <2>3, <1>1
<1>7. Holding' /\ Exclusive'
  <2>1. Range(connList') \cap deleted = {}
    BY <1>1 DEF Holding, Exclusive
  <2>2. ASSUME NEW u \in Users, pc[u] = "use"
        PROVE  hand[u] \in 1 .. created' /\ hand[u] \notin Range(connList') /\ hand[u] \notin deleted
    <3>1. hand[u] \in 1 .. created /\ hand[u] \notin Range(connList) /\ hand[u] \notin deleted
      BY <2>2 DEF Holding, Exclusive
    <3>2. hand[u] \notin (created + 1) .. (created + n)
      BY <3>1
    <3> QED
      BY <3>1, <3>2, <1>1
  <2> QED
    BY <1>1, <2>1, <2>2 DEF Holding, Exclusive
<1> QED
  BY <1>4, <1>5, <1>6, <1>7 DEF IInv

LEMMA SemInitHolds == IInv /\ SemInit => IInv'
<1> SUFFICES ASSUME IInv, SemInit PROVE IInv'
  OBVIOUS
<1> USE SizeAssumption DEF IInv, SemInit, TypeOK, users
<1>1. Woken' = Woken /\ Posting' = Posting
  BY DEF Woken, Posting
<1>2. Len(connList) >= Size + Cardinality(Posting)
      /\ \A u \in Users : pc[u] \notin {"wait", "woken"}
  BY DEF Filling
<1>3. Cardinality(Woken) = 0 /\ Cardinality(Posting) \in Nat
  <2>1. Woken = {}
    BY <1>2 DEF Woken
  <2> QED
    BY <2>1, Finite, FS_EmptySet
<1>4. TypeOK'
  BY <1>2, <1>3
<1>5. Opened' /\ Filling'
  BY NoConnAssumption DEF Opened, Filling
<1>6. SemaphoreAccounting'
  BY <1>1, <1>3 DEF SemaphoreAccounting
<1>7. Holding' /\ Exclusive'
  BY DEF Holding, Exclusive
<1> QED
  BY <1>4, <1>5, <1>6, <1>7 DEF IInv

LEMMA DestroyHolds == IInv /\ DestoryConnPool => IInv'
<1> SUFFICES ASSUME IInv, DestoryConnPool PROVE IInv'
  OBVIOUS
<1> USE SizeAssumption DEF IInv, DestoryConnPool, TypeOK, users
<1>1. Range(connList) \subseteq 1 .. created
  BY RangeOfSeq
<1>2. Range(connList') = {} /\ IsInjective(connList')
  BY DEF Range, IsInjective
<1>3. TypeOK'
  <2>1. connList' \in Seq(1 .. created') /\ phase' = "closed" /\ curSize' = 0
    OBVIOUS
  <2>2. deleted' \in SUBSET (1 .. created')
    BY <1>1
  <2>3. UNCHANGED <<sem, created, pc, hand, spare, inits, uses>>
    OBVIOUS
  <2> QED
    BY <2>1, <2>2, <2>3
<1>4. Opened' /\ Filling' /\ SemaphoreAccounting'
  BY DEF Opened, Filling, SemaphoreAccounting
<1>5. Holding' /\ Exclusive'
  <2>1. ASSUME NEW u \in Users, pc[u] = "use"
        PROVE  hand[u] \in 1 .. created /\ hand[u] \notin deleted'
    BY <2>1 DEF Holding, Exclusive
  <2> QED
    BY <2>1, <1>2 DEF Holding, Exclusive
<1> QED
  BY <1>3, <1>4, <1>5 DEF IInv

-----------------------------------------------------------------------------
(***************************************************************************)
(* The users.                                                              *)
(***************************************************************************)
LEMMA GetConnectionHolds == ASSUME NEW u \in Users, IInv, GetConnection(u) PROVE IInv'
<1>0. /\ TypeOK /\ pc[u] = "idle"
      /\ \A v \in Users : pc'[v] = IF v = u THEN "wait" ELSE pc[v]
  BY DEF IInv, TypeOK, GetConnection, Goto
<1>a. Cardinality(Woken') = Cardinality(Woken) /\ Cardinality(Posting') = Cardinality(Posting)
  BY <1>0, Moves
<1> USE BoundsAssumption DEF IInv, GetConnection, TypeOK, pool, Goto
<1>1. TypeOK'
  OBVIOUS
<1>2. Opened' /\ Filling'
  BY DEF Opened, Filling
<1>3. SemaphoreAccounting'
  BY <1>a DEF SemaphoreAccounting
<1>4. Holding' /\ Exclusive'
  BY DEF Holding, Exclusive
<1> QED
  BY <1>1, <1>2, <1>3, <1>4 DEF IInv

LEMMA SemWaitHolds == ASSUME NEW u \in Users, IInv, SemWait(u) PROVE IInv'
<1>0. /\ TypeOK /\ pc[u] = "wait"
      /\ \A v \in Users : pc'[v] = IF v = u THEN "woken" ELSE pc[v]
  BY DEF IInv, TypeOK, SemWait, Goto
<1>a. Cardinality(Posting') = Cardinality(Posting) /\ Cardinality(Woken') = Cardinality(Woken) + 1
  BY <1>0, Moves
<1> USE DEF IInv, SemWait, TypeOK, Goto
<1>b. sem \in Nat /\ spare \in Nat /\ SemaphoreAccounting
  BY <1>0 DEF Opened
<1>1. TypeOK'
  <2>1. sem' \in Nat
    OBVIOUS
  <2>2. pc' \in [Users -> {"idle", "wait", "woken", "use", "post", "undefined"}]
    OBVIOUS
  <2> QED
    BY <2>1, <2>2
<1>2. Opened' /\ Filling'
  BY DEF Opened, Filling
<1>3. SemaphoreAccounting'
  <2>1. Cardinality(Woken) \in Nat /\ Cardinality(Posting) \in Nat /\ Len(connList) \in Nat
    BY Finite
  <2>2. /\ phase' = phase /\ spare' = spare /\ sem' = sem - 1
        /\ Len(connList') = Len(connList)
    OBVIOUS
  <2> HIDE DEF IInv, SemWait, TypeOK, Goto
  <2> QED
    BY <1>a, <1>b, <2>1, <2>2 DEF SemaphoreAccounting
<1>4. Holding' /\ Exclusive'
  BY DEF Holding, Exclusive
<1> QED
  BY <1>1, <1>2, <1>3, <1>4 DEF IInv

LEMMA TakeHolds == ASSUME NEW u \in Users, IInv, Take(u) PROVE IInv'
<1>0. /\ TypeOK /\ pc[u] = "woken"
      /\ \A v \in Users : pc'[v] = IF v = u THEN "use" ELSE pc[v]
  BY DEF IInv, TypeOK, Take, Goto
<1>a. Cardinality(Posting') = Cardinality(Posting) /\ Cardinality(Woken') = Cardinality(Woken) - 1
  BY <1>0, Moves
<1> USE DEF IInv, Take, TypeOK, Goto
<1>b. sem \in Nat /\ spare \in Nat /\ SemaphoreAccounting
  BY <1>0 DEF Opened
<1>1. /\ Head(connList) \in Range(connList)
      /\ Range(connList') = Range(connList) \ {Head(connList)}
      /\ IsInjective(connList')
      /\ Len(connList') = Len(connList) - 1
      /\ Head(connList) \in 1 .. created
      /\ connList' \in Seq(1 .. created)
  BY RangeTail DEF Holding, Exclusive
<1>2. TypeOK'
  BY <1>1
<1>3. Opened'
  BY DEF Opened
<1>4. Filling'
  BY DEF Filling
<1>5. SemaphoreAccounting'
  <2>1. Cardinality(Woken) \in Nat /\ Cardinality(Posting) \in Nat /\ Len(connList) \in Nat
    BY Finite
  <2>2. /\ phase' = phase /\ spare' = spare /\ sem' = sem
        /\ Len(connList') = Len(connList) - 1
    BY <1>1
  <2> HIDE DEF IInv, Take, TypeOK, Goto
  <2> QED
    BY <1>a, <1>b, <2>1, <2>2 DEF SemaphoreAccounting
<1>6. Holding' /\ Exclusive'
  <2>1. Range(connList') \cap deleted = {}
    BY <1>1 DEF Holding, Exclusive
  <2>2. ASSUME NEW v \in Users, pc'[v] = "use"
        PROVE  /\ hand'[v] \in 1 .. created
               /\ hand'[v] \notin Range(connList')
               /\ hand'[v] \notin deleted
    BY <2>2, <1>1 DEF Holding, Exclusive
  <2>3. ASSUME NEW v \in Users, NEW w \in Users, pc'[v] = "use", pc'[w] = "use",
               hand'[v] = hand'[w]
        PROVE  v = w
    BY <2>3, <1>1 DEF Holding, Exclusive
  <2> QED
    BY <1>1, <2>1, <2>2, <2>3, NoConnAssumption DEF Holding, Exclusive
<1> QED
  BY <1>2, <1>3, <1>4, <1>5, <1>6 DEF IInv

LEMMA TakeNothingHolds == ASSUME NEW u \in Users, IInv, TakeNothing(u) PROVE IInv'
<1>0. /\ TypeOK /\ pc[u] = "woken"
      /\ \A v \in Users : pc'[v] = IF v = u THEN "undefined" ELSE pc[v]
  BY DEF IInv, TypeOK, TakeNothing, Goto
<1>a. Cardinality(Woken) # 0 /\ Cardinality(Posting') = Cardinality(Posting)
  BY <1>0, Moves
<1> USE DEF IInv, TakeNothing, TypeOK, pool, Goto
<1>2. phase # "ready"
  BY <1>a, Finite DEF SemaphoreAccounting, Opened
<1>3. TypeOK' /\ Opened' /\ Filling' /\ SemaphoreAccounting'
  BY <1>a, <1>2 DEF Opened, Filling, SemaphoreAccounting
<1>4. Holding' /\ Exclusive'
  BY DEF Holding, Exclusive
<1> QED
  BY <1>3, <1>4 DEF IInv

LEMMA ReleaseHolds == ASSUME NEW u \in Users, IInv, ReleaseConnection(u) PROVE IInv'
<1>0. /\ TypeOK /\ pc[u] = "use"
      /\ \A v \in Users : pc'[v] = IF v = u THEN "post" ELSE pc[v]
  BY DEF IInv, TypeOK, ReleaseConnection, Goto
<1>a. Cardinality(Woken') = Cardinality(Woken) /\ Cardinality(Posting') = Cardinality(Posting) + 1
  BY <1>0, Moves
<1> USE DEF IInv, ReleaseConnection, TypeOK, Goto
<1>b. sem \in Nat /\ spare \in Nat /\ SemaphoreAccounting
  BY <1>0 DEF Opened
<1>1. hand[u] \in 1 .. created /\ hand[u] \notin Range(connList) /\ hand[u] \notin deleted
  BY DEF Holding, Exclusive
<1>2. /\ Range(connList') = Range(connList) \cup {hand[u]}
      /\ IsInjective(connList')
      /\ Len(connList') = Len(connList) + 1
      /\ connList' \in Seq(1 .. created)
  BY <1>1, RangeAppend DEF Holding, Exclusive
<1>4. Cardinality(Woken) \in Nat /\ Cardinality(Posting) \in Nat
      /\ Len(connList) \in Nat
  BY Finite
<1>5. TypeOK'
  BY <1>2
<1>6. Opened'
  BY DEF Opened
<1>7. Filling'
  BY <1>2, <1>a, <1>4, SizeAssumption DEF Filling
<1>8. SemaphoreAccounting'
  <2>1. Cardinality(Woken) \in Nat /\ Cardinality(Posting) \in Nat /\ Len(connList) \in Nat
    BY Finite
  <2>2. /\ phase' = phase /\ spare' = spare /\ sem' = sem
        /\ Len(connList') = Len(connList) + 1
    BY <1>2
  <2> HIDE DEF IInv, ReleaseConnection, TypeOK, Goto
  <2> QED
    BY <1>a, <1>b, <2>1, <2>2 DEF SemaphoreAccounting
<1>9. Holding' /\ Exclusive'
  <2>1. ASSUME NEW v \in Users, pc'[v] = "use"
        PROVE  /\ hand'[v] \in 1 .. created
               /\ hand'[v] \notin Range(connList')
               /\ hand'[v] \notin deleted
    BY <2>1, <1>2 DEF Holding, Exclusive
  <2>2. ASSUME NEW v \in Users, NEW w \in Users, pc'[v] = "use", pc'[w] = "use",
               hand'[v] = hand'[w]
        PROVE  v = w
    BY <2>2 DEF Holding, Exclusive
  <2>3. Range(connList') \cap deleted = {}
    BY <1>1, <1>2 DEF Holding, Exclusive
  <2> QED
    BY <1>2, <2>1, <2>2, <2>3 DEF Holding, Exclusive
<1> QED
  BY <1>5, <1>6, <1>7, <1>8, <1>9 DEF IInv

LEMMA SemPostHolds == ASSUME NEW u \in Users, IInv, SemPost(u) PROVE IInv'
<1>0. /\ TypeOK /\ pc[u] = "post"
      /\ \A v \in Users : pc'[v] = IF v = u THEN "idle" ELSE pc[v]
  BY DEF IInv, TypeOK, SemPost, Goto
<1>a. Cardinality(Woken') = Cardinality(Woken) /\ Cardinality(Posting') = Cardinality(Posting) - 1
  BY <1>0, Moves
<1> USE DEF IInv, SemPost, TypeOK, Goto
<1>2. Cardinality(Woken) \in Nat /\ Cardinality(Posting) \in Nat
      /\ Len(connList) \in Nat
  BY Finite
<1>3. sem \in Nat
  BY DEF Opened
<1>4. TypeOK'
  BY <1>3
<1>5. Opened' /\ Filling'
  BY <1>a, <1>2, <1>3, SizeAssumption DEF Opened, Filling
<1>6. SemaphoreAccounting'
  <2>1. UNCHANGED <<phase, connList, spare>> /\ sem' = sem + 1 /\ spare \in Nat
    OBVIOUS
  <2>2. SemaphoreAccounting
    OBVIOUS
  <2> HIDE DEF IInv, SemPost, TypeOK, Goto
  <2> QED
    BY <1>a, <1>2, <1>3, <2>1, <2>2 DEF SemaphoreAccounting
<1>7. Holding' /\ Exclusive'
  BY DEF Holding, Exclusive
<1> QED
  BY <1>4, <1>5, <1>6, <1>7 DEF IInv

-----------------------------------------------------------------------------
LEMMA NextHolds == IInv /\ [Next]_vars => IInv'
<1> SUFFICES ASSUME IInv, [Next]_vars PROVE IInv'
  OBVIOUS
<1>1. CASE UNCHANGED vars
  BY <1>1 DEF vars, pool, users, IInv, TypeOK, Opened, Filling, Holding, Exclusive, SemaphoreAccounting, Woken, Posting
<1>2. CASE Next
  BY <1>2, InitConnectionHolds, SemInitHolds, DestroyHolds, GetConnectionHolds, SemWaitHolds,
     TakeHolds, TakeNothingHolds, ReleaseHolds, SemPostHolds DEF Next, Step
<1> QED
  BY <1>1, <1>2

\* The inductive invariant holds in every behaviour.
THEOREM InvCorrect == Spec => []IInv
BY InitHolds, NextHolds, PTL DEF Spec

\* TypeOK: every variable keeps its type.
THEOREM TypeCorrect == Spec => []TypeOK
<1>1. IInv => TypeOK
  BY DEF IInv
<1> QED
  BY <1>1, InvCorrect, PTL

\* SemaphoreAccounting: the semaphore of an open pool never promises a
\* connection that is not in the list.
THEOREM AccountingCorrect == Spec => []SemaphoreAccounting
<1>1. IInv => SemaphoreAccounting
  BY DEF IInv
<1> QED
  BY <1>1, InvCorrect, PTL

\* Exclusive: a connection is in the list, with one user, or deleted.
THEOREM ExclusiveCorrect == Spec => []Exclusive
<1>1. IInv => Exclusive
  BY DEF IInv, Holding, Exclusive, Woken, Posting
<1> QED
  BY <1>1, InvCorrect, PTL

\* A user that has passed the semaphore of an open pool finds a connection:
\* GetConnection does not run off its end (DBPool.cpp:189).
THEOREM WokenFindsConnection ==
  Spec => [](\A u \in Users : phase = "ready" /\ pc[u] = "woken" => connList # <<>>)
<1>1. IInv => \A u \in Users : phase = "ready" /\ pc[u] = "woken" => connList # <<>>
  <2> SUFFICES ASSUME IInv, NEW u \in Users, phase = "ready", pc[u] = "woken",
                      connList = <<>>
               PROVE  FALSE
    OBVIOUS
  <2>1. u \in Woken
    BY DEF Woken
  <2>2. Cardinality(Woken) \in Nat \ {0} /\ Cardinality(Posting) \in Nat
    BY <2>1, Finite, FS_EmptySet
  <2>3. sem \in Nat /\ spare \in Nat
    BY DEF IInv, TypeOK, Opened
  <2>4. Len(connList) > 0
    BY <2>2, <2>3 DEF IInv, SemaphoreAccounting
  <2> QED
    BY <2>4
<1> QED
  BY <1>1, InvCorrect, PTL

-----------------------------------------------------------------------------
(***************************************************************************)
(* A user that waits is never left alone.                                  *)
(***************************************************************************)
Using == {u \in Users : pc[u] = "use"}

\* Each connection the semaphore was initialized with is promised to somebody, with
\* somebody, or on its way back.
Lent ==
  phase = "ready" =>
    sem + Cardinality(Woken) + Cardinality(Using) + Cardinality(Posting) >= Size

\* In an open pool a user only waits while another one has what it waits for, or is
\* about to post it: GetConnection waits for ever only if somebody never releases.
WaiterHasHelper ==
  \A u \in Users : phase = "ready" /\ pc[u] = "wait" =>
    sem > 0 \/ \E v \in Users : pc[v] \in {"woken", "use", "post"}

LEMMA FiniteUsing == IsFiniteSet(Using) /\ Cardinality(Using) \in Nat
<1>1. IsFiniteSet(Using)
  BY UsersAssumption, FS_Subset DEF Using
<1> QED
  BY <1>1, FS_CardinalityType

LEMMA MovesUsing ==
  ASSUME NEW u \in Users, NEW to, TypeOK,
         \A v \in Users : pc'[v] = IF v = u THEN to ELSE pc[v]
  PROVE  /\ pc[u] = "use" /\ to # "use" => Cardinality(Using') = Cardinality(Using) - 1
         /\ pc[u] # "use" /\ to = "use" => Cardinality(Using') = Cardinality(Using) + 1
         /\ pc[u] # "use" /\ to # "use" => Cardinality(Using') = Cardinality(Using)
<1>1. /\ pc[u] = "use" => u \in Using
      /\ pc[u] = "use" /\ to # "use" => Using' = Using \ {u}
      /\ pc[u] # "use" /\ to = "use" => u \notin Using /\ Using' = Using \cup {u}
      /\ pc[u] # "use" /\ to # "use" => Using' = Using
  BY DEF Using, TypeOK
<1> QED
  BY <1>1, FiniteUsing, FS_AddElement, FS_RemoveElement

LEMMA LentStep == ASSUME IInv, Lent, Next PROVE Lent'
<1> SUFFICES ASSUME phase' = "ready"
             PROVE  sem' + Cardinality(Woken') + Cardinality(Using') + Cardinality(Posting') >= Size
  BY DEF Lent
<1>0. TypeOK /\ Size \in Nat
  BY SizeAssumption DEF IInv
<1>f. /\ Cardinality(Woken) \in Nat /\ Cardinality(Using) \in Nat /\ Cardinality(Posting) \in Nat
  BY Finite, FiniteUsing
<1>1. CASE InitConnection \/ DestoryConnPool
  BY <1>1, SizeAssumption DEF InitConnection, DestoryConnPool
<1>2. CASE SemInit
  <2>1. Woken' = Woken /\ Using' = Using /\ Posting' = Posting /\ sem' = Size
    BY <1>2 DEF SemInit, users, Woken, Using, Posting
  <2> QED
    BY <1>0, <1>f, <2>1
<1>3. ASSUME NEW u \in Users, GetConnection(u) \/ Step(u)
      PROVE  sem' + Cardinality(Woken') + Cardinality(Using') + Cardinality(Posting') >= Size
  <2>1. phase = "ready"
    BY <1>3 DEF GetConnection, Step, SemWait, Take, TakeNothing, ReleaseConnection, SemPost, pool
  <2>2. /\ sem \in Nat
        /\ sem + Cardinality(Woken) + Cardinality(Using) + Cardinality(Posting) >= Size
    BY <2>1 DEF Lent, IInv, Opened, TypeOK
  <2>3. CASE GetConnection(u)
    <3>1. /\ pc[u] = "idle" /\ sem' = sem
          /\ \A v \in Users : pc'[v] = IF v = u THEN "wait" ELSE pc[v]
      BY <1>0, <2>3 DEF GetConnection, Goto, TypeOK, pool
    <3>2. /\ Cardinality(Woken') = Cardinality(Woken)
          /\ Cardinality(Posting') = Cardinality(Posting)
          /\ Cardinality(Using') = Cardinality(Using)
      BY <1>0, <3>1, Moves, MovesUsing
    <3> QED
      BY <2>2, <3>1, <3>2
  <2>4. CASE SemWait(u)
    <3>1. /\ pc[u] = "wait" /\ sem' = sem - 1
          /\ \A v \in Users : pc'[v] = IF v = u THEN "woken" ELSE pc[v]
      BY <1>0, <2>4 DEF SemWait, Goto, TypeOK
    <3>2. /\ Cardinality(Woken') = Cardinality(Woken) + 1
          /\ Cardinality(Posting') = Cardinality(Posting)
          /\ Cardinality(Using') = Cardinality(Using)
      BY <1>0, <3>1, Moves, MovesUsing
    <3> QED
      BY <1>f, <2>2, <3>1, <3>2
  <2>5. CASE Take(u)
    <3>1. /\ pc[u] = "woken" /\ sem' = sem
          /\ \A v \in Users : pc'[v] = IF v = u THEN "use" ELSE pc[v]
      BY <1>0, <2>5 DEF Take, Goto, TypeOK
    <3>2. /\ Cardinality(Woken') = Cardinality(Woken) - 1
          /\ Cardinality(Posting') = Cardinality(Posting)
          /\ Cardinality(Using') = Cardinality(Using) + 1
      BY <1>0, <3>1, Moves, MovesUsing
    <3> QED
      BY <1>f, <2>2, <3>1, <3>2
  <2>6. CASE TakeNothing(u)
    <3>1. u \in Woken /\ connList = <<>>
      BY <2>6 DEF TakeNothing, Woken
    <3>2. Len(connList) > 0
      <4>1. Cardinality(Woken) # 0
        BY <3>1, Finite, FS_EmptySet
      <4>2. spare \in Nat
        BY <1>0 DEF TypeOK
      <4> QED
        BY <1>f, <2>1, <2>2, <4>1, <4>2 DEF IInv, SemaphoreAccounting
    <3> QED
      BY <3>1, <3>2
  <2>7. CASE ReleaseConnection(u)
    <3>1. /\ pc[u] = "use" /\ sem' = sem
          /\ \A v \in Users : pc'[v] = IF v = u THEN "post" ELSE pc[v]
      BY <1>0, <2>7 DEF ReleaseConnection, Goto, TypeOK
    <3>2. /\ Cardinality(Woken') = Cardinality(Woken)
          /\ Cardinality(Posting') = Cardinality(Posting) + 1
          /\ Cardinality(Using') = Cardinality(Using) - 1
      BY <1>0, <3>1, Moves, MovesUsing
    <3> QED
      BY <1>f, <2>2, <3>1, <3>2
  <2>8. CASE SemPost(u)
    <3>1. /\ pc[u] = "post" /\ sem' = sem + 1
          /\ \A v \in Users : pc'[v] = IF v = u THEN "idle" ELSE pc[v]
      BY <1>0, <2>8 DEF SemPost, Goto, TypeOK
    <3>2. /\ Cardinality(Woken') = Cardinality(Woken)
          /\ Cardinality(Posting') = Cardinality(Posting) - 1
          /\ Cardinality(Using') = Cardinality(Using)
      BY <1>0, <3>1, Moves, MovesUsing
    <3> QED
      BY <1>f, <2>2, <3>1, <3>2
  <2> QED
    BY <1>3, <2>3, <2>4, <2>5, <2>6, <2>7, <2>8 DEF Step
<1> QED
  BY <1>1, <1>2, <1>3 DEF Next

\* No user waits for a connection that nobody has: the pool never deadlocks while it
\* is open, for any number of users and any size.
THEOREM NeverAbandoned == Spec => []WaiterHasHelper
<1>1. Init => Lent
  BY DEF Init, Lent
<1>2. IInv /\ Lent /\ [Next]_vars => Lent'
  <2>1. ASSUME Lent, UNCHANGED vars PROVE Lent'
    BY <2>1 DEF vars, pool, users, Lent, Woken, Using, Posting
  <2> QED
    BY <2>1, LentStep
<1>3. IInv /\ Lent => WaiterHasHelper
  <2> SUFFICES ASSUME IInv, Lent, phase = "ready", ~(sem > 0),
                      \A v \in Users : pc[v] \notin {"woken", "use", "post"}
               PROVE  FALSE
    BY DEF WaiterHasHelper
  <2>1. Woken = {} /\ Using = {} /\ Posting = {}
    BY DEF Woken, Using, Posting
  <2>2. sem \in Int /\ sem <= 0
    BY DEF IInv, TypeOK
  <2> QED
    BY <2>1, <2>2, FS_EmptySet, SizeAssumption DEF Lent
<1> QED
  BY <1>1, <1>2, <1>3, InvCorrect, PTL DEF Spec
===============================================================================
