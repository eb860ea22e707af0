---------------------------- MODULE WorkQueue_proofs ----------------------------
(***************************************************************************)
(* Proofs about WorkQueue for any number of workers, any set of items and  *)
(* any MaxWait.  Inductive adds to its invariants what ties the            *)
(* place of a worker to its item, to the threads that Create started, and  *)
(* to the place of the owner.                                              *)
(***************************************************************************)
EXTENDS WorkQueue, SequenceLemmas, FiniteSetTheorems, TLAPS

\* A worker holds an item exactly while it is running it, unless it was doing that
\* when it used what Destroy takes apart.
HandMatches ==
  \A w \in Workers :
    /\ pc[w] \in {"work", "release"} => hand[w] # NoItem
    /\ pc[w] \notin {"work", "release", "undefined"} => hand[w] = NoItem

\* Destroy joins exactly the threads that exist.
CreatedMatches == \A w \in Workers : pc[w] = "absent" <=> w \notin created

\* Once Destroy has joined them, no worker moves again; it has, unless they were
\* too many for its wait.
Joined ==
  Joinable /\ Gone =>
    \A w \in Workers : pc[w] \in {"absent", "exited"}

Inductive ==
  /\ TypeOK
  /\ HandMatches
  /\ CreatedMatches
  /\ Joined
  /\ SemaphoreAccounting
  /\ ItemsAccounted

-----------------------------------------------------------------------------
(***************************************************************************)
(* Sets of threads.                                                        *)
(***************************************************************************)
\* The threads at a place are finitely many.
LEMMA AtFinite ==
  ASSUME NEW place
  PROVE  /\ IsFiniteSet(At(place, Threads))
         /\ IsFiniteSet(At(place, Workers))
         /\ Cardinality(At(place, Threads)) \in Nat
         /\ Cardinality(At(place, Workers)) \in Nat
<1>1. IsFiniteSet(Workers) /\ IsFiniteSet(Threads)
  BY WorkersAssumption, FS_AddElement DEF Threads
<1>2. At(place, Threads) \in SUBSET Threads /\ At(place, Workers) \in SUBSET Workers
  BY DEF At
<1>3. IsFiniteSet(At(place, Threads)) /\ IsFiniteSet(At(place, Workers))
  BY <1>1, <1>2, FS_Subset
<1> QED
  BY <1>3, FS_CardinalityType

-----------------------------------------------------------------------------
(***************************************************************************)
(* The inductive invariant.                                                *)
(***************************************************************************)
\* The semaphore never lets a worker through to an empty queue.
LEMMA AccountingProtects ==
  ASSUME TypeOK, SemaphoreAccounting PROVE RemoveFindsItem
<1> SUFFICES ASSUME NEW w \in Workers, pc[w] = "remove", ~Gone PROVE queue # <<>>
  BY DEF RemoveFindsItem
<1>1. Len(queue) = semaphore + Cardinality(At("release", Threads))
                             + Cardinality(At("remove", Workers))
  BY DEF SemaphoreAccounting
<1>2. Cardinality(At("remove", Workers)) # 0
  <2>1. w \in At("remove", Workers)
    BY DEF At
  <2> QED
    BY <2>1, AtFinite, FS_EmptySet
<1>3. semaphore \in Nat
  BY DEF TypeOK
<1> QED
  BY <1>1, <1>2, <1>3, AtFinite

\* Every step keeps the types: the only partial operators are the head and the
\* tail of the queue, and an item is there when they are used.
LEMMA TypeStep ==
  ASSUME TypeOK, HandMatches, RemoveFindsItem, Next PROVE TypeOK'
<1> USE WorkersAssumption
    DEF TypeOK, Threads, MainPlaces, WorkerPlaces, Goto, past
<1>1. CASE \E w \in Workers : CreateThread(w)
  BY <1>1 DEF CreateThread
<1>2. CASE \E w \in Workers : \/ WakeForAbort(w) \/ WakeForItem(w)
                               \/ ReleaseFails(w) \/ UseDestroyed(w)
  BY <1>2 DEF WakeForAbort, WakeForItem, ReleaseFails, UseDestroyed
<1>3. CASE \E w \in Workers : RemoveWorkItem(w)
  BY <1>3 DEF RemoveWorkItem, RemoveFindsItem
<1>4. CASE \E w \in Workers : DoWorkReturns(w)
  <2> PICK w \in Workers : DoWorkReturns(w)
    BY <1>4
  <2>1. hand[w] \in Items
    BY DEF DoWorkReturns, HandMatches
  <2> QED
    BY <2>1 DEF DoWorkReturns
<1>5. CASE \E t \in Threads : ReleaseSemaphore(t)
  BY <1>5 DEF ReleaseSemaphore
<1>6. CASE CreateReturns \/ CreateFails \/ CallDestroy
  BY <1>6 DEF CreateReturns, CreateFails, CallDestroy
<1>7. CASE \E t \in Threads : InsertWorkItem(t)
  BY <1>7 DEF InsertWorkItem
<1>8. CASE PollEmpty \/ SetAbortEvent \/ JoinThreads \/ DestroyReturns
  BY <1>8 DEF PollEmpty, SetAbortEvent, JoinThreads, DestroyReturns
<1>9. CASE AbortItem
  BY <1>9 DEF AbortItem
<1> QED
  BY <1>1, <1>2, <1>3, <1>4, <1>5, <1>6, <1>7, <1>8, <1>9
  DEF Next, Worker, Destroy

\* Create starts the threads it counts, and nothing moves after JoinThreads.
LEMMA PlacesStep ==
  ASSUME TypeOK, Joined, CreatedMatches, Next PROVE Joined' /\ CreatedMatches'
  BY WorkersAssumption
  DEF TypeOK, Threads, Goto, Joined, CreatedMatches, past, Next, Worker,
      Destroy, CreateThread, CreateReturns, CreateFails, InsertWorkItem,
      ReleaseSemaphore, WakeForAbort, WakeForItem, RemoveWorkItem,
      DoWorkReturns, ReleaseFails, UseDestroyed, CallDestroy, PollEmpty,
      SetAbortEvent, JoinThreads, AbortItem, DestroyReturns, Gone, Joinable

\* pWorkItem is set and reset together with the place of the thread.
LEMMA HandStep ==
  ASSUME TypeOK, HandMatches, CreatedMatches, RemoveFindsItem, Next
  PROVE  HandMatches'
<1> USE WorkersAssumption, NoItemAssumption
    DEF TypeOK, Threads, HandMatches, CreatedMatches, Goto, past
<1>1. CASE \E w \in Workers : \/ CreateThread(w) \/ WakeForAbort(w) \/ WakeForItem(w)
                               \/ ReleaseFails(w) \/ UseDestroyed(w)
  BY <1>1 DEF CreateThread, WakeForAbort, WakeForItem, ReleaseFails, UseDestroyed
<1>2. CASE \E w \in Workers : RemoveWorkItem(w) \/ DoWorkReturns(w)
  BY <1>2 DEF RemoveWorkItem, DoWorkReturns, RemoveFindsItem
<1>3. CASE \E t \in Threads : ReleaseSemaphore(t) \/ InsertWorkItem(t)
  BY <1>3 DEF ReleaseSemaphore, InsertWorkItem
<1>4. CASE CreateReturns \/ CreateFails \/ CallDestroy \/ Destroy
  BY <1>4 DEF CreateReturns, CreateFails, CallDestroy, Destroy, PollEmpty,
              SetAbortEvent, JoinThreads, AbortItem, DestroyReturns
<1> QED
  BY <1>1, <1>2, <1>3, <1>4 DEF Next, Worker

\* A thread that enters or leaves a place is counted there, or no longer.
LEMMA CountEnter ==
  ASSUME NEW S, NEW T, NEW t, IsFiniteSet(S), t \notin S, T = S \cup {t}
  PROVE  Cardinality(T) = Cardinality(S) + 1
BY FS_AddElement

LEMMA CountLeave ==
  ASSUME NEW S, NEW T, NEW t, IsFiniteSet(S), t \in S, T = S \ {t}
  PROVE  Cardinality(T) = Cardinality(S) - 1
BY FS_RemoveElement

\* Steps that touch neither side of the accounting.
LEMMA AccountingFrame ==
  ASSUME SemaphoreAccounting, queue' = queue, semaphore' = semaphore,
         At("release", Threads)' = At("release", Threads),
         At("remove", Workers)' = At("remove", Workers),
         Gone => Gone'
  PROVE  SemaphoreAccounting'
BY DEF SemaphoreAccounting

\* Every step keeps the balance of queue and semaphore: InsertWorkItem adds an
\* item and a thread about to release, ReleaseSemaphore turns that thread into a
\* unit, WakeForItem the unit into a woken worker, RemoveWorkItem takes both.
LEMMA AccountingStep ==
  ASSUME TypeOK, CreatedMatches, SemaphoreAccounting, RemoveFindsItem, Next
  PROVE  SemaphoreAccounting'
<1> USE WorkersAssumption
<1> DEFINE Elsewhere == /\ At("release", Threads)' = At("release", Threads)
                        /\ At("remove", Workers)' = At("remove", Workers)
<1>1. ASSUME NEW w \in Workers,
             CreateThread(w) \/ WakeForAbort(w) \/ DoWorkReturns(w)
      PROVE  SemaphoreAccounting'
  <2>1. Elsewhere
    BY <1>1 DEF At, Goto, TypeOK, Threads, CreatedMatches, CreateThread,
                WakeForAbort, DoWorkReturns
  <2>2. queue' = queue /\ semaphore' = semaphore /\ pc'[Main] = pc[Main]
    BY <1>1 DEF Goto, TypeOK, Threads, CreateThread, WakeForAbort, DoWorkReturns
  <2> QED
    BY <2>1, <2>2, AccountingFrame DEF Gone
<1>2. CASE \/ CreateReturns \/ CreateFails \/ CallDestroy \/ PollEmpty
           \/ SetAbortEvent \/ JoinThreads \/ DestroyReturns
  <2> USE <1>2 DEF CreateReturns, CreateFails, CallDestroy, PollEmpty,
                   SetAbortEvent, JoinThreads, DestroyReturns
  <2>1. Elsewhere
    BY DEF At, Goto, TypeOK, Threads
  <2>2. /\ queue' = queue /\ semaphore' = semaphore
        /\ Gone => Gone'
    BY DEF Goto, TypeOK, Threads, Gone
  <2> QED
    BY <2>1, <2>2, AccountingFrame
<1>3. CASE AbortItem \/ \E w \in Workers : ReleaseFails(w) \/ UseDestroyed(w)
  <2>1. Gone'
    BY <1>3 DEF Goto, TypeOK, Threads, AbortItem, ReleaseFails, UseDestroyed, Gone
  <2> QED
    BY <2>1 DEF SemaphoreAccounting
<1>4. ASSUME NEW t \in Threads, InsertWorkItem(t) PROVE SemaphoreAccounting'
  <2>1. /\ At("release", Threads)' = At("release", Threads) \cup {t}
        /\ At("remove", Workers)' = At("remove", Workers)
        /\ t \notin At("release", Threads)
    BY <1>4 DEF At, Goto, TypeOK, Threads, InsertWorkItem
  <2>2. /\ Len(queue') = Len(queue) + 1
        /\ Len(queue) \in Nat /\ semaphore \in Nat
        /\ semaphore' = semaphore
    BY <1>4 DEF TypeOK, InsertWorkItem
  <2>3. Cardinality(At("release", Threads)') = Cardinality(At("release", Threads)) + 1
    BY <2>1, AtFinite, CountEnter
  <2>4. Gone => Gone'
    BY <1>4 DEF Goto, TypeOK, Threads, InsertWorkItem, Gone
  <2> QED
    BY <2>1, <2>2, <2>3, <2>4, AtFinite DEF SemaphoreAccounting
<1>5. ASSUME NEW t \in Threads, ReleaseSemaphore(t) PROVE SemaphoreAccounting'
  <2>1. /\ At("release", Threads)' = At("release", Threads) \ {t}
        /\ At("remove", Workers)' = At("remove", Workers)
        /\ t \in At("release", Threads)
    BY <1>5 DEF At, Goto, TypeOK, Threads, ReleaseSemaphore
  <2>2. /\ Len(queue) \in Nat /\ semaphore \in Nat
        /\ semaphore' = semaphore + 1 /\ queue' = queue
    BY <1>5 DEF TypeOK, ReleaseSemaphore
  <2>3. Cardinality(At("release", Threads)') = Cardinality(At("release", Threads)) - 1
    BY <2>1, AtFinite, CountLeave
  <2>4. Gone => Gone'
    BY <1>5 DEF Goto, TypeOK, Threads, ReleaseSemaphore, Gone
  <2> QED
    BY <2>1, <2>2, <2>3, <2>4, AtFinite DEF SemaphoreAccounting
<1>6. ASSUME NEW w \in Workers, WakeForItem(w) PROVE SemaphoreAccounting'
  <2>1. /\ At("release", Threads)' = At("release", Threads)
        /\ At("remove", Workers)' = At("remove", Workers) \cup {w}
        /\ w \notin At("remove", Workers)
    BY <1>6 DEF At, Goto, TypeOK, Threads, WakeForItem
  <2>2. /\ Len(queue) \in Nat /\ semaphore \in Nat
        /\ semaphore' = semaphore - 1 /\ queue' = queue
    BY <1>6 DEF TypeOK, WakeForItem
  <2>3. Cardinality(At("remove", Workers)') = Cardinality(At("remove", Workers)) + 1
    BY <2>1, AtFinite, CountEnter
  <2>4. pc'[Main] = pc[Main]
    BY <1>6 DEF Goto, TypeOK, Threads, WakeForItem
  <2> QED
    BY <2>1, <2>2, <2>3, <2>4, AtFinite DEF SemaphoreAccounting, Gone
<1>7. ASSUME NEW w \in Workers, RemoveWorkItem(w) PROVE SemaphoreAccounting'
  <2>0. CASE Gone
    <3>1. Gone'
      BY <1>7, <2>0 DEF Goto, TypeOK, Threads, RemoveWorkItem, Gone
    <3> QED
      BY <3>1 DEF SemaphoreAccounting
  <2>1. /\ At("release", Threads)' = At("release", Threads)
        /\ At("remove", Workers)' = At("remove", Workers) \ {w}
        /\ w \in At("remove", Workers)
    BY <1>7 DEF At, Goto, TypeOK, Threads, RemoveWorkItem
  <2>2. queue # <<>>
    BY <1>7 DEF RemoveFindsItem, RemoveWorkItem
  <2>3. /\ Len(queue) \in Nat /\ semaphore \in Nat
        /\ semaphore' = semaphore /\ Len(queue') = Len(queue) - 1
    BY <1>7, <2>2 DEF TypeOK, RemoveWorkItem
  <2>4. Cardinality(At("remove", Workers)') = Cardinality(At("remove", Workers)) - 1
    BY <2>1, AtFinite, CountLeave
  <2>5. pc'[Main] = pc[Main]
    BY <1>7 DEF Goto, TypeOK, Threads, RemoveWorkItem
  <2> QED
    BY <2>0, <2>1, <2>3, <2>4, <2>5, AtFinite DEF SemaphoreAccounting, Gone
<1> QED
  BY <1>1, <1>2, <1>3, <1>4, <1>5, <1>6, <1>7
  DEF Next, Worker, Destroy, Threads

\* Steps that touch no item.
LEMMA ItemsFrame ==
  ASSUME ItemsAccounted, queue' = queue, hand' = hand, submitted' = submitted,
         done' = done, aborted' = aborted
  PROVE  ItemsAccounted'
BY DEF ItemsAccounted, Queued, Held, Range, IsInjective

\* Every step moves at most one item, from one of the five sets to the next.
LEMMA ItemsStep ==
  ASSUME TypeOK, HandMatches, RemoveFindsItem, ItemsAccounted, Next
  PROVE  ItemsAccounted'
<1> USE NoItemAssumption
<1>1. CASE \E w \in Workers : CreateThread(w) \/ WakeForAbort(w) \/ WakeForItem(w)
  BY <1>1, ItemsFrame DEF CreateThread, WakeForAbort, WakeForItem, past
<1>2. CASE \/ \E t \in Threads : ReleaseSemaphore(t)
           \/ \E w \in Workers : ReleaseFails(w) \/ UseDestroyed(w)
  BY <1>2, ItemsFrame DEF ReleaseSemaphore, ReleaseFails, UseDestroyed, past
<1>3. CASE \/ CreateReturns \/ CreateFails \/ CallDestroy \/ PollEmpty
           \/ SetAbortEvent \/ JoinThreads \/ DestroyReturns
  BY <1>3, ItemsFrame
  DEF CreateReturns, CreateFails, CallDestroy, PollEmpty, SetAbortEvent,
      JoinThreads, DestroyReturns, past
<1>4. CASE \E t \in Threads : InsertWorkItem(t)
  <2>1. PICK i \in Items : /\ i \notin submitted
                           /\ queue' = Append(queue, i)
                           /\ submitted' = submitted \cup {i}
    BY <1>4 DEF InsertWorkItem
  <2>2. hand' = hand /\ done' = done /\ aborted' = aborted
    BY <1>4 DEF InsertWorkItem
  <2>3. queue \in Seq(Items)
    BY DEF TypeOK
  <2>4. i \notin Queued /\ i \notin Held /\ i \notin done /\ i \notin aborted
    BY <2>1 DEF ItemsAccounted
  <2>5. Queued' = Queued \cup {i} /\ IsInjective(queue')
    BY <2>1, <2>3, <2>4, RangeAppend DEF Queued, ItemsAccounted
  <2>6. Held' = Held
    BY <2>2 DEF Held
  <2> QED
    BY <2>1, <2>2, <2>4, <2>5, <2>6 DEF ItemsAccounted
<1>5. CASE \E w \in Workers : RemoveWorkItem(w)
  <2> PICK w \in Workers : RemoveWorkItem(w)
    BY <1>5
  <2> DEFINE i == Head(queue)
  <2>1. queue \in Seq(Items) /\ queue # <<>>
    BY DEF TypeOK, RemoveFindsItem, RemoveWorkItem
  <2>2. /\ submitted' = submitted /\ done' = done /\ aborted' = aborted
        /\ hand' = [hand EXCEPT ![w] = i] /\ queue' = Tail(queue)
        /\ hand \in [Workers -> Items \cup {NoItem}]
    BY DEF RemoveWorkItem, past, TypeOK
  <2>3. /\ i \in Queued /\ Queued' = Queued \ {i} /\ IsInjective(queue')
    BY <2>1, <2>2, RangeTail DEF Queued, ItemsAccounted
  <2>4. hand[w] = NoItem
    BY DEF HandMatches, RemoveWorkItem
  <2>5. i \in Items
    BY <2>1
  <2> HIDE DEF i
  <2>6. Held' = Held \cup {i}
    BY <2>2, <2>4, <2>5 DEF Held
  <2>7. \A v \in Workers : hand[v] # i
    BY <2>3, <2>5 DEF ItemsAccounted, Held
  <2>8. \A u, v \in Workers : hand'[u] = hand'[v] => u = v \/ hand'[u] = NoItem
    BY <2>2, <2>7 DEF ItemsAccounted
  <2> QED
    BY <2>2, <2>3, <2>6, <2>8 DEF ItemsAccounted
<1>6. CASE \E w \in Workers : DoWorkReturns(w)
  <2> PICK w \in Workers : DoWorkReturns(w)
    BY <1>6
  <2> DEFINE i == hand[w]
  <2>1. /\ submitted' = submitted /\ done' = done \cup {i} /\ aborted' = aborted
        /\ hand' = [hand EXCEPT ![w] = NoItem] /\ queue' = queue
        /\ hand \in [Workers -> Items \cup {NoItem}]
    BY DEF DoWorkReturns, TypeOK
  <2>2. i \in Held
    BY DEF HandMatches, DoWorkReturns, Held
  <2>3. \A v \in Workers : v # w => hand[v] # i
    BY <2>2 DEF ItemsAccounted, Held
  <2>4. Held' = Held \ {i}
    BY <2>1, <2>3 DEF Held
  <2>5. Queued' = Queued
    BY <2>1 DEF Queued
  <2>6. \A u, v \in Workers : hand'[u] = hand'[v] => u = v \/ hand'[u] = NoItem
    BY <2>1 DEF ItemsAccounted
  <2>7. IsInjective(queue')
    BY <2>1 DEF ItemsAccounted
  <2> HIDE DEF i
  <2> QED
    BY <2>1, <2>2, <2>4, <2>5, <2>6, <2>7 DEF ItemsAccounted
<1>7. CASE AbortItem
  <2> DEFINE i == Head(queue)
  <2>1. queue \in Seq(Items) /\ queue # <<>>
    BY <1>7 DEF TypeOK, AbortItem
  <2>2. /\ submitted' = submitted /\ done' = done /\ aborted' = aborted \cup {i}
        /\ hand' = hand /\ queue' = Tail(queue)
    BY <1>7 DEF AbortItem
  <2>3. i \in Queued /\ Queued' = Queued \ {i} /\ IsInjective(queue')
    BY <2>1, <2>2, RangeTail DEF Queued, ItemsAccounted
  <2>4. Held' = Held
    BY <2>2 DEF Held
  <2> HIDE DEF i
  <2> QED
    BY <2>2, <2>3, <2>4 DEF ItemsAccounted
<1> QED
  BY <1>1, <1>2, <1>3, <1>4, <1>5, <1>6, <1>7 DEF Next, Worker, Destroy, Threads

-----------------------------------------------------------------------------
(***************************************************************************)
(* The theorems.                                                           *)
(***************************************************************************)
\* Before Create the pool is empty, and no thread is counted.
LEMMA InitInductive == Init => Inductive
<1> SUFFICES ASSUME Init PROVE Inductive
  OBVIOUS
<1>1. TypeOK
  <2>1. /\ pc \in [Threads -> MainPlaces \cup WorkerPlaces]
        /\ pc[Main] \in MainPlaces
        /\ \A w \in Workers : pc[w] \in WorkerPlaces
    BY WorkersAssumption DEF Init, Threads, MainPlaces, WorkerPlaces
  <2>2. /\ hand \in [Workers -> Items \cup {NoItem}]
        /\ queue \in Seq(Items)
        /\ semaphore \in Nat
    BY DEF Init
  <2>3. /\ created \subseteq Workers /\ abortEvent \in BOOLEAN
        /\ submitted \subseteq Items /\ done \subseteq Items
        /\ aborted \subseteq Items
    BY DEF Init
  <2> QED
    BY <2>1, <2>2, <2>3 DEF TypeOK
<1>2. HandMatches /\ CreatedMatches /\ Joined
  BY WorkersAssumption
  DEF Init, Threads, HandMatches, CreatedMatches, Joined, Gone, Joinable
<1>3. SemaphoreAccounting
  <2>1. At("release", Threads) = {} /\ At("remove", Workers) = {}
    BY WorkersAssumption DEF At, Init, Threads
  <2>2. /\ Cardinality(At("release", Threads)) = 0
        /\ Cardinality(At("remove", Workers)) = 0
    BY <2>1, FS_EmptySet
  <2>3. Len(queue) = 0 /\ semaphore = 0
    BY DEF Init
  <2> QED
    BY <2>2, <2>3 DEF SemaphoreAccounting
<1>4. ItemsAccounted
  <2>1. Queued = {} /\ IsInjective(queue)
    BY DEF Queued, Range, IsInjective, Init
  <2>2. Held = {}
    BY DEF Held, Init
  <2> QED
    BY <2>1, <2>2 DEF ItemsAccounted, Init
<1> QED
  BY <1>1, <1>2, <1>3, <1>4 DEF Inductive

\* Inductive holds in every reachable state.
LEMMA Invariance == Spec => []Inductive
<1>1. Inductive /\ [Next]_vars => Inductive'
  <2>1. ASSUME Inductive, Next PROVE Inductive'
    BY <2>1, AccountingProtects, TypeStep, PlacesStep, HandStep, AccountingStep,
       ItemsStep DEF Inductive
  <2>2. ASSUME Inductive, UNCHANGED vars PROVE Inductive'
    <3> USE <2>2 DEF vars, past, Inductive
    <3>1. TypeOK'
      BY DEF TypeOK
    <3>2. HandMatches' /\ CreatedMatches' /\ Joined'
      BY DEF HandMatches, CreatedMatches, Joined, Gone, Joinable
    <3>3. SemaphoreAccounting'
      BY DEF SemaphoreAccounting, At, Gone
    <3>4. ItemsAccounted'
      BY ItemsFrame
    <3> QED
      BY <3>1, <3>2, <3>3, <3>4
  <2> QED
    BY <2>1, <2>2
<1> QED
  BY InitInductive, <1>1, PTL DEF Spec

\* The variables keep their types, for any number of workers and items.
THEOREM TypeCorrect == Spec => []TypeOK
<1>1. Inductive => TypeOK
  BY DEF Inductive
<1> QED
  BY Invariance, <1>1, PTL

\* Queue and semaphore agree, though they are changed in separate steps.
THEOREM AccountingCorrect == Spec => []SemaphoreAccounting
<1>1. Inductive => SemaphoreAccounting
  BY DEF Inductive
<1> QED
  BY Invariance, <1>1, PTL

\* RemoveWorkItem never takes the front of an empty queue.
THEOREM RemoveSafe == Spec => []RemoveFindsItem
<1>1. Inductive => RemoveFindsItem
  BY AccountingProtects DEF Inductive
<1> QED
  BY Invariance, <1>1, PTL

\* No item is lost, duplicated, run by two workers, or run and aborted.
THEOREM ItemsCorrect == Spec => []ItemsAccounted
<1>1. Inductive => ItemsAccounted
  BY DEF Inductive
<1> QED
  BY Invariance, <1>1, PTL

\* Destroy frees the queue and the handles when no worker can use them, whenever one
\* call can wait for all the threads that were created.
THEOREM JoinCorrect == Spec => []JoinedBeforeClean
<1>1. Inductive => JoinedBeforeClean
  BY DEF Inductive, JoinedBeforeClean, Joined, HandMatches
<1> QED
  BY Invariance, <1>1, PTL

-----------------------------------------------------------------------------
(***************************************************************************)
(* The pool implements JobPool.                                            *)
(***************************************************************************)
\* Every step of the pool is a step of JobPool, or leaves its variables alone.
LEMMA PoolStep ==
  ASSUME Inductive, Next PROVE [Pool!Next]_(Pool!vars)
<1> USE NoItemAssumption DEF Pool!vars
<1> DEFINE State == IF ~Gone THEN "open"
                    ELSE IF Joinable THEN "closed" ELSE "abandoned"
<1>0. /\ TypeOK /\ HandMatches /\ CreatedMatches /\ Joined
      /\ RemoveFindsItem /\ ItemsAccounted
  BY AccountingProtects DEF Inductive
<1>a. \A w \in Workers : pc[w] \notin {"absent", "exited"} => State # "closed"
  BY <1>0 DEF Joined
<1>b. ASSUME created' = created, pc'[Main] = pc[Main] PROVE State' = State
  BY <1>b DEF Gone, Joinable
<1>1. CASE \E w \in Workers : CreateThread(w)
  <2>1. UNCHANGED <<queue, hand, done, aborted>> /\ ~Gone /\ ~Gone'
    BY <1>0, <1>1, WorkersAssumption
    DEF CreateThread, past, Goto, TypeOK, Threads, Gone
  <2> QED
    BY <2>1 DEF Held
<1>2. CASE \/ \E t \in Threads : ReleaseSemaphore(t)
           \/ \E w \in Workers : \/ WakeForAbort(w) \/ WakeForItem(w)
                                  \/ ReleaseFails(w) \/ UseDestroyed(w)
  <2>1. UNCHANGED <<queue, hand, done, aborted, created>>
    BY <1>2
    DEF ReleaseSemaphore, WakeForAbort, WakeForItem, ReleaseFails, UseDestroyed, past
  <2>2. Gone' = Gone
    BY <1>0, <1>2, WorkersAssumption
    DEF ReleaseSemaphore, WakeForAbort, WakeForItem, ReleaseFails, UseDestroyed,
        Goto, TypeOK, Threads, Gone
  <2> QED
    BY <2>1, <2>2 DEF Held, Joinable
<1>3. CASE \/ CreateReturns \/ CreateFails \/ CallDestroy \/ PollEmpty
           \/ SetAbortEvent \/ DestroyReturns
  <2>1. UNCHANGED <<queue, hand, done, aborted, created>> /\ Gone' = Gone
    BY <1>0, <1>3
    DEF CreateReturns, CreateFails, CallDestroy, PollEmpty, SetAbortEvent,
        DestroyReturns, past, Goto, TypeOK, Threads, Gone
  <2> QED
    BY <2>1 DEF Held, Joinable
<1>4. CASE JoinThreads
  <2>1. UNCHANGED <<queue, hand, done, aborted, created>> /\ ~Gone /\ Gone'
    BY <1>0, <1>4 DEF JoinThreads, past, Goto, TypeOK, Threads, Gone
  <2>2. UNCHANGED <<queue, Held, done, aborted>> /\ Joinable' = Joinable
    BY <2>1 DEF Held, Joinable
  <2>3. CASE Joinable
    <3>1. Held = {}
      BY <1>0, <1>4, <2>3 DEF JoinThreads, Held, HandMatches, CreatedMatches
    <3> QED
      BY <2>1, <2>2, <2>3, <3>1 DEF Pool!Next, Pool!Close
  <2>4. CASE ~Joinable
    BY <2>1, <2>2, <2>4 DEF Pool!Next, Pool!Abandon
  <2> QED
    BY <2>3, <2>4
<1>5. ASSUME NEW t \in Threads, InsertWorkItem(t) PROVE Pool!Submit
  <2>1. UNCHANGED <<hand, done, aborted, created>>
    BY <1>5 DEF InsertWorkItem
  <2>2. Gone' = Gone /\ (t = Main => ~Gone)
    BY <1>0, <1>5 DEF InsertWorkItem, Goto, TypeOK, Threads, Gone
  <2>3. State # "closed" /\ State' = State
    BY <1>a, <1>5, <2>1, <2>2 DEF InsertWorkItem, Threads, Joinable
  <2>4. \E i \in Items : queue' = Append(queue, i)
    BY <1>5 DEF InsertWorkItem
  <2> QED
    BY <2>1, <2>3, <2>4 DEF Pool!Submit, Held
<1>6. ASSUME NEW w \in Workers, RemoveWorkItem(w) PROVE Pool!Start
  <2>1. State # "closed" /\ State' = State
    BY <1>a, <1>b, <1>0, <1>6, WorkersAssumption
    DEF RemoveWorkItem, Goto, TypeOK, Threads
  <2>2. queue # <<>> /\ Head(queue) \in Items
    BY <1>0, <1>6 DEF RemoveWorkItem, RemoveFindsItem, TypeOK
  <2>3. hand' = [hand EXCEPT ![w] = Head(queue)] /\ hand[w] = NoItem
    BY <1>0, <1>6 DEF RemoveWorkItem, HandMatches
  <2>4. Held' = Held \cup {Head(queue)}
    BY <1>0, <2>2, <2>3 DEF Held, TypeOK
  <2>5. queue' = Tail(queue) /\ done' = done /\ aborted' = aborted
    BY <1>6 DEF RemoveWorkItem, past
  <2> QED
    BY <2>1, <2>2, <2>4, <2>5 DEF Pool!Start
<1>7. ASSUME NEW w \in Workers, DoWorkReturns(w) PROVE Pool!Finish
  <2>1. State' = State
    BY <1>b, <1>0, <1>7, WorkersAssumption DEF DoWorkReturns, Goto, TypeOK, Threads
  <2>2. hand[w] \in Held
    BY <1>0, <1>7 DEF DoWorkReturns, HandMatches, Held
  <2>3. hand' = [hand EXCEPT ![w] = NoItem]
    BY <1>7 DEF DoWorkReturns
  <2>4. Held' = Held \ {hand[w]}
    BY <1>0, <2>2, <2>3 DEF Held, TypeOK, ItemsAccounted
  <2>5. queue' = queue /\ done' = done \cup {hand[w]} /\ aborted' = aborted
    BY <1>7 DEF DoWorkReturns
  <2> QED
    BY <2>1, <2>2, <2>4, <2>5 DEF Pool!Finish
<1>8. CASE AbortItem
  <2>1. State # "open" /\ State' = State
    BY <1>b, <1>8 DEF AbortItem, Gone
  <2> QED
    BY <1>8, <2>1 DEF AbortItem, Held, Pool!Next, Pool!Drop
<1> QED
  BY <1>1, <1>2, <1>3, <1>4, <1>5, <1>6, <1>7, <1>8
  DEF Next, Worker, Destroy, Threads, Pool!Next

\* The pool starts every item once and in the order of submission, and drops items
\* only when Destroy takes it apart: after the last worker has gone, if one call can
\* wait for all of them.
THEOREM PoolRefinement == Spec => ImplementsJobPool
<1>1. Init => Pool!Init
  BY WorkersAssumption DEF Init, Threads, Held, Pool!Init, Gone
<1>2. Inductive /\ [Next]_vars => [Pool!Next]_(Pool!vars)
  <2>1. UNCHANGED vars => UNCHANGED Pool!vars
    BY DEF vars, past, Pool!vars, Held, Gone, Joinable
  <2> QED
    BY <2>1, PoolStep
<1> QED
  BY <1>1, <1>2, Invariance, PTL DEF Spec, ImplementsJobPool, Pool!Spec

-----------------------------------------------------------------------------
(***************************************************************************)
(* Destroy is never stuck.  That it returns needs fairness; that there is  *)
(* always a thread to be fair to does not.                                 *)
(***************************************************************************)
\* What the wait of a worker, or the work it is in, does not hold up.
CanGoOn(w) ==
  \/ pc[w] \in {"remove", "work", "release"}
  \/ pc[w] = "wait" /\ (abortEvent \/ semaphore > 0)

\* While Destroy waits for the queue (WorkQueue.cpp:269) or for the threads, it can
\* itself go on or there is a worker that can: nobody waits for everybody else.
DestroyNotStuck ==
  /\ pc[Main] = "poll" => queue = <<>> \/ \E w \in Workers : CanGoOn(w)
  /\ pc[Main] = "join" =>
       (\A w \in created : pc[w] = "exited") \/ \E w \in Workers : CanGoOn(w)

\* Nothing is submitted before there is a thread to run it.
Staffed ==
  /\ pc[Main] \in {"work", "release"} => created # {}
  /\ queue # <<>> => created # {}

\* The abort event is set for good, no worker leaves without it, and what Destroy
\* takes apart is in place until then.
Aborting ==
  /\ abortEvent <=> pc[Main] \in {"join", "clean", "destroyed"}
  /\ \A w \in Workers : pc[w] = "exited" => abortEvent
  /\ \A w \in Workers : pc[w] = "undefined" => Gone

LEMMA StaffedStep ==
  ASSUME 0 \notin Counts, Inductive, Staffed, Next PROVE Staffed'
<1> USE WorkersAssumption DEF Inductive, TypeOK, Threads, Staffed, Goto, past
<1>1. CASE \E w \in Workers : \/ CreateThread(w) \/ WakeForAbort(w) \/ WakeForItem(w)
                               \/ ReleaseFails(w) \/ UseDestroyed(w)
  BY <1>1 DEF CreateThread, WakeForAbort, WakeForItem, ReleaseFails, UseDestroyed
<1>2. CASE \E w \in Workers : RemoveWorkItem(w) \/ DoWorkReturns(w)
  <2> PICK w \in Workers : RemoveWorkItem(w) \/ DoWorkReturns(w)
    BY <1>2
  <2>1. created # {}
    BY DEF RemoveWorkItem, DoWorkReturns, CreatedMatches
  <2>2. created' = created /\ pc'[Main] = pc[Main]
    BY DEF RemoveWorkItem, DoWorkReturns
  <2> QED
    BY <2>1, <2>2
<1>3. CASE \E t \in Threads : ReleaseSemaphore(t)
  BY <1>3 DEF ReleaseSemaphore
<1>4. CASE \E t \in Threads : InsertWorkItem(t)
  <2> PICK t \in Threads : InsertWorkItem(t)
    BY <1>4
  <2>1. pc[t] = "work" /\ created' = created
        /\ \A s \in Threads : pc'[s] = IF s = t THEN "release" ELSE pc[s]
    BY DEF InsertWorkItem
  <2>2. created # {}
    BY <2>1 DEF CreatedMatches
  <2> QED
    BY <2>1, <2>2
<1>5. CASE CreateReturns \/ CreateFails \/ CallDestroy \/ PollEmpty \/ SetAbortEvent
           \/ JoinThreads \/ DestroyReturns
  BY <1>5, FS_EmptySet
  DEF CreateReturns, CreateFails, CallDestroy, PollEmpty, SetAbortEvent,
      JoinThreads, DestroyReturns
<1>6. CASE AbortItem
  BY <1>6 DEF AbortItem
<1> QED
  BY <1>1, <1>2, <1>3, <1>4, <1>5, <1>6 DEF Next, Worker, Destroy

LEMMA AbortingStep ==
  ASSUME TypeOK, Aborting, Next PROVE Aborting'
<1> USE WorkersAssumption DEF TypeOK, Threads, Aborting, Gone, Goto, past
<1>1. CASE \E w \in Workers : \/ CreateThread(w) \/ WakeForAbort(w) \/ WakeForItem(w)
                               \/ ReleaseFails(w) \/ UseDestroyed(w)
  BY <1>1 DEF CreateThread, WakeForAbort, WakeForItem, ReleaseFails, UseDestroyed
<1>2. CASE \E w \in Workers : RemoveWorkItem(w) \/ DoWorkReturns(w)
  BY <1>2 DEF RemoveWorkItem, DoWorkReturns
<1>3. CASE \E t \in Threads : ReleaseSemaphore(t) \/ InsertWorkItem(t)
  BY <1>3 DEF ReleaseSemaphore, InsertWorkItem
<1>4. CASE CreateReturns \/ CreateFails \/ CallDestroy \/ Destroy
  BY <1>4 DEF CreateReturns, CreateFails, CallDestroy, Destroy, PollEmpty,
              SetAbortEvent, JoinThreads, AbortItem, DestroyReturns
<1> QED
  BY <1>1, <1>2, <1>3, <1>4 DEF Next, Worker

\* An item of the queue has a unit of the semaphore, or a thread that is about to
\* release or has taken one; a unit has a worker that waits for it, or works.
LEMMA NeverStuck ==
  ASSUME Inductive, Staffed, Aborting PROVE DestroyNotStuck
<1> USE DEF Inductive
<1>1. ASSUME pc[Main] = "poll", queue # <<>>
      PROVE  \E w \in Workers : CanGoOn(w)
  <2>1. CASE semaphore > 0
    <3>1. PICK w \in Workers : w \in created
      BY <1>1 DEF Staffed, TypeOK
    <3>2. pc[w] \in {"wait", "remove", "work", "release"}
      BY <1>1, <3>1 DEF TypeOK, WorkerPlaces, CreatedMatches, Aborting, Gone
    <3> QED
      BY <2>1, <3>2 DEF CanGoOn
  <2>2. CASE ~(semaphore > 0)
    <3>1. Len(queue) > 0 /\ semaphore = 0
      BY <1>1, <2>2 DEF TypeOK
    <3>2. Cardinality(At("release", Threads)) # 0 \/ Cardinality(At("remove", Workers)) # 0
      BY <1>1, <3>1, AtFinite DEF SemaphoreAccounting, Gone
    <3>3. At("release", Threads) # {} \/ At("remove", Workers) # {}
      BY <3>2, FS_EmptySet
    <3> QED
      BY <1>1, <3>3 DEF At, Threads, CanGoOn
  <2> QED
    BY <2>1, <2>2
<1>2. ASSUME pc[Main] = "join", NEW w \in created, pc[w] # "exited"
      PROVE  \E v \in Workers : CanGoOn(v)
  <2>1. w \in Workers /\ pc[w] \in {"wait", "remove", "work", "release"}
    BY <1>2 DEF TypeOK, WorkerPlaces, CreatedMatches, Aborting, Gone
  <2> QED
    BY <1>2, <2>1 DEF CanGoOn, Aborting
<1> QED
  BY <1>1, <1>2 DEF DestroyNotStuck

\* In a pool that is asked for at least one worker (Create accepts none) Destroy is
\* never stuck.
THEOREM DestroyNeverStuck == ASSUME 0 \notin Counts PROVE Spec => []DestroyNotStuck
<1>1. Init => Staffed /\ Aborting
  BY WorkersAssumption DEF Init, Staffed, Aborting, Gone, Threads
<1>2. Inductive /\ Staffed /\ Aborting /\ [Next]_vars => (Staffed /\ Aborting)'
  <2>1. ASSUME Inductive, Staffed, Aborting, Next PROVE (Staffed /\ Aborting)'
    BY <2>1, StaffedStep, AbortingStep DEF Inductive
  <2>2. ASSUME Staffed, Aborting, UNCHANGED vars PROVE (Staffed /\ Aborting)'
    BY <2>2 DEF vars, Staffed, Aborting, Gone
  <2> QED
    BY <2>1, <2>2
<1>3. Inductive /\ Staffed /\ Aborting => DestroyNotStuck
  BY NeverStuck
<1> QED
  BY <1>1, <1>2, <1>3, Invariance, PTL DEF Spec
===============================================================================
