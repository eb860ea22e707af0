------------------------------- MODULE WorkQueue -------------------------------
(***************************************************************************)
(* The thread pool for Windows (base/CThreadPool, class CWorkQueue): worker*)
(* threads wait for an abort event or a semaphore, the semaphore counts    *)
(* the queue, and Destroy waits for an empty queue before it ends them.    *)
(*                                                                         *)
(* Main is the thread that owns the pool: it calls Create, InsertWorkItem  *)
(* and Destroy.  A work item may call InsertWorkItem too, on the worker    *)
(* that runs it.  All accesses to the queue of InsertWorkItem,             *)
(* RemoveWorkItem and GetWorekQueueSize are in the critical section, so    *)
(* each of these sections is one step; between any two of them, and around *)
(* every call that waits or signals, the other threads run.                *)
(*                                                                         *)
(* The wait of Destroy for its threads fails at once when there are more of*)
(* them than WaitForMultipleObjects takes; its result is ignored.  Destroy *)
(* then takes the pool apart under threads that use it.                    *)
(***************************************************************************)
EXTENDS Integers, Sequences, FiniteSets, Functions

CONSTANTS
  Workers,   \* the threads that Create may start
  Counts,    \* how many of them it may be asked for
  Main,      \* the owner of the pool
  Items,     \* work items, each submitted at most once
  NoItem,    \* the value of pWorkItem while it is NULL
  MaxWait    \* MAXIMUM_WAIT_OBJECTS, 64: the handles one wait can take

ASSUME WorkersAssumption == IsFiniteSet(Workers) /\ Main \notin Workers
ASSUME CountsAssumption == Counts \subseteq 0 .. Cardinality(Workers)
ASSUME NoItemAssumption == NoItem \notin Items
ASSUME MaxWaitAssumption == MaxWait \in Nat \ {0}

Threads == Workers \cup {Main}

VARIABLES
  pc,          \* where each thread is
  hand,        \* ThreadFunc's pWorkItem
  created,     \* the workers counted by m_nNumberOfThreads
  queue,       \* m_pWorkItemQueue
  semaphore,   \* count of m_phSincObjectsArray[SEMAPHORE_INDEX]
  abortEvent,  \* m_phSincObjectsArray[ABORT_EVENT_INDEX], a manual-reset event
  \* What follows only records the past.
  submitted,   \* items that were inserted
  done,        \* items whose m_DoWorkFun has returned
  aborted      \* items whose m_AbortFun was called

past == <<submitted, done, aborted>>
vars == <<pc, hand, created, queue, semaphore, abortEvent, past>>

Init ==
  /\ pc = [t \in Threads |-> IF t = Main THEN "create" ELSE "absent"]
  /\ hand = [w \in Workers |-> NoItem]
  /\ created = {}
  /\ queue = <<>>
  /\ semaphore = 0
  /\ abortEvent = FALSE
  /\ submitted = {}
  /\ done = {}
  /\ aborted = {}

\* One call can wait for all the threads.
Joinable == Cardinality(created) <= MaxWait

\* Destroy has gone past its wait: it empties the queue, outside the critical
\* section, and then deletes queue, handles and section.
Gone == pc[Main] \in {"clean", "destroyed"}

\* A worker has used what Destroy takes apart; what the program does then is
\* undefined, and the model ends.
Undefined == \E w \in Workers : pc[w] = "undefined"

Goto(t, place) ==
  /\ ~Undefined
  /\ pc' = [pc EXCEPT ![t] = place]

-----------------------------------------------------------------------------
(***************************************************************************)
(* Create, after the kernel objects: one CreateThread after the other.     *)
(***************************************************************************)
MoreAskedFor == \E n \in Counts : Cardinality(created) < n

CreateThread(w) ==
  /\ pc[Main] = "create"
  /\ MoreAskedFor
  /\ w \notin created
  /\ created' = created \cup {w}
  /\ Goto(w, "wait")
  /\ UNCHANGED <<hand, queue, semaphore, abortEvent, past>>

CreateReturns ==
  /\ pc[Main] = "create"
  /\ Cardinality(created) \in Counts
  /\ Goto(Main, "work")
  /\ UNCHANGED <<hand, created, queue, semaphore, abortEvent, past>>

\* CreateThread fails: the threads so far are all there are; Destroy(5).
CreateFails ==
  /\ pc[Main] = "create"
  /\ MoreAskedFor
  /\ Goto(Main, "poll")
  /\ UNCHANGED <<hand, created, queue, semaphore, abortEvent, past>>

-----------------------------------------------------------------------------
(***************************************************************************)
(* InsertWorkItem: the push in the critical section, then ReleaseSemaphore.*)
(* "work" is where Main and the workers run code of the application.       *)
(***************************************************************************)
InsertAtFront(t) ==           \* bug: a stack instead of a queue
  /\ pc[t] = "work" /\ pc[Main] # "destroyed"
  /\ \E i \in Items \ submitted :
       /\ queue' = <<i>> \o queue
       /\ submitted' = submitted \cup {i}
  /\ Goto(t, "release")
  /\ UNCHANGED <<hand, created, semaphore, abortEvent, done, aborted>>
InsertWorkItem(t) ==
  /\ pc[t] = "work" /\ pc[Main] # "destroyed"
  /\ \E i \in Items \ submitted :
       /\ queue' = Append(queue, i)
       /\ submitted' = submitted \cup {i}
  /\ Goto(t, "release")
  /\ UNCHANGED <<hand, created, semaphore, abortEvent, done, aborted>>

ForgetSemaphore(t) ==        \* bug: InsertWorkItem without ReleaseSemaphore
  /\ pc[t] = "release"
  /\ Goto(t, "work")
  /\ UNCHANGED <<hand, created, queue, semaphore, abortEvent, past>>
ReleaseSemaphore(t) ==
  /\ pc[t] = "release" /\ pc[Main] # "destroyed"
  /\ semaphore' = semaphore + 1
  /\ Goto(t, "work")
  /\ UNCHANGED <<hand, created, queue, abortEvent, past>>

\* The handle is closed: InsertWorkItem returns false (where assert does nothing).
ReleaseFails(w) ==
  /\ pc[w] = "release" /\ pc[Main] = "destroyed"
  /\ Goto(w, "work")
  /\ UNCHANGED <<hand, created, queue, semaphore, abortEvent, past>>

-----------------------------------------------------------------------------
(***************************************************************************)
(* ThreadFunc.                                                             *)
(***************************************************************************)
\* WaitForMultipleObjects returns the lowest signalled index: the abort event
\* goes first, and stays signalled.  Once it is closed the wait fails, which ends
\* the thread as well.
WakeForAbortOnce(w) ==       \* bug: an auto-reset event, as CreateEvent(,FALSE,)
  /\ pc[w] = "wait"
  /\ abortEvent
  /\ abortEvent' = FALSE
  /\ Goto(w, "exited")
  /\ UNCHANGED <<hand, created, queue, semaphore, past>>
WakeForAbort(w) ==
  /\ pc[w] = "wait"
  /\ abortEvent
  /\ Goto(w, "exited")
  /\ UNCHANGED <<hand, created, queue, semaphore, abortEvent, past>>

WakeForItem(w) ==
  /\ pc[w] = "wait"
  /\ ~abortEvent
  /\ semaphore > 0
  /\ semaphore' = semaphore - 1
  /\ Goto(w, "remove")
  /\ UNCHANGED <<hand, created, queue, abortEvent, past>>

RemoveNoPop(w) ==            \* bug: front() without pop()
  /\ pc[w] = "remove"
  /\ Gone => pc[Main] = "clean" /\ queue # <<>>
  /\ hand' = [hand EXCEPT ![w] = Head(queue)]
  /\ Goto(w, "work")
  /\ UNCHANGED <<created, queue, semaphore, abortEvent, past>>
\* front() and pop(); on an empty queue they would be undefined.
RemoveWorkItem(w) ==
  /\ pc[w] = "remove"
  /\ Gone => pc[Main] = "clean" /\ queue # <<>>
  /\ hand' = [hand EXCEPT ![w] = Head(queue)]
  /\ queue' = Tail(queue)
  /\ Goto(w, "work")
  /\ UNCHANGED <<created, semaphore, abortEvent, past>>

WorkAfterDelete(w) ==         \* bug: pWorkItem is reset before it is run
  /\ pc[w] = "work"
  /\ hand' = [hand EXCEPT ![w] = NoItem]
  /\ done' = done \cup {hand'[w]}
  /\ Goto(w, "wait")
  /\ UNCHANGED <<created, queue, semaphore, abortEvent, submitted, aborted>>
\* m_DoWorkFun returns, the item is deleted.
DoWorkReturns(w) ==
  /\ pc[w] = "work"
  /\ done' = done \cup {hand[w]}
  /\ hand' = [hand EXCEPT ![w] = NoItem]
  /\ Goto(w, "wait")
  /\ UNCHANGED <<created, queue, semaphore, abortEvent, submitted, aborted>>

\* RemoveWorkItem or InsertWorkItem while Destroy empties the queue without the
\* critical section, or after it has deleted them; or the assertion after a
\* ReleaseSemaphore with the closed handle.
UseDestroyed(w) ==
  /\ \/ Gone /\ pc[w] \in {"remove", "work"}
     \/ pc[Main] = "destroyed" /\ pc[w] = "release"
  /\ Goto(w, "undefined")
  /\ UNCHANGED <<hand, created, queue, semaphore, abortEvent, past>>

-----------------------------------------------------------------------------
(***************************************************************************)
(* Destroy.                                                                *)
(***************************************************************************)
CallDestroy ==
  /\ pc[Main] = "work"
  /\ Goto(Main, "poll")
  /\ UNCHANGED <<hand, created, queue, semaphore, abortEvent, past>>

\* Sleeps and looks again until GetWorekQueueSize is 0.
PollEmpty ==
  /\ pc[Main] = "poll"
  /\ queue = <<>>
  /\ Goto(Main, "signal")
  /\ UNCHANGED <<hand, created, queue, semaphore, abortEvent, past>>

SetAbortEvent ==
  /\ pc[Main] = "signal"
  /\ abortEvent' = TRUE
  /\ Goto(Main, "join")
  /\ UNCHANGED <<hand, created, queue, semaphore, past>>

JoinNobody ==                \* bug: does not wait for the threads
  /\ pc[Main] = "join"
  /\ Goto(Main, "clean")
  /\ UNCHANGED <<hand, created, queue, semaphore, abortEvent, past>>
\* WaitForMultipleObjects for all threads; for too many it fails, and nobody looks.
JoinThreads ==
  /\ pc[Main] = "join"
  /\ Joinable => \A w \in created : pc[w] = "exited"
  /\ Goto(Main, "clean")
  /\ UNCHANGED <<hand, created, queue, semaphore, abortEvent, past>>

AbortItem ==
  /\ pc[Main] = "clean" /\ ~Undefined
  /\ queue # <<>>
  /\ aborted' = aborted \cup {Head(queue)}
  /\ queue' = Tail(queue)
  /\ UNCHANGED <<pc, hand, created, semaphore, abortEvent, submitted, done>>

DestroyReturns ==
  /\ pc[Main] = "clean"
  /\ queue = <<>>
  /\ Goto(Main, "destroyed")
  /\ UNCHANGED <<hand, created, queue, semaphore, abortEvent, past>>

-----------------------------------------------------------------------------
Worker(w) ==
  \/ WakeForAbort(w) \/ WakeForItem(w) \/ RemoveWorkItem(w) \/ DoWorkReturns(w)
  \/ ReleaseSemaphore(w) \/ ReleaseFails(w) \/ UseDestroyed(w)

Destroy ==
  PollEmpty \/ SetAbortEvent \/ JoinThreads \/ AbortItem \/ DestroyReturns

Next ==
  \/ \E w \in Workers : CreateThread(w) \/ Worker(w)
  \/ CreateReturns \/ CreateFails \/ CallDestroy \/ Destroy
  \/ ReleaseSemaphore(Main)
  \/ \E t \in Threads : InsertWorkItem(t)

\* The operating system schedules every thread that can run, and every work
\* item returns; nobody is bound to insert items or to call Destroy.
Fairness ==
  /\ \A w \in Workers : WF_vars(Worker(w))
  /\ WF_vars(Destroy) /\ WF_vars(ReleaseSemaphore(Main))

Spec == Init /\ [][Next]_vars /\ Fairness

-----------------------------------------------------------------------------
(***************************************************************************)
(* Properties.                                                             *)
(***************************************************************************)
MainPlaces == {"create", "work", "release", "poll", "signal", "join", "clean",
               "destroyed"}
WorkerPlaces == {"absent", "wait", "remove", "work", "release", "exited",
                 "undefined"}

\* Every variable keeps its type.
TypeOK ==
  /\ pc \in [Threads -> MainPlaces \cup WorkerPlaces]
  /\ pc[Main] \in MainPlaces
  /\ \A w \in Workers : pc[w] \in WorkerPlaces
  /\ hand \in [Workers -> Items \cup {NoItem}]
  /\ created \subseteq Workers
  /\ queue \in Seq(Items)
  /\ semaphore \in Nat
  /\ abortEvent \in BOOLEAN
  /\ submitted \subseteq Items
  /\ done \subseteq Items
  /\ aborted \subseteq Items

At(place, threads) == {t \in threads : pc[t] = place}

\* The queue and the semaphore are changed in different places by different
\* threads; an item of the queue is always matched by one unit of the semaphore,
\* a thread about to release one, or a worker that has taken one.  Only Destroy,
\* after its wait for the threads, empties the queue and not the semaphore.
SemaphoreAccounting ==
  ~Gone =>
    Len(queue) = semaphore + Cardinality(At("release", Threads))
                           + Cardinality(At("remove", Workers))

\* A worker that was woken finds an item: front() and pop() are never called on
\* an empty queue, though RemoveWorkItem does not look.  (Afterwards Destroy may
\* have taken the item.)
RemoveFindsItem ==
  \A w \in Workers : pc[w] = "remove" /\ ~Gone => queue # <<>>

Queued == Range(queue)
Held == {hand[w] : w \in Workers} \ {NoItem}

\* No item is lost, run twice, run by two workers or both run and aborted: it is
\* in the queue once, with one worker, done or aborted.
ItemsAccounted ==
  /\ IsInjective(queue)
  /\ \A v, w \in Workers : hand[v] = hand[w] => v = w \/ hand[v] = NoItem
  /\ submitted = UNION {Queued, Held, done, aborted}
  /\ Queued \cap (Held \cup done \cup aborted) = {}
  /\ Held \cap (done \cup aborted) = {}
  /\ done \cap aborted = {}

\* The queue, the handles and the critical section are only destroyed when no
\* worker can use them again, if the threads are not too many for one wait: each
\* has ended, and none holds an item.
JoinedBeforeClean ==
  Joinable /\ Gone =>
    \A w \in Workers : pc[w] \in {"absent", "exited"} /\ hand[w] = NoItem

\* The pool is a JobPool: the start order is the order of submission.  It is closed,
\* with nothing running, if one call can wait for all the threads.
Pool == INSTANCE JobPool WITH
          pending <- queue,
          running <- Held,
          finished <- done,
          dropped <- aborted,
          state <- IF ~Gone THEN "open"
                   ELSE IF Joinable THEN "closed" ELSE "abandoned"
ImplementsJobPool == Pool!Spec

\* Every item that was submitted is done or aborted in the end, if one call can wait
\* for all the threads.
EveryItemEnds ==
  \A i \in Items : i \in submitted /\ Joinable ~> i \in done \cup aborted

\* Destroy returns, on the same condition: every worker leaves its loop at the abort
\* event.
DestroyEnds == pc[Main] = "poll" /\ Joinable ~> pc[Main] = "destroyed"

\* WorkQueue.cpp:271: Destroy waits until the pool has completed all the work.
DestroyCompletesWork == pc[Main] = "destroyed" => done = submitted
=============================================================================
