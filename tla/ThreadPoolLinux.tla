---------------------------- MODULE ThreadPoolLinux ----------------------------
(***************************************************************************)
(* The thread pool for Linux (base/CThreadPool, thread-pool.cpp): one slot *)
(* per thread, with a busy flag, the job and a condition variable, on      *)
(* which the thread waits without a predicate; a manager removes idle      *)
(* threads.                                                                *)
(*                                                                         *)
(* One step is what a thread does between two points where another can see *)
(* the difference: a section under the lock of a slot or of the pool, one  *)
(* unlocked access, a wait, a signal.  A job is the function and parameter *)
(* of a work item.                                                         *)
(*                                                                         *)
(* tp_delete_thread and tp_close destroy a condition variable its thread   *)
(* waits on, or will wait on: kill takes a process, not a pthread_t, and   *)
(* ends nothing.  What a destroyed one does is undefined; here a wait on it*)
(* returns at any time or never.  After tp_close the slots are freed, and  *)
(* the model ends.                                                         *)
(*                                                                         *)
(* Create takes any number of threads, and thread_info has max_th_num      *)
(* slots, whatever that number is.  A thread that is about to use a slot   *)
(* outside the array does something undefined, and the model ends there    *)
(* too (Overrun).                                                          *)
(***************************************************************************)
EXTENDS Integers, FiniteSets

CONSTANTS
  Counts,       \* what Create may be asked for, the caller's min_th_num
  Max,          \* max_th_num, 80
  Submitters,   \* threads of the application that call InsertWorkItem
  Workers,      \* threads of the pool; bounds how many are ever created
  Jobs,         \* each submitted at most once
  None          \* no thread, no job

ASSUME SizeAssumption == Counts \subseteq Nat /\ Max \in Nat \ {0}
ASSUME NoneAssumption == None \notin Jobs \cup Workers \cup Submitters

Slots == 0 .. Max - 1

VARIABLES
  phase,        \* of the pool: create, open, closed, crashed or overrun
  thread_id, is_busy, th_work,   \* the fields of thread_info
  destroyed,    \* slots whose lock and condition were destroyed
  cur_th_num, min_th_num,
  tp_lock,      \* the submitter that holds it, or None
  loaded,       \* cur_th_num, as the increment under tp_lock has read it
  at, job, index,      \* tp_process_job: place, argument and i of a submitter
  pc, nseq, hand,      \* tp_work_thread: place, nseq and current job of a worker
  manager, seen, busy_num,   \* tp_manage_thread: place; i or size read; busy_num
  \* What follows only records the past.
  submitted, started, repeated, done, dropped,   \* jobs
  lost,         \* slots signalled while no thread was waiting
  shrunk,       \* the manager has destroyed a slot
  spurious      \* a wait has returned without a signal

slots == <<thread_id, is_busy, th_work, destroyed>>
pool == <<min_th_num, tp_lock, loaded>>
call == <<at, job, index>>
worker == <<pc, nseq, hand>>
managing == <<manager, seen, busy_num>>
past == <<submitted, started, repeated, done, dropped, lost, shrunk, spurious>>
vars == <<phase, slots, cur_th_num, pool, call, worker, managing, past>>

Init ==
  /\ phase = "create"
  /\ thread_id = [s \in Slots |-> None]
  /\ is_busy = [s \in Slots |-> FALSE]
  /\ th_work = [s \in Slots |-> None]
  /\ destroyed = {}
  /\ min_th_num \in Counts
  /\ cur_th_num = min_th_num
  /\ tp_lock = None
  /\ loaded = 0
  /\ at = [t \in Submitters |-> "idle"]
  /\ job = [t \in Submitters |-> None]
  /\ index = [t \in Submitters |-> 0]
  /\ pc = [w \in Workers |-> "absent"]
  /\ nseq = [w \in Workers |-> 0]
  /\ hand = [w \in Workers |-> None]
  /\ manager = "absent"
  /\ seen = 0
  /\ busy_num = 0
  /\ submitted = {}
  /\ started = {}
  /\ repeated = {}
  /\ done = {}
  /\ dropped = {}
  /\ lost = {}
  /\ shrunk = FALSE
  /\ spurious = FALSE

\* The program runs and thread_info is allocated.
Alive == phase \in {"create", "open"}

\* A thread is about to use a slot outside thread_info: tp_init after the last slot,
\* tp_close and the scan of tp_process_job because cur_th_num is larger than the
\* array, and tp_process_job because cur_th_num - 1 is -1.
InitOutside ==
  phase = "create" /\ Max < min_th_num /\ \A s \in Slots : thread_id[s] # None
CloseOutside == phase = "open" /\ Max < cur_th_num
ScanOutside(t) ==
  Alive /\ at[t] = "scan" /\ index[t] < cur_th_num /\ index[t] \notin Slots
PlaceOutside(t) == Alive /\ at[t] = "place" /\ cur_th_num = 0

Overrun ==
  /\ \/ InitOutside \/ CloseOutside
     \/ \E t \in Submitters : ScanOutside(t) \/ PlaceOutside(t)
  /\ phase' = "overrun"
  /\ UNCHANGED <<slots, cur_th_num, pool, call, worker, managing, past>>

-----------------------------------------------------------------------------
(***************************************************************************)
(* tp_init, called by Create, which ignores its result.                    *)
(***************************************************************************)
InitThread(s, w) ==
  /\ phase = "create"
  /\ s < min_th_num /\ thread_id[s] = None
  /\ \A r \in 0 .. s - 1 : thread_id[r] # None
  /\ pc[w] = "absent"
  /\ thread_id' = [thread_id EXCEPT ![s] = w]
  /\ pc' = [pc EXCEPT ![w] = "start"]
  /\ UNCHANGED <<phase, is_busy, th_work, destroyed, cur_th_num, pool, call,
                 nseq, hand, managing, past>>

InitReturns ==
  /\ phase = "create" /\ min_th_num <= Max
  /\ \A s \in 0 .. min_th_num - 1 : thread_id[s] # None
  /\ phase' = "open"
  /\ manager' = "sleep"
  /\ UNCHANGED <<slots, cur_th_num, pool, call, worker, seen, busy_num, past>>

\* pthread_create fails, for a worker or the manager: the rest is not created.
InitFails ==
  /\ phase = "create" /\ ~InitOutside
  /\ phase' = "open"
  /\ UNCHANGED <<slots, cur_th_num, pool, call, worker, managing, past>>

-----------------------------------------------------------------------------
(***************************************************************************)
(* InsertWorkItem and tp_process_job.                                      *)
(***************************************************************************)
\* tp_process_job returns to InsertWorkItem, which returns true.
Return(t) ==
  /\ at' = [at EXCEPT ![t] = "idle"]
  /\ job' = [job EXCEPT ![t] = None]
  /\ index' = [index EXCEPT ![t] = 0]

InsertWorkItem(t, j) ==
  /\ phase = "open"
  /\ at[t] = "idle"
  /\ j \notin submitted
  /\ at' = [at EXCEPT ![t] = "scan"]
  /\ job' = [job EXCEPT ![t] = j]
  /\ submitted' = submitted \cup {j}
  /\ UNCHANGED <<phase, slots, cur_th_num, pool, index, worker, managing,
                 started, repeated, done, dropped, lost, shrunk, spurious>>

ScanOutruns(t) ==            \* bug: i goes on behind the array
  /\ Alive /\ at[t] = "scan"
  /\ index[t] < cur_th_num /\ (index[t] \in Slots => is_busy[index[t]])
  /\ index' = [index EXCEPT ![t] = @ + 1]
  /\ UNCHANGED <<phase, slots, cur_th_num, pool, at, job, worker, managing,
                 past>>
SlotBusy(t) ==
  /\ Alive /\ at[t] = "scan"
  /\ index[t] < cur_th_num /\ index[t] \in Slots /\ is_busy[index[t]]
  /\ index' = [index EXCEPT ![t] = @ + 1]
  /\ UNCHANGED <<phase, slots, cur_th_num, pool, at, job, worker, managing,
                 past>>

ClaimForgets(t) ==           \* bug: is_busy is not set
  /\ Alive /\ at[t] = "scan"
  /\ index[t] < cur_th_num /\ index[t] \in Slots /\ ~is_busy[index[t]]
  /\ at' = [at EXCEPT ![t] = "write"]
  /\ UNCHANGED <<phase, slots, cur_th_num, pool, job, index, worker,
                 managing, past>>
ClaimSlot(t) ==
  /\ Alive /\ at[t] = "scan"
  /\ index[t] < cur_th_num /\ index[t] \in Slots /\ ~is_busy[index[t]]
  /\ is_busy' = [is_busy EXCEPT ![index[t]] = TRUE]
  /\ at' = [at EXCEPT ![t] = "write"]
  /\ UNCHANGED <<phase, thread_id, th_work, destroyed, cur_th_num, pool, job,
                 index, worker, managing, past>>

WriteNothing(t) ==           \* bug: the slot keeps its last job
  /\ Alive /\ at[t] = "write"
  /\ at' = [at EXCEPT ![t] = "signal"]
  /\ UNCHANGED <<phase, slots, cur_th_num, pool, job, index, worker,
                 managing, past>>
WriteWork(t) ==
  /\ Alive /\ at[t] = "write"
  /\ th_work' = [th_work EXCEPT ![index[t]] = job[t]]
  /\ at' = [at EXCEPT ![t] = "signal"]
  /\ UNCHANGED <<phase, thread_id, is_busy, destroyed, cur_th_num, pool, job,
                 index, worker, managing, past>>

ScanEnds(t) ==
  /\ Alive /\ at[t] = "scan"
  /\ index[t] >= cur_th_num
  /\ at' = [at EXCEPT ![t] = "grow"]
  /\ UNCHANGED <<phase, slots, cur_th_num, pool, job, index, worker,
                 managing, past>>

\* tp_add_thread refuses; tp_process_job returns nothing.
DropJob(t) ==
  /\ Alive /\ at[t] = "grow"
  /\ tp_lock = None
  /\ Max <= cur_th_num
  /\ dropped' = dropped \cup {job[t]}
  /\ Return(t)
  /\ UNCHANGED <<phase, slots, cur_th_num, pool, worker, managing,
                 submitted, started, repeated, done, lost, shrunk, spurious>>

\* tp_add_thread looks at the limit and chooses the slot,
AddOneMore(t) ==             \* bug: < for <= in the test of max_th_num
  /\ Alive /\ at[t] = "grow"
  /\ tp_lock = None
  /\ cur_th_num <= Max
  /\ is_busy' = [is_busy EXCEPT ![cur_th_num] = TRUE]
  /\ destroyed' = destroyed \ {cur_th_num}
  /\ index' = [index EXCEPT ![t] = cur_th_num]
  /\ tp_lock' = t
  /\ at' = [at EXCEPT ![t] = "load"]
  /\ UNCHANGED <<phase, thread_id, th_work, cur_th_num, min_th_num, loaded, job,
                 worker, managing, past>>
NewThread(t) ==
  /\ Alive /\ at[t] = "grow"
  /\ tp_lock = None
  /\ cur_th_num < Max
  /\ is_busy' = [is_busy EXCEPT ![cur_th_num] = TRUE]
  /\ destroyed' = destroyed \ {cur_th_num}
  /\ index' = [index EXCEPT ![t] = cur_th_num]
  /\ tp_lock' = t
  /\ at' = [at EXCEPT ![t] = "load"]
  /\ UNCHANGED <<phase, thread_id, th_work, cur_th_num, min_th_num, loaded, job,
                 worker, managing, past>>

\* then increments cur_th_num, which the manager decrements without the lock: a
\* read and a write,
LoadSize(t) ==
  /\ Alive /\ at[t] = "load"
  /\ loaded' = cur_th_num
  /\ at' = [at EXCEPT ![t] = "store"]
  /\ UNCHANGED <<phase, slots, cur_th_num, min_th_num, tp_lock, job, index,
                 worker, managing, past>>

\* and creates the thread.
AddThread(t) ==
  /\ Alive /\ at[t] = "store"
  /\ cur_th_num' = loaded + 1
  /\ \E w \in Workers :
       /\ pc[w] = "absent"
       /\ thread_id' = [thread_id EXCEPT ![index[t]] = w]
       /\ pc' = [pc EXCEPT ![w] = "start"]
  /\ loaded' = 0
  /\ at' = [at EXCEPT ![t] = "place"]
  /\ UNCHANGED <<phase, is_busy, th_work, destroyed, min_th_num, tp_lock, job,
                 index, nseq, hand, managing, past>>

\* pthread_create fails: free of a pointer into thread_info aborts the program.
AddThreadFails(t) ==
  /\ Alive /\ at[t] = "store"
  /\ cur_th_num' = loaded + 1
  /\ phase' = "crashed"
  /\ UNCHANGED <<slots, pool, call, worker, managing, past>>

\* Reads cur_th_num again, and unlocks.
PlaceWork(t) ==
  /\ Alive /\ at[t] = "place" /\ cur_th_num > 0
  /\ index' = [index EXCEPT ![t] = cur_th_num - 1]
  /\ th_work' = [th_work EXCEPT ![cur_th_num - 1] = job[t]]
  /\ tp_lock' = None
  /\ at' = [at EXCEPT ![t] = "signal"]
  /\ UNCHANGED <<phase, thread_id, is_busy, destroyed, cur_th_num, min_th_num,
                 loaded, job, worker, managing, past>>

Waiting(s) == {w \in Workers : pc[w] = "waiting" /\ nseq[w] = s}

\* pthread_cond_signal: wakes one of the threads that wait now, if any.
Signal(t) ==
  /\ Alive /\ at[t] = "signal"
  /\ \/ /\ Waiting(index[t]) = {}
        /\ lost' = lost \cup {index[t]}
        /\ UNCHANGED pc
     \/ /\ \E w \in Waiting(index[t]) : pc' = [pc EXCEPT ![w] = "woken"]
        /\ UNCHANGED lost
  /\ Return(t)
  /\ UNCHANGED <<phase, slots, cur_th_num, pool, nseq, hand, managing,
                 submitted, started, repeated, done, dropped, shrunk, spurious>>

Submit(t) ==
  \/ SlotBusy(t) \/ ClaimSlot(t) \/ WriteWork(t) \/ ScanEnds(t) \/ DropJob(t)
  \/ NewThread(t) \/ LoadSize(t) \/ AddThread(t) \/ AddThreadFails(t)
  \/ PlaceWork(t) \/ Signal(t)

-----------------------------------------------------------------------------
(***************************************************************************)
(* tp_work_thread.                                                         *)
(***************************************************************************)
\* tp_get_thread_by_id; a thread that is not found returns at once.
FindSeq(w) ==
  /\ Alive /\ pc[w] = "start"
  /\ \/ \E s \in Slots :
          /\ s < cur_th_num /\ thread_id[s] = w
          /\ nseq' = [nseq EXCEPT ![w] = s]
          /\ pc' = [pc EXCEPT ![w] = "loop"]
     \/ /\ \A s \in Slots : s < cur_th_num => thread_id[s] # w
        /\ pc' = [pc EXCEPT ![w] = "exited"]
        /\ UNCHANGED nseq
  /\ UNCHANGED <<phase, slots, cur_th_num, pool, call, hand, managing, past>>

\* pthread_cond_wait releases the lock and waits in one step.
CondWait(w) ==
  /\ Alive /\ pc[w] = "loop"
  /\ pc' = [pc EXCEPT ![w] = "waiting"]
  /\ UNCHANGED <<phase, slots, cur_th_num, pool, call, nseq, hand, managing,
                 past>>

\* A wait without a signal returns: on a destroyed condition variable, or, as
\* POSIX allows, on any; the latter is bounded to one in a behaviour.
SpuriousWakeup(w) ==
  /\ Alive /\ pc[w] = "waiting"
  /\ nseq[w] \in destroyed \/ ~spurious
  /\ pc' = [pc EXCEPT ![w] = "woken"]
  /\ spurious' = TRUE
  /\ UNCHANGED <<phase, slots, cur_th_num, pool, call, nseq, hand, managing,
                 submitted, started, repeated, done, dropped, lost, shrunk>>

ReadWork(w) ==
  /\ Alive /\ pc[w] = "woken"
  /\ th_work[nseq[w]] # None
  /\ hand' = [hand EXCEPT ![w] = th_work[nseq[w]]]
  /\ pc' = [pc EXCEPT ![w] = "running"]
  /\ started' = started \cup {hand'[w]}
  /\ repeated' = repeated \cup ({hand'[w]} \cap started)
  /\ UNCHANGED <<phase, slots, cur_th_num, pool, call, nseq, managing,
                 submitted, done, dropped, lost, shrunk, spurious>>

\* th_work is still NULL, and is called.
ReadNothing(w) ==
  /\ Alive /\ pc[w] = "woken"
  /\ th_work[nseq[w]] = None
  /\ phase' = "crashed"
  /\ UNCHANGED <<slots, cur_th_num, pool, call, worker, managing, past>>

JobReturnsBusy(w) ==         \* bug: is_busy stays set
  /\ Alive /\ pc[w] = "running"
  /\ done' = done \cup {hand[w]}
  /\ hand' = [hand EXCEPT ![w] = None]
  /\ pc' = [pc EXCEPT ![w] = "loop"]
  /\ UNCHANGED <<phase, slots, cur_th_num, pool, call, nseq, managing,
                 submitted, started, repeated, dropped, lost, shrunk, spurious>>
JobReturns(w) ==
  /\ Alive /\ pc[w] = "running"
  /\ done' = done \cup {hand[w]}
  /\ hand' = [hand EXCEPT ![w] = None]
  /\ is_busy' = [is_busy EXCEPT ![nseq[w]] = FALSE]
  /\ pc' = [pc EXCEPT ![w] = "loop"]
  /\ UNCHANGED <<phase, thread_id, th_work, destroyed, cur_th_num, pool, call,
                 nseq, managing, submitted, started, repeated, dropped, lost,
                 shrunk, spurious>>

Work(w) ==
  FindSeq(w) \/ CondWait(w) \/ ReadWork(w) \/ ReadNothing(w) \/ JobReturns(w)

-----------------------------------------------------------------------------
(***************************************************************************)
(* tp_manage_thread, which takes no lock.                                  *)
(***************************************************************************)
Awake ==
  /\ Alive /\ manager = "sleep"
  /\ manager' = "status"
  /\ UNCHANGED <<phase, slots, cur_th_num, pool, call, worker, seen, busy_num,
                 past>>

\* tp_get_tp_status: one slot after the other.
LookAtSlot ==
  /\ Alive /\ manager = "status"
  /\ seen < cur_th_num
  /\ busy_num' = busy_num + (IF is_busy[seen] THEN 1 ELSE 0)
  /\ seen' = seen + 1
  /\ UNCHANGED <<phase, slots, cur_th_num, pool, call, worker, manager, past>>

\* BUSY_THRESHOLD is one half.
Decide ==
  /\ Alive /\ manager = "status"
  /\ seen >= cur_th_num
  /\ manager' = IF 2 * busy_num < cur_th_num THEN "check" ELSE "sleep"
  /\ seen' = 0
  /\ busy_num' = 0
  /\ UNCHANGED <<phase, slots, cur_th_num, pool, call, worker, past>>

\* The two early returns of tp_delete_thread.
CheckLast ==
  /\ Alive /\ manager = "check"
  /\ manager' = IF cur_th_num <= min_th_num \/ is_busy[cur_th_num - 1]
                THEN "sleep" ELSE "destroy"
  /\ UNCHANGED <<phase, slots, cur_th_num, pool, call, worker, seen, busy_num,
                 past>>

DestroyLast ==
  /\ Alive /\ manager = "destroy"
  /\ destroyed' = destroyed \cup {cur_th_num - 1}
  /\ shrunk' = TRUE
  /\ manager' = "load"
  /\ UNCHANGED <<phase, thread_id, is_busy, th_work, cur_th_num, pool, call,
                 worker, seen, busy_num, submitted, started, repeated, done,
                 dropped, lost, spurious>>

\* The decrement of cur_th_num: a read and a write.
LoadLast ==
  /\ Alive /\ manager = "load"
  /\ seen' = cur_th_num
  /\ manager' = "decrement"
  /\ UNCHANGED <<phase, slots, cur_th_num, pool, call, worker, busy_num, past>>

Decrement ==
  /\ Alive /\ manager = "decrement"
  /\ cur_th_num' = seen - 1
  /\ seen' = 0
  /\ manager' = "check"
  /\ UNCHANGED <<phase, slots, pool, call, worker, busy_num, past>>

Manage ==
  \/ Awake \/ LookAtSlot \/ Decide
  \/ CheckLast \/ DestroyLast \/ LoadLast \/ Decrement

\* Destroy(): tp_close waits for nothing.
Close ==
  /\ phase = "open" /\ ~CloseOutside
  /\ phase' = "closed"
  /\ destroyed' = destroyed \cup 0 .. cur_th_num - 1
  /\ UNCHANGED <<thread_id, is_busy, th_work, cur_th_num, pool, call, worker,
                 managing, past>>

-----------------------------------------------------------------------------
Next ==
  \/ \E s \in Slots, w \in Workers : InitThread(s, w)
  \/ InitReturns \/ InitFails \/ Close
  \/ \E t \in Submitters, j \in Jobs : InsertWorkItem(t, j)
  \/ \E t \in Submitters : Submit(t)
  \/ \E w \in Workers : Work(w) \/ SpuriousWakeup(w)
  \/ Manage \/ Overrun

\* Threads that can run do, and jobs return.  Nobody is bound to call Close or
\* InsertWorkItem; a wait need not return without a signal; and the manager may
\* be blocked for ever by the condition variable it destroys.
Fairness ==
  /\ \A t \in Submitters : WF_vars(Submit(t))
  /\ \A w \in Workers : WF_vars(Work(w))

Spec == Init /\ [][Next]_vars /\ Fairness

-----------------------------------------------------------------------------
(***************************************************************************)
(* Properties.                                                             *)
(***************************************************************************)
\* Every variable keeps its type.
TypeOK ==
  /\ phase \in {"create", "open", "closed", "crashed", "overrun"}
  /\ thread_id \in [Slots -> Workers \cup {None}]
  /\ is_busy \in [Slots -> BOOLEAN]
  /\ th_work \in [Slots -> Jobs \cup {None}]
  /\ destroyed \subseteq Slots
  /\ min_th_num \in Counts
  /\ cur_th_num \in 0 .. Max \cup {min_th_num}
  /\ tp_lock \in Submitters \cup {None}
  /\ loaded \in 0 .. Max
  /\ at \in [Submitters -> {"idle", "scan", "write", "grow", "load", "store",
                           "place", "signal"}]
  /\ job \in [Submitters -> Jobs \cup {None}]
  /\ index \in [Submitters -> 0 .. Max]
  /\ pc \in [Workers -> {"absent", "start", "loop", "waiting", "woken", "running",
                         "exited"}]
  /\ nseq \in [Workers -> Slots]
  /\ hand \in [Workers -> Jobs \cup {None}]
  /\ manager \in {"absent", "sleep", "status", "check", "destroy", "load",
                 "decrement"}
  /\ seen \in 0 .. Max
  /\ busy_num \in 0 .. Max
  /\ UNION {submitted, started, repeated, done, dropped} \subseteq Jobs
  /\ lost \subseteq Slots
  /\ shrunk \in BOOLEAN
  /\ spurious \in BOOLEAN

\* The manager has destroyed no slot and no wait has returned without a signal.
\* What follows is guaranteed only that long: the code has no predicate to wait
\* for, and its manager destroys what is in use.
Calm == ~shrunk /\ ~spurious

\* Although the manager changes cur_th_num without the lock, so that an increment
\* or a decrement can be lost, it never leaves its bounds in a pool that was asked
\* for no more threads than it has slots: each writes what it has read plus or
\* minus one, after a test that still holds when it reads.
ThreadsBounded ==
  min_th_num <= Max => min_th_num <= cur_th_num /\ cur_th_num <= Max

\* The submitters that have claimed slot s and not signalled it yet.
Claimants(s) ==
  {t \in Submitters :
     \/ at[t] \in {"write", "load", "store", "signal"} /\ index[t] = s
     \/ at[t] = "place" /\ s = cur_th_num - 1}
\* The workers that were signalled for slot s, or run its job.
Runners(s) == {w \in Workers : pc[w] \in {"woken", "running"} /\ nseq[w] = s}

\* The busy flag is set and reset by different threads, and read by others: it is
\* set exactly while one submitter is about to signal the slot, one worker has
\* been signalled, or the signal was lost, and these exclude each other.
BusyAccounted ==
  Calm => \A s \in Slots :
    Cardinality(Claimants(s)) + Cardinality(Runners(s))
      + Cardinality({s} \cap lost) = IF is_busy[s] THEN 1 ELSE 0

\* A worker that was signalled finds a job that no worker has started: th_work is
\* neither NULL, nor the last job, nor overwritten by the next.
WokenFindsNewJob ==
  Calm => \A w \in Workers :
    pc[w] = "woken" => th_work[nseq[w]] \in submitted \ (started \cup dropped)

\* Every job is with its submitter, in a slot, done or dropped, and only there.
Carried == {job[t] : t \in Submitters} \ {None}
Placed == {th_work[s] : s \in lost} \cup
          {th_work[nseq[w]] : w \in {w \in Workers : pc[w] = "woken"}}
Running == {hand[w] : w \in Workers} \ {None}
JobsAccounted ==
  Calm =>
    /\ submitted = UNION {Carried, Placed, Running, done, dropped}
    /\ Carried \cap UNION {Placed, Running, done, dropped} = {}
    /\ Placed \cap UNION {Running, done, dropped} = {}
    /\ Running \cap (done \cup dropped) = {}
    /\ repeated = {} /\ done \cap dropped = {}

\* thread-pool.cpp:37: "malloc mem for num thread info struct", so each of the num
\* threads (line 10) has a slot, and no index leaves the array; so it is in a pool
\* that was asked for at least one thread and no more than it has slots.
EveryThreadHasSlot ==
  1 <= min_th_num /\ min_th_num <= Max => phase # "overrun"


\* thread-pool.cpp:285: "if last thread is busy, do nothing".
DeletesIdleOnly == [][DestroyLast => ~is_busy[cur_th_num - 1]]_vars
=============================================================================
