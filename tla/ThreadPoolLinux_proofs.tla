------------------------- MODULE ThreadPoolLinux_proofs -------------------------
(***************************************************************************)
(* Proofs about ThreadPoolLinux for any number of threads Create may be    *)
(* asked for, any number of slots and any sets of threads and jobs.  A pool*)
(* that is asked for no more threads than thread_info has slots is Bounded;*)
(* a larger one is Oversized, and never gets as far as its manager.        *)
(***************************************************************************)
EXTENDS ThreadPoolLinux, FiniteSetTheorems, TLAPS

\* Between its checks and its decrement the manager relies on the size it saw,
\* and the decrement on the size it read.
ManagerHasRoom ==
  /\ manager \in {"destroy", "load"} => min_th_num < cur_th_num
  /\ manager = "decrement" => min_th_num < seen

\* So does the submitter that adds a thread, which is the one that holds tp_lock.
AdderHasRoom ==
  \A t \in Submitters :
    /\ at[t] \in {"load", "store", "place"} => tp_lock = t
    /\ at[t] = "load" => cur_th_num < Max
    /\ at[t] = "store" => min_th_num <= loaded /\ loaded < Max

\* tp_get_tp_status counts no slot twice, and starts at 0.
CountBounded ==
  /\ busy_num <= seen
  /\ manager # "status" => busy_num = 0
  /\ phase = "create" => manager = "absent"

\* A submitter in tp_process_job carries a job, and has a slot from the moment
\* it claims it; a worker runs a job, not NULL.
Carrying ==
  /\ \A t \in Submitters : at[t] # "idle" => job[t] \in Jobs
  /\ \A t \in Submitters :
       at[t] \in {"write", "load", "store", "signal"} => index[t] \in Slots
  /\ \A w \in Workers : pc[w] = "running" => hand[w] \in Jobs

\* A pool that is asked for no more threads than it has slots.
Bounded ==
  /\ min_th_num <= Max
  /\ TypeOK /\ Carrying
  /\ ThreadsBounded /\ ManagerHasRoom /\ AdderHasRoom /\ CountBounded

\* A pool that is asked for more threads than it has slots.  tp_init does not get
\* behind the last slot, so that there is a manager, and no submitter gets to the
\* end of its scan with a slot to add.
Oversized ==
  /\ Max < min_th_num
  /\ TypeOK /\ Carrying
  /\ cur_th_num = min_th_num /\ manager = "absent"
  /\ \A t \in Submitters : at[t] \notin {"load", "store", "place"}

LEMMA NaturalSizes == TypeOK => min_th_num \in Nat /\ cur_th_num \in Nat
BY SizeAssumption DEF TypeOK

\* Every pool is one of the two, and both keep what the busy flags and the jobs
\* rely on.
Sized ==
  /\ TypeOK /\ Carrying /\ AdderHasRoom
  /\ \A t \in Submitters : at[t] = "place" => cur_th_num <= Max

LEMMA BoundedOrOversized == Bounded \/ Oversized => Sized
BY SizeAssumption
DEF Bounded, Oversized, Sized, TypeOK, ThreadsBounded, AdderHasRoom

\* A pool starts with min_th_num threads.
LEMMA InitTyped == Init => TypeOK /\ Carrying
<1> SUFFICES ASSUME Init PROVE TypeOK /\ Carrying
  OBVIOUS
<1>1. TypeOK
  <2> USE SizeAssumption, NoneAssumption DEF Init
  <2>1. /\ phase \in {"create", "open", "closed", "crashed", "overrun"}
        /\ manager \in {"absent", "sleep", "status", "check", "destroy", "load",
                       "decrement"}
        /\ shrunk \in BOOLEAN /\ spurious \in BOOLEAN
    OBVIOUS
  <2>2. /\ thread_id \in [Slots -> Workers \cup {None}]
        /\ is_busy \in [Slots -> BOOLEAN]
        /\ th_work \in [Slots -> Jobs \cup {None}]
        /\ destroyed \subseteq Slots /\ lost \subseteq Slots
        /\ nseq \in [Workers -> Slots]
    BY DEF Slots
  <2>3. /\ min_th_num \in Counts /\ cur_th_num \in 0 .. Max \cup {min_th_num}
        /\ seen \in 0 .. Max /\ busy_num \in 0 .. Max
        /\ index \in [Submitters -> 0 .. Max]
        /\ tp_lock \in Submitters \cup {None} /\ loaded \in 0 .. Max
    OBVIOUS
  <2>4. at \in [Submitters -> {"idle", "scan", "write", "grow", "load", "store",
                              "place", "signal"}]
    OBVIOUS
  <2>5. pc \in [Workers -> {"absent", "start", "loop", "waiting", "woken", "running",
                            "exited"}]
    OBVIOUS
  <2>6. /\ job \in [Submitters -> Jobs \cup {None}]
        /\ hand \in [Workers -> Jobs \cup {None}]
        /\ UNION {submitted, started, repeated, done, dropped} \subseteq Jobs
    OBVIOUS
  <2> QED
    BY <2>1, <2>2, <2>3, <2>4, <2>5, <2>6 DEF TypeOK
<1>2. Carrying
  BY DEF Init, Carrying
<1> QED
  BY <1>1, <1>2

LEMMA InitBounded == Init => Bounded \/ Oversized
BY InitTyped, SizeAssumption
DEF Bounded, Oversized, Init, ThreadsBounded, ManagerHasRoom, AdderHasRoom,
    CountBounded

\* Only tp_add_thread grows the pool, only the manager shrinks it, and both look
\* at the limit first: what one writes never takes the other's room.
LEMMA SizeStep == Bounded /\ Next =>
                    /\ ThreadsBounded' /\ ManagerHasRoom'
                    /\ AdderHasRoom' /\ CountBounded'
<1> SUFFICES ASSUME Bounded, Next
             PROVE  /\ ThreadsBounded' /\ ManagerHasRoom'
                    /\ AdderHasRoom' /\ CountBounded'
  OBVIOUS
<1> USE SizeAssumption, NoneAssumption
    DEF Bounded, TypeOK, ThreadsBounded, ManagerHasRoom, AdderHasRoom, CountBounded,
        slots, pool, call, worker, managing, past
<1>1. CASE \E s \in Slots, w \in Workers : InitThread(s, w)
  BY <1>1 DEF InitThread
<1>2. CASE InitReturns \/ InitFails \/ Close \/ Overrun
  <2>1. CASE InitReturns
    BY <2>1 DEF InitReturns
  <2>2. CASE InitFails \/ Close \/ Overrun
    BY <2>2 DEF InitFails, Close, Overrun
  <2> QED
    BY <1>2, <2>1, <2>2
<1>3. CASE \E t \in Submitters, j \in Jobs : InsertWorkItem(t, j)
  BY <1>3 DEF InsertWorkItem
<1>4. CASE \E t \in Submitters : SlotBusy(t) \/ ClaimSlot(t) \/ WriteWork(t)
  BY <1>4 DEF SlotBusy, ClaimSlot, WriteWork
<1>5. CASE \E t \in Submitters : ScanEnds(t) \/ DropJob(t) \/ Signal(t)
  <2>1. CASE \E t \in Submitters : ScanEnds(t)
    BY <2>1 DEF ScanEnds
  <2>2. CASE \E t \in Submitters : DropJob(t)
    BY <2>2 DEF DropJob, Return
  <2>3. CASE \E t \in Submitters : Signal(t)
    BY <2>3 DEF Signal, Return
  <2> QED
    BY <1>5, <2>1, <2>2, <2>3
<1>6. CASE \E t \in Submitters : NewThread(t) \/ PlaceWork(t)
  <2>1. CASE \E t \in Submitters : NewThread(t)
    BY <2>1 DEF NewThread
  <2>2. CASE \E t \in Submitters : PlaceWork(t)
    BY <2>2 DEF PlaceWork
  <2> QED
    BY <1>6, <2>1, <2>2
<1>7. CASE \E t \in Submitters : LoadSize(t)
  BY <1>7 DEF LoadSize
<1>8. CASE \E t \in Submitters : AddThread(t)
  BY <1>8 DEF AddThread
<1>9. CASE \E t \in Submitters : AddThreadFails(t)
  BY <1>9 DEF AddThreadFails
<1>10. CASE \E w \in Workers : Work(w) \/ SpuriousWakeup(w)
  BY <1>10 DEF Work, FindSeq, CondWait, ReadWork, ReadNothing, JobReturns,
               SpuriousWakeup
<1>11. CASE Awake \/ LookAtSlot \/ Decide \/ CheckLast
  BY <1>11 DEF Awake, LookAtSlot, Decide, CheckLast
<1>12. CASE DestroyLast \/ LoadLast \/ Decrement
  <2>1. CASE DestroyLast
    <3>1. manager = "destroy" /\ manager' = "load"
          /\ UNCHANGED <<phase, cur_th_num, min_th_num, at, tp_lock, loaded, seen,
                      busy_num>>
      BY <2>1 DEF DestroyLast
    <3> QED
      BY <3>1
  <2>2. CASE LoadLast
    <3>1. manager = "load" /\ manager' = "decrement" /\ seen' = cur_th_num
          /\ UNCHANGED <<phase, cur_th_num, min_th_num, at, tp_lock, loaded, busy_num>>
      BY <2>2 DEF LoadLast
    <3> QED
      BY <3>1
  <2>3. CASE Decrement
    <3>1. cur_th_num' = seen - 1 /\ manager' = "check" /\ seen' = 0
          /\ UNCHANGED <<phase, min_th_num, at, tp_lock, loaded, busy_num>>
          /\ manager = "decrement"
      BY <2>3 DEF Decrement
    <3>2. min_th_num <= cur_th_num' /\ cur_th_num' < Max
      BY <3>1
    <3>3. busy_num = 0
      BY <3>1
    <3> QED
      BY <3>1, <3>2, <3>3
  <2> QED
    BY <1>12, <2>1, <2>2, <2>3
<1> QED
  BY <1>1, <1>2, <1>3, <1>4, <1>5, <1>6, <1>7, <1>8, <1>9, <1>10, <1>11, <1>12
  DEF Next, Submit, Manage

-----------------------------------------------------------------------------
(***************************************************************************)
(* The steps that keep the types whatever the sizes are.                   *)
(***************************************************************************)
CommonNext ==
  \/ \E s \in Slots, w \in Workers : InitThread(s, w)
  \/ InitFails \/ Overrun
  \/ \E t \in Submitters, j \in Jobs : InsertWorkItem(t, j)
  \/ \E t \in Submitters : \/ SlotBusy(t) \/ ClaimSlot(t) \/ WriteWork(t)
                          \/ ScanEnds(t) \/ DropJob(t) \/ Signal(t)
  \/ \E w \in Workers : Work(w) \/ SpuriousWakeup(w)

LEMMA CommonTypes == TypeOK /\ Carrying /\ CommonNext => TypeOK'
<1> SUFFICES ASSUME TypeOK, Carrying, CommonNext PROVE TypeOK'
  OBVIOUS
<1> USE SizeAssumption DEF TypeOK, slots, pool, call, worker, managing, past
<1>1. ASSUME NEW s \in Slots, NEW w \in Workers, InitThread(s, w) PROVE TypeOK'
  BY <1>1 DEF InitThread
<1>2. CASE InitFails \/ Overrun
  BY <1>2 DEF InitFails, Overrun
<1>3. ASSUME NEW t \in Submitters, NEW j \in Jobs, InsertWorkItem(t, j) PROVE TypeOK'
  BY <1>3 DEF InsertWorkItem
<1>4. ASSUME NEW t \in Submitters, SlotBusy(t) \/ ClaimSlot(t) PROVE TypeOK'
  <2>1. CASE SlotBusy(t)
    BY <2>1 DEF SlotBusy, Slots
  <2>2. CASE ClaimSlot(t)
    BY <2>2 DEF ClaimSlot
  <2> QED
    BY <1>4, <2>1, <2>2
<1>5. ASSUME NEW t \in Submitters, WriteWork(t) \/ ScanEnds(t) PROVE TypeOK'
  <2>1. CASE WriteWork(t)
    BY <2>1 DEF WriteWork
  <2>2. CASE ScanEnds(t)
    BY <2>2 DEF ScanEnds
  <2> QED
    BY <1>5, <2>1, <2>2
<1>6. ASSUME NEW t \in Submitters, DropJob(t) PROVE TypeOK'
  <2>1. UNCHANGED <<phase, thread_id, is_busy, th_work, destroyed, cur_th_num,
                    min_th_num, tp_lock, loaded, pc, nseq, hand, manager, seen,
                    busy_num, submitted, started, repeated, done, lost, shrunk, spurious>>
    BY <1>6 DEF DropJob
  <2>2. /\ at' \in [Submitters ->
                   {"idle", "scan", "write", "grow", "load", "store", "place",
                    "signal"}]
        /\ job' \in [Submitters -> Jobs \cup {None}]
        /\ index' \in [Submitters -> 0 .. Max]
    BY <1>6 DEF DropJob, Return
  <2>3. dropped' \subseteq Jobs
    BY <1>6 DEF DropJob, Carrying
  <2> QED
    BY <2>1, <2>2, <2>3
<1>7. ASSUME NEW t \in Submitters, Signal(t) PROVE TypeOK'
  <2>1. UNCHANGED <<phase, thread_id, is_busy, th_work, destroyed, cur_th_num,
                    min_th_num, tp_lock, loaded, nseq, hand, manager, seen,
                    busy_num, submitted, started, repeated, done, dropped, shrunk, spurious>>
    BY <1>7 DEF Signal
  <2>2. at' \in [Submitters ->
                {"idle", "scan", "write", "grow", "load", "store", "place",
                 "signal"}]
    BY <1>7 DEF Signal, Return
  <2>3. /\ job' \in [Submitters -> Jobs \cup {None}]
        /\ index' \in [Submitters -> 0 .. Max]
    BY <1>7 DEF Signal, Return
  <2>4. lost' \subseteq Slots
    BY <1>7 DEF Signal, Carrying
  <2>5. pc' \in [Workers -> {"absent", "start", "loop", "waiting", "woken",
                            "running", "exited"}]
    BY <1>7 DEF Signal, Waiting
  <2> QED
    BY <2>1, <2>2, <2>3, <2>4, <2>5
<1>8. ASSUME NEW w \in Workers, FindSeq(w) \/ CondWait(w) \/ SpuriousWakeup(w)
      PROVE  TypeOK'
  <2>1. CASE FindSeq(w)
    BY <2>1 DEF FindSeq
  <2>2. CASE CondWait(w)
    BY <2>2 DEF CondWait
  <2>3. CASE SpuriousWakeup(w)
    BY <2>3 DEF SpuriousWakeup
  <2> QED
    BY <1>8, <2>1, <2>2, <2>3
<1>9. ASSUME NEW w \in Workers, ReadWork(w) PROVE TypeOK'
  BY <1>9 DEF ReadWork
<1>10. ASSUME NEW w \in Workers, ReadNothing(w) PROVE TypeOK'
  BY <1>10 DEF ReadNothing
<1>11. ASSUME NEW w \in Workers, JobReturns(w) PROVE TypeOK'
  <2>1. UNCHANGED <<phase, thread_id, th_work, destroyed, cur_th_num, min_th_num,
                    tp_lock, loaded, at, job, index, nseq, manager, seen, busy_num, submitted,
                    started, repeated, dropped, lost, shrunk, spurious>>
    BY <1>11 DEF JobReturns
  <2>2. done' \subseteq Jobs
    BY <1>11 DEF JobReturns, Carrying
  <2>3. /\ hand' \in [Workers -> Jobs \cup {None}]
        /\ is_busy' \in [Slots -> BOOLEAN]
    BY <1>11 DEF JobReturns
  <2>4. pc' \in [Workers -> {"absent", "start", "loop", "waiting", "woken",
                            "running", "exited"}]
    BY <1>11 DEF JobReturns
  <2> QED
    BY <2>1, <2>2, <2>3, <2>4
<1> QED
  BY <1>1, <1>2, <1>3, <1>4, <1>5, <1>6, <1>7, <1>8, <1>9, <1>10, <1>11
  DEF CommonNext, Work

\* The claimed slot, the job and the hand stay while they are needed.
LEMMA CommonCarrying == TypeOK /\ Carrying /\ CommonNext => Carrying'
<1> SUFFICES ASSUME TypeOK, Carrying, CommonNext PROVE Carrying'
  OBVIOUS
<1> USE SizeAssumption, NoneAssumption
    DEF TypeOK, Carrying, slots, pool, call, worker, managing, past
<1>1. CASE \E s \in Slots, w \in Workers : InitThread(s, w)
  BY <1>1 DEF InitThread
<1>2. CASE InitFails \/ Overrun
  BY <1>2 DEF InitFails, Overrun
<1>3. CASE \E t \in Submitters, j \in Jobs : InsertWorkItem(t, j)
  BY <1>3 DEF InsertWorkItem
<1>4. CASE \E t \in Submitters : SlotBusy(t) \/ ScanEnds(t)
  BY <1>4 DEF SlotBusy, ScanEnds
<1>5. CASE \E t \in Submitters : ClaimSlot(t) \/ WriteWork(t)
  BY <1>5 DEF ClaimSlot, WriteWork
<1>6. CASE \E t \in Submitters : DropJob(t) \/ Signal(t)
  <2> PICK t \in Submitters : DropJob(t) \/ Signal(t)
    BY <1>6
  <2>1. Return(t) /\ UNCHANGED hand
    BY DEF DropJob, Signal
  <2>2. \A w \in Workers : pc'[w] = "running" => pc[w] = "running"
    BY DEF DropJob, Signal, Waiting
  <2> QED
    BY <2>1, <2>2 DEF Return
<1>7. CASE \E w \in Workers : FindSeq(w) \/ CondWait(w) \/ SpuriousWakeup(w)
  BY <1>7 DEF FindSeq, CondWait, SpuriousWakeup
<1>8. CASE \E w \in Workers : ReadWork(w) \/ ReadNothing(w) \/ JobReturns(w)
  <2>1. CASE \E w \in Workers : ReadWork(w)
    BY <2>1 DEF ReadWork
  <2>2. CASE \E w \in Workers : ReadNothing(w) \/ JobReturns(w)
    BY <2>2 DEF ReadNothing, JobReturns
  <2> QED
    BY <1>8, <2>1, <2>2
<1> QED
  BY <1>1, <1>2, <1>3, <1>4, <1>5, <1>6, <1>7, <1>8 DEF CommonNext, Work

\* In an oversized pool there are no others.
LEMMA OversizedStep == Oversized /\ Next => Oversized'
<1> SUFFICES ASSUME Oversized, Next PROVE Oversized'
  OBVIOUS
<1>0. min_th_num \in Nat /\ cur_th_num = min_th_num /\ Max < cur_th_num
  BY NaturalSizes DEF Oversized
<1> USE SizeAssumption DEF Oversized
<1>1. CommonNext
  <2>1. ~InitReturns /\ ~Close
    BY <1>0 DEF InitReturns, Close, CloseOutside
  <2>2. ~Manage
    BY DEF Manage, Awake, LookAtSlot, Decide, CheckLast, DestroyLast, LoadLast,
           Decrement
  <2>3. \A t \in Submitters :
          /\ ~NewThread(t) /\ ~LoadSize(t) /\ ~AddThread(t)
          /\ ~AddThreadFails(t) /\ ~PlaceWork(t)
    BY <1>0 DEF NewThread, LoadSize, AddThread, AddThreadFails, PlaceWork
  <2> QED
    BY <2>1, <2>2, <2>3 DEF Next, Submit, CommonNext
<1>2. TypeOK' /\ Carrying'
  BY <1>1, CommonTypes, CommonCarrying
<1>3. UNCHANGED <<cur_th_num, min_th_num, manager>>
  BY <1>1 DEF CommonNext, InitThread, InitFails, Overrun, InsertWorkItem, SlotBusy,
              ClaimSlot, WriteWork, ScanEnds, DropJob, Signal, Work, FindSeq,
              CondWait, ReadWork, ReadNothing, JobReturns, SpuriousWakeup, pool, managing
<1>4. \A t \in Submitters : at'[t] \notin {"load", "store", "place"}
  <2> USE DEF TypeOK, call
  <2>1. CASE \/ \E s \in Slots, w \in Workers : InitThread(s, w)
             \/ InitFails \/ Overrun
             \/ \E w \in Workers : Work(w) \/ SpuriousWakeup(w)
    BY <2>1 DEF InitThread, InitFails, Overrun, Work, FindSeq, CondWait, ReadWork,
                ReadNothing, JobReturns, SpuriousWakeup
  <2>2. CASE \E t \in Submitters, j \in Jobs : InsertWorkItem(t, j)
    BY <2>2 DEF InsertWorkItem
  <2>3. CASE \E t \in Submitters : \/ SlotBusy(t) \/ ClaimSlot(t) \/ WriteWork(t)
                                 \/ ScanEnds(t) \/ DropJob(t) \/ Signal(t)
    BY <2>3 DEF SlotBusy, ClaimSlot, WriteWork, ScanEnds, DropJob, Signal, Return
  <2> QED
    BY <1>1, <2>1, <2>2, <2>3 DEF CommonNext
<1> QED
  BY <1>2, <1>3, <1>4

-----------------------------------------------------------------------------
(***************************************************************************)
(* The other steps, of a pool that is not oversized.                       *)
(***************************************************************************)
\* Every step keeps the types: the indices into thread_info stay in the array
\* because cur_th_num keeps its bounds.
LEMMA TypeStep == Bounded /\ Next => TypeOK'
<1> SUFFICES ASSUME Bounded, Next PROVE TypeOK'
  OBVIOUS
<1>1. CASE CommonNext
  BY <1>1, CommonTypes DEF Bounded
<1> USE SizeAssumption
    DEF Bounded, TypeOK, slots, pool, call, worker, managing, past
<1>2. CASE InitReturns
  BY <1>2 DEF InitReturns
<1>3. CASE Close
  BY <1>3 DEF Close, Slots, ThreadsBounded
<1>4. ASSUME NEW t \in Submitters, LoadSize(t) \/ AddThreadFails(t) PROVE TypeOK'
  <2>1. CASE LoadSize(t)
    BY <2>1 DEF LoadSize, ThreadsBounded
  <2>2. CASE AddThreadFails(t)
    BY <2>2 DEF AddThreadFails, AdderHasRoom
  <2> QED
    BY <1>4, <2>1, <2>2
<1>5. ASSUME NEW t \in Submitters, NewThread(t) \/ AddThread(t) PROVE TypeOK'
  <2>1. CASE NewThread(t)
    BY <2>1 DEF NewThread, Slots
  <2>2. CASE AddThread(t)
    <3>1. cur_th_num' \in 0 .. Max \cup {min_th_num} /\ loaded' \in 0 .. Max
      BY <2>2 DEF AddThread, AdderHasRoom
    <3>2. thread_id' \in [Slots -> Workers \cup {None}]
      BY <2>2 DEF AddThread
    <3>3. at' \in [Submitters ->
                  {"idle", "scan", "write", "grow", "load", "store", "place",
                   "signal"}]
      BY <2>2 DEF AddThread
    <3>4. pc' \in [Workers -> {"absent", "start", "loop", "waiting", "woken",
                              "running", "exited"}]
      BY <2>2 DEF AddThread
    <3>5. UNCHANGED <<phase, is_busy, th_work, destroyed, min_th_num, tp_lock, job,
                      index, nseq, hand, managing, past>>
      BY <2>2 DEF AddThread
    <3> QED
      BY <3>1, <3>2, <3>3, <3>4, <3>5
  <2> QED
    BY <1>5, <2>1, <2>2
<1>6. ASSUME NEW t \in Submitters, PlaceWork(t) PROVE TypeOK'
  <2>1. cur_th_num - 1 \in Slots /\ cur_th_num - 1 \in 0 .. Max
    BY <1>6 DEF PlaceWork, Slots, ThreadsBounded
  <2>2. th_work' \in [Slots -> Jobs \cup {None}]
    BY <1>6, <2>1 DEF PlaceWork, AdderHasRoom
  <2>3. index' \in [Submitters -> 0 .. Max]
    BY <1>6, <2>1 DEF PlaceWork
  <2>4. tp_lock' = None /\ at' = [at EXCEPT ![t] = "signal"]
        /\ UNCHANGED <<phase, thread_id, is_busy, destroyed, cur_th_num, min_th_num,
                       loaded, job, worker, managing, past>>
    BY <1>6 DEF PlaceWork
  <2> QED
    BY <2>2, <2>3, <2>4
<1>7. CASE Awake \/ Decide \/ CheckLast
  BY <1>7 DEF Awake, Decide, CheckLast
<1>8. CASE LookAtSlot
  BY <1>8 DEF LookAtSlot, CountBounded, ThreadsBounded
<1>9. CASE DestroyLast \/ LoadLast \/ Decrement
  <2>1. CASE DestroyLast
    <3>1. cur_th_num - 1 \in Slots
      BY <2>1 DEF DestroyLast, Slots, ThreadsBounded, ManagerHasRoom
    <3> QED
      BY <2>1, <3>1 DEF DestroyLast
  <2>2. CASE LoadLast
    BY <2>2 DEF LoadLast, ThreadsBounded
  <2>3. CASE Decrement
    BY <2>3 DEF Decrement, ManagerHasRoom
  <2> QED
    BY <1>9, <2>1, <2>2, <2>3
<1> QED
  BY <1>1, <1>2, <1>3, <1>4, <1>5, <1>6, <1>7, <1>8, <1>9
  DEF CommonNext, Next, Submit, Manage

LEMMA CarryingStep == Bounded /\ Next => Carrying'
<1> SUFFICES ASSUME Bounded, Next PROVE Carrying'
  OBVIOUS
<1>1. CASE CommonNext
  BY <1>1, CommonCarrying DEF Bounded
<1> USE SizeAssumption, NoneAssumption
    DEF Bounded, TypeOK, Carrying, slots, pool, call, worker, managing, past
<1>2. CASE InitReturns \/ Close \/ Manage
  BY <1>2 DEF InitReturns, Close, Manage, Awake, LookAtSlot, Decide,
              CheckLast, DestroyLast, LoadLast, Decrement
<1>3. CASE \E t \in Submitters : NewThread(t) \/ LoadSize(t) \/ AddThread(t)
  BY <1>3 DEF NewThread, LoadSize, AddThread, Slots, ThreadsBounded
<1>4. CASE \E t \in Submitters : AddThreadFails(t)
  BY <1>4 DEF AddThreadFails
<1>5. ASSUME NEW t \in Submitters, PlaceWork(t) PROVE Carrying'
  <2>1. cur_th_num - 1 \in Slots
    BY <1>5 DEF PlaceWork, Slots, ThreadsBounded
  <2>2. /\ at' = [at EXCEPT ![t] = "signal"] /\ at[t] = "place"
        /\ index' = [index EXCEPT ![t] = cur_th_num - 1]
        /\ UNCHANGED <<job, pc, hand>>
    BY <1>5 DEF PlaceWork
  <2> QED
    BY <2>1, <2>2
<1> QED
  BY <1>1, <1>2, <1>3, <1>4, <1>5 DEF CommonNext, Next, Submit

\* Every reachable state is one of a bounded pool, or of an oversized one.
LEMMA MinStays == Next => UNCHANGED min_th_num
BY DEF Next, InitThread, InitReturns, InitFails, Close, Overrun, InsertWorkItem, Submit,
       SlotBusy, ClaimSlot, WriteWork, ScanEnds, DropJob, NewThread, LoadSize,
       AddThread, AddThreadFails, PlaceWork, Signal, Work, FindSeq, CondWait,
       ReadWork, ReadNothing, JobReturns, SpuriousWakeup, Manage, Awake, LookAtSlot,
       Decide, CheckLast, DestroyLast, LoadLast, Decrement, pool

LEMMA KindStep == (Bounded \/ Oversized) /\ [Next]_vars => (Bounded \/ Oversized)'
<1>1. ASSUME Bounded, Next PROVE Bounded'
  BY <1>1, TypeStep, SizeStep, CarryingStep, MinStays DEF Bounded
<1>2. ASSUME Oversized, Next PROVE Oversized'
  BY <1>2, OversizedStep
<1>3. ASSUME Bounded, UNCHANGED vars PROVE Bounded'
  BY <1>3 DEF Bounded, TypeOK, ThreadsBounded, ManagerHasRoom, AdderHasRoom,
              CountBounded, Carrying, vars, slots, pool, call, worker, managing,
              past
<1>4. ASSUME Oversized, UNCHANGED vars PROVE Oversized'
  BY <1>4 DEF Oversized, TypeOK, Carrying, vars, slots, pool, call, worker,
              managing, past
<1> QED
  BY <1>1, <1>2, <1>3, <1>4

LEMMA KindInvariant == Spec => [](Bounded \/ Oversized)
<1>1. Init => Bounded \/ Oversized
  BY InitBounded
<1> QED
  BY <1>1, KindStep, PTL DEF Spec

\* The variables keep their types, whatever number of threads Create is asked for:
\* an index that is used, or written, is one of the array, and a thread that would
\* need another is stopped by Overrun.
THEOREM TypeCorrect == Spec => []TypeOK
<1>1. Bounded \/ Oversized => TypeOK
  BY DEF Bounded, Oversized
<1> QED
  BY KindInvariant, <1>1, PTL

\* The number of threads stays between its limits, though the manager changes it
\* without the lock.
THEOREM SizeCorrect == Spec => []ThreadsBounded
<1>1. Bounded \/ Oversized => ThreadsBounded
  BY SizeAssumption, NaturalSizes DEF Bounded, Oversized, ThreadsBounded
<1> QED
  BY KindInvariant, <1>1, PTL

\* A pool of at least one thread and no more than it has slots never uses a slot
\* outside thread_info, whatever updates of cur_th_num are lost.  Both premises of
\* EveryThreadHasSlot are needed: Create tests neither.
THEOREM NoOverrun == Spec => []EveryThreadHasSlot
<1>1. Init => EveryThreadHasSlot
  BY DEF Init, EveryThreadHasSlot
<1>2. (Bounded \/ Oversized) /\ EveryThreadHasSlot /\ [Next]_vars
        => EveryThreadHasSlot'
  <2>1. ASSUME Bounded, 1 <= min_th_num, Overrun PROVE FALSE
    <3> USE <2>1, SizeAssumption DEF Bounded, TypeOK, ThreadsBounded
    <3>1. ~InitOutside /\ ~CloseOutside
      BY DEF InitOutside, CloseOutside
    <3>2. \A t \in Submitters : ~ScanOutside(t) /\ ~PlaceOutside(t)
      BY DEF ScanOutside, PlaceOutside, Slots
    <3> QED
      BY <3>1, <3>2 DEF Overrun
  <2>2. ASSUME Next, ~Overrun, phase # "overrun" PROVE phase' # "overrun"
    BY <2>2
    DEF Next, InitThread, InitReturns, InitFails, Close,
        InsertWorkItem, Submit, SlotBusy, ClaimSlot, WriteWork, ScanEnds, DropJob,
        NewThread, LoadSize, AddThread, AddThreadFails, PlaceWork, Signal, Work,
        FindSeq, CondWait, ReadWork, ReadNothing, JobReturns, SpuriousWakeup, Manage,
        Awake, LookAtSlot, Decide, CheckLast, DestroyLast, LoadLast, Decrement
  <2>3. ASSUME Bounded, EveryThreadHasSlot, Next PROVE EveryThreadHasSlot'
    BY <2>1, <2>2, <2>3, MinStays DEF EveryThreadHasSlot
  <2>4. ASSUME Oversized, Next PROVE EveryThreadHasSlot'
    BY <2>4, MinStays, SizeAssumption DEF EveryThreadHasSlot, Oversized, TypeOK
  <2>5. ASSUME EveryThreadHasSlot, UNCHANGED vars PROVE EveryThreadHasSlot'
    BY <2>5 DEF EveryThreadHasSlot, vars, pool
  <2> QED
    BY <2>3, <2>4, <2>5
<1> QED
  BY KindInvariant, <1>1, <1>2, PTL DEF Spec

-----------------------------------------------------------------------------
(***************************************************************************)
(* The busy flag.                                                          *)
(***************************************************************************)
\* While the manager has destroyed nothing, cur_th_num only grows, and only by
\* the thread that holds tp_lock: a slot in use is one of the first cur_th_num,
\* and the slot to be added is the next.
InRange ==
  Calm =>
    /\ \A t \in Submitters :
         /\ at[t] \in {"write", "signal"} => index[t] < cur_th_num
         /\ Alive /\ at[t] \in {"load", "store"} => index[t] = cur_th_num
         /\ Alive /\ at[t] = "store" => loaded = cur_th_num
    /\ \A w \in Workers :
         pc[w] \in {"loop", "waiting", "woken", "running"} => nseq[w] < cur_th_num
    /\ \A s \in lost : s < cur_th_num
    /\ manager \notin {"load", "decrement"}

\* One submitter, one worker or a lost signal has slot s, exactly while it is busy.
Owned(s) ==
  /\ \A t, u \in Claimants(s) : t = u
  /\ \A v, w \in Runners(s) : v = w
  /\ Claimants(s) # {} => is_busy[s] /\ Runners(s) = {} /\ s \notin lost
  /\ Runners(s) # {} => is_busy[s] /\ s \notin lost
  /\ s \in lost => is_busy[s]
  /\ is_busy[s] => Claimants(s) # {} \/ Runners(s) # {} \/ s \in lost

OneOwner == Calm => \A s \in Slots : Owned(s)

\* The pool was calm before if it is now, and only these steps keep it so.
CalmNext ==
  \/ \E s \in Slots, w \in Workers : InitThread(s, w)
  \/ InitReturns \/ InitFails \/ Close \/ Overrun
  \/ \E t \in Submitters, j \in Jobs : InsertWorkItem(t, j)
  \/ \E t \in Submitters : Submit(t)
  \/ \E w \in Workers : Work(w)
  \/ Awake \/ LookAtSlot \/ Decide \/ CheckLast

LEMMA CalmStep == TypeOK /\ InRange /\ Next /\ Calm' => Calm /\ CalmNext
<1> SUFFICES ASSUME TypeOK, InRange, Next, Calm' PROVE Calm /\ CalmNext
  OBVIOUS
<1> USE DEF TypeOK, Calm, past
<1>1. CASE \/ \E s \in Slots, w \in Workers : InitThread(s, w)
           \/ InitReturns \/ InitFails \/ Close \/ Overrun
           \/ \E t \in Submitters, j \in Jobs : InsertWorkItem(t, j)
  BY <1>1 DEF CalmNext, InitThread, InitReturns, InitFails, Close, Overrun,
              InsertWorkItem
<1>2. ASSUME NEW t \in Submitters, Submit(t) PROVE Calm /\ CalmNext
  <2>1. UNCHANGED <<shrunk, spurious>>
    BY <1>2 DEF Submit, SlotBusy, ClaimSlot, WriteWork, ScanEnds, DropJob, NewThread,
                LoadSize, AddThread, AddThreadFails, PlaceWork, Signal
  <2> QED
    BY <1>2, <2>1 DEF CalmNext
<1>3. ASSUME NEW w \in Workers, Work(w) PROVE Calm /\ CalmNext
  <2>1. UNCHANGED <<shrunk, spurious>>
    BY <1>3 DEF Work, FindSeq, CondWait, ReadWork, ReadNothing, JobReturns
  <2> QED
    BY <1>3, <2>1 DEF CalmNext
<1>4. ASSUME NEW w \in Workers, SpuriousWakeup(w) PROVE FALSE
  BY <1>4 DEF SpuriousWakeup
<1>5. CASE Awake \/ LookAtSlot \/ Decide \/ CheckLast
  BY <1>5 DEF CalmNext, Awake, LookAtSlot, Decide, CheckLast
<1>6. CASE DestroyLast
  BY <1>6 DEF DestroyLast
<1>7. CASE LoadLast \/ Decrement
  BY <1>7 DEF LoadLast, Decrement, InRange
<1> QED
  BY <1>1, <1>2, <1>3, <1>4, <1>5, <1>6, <1>7 DEF Next, Manage

LEMMA RangeStep == Sized /\ InRange /\ Next => InRange'
<1> SUFFICES ASSUME Sized, InRange, Next, Calm' PROVE InRange'
  BY DEF InRange
<1>1. Calm /\ CalmNext
  BY CalmStep DEF Sized
<1> USE SizeAssumption, NoneAssumption
    DEF Sized, TypeOK, InRange, Alive, slots, pool, call, worker,
        managing, past
<1>2. CASE \/ \E s \in Slots, w \in Workers : InitThread(s, w)
           \/ InitReturns \/ InitFails \/ Close \/ Overrun
           \/ \E t \in Submitters, j \in Jobs : InsertWorkItem(t, j)
  BY <1>1, <1>2 DEF InitThread, InitReturns, InitFails, Close, Overrun,
                     InsertWorkItem, Calm
<1>3. ASSUME NEW t \in Submitters, SlotBusy(t) \/ ScanEnds(t) PROVE InRange'
  BY <1>1, <1>3 DEF SlotBusy, ScanEnds
<1>4. ASSUME NEW t \in Submitters, ClaimSlot(t) \/ WriteWork(t) PROVE InRange'
  BY <1>1, <1>4 DEF ClaimSlot, WriteWork
<1>5. ASSUME NEW t \in Submitters, DropJob(t) PROVE InRange'
  BY <1>1, <1>5 DEF DropJob, Return
<1>6. ASSUME NEW t \in Submitters, NewThread(t) PROVE InRange'
  <2>1. \A u \in Submitters : at[u] \notin {"load", "store", "place"}
    BY <1>6 DEF NewThread, AdderHasRoom
  <2>2. /\ at' = [at EXCEPT ![t] = "load"]
        /\ index' = [index EXCEPT ![t] = cur_th_num]
        /\ UNCHANGED <<phase, cur_th_num, pc, nseq, lost, manager>>
    BY <1>6 DEF NewThread
  <2> QED
    BY <1>1, <2>1, <2>2
<1>7. ASSUME NEW t \in Submitters, LoadSize(t) PROVE InRange'
  <2>1. /\ at[t] = "load" /\ at' = [at EXCEPT ![t] = "store"] /\ Alive
        /\ loaded' = cur_th_num /\ tp_lock = t
        /\ UNCHANGED <<phase, cur_th_num, index, pc, nseq, lost, manager>>
    BY <1>7 DEF LoadSize, AdderHasRoom
  <2> QED
    BY <1>1, <2>1
<1>8. ASSUME NEW t \in Submitters, AddThread(t) PROVE InRange'
  <2>1. /\ at[t] = "store" /\ at' = [at EXCEPT ![t] = "place"] /\ Alive
        /\ cur_th_num' = cur_th_num + 1
        /\ \A u \in Submitters \ {t} : at[u] \notin {"load", "store"}
        /\ UNCHANGED <<index, nseq, lost, manager>>
    BY <1>1, <1>8 DEF AddThread, AdderHasRoom
  <2>2. \A w \in Workers : pc'[w] \in {"loop", "waiting", "woken", "running"}
                             => pc[w] \in {"loop", "waiting", "woken", "running"}
    BY <1>8 DEF AddThread
  <2>3. \A u \in Submitters : /\ at'[u] \in {"write", "signal"} => index'[u] < cur_th_num'
                              /\ at'[u] \notin {"load", "store"}
    BY <1>1, <2>1
  <2>4. \A w \in Workers : pc'[w] \in {"loop", "waiting", "woken", "running"}
                             => nseq'[w] < cur_th_num'
    <3> SUFFICES ASSUME NEW w \in Workers,
                        pc'[w] \in {"loop", "waiting", "woken", "running"}
                 PROVE  nseq'[w] < cur_th_num'
      OBVIOUS
    <3>1. nseq[w] < cur_th_num /\ nseq[w] \in Int
      BY <1>1, <2>2 DEF Slots
    <3>2. cur_th_num \in Nat
      BY NaturalSizes
    <3> QED
      BY <2>1, <3>1, <3>2
  <2>5. \A s \in lost' : s < cur_th_num'
    BY <1>1, <2>1 DEF Slots
  <2> QED
    BY <1>1, <2>1, <2>3, <2>4, <2>5
<1>9. ASSUME NEW t \in Submitters, AddThreadFails(t) PROVE InRange'
  <2>1. /\ at[t] = "store" /\ cur_th_num' = cur_th_num + 1 /\ ~Alive'
        /\ UNCHANGED <<at, index, pc, nseq, lost, manager>>
    BY <1>1, <1>9 DEF AddThreadFails
  <2> QED
    BY <1>1, <2>1 DEF Slots
<1>10. ASSUME NEW t \in Submitters, PlaceWork(t) PROVE InRange'
  <2>1. /\ at[t] = "place" /\ at' = [at EXCEPT ![t] = "signal"]
        /\ index' = [index EXCEPT ![t] = cur_th_num - 1]
        /\ UNCHANGED <<phase, cur_th_num, loaded, pc, nseq, lost, manager>>
    BY <1>10 DEF PlaceWork
  <2> QED
    BY <1>1, <2>1
<1>11. ASSUME NEW t \in Submitters, Signal(t) PROVE InRange'
  <2>1. /\ at[t] = "signal" /\ at' = [at EXCEPT ![t] = "idle"]
        /\ index' = [index EXCEPT ![t] = 0]
        /\ UNCHANGED <<phase, cur_th_num, loaded, nseq, manager>>
    BY <1>11 DEF Signal, Return
  <2>2. \A w \in Workers : pc'[w] \in {"loop", "waiting", "woken", "running"}
                             => pc[w] \in {"loop", "waiting", "woken", "running"}
    BY <1>11 DEF Signal, Waiting
  <2>3. \A s \in lost' : s < cur_th_num
    BY <1>1, <1>11 DEF Signal
  <2> QED
    BY <1>1, <2>1, <2>2, <2>3
<1>12. ASSUME NEW w \in Workers, FindSeq(w) \/ CondWait(w) PROVE InRange'
  BY <1>1, <1>12 DEF FindSeq, CondWait
<1>13. ASSUME NEW w \in Workers, ReadWork(w) \/ ReadNothing(w) \/ JobReturns(w)
       PROVE  InRange'
  BY <1>1, <1>13 DEF ReadWork, ReadNothing, JobReturns
<1>14. CASE Awake \/ LookAtSlot \/ Decide \/ CheckLast
  BY <1>1, <1>14 DEF Awake, LookAtSlot, Decide, CheckLast
<1> QED
  BY <1>1, <1>2, <1>3, <1>4, <1>5, <1>6, <1>7, <1>8, <1>9, <1>10, <1>11, <1>12,
     <1>13, <1>14 DEF CalmNext, Submit, Work

\* A step that leaves a slot's flag and its users leaves it owned.
LEMMA SameOwner ==
  ASSUME NEW s \in Slots, Owned(s),
         Claimants(s)' = Claimants(s), Runners(s)' = Runners(s),
         is_busy'[s] = is_busy[s], s \in lost' <=> s \in lost
  PROVE  Owned(s)'
BY DEF Owned

\* A claim takes a slot that nobody has, because its flag says so.
LEMMA NewOwner ==
  ASSUME NEW s \in Slots, NEW t, Owned(s), ~is_busy[s],
         Claimants(s)' = Claimants(s) \cup {t}, Runners(s)' = Runners(s),
         is_busy'[s], s \in lost' <=> s \in lost
  PROVE  Owned(s)'
<1>1. Claimants(s) = {} /\ Runners(s) = {} /\ s \notin lost
  BY DEF Owned
<1> QED
  BY <1>1 DEF Owned

\* Every step of a calm pool hands a slot from one owner to the next.
LEMMA OwnerStep == Sized /\ InRange /\ OneOwner /\ Next => OneOwner'
<1> SUFFICES ASSUME Sized, InRange, OneOwner, Next, Calm', NEW s \in Slots
             PROVE  Owned(s)'
  BY DEF OneOwner, Slots
<1>1. Calm /\ CalmNext
  BY CalmStep DEF Sized
<1>2. Owned(s)
  BY <1>1 DEF OneOwner
<1> USE SizeAssumption, NoneAssumption
    DEF Sized, TypeOK, slots, pool, call, worker, managing, past
<1>3. ASSUME NEW r \in Slots, NEW w \in Workers, InitThread(r, w) PROVE Owned(s)'
  <2>1. Claimants(s)' = Claimants(s)
    BY <1>3 DEF InitThread, Claimants
  <2>2. Runners(s)' = Runners(s)
    BY <1>3 DEF InitThread, Runners
  <2>3. UNCHANGED <<is_busy, lost>>
    BY <1>3 DEF InitThread
  <2> QED
    BY <1>2, <2>1, <2>2, <2>3, SameOwner
<1>4. CASE \/ InitReturns \/ InitFails \/ Close \/ Overrun
           \/ Awake \/ LookAtSlot \/ Decide \/ CheckLast
  <2>1. UNCHANGED <<is_busy, cur_th_num, at, index, pc, nseq, lost>>
    BY <1>4 DEF InitReturns, InitFails, Close, Overrun, Awake, LookAtSlot, Decide,
                CheckLast
  <2>2. Claimants(s)' = Claimants(s) /\ Runners(s)' = Runners(s)
    BY <2>1 DEF Claimants, Runners
  <2> QED
    BY <1>2, <2>1, <2>2, SameOwner
<1>5. ASSUME NEW t \in Submitters, NEW j \in Jobs, InsertWorkItem(t, j)
      PROVE  Owned(s)'
  <2>1. Claimants(s)' = Claimants(s)
    BY <1>5 DEF InsertWorkItem, Claimants
  <2>2. UNCHANGED <<is_busy, pc, nseq, lost>>
    BY <1>5 DEF InsertWorkItem
  <2>3. Runners(s)' = Runners(s)
    BY <2>2 DEF Runners
  <2> QED
    BY <1>2, <2>1, <2>2, <2>3, SameOwner
<1>6. ASSUME NEW t \in Submitters,
             SlotBusy(t) \/ WriteWork(t) \/ ScanEnds(t) \/ DropJob(t) \/ LoadSize(t)
      PROVE  Owned(s)'
  <2>1. UNCHANGED <<is_busy, cur_th_num, pc, nseq, lost>>
    BY <1>6 DEF SlotBusy, WriteWork, ScanEnds, DropJob, LoadSize
  <2>2. Runners(s)' = Runners(s)
    BY <2>1 DEF Runners
  <2>3. Claimants(s)' = Claimants(s)
    <3>1. CASE SlotBusy(t) \/ ScanEnds(t)
      BY <3>1 DEF SlotBusy, ScanEnds, Claimants
    <3>2. CASE WriteWork(t) \/ LoadSize(t)
      BY <3>2 DEF WriteWork, LoadSize, Claimants
    <3>3. CASE DropJob(t)
      BY <3>3 DEF DropJob, Return, Claimants
    <3> QED
      BY <1>6, <3>1, <3>2, <3>3
  <2> QED
    BY <1>2, <2>1, <2>2, <2>3, SameOwner
<1>7. ASSUME NEW t \in Submitters, ClaimSlot(t) PROVE Owned(s)'
  <2>1. /\ at[t] = "scan" /\ at' = [at EXCEPT ![t] = "write"] /\ ~is_busy[index[t]]
        /\ is_busy' = [is_busy EXCEPT ![index[t]] = TRUE]
        /\ UNCHANGED <<cur_th_num, index, pc, nseq, lost>>
    BY <1>7 DEF ClaimSlot
  <2>2. Runners(s)' = Runners(s)
    BY <2>1 DEF Runners
  <2>3. CASE s = index[t]
    <3>1. Claimants(s)' = Claimants(s) \cup {t}
      BY <2>1, <2>3 DEF Claimants
    <3> QED
      BY <1>2, <2>1, <2>2, <2>3, <3>1, NewOwner
  <2>4. CASE s # index[t]
    <3>1. Claimants(s)' = Claimants(s)
      BY <2>1, <2>4 DEF Claimants
    <3>2. is_busy'[s] = is_busy[s]
      BY <2>1, <2>4
    <3> QED
      BY <1>2, <2>1, <2>2, <3>1, <3>2, SameOwner
  <2> QED
    BY <2>3, <2>4
<1>8. ASSUME NEW t \in Submitters, NewThread(t) PROVE Owned(s)'
  <2>1. /\ at[t] = "grow" /\ at' = [at EXCEPT ![t] = "load"]
        /\ index' = [index EXCEPT ![t] = cur_th_num]
        /\ is_busy' = [is_busy EXCEPT ![cur_th_num] = TRUE]
        /\ UNCHANGED <<cur_th_num, pc, nseq, lost>>
    BY <1>8 DEF NewThread
  <2>2. Runners(s)' = Runners(s)
    BY <2>1 DEF Runners
  <2>3. CASE s = cur_th_num
    <3>1. Claimants(s)' = Claimants(s) \cup {t}
      BY <2>1, <2>3 DEF Claimants
    <3>2. Claimants(s) = {}
      <4>1. \A u \in Submitters : at[u] \notin {"load", "store", "place"}
        BY <1>8 DEF NewThread, AdderHasRoom
      <4>2. \A u \in Submitters : at[u] \in {"write", "signal"} => index[u] # s
        BY <1>1, <2>3 DEF InRange
      <4> QED
        BY <4>1, <4>2 DEF Claimants
    <3>3. Runners(s) = {} /\ s \notin lost
      <4>1. \A w \in Workers : pc[w] \in {"woken", "running"} => nseq[w] # s
        BY <1>1, <2>3 DEF InRange, Slots
      <4> QED
        BY <1>1, <2>3, <4>1 DEF InRange, Runners, Slots
    <3>4. ~is_busy[s] /\ is_busy'[s]
      BY <1>2, <2>1, <2>3, <3>2, <3>3 DEF Owned
    <3> QED
      BY <1>2, <2>1, <2>2, <3>1, <3>4, NewOwner
  <2>4. CASE s # cur_th_num
    <3>1. Claimants(s)' = Claimants(s)
      BY <2>1, <2>4 DEF Claimants
    <3>2. is_busy'[s] = is_busy[s]
      BY <2>1, <2>4
    <3> QED
      BY <1>2, <2>1, <2>2, <3>1, <3>2, SameOwner
  <2> QED
    BY <2>3, <2>4
<1>9. ASSUME NEW t \in Submitters, AddThread(t) PROVE Owned(s)'
  <2>1. /\ at[t] = "store" /\ at' = [at EXCEPT ![t] = "place"]
        /\ index[t] = cur_th_num /\ cur_th_num' = cur_th_num + 1
        /\ \A u \in Submitters \ {t} : at[u] # "place"
        /\ UNCHANGED <<is_busy, index, nseq, lost>>
    BY <1>1, <1>9 DEF AddThread, AdderHasRoom, InRange
  <2>2. Claimants(s)' = Claimants(s)
    <3>1. cur_th_num' - 1 = index[t]
      BY <2>1
    <3> QED
      BY <2>1, <3>1 DEF Claimants
  <2>3. Runners(s)' = Runners(s)
    BY <1>9 DEF AddThread, Runners
  <2> QED
    BY <1>2, <2>1, <2>2, <2>3, SameOwner
<1>10. ASSUME NEW t \in Submitters, AddThreadFails(t) PROVE Owned(s)'
  <2>1. /\ at[t] = "store" /\ \A u \in Submitters : at[u] # "place"
        /\ UNCHANGED <<is_busy, at, index, pc, nseq, lost>>
    BY <1>10 DEF AddThreadFails, AdderHasRoom
  <2>2. Claimants(s)' = Claimants(s) /\ Runners(s)' = Runners(s)
    BY <2>1 DEF Claimants, Runners
  <2> QED
    BY <1>2, <2>1, <2>2, SameOwner
<1>11. ASSUME NEW t \in Submitters, PlaceWork(t) PROVE Owned(s)'
  <2>1. /\ at[t] = "place" /\ at' = [at EXCEPT ![t] = "signal"]
        /\ index' = [index EXCEPT ![t] = cur_th_num - 1]
        /\ UNCHANGED <<is_busy, cur_th_num, pc, nseq, lost>>
    BY <1>11 DEF PlaceWork
  <2>2. Claimants(s)' = Claimants(s)
    <3> DEFINE last == cur_th_num - 1
    <3>1. last' = last /\ last \in 0 .. Max
      BY <1>11, <2>1 DEF PlaceWork
    <3> QED
      BY <2>1, <3>1 DEF Claimants
  <2>3. Runners(s)' = Runners(s)
    BY <2>1 DEF Runners
  <2> QED
    BY <1>2, <2>1, <2>2, <2>3, SameOwner
<1>12. ASSUME NEW t \in Submitters, Signal(t) PROVE Owned(s)'
  <2>1. /\ at[t] = "signal" /\ at' = [at EXCEPT ![t] = "idle"]
        /\ index' = [index EXCEPT ![t] = 0]
        /\ UNCHANGED <<is_busy, cur_th_num, nseq>>
    BY <1>12 DEF Signal, Return
  <2>2. Claimants(s)' = Claimants(s) \ {t}
    BY <2>1 DEF Claimants
  <2>3. CASE s # index[t]
    <3>1. Claimants(s)' = Claimants(s)
      BY <2>1, <2>2, <2>3 DEF Claimants
    <3>2. Runners(s)' = Runners(s)
      BY <1>12, <2>3 DEF Signal, Waiting, Runners
    <3>3. s \in lost' <=> s \in lost
      BY <1>12, <2>3 DEF Signal
    <3> QED
      BY <1>2, <2>1, <3>1, <3>2, <3>3, SameOwner
  <2>4. CASE s = index[t]
    <3>1. t \in Claimants(s)
      BY <2>1, <2>4 DEF Claimants
    <3>2. /\ Claimants(s)' = {} /\ Runners(s) = {} /\ s \notin lost
          /\ is_busy[s] /\ is_busy'[s]
      BY <1>2, <2>1, <2>2, <3>1 DEF Owned
    <3>3. CASE Waiting(index[t]) = {} /\ lost' = lost \cup {index[t]} /\ pc' = pc
      <4>1. Runners(s)' = {} /\ s \in lost'
        BY <2>1, <2>4, <3>2, <3>3 DEF Runners
      <4> QED
        BY <3>2, <4>1 DEF Owned
    <3>4. ASSUME NEW w \in Waiting(index[t]), pc' = [pc EXCEPT ![w] = "woken"],
                 lost' = lost
          PROVE  Owned(s)'
      <4>1. Runners(s)' = {w} /\ s \notin lost'
        <5>1. w \in Workers /\ nseq[w] = s
          BY <2>4, <3>4 DEF Waiting
        <5>2. \A v \in Workers : ~(pc[v] \in {"woken", "running"} /\ nseq[v] = s)
          BY <3>2 DEF Runners
        <5> QED
          BY <2>1, <3>2, <3>4, <5>1, <5>2 DEF Runners
      <4> QED
        BY <3>2, <4>1 DEF Owned
    <3> QED
      BY <1>12, <3>3, <3>4 DEF Signal
  <2> QED
    BY <2>3, <2>4
<1>13. ASSUME NEW w \in Workers,
              FindSeq(w) \/ CondWait(w) \/ ReadWork(w) \/ ReadNothing(w)
       PROVE  Owned(s)'
  <2>1. UNCHANGED <<is_busy, cur_th_num, at, index, lost>>
    BY <1>13 DEF FindSeq, CondWait, ReadWork, ReadNothing
  <2>2. Claimants(s)' = Claimants(s)
    BY <2>1 DEF Claimants
  <2>3. Runners(s)' = Runners(s)
    <3>1. CASE FindSeq(w)
      BY <3>1 DEF FindSeq, Runners
    <3>2. CASE CondWait(w)
      BY <3>2 DEF CondWait, Runners
    <3>3. CASE ReadWork(w) \/ ReadNothing(w)
      BY <3>3 DEF ReadWork, ReadNothing, Runners
    <3> QED
      BY <1>13, <3>1, <3>2, <3>3
  <2> QED
    BY <1>2, <2>1, <2>2, <2>3, SameOwner
<1>14. ASSUME NEW w \in Workers, JobReturns(w) PROVE Owned(s)'
  <2>1. /\ pc[w] = "running" /\ pc' = [pc EXCEPT ![w] = "loop"]
        /\ is_busy' = [is_busy EXCEPT ![nseq[w]] = FALSE]
        /\ UNCHANGED <<cur_th_num, at, index, nseq, lost>>
    BY <1>14 DEF JobReturns
  <2>2. Claimants(s)' = Claimants(s)
    BY <2>1 DEF Claimants
  <2>3. Runners(s)' = Runners(s) \ {w}
    BY <2>1 DEF Runners
  <2>4. CASE s # nseq[w]
    <3>1. w \notin Runners(s) /\ is_busy'[s] = is_busy[s]
      BY <2>1, <2>4 DEF Runners
    <3>2. Runners(s)' = Runners(s)
      BY <2>3, <3>1
    <3> QED
      BY <1>2, <2>1, <2>2, <3>1, <3>2, SameOwner
  <2>5. CASE s = nseq[w]
    <3>1. w \in Runners(s) /\ ~is_busy'[s]
      BY <2>1, <2>5 DEF Runners
    <3>2. Claimants(s)' = {} /\ Runners(s)' = {} /\ s \notin lost'
      BY <1>2, <2>1, <2>2, <2>3, <3>1 DEF Owned
    <3> QED
      BY <3>1, <3>2 DEF Owned
  <2> QED
    BY <2>4, <2>5
<1> QED
  BY <1>1, <1>3, <1>4, <1>5, <1>6, <1>7, <1>8, <1>9, <1>10, <1>11, <1>12, <1>13,
     <1>14 DEF CalmNext, Submit, Work

LEMMA OwnedCounts ==
  ASSUME NEW s, NEW C, NEW R, is_busy[s] \in BOOLEAN,
         \A t, u \in C : t = u,
         \A v, w \in R : v = w,
         C # {} => is_busy[s] /\ R = {} /\ s \notin lost,
         R # {} => is_busy[s] /\ s \notin lost,
         s \in lost => is_busy[s],
         is_busy[s] => C # {} \/ R # {} \/ s \in lost
  PROVE  Cardinality(C) + Cardinality(R) + Cardinality({s} \cap lost)
           = IF is_busy[s] THEN 1 ELSE 0
<1>1. Cardinality({}) = 0
  BY FS_EmptySet
<1>2. ASSUME NEW S, NEW e \in S, \A x, y \in S : x = y PROVE Cardinality(S) = 1
  <2>1. S = {e}
    BY <1>2
  <2> QED
    BY <2>1, FS_Singleton
<1>3. CASE ~is_busy[s]
  <2>1. C = {} /\ R = {} /\ {s} \cap lost = {}
    BY <1>3
  <2> QED
    BY <1>1, <1>3, <2>1
<1>4. CASE C # {}
  <2>1. R = {} /\ {s} \cap lost = {} /\ is_busy[s]
    BY <1>4
  <2>2. Cardinality(C) = 1
    BY <1>2, <1>4
  <2> QED
    BY <1>1, <2>1, <2>2
<1>5. CASE R # {}
  <2>1. C = {} /\ {s} \cap lost = {} /\ is_busy[s]
    BY <1>5
  <2>2. Cardinality(R) = 1
    BY <1>2, <1>5
  <2> QED
    BY <1>1, <2>1, <2>2
<1>6. CASE s \in lost
  <2>1. C = {} /\ R = {} /\ {s} \cap lost = {s} /\ is_busy[s]
    BY <1>6
  <2>2. Cardinality({s} \cap lost) = 1
    BY <2>1, FS_Singleton
  <2> QED
    BY <1>1, <2>1, <2>2
<1> QED
  BY <1>3, <1>4, <1>5, <1>6

Calmly == (Bounded \/ Oversized) /\ InRange /\ OneOwner

LEMMA CalmlyInvariant == Spec => []Calmly
<1>1. Init => InRange /\ OneOwner
  <2> SUFFICES ASSUME Init PROVE InRange /\ OneOwner
    OBVIOUS
  <2>1. InRange
    BY DEF Init, InRange
  <2>2. OneOwner
    BY NoneAssumption DEF Init, OneOwner, Owned, Claimants, Runners
  <2> QED
    BY <2>1, <2>2
<1>2. Calmly /\ [Next]_vars => Calmly'
  <2>1. ASSUME Calmly, Next PROVE InRange' /\ OneOwner'
    BY <2>1, BoundedOrOversized, RangeStep, OwnerStep DEF Calmly
  <2>2. ASSUME Calmly, UNCHANGED vars PROVE InRange' /\ OneOwner'
    <3>1. InRange'
      BY <2>2 DEF Calmly, InRange, Calm, Alive, vars, slots, pool, call, worker,
                  managing, past
    <3>2. OneOwner'
      BY <2>2 DEF Calmly, OneOwner, Owned, Claimants, Runners, Calm, vars, slots, pool,
                  call, worker, managing, past
    <3> QED
      BY <3>1, <3>2
  <2> QED
    BY <2>1, <2>2, KindStep DEF Calmly
<1>3. Init => Bounded \/ Oversized
  BY InitBounded
<1> QED
  BY <1>1, <1>2, <1>3, PTL DEF Spec, Calmly

\* While the pool is calm, a slot is busy exactly while one submitter, one worker
\* or one lost signal has it: no two submitters claim it, no worker frees it while
\* another runs its job.
THEOREM BusyCorrect == Spec => []BusyAccounted
<1>1. Calmly => BusyAccounted
  <2> SUFFICES ASSUME Calmly, Calm, NEW s \in Slots
               PROVE  Cardinality(Claimants(s)) + Cardinality(Runners(s))
                        + Cardinality({s} \cap lost) = IF is_busy[s] THEN 1 ELSE 0
    BY DEF BusyAccounted
  <2>1. Owned(s) /\ is_busy[s] \in BOOLEAN
    BY BoundedOrOversized DEF Calmly, OneOwner, Sized, TypeOK
  <2> DEFINE C == Claimants(s)
             R == Runners(s)
  <2>2. /\ \A t, u \in C : t = u
        /\ \A v, w \in R : v = w
        /\ C # {} => is_busy[s] /\ R = {} /\ s \notin lost
        /\ R # {} => is_busy[s] /\ s \notin lost
        /\ s \in lost => is_busy[s]
        /\ is_busy[s] => C # {} \/ R # {} \/ s \in lost
    BY <2>1, Zenon DEF Owned
  <2> HIDE DEF C, R
  <2>3. Cardinality(C) + Cardinality(R) + Cardinality({s} \cap lost)
          = IF is_busy[s] THEN 1 ELSE 0
    BY ONLY <2>1, <2>2, OwnedCounts
  <2> QED
    BY <2>3 DEF C, R
<1> QED
  BY CalmlyInvariant, <1>1, PTL

-----------------------------------------------------------------------------
(***************************************************************************)
(* The jobs.                                                               *)
(***************************************************************************)
\* The slots whose job a worker was signalled for, or should have been.
Loaded == lost \cup {nseq[w] : w \in {w \in Workers : pc[w] = "woken"}}

\* The parts of JobsAccounted, without UNION.
Apart ==
  /\ submitted = Carried \cup Placed \cup Running \cup done \cup dropped
  /\ Carried \cap (Placed \cup Running \cup done \cup dropped) = {}
  /\ Placed \cap (Running \cup done \cup dropped) = {}
  /\ Running \cap (done \cup dropped) = {}
  /\ done \cap dropped = {}
  /\ repeated = {}

\* No job is held twice: not by two submitters, workers or slots.
CarriedOnce ==
  /\ \A t, u \in Submitters : job[t] = job[u] /\ job[t] # None => t = u
  /\ \A t \in Submitters : at[t] = "idle" => job[t] = None
  /\ \A t \in Submitters : at[t] = "signal" => th_work[index[t]] = job[t]
RunOnce ==
  /\ \A v, w \in Workers : hand[v] = hand[w] /\ hand[v] # None => v = w
  /\ \A w \in Workers : pc[w] # "running" => hand[w] = None
  /\ started = Running \cup done
PlacedOnce ==
  /\ \A r, s \in Loaded : th_work[r] = th_work[s] => r = s
  /\ \A s \in Loaded : th_work[s] \in Jobs

JobsApart == Calm => Apart /\ CarriedOnce /\ RunOnce /\ PlacedOnce

LEMMA PlacedLoaded == Placed = {th_work[s] : s \in Loaded}
BY DEF Placed, Loaded

LEMMA PlacedLoadedNext == Placed' = {th_work'[s] : s \in Loaded'}
BY DEF Placed, Loaded

\* A slot that a submitter has claimed is not loaded, and nobody else claims it.
LEMMA ClaimedSlot ==
  ASSUME TypeOK, OneOwner, Calm, NEW s \in Slots, NEW t \in Claimants(s)
  PROVE  s \notin Loaded /\ \A u \in Claimants(s) : u = t
<1>1. Owned(s)
  BY DEF OneOwner
<1>2. Runners(s) = {} /\ s \notin lost /\ \A u \in Claimants(s) : u = t
  BY <1>1 DEF Owned
<1>3. \A w \in Workers : pc[w] = "woken" => nseq[w] # s
  BY <1>2 DEF Runners
<1> QED
  BY <1>2, <1>3 DEF Loaded

\* A step that moves no job.
LEMMA JobsStay ==
  ASSUME Apart, CarriedOnce, RunOnce, PlacedOnce,
         UNCHANGED <<th_work, job, hand, submitted, started, repeated, done, dropped>>,
         Loaded' = Loaded,
         \A t \in Submitters : at'[t] = "idle" => at[t] = "idle",
         \A t \in Submitters :
           at'[t] = "signal" => at[t] = "signal" /\ index'[t] = index[t],
         \A w \in Workers : pc[w] = "running" => pc'[w] = "running"
  PROVE  Apart' /\ CarriedOnce' /\ RunOnce' /\ PlacedOnce'
<1>1. Carried' = Carried /\ Running' = Running
  BY DEF Carried, Running
<1>2. Placed' = Placed
  BY PlacedLoaded, PlacedLoadedNext
<1>3. Apart'
  BY <1>1, <1>2 DEF Apart
<1>4. CarriedOnce'
  BY DEF CarriedOnce
<1>5. RunOnce'
  BY <1>1 DEF RunOnce
<1>6. PlacedOnce'
  BY DEF PlacedOnce
<1> QED
  BY <1>3, <1>4, <1>5, <1>6

\* A job enters with its submitter,
LEMMA InsertMoves ==
  ASSUME Sized, Apart, CarriedOnce, RunOnce, PlacedOnce,
         NEW t \in Submitters, NEW j \in Jobs, InsertWorkItem(t, j)
  PROVE  Apart' /\ CarriedOnce' /\ RunOnce' /\ PlacedOnce'
<1> USE NoneAssumption DEF Sized, TypeOK, slots, pool, worker, managing
<1>1. /\ at[t] = "idle" /\ at' = [at EXCEPT ![t] = "scan"]
      /\ job' = [job EXCEPT ![t] = j] /\ submitted' = submitted \cup {j}
      /\ j \notin submitted
      /\ UNCHANGED <<index, th_work, pc, nseq, hand, lost, started, repeated, done,
                     dropped>>
  BY DEF InsertWorkItem
<1>2. job[t] = None
  BY <1>1 DEF CarriedOnce
<1>3. Carried' = Carried \cup {j}
  <2>1. \A u \in Submitters : u # t => job'[u] = job[u]
    BY <1>1
  <2>2. job'[t] = j /\ j # None
    BY <1>1
  <2> QED
    BY <1>2, <2>1, <2>2 DEF Carried
<1>4. Running' = Running /\ Loaded' = Loaded
  BY <1>1 DEF Running, Loaded
<1>5. Placed' = Placed
  BY <1>1, <1>4, PlacedLoaded, PlacedLoadedNext
<1>6. Apart'
  BY <1>1, <1>3, <1>4, <1>5 DEF Apart
<1>7. CarriedOnce'
  <2>1. \A u \in Submitters : job[u] # j
    BY <1>1 DEF Apart, Carried
  <2> QED
    BY <1>1, <2>1 DEF CarriedOnce
<1>8. RunOnce' /\ PlacedOnce'
  BY <1>1, <1>4 DEF RunOnce, PlacedOnce
<1> QED
  BY <1>6, <1>7, <1>8

\* or leaves with it, dropped.
LEMMA DropMoves ==
  ASSUME Sized, Apart, CarriedOnce, RunOnce, PlacedOnce,
         NEW t \in Submitters, DropJob(t)
  PROVE  Apart' /\ CarriedOnce' /\ RunOnce' /\ PlacedOnce'
<1> USE NoneAssumption DEF Sized, TypeOK, slots, pool, worker, managing
<1>1. /\ at[t] = "grow" /\ at' = [at EXCEPT ![t] = "idle"]
      /\ job' = [job EXCEPT ![t] = None] /\ index' = [index EXCEPT ![t] = 0]
      /\ dropped' = dropped \cup {job[t]}
      /\ UNCHANGED <<th_work, pc, nseq, hand, lost, submitted, started, repeated, done>>
  BY DEF DropJob, Return
<1>2. job[t] \in Jobs
  BY <1>1 DEF Carrying
<1>3. Carried' = Carried \ {job[t]} /\ job[t] \in Carried
  BY <1>1, <1>2 DEF Carried, CarriedOnce
<1>4. Running' = Running /\ Loaded' = Loaded
  BY <1>1 DEF Running, Loaded
<1>5. Placed' = Placed
  BY <1>1, <1>4, PlacedLoaded, PlacedLoadedNext
<1>6. Apart'
  BY <1>1, <1>3, <1>4, <1>5 DEF Apart
<1>7. CarriedOnce'
  BY <1>1 DEF CarriedOnce
<1>8. RunOnce' /\ PlacedOnce'
  BY <1>1, <1>4 DEF RunOnce, PlacedOnce
<1> QED
  BY <1>6, <1>7, <1>8

\* The submitter that has claimed a slot writes its job there, which disturbs no
\* job: the slot is not loaded and no other submitter has written to it.
LEMMA WriteMoves ==
  ASSUME Sized, OneOwner, Calm, Apart, CarriedOnce, RunOnce, PlacedOnce,
         NEW t \in Submitters, NEW s \in Slots, t \in Claimants(s),
         at[t] \in {"write", "place"}, at' = [at EXCEPT ![t] = "signal"],
         index' \in [Submitters -> 0 .. Max], index'[t] = s,
         \A u \in Submitters \ {t} : index'[u] = index[u],
         th_work' = [th_work EXCEPT ![s] = job[t]],
         UNCHANGED <<job, pc, nseq, hand, lost, submitted, started, repeated, done,
                     dropped>>
  PROVE  Apart' /\ CarriedOnce' /\ RunOnce' /\ PlacedOnce'
<1> USE NoneAssumption DEF Sized, TypeOK
<1>1. s \notin Loaded /\ \A u \in Claimants(s) : u = t
  BY ClaimedSlot
<1>2. Carried' = Carried /\ Running' = Running /\ Loaded' = Loaded
  BY DEF Carried, Running, Loaded
<1>3. \A r \in Loaded : th_work'[r] = th_work[r]
  <2>1. Loaded \subseteq Slots
    BY DEF Loaded
  <2> QED
    BY <1>1, <2>1
<1>4. Placed' = Placed
  BY <1>2, <1>3, PlacedLoaded, PlacedLoadedNext
<1>5. Apart'
  BY <1>2, <1>4 DEF Apart
<1>6. CarriedOnce'
  <2>1. ASSUME NEW u \in Submitters, at'[u] = "signal"
        PROVE  th_work'[index'[u]] = job'[u]
    <3>1. CASE u = t
      BY <3>1
    <3>2. CASE u # t
      <4>1. at[u] = "signal" /\ index'[u] = index[u] /\ index[u] \in Slots
        BY <2>1, <3>2 DEF Carrying
      <4>2. index[u] # s
        BY <1>1, <3>2, <4>1 DEF Claimants
      <4> QED
        BY <4>1, <4>2 DEF CarriedOnce
    <3> QED
      BY <3>1, <3>2
  <2> QED
    BY <2>1 DEF CarriedOnce
<1>7. RunOnce' /\ PlacedOnce'
  BY <1>2, <1>3 DEF RunOnce, PlacedOnce
<1> QED
  BY <1>5, <1>6, <1>7

\* The signal hands the slot and its job to a worker, or to nobody.
LEMMA SignalMoves ==
  ASSUME Sized, OneOwner, Calm, Apart, CarriedOnce, RunOnce, PlacedOnce,
         NEW t \in Submitters, Signal(t)
  PROVE  Apart' /\ CarriedOnce' /\ RunOnce' /\ PlacedOnce'
<1> DEFINE s == index[t]
           j == job[t]
<1> USE NoneAssumption DEF Sized, TypeOK, slots, pool, managing
<1>1. /\ at[t] = "signal" /\ at' = [at EXCEPT ![t] = "idle"]
      /\ job' = [job EXCEPT ![t] = None] /\ index' = [index EXCEPT ![t] = 0]
      /\ UNCHANGED <<th_work, nseq, hand, submitted, started, repeated, done, dropped>>
  BY DEF Signal, Return
<1>2. j \in Jobs /\ s \in Slots /\ th_work[s] = j
  BY <1>1 DEF Carrying, CarriedOnce
<1>3. s \notin Loaded
  <2>1. t \in Claimants(s)
    BY <1>1 DEF Claimants
  <2> QED
    BY <1>2, <2>1, ClaimedSlot
<1>4. Loaded' = Loaded \cup {s}
  <2>1. CASE lost' = lost \cup {s} /\ pc' = pc
    BY <1>1, <2>1 DEF Loaded
  <2>2. ASSUME NEW w \in Waiting(s), pc' = [pc EXCEPT ![w] = "woken"], lost' = lost
        PROVE  Loaded' = Loaded \cup {s}
    <3>1. w \in Workers /\ nseq[w] = s /\ pc[w] = "waiting"
      BY <2>2 DEF Waiting
    <3>2. {v \in Workers : pc'[v] = "woken"} = {v \in Workers : pc[v] = "woken"} \cup {w}
      BY <2>2, <3>1
    <3> QED
      BY <1>1, <2>2, <3>1, <3>2 DEF Loaded
  <2> QED
    BY <2>1, <2>2 DEF Signal
<1>5. Carried' = Carried \ {j} /\ j \in Carried
  BY <1>1, <1>2 DEF Carried, CarriedOnce
<1>6. Running' = Running
  BY <1>1 DEF Running
<1>7. Placed' = Placed \cup {j}
  BY <1>1, <1>2, <1>4, PlacedLoaded, PlacedLoadedNext
<1>8. Apart'
  BY <1>1, <1>5, <1>6, <1>7 DEF Apart
<1>9. CarriedOnce'
  BY <1>1 DEF CarriedOnce
<1>10. RunOnce'
  <2>1. \A w \in Workers : pc'[w] # "running" => pc[w] # "running"
    BY DEF Signal, Waiting
  <2> QED
    BY <1>1, <1>6, <2>1 DEF RunOnce
<1>11. PlacedOnce'
  <2>1. \A r \in Loaded : th_work[r] # j
    BY <1>5, PlacedLoaded DEF Apart
  <2> QED
    BY <1>1, <1>2, <1>4, <2>1 DEF PlacedOnce
<1> QED
  BY <1>8, <1>9, <1>10, <1>11

\* The worker takes the job from its slot,
LEMMA ReadMoves ==
  ASSUME Sized, OneOwner, Calm, Apart, CarriedOnce, RunOnce, PlacedOnce,
         NEW w \in Workers, ReadWork(w)
  PROVE  Apart' /\ CarriedOnce' /\ RunOnce' /\ PlacedOnce'
<1> DEFINE s == nseq[w]
           j == th_work[s]
<1> USE NoneAssumption DEF Sized, TypeOK, slots, pool, call, managing
<1>1. /\ pc[w] = "woken" /\ pc' = [pc EXCEPT ![w] = "running"]
      /\ hand' = [hand EXCEPT ![w] = j]
      /\ UNCHANGED <<at, job, index, th_work, nseq, submitted, lost, done, dropped>>
  BY DEF ReadWork
<1>2. started' = started \cup {j} /\ repeated' = repeated \cup ({j} \cap started)
  BY DEF ReadWork
<1>3. s \in Slots /\ s \in Loaded /\ s \notin lost
      /\ \A v \in Workers : pc[v] = "woken" /\ nseq[v] = s => v = w
  <2>1. Owned(s) /\ s \in Slots
    BY DEF OneOwner
  <2>2. w \in Runners(s)
    BY <1>1 DEF Runners
  <2>3. s \notin lost /\ \A v \in Runners(s) : v = w
    BY <2>1, <2>2 DEF Owned
  <2> QED
    BY <1>1, <2>1, <2>3 DEF Runners, Loaded
<1>4. Loaded' = Loaded \ {s}
  <2>1. {v \in Workers : pc'[v] = "woken"} = {v \in Workers : pc[v] = "woken"} \ {w}
    BY <1>1
  <2> QED
    BY <1>1, <1>3, <2>1 DEF Loaded
<1>5. j \in Jobs /\ j \in Placed /\ Placed' = Placed \ {j}
  BY <1>1, <1>3, <1>4, PlacedLoaded, PlacedLoadedNext DEF PlacedOnce
<1>6. Running' = Running \cup {j}
  <2>1. hand[w] = None
    BY <1>1 DEF RunOnce
  <2>2. \A v \in Workers : v # w => hand'[v] = hand[v]
    BY <1>1
  <2>3. hand'[w] = j
    BY <1>1
  <2> QED
    BY <1>5, <2>1, <2>2, <2>3 DEF Running
<1>7. Carried' = Carried
  BY <1>1 DEF Carried
<1>8. Apart'
  <2>1. repeated' = {}
    BY <1>2, <1>5 DEF Apart, RunOnce
  <2> QED
    BY <1>1, <1>5, <1>6, <1>7, <2>1 DEF Apart
<1>9. CarriedOnce'
  BY <1>1 DEF CarriedOnce
<1>10. RunOnce'
  <2>1. \A v \in Workers : hand[v] # j
    BY <1>5 DEF Apart, Running
  <2> QED
    BY <1>1, <1>2, <1>6, <2>1 DEF RunOnce
<1>11. PlacedOnce'
  BY <1>1, <1>4 DEF PlacedOnce
<1> QED
  BY <1>8, <1>9, <1>10, <1>11

\* and is done with it when it returns.
LEMMA ReturnMoves ==
  ASSUME Sized, Apart, CarriedOnce, RunOnce, PlacedOnce,
         NEW w \in Workers, JobReturns(w)
  PROVE  Apart' /\ CarriedOnce' /\ RunOnce' /\ PlacedOnce'
<1> USE NoneAssumption DEF Sized, TypeOK, pool, call, managing
<1>1. /\ pc[w] = "running" /\ pc' = [pc EXCEPT ![w] = "loop"]
      /\ hand' = [hand EXCEPT ![w] = None] /\ done' = done \cup {hand[w]}
      /\ UNCHANGED <<at, job, index, th_work, nseq, submitted, lost, started, repeated,
                     dropped>>
  BY DEF JobReturns
<1>2. hand[w] \in Jobs
  BY <1>1 DEF Carrying
<1>3. Running' = Running \ {hand[w]} /\ hand[w] \in Running
  BY <1>1, <1>2 DEF Running, RunOnce
<1>4. Carried' = Carried
  BY <1>1 DEF Carried
<1>5. Loaded' = Loaded
  <2>1. {v \in Workers : pc'[v] = "woken"} = {v \in Workers : pc[v] = "woken"}
    BY <1>1
  <2> QED
    BY <1>1, <2>1 DEF Loaded
<1>6. Placed' = Placed
  BY <1>1, <1>5, PlacedLoaded, PlacedLoadedNext
<1>7. Apart'
  BY <1>1, <1>3, <1>4, <1>6 DEF Apart
<1>8. CarriedOnce' /\ PlacedOnce'
  BY <1>1, <1>5 DEF CarriedOnce, PlacedOnce
<1>9. RunOnce'
  <2>1. \A v \in Workers : pc'[v] # "running" => hand'[v] = None
    BY <1>1 DEF RunOnce
  <2>2. \A u, v \in Workers : hand'[u] = hand'[v] /\ hand'[u] # None => u = v
    BY <1>1 DEF RunOnce
  <2>3. started' = Running' \cup done'
    BY <1>1, <1>3 DEF RunOnce
  <2> QED
    BY <2>1, <2>2, <2>3 DEF RunOnce
<1> QED
  BY <1>7, <1>8, <1>9

LEMMA JobsStep == Sized /\ InRange /\ OneOwner /\ JobsApart /\ Next => JobsApart'
<1> DEFINE Goal == Apart' /\ CarriedOnce' /\ RunOnce' /\ PlacedOnce'
<1> SUFFICES ASSUME Sized, InRange, OneOwner, JobsApart, Next, Calm'
             PROVE  Goal
  BY DEF JobsApart
<1>1. Calm /\ CalmNext
  BY CalmStep DEF Sized
<1>2. Apart /\ CarriedOnce /\ RunOnce /\ PlacedOnce
  BY <1>1 DEF JobsApart
<1> USE DEF Sized, TypeOK, slots, pool, call, worker, managing, past
<1>3. ASSUME NEW s \in Slots, NEW w \in Workers, InitThread(s, w) PROVE Goal
  <2>1. Loaded' = Loaded
    <3>1. {v \in Workers : pc'[v] = "woken"} = {v \in Workers : pc[v] = "woken"}
      BY <1>3 DEF InitThread
    <3> QED
      BY <1>3, <3>1 DEF InitThread, Loaded
  <2> QED
    BY <1>2, <1>3, <2>1, JobsStay DEF InitThread
<1>4. CASE \/ InitReturns \/ InitFails \/ Close \/ Overrun
           \/ Awake \/ LookAtSlot \/ Decide \/ CheckLast
  <2>1. UNCHANGED <<th_work, at, job, index, pc, nseq, hand, past>>
    BY <1>4 DEF InitReturns, InitFails, Close, Overrun, Awake, LookAtSlot, Decide,
                CheckLast
  <2>2. Loaded' = Loaded
    BY <2>1 DEF Loaded
  <2> QED
    BY <1>2, <2>1, <2>2, JobsStay
<1>5. ASSUME NEW t \in Submitters,
             SlotBusy(t) \/ ClaimSlot(t) \/ ScanEnds(t) \/ NewThread(t)
               \/ LoadSize(t) \/ AddThreadFails(t)
      PROVE  Goal
  <2>1. UNCHANGED <<th_work, job, pc, nseq, hand, past>>
    BY <1>5 DEF SlotBusy, ClaimSlot, ScanEnds, NewThread, LoadSize, AddThreadFails
  <2>2. Loaded' = Loaded
    BY <2>1 DEF Loaded
  <2>3. \A u \in Submitters :
          /\ at'[u] = "idle" => at[u] = "idle"
          /\ at'[u] = "signal" => at[u] = "signal" /\ index'[u] = index[u]
    BY <1>5 DEF SlotBusy, ClaimSlot, ScanEnds, NewThread, LoadSize, AddThreadFails
  <2> QED
    BY <1>2, <2>1, <2>2, <2>3, JobsStay
<1>6. ASSUME NEW t \in Submitters, AddThread(t) PROVE Goal
  <2>1. /\ UNCHANGED <<th_work, job, index, nseq, hand, past>>
        /\ at' = [at EXCEPT ![t] = "place"]
    BY <1>6 DEF AddThread
  <2>2. \A v \in Workers : /\ pc'[v] = "woken" <=> pc[v] = "woken"
                           /\ pc'[v] = "running" <=> pc[v] = "running"
    BY <1>6 DEF AddThread
  <2>3. Loaded' = Loaded
    BY <2>1, <2>2 DEF Loaded
  <2> QED
    BY <1>2, <2>1, <2>2, <2>3, JobsStay
<1>7. ASSUME NEW w \in Workers, FindSeq(w) \/ CondWait(w) \/ ReadNothing(w)
      PROVE  Goal
  <2>1. UNCHANGED <<th_work, at, job, index, hand, past>>
    BY <1>7 DEF FindSeq, CondWait, ReadNothing
  <2>2. \A v \in Workers : /\ pc'[v] = "woken" <=> pc[v] = "woken"
                           /\ pc'[v] = "running" <=> pc[v] = "running"
                           /\ pc[v] = "woken" => nseq'[v] = nseq[v]
    BY <1>7 DEF FindSeq, CondWait, ReadNothing
  <2>3. Loaded' = Loaded
    <3>1. {v \in Workers : pc'[v] = "woken"} = {v \in Workers : pc[v] = "woken"}
      BY <2>2
    <3> QED
      BY <2>1, <2>2, <3>1 DEF Loaded
  <2> QED
    BY <1>2, <2>1, <2>2, <2>3, JobsStay
<1>8. ASSUME NEW t \in Submitters, WriteWork(t) PROVE Goal
  <2>1. /\ at[t] = "write" /\ at' = [at EXCEPT ![t] = "signal"]
        /\ th_work' = [th_work EXCEPT ![index[t]] = job[t]]
        /\ UNCHANGED <<job, index, pc, nseq, hand, past>>
    BY <1>8 DEF WriteWork
  <2>2. index[t] \in Slots /\ t \in Claimants(index[t])
    BY <2>1 DEF Carrying, Claimants
  <2> QED
    BY <1>1, <1>2, <2>1, <2>2, WriteMoves
<1>9. ASSUME NEW t \in Submitters, PlaceWork(t) PROVE Goal
  <2>1. /\ at[t] = "place" /\ at' = [at EXCEPT ![t] = "signal"]
        /\ index' = [index EXCEPT ![t] = cur_th_num - 1]
        /\ th_work' = [th_work EXCEPT ![cur_th_num - 1] = job[t]]
        /\ UNCHANGED <<job, pc, nseq, hand, past>>
    BY <1>9 DEF PlaceWork
  <2>2. cur_th_num - 1 \in Slots /\ cur_th_num - 1 \in 0 .. Max
    BY <1>9, SizeAssumption DEF PlaceWork, Slots
  <2>3. t \in Claimants(cur_th_num - 1)
    BY <2>1 DEF Claimants
  <2>4. index' \in [Submitters -> 0 .. Max] /\ index'[t] = cur_th_num - 1
        /\ \A u \in Submitters \ {t} : index'[u] = index[u]
    BY <2>1, <2>2
  <2> QED
    BY <1>1, <1>2, <2>1, <2>2, <2>3, <2>4, WriteMoves
<1> QED
  BY <1>1, <1>2, <1>3, <1>4, <1>5, <1>6, <1>7, <1>8, <1>9,
     InsertMoves, DropMoves, SignalMoves, ReadMoves, ReturnMoves
  DEF CalmNext, Submit, Work

LEMMA JobsInvariant == Spec => [](Calmly /\ JobsApart)
<1>1. Init => JobsApart
  <2> SUFFICES ASSUME Init PROVE Apart /\ CarriedOnce /\ RunOnce /\ PlacedOnce
    BY DEF JobsApart
  <2>1. Carried = {} /\ Running = {} /\ Loaded = {}
    BY DEF Init, Carried, Running, Loaded
  <2>2. Placed = {}
    BY <2>1, PlacedLoaded
  <2>3. Apart
    BY <2>1, <2>2 DEF Init, Apart
  <2>4. CarriedOnce /\ RunOnce /\ PlacedOnce
    BY <2>1 DEF Init, CarriedOnce, RunOnce, PlacedOnce
  <2> QED
    BY <2>3, <2>4
<1>2. Calmly /\ JobsApart /\ [Next]_vars => JobsApart'
  <2>1. ASSUME Calmly, JobsApart, Next PROVE JobsApart'
    BY <2>1, BoundedOrOversized, JobsStep DEF Calmly
  <2>2. ASSUME JobsApart, UNCHANGED vars PROVE JobsApart'
    <3>1. UNCHANGED <<Calm, Carried, Running, Loaded, Placed>>
      BY <2>2 DEF Calm, Carried, Running, Loaded, Placed, vars, slots, call, worker, past
    <3> QED
      BY <2>2, <3>1 DEF JobsApart, Apart, CarriedOnce, RunOnce, PlacedOnce, vars, slots,
                        call, worker, past
  <2> QED
    BY <2>1, <2>2
<1> QED
  BY CalmlyInvariant, <1>1, <1>2, PTL DEF Spec

\* While the pool is calm, every job that was submitted is with its submitter, in
\* a slot, running, done or dropped, and only there: none is lost, none runs twice.
THEOREM JobsCorrect == Spec => []JobsAccounted
<1>1. JobsApart => JobsAccounted
  BY DEF JobsApart, Apart, JobsAccounted
<1> QED
  BY JobsInvariant, <1>1, PTL

\* While the pool is calm, a worker that was signalled finds a job in its slot that
\* no worker has started.
THEOREM WokenCorrect == Spec => []WokenFindsNewJob
<1>1. JobsApart => WokenFindsNewJob
  <2> SUFFICES ASSUME JobsApart, Calm, NEW w \in Workers, pc[w] = "woken"
               PROVE  th_work[nseq[w]] \in submitted \ (started \cup dropped)
    BY DEF WokenFindsNewJob
  <2>1. th_work[nseq[w]] \in Placed
    BY DEF Placed
  <2>2. Apart /\ started = Running \cup done
    BY DEF JobsApart, RunOnce
  <2> QED
    BY <2>1, <2>2 DEF Apart
<1> QED
  BY JobsInvariant, <1>1, PTL
===============================================================================
