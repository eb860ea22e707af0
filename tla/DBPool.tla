-------------------------------- MODULE DBPool ---------------------------------
(***************************************************************************)
(* The pool of database connections (base/DBPool, class CDBPool): a list   *)
(* under a lock, and a semaphore that is meant to count the list.          *)
(*                                                                         *)
(* The owner calls InitDBPool and DestoryConnPool; users call              *)
(* GetConnection and ReleaseConnection.  What a call does under the lock   *)
(* is one step; sem_init, sem_wait and sem_post are steps outside of it.   *)
(***************************************************************************)
EXTENDS Integers, Sequences, FiniteSets, Functions

CONSTANTS
  Users,  \* threads that use connections
  Size,   \* maxSize of InitDBPool
  Inits,  \* how often the owner calls InitDBPool, at most
  Uses,   \* how often a user calls GetConnection, at most
  NoConn

ASSUME UsersAssumption == IsFiniteSet(Users)
ASSUME SizeAssumption == Size \in Nat \ {0}
ASSUME BoundsAssumption == Inits \in Nat /\ Uses \in Nat
ASSUME NoConnAssumption == NoConn \notin Nat

VARIABLES
  phase,     \* "closed", "filled" (the list is, the semaphore not yet), "ready"
  connList,
  sem,       \* m_sem; -1 before the first sem_init
  curSize,   \* m_curSize
  created,   \* connections are numbered as they are created
  pc,        \* where each user is
  hand,      \* the connection it has
  \* What follows only records the past, or bounds it.
  deleted,   \* connections that were deleted
  spare,     \* connections in the list beyond the count of the semaphore
  inits,
  uses

pool == <<phase, connList, sem, curSize, created, deleted, spare, inits>>
users == <<pc, hand, uses>>
vars == <<pool, users>>

TypeOK ==
  /\ phase \in {"closed", "filled", "ready"}
  /\ connList \in Seq(1 .. created)
  /\ sem \in Nat \cup {-1}
  /\ curSize \in 0 .. Size
  /\ created \in Nat
  /\ pc \in [Users -> {"idle", "wait", "woken", "use", "post", "undefined"}]
  /\ hand \in [Users -> 1 .. created \cup {NoConn}]
  /\ deleted \in SUBSET (1 .. created)
  /\ spare \in Nat
  /\ inits \in 0 .. Inits
  /\ uses \in [Users -> 0 .. Uses]

Init ==
  /\ phase = "closed"
  /\ connList = <<>>
  /\ sem = -1
  /\ curSize = 0
  /\ created = 0
  /\ pc = [u \in Users |-> "idle"]
  /\ hand = [u \in Users |-> NoConn]
  /\ deleted = {}
  /\ spare = 0
  /\ inits = 0
  /\ uses = [u \in Users |-> 0]

\* The users that have passed the semaphore, and those that have yet to post.
Woken   == {u \in Users : pc[u] = "woken"}
Posting == {u \in Users : pc[u] = "post"}
NoCall  == \A u \in Users : pc[u] \notin {"wait", "woken", "post"}

Goto(u, place) == pc' = [pc EXCEPT ![u] = place]

-----------------------------------------------------------------------------
(***************************************************************************)
(* The owner.  It calls InitDBPool for a pool that is closed, and not      *)
(* during a call of a user: sem_init must not meet a waiter.  It may call  *)
(* DestoryConnPool at any time.                                            *)
(***************************************************************************)
InitKeepsSize ==          \* bug: m_curSize is not set to 0
  /\ phase = "closed" /\ inits < Inits
  /\ NoCall
  /\ \E n \in 0 .. Size :
       /\ connList' = connList \o [i \in 1 .. n |-> created + i]
       /\ created' = created + n
       /\ curSize' = curSize + n
       /\ phase' = IF n = Size THEN "filled" ELSE "closed"
  /\ inits' = inits + 1
  /\ UNCHANGED <<sem, deleted, spare, users>>
\* CreateConnection fails after n connections, or all of them can be created.
\* What an earlier, failed call has left in the list stays there.
InitConnection ==
  /\ phase = "closed" /\ inits < Inits
  /\ NoCall
  /\ \E n \in 0 .. Size :
       /\ connList' = connList \o [i \in 1 .. n |-> created + i]
       /\ created' = created + n
       /\ curSize' = n
       /\ phase' = IF n = Size THEN "filled" ELSE "closed"
  /\ inits' = inits + 1
  /\ UNCHANGED <<sem, deleted, spare, users>>

SemInitOnce ==            \* bug: the semaphore is only initialized the first time
  /\ phase = "filled"
  /\ sem' = IF sem = -1 THEN Size ELSE sem
  /\ phase' = "ready"
  /\ spare' = Len(connList) - Size - Cardinality(Posting)
  /\ UNCHANGED <<connList, curSize, created, deleted, inits, users>>
SemInit ==
  /\ phase = "filled"
  /\ sem' = Size
  /\ phase' = "ready"
  /\ spare' = Len(connList) - Size - Cardinality(Posting)
  /\ UNCHANGED <<connList, curSize, created, deleted, inits, users>>

\* The connections in use are left to their users, and the semaphore as it is.
DestoryConnPool ==
  /\ phase = "ready" \/ (phase = "closed" /\ connList # <<>>)
  /\ connList' = <<>>
  /\ deleted' = deleted \cup Range(connList)
  /\ curSize' = 0
  /\ phase' = "closed"
  /\ UNCHANGED <<sem, created, spare, inits, users>>

-----------------------------------------------------------------------------
(***************************************************************************)
(* GetConnection.                                                          *)
(***************************************************************************)
GetConnection(u) ==
  /\ phase = "ready" /\ pc[u] = "idle" /\ uses[u] < Uses
  /\ uses' = [uses EXCEPT ![u] = @ + 1]
  /\ Goto(u, "wait")
  /\ UNCHANGED <<pool, hand>>

SemWait(u) ==
  /\ pc[u] = "wait" /\ sem > 0
  /\ sem' = sem - 1
  /\ Goto(u, "woken")
  /\ UNCHANGED <<phase, connList, curSize, created, deleted, spare, inits, hand, uses>>

TakeShared(u) ==          \* bug: front without pop_front
  /\ pc[u] = "woken" /\ connList # <<>>
  /\ hand' = [hand EXCEPT ![u] = Head(connList)]
  /\ Goto(u, "use")
  /\ UNCHANGED <<pool, uses>>
Take(u) ==
  /\ pc[u] = "woken" /\ connList # <<>>
  /\ hand' = [hand EXCEPT ![u] = Head(connList)]
  /\ connList' = Tail(connList)
  /\ Goto(u, "use")
  /\ UNCHANGED <<phase, sem, curSize, created, deleted, spare, inits, uses>>

\* GetConnection runs off its end: its result is anything.
TakeNothing(u) ==
  /\ pc[u] = "woken" /\ connList = <<>>
  /\ Goto(u, "undefined")
  /\ UNCHANGED <<pool, hand, uses>>

(***************************************************************************)
(* ReleaseConnection: the push under the lock, then sem_post.              *)
(***************************************************************************)
ReleaseConnection(u) ==
  /\ pc[u] = "use"
  /\ connList' = Append(connList, hand[u])
  /\ hand' = [hand EXCEPT ![u] = NoConn]
  /\ Goto(u, "post")
  /\ UNCHANGED <<phase, sem, curSize, created, deleted, spare, inits, uses>>

ForgetPost(u) ==          \* bug: ReleaseConnection without sem_post
  /\ pc[u] = "post"
  /\ Goto(u, "idle")
  /\ UNCHANGED <<pool, hand, uses>>
SemPost(u) ==
  /\ pc[u] = "post"
  /\ sem' = sem + 1
  /\ Goto(u, "idle")
  /\ UNCHANGED <<phase, connList, curSize, created, deleted, spare, inits, hand, uses>>

-----------------------------------------------------------------------------
Step(u) == SemWait(u) \/ Take(u) \/ TakeNothing(u) \/ ReleaseConnection(u) \/ SemPost(u)

Next ==
  \/ InitConnection \/ SemInit \/ DestoryConnPool
  \/ \E u \in Users : GetConnection(u) \/ Step(u)

\* The threads run on, and a user gives back what it has.
Spec == Init /\ [][Next]_vars /\ \A u \in Users : WF_vars(Step(u))

-----------------------------------------------------------------------------
(***************************************************************************)
(* While the pool is open the semaphore never promises a connection that   *)
(* is not there: each count of it, each user that has passed it, and each  *)
(* user that has yet to post stands for one connection of the list.  So no *)
(* GetConnection finds the list empty (DBPool.cpp:189).                    *)
(***************************************************************************)
SemaphoreAccounting ==
  phase = "ready" =>
    Len(connList) =
      sem + Cardinality(Woken) + Cardinality(Posting) + spare

(***************************************************************************)
(* A connection belongs to one place: to the list, to one user, or it is   *)
(* deleted.  Whatever the owner does, no user works on a connection that   *)
(* was deleted or that another user has.                                   *)
(***************************************************************************)
Exclusive ==
  /\ IsInjective(connList)
  /\ Range(connList) \cap deleted = {}
  /\ \A u \in Users : pc[u] = "use" => hand[u] \notin Range(connList) \cup deleted
  /\ \A u, v \in Users :
       pc[u] = "use" /\ pc[v] = "use" /\ hand[u] = hand[v] => u = v

(***************************************************************************)
(* Every user that waits gets through, if users give back what they have,  *)
(* or the pool is destroyed over it (then it may wait for ever).           *)
(***************************************************************************)
Served == \A u \in Users : pc[u] = "wait" ~> pc[u] # "wait" \/ phase = "closed"
===============================================================================
