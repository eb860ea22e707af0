---------------------------- MODULE SDKLife_proofs -----------------------------
(***************************************************************************)
(* Proofs about SDKLife for any set of descriptors, any number of starts   *)
(* and any modes.                                                          *)
(***************************************************************************)
EXTENDS SDKLife, TLAPS

Started == phase \in {"relayInit", "p2p", "relay", "ended", "stopRelay", "stopP2P", "stopped"}

\* How far the program is.
Progress ==
  /\ phase = "built" => lives = 0 /\ ~relayAddr /\ DOMAIN sessionFd = {} /\ DOMAIN comm = {}
  /\ Started => lives >= 1
  /\ phase = "relayInit" /\ lives <= 1 => ~relayAddr
  /\ phase \in {"relayInit", "relay", "stopRelay"} => mode # 1
  /\ pos # 0 => Looping

\* What the loop of pulse goes through was readable when select returned.
SelectSet ==
  /\ \A fd \in unread : sock[fd] \in {"up", "eof"}
  /\ pos # 0 => \A fd \in readSet : fd \in DOMAIN sessionFd /\ sock[fd] # "idle"

\* The objects in the table.
ObjectTable ==
  /\ "p2p" \in DOMAIN comm => comm["p2p"] \in 1 .. lives
  /\ "relay" \in DOMAIN comm => comm["relay"] = Member
  /\ deleted \subseteq 1 .. lives

\* fd_A lists the descriptors of the table.
Listed == \A fd \in DOMAIN sessionFd : \E i \in DOMAIN fd_A : fd_A[i] = fd

\* The connection of the P2P half.
P2PSide ==
  phase \in {"relayInit", "p2p", "relay", "ended"} =>
    /\ channel \in Fds /\ cli_sockfd[lives] = channel
    /\ ~stale => "p2p" \in DOMAIN comm /\ comm["p2p"] = lives
    /\ Distinct => channel \in DOMAIN sessionFd /\ sessionFd[channel] = "p2p"

\* The connection of the relay half, and what stays of it.
RelaySide ==
  mode # 1 =>
    /\ phase \in {"p2p", "relay", "ended"} =>
         /\ relayFd \in Fds /\ cli_sockfd[Member] = relayFd
         /\ Distinct => relayFd \in DOMAIN sessionFd /\ sessionFd[relayFd] = "relay"
    /\ phase \in {"p2p", "relay", "ended", "stopRelay", "stopP2P", "stopped"} =>
         /\ "relay" \in DOMAIN comm
         /\ Distinct => \E fd \in DOMAIN sessionFd : sessionFd[fd] = "relay"

\* The tables without a relay half.
OnlyP2P ==
  mode = 1 =>
    /\ phase \in {"p2p", "ended", "stopP2P"} => DOMAIN sessionFd = {channel} /\ DOMAIN comm = {"p2p"}
    /\ phase \in {"ended", "stopP2P"} => channel \in readSet
    /\ phase = "stopped" => DOMAIN sessionFd = {} /\ DOMAIN comm = {}

IInv ==
  /\ TypeOK
  /\ Progress /\ SelectSet /\ ObjectTable /\ Listed
  /\ P2PSide /\ RelaySide /\ OnlyP2P
  /\ NoDangling /\ RelayNeedsRestart /\ EndsForCause

-----------------------------------------------------------------------------
(***************************************************************************)
(* The tables as functions.                                                *)
(***************************************************************************)
\* The two session strings differ: each buffer leads to its own connection.
LEMMA InstanceOf ==
  ASSUME NEW k \in DOMAIN comm, \A x \in DOMAIN comm : session[x] = session[k] => x = k
  PROVE  Instance(comm, session, k) = comm[k]
<1>1. Matches(comm, session, k) = {k}
  BY DEF Matches
<1> QED
  BY <1>1 DEF Instance

-----------------------------------------------------------------------------
(***************************************************************************)
(* What an opened connection adds to the tables.                           *)
(***************************************************************************)
OpenedTables(k, o, fd, result) ==
  /\ sock' \in [Fds -> SocketState] /\ peer' \in [Fds -> Keys] /\ unread' \in SUBSET Fds
  /\ cli_sockfd' \in [Objects -> Fds \cup {None}] /\ deleted' = deleted /\ lower' = lower
  /\ DOMAIN sessionFd' \in SUBSET Fds /\ sessionFd' \in [DOMAIN sessionFd' -> Keys]
  /\ DOMAIN comm' \in SUBSET Keys /\ comm' \in [DOMAIN comm' -> Objects]
  /\ readSet' \in SUBSET Fds /\ fd_A' \in Seq(Fds) /\ pos' = pos
  /\ \A f \in Fds : /\ sock'[f] = (IF f = fd THEN result ELSE sock[f])
                    /\ peer'[f] = (IF f = fd THEN k ELSE peer[f])
                    /\ f \in unread' => f # fd /\ f \in unread
  /\ \A p \in Objects : cli_sockfd'[p] = IF p = o THEN fd ELSE cli_sockfd[p]
  /\ DOMAIN sessionFd' = DOMAIN sessionFd \cup {fd}
  /\ \A f \in DOMAIN sessionFd : sessionFd'[f] = sessionFd[f]
  /\ DOMAIN comm' = DOMAIN comm \cup {k}
  /\ \A x \in DOMAIN comm : comm'[x] = comm[x]
  /\ k \notin DOMAIN comm => comm'[k] = o
  /\ Distinct' => Distinct /\ fd \notin DOMAIN sessionFd /\ sessionFd'[fd] = k
  /\ Listed'

LEMMA Opened ==
  ASSUME TypeOK, Listed,
         NEW k \in Keys, NEW o \in Objects, NEW fd \in Fds, NEW result \in {"up", "idle", "free"},
         Open(k, o, fd, result)
  PROVE  OpenedTables(k, o, fd, result)
<1>1. /\ sock' = [sock EXCEPT ![fd] = result] /\ peer' = [peer EXCEPT ![fd] = k]
      /\ unread' = unread \ {fd} /\ cli_sockfd' = [cli_sockfd EXCEPT ![o] = fd]
      /\ readSet' = readSet \cup {fd} /\ fd_A' = Append(fd_A, fd)
      /\ sessionFd' = Insert(sessionFd, fd, k) /\ comm' = Insert(comm, k, o)
      /\ UNCHANGED <<deleted, lower, pos>>
  BY DEF Open
<1>2. TableTypeOK /\ result \in SocketState
  BY DEF TypeOK, SocketState
<1>3. /\ sock' \in [Fds -> SocketState] /\ peer' \in [Fds -> Keys] /\ unread' \in SUBSET Fds
      /\ cli_sockfd' \in [Objects -> Fds \cup {None}]
      /\ \A f \in Fds : /\ sock'[f] = (IF f = fd THEN result ELSE sock[f])
                        /\ peer'[f] = (IF f = fd THEN k ELSE peer[f])
                        /\ f \in unread' => f # fd /\ f \in unread
      /\ \A p \in Objects : cli_sockfd'[p] = IF p = o THEN fd ELSE cli_sockfd[p]
  BY <1>1, <1>2 DEF TableTypeOK
<1>4. /\ DOMAIN sessionFd' \in SUBSET Fds /\ sessionFd' \in [DOMAIN sessionFd' -> Keys]
      /\ DOMAIN sessionFd' = DOMAIN sessionFd \cup {fd}
      /\ \A f \in DOMAIN sessionFd : sessionFd'[f] = sessionFd[f]
      /\ fd \notin DOMAIN sessionFd => sessionFd'[fd] = k
  <2>1. DOMAIN sessionFd \subseteq Fds /\ sessionFd \in [DOMAIN sessionFd -> Keys]
    BY <1>2 DEF TableTypeOK
  <2>2. sessionFd' = Insert(sessionFd, fd, k)
    BY <1>1
  <2>3. CASE fd \in DOMAIN sessionFd
    BY <2>1, <2>2, <2>3 DEF Insert
  <2>4. CASE fd \notin DOMAIN sessionFd
    BY <2>1, <2>2, <2>4 DEF Insert
  <2> QED
    BY <2>3, <2>4
<1>5. /\ DOMAIN comm' \in SUBSET Keys /\ comm' \in [DOMAIN comm' -> Objects]
      /\ DOMAIN comm' = DOMAIN comm \cup {k}
      /\ \A x \in DOMAIN comm : comm'[x] = comm[x]
      /\ k \notin DOMAIN comm => comm'[k] = o
  <2>1. DOMAIN comm \subseteq Keys /\ comm \in [DOMAIN comm -> Objects]
    BY <1>2 DEF TableTypeOK
  <2>2. comm' = Insert(comm, k, o)
    BY <1>1
  <2>3. CASE k \in DOMAIN comm
    BY <2>1, <2>2, <2>3 DEF Insert
  <2>4. CASE k \notin DOMAIN comm
    BY <2>1, <2>2, <2>4 DEF Insert
  <2> QED
    BY <2>3, <2>4
<1>6. /\ fd_A' \in Seq(Fds) /\ Len(fd_A) \in Nat
      /\ DOMAIN fd_A = 1 .. Len(fd_A) /\ DOMAIN fd_A' = 1 .. Len(fd_A) + 1
      /\ \A i \in DOMAIN fd_A : fd_A'[i] = fd_A[i]
      /\ fd_A'[Len(fd_A) + 1] = fd
  BY <1>1, <1>2 DEF TableTypeOK
<1>7. Distinct' => Distinct
  BY <1>6 DEF Distinct
<1>8. Distinct' => fd \notin DOMAIN sessionFd
  <2> SUFFICES ASSUME Distinct', fd \in DOMAIN sessionFd PROVE FALSE
    OBVIOUS
  <2>1. PICK i \in DOMAIN fd_A : fd_A[i] = fd
    BY DEF Listed
  <2>2. i \in DOMAIN fd_A' /\ Len(fd_A) + 1 \in DOMAIN fd_A' /\ i # Len(fd_A) + 1
    BY <1>6
  <2> QED
    BY <2>1, <2>2, <1>6 DEF Distinct
<1>9. Listed'
  <2> SUFFICES ASSUME NEW f \in DOMAIN sessionFd' PROVE \E i \in DOMAIN fd_A' : fd_A'[i] = f
    BY DEF Listed
  <2>1. CASE f = fd
    BY <2>1, <1>6
  <2>2. CASE f \in DOMAIN sessionFd
    <3>1. PICK i \in DOMAIN fd_A : fd_A[i] = f
      BY <2>2 DEF Listed
    <3> QED
      BY <3>1, <1>6
  <2> QED
    BY <2>1, <2>2, <1>4
<1> QED
  BY <1>1, <1>2, <1>3, <1>4, <1>5, <1>6, <1>7, <1>8, <1>9 DEF TableTypeOK, OpenedTables
-----------------------------------------------------------------------------
(***************************************************************************)
(* What clearIOFd takes out of the tables, unless it crashes: the P2P      *)
(* connection or nothing.                                                  *)
(***************************************************************************)
LEMMA Cleared ==
  ASSUME TypeOK, ObjectTable, NEW fd, ~ClearCrashes(fd), ClearIOFd(fd)
  PROVE  /\ sock' \in [Fds -> SocketState] /\ readSet' \subseteq readSet
         /\ DOMAIN sessionFd' \in SUBSET Fds /\ sessionFd' \in [DOMAIN sessionFd' -> Keys]
         /\ DOMAIN comm' \in SUBSET Keys /\ comm' \in [DOMAIN comm' -> Objects]
         /\ UNCHANGED <<peer, cli_sockfd, session, lower, fd_A, pos>>
         /\ \A f \in Fds : sock'[f] \in {sock[f], "free"}
         /\ \A f \in unread' : f \in unread /\ sock'[f] = sock[f]
         /\ DOMAIN sessionFd' \subseteq DOMAIN sessionFd
         /\ \A f \in DOMAIN sessionFd' : sessionFd'[f] = sessionFd[f]
         /\ DOMAIN comm' \subseteq DOMAIN comm
         /\ \A x \in DOMAIN comm' : comm'[x] = comm[x]
         /\ "relay" \in DOMAIN comm =>
              /\ "relay" \in DOMAIN comm'
              /\ \A f \in DOMAIN sessionFd : sessionFd[f] = "relay" => f \in DOMAIN sessionFd'
         /\ \/ deleted' = deleted
            \/ /\ "p2p" \in DOMAIN comm /\ "p2p" \notin DOMAIN comm'
               /\ deleted' = deleted \cup {comm["p2p"]}
         /\ fd \in readSet => fd \notin DOMAIN sessionFd' /\ "p2p" \notin DOMAIN comm'
<1>0. UNCHANGED <<peer, cli_sockfd, session, lower, fd_A, pos>>
  BY DEF ClearIOFd
<1>1. CASE fd \notin readSet
  <2>1. UNCHANGED <<sock, unread, deleted, comm, sessionFd, readSet>>
    BY <1>1 DEF ClearIOFd
  <2> QED
    BY <1>0, <1>1, <2>1 DEF TypeOK, TableTypeOK
<1>2. CASE fd \in readSet
  <2>0. /\ TableTypeOK /\ comm \in [DOMAIN comm -> Objects]
        /\ sessionFd \in [DOMAIN sessionFd -> Keys]
        /\ DOMAIN comm \in SUBSET Keys /\ DOMAIN sessionFd \in SUBSET Fds
    BY DEF TypeOK, TableTypeOK
  <2>1. FindCommunicationInstance(fd) # None /\ Member \notin Victims(fd)
    BY <1>2 DEF ClearCrashes
  <2>2. fd \in DOMAIN sessionFd /\ Matches(comm, session, sessionFd[fd]) # {}
    BY <2>1 DEF FindCommunicationInstance, Instance
  <2>3. "relay" \notin Matches(comm, session, sessionFd[fd])
    BY <2>1 DEF Victims, Matches, ObjectTable
  <2>4. Matches(comm, session, sessionFd[fd]) = {"p2p"} /\ "p2p" \in DOMAIN comm
    BY <2>0, <2>2, <2>3 DEF Matches, Keys
  <2>5. Victims(fd) = {comm["p2p"]}
    BY <2>4 DEF Victims
  <2>6. "relay" \in DOMAIN comm => sessionFd[fd] # "relay"
    BY <2>3 DEF Matches
  <2> DEFINE closed == {fd} \cup {cli_sockfd[o] : o \in Victims(fd)}
  <2>7. /\ sock' = [f \in Fds |-> IF f \in closed THEN "free" ELSE sock[f]]
        /\ unread' = unread \ closed
        /\ deleted' = deleted \cup Victims(fd)
        /\ comm' = Erase(comm, Matches(comm, session, sessionFd[fd]))
        /\ sessionFd' = Erase(sessionFd, {fd})
        /\ readSet' = readSet \ {fd}
    BY <1>2 DEF ClearIOFd
  <2> HIDE DEF closed
  <2>8. /\ sock' \in [Fds -> SocketState]
        /\ \A f \in Fds : sock'[f] \in {sock[f], "free"}
        /\ \A f \in unread' : f \in unread /\ sock'[f] = sock[f]
    BY <2>0, <2>7 DEF TableTypeOK, SocketState
  <2>9. /\ DOMAIN comm' = DOMAIN comm \ {"p2p"}
        /\ \A x \in DOMAIN comm' : comm'[x] = comm[x]
        /\ comm' \in [DOMAIN comm' -> Objects]
    BY <2>0, <2>4, <2>7 DEF Erase
  <2>10. /\ DOMAIN sessionFd' = DOMAIN sessionFd \ {fd}
         /\ \A f \in DOMAIN sessionFd' : sessionFd'[f] = sessionFd[f]
         /\ sessionFd' \in [DOMAIN sessionFd' -> Keys]
    BY <2>0, <2>7 DEF Erase
  <2>11. deleted' = deleted \cup {comm["p2p"]} /\ readSet' \subseteq readSet
    BY <2>5, <2>7
  <2>12. "relay" \in DOMAIN comm =>
           /\ "relay" \in DOMAIN comm'
           /\ \A f \in DOMAIN sessionFd : sessionFd[f] = "relay" => f \in DOMAIN sessionFd'
    BY <2>6, <2>9, <2>10
  <2> QED
    BY <1>0, <2>0, <2>4, <2>8, <2>9, <2>10, <2>11, <2>12
<1> QED
  BY <1>1, <1>2
-----------------------------------------------------------------------------
(***************************************************************************)
(* The invariant holds initially, and each action of start preserves it.   *)
(***************************************************************************)
LEMMA InitHolds == Init => IInv
<1> SUFFICES ASSUME Init PROVE IInv
  OBVIOUS
<1>1. TypeOK
  <2>1. /\ DOMAIN sessionFd = {} /\ sessionFd \in [{} -> Keys]
        /\ DOMAIN comm = {} /\ comm \in [{} -> Objects]
        /\ fd_A \in Seq(Fds)
    BY DEF Init, TableInit
  <2>2. /\ sock \in [Fds -> SocketState] /\ peer \in [Fds -> Keys]
        /\ cli_sockfd \in [Objects -> Fds \cup {None}]
        /\ session \in [Keys -> {"id", "own", "-1"}]
    BY DEF Init, TableInit, SocketState, Keys
  <2>3. TableTypeOK
    BY <2>1, <2>2 DEF Init, TableInit, TableTypeOK
  <2>4. 0 \in 0 .. Lives
    BY LivesAssumption
  <2> QED
    BY <2>3, <2>4 DEF Init, TypeOK, Phase
<1>2. /\ phase = "built" /\ lives = 0 /\ relayAddr = FALSE /\ pos = 0
      /\ unread = {} /\ deleted = {} /\ DOMAIN sessionFd = {} /\ DOMAIN comm = {}
      /\ \A f \in Fds : sock[f] = "free"
  BY DEF Init, TableInit
<1> QED
  BY <1>1, <1>2 DEF IInv, Progress, Started, SelectSet, ObjectTable, Listed, P2PSide, RelaySide,
    OnlyP2P, NoDangling, RelayNeedsRestart, EndsForCause

LEMMA P2PInitNetHolds ==
  ASSUME IInv, NEW fd \in Fds, NEW result \in {"up", "idle", "free"}, P2PInitNet(fd, result)
  PROVE  IInv'
<1>0. /\ TypeOK /\ Progress /\ SelectSet /\ ObjectTable /\ Listed /\ OnlyP2P
      /\ NoDangling /\ RelayNeedsRestart
  BY DEF IInv
<1>1. /\ phase \in {"built", "stopped"} /\ lives < Lives /\ lives' = lives + 1
      /\ session' = [session EXCEPT !["p2p"] = P2PSession(lives)]
      /\ Open("p2p", lives', fd, result)
      /\ channel' = fd /\ stale' = ("p2p" \in DOMAIN comm)
      /\ phase' = IF mode = 1 THEN "p2p" ELSE "relayInit"
      /\ UNCHANGED <<mode, relayFd, relayAddr>>
  BY DEF P2PInitNet
<1>2. /\ lives \in 0 .. Lives /\ lives' \in Objects /\ lives' \in 0 .. Lives
      /\ "p2p" \in Keys /\ lives \in Nat /\ lives' \in Nat
  BY <1>0, <1>1, LivesAssumption DEF TypeOK, Objects, Keys
<1>3. /\ sock' \in [Fds -> SocketState] /\ peer' \in [Fds -> Keys] /\ unread' \in SUBSET Fds
      /\ cli_sockfd' \in [Objects -> Fds \cup {None}] /\ deleted' = deleted /\ lower' = lower
      /\ DOMAIN sessionFd' \in SUBSET Fds /\ sessionFd' \in [DOMAIN sessionFd' -> Keys]
      /\ DOMAIN comm' \in SUBSET Keys /\ comm' \in [DOMAIN comm' -> Objects]
      /\ readSet' \in SUBSET Fds /\ fd_A' \in Seq(Fds) /\ pos' = pos
      /\ \A f \in Fds : /\ sock'[f] = (IF f = fd THEN result ELSE sock[f])
                        /\ peer'[f] = (IF f = fd THEN "p2p" ELSE peer[f])
                        /\ f \in unread' => f # fd /\ f \in unread
      /\ cli_sockfd'[lives'] = fd
      /\ DOMAIN sessionFd' = DOMAIN sessionFd \cup {fd}
      /\ DOMAIN comm' = DOMAIN comm \cup {"p2p"}
      /\ \A x \in DOMAIN comm : comm'[x] = comm[x]
      /\ "p2p" \notin DOMAIN comm => comm'["p2p"] = lives'
      /\ Distinct' => fd \notin DOMAIN sessionFd /\ sessionFd'[fd] = "p2p"
      /\ Listed'
  <2>1. OpenedTables("p2p", lives', fd, result)
    BY <1>0, <1>1, <1>2, Opened
  <2> QED
    BY <2>1, <1>2 DEF OpenedTables
<1>4. TypeOK'
  <2>1. session' \in [Keys -> {"id", "own", "-1"}]
    BY <1>0, <1>1 DEF TypeOK, TableTypeOK, P2PSession
  <2>2. TableTypeOK'
    BY <1>0, <1>3, <2>1 DEF TypeOK, TableTypeOK
  <2> QED
    BY <1>0, <1>1, <1>2, <2>2 DEF TypeOK, Phase
<1>5. Progress'
  BY <1>0, <1>1, <1>2, <1>3 DEF Progress, Started, Looping
<1>6. SelectSet'
  <2>1. pos' = 0
    BY <1>0, <1>1, <1>3 DEF Progress, Looping
  <2> QED
    BY <1>0, <1>3, <2>1 DEF SelectSet
<1>7. ObjectTable' /\ NoDangling'
  <2>1. lives' \notin deleted /\ lives' \in 1 .. lives'
    BY <1>0, <1>1, <1>2 DEF ObjectTable
  <2>2. ObjectTable'
    BY <1>0, <1>1, <1>2, <1>3, <2>1 DEF ObjectTable, Keys
  <2> QED
    BY <1>0, <1>3, <2>1, <2>2 DEF NoDangling
<1>8. P2PSide' /\ RelaySide'
  BY <1>1, <1>3 DEF P2PSide, RelaySide
<1>9. OnlyP2P'
  BY <1>0, <1>1, <1>3 DEF OnlyP2P, Progress
<1>10. RelayNeedsRestart'
  BY <1>0, <1>1, <1>2, <1>3 DEF RelayNeedsRestart
<1>11. EndsForCause'
  BY <1>1 DEF EndsForCause
<1> QED
  BY <1>3, <1>4, <1>5, <1>6, <1>7, <1>8, <1>9, <1>10, <1>11 DEF IInv

LEMMA RelayInitNetHolds ==
  ASSUME IInv, NEW fd \in Fds, NEW result \in {"up", "idle", "free"},
         NEW id \in {"own", "id"}, RelayInitNet(fd, result, id)
  PROVE  IInv'
<1>0. /\ TypeOK /\ Progress /\ SelectSet /\ ObjectTable /\ Listed /\ P2PSide
      /\ NoDangling /\ RelayNeedsRestart
  BY DEF IInv
<1>1. /\ phase = "relayInit" /\ (result = "up" => relayAddr)
      /\ session' = [session EXCEPT !["relay"] = id]
      /\ Open("relay", Member, fd, result)
      /\ relayFd' = fd /\ phase' = "p2p"
      /\ UNCHANGED <<mode, lives, channel, relayAddr, stale>>
  BY DEF RelayInitNet, RelayResult
<1>2. /\ lives \in 0 .. Lives /\ lives >= 1 /\ Member \in Objects /\ Member # lives
      /\ "relay" \in Keys /\ lives \in Objects /\ mode # 1
  BY <1>0, <1>1, LivesAssumption DEF TypeOK, Objects, Keys, Member, Progress, Started
<1>3. /\ sock' \in [Fds -> SocketState] /\ peer' \in [Fds -> Keys] /\ unread' \in SUBSET Fds
      /\ cli_sockfd' \in [Objects -> Fds \cup {None}] /\ deleted' = deleted /\ lower' = lower
      /\ DOMAIN sessionFd' \in SUBSET Fds /\ sessionFd' \in [DOMAIN sessionFd' -> Keys]
      /\ DOMAIN comm' \in SUBSET Keys /\ comm' \in [DOMAIN comm' -> Objects]
      /\ readSet' \in SUBSET Fds /\ fd_A' \in Seq(Fds) /\ pos' = pos
      /\ \A f \in Fds : /\ sock'[f] = (IF f = fd THEN result ELSE sock[f])
                        /\ peer'[f] = (IF f = fd THEN "relay" ELSE peer[f])
                        /\ f \in unread' => f # fd /\ f \in unread
      /\ cli_sockfd'[Member] = fd /\ cli_sockfd'[lives] = cli_sockfd[lives]
      /\ DOMAIN sessionFd' = DOMAIN sessionFd \cup {fd}
      /\ \A f \in DOMAIN sessionFd : sessionFd'[f] = sessionFd[f]
      /\ DOMAIN comm' = DOMAIN comm \cup {"relay"}
      /\ \A x \in DOMAIN comm : comm'[x] = comm[x]
      /\ "relay" \notin DOMAIN comm => comm'["relay"] = Member
      /\ Distinct' => Distinct /\ fd \notin DOMAIN sessionFd /\ sessionFd'[fd] = "relay"
      /\ Listed'
  <2>1. OpenedTables("relay", Member, fd, result)
    BY <1>0, <1>1, <1>2, Opened
  <2> QED
    BY <2>1, <1>2 DEF OpenedTables
<1>4. TypeOK'
  <2>1. session' \in [Keys -> {"id", "own", "-1"}]
    BY <1>0, <1>1 DEF TypeOK, TableTypeOK
  <2>2. TableTypeOK'
    BY <1>0, <1>3, <2>1 DEF TypeOK, TableTypeOK
  <2> QED
    BY <1>0, <1>1, <2>2 DEF TypeOK, Phase
<1>5. Progress'
  BY <1>0, <1>1, <1>2, <1>3 DEF Progress, Started, Looping
<1>6. SelectSet'
  <2>1. pos' = 0
    BY <1>0, <1>1, <1>3 DEF Progress, Looping
  <2> QED
    BY <1>0, <1>3, <2>1 DEF SelectSet
<1>7. ObjectTable'
  BY <1>0, <1>1, <1>3 DEF ObjectTable
<1>8. NoDangling'
  <2>1. Member \notin deleted
    BY <1>0, <1>2 DEF ObjectTable, Member
  <2> QED
    BY <1>0, <1>3, <2>1 DEF NoDangling
<1>9. P2PSide'
  BY <1>0, <1>1, <1>3 DEF P2PSide
<1>10. RelaySide'
  BY <1>1, <1>3 DEF RelaySide
<1>11. OnlyP2P'
  BY <1>1, <1>2 DEF OnlyP2P
<1>12. RelayNeedsRestart'
  <2>1. result = "up" => lives > 1
    BY <1>0, <1>1, <1>2 DEF Progress
  <2> QED
    BY <1>0, <1>1, <1>3, <2>1 DEF RelayNeedsRestart
<1>13. EndsForCause'
  BY <1>1 DEF EndsForCause
<1> QED
  BY <1>3, <1>4, <1>5, <1>6, <1>7, <1>8, <1>9, <1>10, <1>11, <1>12, <1>13 DEF IInv
-----------------------------------------------------------------------------
(***************************************************************************)
(* The loop.                                                               *)
(***************************************************************************)
LEMMA OwnHolds == IInv => OwnConnection
<1> SUFFICES ASSUME IInv, Looping, Untainted PROVE
      /\ channel \in DOMAIN sessionFd
      /\ FindCommunicationInstance(channel) = lives
      /\ cli_sockfd[lives] = channel
      /\ mode # 1 => /\ relayFd \in DOMAIN sessionFd
                     /\ FindCommunicationInstance(relayFd) = Member
                     /\ cli_sockfd[Member] = relayFd
  BY DEF OwnConnection
<1>1. /\ ~stale /\ Distinct /\ (mode # 1 => session["p2p"] # session["relay"])
      /\ DOMAIN comm \subseteq Keys
  BY DEF Untainted, IInv, TypeOK, TableTypeOK
<1>2. /\ channel \in DOMAIN sessionFd /\ sessionFd[channel] = "p2p"
      /\ "p2p" \in DOMAIN comm /\ comm["p2p"] = lives /\ cli_sockfd[lives] = channel
  BY <1>1 DEF IInv, P2PSide, Looping
<1>3. \A x \in DOMAIN comm : session[x] = session["p2p"] => x = "p2p"
  <2>1. CASE mode = 1
    BY <2>1 DEF IInv, OnlyP2P, Progress, Looping
  <2>2. CASE mode # 1
    BY <2>2, <1>1 DEF Keys
  <2> QED
    BY <2>1, <2>2
<1>4. FindCommunicationInstance(channel) = lives
  <2>1. Instance(comm, session, "p2p") = comm["p2p"]
    BY <1>2, <1>3, InstanceOf
  <2> QED
    BY <2>1, <1>2 DEF FindCommunicationInstance
<1>5. ASSUME mode # 1
      PROVE  /\ relayFd \in DOMAIN sessionFd
             /\ FindCommunicationInstance(relayFd) = Member
             /\ cli_sockfd[Member] = relayFd
  <2>1. /\ relayFd \in DOMAIN sessionFd /\ sessionFd[relayFd] = "relay"
        /\ "relay" \in DOMAIN comm /\ comm["relay"] = Member /\ cli_sockfd[Member] = relayFd
    BY <1>1, <1>5 DEF IInv, RelaySide, ObjectTable, Looping
  <2>2. \A x \in DOMAIN comm : session[x] = session["relay"] => x = "relay"
    BY <1>1, <1>5 DEF Keys
  <2>3. Instance(comm, session, "relay") = comm["relay"]
    BY <2>1, <2>2, InstanceOf
  <2> QED
    BY <2>1, <2>3 DEF FindCommunicationInstance
<1> QED
  BY <1>2, <1>4, <1>5

\* A descriptor that pulse has found readable belongs to one of the handlers,
\* unless the life is tainted; so the recv that fails is one of its socket.
LEMMA FailureHasCause ==
  ASSUME IInv, Looping, Untainted, ReceiveFails
  PROVE  \E fd \in DOMAIN sessionFd : sock[fd] \in {"broken", "free"}
<1> DEFINE fd == fd_A[pos]
<1>0. None \notin Objects /\ lives \in Objects /\ Member \in Objects
  BY NoneAssumption, LivesAssumption DEF IInv, TypeOK, Objects, Member
<1>1. /\ pos \in 1 .. Len(fd_A) /\ fd \in readSet
      /\ FindCommunicationInstance(fd) # None
           => sock[cli_sockfd[FindCommunicationInstance(fd)]] \in {"broken", "idle", "free"}
  BY DEF ReceiveFails, Serving, Source
<1>2. fd \in DOMAIN sessionFd /\ sock[fd] # "idle"
  <2>1. pos # 0
    BY <1>1 DEF IInv, TypeOK, TableTypeOK
  <2> QED
    BY <1>1, <2>1 DEF IInv, SelectSet
<1>3. fd \in {channel, relayFd}
  BY <1>2 DEF Untainted
<1>4. OwnConnection
  BY OwnHolds
<1> HIDE DEF fd
<1>5. CASE fd = channel
  <2>1. FindCommunicationInstance(fd) = lives /\ cli_sockfd[lives] = fd
    BY <1>4, <1>5 DEF OwnConnection
  <2> QED
    BY <1>0, <1>1, <1>2, <2>1
<1>6. CASE fd # channel
  <2>1. mode # 1
    BY <1>2, <1>6 DEF IInv, OnlyP2P, Progress, Looping
  <2>2. FindCommunicationInstance(fd) = Member /\ cli_sockfd[Member] = fd
    BY <1>3, <1>4, <1>6, <2>1 DEF OwnConnection
  <2> QED
    BY <1>0, <1>1, <1>2, <2>2
<1> QED
  BY <1>5, <1>6

LEMMA LoopHolds == ASSUME IInv, Loop PROVE IInv'
<1>0. /\ TypeOK /\ Progress /\ SelectSet /\ ObjectTable /\ Listed /\ P2PSide /\ RelaySide
      /\ OnlyP2P /\ NoDangling /\ RelayNeedsRestart
      /\ fd_A \in Seq(Fds) /\ pos \in Nat /\ readSet \subseteq Fds /\ DOMAIN sessionFd \subseteq Fds
  BY DEF IInv, TypeOK, TableTypeOK
<1>1. /\ Looping
      /\ UNCHANGED <<sock, peer, objects, session, lower, maps, fd_A>>
      /\ UNCHANGED <<mode, lives, channel, relayFd, stale>>
      /\ unread' \subseteq unread
  BY DEF Loop, PulseStep, Dispatch, PulseReturns, LoopEnds, SelectReadable, SkipFd, Receive,
    SelectNothing, ReceiveNothing, AllServed, SelectFails, ReceiveFails, sdk, link
<1>2. /\ readSet' \subseteq Fds /\ pos' \in Nat
      /\ pos' # 0 => phase' = phase /\ \A fd \in readSet' : fd \in DOMAIN sessionFd /\ sock[fd] # "idle"
  <2>1. CASE PulseStep /\ SelectReadable
    BY <1>0, <2>1 DEF PulseStep, SelectReadable, Readable, SelectSet, sdk
  <2>2. CASE PulseStep /\ SkipFd
    BY <1>0, <2>2 DEF PulseStep, SkipFd, SelectSet, sdk
  <2>3. CASE Dispatch
    BY <1>0, <2>3 DEF Dispatch, Receive, Serving, SelectSet
  <2>4. CASE PulseReturns \/ LoopEnds
    BY <1>0, <2>4 DEF PulseReturns, LoopEnds, SelectNothing, ReceiveNothing, AllServed, SelectFails,
      ReceiveFails
  <2> QED
    BY <2>1, <2>2, <2>3, <2>4 DEF Loop, PulseStep
<1>3. /\ phase' \in {"p2p", "relay", "ended"} /\ (mode = 1 => phase' # "relay")
      /\ relayAddr' \in BOOLEAN
      /\ phase' = "ended" => SelectFails \/ ReceiveFails
  <2>1. relayAddr \in BOOLEAN /\ (phase = "relay" => mode # 1)
    BY <1>0 DEF TypeOK, Progress
  <2> QED
    BY <1>1, <2>1 DEF Loop, PulseStep, Dispatch, PulseReturns, LoopEnds, NextTurn, Looping, sdk
<1>4. TypeOK'
  <2>1. TableTypeOK'
    BY <1>0, <1>1, <1>2 DEF TypeOK, TableTypeOK, objects, maps
  <2> QED
    BY <1>0, <1>1, <1>3, <2>1 DEF TypeOK, Phase
<1>5. Progress'
  BY <1>0, <1>1, <1>2, <1>3 DEF Progress, Started, Looping
<1>6. SelectSet'
  BY <1>0, <1>1, <1>2 DEF SelectSet, maps
<1>7. ObjectTable' /\ NoDangling' /\ Listed' /\ RelayNeedsRestart'
  BY <1>0, <1>1 DEF ObjectTable, NoDangling, Listed, RelayNeedsRestart, objects, maps
<1>8. P2PSide' /\ RelaySide'
  BY <1>0, <1>1, <1>3 DEF P2PSide, RelaySide, Distinct, Looping, objects, maps
<1>9. OnlyP2P'
  <2>1. ASSUME mode = 1 PROVE DOMAIN sessionFd = {channel} /\ DOMAIN comm = {"p2p"}
    BY <1>0, <1>1, <2>1 DEF OnlyP2P, Progress, Looping
  <2>2. ASSUME mode = 1, phase' = "ended" PROVE channel \in readSet'
    <3>1. CASE SelectFails
      BY <2>1, <2>2, <3>1 DEF SelectFails
    <3>2. CASE ReceiveFails
      <4>1. pos # 0 /\ fd_A[pos] \in readSet /\ readSet' = readSet
        BY <1>0, <3>2 DEF ReceiveFails, Serving
      <4>2. fd_A[pos] \in DOMAIN sessionFd
        BY <1>0, <4>1 DEF SelectSet
      <4> QED
        BY <2>1, <2>2, <4>1, <4>2
    <3> QED
      BY <1>3, <2>2, <3>1, <3>2
  <2> QED
    BY <1>1, <1>3, <2>1, <2>2 DEF OnlyP2P, maps
<1>10. EndsForCause'
  <2> SUFFICES ASSUME phase' = "ended", Untainted'
               PROVE  \E fd \in DOMAIN sessionFd' : sock'[fd] \in {"broken", "free"}
    BY DEF EndsForCause
  <2>1. Untainted
    BY <1>1 DEF Untainted, Distinct, maps
  <2>2. CASE SelectFails
    BY <1>0, <1>1, <2>2 DEF SelectFails, NotASocket, maps
  <2>3. CASE ReceiveFails
    BY <1>1, <2>1, <2>3, FailureHasCause DEF maps
  <2> QED
    BY <1>3, <2>2, <2>3
<1> QED
  BY <1>4, <1>5, <1>6, <1>7, <1>8, <1>9, <1>10 DEF IInv
-----------------------------------------------------------------------------
(***************************************************************************)
(* stop and the destructor.                                                *)
(***************************************************************************)
LEMMA StopHolds == ASSUME IInv, Stop PROVE IInv'
<1>1. /\ phase = "ended" /\ phase' = (IF mode = 1 THEN "stopP2P" ELSE "stopRelay")
      /\ UNCHANGED <<tableVars, mode, lives, channel, relayFd, relayAddr, stale>>
  BY DEF Stop
<1>2. TypeOK'
  BY <1>1 DEF IInv, TypeOK, TableTypeOK, tableVars, link, objects, maps, Phase
<1>3. Progress' /\ SelectSet' /\ ObjectTable' /\ Listed'
  BY <1>1 DEF IInv, Progress, Started, SelectSet, ObjectTable, Listed, Looping, tableVars, link,
    objects, maps
<1>4. P2PSide' /\ RelaySide' /\ OnlyP2P'
  BY <1>1 DEF IInv, P2PSide, RelaySide, OnlyP2P, Distinct, tableVars, link, objects, maps
<1>5. NoDangling' /\ RelayNeedsRestart' /\ EndsForCause'
  BY <1>1 DEF IInv, NoDangling, RelayNeedsRestart, EndsForCause, tableVars, link, objects, maps
<1> QED
  BY <1>2, <1>3, <1>4, <1>5 DEF IInv

LEMMA EndHolds ==
  ASSUME IInv, RelayLoginAborts \/ CleanUp \/ DeleteIOHandler \/ DeleteRelayHandler
  PROVE  IInv'
<1>1. /\ phase \in {"relayInit", "built", "ended", "stopped", "deleteIO", "deleteRelay"}
      /\ phase' \in {"deleteP2P", "deleteRelay", "deleted", "crashed"}
      /\ UNCHANGED <<tableVars, mode, lives, channel, relayFd, relayAddr, stale>>
  BY DEF RelayLoginAborts, CleanUp, DeleteIOHandler, DeleteRelayHandler
<1>2. TypeOK'
  BY <1>1 DEF IInv, TypeOK, TableTypeOK, tableVars, link, objects, maps, Phase
<1>3. Progress' /\ SelectSet' /\ ObjectTable' /\ Listed'
  BY <1>1 DEF IInv, Progress, Started, SelectSet, ObjectTable, Listed, Looping, tableVars, link,
    objects, maps
<1>4. P2PSide' /\ RelaySide' /\ OnlyP2P'
  BY <1>1 DEF P2PSide, RelaySide, OnlyP2P
<1>5. NoDangling' /\ RelayNeedsRestart' /\ EndsForCause'
  BY <1>1 DEF IInv, NoDangling, RelayNeedsRestart, EndsForCause, tableVars, link, objects, maps
<1> QED
  BY <1>2, <1>3, <1>4, <1>5 DEF IInv

\* Either of the uninit, when it does not crash, in the phases it may lead to.
LEMMA ClearHolds ==
  ASSUME IInv, NEW fd, ~ClearCrashes(fd), ClearIOFd(fd),
         phase \in {"stopRelay", "stopP2P", "deleteP2P"},
         phase' \in {"stopP2P", "stopped", "deleteIO"},
         phase' # "deleteIO" => phase # "deleteP2P",
         phase' = "stopP2P" => mode # 1,
         phase' = "stopped" => phase = "stopP2P" /\ fd = channel,
         channel' \in {channel, None}, relayFd' \in {relayFd, None},
         UNCHANGED <<mode, lives, relayAddr, stale>>
  PROVE  IInv'
<1>0. /\ TypeOK /\ TableTypeOK /\ Progress /\ SelectSet /\ ObjectTable /\ Listed /\ RelaySide
      /\ OnlyP2P /\ NoDangling /\ RelayNeedsRestart
  BY DEF IInv, TypeOK
<1>1. /\ sock' \in [Fds -> SocketState] /\ readSet' \subseteq readSet
      /\ DOMAIN sessionFd' \in SUBSET Fds /\ sessionFd' \in [DOMAIN sessionFd' -> Keys]
      /\ DOMAIN comm' \in SUBSET Keys /\ comm' \in [DOMAIN comm' -> Objects]
      /\ UNCHANGED <<peer, cli_sockfd, session, lower, fd_A, pos>>
      /\ \A f \in Fds : sock'[f] \in {sock[f], "free"}
      /\ \A f \in unread' : f \in unread /\ sock'[f] = sock[f]
      /\ DOMAIN sessionFd' \subseteq DOMAIN sessionFd
      /\ \A f \in DOMAIN sessionFd' : sessionFd'[f] = sessionFd[f]
      /\ DOMAIN comm' \subseteq DOMAIN comm
      /\ \A x \in DOMAIN comm' : comm'[x] = comm[x]
      /\ "relay" \in DOMAIN comm =>
           /\ "relay" \in DOMAIN comm'
           /\ \A f \in DOMAIN sessionFd : sessionFd[f] = "relay" => f \in DOMAIN sessionFd'
      /\ \/ deleted' = deleted
         \/ /\ "p2p" \in DOMAIN comm /\ "p2p" \notin DOMAIN comm'
            /\ deleted' = deleted \cup {comm["p2p"]}
      /\ fd \in readSet => fd \notin DOMAIN sessionFd' /\ "p2p" \notin DOMAIN comm'
  BY <1>0, Cleared
<1>2. TypeOK'
  <2>1. deleted' \in SUBSET Objects
    BY <1>0, <1>1 DEF TableTypeOK
  <2>2. TableTypeOK'
    BY <1>0, <1>1, <2>1 DEF TableTypeOK
  <2> QED
    BY <1>0, <2>2 DEF TypeOK, Phase
<1>3. Progress'
  BY <1>0, <1>1 DEF Progress, Started, Looping
<1>4. SelectSet'
  <2>1. pos' = 0
    BY <1>0, <1>1 DEF Progress, Looping
  <2> QED
    BY <1>0, <1>1, <2>1 DEF SelectSet
<1>5. ObjectTable'
  BY <1>0, <1>1 DEF ObjectTable
<1>6. NoDangling'
  <2> SUFFICES ASSUME NEW k \in DOMAIN comm' PROVE comm'[k] \notin deleted'
    BY DEF NoDangling
  <2>1. k \in DOMAIN comm /\ comm'[k] = comm[k] /\ comm[k] \notin deleted /\ k \in {"p2p", "relay"}
    BY <1>0, <1>1 DEF NoDangling, Keys
  <2>2. CASE deleted' = deleted
    BY <2>1, <2>2
  <2>3. CASE deleted' # deleted
    <3>1. k = "relay" /\ deleted' = deleted \cup {comm["p2p"]} /\ "p2p" \in DOMAIN comm
      BY <1>1, <2>1, <2>3
    <3>2. comm[k] = 0 /\ comm["p2p"] \in 1 .. lives
      BY <1>0, <2>1, <3>1 DEF ObjectTable, Member
    <3> QED
      BY <2>1, <3>1, <3>2
  <2> QED
    BY <2>2, <2>3
<1>7. Listed'
  BY <1>0, <1>1 DEF Listed
<1>8. P2PSide' /\ EndsForCause'
  BY DEF P2PSide, EndsForCause
<1>9. RelaySide'
  <2> SUFFICES ASSUME mode # 1, phase' \in {"stopP2P", "stopped"}
               PROVE  /\ "relay" \in DOMAIN comm'
                      /\ Distinct' => \E f \in DOMAIN sessionFd' : sessionFd'[f] = "relay"
    BY DEF RelaySide
  <2>1. /\ "relay" \in DOMAIN comm
        /\ Distinct => \E f \in DOMAIN sessionFd : sessionFd[f] = "relay"
    BY <1>0 DEF RelaySide
  <2>2. Distinct' => Distinct
    BY <1>1 DEF Distinct
  <2> QED
    BY <1>1, <2>1, <2>2
<1>10. OnlyP2P'
  <2> SUFFICES ASSUME mode = 1, phase' = "stopped"
               PROVE  DOMAIN sessionFd' = {} /\ DOMAIN comm' = {}
    BY DEF OnlyP2P
  <2>1. DOMAIN sessionFd = {channel} /\ DOMAIN comm = {"p2p"} /\ channel \in readSet
    BY <1>0 DEF OnlyP2P
  <2>2. channel \notin DOMAIN sessionFd' /\ "p2p" \notin DOMAIN comm'
    BY <1>1, <2>1
  <2>3. DOMAIN sessionFd' \subseteq {channel} /\ DOMAIN comm' \subseteq {"p2p"}
    BY <1>1, <2>1
  <2> QED
    BY <2>2, <2>3
<1>11. RelayNeedsRestart'
  BY <1>0, <1>1 DEF RelayNeedsRestart
<1> QED
  BY <1>2, <1>3, <1>4, <1>5, <1>6, <1>7, <1>8, <1>9, <1>10, <1>11 DEF IInv

\* Either of them, when it leaves the tables alone.
LEMMA CrashHolds ==
  ASSUME IInv, phase \in {"stopRelay", "stopP2P", "deleteP2P"},
         phase' \in {"crashed", "deleteIO", "stopped"},
         phase' = "stopped" => phase = "stopP2P" /\ mode # 1,
         channel' \in {channel, None}, relayFd' \in {relayFd, None},
         UNCHANGED <<tableVars, mode, lives, relayAddr, stale>>
  PROVE  IInv'
<1>1. TypeOK'
  BY DEF IInv, TypeOK, TableTypeOK, tableVars, link, objects, maps, Phase
<1>2. Progress' /\ SelectSet' /\ ObjectTable' /\ Listed'
  BY DEF IInv, Progress, Started, SelectSet, ObjectTable, Listed, Looping, tableVars, link,
    objects, maps
<1>3. P2PSide' /\ RelaySide' /\ OnlyP2P'
  BY DEF IInv, P2PSide, RelaySide, OnlyP2P, Distinct, tableVars, link, objects, maps
<1>4. NoDangling' /\ RelayNeedsRestart' /\ EndsForCause'
  BY DEF IInv, NoDangling, RelayNeedsRestart, EndsForCause, tableVars, link, objects, maps
<1> QED
  BY <1>1, <1>2, <1>3, <1>4 DEF IInv
-----------------------------------------------------------------------------
LEMMA NetworkHolds == ASSUME IInv, Network PROVE IInv'
<1>0. /\ TypeOK /\ TableTypeOK /\ Progress /\ SelectSet /\ ObjectTable /\ Listed /\ P2PSide
      /\ RelaySide /\ OnlyP2P /\ NoDangling /\ RelayNeedsRestart /\ EndsForCause
  BY DEF IInv, TypeOK
<1>1. UNCHANGED <<peer, objects, session, lower, maps, readSet, fd_A, pos, sdk>>
  BY DEF Network, Arrive, ServerCloses, Break
<1>2. /\ sock' \in [Fds -> SocketState] /\ unread' \subseteq Fds
      /\ \A f \in Fds : \/ sock'[f] = sock[f]
                        \/ sock[f] \in {"up", "eof"} /\ sock'[f] \in {"eof", "broken"}
      /\ \A f \in unread' : sock'[f] \in {"up", "eof"}
  <2>1. PICK fd \in Fds : Arrive(fd) \/ ServerCloses(fd) \/ Break(fd)
    BY DEF Network
  <2>2. sock \in [Fds -> SocketState] /\ unread \subseteq Fds /\ \A f \in unread : sock[f] \in {"up", "eof"}
    BY <1>0 DEF TableTypeOK, SelectSet
  <2>3. CASE Arrive(fd)
    BY <2>2, <2>3 DEF Arrive
  <2>4. CASE ServerCloses(fd)
    BY <2>2, <2>4 DEF ServerCloses, SocketState
  <2>5. CASE Break(fd)
    BY <2>2, <2>5 DEF Break, SocketState
  <2> QED
    BY <2>1, <2>3, <2>4, <2>5
<1>3. TypeOK'
  <2>1. TableTypeOK'
    BY <1>0, <1>1, <1>2 DEF TableTypeOK, objects, maps
  <2> QED
    BY <1>0, <1>1, <2>1 DEF TypeOK, sdk
<1>4. Progress' /\ ObjectTable' /\ Listed' /\ NoDangling'
  BY <1>0, <1>1 DEF Progress, Started, Looping, ObjectTable, Listed, NoDangling, objects, maps, sdk
<1>5. SelectSet'
  BY <1>0, <1>1, <1>2 DEF SelectSet, TableTypeOK, maps
<1>6. P2PSide' /\ RelaySide' /\ OnlyP2P'
  BY <1>0, <1>1 DEF P2PSide, RelaySide, OnlyP2P, Distinct, objects, maps, sdk
<1>7. RelayNeedsRestart'
  BY <1>0, <1>1, <1>2 DEF RelayNeedsRestart, sdk
<1>8. EndsForCause'
  <2> SUFFICES ASSUME phase = "ended", Untainted'
               PROVE  \E fd \in DOMAIN sessionFd : sock'[fd] \in {"broken", "free"}
    BY <1>1 DEF EndsForCause, maps, sdk
  <2>1. DOMAIN sessionFd \subseteq Fds
    BY <1>0 DEF TableTypeOK
  <2>2. Untainted
    <3>1. /\ ~stale /\ (mode # 1 => session["p2p"] # session["relay"]) /\ Distinct
          /\ \A fd \in DOMAIN sessionFd \ {channel, relayFd} : sock'[fd] = "idle"
      BY <1>1 DEF Untainted, Distinct, maps, sdk
    <3>2. \A fd \in DOMAIN sessionFd \ {channel, relayFd} : sock[fd] = "idle"
      BY <1>2, <2>1, <3>1
    <3> QED
      BY <3>1, <3>2 DEF Untainted
  <2>3. PICK fd \in DOMAIN sessionFd : sock[fd] \in {"broken", "free"}
    BY <1>0, <2>2 DEF EndsForCause
  <2>4. sock'[fd] \in {"broken", "free"}
    BY <1>2, <2>1, <2>3
  <2> QED
    BY <2>4
<1> QED
  BY <1>3, <1>4, <1>5, <1>6, <1>7, <1>8 DEF IInv

LEMMA NextHolds == IInv /\ [Next]_vars => IInv'
<1> SUFFICES ASSUME IInv, [Next]_vars PROVE IInv'
  OBVIOUS
<1>1. ASSUME NEW fd \in Fds, NEW result \in {"up", "idle", "free"},
             P2PInitNet(fd, result)
      PROVE  IInv'
  BY <1>1, P2PInitNetHolds
<1>2. ASSUME NEW fd \in Fds, NEW result \in {"up", "idle", "free"},
             RelayInitNet(fd, result, "own") \/ RelayInitNet(fd, result, "id")
      PROVE  IInv'
  <2>1. "own" \in {"own", "id"} /\ "id" \in {"own", "id"}
    OBVIOUS
  <2> QED
    BY <1>2, <2>1, RelayInitNetHolds
<1>3. CASE RelayLoginAborts \/ CleanUp \/ DeleteIOHandler \/ DeleteRelayHandler
  BY <1>3, EndHolds
<1>4. CASE Loop
  BY <1>4, LoopHolds
<1>5. CASE Stop
  BY <1>5, StopHolds
<1>6. CASE RelayUninit
  <2>1. mode # 1
    BY <1>6 DEF RelayUninit, IInv, Progress
  <2>2. CASE ClearCrashes(relayFd)
    BY <1>6, <2>2, CrashHolds DEF RelayUninit
  <2>3. CASE ~ClearCrashes(relayFd)
    <3>1. /\ ClearIOFd(relayFd) /\ phase = "stopRelay" /\ phase' = "stopP2P" /\ relayFd' = None
          /\ UNCHANGED <<mode, lives, channel, relayAddr, stale>>
      BY <1>6, <2>3 DEF RelayUninit
    <3> QED
      BY <2>1, <2>3, <3>1, ClearHolds
  <2> QED
    BY <2>2, <2>3
<1>7. CASE P2PUninit
  <2>1. CASE channel # None /\ ClearCrashes(channel)
    BY <1>7, <2>1, CrashHolds DEF P2PUninit
  <2>2. CASE channel # None /\ ~ClearCrashes(channel)
    <3>1. /\ ClearIOFd(channel) /\ phase \in {"stopP2P", "deleteP2P"} /\ channel' = None
          /\ phase' = (IF phase = "stopP2P" THEN "stopped" ELSE "deleteIO")
          /\ UNCHANGED <<mode, lives, relayFd, relayAddr, stale>>
      BY <1>7, <2>2 DEF P2PUninit
    <3> QED
      BY <2>2, <3>1, ClearHolds
  <2>3. CASE channel = None
    <3>1. /\ phase \in {"stopP2P", "deleteP2P"} /\ channel' = None
          /\ phase' = (IF phase = "stopP2P" THEN "stopped" ELSE "deleteIO")
          /\ UNCHANGED <<tableVars, mode, lives, relayFd, relayAddr, stale>>
      BY <1>7, <2>3 DEF P2PUninit
    <3>2. phase = "stopP2P" => mode # 1
      BY <2>3, NoneAssumption DEF IInv, TypeOK, TableTypeOK, OnlyP2P
    <3> QED
      BY <3>1, <3>2, CrashHolds
  <2> QED
    BY <2>1, <2>2, <2>3
<1>8. CASE Network
  BY <1>8, NetworkHolds
<1>9. CASE UNCHANGED vars
  <2>1. UNCHANGED <<sock, peer, unread, cli_sockfd, deleted, session, lower, sessionFd, comm>>
    BY <1>9 DEF vars, tableVars, link, objects, maps
  <2>2. UNCHANGED <<readSet, fd_A, pos, phase, mode, lives, channel, relayFd, relayAddr, stale>>
    BY <1>9 DEF vars, tableVars, sdk
  <2>3. TypeOK' /\ Progress' /\ SelectSet' /\ ObjectTable' /\ Listed'
    BY <2>1, <2>2 DEF IInv, TypeOK, TableTypeOK, Progress, Started, Looping, SelectSet, ObjectTable,
      Listed
  <2>4. P2PSide' /\ RelaySide' /\ OnlyP2P' /\ NoDangling' /\ RelayNeedsRestart'
    BY <2>1, <2>2 DEF IInv, P2PSide, RelaySide, OnlyP2P, Distinct, NoDangling, RelayNeedsRestart
  <2>5. EndsForCause'
    BY <2>1, <2>2 DEF IInv, EndsForCause, Untainted, Distinct
  <2> QED
    BY <2>3, <2>4, <2>5 DEF IInv
<1> QED
  BY <1>1, <1>2, <1>3, <1>4, <1>5, <1>6, <1>7, <1>8, <1>9 DEF Next

THEOREM InvCorrect == Spec => []IInv
  BY InitHolds, NextHolds, PTL DEF Spec

-----------------------------------------------------------------------------
\* Every reachable state of the tables and of the SDK is well typed.
THEOREM TypeCorrect == Spec => []TypeOK
<1> IInv => TypeOK
  BY DEF IInv
<1> QED
  BY InvCorrect, PTL

\* No entry of the connection table leads to an object that clearIOFd has
\* deleted, however often the SDK is started and stopped.
THEOREM DanglingCorrect == Spec => []NoDangling
<1> IInv => NoDangling
  BY DEF IInv
<1> QED
  BY InvCorrect, PTL

\* In an untainted life each handler is read through its own connection object.
THEOREM ConnectionCorrect == Spec => []OwnConnection
<1> QED
  BY InvCorrect, OwnHolds, PTL

\* In an untainted life the loop only ends for a connection that has failed.
THEOREM CauseCorrect == Spec => []EndsForCause
<1> IInv => EndsForCause
  BY DEF IInv
<1> QED
  BY InvCorrect, PTL

\* What stop leaves in the tables: nothing in mode 1, and always the connection
\* of the relay half.
THEOREM StopCorrect == Spec => []AfterStop
<1> IInv => AfterStop
  BY DEF IInv, OnlyP2P, RelaySide, ObjectTable, AfterStop
<1> QED
  BY InvCorrect, PTL

\* The relay half is never connected in the first life.
THEOREM RelayCorrect == Spec => []RelayNeedsRestart
<1> IInv => RelayNeedsRestart
  BY DEF IInv
<1> QED
  BY InvCorrect, PTL
===============================================================================
