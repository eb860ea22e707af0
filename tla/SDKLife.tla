-------------------------------- MODULE SDKLife --------------------------------
(***************************************************************************)
(* The life of P2PDevSDK: start, the loop, stop, start again, destruction, *)
(* with the network part of P2PHandler and RelayHandler, on the connection *)
(* tables.  Mode 1 has no relay half; modes 2 and 3 have one.  The NAT     *)
(* half (modes 1 and 3) has no TCP connection and, as long as it knows no  *)
(* peer, no UDP socket either, so its turns change nothing here and mode 3 *)
(* is mode 2.                                                              *)
(***************************************************************************)
EXTENDS ConnTable

CONSTANT Modes   \* of m_nMode: a subset of 1 .. 3

VARIABLES
  phase,      \* where the program is
  mode,       \* m_nMode
  lives,      \* how often start was called
  channel,    \* the descriptor in objChannelInfoMap; None if that is empty
  relayFd,    \* the descriptor in m_SessionIdFdMap; None if that is empty
  relayAddr,  \* m_szRelayIP and m_nRelayPort were received
  \* What follows only records the past.
  stale       \* the tables still had a P2P connection when start was called last

sdk == <<phase, mode, lives, channel, relayFd, relayAddr, stale>>
vars == <<tableVars, sdk>>

Phase == {"built", "relayInit", "p2p", "relay", "ended", "stopRelay", "stopP2P",
          "stopped", "deleteP2P", "deleteIO", "deleteRelay", "deleted",
          "crashed"}
Looping == phase \in {"p2p", "relay"}

TypeOK ==
  /\ TableTypeOK
  /\ phase \in Phase
  /\ mode \in Modes
  /\ lives \in 0 .. Lives
  /\ channel \in Fds \cup {None}
  /\ relayFd \in Fds \cup {None}
  /\ relayAddr \in BOOLEAN
  /\ stale \in BOOLEAN

Init ==
  /\ TableInit
  /\ phase = "built"
  /\ mode \in Modes
  /\ lives = 0
  /\ channel = None
  /\ relayFd = None
  /\ relayAddr = FALSE
  /\ stale = FALSE

-----------------------------------------------------------------------------
(***************************************************************************)
(* start: P2PDevSDK::init and P2PHandler::initNet, then for modes 2 and 3  *)
(* RelayHandler::initNet, then the loop.                                   *)
(*                                                                         *)
(* createSessionID draws from a generator seeded with the time in seconds. *)
(* The P2P session id is drawn when the SDK is built and is -1 after stop. *)
(***************************************************************************)
ClosedAsZero(n) == IF n = 0 THEN "id" ELSE "0"     \* bug: closed sessions are 0
P2PSession(n) == IF n = 0 THEN "id" ELSE "-1"

P2PInitNet(fd, result) ==
  /\ phase \in {"built", "stopped"}
  /\ lives < Lives
  /\ lives' = lives + 1
  /\ session' = [session EXCEPT !["p2p"] = P2PSession(lives)]
  /\ Open("p2p", lives', fd, result)
  /\ channel' = fd
  /\ stale' = ("p2p" \in DOMAIN comm)
  /\ phase' = IF mode = 1 THEN "p2p" ELSE "relayInit"
  /\ UNCHANGED <<mode, relayFd, relayAddr>>

\* Drawn in the same second, the relay session id is equal to the P2P one.
\* The requests that are sent here go to whatever connection the lookup finds.
RelayConfigured(result) == TRUE     \* bug: the address is also taken from the caller
\* Without an address of the relay server, connect fails.
RelayResult(result) == result = "up" => relayAddr

RelayInitNet(fd, result, id) ==
  /\ phase = "relayInit"
  /\ RelayResult(result)
  /\ session' = [session EXCEPT !["relay"] = id]
  /\ Open("relay", Member, fd, result)
  /\ relayFd' = fd
  /\ phase' = "p2p"
  /\ UNCHANGED <<mode, lives, channel, relayAddr, stale>>

\* loginUpSvr prints the empty name of the peer into a buffer of 0 bytes.  That
\* ends the program, unless its host has installed a handler that returns.
RelayLoginAborts ==
  /\ phase = "relayInit"
  /\ phase' = "crashed"
  /\ UNCHANGED <<tableVars, mode, lives, channel, relayFd, relayAddr, stale>>

-----------------------------------------------------------------------------
(***************************************************************************)
(* run: a turn of the P2P half, then one of the relay half.                *)
(***************************************************************************)
NextTurn == IF phase = "p2p" /\ mode # 1 THEN "relay" ELSE "p2p"

\* Steps inside of pulse.
PulseStep ==
  /\ Looping
  /\ SelectReadable \/ SkipFd
  /\ UNCHANGED sdk

\* A message of the P2P server may be the MsgResponse1 with the relay address.
Dispatch ==
  /\ Looping
  /\ Receive
  /\ relayAddr' \in IF peer[Source] = "p2p" THEN {relayAddr, TRUE} ELSE {relayAddr}
  /\ UNCHANGED <<phase, mode, lives, channel, relayFd, stale>>

PulseReturns ==
  /\ Looping
  /\ SelectNothing \/ ReceiveNothing \/ AllServed
  /\ phase' = NextTurn
  /\ UNCHANGED <<mode, lives, channel, relayFd, relayAddr, stale>>

\* pulse returns false: so do both runs, and start returns.
LoopEnds ==
  /\ Looping
  /\ SelectFails \/ ReceiveFails
  /\ phase' = "ended"
  /\ UNCHANGED <<mode, lives, channel, relayFd, relayAddr, stale>>

Loop == PulseStep \/ Dispatch \/ PulseReturns \/ LoopEnds

-----------------------------------------------------------------------------
(***************************************************************************)
(* stop, once start has returned.                                          *)
(***************************************************************************)
Stop ==
  /\ phase = "ended"
  /\ phase' = IF mode = 1 THEN "stopP2P" ELSE "stopRelay"
  /\ UNCHANGED <<tableVars, mode, lives, channel, relayFd, relayAddr, stale>>

\* RelayHandler::uninit; the object of its connection is a member.
RelayUninit ==
  /\ phase = "stopRelay"
  /\ IF ClearCrashes(relayFd)
     THEN phase' = "crashed" /\ UNCHANGED <<tableVars, relayFd>>
     ELSE phase' = "stopP2P" /\ relayFd' = None /\ ClearIOFd(relayFd)
  /\ UNCHANGED <<mode, lives, channel, relayAddr, stale>>

\* P2PHandler::uninit, in stop and in the destructor.
P2PUninit ==
  /\ phase \in {"stopP2P", "deleteP2P"}
  /\ IF channel # None /\ ClearCrashes(channel)
     THEN phase' = "crashed" /\ UNCHANGED <<tableVars, channel>>
     ELSE /\ phase' = IF phase = "stopP2P" THEN "stopped" ELSE "deleteIO"
          /\ channel' = None
          /\ IF channel = None THEN UNCHANGED tableVars ELSE ClearIOFd(channel)
  /\ UNCHANGED <<mode, lives, relayFd, relayAddr, stale>>

-----------------------------------------------------------------------------
(***************************************************************************)
(* cleanUp, when no call is active.  SessionManager and NatCrossHelper go  *)
(* first; the handlers keep their pointers to them.                        *)
(***************************************************************************)
CleanUp ==
  /\ phase \in {"built", "ended", "stopped"}
  /\ phase' = "deleteP2P"
  /\ UNCHANGED <<tableVars, mode, lives, channel, relayFd, relayAddr, stale>>

\* ~CIOHandler.  For each descriptor of the set it takes the session out of one
\* table and then looks it up there for the other: a comparison with NULL,
\* unless the other table is empty, and then there is nothing to close either.
DeleteIOHandler ==
  /\ phase = "deleteIO"
  /\ phase' = IF readSet # {} /\ DOMAIN comm # {} THEN "crashed" ELSE "deleteRelay"
  /\ UNCHANGED <<tableVars, mode, lives, channel, relayFd, relayAddr, stale>>

\* ~RelayHandler: uninit uses the session manager and, for its connection, the
\* tables, all of which are deleted.
DeleteRelayHandler ==
  /\ phase = "deleteRelay"
  /\ phase' \in {"deleted", "crashed"}
  /\ UNCHANGED <<tableVars, mode, lives, channel, relayFd, relayAddr, stale>>

-----------------------------------------------------------------------------
Network ==
  /\ phase \notin {"deleteIO", "deleteRelay", "deleted", "crashed"}
  /\ \E fd \in Fds : Arrive(fd) \/ ServerCloses(fd) \/ Break(fd)
  /\ UNCHANGED sdk

Next ==
  \/ \E fd \in Fds, result \in {"up", "idle", "free"} :
       \/ P2PInitNet(fd, result)
       \/ RelayInitNet(fd, result, "own")
       \/ RelayInitNet(fd, result, "id")
  \/ RelayLoginAborts
  \/ Loop
  \/ Stop
  \/ RelayUninit
  \/ P2PUninit
  \/ CleanUp
  \/ DeleteIOHandler
  \/ DeleteRelayHandler
  \/ Network

\* The loop runs on a thread of its own.
Spec == Init /\ [][Next]_vars /\ WF_vars(Loop)

-----------------------------------------------------------------------------
(***************************************************************************)
(* Properties.                                                             *)
(***************************************************************************)
\* What takes the separation of the two connections away: an earlier life that
\* has left its P2P connection or a live one of the relay half in the tables,
\* equal session ids, a descriptor number that is listed twice.
Distinct == \A i, j \in DOMAIN fd_A : fd_A[i] = fd_A[j] => i = j

Untainted ==
  /\ ~stale
  /\ \A fd \in DOMAIN sessionFd \ {channel, relayFd} : sock[fd] = "idle"
  /\ mode # 1 => session["p2p"] # session["relay"]
  /\ Distinct

\* clearIOFd deletes connection objects that both tables, and the handlers with
\* their descriptors, may still lead to: whatever the
\* session ids are, no entry is ever left for an object that was deleted.
NoDangling == \A k \in DOMAIN comm : comm[k] \notin deleted

\* The lookups compare strings although the tables are keyed by buffers.  In an
\* untainted life the loop reads each descriptor that a handler holds through
\* the object that handler has opened it with, never through the other one's.
OwnConnection ==
  Looping /\ Untainted =>
    /\ channel \in DOMAIN sessionFd
    /\ FindCommunicationInstance(channel) = lives
    /\ cli_sockfd[lives] = channel
    /\ mode # 1 => /\ relayFd \in DOMAIN sessionFd
                   /\ FindCommunicationInstance(relayFd) = Member
                   /\ cli_sockfd[Member] = relayFd

\* start only returns to its caller, and with it both halves only stop, when a
\* connection has failed: a server that closes properly never ends the loop.
EndsForCause ==
  phase = "ended" /\ Untainted =>
    \E fd \in DOMAIN sessionFd : sock[fd] \in {"broken", "free"}

\* What stop leaves in the tables.  In mode 1 nothing, for only the failure of
\* the one connection ends the loop, and that leaves it in the set clearIOFd
\* looks at.  The connection of the relay half always stays: clearing it would
\* have deleted an object that is a part of the handler.
AfterStop ==
  phase = "stopped" =>
    IF mode = 1 THEN DOMAIN sessionFd = {} /\ DOMAIN comm = {}
    ELSE /\ "relay" \in DOMAIN comm /\ comm["relay"] = Member
         /\ Distinct => \E fd \in DOMAIN sessionFd : sessionFd[fd] = "relay"

\* The address of the relay server arrives on the P2P connection, which is not
\* read before initNet of the relay half has tried to connect: no relay
\* connection is ever established in the first life of the program.
RelayNeedsRestart ==
  \A fd \in Fds : sock[fd] \in {"up", "eof"} /\ peer[fd] = "relay" => lives > 1

\* Liveness: what arrives on a connection is read while the loop runs, unless a
\* server before it in the list has closed: recv returning 0 ends every pulse.
Waiting(fd) == Looping /\ Untainted /\ fd \in unread
Shadowed(fd) == \E i, j \in DOMAIN fd_A : i < j /\ fd_A[j] = fd /\ sock[fd_A[i]] = "eof"

ReadableServed ==
  /\ Waiting(channel) ~> (~Waiting(channel) \/ Shadowed(channel))
  /\ Waiting(relayFd) ~> (~Waiting(relayFd) \/ Shadowed(relayFd))
===============================================================================
