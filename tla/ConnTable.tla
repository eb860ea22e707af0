------------------------------- MODULE ConnTable -------------------------------
(***************************************************************************)
(* The tables of the TCP connections (base/communication, IOHandler.cpp    *)
(* and TCPClientBaseCommunication.cpp) as the two users of them see them:  *)
(* the connection to the P2P server and the one to the relay server.       *)
(*                                                                         *)
(* A session id is a string in a buffer.  objMapSessionId_fd maps a        *)
(* descriptor to the buffer, objClientBaseCommunicationMap a buffer to the *)
(* connection object.  Both maps are keyed without regard to the string;   *)
(* the lookups compare strings.  There are two buffers for the life of the *)
(* program: m_szsessionId of the P2P handler's device information and      *)
(* szTemSessionID of the session manager's UAC information.                *)
(*                                                                         *)
(* The module builds on Windows only (fd_count, fd_array): sockets block,  *)
(* since setnonblocking does nothing there, and a descriptor number may be *)
(* used again once its socket is closed.                                   *)
(***************************************************************************)
EXTENDS Integers, Sequences, FiniteSets

CONSTANTS
  Fds,      \* descriptors
  Lives,    \* how often start is called at most
  None      \* NULL, no descriptor

ASSUME LivesAssumption == Lives \in Nat \ {0}
ASSUME NoneAssumption == None \notin Fds /\ None \notin 0 .. Lives

Keys == {"p2p", "relay"}      \* the two buffers; also names the two servers
Member == 0                   \* m_objTCPBaseCommunication of the relay handler
Objects == 0 .. Lives         \* and one object on the heap for each start

VARIABLES
  sock,        \* a descriptor is free, idle (never connected), up, or the
               \* server has closed (eof) or broken it
  peer,        \* the server behind it
  unread,      \* descriptors that data has arrived on
  cli_sockfd,  \* of each connection object
  deleted,     \* objects that were deleted
  session,     \* the string in each buffer: id, own or -1
  lower,       \* the buffer at the lower address, first in a map
  sessionFd,   \* objMapSessionId_fd
  comm,        \* objClientBaseCommunicationMap
  readSet,     \* _readSet
  fd_A,        \* with fdWriteSetSize = fdReadSetSize entries
  pos          \* i of the loop in pulse; 0 outside of it

link == <<sock, peer, unread>>
objects == <<cli_sockfd, deleted>>
maps == <<sessionFd, comm>>
tableVars == <<link, objects, session, lower, maps, readSet, fd_A, pos>>

SocketState == {"free", "idle", "up", "eof", "broken"}

TableTypeOK ==
  /\ sock \in [Fds -> SocketState]
  /\ peer \in [Fds -> Keys]
  /\ unread \in SUBSET Fds
  /\ cli_sockfd \in [Objects -> Fds \cup {None}]
  /\ deleted \in SUBSET Objects
  /\ session \in [Keys -> {"id", "own", "-1"}]
  /\ lower \in Keys
  /\ DOMAIN sessionFd \in SUBSET Fds /\ sessionFd \in [DOMAIN sessionFd -> Keys]
  /\ DOMAIN comm \in SUBSET Keys /\ comm \in [DOMAIN comm -> Objects]
  /\ readSet \in SUBSET Fds
  /\ fd_A \in Seq(Fds)
  /\ pos \in Nat

TableInit ==
  /\ sock = [fd \in Fds |-> "free"]
  /\ peer = [fd \in Fds |-> "p2p"]
  /\ unread = {}
  /\ cli_sockfd = [o \in Objects |-> None]
  /\ deleted = {}
  /\ session = [k \in Keys |-> IF k = "p2p" THEN "id" ELSE "own"]
  /\ lower \in Keys
  /\ sessionFd = << >>
  /\ comm = << >>
  /\ readSet = {}
  /\ fd_A = << >>
  /\ pos = 0

-----------------------------------------------------------------------------
(***************************************************************************)
(* Lookups.                                                                *)
(***************************************************************************)
\* std::map::insert: what is there already stays.
Insert(f, x, y) ==
  IF x \in DOMAIN f THEN f ELSE [z \in DOMAIN f \cup {x} |-> IF z = x THEN y ELSE f[z]]

ErasedNothing(f, S) == f    \* bug: the object is deleted, the entry stays
Erase(f, S) == [z \in DOMAIN f \ S |-> f[z]]

\* The entries of a connection map c that a search for the string in k matches.
MatchesAny(c, s, k) == DOMAIN c    \* bug: the strings are not compared
Matches(c, s, k) == {x \in DOMAIN c : s[x] = s[k]}

\* findCommunicationInstance(char*): the first match.
Instance(c, s, k) ==
  IF Matches(c, s, k) = {} THEN None
  ELSE c[IF lower \in Matches(c, s, k) THEN lower
         ELSE CHOOSE x \in Matches(c, s, k) : TRUE]

\* findCommunicationInstance(int), with findSessionIdByFd.
FindCommunicationInstance(fd) ==
  IF fd \in DOMAIN sessionFd THEN Instance(comm, session, sessionFd[fd]) ELSE None

-----------------------------------------------------------------------------
(***************************************************************************)
(* Opening: CTCPBaseCommunication::init, addReadSockFd, addWriteSockFd and *)
(* setClientCommunication, one after the other in both initNet.  Nobody    *)
(* looks at the result of init: it may have connected, failed to connect   *)
(* (the socket stays), or failed to bind (the socket is closed again).     *)
(***************************************************************************)
Open(k, o, fd, result) ==
  /\ sock[fd] = "free"
  /\ sock' = [sock EXCEPT ![fd] = result]
  /\ peer' = [peer EXCEPT ![fd] = k]
  /\ unread' = unread \ {fd}
  /\ cli_sockfd' = [cli_sockfd EXCEPT ![o] = fd]
  /\ readSet' = readSet \cup {fd}
  /\ fd_A' = Append(fd_A, fd)
  /\ sessionFd' = Insert(sessionFd, fd, k)
  /\ comm' = Insert(comm, k, o)
  /\ UNCHANGED <<deleted, lower, pos>>

-----------------------------------------------------------------------------
(***************************************************************************)
(* clearIOFd(int): does nothing unless the descriptor is in the set that   *)
(* select has left behind.  Every object found under the session's string  *)
(* is deleted, and closes its own descriptor once more.                    *)
(* Left out: closeSocket also calls WSACleanup                             *)
(* (TCPClientBaseCommunication.cpp:158), here once for the descriptor and  *)
(* once per deleted object, where init has called WSAStartup once.  After  *)
(* the last of them the library closes every socket of the process.  The   *)
(* other sockets are as the model has them as long as the host program     *)
(* holds a WSAStartup of its own.                                          *)
(***************************************************************************)
Victims(fd) == {comm[x] : x \in Matches(comm, session, sessionFd[fd])}

\* A call on NULL, or delete of an object that is not on the heap.
ClearCrashes(fd) ==
  /\ fd \in readSet
  /\ \/ FindCommunicationInstance(fd) = None
     \/ Member \in Victims(fd)

ClearIOFd(fd) ==
  /\ IF fd \in readSet
     THEN LET closed == {fd} \cup {cli_sockfd[o] : o \in Victims(fd)}
          IN /\ sock' = [f \in Fds |-> IF f \in closed THEN "free" ELSE sock[f]]
             /\ unread' = unread \ closed
             /\ deleted' = deleted \cup Victims(fd)
             /\ comm' = Erase(comm, Matches(comm, session, sessionFd[fd]))
             /\ sessionFd' = Erase(sessionFd, {fd})
             /\ readSet' = readSet \ {fd}
     ELSE UNCHANGED <<sock, unread, deleted, comm, sessionFd, readSet>>
  /\ UNCHANGED <<peer, cli_sockfd, session, lower, fd_A, pos>>

-----------------------------------------------------------------------------
(***************************************************************************)
(* pulse, called by the P2P and by the relay half: select, then one        *)
(* descriptor of fd_A after the other.                                     *)
(***************************************************************************)
Readable == {fd \in Fds : sock[fd] \in {"eof", "broken"} \/ fd \in unread}

\* One of the descriptors is not a socket: the set stays as pulse has filled it.
NotASocket == \E fd \in DOMAIN sessionFd : sock[fd] = "free"

SelectClears ==          \* bug: a failed select is taken to have cleared the set
  /\ pos = 0
  /\ NotASocket
  /\ readSet' = {}
  /\ UNCHANGED <<link, objects, session, lower, maps, fd_A, pos>>

SelectFails ==
  /\ pos = 0
  /\ NotASocket
  /\ readSet' = DOMAIN sessionFd
  /\ UNCHANGED <<link, objects, session, lower, maps, fd_A, pos>>

\* No connection, or nothing readable for 300 microseconds.
SelectNothing ==
  /\ pos = 0
  /\ ~NotASocket
  /\ DOMAIN sessionFd \cap Readable = {}
  /\ readSet' = IF DOMAIN sessionFd = {} THEN readSet ELSE {}
  /\ UNCHANGED <<link, objects, session, lower, maps, fd_A, pos>>

SelectReadable ==
  /\ pos = 0
  /\ ~NotASocket
  /\ DOMAIN sessionFd \cap Readable # {}
  /\ readSet' = DOMAIN sessionFd \cap Readable
  /\ pos' = 1
  /\ UNCHANGED <<link, objects, session, lower, maps, fd_A>>

Serving == pos \in 1 .. Len(fd_A) /\ fd_A[pos] \in readSet
\* The socket that recv is called on, by the object found for the descriptor.
Source == cli_sockfd[FindCommunicationInstance(fd_A[pos])]

SkipFd ==
  /\ pos \in 1 .. Len(fd_A) /\ fd_A[pos] \notin readSet
  /\ pos' = pos + 1
  /\ UNCHANGED <<link, objects, session, lower, maps, readSet, fd_A>>

\* recv returns data, which is dispatched.  Without any, it waits.
ReceiveReturns ==          \* bug: pulse returns after the first descriptor
  /\ Serving
  /\ FindCommunicationInstance(fd_A[pos]) # None
  /\ sock[Source] \in {"up", "eof"} /\ Source \in unread
  /\ unread' = unread \ {Source}
  /\ pos' = 0
  /\ UNCHANGED <<sock, peer, objects, session, lower, maps, readSet, fd_A>>

Receive ==
  /\ Serving
  /\ FindCommunicationInstance(fd_A[pos]) # None
  /\ sock[Source] \in {"up", "eof"} /\ Source \in unread
  /\ unread' = unread \ {Source}
  /\ pos' = pos + 1
  /\ UNCHANGED <<sock, peer, objects, session, lower, maps, readSet, fd_A>>

\* The server has closed: pulse returns true and leaves the others unread.
ReceiveNothing ==
  /\ Serving
  /\ FindCommunicationInstance(fd_A[pos]) # None
  /\ sock[Source] = "eof" /\ Source \notin unread
  /\ pos' = 0
  /\ UNCHANGED <<link, objects, session, lower, maps, readSet, fd_A>>

\* The end of the loop, where pulse returns true.
AllServed ==
  /\ pos = Len(fd_A) + 1
  /\ pos' = 0
  /\ UNCHANGED <<link, objects, session, lower, maps, readSet, fd_A>>

\* No object for the descriptor, or recv fails: pulse returns false.
ReceiveFailsAtEnd ==          \* bug: recv returning 0 is taken for an error
  /\ Serving
  /\ FindCommunicationInstance(fd_A[pos]) # None
       => sock[Source] \in {"broken", "idle", "free", "eof"}
  /\ pos' = 0
  /\ UNCHANGED <<link, objects, session, lower, maps, readSet, fd_A>>

ReceiveFails ==
  /\ Serving
  /\ FindCommunicationInstance(fd_A[pos]) # None
       => sock[Source] \in {"broken", "idle", "free"}
  /\ pos' = 0
  /\ UNCHANGED <<link, objects, session, lower, maps, readSet, fd_A>>

-----------------------------------------------------------------------------
(***************************************************************************)
(* The network: data arrives, the server closes, the connection breaks.    *)
(***************************************************************************)
Arrive(fd) ==
  /\ sock[fd] = "up" /\ fd \notin unread
  /\ unread' = unread \cup {fd}
  /\ UNCHANGED <<sock, peer, objects, session, lower, maps, readSet, fd_A, pos>>

ServerCloses(fd) ==
  /\ sock[fd] = "up"
  /\ sock' = [sock EXCEPT ![fd] = "eof"]
  /\ UNCHANGED <<peer, unread, objects, session, lower, maps, readSet, fd_A, pos>>

Break(fd) ==
  /\ sock[fd] \in {"up", "eof"}
  /\ sock' = [sock EXCEPT ![fd] = "broken"]
  /\ unread' = unread \ {fd}
  /\ UNCHANGED <<peer, objects, session, lower, maps, readSet, fd_A, pos>>
===============================================================================
