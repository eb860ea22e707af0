------------------------------ MODULE MsgStream ------------------------------
(***************************************************************************)
(* The messages of the P2P server between the socket and the handler.  TCP *)
(* gives no message boundaries and the SDK keeps nothing between two calls *)
(* of recv: whatever one recv returns is split at "\nlen:", and each piece *)
(* is read alone, first its head, then its XML along a template.           *)
(*                                                                         *)
(* The stream is a sequence of messages of nine parts each:                *)
(*                                                                         *)
(*     l | en: | 12 | 3 | \ntype:T\n | <?xml ... ?> | \n<T>... </T | > | \n *)
(*     1    2    3    4        5            6              7         8   9 *)
(*                                                                         *)
(* A recv may end anywhere.  Ending inside a part has the outcome of       *)
(* ending before or after it, so only the ends of parts are told apart.    *)
(***************************************************************************)
EXTENDS Integers, Sequences

CONSTANTS Kinds,     \* the types of message the server sends
          Messages,  \* bound: how many it sends
          MaxRecv    \* MAX_MSG_SIZE: what one recv takes, in parts

(***************************************************************************)
(* The templates of the parse functions: 0 is the root, 4 a child of it,   *)
(* 9 a child of the group (-1) of second level.                            *)
(***************************************************************************)
MsgResponseTemplate ==
  [MsgResponse |-> 0, sessionId |-> 4, Status |-> -1, statusCode |-> 9, statusStr |-> 9]

MsgResponse1Template ==
  [MsgResponse1 |-> 0, sessionId |-> 4, relayIP |-> 4, relayPort |-> 4,
   Status |-> -1, statusCode |-> 9, statusStr |-> 9]

HeartbeatTemplate ==
  [Heartbeat |-> 0, sessionId |-> 4, Status |-> -1, statusCode |-> 9, statusStr |-> 9]

\* bug: the address of the relay is expected in every first answer.
P2pResponse1TemplateWithRelay ==
  [P2pResponse1 |-> 0, sessionId |-> 4, relayIP |-> 4, relayPort |-> 4,
   Status |-> -1, statusCode |-> 9, statusStr |-> 9]

P2pResponse1Template ==
  [P2pResponse1 |-> 0, sessionId |-> 4, Status |-> -1, statusCode |-> 9, statusStr |-> 9]

P2pResponse2Template ==
  [P2pResponse2 |-> 0, sessionId |-> 4, destUUID |-> 4, srcUUID |-> 4,
   localIP |-> 4, localPort |-> 4, remoteIP |-> 4, remotePort |-> 4,
   Status |-> -1, statusCode |-> 9, statusStr |-> 9]

UpdateP2pRetTemplate ==
  [UpdateP2pRet |-> 0, Status |-> -1, sessionId |-> 9, statusCode |-> 9, statusStr |-> 9]

RelayResponseTemplate ==
  [RelayResponse |-> 0, sessionId |-> 4, destUUID |-> 4, srcUUID |-> 4,
   relayIP |-> 4, relayPort |-> 4, protocolType |-> 4,
   Status |-> -1, statusCode |-> 9, statusStr |-> -9]

\* parseDispatcher: the types it parses, each with the template of the function
\* it calls.  A message of another type reaches the handler without parameters.
ParsedAs ==
  [P2pHeartbeat |-> HeartbeatTemplate, Heartbeat |-> HeartbeatTemplate,
   MsgResponse1 |-> MsgResponse1Template, P2pResponse1 |-> P2pResponse1Template,
   MsgResponse |-> MsgResponseTemplate, P2pResponse2 |-> P2pResponse2Template,
   RelayResponse |-> RelayResponseTemplate, UpdateP2pRet |-> UpdateP2pRetTemplate]

(***************************************************************************)
(* The messages as CommunicationMsgOperater.h shows them: the children of  *)
(* the root, which has the name of the type, and of its element Status.    *)
(***************************************************************************)
Result == {"statusCode", "statusStr"}
Addresses == {"sessionId", "destUUID", "srcUUID", "localIP", "localPort",
              "remoteIP", "remotePort"}
Document ==
  [MsgResponse   |-> [root |-> {"sessionId"}, status |-> Result],
   MsgResponse1  |-> [root |-> {"sessionId", "relayIP", "relayPort"}, status |-> Result],
   Heartbeat     |-> [root |-> {"sessionId", "uuid"}, status |-> Result],
   P2pHeartbeat  |-> [root |-> {"sessionId", "uuid"}, status |-> Result],
   P2pResponse1  |-> [root |-> {"sessionId"}, status |-> Result],
   P2pResponse2  |-> [root |-> Addresses, status |-> Result],
   P2pRequest    |-> [root |-> Addresses \cup {"natType", "step", "streamInfo"}, status |-> {}],
   P2pClose      |-> [root |-> {"sessionId", "uuid"}, status |-> {}],
   RelayResponse |-> [root |-> Addresses, status |-> Result],
   UpdateP2pRet  |-> [root |-> {}, status |-> Result \cup {"sessionId"}]]

ASSUME KindsAssumption == Kinds \subseteq DOMAIN Document
ASSUME BoundsAssumption == Messages \in Nat /\ MaxRecv \in Nat \ {0}

\* initList: what a number of a template stands for; the numbers it does not
\* know make a group.
Level(code) == CASE code = 0 -> "root"
                 [] code \in 1 .. 5 -> "child"
                 [] code \in 6 .. 10 -> "second"
                 [] OTHER -> "group"
Names(template, level) == {e \in DOMAIN template : Level(template[e]) = level}

\* parseXML follows the template through the document and uses every element
\* without a look at whether it was found.  A group is looked up inside the group
\* before it, where the documents have none.
Fits(t) ==
  LET template == ParsedAs[t] IN
  /\ Names(template, "root") = {t}
  /\ Names(template, "child") \subseteq Document[t].root
  /\ Names(template, "group") = {"Status"}
  /\ Names(template, "second") \subseteq Document[t].status

VARIABLES
  sent,     \* the types of the messages sent so far
  got,      \* how many parts recv has returned so far
  from,     \* the first part that is not dispatched; got + 1 if there is none
  applied,  \* the messages handed over with their parameters
  died,     \* a NULL element was used
  spoilt    \* history: the messages that the end of a recv has damaged

vars == <<sent, got, from, applied, died, spoilt>>

Size == 9
At(m, part) == Size * (m - 1) + part
MsgOf(p) == ((p - 1) \div Size) + 1
PartOf(p) == ((p - 1) % Size) + 1

\* split: the buffer is cut at each "\nlen:", which is the last part of a message
\* and the first two of the next one.  The piece that starts at `from` ends before
\* the first of them that is in the buffer.
NextPiece == At(MsgOf(from) + 1, 3)
Splits == NextPiece <= got + 1
PieceEnd == IF Splits THEN NextPiece - 4 ELSE got
\* bug: the position after the separator is one too far.
AfterPieceSkips == IF Splits THEN NextPiece + 1 ELSE got + 1
AfterPiece == IF Splits THEN NextPiece ELSE got + 1

\* bug: only the first format is tried.
HeadedByFirstFormat == PartOf(from) = 1 /\ PieceEnd >= At(MsgOf(from), 5)

\* process_checkHead finds the type if the piece has something of the length in
\* front of it: "len:123" (XML_HEAD2) or what is left of it (XML_HEAD3).
Headed == PartOf(from) <= 4 /\ PieceEnd >= At(MsgOf(from), 5)

\* XMLDocument::Parse accepts a declaration alone and a document that is
\* complete; anything after it but white space is an error.
DeclarationOnly == PieceEnd = At(MsgOf(from), 6)
Complete == PieceEnd \in {At(MsgOf(from), 8), At(MsgOf(from), 9)}

Init ==
  /\ sent = <<>> /\ got = 0 /\ from = 1
  /\ applied = <<>> /\ died = FALSE /\ spoilt = {}

\* The server: a message that assemble_XmlHead could have written.
Send(t) ==
  /\ ~died /\ Len(sent) < Messages
  /\ sent' = Append(sent, t)
  /\ UNCHANGED <<got, from, applied, died, spoilt>>

\* A recv that takes the parts first .. last damages the message it ends in, if
\* the number was complete and the XML is not, and the one before the tag "len:"
\* it ends in.
Damaged(first, last) ==
  {m \in DOMAIN sent : \/ last \in At(m, 4) .. At(m, 7)
                       \/ last = At(m + 1, 1) /\ first <= At(m, 8)}

\* recvData: what has arrived, up to MAX_MSG_SIZE.
Receive ==
  /\ ~died /\ from > got
  /\ \E n \in 1 .. MaxRecv :
       /\ got + n <= Size * Len(sent)
       /\ got' = got + n
       /\ spoilt' = spoilt \cup Damaged(got + 1, got + n)
  /\ UNCHANGED <<sent, from, applied, died>>

\* One turn of the loop of parseDispatcher.
Dispatch ==
  /\ ~died /\ from <= got
  /\ LET m == MsgOf(from)
         parsed == Headed /\ sent[m] \in DOMAIN ParsedAs
     IN IF parsed /\ (DeclarationOnly \/ (Complete /\ ~Fits(sent[m])))
        THEN died' = TRUE /\ UNCHANGED <<from, applied>>
        ELSE /\ from' = AfterPiece
             /\ applied' = IF parsed /\ Complete THEN Append(applied, m) ELSE applied
             /\ UNCHANGED died
  /\ UNCHANGED <<sent, got, spoilt>>

Next == (\E t \in Kinds : Send(t)) \/ Receive \/ Dispatch

Spec == Init /\ [][Next]_vars

(***************************************************************************)
(* Properties                                                              *)
(***************************************************************************)
\* What is dispatched has been received, and what is received has been sent.
TypeOK ==
  /\ sent \in Seq(Kinds) /\ Len(sent) <= Messages
  /\ got \in 0 .. Size * Len(sent) /\ from \in 1 .. got + 1
  /\ applied \in Seq(DOMAIN sent)
  /\ died \in BOOLEAN /\ spoilt \subseteq DOMAIN sent

\* The end of a recv costs the message it damages and no other: the stream is
\* read again from the next head on.  Every other message that the dispatcher
\* parses reaches the handler with its parameters, once, in the order sent.
Due(m) == m \notin spoilt /\ sent[m] \in DOMAIN ParsedAs /\ At(m, 8) < from
AppliedExactly ==
  /\ \A m \in DOMAIN sent : (\E i \in DOMAIN applied : applied[i] = m) <=> Due(m)
  /\ \A i, j \in DOMAIN applied : i < j => applied[i] < applied[j]

\* The process dies of a message only when a recv ended between the declaration
\* and the root, or of the two types whose templates do not fit their messages:
\* P2pHeartbeat, parsed as a Heartbeat, and RelayResponse.
DiesForCause ==
  died => PartOf(got) = 6 \/ sent[MsgOf(from)] \in {"P2pHeartbeat", "RelayResponse"}
=============================================================================
