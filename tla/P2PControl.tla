------------------------------ MODULE P2PControl ------------------------------
(***************************************************************************)
(* The control loop of a device in mode 1 (P2P): P2PDevSDK::start calls    *)
(* P2PHandler::run and NatCrossHelper::run in turn, for ever, on one       *)
(* thread.  One iteration of the loop is                                   *)
(*                                                                         *)
(*   timer    -> pulse -> dispatch* -> request -> response2   P2PHandler   *)
(*   nat      -> natTimer                                     NatCross     *)
(*                                                                         *)
(* The two halves talk through the Reporter base class of NatCrossHelper:  *)
(* the P2P half leaves what the server said in a mailbox of ONE slot       *)
(* (msgType, status), which the NAT half reads only in the steps that call *)
(* Notify1; the NAT half pushes a copy of its router information into the  *)
(* P2P half with Notify2.  Between two steps of the loop the connection to *)
(* the P2P server may change and the 30 seconds of the timer may elapse.   *)
(*                                                                         *)
(* There is one session and one TCP connection, as P2PDevSDK::init sets up.*)
(***************************************************************************)
EXTENDS Integers

CONSTANTS
  Codes,      \* the statusCode values the server puts into its answers
  MaxBatch    \* how many messages one recv of 1024 bytes can hold

ASSUME CodesAssumption == Codes \subseteq Int /\ 0 \in Codes
ASSUME MaxBatchAssumption == MaxBatch \in Nat \ {0}

VARIABLES
  phase,             \* where the loop is
  due,               \* more than 30 s have passed since the timer last fired
  link,              \* the TCP connection to the P2P server, see Links
  left,              \* messages of the current recv not dispatched yet
  hearBeatStatus,    \* objP2PHearBeat: -1 after setDeviceInfo, then 0 or 1
  msgType,           \* Reporter::m_szMsgType, the mailbox slot ...
  status,            \* ... and Reporter::m_nstatus
  stunSvr,           \* whose address m_szStunSvrIP holds: "stun" or "relay"
  uac2Known,         \* SessionManager holds a peer (UAC2 vectors non-empty)
  beatHoleStep,      \* NatCrossHelper::m_nbeatHoleStep
  routerInfo,        \* Reporter::m_objRouterInfo of the NAT half
  p2pRouterInfo,     \* P2PHandler::m_objRouterInfo, the copy
  bRouterInfoParamIsChanged,   \* a P2pRequest is to be sent
  bNatBeatHoleResult,          \* a P2pResponse2 is to be sent
  \* What follows only records the past; no step of the code reads it.
  registration,      \* what became of UpdateDevInfo
  asked,             \* a P2pRequest has been put on the wire
  told,              \* last statusCode put on the wire with a P2pResponse2
  notice,            \* type of the message that last wrote the mailbox
  refused,           \* a P2pResponse2 with a non-zero code was ever handled
  silent,            \* nothing was received since the last Heartbeat sent
  owed               \* calls of Notify2 minus attempts to send a P2pRequest

linkVars   == <<link, left>>
boxVars    == <<msgType, status, uac2Known>>
natVars    == <<beatHoleStep, routerInfo>>
reportVars == <<p2pRouterInfo, bRouterInfoParamIsChanged, bNatBeatHoleResult>>
serverVars == <<stunSvr, registration, silent>>
pastVars   == <<asked, told, notice, refused, owed>>
vars == <<phase, due, linkVars, hearBeatStatus, boxVars, natVars, reportVars,
          serverVars, pastVars>>

Phases == {"timer", "pulse", "dispatch", "request", "response2", "nat",
           "natTimer", "ended"}

\* "up"      sends succeed
\* "stalled" sends fail for now (no buffer space), reads work
\* "closed"  the server has closed: recv returns 0, a send may still succeed
\* "quiet"   connect failed in initNet: sends fail, never readable
\* "broken"  select or recv fail
\* "none"    clearIOFd has removed the connection from CIOHandler's tables
Links == {"up", "stalled", "closed", "quiet", "broken", "none"}

\* NatConst.h; BEATEND has no case in NatCrossHelper::run.
Steps == {"NATINFOISINVALID", "GETNATTYPE", "GETREMOTEADDR", "STARTBEATHOLE",
          "BEATHOLEFAILED", "DEVICEISOFFLINE", "UDPCONNECT", "HEARTBEAT",
          "KEEPALIVE", "BEATEND"}

\* getNatBeatHoleResult(), and the server that saw the announced address.
RouterInfos == [result : {-100, -1, 1}, seenBy : {"nobody", "stun", "relay"}]

-----------------------------------------------------------------------------
(***************************************************************************)
(* The messages of the P2P server.                                         *)
(***************************************************************************)
Coded   == {"MsgResponse1", "MsgResponse2", "P2pResponse1", "P2pResponse2"}
Uncoded == {"MsgResponse", "Heartbeat", "P2pRequest", "P2pClose", "UpdateP2pRet"}

Messages == [type : Coded, code : Codes] \cup [type : Uncoded, code : {0}]

\* The server answers an UpdateDevInfo and a P2pRequest only after it got one;
\* whatever a peer starts (P2pRequest, P2pResponse2) may come at any time.
MayArrive(m) ==
  /\ m.type = "MsgResponse1" => registration = "sent"
  /\ m.type = "P2pResponse1" => asked

\* parseDispatcher fills the entity for these types only.  For any other the
\* entity stays empty, so its "sessionId" is empty and no session matches it.
ParsedWithPeers(m) ==        \* bug: a dispatcher that also parses P2pRequest
  m.type \notin {"MsgResponse2", "P2pClose"}
Parsed(m) == m.type \in {"MsgResponse", "MsgResponse1", "Heartbeat",
                         "P2pResponse1", "P2pResponse2", "UpdateP2pRet"}

\* getParamValue returns one static buffer: what an earlier call returned now
\* reads as the value of the latest call, the empty string for a parameter not in the message.
Aliased(earlier, latest) == latest
ParamOf(name) == IF name \in {"sessionId", "relayIP", "relayPort", "statusCode"}
                 THEN name ELSE "emptyString"

\* findCommunicationInstance(session) followed by sendData with its resends:
\* the possible outcomes of sending on the session named by the argument.
SendOutcomes(session) ==
  CASE session # "sessionId" \/ link \in {"stalled", "quiet", "broken", "none"}
         -> {FALSE}
    [] session = "sessionId" /\ link = "up" -> {TRUE}
    [] OTHER -> {TRUE, FALSE}

-----------------------------------------------------------------------------
(***************************************************************************)
(* P2PDevSDK::start up to its loop: P2PHandler::initNet connects (the      *)
(* failure of init is ignored), enters the connection into the tables and  *)
(* sends UpdateDevInfo; NatCrossHelper::initNet enters the session.        *)
(***************************************************************************)
Init ==
  /\ phase = "timer"
  /\ due = FALSE
  /\ link \in {"up", "quiet", "broken"}
  /\ left = 0
  /\ hearBeatStatus = -1
  /\ msgType = "empty"
  /\ status \in Codes                   \* never initialised by Reporter()
  /\ stunSvr = "stun"
  /\ uac2Known = FALSE
  /\ beatHoleStep = "NATINFOISINVALID"
  /\ routerInfo = [result |-> -100, seenBy |-> "nobody"]
  /\ p2pRouterInfo = routerInfo
  /\ bRouterInfoParamIsChanged = FALSE
  /\ bNatBeatHoleResult = FALSE
  /\ registration = IF link = "up" THEN "sent" ELSE "unsent"
  /\ asked = FALSE
  /\ told = 0
  /\ notice = "nothing"
  /\ refused = FALSE
  /\ silent = FALSE
  /\ owed = 0

-----------------------------------------------------------------------------
(***************************************************************************)
(* The timer.  CTimer::run is static: both halves run the timer built      *)
(* last, which is the one of P2PHandler, so TimerProc is what fires.       *)
(***************************************************************************)
\* With status 0 it clears the connection if the last select left it in
\* _readSet; otherwise it sends a Heartbeat, whose outcome nobody looks at.
TimerProc ==
  IF hearBeatStatus = 0
  THEN /\ link' \in {link, "none"}
       /\ UNCHANGED <<hearBeatStatus, silent>>
  ELSE /\ hearBeatStatus' = 1
       /\ silent' = TRUE
       /\ UNCHANGED link

TimerRun ==
  /\ phase \in {"timer", "natTimer"}
  /\ phase' = IF phase = "timer" THEN "pulse" ELSE "timer"
  /\ due' = FALSE
  /\ IF due THEN TimerProc ELSE UNCHANGED <<link, hearBeatStatus, silent>>
  /\ UNCHANGED <<left, boxVars, natVars, reportVars, stunSvr, registration,
                 pastVars>>

-----------------------------------------------------------------------------
(***************************************************************************)
(* CIOHandler::pulse: one select, at most one recv, each message of the    *)
(* buffer dispatched in turn.                                              *)
(***************************************************************************)
\* An empty table, the time-out of select, EINTR, or recv returning 0: pulse
\* returns true and P2PHandler::run goes on.
PulseForgives ==             \* bug: errors of select and recv are ignored
  /\ phase = "pulse"
  /\ phase' = "request"
  /\ UNCHANGED <<due, linkVars, hearBeatStatus, boxVars, natVars, reportVars,
                 serverVars, pastVars>>
PulseNothing ==
  /\ phase = "pulse"
  /\ link # "broken"
  /\ phase' = "request"
  /\ UNCHANGED <<due, linkVars, hearBeatStatus, boxVars, natVars, reportVars,
                 serverVars, pastVars>>

PulseOverruns ==             \* bug: recv with one byte more than the buffer
  /\ phase = "pulse"
  /\ link \in {"up", "stalled"}
  /\ left' \in 1..(MaxBatch + 1)
  /\ phase' = "dispatch"
  /\ UNCHANGED <<due, link, hearBeatStatus, boxVars, natVars, reportVars,
                 serverVars, pastVars>>
PulseReceives ==
  /\ phase = "pulse"
  /\ link \in {"up", "stalled"}
  /\ left' \in 1..MaxBatch
  /\ phase' = "dispatch"
  /\ UNCHANGED <<due, link, hearBeatStatus, boxVars, natVars, reportVars,
                 serverVars, pastVars>>

\* pulse returns false, run returns -1, and start returns it.
PulseFails ==
  /\ phase = "pulse"
  /\ link = "broken"
  /\ phase' = "ended"
  /\ UNCHANGED <<due, linkVars, hearBeatStatus, boxVars, natVars, reportVars,
                 serverVars, pastVars>>

-----------------------------------------------------------------------------
(***************************************************************************)
(* P2PHandler::p2pParseHandler, on a message of this session.              *)
(***************************************************************************)
\* ReportDeviceInfoToP2PServer(szSessionId, getParamValue("uuid"), ...), whose
\* first argument is the buffer that the later calls have overwritten.
ResendDevInfo(m) ==
  \E sent \in SendOutcomes(Aliased(ParamOf("sessionId"), ParamOf("uuid"))) :
    registration' = CASE m.code = 0 -> "accepted"
                      [] m.code # 0 /\ sent -> "sent"
                      [] OTHER -> "refused"

\* A non-zero answer to a P2pRequest or from a peer's punching.
Refusal(m) == m.type \in {"P2pResponse1", "P2pResponse2"} /\ m.code # 0

\* The type each message leaves in the mailbox.
BoxTypeSwapped(m) ==         \* bug: the two kinds of answer are mixed up
  IF m.type = "P2pResponse1" THEN "P2pResponse2" ELSE "P2pRequest"
BoxType(m) == IF m.type = "P2pResponse2" THEN "P2pResponse2" ELSE "P2pRequest"

Handle(m) ==
  /\ hearBeatStatus' = CASE m.type = "P2pClose" -> 0
                         [] m.type = "UpdateP2pRet" -> hearBeatStatus
                         [] OTHER -> 1
  /\ link' = IF m.type = "P2pClose" THEN "none" ELSE link
  /\ IF m.type = "MsgResponse1"
     THEN stunSvr' = "relay" /\ ResendDevInfo(m)
     ELSE UNCHANGED <<stunSvr, registration>>
  /\ uac2Known' = (uac2Known \/ m.type = "P2pRequest")
  /\ IF m.type = "P2pRequest" \/ Refusal(m)
     THEN /\ msgType' = BoxType(m)
          /\ status' = IF Refusal(m) THEN m.code ELSE status
          /\ notice' = m.type
     ELSE UNCHANGED <<msgType, status, notice>>
  /\ refused' = (refused \/ (m.type = "P2pResponse2" /\ Refusal(m)))

Dispatch(m) ==
  /\ phase = "dispatch"
  /\ MayArrive(m)
  /\ left' = left - 1
  /\ phase' = IF left = 1 THEN "request" ELSE "dispatch"
  /\ silent' = FALSE
  /\ IF Parsed(m)
     THEN Handle(m)
     ELSE UNCHANGED <<hearBeatStatus, link, stunSvr, registration, boxVars,
                      notice, refused>>
  /\ UNCHANGED <<due, natVars, reportVars, asked, told, owed>>

-----------------------------------------------------------------------------
(***************************************************************************)
(* The reports at the end of P2PHandler::run.                              *)
(***************************************************************************)
\* Sends a P2pRequest with the copied router information; the flag is cleared
\* whether or not the send succeeded.
RequestFlagRetry(sent) == ~sent    \* bug: the flag survives a failed send
RequestFlagAfter(sent) == FALSE

RequestRemoteAddr ==
  /\ phase = "request"
  /\ phase' = "response2"
  /\ IF bRouterInfoParamIsChanged
     THEN /\ \E sent \in SendOutcomes("sessionId") :
               /\ asked' = (asked \/ sent)
               /\ bRouterInfoParamIsChanged' = RequestFlagAfter(sent)
          /\ owed' = owed - 1
     ELSE UNCHANGED <<asked, owed, bRouterInfoParamIsChanged>>
  /\ UNCHANGED <<due, linkVars, hearBeatStatus, boxVars, natVars,
                 p2pRouterInfo, bNatBeatHoleResult, serverVars, told, notice,
                 refused>>

\* Sends a P2pResponse2 with the router information the NAT half has NOW; the
\* flag is cleared only when the send succeeded.
ReportFlagStuck(sent) == TRUE      \* bug: the report is never marked as sent
ReportFlagAfter(sent) == ~sent

ReportP2PResponse2 ==
  /\ phase = "response2"
  /\ phase' = "nat"
  /\ IF bNatBeatHoleResult
     THEN \E sent \in SendOutcomes("sessionId") :
            /\ bNatBeatHoleResult' = ReportFlagAfter(sent)
            /\ told' = IF sent THEN routerInfo.result ELSE told
     ELSE UNCHANGED <<bNatBeatHoleResult, told>>
  /\ UNCHANGED <<due, linkVars, hearBeatStatus, boxVars, natVars,
                 p2pRouterInfo, bRouterInfoParamIsChanged, serverVars, asked,
                 notice, refused, owed>>

-----------------------------------------------------------------------------
(***************************************************************************)
(* NatCrossHelper::run: one case of the switch, then the timer again.      *)
(***************************************************************************)
\* SetRouterInfo, then Notify2 -> P2PHandler::Update(UAC, Router).
Notify2Sticky(info) ==       \* bug: Update without its else branch
  /\ routerInfo' = info
  /\ p2pRouterInfo' = info
  /\ bRouterInfoParamIsChanged' = TRUE
  /\ bNatBeatHoleResult' = (bNatBeatHoleResult \/ info.result = 1)
  /\ owed' = owed + 1
Notify2(info) ==
  /\ routerInfo' = info
  /\ p2pRouterInfo' = info
  /\ bRouterInfoParamIsChanged' = TRUE
  /\ bNatBeatHoleResult' = (info.result = 1)
  /\ owed' = owed + 1

\* Notify1 -> P2PHandler::Update -> NatCrossHelper::getP2PInfo.  The mailbox is
\* read and not emptied.
StepAfterDeafNotify1 ==      \* bug: getP2PInfo overlooks P2pResponse2
  IF msgType = "P2pRequest" THEN "STARTBEATHOLE" ELSE beatHoleStep
StepAfterNotify1 ==
  CASE msgType = "P2pRequest" -> "STARTBEATHOLE"
    [] msgType = "P2pResponse1" /\ status # 0 -> "DEVICEISOFFLINE"
    [] msgType = "P2pResponse2" /\ status # 0 -> "BEATHOLEFAILED"
    [] msgType = "P2pResponse2" /\ status = 0 -> "UDPCONNECT"
    [] OTHER -> beatHoleStep

\* The cases that only move on.  judgeNatValid is never true: the detection
\* type is FULLMODE from the constructor on.
StepSkippingDetection ==     \* bug: judgeNatValid answers true at the start
  IF beatHoleStep = "NATINFOISINVALID" THEN "STARTBEATHOLE" ELSE beatHoleStep
StepAfterBookkeeping ==
  CASE beatHoleStep = "NATINFOISINVALID" -> "GETNATTYPE"
    [] beatHoleStep = "DEVICEISOFFLINE" -> "BEATEND"
    [] beatHoleStep = "UDPCONNECT" -> "HEARTBEAT"
    [] beatHoleStep \in {"HEARTBEAT", "KEEPALIVE"} -> "KEEPALIVE"
    [] OTHER -> beatHoleStep

NatStep ==
  /\ phase = "nat"
  /\ phase' = "natTimer"
  /\ UNCHANGED <<due, linkVars, hearBeatStatus, boxVars, serverVars, asked,
                 told, notice, refused>>

Bookkeeping ==
  /\ NatStep
  /\ beatHoleStep \notin {"GETNATTYPE", "GETREMOTEADDR", "STARTBEATHOLE",
                          "BEATHOLEFAILED"}
  /\ beatHoleStep' = StepAfterBookkeeping
  /\ UNCHANGED <<routerInfo, reportVars, owed>>

\* Detects against the address in m_szStunSvrIP; the result is 1 whatever the
\* detection returned.
GetNatType ==
  /\ NatStep
  /\ beatHoleStep = "GETNATTYPE"
  /\ beatHoleStep' = "GETREMOTEADDR"
  /\ Notify2([result |-> 1, seenBy |-> stunSvr])

\* In STARTBEATHOLE, beatHole runs first; without a peer in the UAC2 vectors it
\* returns at once, and the vectors are empty (NoPunching).
WaitForVerdict ==
  /\ NatStep
  /\ beatHoleStep \in {"GETREMOTEADDR", "STARTBEATHOLE"}
  /\ beatHoleStep' = StepAfterNotify1
  /\ UNCHANGED <<routerInfo, reportVars, owed>>

BeatHoleFailed ==
  /\ NatStep
  /\ beatHoleStep = "BEATHOLEFAILED"
  /\ beatHoleStep' = "GETNATTYPE"
  /\ Notify2([routerInfo EXCEPT !.result = -1])

-----------------------------------------------------------------------------
(***************************************************************************)
(* The environment: the clock and the connection.                          *)
(***************************************************************************)
Tick ==
  /\ phase # "ended"
  /\ ~due
  /\ due' = TRUE
  /\ UNCHANGED <<phase, linkVars, hearBeatStatus, boxVars, natVars, reportVars,
                 serverVars, pastVars>>

LinkChange ==
  /\ phase # "ended"
  /\ link' \in CASE link = "up" -> {"stalled", "closed", "broken"}
                 [] link = "stalled" -> {"up", "closed", "broken"}
                 [] link = "closed" -> {"broken"}
                 [] OTHER -> {}
  /\ UNCHANGED <<phase, due, left, hearBeatStatus, boxVars, natVars,
                 reportVars, serverVars, pastVars>>

Loop ==
  \/ TimerRun
  \/ PulseNothing \/ PulseReceives \/ PulseFails
  \/ \E m \in Messages : Dispatch(m)
  \/ RequestRemoteAddr \/ ReportP2PResponse2
  \/ Bookkeeping \/ GetNatType \/ WaitForVerdict \/ BeatHoleFailed

Next == Loop \/ Tick \/ LinkChange

\* start() is a bare loop on one thread: it keeps taking steps.
Spec == Init /\ [][Next]_vars /\ WF_vars(Loop)

-----------------------------------------------------------------------------
(***************************************************************************)
(* Invariants.                                                             *)
(***************************************************************************)
LoopTypes ==
  /\ phase \in Phases
  /\ due \in BOOLEAN
  /\ link \in Links
  /\ left \in 0..MaxBatch
  /\ hearBeatStatus \in {-1, 0, 1}
  /\ silent \in BOOLEAN

MailboxTypes ==
  /\ msgType \in {"empty", "P2pRequest", "P2pResponse2"}
  /\ status \in Codes
  /\ notice \in {"nothing", "P2pRequest", "P2pResponse1", "P2pResponse2"}
  /\ refused \in BOOLEAN
  /\ uac2Known \in BOOLEAN
  /\ stunSvr \in {"stun", "relay"}
  /\ registration \in {"unsent", "sent", "accepted", "refused"}

ReportTypes ==
  /\ beatHoleStep \in Steps
  /\ routerInfo \in RouterInfos
  /\ p2pRouterInfo \in RouterInfos
  /\ bRouterInfoParamIsChanged \in BOOLEAN
  /\ bNatBeatHoleResult \in BOOLEAN
  /\ asked \in BOOLEAN
  /\ told \in {-100, -1, 0, 1}
  /\ owed \in Int

\* Every variable keeps its type.
TypeOK == LoopTypes /\ MailboxTypes /\ ReportTypes

\* The P2pRequest is built from the copy of the router information and the
\* P2pResponse2 from the original, in different iterations when a send fails:
\* they still announce the same detection, and a P2pResponse2 is only ever
\* pending for a detection that succeeded and was not refused since.
ReportsMatchNat ==
  /\ p2pRouterInfo = routerInfo
  /\ bNatBeatHoleResult => routerInfo.result = 1

\* No Notify2 is swallowed by the next one: the flag stands for exactly one
\* announcement whose P2pRequest has not been attempted.
RequestAccounting == owed = IF bRouterInfoParamIsChanged THEN 1 ELSE 0

\* The P2pRequest of an announcement is attempted before its P2pResponse2, and
\* before the NAT half can make the next announcement.
ResponseAfterRequest ==
  phase \in {"response2", "nat"} => ~bRouterInfoParamIsChanged

\* The steps of NatCrossHelper follow what the server said: detection is only
\* repeated, and -1 only announced, after a refusing P2pResponse2; punching only
\* starts after an answer to a P2pRequest of this device.
StepFollowsVerdict ==
  /\ beatHoleStep = "BEATHOLEFAILED" \/ routerInfo.result = -1 => refused
  /\ beatHoleStep = "STARTBEATHOLE" => asked

\* As the signalling stands no peer ever becomes known, so beatHole has nothing
\* to punch, and no UDP connection is ever set up or kept alive.
NoPunching ==
  /\ ~uac2Known
  /\ beatHoleStep \in {"NATINFOISINVALID", "GETNATTYPE", "GETREMOTEADDR",
                       "STARTBEATHOLE", "BEATHOLEFAILED"}

-----------------------------------------------------------------------------
(***************************************************************************)
(* Liveness.                                                               *)
(***************************************************************************)
\* A refusal in the mailbox makes the NAT half detect again, unless another
\* message overwrites the slot or the loop ends first.
RefusalRedetects ==
  (msgType = "P2pResponse2" /\ beatHoleStep = "GETREMOTEADDR")
    ~> (beatHoleStep = "GETNATTYPE" \/ msgType = "P2pRequest" \/ phase = "ended")

\* If the connection is up for good, a pending P2pResponse2 does not stay pending.
ReportsDelivered == <>[](link = "up") => []<>(~bNatBeatHoleResult)

\* If the connection is up all along, the device asks for a peer.
FirstRequestDelivered == [](link = "up") => <>asked

\* start() returns once the connection fails.
BrokenLinkEnds == link = "broken" ~> phase = "ended"

-----------------------------------------------------------------------------
(***************************************************************************)
(* What the comments of the source promise and the code does not keep.     *)
(***************************************************************************)
\* P2PHandler.cpp:339: on a heartbeat time-out all connections are closed.
HeartbeatTimeoutCloses ==
  [][due /\ ~due' /\ silent => link' = "none"]_vars

\* NatCrossHelper.cpp:965: the answer that the peer is offline stops punching.
OfflinePeerStopsPunching ==
  [][WaitForVerdict /\ beatHoleStep = "GETREMOTEADDR" /\ notice = "P2pResponse1"
       => beatHoleStep' # "STARTBEATHOLE"]_vars
=============================================================================
