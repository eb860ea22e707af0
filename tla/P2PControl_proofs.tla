--------------------------- MODULE P2PControl_proofs ---------------------------
(***************************************************************************)
(* Proofs about P2PControl, for every set of status codes and every size   *)
(* of a recv.  The invariants of the module are not inductive by           *)
(* themselves: what the NAT half does next depends on what the mailbox     *)
(* holds, so Inductive adds the two facts that tie the mailbox to the      *)
(* messages handled so far, and the bound on the messages left to dispatch.*)
(***************************************************************************)
EXTENDS P2PControl, TLAPS

\* A refusal in the mailbox carries a non-zero code and was really received; a
\* P2pRequest in it stems from the answer to a request of this device.
MailboxJustified ==
  /\ msgType = "P2pResponse2" => status # 0 /\ refused
  /\ msgType = "P2pRequest" => asked

BatchBounded == phase = "dispatch" => left \in 1..MaxBatch

Inductive ==
  /\ TypeOK
  /\ ReportsMatchNat
  /\ RequestAccounting
  /\ ResponseAfterRequest
  /\ StepFollowsVerdict
  /\ NoPunching
  /\ MailboxJustified
  /\ BatchBounded

\* Sending has a Boolean outcome, whatever the session and the connection.
LEMMA SendOutcomesBoolean ==
  ASSUME NEW session PROVE SendOutcomes(session) \subseteq BOOLEAN
  BY DEF SendOutcomes

\* The types of a message and of the code it carries.
LEMMA MessageTypes ==
  ASSUME NEW m \in Messages PROVE m.type \in Coded \cup Uncoded /\ m.code \in Codes
  BY CodesAssumption DEF Messages

\* The state start() leaves to its loop satisfies the invariant.
LEMMA InitEstablishes == Init => Inductive
<1> SUFFICES ASSUME Init PROVE Inductive
  OBVIOUS
<1>1. LoopTypes
  <2>1. phase \in Phases /\ link \in Links
    BY DEF Init, Phases, Links
  <2>2. left \in 0..MaxBatch /\ hearBeatStatus \in {-1, 0, 1}
    BY MaxBatchAssumption DEF Init
  <2> QED
    BY <2>1, <2>2 DEF Init, LoopTypes
<1>2. MailboxTypes
  <2>1. registration \in {"unsent", "sent", "accepted", "refused"}
    BY DEF Init
  <2>2. /\ msgType \in {"empty", "P2pRequest", "P2pResponse2"}
        /\ notice \in {"nothing", "P2pRequest", "P2pResponse1", "P2pResponse2"}
        /\ stunSvr \in {"stun", "relay"}
    BY DEF Init
  <2> QED
    BY <2>1, <2>2 DEF Init, MailboxTypes
<1>3. routerInfo \in RouterInfos
  BY DEF Init, RouterInfos
<1>4. ReportTypes
  <2>1. beatHoleStep \in Steps /\ told \in {-100, -1, 0, 1} /\ owed \in Int
    BY DEF Init, Steps
  <2>2. p2pRouterInfo \in RouterInfos
    BY <1>3 DEF Init
  <2> QED
    BY <1>3, <2>1, <2>2 DEF Init, ReportTypes
<1>5. ReportsMatchNat /\ StepFollowsVerdict
  BY DEF Init, ReportsMatchNat, StepFollowsVerdict
<1> QED
  BY <1>1, <1>2, <1>4, <1>5 DEF Init, Inductive, TypeOK, RequestAccounting,
     ResponseAfterRequest, NoPunching, MailboxJustified, BatchBounded

\* The properties that are about the announcements only.
Announcements == ReportsMatchNat /\ RequestAccounting

\* The properties that tie the NAT half to the messages handled.
Verdicts == StepFollowsVerdict /\ NoPunching /\ MailboxJustified

\* Every step of the loop and of the environment preserves the invariant.
LEMMA NextPreserves == Inductive /\ [Next]_vars => Inductive'
<1> USE MaxBatchAssumption
<1> USE DEF linkVars, boxVars, natVars, reportVars, serverVars, pastVars,
            Announcements, Verdicts
<1> SUFFICES ASSUME Inductive, [Next]_vars PROVE Inductive'
  OBVIOUS
<1>0. /\ LoopTypes /\ MailboxTypes /\ ReportTypes
      /\ Announcements /\ ResponseAfterRequest
      /\ Verdicts /\ BatchBounded
  BY DEF Inductive, TypeOK
<1> SUFFICES /\ LoopTypes' /\ MailboxTypes' /\ ReportTypes'
             /\ Announcements' /\ ResponseAfterRequest'
             /\ Verdicts' /\ BatchBounded'
  BY DEF Inductive, TypeOK
<1>1. CASE TimerRun
  <2>1. LoopTypes'
    BY <1>0, <1>1 DEF TimerRun, TimerProc, LoopTypes, Phases, Links
  <2>2. ResponseAfterRequest' /\ BatchBounded'
    BY <1>1 DEF TimerRun, ResponseAfterRequest, BatchBounded
  <2>3. MailboxTypes' /\ ReportTypes'
    BY <1>0, <1>1 DEF TimerRun, MailboxTypes, ReportTypes
  <2> QED
    BY <1>0, <1>1, <2>1, <2>2, <2>3 DEF TimerRun, ReportsMatchNat,
       RequestAccounting, StepFollowsVerdict, NoPunching, MailboxJustified
<1>2. CASE PulseNothing \/ PulseReceives \/ PulseFails
  <2>1. LoopTypes' /\ ResponseAfterRequest' /\ BatchBounded'
    BY <1>0, <1>2 DEF PulseNothing, PulseReceives, PulseFails, LoopTypes, Phases,
       ResponseAfterRequest, BatchBounded
  <2>2. UNCHANGED <<boxVars, natVars, reportVars, serverVars, pastVars>>
    BY <1>2 DEF PulseNothing, PulseReceives, PulseFails
  <2>3. MailboxTypes' /\ ReportTypes'
    BY <1>0, <2>2 DEF MailboxTypes, ReportTypes
  <2> QED
    BY <1>0, <2>1, <2>2, <2>3 DEF ReportsMatchNat, RequestAccounting,
       StepFollowsVerdict, NoPunching, MailboxJustified
<1>3. ASSUME NEW m \in Messages, Dispatch(m)
      PROVE  /\ LoopTypes' /\ MailboxTypes' /\ ReportTypes'
             /\ Announcements' /\ ResponseAfterRequest'
             /\ Verdicts' /\ BatchBounded'
  <2>1. UNCHANGED <<due, natVars, reportVars, asked, told, owed>>
    BY <1>3 DEF Dispatch
  <2>2. ReportTypes' /\ Announcements'
    BY <1>0, <2>1 DEF ReportTypes, ReportsMatchNat, RequestAccounting
  <2>3. left \in 1..MaxBatch /\ left' = left - 1 /\ silent' = FALSE
    BY <1>0, <1>3 DEF Dispatch, BatchBounded
  <2>4. ResponseAfterRequest' /\ BatchBounded'
    BY <1>3, <2>3 DEF Dispatch, ResponseAfterRequest, BatchBounded
  <2>5. phase' \in Phases
    BY <1>3 DEF Dispatch, Phases
  <2>6. CASE ~Parsed(m)
    <3>1. UNCHANGED <<hearBeatStatus, link, stunSvr, registration, boxVars,
                      notice, refused>>
      BY <1>3, <2>6 DEF Dispatch
    <3>2. LoopTypes'
      <4>1. left' \in 0..MaxBatch
        BY <2>3
      <4> QED
        BY <1>0, <2>1, <2>3, <2>5, <3>1, <4>1 DEF LoopTypes
    <3>3. MailboxTypes'
      BY <1>0, <3>1 DEF MailboxTypes
    <3> QED
      BY <1>0, <2>1, <2>2, <2>4, <3>1, <3>2, <3>3
      DEF StepFollowsVerdict, NoPunching, MailboxJustified
  <2>7. CASE Parsed(m)
    <3>1. Handle(m) /\ m.type # "P2pRequest" /\ m.type # "P2pClose"
      BY <1>3, <2>7 DEF Dispatch, Parsed
    <3>2. hearBeatStatus' \in {-1, 0, 1} /\ link' = link
      BY <1>0, <3>1 DEF Handle, LoopTypes
    <3>3. registration' \in {"unsent", "sent", "accepted", "refused"}
      BY <1>0, <3>1 DEF Handle, ResendDevInfo, MailboxTypes
    <3>4. LoopTypes'
      <4>1. left' \in 0..MaxBatch
        BY <2>3
      <4> QED
        BY <1>0, <2>1, <2>3, <2>5, <3>2, <4>1 DEF LoopTypes
    <3>5. MailboxTypes'
      <4>1. msgType' \in {"empty", "P2pRequest", "P2pResponse2"}
        BY <1>0, <3>1 DEF Handle, BoxType, MailboxTypes
      <4>2. notice' \in {"nothing", "P2pRequest", "P2pResponse1", "P2pResponse2"}
        BY <1>0, <3>1 DEF Handle, Refusal, MailboxTypes
      <4>3. stunSvr' \in {"stun", "relay"}
        BY <1>0, <3>1 DEF Handle, MailboxTypes
      <4>4. status' \in Codes
        BY <1>0, <3>1, MessageTypes DEF Handle, MailboxTypes
      <4>5. uac2Known' \in BOOLEAN /\ refused' \in BOOLEAN
        BY <3>1 DEF Handle
      <4> QED
        BY <3>3, <4>1, <4>2, <4>3, <4>4, <4>5 DEF MailboxTypes
    <3>6. NoPunching'
      BY <1>0, <2>1, <3>1 DEF Handle, NoPunching
    <3>7. StepFollowsVerdict'
      BY <1>0, <2>1, <3>1 DEF Handle, StepFollowsVerdict
    <3>8. MailboxJustified'
      <4>1. CASE Refusal(m)
        <5>1. /\ msgType' = BoxType(m) /\ status' = m.code
              /\ m.type = "P2pResponse2" => refused'
          BY <3>1, <4>1 DEF Handle
        <5>2. m.type \in {"P2pResponse1", "P2pResponse2"} /\ m.code # 0
          BY <4>1 DEF Refusal
        <5>3. m.type = "P2pResponse1" => asked'
          BY <1>3, <2>1 DEF Dispatch, MayArrive
        <5>4. CASE m.type = "P2pResponse1"
          BY <5>1, <5>3, <5>4 DEF BoxType, MailboxJustified
        <5>5. CASE m.type = "P2pResponse2"
          BY <5>1, <5>2, <5>5 DEF BoxType, MailboxJustified
        <5> QED
          BY <5>2, <5>4, <5>5
      <4>2. CASE ~Refusal(m)
        BY <1>0, <2>1, <3>1, <4>2 DEF Handle, MailboxJustified
      <4> QED
        BY <4>1, <4>2
    <3> QED
      BY <2>2, <2>4, <3>4, <3>5, <3>6, <3>7, <3>8
  <2> QED
    BY <2>6, <2>7
<1>4. CASE RequestRemoteAddr
  <2>1. asked' \in BOOLEAN /\ (asked => asked') /\ bRouterInfoParamIsChanged' = FALSE
    BY <1>0, <1>4, SendOutcomesBoolean
    DEF RequestRemoteAddr, RequestFlagAfter, ReportTypes
  <2>2. owed' = 0
    BY <1>0, <1>4 DEF RequestRemoteAddr, RequestAccounting, ReportTypes
  <2>3. /\ phase' = "response2"
        /\ UNCHANGED <<due, linkVars, hearBeatStatus, boxVars, natVars,
                      p2pRouterInfo, bNatBeatHoleResult, serverVars, told,
                      notice, refused>>
    BY <1>4 DEF RequestRemoteAddr
  <2>4. LoopTypes' /\ MailboxTypes' /\ ReportTypes'
    <3>1. LoopTypes' /\ MailboxTypes'
      BY <1>0, <2>3 DEF LoopTypes, MailboxTypes, Phases
    <3>2. owed' \in Int
      BY <2>2
    <3>3. bRouterInfoParamIsChanged' \in BOOLEAN
      BY <2>1
    <3> QED
      BY <1>0, <2>1, <2>3, <3>1, <3>2, <3>3 DEF ReportTypes
  <2>5. Announcements' /\ ResponseAfterRequest' /\ BatchBounded'
    BY <1>0, <2>1, <2>2, <2>3 DEF ReportsMatchNat, RequestAccounting,
       ResponseAfterRequest, BatchBounded
  <2>6. Verdicts'
    BY <1>0, <2>1, <2>3 DEF StepFollowsVerdict, NoPunching, MailboxJustified
  <2> QED
    BY <2>4, <2>5, <2>6
<1>5. CASE ReportP2PResponse2
  <2>1. /\ bNatBeatHoleResult' \in BOOLEAN
        /\ bNatBeatHoleResult' => bNatBeatHoleResult
        /\ told' \in {told, routerInfo.result}
    BY <1>0, <1>5, SendOutcomesBoolean
    DEF ReportP2PResponse2, ReportFlagAfter, ReportTypes
  <2>2. told' \in {-100, -1, 0, 1}
    BY <1>0, <2>1 DEF ReportTypes, RouterInfos
  <2>3. /\ phase = "response2" /\ phase' = "nat"
        /\ UNCHANGED <<due, linkVars, hearBeatStatus, boxVars, natVars,
                      p2pRouterInfo, bRouterInfoParamIsChanged, serverVars,
                      asked, notice, refused, owed>>
    BY <1>5 DEF ReportP2PResponse2
  <2>4. LoopTypes' /\ MailboxTypes' /\ ReportTypes'
    BY <1>0, <2>1, <2>2, <2>3 DEF LoopTypes, MailboxTypes, ReportTypes, Phases
  <2> QED
    BY <1>0, <2>1, <2>3, <2>4 DEF ReportsMatchNat, RequestAccounting,
       ResponseAfterRequest, BatchBounded, StepFollowsVerdict, NoPunching,
       MailboxJustified
<1>6. CASE Bookkeeping \/ WaitForVerdict
  <2>1. /\ NatStep /\ UNCHANGED <<routerInfo, reportVars, owed>>
        /\ beatHoleStep' \in {StepAfterBookkeeping, StepAfterNotify1}
    BY <1>6 DEF Bookkeeping, WaitForVerdict
  <2>2. beatHoleStep' \in Steps
    BY <1>0, <2>1 DEF StepAfterBookkeeping, StepAfterNotify1, Steps, ReportTypes
  <2>3. LoopTypes' /\ MailboxTypes' /\ ReportTypes'
    BY <1>0, <2>1, <2>2
    DEF NatStep, LoopTypes, MailboxTypes, ReportTypes, Phases
  <2>4. Verdicts'
    BY <1>0, <2>1 DEF NatStep, StepAfterBookkeeping, StepAfterNotify1,
       MailboxTypes, StepFollowsVerdict, NoPunching, MailboxJustified
  <2> QED
    BY <1>0, <2>1, <2>3, <2>4 DEF NatStep, ReportsMatchNat, RequestAccounting,
       ResponseAfterRequest, BatchBounded
<1>7. ASSUME NEW info \in RouterInfos, NatStep, Notify2(info),
             beatHoleStep' \in {"GETREMOTEADDR", "GETNATTYPE"},
             info.result = -1 => refused
      PROVE  /\ LoopTypes' /\ MailboxTypes' /\ ReportTypes'
             /\ Announcements' /\ ResponseAfterRequest'
             /\ Verdicts' /\ BatchBounded'
  <2>1. LoopTypes' /\ MailboxTypes' /\ ReportTypes'
    BY <1>0, <1>7
    DEF NatStep, Notify2, LoopTypes, MailboxTypes, ReportTypes, Phases, Steps
  <2>2. Announcements'
    BY <1>0, <1>7 DEF NatStep, Notify2, ReportTypes, ReportsMatchNat,
       RequestAccounting, ResponseAfterRequest
  <2>3. Verdicts'
    BY <1>0, <1>7 DEF NatStep, Notify2, StepFollowsVerdict, NoPunching,
       MailboxJustified
  <2> QED
    BY <1>7, <2>1, <2>2, <2>3 DEF NatStep, ResponseAfterRequest, BatchBounded
<1>8. CASE GetNatType
  <2> DEFINE info == [result |-> 1, seenBy |-> stunSvr]
  <2>1. info \in RouterInfos /\ info.result = 1
    BY <1>0 DEF MailboxTypes, RouterInfos
  <2> QED
    BY <1>7, <1>8, <2>1 DEF GetNatType
<1>9. CASE BeatHoleFailed
  <2> DEFINE info == [routerInfo EXCEPT !.result = -1]
  <2>1. info \in RouterInfos
    BY <1>0 DEF ReportTypes, RouterInfos
  <2>2. refused
    BY <1>0, <1>9 DEF BeatHoleFailed, StepFollowsVerdict
  <2> QED
    BY <1>7, <1>9, <2>1, <2>2 DEF BeatHoleFailed
<1>10. CASE Tick \/ LinkChange \/ UNCHANGED vars
  <2>1. LoopTypes'
    BY <1>0, <1>10 DEF Tick, LinkChange, vars, LoopTypes, Links
  <2>2. UNCHANGED <<phase, left, boxVars, natVars, reportVars, stunSvr,
                    registration, pastVars>>
    BY <1>10 DEF Tick, LinkChange, vars
  <2>3. MailboxTypes' /\ ReportTypes'
    BY <1>0, <2>2 DEF MailboxTypes, ReportTypes
  <2> QED
    BY <1>0, <2>1, <2>2, <2>3 DEF ReportsMatchNat, RequestAccounting,
       ResponseAfterRequest, BatchBounded, StepFollowsVerdict, NoPunching,
       MailboxJustified
<1> QED
  BY <1>1, <1>2, <1>3, <1>4, <1>5, <1>6, <1>8, <1>9, <1>10 DEF Next, Loop

-----------------------------------------------------------------------------
LEMMA Invariance == Spec => []Inductive
  BY InitEstablishes, NextPreserves, PTL DEF Spec

\* Every variable keeps its type.
THEOREM TypeCorrect == Spec => []TypeOK
  <1> Inductive => TypeOK
    BY DEF Inductive
  <1> QED
    BY Invariance, PTL

\* What P2PHandler announces is what NatCrossHelper detected: the P2pRequest and
\* a P2pResponse2 sent iterations later agree, and no P2pResponse2 is pending for
\* a detection that a peer has refused.
THEOREM ReportsCorrect == Spec => []ReportsMatchNat
  <1> Inductive => ReportsMatchNat
    BY DEF Inductive
  <1> QED
    BY Invariance, PTL

\* Each Notify2 leads to exactly one attempt to send a P2pRequest.
THEOREM RequestsCorrect == Spec => []RequestAccounting
  <1> Inductive => RequestAccounting
    BY DEF Inductive
  <1> QED
    BY Invariance, PTL

\* A P2pResponse2 is sent only after the P2pRequest of the same announcement.
THEOREM ResponsesCorrect == Spec => []ResponseAfterRequest
  <1> Inductive => ResponseAfterRequest
    BY DEF Inductive
  <1> QED
    BY Invariance, PTL

\* The steps of NatCrossHelper are justified by answers of the server.
THEOREM StepsCorrect == Spec => []StepFollowsVerdict
  <1> Inductive => StepFollowsVerdict
    BY DEF Inductive
  <1> QED
    BY Invariance, PTL

\* Whatever the server sends, no peer becomes known and no UDP step is reached.
THEOREM NeverPunches == Spec => []NoPunching
  <1> Inductive => NoPunching
    BY DEF Inductive
  <1> QED
    BY Invariance, PTL
=============================================================================
