----------------------------- MODULE NatDetection ------------------------------
(***************************************************************************)
(* The detection of the NAT a device is behind (CNatDetectionHelper):      *)
(* stunNatType_ext sends tests to the STUN server until each is answered   *)
(* or seven time-outs have passed, and judges by the answers; then         *)
(* detectionNatType takes the port of one more mapping and computes the    *)
(* step of the NAT.                                                        *)
(*                                                                         *)
(*   1   from fd1 to the server, answered from there                       *)
(*   2   from fd2 to the server, answered from its other address           *)
(*   3   from fd2 to the server, answered from its other port              *)
(*   10  from fd1 to the other address, which the answer to 1 has named    *)
(*                                                                         *)
(* Answers may be lost, duplicated, late or out of order.                  *)
(***************************************************************************)
EXTENDS NatStep, FiniteSets

CONSTANTS
  Count,      \* time-outs before the verdict (7 in the code)
  Copies,     \* how many copies of an answer the network holds at most
  MaxRepeats, \* how often the network repeats an answer, at most
  Steps,      \* by how much a symmetric NAT moves on its port
  Garbage,    \* what an uninitialized port may read as
  MaxForeign, \* how many mappings other hosts open meanwhile, at most
  NoPort

ASSUME CountAssumption == Count \in Nat \ {0}
ASSUME CopiesAssumption == Copies \in Nat \ {0}
ASSUME MaxRepeatsAssumption == MaxRepeats \in Nat
ASSUME StepsAssumption == Steps \subseteq Int \ {0}
ASSUME GarbageAssumption == Garbage \subseteq Int
ASSUME MaxForeignAssumption == MaxForeign \in Nat
ASSUME NoPortAssumption == NoPort \notin Int

\* The change of address and of port that stunSendTest asks for with 2 and 3 is
\* in Answered.
Tests == {1, 2, 3, 10}

\* What the device may be behind.  The mapping is "public" (none), one for all
\* destinations, one for each, or one with an address of its own for each.  The
\* filter lets pass answers from anywhere, from an address or an address and
\* port the socket has sent to, or nothing.
NATs == [mapping : {"public", "cone", "symmetric", "pool"},
         filter  : {"independent", "address", "port", "all"}]

Types == {"Unknown", "Failure", "Blocked", "Open", "IndependentFilter",
          "DependentFilter", "PortDependedFilter", "DependentMapping",
          "IpChange", "Firewall"}

VARIABLES
  phase,         \* stunNatType_ext, getMapAddr, or detectionNatType is done
  nat,           \* what the device is behind
  alternate,     \* the server has a second address
  count,         \* time-outs since the start or the answer to test 1
  resp,          \* respTestI, respTestII, respTestIII, respTestI2
  mappedIpSame,
  ipChange,
  p2pNatType,    \* the verdict
  stepPort,
  inFlight,      \* answers that are on their way
  mapped,        \* mappings the NAT has opened, other hosts' included
  mapping1,      \* number of the mapping of fd1 to the server
  mapping10,     \* and of the one to its other address
  \* What follows only records the past.
  asked10,       \* how often test 10 was sent
  lost,          \* an answer was lost
  repeats,       \* how often an answer was repeated
  foreign,       \* mappings that other hosts have opened
  outcome        \* of the computation of the step

detection == <<count, resp, mappedIpSame, ipChange>>
network == <<nat, alternate, inFlight>>
mappings == <<mapped, mapping1, mapping10, foreign>>
result == <<p2pNatType, stepPort, outcome>>
vars == <<phase, detection, network, mappings, result, asked10, lost, repeats>>

\* Nothing was computed.
Unknown == [measured |-> FALSE]
Outcomes == [natStep : Int, step1 : Int, step2 : Int, measured : BOOLEAN]

ControlTypeOK ==
  /\ phase \in {"testing", "mapping", "done"}
  /\ nat \in NATs
  /\ alternate \in BOOLEAN
  /\ count \in 0 .. Count
  /\ resp \in SUBSET Tests
  /\ mappedIpSame \in BOOLEAN
  /\ ipChange \in BOOLEAN
  /\ p2pNatType \in Types
  /\ inFlight \in [Tests -> 0 .. Copies]
  /\ mapped \in Nat
  /\ mapping1 \in Nat \cup {NoPort}
  /\ mapping10 \in Nat \cup {NoPort}
  /\ asked10 \in 0 .. Count
  /\ lost \in BOOLEAN
  /\ repeats \in 0 .. MaxRepeats
  /\ foreign \in 0 .. MaxForeign

TypeOK ==
  /\ ControlTypeOK
  /\ stepPort \in Int
  /\ outcome \in Outcomes \cup {Unknown}

Init ==
  /\ phase = "testing"
  /\ nat \in NATs
  /\ alternate \in BOOLEAN
  /\ count = 0
  /\ resp = {}
  /\ mappedIpSame = FALSE
  /\ ipChange = FALSE
  /\ p2pNatType = "Unknown"
  /\ stepPort = 0
  /\ inFlight = [t \in Tests |-> 0]
  /\ mapped = 0
  /\ mapping1 = NoPort
  /\ mapping10 = NoPort
  /\ asked10 = 0
  /\ lost = FALSE
  /\ repeats = 0
  /\ foreign = 0
  /\ outcome = Unknown

-----------------------------------------------------------------------------
(***************************************************************************)
(* The network.  An answer is repeated or lost only while the device is    *)
(* listening: afterwards nobody would notice.                              *)
(***************************************************************************)
\* The tests whose answers the server can send and the NAT lets in.
Answered ==
  IF nat.filter = "all" THEN {}
  ELSE {1} \cup (IF alternate THEN {10} ELSE {})
           \cup (IF nat.filter # "port" THEN {3} ELSE {})
           \cup (IF nat.filter = "independent" /\ alternate THEN {2} ELSE {})

Remove(t) == [inFlight EXCEPT ![t] = @ - 1]

Duplicate(t) ==
  /\ phase = "testing" /\ inFlight[t] > 0
  /\ inFlight[t] < Copies /\ repeats < MaxRepeats
  /\ inFlight' = [inFlight EXCEPT ![t] = @ + 1]
  /\ repeats' = repeats + 1
  /\ UNCHANGED <<phase, detection, nat, alternate, mappings, result, asked10, lost>>

Lose(t) ==
  /\ phase = "testing" /\ inFlight[t] > 0
  /\ inFlight' = Remove(t)
  /\ lost' = TRUE
  /\ UNCHANGED <<phase, detection, nat, alternate, mappings, result, asked10, repeats>>

\* Another host behind the NAT opens a mapping.
OtherHost ==
  /\ phase # "done" /\ nat.mapping = "symmetric"
  /\ mapping1 # NoPort /\ foreign < MaxForeign
  /\ mapped' = mapped + 1
  /\ foreign' = foreign + 1
  /\ UNCHANGED <<phase, detection, network, mapping1, mapping10, result, asked10, lost, repeats>>

-----------------------------------------------------------------------------
(***************************************************************************)
(* stunNatType_ext.                                                        *)
(***************************************************************************)
SentOnce == {1, 2, 3} \ resp      \* bug: the answer to test 1 is not followed by test 10

\* Test 10 needs the address that the answer to test 1 has named.
Sent == ({1, 2, 3} \ resp) \cup (IF 1 \in resp /\ 10 \notin resp /\ alternate THEN {10} ELSE {})

\* select has found nothing in time, or the wait was 0 (the first time).
SendTests ==
  /\ phase = "testing" /\ count < Count
  /\ count' = count + 1
  /\ inFlight' = [t \in Tests |->
                    IF t \in Sent \cap Answered /\ inFlight[t] < Copies
                    THEN inFlight[t] + 1 ELSE inFlight[t]]
  /\ mapping1' = IF mapping1 = NoPort THEN mapped ELSE mapping1
  /\ IF 10 \in Sent /\ mapping10 = NoPort
     THEN mapping10' = mapped /\ mapped' = mapped + 1
     ELSE UNCHANGED mapping10 /\ mapped' = IF mapping1 = NoPort THEN mapped + 2 ELSE mapped
  /\ asked10' = IF 10 \in Sent THEN asked10 + 1 ELSE asked10
  /\ UNCHANGED <<phase, resp, mappedIpSame, ipChange, nat, alternate, foreign, result, lost, repeats>>

\* An answer arrives.  Only the first to test 1 starts the count again; a second
\* one to any test changes nothing.
CountOn(t) == count                              \* bug: the count is not reset
CountBack(t) == count - 1                        \* bug: an answer gives a time-out back
CountAfter(t) == IF t = 1 /\ 1 \notin resp THEN 0 ELSE count

RespondedUnset(t) == resp \cup ({t} \ {1})        \* bug: respTestI is never set
Responded(t) == resp \cup {t}

SameMapping == nat.mapping \in {"public", "cone"}

Answer(t) ==
  /\ phase = "testing" /\ count < Count /\ inFlight[t] > 0
  /\ inFlight' = Remove(t)
  /\ resp' = Responded(t)
  /\ count' = CountAfter(t)
  /\ IF t = 10 /\ 10 \notin resp
     THEN /\ mappedIpSame' = SameMapping
          /\ ipChange' = (nat.mapping = "pool")
     ELSE UNCHANGED <<mappedIpSame, ipChange>>
  /\ UNCHANGED <<phase, nat, alternate, mappings, result, asked10, lost, repeats>>

\* Who may send to the mapped address.
Filter == CASE 2 \in resp -> "IndependentFilter"
            [] 2 \notin resp /\ 3 \in resp -> "DependentFilter"
            [] OTHER -> "PortDependedFilter"

FilterEager == IF resp \cap {2, 3} # {} THEN "IndependentFilter" ELSE "PortDependedFilter"

VerdictEager ==                 \* bug: test 3 is taken for test 2
  CASE 1 \notin resp          -> "Blocked"
    [] nat.mapping = "public" -> IF 2 \in resp THEN "Open" ELSE "Firewall"
    [] mappedIpSame           -> FilterEager
    [] OTHER                  -> IF ipChange THEN "IpChange" ELSE "DependentMapping"

\* isNat: the mapped address can be bound only if it is the device's own.
Verdict ==
  CASE 1 \notin resp -> "Blocked"
    [] 1 \in resp /\ nat.mapping = "public" -> IF 2 \in resp THEN "Open" ELSE "Firewall"
    [] 1 \in resp /\ nat.mapping # "public" /\ mappedIpSame -> Filter
    [] OTHER -> IF ipChange THEN "IpChange" ELSE "DependentMapping"

Conclude ==
  /\ phase = "testing" /\ count = Count
  /\ p2pNatType' = Verdict
  /\ phase' = "mapping"
  /\ UNCHANGED <<detection, network, mappings, stepPort, outcome, asked10, lost, repeats>>

\* No port could be opened, or select has failed; getMapAddr is called all the same.
Fail ==
  /\ phase = "testing" /\ count < Count
  /\ p2pNatType' = "Failure"
  /\ phase' = "mapping"
  /\ UNCHANGED <<detection, network, mappings, stepPort, outcome, asked10, lost, repeats>>

\* The name of the server is not known: detectionNatType returns at once.
NoHost ==
  /\ phase = "testing" /\ count = 0 /\ mapping1 = NoPort
  /\ p2pNatType' = "Failure"
  /\ phase' = "done"
  /\ UNCHANGED <<detection, network, mappings, stepPort, outcome, asked10, lost, repeats>>

-----------------------------------------------------------------------------
(***************************************************************************)
(* detectionNatType: getMapAddr opens a third mapping.  Its result is not  *)
(* looked at; when it has failed, the port is 0.  The second port is not   *)
(* initialized unless test 10 was answered.  Ports are counted from the    *)
(* one of the first mapping, which is Base.                                *)
(***************************************************************************)
Base == 1000

MapAddr(natStep, garbage, success) ==
  /\ phase = "mapping"
  /\ success => nat.filter # "all"
  /\ phase' = "done"
  /\ mapped' = mapped + 1
  /\ IF p2pNatType = "DependentMapping"
     THEN LET port2 == IF 10 \in resp THEN Base + natStep * (mapping10 - mapping1) ELSE garbage
              remote == IF success THEN Base + natStep * (mapped - mapping1) ELSE 0
              step1 == port2 - Base
              step2 == remote - port2
          IN /\ stepPort' = GetNatWightPort(step1, step2)
             /\ outcome' = [natStep |-> natStep, step1 |-> step1, step2 |-> step2,
                            measured |-> 10 \in resp /\ success]
     ELSE UNCHANGED <<stepPort, outcome>>
  /\ UNCHANGED <<detection, network, mapping1, mapping10, foreign, p2pNatType, asked10, lost, repeats>>

-----------------------------------------------------------------------------
Detect == SendTests \/ Conclude \/ (\E t \in Tests : Answer(t))
\* getMapAddr sends its question up to RESEND_STUN_COUNT times, and succeeds or not.
Finish == \E natStep \in Steps, garbage \in Garbage, success \in BOOLEAN :
            MapAddr(natStep, garbage, success)

Next ==
  \/ SendTests
  \/ \E t \in Tests : Answer(t) \/ Duplicate(t) \/ Lose(t)
  \/ OtherHost
  \/ Conclude
  \/ Fail
  \/ NoHost
  \/ Finish

\* The thread that detects runs on: it is blocked for the length of a wait only.
Spec == Init /\ [][Next]_vars /\ WF_vars(Detect) /\ WF_vars(Finish)

-----------------------------------------------------------------------------
Concluded == phase # "testing" /\ p2pNatType # "Failure"

\* What the NAT is, in the terms of the verdict.
FilterClass == CASE nat.filter = "independent" -> "IndependentFilter"
                 [] nat.filter = "address"     -> "DependentFilter"
                 [] OTHER                      -> "PortDependedFilter"

Class == CASE nat.filter = "all" -> "Blocked"
           [] nat.filter # "all" /\ nat.mapping = "public" ->
                IF nat.filter = "independent" THEN "Open" ELSE "Firewall"
           [] nat.filter # "all" /\ nat.mapping = "cone" -> FilterClass
           [] OTHER -> IF nat.mapping = "pool" THEN "IpChange" ELSE "DependentMapping"

(***************************************************************************)
(* However many answers are lost, late or repeated, the verdict never      *)
(* promises more than the NAT keeps: a peer is told that it can send to    *)
(* the mapped address only if the NAT has one mapping for all and lets     *)
(* such packets in.                                                        *)
(***************************************************************************)
NeverMoreOpen ==
  /\ p2pNatType \in {"Open", "IndependentFilter"} => nat.filter = "independent"
  /\ p2pNatType = "DependentFilter" => nat.filter \in {"independent", "address"}
  /\ p2pNatType \in {"IndependentFilter", "DependentFilter", "PortDependedFilter"} =>
        nat.mapping = "cone"
  /\ p2pNatType \in {"Open", "Firewall"} => nat.mapping = "public"
  /\ p2pNatType = "IpChange" => nat.mapping = "pool"

(***************************************************************************)
(* If the server has two addresses and no answer got lost or came too      *)
(* late, the verdict is exactly what the NAT is, whatever the order of the *)
(* answers and however often each came.                                    *)
(***************************************************************************)
InTime == ~lost /\ \A t \in Tests : inFlight[t] > 0 => t \in resp

ExactWhenAnswered == Concluded /\ alternate /\ InTime => p2pNatType = Class

(***************************************************************************)
(* A test is given up after Count questions only.  For the mapping, which  *)
(* can be asked about only when test 1 is answered, that takes the count   *)
(* to start again at that answer, even if it is the last moment.           *)
(***************************************************************************)
SecondTestRepeated ==
  Concluded /\ alternate /\ 1 \in resp /\ 10 \notin resp => asked10 = Count

(***************************************************************************)
(* A step that is reported divides both distances between the ports,       *)
(* whatever the ports were, even one that was never written.  If all were  *)
(* measured, it is a multiple of the step of the NAT, and the step itself  *)
(* (but for the sign, see Signed) if no other host has opened a mapping in *)
(* between.                                                                *)
(***************************************************************************)
StepTrustworthy ==
  /\ outcome # Unknown /\ stepPort # 0 =>
       outcome.step1 % Abs(stepPort) = 0 /\ outcome.step2 % Abs(stepPort) = 0
  /\ outcome # Unknown /\ outcome.measured =>
       /\ stepPort % Abs(outcome.natStep) = 0
       /\ foreign = 0 => Abs(stepPort) = Abs(outcome.natStep)

(***************************************************************************)
(* The detection ends, although each first answer starts the count again   *)
(* and the network repeats answers: NatCrossHelper::run calls it and does  *)
(* nothing else until it returns.                                          *)
(***************************************************************************)
Ends == <>(phase = "done")
===============================================================================
