-------------------------- MODULE NatDetection_proofs --------------------------
(***************************************************************************)
(* Proofs about NatDetection for any number of time-outs, any bounds of    *)
(* the network and any NAT.                                                *)
(***************************************************************************)
EXTENDS NatDetection, WellFoundedInduction, TLAPS

\* Only an answer that the NAT lets in is ever under way or taken.
OnlyAnswered ==
  /\ resp \subseteq Answered
  /\ \A t \in Tests : inFlight[t] > 0 => t \in Answered

\* What the answer to test 10 has said about the mapping.
MappingKnown ==
  /\ mappedIpSame = (10 \in resp /\ SameMapping)
  /\ ipChange = (10 \in resp /\ nat.mapping = "pool")

\* Test 10 is asked at every time-out after the first answer, until it is answered.
AskedCounted ==
  phase = "testing" =>
    /\ p2pNatType = "Unknown"
    /\ asked10 <= count
    /\ 1 \notin resp => asked10 = 0
    /\ 1 \in resp /\ 10 \notin resp /\ alternate => asked10 = count

\* Nothing is forgotten: an answer that was caused is lost, taken or under way.
AnswersKept ==
  /\ count > 0 \/ 1 \in resp => mapping1 # NoPort
  /\ \A t \in Tests : inFlight[t] > 0 => mapping1 # NoPort
  /\ ~lost /\ mapping1 # NoPort =>
       \A t \in Answered \ {10} : t \in resp \/ inFlight[t] > 0
  /\ ~lost /\ alternate /\ asked10 > 0 /\ 1 \in resp => 10 \in resp \/ inFlight[10] > 0

IInv ==
  /\ ControlTypeOK
  /\ OnlyAnswered
  /\ MappingKnown
  /\ AskedCounted
  /\ AnswersKept
  /\ NeverMoreOpen
  /\ SecondTestRepeated
  /\ ExactWhenAnswered

LEMMA AnsweredTests == Answered \subseteq Tests
BY DEF Answered, Tests

LEMMA MappingBoolean == SameMapping \in BOOLEAN /\ (nat.mapping = "pool") \in BOOLEAN
<1>1. SameMapping \in BOOLEAN
  BY DEF SameMapping
<1>2. (nat.mapping = "pool") \in BOOLEAN
  OBVIOUS
<1> QED
  BY <1>1, <1>2

LEMMA InitHolds == Init => IInv
<1> SUFFICES ASSUME Init PROVE IInv
  OBVIOUS
<1> USE CountAssumption, CopiesAssumption, MaxForeignAssumption, MaxRepeatsAssumption
    DEF Init
<1>1. ControlTypeOK
  <2>1. inFlight \in [Tests -> 0 .. Copies]
    OBVIOUS
  <2>2. /\ phase \in {"testing", "mapping", "done"}
        /\ p2pNatType \in Types
    BY DEF Types
  <2>3. /\ count \in 0 .. Count /\ asked10 \in 0 .. Count
        /\ repeats \in 0 .. MaxRepeats /\ foreign \in 0 .. MaxForeign
        /\ mapped \in Nat
    OBVIOUS
  <2>4. /\ nat \in NATs /\ alternate \in BOOLEAN /\ resp \in SUBSET Tests
        /\ mappedIpSame \in BOOLEAN /\ ipChange \in BOOLEAN /\ lost \in BOOLEAN
        /\ mapping1 \in Nat \cup {NoPort} /\ mapping10 \in Nat \cup {NoPort}
    OBVIOUS
  <2> QED
    BY <2>1, <2>2, <2>3, <2>4 DEF ControlTypeOK
<1>2. OnlyAnswered /\ AskedCounted /\ AnswersKept
  BY DEF OnlyAnswered, AskedCounted, AnswersKept, Tests
<1>4. MappingKnown
  <2>1. 10 \notin resp /\ mappedIpSame = FALSE /\ ipChange = FALSE
    OBVIOUS
  <2> QED
    BY <2>1, Zenon DEF MappingKnown
<1>3. NeverMoreOpen /\ SecondTestRepeated /\ ExactWhenAnswered
  BY DEF NeverMoreOpen, SecondTestRepeated, ExactWhenAnswered, Concluded
<1> QED
  BY <1>1, <1>2, <1>3, <1>4 DEF IInv

-----------------------------------------------------------------------------
(***************************************************************************)
(* Sending and answering.                                                  *)
(***************************************************************************)
LEMMA SendTestsHolds == IInv /\ SendTests => IInv'
<1> SUFFICES ASSUME IInv, SendTests PROVE IInv'
  OBVIOUS
<1> USE CountAssumption, CopiesAssumption DEF IInv, ControlTypeOK, SendTests
<1>1. /\ UNCHANGED <<phase, resp, mappedIpSame, ipChange, nat, alternate, foreign, lost,
                     repeats, p2pNatType>>
      /\ phase = "testing"
      /\ count' = count + 1 /\ count < Count
      /\ p2pNatType = "Unknown" /\ asked10 <= count
  BY DEF result, AskedCounted
<1>2. /\ inFlight' \in [Tests -> 0 .. Copies]
      /\ \A t \in Tests : inFlight'[t] > 0 => inFlight[t] > 0 \/ t \in Answered
      /\ \A t \in Tests : t \in Sent /\ t \in Answered => inFlight'[t] > 0
      /\ \A t \in Tests : inFlight[t] > 0 => inFlight'[t] > 0
  OBVIOUS
<1>3. mapping1' \in Nat /\ mapping10' \in Nat \cup {NoPort} /\ mapped' \in Nat
  OBVIOUS
<1>4. /\ asked10' \in 0 .. Count /\ asked10' <= count'
      /\ 10 \in Sent => asked10' = asked10 + 1
      /\ 10 \notin Sent => asked10' = asked10
  BY <1>1
<1>5. ControlTypeOK'
  BY <1>1, <1>2, <1>3, <1>4
<1>6. OnlyAnswered' /\ MappingKnown'
  BY <1>1, <1>2 DEF OnlyAnswered, MappingKnown, Answered, SameMapping
<1>7. AskedCounted'
  BY <1>1, <1>4 DEF AskedCounted, Sent
<1>8. AnswersKept'
  <2>1. mapping1' # NoPort
    BY <1>3, NoPortAssumption
  <2>2. ASSUME NEW t \in Answered \ {10} PROVE t \in resp \/ inFlight'[t] > 0
    BY <1>2, AnsweredTests DEF Answered, Sent, Tests
  <2>3. alternate /\ asked10' > 0 /\ 1 \in resp /\ ~lost => 10 \in resp \/ inFlight'[10] > 0
    <3> SUFFICES ASSUME alternate, asked10' > 0, 1 \in resp, ~lost, 10 \notin resp
                 PROVE inFlight'[10] > 0
      OBVIOUS
    <3>1. CASE nat.filter = "all"
      BY <3>1 DEF OnlyAnswered, Answered
    <3>2. CASE nat.filter # "all"
      BY <3>2, <1>2 DEF Answered, Sent, Tests
    <3> QED
      BY <3>1, <3>2
  <2>4. Answered' = Answered
    BY <1>1 DEF Answered
  <2> QED
    BY <1>1, <1>2, <2>1, <2>2, <2>3, <2>4 DEF AnswersKept
<1>9. NeverMoreOpen' /\ SecondTestRepeated' /\ ExactWhenAnswered'
  BY <1>1 DEF NeverMoreOpen, SecondTestRepeated, ExactWhenAnswered, Concluded
<1> QED
  BY <1>5, <1>6, <1>7, <1>8, <1>9 DEF IInv

LEMMA AnswerHolds == ASSUME NEW t \in Tests, IInv, Answer(t) PROVE IInv'
<1> USE CountAssumption, CopiesAssumption DEF IInv, ControlTypeOK, Answer
<1>1. /\ UNCHANGED <<phase, nat, alternate, mapped, mapping1, mapping10, foreign, lost,
                     repeats, p2pNatType, asked10>>
      /\ phase = "testing" /\ p2pNatType = "Unknown"
      /\ count < Count
  BY DEF mappings, result, AskedCounted
<1>2. /\ inFlight' \in [Tests -> 0 .. Copies]
      /\ \A u \in Tests : inFlight'[u] > 0 => inFlight[u] > 0
      /\ \A u \in Tests : u # t => inFlight'[u] = inFlight[u]
      /\ inFlight[t] > 0
  BY DEF Remove
<1>3. resp' = resp \cup {t} /\ t \in Answered
  BY <1>2 DEF Responded, OnlyAnswered
<1>4. /\ t = 1 /\ 1 \notin resp => count' = 0
      /\ ~(t = 1 /\ 1 \notin resp) => count' = count
      /\ count' \in 0 .. Count
  BY DEF CountAfter
<1>5. /\ t = 10 /\ 10 \notin resp => /\ mappedIpSame' = SameMapping
                                     /\ ipChange' = (nat.mapping = "pool")
      /\ ~(t = 10 /\ 10 \notin resp) => UNCHANGED <<mappedIpSame, ipChange>>
  OBVIOUS
<1>6. ControlTypeOK'
  <2>1. mappedIpSame' \in BOOLEAN /\ ipChange' \in BOOLEAN
    <3>1. CASE t = 10 /\ 10 \notin resp
      <4>1. SameMapping \in BOOLEAN /\ (nat.mapping = "pool") \in BOOLEAN
        BY MappingBoolean
      <4>2. mappedIpSame' = SameMapping /\ ipChange' = (nat.mapping = "pool")
        BY <1>5, <3>1
      <4> HIDE DEF Answer, ControlTypeOK, IInv
      <4> QED
        BY <4>1, <4>2, Zenon
    <3>2. CASE ~(t = 10 /\ 10 \notin resp)
      BY <1>5, <3>2
    <3> QED
      BY <3>1, <3>2
  <2> QED
    BY <1>1, <1>2, <1>3, <1>4, <2>1
<1>7. OnlyAnswered'
  BY <1>1, <1>2, <1>3 DEF OnlyAnswered, Answered
<1>8. MappingKnown'
  BY <1>1, <1>3, <1>5 DEF MappingKnown, SameMapping
<1>9. AskedCounted'
  BY <1>1, <1>3, <1>4 DEF AskedCounted
<1>10. AnswersKept'
  <2>1. count' > 0 \/ 1 \in resp' => mapping1 # NoPort
    BY <1>3, <1>4, <1>2 DEF AnswersKept
  <2>2. ~lost /\ mapping1 # NoPort =>
          \A u \in Answered \ {10} : u \in resp' \/ inFlight'[u] > 0
    BY <1>2, <1>3, AnsweredTests DEF AnswersKept
  <2>3. ~lost /\ alternate /\ asked10 > 0 /\ 1 \in resp' => 10 \in resp' \/ inFlight'[10] > 0
    BY <1>1, <1>2, <1>3 DEF AnswersKept, AskedCounted, Tests
  <2>4. Answered' = Answered
    BY <1>1 DEF Answered
  <2> QED
    BY <1>1, <1>2, <2>1, <2>2, <2>3, <2>4 DEF AnswersKept
<1>11. NeverMoreOpen' /\ SecondTestRepeated' /\ ExactWhenAnswered'
  BY <1>1 DEF NeverMoreOpen, SecondTestRepeated, ExactWhenAnswered, Concluded
<1> QED
  BY <1>6, <1>7, <1>8, <1>9, <1>10, <1>11 DEF IInv

-----------------------------------------------------------------------------
(***************************************************************************)
(* The network.                                                            *)
(***************************************************************************)
LEMMA DuplicateHolds == ASSUME NEW t \in Tests, IInv, Duplicate(t) PROVE IInv'
<1> USE DEF IInv, ControlTypeOK, Duplicate
<1>1. /\ UNCHANGED <<phase, count, resp, mappedIpSame, ipChange, nat, alternate, mapped,
                     mapping1, mapping10, foreign, p2pNatType, asked10, lost>>
      /\ phase = "testing"
  BY DEF detection, mappings, result
<1>2. /\ inFlight' \in [Tests -> 0 .. Copies]
      /\ \A u \in Tests : inFlight'[u] > 0 <=> inFlight[u] > 0
  BY CopiesAssumption
<1>3. ControlTypeOK'
  BY <1>1, <1>2, MaxRepeatsAssumption
<1>4. OnlyAnswered' /\ MappingKnown' /\ AskedCounted'
  BY <1>1, <1>2 DEF OnlyAnswered, MappingKnown, AskedCounted, Answered, SameMapping
<1>5. AnswersKept'
  BY <1>1, <1>2, AnsweredTests DEF AnswersKept, Answered, Tests
<1>6. NeverMoreOpen' /\ SecondTestRepeated' /\ ExactWhenAnswered'
  BY <1>1 DEF NeverMoreOpen, SecondTestRepeated, ExactWhenAnswered, Concluded, AskedCounted
<1> QED
  BY <1>3, <1>4, <1>5, <1>6 DEF IInv

LEMMA LoseHolds == ASSUME NEW t \in Tests, IInv, Lose(t) PROVE IInv'
<1> USE DEF IInv, ControlTypeOK, Lose
<1>1. /\ UNCHANGED <<phase, count, resp, mappedIpSame, ipChange, nat, alternate, mapped,
                     mapping1, mapping10, foreign, p2pNatType, asked10, repeats>>
      /\ phase = "testing" /\ lost' = TRUE
  BY DEF detection, mappings, result
<1>2. /\ inFlight' \in [Tests -> 0 .. Copies]
      /\ \A u \in Tests : inFlight'[u] > 0 => inFlight[u] > 0
  BY CopiesAssumption DEF Remove
<1>3. ControlTypeOK'
  BY <1>1, <1>2
<1>4. OnlyAnswered' /\ MappingKnown' /\ AskedCounted'
  BY <1>1, <1>2 DEF OnlyAnswered, MappingKnown, AskedCounted, Answered, SameMapping
<1>5. AnswersKept'
  BY <1>1, <1>2 DEF AnswersKept
<1>6. NeverMoreOpen' /\ SecondTestRepeated' /\ ExactWhenAnswered'
  BY <1>1 DEF NeverMoreOpen, SecondTestRepeated, ExactWhenAnswered, Concluded, AskedCounted
<1> QED
  BY <1>3, <1>4, <1>5, <1>6 DEF IInv

\* What the invariant speaks of does not change but for the number of mappings.
LEMMA OtherHostHolds == IInv /\ OtherHost => IInv'
<1> SUFFICES ASSUME IInv, OtherHost PROVE IInv'
  OBVIOUS
<1> USE DEF IInv, ControlTypeOK, OtherHost
<1>1. /\ UNCHANGED <<phase, count, resp, mappedIpSame, ipChange, nat, alternate, inFlight,
                     mapping1, mapping10, p2pNatType, asked10, lost, repeats>>
      /\ mapped' \in Nat /\ foreign' \in 0 .. MaxForeign
  BY MaxForeignAssumption DEF detection, network, result
<1>2. ControlTypeOK'
  BY <1>1
<1>3. OnlyAnswered' /\ MappingKnown' /\ AskedCounted' /\ AnswersKept'
  BY <1>1 DEF OnlyAnswered, MappingKnown, AskedCounted, AnswersKept, Answered, SameMapping
<1>4. NeverMoreOpen' /\ SecondTestRepeated' /\ ExactWhenAnswered'
  BY <1>1 DEF NeverMoreOpen, SecondTestRepeated, ExactWhenAnswered, Concluded, InTime,
              Class, FilterClass
<1> QED
  BY <1>2, <1>3, <1>4 DEF IInv

-----------------------------------------------------------------------------
(***************************************************************************)
(* The verdict.                                                            *)
(***************************************************************************)
\* All that is left of the invariant once the tests are over.
LEMMA AfterTesting ==
  ASSUME IInv,
         phase' \in {"mapping", "done"}, p2pNatType' \in Types,
         UNCHANGED <<count, resp, mappedIpSame, ipChange, nat, alternate, inFlight,
                     mapping1, mapping10, asked10, lost, repeats, foreign>>,
         mapped' \in Nat
  PROVE  ControlTypeOK' /\ OnlyAnswered' /\ MappingKnown' /\ AskedCounted' /\ AnswersKept'
<1> USE DEF IInv, ControlTypeOK
<1>1. ControlTypeOK'
  OBVIOUS
<1>2. OnlyAnswered' /\ MappingKnown' /\ AskedCounted' /\ AnswersKept'
  BY DEF OnlyAnswered, MappingKnown, AskedCounted, AnswersKept, Answered, SameMapping
<1> QED
  BY <1>1, <1>2

\* If all that was caused has been taken, the verdict is the class of the NAT.
LEMMA VerdictExact ==
  ASSUME IInv, phase = "testing", count = Count, alternate, InTime
  PROVE  Verdict = Class
<1> USE CountAssumption DEF IInv, ControlTypeOK
<1>1. \A t \in Answered \ {10} : t \in resp
  BY AnsweredTests DEF AnswersKept, InTime
<1>2. 10 \in Answered /\ 1 \in resp => 10 \in resp
  BY DEF AnswersKept, AskedCounted, InTime, Tests
<1>3. \A t \in resp : t \in Answered
  BY DEF OnlyAnswered
<1>4. CASE nat.filter = "all"
  <2>1. 1 \notin resp
    BY <1>3, <1>4 DEF Answered
  <2> QED
    BY <2>1, <1>4 DEF Verdict, Class
<1>5. CASE nat.filter # "all"
  <2>1. 1 \in resp /\ 10 \in resp
    BY <1>1, <1>2, <1>5 DEF Answered
  <2>2. /\ 2 \in resp <=> nat.filter = "independent"
        /\ 3 \in resp <=> nat.filter # "port"
    BY <1>1, <1>3, <1>5 DEF Answered
  <2>3. mappedIpSame = SameMapping /\ ipChange = (nat.mapping = "pool")
    BY <2>1, MappingBoolean, Zenon DEF MappingKnown
  <2>4. nat.filter \in {"independent", "address", "port"}
        /\ nat.mapping \in {"public", "cone", "symmetric", "pool"}
    BY <1>5 DEF NATs
  <2>5. CASE nat.mapping = "public"
    BY <2>1, <2>2, <2>5, <1>5 DEF Verdict, Class
  <2>6. CASE nat.mapping = "cone"
    <3>1. mappedIpSame
      BY <2>3, <2>6 DEF SameMapping
    <3>2. Filter = FilterClass
      BY <2>2, <2>4 DEF Filter, FilterClass
    <3> QED
      BY <2>1, <2>6, <3>1, <3>2, <1>5 DEF Verdict, Class
  <2>7. CASE nat.mapping \in {"symmetric", "pool"}
    <3>1. ~mappedIpSame
      BY <2>3, <2>7 DEF SameMapping
    <3>2. ipChange <=> nat.mapping = "pool"
      BY <2>3
    <3> QED
      BY <2>1, <2>7, <3>1, <3>2, <1>5 DEF Verdict, Class
  <2> QED
    BY <2>4, <2>5, <2>6, <2>7
<1> QED
  BY <1>4, <1>5

LEMMA ConcludeHolds == IInv /\ Conclude => IInv'
<1> SUFFICES ASSUME IInv, Conclude PROVE IInv'
  OBVIOUS
<1> USE DEF IInv, Conclude
<1>1. /\ phase = "testing" /\ count = Count
      /\ phase' = "mapping" /\ p2pNatType' = Verdict
      /\ UNCHANGED <<count, resp, mappedIpSame, ipChange, nat, alternate, inFlight, mapped,
                     mapping1, mapping10, asked10, lost, repeats, foreign>>
  BY DEF detection, network, mappings
<1>2. Filter \in {"IndependentFilter", "DependentFilter", "PortDependedFilter"}
  BY DEF Filter
<1>3. Verdict \in Types
  BY <1>2 DEF Verdict, Types
<1>4. ControlTypeOK' /\ OnlyAnswered' /\ MappingKnown' /\ AskedCounted' /\ AnswersKept'
  BY <1>1, <1>3, AfterTesting DEF ControlTypeOK
<1>5. SecondTestRepeated'
  BY <1>1 DEF SecondTestRepeated, AskedCounted
<1>6. ExactWhenAnswered'
  <2>1. Class' = Class /\ InTime' = InTime
    BY <1>1 DEF Class, FilterClass, InTime
  <2> QED
    BY <1>1, <2>1, VerdictExact DEF ExactWhenAnswered
<1>7. NeverMoreOpen'
  <2>1. /\ 2 \in resp => nat.filter = "independent"
        /\ 3 \in resp => nat.filter \in {"independent", "address"}
    BY DEF OnlyAnswered, Answered, ControlTypeOK, NATs
  <2>2. /\ mappedIpSame => SameMapping
        /\ ipChange => nat.mapping = "pool"
    BY DEF MappingKnown
  <2>3. mappedIpSame /\ nat.mapping # "public" => nat.mapping = "cone"
    BY <2>2 DEF SameMapping
  <2>4. /\ Filter = "IndependentFilter" => 2 \in resp
        /\ Filter = "DependentFilter" => 3 \in resp
    BY DEF Filter
  <2>5. CASE 1 \notin resp
    BY <2>5, <1>1 DEF Verdict, NeverMoreOpen
  <2>6. CASE 1 \in resp /\ nat.mapping = "public"
    BY <2>6, <2>1, <1>1 DEF Verdict, NeverMoreOpen
  <2>7. CASE 1 \in resp /\ nat.mapping # "public" /\ mappedIpSame
    <3>1. Verdict = Filter
      BY <2>7 DEF Verdict
    <3> QED
      BY <3>1, <2>7, <2>1, <2>3, <2>4, <1>1, <1>2 DEF NeverMoreOpen
  <2>8. CASE 1 \in resp /\ nat.mapping # "public" /\ ~mappedIpSame
    <3>1. Verdict = IF ipChange THEN "IpChange" ELSE "DependentMapping"
      BY <2>8 DEF Verdict
    <3> QED
      BY <3>1, <2>2, <1>1 DEF NeverMoreOpen
  <2> QED
    BY <2>5, <2>6, <2>7, <2>8
<1> QED
  BY <1>4, <1>5, <1>6, <1>7

LEMMA FailHolds == IInv /\ (Fail \/ NoHost) => IInv'
<1> SUFFICES ASSUME IInv, Fail \/ NoHost PROVE IInv'
  OBVIOUS
<1> USE DEF IInv, Fail, NoHost
<1>1. /\ phase' \in {"mapping", "done"} /\ p2pNatType' = "Failure"
      /\ UNCHANGED <<count, resp, mappedIpSame, ipChange, nat, alternate, inFlight, mapped,
                     mapping1, mapping10, asked10, lost, repeats, foreign>>
  BY DEF detection, network, mappings
<1>2. ControlTypeOK' /\ OnlyAnswered' /\ MappingKnown' /\ AskedCounted' /\ AnswersKept'
  BY <1>1, AfterTesting DEF ControlTypeOK, Types
<1>3. NeverMoreOpen' /\ SecondTestRepeated' /\ ExactWhenAnswered'
  BY <1>1 DEF NeverMoreOpen, SecondTestRepeated, ExactWhenAnswered, Concluded
<1> QED
  BY <1>2, <1>3

LEMMA FinishHolds == IInv /\ Finish => IInv'
<1> SUFFICES ASSUME IInv, NEW natStep \in Steps, NEW garbage \in Garbage,
                    NEW success \in BOOLEAN, MapAddr(natStep, garbage, success)
             PROVE  IInv'
  BY DEF Finish
<1>1. /\ phase = "mapping" /\ phase' = "done" /\ p2pNatType' = p2pNatType
      /\ mapped' = mapped + 1
      /\ UNCHANGED <<count, resp, mappedIpSame, ipChange, nat, alternate, inFlight,
                     mapping1, mapping10, asked10, lost, repeats, foreign>>
  BY DEF MapAddr, detection, network
<1>2. ControlTypeOK' /\ OnlyAnswered' /\ MappingKnown' /\ AskedCounted' /\ AnswersKept'
  BY <1>1, AfterTesting DEF IInv, ControlTypeOK
<1>3. NeverMoreOpen' /\ SecondTestRepeated' /\ ExactWhenAnswered'
  BY <1>1 DEF IInv, NeverMoreOpen, SecondTestRepeated, ExactWhenAnswered, Concluded, InTime,
              Class, FilterClass
<1> QED
  BY <1>2, <1>3 DEF IInv

-----------------------------------------------------------------------------
LEMMA NextHolds == IInv /\ [Next]_vars => IInv'
<1> SUFFICES ASSUME IInv, [Next]_vars PROVE IInv'
  OBVIOUS
<1>1. CASE UNCHANGED vars
  BY <1>1 DEF vars, detection, network, mappings, result, IInv, ControlTypeOK, OnlyAnswered,
              MappingKnown, AskedCounted, AnswersKept, NeverMoreOpen, SecondTestRepeated,
              ExactWhenAnswered, Concluded, InTime, Class, FilterClass, Answered, SameMapping
<1>2. CASE Next
  BY <1>2, SendTestsHolds, AnswerHolds, DuplicateHolds, LoseHolds, OtherHostHolds,
     ConcludeHolds, FailHolds, FinishHolds DEF Next
<1> QED
  BY <1>1, <1>2

\* The inductive invariant holds in every behaviour.
THEOREM InvCorrect == Spec => []IInv
BY InitHolds, NextHolds, PTL DEF Spec

\* NeverMoreOpen: no loss or delay makes the verdict promise more than the NAT keeps.
THEOREM VerdictSafe == Spec => []NeverMoreOpen
<1>1. IInv => NeverMoreOpen
  BY DEF IInv
<1> QED
  BY <1>1, InvCorrect, PTL

\* SecondTestRepeated: test 10 is asked Count times before the verdict does without.
THEOREM SecondTestCorrect == Spec => []SecondTestRepeated
<1>1. IInv => SecondTestRepeated
  BY DEF IInv
<1> QED
  BY <1>1, InvCorrect, PTL

\* ExactWhenAnswered: without loss the verdict is what the NAT is.
THEOREM VerdictCorrect == Spec => []ExactWhenAnswered
<1>1. IInv => ExactWhenAnswered
  BY DEF IInv
<1> QED
  BY <1>1, InvCorrect, PTL

-----------------------------------------------------------------------------
(***************************************************************************)
(* Division.  The library's induction theorems take the property as an     *)
(* operator; that a set of numbers has a least element does as well.       *)
(***************************************************************************)
Less == {p \in Nat \X Nat : p[1] < p[2]}

\* By the well-founded order of the naturals, an induction without an operator.
LEMMA LeastNumber ==
  ASSUME NEW T \in SUBSET Nat, T # {}
  PROVE  \E n \in T : \A m \in T : n <= m
<1>1. OpToRel(<, Nat) = Less
  BY Zenon DEF OpToRel, Less
<1>2. IsWellFoundedOn(Less, Nat)
  BY <1>1, NatLessThanWellFounded, Zenon
<1>3. PICK n \in T : \A m \in T : <<m, n>> \notin Less
  BY <1>2, WFMin, Zenon
<1>4. ASSUME NEW m \in T PROVE n <= m
  <2>1. m \in Nat /\ n \in Nat /\ <<m, n>> \notin Less
    BY <1>3
  <2>2. ~(m < n)
    BY <2>1 DEF Less
  <2> QED
    BY <2>1, <2>2
<1> QED
  BY <1>4

-----------------------------------------------------------------------------
\* d divides n; q is an integer, for the distances have signs.
Divides(d, n) == \E q \in Int : n = d * q

\* The greatest common divisor, as the common divisor that all others divide.
IsGCD(d, a, b) ==
  /\ d \in Nat /\ Divides(d, a) /\ Divides(d, b)
  /\ \A c \in Nat : Divides(c, a) /\ Divides(c, b) => Divides(c, d)

LEMMA DividesSum ==
  ASSUME NEW c \in Nat, NEW a \in Int, NEW b \in Int, NEW k \in Int,
         Divides(c, a), Divides(c, b)
  PROVE  Divides(c, a + b * k)
<1>1. PICK p \in Int : a = c * p
  BY DEF Divides
<1>2. PICK q \in Int : b = c * q
  BY DEF Divides
<1>3. a + b * k = c * (p + q * k) /\ p + q * k \in Int
  BY <1>1, <1>2
<1> QED
  BY <1>3 DEF Divides

\* % and \div of the model, which are those of C for numbers that are not negative.
LEMMA Division ==
  ASSUME NEW a \in Nat, NEW b \in Nat \ {0}
  PROVE  /\ a \div b \in Int /\ a % b \in Nat /\ a % b < b
         /\ a = (a % b) + b * (a \div b)
BY SMT

LEMMA DividesRemainder ==
  ASSUME NEW c \in Nat, NEW a \in Nat, NEW b \in Nat \ {0}, Divides(c, b)
  PROVE  Divides(c, a) <=> Divides(c, a % b)
<1> DEFINE q == a \div b
           r == a % b
<1>1. q \in Int /\ r \in Int /\ b \in Int /\ a = r + b * q
  BY Division
<1> HIDE DEF q, r
<1>2. Divides(c, r) => Divides(c, a)
  <2> SUFFICES ASSUME Divides(c, r) PROVE Divides(c, r + b * q)
    BY <1>1
  <2> QED
    BY <1>1, DividesSum, Zenon
<1>3. Divides(c, a) => Divides(c, r)
  <2>1. -q \in Int /\ r = a + b * (-q) /\ a \in Int /\ b \in Int
    BY <1>1
  <2> SUFFICES ASSUME Divides(c, a) PROVE Divides(c, a + b * (-q))
    BY <2>1
  <2> QED
    BY <2>1, DividesSum, Zenon
<1> QED
  BY <1>2, <1>3 DEF r

LEMMA DividesAntisymmetric ==
  ASSUME NEW d \in Nat, NEW e \in Nat, Divides(d, e), Divides(e, d)
  PROVE  d = e
<1>1. PICK p \in Int : e = d * p
  BY DEF Divides
<1>2. PICK q \in Int : d = e * q
  BY DEF Divides
<1>3. CASE d = 0 \/ e = 0
  BY <1>1, <1>2, <1>3
<1>4. CASE d > 0 /\ e > 0
  <2>1. p > 0 /\ q > 0
    BY <1>1, <1>2, <1>4
  <2>2. e >= d
    BY <1>1, <1>4, <2>1
  <2>3. d >= e
    BY <1>2, <1>4, <2>1
  <2> QED
    BY <2>2, <2>3
<1> QED
  BY <1>3, <1>4

\* Two numbers have one greatest common divisor: the equation of Euclid's algorithm
\* determines its values.
LEMMA UniqueGCD ==
  ASSUME NEW a, NEW b, NEW d, NEW e, IsGCD(d, a, b), IsGCD(e, a, b)
  PROVE  d = e
BY DividesAntisymmetric DEF IsGCD

LEMMA SwapGCD == ASSUME NEW a, NEW b, NEW d, IsGCD(d, a, b) PROVE IsGCD(d, b, a)
BY DEF IsGCD

LEMMA ZeroGCD == ASSUME NEW a \in Nat PROVE IsGCD(a, a, 0)
<1>1. a = a * 1 /\ 0 = a * 0
  OBVIOUS
<1> QED
  BY <1>1 DEF IsGCD, Divides

LEMMA StepGCD ==
  ASSUME NEW a \in Nat, NEW b \in Nat \ {0}, NEW d, IsGCD(d, b, a % b)
  PROVE  IsGCD(d, a, b)
BY DividesRemainder DEF IsGCD

\* With the least b for which there were none, b and a % b would have none either.
LEMMA GCDExists == \A a, b \in Nat : \E d \in Nat : IsGCD(d, a, b)
<1> DEFINE T == {b \in Nat : \E a \in Nat : \A d \in Nat : ~IsGCD(d, a, b)}
<1>1. SUFFICES ASSUME T # {} PROVE FALSE
  OBVIOUS
<1>2. PICK b \in T : \A m \in T : b <= m
  <2> HIDE DEF T
  <2>1. T \in SUBSET Nat
    BY DEF T
  <2> QED
    BY <1>1, <2>1, LeastNumber
<1>3. PICK a \in Nat : \A d \in Nat : ~IsGCD(d, a, b)
  OBVIOUS
<1>4. b # 0
  BY <1>3, ZeroGCD
<1>5. b \in Nat \ {0} /\ a % b \in Nat /\ a % b < b
  BY <1>4, Division
<1>6. a % b \notin T
  BY <1>2, <1>5
<1>7. PICK d \in Nat : IsGCD(d, b, a % b)
  BY <1>5, <1>6
<1> QED
  BY <1>3, <1>5, <1>7, StepGCD

\* A function that solves the equation of the algorithm, so that the recursive
\* definition, the choice of one such function, is not the choice of nothing.
GCD == [p \in Nat \X Nat |-> CHOOSE d \in Nat : IsGCD(d, p[1], p[2])]

LEMMA GCDIs == \A a, b \in Nat : IsGCD(GCD[<<a, b>>], a, b)
BY GCDExists DEF GCD

\* The body of oujilide, applied to f.
Euclid(f) == [p \in Nat \X Nat |->
  IF p[2] > p[1] THEN f[<<p[2], p[1]>>]
  ELSE IF p[2] = 0 THEN p[1] ELSE f[<<p[2], p[1] % p[2]>>]]

LEMMA GCDSolves == GCD = Euclid(GCD)
<1>1. ASSUME NEW a \in Nat, NEW b \in Nat
      PROVE  GCD[<<a, b>>] = IF b > a THEN GCD[<<b, a>>] ELSE IF b = 0 THEN a ELSE GCD[<<b, a % b>>]
  <2>1. IsGCD(GCD[<<a, b>>], a, b)
    BY GCDIs
  <2>2. CASE b > a
    <3>1. IsGCD(GCD[<<b, a>>], a, b)
      BY GCDIs, SwapGCD
    <3> QED
      BY <2>1, <2>2, <3>1, UniqueGCD
  <2>3. CASE ~(b > a) /\ b = 0
    BY <2>1, <2>3, ZeroGCD, UniqueGCD
  <2>4. CASE ~(b > a) /\ b # 0
    <3>1. b \in Nat \ {0} /\ a % b \in Nat
      BY <2>4, Division
    <3>2. IsGCD(GCD[<<b, a % b>>], a, b)
      BY <3>1, GCDIs, StepGCD
    <3> QED
      BY <2>1, <2>4, <3>2, UniqueGCD
  <2> QED
    BY <2>2, <2>3, <2>4
<1>2. GCD = [p \in Nat \X Nat |-> GCD[p]]
  BY DEF GCD
<1>3. ASSUME NEW p \in Nat \X Nat PROVE GCD[p] = Euclid(GCD)[p]
  <2>1. p[1] \in Nat /\ p[2] \in Nat /\ p = <<p[1], p[2]>>
    OBVIOUS
  <2>2. GCD[<<p[1], p[2]>>] = IF p[2] > p[1] THEN GCD[<<p[2], p[1]>>]
                 ELSE IF p[2] = 0 THEN p[1] ELSE GCD[<<p[2], p[1] % p[2]>>]
    BY <1>1, <2>1
  <2> QED
    BY <2>1, <2>2 DEF Euclid
<1> QED
  BY <1>2, <1>3 DEF Euclid

\* oujilide is defined as a function that satisfies its equation, and one does.
LEMMA oujilideDef ==
  \A a, b \in Nat :
    oujilide[<<a, b>>] = IF b > a THEN oujilide[<<b, a>>]
                     ELSE IF b = 0 THEN a ELSE oujilide[<<b, a % b>>]
<1>1. oujilide = CHOOSE f : f = Euclid(f)
  BY DEF oujilide, Euclid
<1>2. oujilide = Euclid(oujilide)
  BY <1>1, GCDSolves, Zenon
<1> QED
  BY <1>2 DEF Euclid

\* The Euclid's algorithm of StunUtil.h computes the greatest common divisor of any
\* two numbers that are not negative: of the pairs for which it did not, one has the
\* least second number, and the algorithm goes on to one that is smaller still.
THEOREM oujilideGCD == \A a, b \in Nat : IsGCD(oujilide[<<a, b>>], a, b)
<1> DEFINE Good(a, b) == IsGCD(oujilide[<<a, b>>], a, b)
           T == {b \in Nat : \E a \in Nat : b <= a /\ ~Good(a, b)}
<1> HIDE DEF Good, T
<1>1. T = {}
  <2> SUFFICES ASSUME T # {} PROVE FALSE
    OBVIOUS
  <2>1. PICK b \in T : \A m \in T : b <= m
    <3>1. T \in SUBSET Nat
      BY DEF T
    <3> QED
      BY <3>1, LeastNumber
  <2>2. PICK a \in Nat : b \in Nat /\ b <= a /\ ~Good(a, b)
    BY DEF T
  <2>3. CASE b = 0
    <3>1. oujilide[<<a, b>>] = a
      <4>1. ~(b > a)
        BY <2>2
      <4> QED
        BY <2>2, <2>3, <4>1, oujilideDef
    <3> QED
      BY <2>2, <2>3, <3>1, ZeroGCD DEF Good
  <2>4. CASE b # 0
    <3>1. b \in Nat \ {0} /\ a % b \in Nat /\ a % b < b
      BY <2>2, <2>4, Division
    <3>2. a % b \notin T
      BY <2>1, <2>2, <3>1
    <3>3. Good(b, a % b)
      BY <3>1, <3>2 DEF T
    <3>4. IsGCD(oujilide[<<b, a % b>>], a, b)
      BY <3>1, <3>3, StepGCD DEF Good
    <3>5. oujilide[<<a, b>>] = oujilide[<<b, a % b>>]
      <4>1. ~(b > a)
        BY <2>2
      <4> QED
        BY <2>2, <2>4, <4>1, oujilideDef
    <3> QED
      BY <2>2, <3>4, <3>5 DEF Good
  <2> QED
    BY <2>3, <2>4
<1>2. ASSUME NEW a \in Nat, NEW b \in Nat, b <= a PROVE Good(a, b)
  BY <1>1, <1>2 DEF T
<1>3. ASSUME NEW a \in Nat, NEW b \in Nat, b > a PROVE Good(a, b)
  <2>1. IsGCD(oujilide[<<b, a>>], a, b)
    <3>1. Good(b, a)
      BY <1>2, <1>3
    <3> QED
      BY <3>1, SwapGCD DEF Good
  <2>2. oujilide[<<a, b>>] = oujilide[<<b, a>>]
    BY <1>3, oujilideDef
  <2> QED
    BY <2>1, <2>2 DEF Good
<1>4. ASSUME NEW a \in Nat, NEW b \in Nat PROVE Good(a, b)
  <2>1. b <= a \/ b > a
    OBVIOUS
  <2> QED
    BY <1>2, <1>3, <2>1
<1> QED
  BY <1>4 DEF Good

LEMMA AbsNat == ASSUME NEW n \in Int PROVE Abs(n) \in Nat /\ (n # 0 => Abs(n) # 0)
BY DEF Abs

-----------------------------------------------------------------------------
\* GetNatWightPort: signs, and the cases of its result.
LEMMA DividesNegative ==
  ASSUME NEW c \in Nat, NEW n \in Int, Divides(c, n)
  PROVE  Divides(c, -n)
<1>1. PICK q \in Int : n = c * q
  BY DEF Divides
<1>2. -q \in Int /\ -n = c * (-q)
  BY <1>1
<1> QED
  BY <1>2 DEF Divides

LEMMA DividesAbs ==
  ASSUME NEW c \in Nat, NEW n \in Int
  PROVE  Divides(c, Abs(n)) <=> Divides(c, n)
<1>1. CASE n >= 0
  BY <1>1 DEF Abs
<1>2. CASE n < 0
  <2>1. Abs(n) = -n /\ n = -(-n) /\ -n \in Int
    BY <1>2 DEF Abs
  <2>2. Divides(c, n) => Divides(c, -n)
    BY DividesNegative
  <2>3. Divides(c, -n) => Divides(c, -(-n))
    BY <2>1, DividesNegative
  <2> QED
    BY <2>1, <2>2, <2>3
<1> QED
  BY <1>1, <1>2

LEMMA DividesMod ==
  ASSUME NEW c \in Nat \ {0}, NEW n \in Int
  PROVE  Divides(c, n) <=> n % c = 0
<1>1. ASSUME NEW q \in Int PROVE (c * q) % c = 0
  BY SMT
<1>2. n = c * (n \div c) + (n % c) /\ n \div c \in Int
  BY SMT
<1>3. Divides(c, n) => n % c = 0
  BY <1>1 DEF Divides
<1>4. n % c = 0 => Divides(c, n)
  <2> SUFFICES ASSUME n % c = 0 PROVE n = c * (n \div c)
    BY <1>2 DEF Divides
  <2> QED
    BY <1>2
<1> QED
  BY <1>3, <1>4

LEMMA DividesSelf ==
  ASSUME NEW n \in Int
  PROVE  Divides(Abs(n), n)
<1>1. CASE n >= 0
  <2>1. Abs(n) = n /\ n = n * 1
    BY <1>1 DEF Abs
  <2> QED
    BY <2>1 DEF Divides
<1>2. CASE n < 0
  <2>1. Abs(n) = -n /\ n = (-n) * (-1)
    BY <1>2 DEF Abs
  <2> QED
    BY <2>1 DEF Divides
<1> QED
  BY <1>1, <1>2

LEMMA DividesZero == ASSUME NEW c \in Nat PROVE Divides(c, 0)
<1>1. 0 = c * 0
  OBVIOUS
<1> QED
  BY <1>1 DEF Divides

\* What a step is to two distances.
Common(w, step1, step2) ==
  /\ w \in Int
  /\ w # 0 => Divides(Abs(w), step1) /\ Divides(Abs(w), step2)
  /\ \A c \in Nat : Divides(c, step1) /\ Divides(c, step2) => Divides(c, w)

LEMMA CommonSigned ==
  ASSUME NEW step1 \in Int, NEW step2 \in Int, NEW n, Common(n, step1, step2)
  PROVE  Common(Signed(n, step1, step2), step1, step2)
<1>1. n \in Int
  BY DEF Common
<1>2. -n \in Int /\ Abs(-n) = Abs(n) /\ (-n # 0 <=> n # 0)
  BY <1>1 DEF Abs
<1>3. \A c \in Nat : Divides(c, n) => Divides(c, -n)
  BY <1>1, DividesNegative
<1>4. Common(-n, step1, step2)
  BY <1>2, <1>3 DEF Common
<1> QED
  BY <1>4 DEF Signed

LEMMA GetNatWightPortCommon ==
  ASSUME NEW step1 \in Int, NEW step2 \in Int
  PROVE  Common(GetNatWightPort(step1, step2), step1, step2)
<1> DEFINE Goal == Common(GetNatWightPort(step1, step2), step1, step2)
<1>1. CASE step1 = step2
  <2>1. Common(step1, step1, step2)
    BY <1>1, DividesSelf DEF Common
  <2>2. GetNatWightPort(step1, step2) = step1
    BY <1>1 DEF GetNatWightPort, Divisible
  <2> QED
    BY <2>1, <2>2
<1>2. CASE step1 # step2 /\ Divisible(step1, step2)
  <2> DEFINE s == Smaller(step1, step2)
             l == Larger(step1, step2)
  <2>1. s \in Int /\ l \in Int /\ s # 0 /\ {s, l} = {step1, step2}
    BY <1>2 DEF Divisible, Smaller, Larger
  <2>2. Abs(l) % Abs(s) = 0
    BY <1>2 DEF Divisible
  <2> HIDE DEF s, l
  <2>3. Divides(Abs(s), l)
    <3>1. Abs(s) \in Nat \ {0} /\ Abs(l) \in Int /\ Abs(s) \in Nat
      BY <2>1, AbsNat
    <3>2. Divides(Abs(s), Abs(l))
      BY <2>2, <3>1, DividesMod
    <3> QED
      BY <2>1, <3>1, <3>2, DividesAbs
  <2>4. Common(s, step1, step2)
    BY <2>1, <2>3, DividesSelf DEF Common
  <2>5. Common(Signed(s, step1, step2), step1, step2)
    BY <2>4, CommonSigned
  <2>6. GetNatWightPort(step1, step2) = Signed(s, step1, step2)
    BY <1>2 DEF GetNatWightPort, Divisible, s
  <2> QED
    BY <2>5, <2>6
<1>3. Common(0, step1, step2)
  BY DividesZero DEF Common
<1>4. CASE step1 # step2 /\ ~Divisible(step1, step2) /\ (step1 = 0 \/ step2 = 0)
  <2>1. GetNatWightPort(step1, step2) = 0
    BY <1>4 DEF GetNatWightPort
  <2> QED
    BY <1>3, <2>1
<1>5. CASE step1 # step2 /\ ~Divisible(step1, step2) /\ step1 # 0 /\ step2 # 0
  <2> DEFINE g == oujilide[<<Abs(step1), Abs(step2)>>]
  <2>1. IsGCD(g, Abs(step1), Abs(step2))
    BY AbsNat, oujilideGCD
  <2>2. GetNatWightPort(step1, step2) \in {0, Signed(g, step1, step2)}
    <3>1. GetNatWightPort(step1, step2) = CommonStep(step1, step2)
      BY <1>5 DEF GetNatWightPort
    <3>2. CommonStep(step1, step2) \in {0, Signed(g, step1, step2)}
      BY DEF CommonStep
    <3> QED
      BY <3>1, <3>2
  <2> HIDE DEF g
  <2>3. Common(g, step1, step2)
    <3>1. g \in Nat /\ Abs(g) = g
      BY <2>1 DEF IsGCD, Abs
    <3>2. Divides(g, step1) /\ Divides(g, step2)
      BY <2>1, <3>1, DividesAbs DEF IsGCD
    <3>3. \A c \in Nat : Divides(c, step1) /\ Divides(c, step2) => Divides(c, g)
      BY <2>1, DividesAbs DEF IsGCD
    <3> QED
      BY <3>1, <3>2, <3>3 DEF Common
  <2> QED
    BY <1>3, <2>2, <2>3, CommonSigned
<1> QED
  BY <1>1, <1>2, <1>4, <1>5

\* Of the distances of three mappings in a row, fd2's between the first two.
LEMMA GetNatWightPortExact ==
  ASSUME NEW n \in Int \ {0}
  PROVE  Abs(GetNatWightPort(2 * n, n)) = Abs(n)
<1>1. 2 * n # n /\ 2 * n # 0 /\ Abs(2 * n) = 2 * Abs(n) /\ Abs(n) \in Nat \ {0}
  BY DEF Abs
<1>2. Smaller(2 * n, n) = n /\ Larger(2 * n, n) = 2 * n
  BY <1>1 DEF Smaller, Larger
<1>3. (2 * Abs(n)) % Abs(n) = 0
  <2> DEFINE m == Abs(n)
  <2>1. m \in Nat \ {0}
    BY <1>1
  <2> HIDE DEF m
  <2>2. (m * 2) % m = 0
    BY <2>1, SMT
  <2>3. m * 2 = 2 * m
    BY <2>1
  <2> QED
    BY <2>2, <2>3 DEF m
<1>4. Divisible(2 * n, n)
  BY <1>1, <1>2, <1>3 DEF Divisible
<1>5. GetNatWightPort(2 * n, n) = Signed(n, 2 * n, n)
  BY <1>1, <1>2, <1>4 DEF GetNatWightPort
<1> QED
  BY <1>5 DEF Signed, Abs

-----------------------------------------------------------------------------
(***************************************************************************)
(* The step of the NAT.                                                    *)
(***************************************************************************)
\* The numbers of the mappings: fd1's and fd2's to the server are 0 and 1, that of
\* test 10 is the next, and the one of getMapAddr the one after, unless other hosts
\* come between.  Only a verdict that needs the answer to test 1 asks for the step.
Numbered ==
  /\ 10 \in resp \/ inFlight[10] > 0 => mapping10 # NoPort
  /\ mapping10 # NoPort => mapping1 # NoPort
  /\ foreign = 0 /\ mapping1 # NoPort /\ phase # "done" =>
       IF mapping10 = NoPort THEN mapped = mapping1 + 2
       ELSE mapping10 = mapping1 + 2 /\ mapped = mapping1 + 3
  /\ p2pNatType = "DependentMapping" => 1 \in resp

\* Inductive with IInv: what the ports are, and what is computed from them.
StepInv ==
  /\ Numbered
  /\ stepPort \in Int
  /\ outcome \in Outcomes \cup {Unknown}
  /\ StepTrustworthy

LEMMA NumberedStep == IInv /\ Numbered /\ Next => Numbered'
<1> SUFFICES ASSUME IInv, Numbered, Next PROVE Numbered'
  OBVIOUS
<1> USE NoPortAssumption DEF IInv, ControlTypeOK, Numbered
<1>1. CASE SendTests
  <2>1. /\ UNCHANGED <<resp, foreign, phase, p2pNatType>>
        /\ mapping1' = IF mapping1 = NoPort THEN mapped ELSE mapping1
        /\ phase = "testing" /\ p2pNatType = "Unknown"
    BY <1>1 DEF SendTests, result, AskedCounted
  <2>2. inFlight'[10] > 0 => inFlight[10] > 0 \/ 10 \in Sent
    BY <1>1 DEF SendTests, Tests
  <2>3. 10 \in Sent => mapping1 # NoPort
    BY DEF Sent, AnswersKept
  <2>4. CASE 10 \in Sent /\ mapping10 = NoPort
    <3>1. mapping10' = mapped /\ mapped' = mapped + 1
      BY <1>1, <2>4 DEF SendTests
    <3> QED
      BY <2>1, <2>2, <2>3, <2>4, <3>1
  <2>5. CASE ~(10 \in Sent /\ mapping10 = NoPort)
    <3>1. mapping10' = mapping10
          /\ mapped' = IF mapping1 = NoPort THEN mapped + 2 ELSE mapped
      BY <1>1, <2>5 DEF SendTests
    <3> QED
      BY <2>1, <2>2, <2>3, <2>5, <3>1
  <2> QED
    BY <2>4, <2>5
<1>2. ASSUME NEW t \in Tests, Answer(t) \/ Duplicate(t) \/ Lose(t) PROVE Numbered'
  <2>1. /\ UNCHANGED <<mapped, mapping1, mapping10, foreign, phase, p2pNatType>>
        /\ resp \subseteq resp' /\ resp' \subseteq resp \cup {t}
        /\ inFlight[t] > 0 /\ t \in resp' => inFlight[t] > 0
    BY <1>2 DEF Answer, Duplicate, Lose, detection, mappings, result, Responded
  <2>2. inFlight[t] > 0 /\ \A u \in Tests : inFlight'[u] > 0 => inFlight[u] > 0
    BY <1>2 DEF Answer, Duplicate, Lose, Remove
  <2>3. 10 \in resp' \/ inFlight'[10] > 0 => 10 \in resp \/ inFlight[10] > 0
    BY <2>1, <2>2 DEF Tests
  <2> QED
    BY <2>1, <2>3
<1>3. CASE OtherHost
  <2>1. /\ UNCHANGED <<resp, inFlight, mapping1, mapping10, p2pNatType>>
        /\ foreign' # 0
    BY <1>3 DEF OtherHost, detection, network, result
  <2> QED
    BY <2>1
<1>4. CASE Conclude
  <2>1. /\ UNCHANGED <<resp, inFlight, mapped, mapping1, mapping10, foreign>>
        /\ phase = "testing" /\ p2pNatType' = Verdict
    BY <1>4 DEF Conclude, detection, network, mappings
  <2>2. Verdict = "DependentMapping" => 1 \in resp
    BY DEF Verdict
  <2> QED
    BY <2>1, <2>2
<1>5. CASE Fail \/ NoHost
  <2>1. /\ UNCHANGED <<resp, inFlight, mapped, mapping1, mapping10, foreign>>
        /\ phase = "testing" /\ p2pNatType' = "Failure"
    BY <1>5 DEF Fail, NoHost, detection, network, mappings
  <2> QED
    BY <2>1
<1>6. CASE Finish
  <2>1. /\ UNCHANGED <<resp, inFlight, mapping1, mapping10, p2pNatType>>
        /\ phase' = "done"
    BY <1>6 DEF Finish, MapAddr, detection, network
  <2> QED
    BY <2>1
<1> QED
  BY <1>1, <1>2, <1>3, <1>4, <1>5, <1>6 DEF Next

LEMMA DividesMultiple ==
  ASSUME NEW n \in Int, NEW k \in Int
  PROVE  Divides(Abs(n), n * k)
<1>1. PICK q \in Int : n = Abs(n) * q
  BY DividesSelf DEF Divides
<1>2. n * k = Abs(n) * (q * k) /\ q * k \in Int
  <2> DEFINE a == Abs(n)
  <2>1. a \in Int /\ n = a * q
    BY <1>1, AbsNat
  <2> HIDE DEF a
  <2>2. n * k = a * (q * k) /\ q * k \in Int
    BY <2>1
  <2> QED
    BY <2>2 DEF a
<1> QED
  BY <1>2 DEF Divides

\* What is computed from the ports of two mappings and of one more.
LEMMA ComputedStep ==
  ASSUME NEW step1 \in Int, NEW step2 \in Int, NEW w, w = GetNatWightPort(step1, step2)
  PROVE  /\ w \in Int
         /\ w # 0 => step1 % Abs(w) = 0 /\ step2 % Abs(w) = 0
         /\ \A n \in Int \ {0} :
              Divides(Abs(n), step1) /\ Divides(Abs(n), step2) => w % Abs(n) = 0
         /\ \A n \in Int \ {0} : step1 = n * 2 /\ step2 = n => Abs(w) = Abs(n)
<1>1. Common(w, step1, step2)
  BY GetNatWightPortCommon
<1>2. w \in Int
  BY <1>1 DEF Common
<1>3. ASSUME w # 0 PROVE step1 % Abs(w) = 0 /\ step2 % Abs(w) = 0
  <2>1. Abs(w) \in Nat \ {0}
    BY <1>2, <1>3, AbsNat
  <2>2. Divides(Abs(w), step1) /\ Divides(Abs(w), step2)
    BY <1>1, <1>3 DEF Common
  <2> QED
    BY <2>1, <2>2, DividesMod
<1>4. ASSUME NEW n \in Int \ {0}, Divides(Abs(n), step1), Divides(Abs(n), step2)
      PROVE  w % Abs(n) = 0
  <2>1. Abs(n) \in Nat /\ Abs(n) \in Nat \ {0}
    BY AbsNat
  <2>2. Divides(Abs(n), w)
    BY <1>1, <1>4, <2>1 DEF Common
  <2> QED
    BY <1>2, <2>1, <2>2, DividesMod
<1>5. ASSUME NEW n \in Int \ {0}, step1 = n * 2, step2 = n PROVE Abs(w) = Abs(n)
  <2>1. step1 = 2 * n
    BY <1>5
  <2> QED
    BY <1>5, <2>1, GetNatWightPortExact
<1> QED
  BY <1>2, <1>3, <1>4, <1>5

LEMMA FinishStep == IInv /\ StepInv /\ Finish =>
                      /\ stepPort' \in Int /\ outcome' \in Outcomes \cup {Unknown}
                      /\ StepTrustworthy'
<1> DEFINE Goal == /\ stepPort' \in Int /\ outcome' \in Outcomes \cup {Unknown}
                   /\ StepTrustworthy'
<1> SUFFICES ASSUME IInv, StepInv, NEW natStep \in Steps, NEW garbage \in Garbage,
                    NEW success \in BOOLEAN, MapAddr(natStep, garbage, success)
             PROVE  Goal
  BY DEF Finish
<1> USE NoPortAssumption DEF IInv, ControlTypeOK, StepInv
<1>1. natStep \in Int \ {0} /\ garbage \in Int
  BY StepsAssumption, GarbageAssumption
<1>2. UNCHANGED foreign /\ phase = "mapping"
  BY DEF MapAddr
<1>3. CASE p2pNatType # "DependentMapping"
  <2>1. UNCHANGED <<stepPort, outcome>>
    BY <1>3 DEF MapAddr
  <2> QED
    BY <1>2, <2>1 DEF StepTrustworthy
<1>4. CASE p2pNatType = "DependentMapping"
  <2> DEFINE port2 == IF 10 \in resp THEN Base + natStep * (mapping10 - mapping1)
                      ELSE garbage
             remote == IF success THEN Base + natStep * (mapped - mapping1) ELSE 0
             step1 == port2 - Base
             step2 == remote - port2
             measured == 10 \in resp /\ success
  <2>1. /\ stepPort' = GetNatWightPort(step1, step2)
        /\ outcome' = [natStep |-> natStep, step1 |-> step1, step2 |-> step2,
                       measured |-> measured]
    BY <1>4 DEF MapAddr
  <2>2. mapping1 \in Nat /\ (10 \in resp => mapping10 \in Nat) /\ mapped \in Nat
    BY <1>4 DEF Numbered, AnswersKept
  <2>3. port2 \in Int /\ remote \in Int
    <3>1. 10 \in resp => natStep * (mapping10 - mapping1) \in Int
      BY <1>1, <2>2
    <3>2. natStep * (mapped - mapping1) \in Int
      BY <1>1, <2>2
    <3> QED
      BY <1>1, <3>1, <3>2 DEF Base
  <2>4. step1 \in Int /\ step2 \in Int /\ measured \in BOOLEAN
    BY <2>3 DEF Base
  <2>5. measured => /\ step1 = natStep * (mapping10 - mapping1)
                    /\ step2 = natStep * (mapped - mapping10)
                    /\ mapping10 - mapping1 \in Int /\ mapped - mapping10 \in Int
    BY <1>1, <2>2 DEF Base
  <2>6. measured /\ foreign = 0 => /\ step1 = natStep * 2
                                   /\ step2 = natStep
    <3>1. measured /\ foreign = 0 => mapping10 - mapping1 = 2 /\ mapped - mapping10 = 1
      BY <1>2, <2>2 DEF Numbered
    <3> QED
      BY <1>1, <2>5, <3>1
  <2> HIDE DEF step1, step2, measured
  <2>7. /\ stepPort' \in Int
        /\ stepPort' # 0 => step1 % Abs(stepPort') = 0 /\ step2 % Abs(stepPort') = 0
        /\ measured => stepPort' % Abs(natStep) = 0
        /\ measured /\ foreign = 0 => Abs(stepPort') = Abs(natStep)
    <3> DEFINE w == stepPort'
               k == mapping10 - mapping1
               m == mapped - mapping10
    <3>1. w = GetNatWightPort(step1, step2)
      BY <2>1
    <3>2. /\ w \in Int
          /\ w # 0 => step1 % Abs(w) = 0 /\ step2 % Abs(w) = 0
      BY <2>4, <3>1, ComputedStep
    <3>3. ASSUME measured PROVE w % Abs(natStep) = 0
      <4>1. k \in Int /\ m \in Int /\ step1 = natStep * k /\ step2 = natStep * m
        BY <2>5, <3>3
      <4> HIDE DEF k, m, w
      <4>2. Divides(Abs(natStep), step1) /\ Divides(Abs(natStep), step2)
        BY <1>1, <4>1, DividesMultiple
      <4> QED
        BY <1>1, <2>4, <3>1, <4>2, ComputedStep
    <3>4. ASSUME measured, foreign = 0 PROVE Abs(w) = Abs(natStep)
      <4>1. step1 = natStep * 2 /\ step2 = natStep
        BY <2>6, <3>4
      <4> HIDE DEF k, m, w
      <4> QED
        BY <1>1, <2>4, <3>1, <4>1, ComputedStep
    <3> QED
      BY <3>2, <3>3, <3>4
  <2>8. outcome' \in Outcomes
    BY <1>1, <2>1, <2>4 DEF Outcomes
  <2>9. /\ outcome'.step1 = step1 /\ outcome'.step2 = step2
        /\ outcome'.natStep = natStep /\ outcome'.measured = measured
    BY <2>1
  <2> QED
    BY <1>2, <2>7, <2>8, <2>9 DEF StepTrustworthy
<1> QED
  BY <1>3, <1>4

LEMMA StepInvStep == IInv /\ StepInv /\ [Next]_vars => StepInv'
<1> SUFFICES ASSUME IInv, StepInv, [Next]_vars PROVE StepInv'
  OBVIOUS
<1>1. CASE UNCHANGED vars
  BY <1>1 DEF StepInv, Numbered, StepTrustworthy, vars, detection, network, mappings,
              result
<1>2. CASE Next
  <2>1. Numbered'
    BY <1>2, NumberedStep DEF StepInv
  <2>2. CASE Finish
    BY <2>1, <2>2, FinishStep DEF StepInv
  <2>3. CASE ~Finish
    <3>1. UNCHANGED <<stepPort, outcome>> /\ (foreign' = foreign \/ foreign' # 0)
      BY <1>2, <2>3 DEF Next, SendTests, Answer, Duplicate, Lose, OtherHost, Conclude,
                        Fail, NoHost, result, mappings, IInv, ControlTypeOK
    <3> QED
      BY <2>1, <3>1 DEF StepInv, StepTrustworthy
  <2> QED
    BY <2>2, <2>3
<1> QED
  BY <1>1, <1>2

LEMMA StepInvCorrect == Spec => []StepInv
<1>1. Init => StepInv
  BY NoPortAssumption DEF Init, StepInv, Numbered, StepTrustworthy, Tests
<1> QED
  BY <1>1, InvCorrect, StepInvStep, PTL DEF Spec

\* Every variable keeps its type: what is computed from the ports is a number,
\* even from one that was never written.
THEOREM TypeCorrect == Spec => []TypeOK
<1>1. IInv /\ StepInv => TypeOK
  BY DEF IInv, StepInv, TypeOK
<1> QED
  BY <1>1, InvCorrect, StepInvCorrect, PTL

\* StepTrustworthy: the step that is reported divides both distances; if they were
\* measured, the step of the NAT divides it, and is it if no other host intervened.
THEOREM StepCorrect == Spec => []StepTrustworthy
<1>1. StepInv => StepTrustworthy
  BY DEF StepInv
<1> QED
  BY <1>1, StepInvCorrect, PTL

-----------------------------------------------------------------------------
(***************************************************************************)
(* The detection takes finitely many steps.  Ends needs fairness besides,  *)
(* as much as that the thread that detects goes on while it can.           *)
(***************************************************************************)
\* Time-outs to come at most: the answer to test 1 starts the count again, once.
TimeOuts == (IF 1 \in resp THEN 0 ELSE Count) + (Count - count)

Underway == inFlight[1] + inFlight[2] + inFlight[3] + inFlight[10]

\* A time-out sends four tests at most, and a repetition is one answer more.
Left ==
  5 * TimeOuts + Underway + 2 * (MaxRepeats - repeats) + (MaxForeign - foreign)
    + (CASE phase = "testing" -> 2 [] phase = "mapping" -> 1 [] OTHER -> 0)

\* Every step, of the device or of the network, leaves fewer to come.
EveryStepCounts == [][Left' < Left]_vars

LEMMA LeftNatural == IInv => Left \in Nat
<1> SUFFICES ASSUME IInv PROVE Left \in Nat
  OBVIOUS
<1> USE CountAssumption, CopiesAssumption, MaxRepeatsAssumption, MaxForeignAssumption
    DEF IInv, ControlTypeOK
<1>1. TimeOuts \in Nat
  BY DEF TimeOuts
<1>2. Underway \in Nat
  BY DEF Underway, Tests
<1>3. MaxRepeats - repeats \in Nat /\ MaxForeign - foreign \in Nat
  OBVIOUS
<1> QED
  BY <1>1, <1>2, <1>3 DEF Left

LEMMA Decrease ==
  ASSUME NEW a \in Int, NEW b \in Int, NEW c \in Int, NEW d \in Int, NEW e \in Int,
         NEW a1 \in Int, NEW b1 \in Int, NEW e1 \in Int,
         \/ a1 = a - 1 /\ b1 <= b + 4 /\ e1 = e
         \/ a1 <= a /\ b1 = b - 1 /\ e1 = e
         \/ a1 = a /\ b1 = b /\ e1 < e
  PROVE  5 * a1 + b1 + 2 * c + d + e1 < 5 * a + b + 2 * c + d + e
OBVIOUS

LEMMA TakenUnderway ==
  ASSUME NEW t \in Tests, inFlight \in [Tests -> Nat], inFlight' = Remove(t)
  PROVE  Underway' = Underway - 1
BY DEF Underway, Remove, Tests

LEMMA StepCounts == IInv /\ Next => Left' < Left
<1> SUFFICES ASSUME IInv, Next PROVE Left' < Left
  OBVIOUS
<1> USE CountAssumption, CopiesAssumption, MaxRepeatsAssumption, MaxForeignAssumption
<1> DEFINE R == MaxRepeats - repeats
           F == MaxForeign - foreign
           P == CASE phase = "testing" -> 2 [] phase = "mapping" -> 1 [] OTHER -> 0
<1>0. /\ TimeOuts \in Int /\ Underway \in Int /\ R \in Int /\ F \in Int /\ P \in Int
      /\ inFlight \in [Tests -> Nat]
      /\ Left = 5 * TimeOuts + Underway + 2 * R + F + P
      /\ Left' = 5 * TimeOuts' + Underway' + 2 * R' + F' + P'
  <2>1. inFlight \in [Tests -> Nat] /\ count \in Int /\ repeats \in Int /\ foreign \in Int
    BY DEF IInv, ControlTypeOK
  <2> QED
    BY <2>1 DEF TimeOuts, Underway, Left, Tests
<1>1. CASE SendTests
  <2>1. TimeOuts' = TimeOuts - 1
    BY <1>1 DEF SendTests, TimeOuts, IInv, ControlTypeOK
  <2>2. \A t \in Tests : inFlight'[t] \in Int /\ inFlight'[t] <= inFlight[t] + 1
    BY <1>0, <1>1 DEF SendTests
  <2>3. Underway' \in Int /\ Underway' <= Underway + 4
    BY <1>0, <2>2 DEF Underway, Tests
  <2>4. R' = R /\ F' = F /\ P' = P
    BY <1>1 DEF SendTests
  <2> HIDE DEF R, F, P
  <2>5. Left' = 5 * TimeOuts' + Underway' + 2 * R + F + P
    BY <1>0, <2>4
  <2>6. 5 * TimeOuts' + Underway' + 2 * R + F + P < 5 * TimeOuts + Underway + 2 * R + F + P
    <3>1. TimeOuts' \in Int /\ Underway' \in Int
      BY <1>0, <2>1, <2>3
    <3>2. TimeOuts' = TimeOuts - 1 /\ Underway' <= Underway + 4
      BY <2>1, <2>3
    <3> QED
      BY <1>0, <3>1, <3>2, Decrease, Zenon
  <2> QED
    BY <1>0, <2>5, <2>6
<1>2. ASSUME NEW t \in Tests, Answer(t) PROVE Left' < Left
  <2>1. TimeOuts' \in Int /\ TimeOuts' <= TimeOuts
    <3>1. /\ resp' = resp \cup {t} /\ count \in 0 .. Count /\ count < Count
          /\ count' = IF t = 1 /\ 1 \notin resp THEN 0 ELSE count
      BY <1>2 DEF Answer, Responded, CountAfter, IInv, ControlTypeOK
    <3> QED
      BY <3>1 DEF TimeOuts
  <2>2. Underway' = Underway - 1
    BY <1>0, <1>2, TakenUnderway DEF Answer
  <2>3. R' = R /\ F' = F /\ P' = P
    BY <1>2 DEF Answer, mappings
  <2> HIDE DEF R, F, P
  <2>4. Left' = 5 * TimeOuts' + Underway' + 2 * R + F + P
    BY <1>0, <2>3
  <2>5. 5 * TimeOuts' + Underway' + 2 * R + F + P < 5 * TimeOuts + Underway + 2 * R + F + P
    <3>1. TimeOuts' \in Int /\ Underway' \in Int
      BY <1>0, <2>1, <2>2
    <3>2. TimeOuts' <= TimeOuts /\ Underway' = Underway - 1
      BY <2>1, <2>2
    <3> QED
      BY <1>0, <3>1, <3>2, Decrease, Zenon
  <2> QED
    BY <1>0, <2>4, <2>5
<1>3. ASSUME NEW t \in Tests, Duplicate(t) PROVE Left' < Left
  <2>1. Underway' = Underway + 1
    BY <1>0, <1>3 DEF Duplicate, Underway, Tests
  <2>2. R' = R - 1
    BY <1>3 DEF Duplicate, IInv, ControlTypeOK
  <2>3. TimeOuts' = TimeOuts /\ F' = F /\ P' = P
    BY <1>3 DEF Duplicate, detection, mappings, TimeOuts
  <2> HIDE DEF R, F, P
  <2> QED
    BY <1>0, <2>1, <2>2, <2>3
<1>4. ASSUME NEW t \in Tests, Lose(t) PROVE Left' < Left
  <2>1. Underway' = Underway - 1
    BY <1>0, <1>4, TakenUnderway DEF Lose
  <2>2. TimeOuts' = TimeOuts /\ R' = R /\ F' = F /\ P' = P
    BY <1>4 DEF Lose, detection, mappings, TimeOuts
  <2> HIDE DEF R, F, P
  <2> QED
    BY <1>0, <2>1, <2>2
<1>5. CASE OtherHost
  <2>1. F' = F - 1
    BY <1>5 DEF OtherHost, IInv, ControlTypeOK
  <2>2. TimeOuts' = TimeOuts /\ Underway' = Underway /\ R' = R /\ P' = P
    BY <1>5 DEF OtherHost, detection, network, TimeOuts, Underway
  <2> HIDE DEF R, F, P
  <2> QED
    BY <1>0, <2>1, <2>2
<1>6. CASE Conclude \/ Fail \/ NoHost \/ Finish
  <2>1. P' \in Int /\ P' < P
    BY <1>6 DEF Conclude, Fail, NoHost, Finish, MapAddr
  <2>2. TimeOuts' = TimeOuts /\ Underway' = Underway /\ R' = R /\ F' = F
    BY <1>6 DEF Conclude, Fail, NoHost, Finish, MapAddr, detection, network, mappings,
                TimeOuts, Underway
  <2> HIDE DEF R, F, P
  <2> QED
    BY <1>0, <2>1, <2>2, Decrease
<1> QED
  BY <1>1, <1>2, <1>3, <1>4, <1>5, <1>6 DEF Next

\* However many answers come, late or repeated, the detection and the network take no
\* more steps than Left says at the start, 10 * Count + 2 * MaxRepeats + MaxForeign + 2.
THEOREM DetectionBounded == Spec => EveryStepCounts /\ [](Left \in Nat)
<1>1. IInv /\ [Next]_vars => [Left' < Left]_vars
  BY StepCounts
<1> QED
  BY <1>1, LeftNatural, InvCorrect, PTL DEF Spec, EveryStepCounts
===============================================================================
