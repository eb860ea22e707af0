--------------------------- MODULE MsgStream_proofs ---------------------------
(***************************************************************************)
(* The properties of MsgStream for every number of messages and every size *)
(* of a recv.                                                              *)
(***************************************************************************)
EXTENDS MsgStream, TLAPS

\* The stretch of the stream in which the end of a recv damages message m.
Bad(m) == (At(m, 4) .. At(m, 7)) \cup {At(m + 1, 1)}

\* While the head of a message is still to be dispatched, only the recv that is
\* dispatched can have damaged it.
FreshDamage ==
  \A m \in DOMAIN sent : from <= At(m, 4) => (m \in spoilt <=> got \in Bad(m))

\* A piece that starts inside a message is what a damaged message left over.
LeftOver ==
  \A m \in DOMAIN sent : from \in At(m, 5) .. At(m, 8) => m \in spoilt

Inductive == TypeOK /\ FreshDamage /\ LeftOver /\ AppliedExactly /\ DiesForCause

\* A position belongs to one message.
LEMMA Positions ==
  ASSUME NEW p \in Nat \ {0}
  PROVE  /\ MsgOf(p) \in Nat \ {0} /\ PartOf(p) \in 1 .. 9
         /\ p = At(MsgOf(p), PartOf(p))
         /\ At(MsgOf(p), 1) <= p /\ p <= At(MsgOf(p), 9)
BY DEF MsgOf, PartOf, At, Size

\* Before anything is sent nothing is damaged or applied.
LEMMA InitCorrect == Init => Inductive
<1> SUFFICES ASSUME Init PROVE Inductive
  OBVIOUS
<1>1. TypeOK
  <2>1. sent \in Seq(Kinds) /\ Len(sent) = 0 /\ applied \in Seq(DOMAIN sent)
    BY DEF Init
  <2>2. Len(sent) <= Messages /\ got \in 0 .. Size * Len(sent) /\ from \in 1 .. got + 1
    BY <2>1, BoundsAssumption DEF Init, Size
  <2>3. died \in BOOLEAN /\ spoilt \subseteq DOMAIN sent
    BY DEF Init
  <2> QED
    BY <2>1, <2>2, <2>3 DEF TypeOK
<1>2. DOMAIN sent = {} /\ DOMAIN applied = {}
  BY DEF Init
<1>3. FreshDamage /\ LeftOver /\ AppliedExactly
  BY <1>2 DEF Init, FreshDamage, LeftOver, AppliedExactly
<1>4. DiesForCause
  BY DEF Init, DiesForCause
<1> QED
  BY <1>1, <1>3, <1>4 DEF Inductive

\* A new message lies behind everything received.
LEMMA SendCorrect ==
  ASSUME Inductive, NEW t \in Kinds, Send(t) PROVE Inductive'
<1> USE DEF Inductive, Send
<1>0. /\ DOMAIN sent = 1 .. Len(sent) /\ DOMAIN sent' = 1 .. Len(sent) + 1
      /\ Len(sent') = Len(sent) + 1 /\ Len(sent) \in Nat
      /\ \A m \in DOMAIN sent : sent'[m] = sent[m]
      /\ got \in Nat /\ from \in Nat /\ from <= got + 1
      /\ got <= 9 * Len(sent)
  BY DEF TypeOK, Size
<1>1. TypeOK'
  <2>1. sent' \in Seq(Kinds) /\ Len(sent') <= Messages
    BY BoundsAssumption DEF TypeOK
  <2>2. got' \in 0 .. Size * Len(sent') /\ from' \in 1 .. got' + 1
    BY <1>0 DEF TypeOK, Size
  <2>3. applied' \in Seq(DOMAIN sent') /\ spoilt' \subseteq DOMAIN sent'
    <3>1. DOMAIN sent \subseteq DOMAIN sent'
      BY <1>0
    <3> QED
      BY <3>1 DEF TypeOK
  <2> QED
    BY <2>1, <2>2, <2>3 DEF TypeOK
<1>2. FreshDamage' /\ LeftOver'
  <2>1. Len(sent) + 1 \notin spoilt
    BY <1>0 DEF TypeOK
  <2>2. got \notin Bad(Len(sent) + 1)
    BY <1>0 DEF Bad, At, Size
  <2>3. ASSUME NEW m \in DOMAIN sent', from' <= At(m, 4)
        PROVE  m \in spoilt' <=> got' \in Bad(m)
    BY <1>0, <2>1, <2>2, <2>3 DEF FreshDamage
  <2>4. ASSUME NEW m \in DOMAIN sent', from' \in At(m, 5) .. At(m, 8)
        PROVE  m \in spoilt'
    <3>1. m # Len(sent) + 1
      BY <1>0, <2>4 DEF At, Size
    <3> QED
      BY <1>0, <2>4, <3>1 DEF LeftOver
  <2>5. FreshDamage'
    BY <2>3 DEF FreshDamage, Bad, At
  <2>6. LeftOver'
    BY <2>4 DEF LeftOver, At
  <2> QED
    BY <2>5, <2>6
<1>3. AppliedExactly'
  <2>1. ASSUME NEW m \in DOMAIN sent', m = Len(sent) + 1 PROVE ~ Due(m)'
    BY <1>0, <2>1 DEF Due, At, Size
  <2>2. \A i \in DOMAIN applied : applied[i] \in DOMAIN sent
    BY DEF TypeOK
  <2>3. ASSUME NEW m \in DOMAIN sent PROVE Due(m)' <=> Due(m)
    BY <1>0 DEF Due, At
  <2>4. ASSUME NEW m \in DOMAIN sent'
        PROVE  (\E i \in DOMAIN applied' : applied'[i] = m) <=> Due(m)'
    <3>1. CASE m \in DOMAIN sent
      BY <2>3, <3>1 DEF AppliedExactly
    <3>2. CASE m = Len(sent) + 1
      <4>1. ~ \E i \in DOMAIN applied' : applied'[i] = m
        BY <1>0, <2>2, <3>2
      <4> QED
        BY <2>1, <3>2, <4>1
    <3> QED
      BY <1>0, <3>1, <3>2
  <2> QED
    BY <2>4 DEF AppliedExactly
<1>4. DiesForCause'
  BY DEF DiesForCause
<1> QED
  BY <1>1, <1>2, <1>3, <1>4

\* A recv starts where the last one ended, so it can damage only what is still to
\* be dispatched, or what its predecessor has damaged.
LEMMA ReceiveCorrect ==
  ASSUME Inductive, Receive PROVE Inductive'
<1> USE DEF Inductive
<1>0. PICK n \in 1 .. MaxRecv :
        /\ got + n <= Size * Len(sent)
        /\ got' = got + n
        /\ spoilt' = spoilt \cup Damaged(got + 1, got + n)
  BY DEF Receive
<1>1. /\ DOMAIN sent = 1 .. Len(sent) /\ Len(sent) \in Nat
      /\ got \in Nat /\ from = got + 1 /\ n \in Nat \ {0}
      /\ sent' = sent /\ from' = from /\ applied' = applied /\ died' = died /\ ~died
  BY <1>0, BoundsAssumption DEF TypeOK, Receive
<1>2. TypeOK'
  BY <1>0, <1>1 DEF TypeOK, Damaged, Size
<1>3. FreshDamage'
  <2>1. ASSUME NEW m \in DOMAIN sent, from <= At(m, 4)
        PROVE  m \in spoilt' <=> got' \in Bad(m)
    <3>1. m \notin spoilt
      BY <1>1, <2>1 DEF FreshDamage, Bad, At, Size
    <3>2. m \in Damaged(got + 1, got + n) <=> got + n \in Bad(m)
      BY <1>1, <2>1 DEF Damaged, Bad, At, Size
    <3> QED
      BY <1>0, <3>1, <3>2
  <2> QED
    BY <1>1, <2>1 DEF FreshDamage, Bad, At
<1>4. LeftOver'
  BY <1>0, <1>1 DEF LeftOver, At
<1>5. AppliedExactly'
  <2>1. ASSUME NEW m \in DOMAIN sent, At(m, 8) < from
        PROVE  m \notin Damaged(got + 1, got + n)
    BY <1>1, <2>1 DEF Damaged, At, Size
  <2>2. \A m \in DOMAIN sent : Due(m)' <=> Due(m)
    BY <1>0, <1>1, <2>1 DEF Due, At
  <2> QED
    BY <1>1, <2>2 DEF AppliedExactly
<1>6. DiesForCause'
  BY <1>1 DEF DiesForCause
<1> QED
  BY <1>2, <1>3, <1>4, <1>5, <1>6

\* The templates of six types fit their documents.
Fitting == {"Heartbeat", "MsgResponse", "MsgResponse1", "P2pResponse1",
            "P2pResponse2", "UpdateP2pRet"}
LEMMA DocumentsFit == ASSUME NEW t \in Fitting PROVE Fits(t)
<1>1. CASE t = "Heartbeat"
  BY <1>1 DEF Fits, ParsedAs, HeartbeatTemplate, Document, Names, Level, Result
<1>2. CASE t = "MsgResponse"
  BY <1>2 DEF Fits, ParsedAs, MsgResponseTemplate, Document, Names, Level, Result
<1>3. CASE t = "MsgResponse1"
  BY <1>3 DEF Fits, ParsedAs, MsgResponse1Template, Document, Names, Level, Result
<1>4. CASE t = "P2pResponse1"
  BY <1>4 DEF Fits, ParsedAs, P2pResponse1Template, Document, Names, Level, Result
<1>5. CASE t = "P2pResponse2"
  BY <1>5 DEF Fits, ParsedAs, P2pResponse2Template, Document, Names, Level, Result, Addresses
<1>6. CASE t = "UpdateP2pRet"
  BY <1>6 DEF Fits, ParsedAs, UpdateP2pRetTemplate, Document, Names, Level, Result
<1> QED
  BY <1>1, <1>2, <1>3, <1>4, <1>5, <1>6 DEF Fitting

\* The piece at the front of the buffer, in terms of its message m: it reaches
\* the next message only by the first part of its tag.
LEMMA Pieces ==
  ASSUME TypeOK, from <= got, NEW m, m = MsgOf(from)
  PROVE  /\ m \in DOMAIN sent /\ m \in Nat \ {0}
         /\ At(m, 1) <= from /\ from <= At(m, 9)
         /\ from = At(m, PartOf(from)) /\ PartOf(from) \in 1 .. 9
         /\ Splits => PieceEnd = At(m, 8) /\ AfterPiece = At(m, 12) /\ got >= At(m, 11)
         /\ ~Splits => PieceEnd = got /\ AfterPiece = got + 1 /\ got <= At(m, 10)
<1>1. from \in Nat \ {0} /\ got \in Nat /\ Len(sent) \in Nat /\ got <= 9 * Len(sent)
  BY DEF TypeOK, Size
<1>2. /\ m \in Nat \ {0} /\ PartOf(from) \in 1 .. 9 /\ from = At(m, PartOf(from))
      /\ At(m, 1) <= from /\ from <= At(m, 9)
  BY <1>1, Positions
<1>3. m \in DOMAIN sent
  BY <1>1, <1>2 DEF At, Size, TypeOK
<1>0. /\ NextPiece = At(m, 12) /\ At(m, 8) = At(m, 12) - 4 /\ At(m, 12) \in Nat
      /\ At(m, 11) = At(m, 12) - 1 /\ At(m, 10) = At(m, 12) - 2
  BY <1>2 DEF NextPiece, At, Size
<1>4. Splits => PieceEnd = At(m, 8) /\ AfterPiece = At(m, 12) /\ got >= At(m, 11)
  BY <1>0, <1>1 DEF Splits, PieceEnd, AfterPiece
<1>5. ~Splits => PieceEnd = got /\ AfterPiece = got + 1 /\ got <= At(m, 10)
  BY <1>0, <1>1 DEF Splits, PieceEnd, AfterPiece
<1> QED
  BY <1>2, <1>3, <1>4, <1>5

\* A piece is dispatched: the process dies, or the next piece begins.
Dies == Headed /\ sent[MsgOf(from)] \in DOMAIN ParsedAs
        /\ (DeclarationOnly \/ (Complete /\ ~Fits(sent[MsgOf(from)])))
Applies == Headed /\ sent[MsgOf(from)] \in DOMAIN ParsedAs /\ Complete

LEMMA DispatchCases ==
  ASSUME Dispatch
  PROVE  /\ ~died /\ from <= got /\ sent' = sent /\ got' = got /\ spoilt' = spoilt
         /\ \/ Dies /\ died' = TRUE /\ from' = from /\ applied' = applied
            \/ /\ ~Dies /\ died' = died /\ from' = AfterPiece
               /\ applied' = IF Applies THEN Append(applied, MsgOf(from)) ELSE applied
BY DEF Dispatch, Dies, Applies

\* A message dies of the place the recv ended at, or of its template.
LEMMA DeathCorrect ==
  ASSUME Inductive, Dispatch, Dies PROVE Inductive'
<1>1. /\ sent' = sent /\ got' = got /\ spoilt' = spoilt /\ died' = TRUE
      /\ from' = from /\ applied' = applied /\ from <= got
  BY DispatchCases
<1>2. TypeOK' /\ FreshDamage' /\ LeftOver' /\ AppliedExactly'
  BY <1>1 DEF Inductive, TypeOK, FreshDamage, LeftOver, AppliedExactly, Due, At, Bad
<1>3. DiesForCause'
  <2> DEFINE m == MsgOf(from)
  <2>0. TypeOK /\ m \in Nat \ {0}
    BY <1>1, Pieces DEF Inductive
  <2>1. CASE DeclarationOnly
    <3>1. got = At(m, 6)
      BY <1>1, <2>0, <2>1, Pieces DEF DeclarationOnly, At, Size
    <3>2. PartOf(got) = 6
      BY <2>0, <3>1 DEF At, Size, PartOf
    <3> QED
      BY <1>1, <3>2 DEF DiesForCause, PartOf
  <2>2. CASE ~Fits(sent[m]) /\ sent[m] \in DOMAIN ParsedAs
    <3>1. sent[m] \in {"P2pHeartbeat", "RelayResponse"}
      BY <2>2, DocumentsFit DEF Fitting, ParsedAs
    <3> QED
      BY <1>1, <3>1 DEF DiesForCause, MsgOf
  <2> QED
    BY <2>1, <2>2 DEF Dies
<1> QED
  BY <1>2, <1>3 DEF Inductive

\* The next piece: it is the head of a message, or the buffer is empty and what
\* comes next is the rest of a message that this recv has damaged.
LEMMA NextPieceCorrect ==
  ASSUME Inductive, Dispatch, ~Dies PROVE Inductive'
<1> DEFINE m == MsgOf(from)
<1>1. /\ sent' = sent /\ got' = got /\ spoilt' = spoilt /\ died' = died /\ ~died
      /\ from' = AfterPiece /\ from <= got
      /\ applied' = IF Applies THEN Append(applied, m) ELSE applied
  BY DispatchCases
<1>2. TypeOK /\ FreshDamage /\ LeftOver /\ AppliedExactly
  BY DEF Inductive
<1>3. /\ m \in DOMAIN sent /\ m \in Nat \ {0}
      /\ At(m, 1) <= from /\ from <= At(m, 9)
      /\ from = At(m, PartOf(from)) /\ PartOf(from) \in 1 .. 9
      /\ Splits => PieceEnd = At(m, 8) /\ AfterPiece = At(m, 12) /\ got >= At(m, 11)
      /\ ~Splits => PieceEnd = got /\ AfterPiece = got + 1 /\ got <= At(m, 10)
  BY <1>1, <1>2, Pieces
<1>4. /\ got \in Nat /\ from \in Nat \ {0} /\ DOMAIN sent \subseteq Nat \ {0}
      /\ AfterPiece > from /\ AfterPiece <= got + 1 /\ AfterPiece \in Nat
  <2> HIDE DEF m
  <2>1. got \in Nat /\ from \in Nat \ {0} /\ DOMAIN sent \subseteq Nat \ {0}
    BY <1>2 DEF TypeOK, Size
  <2>2. CASE Splits
    BY <1>1, <1>3, <2>1, <2>2 DEF At, Size
  <2>3. CASE ~Splits
    BY <1>1, <1>3, <2>1, <2>3
  <2> QED
    BY <2>1, <2>2, <2>3
<1> HIDE DEF m
<1>5. TypeOK'
  <2>1. applied' \in Seq(DOMAIN sent)
    <3>1. applied \in Seq(DOMAIN sent) /\ Append(applied, m) \in Seq(DOMAIN sent)
      BY <1>2, <1>3 DEF TypeOK
    <3> QED
      BY <1>1, <3>1
  <2> QED
    BY <1>1, <1>2, <1>4, <2>1 DEF TypeOK
<1>6. FreshDamage'
  <2>1. ASSUME NEW x \in DOMAIN sent, AfterPiece <= At(x, 4)
        PROVE  x \in spoilt <=> got \in Bad(x)
    BY <1>2, <1>4, <2>1 DEF FreshDamage, At, Size
  <2> QED
    BY <1>1, <2>1 DEF FreshDamage, Bad, At
<1>7. LeftOver'
  <2>1. ASSUME NEW x \in DOMAIN sent, AfterPiece \in At(x, 5) .. At(x, 8)
        PROVE  x \in spoilt
    <3>1. ~Splits /\ got \in At(x, 4) .. At(x, 7) /\ x = m
      BY <1>3, <1>4, <2>1 DEF At, Size
    <3>2. CASE from <= At(m, 4)
      BY <1>2, <1>3, <3>1, <3>2 DEF FreshDamage, Bad
    <3>3. CASE from > At(m, 4)
      <4>1. from \in At(m, 5) .. At(m, 8)
        BY <1>1, <1>3, <1>4, <3>1, <3>3 DEF At, Size
      <4> QED
        BY <1>2, <1>3, <3>1, <4>1 DEF LeftOver
    <3> QED
      BY <1>3, <1>4, <3>2, <3>3 DEF At, Size
  <2> QED
    BY <1>1, <2>1 DEF LeftOver, At
<1>8. AppliedExactly'
  <2>1. ASSUME NEW x \in DOMAIN sent, x # m
        PROVE  At(x, 8) < AfterPiece <=> At(x, 8) < from
    BY <1>3, <1>4, <2>1 DEF At, Size
  <2>2. ASSUME Applies
        PROVE  from <= At(m, 4) /\ At(m, 8) < AfterPiece /\ m \notin spoilt
    <3>1. from <= At(m, 4) /\ PieceEnd \in {At(m, 8), At(m, 9)}
      BY <1>3, <2>2 DEF Applies, Headed, Complete, At, Size, m
    <3>2. At(m, 8) < AfterPiece /\ got \notin Bad(m)
      BY <1>3, <1>4, <3>1 DEF Bad, At, Size
    <3> QED
      BY <1>2, <1>3, <3>1, <3>2 DEF FreshDamage
  <2>3. ASSUME ~Applies, At(m, 8) < AfterPiece, At(m, 8) >= from,
               sent[m] \in DOMAIN ParsedAs
        PROVE  m \in spoilt
    <3>1. PieceEnd >= At(m, 8)
      BY <1>3, <1>4, <2>3 DEF At, Size
    <3>2. CASE PartOf(from) > 4
      BY <1>2, <1>3, <1>4, <2>3, <3>2 DEF LeftOver, At, Size
    <3>3. CASE PartOf(from) <= 4
      <4>1. Headed
        BY <1>3, <1>4, <3>1, <3>3 DEF Headed, At, Size, m
      <4>2. PieceEnd \notin {At(m, 8), At(m, 9)}
        BY <2>3, <4>1 DEF Applies, Complete, m
      <4>3. got = At(m, 10) /\ got \in Bad(m) /\ from <= At(m, 4)
        BY <1>3, <1>4, <3>1, <3>3, <4>2 DEF Bad, At, Size
      <4> QED
        BY <1>2, <1>3, <4>3 DEF FreshDamage
    <3> QED
      BY <1>3, <3>2, <3>3
  <2>4. ASSUME NEW i \in DOMAIN applied, Applies PROVE applied[i] < m
    <3>1. applied[i] \in DOMAIN sent /\ At(applied[i], 8) < from
      BY <1>2 DEF TypeOK, AppliedExactly, Due
    <3> QED
      BY <1>3, <1>4, <2>2, <2>4, <3>1 DEF At, Size
  <2>5. ASSUME NEW x \in DOMAIN sent
        PROVE  Due(x)' <=> (Due(x) \/ (Applies /\ x = m))
    <3>1. Due(x)' <=> (x \notin spoilt /\ sent[x] \in DOMAIN ParsedAs /\ At(x, 8) < AfterPiece)
      BY <1>1 DEF Due, At
    <3>2. CASE x # m
      BY <2>1, <3>1, <3>2 DEF Due
    <3>3. CASE x = m /\ Applies
      BY <2>2, <3>1, <3>3 DEF Applies, m
    <3>4. CASE x = m /\ ~Applies
      <4>1. At(m, 8) < from => At(m, 8) < AfterPiece
        BY <1>3, <1>4 DEF At, Size
      <4>2. At(m, 8) < from \/ At(m, 8) >= from
        BY <1>3, <1>4 DEF At, Size
      <4> QED
        BY <2>3, <3>1, <3>4, <4>1, <4>2 DEF Due
    <3> QED
      BY <3>2, <3>3, <3>4
  <2>6. CASE ~Applies
    BY <1>1, <1>2, <2>5, <2>6 DEF AppliedExactly
  <2>7. CASE Applies
    <3>1. /\ applied' = Append(applied, m) /\ applied \in Seq(Nat)
          /\ DOMAIN applied = 1 .. Len(applied) /\ Len(applied) \in Nat
      BY <1>1, <1>2, <1>4, <2>7 DEF TypeOK
    <3>2. /\ DOMAIN applied' = 1 .. Len(applied) + 1 /\ applied'[Len(applied) + 1] = m
          /\ \A i \in 1 .. Len(applied) : applied'[i] = applied[i]
      BY <3>1
    <3>3. ASSUME NEW x \in DOMAIN sent
          PROVE  (\E i \in DOMAIN applied' : applied'[i] = x) <=> Due(x)'
      <4>1. (\E i \in DOMAIN applied' : applied'[i] = x)
              <=> ((\E i \in DOMAIN applied : applied[i] = x) \/ x = m)
        BY <3>1, <3>2
      <4> QED
        BY <1>2, <2>5, <2>7, <4>1 DEF AppliedExactly
    <3>4. ASSUME NEW i \in DOMAIN applied', NEW j \in DOMAIN applied', i < j
          PROVE  applied'[i] < applied'[j]
      <4>1. i \in DOMAIN applied /\ applied'[i] = applied[i]
        BY <3>1, <3>2, <3>4
      <4>2. CASE j = Len(applied) + 1
        BY <2>4, <2>7, <3>2, <4>1, <4>2
      <4>3. CASE j \in DOMAIN applied
        BY <1>2, <3>1, <3>2, <3>4, <4>1, <4>3 DEF AppliedExactly
      <4> QED
        BY <3>1, <3>2, <4>2, <4>3
    <3> QED
      BY <1>1, <3>3, <3>4 DEF AppliedExactly
  <2> QED
    BY <2>6, <2>7
<1>9. DiesForCause'
  BY <1>1 DEF DiesForCause
<1> QED
  BY <1>5, <1>6, <1>7, <1>8, <1>9 DEF Inductive

LEMMA StutterCorrect == ASSUME Inductive, UNCHANGED vars PROVE Inductive'
<1>1. TypeOK' /\ FreshDamage' /\ LeftOver'
  BY DEF vars, Inductive, TypeOK, FreshDamage, LeftOver, Bad, At
<1>2. AppliedExactly' /\ DiesForCause'
  BY DEF vars, Inductive, AppliedExactly, Due, At, DiesForCause, PartOf, MsgOf
<1> QED
  BY <1>1, <1>2 DEF Inductive

\* The strengthening of the properties that every step keeps.
THEOREM StreamInductive == Spec => []Inductive
<1>1. Init => Inductive
  BY InitCorrect
<1>2. Inductive /\ [Next]_vars => Inductive'
  <2> SUFFICES ASSUME Inductive, [Next]_vars PROVE Inductive'
    OBVIOUS
  <2>1. ASSUME NEW t \in Kinds, Send(t) PROVE Inductive'
    BY <2>1, SendCorrect
  <2>2. CASE Receive
    BY <2>2, ReceiveCorrect
  <2>3. CASE Dispatch
    BY <2>3, DeathCorrect, NextPieceCorrect
  <2>4. CASE UNCHANGED vars
    BY <2>4, StutterCorrect
  <2> QED
    BY <2>1, <2>2, <2>3, <2>4 DEF Next
<1> QED
  BY <1>1, <1>2, PTL DEF Spec

\* Nothing is dispatched that was not received, or received that was not sent.
THEOREM TypeCorrect == Spec => []TypeOK
<1>1. Inductive => TypeOK
  BY DEF Inductive
<1> QED
  BY <1>1, StreamInductive, PTL

\* Whatever the sizes of the recvs, the end of one costs one message at most, and
\* all others reach the handler once and in order.
THEOREM StreamCorrect == Spec => []AppliedExactly
<1>1. Inductive => AppliedExactly
  BY DEF Inductive
<1> QED
  BY <1>1, StreamInductive, PTL

\* No message that fits its template ends the process unless a recv ended right
\* after its declaration.
THEOREM DeathHasCause == Spec => []DiesForCause
<1>1. Inductive => DiesForCause
  BY DEF Inductive
<1> QED
  BY <1>1, StreamInductive, PTL
=============================================================================
