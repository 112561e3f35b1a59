------------------------------- MODULE FormProofs -------------------------------
(***************************************************************************)
(* Theorems about Form, for any form, any response and any limit.          *)
(***************************************************************************)
EXTENDS Form, TLAPS

\* How far the goroutine is: the pieces written are good ones, and it writes the
\* closing boundary without an error only behind the last.
WriterInv ==
    /\ got = at
    /\ writer \in {"none", "next", "write"} => ~failed
    /\ writer \in {"none", "next", "write", "closing"} => wend = "open"
    /\ writer = "write" => at < Len(form) /\ form[at + 1].args = "good"
    /\ writer = "closing" /\ ~failed => at = Len(form)
    /\ open => writer \in {"next", "write"}

GoodInv == \A i \in 1 .. at : form[i].args = "good"

\* A clean end of the pipe, and who has seen it.
EndInv ==
    /\ wend = "eof" => writer = "done" /\ final /\ at = Len(form)
    /\ seen = "eof" => wend = "eof"

\* The inductive invariant.
FlowInv == FlowType /\ WriterInv /\ GoodInv /\ EndInv
IInv == FlowInv /\ ReplyType

-----------------------------------------------------------------------------
LEMMA FormFacts ==
  ASSUME NEW x \in Forms
  PROVE  Len(x) \in Nat
  <1>1. x \in Seq(Piece)
    BY FormAssumption DEF FormAssumption
  <1> QED
    BY <1>1

LEMMA InitInv == Init => IInv
  <1> SUFFICES ASSUME Init PROVE IInv
    OBVIOUS
  <1>1. Len(form) \in Nat
    BY FormFacts DEF Init
  <1>2. size \in Nat
    BY FormAssumption DEF Init, FormAssumption
  <1>3. read \in [err : {"none", "", "bad_cap", "body_cap", "trans"}, n : Nat, max : Int]
    BY DEF Init, NoRead
  <1>4. FlowType
    <2>1. open \in BOOLEAN /\ failed \in BOOLEAN /\ final \in BOOLEAN /\ form \in Forms
      BY DEF Init
    <2>2. at \in 0 .. Len(form) /\ got \in 0 .. Len(form)
      BY <1>1 DEF Init
    <2> QED
      BY <2>1, <2>2, Zenon DEF Init, FlowType
  <1>5. GoodInv
    BY DEF Init, GoodInv
  <1>6. WriterInv /\ EndInv
    BY DEF Init, WriterInv, EndInv
  <1> QED
    BY <1>2, <1>3, <1>4, <1>5, <1>6 DEF Init, IInv, FlowInv, ReplyType

\* What the steps rest on.
LEMMA Facts == ASSUME FlowType PROVE Len(form) \in Nat /\ at \in Nat /\ at <= Len(form)
  <1>1. form \in Forms /\ at \in 0 .. Len(form)
    BY DEF FlowType
  <1> QED
    BY <1>1, FormFacts

LEMMA MultipartInv == FlowInv /\ Multipart => FlowInv'
  <1> SUFFICES ASSUME FlowInv, Multipart PROVE FlowInv'
    OBVIOUS
  <1> USE DEF FlowInv, transport
  <1>1. FlowType'
    BY Facts DEF Multipart, FlowType, WriterInv
  <1>2. WriterInv'
    BY Facts DEF Multipart, FlowType, WriterInv
  <1>3. GoodInv' /\ EndInv'
    BY DEF Multipart, WriterInv, GoodInv, EndInv
  <1> QED
    BY <1>1, <1>2, <1>3

\* The steps of the goroutine that do not meet the transport.
LEMMA GoroutineInv == FlowInv /\ Goroutine => FlowInv'
  <1> SUFFICES ASSUME FlowInv, Goroutine PROVE FlowInv'
    OBVIOUS
  <1> USE DEF FlowInv, transport
  <1>1. CASE NextPiece
    <2>1. FlowType'
      BY <1>1, Facts DEF NextPiece, piece, FlowType, WriterInv
    <2>2. WriterInv'
      BY <1>1, Facts DEF NextPiece, piece, FlowType, WriterInv
    <2>3. GoodInv'
      BY <1>1, Facts DEF NextPiece, piece, FlowType, WriterInv, GoodInv
    <2>4. EndInv'
      BY <1>1 DEF NextPiece, piece, WriterInv, EndInv
    <2> QED
      BY <2>1, <2>2, <2>3, <2>4
  <1>2. CASE Fail
    <2>1. FlowType'
      BY <1>2, Facts DEF Fail, FlowType, WriterInv
    <2>2. WriterInv'
      BY <1>2, Facts DEF Fail, FlowType, WriterInv
    <2>3. GoodInv'
      BY <1>2, Facts DEF Fail, FlowType, WriterInv, GoodInv
    <2>4. EndInv'
      BY <1>2 DEF Fail, WriterInv, EndInv
    <2> QED
      BY <2>1, <2>2, <2>3, <2>4
  <1>3. CASE LastPiece
    <2>1. FlowType'
      BY <1>3, Facts DEF LastPiece, FlowType, WriterInv
    <2>2. WriterInv'
      BY <1>3, Facts DEF LastPiece, FlowType, WriterInv
    <2>3. GoodInv'
      BY <1>3, Facts DEF LastPiece, FlowType, WriterInv, GoodInv
    <2>4. EndInv'
      BY <1>3 DEF LastPiece, WriterInv, EndInv
    <2> QED
      BY <2>1, <2>2, <2>3, <2>4
  <1>4. CASE PipeBroken
    <2>1. FlowType'
      BY <1>4, Facts DEF PipeBroken, OpenAfterError, FlowType, WriterInv
    <2>2. WriterInv'
      BY <1>4, Facts DEF PipeBroken, OpenAfterError, FlowType, WriterInv
    <2>3. GoodInv'
      BY <1>4, Facts DEF PipeBroken, OpenAfterError, FlowType, WriterInv, GoodInv
    <2>4. EndInv'
      BY <1>4 DEF PipeBroken, OpenAfterError, WriterInv, EndInv
    <2> QED
      BY <2>1, <2>2, <2>3, <2>4
  <1> QED
    BY <1>1, <1>2, <1>3, <1>4 DEF Goroutine

\* The steps of the transport: what it takes, and how it ends.
LEMMA TransportInv == FlowInv /\ Transport => FlowInv'
  <1> SUFFICES ASSUME FlowInv, Transport PROVE FlowInv'
    OBVIOUS
  <1> USE DEF FlowInv, goroutine
  <1>1. CASE TakePiece
    <2>1. FlowType'
      BY <1>1, Facts DEF TakePiece, FlowType, WriterInv
    <2>2. WriterInv'
      BY <1>1, Facts DEF TakePiece, FlowType, WriterInv
    <2>3. GoodInv'
      BY <1>1, Facts DEF TakePiece, FlowType, WriterInv, GoodInv
    <2>4. EndInv'
      BY <1>1 DEF TakePiece, WriterInv, EndInv
    <2> QED
      BY <2>1, <2>2, <2>3, <2>4
  <1>2. CASE TakeBoundary
    <2>1. FlowType'
      BY <1>2, Facts DEF TakeBoundary, WriteEnd, FlowType, WriterInv
    <2>2. WriterInv'
      BY <1>2, Facts DEF TakeBoundary, WriteEnd, FlowType, WriterInv
    <2>3. GoodInv'
      BY <1>2, Facts DEF TakeBoundary, WriteEnd, FlowType, WriterInv, GoodInv
    <2>4. EndInv'
      BY <1>2 DEF TakeBoundary, WriteEnd, WriterInv, EndInv
    <2> QED
      BY <2>1, <2>2, <2>3, <2>4
  <1>3. CASE SeeEnd
    <2>1. FlowType'
      BY <1>3, Facts DEF SeeEnd, FlowType, WriterInv
    <2>2. WriterInv'
      BY <1>3, Facts DEF SeeEnd, FlowType, WriterInv
    <2>3. GoodInv'
      BY <1>3, Facts DEF SeeEnd, FlowType, WriterInv, GoodInv
    <2>4. EndInv'
      BY <1>3 DEF SeeEnd, WriterInv, EndInv
    <2> QED
      BY <2>1, <2>2, <2>3, <2>4
  <1>4. CASE GiveUp
    <2>1. FlowType'
      BY <1>4, Facts DEF GiveUp, FlowType, WriterInv
    <2>2. WriterInv'
      BY <1>4, Facts DEF GiveUp, FlowType, WriterInv
    <2>3. GoodInv'
      BY <1>4, Facts DEF GiveUp, FlowType, WriterInv, GoodInv
    <2>4. EndInv'
      BY <1>4 DEF GiveUp, WriterInv, EndInv
    <2> QED
      BY <2>1, <2>2, <2>3, <2>4
  <1> QED
    BY <1>1, <1>2, <1>3, <1>4 DEF Transport

LEMMA DoInv == FlowInv /\ Do => FlowInv'
  <1> SUFFICES ASSUME FlowInv, Do PROVE FlowInv'
    OBVIOUS
  <1> USE DEF FlowInv, goroutine, transport
  <1>1. CASE SendRequest
    <2>1. FlowType'
      BY <1>1, Facts DEF SendRequest, FlowType, WriterInv
    <2>2. WriterInv'
      BY <1>1, Facts DEF SendRequest, FlowType, WriterInv
    <2>3. GoodInv'
      BY <1>1, Facts DEF SendRequest, FlowType, WriterInv, GoodInv
    <2>4. EndInv'
      BY <1>1 DEF SendRequest, WriterInv, EndInv
    <2> QED
      BY <2>1, <2>2, <2>3, <2>4
  <1>2. CASE DoFails
    <2>1. FlowType'
      BY <1>2, Facts DEF DoFails, RendAfterError, FlowType, WriterInv
    <2>2. WriterInv'
      BY <1>2, Facts DEF DoFails, RendAfterError, FlowType, WriterInv
    <2>3. GoodInv'
      BY <1>2, Facts DEF DoFails, RendAfterError, FlowType, WriterInv, GoodInv
    <2>4. EndInv'
      BY <1>2 DEF DoFails, RendAfterError, WriterInv, EndInv
    <2> QED
      BY <2>1, <2>2, <2>3, <2>4
  <1>3. CASE DoAnswers
    <2>1. FlowType'
      BY <1>3, Facts DEF DoAnswers, FlowType, WriterInv
    <2>2. WriterInv'
      BY <1>3, Facts DEF DoAnswers, FlowType, WriterInv
    <2>3. GoodInv'
      BY <1>3, Facts DEF DoAnswers, FlowType, WriterInv, GoodInv
    <2>4. EndInv'
      BY <1>3 DEF DoAnswers, WriterInv, EndInv
    <2> QED
      BY <2>1, <2>2, <2>3, <2>4
  <1> QED
    BY <1>1, <1>2, <1>3 DEF Do

\* What Read takes is a natural number of bytes, also where max + 1 wraps.
LEMMA ReceivedNat ==
  ASSUME ReplyType, NEW m \in Int
  PROVE  Received(Plus1(m)) \in Nat
  <1>1. size \in Nat
    BY DEF ReplyType
  <1>2. MaxInt \in Nat
    BY FormAssumption DEF FormAssumption
  <1>3. Plus1(m) \in Int
    BY <1>2 DEF Plus1
  <1> QED
    BY <1>1, <1>3 DEF Received

LEMMA ReadType ==
  ASSUME NEW err \in {"none", "", "bad_cap", "body_cap", "trans"}, NEW k \in Nat, NEW m \in Int
  PROVE  ReadOf(err, k, m) \in
             [err : {"none", "", "bad_cap", "body_cap", "trans"}, n : Nat, max : Int]
  BY DEF ReadOf

LEMMA ReadInv == ASSUME ReplyType, NEW max \in Maxes, Read(max) PROVE ReplyType'
  <1>1. max \in Int
    BY FormAssumption DEF FormAssumption
  <1>2. MaxBody \in Int
    BY FormAssumption DEF FormAssumption
  <1>3. PICK m \in Int : m = IF max = 0 THEN MaxBody ELSE max
    BY <1>1, <1>2
  <1>4. PICK k \in Nat : k = Received(Plus1(m))
    BY ReceivedNat
  <1>5. \/ read' = ReadOf("bad_cap", 0, max)
        \/ read' = ReadOf("trans", 0, m)
        \/ read' = ReadOf("body_cap", 0, m)
        \/ read' = ReadOf("", k, m)
    BY <1>3, <1>4 DEF Read
  <1>6. read' \in [err : {"none", "", "bad_cap", "body_cap", "trans"}, n : Nat, max : Int]
    <2>1. CASE read' = ReadOf("bad_cap", 0, max)
      BY <1>1, <2>1, ReadType
    <2>2. CASE read' = ReadOf("trans", 0, m)
      BY <2>2, ReadType
    <2>3. CASE read' = ReadOf("body_cap", 0, m)
      BY <2>3, ReadType
    <2>4. CASE read' = ReadOf("", k, m)
      BY <2>4, ReadType
    <2> QED
      BY <1>5, <2>1, <2>2, <2>3, <2>4
  <1>7. size' \in Nat
    BY DEF Read, ReplyType
  <1>8. closed' \in BOOLEAN
    BY DEF Read, ReplyType
  <1> QED
    BY <1>6, <1>7, <1>8 DEF ReplyType

\* Nothing but Read touches the response.
LEMMA Untouched == Multipart \/ Goroutine \/ Transport \/ Do => UNCHANGED response
  BY DEF Multipart, Goroutine, NextPiece, Fail, LastPiece, PipeBroken, Transport,
         TakePiece, TakeBoundary, SeeEnd, GiveUp, Do, SendRequest, DoFails, DoAnswers

LEMMA StepInv == IInv /\ [Next]_vars => IInv'
  <1> SUFFICES ASSUME IInv, [Next]_vars PROVE IInv'
    OBVIOUS
  <1>1. CASE Multipart \/ Goroutine \/ Transport \/ Do
    <2>1. FlowInv'
      BY <1>1, MultipartInv, GoroutineInv, TransportInv, DoInv DEF IInv
    <2>2. UNCHANGED response
      BY <1>1, Untouched
    <2>3. ReplyType'
      BY <2>2 DEF IInv, ReplyType, response
    <2> QED
      BY <2>1, <2>3 DEF IInv
  <1>2. CASE (\E max \in Maxes : Read(max)) \/ UNCHANGED vars
    <2>1. UNCHANGED <<form, at, open, failed, writer, wend, rend, got, final, seen, http, do>>
      BY <1>2 DEF Read, vars, goroutine, transport
    <2>2. FlowType'
      <3>1. form' \in Forms /\ at' \in 0 .. Len(form') /\ got' \in 0 .. Len(form')
        BY <2>1 DEF IInv, FlowInv, FlowType
      <3>2. open' \in BOOLEAN /\ failed' \in BOOLEAN /\ final' \in BOOLEAN
        BY <2>1 DEF IInv, FlowInv, FlowType
      <3>3. writer' \in {"none", "next", "write", "closing", "done"}
        BY <2>1 DEF IInv, FlowInv, FlowType
      <3>4. /\ wend' \in {"open", "eof", "error"} /\ rend' \in {"open", "closed"}
            /\ seen' \in {"none", "eof", "error"} /\ http' \in {"none", "reading", "stopped"}
            /\ do' \in {"none", "called", "ok", "error"}
        BY <2>1 DEF IInv, FlowInv, FlowType
      <3> QED
        BY <3>1, <3>2, <3>3, <3>4 DEF FlowType
    <2>3. WriterInv' /\ GoodInv' /\ EndInv'
      BY <2>1 DEF IInv, FlowInv, WriterInv, GoodInv, EndInv
    <2>4. ReplyType'
      <3>1. CASE UNCHANGED vars
        BY <3>1 DEF IInv, ReplyType, vars
      <3> QED
        BY <1>2, <3>1, ReadInv DEF IInv
    <2> QED
      BY <2>2, <2>3, <2>4 DEF IInv, FlowInv
  <1> QED
    BY <1>1, <1>2 DEF Next

LEMMA ReadWhole == ASSUME ReplyType, NEW max \in Maxes, Read(max) PROVE ReadIsWhole'
  <1>1. max \in Int
    BY FormAssumption DEF FormAssumption
  <1>2. MaxBody \in Nat /\ MaxInt \in Nat
    BY FormAssumption DEF FormAssumption
  <1>3. size \in Nat /\ size' = size
    BY DEF Read, ReplyType
  <1>4. CASE max < 0
    <2>1. read' = ReadOf("bad_cap", 0, max)
      BY <1>4 DEF Read
    <2>2. read'.err = "bad_cap"
      BY <2>1 DEF ReadOf
    <2> QED
      BY <2>2 DEF ReadIsWhole
  <1>5. CASE ~(max < 0)
    <2>1. PICK m \in Nat : m = IF max = 0 THEN MaxBody ELSE max
      BY <1>1, <1>2, <1>5
    <2>2. PICK k \in Nat : k = Received(Plus1(m))
      BY ReceivedNat
    <2>3. /\ m = MaxInt => k = 0
          /\ m < MaxInt /\ k <= m => k = size
          /\ k > m => size > m
      BY <1>2, <1>3, <2>2 DEF Received, Plus1
    <2>4. closed' = TRUE
      BY <1>5 DEF Read
    <2>5. \/ read' = ReadOf("trans", 0, m)
          \/ k > m /\ read' = ReadOf("body_cap", 0, m)
          \/ k <= m /\ read' = ReadOf("", k, m)
      BY <1>5, <2>1, <2>2 DEF Read
    <2>6. /\ read'.max = m
          /\ \/ read'.err = "trans"
             \/ k > m /\ read'.err = "body_cap"
             \/ k <= m /\ read'.err = "" /\ read'.n = k
      <3>1. CASE read' = ReadOf("trans", 0, m)
        <4>1. read'.err = "trans" /\ read'.max = m
          BY <3>1 DEF ReadOf
        <4> QED
          BY <3>1, <4>1
      <3>2. CASE k > m /\ read' = ReadOf("body_cap", 0, m)
        <4>1. read'.err = "body_cap" /\ read'.max = m
          BY <3>2 DEF ReadOf
        <4> QED
          BY <3>2, <4>1
      <3>3. CASE k <= m /\ read' = ReadOf("", k, m)
        <4>1. read'.err = "" /\ read'.n = k /\ read'.max = m
          BY <3>3 DEF ReadOf
        <4> QED
          BY <3>3, <4>1
      <3> QED
        BY <2>5, <3>1, <3>2, <3>3
    <2>7. read'.err = "" /\ read'.max < MaxInt => read'.n = size' /\ read'.n <= read'.max
      BY <1>3, <2>3, <2>6
    <2>8. read'.err = "" /\ read'.max = MaxInt => read'.n = 0
      BY <2>3, <2>6
    <2>9. read'.err = "body_cap" => size' > read'.max
      BY <1>3, <2>3, <2>6
    <2> QED
      BY <2>4, <2>7, <2>8, <2>9 DEF ReadIsWhole
  <1> QED
    BY <1>4, <1>5

LEMMA Invariance == Spec => []IInv
  <1>1. Init => IInv
    BY InitInv
  <1>2. IInv /\ [Next]_vars => IInv'
    BY StepInv
  <1> QED
    BY <1>1, <1>2, PTL DEF Spec

-----------------------------------------------------------------------------
\* Every variable of Form stays within its type; Read never takes a negative
\* number of bytes, although max + 1 may wrap.
THEOREM TypeCorrect == Spec => []TypeOK
  <1>1. IInv => TypeOK
    BY DEF IInv, FlowInv, TypeOK
  <1> QED
    BY <1>1, Invariance, PTL

\* A server that sees the request end has the whole form, its last boundary
\* included, and none of its parts was bad.
THEOREM EofIsWhole == Spec => []EofMeansWhole
  <1>1. IInv => EofMeansWhole
    BY DEF IInv, FlowInv, WriterInv, GoodInv, EndInv, EofMeansWhole
  <1> QED
    BY <1>1, Invariance, PTL

\* writeMultipart closes each file it opens, on each of its ways out.
THEOREM FilesAreClosed == Spec => []FilesClosed
  <1>1. IInv => FilesClosed
    BY DEF IInv, FlowInv, WriterInv, FilesClosed
  <1> QED
    BY <1>1, Invariance, PTL

\* Read returns the whole response or none of it, and refuses one only for its
\* length; only with the limit MaxInt it returns nothing of any response.
THEOREM ReadsAreWhole == Spec => []ReadIsWhole
  <1>1. Init => ReadIsWhole
    BY DEF Init, NoRead, ReadIsWhole
  <1>2. IInv /\ ReadIsWhole /\ [Next]_vars => ReadIsWhole'
    <2> SUFFICES ASSUME IInv, ReadIsWhole, [Next]_vars PROVE ReadIsWhole'
      OBVIOUS
    <2>1. CASE UNCHANGED response
      BY <2>1 DEF response, ReadIsWhole
    <2>2. CASE \E max \in Maxes : Read(max)
      BY <2>2, ReadWhole DEF IInv
    <2>3. UNCHANGED vars => UNCHANGED response
      BY DEF vars, response
    <2> QED
      BY <2>1, <2>2, <2>3, Untouched DEF Next
  <1> QED
    BY <1>1, <1>2, Invariance, PTL DEF Spec
=============================================================================
