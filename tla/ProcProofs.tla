------------------------------- MODULE ProcProofs -------------------------------
(***************************************************************************)
(* Theorems about Proc, for any cap, any pipe size and any way in which    *)
(* the output is cut into reads.                                           *)
(***************************************************************************)
EXTENDS Proc, TLAPS

\* Where a stream is: what has been copied so far, and why copying ended.
StreamInv(s) ==
    /\ copier[s] = "none" => sent[s] = 0 /\ piped[s] = 0 /\ n[s] = 0 /\ kept[s] = 0
    /\ copier[s] = "copying" => /\ kept[s] = n[s] /\ n[s] <= cap
                                /\ sent[s] = kept[s] + piped[s]
    /\ copier[s] = "eof" => kept[s] = sent[s] /\ kept[s] <= cap
    /\ copier[s] = "capped" => kept[s] = cap /\ sent[s] > cap

\* How far the call is, and what it has returned.
CallInv ==
    /\ op = "none" => child = "none"
    /\ op # "run" \/ child = "none" => ~orphan
    /\ child = "none" \/ op = "detach" => \A s \in Streams : copier[s] = "none"
    /\ child # "none" /\ op = "run" =>
           cap >= 0 /\ \A s \in Streams : copier[s] # "none"
    /\ child = "reaped" /\ op = "run" =>
           /\ \A s \in Streams : copier[s] \in {"eof", "capped"}
           /\ ret = Returned(Outcome, code)

\* The inductive invariant.
IInv == TypeOK /\ (\A s \in Streams : StreamInv(s)) /\ CallInv

-----------------------------------------------------------------------------
\* Nothing has been written, nothing copied.
LEMMA InitInv == Init => IInv
  <1> SUFFICES ASSUME Init PROVE IInv
    OBVIOUS
  <1> USE DEF Init
  <1>1. /\ sent \in [Streams -> 0 .. MaxSent] /\ piped \in [Streams -> 0 .. PipeN]
        /\ n \in [Streams -> Nat] /\ kept \in [Streams -> Nat]
        /\ copier \in [Streams -> {"none", "copying", "eof", "capped"}]
    BY ProcAssumption DEF ProcAssumption
  <1>2. ret \in [err : Errors, exit : Codes \union {Killed}]
    BY ProcAssumption DEF ProcAssumption, NoRet, Errors
  <1>3. TypeOK
    BY <1>1, <1>2, ProcAssumption DEF TypeOK, ProcAssumption
  <1>4. (\A s \in Streams : StreamInv(s)) /\ CallInv
    BY DEF StreamInv, CallInv
  <1> QED
    BY <1>3, <1>4 DEF IInv

\* A call that does not start a child leaves the streams alone.
LEMMA CallFailsInv == IInv /\ CallFails => IInv'
  <1> SUFFICES ASSUME IInv, CallFails PROVE IInv'
    OBVIOUS
  <1> USE DEF CallFails, IInv, streams
  <1>0. ret' \in [err : Errors, exit : Codes \union {Killed}]
    <2>1. ret' \in {Returned("trans", 0), Returned("bad_arg", 0), Returned("trans", Killed)}
      OBVIOUS
    <2>2. 0 \in Codes \union {Killed} /\ Killed \in Codes \union {Killed}
      BY ProcAssumption DEF ProcAssumption
    <2>3. ASSUME NEW x \in Errors, NEW y \in Codes \union {Killed}
          PROVE  Returned(x, y) \in [err : Errors, exit : Codes \union {Killed}]
      BY DEF Returned
    <2>4. "trans" \in Errors /\ "bad_arg" \in Errors
      BY DEF Errors
    <2> QED
      BY <2>1, <2>2, <2>3, <2>4
  <1>1. TypeOK'
    BY <1>0 DEF TypeOK
  <1>2. \A s \in Streams : StreamInv(s)'
    BY DEF StreamInv
  <1>3. CallInv'
    BY DEF CallInv, TypeOK
  <1> QED
    BY <1>1, <1>2, <1>3

LEMMA StartRunInv == IInv /\ StartRun => IInv'
  <1> SUFFICES ASSUME IInv, StartRun PROVE IInv'
    OBVIOUS
  <1> USE DEF StartRun, IInv
  <1>1. TypeOK'
    BY DEF TypeOK
  <1>2. ASSUME NEW s \in Streams PROVE StreamInv(s)'
    <2>1. copier[s] = "none" /\ kept[s] = 0 /\ n[s] = 0 /\ sent[s] = 0 /\ piped[s] = 0
      BY DEF StreamInv, CallInv
    <2> QED
      BY <2>1 DEF StreamInv, TypeOK
  <1>3. CallInv'
    BY DEF CallInv, TypeOK
  <1> QED
    BY <1>1, <1>2, <1>3

LEMMA DetachInv == IInv /\ Detach => IInv'
  <1> SUFFICES ASSUME IInv, Detach PROVE IInv'
    OBVIOUS
  <1> USE DEF Detach, IInv, streams
  <1>1. TypeOK'
    BY ProcAssumption DEF TypeOK, ProcAssumption, Returned, Errors
  <1>2. \A s \in Streams : StreamInv(s)'
    BY DEF StreamInv
  <1>3. CallInv'
    BY DEF CallInv, TypeOK
  <1> QED
    BY <1>1, <1>2, <1>3

\* What processes do besides writing leaves the streams alone.
LEMMA ProcessInv ==
  IInv /\ (Exit \/ Fork \/ OrphanEnds \/ \E s \in Streams : BrokenPipe(s)) => IInv'
  <1> SUFFICES ASSUME IInv, Exit \/ Fork \/ OrphanEnds \/ \E s \in Streams : BrokenPipe(s)
               PROVE  IInv'
    OBVIOUS
  <1> USE DEF Exit, Fork, OrphanEnds, BrokenPipe, IInv, streams, world
  <1>1. TypeOK'
    BY ProcAssumption DEF TypeOK, ProcAssumption, Killed
  <1>2. \A s \in Streams : StreamInv(s)'
    BY DEF StreamInv
  <1>3. /\ child' = "reaped" => child = "reaped" /\ Outcome' = Outcome /\ UNCHANGED <<code, ret>>
        /\ child # "none" /\ child' # "none" /\ (orphan' => orphan \/ op = "run")
    <2>1. child # "none"
      BY DEF CallInv
    <2>2. CASE Exit \/ Fork \/ \E s \in Streams : BrokenPipe(s)
      BY <2>1, <2>2
    <2>3. CASE OrphanEnds
      BY <2>1, <2>3 DEF Outcome
    <2> QED
      BY <2>2, <2>3
  <1>4. CallInv'
    BY <1>3 DEF CallInv
  <1> QED
    BY <1>1, <1>2, <1>4

\* A write makes the bytes sent and the bytes in the pipe more by as many.
LEMMA WriteInv ==
  ASSUME NEW r \in Streams, NEW k \in 1 .. PipeN, IInv, Write(r, k)
  PROVE  IInv'
  <1> USE DEF Write, IInv, world
  <1>1. TypeOK'
    BY ProcAssumption DEF TypeOK, ProcAssumption
  <1>2. ASSUME NEW s \in Streams PROVE StreamInv(s)'
    BY ProcAssumption DEF StreamInv, TypeOK, ProcAssumption
  <1>3. CallInv'
    BY DEF CallInv, TypeOK, Outcome
  <1> QED
    BY <1>1, <1>2, <1>3

\* The heart of it: what is copied is what was read, or fills the buffer up to cap.
LEMMA CopyInv ==
  ASSUME NEW r \in Streams, NEW k \in 1 .. PipeN, IInv, Copy(r, k)
  PROVE  IInv'
  <1> USE DEF Copy, Reads, IInv, world
  <1>0. /\ kept[r] = n[r] /\ n[r] <= cap /\ sent[r] = kept[r] + piped[r]
        /\ cap \in Int /\ n[r] \in Nat /\ piped[r] \in 0 .. PipeN /\ k \in Nat
        /\ op = "run" /\ child # "none"
    BY ProcAssumption DEF StreamInv, TypeOK, CallInv, ProcAssumption
  <1>1. TypeOK'
    BY <1>0, ProcAssumption DEF TypeOK, ProcAssumption, Fits, Rem
  <1>2. ASSUME NEW s \in Streams PROVE StreamInv(s)'
    <2>1. CASE s # r
      BY <2>1 DEF StreamInv, TypeOK
    <2>2. CASE s = r /\ Fits(r, k)
      BY <1>0, <2>2, ProcAssumption DEF StreamInv, TypeOK, Fits
    <2>3. CASE s = r /\ ~Fits(r, k)
      BY <1>0, <2>3, ProcAssumption DEF StreamInv, TypeOK, Fits, Rem
    <2> QED
      BY <2>1, <2>2, <2>3
  <1>3. CallInv'
    BY <1>0 DEF CallInv, TypeOK
  <1> QED
    BY <1>1, <1>2, <1>3

LEMMA CopyEndsInv ==
  ASSUME NEW r \in Streams, IInv, CopyEnds(r)
  PROVE  IInv'
  <1> USE DEF CopyEnds, Reads, IInv, world
  <1>1. TypeOK'
    BY DEF TypeOK
  <1>2. ASSUME NEW s \in Streams PROVE StreamInv(s)'
    BY DEF StreamInv, TypeOK
  <1>3. CallInv'
    BY DEF CallInv, TypeOK
  <1> QED
    BY <1>1, <1>2, <1>3

LEMMA EndInv == IInv /\ (RunReturns \/ Reap) => IInv'
  <1> SUFFICES ASSUME IInv, RunReturns \/ Reap PROVE IInv'
    OBVIOUS
  <1> USE DEF RunReturns, Reap, IInv, streams, world
  <1>1. TypeOK'
    <2>1. Outcome \in Errors
      BY DEF Outcome, Errors
    <2>2. ret' \in [err : Errors, exit : Codes \union {Killed}]
      BY <2>1 DEF TypeOK, Returned
    <2> QED
      BY <2>2 DEF TypeOK
  <1>2. \A s \in Streams : StreamInv(s)'
    BY DEF StreamInv
  <1>3. CallInv'
    <2>1. Outcome' = Outcome
      BY DEF Outcome
    <2>2. CASE RunReturns
      BY <2>1, <2>2 DEF CallInv, Ended, Returned
    <2>3. CASE Reap
      BY <2>1, <2>3 DEF CallInv
    <2> QED
      BY <2>2, <2>3
  <1> QED
    BY <1>1, <1>2, <1>3

LEMMA StepInv == IInv /\ [Next]_vars => IInv'
  <1> SUFFICES ASSUME IInv, [Next]_vars PROVE IInv'
    OBVIOUS
  <1>1. CASE CallFails
    BY <1>1, CallFailsInv
  <1>2. CASE StartRun
    BY <1>2, StartRunInv
  <1>3. CASE Detach
    BY <1>3, DetachInv
  <1>4. CASE Processes
    BY <1>4, ProcessInv, WriteInv DEF Processes
  <1>5. CASE \E s \in Streams : Copying(s)
    BY <1>5, CopyInv, CopyEndsInv DEF Copying
  <1>6. CASE RunReturns \/ Reap
    BY <1>6, EndInv
  <1>7. CASE UNCHANGED vars
    BY <1>7 DEF vars, IInv, TypeOK, StreamInv, CallInv, Outcome
  <1> QED
    BY <1>1, <1>2, <1>3, <1>4, <1>5, <1>6, <1>7 DEF Next

LEMMA Invariance == Spec => []IInv
  <1>1. Init => IInv
    BY InitInv
  <1>2. IInv /\ [Next]_vars => IInv'
    BY StepInv
  <1> QED
    BY <1>1, <1>2, PTL DEF Spec

-----------------------------------------------------------------------------
\* Every variable of Proc stays within its type: no count falls below zero, the
\* remainder that limitWriter copies last included.
THEOREM TypeCorrect == Spec => []TypeOK
  <1>1. IInv => TypeOK
    BY DEF IInv
  <1> QED
    BY <1>1, Invariance, PTL

\* Run's output is the first bytes written, as many as there are or as cap
\* allows, whatever the sizes of the reads, the pipe and the cap.
THEOREM OutputIsAPrefix == Spec => []OutputIsPrefix
  <1>1. IInv => OutputIsPrefix
    <2> SUFFICES ASSUME IInv, NEW s \in Streams
                 PROVE  /\ kept[s] > 0 => kept[s] <= cap
                        /\ op = "run" /\ child = "reaped" => kept[s] = Least(sent[s], cap)
      BY DEF OutputIsPrefix
    <2>1. /\ kept[s] \in Nat /\ sent[s] \in 0 .. MaxSent /\ cap \in Int /\ MaxSent \in Nat
          /\ copier[s] \in {"none", "copying", "eof", "capped"}
          /\ StreamInv(s)
      BY ProcAssumption DEF IInv, TypeOK, ProcAssumption
    <2>2. kept[s] > 0 => kept[s] <= cap
      BY <2>1 DEF StreamInv
    <2>3. ASSUME op = "run", child = "reaped" PROVE kept[s] = Least(sent[s], cap)
      <3>1. copier[s] \in {"eof", "capped"}
        BY <2>3 DEF IInv, CallInv
      <3> QED
        BY <2>1, <3>1 DEF StreamInv, Least
    <2> QED
      BY <2>2, <2>3
  <1> QED
    BY <1>1, Invariance, PTL

\* An exit code of 0 comes with output_cap if and only if output is missing.
THEOREM CapIsReported == Spec => []CapReported
  <1>1. IInv => CapReported
    <2> SUFFICES ASSUME IInv, op = "run", child = "reaped", ret.exit = 0
                 PROVE  ret.err = "output_cap" <=> \E s \in Streams : sent[s] > cap
      BY DEF CapReported
    <2>1. code = 0 /\ ret.err = Outcome
      BY DEF IInv, CallInv, Returned
    <2>2. ASSUME NEW s \in Streams PROVE copier[s] = "capped" <=> sent[s] > cap
      <3>1. /\ copier[s] \in {"eof", "capped"} /\ StreamInv(s)
            /\ sent[s] \in Int /\ kept[s] \in Int /\ cap \in Int
        BY ProcAssumption DEF IInv, CallInv, TypeOK, ProcAssumption
      <3> QED
        BY <3>1 DEF StreamInv
    <2> QED
      BY <2>1, <2>2 DEF Outcome
  <1> QED
    BY <1>1, Invariance, PTL
=============================================================================
