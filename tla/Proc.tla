----------------------------------- MODULE Proc -----------------------------------
(***************************************************************************)
(* proc.Run and its kin, and Detach (internal/proc): a child process       *)
(* writes into one pipe per stream, a goroutine of os/exec copies each     *)
(* into a limitWriter, and Run waits for the child and for the goroutines. *)
(*                                                                         *)
(* Bytes are counted: a pipe, and what is copied, keep their order.  What  *)
(* os/exec and the kernel do is external.                                  *)
(***************************************************************************)
EXTENDS Integers

CONSTANTS
    Streams,    \* stdout and stderr
    Caps,       \* the values of RunWith's cap; MaxCap for Run
    PipeN,      \* how many bytes a pipe holds
    Codes,      \* exit codes
    MaxSent     \* bound: how many bytes are written to a stream

ASSUME ProcAssumption ==
    /\ Caps \subseteq Int
    /\ PipeN \in Nat \ {0} /\ MaxSent \in Nat
    /\ Codes \subseteq Int /\ 0 \in Codes

Killed == -1        \* ExitCode of a process that a signal ended

VARIABLES
    op,         \* "none", then "run" or "detach"
    cap,        \* the argument
    child,      \* "none", "running", "exited", "reaped"
    code,       \* its exit code
    orphan,     \* a process that the child started holds the pipes, too
    tough,      \* the child ignores SIGPIPE
    sent,       \* per stream: the bytes written into the pipe
    piped,      \* those that lie in the pipe
    copier,     \* the goroutine: "none", "copying", or its end, "eof" or "capped"
    n,          \* limitWriter.n
    kept,       \* how many bytes of out, er
    ret         \* what the call returned

vars == <<op, cap, child, code, orphan, tough, sent, piped, copier, n, kept, ret>>
world == <<op, cap, tough>>
streams == <<sent, piped, copier, n, kept>>

NoRet == [err |-> "none", exit |-> 0]
Returned(err, exit) == [err |-> err, exit |-> exit]
Errors == {"none", "", "bad_arg", "trans", "output_cap"}

Init ==
    /\ op = "none" /\ cap \in Caps
    /\ child = "none" /\ code = 0 /\ orphan = FALSE /\ tough \in BOOLEAN
    /\ sent = [s \in Streams |-> 0] /\ piped = sent
    /\ copier = [s \in Streams |-> "none"]
    /\ n = sent /\ kept = sent
    /\ ret = NoRet

-----------------------------------------------------------------------------
(* The caller's side.                                                      *)

\* LookPath fails, or RunWith refuses its arguments, or Start fails.
CallFails ==
    /\ op = "none"
    /\ \/ op' \in {"run", "detach"} /\ ret' = Returned("trans", 0)
       \/ op' = "run" /\ ret' = Returned("bad_arg", 0)
       \/ op' = "run" /\ cap >= 0 /\ ret' = Returned("trans", Killed)
    /\ UNCHANGED <<cap, child, code, orphan, tough>> /\ UNCHANGED streams

StartRun ==
    /\ op = "none" /\ cap >= 0
    /\ op' = "run" /\ child' = "running"
    /\ copier' = [s \in Streams |-> "copying"]
    /\ UNCHANGED <<cap, code, orphan, tough, sent, piped, n, kept, ret>>

\* Detach returns at once; its streams are the null device.
Detach ==
    /\ op = "none"
    /\ op' = "detach" /\ child' = "running" /\ ret' = Returned("", 0)
    /\ UNCHANGED <<cap, code, orphan, tough>> /\ UNCHANGED streams

-----------------------------------------------------------------------------
(* The processes.                                                          *)

HasWriter == child = "running" \/ orphan

\* k bytes into the pipe of a stream, as long as its read end is open.
Write(s, k) ==
    /\ HasWriter /\ copier[s] = "copying"
    /\ piped[s] + k <= PipeN /\ sent[s] + k <= MaxSent
    /\ sent' = [sent EXCEPT ![s] = @ + k]
    /\ piped' = [piped EXCEPT ![s] = @ + k]
    /\ UNCHANGED <<child, code, orphan, copier, n, kept, ret>> /\ UNCHANGED world

\* A write to a pipe that nobody reads: SIGPIPE, unless it is ignored.
BrokenPipe(s) ==
    /\ child = "running" /\ copier[s] = "capped" /\ ~tough
    /\ child' = "exited" /\ code' = Killed
    /\ UNCHANGED <<orphan, ret>> /\ UNCHANGED world /\ UNCHANGED streams

Exit ==
    /\ child = "running"
    /\ child' = "exited" /\ code' \in Codes \union {Killed}
    /\ UNCHANGED <<orphan, ret>> /\ UNCHANGED world /\ UNCHANGED streams

Fork ==
    /\ child = "running" /\ op = "run" /\ ~orphan
    /\ orphan' = TRUE
    /\ UNCHANGED <<child, code, ret>> /\ UNCHANGED world /\ UNCHANGED streams

OrphanEnds ==
    /\ orphan
    /\ orphan' = FALSE
    /\ UNCHANGED <<child, code, ret>> /\ UNCHANGED world /\ UNCHANGED streams

-----------------------------------------------------------------------------
(* The goroutines, and the end of Run.                                     *)

\* limitWriter.Write of k bytes: what gets into the buffer.
Fits_Strict(s, k) == n[s] + k < cap         \* mutant of Fits
Fits(s, k) == n[s] + k <= cap
Rem_None(s) == 0                            \* mutant of Rem
Rem(s) == cap - n[s]

\* One round of io.Copy: a read of k bytes, a Write; an error closes the pipe,
\* and what is left in it is never read.
Reads(s) == copier[s] = "copying"

Copy(s, k) ==
    /\ Reads(s) /\ k <= piped[s]
    /\ piped' = [piped EXCEPT ![s] = @ - k]
    /\ IF Fits(s, k)
       THEN /\ kept' = [kept EXCEPT ![s] = @ + k]
            /\ n' = [n EXCEPT ![s] = @ + k]
            /\ UNCHANGED copier
       ELSE /\ kept' = [kept EXCEPT ![s] = @ + Rem(s)]
            /\ copier' = [copier EXCEPT ![s] = "capped"]
            /\ UNCHANGED n
    /\ UNCHANGED <<child, code, orphan, sent, ret>> /\ UNCHANGED world

CopyEnds(s) ==
    /\ Reads(s) /\ piped[s] = 0 /\ ~HasWriter
    /\ copier' = [copier EXCEPT ![s] = "eof"]
    /\ UNCHANGED <<child, code, orphan, sent, piped, n, kept, ret>> /\ UNCHANGED world

\* The error of cmd.Run: an exit code other than 0 hides a goroutine's error.
Outcome == IF code = 0 /\ \E s \in Streams : copier[s] = "capped" THEN "output_cap" ELSE ""

Ended_AtEof(s) == copier[s] = "eof"         \* mutant of Ended
Ended(s) == copier[s] \in {"eof", "capped"}

RunReturns ==
    /\ op = "run" /\ child = "exited"
    /\ \A s \in Streams : Ended(s)
    /\ child' = "reaped" /\ ret' = Returned(Outcome, code)
    /\ UNCHANGED <<code, orphan>> /\ UNCHANGED world /\ UNCHANGED streams

\* go cmd.Wait().
Reap ==
    /\ op = "detach" /\ child = "exited"
    /\ child' = "reaped"
    /\ UNCHANGED <<code, orphan, ret>> /\ UNCHANGED world /\ UNCHANGED streams

Copying(s) == (\E k \in 1 .. PipeN : Copy(s, k)) \/ CopyEnds(s)
Processes ==
    \/ \E s \in Streams : (\E k \in 1 .. PipeN : Write(s, k)) \/ BrokenPipe(s)
    \/ Exit \/ Fork \/ OrphanEnds
Next ==
    \/ CallFails \/ StartRun \/ Detach
    \/ Processes
    \/ \E s \in Streams : Copying(s)
    \/ RunReturns \/ Reap

\* The goroutines run; nothing is assumed of the processes.
Fairness == /\ \A s \in Streams : WF_vars(Copying(s))
            /\ WF_vars(RunReturns) /\ WF_vars(Reap)
Spec == Init /\ [][Next]_vars /\ Fairness

-----------------------------------------------------------------------------
(* Properties.                                                             *)

TypeOK ==
    /\ op \in {"none", "run", "detach"} /\ cap \in Caps
    /\ child \in {"none", "running", "exited", "reaped"}
    /\ code \in Codes \union {Killed} /\ orphan \in BOOLEAN /\ tough \in BOOLEAN
    /\ sent \in [Streams -> 0 .. MaxSent] /\ piped \in [Streams -> 0 .. PipeN]
    /\ copier \in [Streams -> {"none", "copying", "eof", "capped"}]
    /\ n \in [Streams -> Nat] /\ kept \in [Streams -> Nat]
    /\ ret \in [err : Errors, exit : Codes \union {Killed}]

Least(a, b) == IF a <= b THEN a ELSE b

\* Res.Out and Res.Err are the first bytes that were written, all of them or as
\* many as cap allows, however they were cut into reads; and no buffer is ever
\* longer than cap.
OutputIsPrefix ==
    \A s \in Streams :
        /\ kept[s] > 0 => kept[s] <= cap
        /\ op = "run" /\ child = "reaped" => kept[s] = Least(sent[s], cap)

\* Run reports output_cap exactly when the child exits with 0 and wrote more
\* than cap to a stream: success means that all output is there.
CapReported ==
    op = "run" /\ child = "reaped" /\ ret.exit = 0 =>
        (ret.err = "output_cap" <=> \E s \in Streams : sent[s] > cap)

\* Run returns once the child and all that hold its pipes have ended, and a
\* detached child is not left behind as a zombie.
ReturnsWhenEnded == child = "exited" /\ ~orphan ~> child = "reaped"
=============================================================================
