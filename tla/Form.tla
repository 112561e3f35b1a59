----------------------------------- MODULE Form -----------------------------------
(***************************************************************************)
(* web.Multipart and web.Read (internal/web/web.go): a goroutine writes a  *)
(* form into a pipe, the request reads its body from it, and the response  *)
(* is read up to a limit.                                                  *)
(*                                                                         *)
(* A write to an io.Pipe is handed over to the reader, or fails because    *)
(* the reader has closed the pipe.  net/http is external: its transport    *)
(* reads the body, and in the end closes it, whatever becomes of the       *)
(* request.                                                                *)
(***************************************************************************)
EXTENDS Integers, Sequences

CONSTANTS
    Forms,      \* forms: the pieces that are written, a part's head, then its
                \* data, each with whose it is, a field's or a file's, and
                \* whether the arguments of the part are good
    Sizes,      \* how long a response can be
    Maxes,      \* the argument max of Read
    MaxBody, MaxInt     \* the default of max; the largest int64

Piece == [part : {"field", "file"}, args : {"good", "bad"}]

ASSUME FormAssumption ==
    /\ Forms \subseteq Seq(Piece)
    /\ Sizes \subseteq Nat /\ Maxes \subseteq Int /\ MaxBody \in Nat /\ MaxInt \in Nat

VARIABLES
    form,       \* the fields and files
    at,         \* how many pieces the goroutine has written
    open,       \* a file is open
    failed,     \* what writeMultipart, or mw.Close, has returned is an error
    writer,     \* the goroutine: "none", "next", "write" (inside pw.Write),
                \* "closing" (inside that of mw.Close), "done"
    wend,       \* the pipe's write end: "open", "eof", "error"
    rend,       \* its read end: "open", "closed"
    got,        \* how many pieces the request's body had when it was last read
    final,      \* the closing boundary was among it
    seen,       \* how the body ended for the transport: "none", "eof", "error"
    http,       \* the transport: "none", "reading", "stopped"
    do,         \* Do: "none", "called", "ok", "error"
    size,       \* how long the body of the response is
    closed,     \* it is closed
    read        \* what Read has returned

vars == <<form, at, open, failed, writer, wend, rend, got, final, seen, http, do, size, closed, read>>
goroutine == <<at, open, failed, writer, wend>>
transport == <<got, final, seen, http>>
response == <<size, closed, read>>

NoRead == [err |-> "none", n |-> 0, max |-> 0]
ReadOf(err, k, m) == [err |-> err, n |-> k, max |-> m]

Init ==
    /\ form \in Forms
    /\ at = 0 /\ open = FALSE /\ failed = FALSE /\ writer = "none"
    /\ wend = "open" /\ rend = "open"
    /\ got = 0 /\ final = FALSE /\ seen = "none" /\ http = "none"
    /\ do = "none"
    /\ size \in Sizes /\ closed = FALSE /\ read = NoRead

-----------------------------------------------------------------------------
(* The goroutine: writeMultipart, mw.Close, and the end of the pipe.       *)

Multipart ==
    /\ writer = "none"
    /\ writer' = "next" /\ do' = "called"
    /\ UNCHANGED <<form, at, open, failed, wend, rend>>
    /\ UNCHANGED transport /\ UNCHANGED response

piece == form[at + 1]

\* The next piece; a part's arguments are looked at, its file opened, first,
\* and the file of the part before is closed.
NextPiece ==
    /\ writer = "next" /\ at < Len(form) /\ piece.args = "good"
    /\ writer' = "write"
    /\ open' = (piece.part = "file")
    /\ UNCHANGED <<form, at, failed, wend, rend, do>>
    /\ UNCHANGED transport /\ UNCHANGED response

\* Bad arguments, a file that does not open, or does not read on.
Fail ==
    /\ writer = "next" /\ at < Len(form)
    /\ piece.args = "bad" \/ piece.part = "file"
    /\ writer' = "closing" /\ failed' = TRUE /\ open' = FALSE
    /\ UNCHANGED <<form, at, wend, rend, do>>
    /\ UNCHANGED transport /\ UNCHANGED response

\* All pieces are written: the last file is closed, which may fail, too.
LastPiece ==
    /\ writer = "next" /\ at = Len(form)
    /\ writer' = "closing" /\ open' = FALSE
    /\ failed' \in BOOLEAN /\ (failed' => open)
    /\ UNCHANGED <<form, at, wend, rend, do>>
    /\ UNCHANGED transport /\ UNCHANGED response

\* The reader has closed the pipe: the write under way fails, and mw.Close.
OpenAfterError_Leaks == open                \* mutant of OpenAfterError
OpenAfterError == FALSE
PipeBroken ==
    /\ writer \in {"write", "closing"} /\ rend = "closed"
    /\ writer' = "done" /\ wend' = "error" /\ failed' = TRUE
    /\ open' = OpenAfterError
    /\ UNCHANGED <<form, at, rend, do>>
    /\ UNCHANGED transport /\ UNCHANGED response

\* CloseWithError, or Close when there was no error.
WriteEnd_Clean == "eof"                     \* mutant of WriteEnd
WriteEnd == IF failed THEN "error" ELSE "eof"

-----------------------------------------------------------------------------
(* Do, and the transport.                                                  *)

\* The transport takes what the goroutine writes: a piece, or the boundary.
TakePiece ==
    /\ http = "reading" /\ rend = "open" /\ writer = "write"
    /\ got' = got + 1 /\ at' = at + 1 /\ writer' = "next"
    /\ UNCHANGED <<form, open, failed, wend, rend, final, seen, http, do>> /\ UNCHANGED response

TakeBoundary ==
    /\ http = "reading" /\ rend = "open" /\ writer = "closing"
    /\ final' = TRUE /\ writer' = "done" /\ wend' = WriteEnd
    /\ UNCHANGED <<form, at, open, failed, rend, got, seen, http, do>> /\ UNCHANGED response

SeeEnd ==
    /\ http = "reading" /\ rend = "open" /\ wend # "open"
    /\ seen' = wend /\ http' = "stopped" /\ rend' = "closed"
    /\ UNCHANGED <<form, got, final, do>> /\ UNCHANGED goroutine /\ UNCHANGED response

\* It gives up: the connection fails, the server answers early, time is up.
GiveUp ==
    /\ http = "reading"
    /\ http' = "stopped" /\ rend' = "closed"
    /\ UNCHANGED <<form, got, final, seen, do>> /\ UNCHANGED goroutine /\ UNCHANGED response

SendRequest ==
    /\ do = "called" /\ http = "none"
    /\ http' = "reading"
    /\ UNCHANGED <<form, rend, got, final, seen, do>> /\ UNCHANGED goroutine /\ UNCHANGED response

\* Do fails, before there is a request or later: Multipart closes the pipe.
RendAfterError_Open == rend                 \* mutant of RendAfterError
RendAfterError == "closed"
DoFails ==
    /\ do = "called"
    /\ do' = "error" /\ rend' = RendAfterError
    /\ UNCHANGED form /\ UNCHANGED goroutine /\ UNCHANGED transport /\ UNCHANGED response

DoAnswers ==
    /\ do = "called" /\ http # "none"
    /\ do' = "ok"
    /\ UNCHANGED <<form, rend>> /\ UNCHANGED goroutine /\ UNCHANGED transport /\ UNCHANGED response

-----------------------------------------------------------------------------
(* Read.                                                                   *)

\* max + 1 in int64, and how much LimitReader lets through.
Plus1_None(m) == m                          \* mutant of Plus1
Plus1(m) == IF m = MaxInt THEN -MaxInt - 1 ELSE m + 1
Received(k) == IF k < 0 THEN 0 ELSE IF size < k THEN size ELSE k

Read(max) ==
    /\ do = "ok" /\ read = NoRead
    /\ LET m == IF max = 0 THEN MaxBody ELSE max
           k == Received(Plus1(m))
       IN  IF max < 0
           THEN read' = ReadOf("bad_cap", 0, max) /\ UNCHANGED closed
           ELSE /\ \/ read' = ReadOf("trans", 0, m)
                   \/ k > m /\ read' = ReadOf("body_cap", 0, m)
                   \/ k <= m /\ read' = ReadOf("", k, m)
                /\ closed' = TRUE
    /\ UNCHANGED <<form, rend, do, size>> /\ UNCHANGED goroutine /\ UNCHANGED transport

-----------------------------------------------------------------------------
Goroutine == NextPiece \/ Fail \/ LastPiece \/ PipeBroken
Transport == TakePiece \/ TakeBoundary \/ SeeEnd \/ GiveUp
Do == SendRequest \/ DoFails \/ DoAnswers
Next == Multipart \/ Goroutine \/ Transport \/ Do \/ \E max \in Maxes : Read(max)

\* The goroutine runs, Do returns, and the transport goes on to read the body
\* or gives it up, as net/http does with a time limit.
Fairness == WF_vars(Goroutine) /\ WF_vars(Transport) /\ WF_vars(Do)
Spec == Init /\ [][Next]_vars /\ Fairness

-----------------------------------------------------------------------------
(* Properties.                                                             *)

FlowType ==
    /\ form \in Forms
    /\ at \in 0 .. Len(form) /\ got \in 0 .. Len(form)
    /\ open \in BOOLEAN /\ failed \in BOOLEAN /\ final \in BOOLEAN
    /\ writer \in {"none", "next", "write", "closing", "done"}
    /\ wend \in {"open", "eof", "error"} /\ rend \in {"open", "closed"}
    /\ seen \in {"none", "eof", "error"} /\ http \in {"none", "reading", "stopped"}
    /\ do \in {"none", "called", "ok", "error"}

ReplyType ==
    /\ size \in Nat /\ closed \in BOOLEAN
    /\ read \in [err : {"none", "", "bad_cap", "body_cap", "trans"}, n : Nat, max : Int]

TypeOK == FlowType /\ ReplyType

\* The body of the request ends without an error only if it is the whole form
\* with good parts, although the closing boundary is written in any case.
EofMeansWhole ==
    seen = "eof" => /\ final /\ got = Len(form)
                    /\ \A i \in 1 .. Len(form) : form[i].args = "good"

\* No file stays open behind the goroutine, however it ended.
FilesClosed == writer = "done" => ~open

\* The goroutine ends, also where Do fails before anyone reads the pipe.
WriterEnds == writer = "next" ~> writer = "done"

\* What Read returns without an error is the whole response and at most max
\* bytes, and it is refused only if it is longer; the body is closed then.  With
\* max = MaxInt the limit wraps, and Read returns nothing.
ReadIsWhole ==
    /\ read.err = "" /\ read.max < MaxInt => read.n = size /\ read.n <= read.max
    /\ read.err = "" /\ read.max = MaxInt => read.n = 0
    /\ read.err = "body_cap" => size > read.max
    /\ read.err \in {"", "body_cap", "trans"} => closed
=============================================================================
