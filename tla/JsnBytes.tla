-------------------------------- MODULE JsnBytes -------------------------------
(***************************************************************************)
(* ParseBytes (internal/jsn/bytes.go): recursive descent over a text that  *)
(* is all there, as operators from one state of bpar to the next.          *)
(*                                                                         *)
(* A state holds p.pos (p.off is the same), p.row, p.col, the events       *)
(* emitted, and the error returned; an operator leaves a state with an     *)
(* error alone, as the code returns at once.                               *)
(***************************************************************************)
EXTENDS JsnText

Start == [pos |-> 0, row |-> 1, col |-> 1, evs |-> << >>, err |-> NoError, nloc |-> NoLoc]

Now(s) == [off |-> s.pos, row |-> s.row, col |-> s.col]
Failed(s) == s.err # NoError
Fail(s, loc, cause) == IF Failed(s) THEN s ELSE [s EXCEPT !.err = [cause |-> cause, loc |-> loc]]
Emit(s, kind, data, loc) ==
    IF Failed(s) THEN s ELSE [s EXCEPT !.evs = Append(@, Event(kind, data, loc))]

\* peek: the character at p.pos, or that there is none.
Peek(b, s) == IF s.pos < Len(b) THEN b[s.pos + 1] ELSE "eof"
In(b, s, set) == ~Failed(s) /\ Peek(b, s) \in set

Step(b, s) ==
    IF Failed(s) THEN s
    ELSE IF Peek(b, s) = "nl" THEN [s EXCEPT !.pos = @ + 1, !.row = @ + 1, !.col = 1]
    ELSE [s EXCEPT !.pos = @ + 1, !.col = @ + 1]

StepRun(s, n) == [s EXCEPT !.pos = @ + n, !.col = @ + n]

RECURSIVE Skip(_, _)
Skip(b, s) == IF In(b, s, Ws) THEN Skip(b, Step(b, s)) ELSE s

\* How many characters of the set follow each other from p.pos on.
Run(b, s, set) ==
    CHOOSE n \in 0 .. Len(b) - s.pos :
        /\ \A i \in 1 .. n : b[s.pos + i] \in set
        /\ s.pos + n < Len(b) => b[s.pos + n + 1] \notin set

Plain(b) == {b[i] : i \in {j \in 1 .. Len(b) : /\ b[j] \notin Ctl \union {"\"", "\\"}
                                              /\ Byte(b[j]) < \h80}}

-----------------------------------------------------------------------------
(* Strings.                                                                *)

\* What ctok demands behind the first byte b0 of a character.
Ctoks(b0) ==
    LET any == \h80 .. \hbf
    IN  CASE b0 \in \hc2 .. \hdf -> <<any>>
          [] b0 = \he0           -> <<\ha0 .. \hbf, any>>
          [] b0 \in \he1 .. \hec -> <<any, any>>
          [] b0 = \hed           -> <<\h80 .. \h9f, any>>
          [] b0 \in \hee .. \hef -> <<any, any>>
          [] b0 = \hf0           -> <<\h90 .. \hbf, any, any>>
          [] b0 \in \hf1 .. \hf3 -> <<any, any, any>>
          [] b0 = \hf4           -> <<\h80 .. \h8f, any, any>>
          [] OTHER               -> << >>

RECURSIVE Ctok(_, _, _)
Ctok(b, s, ranges) ==
    IF ranges = << >> THEN s
    ELSE IF Byte(Peek(b, s)) \in Head(ranges) THEN Ctok(b, Step(b, s), Tail(ranges))
    ELSE Fail(s, Now(s), "utf8")

U8(b, s) ==
    LET ranges == Ctoks(Byte(Peek(b, s)))
    IN  IF ranges = << >> THEN Fail(s, Now(s), "utf8") ELSE Ctok(b, Step(b, s), ranges)

RECURSIVE Hex4(_, _, _)
Hex4(b, s, n) ==
    IF n = 0 THEN s
    ELSE IF In(b, s, Hex) THEN Hex4(b, Step(b, s), n - 1)
    ELSE Fail(s, Now(s), IF Peek(b, s) = "eof" THEN "u4_len" ELSE "u4_hex")

Esc(b, s) ==
    LET ch == Peek(b, s)
    IN  CASE ch = "eof" -> Fail(s, Now(s), "esc_eof")
          [] ch \in Escaped -> Step(b, s)
          [] ch = "u" -> Hex4(b, Step(b, s), 4)
          [] OTHER -> Fail(s, Now(s), "bad_esc")

\* The loop of str, from behind the opening quote at start.
RECURSIVE StrBody(_, _, _, _, _)
StrBody(b, s, start, par, end) ==
    LET ch == Peek(b, s)
        part == IF s.pos > start.off
                THEN Emit(s, par, SubSeq(b, start.off + 1, s.pos), start)
                ELSE s
    IN  CASE Failed(s) -> s
          [] ch = "eof" -> Fail(s, Now(s), "str_eof")
          [] ch \in Plain(b) -> StrBody(b, StepRun(s, Run(b, s, Plain(b))), start, par, end)
          [] ch = "\"" -> Emit(Step(b, part), end, << >>, Now(s))
          [] ch \in Ctl -> Fail(s, Now(s), "ctl_str")
          [] ch = "\\" -> StrBody(b, Esc(b, Step(b, s)), start, par, end)
          [] OTHER -> StrBody(b, U8(b, s), start, par, end)

\* str, called where the opening quote is.
Str(b, s, beg, par, end) ==
    LET open == Emit(Step(b, s), beg, << >>, Now(s))
    IN  StrBody(b, open, Now(open), par, end)

-----------------------------------------------------------------------------
(* Numbers and literals.                                                   *)

StepNum(b, s) == IF Failed(s) THEN s ELSE [Step(b, s) EXCEPT !.nloc = Now(s)]

ScanDigits(b, s) ==
    LET n == Run(b, s, Digit)
    IN  [StepRun(s, n) EXCEPT !.nloc = [off |-> s.pos + n - 1, row |-> s.row,
                                        col |-> s.col + n - 1]]

\* Digits are due; the code reports a missing one at the place given.
Digits(b, s, loc) ==
    CASE Failed(s) -> s
      [] Peek(b, s) \in Digit -> ScanDigits(b, s)
      [] OTHER -> Fail(s, loc, "bad_num")

IntPart(b, s) ==
    LET t == IF In(b, s, {"-"}) THEN StepNum(b, s) ELSE s
    IN  IF In(b, t, {"0"}) THEN StepNum(b, t) ELSE Digits(b, t, Now(t))

FracPart(b, s) ==
    LET t == StepNum(b, s)
    IN  IF ~In(b, s, {"."}) THEN s
        ELSE Digits(b, t, IF Peek(b, t) = "eof" THEN NoLoc ELSE Now(t))

ExpPart(b, s) ==
    LET t == StepNum(b, s)
        u == IF In(b, t, {"+", "-"}) THEN StepNum(b, t) ELSE t
    IN  IF ~In(b, s, {"e"}) THEN s ELSE Digits(b, u, Now(u))

Num(b, s) ==
    LET t == ExpPart(b, FracPart(b, IntPart(b, Emit(s, "NBeg", << >>, Now(s)))))
        u == Emit(t, "NPar", SubSeq(b, s.pos + 1, t.pos), Now(s))
    IN  IF In(b, u, EndOfTok \union {"eof"}) THEN Emit(u, "NEnd", << >>, u.nloc)
        ELSE Fail(u, Now(u), "bad_num")

RECURSIVE LitBody(_, _, _)
LitBody(b, s, txt) ==
    CASE Failed(s) -> s
      [] txt = << >> -> IF In(b, s, EndOfTok \union {"eof"}) THEN s
                        ELSE Fail(s, Now(s), "bad_tok")
      [] Peek(b, s) = Head(txt) -> LitBody(b, Step(b, s), Tail(txt))
      [] OTHER -> Fail(s, IF Peek(b, s) = "eof" THEN NoLoc ELSE Now(s), "bad_tok")

Lit(b, s, txt, kind) == Emit(LitBody(b, s, txt), kind, << >>, Now(s))

-----------------------------------------------------------------------------
(* Values.                                                                 *)

RECURSIVE Val(_, _, _), Elements(_, _, _), Members(_, _, _)

\* The loops of arr and obj, each where a value or a key is due.
Elements(b, s, dep) ==
    LET t == Skip(b, Val(b, s, dep))
    IN  CASE In(b, t, {","}) -> Elements(b, Step(b, t), dep)
          [] In(b, t, {"]"}) -> Emit(Step(b, t), "AEnd", << >>, Now(t))
          [] OTHER -> Fail(t, Now(t), "want_aend")

Members(b, s, dep) ==
    LET k == Skip(b, Str(b, s, "KBeg", "KPar", "KEnd"))
        v == Skip(b, Val(b, Step(b, k), dep))
    IN  CASE ~In(b, s, {"\""}) -> Fail(s, Now(s), "want_key")
          [] In(b, k, {"eof"}) -> Fail(k, Now(k), "tok_eof")
          [] ~In(b, k, {":"}) -> Fail(k, Now(k), "want_col")
          [] In(b, v, {","}) -> Members(b, Skip(b, Step(b, v)), dep)
          [] In(b, v, {"}"}) -> Emit(Step(b, v), "OEnd", << >>, Now(v))
          [] OTHER -> Fail(v, Now(v), "want_oend")

Arr(b, s, dep) ==
    CASE In(b, s, {"]"}) -> Emit(Step(b, s), "AEnd", << >>, Now(s))
      [] In(b, s, {"eof"}) -> Fail(s, Now(s), "want_aend")
      [] OTHER -> Elements(b, s, dep)

Obj(b, s, dep) ==
    IF In(b, s, {"}"}) THEN Emit(Step(b, s), "OEnd", << >>, Now(s)) ELSE Members(b, s, dep)

Val(b, s0, dep) ==
    LET s == Skip(b, s0)
        ch == Peek(b, s)
    IN  CASE Failed(s) -> s
          [] ch = "eof" -> Fail(s, Now(s), "tok_eof")
          [] ch \in {"{", "["} /\ dep + 1 > MaxDep -> Fail(s, Now(s), "max_dep")
          [] ch = "{" -> Obj(b, Skip(b, Emit(Step(b, s), "OBeg", << >>, Now(s))), dep + 1)
          [] ch = "[" -> Arr(b, Skip(b, Emit(Step(b, s), "ABeg", << >>, Now(s))), dep + 1)
          [] ch = "\"" -> Str(b, s, "SBeg", "SPar", "SEnd")
          [] ch \in Digit \union {"-"} -> Num(b, s)
          [] ch = "t" -> Lit(b, s, True, "True")
          [] ch = "f" -> Lit(b, s, False, "False")
          [] ch = "n" -> Lit(b, s, Null, "Null")
          [] OTHER -> Fail(s, Now(s), "want_val")

\* bom: once its first byte is there, the whole mark is due.
SkipBom(b, s, flg) ==
    LET n == CHOOSE k \in 0 .. 3 : /\ \A i \in 1 .. k : i <= Len(b) /\ b[i] = Bom[i]
                                   /\ k < 3 => (k + 1 > Len(b) \/ b[k + 1] # Bom[k + 1])
    IN  CASE ~flg \/ n = 0 -> s
          [] n = 3 -> StepRun(s, 3)
          [] OTHER -> Fail(s, Now(s), "bad_tok")

\* ParseBytes on b, where every callback returns nil.
ParseBytes(b, flg) ==
    LET s == Skip(b, Val(b, SkipBom(b, Start, flg), 0))
    IN  IF In(b, s, {"eof"}) THEN s ELSE Fail(s, Now(s), "trail")
=============================================================================
