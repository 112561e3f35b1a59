-------------------------------- MODULE JsnPull --------------------------------
(***************************************************************************)
(* Parse (internal/jsn/parser.go): the same language read from a Pull that *)
(* hands out the text in buffers, cut at any byte.                         *)
(*                                                                         *)
(* The recursion of val, obj and arr is a place (at) and a stack; an       *)
(* action reads one character, or calls pull because the buffer is used    *)
(* up.  The text is chosen as it is read, and so is where a buffer ends.   *)
(***************************************************************************)
EXTENDS JsnText, Integers, FiniteSets

CONSTANTS
    Texts,      \* what may be read: records of the characters that may stand
                \* at each place (chars), and of the flag PFBOM (bom)
    Faults      \* what the caller's functions may do wrong: a subset of
                \* {"pull", "empty", "cb"}

ASSUME PullAssumption ==
    /\ MaxDep \in Nat
    /\ Texts \subseteq [chars : Seq(SUBSET STRING), bom : BOOLEAN]
    /\ Faults \subseteq {"pull", "empty", "cb"}

VARIABLES
    text,       \* the kind of text that is read
    input,      \* history: the characters consumed
    nxt,        \* the character at p.pos, or EndOfBuf, or EndOfText (p.eof)
    loc,        \* p.off, p.row, p.col
    at, stk,    \* the place within the parser; the open objects and arrays
    tok,        \* the local variables of str, num, lit or bom
    got,        \* the events that on received, the parts of a token joined
    ret         \* what Parse returned, or NoRet

vars == <<text, input, nxt, loc, at, stk, tok, got, ret>>

EndOfBuf == "end of buffer"
EndOfText == "end of text"
NoRet == [cause |-> "none", loc |-> NoLoc]
Returned(cause, l) == [cause |-> cause, loc |-> l]

\* Where the next part begins; nloc of num, sloc of lit; whether str reads a
\* key; the characters still due.
Tok(l, isKey, due) == [seg |-> l, nloc |-> l, key |-> isKey, due |-> due]
NoTok == Tok(NoLoc, FALSE, << >>)

Init ==
    /\ text \in Texts
    /\ input = << >>
    /\ nxt = EndOfBuf
    /\ loc = FirstLoc
    /\ at = IF text.bom THEN "bom" ELSE "val"
    /\ stk = << >>
    /\ tok = NoTok
    /\ got = << >>
    /\ ret = NoRet

-----------------------------------------------------------------------------
(* What the actions are made of.                                           *)

Running == ret = NoRet
At(places) == Running /\ at \in places /\ nxt # EndOfBuf

\* The characters that may come i-th.
CharsAt(i) == IF i <= Len(text.chars) THEN text.chars[i] ELSE {}

\* take1; mutant: a line feed is a column like any other.
Advanced_NoRows == [loc EXCEPT !.off = @ + 1, !.col = @ + 1]
Advanced == IF nxt = "nl" THEN [off |-> loc.off + 1, row |-> loc.row + 1, col |-> 1]
                          ELSE [loc EXCEPT !.off = @ + 1, !.col = @ + 1]
Take ==
    /\ input' = Append(input, nxt)
    /\ loc' = Advanced
    /\ nxt' \in {EndOfBuf} \union CharsAt(Len(input) + 2)
Stay == UNCHANGED <<input, loc, nxt>>

Goto(place, t) == at' = place /\ tok' = t
Quiet == UNCHANGED <<stk, got, ret>>

\* The client puts a part behind the one it continues.
Joined(evs, ev) ==
    LET last == evs[Len(evs)]
    IN  IF /\ evs # << >> /\ ev.kind \in {"KPar", "SPar", "NPar"}
           /\ last.kind = ev.kind /\ ev.loc.off = last.loc.off + Len(last.data)
        THEN [evs EXCEPT ![Len(evs)].data = @ \o ev.data]
        ELSE Append(evs, ev)

\* on receives the events in turn, then r is returned; or on fails on one.
Deliver(evs, r) ==
    LET Received(n) == CASE n = 0 -> got
                         [] n = 1 -> Joined(got, evs[1])
                         [] n = 2 -> Joined(Joined(got, evs[1]), evs[2])
    IN  \/ got' = Received(Len(evs)) /\ ret' = r
        \/ "cb" \in Faults /\ \E n \in 1 .. Len(evs) :
                got' = Received(n) /\ ret' = Returned("cb_fail", evs[n].loc)

Stop(cause, l) == ret' = Returned(cause, l) /\ UNCHANGED <<input, nxt, loc, at, stk, tok, got>>

NumPlaces == {"int0", "zero", "int", "frac0", "frac", "exp0", "exp1", "exp"}
StrPlaces == {"str", "esc", "hex", "u8"}
PartKind == IF at \in NumPlaces THEN "NPar" ELSE IF tok.key THEN "KPar" ELSE "SPar"

\* sput: the bytes of the token that lie behind the last part.
Sput == IF loc.off = tok.seg.off THEN << >>
        ELSE <<Event(PartKind, SubSeq(input, tok.seg.off + 1, loc.off), tok.seg)>>

\* Where a value has ended.
AfterValue(s) == IF s = << >> THEN "end" ELSE s[Len(s)]
-----------------------------------------------------------------------------
(* The buffer is used up: refil, and around it speek in strings, numbers.  *)

\* What the old buffer holds of the token, and has not been passed on.
PartAtCut == IF at \in StrPlaces \union NumPlaces THEN Sput ELSE << >>

\* Mutant of SegAfterPull: the next part begins where the last one did.
SegAfterPull_Old == tok
SegAfterPull == [tok EXCEPT !.seg = IF at \in StrPlaces \union NumPlaces THEN loc ELSE @]

\* pull hands out a buffer, or says that the text has ended.
Pull ==
    /\ Running /\ nxt = EndOfBuf
    /\ Deliver(PartAtCut, ret)
    /\ nxt' \in {EndOfText} \union CharsAt(Len(input) + 1)
    /\ tok' = SegAfterPull
    /\ UNCHANGED <<input, loc, at, stk>>

\* pull hands out an empty buffer.
PullEmpty ==
    /\ Running /\ nxt = EndOfBuf
    /\ "empty" \in Faults
    /\ Deliver(PartAtCut, Returned("pull_buf", loc))
    /\ UNCHANGED <<input, nxt, loc, at, stk, tok>>

PullFail ==
    /\ Running /\ nxt = EndOfBuf
    /\ "pull" \in Faults
    /\ Deliver(PartAtCut, Returned("pull", loc))
    /\ UNCHANGED <<input, nxt, loc, at, stk, tok>>

-----------------------------------------------------------------------------
(* bom, skip; val, obj, arr.                                               *)

BomByte ==
    /\ At({"bom"})
    /\ nxt = Bom[Len(input) + 1]
    /\ Take /\ Quiet
    /\ Goto(IF Len(input) = 2 THEN "val" ELSE "bom", tok)

NoBom ==
    /\ At({"bom"})
    /\ nxt # Bom[Len(input) + 1]
    /\ IF input = << >> THEN Stay /\ Quiet /\ Goto("val", tok)
                        ELSE Stop("bad_tok", FirstLoc)

\* What may follow at the places between tokens.
Accepted(place) ==
    CASE place = "val"           -> {"{", "[", "\"", "-", "t", "f", "n"} \union Digit
      [] place = "obj0"          -> {"}", "\""}
      [] place = "key"           -> {"\""}
      [] place = "colon"         -> {":"}
      [] place = "objn"          -> {",", "}"}
      [] place = "arrn"          -> {",", "]"}
      [] place = "end"           -> {EndOfText}
Between == {"val", "obj0", "key", "colon", "objn", "arr0", "arrn", "end"}

Skip1 ==
    /\ At(Between) /\ nxt \in Ws
    /\ Take /\ Quiet
    /\ UNCHANGED <<at, tok>>

\* Mutants of DepthOK: the limit itself is refused; the level below it is not.
DepthOK_Strict == Len(stk) + 1 < MaxDep
DepthOK_Loose == Len(stk) <= MaxDep
DepthOK == Len(stk) + 1 <= MaxDep

Open ==
    /\ At({"val"}) /\ nxt \in {"{", "["}
    /\ IF DepthOK
       THEN /\ Take
            /\ Deliver(<<Event(IF nxt = "{" THEN "OBeg" ELSE "ABeg", << >>, loc)>>, ret)
            /\ stk' = Append(stk, IF nxt = "{" THEN "objn" ELSE "arrn")
            /\ Goto(IF nxt = "{" THEN "obj0" ELSE "arr0", tok)
       ELSE Stop("max_dep", loc)

Close ==
    /\ \/ At({"obj0", "objn"}) /\ nxt = "}"
       \/ At({"arr0", "arrn"}) /\ nxt = "]"
    /\ Take
    /\ Deliver(<<Event(IF nxt = "}" THEN "OEnd" ELSE "AEnd", << >>, loc)>>, ret)
    /\ stk' = SubSeq(stk, 1, Len(stk) - 1)
    /\ Goto(AfterValue(stk'), tok)

\* An array that is not empty; a text that ends behind its "[".
FirstElement ==
    /\ At({"arr0"}) /\ nxt \notin Ws \union {"]"}
    /\ IF nxt = EndOfText THEN Stop("want_aend", loc)
                          ELSE Stay /\ Quiet /\ Goto("val", tok)

Comma ==
    /\ At({"objn", "arrn"}) /\ nxt = ","
    /\ Take /\ Quiet
    /\ Goto(IF at = "objn" THEN "key" ELSE "val", tok)

Colon ==
    /\ At({"colon"}) /\ nxt = ":"
    /\ Take /\ Quiet
    /\ Goto("val", tok)

End ==
    /\ At({"end"}) /\ nxt = EndOfText
    /\ ret' = Returned("", NoLoc)
    /\ UNCHANGED <<input, nxt, loc, at, stk, tok, got>>

Unexpected ==
    /\ At(Between \ {"arr0"}) /\ nxt \notin Ws \union Accepted(at)
    /\ Stop(CASE at \in {"val", "colon"} /\ nxt = EndOfText -> "tok_eof"
              [] at = "val"                -> "want_val"
              [] at \in {"obj0", "key"}    -> "want_key"
              [] at = "colon"              -> "want_col"
              [] at = "objn"               -> "want_oend"
              [] at = "arrn"               -> "want_aend"
              [] at = "end"                -> "trail", loc)

-----------------------------------------------------------------------------
(* Strings: str, esc, u8.                                                  *)

Quote ==
    /\ At({"val", "obj0", "key"}) /\ nxt = "\""
    /\ Take
    /\ Deliver(<<Event(IF at = "val" THEN "SBeg" ELSE "KBeg", << >>, loc)>>, ret)
    /\ Goto("str", Tok(Advanced, at # "val", << >>))
    /\ UNCHANGED stk

StrEnd ==
    /\ At({"str"}) /\ nxt = "\""
    /\ Take
    /\ Deliver(Append(Sput, Event(IF tok.key THEN "KEnd" ELSE "SEnd", << >>, loc)), ret)
    /\ Goto(IF tok.key THEN "colon" ELSE AfterValue(stk), NoTok)
    /\ UNCHANGED stk

\* The characters whose byte lies between the two.
Bytes(min, max) == {c \in HighBytes : Byte(c) \in min .. max}

\* What u8 demands behind the first byte of a character.
U8Due(b0) ==
    LET more == Bytes(\h80, \hbf)
    IN  CASE b0 \in \hc2 .. \hdf -> <<more>>
          [] b0 = \he0           -> <<Bytes(\ha0, \hbf), more>>
          [] b0 \in \he1 .. \hec \union \hee .. \hef -> <<more, more>>
          [] b0 = \hed           -> <<Bytes(\h80, \h9f), more>>
          [] b0 = \hf0           -> <<Bytes(\h90, \hbf), more, more>>
          [] b0 \in \hf1 .. \hf3 -> <<more, more, more>>
          [] b0 = \hf4           -> <<Bytes(\h80, \h8f), more, more>>
          [] OTHER               -> << >>

StrChar ==
    /\ At({"str"}) /\ nxt \notin Ctl \union {"\"", EndOfText}
    /\ IF Byte(nxt) >= \h80 /\ U8Due(Byte(nxt)) = << >>
       THEN Stop("utf8", loc)
       ELSE /\ Take /\ Quiet
            /\ CASE nxt = "\\" -> Goto("esc", tok)
                 [] Byte(nxt) >= \h80 -> Goto("u8", [tok EXCEPT !.due = U8Due(Byte(nxt))])
                 [] OTHER -> Goto("str", tok)

\* Mutant of StrBad: the end of the text is no end of a string.
StrBad_NoEof ==
    /\ At({"str"}) /\ nxt \in Ctl
    /\ Stop("ctl_str", loc)

StrBad ==
    /\ At({"str"}) /\ nxt \in Ctl \union {EndOfText}
    /\ Stop(IF nxt = EndOfText THEN "str_eof" ELSE "ctl_str", loc)

EscChar ==
    /\ At({"esc"})
    /\ IF nxt \in Escaped \union {"u"}
       THEN /\ Take /\ Quiet
            /\ IF nxt = "u" THEN Goto("hex", [tok EXCEPT !.due = <<Hex, Hex, Hex, Hex>>])
                            ELSE Goto("str", tok)
       ELSE Stop(IF nxt = EndOfText THEN "esc_eof" ELSE "bad_esc", loc)

-----------------------------------------------------------------------------
(* Literals; the characters due within a character, an escape, a literal.  *)

Literals == {"True", "False", "Null"}

Literal ==
    /\ At({"val"}) /\ nxt \in {"t", "f", "n"}
    /\ Take /\ Quiet
    /\ LET lit == CASE nxt = "t" -> True [] nxt = "f" -> False [] nxt = "n" -> Null
       IN  Goto(CASE nxt = "t" -> "True" [] nxt = "f" -> "False" [] nxt = "n" -> "Null",
                Tok(loc, FALSE, [i \in 1 .. Len(lit) - 1 |-> {lit[i + 1]}]))

Due ==
    /\ At({"hex", "u8"} \union Literals) /\ tok.due # << >>
    /\ IF nxt \in Head(tok.due)
       THEN /\ Take /\ Quiet
            /\ Goto(IF Len(tok.due) = 1 /\ at \notin Literals THEN "str" ELSE at,
                    [tok EXCEPT !.due = Tail(@)])
       ELSE CASE at = "u8"       -> Stop("utf8", loc)
              [] at = "hex"      -> Stop(IF nxt = EndOfText THEN "u4_len" ELSE "u4_hex", loc)
              [] at \in Literals -> Stop("bad_tok", IF nxt = EndOfText THEN NoLoc ELSE loc)

\* isend: a literal or number may not run into the next token.
EndsTok == nxt \in EndOfTok \union {EndOfText}

LiteralEnd ==
    /\ At(Literals) /\ tok.due = << >>
    /\ IF EndsTok
       THEN /\ Stay
            /\ Deliver(<<Event(at, << >>, tok.nloc)>>, ret)
            /\ Goto(AfterValue(stk), NoTok)
            /\ UNCHANGED stk
       ELSE Stop("bad_tok", loc)

-----------------------------------------------------------------------------
(* Numbers: num.                                                           *)

\* The place behind character c of a number, or "none".
NumNext(place, c) ==
    CASE c = "0" /\ place = "int0"                         -> "zero"
      [] c \in Digit /\ place \in {"int0", "int"}          -> "int"
      [] c \in Digit /\ place \in {"frac0", "frac"}        -> "frac"
      [] c \in Digit /\ place \in {"exp0", "exp1", "exp"}  -> "exp"
      [] c = "." /\ place \in {"zero", "int"}              -> "frac0"
      [] c = "e" /\ place \in {"zero", "int", "frac"}      -> "exp0"
      [] c \in {"+", "-"} /\ place = "exp0"                -> "exp1"
      [] OTHER                                             -> "none"

Number ==
    /\ At({"val"}) /\ nxt \in Digit \union {"-"}
    /\ Take
    /\ Deliver(<<Event("NBeg", << >>, loc)>>, ret)
    /\ Goto(IF nxt = "-" THEN "int0" ELSE NumNext("int0", nxt), Tok(loc, FALSE, << >>))
    /\ UNCHANGED stk

NumChar ==
    /\ At(NumPlaces) /\ NumNext(at, nxt) # "none"
    /\ Take /\ Quiet
    /\ Goto(NumNext(at, nxt), [tok EXCEPT !.nloc = loc])

NumBad ==
    /\ At({"int0", "frac0", "exp0", "exp1"}) /\ NumNext(at, nxt) = "none"
    /\ Stop("bad_num", IF at = "frac0" /\ nxt = EndOfText THEN NoLoc ELSE loc)

NumEnd ==
    /\ At({"zero", "int", "frac", "exp"}) /\ NumNext(at, nxt) = "none"
    /\ Stay
    /\ IF EndsTok THEN Deliver(Append(Sput, Event("NEnd", << >>, tok.nloc)), ret)
                  ELSE Deliver(Sput, Returned("bad_num", loc))
    /\ Goto(AfterValue(stk), NoTok)
    /\ UNCHANGED stk

-----------------------------------------------------------------------------
Next ==
    /\ \/ Pull \/ PullEmpty \/ PullFail
       \/ BomByte \/ NoBom \/ Skip1
       \/ Open \/ Close \/ FirstElement \/ Comma \/ Colon \/ End \/ Unexpected
       \/ Quote \/ StrEnd \/ StrChar \/ StrBad \/ EscChar
       \/ Literal \/ Due \/ LiteralEnd
       \/ Number \/ NumChar \/ NumBad \/ NumEnd
    /\ UNCHANGED text

\* Parse runs on; pull and on return.
Spec == Init /\ [][Next]_vars /\ WF_vars(Next)

-----------------------------------------------------------------------------
(* Properties.                                                             *)

\* What may be due within a token.
DueChars == Hex \union HighBytes \union {"r", "u", "e", "a", "l", "s"}

Kinds == {"OBeg", "OEnd", "ABeg", "AEnd", "KBeg", "KPar", "KEnd",
          "SBeg", "SPar", "SEnd", "NBeg", "NPar", "NEnd"} \union Literals

\* Why Parse returned: nil, an error of a caller's function, or of the text.
ByCaller == {"cb_fail", "pull", "pull_buf"}
Causes == {"", "bad_esc", "bad_num", "bad_tok", "ctl_str", "esc_eof", "max_dep", "str_eof",
           "tok_eof", "trail", "u4_hex", "u4_len", "utf8", "want_aend", "want_col",
           "want_key", "want_oend", "want_val"} \union ByCaller

Events == [kind : Kinds, data : Seq(STRING), loc : Loc]

\* The state's types: the recursion of val is at most MaxDep deep, and at most four
\* characters of an escape or a literal are due.
TypeOK ==
    /\ text \in Texts
    /\ input \in Seq(STRING) /\ \A i \in 1 .. Len(input) : input[i] \in CharsAt(i)
    /\ nxt \in CharsAt(Len(input) + 1) \union {EndOfBuf, EndOfText}
    /\ loc \in Loc
    /\ at \in Between \union StrPlaces \union NumPlaces \union Literals \union {"bom"}
    /\ stk \in Seq({"objn", "arrn"}) /\ Len(stk) <= MaxDep
    /\ tok \in [seg : Loc, nloc : Loc, key : BOOLEAN, due : Seq(SUBSET DueChars)]
    /\ Len(tok.due) <= 4
    /\ got \in Seq(Events)
    /\ ret \in [cause : Causes \union {"none"}, loc : Loc]

\* The line feeds among the first n characters of s.
Feeds(s, n) == {i \in 1 .. n : s[i] = "nl"}

\* l is where a character of s is, or its end: the row counts the line feeds
\* before it, the column the characters since the last one.
LocTrue(l, s) ==
    /\ l.off <= Len(s)
    /\ l.row = 1 + Cardinality(Feeds(s, l.off))
    /\ \E last \in Feeds(s, l.off) \union {0} :
          /\ \A i \in Feeds(s, l.off) : i <= last
          /\ l.col = l.off + 1 - last

\* The data of an event are the characters of s from its location on.
EventTrue(ev, s) ==
    /\ LocTrue(ev.loc, s)
    /\ ev.loc.off + Len(ev.data) <= Len(s)
    /\ ev.data = SubSeq(s, ev.loc.off + 1, ev.loc.off + Len(ev.data))

\* Each event, and an error that has a location, is located where its byte is,
\* and what the parts of a token make up are the bytes from there on.
LocationsTrue ==
    /\ \A i \in 1 .. Len(got) : EventTrue(got[i], input)
    /\ ret.loc # NoLoc => LocTrue(ret.loc, input)

\* How many objects and arrays are open behind the first n events.
Opens == {"OBeg", "ABeg"}
Closes == {"OEnd", "AEnd"}
Count(evs, n, kinds) == Cardinality({i \in 1 .. n : evs[i].kind \in kinds})
Depth(evs, n) == Count(evs, n, Opens) - Count(evs, n, Closes)

\* The innermost of them was opened by an event of the kind.
Within(evs, n, kind) ==
    \E i \in 1 .. n : /\ evs[i].kind = kind
                     /\ Depth(evs, i) = Depth(evs, n)
                     /\ \A j \in i .. n : Depth(evs, j) >= Depth(evs, n)

Begins == {"OBeg", "ABeg", "SBeg", "NBeg"} \union Literals

\* What may come behind an event of the kind.
Follow(kind) ==
    CASE kind = "KBeg" -> {"KPar", "KEnd"}  [] kind = "KPar" -> {"KEnd"}
      [] kind = "SBeg" -> {"SPar", "SEnd"}  [] kind = "SPar" -> {"SEnd"}
      [] kind = "NBeg" -> {"NPar"}          [] kind = "NPar" -> {"NEnd"}
      [] kind = "KEnd" -> Begins
      [] OTHER         -> Begins \union {"KBeg"} \union Closes

\* The i-th event may stand behind those before it: a bracket closes the one
\* opened last, a key stands in an object, a value alone, behind its key, or in
\* an array.
EventFits(evs, i) ==
    LET kind == evs[i].kind
    IN  /\ Depth(evs, i) <= MaxDep
        /\ i > 1 => kind \in Follow(evs[i - 1].kind)
        /\ kind \in {"OEnd", "KBeg"} => Within(evs, i - 1, "OBeg")
        /\ kind = "AEnd" => Within(evs, i - 1, "ABeg")
        /\ kind \in Begins => \/ i = 1 \/ evs[i - 1].kind = "KEnd"
                             \/ Within(evs, i - 1, "ABeg")

\* What on has received is at any moment the beginning of the events of one
\* value that nests at most MaxDep deep; and if Parse returns nil it is whole.
EventsNest ==
    /\ \A i \in 1 .. Len(got) : EventFits(got, i)
    /\ ret.cause = "" => got # << >> /\ Depth(got, Len(got)) = 0

\* Parse returns, if pull hands out a finite text.
ParseReturns == <>(ret # NoRet)
=============================================================================
