------------------------------- MODULE JsnParsers ------------------------------
(***************************************************************************)
(* The two parsers of internal/jsn and the grammar, compared: Parse, as it *)
(* runs, with ParseBytes and with RFC 8259 on the text read so far.        *)
(***************************************************************************)
EXTENDS JsnPull, JsnBytes, JsnGrammar

\* The characters known: those consumed, and the one looked at.
Known == IF nxt \in {EndOfBuf, EndOfText} THEN input ELSE Append(input, nxt)

\* The events without the part at their end, which the two parsers emit at
\* different moments.
Solid(evs) ==
    IF evs # << >> /\ evs[Len(evs)].kind \in {"KPar", "SPar", "NPar"}
    THEN SubSeq(evs, 1, Len(evs) - 1) ELSE evs

IsPrefixOf(s, t) == Len(s) <= Len(t) /\ s = SubSeq(t, 1, Len(s))

\* However the text is cut into buffers, Parse and ParseBytes emit the same
\* events with the same locations, and fail for the same cause at the same
\* place: what has been emitted at any moment, also when the caller's
\* functions fail, is what ParseBytes emits of the text read so far.
PullIsBytes ==
    LET b == ParseBytes(Known, text.bom)
    IN  /\ IsPrefixOf(Solid(got), b.evs)
        /\ ret # NoRet /\ ret.cause \notin ByCaller =>
              ret = b.err /\ Solid(got) = Solid(b.evs)
        /\ ret.cause = "" => got = b.evs

\* Up to n times the character c.
UpTo(n, c) == UNION {[1 .. k -> {c}] : k \in 0 .. n}

\* What is left of the word w where s breaks off in it.
Left(s, w) ==
    {Strip(w, n, 0) : n \in {k \in 1 .. Len(w) : k <= Len(s) /\ Strip(s, Len(s) - k, 0) = SubSeq(w, 1, k)}}

\* Ways to finish the token, member or element that s breaks off in, wherever that
\* is: the escape or character, then the string, literal, number or byte order
\* mark, then what is left of the member.
Endings(s) ==
    LET has(chars) == \E i \in 1 .. Len(s) : s[i] \in chars
        escape == IF has({"\\"}) THEN UpTo(4, "1") \union {<<"/">>} ELSE {}
        bytes == IF has(HighBytes)
                 THEN {<<b>> \o t : b \in {"80", "90", "a0"}, t \in UpTo(2, "80")} ELSE {}
        string == {u \o <<"\"">> : u \in {<< >>} \union escape \union bytes}
        word == UNION {Left(s, w) : w \in {True, False, Null}}
        value == {<< >>, <<"1">>} \union string \union word \union {r \o <<"1">> : r \in Left(s, Bom)}
        member == {k \o <<":", "1">> : k \in {<< >>, <<"\"", "\"">>} \union string}
    IN  value \union member

\* Ways to close the brackets, of a kind and as many as have been opened, at most.
Closings(s) ==
    LET opened == {i \in 1 .. Len(s) : s[i] \in {"[", "{"}}
        closers == {IF s[i] = "[" THEN "]" ELSE "}" : i \in opened}
    IN  UNION {[1 .. n -> closers] : n \in {k \in 0 .. MaxDep : k <= Cardinality(opened)}}

\* Some JSON text, nested at most MaxDep deep, begins with s.
Viable(s) ==
    \E c \in Closings(s) : \E e \in Endings(s) : IsJson(s \o e \o c, MaxDep, text.bom)

\* Parse accepts what RFC 8259 calls a JSON text, nested at most MaxDep deep,
\* and nothing else; and it refuses a text at its first byte that no such text
\* has at that place: not before, so that a good text is never refused half way,
\* and not behind it.
AcceptsJson ==
    ret # NoRet /\ ret.cause \notin ByCaller =>
        /\ ret.cause = "" <=> nxt = EndOfText /\ IsJson(input, MaxDep, text.bom)
        /\ ret.cause # "" => Viable(input)
        /\ nxt # EndOfText => ~Viable(Known)
=============================================================================
