------------------------------- MODULE JsnGrammar ------------------------------
(***************************************************************************)
(* What a JSON text is: a reference reading of RFC 8259 and RFC 3629 that  *)
(* looks for a division of the text into tokens and shares nothing with    *)
(* either parser.                                                          *)
(***************************************************************************)
EXTENDS JsnText

\* s without its first i and its last j elements; s without the blanks around it.
Strip(s, i, j) == SubSeq(s, i + 1, Len(s) - j)
Trim(s) ==
    LET solid == {i \in 1 .. Len(s) : s[i] \notin Ws}
        least == CHOOSE i \in solid : \A k \in solid : i <= k
        last == CHOOSE i \in solid : \A k \in solid : i >= k
    IN  IF solid = {} THEN << >> ELSE SubSeq(s, least, last)

\* One character in UTF-8, a leading byte and those that continue it: shortest
\* form, no surrogate, at most U+10FFFF.
Continued(s) == Byte(s[1]) > 191 /\ \A i \in 2 .. Len(s) : Byte(s[i]) \in 128 .. 191
Shortest(s) ==
    LET n == Len(s)
        low(i) == Byte(s[i]) - 128
    IN  \/ n = 2 /\ (Byte(s[1]) - 192) * 64 + low(2) \in 128 .. 2047
        \/ n = 3 /\ (Byte(s[1]) - 224) * 4096 + low(2) * 64 + low(3)
                      \in (2048 .. 65535) \ (55296 .. 57343)
        \/ n = 4 /\ (Byte(s[1]) - 240) * 262144 + low(2) * 4096 + low(3) * 64 + low(4)
                      \in 65536 .. 1114111
IsUtf8(s) == Continued(s) /\ Shortest(s)

IsUnit(u) ==
    \/ Len(u) = 1 /\ u[1] \notin Ctl \union {"\"", "\\"} /\ Byte(u[1]) = 0
    \/ Len(u) = 2 /\ u[1] = "\\" /\ u[2] \in Escaped
    \/ Len(u) = 6 /\ u[1] = "\\" /\ u[2] = "u" /\ \A i \in 3 .. 6 : u[i] \in Hex
    \/ Len(u) > 1 /\ IsUtf8(u)

\* From each place on, s is units: behind one, or at its end.
IsUnits(s) ==
    LET fine[i \in 0 .. Len(s)] ==
            \/ i = Len(s)
            \/ \E n \in 1 .. 6 : /\ i + n <= Len(s)
                                 /\ IsUnit(SubSeq(s, i + 1, i + n))
                                 /\ fine[i + n]
    IN  fine[0]

IsString(s) == Len(s) > 1 /\ s[1] = "\"" /\ s[Len(s)] = "\"" /\ IsUnits(Strip(s, 1, 1))

AllDigits(s) == s # << >> /\ \A i \in 1 .. Len(s) : s[i] \in Digit
IsInt(s) == AllDigits(s) /\ (s[1] = "0" => Len(s) = 1)
IsFrac(s) == s = << >> \/ (s[1] = "." /\ AllDigits(Tail(s)))
IsExp(s) == \/ s = << >>
            \/ /\ s[1] = "e" /\ Len(s) > 1
               /\ AllDigits(IF s[2] \in {"+", "-"} THEN Strip(s, 2, 0) ELSE Tail(s))
IsNumber(s) ==
    LET u == IF s # << >> /\ s[1] = "-" THEN Tail(s) ELSE s
    IN  \E i \in 1 .. Len(u) : \E j \in i .. Len(u) :
            /\ IsInt(SubSeq(u, 1, i))
            /\ IsFrac(SubSeq(u, i + 1, j))
            /\ IsExp(SubSeq(u, j + 1, Len(u)))

IsPlain(s) == IsString(s) \/ IsNumber(s) \/ s \in {True, False, Null}

\* s is an array or object, in which and in whose values arrays and objects nest
\* at most d deep.  From each comma on it is items, a member or element each.
composite[s \in Seq(STRING), d \in Nat] ==
    LET inner == Strip(s, 1, 1)
        value(t) == IsPlain(t) \/ composite[t, d - 1]
        member(t) == \E i \in 1 .. Len(t) : /\ t[i] = ":"
                                            /\ IsString(Trim(SubSeq(t, 1, i - 1)))
                                            /\ value(Trim(Strip(t, i, 0)))
        item(t) == IF s[1] = "{" THEN member(t) ELSE value(Trim(t))
        items[i \in 0 .. Len(inner)] ==
            \/ item(Strip(inner, i, 0))
            \/ \E j \in i + 1 .. Len(inner) : /\ inner[j] = ","
                                              /\ item(SubSeq(inner, i + 1, j - 1))
                                              /\ items[j]
    IN  /\ d > 0 /\ Len(s) > 1
        /\ <<s[1], s[Len(s)]>> \in {<<"{", "}">>, <<"[", "]">>}
        /\ Trim(inner) = << >> \/ items[0]

\* s is a value that nests at most d deep.
IsValue(s, d) == IsPlain(s) \/ composite[s, d]

\* s is a JSON text, behind a byte order mark where one is allowed.
IsJson(s, d, bom) ==
    LET marked == bom /\ Len(s) >= 3 /\ SubSeq(s, 1, 3) = Bom
    IN  IsValue(Trim(IF marked THEN Strip(s, 3, 0) ELSE s), d)
=============================================================================
