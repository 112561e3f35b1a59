--------------------------------- MODULE MCJsn ---------------------------------
(* Small instances of JsnPull for TLC: a few kinds of texts, each with the *)
(* characters that matter to one part of the parser.                       *)
EXTENDS JsnParsers

Kind(chars, bom) == [chars |-> chars, bom |-> bom]

\* n places with the same characters.
Same(n, chars) == [i \in 1 .. n |-> chars]

Marks == {"{", "}", "[", "]", ",", ":", "\"", "1"}
Nested == Kind(<<{"{", "["}>> \o Same(2, Marks) \o
               <<{":", "]", "}", ",", "\"", "1"}, {"1", "[", "{", "\"", "]"},
                 {"}", "]", ","}, {"}", "]"}, {"}", ","}>>, FALSE)
Blanks == Kind(Same(5, {"[", "]", ",", "1", "\"", " ", "nl", "tab"}), FALSE)
Escapes == Kind(<<{"\""}, {"\\", "1", "\"", "ctl"}, {"u", "/", "b", "1", "\"", "\\"}>> \o
                Same(2, {"b", "u", "\""}) \o Same(2, {"1", "\"", ","}) \o
                <<{"\"", "\\"}, {"\"", "b"}>>, FALSE)
Chars == Kind(<<{"\""}, HighBytes, HighBytes, {"80", "bf", "c2", "\"", "1"},
                {"80", "bf", "c1", "\""}, {"\""}>>, FALSE)
Numbers == Kind(Same(6, {"-", "+", "0", "1", ".", "e", ","}), FALSE)
Words == Kind(Same(7, {"t", "r", "u", "e", "f", "a", "l", "s", "n", "[", ",", "]"}), FALSE)
Marked == Kind(Same(5, {"ef", "bb", "bf", "1", " ", "nl"}), TRUE)

MCTexts == {Nested, Blanks, Escapes, Chars, Numbers, Words, Marked}
=============================================================================
