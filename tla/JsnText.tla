-------------------------------- MODULE JsnText --------------------------------
(***************************************************************************)
(* JSON texts as the parsers of internal/jsn see them: characters by the   *)
(* class that the code tells apart, locations, and events.                 *)
(***************************************************************************)
EXTENDS Naturals, Sequences

CONSTANTS MaxDep        \* the nesting limit of both parsers, Opt.MaxDep

\* Bytes of multi-byte characters, by name; "nl" is a line feed, "tab" a tab
\* or carriage return, "ctl" another control character, the digits
\* and letters are those that occur.
Byte(c) ==
    CASE c = "80" -> \h80 [] c = "8f" -> \h8f [] c = "90" -> \h90 [] c = "9f" -> \h9f
      [] c = "a0" -> \ha0 [] c = "bb" -> \hbb [] c = "bf" -> \hbf [] c = "c1" -> \hc1
      [] c = "c2" -> \hc2 [] c = "df" -> \hdf [] c = "e0" -> \he0 [] c = "e1" -> \he1
      [] c = "ec" -> \hec [] c = "ed" -> \hed [] c = "ee" -> \hee [] c = "ef" -> \hef
      [] c = "f0" -> \hf0 [] c = "f1" -> \hf1 [] c = "f3" -> \hf3 [] c = "f4" -> \hf4
      [] c = "f5" -> \hf5 [] OTHER -> 0                    \* ASCII

HighBytes == {"80", "8f", "90", "9f", "a0", "bb", "bf", "c1", "c2", "df", "e0", "e1", "ec",
              "ed", "ee", "ef", "f0", "f1", "f3", "f4", "f5"}

Ws == {" ", "nl", "tab"}
Digit == {"0", "1", "6", "8"}
Hex == Digit \union {"a", "b", "c", "d", "e", "f"}
Ctl == {"nl", "tab", "ctl"}
EndOfTok == Ws \union {",", "]", "}", ":"}
Escaped == {"\"", "\\", "/", "b", "f", "n", "r", "t"}
True == <<"t", "r", "u", "e">>
False == <<"f", "a", "l", "s", "e">>
Null == <<"n", "u", "l", "l">>

Loc == [off : Nat, row : Nat, col : Nat]
NoLoc == [off |-> 0, row |-> 0, col |-> 0]
NoCause == ""
NoError == [cause |-> NoCause, loc |-> NoLoc]
FirstLoc == [off |-> 0, row |-> 1, col |-> 1]

Event(kind, data, loc) == [kind |-> kind, data |-> data, loc |-> loc]

Bom == <<"ef", "bb", "bf">>
=============================================================================
