--------------------------------- MODULE MCFld ---------------------------------
(* A small instance of Fld for TLC: definitions of up to three fields with *)
(* words of two bits, and texts of up to three items.                      *)
EXTENDS Fld, JsnBytes

Quoted(s) == <<"\"">> \o s \o <<"\"">>
U(a, b, c, d) == <<"\\", "u", a, b, c, d>>

KeyA == Quoted(<<"a">>)
KeyAEsc == Quoted(U("0", "0", "6", "1"))
KeyB == Quoted(<<"b">>)
KeyLone == Quoted(U("d", "8", "0", "0"))

Num1 == <<"1">>
Two31 == <<"-", "1", "1">>              \* -I32Max - 1
Text1 == Quoted(<<"1">>)
Escape == Quoted(<<"1", "\\", "n">>)
Pair == Quoted(U("d", "8", "0", "1") \o U("d", "c", "0", "0"))
Lone == Quoted(U("d", "c", "0", "0"))
Inner == <<"{">> \o KeyA \o <<":", "[", "1", "]", "}">>
Deep == <<"[", "[", "[", "]", "]", "]">>
MCHuge == {<<"1", "e", "8">>}

Common == {Num1, Two31, Text1, Escape, True, Null, Inner}
Rare == MCHuge \union {Pair, Lone, False, Deep, <<"t", "r", "u">>, <<"0", "1">>, <<"-", "0">>,
                       <<"1", "1">>, <<"1", "8">>, <<"1", ".", "0">>, <<"-", "1", "6">>, <<"[", "]">>}

Item(key, val) == [key |-> key, val |-> val]
Doc(open, items, close) == [open |-> <<open>>, items |-> items, close |-> close]
Singles == {Doc("{", <<Item(k, v)>>, <<"}">>) :
              k \in {KeyA, KeyAEsc, KeyB, KeyLone}, v \in Common \union Rare}
Pairs == {Doc("{", <<Item(k, v), Item(l, w)>>, <<"}">>) :
            k \in {KeyA, KeyB}, l \in {KeyAEsc, KeyB}, v \in Common, w \in Common \union {<<"t", "r", "u">>}}
Ends == {Doc("{", <<Item(KeyA, Num1), Item(KeyB, v)>>, c) :
            v \in {Num1, Text1}, c \in {<< >>, <<",", "}">>, <<"]">>, <<"}", "1">>}}
Others == {Doc("{", << >>, <<"}">>), Doc("[", <<Item(<< >>, Num1)>>, <<"]">>), Doc("1", << >>, << >>)}

Field(key, typ, req) == [key |-> <<key>>, typ |-> typ, req |-> req, dst |-> TRUE]
Defs == {<<Field("a", "i32", TRUE), Field("b", "ostr", FALSE)>>,
         <<Field("a", "str", FALSE), Field("b", "raw", TRUE)>>,
         <<Field("a", "bytes", FALSE), Field("b", "obool", FALSE)>>,
         <<Field("a", "ou32", FALSE), Field("a", "raw", FALSE)>>,
         <<Field("a", "f64", FALSE), Field("b", "obytes", TRUE)>>,
         <<Field("a", "raw", FALSE), Field("b", "bytes", FALSE)>>,
         <<Field("a", "u32", TRUE), Field("b", "oi32", FALSE)>>,
         <<Field("c", "of64", FALSE), Field("b", "bool", FALSE), Field("a", "raw", TRUE)>>,
         <<Field("a", "none", FALSE), [Field("b", "str", FALSE) EXCEPT !.dst = FALSE]>>,
         << >>}

Call(mode, doc, def, cap, hasArena) ==
    [mode |-> mode, doc |-> doc, def |-> def, cap |-> cap, hasArena |-> hasArena,
     arena |-> IF hasArena THEN <<"z">> ELSE << >>]
ObjCalls == {Call("obj", d, def, 0, TRUE) : d \in Singles \union Pairs \union Ends \union Others, def \in Defs}
            \union {Call("obj", d, def, 0, FALSE) : d \in Singles, def \in Defs}

Elements1 == {Doc("[", <<Item(<< >>, v)>>, <<"]">>) : v \in Common \union Rare}
Elements2 == {Doc("[", <<Item(<< >>, v), Item(<< >>, w)>>, c) :
                v \in Common, w \in Common, c \in {<<"]">>, <<"}">>, <<"]", "1">>}}
Elements3 == {Doc("[", <<Item(<< >>, u), Item(<< >>, v), Item(<< >>, w)>>, <<"]">>) :
                u \in {Escape, Inner}, v \in {Escape, Inner, Null}, w \in {Escape, Inner}}
ArrCalls == {Call(m, d, << >>, n, a) :
               m \in {"arrobj", "arrscalar"}, d \in Elements1 \union Elements2 \union Elements3 \union Others,
               n \in {1, 3}, a \in BOOLEAN}

MCChars == STRING
MCFeed(b) == ParseBytes(b, FALSE)
MCCalls == ObjCalls \union ArrCalls

\* A call that has returned stays as it is; one that has not goes on.
Done == ret # NoRet /\ UNCHANGED vars
MCSpec == Init /\ [][Next \/ Done]_vars
=============================================================================
