----------------------------------- MODULE Fld -----------------------------------
(***************************************************************************)
(* FldObj, FldArrObj and FldArrScalar (internal/jsn/fld.go): a text is     *)
(* parsed by ParseBytes, and a handler with a few flags turns its events   *)
(* into values in the caller's destinations, as they come, so that what    *)
(* precedes an error has been stored.                                      *)
(*                                                                         *)
(* An action is the handling of one event.                                 *)
(***************************************************************************)
EXTENDS JsnGrammar, Integers, FiniteSets, TLC

CONSTANTS
    Calls,      \* the calls: mode "obj", "arrobj" or "arrscalar", the text (a
                \* record, see Text), def or the length of out, a's contents
    Chars,      \* the characters of texts, by the names of JsnText
    Feed(_),    \* ParseBytes: the events and the error of a text
    Word,       \* the bits of fldState.seenBits, 64 in the code
    I32Max, U32Max,         \* the largest int32 and uint32
    Huge                    \* texts that ParseFloat finds out of range

VARIABLES
    call,       \* the call
    feed,       \* the events and the result of ParseBytes on its text
    pos,        \* the event that is next
    st,         \* fldState, fldArrState
    dst,        \* the destinations of def, or the elements of out
    arena,      \* a.B
    ret         \* what the call returned, or NoRet

vars == <<call, feed, pos, st, dst, arena, ret>>

NoRet == [cause |-> "none", loc |-> NoLoc, fld |-> 0]
\* The types and keys that the code writes into its errors are left out.
Returned(cause, loc, fld) == [cause |-> cause, loc |-> loc, fld |-> fld]

\* A text: items between open and close, each behind its key in an object; and
\* how it begins, up to the end of each item.
One(it) == (IF it.key = << >> THEN << >> ELSE it.key \o <<":">>) \o it.val
UpTo(doc) ==
    LET upTo[k \in 0 .. Len(doc.items)] ==
            IF k = 0 THEN doc.open
            ELSE upTo[k - 1] \o (IF k = 1 THEN << >> ELSE <<",">>) \o One(doc.items[k])
    IN  upTo
Text(doc) == UpTo(doc)[Len(doc.items)] \o doc.close
buf == Text(call.doc)

\* What a destination holds: a slice of buf or of the arena, or a copy.
Slice(of, from, to) == [of |-> of, from |-> from, to |-> to, data |-> << >>]
Copy(data) == [of |-> "copy", from |-> 0, to |-> 0, data |-> data]
Untouched == [Copy(<< >>) EXCEPT !.of = "none"]

\* The flags keyCap, strCap, numCap and rawCap that are set are in cap; cur is
\* 0 for the code's -1.
State0 == [root |-> FALSE, dep |-> 0, cap |-> {}, keyRaw |-> << >>, expectVal |-> FALSE,
           cur |-> 0, strRaw |-> << >>, strLoc |-> NoLoc, numRaw |-> << >>, numLoc |-> NoLoc,
           rawBeg |-> 0, rawDep |-> 0, seen |-> {}, n |-> 0]

Init ==
    /\ call \in Calls
    /\ feed = Feed(buf)
    /\ pos = 1
    /\ st = State0
    /\ dst = [i \in 1 .. (IF call.mode = "obj" THEN Len(call.def) ELSE call.cap) |-> Untouched]
    /\ arena = call.arena
    /\ ret = NoRet

-----------------------------------------------------------------------------
(* Pure parts: decoding and parsing.                                       *)

Good(data) == [ok |-> TRUE, data |-> data]
Bad == [ok |-> FALSE, data |-> << >>]

HexVal(c) == CASE c = "0" -> 0 [] c = "1" -> 1 [] c = "6" -> 6 [] c = "8" -> 8 [] c = "a" -> 10
               [] c = "b" -> 11 [] c = "c" -> 12 [] c = "d" -> 13 [] c = "e" -> 14 [] c = "f" -> 15
               [] OTHER -> 0
Hex4Val(s) == HexVal(s[1]) * 4096 + HexVal(s[2]) * 256 + HexVal(s[3]) * 16 + HexVal(s[4])

\* EncodeRune, as one character named by its code point.
Rune(r) == CASE r = 97 -> "a" [] r = 98 -> "b" [] OTHER -> "U+" \o ToString(r)

\* fldEscRune: how many characters of raw the escape takes up, 0 for an error.
HighSur == \hd800 .. \hdbff
LowSur == \hdc00 .. \hdfff
IsHex4(s) == Len(s) = 4 /\ \A i \in 1 .. 4 : s[i] \in Hex
EscRune(raw) ==
    LET r == Hex4Val(SubSeq(raw, 1, 4))
        lo == Hex4Val(SubSeq(raw, 7, 10))
        paired == /\ Len(raw) >= 10 /\ raw[5] = "\\" /\ raw[6] = "u"
                  /\ IsHex4(SubSeq(raw, 7, 10)) /\ lo \in LowSur
        None == [n |-> 0, r |-> 0]
    IN  IF Len(raw) < 4 \/ ~IsHex4(SubSeq(raw, 1, 4)) THEN None
        ELSE CASE r \in HighSur ->
                    IF paired THEN [n |-> 10, r |-> 65536 + (r - \hd800) * 1024 + (lo - \hdc00)] ELSE None
               [] r \in LowSur  -> None
               [] OTHER         -> [n |-> 4, r |-> r]

\* What stands for itself behind a backslash; the control character that a letter
\* stands for.
Self == {"\"", "\\", "/"}
Letters == {"b", "f", "n", "r", "t"}
Control(c) == "\\" \o c

\* fldStrDecode, from each place on.
StrDecode(raw) ==
    LET from[i \in 1 .. Len(raw) + 1] ==
            LET Then(n, c) == IF from[i + n].ok THEN Good(<<c>> \o from[i + n].data) ELSE Bad
                u == EscRune(SubSeq(raw, i + 2, Len(raw)))
            IN  IF i > Len(raw) THEN Good(<< >>)
                ELSE IF raw[i] # "\\" THEN Then(1, raw[i])
                ELSE IF i = Len(raw) THEN Bad
                ELSE CASE raw[i + 1] \in Self -> Then(2, raw[i + 1])
                       [] raw[i + 1] \in Letters -> Then(2, Control(raw[i + 1]))
                       [] raw[i + 1] = "u" -> IF u.n = 0 THEN Bad ELSE Then(2 + u.n, Rune(u.r))
                       [] OTHER -> Bad
    IN  from[1]

HasEsc(raw) == \E i \in 1 .. Len(raw) : raw[i] = "\\"
KeyEq(raw, key) == StrDecode(raw) = Good(key)

\* find: the first field with the key, or 0.
Find(raw) ==
    LET same == {i \in 1 .. Len(call.def) : KeyEq(raw, call.def[i].key)}
    IN  IF same = {} THEN 0 ELSE CHOOSE i \in same : \A k \in same : i <= k

\* fldParseI32, fldParseU32: digits, one by one, while their number is at most max.
ParseDigits(raw, max) ==
    LET read[i \in 0 .. Len(raw)] ==
            IF i = 0 THEN Good(0)
            ELSE IF ~read[i - 1].ok \/ raw[i] \notin Digit THEN Bad
            ELSE LET n == read[i - 1].data * 10 + HexVal(raw[i])
                 IN  IF n > max THEN Bad ELSE Good(n)
    IN  read[Len(raw)]
Number(n) == Good(<<ToString(n)>>)
Unsigned(raw, max) ==
    LET d == ParseDigits(raw, max) IN IF d.ok THEN Number(d.data) ELSE Bad
ParseI32(raw) ==
    IF raw[1] = "-"
    THEN LET d == ParseDigits(Tail(raw), I32Max + 1) IN IF d.ok THEN Number(-d.data) ELSE Bad
    ELSE Unsigned(raw, I32Max)
ParseU32(raw) == IF raw[1] = "-" THEN Bad ELSE Unsigned(raw, U32Max)
\* strconv.ParseFloat, on a JSON number.
ParseF64(raw) == IF raw \in Huge THEN Bad ELSE Good(raw)

-----------------------------------------------------------------------------
(* What the handlers share.                                                *)

StrTypes == {"str", "bytes", "ostr", "obytes"}
NumTypes == {"i32", "u32", "f64", "oi32", "ou32", "of64"}
BoolTypes == {"bool", "obool"}
Types == StrTypes \union NumTypes \union BoolTypes \union {"raw", "none"}
Want(typ) == CASE typ \in StrTypes -> "want_str" [] typ \in NumTypes -> "want_num"
               [] typ \in BoolTypes -> "want_bool" [] typ = "raw" -> "want_val" [] OTHER -> "fld_typ"

ev == feed.evs[pos]
Got(modes, kinds) == /\ ret = NoRet /\ call.mode \in modes
                     /\ pos <= Len(feed.evs) /\ ev.kind \in kinds
OnObj(kinds) == Got({"obj"}, kinds) /\ st.root
OnArr(kinds) == Got({"arrobj", "arrscalar"}, kinds) /\ st.root

Go(s) == st' = s /\ pos' = pos + 1 /\ UNCHANGED ret
Stop(cause, loc) == ret' = Returned(cause, loc, 0) /\ UNCHANGED <<st, pos, dst>>
Kept == UNCHANGED <<dst, arena>>

\* fldStrBytes on the string captured: as it stands, or decoded into the arena.
Slot_Start == 0         \* mutant of Slot: the arena is filled anew
Slot == Len(arena)
StrBytes(raw, Use(_)) ==
    LET dec == StrDecode(raw)
        beg == st.strLoc.off + 1
    IN  CASE ~HasEsc(raw) -> Use(Slice("buf", beg, beg + Len(raw))) /\ UNCHANGED arena
          [] HasEsc(raw) /\ ~call.hasArena -> Stop("arg_arena", NoLoc) /\ UNCHANGED arena
          [] HasEsc(raw) /\ call.hasArena /\ ~dec.ok -> Stop("str", NoLoc) /\ UNCHANGED arena
          [] OTHER -> /\ Use(Slice("arena", Slot, Slot + Len(dec.data)))
                      /\ arena' = SubSeq(arena, 1, Slot) \o dec.data

Beginnings == {"OBeg", "ABeg", "SBeg", "NBeg", "True", "False", "Null"}
LitLen(kind) == IF kind = "False" THEN 5 ELSE 4

NotRoot ==
    /\ Got({"obj", "arrobj", "arrscalar"}, Beginnings) /\ ~st.root
    /\ LET first == IF call.mode = "obj" THEN "OBeg" ELSE "ABeg"
       IN  IF ev.kind = first THEN Go([st EXCEPT !.root = TRUE, !.dep = 1]) /\ Kept
           ELSE /\ Stop(IF call.mode = "obj" THEN "want_obeg" ELSE "want_abeg", ev.loc)
                /\ UNCHANGED arena
-----------------------------------------------------------------------------
(* fldState.on: FldObj.                                                    *)

f == call.def[st.cur]
Composite == {"OBeg", "ABeg"}
TopValue == st.expectVal /\ st.dep = 1

\* The seen bits: in a word, or in a slice when there are more fields than bits.
WideDef_Late == Len(call.def) > Word + 1        \* mutant of WideDef
WideDef == Len(call.def) > Word
Seen(i) == IF WideDef \/ i <= Word THEN {i} ELSE {}

\* The value v goes to the current field, and s is what else changes.
Store(v, s) ==
    IF f.dst
    THEN /\ dst' = [dst EXCEPT ![st.cur] = v]
         /\ Go([s EXCEPT !.seen = @ \union Seen(st.cur), !.cur = 0])
    ELSE Stop("bad_dst", NoLoc)

ObjKey ==
    /\ OnObj({"KBeg", "KPar", "KEnd"})
    /\ Kept
    /\ CASE ev.kind = "KBeg" /\ st.dep = 1 ->
              Go([st EXCEPT !.cap = @ \union {"key"}, !.keyRaw = << >>])
         [] ev.kind = "KPar" /\ "key" \in st.cap -> Go([st EXCEPT !.keyRaw = ev.data])
         [] ev.kind = "KEnd" /\ "key" \in st.cap ->
              Go([st EXCEPT !.cap = @ \ {"key"}, !.cur = Find(st.keyRaw), !.expectVal = TRUE])
         [] OTHER -> Go(st)

\* The value of a key that no field has.
ObjUnknown ==
    /\ OnObj(Beginnings) /\ TopValue /\ st.cur = 0
    /\ Go([st EXCEPT !.expectVal = FALSE, !.dep = IF ev.kind \in Composite THEN @ + 1 ELSE @])
    /\ Kept

\* The kinds of values that a field of the type takes.
Takes(typ) ==
    CASE typ = "raw"               -> Beginnings
      [] typ \in {"ostr", "obytes"} -> {"SBeg", "Null"}
      [] typ \in {"str", "bytes"}  -> {"SBeg"}
      [] typ \in NumTypes          -> {"NBeg"}
      [] typ \in BoolTypes         -> {"True", "False"}
      [] OTHER                     -> {}

ObjMismatch ==
    /\ OnObj(Beginnings) /\ TopValue /\ st.cur # 0
    /\ ev.kind \notin Takes(f.typ)
    /\ Stop(Want(f.typ), ev.loc)
    /\ UNCHANGED arena

\* valComposite, valStringBeg, valNumBeg.
ObjCapture ==
    /\ OnObj(Composite \union {"SBeg", "NBeg"}) /\ TopValue /\ st.cur # 0
    /\ ev.kind \in Takes(f.typ)
    /\ LET s == [st EXCEPT !.expectVal = FALSE]
       IN  CASE ev.kind \in Composite ->
                    Go([s EXCEPT !.cap = @ \union {"raw"}, !.rawBeg = ev.loc.off,
                                 !.rawDep = s.dep + 1, !.dep = @ + 1])
             [] ev.kind = "SBeg" ->
                    Go([s EXCEPT !.cap = @ \union {"str"}, !.strRaw = << >>, !.strLoc = ev.loc])
             [] ev.kind = "NBeg" ->
                    Go([s EXCEPT !.cap = @ \union {"num"}, !.numRaw = << >>, !.numLoc = ev.loc])
    /\ Kept

\* valBool, valNull.
ObjLiteral ==
    /\ OnObj({"True", "False", "Null"}) /\ TopValue /\ st.cur # 0
    /\ ev.kind \in Takes(f.typ)
    /\ Store(CASE f.typ = "raw" -> Slice("buf", ev.loc.off, ev.loc.off + LitLen(ev.kind))
               [] f.typ # "raw" /\ ev.kind = "Null" -> Copy(<< >>)
               [] OTHER -> Copy(<<ev.kind>>),
             [st EXCEPT !.expectVal = FALSE])
    /\ UNCHANGED arena

\* valStringEnd, storeStr.
ObjStrEnd ==
    /\ OnObj({"SEnd"}) /\ "str" \in st.cap
    /\ LET s == [st EXCEPT !.cap = @ \ {"str"}]
       IN  IF f.typ = "raw"
           THEN Store(Slice("buf", st.strLoc.off, ev.loc.off + 1), s) /\ UNCHANGED arena
           ELSE StrBytes(st.strRaw, LAMBDA v : Store(v, s))

\* valNumEnd, storeNum.
ObjNumEnd ==
    /\ OnObj({"NEnd"}) /\ "num" \in st.cap
    /\ LET s == [st EXCEPT !.cap = @ \ {"num"}]
           raw == st.numRaw
           v == CASE f.typ \in {"i32", "oi32"} -> ParseI32(raw)
                  [] f.typ \in {"u32", "ou32"} -> ParseU32(raw)
                  [] OTHER                     -> ParseF64(raw)
       IN  CASE f.typ = "raw" ->
                    Store(Slice("buf", st.numLoc.off, st.numLoc.off + Len(raw)), s)
             [] f.typ # "raw" /\ v.ok -> Store(Copy(v.data), s)
             [] OTHER -> Stop("num", st.numLoc)
    /\ UNCHANGED arena

ObjPart ==
    /\ OnObj({"SPar", "NPar"})
    /\ Go([st EXCEPT !.strRaw = IF ev.kind = "SPar" /\ "str" \in st.cap THEN ev.data ELSE @,
                     !.numRaw = IF ev.kind = "NPar" /\ "num" \in st.cap THEN ev.data ELSE @])
    /\ Kept

\* Values below the top, or in what is captured as it stands.
ObjInner ==
    /\ \/ OnObj(Beginnings) /\ ~TopValue
       \/ OnObj({"SEnd"}) /\ "str" \notin st.cap
       \/ OnObj({"NEnd"}) /\ "num" \notin st.cap
    /\ Go([st EXCEPT !.dep = IF ev.kind \in Composite THEN @ + 1 ELSE @])
    /\ Kept

ObjRawEnd_Any == "raw" \in st.cap       \* mutant of ObjRawEnd: any bracket ends it
ObjRawEnd == "raw" \in st.cap /\ st.dep = st.rawDep

ObjClose ==
    /\ OnObj({"OEnd", "AEnd"})
    /\ IF ObjRawEnd
       THEN Store(Slice("buf", st.rawBeg, ev.loc.off + 1),
                  [st EXCEPT !.cap = @ \ {"raw"}, !.dep = @ - 1])
       ELSE Go([st EXCEPT !.dep = @ - 1]) /\ UNCHANGED dst
    /\ UNCHANGED arena

\* The events are over: FldObj looks for required fields that are missing.
ObjReturn ==
    /\ ret = NoRet /\ call.mode = "obj" /\ pos > Len(feed.evs)
    /\ LET missing == {i \in 1 .. Len(call.def) : call.def[i].req /\ i \notin st.seen}
       IN  ret' = CASE feed.err # NoError -> Returned(feed.err.cause, feed.err.loc, 0)
                    [] feed.err = NoError /\ missing # {} ->
                           Returned("missing", NoLoc, CHOOSE i \in missing : \A k \in missing : i <= k)
                    [] OTHER -> Returned(NoCause, NoLoc, 0)
    /\ UNCHANGED <<pos, st, dst, arena>>
-----------------------------------------------------------------------------
(* fldArrState.on: FldArrObj, FldArrScalar.                                *)

Objects == call.mode = "arrobj"

\* put: the next element of out.
Put(v, s, loc) ==
    IF st.n < Len(dst)
    THEN dst' = [dst EXCEPT ![st.n + 1] = v] /\ Go([s EXCEPT !.n = @ + 1])
    ELSE Stop("arg_cap", loc)

ArrMismatch ==
    /\ OnArr(Beginnings) /\ st.dep = 1
    /\ ev.kind \in IF Objects THEN Beginnings \ {"OBeg"} ELSE Composite
    /\ Stop(IF Objects THEN "want_obj" ELSE "want_str", ev.loc)
    /\ UNCHANGED arena

ArrCapture ==
    /\ st.dep = 1
    /\ \/ /\ OnArr({"OBeg"}) /\ Objects
          /\ Go([st EXCEPT !.cap = @ \union {"raw"}, !.rawBeg = ev.loc.off, !.rawDep = 2, !.dep = 2])
       \/ /\ OnArr({"SBeg"}) /\ ~Objects
          /\ Go([st EXCEPT !.cap = @ \union {"str"}, !.strRaw = << >>, !.strLoc = ev.loc])
       \/ /\ OnArr({"NBeg"}) /\ ~Objects
          /\ Go([st EXCEPT !.cap = @ \union {"raw"}, !.rawBeg = ev.loc.off, !.rawDep = 1])
    /\ Kept

ArrLiteral ==
    /\ OnArr({"True", "False", "Null"}) /\ st.dep = 1 /\ ~Objects
    /\ Put(Slice("buf", ev.loc.off, ev.loc.off + LitLen(ev.kind)), st, ev.loc)
    /\ UNCHANGED arena

ArrStr ==
    /\ OnArr({"SPar", "SEnd"})
    /\ CASE "str" \notin st.cap -> Go(st) /\ Kept
         [] ev.kind = "SPar" /\ "str" \in st.cap -> Go([st EXCEPT !.strRaw = ev.data]) /\ Kept
         [] OTHER -> StrBytes(st.strRaw, LAMBDA v :
                         Put(v, [st EXCEPT !.cap = @ \ {"str"}], st.strLoc))

\* Where a captured object or number ends; every bracket leaves a level.
ArrRawEnd_Any == "raw" \in st.cap       \* mutant of ArrRawEnd
ArrRawEnd == "raw" \in st.cap /\ \/ ev.kind = "OEnd" /\ st.dep = st.rawDep
                                 \/ ev.kind = "NEnd" /\ st.rawDep = 1
ArrEnd ==
    /\ OnArr({"OEnd", "AEnd", "NEnd"})
    /\ LET s == [st EXCEPT !.dep = IF ev.kind = "NEnd" THEN @ ELSE @ - 1]
       IN  IF ArrRawEnd
           THEN Put(Slice("buf", st.rawBeg, ev.loc.off + 1), [s EXCEPT !.cap = @ \ {"raw"}], ev.loc)
           ELSE Go(s) /\ UNCHANGED dst
    /\ UNCHANGED arena

ArrInner ==
    /\ OnArr(Beginnings \union {"KBeg", "KPar", "KEnd", "NPar"})
    /\ ev.kind \in Beginnings => st.dep > 1
    /\ Go([st EXCEPT !.dep = IF ev.kind \in Composite THEN @ + 1 ELSE @])
    /\ Kept

ArrReturn ==
    /\ ret = NoRet /\ call.mode # "obj" /\ pos > Len(feed.evs)
    /\ ret' = Returned(feed.err.cause, feed.err.loc, 0)
    /\ UNCHANGED <<pos, st, dst, arena>>

-----------------------------------------------------------------------------
Next ==
    /\ \/ NotRoot
       \/ ObjKey \/ ObjUnknown \/ ObjMismatch \/ ObjCapture \/ ObjLiteral \/ ObjStrEnd
       \/ ObjNumEnd \/ ObjPart \/ ObjInner \/ ObjClose \/ ObjReturn
       \/ ArrMismatch \/ ArrCapture \/ ArrLiteral \/ ArrStr \/ ArrEnd \/ ArrInner \/ ArrReturn
    /\ UNCHANGED <<call, feed>>

Spec == Init /\ [][Next]_vars

-----------------------------------------------------------------------------
(* What a text means, by its items.                                        *)

Items == call.doc.items
Content(v) == CASE v.of = "buf"   -> SubSeq(buf, v.from + 1, v.to)
                [] v.of = "arena" -> SubSeq(arena, v.from + 1, v.to)
                [] OTHER          -> v.data

\* The inside of a string by its UTF-16 code units (RFC 8259, section 7): the
\* unit that an escape at place i names, -1 for what stands for itself, and
\* how long it is.
Unit(s, i) == IF s[i] = "\\" /\ s[i + 1] = "u" THEN Hex4Val(SubSeq(s, i + 2, i + 5)) ELSE -1
Width(s, i) == IF s[i] # "\\" THEN 1 ELSE IF s[i + 1] # "u" THEN 2 ELSE 6

\* The units are a text: the low surrogates are those behind a high one.
IsText(s) ==
    LET fits[i \in 1 .. Len(s) + 6] == [high \in BOOLEAN |->
            IF i > Len(s) THEN ~high
            ELSE /\ Unit(s, i) \in LowSur <=> high
                 /\ fits[i + Width(s, i)][Unit(s, i) \in HighSur]]
    IN  fits[1][FALSE]

\* Its characters: a pair of surrogates is one.
CharAt(s, i) ==
    LET u == Unit(s, i)
    IN  IF u = -1 THEN IF s[i] # "\\" THEN <<s[i]>>
                       ELSE <<IF s[i + 1] \in Letters THEN Control(s[i + 1]) ELSE s[i + 1]>>
        ELSE CASE u \in HighSur ->
                    <<Rune(65536 + (u - \hd800) * 1024 + (Unit(s, i + 6) - \hdc00))>>
               [] u \in LowSur -> << >>
               [] OTHER -> <<Rune(u)>>
CharsOf(s) ==
    LET from[i \in 1 .. Len(s) + 6] ==
            IF i > Len(s) THEN << >> ELSE CharAt(s, i) \o from[i + Width(s, i)]
    IN  from[1]

\* The number that a run of digits stands for; the value of one with its sign.
Total(digits) ==
    LET sum[i \in 0 .. Len(digits)] ==
            IF i = 0 THEN 0 ELSE 10 * sum[i - 1] + HexVal(digits[i])
    IN  sum[Len(digits)]
Value(s) == IF s[1] = "-" THEN -Total(Tail(s)) ELSE Total(s)
IsWhole(s) == IsNumber(s) /\ \A i \in 1 .. Len(s) : s[i] \in Digit \union {"-"}

\* What a destination of the type holds of value s; what the call complains of.
Means(s, typ) ==
    IF typ = "raw" THEN s
    ELSE IF IsString(s) THEN CharsOf(Strip(s, 1, 1))
    ELSE IF typ \in {"i32", "oi32", "u32", "ou32"} THEN <<ToString(Value(s))>>
    ELSE CASE s = True -> <<"True">>
           [] s = False -> <<"False">>
           [] s = Null -> << >>
           [] OTHER -> s
Fits(s, typ) ==
    CASE typ \in StrTypes -> IF IsString(s) THEN HasEsc(s) => call.hasArena /\ IsText(Strip(s, 1, 1))
                             ELSE s = Null /\ typ \in {"ostr", "obytes"}
      [] typ \in {"i32", "oi32"} -> IsWhole(s) /\ Value(s) \in (-I32Max - 1) .. I32Max
      [] typ \in {"u32", "ou32"} -> IsWhole(s) /\ s[1] # "-" /\ Value(s) <= U32Max
      [] typ \in {"f64", "of64"} -> IsNumber(s) /\ s \notin Huge
      [] typ \in BoolTypes -> s \in {True, False}
      [] OTHER -> typ = "raw"

\* The field of an item, by the meaning of its key; the items that stop the call.
FieldOf(it) ==
    LET key == Strip(it.key, 1, 1)
        same == {i \in 1 .. Len(call.def) : IsText(key) /\ CharsOf(key) = call.def[i].key}
    IN  IF same = {} THEN 0 ELSE CHOOSE i \in same : \A k \in same : i <= k
Stops(it) ==
    \/ ~IsValue(it.val, MaxDep - 1)
    \/ CASE call.mode = "obj" -> FieldOf(it) # 0 /\ LET d == call.def[FieldOf(it)]
                                                    IN  ~Fits(it.val, d.typ) \/ ~d.dst
         [] call.mode = "arrobj" -> it.val[1] # "{"
         [] OTHER -> \/ it.val[1] \in {"{", "["}
                     \/ IsString(it.val) /\ ~Fits(it.val, "bytes")
\* How many items come before the first that stops the call.
Before(items) ==
    CHOOSE n \in 0 .. Len(items) : /\ \A i \in 1 .. n : ~Stops(items[i])
                                   /\ n < Len(items) => Stops(items[n + 1])
Rooted == call.doc.open = IF call.mode = "obj" THEN <<"{">> ELSE <<"[">>
Whole == call.doc.close = IF call.mode = "obj" THEN <<"}">> ELSE <<"]">>

-----------------------------------------------------------------------------
(* What the handlers are given: calls, and what ParseBytes makes of a text *)
(* of items, up to the first that is no value.                             *)

CallTypes ==
    [mode : {"obj", "arrobj", "arrscalar"},
     doc : [open : Seq(Chars), close : Seq(Chars),
            items : Seq([key : Seq(Chars), val : Seq(Chars)])],
     def : Seq([key : Seq(Chars), typ : Types, req : BOOLEAN, dst : BOOLEAN]),
     cap : Nat, hasArena : BOOLEAN, arena : Seq(Chars)]

FeedEvents == [kind : Beginnings \union {"OEnd", "AEnd", "KBeg", "KPar", "KEnd", "SPar", "SEnd",
                                         "NPar", "NEnd"},
               data : Seq(Chars), loc : Loc]

\* How many brackets are open behind events i to m.
Among(evs, i, m, kinds) == Cardinality({j \in i .. m : evs[j].kind \in kinds})
Level(evs, i, m) == Among(evs, i, m, Composite) - Among(evs, i, m, {"OEnd", "AEnd"})

\* Events i to j are the beginning of a token, its data if it has any, its end.
Token(evs, i, j, kinds, data) ==
    /\ evs[i].kind = kinds[1] /\ evs[j].kind = kinds[3]
    /\ IF data = << >> THEN j = i + 1
       ELSE j = i + 2 /\ evs[i + 1].kind = kinds[2] /\ evs[i + 1].data = data

\* An item's key, which only objects have, comes in two or three events from i on.
KeyEvents(key) == IF key = << >> THEN 0 ELSE IF Len(key) = 2 THEN 2 ELSE 3
KeyFed(evs, i, key) ==
    key # << >> =>
        /\ i + KeyEvents(key) <= Len(evs) + 1
        /\ Token(evs, i, i + KeyEvents(key) - 1, <<"KBeg", "KPar", "KEnd">>, Strip(key, 1, 1))

\* Events i to j are those of value s at offset off.
ValueFed(evs, i, j, s, off) ==
    /\ i <= j /\ evs[i].loc.off = off
    /\ s \notin {True, False, Null} => evs[j].loc.off = off + Len(s) - 1
    /\ IF IsString(s) THEN Token(evs, i, j, <<"SBeg", "SPar", "SEnd">>, Strip(s, 1, 1))
       ELSE IF IsNumber(s) THEN Token(evs, i, j, <<"NBeg", "NPar", "NEnd">>, s)
       ELSE IF s \in {True, False, Null}
       THEN i = j /\ <<s, evs[i].kind>> \in {<<True, "True">>, <<False, "False">>, <<Null, "Null">>}
       ELSE /\ <<s[1], evs[i].kind, evs[j].kind>> \in {<<"{", "OBeg", "OEnd">>, <<"[", "ABeg", "AEnd">>}
            /\ Level(evs, i, j) = 0 /\ \A m \in i .. j - 1 : Level(evs, i, m) > 0

\* The events from i on are not the whole of a value.
Breaks(evs, i) ==
    i <= Len(evs) =>
        \/ /\ <<evs[i].kind, evs[Len(evs)].kind>> \in {<<"SBeg", "SPar">>, <<"NBeg", "NPar">>}
           /\ Len(evs) = i + 1
        \/ evs[i].kind \in {"SBeg", "NBeg"} /\ Len(evs) = i
        \/ evs[i].kind \in Composite /\ \A m \in i .. Len(evs) : Level(evs, i, m) > 0

\* How many items come before the first that is no value; the last event of each.
Sound(items) ==
    CHOOSE n \in 0 .. Len(items) : /\ \A k \in 1 .. n : IsValue(items[k].val, MaxDep - 1)
                                   /\ n < Len(items) => ~IsValue(items[n + 1].val, MaxDep - 1)
ValueAt(doc, k) == Len(UpTo(doc)[k]) - Len(doc.items[k].val)
Lasts(evs, doc) ==
    LET last[k \in 0 .. Sound(doc.items)] ==
            IF k = 0 THEN 1
            ELSE LET v == last[k - 1] + 1 + KeyEvents(doc.items[k].key)
                 IN  CHOOSE j \in v .. Len(evs) :
                         ValueFed(evs, v, j, doc.items[k].val, ValueAt(doc, k))
    IN  last

ItemsFed(evs, doc, last, n) ==
    /\ last \in [0 .. n -> 1 .. Len(evs)] /\ last[0] = 1
    /\ \A k \in 1 .. n :
          LET v == last[k - 1] + 1 + KeyEvents(doc.items[k].key)
          IN  /\ KeyFed(evs, last[k - 1] + 1, doc.items[k].key)
              /\ ValueFed(evs, v, last[k], doc.items[k].val, ValueAt(doc, k))

\* What follows the last good item: a broken one, or the bracket, or nothing.
RestFed(e, doc, i, n, end) ==
    IF n < Len(doc.items)
    THEN /\ e.err # NoError
         /\ KeyFed(e.evs, i, doc.items[n + 1].key)
         /\ Breaks(e.evs, i + KeyEvents(doc.items[n + 1].key))
    ELSE \/ Len(e.evs) = i - 1 /\ e.err # NoError /\ doc.close # end.close
         \/ /\ Len(e.evs) = i /\ e.evs[i].kind = end.kind
            /\ e.err = NoError <=> doc.close = end.close

Root(c) == IF c.mode = "obj" THEN [open |-> <<"{">>, close |-> <<"}">>, beg |-> "OBeg", kind |-> "OEnd"]
           ELSE [open |-> <<"[">>, close |-> <<"]">>, beg |-> "ABeg", kind |-> "AEnd"]

WellFed(c) ==
    LET e == Feed(Text(c.doc))
        n == Sound(c.doc.items)
        last == Lasts(e.evs, c.doc)
    IN  /\ e.evs \in Seq(FeedEvents)
        /\ e.err.cause \notin {"missing", "none"} /\ (e.err.cause = NoCause <=> e.err = NoError)
        /\ IF e.evs = << >> THEN e.err # NoError ELSE e.evs[1].kind \in Beginnings
        /\ c.doc.open = Root(c).open <=> e.evs # << >> /\ e.evs[1].kind = Root(c).beg
        /\ c.doc.open = Root(c).open =>
              /\ \A k \in 1 .. Len(c.doc.items) :
                    IF c.mode = "obj" THEN IsString(c.doc.items[k].key) ELSE c.doc.items[k].key = << >>
              /\ ItemsFed(e.evs, c.doc, last, n)
              /\ RestFed(e, c.doc, last[n] + 1, n, Root(c))

ASSUME FldAssumption ==
    /\ {Word, I32Max, U32Max} \subseteq Nat /\ MaxDep \in Nat \ {0}
    /\ {",", ":"} \subseteq Chars /\ Calls \subseteq CallTypes /\ Huge \subseteq Seq(Chars)
    /\ \A c \in Calls : WellFed(c)

-----------------------------------------------------------------------------
(* Properties.                                                             *)

\* FldObj: a field holds the value of the last item with its key, among the
\* items before the first that the call stops at; no item, no change.
FieldsStored ==
    ret # NoRet /\ call.mode = "obj" /\ Rooted =>
        \A i \in 1 .. Len(dst) :
            LET mine == {k \in 1 .. Before(Items) : FieldOf(Items[k]) = i}
                last == CHOOSE k \in mine : \A j \in mine : j <= k
            IN  IF mine = {} THEN dst[i] = Untouched
                ELSE /\ dst[i] # Untouched
                     /\ Content(dst[i]) = Means(Items[last].val, call.def[i].typ)

\* FldObj succeeds if no item stops it, the text ends well and every required
\* field has an item; and it names the first that has none, whatever the
\* number of fields.
RequiredFound ==
    ret # NoRet /\ call.mode = "obj" =>
        LET fine == Rooted /\ Whole /\ Before(Items) = Len(Items)
            missing == {i \in 1 .. Len(dst) : /\ call.def[i].req
                                              /\ \A k \in 1 .. Len(Items) : FieldOf(Items[k]) # i}
        IN  /\ ret.cause = NoCause <=> fine /\ missing = {}
            /\ ret.cause = "missing" <=> fine /\ missing # {}
            /\ ret.cause = "missing" =>
                   ret.fld \in missing /\ \A i \in missing : ret.fld <= i

\* FldArrObj, FldArrScalar: out holds the first elements, as many as it has room
\* for and come before the first that the call stops at, and n counts them.
ElementsStored ==
    ret # NoRet /\ call.mode # "obj" /\ Rooted =>
        /\ \A i \in 1 .. Len(dst) :
             IF i <= Before(Items)
             THEN Content(dst[i]) = Means(Items[i].val, IF IsString(Items[i].val) THEN "bytes" ELSE "raw")
             ELSE dst[i] = Untouched
        /\ st.n = IF Before(Items) < Len(dst) THEN Before(Items) ELSE Len(dst)
        /\ ret.cause = NoCause <=> Whole /\ Before(Items) = Len(Items) /\ Len(Items) <= Len(dst)
        /\ Before(Items) > Len(dst) => ret.cause = "arg_cap"

\* What the arena held before, and what it got from an earlier string, stays.
ArenaKept == [][Len(arena) <= Len(arena') /\ SubSeq(arena', 1, Len(arena)) = arena]_vars
=============================================================================
