-------------------------------- MODULE TurnParse --------------------------------
(***************************************************************************)
(* turn.ParseWith (internal/turn/parse.go): parameters and messages from   *)
(* the lines of a payload file, told apart by their indentation.           *)
(*                                                                         *)
(* A line, without its line feed and a carriage return before it, is its   *)
(* leading spaces, whether a tab follows them, and the rest, a tuple:      *)
(* Blank, Header, Content, RoleRest(role), <<key, value>>, or <<"text">>,  *)
(* which has no colon.  Every rest has one form: a line that spells the    *)
(* header or the content line is that, and no parameter.                   *)
(***************************************************************************)
EXTENDS Integers, Sequences, FiniteSets

CONSTANTS
    Rests,      \* the rests of lines
    Payloads,   \* payload files: their lines
    Talks,      \* what someone writes: parameters and messages
    Indents,    \* how many spaces before a role
    LongLines,  \* the lines that are over their limit, without their indentation
    TooLong     \* the keys and values that are

NoString == ""
Roles == {"system", "developer", "user", "assistant"}

Blank == <<"blank">>
Header == <<"messages:">>
Content == <<"content: |-">>
RoleMark == "- role"
RoleRest(r) == <<RoleMark, r>>

AnyLine == [ind : Nat, tab : BOOLEAN, rest : Rests]

\* What can be written: keys and values that are there and not over their limits,
\* and at least one message; the limits leave room for the lines of the format.
IsParam(p) == /\ p \in Rests \ LongLines /\ Len(p) = 2
              /\ p[1] # NoString /\ p[1] \notin TooLong /\ p[2] \notin TooLong
IsMsg(m) == /\ m \in [role : Roles, text : Seq(AnyLine)] /\ m.text # << >>
            /\ \A k \in 1 .. Len(m.text) : m.text[k].rest \notin LongLines
IsTalk(t) == /\ t.params \in Seq(Rests)
             /\ t.msgs \in Seq([role : Roles, text : Seq(AnyLine)]) /\ t.msgs # << >>
             /\ \A k \in 1 .. Len(t.params) : IsParam(t.params[k])
             /\ \A k \in 1 .. Len(t.msgs) : IsMsg(t.msgs[k])

ASSUME ParseAssumption ==
    /\ Payloads \subseteq Seq(AnyLine) /\ Indents \subseteq Nat
    /\ \A t \in Talks : IsTalk(t)
    /\ {Blank, Header, Content} \cup {RoleRest(r) : r \in Roles} \subseteq Rests \ LongLines
    /\ {<<"messages", NoString>>, <<"content", "|-">>} \cap Rests = {}

VARIABLES
    input,      \* the lines of the file
    at,         \* the line that comes next
    st,         \* ParseWith's state, 0 .. 3
    role, text, \* the message under way: its role and its lines
    indent,     \* the indentation that its lines lose
    sawMessages,
    params, msgs,
    result      \* "reading", then the error, NoString where there is none

parseVars == <<input, at, st, role, text, indent, sawMessages, params, msgs, result>>

Line(ind, tab, rest) == [ind |-> ind, tab |-> tab, rest |-> rest]
Empty == Line(0, FALSE, Blank)
IsBlank(l) == l.rest = Blank

\* A text is its lines; no line and one empty line are the same text.
Joined(ls) == IF ls = << >> THEN <<Empty>> ELSE ls
Msg(r, ls) == [role |-> r, text |-> Joined(ls)]

ParseInit ==
    /\ input \in Payloads
    /\ at = 1 /\ st = 0 /\ role = NoString /\ text = << >> /\ indent = 0
    /\ sawMessages = FALSE /\ params = << >> /\ msgs = << >> /\ result = "reading"

\* An error returns no part of the payload.
GiveBack(why) ==
    /\ result' = why /\ params' = << >> /\ msgs' = << >>
    /\ UNCHANGED <<input, at, st, role, text, indent, sawMessages>>

\* The file is read before its first line is looked at, up to a limit.
ReadPayload ==
    /\ result = "reading" /\ at = 1 /\ st = 0
    /\ \E why \in {"read", "max_in"} : GiveBack(why)

here == input[at]
Reading == result = "reading" /\ at <= Len(input)

LongLine ==
    /\ Reading /\ here.rest \in LongLines
    /\ GiveBack("max_ln")

-----------------------------------------------------------------------------
(* State 3: the lines of a message.                                        *)

\* Mutant of Unindented: the indentation stays.
Unindented_Not(l) == l
Unindented(l) == IF l = Empty THEN Empty ELSE [l EXCEPT !.ind = @ - indent]

Belongs(l) == l = Empty \/ l.ind >= indent

TextLine ==
    /\ Reading /\ here.rest \notin LongLines /\ st = 3 /\ Belongs(here)
    /\ text' = Append(text, Unindented(here)) /\ at' = at + 1
    /\ UNCHANGED <<input, st, role, indent, sawMessages, params, msgs, result>>

\* A line of less indentation ends the message; a blank one is refused.
BadBlank ==
    /\ Reading /\ here.rest \notin LongLines /\ st = 3 /\ ~Belongs(here) /\ IsBlank(here)
    /\ GiveBack("msg_ind")

\* Mutant of AfterFlush: the line that ends a message is taken with it.
AfterFlush_Next == at + 1
AfterFlush == at

Flush ==
    /\ Reading /\ here.rest \notin LongLines /\ st = 3 /\ ~Belongs(here) /\ ~IsBlank(here)
    /\ msgs' = Append(msgs, Msg(role, text))
    /\ role' = NoString /\ text' = << >> /\ indent' = 0 /\ st' = 1 /\ at' = AfterFlush
    /\ UNCHANGED <<input, sawMessages, params, result>>

-----------------------------------------------------------------------------
(* The states 0, 1 and 2: one line each.                                   *)

Outside == Reading /\ here.rest \notin LongLines /\ st # 3

TabIndent == Outside /\ here.tab /\ GiveBack("tab_indent")

BlankLine ==
    /\ Outside /\ ~here.tab /\ IsBlank(here)
    /\ at' = at + 1
    /\ UNCHANGED <<input, st, role, text, indent, sawMessages, params, msgs, result>>

OutsideText == Outside /\ ~here.tab /\ ~IsBlank(here)

Messages ==
    /\ OutsideText /\ st = 0 /\ here.rest = Header
    /\ sawMessages' = TRUE /\ st' = 1 /\ at' = at + 1
    /\ UNCHANGED <<input, role, text, indent, params, msgs, result>>

\* The line cut at its first colon; a role or a content line is a parameter, too,
\* before the messages begin.
Cut(rest) == IF rest = Content THEN <<"content", "|-">> ELSE rest
ParamFault(rest) ==
    IF Len(Cut(rest)) < 2 THEN "param_colon"
    ELSE IF Cut(rest)[1] = NoString THEN "param_key"
    ELSE IF Cut(rest)[1] \in TooLong THEN "max_key"
    ELSE IF Cut(rest)[2] \in TooLong THEN "max_val" ELSE NoString

ParamLine ==
    /\ OutsideText /\ st = 0 /\ here.rest # Header
    /\ IF ParamFault(here.rest) # NoString THEN GiveBack(ParamFault(here.rest))
       ELSE /\ params' = Append(params, Cut(here.rest)) /\ at' = at + 1
            /\ UNCHANGED <<input, st, role, text, indent, sawMessages, msgs, result>>

IsRole(rest) == rest[1] = RoleMark /\ rest[2] \in Roles

RoleLine ==
    /\ OutsideText /\ st = 1
    /\ IF ~IsRole(here.rest) THEN GiveBack("msg_role")
       ELSE /\ role' = here.rest[2] /\ st' = 2 /\ at' = at + 1
            /\ UNCHANGED <<input, text, indent, sawMessages, params, msgs, result>>

ContentLine ==
    /\ OutsideText /\ st = 2
    /\ IF here.rest # Content THEN GiveBack("msg_cont")
       ELSE /\ indent' = here.ind + 2 /\ text' = << >> /\ st' = 3 /\ at' = at + 1
            /\ UNCHANGED <<input, role, sawMessages, params, msgs, result>>

-----------------------------------------------------------------------------
\* The end of the file, where the last message ends, too.
EndOfFile ==
    /\ result = "reading" /\ at > Len(input)
    /\ IF ~sawMessages THEN GiveBack("msg_head")
       ELSE IF st = 2 THEN GiveBack("msg_eof")
       ELSE IF st = 1 /\ msgs = << >> THEN GiveBack("msg_empty")
       ELSE /\ msgs' = IF st = 3 THEN Append(msgs, Msg(role, text)) ELSE msgs
            /\ text' = << >> /\ st' = 1 /\ result' = NoString
            /\ UNCHANGED <<input, at, role, indent, sawMessages, params>>

ParseNext ==
    \/ ReadPayload \/ LongLine \/ TextLine \/ BadBlank \/ Flush \/ TabIndent \/ BlankLine
    \/ Messages \/ ParamLine \/ RoleLine \/ ContentLine \/ EndOfFile

ParseSpec == ParseInit /\ [][ParseNext]_parseVars

-----------------------------------------------------------------------------
(* Properties.                                                             *)

\* How a talk is written: its messages i spaces in, their texts four deeper.
\* An empty line of a text has no indentation.
WrittenLine(i, l) == IF l = Empty THEN Empty ELSE [l EXCEPT !.ind = @ + i + 4]
WrittenMsg(i, m) ==
    <<Line(i, FALSE, RoleRest(m.role)), Line(i + 2, FALSE, Content)>> \o
    [k \in 1 .. Len(m.text) |-> WrittenLine(i, m.text[k])]
WrittenTo(i, ms) ==
    LET upTo[k \in 0 .. Len(ms)] == IF k = 0 THEN << >> ELSE upTo[k - 1] \o WrittenMsg(i, ms[k])
    IN  upTo
Heading(t) == Append([k \in 1 .. Len(t.params) |-> Line(0, FALSE, t.params[k])], Line(0, FALSE, Header))
Written(i, t) == Heading(t) \o WrittenTo(i, t.msgs)[Len(t.msgs)]

\* A talk that is written is read as it was: its texts may look like roles, have
\* spaces and tabs before them, and empty lines between them and at their end.
WrittenIsRead ==
    result \notin {"reading", "read", "max_in"} =>
        \A t \in Talks, i \in Indents :
            input = Written(i, t) => result = NoString /\ params = t.params /\ msgs = t.msgs

Filled(ls) == Cardinality({i \in 1 .. Len(ls) : ~IsBlank(ls[i])})

\* How many lines that are not blank the first messages stand for.
FilledTo(ms) ==
    LET upTo[k \in 0 .. Len(ms)] == IF k = 0 THEN 0 ELSE upTo[k - 1] + 2 + Filled(ms[k].text)
    IN  upTo

\* No line with something on it is dropped or taken twice: each one read by now is
\* a parameter, the head of the messages, a role, a content line or in a text.
NoLineDropped ==
    result \in {"reading", NoString} =>
        Filled(SubSeq(input, 1, at - 1)) =
            Len(params) + (IF sawMessages THEN 1 ELSE 0)
            + FilledTo(msgs)[Len(msgs)]
            + (IF result = "reading" /\ st = 2 THEN 1 ELSE 0)
            + (IF result = "reading" /\ st = 3 THEN 2 + Filled(text) ELSE 0)
=============================================================================
