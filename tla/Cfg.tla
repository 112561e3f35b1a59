----------------------------------- MODULE Cfg -----------------------------------
(***************************************************************************)
(* cfg.Apply (internal/cfg/cfg.go): the lines of a configuration file, in  *)
(* their order, set what a list of bindings points to.                     *)
(*                                                                         *)
(* A line is a record: its kind, and what its checks look at.  A name or a *)
(* value in Long is one over its limit.                                    *)
(***************************************************************************)
EXTENDS Integers, Sequences, FiniteSetsExt

CONSTANTS
    Files,      \* files: their lines
    BindLists,  \* lists of bindings
    Long,       \* the sections, keys and values that are too long
    Numbers     \* for "int", "uint" and "num": the texts that strconv accepts

\* What a line is: its kind, and what the checks of its kind look at.
IsLine(l) ==
    /\ l.kind \in {"skip", "sec", "ent"} /\ l.long \in BOOLEAN
    /\ l.kind = "sec" => l.closed \in BOOLEAN
    /\ l.kind = "ent" => l.eq \in BOOLEAN

\* A list of bindings has any number of them, and they may be anything.
ASSUME CfgAssumption ==
    /\ \A f \in Files : Len(f) \in Nat /\ \A i \in 1 .. Len(f) : IsLine(f[i])
    /\ \A bs \in BindLists : Len(bs) \in Nat /\ DOMAIN bs = 1 .. Len(bs)
    /\ DOMAIN Numbers = {"int", "uint", "num"}

VARIABLES
    file,       \* the lines of the file
    binds,      \* the bindings
    row,        \* the line that comes next
    sec,        \* the section of the lines to come
    dst,        \* for each binding, what it points to
    hit,        \* for each binding, whether an entry was for it
    phase,      \* "open", "read", "lines", "done"
    err         \* what Apply returns, NoText where it returns nil

cfgVars == <<file, binds, row, sec, dst, hit, phase, err>>

\* No section, no key, no error.
NoText == ""

Skipped == [kind |-> "skip", long |-> FALSE]
SectionLine(name, closed, trail) ==
    [kind |-> "sec", long |-> FALSE, name |-> name, closed |-> closed, trail |-> trail]
EntryLine(key, val) == [kind |-> "ent", long |-> FALSE, eq |-> TRUE, key |-> key, val |-> val]
NoEq == [kind |-> "ent", long |-> FALSE, eq |-> FALSE, key |-> NoText, val |-> NoText]

\* to is the type that the destination has, or "nil"; enum is the list of members
\* of an enum, each with its text and its value.
Bind(section, key, typ, to, req, enum) ==
    [section |-> section, key |-> key, typ |-> typ, to |-> to, req |-> req, enum |-> enum]

-----------------------------------------------------------------------------
(* A line, an entry and a binding.                                         *)

\* What is wrong with a line: the checks, in their order.
LineFault(l) ==
    CASE l.long -> "max_ln"
      [] ~l.long /\ l.kind = "skip" -> NoText
      [] ~l.long /\ l.kind = "sec" ->
            (IF ~l.closed THEN "sec_end"
             ELSE IF l.trail = "text" THEN "sec_trail"
             ELSE IF l.name = NoText THEN "sec_empty"
             ELSE IF l.name \in Long THEN "max_sec" ELSE NoText)
      [] ~l.long /\ l.kind = "ent" ->
            (IF ~l.eq THEN "ent_eq"
             ELSE IF l.key = NoText THEN "key_empty"
             ELSE IF l.key \in Long THEN "max_key"
             ELSE IF l.val \in Long THEN "max_val" ELSE NoText)

\* The bindings that are for an entry; the first of them takes it.
For(s, key) == {b \in 1 .. Len(binds) : binds[b].section = s /\ binds[b].key = key}
Taker_Last(s, key) == Max(For(s, key))     \* mutant of Taker
Taker(s, key) == Min(For(s, key))

TrueTexts == {"1", "true", "on", "yes"}
FalseTexts == {"0", "false", "off", "no"}

Types == {"str", "bool", "enum"} \cup DOMAIN Numbers

\* The members of an enum that have a text; the first of them gives the value.
Members(b, val) == {k \in 1 .. Len(b.enum) : b.enum[k].text = val}

\* A binding has a type that is known, and a text its type takes: any is a string.
Takes(b, val) ==
    \/ b.typ = "str"
    \/ b.typ = "bool" /\ val \in TrueTexts \cup FalseTexts
    \/ b.typ \in DOMAIN Numbers /\ val \in Numbers[b.typ]
    \/ b.typ = "enum" /\ Members(b, val) # {}

\* What is stored for a text: a truth, the value of a member, or the text's value,
\* which it stands for itself.
Stored(b, val) ==
    CASE b.typ = "bool" -> (IF val \in TrueTexts THEN "true" ELSE "false")
      [] b.typ = "enum" -> b.enum[Min(Members(b, val))].val
      [] OTHER -> val

SetFault(b, val) ==
    CASE b.to = "nil" -> "nil_dst"
      [] b.to # "nil" /\ b.typ \notin Types -> "type_slot"
      [] b.to # "nil" /\ b.typ \in Types /\ b.to # b.typ -> "dst"
      [] b.to # "nil" /\ b.typ \in Types /\ b.to = b.typ /\ ~Takes(b, val) -> "type"
      [] OTHER -> NoText

-----------------------------------------------------------------------------
(* Apply.                                                                  *)

CfgInit ==
    /\ file \in Files /\ binds \in BindLists
    /\ row = 1 /\ sec = NoText
    /\ dst = [b \in 1 .. Len(binds) |-> "initial"]
    /\ hit = [b \in 1 .. Len(binds) |-> FALSE]
    /\ phase = "open" /\ err = NoText

Return(why) == phase' = "done" /\ err' = why

\* Without a file nothing is read, and the bindings are checked nevertheless.
Missing ==
    /\ phase = "open" /\ row = 1
    /\ phase' = "missing"
    /\ UNCHANGED <<file, binds, row, sec, dst, hit, err>>

OpenFile ==
    /\ phase = "open"
    /\ \/ Return("open")
       \/ phase' = "read" /\ UNCHANGED err
    /\ UNCHANGED <<file, binds, row, sec, dst, hit>>

\* The whole file is read before its first line is looked at.
ReadFile ==
    /\ phase = "read"
    /\ \/ \E why \in {"read", "max_in"} : Return(why)
       \/ phase' = "lines" /\ UNCHANGED err
    /\ UNCHANGED <<file, binds, row, sec, dst, hit>>

line == file[row]
AtLine == phase = "lines" /\ row <= Len(file)

BadLine ==
    /\ AtLine /\ LineFault(line) # NoText /\ Return(LineFault(line))
    /\ UNCHANGED <<file, binds, row, sec, dst, hit>>

SkipLine ==
    /\ AtLine /\ LineFault(line) = NoText /\ line.kind = "skip"
    /\ row' = row + 1
    /\ UNCHANGED <<file, binds, sec, dst, hit, phase, err>>

Section ==
    /\ AtLine /\ LineFault(line) = NoText /\ line.kind = "sec"
    /\ sec' = line.name /\ row' = row + 1
    /\ UNCHANGED <<file, binds, dst, hit, phase, err>>

IsEntry == AtLine /\ LineFault(line) = NoText /\ line.kind = "ent"

UnknownKey ==
    /\ IsEntry /\ For(sec, line.key) = {} /\ Return("unk_key")
    /\ UNCHANGED <<file, binds, row, sec, dst, hit>>

Hits_All(b) == [c \in DOMAIN hit |-> hit[c] \/ binds[c].key = binds[b].key]     \* mutant of Hits
Hits(b) == [hit EXCEPT ![b] = TRUE]

\* An entry is taken by its binding, which may refuse it.
Entry ==
    /\ IsEntry /\ For(sec, line.key) # {}
    /\ LET b == Taker(sec, line.key)
           why == SetFault(binds[b], line.val)
       IN  /\ hit' = Hits(b)
           /\ IF why # NoText
              THEN Return(why) /\ UNCHANGED <<row, dst>>
              ELSE /\ dst' = [dst EXCEPT ![b] = Stored(binds[b], line.val)]
                   /\ row' = row + 1
                   /\ UNCHANGED <<phase, err>>
    /\ UNCHANGED <<file, binds, sec>>

Required ==
    /\ phase = "missing" \/ (phase = "lines" /\ row > Len(file))
    /\ Return(IF \E b \in DOMAIN hit : binds[b].req /\ ~hit[b] THEN "req_key" ELSE NoText)
    /\ UNCHANGED <<file, binds, row, sec, dst, hit>>

CfgNext ==
    \/ Missing \/ OpenFile \/ ReadFile \/ BadLine \/ SkipLine \/ Section
    \/ UnknownKey \/ Entry \/ Required

CfgSpec == CfgInit /\ [][CfgNext]_cfgVars

-----------------------------------------------------------------------------
(* Properties, over a reading of the file that knows no order of checks.   *)

\* The section that line i is in, and the first binding of its entry.
SectionsTo(i) == {j \in 1 .. i - 1 : file[j].kind = "sec"}
SectionAt(i) == IF SectionsTo(i) = {} THEN NoText ELSE file[Max(SectionsTo(i))].name
BindsAt(i) ==
    {b \in DOMAIN binds : <<binds[b].section, binds[b].key>> = <<SectionAt(i), file[i].key>>}
BindAt(i) == IF file[i].kind # "ent" \/ BindsAt(i) = {} THEN 0 ELSE Min(BindsAt(i))

\* The entries read by now that are for binding b.
EntriesFor(b) == {i \in 1 .. row - 1 : BindAt(i) = b}

\* Every entry that was read is in effect, the later of two for one binding, and
\* nothing else is: also where Apply returns an error, which takes none back.
EntriesInEffect ==
    \A b \in DOMAIN binds :
        dst[b] = IF EntriesFor(b) = {} THEN "initial"
                 ELSE Stored(binds[b], file[Max(EntriesFor(b))].val)

Good(i) ==
    LET l == file[i]
    IN  /\ ~l.long
        /\ l.kind = "sec" => l.closed /\ l.trail # "text" /\ l.name \notin Long \cup {NoText}
        /\ l.kind = "ent" =>
            /\ l.eq /\ l.key \notin Long \cup {NoText} /\ l.val \notin Long
            /\ BindAt(i) # 0
            /\ LET b == binds[BindAt(i)]
               IN  b.to = b.typ /\ b.to # "nil" /\ Takes(b, l.val)

\* Apply returns nil only for a file whose lines are all good and whose entries
\* reach every required binding (one behind another for the same key never is);
\* it stops at the first line that is not good, and at no good one.
OnlyGoodFiles ==
    /\ \A i \in 1 .. row - 1 : Good(i)
    /\ phase = "done" /\ err = NoText =>
        /\ row = 1 \/ row > Len(file)
        /\ \A b \in DOMAIN binds : binds[b].req => EntriesFor(b) # {}
    /\ phase = "done" /\ row <= Len(file) /\ err \notin {NoText, "open", "read", "max_in", "req_key"} =>
        ~Good(row)
=============================================================================
