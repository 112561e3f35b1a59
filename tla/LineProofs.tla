------------------------------- MODULE LineProofs ------------------------------
(***************************************************************************)
(* Theorems about the two readers of lines, for any files: Cfg, with any   *)
(* list of bindings, and TurnParse, with any talks that can be written.    *)
(***************************************************************************)
EXTENDS Cfg, TurnParse, FiniteSetTheorems, SequenceTheorems, WellFoundedInduction, TLAPS

\* A set of numbers that is not empty has a least element.
LEMMA LeastNumber ==
    ASSUME NEW S \in SUBSET Nat, S # {}
    PROVE  \E m \in S : \A n \in S : m <= n
<1>1. OpToRel(<, Nat) = {p \in Nat \X Nat : p[1] < p[2]}
  BY Zenon DEF OpToRel
<1>2. PICK m \in S : \A n \in S : ~(<<n, m>> \in OpToRel(<, Nat))
  BY WFMin, NatLessThanWellFounded, Zenon
<1>3. \A n \in S : ~(n < m)
  BY <1>1, <1>2
<1> QED  BY <1>3

-----------------------------------------------------------------------------
(* Cfg.                                                                    *)

\* Where Apply is: the lines come after the file has been read, and the section
\* under way is that of the line that comes next.
PlaceInv ==
    /\ file \in Files /\ binds \in BindLists
    /\ row \in Nat \ {0} /\ row <= Len(file) + 1
    /\ phase \in {"open", "missing", "read", "lines", "done"}
    /\ phase \in {"open", "missing", "read"} => row = 1
    /\ sec = SectionAt(row)
    /\ DOMAIN dst = DOMAIN binds /\ DOMAIN hit = DOMAIN binds

LinesGood == \A i \in 1 .. row - 1 : Good(i)

\* A binding that was hit has taken an entry, or has just refused one.
HitInv ==
    \A b \in DOMAIN binds : hit[b] =>
        (phase = "done" /\ err # NoText) \/ \E i \in 1 .. row - 1 : BindAt(i) = b

\* How Apply has ended.
EndInv ==
    phase = "done" =>
        /\ err = NoText => /\ row = 1 \/ row > Len(file)
                       /\ \A b \in DOMAIN binds : binds[b].req => hit[b]
        /\ row <= Len(file) /\ err \notin {NoText, "open", "read", "max_in", "req_key"} =>
               ~Good(row)

\* The inductive invariant.
CfgInv == PlaceInv /\ LinesGood /\ HitInv /\ EndInv /\ EntriesInEffect

-----------------------------------------------------------------------------
(* What the steps rest on.                                                 *)

\* The bindings for the entry of the line that comes next are those its reading
\* names, and so is the one that takes it.
LEMMA TakerIs ==
    ASSUME PlaceInv, row <= Len(file), line.kind = "ent"
    PROVE  /\ For(sec, line.key) = {} => BindAt(row) = 0
           /\ For(sec, line.key) # {} => BindAt(row) = Taker(sec, line.key)
<1>1. DOMAIN binds = 1 .. Len(binds)
  BY CfgAssumption DEF PlaceInv
<1>2. For(sec, line.key) = BindsAt(row)
  BY <1>1 DEF For, BindsAt, PlaceInv, line
<1> QED  BY <1>2 DEF BindAt, Taker, line

\* The least and the greatest element of a set of numbers.
LEMMA MinIs ==
    ASSUME NEW S \in SUBSET Nat, S # {}
    PROVE  Min(S) \in S
BY LeastNumber DEF Min

LEMMA MaxIs ==
    ASSUME NEW S \in SUBSET Nat, NEW m \in S, \A n \in S : n <= m
    PROVE  Max(S) = m
<1>1. m \in Nat /\ \A n \in S : n \in Nat /\ m >= n
  OBVIOUS
<1>2. Max(S) \in S /\ \A n \in S : Max(S) >= n
  BY <1>1 DEF Max
<1>3. Max(S) \in Nat /\ Max(S) >= m /\ Max(S) <= m
  BY <1>1, <1>2
<1> QED  BY <1>1, <1>3

\* The binding that takes an entry is one of those that are for it.
LEMMA TakerType ==
    ASSUME PlaceInv, NEW s, NEW key, For(s, key) # {}
    PROVE  /\ Taker(s, key) \in DOMAIN binds /\ Taker(s, key) # 0
           /\ binds[Taker(s, key)].section = s /\ binds[Taker(s, key)].key = key
<1>1. DOMAIN binds = 1 .. Len(binds) /\ Len(binds) \in Nat
  BY CfgAssumption DEF PlaceInv
<1>2. For(s, key) \in SUBSET Nat
  BY <1>1 DEF For
<1>4. Taker(s, key) \in For(s, key)
  BY <1>2, MinIs DEF Taker
<1> QED  BY <1>1, <1>4 DEF For

\* What the reading of the file says does not change while it is read.
LEMMA ReadingStays ==
    ASSUME UNCHANGED <<file, binds>>
    PROVE  /\ \A i \in Nat : SectionAt(i)' = SectionAt(i)
           /\ \A i \in Nat : BindAt(i)' = BindAt(i)
           /\ \A i \in Nat : Good(i)' = Good(i)
<1>1. \A i \in Nat : SectionAt(i)' = SectionAt(i)
  <2>1. \A i \in Nat : SectionsTo(i)' = SectionsTo(i)
    BY DEF SectionsTo
  <2> QED  BY <2>1 DEF SectionAt
<1>2. \A i \in Nat : BindAt(i)' = BindAt(i)
  <2>1. \A i \in Nat : BindsAt(i)' = BindsAt(i)
    BY <1>1 DEF BindsAt
  <2> QED  BY <2>1 DEF BindAt
<1> QED  BY <1>1, <1>2 DEF Good

\* The section behind a line.
LEMMA NextSection ==
    ASSUME PlaceInv, row <= Len(file)
    PROVE  SectionAt(row + 1) = IF line.kind = "sec" THEN line.name ELSE SectionAt(row)
<1>1. row \in Nat /\ row # 0
  BY DEF PlaceInv
<1>2. CASE line.kind = "sec"
  <2>1. row \in SectionsTo(row + 1) /\ \A k \in SectionsTo(row + 1) : k \in Nat /\ k <= row
    BY <1>1, <1>2 DEF SectionsTo, line
  <2>2. Max(SectionsTo(row + 1)) = row
    BY <2>1, MaxIs
  <2> QED  BY <1>2, <2>1, <2>2 DEF SectionAt, line
<1>3. CASE line.kind # "sec"
  <2>1. SectionsTo(row + 1) = SectionsTo(row)
    BY <1>1, <1>3 DEF SectionsTo, line
  <2> QED  BY <1>3, <2>1 DEF SectionAt
<1> QED  BY <1>2, <1>3

\* The faults of a line and of an entry, told from none.
LEMMA FaultsAreText ==
    NoText \notin {"max_ln", "sec_end", "sec_trail", "sec_empty", "max_sec", "ent_eq", "key_empty",
                   "max_key", "max_val", "nil_dst", "type_slot", "dst", "type",
                   "open", "read", "max_in", "req_key", "unk_key"}
BY Zenon DEF NoText

\* The checks of a line, and those of its binding, find it good or not.
LEMMA FaultIsBad ==
    ASSUME PlaceInv, row <= Len(file), LineFault(line) # NoText
    PROVE  ~Good(row)
<1>1. IsLine(line)
  <2>1. file \in Files /\ row \in Nat /\ 1 <= row
    BY DEF PlaceInv
  <2>2. Len(file) \in Nat
    BY <2>1, CfgAssumption
  <2>3. row \in 1 .. Len(file)
    BY <2>1, <2>2
  <2> QED  BY <2>1, <2>3, CfgAssumption DEF line
<1> QED  BY <1>1 DEF IsLine, LineFault, Good, line

LEMMA SetFaultIs ==
    ASSUME NEW b, NEW val
    PROVE  SetFault(b, val) = NoText <=>
              b.to = b.typ /\ b.to # "nil" /\ Takes(b, val)
<1>1. Takes(b, val) => b.typ \in Types
  BY DEF Takes, Types
<1> QED  BY <1>1, FaultsAreText DEF SetFault

\* A line without a fault is good, if its entry has a binding that takes it.
LEMMA GoodIs ==
    ASSUME PlaceInv, row <= Len(file), LineFault(line) = NoText
    PROVE  Good(row) <=>
              (line.kind = "ent" => /\ For(sec, line.key) # {}
                                    /\ SetFault(binds[Taker(sec, line.key)], line.val) = NoText)
<1>1. IsLine(line)
  <2>1. file \in Files /\ row \in Nat /\ 1 <= row
    BY DEF PlaceInv
  <2>2. Len(file) \in Nat
    BY <2>1, CfgAssumption
  <2>3. row \in 1 .. Len(file)
    BY <2>1, <2>2
  <2> QED  BY <2>1, <2>3, CfgAssumption DEF line
<1>2. ~line.long /\ (line.kind = "sec" => line.closed /\ line.trail # "text" /\ line.name \notin Long \cup {NoText})
  BY <1>1, FaultsAreText DEF IsLine, LineFault
<1>3. line.kind = "ent" => line.eq /\ line.key \notin Long \cup {NoText} /\ line.val \notin Long
  BY <1>1, FaultsAreText DEF IsLine, LineFault
<1>4. CASE line.kind # "ent"
  BY <1>2, <1>4 DEF Good, line
<1>5. CASE line.kind = "ent" /\ For(sec, line.key) = {}
  BY <1>2, <1>3, <1>5, TakerIs DEF Good, line
<1>6. CASE line.kind = "ent" /\ For(sec, line.key) # {}
  <2>1. BindAt(row) = Taker(sec, line.key) /\ BindAt(row) # 0
    <3>1. BindAt(row) = Taker(sec, line.key)
      BY <1>6, TakerIs
    <3>2. Taker(sec, line.key) # 0
      BY <1>6, TakerType
    <3> QED  BY <3>1, <3>2
  <2> QED  BY <1>2, <1>3, <1>6, <2>1, SetFaultIs DEF Good, line
<1> QED  BY <1>4, <1>5, <1>6

-----------------------------------------------------------------------------
(* The steps.                                                              *)

LEMMA CfgInitInv == CfgInit => CfgInv
<1> SUFFICES ASSUME CfgInit PROVE CfgInv
  OBVIOUS
<1>1. /\ file \in Files /\ binds \in BindLists /\ row = 1 /\ phase = "open" /\ sec = NoText
      /\ Len(file) \in Nat /\ DOMAIN binds = 1 .. Len(binds)
      /\ DOMAIN dst = DOMAIN binds /\ DOMAIN hit = DOMAIN binds
      /\ \A b \in DOMAIN binds : dst[b] = "initial" /\ ~hit[b]
  BY CfgAssumption DEF CfgInit
<1>2. 1 .. row - 1 = {}
  BY <1>1
<1>3. SectionsTo(row) = {} /\ \A b \in DOMAIN binds : EntriesFor(b) = {}
  BY <1>2 DEF SectionsTo, EntriesFor
<1>4. PlaceInv
  BY <1>1, <1>3 DEF PlaceInv, SectionAt
<1> QED  BY <1>1, <1>2, <1>3, <1>4 DEF CfgInv, LinesGood, HitInv, EndInv, EntriesInEffect

\* A step that leaves everything but the phase and the error alone.
LEMMA SameLine ==
    ASSUME CfgInv, UNCHANGED <<file, binds, row, sec, dst, hit>>,
           phase' \in {"missing", "read", "lines", "done"},
           phase # "done", phase' \in {"missing", "read"} => row = 1,
           EndInv'
    PROVE  CfgInv'
<1>1. row \in Nat
  BY DEF CfgInv, PlaceInv
<1>2. /\ SectionAt(row)' = SectionAt(row)
      /\ \A i \in 1 .. row - 1 : Good(i)' = Good(i) /\ BindAt(i)' = BindAt(i)
  BY <1>1, ReadingStays
<1>3. \A b \in DOMAIN binds : EntriesFor(b)' = EntriesFor(b)
  BY <1>2 DEF EntriesFor
<1>4. PlaceInv'
  BY <1>2 DEF CfgInv, PlaceInv
<1>5. LinesGood'
  BY <1>2 DEF CfgInv, LinesGood
<1>6. HitInv'
  BY <1>2 DEF CfgInv, HitInv
<1>7. EntriesInEffect'
  BY <1>3 DEF CfgInv, EntriesInEffect
<1> QED  BY <1>4, <1>5, <1>6, <1>7 DEF CfgInv

\* A good line is behind: what its entry, if it is one, sets is what it means.
LEMMA NextLine ==
    ASSUME CfgInv, AtLine, Good(row), row' = row + 1, UNCHANGED <<file, binds, phase, err>>,
           sec' = SectionAt(row + 1), DOMAIN dst' = DOMAIN dst, DOMAIN hit' = DOMAIN hit,
           \A b \in DOMAIN binds :
              IF BindAt(row) = b THEN dst'[b] = Stored(binds[b], file[row].val)
                                 ELSE dst'[b] = dst[b] /\ hit'[b] = hit[b]
    PROVE  CfgInv'
<1>1. PlaceInv /\ row \in Nat /\ 0 \notin 1 .. row /\ Len(file) \in Nat
  BY CfgAssumption DEF CfgInv, PlaceInv
<1>n. PICK n \in Nat : n = row + 1
  BY <1>1
<1>2. /\ SectionAt(n)' = SectionAt(n)
      /\ \A i \in 1 .. n - 1 : Good(i)' = Good(i) /\ BindAt(i)' = BindAt(i)
  BY <1>n, ReadingStays
<1>3. /\ 1 .. row' - 1 = 1 .. row /\ 1 .. row = 1 .. row - 1 \cup {row}
      /\ 1 .. n - 1 = 1 .. row
  BY <1>1, <1>n DEF PlaceInv
<1>4. PlaceInv'
  <2>1. row' \in Nat \ {0} /\ row' <= Len(file) + 1
    BY <1>1 DEF AtLine
  <2>2. sec' = SectionAt(row)'
    BY <1>n, <1>2
  <2> QED  BY <1>1, <2>1, <2>2 DEF PlaceInv, AtLine
<1>5. LinesGood'
  BY <1>2, <1>3 DEF CfgInv, LinesGood
<1>6. ASSUME NEW b \in DOMAIN binds
      PROVE  EntriesFor(b)' = EntriesFor(b) \cup (IF BindAt(row) = b THEN {row} ELSE {})
  BY <1>2, <1>3 DEF EntriesFor
<1>7. HitInv'
  <2> SUFFICES ASSUME NEW b \in DOMAIN binds, hit'[b]
               PROVE  \E i \in 1 .. row' - 1 : BindAt(i)' = b
    BY DEF HitInv
  <2>1. CASE BindAt(row) = b
    BY <1>2, <1>3, <2>1
  <2>2. CASE BindAt(row) # b
    <3>1. hit[b] /\ phase # "done"
      BY <2>2 DEF AtLine
    <3> QED  BY <1>2, <1>3, <3>1 DEF CfgInv, HitInv
  <2> QED  BY <2>1, <2>2
<1>8. EntriesInEffect'
  <2> SUFFICES ASSUME NEW b \in DOMAIN binds
               PROVE  dst'[b] = IF EntriesFor(b)' = {} THEN "initial"
                                ELSE Stored(binds[b], file[Max(EntriesFor(b)')].val)
    BY DEF EntriesInEffect
  <2>1. CASE BindAt(row) = b
    <3>1. EntriesFor(b)' \in SUBSET Nat /\ row \in EntriesFor(b)'
          /\ \A k \in EntriesFor(b)' : k <= row
      BY <1>1, <1>6, <2>1 DEF EntriesFor
    <3>2. Max(EntriesFor(b)') = row
      BY <3>1, MaxIs
    <3> QED  BY <2>1, <3>1, <3>2
  <2>2. CASE BindAt(row) # b
    <3>1. EntriesFor(b)' = EntriesFor(b) /\ dst'[b] = dst[b]
      BY <1>6, <2>2
    <3> QED  BY <3>1 DEF CfgInv, EntriesInEffect
  <2> QED  BY <2>1, <2>2
<1>9. EndInv'
  BY DEF AtLine, EndInv
<1> QED  BY <1>4, <1>5, <1>7, <1>8, <1>9 DEF CfgInv

\* Apply at a line: the line refused, or its entry; the line taken.
LEMMA LineStep ==
    ASSUME CfgInv, BadLine \/ SkipLine \/ Section \/ UnknownKey \/ Entry
    PROVE  CfgInv'
<1>0. /\ PlaceInv /\ AtLine /\ row \in Nat /\ row <= Len(file) /\ sec = SectionAt(row)
      /\ UNCHANGED <<file, binds>> /\ phase # "done"
  BY DEF CfgInv, PlaceInv, BadLine, SkipLine, Section, UnknownKey, Entry, IsEntry, AtLine
<1>1. ASSUME NEW why, why # NoText, ~Good(row), Return(why),
             UNCHANGED <<file, binds, row, sec, dst, hit>>
      PROVE  CfgInv'
  <2>1. ~Good(row)'
    BY <1>0, <1>1, ReadingStays
  <2>2. EndInv'
    BY <1>1, <2>1 DEF EndInv, Return
  <2> QED  BY <1>0, <1>1, <2>2, SameLine DEF Return
<1>2. CASE BadLine
  BY <1>0, <1>1, <1>2, FaultIsBad DEF BadLine
<1>3. CASE UnknownKey
  <2>1. ~Good(row)
    BY <1>0, <1>3, GoodIs DEF UnknownKey, IsEntry
  <2> QED  BY <1>1, <1>3, <2>1, FaultsAreText DEF UnknownKey
<1>4. ASSUME line.kind # "ent", LineFault(line) = NoText, row' = row + 1,
             sec' = SectionAt(row + 1), UNCHANGED <<dst, hit, phase, err>>
      PROVE  CfgInv'
  <2>1. Good(row) /\ BindAt(row) = 0
    BY <1>0, <1>4, GoodIs DEF BindAt, line
  <2>2. 0 \notin DOMAIN binds
    BY <1>0, CfgAssumption DEF PlaceInv
  <2> QED  BY <1>0, <1>4, <2>1, <2>2, NextLine
<1>5. CASE SkipLine
  <2>1. sec' = SectionAt(row + 1)
    BY <1>0, <1>5, NextSection DEF SkipLine
  <2> QED  BY <1>4, <1>5, <2>1 DEF SkipLine
<1>6. CASE Section
  <2>1. sec' = SectionAt(row + 1)
    BY <1>0, <1>6, NextSection DEF Section
  <2> QED  BY <1>4, <1>6, <2>1 DEF Section
<1>7. CASE Entry
  <2>1. PICK b : b = Taker(sec, line.key)
    OBVIOUS
  <2>2. /\ LineFault(line) = NoText /\ line.kind = "ent" /\ For(sec, line.key) # {} /\ sec' = sec
        /\ hit' = [hit EXCEPT ![b] = TRUE]
        /\ IF SetFault(binds[b], line.val) # NoText
           THEN Return(SetFault(binds[b], line.val)) /\ UNCHANGED <<row, dst>>
           ELSE /\ dst' = [dst EXCEPT ![b] = Stored(binds[b], line.val)]
                /\ row' = row + 1 /\ UNCHANGED <<phase, err>>
    BY <1>7, <2>1 DEF Entry, IsEntry, Hits
  <2>3. BindAt(row) = b /\ b \in DOMAIN binds
    BY <1>0, <2>1, <2>2, TakerIs, TakerType
  <2>4. Good(row) <=> SetFault(binds[b], line.val) = NoText
    BY <1>0, <2>1, <2>2, GoodIs
  <2>5. DOMAIN dst = DOMAIN binds /\ DOMAIN hit = DOMAIN binds
    BY <1>0 DEF PlaceInv
  <2>6. CASE Good(row)
    <3>1. sec' = SectionAt(row + 1)
      BY <1>0, <2>2, NextSection
    <3>2. /\ dst' = [dst EXCEPT ![b] = Stored(binds[b], line.val)]
          /\ row' = row + 1 /\ UNCHANGED <<phase, err>>
      BY <2>2, <2>4, <2>6
    <3>3. DOMAIN dst' = DOMAIN dst /\ DOMAIN hit' = DOMAIN hit
      BY <2>2, <3>2
    <3>4. \A c \in DOMAIN binds :
              IF BindAt(row) = c THEN dst'[c] = Stored(binds[c], file[row].val)
                                 ELSE dst'[c] = dst[c] /\ hit'[c] = hit[c]
      BY <2>2, <2>3, <2>5, <3>2 DEF line
    <3> QED  BY <1>0, <2>6, <3>1, <3>2, <3>3, <3>4, NextLine
  <2>7. CASE ~Good(row)
    <3>1. phase' = "done" /\ err' # NoText /\ UNCHANGED <<row, dst, sec>>
      BY <2>2, <2>4, <2>7 DEF Return
    <3>0. /\ \A i \in Nat : SectionAt(i)' = SectionAt(i)
          /\ \A i \in Nat : BindAt(i)' = BindAt(i)
          /\ \A i \in Nat : Good(i)' = Good(i)
      BY <1>0, ReadingStays
    <3>2. /\ SectionAt(row)' = SectionAt(row) /\ Good(row)' = Good(row)
          /\ \A i \in 1 .. row - 1 : Good(i)' = Good(i) /\ BindAt(i)' = BindAt(i)
      <4>1. PICK r \in Nat : r = row
        BY <1>0
      <4>2. row' = r
        BY <3>1, <4>1
      <4>3. SectionAt(r)' = SectionAt(r) /\ Good(r)' = Good(r)
        BY <3>0, <4>1
      <4>4. \A i \in 1 .. r - 1 : Good(i)' = Good(i) /\ BindAt(i)' = BindAt(i)
        BY <3>0
      <4> QED  BY <4>1, <4>2, <4>3, <4>4
    <3>3. \A c \in DOMAIN binds : EntriesFor(c)' = EntriesFor(c)
      BY <1>0, <3>1, <3>2 DEF EntriesFor
    <3>4. PlaceInv'
      BY <1>0, <2>2, <2>5, <3>1, <3>2 DEF PlaceInv
    <3>5. LinesGood'
      BY <3>1, <3>2 DEF CfgInv, LinesGood
    <3>6. HitInv' /\ EndInv'
      BY <2>7, <3>1, <3>2 DEF HitInv, EndInv
    <3>7. EntriesInEffect'
      BY <1>0, <3>1, <3>3 DEF CfgInv, EntriesInEffect
    <3> QED  BY <3>4, <3>5, <3>6, <3>7 DEF CfgInv
  <2> QED  BY <2>6, <2>7
<1> QED  BY <1>2, <1>3, <1>5, <1>6, <1>7

LEMMA CfgInvNext == CfgInv /\ [CfgNext]_cfgVars => CfgInv'
<1> SUFFICES ASSUME CfgInv, [CfgNext]_cfgVars PROVE CfgInv'
  OBVIOUS
<1>0. PlaceInv /\ row \in Nat /\ Len(file) \in Nat
  BY CfgAssumption DEF CfgInv, PlaceInv
<1>1. CASE Missing \/ OpenFile \/ ReadFile
  <2>1. /\ UNCHANGED <<file, binds, row, sec, dst, hit>> /\ row = 1 /\ phase # "done"
        /\ phase' \in {"missing", "read", "lines", "done"}
        /\ phase' = "done" => err' \in {"open", "read", "max_in"}
    BY <1>0, <1>1 DEF Missing, OpenFile, ReadFile, Return, PlaceInv
  <2>2. EndInv'
    BY <2>1, FaultsAreText DEF EndInv
  <2> QED  BY <2>1, <2>2, SameLine
<1>2. CASE Required
  <2>1. /\ UNCHANGED <<file, binds, row, sec, dst, hit>> /\ phase # "done" /\ phase' = "done"
        /\ row = 1 \/ row > Len(file)
        /\ err' = IF \E b \in DOMAIN hit : binds[b].req /\ ~hit[b] THEN "req_key" ELSE NoText
    BY <1>0, <1>2 DEF Required, Return, PlaceInv
  <2>2. EndInv'
    BY <1>0, <2>1, FaultsAreText DEF EndInv, PlaceInv
  <2> QED  BY <2>1, <2>2, SameLine
<1>3. CASE UNCHANGED cfgVars
  <2>1. UNCHANGED <<file, binds, row, sec, dst, hit, phase, err>>
    BY <1>3 DEF cfgVars
  <2>2. /\ SectionAt(row)' = SectionAt(row) /\ Good(row)' = Good(row)
        /\ \A i \in 1 .. row - 1 : Good(i)' = Good(i) /\ BindAt(i)' = BindAt(i)
    <3>1. PICK r \in Nat : r = row
      BY <1>0
    <3>2. /\ SectionAt(r)' = SectionAt(r) /\ Good(r)' = Good(r)
          /\ \A i \in 1 .. r - 1 : Good(i)' = Good(i) /\ BindAt(i)' = BindAt(i)
      BY <2>1, ReadingStays
    <3> QED  BY <2>1, <3>1, <3>2
  <2>3. \A b \in DOMAIN binds : EntriesFor(b)' = EntriesFor(b)
    BY <2>1, <2>2 DEF EntriesFor
  <2>4. PlaceInv'
    BY <2>1, <2>2 DEF CfgInv, PlaceInv
  <2>5. LinesGood' /\ HitInv' /\ EndInv'
    BY <2>1, <2>2 DEF CfgInv, LinesGood, HitInv, EndInv
  <2>6. EntriesInEffect'
    BY <2>1, <2>3 DEF CfgInv, EntriesInEffect
  <2> QED  BY <2>4, <2>5, <2>6 DEF CfgInv
<1> QED  BY <1>1, <1>2, <1>3, LineStep DEF CfgNext

-----------------------------------------------------------------------------
(* The theorems.                                                           *)

\* For any file and any bindings, at every moment of Apply: what is set is what
\* the entries read by now mean, the later of two for one binding, and nothing
\* else, also where Apply returns an error half way through the file.
THEOREM EntriesTakeEffect == CfgSpec => []EntriesInEffect
<1>1. CfgInv => EntriesInEffect
  BY DEF CfgInv
<1> QED  BY <1>1, CfgInitInv, CfgInvNext, PTL DEF CfgSpec

\* For any file and any bindings: Apply returns nil only for a file whose lines
\* are all good and which has an entry for every required binding; it stops at
\* the first line that is not good, and at no good one.
THEOREM ApplyAcceptsGoodFiles == CfgSpec => []OnlyGoodFiles
<1>1. CfgInv => OnlyGoodFiles
  <2> SUFFICES ASSUME CfgInv PROVE OnlyGoodFiles
    OBVIOUS
  <2>1. ASSUME phase = "done", err = NoText, NEW b \in DOMAIN binds, binds[b].req
        PROVE  EntriesFor(b) # {}
    <3>1. hit[b]
      BY <2>1 DEF CfgInv, EndInv
    <3> QED  BY <2>1, <3>1 DEF CfgInv, HitInv, EntriesFor
  <2> QED  BY <2>1 DEF CfgInv, LinesGood, EndInv, OnlyGoodFiles
<1> QED  BY <1>1, CfgInitInv, CfgInvNext, PTL DEF CfgSpec

-----------------------------------------------------------------------------
(* TurnParse: functions given step by step.                                *)

\* A function on 0 .. n that is given by its first value and the step from each
\* value to the next one: it exists, and its values have the type of the first.
LEMMA StepsType ==
    ASSUME NEW n \in Nat, NEW S, NEW F \in [1 .. n -> [S -> S]], NEW u, u[0] \in S,
           \A k \in 1 .. n : u[k - 1] \in S => u[k] = F[k][u[k - 1]]
    PROVE  \A k \in 0 .. n : u[k] \in S
<1> DEFINE Wrong == {k \in 0 .. n : u[k] \notin S}
<1>1. ASSUME NEW m \in Wrong, \A k \in Wrong : m <= k PROVE FALSE
  <2>1. m \in 0 .. n /\ u[m] \notin S /\ m # 0
    OBVIOUS
  <2>2. m \in 1 .. n /\ m - 1 \in 0 .. n /\ ~(m <= m - 1)
    BY <2>1
  <2>3. u[m - 1] \in S
    BY <1>1, <2>2
  <2>4. F[m] \in [S -> S]
    BY <2>2
  <2> QED  BY <2>1, <2>2, <2>3, <2>4
<1>2. Wrong \in SUBSET Nat
  OBVIOUS
<1>3. Wrong = {}
  <2> HIDE DEF Wrong
  <2> QED  BY <1>1, <1>2, LeastNumber
<1> QED  BY <1>3

Steps(u, n, S, base, F) ==
    u \in [0 .. n -> S] /\ u[0] = base /\ \A k \in 1 .. n : u[k] = F[k][u[k - 1]]

LEMMA StepsExist ==
    ASSUME NEW n \in Nat, NEW S, NEW base \in S, NEW F \in [1 .. n -> [S -> S]]
    PROVE  \E u : Steps(u, n, S, base, F)
<1> DEFINE Built(m) == \E u \in [0 .. m -> S] :
                           u[0] = base /\ \A k \in 1 .. m : u[k] = F[k][u[k - 1]]
           Unbuilt == {m \in 0 .. n : ~Built(m)}
<1>1. Built(0)
  <2> DEFINE z == [k \in 0 .. 0 |-> base]
  <2>1. z \in [0 .. 0 -> S] /\ z[0] = base /\ 1 .. 0 = {}
    OBVIOUS
  <2> HIDE DEF z
  <2> QED  BY <2>1
<1>2. ASSUME NEW m \in Unbuilt, \A k \in Unbuilt : m <= k PROVE FALSE
  <2>1. m \in 0 .. n /\ ~Built(m) /\ m # 0
    BY <1>1, <1>2
  <2>2. m \in 1 .. n /\ m - 1 \in 0 .. n /\ ~(m <= m - 1)
    BY <2>1
  <2>3. Built(m - 1)
    BY <1>2, <2>2
  <2>4. PICK u \in [0 .. m - 1 -> S] :
            u[0] = base /\ \A k \in 1 .. m - 1 : u[k] = F[k][u[k - 1]]
    BY <2>3
  <2> DEFINE w == [k \in 0 .. m |-> IF k = m THEN F[m][u[m - 1]] ELSE u[k]]
  <2>5. F[m][u[m - 1]] \in S
    <3>1. F[m] \in [S -> S] /\ u[m - 1] \in S
      BY <2>2, <2>4
    <3> QED  BY <3>1
  <2>6. w \in [0 .. m -> S]
    BY <2>2, <2>4, <2>5
  <2>7. w[0] = base /\ w[m] = F[m][w[m - 1]]
    <3>1. m \in 0 .. m /\ 0 \in 0 .. m /\ m # 0 /\ m - 1 # m
      BY <2>2
    <3>2. w[0] = u[0] /\ w[m] = F[m][u[m - 1]] /\ w[m - 1] = u[m - 1]
      BY <2>2, <3>1
    <3> QED  BY <2>4, <3>2
  <2>8. \A k \in 1 .. m - 1 : w[k] = u[k] /\ w[k - 1] = u[k - 1]
    BY <2>2
  <2>9. \A k \in 1 .. m : k = m \/ k \in 1 .. m - 1
    BY <2>2
  <2> HIDE DEF w
  <2>10. \A k \in 1 .. m : w[k] = F[k][w[k - 1]]
    BY <2>4, <2>7, <2>8, <2>9
  <2> QED  BY <2>1, <2>6, <2>7, <2>10
<1>3. Unbuilt \in SUBSET Nat
  OBVIOUS
<1>4. Unbuilt = {}
  <2> HIDE DEF Unbuilt
  <2>1. Unbuilt # {} => \E k \in Unbuilt : \A j \in Unbuilt : k <= j
    BY <1>3, LeastNumber, Zenon
  <2> QED  BY <1>2, <2>1
<1>5. Built(n)
  <2>1. n \in 0 .. n
    OBVIOUS
  <2> HIDE DEF Built
  <2> QED  BY <1>4, <2>1
<1> QED  BY <1>5 DEF Steps

-----------------------------------------------------------------------------
(* Counting the lines that are not blank.                                  *)

LEMMA FilledStep ==
    ASSUME NEW ls \in Seq(AnyLine), NEW l
    PROVE  /\ Filled(ls) \in Nat
           /\ Filled(Append(ls, l)) = Filled(ls) + (IF IsBlank(l) THEN 0 ELSE 1)
<1> DEFINE n == Len(ls)
           T == {i \in 1 .. n : ~IsBlank(ls[i])}
           more == Append(ls, l)
           U == {i \in 1 .. Len(more) : ~IsBlank(more[i])}
<1>1. n \in Nat /\ Len(more) = n + 1 /\ more[n + 1] = l /\ \A i \in 1 .. n : more[i] = ls[i]
  OBVIOUS
<1>2. IsFiniteSet(1 .. n) /\ T \subseteq 1 .. n
  BY <1>1, FS_Interval
<1>3. IsFiniteSet(T) /\ Cardinality(T) \in Nat
  BY <1>2, FS_Subset, FS_CardinalityType
<1>4. 1 .. Len(more) = (1 .. n) \cup {n + 1} /\ n + 1 \notin T
  BY <1>1
<1>5. U = IF IsBlank(l) THEN T ELSE T \cup {n + 1}
  <2> HIDE DEF more, n
  <2> QED  BY <1>1, <1>4
<1>6. Cardinality(U) = Cardinality(T) + (IF IsBlank(l) THEN 0 ELSE 1)
  <2> HIDE DEF T, U
  <2>1. Cardinality(T \cup {n + 1}) = Cardinality(T) + 1
    BY <1>3, <1>4, FS_AddElement
  <2> QED  BY <1>3, <1>5, <2>1
<1> QED  BY <1>3, <1>6 DEF Filled

LEMMA NoneFilled == Filled(<< >>) = 0 /\ Filled(<<Empty>>) = 0
<1>1. {i \in 1 .. Len(<< >>) : ~IsBlank(<< >>[i])} = {}
  OBVIOUS
<1>2. {i \in 1 .. Len(<<Empty>>) : ~IsBlank(<<Empty>>[i])} = {}
  BY DEF IsBlank, Empty, Line
<1> QED  BY <1>1, <1>2, FS_EmptySet DEF Filled

LEMMA JoinedFilled ==
    ASSUME NEW ls \in Seq(AnyLine)
    PROVE  Filled(Joined(ls)) = Filled(ls) /\ Joined(ls) \in Seq(AnyLine)
<1>1. Empty \in AnyLine
  BY ParseAssumption DEF Empty, AnyLine, Line
<1> QED  BY <1>1, NoneFilled DEF Joined

AnyMsg == [role : Roles \cup {NoString}, text : Seq(AnyLine)]

LEMMA FilledToStep ==
    ASSUME NEW ms \in Seq(AnyMsg)
    PROVE  /\ FilledTo(ms)[0] = 0
           /\ \A k \in 1 .. Len(ms) :
                 FilledTo(ms)[k] = FilledTo(ms)[k - 1] + 2 + Filled(ms[k].text)
           /\ \A k \in 0 .. Len(ms) : FilledTo(ms)[k] \in Nat
<1> DEFINE n == Len(ms)
           u == FilledTo(ms)
           F == [k \in 1 .. n |-> [v \in Nat |-> v + 2 + Filled(ms[k].text)]]
<1>1. n \in Nat /\ \A k \in 1 .. n : Filled(ms[k].text) \in Nat
  <2>1. \A k \in 1 .. n : ms[k] \in AnyMsg
    OBVIOUS
  <2>2. \A k \in 1 .. n : ms[k].text \in Seq(AnyLine)
    BY <2>1 DEF AnyMsg
  <2>3. n \in Nat
    OBVIOUS
  <2> HIDE DEF n, u, F
  <2> QED  BY <2>2, <2>3, FilledStep
<1>2. F \in [1 .. n -> [Nat -> Nat]]
  BY <1>1
<1>3. \A k \in 1 .. n, v \in Nat : F[k][v] = v + 2 + Filled(ms[k].text)
  OBVIOUS
<1>4. PICK g : Steps(g, n, Nat, 0, F)
  <2> HIDE DEF F, n, u
  <2>1. 0 \in Nat
    OBVIOUS
  <2> QED  BY <1>1, <1>2, <2>1, StepsExist
<1>5. g \in [0 .. n -> Nat] /\ g[0] = 0 /\ \A k \in 1 .. n : g[k] = F[k][g[k - 1]]
  BY <1>4 DEF Steps
<1>6. g = [k \in 0 .. n |-> IF k = 0 THEN 0 ELSE g[k - 1] + 2 + Filled(ms[k].text)]
  <2>1. \A k \in 1 .. n : g[k] = g[k - 1] + 2 + Filled(ms[k].text)
    <3> TAKE k \in 1 .. n
    <3>1. k - 1 \in 0 .. n
      BY <1>1
    <3>2. g[k - 1] \in Nat
      BY <1>5, <3>1
    <3> HIDE DEF F
    <3> QED  BY <1>3, <1>5, <3>2
  <2>2. \A k \in 0 .. n : k = 0 \/ k \in 1 .. n
    BY <1>1
  <2>3. \A k \in 0 .. n : g[k] = IF k = 0 THEN 0 ELSE g[k - 1] + 2 + Filled(ms[k].text)
    BY <1>5, <2>1, <2>2
  <2>4. DOMAIN g = 0 .. n /\ g = [k \in 0 .. n |-> g[k]]
    BY <1>5
  <2> QED  BY <2>3, <2>4
<1>7. u = CHOOSE f : f = [k \in 0 .. n |-> IF k = 0 THEN 0 ELSE f[k - 1] + 2 + Filled(ms[k].text)]
  BY DEF FilledTo
<1>8. u = [k \in 0 .. n |-> IF k = 0 THEN 0 ELSE u[k - 1] + 2 + Filled(ms[k].text)]
  <2> HIDE DEF u
  <2> QED  BY <1>6, <1>7
<1> HIDE DEF u
<1>9. u[0] = 0 /\ \A k \in 1 .. n : u[k] = u[k - 1] + 2 + Filled(ms[k].text)
  <2>1. 0 \in 0 .. n /\ \A k \in 1 .. n : k \in 0 .. n /\ k # 0
    BY <1>1
  <2>2. \A k \in 0 .. n : u[k] = IF k = 0 THEN 0 ELSE u[k - 1] + 2 + Filled(ms[k].text)
    BY <1>8, Zenon
  <2> QED  BY <2>1, <2>2, Zenon
<1>10. \A k \in 0 .. n : u[k] \in Nat
  <2>1. \A k \in 1 .. n : u[k - 1] \in Nat => u[k] = F[k][u[k - 1]]
    BY <1>3, <1>9
  <2> HIDE DEF F, n, u
  <2>2. u[0] \in Nat
    BY <1>9
  <2> QED  BY <1>1, <1>2, <2>1, <2>2, StepsType, Zenon
<1> QED  BY <1>9, <1>10 DEF u

\* Two such functions with the same first value and the same steps are the same.
LEMMA StepsAgree ==
    ASSUME NEW n \in Nat, NEW u, NEW v, u[0] = v[0],
           \A k \in 1 .. n : u[k - 1] = v[k - 1] => u[k] = v[k]
    PROVE  \A k \in 0 .. n : u[k] = v[k]
<1> DEFINE Wrong == {k \in 0 .. n : u[k] # v[k]}
<1>1. ASSUME NEW m \in Wrong, \A k \in Wrong : m <= k PROVE FALSE
  <2>1. m \in 0 .. n /\ u[m] # v[m] /\ m # 0
    OBVIOUS
  <2>2. m \in 1 .. n /\ m - 1 \in 0 .. n /\ ~(m <= m - 1)
    BY <2>1
  <2>3. u[m - 1] = v[m - 1]
    BY <1>1, <2>2
  <2> QED  BY <2>1, <2>2, <2>3
<1>2. Wrong \in SUBSET Nat
  OBVIOUS
<1>3. Wrong = {}
  <2> HIDE DEF Wrong
  <2> QED  BY <1>1, <1>2, LeastNumber
<1> QED  BY <1>3

\* One more message stands for two lines more than its text.
LEMMA FilledToAppend ==
    ASSUME NEW ms \in Seq(AnyMsg), NEW m \in AnyMsg
    PROVE  /\ FilledTo(ms)[Len(ms)] \in Nat
           /\ FilledTo(Append(ms, m))[Len(Append(ms, m))] =
                  FilledTo(ms)[Len(ms)] + 2 + Filled(m.text)
<1> DEFINE n == Len(ms)
           more == Append(ms, m)
           u == FilledTo(ms)
           v == FilledTo(more)
<1>1. /\ more \in Seq(AnyMsg) /\ n \in Nat /\ Len(more) = n + 1 /\ more[n + 1] = m
      /\ \A k \in 1 .. n : more[k] = ms[k]
  OBVIOUS
<1>2. /\ u[0] = 0 /\ \A k \in 1 .. n : u[k] = u[k - 1] + 2 + Filled(ms[k].text)
      /\ \A k \in 0 .. n : u[k] \in Nat
  BY FilledToStep
<1>3. v[0] = 0 /\ \A k \in 1 .. n + 1 : v[k] = v[k - 1] + 2 + Filled(more[k].text)
  <2> HIDE DEF more, n
  <2> QED  BY <1>1, FilledToStep
<1> HIDE DEF more, u, v, n
<1>4. \A k \in 1 .. n : u[k - 1] = v[k - 1] => u[k] = v[k]
  <2> TAKE k \in 1 .. n
  <2>1. k \in 1 .. n + 1
    BY <1>1
  <2> QED  BY <1>1, <1>2, <1>3, <2>1
<1>5. u[n] = v[n]
  <2>1. n \in Nat /\ u[0] = v[0]
    BY <1>1, <1>2, <1>3
  <2>2. \A k \in 0 .. n : u[k] = v[k]
    BY <1>4, <2>1, StepsAgree, ZenonT(60)
  <2> QED  BY <1>1, <2>2
<1>6. v[n + 1] = v[n] + 2 + Filled(m.text)
  <2>1. n + 1 \in 1 .. n + 1 /\ (n + 1) - 1 = n
    BY <1>1
  <2> QED  BY <1>1, <1>3, <2>1
<1>7. u[n] \in Nat /\ v[Len(more)] = u[n] + 2 + Filled(m.text)
  BY <1>1, <1>2, <1>5, <1>6
<1> QED  BY <1>7 DEF more, u, v, n

-----------------------------------------------------------------------------
(* ParseWith drops no line.                                                *)

ParamLines == Rests \cup {Cut(r) : r \in Rests}

ParseType ==
    /\ input \in Seq(AnyLine) /\ at \in 1 .. Len(input) + 1
    /\ st \in 0 .. 3 /\ role \in Roles \cup {NoString} /\ text \in Seq(AnyLine) /\ indent \in Nat
    /\ sawMessages \in BOOLEAN /\ params \in Seq(ParamLines) /\ msgs \in Seq(AnyMsg)

\* The messages have begun once ParseWith is out of the state for parameters.
Begun == result = "reading" => (sawMessages <=> st # 0)

ParseInv == ParseType /\ Begun /\ NoLineDropped

LEMMA LineTaken ==
    ASSUME ParseType, at <= Len(input)
    PROVE  /\ here \in AnyLine /\ at + 1 \in 1 .. Len(input) + 1
           /\ Filled(SubSeq(input, 1, at - 1)) \in Nat
           /\ Filled(SubSeq(input, 1, (at + 1) - 1)) =
                  Filled(SubSeq(input, 1, at - 1)) + (IF IsBlank(here) THEN 0 ELSE 1)
<1>1. here \in AnyLine /\ at \in Nat /\ at + 1 \in 1 .. Len(input) + 1 /\ (at + 1) - 1 = at
  BY DEF ParseType, here
<1>2. SubSeq(input, 1, at - 1) \in Seq(AnyLine)
  BY DEF ParseType
<1>3. SubSeq(input, 1, at) = Append(SubSeq(input, 1, at - 1), here)
  BY DEF ParseType, here
<1> QED  BY <1>1, <1>2, <1>3, FilledStep

LEMMA UnindentedKeeps ==
    ASSUME NEW l \in AnyLine, ParseType, Belongs(l)
    PROVE  Unindented(l) \in AnyLine /\ (IsBlank(Unindented(l)) <=> IsBlank(l))
<1>1. Empty \in AnyLine
  BY ParseAssumption DEF AnyLine, Empty, Line
<1>2. CASE l = Empty
  BY <1>1, <1>2 DEF Unindented
<1>3. CASE l # Empty
  <2>1. l.ind - indent \in Nat
    BY <1>3 DEF AnyLine, ParseType, Belongs
  <2>2. Unindented(l) = [l EXCEPT !.ind = l.ind - indent]
    BY <1>3 DEF Unindented
  <2> QED  BY <2>1, <2>2 DEF AnyLine, IsBlank
<1> QED  BY <1>2, <1>3

LEMMA GiveBackKeeps ==
    ASSUME ParseInv, NEW why, GiveBack(why), why \notin {"reading", NoString}
    PROVE  ParseInv'
  BY DEF ParseInv, ParseType, Begun, NoLineDropped, GiveBack

LEMMA ParseInitInv == ParseInit => ParseInv
<1> SUFFICES ASSUME ParseInit PROVE ParseInv
  OBVIOUS
<1>1. input \in Seq(AnyLine) /\ Len(input) \in Nat
  BY ParseAssumption DEF ParseInit
<1>2. at \in 1 .. Len(input) + 1 /\ text \in Seq(AnyLine) /\ params \in Seq(ParamLines)
      /\ msgs \in Seq(AnyMsg) /\ SubSeq(input, 1, at - 1) = << >> /\ Len(msgs) = 0
      /\ Len(params) = 0 /\ Filled(text) = 0
  BY <1>1, NoneFilled DEF ParseInit
<1>3. ~sawMessages /\ sawMessages \in BOOLEAN
  BY Zenon DEF ParseInit
<1>4. /\ at = 1 /\ st = 0 /\ role = NoString /\ indent = 0 /\ result = "reading"
  BY DEF ParseInit
<1>5. ParseType /\ Begun
  BY <1>1, <1>2, <1>3, <1>4 DEF ParseType, Begun
<1>6. FilledTo(msgs)[Len(msgs)] = 0
  BY <1>2, FilledToStep
<1>7. Filled(SubSeq(input, 1, at - 1)) = 0
  <2>1. Filled(<< >>) = 0
    BY NoneFilled
  <2> QED  BY <1>2, <2>1
<1>8. NoLineDropped
  BY <1>2, <1>3, <1>4, <1>6, <1>7 DEF NoLineDropped
<1> QED  BY <1>5, <1>8 DEF ParseInv

\* How many lines that are not blank the head and the message under way stand for.
UnderWay ==
    (IF st = 0 THEN 0 ELSE IF st = 1 THEN 1 ELSE IF st = 2 THEN 2 ELSE 3)
    + (IF st = 3 THEN Filled(text) ELSE 0)

CountIs ==
    /\ Filled(SubSeq(input, 1, at - 1)) = Len(params) + FilledTo(msgs)[Len(msgs)] + UnderWay
    /\ sawMessages <=> st # 0

\* While ParseWith reads, the invariant says no more and no less.
CountFacts ==
    /\ ParseInv <=> CountIs
    /\ Filled(text) \in Nat /\ FilledTo(msgs)[Len(msgs)] \in Nat
    /\ Len(params) \in Nat /\ UnderWay \in Nat

LEMMA CountReading == ParseType /\ result = "reading" => CountFacts
<1> SUFFICES ASSUME ParseType, result = "reading" PROVE CountFacts
  OBVIOUS
<1>1. Filled(text) \in Nat /\ Len(params) \in Nat
  <2>1. text \in Seq(AnyLine) /\ Len(params) \in Nat
    BY DEF ParseType
  <2> QED  BY <2>1, FilledStep
<1>2. FilledTo(msgs)[Len(msgs)] \in Nat
  <2>1. msgs \in Seq(AnyMsg) /\ Len(msgs) \in Nat
    BY DEF ParseType
  <2> QED  BY <2>1, FilledToStep
<1>3. UnderWay \in Nat /\ st \in 0 .. 3
  BY <1>1 DEF UnderWay, ParseType
<1>4. Begun <=> (sawMessages <=> st # 0)
  BY DEF Begun
<1>5. ASSUME sawMessages <=> st # 0
      PROVE  NoLineDropped <=> CountIs
  <2> DEFINE c == Filled(SubSeq(input, 1, at - 1))
             f == FilledTo(msgs)[Len(msgs)]
             x == Filled(text)
             p == Len(params)
  <2>1. NoLineDropped <=>
            c = p + (IF st # 0 THEN 1 ELSE 0) + f + (IF st = 2 THEN 1 ELSE 0)
                + (IF st = 3 THEN 2 + x ELSE 0)
    BY <1>5 DEF NoLineDropped
  <2>2. CountIs <=>
            c = p + f + ((IF st = 0 THEN 0 ELSE IF st = 1 THEN 1 ELSE IF st = 2 THEN 2 ELSE 3)
                         + (IF st = 3 THEN x ELSE 0))
    BY <1>5 DEF CountIs, UnderWay
  <2>3. p \in Nat /\ f \in Nat /\ x \in Nat
    BY <1>1, <1>2
  <2> HIDE DEF c, f, x, p
  <2>4. CASE st = 0
    BY <2>1, <2>2, <2>3, <2>4
  <2>5. CASE st = 1
    BY <2>1, <2>2, <2>3, <2>5
  <2>6. CASE st = 2
    BY <2>1, <2>2, <2>3, <2>6
  <2>7. CASE st = 3
    BY <2>1, <2>2, <2>3, <2>7
  <2> QED  BY <1>3, <2>4, <2>5, <2>6, <2>7
<1>6. ParseInv <=> CountIs
  BY <1>4, <1>5 DEF ParseInv, CountIs
<1> QED  BY <1>1, <1>2, <1>3, <1>6 DEF CountFacts

LEMMA CountReadingNext == (ParseType /\ result = "reading")' => CountFacts'
  BY CountReading, PTL

LEMMA TextLineInv == ParseInv /\ TextLine => ParseInv'
<1> SUFFICES ASSUME ParseInv, TextLine PROVE ParseInv'
  OBVIOUS
<1>1. /\ result = "reading" /\ at <= Len(input) /\ st = 3 /\ Belongs(here)
      /\ text' = Append(text, Unindented(here)) /\ at' = at + 1
      /\ UNCHANGED <<input, st, role, indent, sawMessages, params, msgs, result>>
  BY DEF TextLine, Reading
<1>2. ParseType
  BY DEF ParseInv
<1>3. Unindented(here) \in AnyLine /\ (IsBlank(Unindented(here)) <=> IsBlank(here))
  BY <1>1, <1>2, LineTaken, UnindentedKeeps
<1>4. ParseType'
  BY <1>1, <1>2, <1>3, LineTaken DEF ParseType
<1>5. Filled(text)' = Filled(text) + (IF IsBlank(here) THEN 0 ELSE 1)
  BY <1>1, <1>2, <1>3, FilledStep DEF ParseType
<1>6. (Filled(SubSeq(input, 1, at - 1)))' =
          Filled(SubSeq(input, 1, at - 1)) + (IF IsBlank(here) THEN 0 ELSE 1)
  BY <1>1, <1>2, LineTaken
<1>7. /\ CountIs /\ Filled(text) \in Nat /\ FilledTo(msgs)[Len(msgs)] \in Nat
      /\ Len(params) \in Nat
  BY <1>1, <1>2, CountReading DEF CountFacts
<1>8. UnderWay = 3 + Filled(text) /\ UnderWay' = 3 + Filled(text)'
  BY <1>1 DEF UnderWay
<1>9. CountIs'
  <2> DEFINE c == Filled(SubSeq(input, 1, at - 1))
             f == FilledTo(msgs)[Len(msgs)]
             x == Filled(text)
             p == Len(params)
             d == IF IsBlank(here) THEN 0 ELSE 1
  <2>1. /\ c = p + f + (3 + x) /\ c' = c + d /\ x' = x + d /\ p' = p /\ f' = f
        /\ x \in Nat /\ f \in Nat /\ p \in Nat /\ d \in Nat
    BY <1>1, <1>5, <1>6, <1>7, <1>8 DEF CountIs
  <2> HIDE DEF c, f, x, p, d
  <2>2. c' = p' + f' + (3 + x')
    BY <2>1
  <2>3. (sawMessages <=> st # 0)'
    BY <1>1, <1>7 DEF CountIs
  <2> QED  BY <1>8, <2>2, <2>3 DEF CountIs, c, f, x, p
<1>10. ParseInv' <=> CountIs'
  BY <1>1, <1>4, CountReadingNext DEF CountFacts
<1> QED  BY <1>9, <1>10

LEMMA FlushInv == ParseInv /\ Flush => ParseInv'
<1> SUFFICES ASSUME ParseInv, Flush PROVE ParseInv'
  OBVIOUS
<1>1. /\ result = "reading" /\ at <= Len(input) /\ st = 3
      /\ msgs' = Append(msgs, Msg(role, text)) /\ role' = NoString /\ text' = << >>
      /\ indent' = 0 /\ st' = 1 /\ at' = at
      /\ UNCHANGED <<input, sawMessages, params, result>>
  BY DEF Flush, Reading, AfterFlush
<1>2. ParseType
  BY DEF ParseInv
<1>3. Msg(role, text) \in AnyMsg /\ Filled(Msg(role, text).text) = Filled(text)
  BY <1>2, JoinedFilled DEF ParseType, Msg, AnyMsg
<1>4. ParseType'
  BY <1>1, <1>2, <1>3 DEF ParseType
<1>5. (FilledTo(msgs)[Len(msgs)])' = FilledTo(msgs)[Len(msgs)] + 2 + Filled(text)
  BY <1>1, <1>2, <1>3, FilledToAppend DEF ParseType
<1>6. (Filled(SubSeq(input, 1, at - 1)))' = Filled(SubSeq(input, 1, at - 1))
  BY <1>1
<1>7. /\ CountIs /\ Filled(text) \in Nat /\ FilledTo(msgs)[Len(msgs)] \in Nat
      /\ Len(params) \in Nat
  BY <1>1, <1>2, CountReading DEF CountFacts
<1>8. UnderWay = 3 + Filled(text) /\ UnderWay' = 1
  BY <1>1 DEF UnderWay
<1>9. CountIs'
  <2> DEFINE c == Filled(SubSeq(input, 1, at - 1))
             f == FilledTo(msgs)[Len(msgs)]
             x == Filled(text)
             p == Len(params)
  <2>1. /\ c = p + f + (3 + x) /\ c' = c /\ f' = f + 2 + x /\ p' = p
        /\ x \in Nat /\ f \in Nat /\ p \in Nat
    BY <1>1, <1>5, <1>6, <1>7, <1>8 DEF CountIs
  <2> HIDE DEF c, f, x, p
  <2>2. c' = p' + f' + 1
    BY <2>1
  <2>3. (sawMessages <=> st # 0)'
    BY <1>1, <1>7 DEF CountIs
  <2> QED  BY <1>8, <2>2, <2>3 DEF CountIs, c, f, p
<1>10. ParseInv' <=> CountIs'
  BY <1>1, <1>4, CountReadingNext DEF CountFacts
<1> QED  BY <1>9, <1>10

\* The lines of the states 0, 1 and 2 that are taken as they are: the parameters and
\* the state count one line more, but for a blank one.
OneLine ==
    /\ result = "reading" /\ at <= Len(input)
    /\ at' = at + 1 /\ UNCHANGED <<input, msgs, result>>
    /\ role' \in Roles \cup {NoString} /\ text' \in Seq(AnyLine) /\ indent' \in Nat
    /\ st' \in 0 .. 3 /\ sawMessages' \in BOOLEAN /\ params' \in Seq(ParamLines)
    /\ sawMessages' <=> st' # 0
    /\ Len(params') + UnderWay' = Len(params) + UnderWay + (IF IsBlank(here) THEN 0 ELSE 1)

LEMMA OneLineInv == ParseInv /\ OneLine => ParseInv'
<1> SUFFICES ASSUME ParseInv, OneLine PROVE ParseInv'
  OBVIOUS
<1>1. /\ result = "reading" /\ at <= Len(input) /\ at' = at + 1
      /\ input' = input /\ msgs' = msgs /\ result' = "reading"
  BY DEF OneLine
<1>2. ParseType
  BY DEF ParseInv
<1>3. ParseType'
  BY <1>1, <1>2, LineTaken DEF ParseType, OneLine
<1>4. (Filled(SubSeq(input, 1, at - 1)))' =
          Filled(SubSeq(input, 1, at - 1)) + (IF IsBlank(here) THEN 0 ELSE 1)
  BY <1>1, <1>2, LineTaken
<1>5. (FilledTo(msgs)[Len(msgs)])' = FilledTo(msgs)[Len(msgs)]
  BY <1>1
<1>6. CountIs /\ FilledTo(msgs)[Len(msgs)] \in Nat /\ Len(params) \in Nat /\ UnderWay \in Nat
  BY <1>1, <1>2, CountReading DEF CountFacts
<1>7. Len(params') \in Nat /\ UnderWay' \in Nat /\ (ParseInv' <=> CountIs')
  BY <1>1, <1>3, CountReadingNext DEF CountFacts
<1>8. CountIs'
  <2> DEFINE c == Filled(SubSeq(input, 1, at - 1))
             f == FilledTo(msgs)[Len(msgs)]
             p == Len(params)
             d == IF IsBlank(here) THEN 0 ELSE 1
  <2>1. PICK p1 : p1 = Len(params')
    OBVIOUS
  <2>2. PICK u1 : u1 = UnderWay'
    OBVIOUS
  <2>3. /\ c = p + f + UnderWay /\ c' = c + d /\ f' = f /\ p1 + u1 = p + UnderWay + d
        /\ f \in Nat /\ p \in Nat /\ p1 \in Nat /\ UnderWay \in Nat /\ u1 \in Nat /\ d \in Nat
    BY <1>1, <1>4, <1>5, <1>6, <1>7, <2>1, <2>2 DEF CountIs, OneLine
  <2>4. c + d = p1 + f + u1
    <3> HIDE DEF c, f, p, d
    <3> QED  BY <2>3
  <2>5. (sawMessages <=> st # 0)'
    BY DEF OneLine
  <2> QED  BY <2>1, <2>2, <2>3, <2>4, <2>5 DEF CountIs
<1> QED  BY <1>7, <1>8

LEMMA Faults ==
    /\ {"read", "max_in", "max_ln", "msg_ind", "tab_indent", "msg_role", "msg_cont",
        "msg_head", "msg_eof", "msg_empty", "param_colon", "param_key", "max_key",
        "max_val"} \cap {"reading", NoString} = {}
    /\ "reading" # NoString
  BY Zenon DEF NoString

LEMMA GivenBack ==
    ASSUME ParseInv,
           \/ ReadPayload \/ LongLine \/ BadBlank \/ TabIndent
           \/ \E why \in {ParamFault(here.rest)} \ {NoString} : GiveBack(why)
           \/ \E why \in {"msg_role", "msg_cont", "msg_head", "msg_eof", "msg_empty"} :
                  GiveBack(why)
    PROVE  ParseInv'
<1>1. \E why : GiveBack(why) /\ why \notin {"reading", NoString}
  <2>1. ParamFault(here.rest) # NoString => ParamFault(here.rest) # "reading"
    BY DEF ParamFault
  <2> QED  BY <2>1, Faults DEF ReadPayload, LongLine, BadBlank, TabIndent
<1> QED  BY <1>1, GiveBackKeeps

\* The steps over one line outside a text.
LEMMA OutsideSteps ==
    ASSUME ParseInv, BlankLine \/ Messages \/ ParamLine \/ RoleLine \/ ContentLine
    PROVE  \/ OneLine
           \/ \E why \in {ParamFault(here.rest)} \ {NoString} : GiveBack(why)
           \/ \E why \in {"msg_role", "msg_cont"} : GiveBack(why)
<1>1. ParseType /\ result = "reading" /\ at <= Len(input) /\ st # 3
  BY DEF ParseInv, BlankLine, Messages, ParamLine, RoleLine, ContentLine, OutsideText,
         Outside, Reading
<1>2. (sawMessages <=> st # 0) /\ here \in AnyLine /\ Len(params) \in Nat
  BY <1>1, LineTaken DEF ParseInv, Begun, ParseType
<1>3. UnderWay = st
  BY <1>1 DEF UnderWay, ParseType
<1>4. Filled(<< >>) = 0 /\ << >> \in Seq(AnyLine)
  BY NoneFilled
<1>5. CASE BlankLine
  <2>1. /\ IsBlank(here) /\ at' = at + 1
        /\ UNCHANGED <<input, st, role, text, indent, sawMessages, params, msgs, result>>
    BY <1>5 DEF BlankLine
  <2>2. UnderWay' = UnderWay
    BY <2>1 DEF UnderWay
  <2> QED  BY <1>1, <1>2, <1>3, <2>1, <2>2 DEF OneLine, ParseType
<1>6. CASE Messages
  <2>1. /\ ~IsBlank(here) /\ st = 0 /\ sawMessages' /\ sawMessages' \in BOOLEAN /\ st' = 1
        /\ at' = at + 1 /\ UNCHANGED <<input, role, text, indent, params, msgs, result>>
    BY <1>6 DEF Messages, OutsideText
  <2>2. UnderWay' = 1
    BY <2>1 DEF UnderWay
  <2> QED  BY <1>1, <1>2, <1>3, <2>1, <2>2 DEF OneLine, ParseType
<1>7. CASE ParamLine /\ ParamFault(here.rest) = NoString
  <2>1. /\ ~IsBlank(here) /\ st = 0 /\ params' = Append(params, Cut(here.rest))
        /\ at' = at + 1
        /\ UNCHANGED <<input, st, role, text, indent, sawMessages, msgs, result>>
    BY <1>7 DEF ParamLine, OutsideText
  <2>2. UnderWay' = 0
    BY <2>1 DEF UnderWay
  <2>3. params' \in Seq(ParamLines) /\ Len(params') = Len(params) + 1
    BY <1>1, <1>2, <2>1 DEF ParseType, ParamLines, AnyLine
  <2> QED  BY <1>1, <1>2, <1>3, <2>1, <2>2, <2>3 DEF OneLine, ParseType
<1>8. CASE RoleLine /\ IsRole(here.rest)
  <2>1. /\ ~IsBlank(here) /\ st = 1 /\ IsRole(here.rest) /\ role' = here.rest[2] /\ st' = 2
        /\ at' = at + 1 /\ UNCHANGED <<input, text, indent, sawMessages, params, msgs, result>>
    BY <1>8 DEF RoleLine, OutsideText
  <2>2. UnderWay' = 2
    BY <2>1 DEF UnderWay
  <2>3. role' \in Roles
    BY <2>1 DEF IsRole
  <2> QED  BY <1>1, <1>2, <1>3, <2>1, <2>2, <2>3 DEF OneLine, ParseType
<1>9. CASE ContentLine /\ here.rest = Content
  <2>1. /\ ~IsBlank(here) /\ st = 2 /\ indent' = here.ind + 2 /\ text' = << >> /\ st' = 3
        /\ at' = at + 1 /\ UNCHANGED <<input, role, sawMessages, params, msgs, result>>
    BY <1>9 DEF ContentLine, OutsideText
  <2>2. UnderWay' = 3
    BY <1>4, <2>1 DEF UnderWay
  <2>3. here.ind + 2 \in Nat
    BY <1>2 DEF AnyLine
  <2> QED  BY <1>1, <1>2, <1>3, <1>4, <2>1, <2>2, <2>3 DEF OneLine, ParseType
<1>10. ParamLine /\ ParamFault(here.rest) # NoString =>
           \E why \in {ParamFault(here.rest)} \ {NoString} : GiveBack(why)
  BY DEF ParamLine
<1>11. /\ RoleLine /\ ~IsRole(here.rest) => GiveBack("msg_role")
       /\ ContentLine /\ here.rest # Content => GiveBack("msg_cont")
  BY DEF RoleLine, ContentLine
<1> QED  BY <1>5, <1>6, <1>7, <1>8, <1>9, <1>10, <1>11

LEMMA EndOfFileInv == ParseInv /\ EndOfFile => ParseInv'
<1> SUFFICES ASSUME ParseInv, EndOfFile PROVE ParseInv'
  OBVIOUS
<1>1. CASE \E why \in {"msg_head", "msg_eof", "msg_empty"} : GiveBack(why)
  BY <1>1, GivenBack
<1>2. CASE ~(\E why \in {"msg_head", "msg_eof", "msg_empty"} : GiveBack(why))
  <2>1. /\ result = "reading" /\ sawMessages /\ st # 2
        /\ msgs' = (IF st = 3 THEN Append(msgs, Msg(role, text)) ELSE msgs)
        /\ text' = << >> /\ st' = 1 /\ result' = NoString
        /\ UNCHANGED <<input, at, role, indent, sawMessages, params>>
    BY <1>2 DEF EndOfFile
  <2>2. ParseType
    BY DEF ParseInv
  <2>3. Msg(role, text) \in AnyMsg /\ Filled(Msg(role, text).text) = Filled(text)
    BY <2>2, JoinedFilled DEF ParseType, Msg, AnyMsg
  <2>4. ParseType'
    BY <2>1, <2>2, <2>3 DEF ParseType
  <2>5. /\ CountIs /\ Filled(text) \in Nat /\ FilledTo(msgs)[Len(msgs)] \in Nat
        /\ Len(params) \in Nat
    BY <2>1, <2>2, CountReading DEF CountFacts
  <2>6. st = 1 \/ st = 3
    BY <2>1, <2>2, <2>5 DEF ParseType, CountIs
  <2>7. (FilledTo(msgs)[Len(msgs)])' =
            FilledTo(msgs)[Len(msgs)] + (IF st = 3 THEN 2 + Filled(text) ELSE 0)
    <3>1. CASE st = 3
      <4>1. (FilledTo(msgs)[Len(msgs)])' = FilledTo(msgs)[Len(msgs)] + 2 + Filled(text)
        BY <2>1, <2>2, <2>3, <3>1, FilledToAppend DEF ParseType
      <4> QED  BY <2>5, <3>1, <4>1
    <3>2. CASE st = 1
      BY <2>1, <2>5, <3>2
    <3> QED  BY <2>6, <3>1, <3>2
  <2>8. (Filled(SubSeq(input, 1, at - 1)))' =
            Len(params') + 1 + (FilledTo(msgs)[Len(msgs)])'
    <3> DEFINE c == Filled(SubSeq(input, 1, at - 1))
               f == FilledTo(msgs)[Len(msgs)]
               x == Filled(text)
               p == Len(params)
    <3>1. /\ c' = c /\ p' = p /\ x \in Nat /\ f \in Nat /\ p \in Nat
      BY <2>1, <2>5
    <3>2. c = p + f + UnderWay /\ UnderWay = 1 + (IF st = 3 THEN 2 + x ELSE 0)
      BY <2>5, <2>6 DEF CountIs, UnderWay
    <3>3. f' = f + (IF st = 3 THEN 2 + x ELSE 0)
      BY <2>7
    <3> HIDE DEF c, f, x, p
    <3>4. c' = p' + 1 + f'
      <4>1. CASE st = 3
        BY <3>1, <3>2, <3>3, <4>1
      <4>2. CASE st = 1
        BY <3>1, <3>2, <3>3, <4>2
      <4> QED  BY <2>6, <4>1, <4>2
    <3> QED  BY <3>4 DEF c, f, p
  <2>9. Begun'
    BY <2>1, Faults DEF Begun
  <2>10. NoLineDropped'
    <3>1. PICK c1 : c1 = (Filled(SubSeq(input, 1, at - 1)))'
      OBVIOUS
    <3>2. PICK f1 : f1 = (FilledTo(msgs)[Len(msgs)])'
      OBVIOUS
    <3>3. c1 = Len(params') + 1 + f1 /\ f1 \in Nat /\ Len(params') \in Nat
      BY <2>1, <2>5, <2>7, <2>8, <3>1, <3>2
    <3>4. c1 = Len(params') + (IF sawMessages' THEN 1 ELSE 0) + f1
               + (IF result' = "reading" /\ st' = 2 THEN 1 ELSE 0)
               + (IF result' = "reading" /\ st' = 3 THEN 2 + Filled(text') ELSE 0)
      BY <2>1, <3>3, Faults
    <3> QED  BY <3>1, <3>2, <3>4 DEF NoLineDropped
  <2> QED  BY <2>4, <2>9, <2>10 DEF ParseInv
<1> QED  BY <1>1, <1>2

LEMMA ParseNextInv == ParseInv /\ [ParseNext]_parseVars => ParseInv'
<1> SUFFICES ASSUME ParseInv, [ParseNext]_parseVars PROVE ParseInv'
  OBVIOUS
<1>1. CASE \/ ReadPayload \/ LongLine \/ BadBlank \/ TabIndent
  BY <1>1, GivenBack
<1>2. CASE TextLine
  BY <1>2, TextLineInv
<1>3. CASE Flush
  BY <1>3, FlushInv
<1>4. CASE EndOfFile
  BY <1>4, EndOfFileInv
<1>5. CASE BlankLine \/ Messages \/ ParamLine \/ RoleLine \/ ContentLine
  BY <1>5, OutsideSteps, OneLineInv, GivenBack
<1>6. CASE UNCHANGED parseVars
  BY <1>6 DEF parseVars, ParseInv, ParseType, Begun, NoLineDropped
<1> QED  BY <1>1, <1>2, <1>3, <1>4, <1>5, <1>6 DEF ParseNext

LEMMA ConcatIs ==
    ASSUME NEW S, NEW a \in Seq(S), NEW b \in Seq(S)
    PROVE  /\ a \o b \in Seq(S) /\ Len(a) \in Nat /\ Len(b) \in Nat
           /\ Len(a \o b) = Len(a) + Len(b)
           /\ \A k \in 1 .. Len(a) : (a \o b)[k] = a[k]
           /\ \A k \in 1 .. Len(b) : (a \o b)[Len(a) + k] = b[k]
  OBVIOUS

Writable == [role : Roles, text : Seq(AnyLine)]

\* One message as it is written, line by line.
LEMMA WrittenMsgIs ==
    ASSUME NEW i \in Nat, NEW m \in Writable
    PROVE  /\ WrittenMsg(i, m) \in Seq(AnyLine)
           /\ Len(WrittenMsg(i, m)) = 2 + Len(m.text)
           /\ WrittenMsg(i, m)[1] = Line(i, FALSE, RoleRest(m.role))
           /\ WrittenMsg(i, m)[2] = Line(i + 2, FALSE, Content)
           /\ \A j \in 1 .. Len(m.text) : WrittenMsg(i, m)[2 + j] = WrittenLine(i, m.text[j])
<1> DEFINE role1 == Line(i, FALSE, RoleRest(m.role))
           cont == Line(i + 2, FALSE, Content)
           lines == [k \in 1 .. Len(m.text) |-> WrittenLine(i, m.text[k])]
<1>1. m.role \in Roles /\ m.text \in Seq(AnyLine) /\ Len(m.text) \in Nat
  BY DEF Writable
<1>2. RoleRest(m.role) \in Rests /\ Content \in Rests /\ Blank \in Rests
  BY <1>1, ParseAssumption
<1>3. role1 \in AnyLine /\ cont \in AnyLine /\ Empty \in AnyLine
  BY <1>2 DEF Line, AnyLine, Empty
<1>4. \A l \in AnyLine : WrittenLine(i, l) \in AnyLine
  <2> TAKE l \in AnyLine
  <2>1. l.ind + i + 4 \in Nat
    BY DEF AnyLine
  <2> QED  BY <1>3, <2>1 DEF WrittenLine, AnyLine
<1>5. \A k \in 1 .. Len(m.text) : WrittenLine(i, m.text[k]) \in AnyLine
  BY <1>1, <1>4
<1>6. lines \in Seq(AnyLine) /\ Len(lines) = Len(m.text)
      /\ \A k \in 1 .. Len(m.text) : lines[k] = WrittenLine(i, m.text[k])
  <2>1. lines \in [1 .. Len(m.text) -> AnyLine]
    BY <1>5
  <2>2. DOMAIN lines = 1 .. Len(m.text)
    OBVIOUS
  <2>3. \A k \in 1 .. Len(m.text) : lines[k] = WrittenLine(i, m.text[k])
    OBVIOUS
  <2> HIDE DEF lines
  <2> QED  BY <1>1, <2>1, <2>2, <2>3
<1>7. WrittenMsg(i, m) = <<role1, cont>> \o lines
  BY DEF WrittenMsg
<1> HIDE DEF role1, cont, lines
<1>8. PICK w : w = <<role1, cont>> \o lines
  OBVIOUS
<1>9. /\ w \in Seq(AnyLine) /\ Len(w) = 2 + Len(m.text) /\ w[1] = role1 /\ w[2] = cont
  BY <1>1, <1>3, <1>6, <1>8
<1>10. \A j \in 1 .. Len(m.text) : w[2 + j] = WrittenLine(i, m.text[j])
  BY <1>1, <1>3, <1>6, <1>8
<1> QED  BY <1>7, <1>8, <1>9, <1>10 DEF role1, cont

LEMMA WrittenToStep ==
    ASSUME NEW i \in Nat, NEW ms \in Seq(Writable)
    PROVE  /\ WrittenTo(i, ms)[0] = << >>
           /\ \A k \in 1 .. Len(ms) :
                 WrittenTo(i, ms)[k] = WrittenTo(i, ms)[k - 1] \o WrittenMsg(i, ms[k])
           /\ \A k \in 0 .. Len(ms) : WrittenTo(i, ms)[k] \in Seq(AnyLine)
<1> DEFINE n == Len(ms)
           u == WrittenTo(i, ms)
           S == Seq(AnyLine)
           F == [k \in 1 .. n |-> [v \in S |-> v \o WrittenMsg(i, ms[k])]]
<1>1. n \in Nat /\ \A k \in 1 .. n : WrittenMsg(i, ms[k]) \in S
  <2>1. \A k \in 1 .. n : ms[k] \in Writable
    OBVIOUS
  <2>2. n \in Nat
    OBVIOUS
  <2> HIDE DEF n, u, F
  <2> QED  BY <2>1, <2>2, WrittenMsgIs
<1>2. F \in [1 .. n -> [S -> S]]
  <2>1. \A k \in 1 .. n, v \in S : v \o WrittenMsg(i, ms[k]) \in S
    BY <1>1
  <2> HIDE DEF S, n
  <2> QED  BY <2>1
<1>3. \A k \in 1 .. n, v \in S : F[k][v] = v \o WrittenMsg(i, ms[k])
  <2> HIDE DEF S, n
  <2> QED  OBVIOUS
<1>4. PICK g : Steps(g, n, S, << >>, F)
  <2> HIDE DEF F, n, u
  <2>1. << >> \in S
    OBVIOUS
  <2> HIDE DEF S
  <2> QED  BY <1>1, <1>2, <2>1, StepsExist
<1>5. g \in [0 .. n -> S] /\ g[0] = << >> /\ \A k \in 1 .. n : g[k] = F[k][g[k - 1]]
  <2> HIDE DEF F, n, u, S
  <2> QED  BY <1>4 DEF Steps
<1>6. g = [k \in 0 .. n |-> IF k = 0 THEN << >> ELSE g[k - 1] \o WrittenMsg(i, ms[k])]
  <2> HIDE DEF S, F, n
  <2>1. \A k \in 1 .. n : g[k] = g[k - 1] \o WrittenMsg(i, ms[k])
    <3> TAKE k \in 1 .. n
    <3>1. k - 1 \in 0 .. n
      BY <1>1
    <3>2. g[k - 1] \in S
      BY <1>5, <3>1
    <3> QED  BY <1>3, <1>5, <3>2
  <2>2. \A k \in 0 .. n : k = 0 \/ k \in 1 .. n
    BY <1>1
  <2>3. \A k \in 0 .. n : g[k] = IF k = 0 THEN << >> ELSE g[k - 1] \o WrittenMsg(i, ms[k])
    BY <1>5, <2>1, <2>2
  <2>4. DOMAIN g = 0 .. n /\ g = [k \in 0 .. n |-> g[k]]
    BY <1>5
  <2> QED  BY <2>3, <2>4
<1>7. u = CHOOSE f : f = [k \in 0 .. n |-> IF k = 0 THEN << >> ELSE f[k - 1] \o WrittenMsg(i, ms[k])]
  BY DEF WrittenTo
<1>8. u = [k \in 0 .. n |-> IF k = 0 THEN << >> ELSE u[k - 1] \o WrittenMsg(i, ms[k])]
  <2> HIDE DEF u, n
  <2> QED  BY <1>6, <1>7
<1> HIDE DEF u
<1>9. u[0] = << >> /\ \A k \in 1 .. n : u[k] = u[k - 1] \o WrittenMsg(i, ms[k])
  <2>1. \A k \in 1 .. n : k \in 0 .. n /\ k # 0
    BY <1>1
  <2>2. 0 \in 0 .. n
    BY <1>1
  <2> HIDE DEF n
  <2> QED  BY <1>8, <2>1, <2>2
<1>10. \A k \in 0 .. n : u[k] \in S
  <2> HIDE DEF S, n, F
  <2>1. \A k \in 1 .. n : u[k - 1] \in S => u[k] = F[k][u[k - 1]]
    BY <1>3, <1>9
  <2>2. u[0] \in S
    BY <1>5, <1>9 DEF S
  <2> QED  BY <1>1, <1>2, <2>1, <2>2, StepsType, Zenon
<1> QED  BY <1>9, <1>10 DEF u

-----------------------------------------------------------------------------
(* Where the messages are among the lines that are written.                *)

\* What is written first stays in front of what is written later.
LEMMA WrittenPrefix ==
    ASSUME NEW i \in Nat, NEW ms \in Seq(Writable), NEW m \in 0 .. Len(ms)
    PROVE  \A k \in m .. Len(ms) :
               /\ Len(WrittenTo(i, ms)[m]) <= Len(WrittenTo(i, ms)[k])
               /\ \A p \in 1 .. Len(WrittenTo(i, ms)[m]) :
                      WrittenTo(i, ms)[k][p] = WrittenTo(i, ms)[m][p]
<1> DEFINE n == Len(ms)
           u == WrittenTo(i, ms)
           Kept(k) == Len(u[m]) <= Len(u[k]) /\ \A p \in 1 .. Len(u[m]) : u[k][p] = u[m][p]
           Lost == {k \in m .. n : ~Kept(k)}
<1>1. n \in Nat /\ m \in Nat /\ m <= n
  OBVIOUS
<1>2. /\ \A k \in 1 .. n : u[k] = u[k - 1] \o WrittenMsg(i, ms[k])
      /\ \A k \in 0 .. n : u[k] \in Seq(AnyLine)
  BY WrittenToStep
<1>3. \A k \in 1 .. n : WrittenMsg(i, ms[k]) \in Seq(AnyLine)
  <2>1. \A k \in 1 .. Len(ms) : ms[k] \in Writable
    OBVIOUS
  <2> QED  BY <2>1, WrittenMsgIs
<1> HIDE DEF n, u
<1>4. Kept(m)
  <2>1. Len(u[m]) \in Nat
    BY <1>1, <1>2
  <2> QED  BY <2>1
<1>5. ASSUME NEW k \in m .. n, k # m, Kept(k - 1) PROVE Kept(k)
  <2>1. k \in 1 .. n /\ k - 1 \in 0 .. n /\ m \in 0 .. n
    BY <1>1, <1>5
  <2>2. PICK a, b, c : a = u[k - 1] /\ b = WrittenMsg(i, ms[k]) /\ c = u[m]
    OBVIOUS
  <2>3. a \in Seq(AnyLine) /\ b \in Seq(AnyLine) /\ c \in Seq(AnyLine) /\ u[k] = a \o b
    BY <1>2, <1>3, <2>1, <2>2
  <2>4. Len(c) <= Len(a) /\ \A p \in 1 .. Len(c) : a[p] = c[p]
    BY <1>5, <2>2
  <2>5. Len(a \o b) >= Len(a) /\ \A p \in 1 .. Len(a) : (a \o b)[p] = a[p]
    BY <2>3
  <2>6. Len(a) \in Nat /\ Len(c) \in Nat /\ Len(a \o b) \in Nat
    BY <2>3
  <2>7. Len(c) <= Len(a \o b) /\ \A p \in 1 .. Len(c) : (a \o b)[p] = c[p]
    BY <2>4, <2>5, <2>6
  <2> QED  BY <2>2, <2>3, <2>7
<1> HIDE DEF Kept
<1>6. Lost = {}
  <2>1. ASSUME NEW k \in Lost, \A l \in Lost : k <= l PROVE FALSE
    <3>1. k \in m .. n /\ ~Kept(k) /\ k # m
      BY <1>4, <2>1
    <3>2. k - 1 \in m .. n /\ ~(k <= k - 1)
      BY <1>1, <3>1
    <3>3. Kept(k - 1)
      BY <2>1, <3>2
    <3> QED  BY <1>5, <3>1, <3>3
  <2>2. Lost \in SUBSET Nat
    BY <1>1
  <2> HIDE DEF Lost
  <2> QED  BY <2>1, <2>2, LeastNumber
<1>7. \A k \in m .. n : Kept(k)
  BY <1>6
<1> QED  BY <1>7 DEF Kept, u, n

\* Where a message starts: the number of lines before it.
Start(i, t) ==
    [k \in 1 .. Len(t.msgs) + 1 |-> Len(t.params) + 1 + Len(WrittenTo(i, t.msgs)[k - 1])]

\* What the lines of the file are where a talk was written to it.
Layout(i, t) ==
    /\ Start(i, t)[1] = Len(t.params) + 1
    /\ \A k \in 1 .. Len(t.msgs) + 1 : Start(i, t)[k] \in Nat /\ Start(i, t)[k] <= Len(input)
    /\ Len(input) = Start(i, t)[Len(t.msgs) + 1]
    /\ \A k \in 1 .. Len(t.params) : input[k] = Line(0, FALSE, t.params[k])
    /\ input[Len(t.params) + 1] = Line(0, FALSE, Header)
    /\ \A k \in 1 .. Len(t.msgs) :
           /\ Start(i, t)[k + 1] = Start(i, t)[k] + 2 + Len(t.msgs[k].text)
           /\ input[Start(i, t)[k] + 1] = Line(i, FALSE, RoleRest(t.msgs[k].role))
           /\ input[Start(i, t)[k] + 2] = Line(i + 2, FALSE, Content)
           /\ \A j \in 1 .. Len(t.msgs[k].text) :
                  input[Start(i, t)[k] + 2 + j] = WrittenLine(i, t.msgs[k].text[j])

LEMMA WrittenLayout ==
    ASSUME NEW i \in Nat, NEW t, IsTalk(t), input = Written(i, t)
    PROVE  Layout(i, t)
<1> DEFINE n == Len(t.params)
           M == Len(t.msgs)
           u == WrittenTo(i, t.msgs)
           head == Heading(t)
<1>1. t.params \in Seq(Rests) /\ t.msgs \in Seq(Writable) /\ n \in Nat /\ M \in Nat
  BY DEF IsTalk, Writable
<1>2. /\ u[0] = << >> /\ \A k \in 1 .. M : u[k] = u[k - 1] \o WrittenMsg(i, t.msgs[k])
      /\ \A k \in 0 .. M : u[k] \in Seq(AnyLine)
  BY <1>1, WrittenToStep
<1>3. /\ head \in Seq(AnyLine) /\ Len(head) = n + 1 /\ head[n + 1] = Line(0, FALSE, Header)
      /\ \A k \in 1 .. n : head[k] = Line(0, FALSE, t.params[k])
  <2> DEFINE ps == [k \in 1 .. n |-> Line(0, FALSE, t.params[k])]
             h == Line(0, FALSE, Header)
  <2>1. Header \in Rests
    BY ParseAssumption
  <2>2. h \in AnyLine /\ \A k \in 1 .. n : Line(0, FALSE, t.params[k]) \in AnyLine
    BY <1>1, <2>1 DEF AnyLine, Line
  <2>3. DOMAIN ps = 1 .. n /\ \A k \in 1 .. n : ps[k] = Line(0, FALSE, t.params[k])
    OBVIOUS
  <2>4. ps \in [1 .. n -> AnyLine]
    BY <2>2
  <2>5. head = Append(ps, h)
    BY DEF Heading
  <2> HIDE DEF ps, h, head, n
  <2>6. ps \in Seq(AnyLine) /\ Len(ps) = n
    BY <1>1, <2>3, <2>4
  <2>7. /\ head \in Seq(AnyLine) /\ Len(head) = n + 1 /\ head[n + 1] = h
        /\ \A k \in 1 .. n : head[k] = ps[k]
    BY <1>1, <2>2, <2>5, <2>6
  <2> QED  BY <2>3, <2>7 DEF h
<1>4. input = head \o u[M]
  BY DEF Written
<1> HIDE DEF n, M, u, head
<1>5. /\ Len(input) = n + 1 + Len(u[M])
      /\ \A k \in 1 .. n + 1 : input[k] = head[k]
      /\ \A k \in 1 .. Len(u[M]) : input[n + 1 + k] = u[M][k]
  <2>1. PICK v \in Seq(AnyLine) : v = u[M]
    BY <1>1, <1>2
  <2>2. PICK h \in Seq(AnyLine) : h = head
    BY <1>3
  <2>3. input = h \o v /\ Len(h) = n + 1
    BY <1>3, <1>4, <2>1, <2>2
  <2>4. /\ Len(h \o v) = Len(h) + Len(v)
        /\ \A k \in 1 .. Len(h) : (h \o v)[k] = h[k]
        /\ \A k \in 1 .. Len(v) : (h \o v)[Len(h) + k] = v[k]
    BY ConcatIs
  <2>5. /\ Len(input) = n + 1 + Len(v)
        /\ \A k \in 1 .. n + 1 : input[k] = h[k]
        /\ \A k \in 1 .. Len(v) : input[n + 1 + k] = v[k]
    BY <2>3, <2>4
  <2> QED  BY <2>1, <2>2, <2>5
<1>6. ASSUME NEW k \in 1 .. M
      PROVE  /\ Len(u[k]) = Len(u[k - 1]) + 2 + Len(t.msgs[k].text)
             /\ Len(u[k - 1]) \in Nat /\ Len(t.msgs[k].text) \in Nat
             /\ \A j \in 1 .. 2 + Len(t.msgs[k].text) :
                    input[n + 1 + Len(u[k - 1]) + j] = WrittenMsg(i, t.msgs[k])[j]
  <2>1. k \in 0 .. M /\ k - 1 \in 0 .. M /\ M \in k .. M
    BY <1>1
  <2>2. t.msgs[k] \in Writable /\ Len(t.msgs[k].text) \in Nat
    <3>1. t.msgs[k] \in Writable
      BY <1>1 DEF M
    <3> QED  BY <3>1 DEF Writable
  <2>3. /\ u[k - 1] \in Seq(AnyLine) /\ WrittenMsg(i, t.msgs[k]) \in Seq(AnyLine)
        /\ Len(WrittenMsg(i, t.msgs[k])) = 2 + Len(t.msgs[k].text)
    BY <1>2, <2>1, <2>2, WrittenMsgIs
  <2>4. PICK a \in Seq(AnyLine), b \in Seq(AnyLine) :
            a = u[k - 1] /\ b = WrittenMsg(i, t.msgs[k])
    BY <2>3
  <2> DEFINE c == u[k]
  <2>5. /\ Len(a) \in Nat /\ Len(c) = Len(a) + 2 + Len(t.msgs[k].text)
        /\ \A j \in 1 .. 2 + Len(t.msgs[k].text) : c[Len(a) + j] = b[j]
    <3>1. c = a \o b /\ Len(b) = 2 + Len(t.msgs[k].text)
      BY <1>2, <2>3, <2>4
    <3>2. /\ Len(a) \in Nat /\ Len(a \o b) = Len(a) + Len(b)
          /\ \A j \in 1 .. Len(b) : (a \o b)[Len(a) + j] = b[j]
      BY ConcatIs
    <3>3. PICK x : x = Len(t.msgs[k].text)
      OBVIOUS
    <3> HIDE DEF c
    <3>4. Len(c) = Len(a) + (2 + x) /\ \A j \in 1 .. 2 + x : c[Len(a) + j] = b[j]
      BY <3>1, <3>2, <3>3
    <3>5. x \in Nat
      BY <2>2, <3>3
    <3>6. PICK y, z : y = Len(a) /\ z = Len(c)
      OBVIOUS
    <3>7. y \in Nat /\ z = y + (2 + x)
      BY <3>2, <3>4, <3>6
    <3>8. z = y + 2 + x
      BY <3>5, <3>7
    <3> QED  BY <3>2, <3>3, <3>4, <3>6, <3>8
  <2>6. Len(c) <= Len(u[M]) /\ \A p \in 1 .. Len(c) : u[M][p] = c[p]
    BY <1>1, <2>1, WrittenPrefix DEF M, u
  <2>7. Len(u[M]) \in Nat
    BY <1>1, <1>2
  <2>8. ASSUME NEW j \in 1 .. 2 + Len(t.msgs[k].text)
        PROVE  input[n + 1 + Len(a) + j] = b[j]
    <3>1. Len(a) + j \in 1 .. Len(c) /\ Len(a) + j \in 1 .. Len(u[M])
          /\ n + 1 + Len(a) + j = n + 1 + (Len(a) + j)
      <4>1. PICK x, y, z, w : x = Len(a) /\ y = Len(c) /\ z = Len(u[M])
                              /\ w = Len(t.msgs[k].text)
        OBVIOUS
      <4>2. x \in Nat /\ y = x + 2 + w /\ w \in Nat /\ y <= z /\ z \in Nat /\ n \in Nat
            /\ j \in 1 .. 2 + w
        BY <1>1, <2>2, <2>5, <2>6, <2>7, <4>1
      <4>3. x + j \in 1 .. y /\ x + j \in 1 .. z /\ n + 1 + x + j = n + 1 + (x + j)
        BY <4>2
      <4> QED  BY <4>1, <4>3
    <3>2. input[n + 1 + (Len(a) + j)] = u[M][Len(a) + j]
      BY <1>5, <3>1
    <3> QED  BY <2>5, <2>6, <3>1, <3>2
  <2> QED  BY <2>2, <2>4, <2>5, <2>8
<1>7. \A k \in 1 .. M + 1 : Start(i, t)[k] = n + 1 + Len(u[k - 1])
  BY DEF Start, n, M, u
<1>8. \A k \in 1 .. M + 1 : Start(i, t)[k] \in Nat /\ Start(i, t)[k] <= Len(input)
  <2> TAKE k \in 1 .. M + 1
  <2>1. k - 1 \in 0 .. M /\ M \in k - 1 .. M /\ M \in 0 .. M
    BY <1>1
  <2>2. Len(u[k - 1]) <= Len(u[M])
    BY <1>1, <2>1, WrittenPrefix DEF M, u
  <2>3. PICK a, b : a = Len(u[k - 1]) /\ b = Len(u[M])
    OBVIOUS
  <2>4. a \in Nat /\ b \in Nat /\ a <= b
    BY <1>2, <2>1, <2>2, <2>3
  <2>5. Start(i, t)[k] = n + 1 + a /\ Len(input) = n + 1 + b
    BY <1>5, <1>7, <2>3
  <2> QED  BY <1>1, <2>4, <2>5
<1>9. Start(i, t)[1] = n + 1 /\ Len(input) = Start(i, t)[M + 1]
  <2>1. 1 \in 1 .. M + 1 /\ M + 1 \in 1 .. M + 1 /\ 1 - 1 = 0 /\ (M + 1) - 1 = M
    BY <1>1
  <2>2. Start(i, t)[1] = n + 1 + Len(u[0]) /\ Start(i, t)[M + 1] = n + 1 + Len(u[M])
    BY <1>7, <2>1
  <2>3. Len(u[0]) = 0
    BY <1>2
  <2> QED  BY <1>1, <1>5, <2>2, <2>3
<1>10. ASSUME NEW k \in 1 .. M
       PROVE  /\ Start(i, t)[k + 1] = Start(i, t)[k] + 2 + Len(t.msgs[k].text)
              /\ input[Start(i, t)[k] + 1] = Line(i, FALSE, RoleRest(t.msgs[k].role))
              /\ input[Start(i, t)[k] + 2] = Line(i + 2, FALSE, Content)
              /\ \A j \in 1 .. Len(t.msgs[k].text) :
                     input[Start(i, t)[k] + 2 + j] = WrittenLine(i, t.msgs[k].text[j])
  <2>1. k \in 1 .. M + 1 /\ k + 1 \in 1 .. M + 1 /\ (k + 1) - 1 = k
    BY <1>1
  <2>2. PICK s, a, b : s = Start(i, t)[k] /\ a = Len(u[k - 1]) /\ b = Len(t.msgs[k].text)
    OBVIOUS
  <2>3. s = n + 1 + a /\ Start(i, t)[k + 1] = n + 1 + Len(u[k]) /\ a \in Nat /\ b \in Nat
        /\ Len(u[k]) = a + 2 + b
    BY <1>6, <1>7, <2>1, <2>2
  <2>4. Start(i, t)[k + 1] = s + 2 + b
    BY <1>1, <2>3
  <2>5. \A j \in 1 .. 2 + b : input[s + j] = WrittenMsg(i, t.msgs[k])[j]
    BY <1>6, <2>2, <2>3
  <2>6. t.msgs[k] \in Writable
    BY <1>1 DEF M
  <2>7. /\ WrittenMsg(i, t.msgs[k])[1] = Line(i, FALSE, RoleRest(t.msgs[k].role))
        /\ WrittenMsg(i, t.msgs[k])[2] = Line(i + 2, FALSE, Content)
        /\ \A j \in 1 .. b :
              WrittenMsg(i, t.msgs[k])[2 + j] = WrittenLine(i, t.msgs[k].text[j])
    BY <2>2, <2>6, WrittenMsgIs
  <2>8. 1 \in 1 .. 2 + b /\ 2 \in 1 .. 2 + b
        /\ \A j \in 1 .. b : 2 + j \in 1 .. 2 + b /\ s + 2 + j = s + (2 + j)
    BY <1>1, <2>3
  <2>9. \A j \in 1 .. b : input[s + 2 + j] = WrittenLine(i, t.msgs[k].text[j])
    BY <2>5, <2>7, <2>8
  <2> QED  BY <2>2, <2>4, <2>5, <2>7, <2>8, <2>9
<1>11. /\ \A k \in 1 .. n : input[k] = Line(0, FALSE, t.params[k])
       /\ input[n + 1] = Line(0, FALSE, Header)
  <2>1. n + 1 \in 1 .. n + 1 /\ \A k \in 1 .. n : k \in 1 .. n + 1
    BY <1>1
  <2> QED  BY <1>3, <1>5, <2>1
<1> QED  BY <1>8, <1>9, <1>10, <1>11 DEF Layout, n, M

-----------------------------------------------------------------------------
(* What is written is read as it was.                                      *)

AtHead(t) ==
    /\ ~sawMessages /\ st = 0 /\ at <= Len(t.params) + 1
    /\ params = SubSeq(t.params, 1, at - 1) /\ msgs = << >>

AtRole(i, t, m) == st = 1 /\ at = Start(i, t)[m] + 1
AtContent(i, t, m) ==
    st = 2 /\ m <= Len(t.msgs) /\ at = Start(i, t)[m] + 2 /\ role = t.msgs[m].role
InText(i, t, m) ==
    /\ st = 3 /\ m <= Len(t.msgs) /\ role = t.msgs[m].role /\ indent = i + 4
    /\ \E j \in 0 .. Len(t.msgs[m].text) :
           at = Start(i, t)[m] + 3 + j /\ text = SubSeq(t.msgs[m].text, 1, j)

\* The m-th message comes next, or is under way.
AtMessage(i, t, m) ==
    /\ sawMessages /\ params = t.params /\ msgs = SubSeq(t.msgs, 1, m - 1)
    /\ AtRole(i, t, m) \/ AtContent(i, t, m) \/ InText(i, t, m)

ReadSoFar(i, t) ==
    \/ result \in {"read", "max_in"}
    \/ result = "reading" /\ AtHead(t)
    \/ result = "reading" /\ \E m \in 1 .. Len(t.msgs) + 1 : AtMessage(i, t, m)
    \/ result = NoString /\ params = t.params /\ msgs = t.msgs

ReadInv == \A t \in Talks, i \in Indents : input = Written(i, t) => ReadSoFar(i, t)

LEMMA RestsApart ==
    /\ Header # Blank /\ Content # Blank /\ Header # Content
    /\ \A r : /\ RoleRest(r) \notin {Blank, Header, Content}
              /\ RoleRest(r)[1] = RoleMark /\ RoleRest(r)[2] = r
    /\ \A p : Len(p) = 2 => p \notin {Blank, Header, Content}
<1>1. \A x, y : <<x>> = <<y>> => x = y
  <2> TAKE x, y
  <2>1. <<x>>[1] = x /\ <<y>>[1] = y
    OBVIOUS
  <2> QED  BY <2>1
<1>2. "messages:" # "blank" /\ "content: |-" # "blank" /\ "messages:" # "content: |-"
  BY Zenon
<1>3. Header # Blank /\ Content # Blank /\ Header # Content
  BY <1>1, <1>2, Zenon DEF Header, Blank, Content
<1>4. \A x : Len(<<x>>) = 1
  OBVIOUS
<1>5. Len(Blank) = 1 /\ Len(Header) = 1 /\ Len(Content) = 1
  BY <1>4, Zenon DEF Header, Blank, Content
<1>6. \A p : Len(p) = 2 => p \notin {Blank, Header, Content}
  BY <1>5
<1>7. \A x, y : Len(<<x, y>>) = 2 /\ <<x, y>>[1] = x /\ <<x, y>>[2] = y
  OBVIOUS
<1>8. \A r : Len(RoleRest(r)) = 2 /\ RoleRest(r)[1] = RoleMark /\ RoleRest(r)[2] = r
  BY <1>7, Zenon DEF RoleRest
<1> QED  BY <1>3, <1>6, <1>8

\* Which steps there are over a line with something on it, outside a text.
LEMMA OutsideNext ==
    ASSUME ParseType, ParseNext, at <= Len(input), st # 3,
           here.rest \notin LongLines, ~here.tab, ~IsBlank(here)
    PROVE  /\ result = "reading"
           /\ \/ st = 0 /\ ReadPayload
              \/ st = 0 /\ here.rest = Header /\ Messages
              \/ st = 0 /\ here.rest # Header /\ ParamLine
              \/ st = 1 /\ RoleLine
              \/ st = 2 /\ ContentLine
<1>1. ~(at > Len(input))
  BY DEF ParseType
<1>2. ~EndOfFile
  BY <1>1 DEF EndOfFile
<1>3. ~TextLine /\ ~BadBlank /\ ~Flush
  BY DEF TextLine, BadBlank, Flush
<1>4. ~LongLine /\ ~TabIndent /\ ~BlankLine
  BY DEF LongLine, TabIndent, BlankLine, Outside
<1>5. \/ st = 0 /\ ReadPayload
      \/ st = 0 /\ here.rest = Header /\ Messages
      \/ st = 0 /\ here.rest # Header /\ ParamLine
      \/ st = 1 /\ RoleLine
      \/ st = 2 /\ ContentLine
  BY <1>2, <1>3, <1>4 DEF ParseNext, ReadPayload, Messages, ParamLine, RoleLine, ContentLine
<1>6. result = "reading"
  BY <1>5 DEF ReadPayload, Messages, ParamLine, RoleLine, ContentLine, OutsideText, Outside,
              Reading
<1> QED  BY <1>5, <1>6

LEMMA WrittenParam ==
    ASSUME ParseType, NEW t, IsTalk(t), NEW i \in Nat, Layout(i, t), ParseNext,
           AtHead(t), at <= Len(t.params)
    PROVE  ReadSoFar(i, t)'
<1> DEFINE p == t.params[at]
           n == Len(t.params)
<1>1. n \in Nat /\ at \in 1 .. n /\ t.params \in Seq(Rests) /\ p \in Rests /\ IsParam(p)
  BY DEF ParseType, IsTalk
<1>2. here = Line(0, FALSE, p) /\ at <= Len(input) /\ st = 0
  <2>1. Len(t.msgs) \in Nat
    BY DEF IsTalk
  <2>2. Start(i, t)[1] = n + 1 /\ Start(i, t)[1] <= Len(input)
    BY <2>1 DEF Layout
  <2>3. Len(input) \in Nat
    BY DEF ParseType
  <2>4. input[at] = Line(0, FALSE, p)
    BY <1>1 DEF Layout
  <2>5. at <= Len(input)
    BY <1>1, <2>2, <2>3
  <2> QED  BY <2>4, <2>5 DEF here, AtHead
<1>3. p # Blank /\ p # Header /\ p # Content /\ p \notin LongLines
  BY <1>1, RestsApart DEF IsParam
<1>4. here.rest = p /\ ~here.tab /\ ~IsBlank(here)
  BY <1>2, <1>3 DEF Line, IsBlank
<1>5. Cut(p) = p
  BY <1>3 DEF Cut
<1>6. ParamFault(p) = NoString
  BY <1>1, <1>5 DEF ParamFault, IsParam
<1> HIDE DEF p
<1>7. ReadPayload \/ ParamLine
  <2>1. st # 3 /\ st # 1 /\ st # 2
    BY <1>2
  <2>2. here.rest # Header /\ here.rest \notin LongLines
    BY <1>3, <1>4, Zenon
  <2> QED  BY <1>2, <1>4, <2>1, <2>2, OutsideNext, Zenon
<1>8. CASE ReadPayload
  BY <1>8 DEF ReadPayload, GiveBack, ReadSoFar
<1>9. CASE ParamLine
  <2>1. /\ params' = Append(params, p) /\ at' = at + 1 /\ result = "reading"
        /\ UNCHANGED <<input, st, role, text, indent, sawMessages, msgs, result>>
    BY <1>4, <1>5, <1>6, <1>9 DEF ParamLine, OutsideText, Outside, Reading
  <2>2. SubSeq(t.params, 1, at) = Append(SubSeq(t.params, 1, at - 1), p)
    BY <1>1 DEF p
  <2>3. at' <= n + 1 /\ at' - 1 = at
    BY <1>1, <2>1
  <2>4. AtHead(t)'
    BY <2>1, <2>2, <2>3 DEF AtHead
  <2> QED  BY <2>1, <2>4 DEF ReadSoFar
<1> QED  BY <1>7, <1>8, <1>9

LEMMA WrittenHeader ==
    ASSUME ParseType, NEW t, IsTalk(t), NEW i \in Nat, Layout(i, t), ParseNext,
           AtHead(t), at = Len(t.params) + 1
    PROVE  ReadSoFar(i, t)'
<1> DEFINE n == Len(t.params)
<1>1. n \in Nat /\ t.params \in Seq(Rests) /\ t.msgs \in Seq(Writable) /\ Len(t.msgs) \in Nat
  BY DEF IsTalk, Writable
<1>2. here = Line(0, FALSE, Header) /\ st = 0
  BY DEF Layout, here, AtHead
<1>3. Start(i, t)[1] = n + 1 /\ at <= Len(input)
  BY <1>1 DEF Layout
<1>4. here.rest = Header /\ ~here.tab /\ ~IsBlank(here) /\ here.rest \notin LongLines
  BY <1>2, RestsApart, ParseAssumption DEF Line, IsBlank
<1>5. ReadPayload \/ Messages
  <2>1. st # 3 /\ st # 1 /\ st # 2
    BY <1>2
  <2> QED  BY <1>3, <1>4, <2>1, OutsideNext, Zenon
<1>6. CASE ReadPayload
  BY <1>6 DEF ReadPayload, GiveBack, ReadSoFar
<1>7. CASE Messages
  <2>1. sawMessages' /\ st' = 1 /\ at' = at + 1 /\ result = "reading"
        /\ UNCHANGED <<input, role, text, indent, params, msgs, result>>
    BY <1>7 DEF Messages, OutsideText, Outside, Reading
  <2>2. params = t.params /\ msgs = SubSeq(t.msgs, 1, 1 - 1)
    BY <1>1 DEF AtHead
  <2>3. AtRole(i, t, 1)'
    BY <1>3, <2>1 DEF AtRole
  <2>4. AtMessage(i, t, 1)'
    BY <2>1, <2>2, <2>3 DEF AtMessage
  <2>5. 1 \in 1 .. Len(t.msgs) + 1
    BY <1>1
  <2> QED  BY <2>1, <2>4, <2>5 DEF ReadSoFar
<1> QED  BY <1>5, <1>6, <1>7

\* A message of the talk, and its lines in the file.
LEMMA MessageIs ==
    ASSUME ParseType, NEW t, IsTalk(t), NEW i, Layout(i, t), NEW m \in 1 .. Len(t.msgs)
    PROVE  /\ Len(t.msgs) \in Nat /\ t.msgs \in Seq(Writable) /\ t.msgs[m] \in Writable
           /\ m \in 1 .. Len(t.msgs) + 1 /\ m + 1 \in 1 .. Len(t.msgs) + 1
           /\ t.msgs[m].role \in Roles /\ t.msgs[m].text \in Seq(AnyLine)
           /\ Len(t.msgs[m].text) \in Nat /\ IsMsg(t.msgs[m])
           /\ Start(i, t)[m] \in Nat /\ Len(input) \in Nat
           /\ Start(i, t)[m + 1] = Start(i, t)[m] + 2 + Len(t.msgs[m].text)
           /\ Start(i, t)[m + 1] <= Len(input)
           /\ input[Start(i, t)[m] + 1] = Line(i, FALSE, RoleRest(t.msgs[m].role))
           /\ input[Start(i, t)[m] + 2] = Line(i + 2, FALSE, Content)
           /\ \A j \in 1 .. Len(t.msgs[m].text) :
                  input[Start(i, t)[m] + 2 + j] = WrittenLine(i, t.msgs[m].text[j])
<1>1. t.msgs \in Seq(Writable) /\ IsMsg(t.msgs[m])
  BY DEF IsTalk, Writable
<1>2. Len(t.msgs) \in Nat /\ t.msgs[m] \in Writable
  BY <1>1
<1>3. m \in 1 .. Len(t.msgs) + 1 /\ m + 1 \in 1 .. Len(t.msgs) + 1
  BY <1>2
<1>4. t.msgs[m].role \in Roles /\ t.msgs[m].text \in Seq(AnyLine)
  BY <1>2 DEF Writable
<1>5. Len(t.msgs[m].text) \in Nat
  BY <1>4
<1>6. Len(input) \in Nat
  BY DEF ParseType
<1>7. Start(i, t)[m] \in Nat /\ Start(i, t)[m + 1] <= Len(input)
  BY <1>3 DEF Layout
<1>8. /\ Start(i, t)[m + 1] = Start(i, t)[m] + 2 + Len(t.msgs[m].text)
      /\ input[Start(i, t)[m] + 1] = Line(i, FALSE, RoleRest(t.msgs[m].role))
      /\ input[Start(i, t)[m] + 2] = Line(i + 2, FALSE, Content)
      /\ \A j \in 1 .. Len(t.msgs[m].text) :
             input[Start(i, t)[m] + 2 + j] = WrittenLine(i, t.msgs[m].text[j])
  BY DEF Layout
<1> QED  BY <1>1, <1>2, <1>3, <1>4, <1>5, <1>6, <1>7, <1>8

\* In a message: its role, its content line and its text.
LEMMA WrittenRole ==
    ASSUME ParseType, NEW t, IsTalk(t), NEW i \in Nat, Layout(i, t), ParseNext,
           NEW m \in 1 .. Len(t.msgs), AtMessage(i, t, m), AtRole(i, t, m)
    PROVE  ReadSoFar(i, t)'
<1> DEFINE r == t.msgs[m].role
           len == Len(t.msgs[m].text)
           s == Start(i, t)[m]
<1>1. Len(t.msgs) \in Nat /\ m \in 1 .. Len(t.msgs) + 1
  BY MessageIs
<1>2. r \in Roles
  BY MessageIs
<1>3. s \in Nat /\ len \in Nat /\ Len(input) \in Nat /\ s + 2 + len <= Len(input)
  BY MessageIs
<1>4. here = Line(i, FALSE, RoleRest(r)) /\ st = 1
  BY MessageIs DEF here, AtRole
<1> HIDE DEF s, len
<1>5. at <= Len(input) /\ at + 1 = s + 2
  BY <1>3 DEF AtRole, s
<1>6. RoleRest(r) \in Rests \ LongLines
  BY <1>2, ParseAssumption
<1>7. here.rest = RoleRest(r) /\ ~here.tab /\ ~IsBlank(here) /\ here.rest \notin LongLines
  BY <1>4, <1>6, RestsApart DEF Line, IsBlank
<1>8. IsRole(here.rest) /\ here.rest[2] = r
  BY <1>2, <1>7, RestsApart DEF IsRole
<1> HIDE DEF r
<1>9. RoleLine
  <2>1. st # 0 /\ st # 2 /\ st # 3
    BY <1>4
  <2> QED  BY <1>5, <1>7, <2>1, OutsideNext, Zenon
<1>10. /\ role' = r /\ st' = 2 /\ at' = at + 1 /\ result = "reading"
       /\ UNCHANGED <<input, text, indent, sawMessages, params, msgs, result>>
  BY <1>8, <1>9 DEF RoleLine, OutsideText, Outside, Reading
<1>11. AtContent(i, t, m)'
  BY <1>1, <1>5, <1>10 DEF AtContent, r, s
<1>12. AtMessage(i, t, m)'
  BY <1>10, <1>11 DEF AtMessage
<1> QED  BY <1>1, <1>10, <1>12 DEF ReadSoFar

LEMMA WrittenContent ==
    ASSUME ParseType, NEW t, IsTalk(t), NEW i \in Nat, Layout(i, t), ParseNext,
           NEW m \in 1 .. Len(t.msgs), AtMessage(i, t, m), AtContent(i, t, m)
    PROVE  ReadSoFar(i, t)'
<1> DEFINE len == Len(t.msgs[m].text)
           s == Start(i, t)[m]
<1>1. Len(t.msgs) \in Nat /\ m \in 1 .. Len(t.msgs) + 1
  BY MessageIs
<1>2. t.msgs[m].text \in Seq(AnyLine) /\ Len(t.msgs[m].text) \in Nat
  BY MessageIs
<1>3. s \in Nat /\ len \in Nat /\ Len(input) \in Nat /\ s + 2 + len <= Len(input)
  BY MessageIs
<1>4. here = Line(i + 2, FALSE, Content) /\ st = 2 /\ role = t.msgs[m].role
  BY MessageIs DEF here, AtContent
<1> HIDE DEF s, len
<1>5. at <= Len(input) /\ at + 1 = s + 3 + 0
  BY <1>3 DEF AtContent, s
<1>6. Content \in Rests \ LongLines
  BY ParseAssumption
<1>7. /\ here.rest = Content /\ ~here.tab /\ ~IsBlank(here) /\ here.rest \notin LongLines
      /\ here.ind + 2 = i + 4
  BY <1>4, <1>6, RestsApart DEF Line, IsBlank
<1>8. ContentLine
  <2>1. st # 0 /\ st # 1 /\ st # 3
    BY <1>4
  <2> QED  BY <1>5, <1>7, <2>1, OutsideNext, Zenon
<1>9. /\ indent' = i + 4 /\ text' = << >> /\ st' = 3 /\ at' = at + 1 /\ result = "reading"
      /\ UNCHANGED <<input, role, sawMessages, params, msgs, result>>
  BY <1>7, <1>8 DEF ContentLine, OutsideText, Outside, Reading
<1>10. InText(i, t, m)'
  <2>1. 0 \in 0 .. Len(t.msgs[m].text) /\ SubSeq(t.msgs[m].text, 1, 0) = << >>
    BY <1>2
  <2> QED  BY <1>1, <1>4, <1>5, <1>9, <2>1 DEF InText, s
<1>11. AtMessage(i, t, m)'
  BY <1>9, <1>10 DEF AtMessage
<1> QED  BY <1>1, <1>9, <1>11 DEF ReadSoFar

LEMMA TextNext ==
    ASSUME ParseType, ParseNext, at <= Len(input), st = 3, here.rest \notin LongLines
    PROVE  (Belongs(here) /\ TextLine) \/ (~Belongs(here) /\ IsBlank(here))
           \/ (~Belongs(here) /\ ~IsBlank(here) /\ Flush)
<1>1. ~(at > Len(input))
  BY DEF ParseType
<1>2. ~EndOfFile
  BY <1>1 DEF EndOfFile
<1>3. ~LongLine
  BY DEF LongLine
<1>4. st # 0 /\ st # 1 /\ st # 2
  OBVIOUS
<1>5. /\ ~ReadPayload /\ ~TabIndent /\ ~BlankLine
      /\ ~Messages /\ ~ParamLine /\ ~RoleLine /\ ~ContentLine
  BY <1>4 DEF ReadPayload, TabIndent, BlankLine, Messages, ParamLine, RoleLine, ContentLine,
              OutsideText, Outside
<1>6. TextLine \/ BadBlank \/ Flush
  BY <1>2, <1>3, <1>5 DEF ParseNext
<1> QED  BY <1>6 DEF TextLine, BadBlank, Flush

LEMMA PrefixGrows ==
    ASSUME NEW S, NEW q \in Seq(S), NEW k \in 1 .. Len(q)
    PROVE  SubSeq(q, 1, k) = Append(SubSeq(q, 1, k - 1), q[k])
  OBVIOUS

LEMMA WrittenLineIs ==
    ASSUME ParseType, NEW i \in Nat, NEW l \in AnyLine, indent = i + 4
    PROVE  /\ WrittenLine(i, l).rest = l.rest
           /\ Belongs(WrittenLine(i, l)) /\ Unindented(WrittenLine(i, l)) = l
<1>1. Empty.rest = Blank /\ Empty.ind = 0
  BY DEF Empty, Line
<1>2. CASE l = Empty
  BY <1>1, <1>2 DEF WrittenLine, Belongs, Unindented
<1>3. CASE l # Empty
  <2> DEFINE w == [l EXCEPT !.ind = l.ind + i + 4]
  <2>1. WrittenLine(i, l) = w
    BY <1>3 DEF WrittenLine
  <2>2. l.ind \in Nat /\ l = [ind |-> l.ind, tab |-> l.tab, rest |-> l.rest]
    BY DEF AnyLine
  <2>3. w = [ind |-> l.ind + i + 4, tab |-> l.tab, rest |-> l.rest]
    BY <2>2
  <2> HIDE DEF w
  <2>4. w.ind = l.ind + i + 4 /\ w.rest = l.rest
    BY <2>3
  <2>5. w # Empty /\ w.ind >= indent /\ w.ind - indent = l.ind
    BY <1>1, <2>2, <2>4
  <2>6. [w EXCEPT !.ind = w.ind - indent] = l
    BY <2>2, <2>3, <2>5
  <2> QED  BY <2>1, <2>4, <2>5, <2>6 DEF Belongs, Unindented
<1> QED  BY <1>2, <1>3

\* A text's lines stand behind its content line.
LEMMA MessageText ==
    ASSUME ParseType, NEW t, IsTalk(t), NEW i, Layout(i, t), NEW m \in 1 .. Len(t.msgs)
    PROVE  \A k \in 1 .. Len(t.msgs[m].text) :
               input[Start(i, t)[m] + 2 + k] = WrittenLine(i, t.msgs[m].text[k])
BY DEF Layout

LEMMA WrittenTextLine ==
    ASSUME ParseType, NEW t, IsTalk(t), NEW i \in Nat, Layout(i, t), ParseNext,
           NEW m \in 1 .. Len(t.msgs), AtMessage(i, t, m), InText(i, t, m),
           NEW j \in 0 .. Len(t.msgs[m].text), j # Len(t.msgs[m].text),
           at = Start(i, t)[m] + 3 + j, text = SubSeq(t.msgs[m].text, 1, j)
    PROVE  ReadSoFar(i, t)'
<1> DEFINE x == t.msgs[m].text
           len == Len(x)
           s == Start(i, t)[m]
           l == x[j + 1]
<1>1. Len(t.msgs) \in Nat /\ m \in 1 .. Len(t.msgs) + 1 /\ m \in 1 .. Len(t.msgs)
  BY MessageIs
<1>2. x \in Seq(AnyLine) /\ len \in Nat
  BY MessageIs
<1>3. s \in Nat /\ Len(input) \in Nat /\ s + 2 + len <= Len(input)
  BY MessageIs
<1>4. j \in Nat /\ j + 1 \in 1 .. len /\ j + 1 \in 0 .. len /\ j + 1 <= len
  BY <1>2
<1>5. l \in AnyLine /\ l.rest \notin LongLines
  <2>1. IsMsg(t.msgs[m])
    BY MessageIs
  <2> QED  BY <1>2, <1>4, <2>1 DEF IsMsg
<1>6. input[s + 2 + (j + 1)] = WrittenLine(i, l)
  <2>1. \A k \in 1 .. len : input[s + 2 + k] = WrittenLine(i, x[k])
    BY MessageText
  <2> HIDE DEF s, len, x
  <2> QED  BY <1>4, <2>1
<1>7. SubSeq(x, 1, j + 1) = Append(SubSeq(x, 1, j), l)
  <2>1. PICK k : k = j + 1
    OBVIOUS
  <2>2. k \in 1 .. Len(x) /\ k - 1 = j
    BY <1>4, <2>1
  <2> HIDE DEF x
  <2>3. SubSeq(x, 1, k) = Append(SubSeq(x, 1, k - 1), x[k])
    BY <1>2, <2>2, PrefixGrows
  <2> QED  BY <2>1, <2>2, <2>3
<1> HIDE DEF s, len, l, x
<1>8. at <= Len(input) /\ at = s + 2 + (j + 1) /\ at + 1 = s + 3 + (j + 1)
  <2>1. at = s + 3 + j
    BY DEF s
  <2>2. PICK L : L = Len(input)
    OBVIOUS
  <2>3. at = s + 2 + (j + 1) /\ at + 1 = s + 3 + (j + 1)
    BY <1>3, <1>4, <2>1
  <2>4. L \in Nat /\ s + 2 + len <= L /\ j + 1 <= len
    BY <1>3, <1>4, <2>2
  <2>5. s + 2 + (j + 1) <= L
    BY <1>2, <1>3, <1>4, <2>4
  <2> QED  BY <2>2, <2>3, <2>5
<1>9. here = WrittenLine(i, l) /\ st = 3 /\ indent = i + 4 /\ role = t.msgs[m].role
  BY <1>6, <1>8 DEF here, InText
<1>10. Belongs(here) /\ Unindented(here) = l /\ here.rest \notin LongLines
  BY <1>5, <1>9, WrittenLineIs
<1>11. TextLine
  BY <1>8, <1>9, <1>10, TextNext
<1>12. /\ text' = Append(text, l) /\ at' = at + 1 /\ result = "reading"
       /\ UNCHANGED <<input, st, role, indent, sawMessages, params, msgs, result>>
  BY <1>10, <1>11 DEF TextLine, Reading
<1>13. InText(i, t, m)'
  <2>1. text = SubSeq(x, 1, j)
    BY DEF x
  <2>2. text' = SubSeq(x, 1, j + 1) /\ at' = s + 3 + (j + 1)
    BY <1>7, <1>8, <1>12, <2>1
  <2> QED  BY <1>1, <1>4, <1>9, <1>12, <2>2 DEF InText, s, len, x
<1>14. AtMessage(i, t, m)'
  BY <1>12, <1>13 DEF AtMessage
<1> QED  BY <1>1, <1>12, <1>14 DEF ReadSoFar

LEMMA AtEndNext ==
    ASSUME ParseNext, ~(at <= Len(input)), st # 0
    PROVE  EndOfFile
<1>1. ~ReadPayload /\ ~LongLine /\ ~TextLine /\ ~BadBlank /\ ~Flush
  BY DEF ReadPayload, LongLine, TextLine, BadBlank, Flush, Reading
<1>2. /\ ~TabIndent /\ ~BlankLine /\ ~Messages /\ ~ParamLine /\ ~RoleLine /\ ~ContentLine
  BY DEF TabIndent, BlankLine, Messages, ParamLine, RoleLine, ContentLine, OutsideText,
         Outside, Reading
<1> QED  BY <1>1, <1>2 DEF ParseNext

\* A text that has been read whole is the message's.
LEMMA WholeMsg ==
    ASSUME NEW m \in Writable, IsMsg(m)
    PROVE  Msg(m.role, SubSeq(m.text, 1, Len(m.text))) = m
<1>1. m.text \in Seq(AnyLine) /\ m.text # << >> /\ m = [role |-> m.role, text |-> m.text]
  BY DEF Writable, IsMsg
<1>2. SubSeq(m.text, 1, Len(m.text)) = m.text
  BY <1>1
<1> QED  BY <1>1, <1>2 DEF Msg, Joined

LEMMA WrittenTextEnd ==
    ASSUME ParseType, NEW t, IsTalk(t), NEW i \in Nat, Layout(i, t), ParseNext,
           NEW m \in 1 .. Len(t.msgs), AtMessage(i, t, m), InText(i, t, m),
           at = Start(i, t)[m] + 3 + Len(t.msgs[m].text),
           text = SubSeq(t.msgs[m].text, 1, Len(t.msgs[m].text))
    PROVE  ReadSoFar(i, t)'
<1> DEFINE M == Len(t.msgs)
           s1 == Start(i, t)[m + 1]
<1>1. /\ M \in Nat /\ m \in 1 .. M /\ m + 1 \in 1 .. M + 1 /\ t.msgs \in Seq(Writable)
      /\ t.msgs[m] \in Writable /\ IsMsg(t.msgs[m])
  BY MessageIs
<1>2. at = s1 + 1 /\ s1 \in Nat /\ s1 <= Len(input) /\ Len(input) \in Nat
  <2>1. PICK s, len : s = Start(i, t)[m] /\ len = Len(t.msgs[m].text)
    OBVIOUS
  <2>2. s \in Nat /\ len \in Nat /\ s1 = s + 2 + len /\ s1 <= Len(input) /\ Len(input) \in Nat
        /\ at = s + 3 + len
    BY <2>1, MessageIs
  <2> HIDE DEF s1
  <2> QED  BY <2>2
<1>3. /\ st = 3 /\ indent = i + 4 /\ sawMessages /\ params = t.params
      /\ msgs = SubSeq(t.msgs, 1, m - 1) /\ Msg(role, text) = t.msgs[m]
  BY <1>1, WholeMsg DEF InText, AtMessage
<1>4. SubSeq(t.msgs, 1, m) = Append(SubSeq(t.msgs, 1, m - 1), t.msgs[m])
  BY <1>1, PrefixGrows
<1>5. CASE m # M
  <2>1. m + 1 \in 1 .. M
    BY <1>1, <1>5
  <2>2. /\ input[s1 + 1] = Line(i, FALSE, RoleRest(t.msgs[m + 1].role))
        /\ t.msgs[m + 1].role \in Roles /\ s1 + 2 <= Len(input)
    <3>1. PICK k : k = m + 1
      OBVIOUS
    <3>2. PICK s, len : s = Start(i, t)[k] /\ len = Len(t.msgs[k].text)
      OBVIOUS
    <3>3. /\ s \in Nat /\ len \in Nat /\ Len(input) \in Nat /\ s + 2 + len <= Len(input)
          /\ input[s + 1] = Line(i, FALSE, RoleRest(t.msgs[k].role)) /\ t.msgs[k].role \in Roles
      BY <2>1, <3>1, <3>2, MessageIs, ZenonT(60)
    <3>4. s + 2 <= Len(input)
      BY <3>3
    <3> QED  BY <3>1, <3>2, <3>3, <3>4
  <2> HIDE DEF s1
  <2>3. at <= Len(input)
    BY <1>2, <2>2
  <2>4. PICK r \in Roles : here = Line(i, FALSE, RoleRest(r))
    BY <1>2, <2>2 DEF here
  <2>5. RoleRest(r) \in Rests \ LongLines
    BY ParseAssumption
  <2>6. here.rest \notin LongLines /\ ~IsBlank(here) /\ here.ind = i
    BY <2>4, <2>5, RestsApart DEF Line, IsBlank
  <2>7. ~Belongs(here)
    <3>1. Empty.rest = Blank
      BY DEF Empty, Line
    <3>2. here # Empty
      BY <2>6, <3>1 DEF IsBlank
    <3>3. ~(i >= i + 4)
      OBVIOUS
    <3> QED  BY <1>3, <2>6, <3>2, <3>3 DEF Belongs
  <2>8. Flush
    BY <1>3, <2>3, <2>6, <2>7, TextNext
  <2>9. /\ msgs' = Append(msgs, t.msgs[m]) /\ st' = 1 /\ at' = at /\ result = "reading"
        /\ UNCHANGED <<input, sawMessages, params, result>>
    BY <1>3, <2>8 DEF Flush, AfterFlush, Reading
  <2>10. AtRole(i, t, m + 1)'
    BY <1>2, <2>9 DEF AtRole, s1
  <2>11. msgs' = SubSeq(t.msgs, 1, (m + 1) - 1)
    BY <1>1, <1>3, <1>4, <2>9
  <2>12. AtMessage(i, t, m + 1)'
    BY <1>3, <2>9, <2>10, <2>11 DEF AtMessage
  <2> QED  BY <1>1, <2>9, <2>12 DEF ReadSoFar
<1>6. CASE m = M
  <2>1. Len(input) = s1
    BY <1>6 DEF Layout
  <2> HIDE DEF s1
  <2>2. at > Len(input) /\ ~(at <= Len(input))
    BY <1>2, <2>1
  <2>3. EndOfFile
    BY <1>3, <2>2, AtEndNext
  <2>4. /\ msgs' = Append(msgs, t.msgs[m]) /\ result' = NoString /\ params' = params
    BY <1>3, <2>3 DEF EndOfFile
  <2>5. SubSeq(t.msgs, 1, m) = t.msgs
    BY <1>1, <1>6
  <2> QED  BY <1>3, <1>4, <2>4, <2>5 DEF ReadSoFar
<1> QED  BY <1>5, <1>6

LEMMA WrittenEnd ==
    ASSUME ParseType, NEW t, IsTalk(t), NEW i \in Nat, Layout(i, t), ParseNext,
           AtMessage(i, t, Len(t.msgs) + 1)
    PROVE  ReadSoFar(i, t)'
<1> DEFINE M == Len(t.msgs)
<1>1. M \in Nat /\ t.msgs \in Seq(Writable) /\ t.msgs # << >> /\ ~(M + 1 <= M) /\ M + 1 \in 1 .. M + 1
  BY DEF IsTalk, Writable
<1>2. Len(input) = Start(i, t)[M + 1] /\ Len(input) \in Nat
  BY DEF Layout, ParseType
<1>3. AtRole(i, t, M + 1) /\ msgs = SubSeq(t.msgs, 1, (M + 1) - 1) /\ sawMessages
      /\ params = t.params
  BY <1>1 DEF AtMessage, AtContent, InText
<1>4. msgs = t.msgs
  BY <1>1, <1>3
<1>5. at > Len(input) /\ ~(at <= Len(input)) /\ st = 1 /\ st # 0
  BY <1>2, <1>3 DEF AtRole
<1>6. EndOfFile
  BY <1>5, AtEndNext
<1>7. result' = NoString /\ msgs' = msgs /\ params' = params
  <2>1. msgs # << >> /\ st # 2 /\ st # 3
    BY <1>1, <1>4, <1>5
  <2> QED  BY <1>3, <1>6, <2>1 DEF EndOfFile
<1> QED  BY <1>3, <1>4, <1>7 DEF ReadSoFar

LEMMA Stopped == ParseNext => result = "reading"
  BY DEF ParseNext, ReadPayload, LongLine, TextLine, BadBlank, Flush, TabIndent, BlankLine,
         Messages, ParamLine, RoleLine, ContentLine, EndOfFile, OutsideText, Outside, Reading

LEMMA InputStays == [ParseNext]_parseVars => input' = input
  BY DEF ParseNext, ReadPayload, LongLine, TextLine, BadBlank, Flush, TabIndent, BlankLine,
         Messages, ParamLine, RoleLine, ContentLine, EndOfFile, GiveBack, parseVars

LEMMA ReadInitInv == ParseInit => ReadInv
<1> SUFFICES ASSUME ParseInit, NEW t \in Talks, NEW i \in Indents PROVE ReadSoFar(i, t)
  BY DEF ReadInv
<1>1. IsTalk(t)
  BY ParseAssumption
<1>2. t.params \in Seq(Rests) /\ Len(t.params) \in Nat
  BY <1>1 DEF IsTalk
<1>3. ~sawMessages
  BY Zenon DEF ParseInit
<1>4. SubSeq(t.params, 1, 1 - 1) = << >> /\ 1 <= Len(t.params) + 1
  BY <1>2
<1>5. at = 1 /\ st = 0 /\ params = << >> /\ msgs = << >> /\ result = "reading"
  BY DEF ParseInit
<1>6. AtHead(t)
  BY <1>3, <1>4, <1>5 DEF AtHead
<1> QED  BY <1>5, <1>6 DEF ReadSoFar

LEMMA ReadNextInv == ParseInv /\ ReadInv /\ [ParseNext]_parseVars => ReadInv'
<1> SUFFICES ASSUME ParseInv, ReadInv, [ParseNext]_parseVars,
                    NEW t \in Talks, NEW i \in Indents, input' = Written(i, t)
             PROVE  ReadSoFar(i, t)'
  BY DEF ReadInv
<1>1. ParseType /\ IsTalk(t) /\ i \in Nat /\ input = Written(i, t)
  BY ParseAssumption, InputStays DEF ParseInv
<1>2. Layout(i, t) /\ ReadSoFar(i, t)
  BY <1>1, WrittenLayout DEF ReadInv
<1>3. CASE UNCHANGED parseVars
  BY <1>2, <1>3 DEF parseVars, ReadSoFar, AtHead, AtMessage, AtRole, AtContent, InText
<1>4. CASE ParseNext
  <2>1. result = "reading"
    BY <1>4, Stopped
  <2>2. CASE AtHead(t)
    <3>1. Len(t.params) \in Nat /\ at \in Nat /\ at <= Len(t.params) + 1
      BY <1>1, <2>2 DEF IsTalk, ParseType, AtHead
    <3>2. at <= Len(t.params) \/ at = Len(t.params) + 1
      BY <3>1
    <3> QED  BY <1>1, <1>2, <1>4, <2>2, <3>2, WrittenParam, WrittenHeader
  <2>3. ASSUME NEW m \in 1 .. Len(t.msgs) + 1, AtMessage(i, t, m) PROVE ReadSoFar(i, t)'
    <3>1. Len(t.msgs) \in Nat
      BY <1>1 DEF IsTalk
    <3>2. m \in 1 .. Len(t.msgs) \/ m = Len(t.msgs) + 1
      BY <3>1
    <3>3. CASE m = Len(t.msgs) + 1
      BY <1>1, <1>2, <1>4, <2>3, <3>3, WrittenEnd
    <3>4. CASE m \in 1 .. Len(t.msgs)
      <4>1. CASE AtRole(i, t, m)
        BY <1>1, <1>2, <1>4, <2>3, <3>4, <4>1, WrittenRole
      <4>2. CASE AtContent(i, t, m)
        BY <1>1, <1>2, <1>4, <2>3, <3>4, <4>2, WrittenContent
      <4>3. CASE InText(i, t, m)
        <5>1. PICK j \in 0 .. Len(t.msgs[m].text) :
                  at = Start(i, t)[m] + 3 + j /\ text = SubSeq(t.msgs[m].text, 1, j)
          BY <4>3 DEF InText
        <5>2. CASE j # Len(t.msgs[m].text)
          BY <1>1, <1>2, <1>4, <2>3, <3>4, <4>3, <5>1, <5>2, WrittenTextLine
        <5>3. CASE j = Len(t.msgs[m].text)
          BY <1>1, <1>2, <1>4, <2>3, <3>4, <4>3, <5>1, <5>3, WrittenTextEnd
        <5> QED  BY <5>2, <5>3
      <4> QED  BY <2>3, <4>1, <4>2, <4>3 DEF AtMessage
    <3> QED  BY <3>2, <3>3, <3>4
  <2>4. result # NoString /\ result \notin {"read", "max_in"}
    BY <2>1, Faults
  <2> QED  BY <1>2, <2>1, <2>2, <2>3, <2>4 DEF ReadSoFar
<1> QED  BY <1>3, <1>4

\* No line of a payload file with something on it is dropped or taken twice, whatever
\* the file and wherever turn.ParseWith is in it.
THEOREM EveryLineTaken == ParseSpec => []NoLineDropped
<1>1. ParseInv => NoLineDropped
  BY DEF ParseInv
<1> QED  BY <1>1, ParseInitInv, ParseNextInv, PTL DEF ParseSpec

\* What is written, with any indentation and any texts, is what turn.ParseWith returns,
\* unless the file could not be read.
THEOREM ParseReadsWhatIsWritten == ParseSpec => []WrittenIsRead
<1>1. ReadInv => WrittenIsRead
  BY Faults DEF ReadInv, ReadSoFar, WrittenIsRead
<1> QED  BY <1>1, ParseInitInv, ParseNextInv, ReadInitInv, ReadNextInv, PTL DEF ParseSpec
=============================================================================
