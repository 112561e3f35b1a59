-------------------------------- MODULE JsnProofs ------------------------------
(***************************************************************************)
(* Theorems about Parse, with their proofs: its types, that what it        *)
(* reports is located where it is, and that its events nest.               *)
(***************************************************************************)
EXTENDS JsnPull, FiniteSetTheorems, SequenceTheorems, TLAPS

-----------------------------------------------------------------------------
(* The inductive invariants.                                               *)

AllTrue(evs, s) == evs \in Seq(Events) /\ \A i \in 1 .. Len(evs) : EventTrue(evs[i], s)

Places == Between \union StrPlaces \union NumPlaces \union Literals \union {"bom"}

\* The token under way, at a place: its next part begins in s, and a number or a
\* literal would end at nloc.
TokTrue(place, t, s) ==
    /\ place \in Places
    /\ t \in [seg : Loc, nloc : Loc, key : BOOLEAN, due : Seq(SUBSET DueChars)]
    /\ Len(t.due) <= 4
    /\ place \in StrPlaces \union NumPlaces => LocTrue(t.seg, s)
    /\ place \in NumPlaces \union Literals => LocTrue(t.nloc, s)
    /\ place = "bom" => Len(s) < 3

RetTrue(r, s) ==
    /\ r \in [cause : Causes \union {"none"}, loc : Loc]
    /\ (r.loc # NoLoc => LocTrue(r.loc, s))

StackType == stk \in Seq({"objn", "arrn"}) /\ Len(stk) <= MaxDep

\* c is at the place behind s.
NextIs(c, s) == c \in CharsAt(Len(s) + 1) \union {EndOfBuf, EndOfText}

\* The parser is where it says, and so is what it holds and has reported.
LocInv ==
    /\ text \in Texts
    /\ input \in Seq(STRING) /\ \A i \in 1 .. Len(input) : input[i] \in CharsAt(i)
    /\ NextIs(nxt, input)
    /\ loc \in Loc /\ loc.off = Len(input) /\ LocTrue(loc, input)
    /\ StackType
    /\ TokTrue(at, tok, input)
    /\ AllTrue(got, input)
    /\ RetTrue(ret, input)

Top(st) == st[Len(st)]
Inside(st, open) == st # << >> /\ Top(st) = open

\* The place fits the innermost object or array.
PlaceFits(place, key, st) ==
    /\ place \in {"obj0", "key", "colon", "objn"} => Inside(st, "objn")
    /\ place \in {"arr0", "arrn"} => Inside(st, "arrn")
    /\ place \in StrPlaces /\ key => Inside(st, "objn")
    /\ place = "end" => st = << >>

\* What opened the d-th object or array is in g, and open behind it.
OpenedBy(open) == IF open = "objn" THEN "OBeg" ELSE "ABeg"
Stays(g, i, d) == Depth(g, i) = d /\ \A j \in i .. Len(g) : Depth(g, j) >= d
LeftOpen(g, st) ==
    /\ Depth(g, Len(g)) = Len(st)
    /\ \A d \in 1 .. Len(st) : \E i \in 1 .. Len(g) :
          g[i].kind = OpenedBy(st[d]) /\ Stays(g, i, d)

Last(g) == g[Len(g)]
Parts == {"KPar", "SPar", "NPar"}
Settled == Kinds \ ({"KBeg", "KEnd", "SBeg", "NBeg"} \union Parts)

\* A value may begin.
ValueDue(g, st) ==
    \/ g = << >>
    \/ Last(g).kind = "KEnd"
    \/ Inside(st, "arrn") /\ Last(g).kind \in Settled

\* The parts of the token so far end at the offset.
PartsMeet(g, off) == Last(g).kind \in Parts => Last(g).loc.off + Len(Last(g).data) = off

\* What was received last fits the place, and the token whose next part begins at from.
LastFits(place, key, from, st, g, off) ==
    /\ place \in {"val", "bom"} \union Literals => ValueDue(g, st)
    /\ place = "bom" => g = << >>
    /\ place \notin {"val", "bom"} \union Literals => g # << >>
    /\ place \in {"obj0", "key", "objn", "arr0", "arrn", "end"} => Last(g).kind \in Settled
    /\ place = "colon" => Last(g).kind = "KEnd"
    /\ place \in StrPlaces =>
          /\ Last(g).kind \in (IF key THEN {"KBeg", "KPar"} ELSE {"SBeg", "SPar"})
          /\ PartsMeet(g, from)
    /\ place \in NumPlaces =>
          /\ \/ Last(g).kind = "NBeg" /\ from < off
             \/ Last(g).kind = "NPar"
          /\ PartsMeet(g, from)

\* The events so far nest, and leave open what the stack says.
AllFit(g) == \A i \in 1 .. Len(g) : EventFits(g, i)
Report(g, st) ==
    /\ g \in Seq(Events) /\ AllFit(g)
    /\ st \in Seq({"objn", "arrn"}) /\ Len(st) <= MaxDep /\ LeftOpen(g, st)

NestInv ==
    /\ AllFit(got)
    /\ ret.cause = "" => got # << >> /\ Depth(got, Len(got)) = 0
    /\ Running => /\ LeftOpen(got, stk)
                  /\ PlaceFits(at, tok.key, stk)
                  /\ LastFits(at, tok.key, tok.seg.off, stk, got, loc.off)

-----------------------------------------------------------------------------
(* Counting, and locations.                                                *)

LEMMA EventParts ==
    ASSUME NEW ev \in Events
    PROVE  /\ ev.kind \in Kinds /\ ev.data \in Seq(STRING) /\ ev.loc \in Loc
           /\ Len(ev.data) \in Nat /\ ev.loc.off \in Nat
BY DEF Events, Loc

\* A set of places within the first n, and the next place.
LEMMA CountStep ==
    ASSUME NEW n \in Nat, NEW A \in SUBSET (1 .. n)
    PROVE  /\ IsFiniteSet(A) /\ Cardinality(A) \in Nat
           /\ Cardinality(A \union {n + 1}) = Cardinality(A) + 1
<1>1. IsFiniteSet(A)
  <2>1. IsFiniteSet(1 .. n)
    BY FS_Interval
  <2> QED  BY <2>1, FS_Subset
<1>2. n + 1 \notin A
  OBVIOUS
<1> QED  BY <1>1, <1>2, FS_AddElement, FS_CardinalityType

\* What is located in a text stays so when a character follows.
LEMMA LocGrows ==
    ASSUME NEW s \in Seq(STRING), NEW c, NEW l \in Loc, LocTrue(l, s)
    PROVE  LocTrue(l, Append(s, c))
<1> PICK t : t = Append(s, c)
  OBVIOUS
<1>1. Len(t) = Len(s) + 1 /\ Len(s) \in Nat /\ \A i \in 1 .. Len(s) : t[i] = s[i]
  OBVIOUS
<1>2. l.off \in Nat /\ l.off <= Len(s)
  BY DEF LocTrue, Loc
<1>3. Feeds(t, l.off) = Feeds(s, l.off)
  BY <1>1, <1>2 DEF Feeds
<1> QED  BY <1>1, <1>2, <1>3 DEF LocTrue

After(l, c) == IF c = "nl" THEN [off |-> l.off + 1, row |-> l.row + 1, col |-> 1]
                           ELSE [l EXCEPT !.off = @ + 1, !.col = @ + 1]

\* The location behind the end of a text, when a character has been taken.
LEMMA LocAdvances ==
    ASSUME NEW s \in Seq(STRING), NEW c \in STRING, NEW l \in Loc, LocTrue(l, s), l.off = Len(s)
    PROVE  /\ After(l, c) \in Loc
           /\ After(l, c).off = Len(Append(s, c))
           /\ LocTrue(After(l, c), Append(s, c))
<1> PICK t : t = Append(s, c)
  OBVIOUS
<1> PICK n : n = Len(s)
  OBVIOUS
<1>1. Len(t) = n + 1 /\ n \in Nat /\ (\A i \in 1 .. n : t[i] = s[i]) /\ t[n + 1] = c
  OBVIOUS
<1>2. l.off = n /\ l.row \in Nat /\ l.col \in Nat
  BY DEF Loc
<1>3. PICK A \in SUBSET (1 .. n) : A = Feeds(s, n)
  BY DEF Feeds
<1>4. Cardinality(A \union {n + 1}) = Cardinality(A) + 1 /\ Cardinality(A) \in Nat
  BY <1>1, CountStep
<1>5. /\ l.row = 1 + Cardinality(A)
      /\ \E last \in A \union {0} : (\A i \in A : i <= last) /\ l.col = n + 1 - last
  BY <1>2, <1>3 DEF LocTrue
<1>6. Feeds(t, n + 1) = IF c = "nl" THEN A \union {n + 1} ELSE A
  BY <1>1, <1>3 DEF Feeds
<1>7. CASE c = "nl"
  <2>1. PICK a : a = After(l, c)
    OBVIOUS
  <2>2. a = [off |-> n + 1, row |-> l.row + 1, col |-> 1]
    BY <1>2, <1>7, <2>1 DEF After
  <2>3. a \in Loc /\ a.off = n + 1 /\ a.row = 1 + Cardinality(A \union {n + 1})
    BY <1>1, <1>2, <1>4, <1>5, <2>2 DEF Loc
  <2>4. /\ n + 1 \in A \union {n + 1} /\ \A i \in A \union {n + 1} : i <= n + 1
        /\ a.col = n + 1 + 1 - (n + 1)
    BY <1>1, <2>2
  <2> QED  BY <1>1, <1>6, <1>7, <2>1, <2>3, <2>4 DEF LocTrue
<1>8. CASE c # "nl"
  <2>1. PICK a : a = After(l, c)
    OBVIOUS
  <2>2. a = [off |-> n + 1, row |-> l.row, col |-> l.col + 1]
    BY <1>2, <1>8, <2>1 DEF After, Loc
  <2>3. a \in Loc /\ a.off = n + 1 /\ a.row = 1 + Cardinality(A)
    BY <1>1, <1>2, <1>5, <2>2 DEF Loc
  <2>4. \E last \in A \union {0} : (\A i \in A : i <= last) /\ a.col = n + 1 + 1 - last
    <3>1. PICK last \in A \union {0} : (\A i \in A : i <= last) /\ l.col = n + 1 - last
      BY <1>5
    <3>2. a.col = n + 1 + 1 - last
      BY <1>1, <2>2, <3>1
    <3> QED  BY <3>1, <3>2
  <2>5. Feeds(t, a.off) = A /\ a.off <= Len(t)
    BY <1>1, <1>6, <1>8, <2>3
  <2>6. LocTrue(a, t)
    BY <1>1, <2>3, <2>4, <2>5 DEF LocTrue
  <2> QED  BY <1>1, <2>1, <2>3, <2>6
<1> QED  BY <1>7, <1>8

\* A part of a sequence depends on its elements there.
LEMMA SubSeqSame ==
    ASSUME NEW s, NEW t, NEW m \in Int, NEW n \in Int,
           \A i \in m .. n : s[i] \in STRING /\ t[i] = s[i]
    PROVE  SubSeq(t, m, n) = SubSeq(s, m, n)
<1> PICK a : a = SubSeq(s, m, n)
  OBVIOUS
<1> PICK b : b = SubSeq(t, m, n)
  OBVIOUS
<1>1. /\ a \in Seq(STRING) /\ Len(a) = IF m <= n THEN n - m + 1 ELSE 0
      /\ \A i \in 1 .. n - m + 1 : a[i] = s[m + i - 1]
  BY SubSeqProperties
<1>2. /\ b \in Seq(STRING) /\ Len(b) = IF m <= n THEN n - m + 1 ELSE 0
      /\ \A i \in 1 .. n - m + 1 : b[i] = t[m + i - 1]
  BY SubSeqProperties
<1>3. ASSUME NEW i \in 1 .. Len(a) PROVE a[i] = b[i]
  BY <1>1, <1>2
<1> QED  BY <1>1, <1>2, <1>3, SeqEqual

LEMMA EventGrows ==
    ASSUME NEW s \in Seq(STRING), NEW c, NEW ev \in Events,
           EventTrue(ev, s)
    PROVE  EventTrue(ev, Append(s, c))
<1> PICK t : t = Append(s, c)
  OBVIOUS
<1>1. Len(t) = Len(s) + 1 /\ Len(s) \in Nat /\ \A i \in 1 .. Len(s) : t[i] = s[i]
  OBVIOUS
<1>2. /\ ev.loc \in Loc /\ ev.loc.off \in Nat /\ Len(ev.data) \in Nat
      /\ ev.loc.off + Len(ev.data) <= Len(s)
  BY EventParts DEF EventTrue
<1>3. LocTrue(ev.loc, t)
  BY <1>2, LocGrows DEF EventTrue
<1>4. SubSeq(t, ev.loc.off + 1, ev.loc.off + Len(ev.data))
      = SubSeq(s, ev.loc.off + 1, ev.loc.off + Len(ev.data))
  <2>1. PICK m \in Int : m = ev.loc.off + 1
    BY <1>2
  <2>2. PICK n \in Int : n = ev.loc.off + Len(ev.data)
    BY <1>2
  <2>3. \A i \in m .. n : s[i] \in STRING /\ t[i] = s[i]
    BY <1>1, <1>2, <2>1, <2>2
  <2>4. SubSeq(t, m, n) = SubSeq(s, m, n)
    BY <2>3, SubSeqSame
  <2> QED  BY <2>1, <2>2, <2>4
<1> QED  BY <1>1, <1>2, <1>3, <1>4 DEF EventTrue

\* The part of s between two places, and the two parts on either side of one.
LEMMA PartTrue ==
    ASSUME NEW s \in Seq(STRING), NEW l \in Loc, LocTrue(l, s), NEW n \in Nat,
           l.off <= n, n <= Len(s), NEW kind \in Kinds
    PROVE  LET ev == Event(kind, SubSeq(s, l.off + 1, n), l)
           IN  /\ ev \in Events
               /\ EventTrue(ev, s)
               /\ Len(ev.data) = n - l.off
<1>1. l.off \in Nat
  BY DEF Loc
<1>2. PICK d : d = SubSeq(s, l.off + 1, n)
  OBVIOUS
<1>3. d \in Seq(STRING) /\ Len(d) = n - l.off
  BY <1>1, <1>2
<1>4. PICK ev : ev = Event(kind, d, l)
  OBVIOUS
<1>5. ev.kind = kind /\ ev.data = d /\ ev.loc = l /\ ev \in Events
  BY <1>3, <1>4 DEF Event, Events
<1>6. l.off + Len(d) = n
  BY <1>1, <1>3
<1> QED  BY <1>2, <1>3, <1>4, <1>5, <1>6 DEF EventTrue

-----------------------------------------------------------------------------
(* What on receives.                                                       *)

\* t is g with ev joined to its last event.
Extends(t, g, ev) ==
    /\ t \in Seq(Events) /\ Len(t) = Len(g)
    /\ \A i \in 1 .. Len(g) : t[i].kind = g[i].kind /\ t[i].loc = g[i].loc
    /\ \A i \in 1 .. Len(g) - 1 : t[i] = g[i]
    /\ t[Len(g)].data = g[Len(g)].data \o ev.data

\* A part goes on with the last event.
GoesOn(g, ev) ==
    /\ Len(g) > 0 /\ ev.kind \in Parts /\ g[Len(g)].kind = ev.kind
    /\ ev.loc.off = g[Len(g)].loc.off + Len(g[Len(g)].data)

\* An event joins the one it goes on with, or stands behind what there is.
LEMMA JoinedIs ==
    ASSUME NEW g \in Seq(Events), NEW ev \in Events
    PROVE  IF GoesOn(g, ev) THEN Extends(Joined(g, ev), g, ev)
                            ELSE Joined(g, ev) = Append(g, ev)
<1> PICK n \in Nat : n = Len(g)
  OBVIOUS
<1>0. n > 0 <=> g # << >>
  OBVIOUS
<1>1. CASE GoesOn(g, ev)
  <2>1. n > 0 /\ g[n] \in Events
    BY <1>1 DEF GoesOn
  <2>2. g[n].data \in Seq(STRING) /\ ev.data \in Seq(STRING)
    BY <2>1, EventParts
  <2>3. PICK d \in Seq(STRING) : d = g[n].data \o ev.data
    BY <2>2, ConcatProperties
  <2>4. PICK e : e = [g[n] EXCEPT !.data = d]
    OBVIOUS
  <2>5. e.kind = g[n].kind /\ e.loc = g[n].loc /\ e.data = d /\ e \in Events
    BY <2>1, <2>4 DEF Events
  <2>6. PICK t : t = [g EXCEPT ![n] = e]
    OBVIOUS
  <2>7. t \in Seq(Events) /\ Len(t) = n /\ \A i \in 1 .. n : t[i] = IF i = n THEN e ELSE g[i]
    BY <2>1, <2>5, <2>6
  <2>8. Joined(g, ev) = t
    BY <1>0, <1>1, <2>3, <2>4, <2>6 DEF Joined, GoesOn, Parts
  <2>9. t[n] = e /\ \A i \in 1 .. n - 1 : t[i] = g[i]
    BY <2>1, <2>7
  <2>10. \A i \in 1 .. n : t[i].kind = g[i].kind /\ t[i].loc = g[i].loc
    BY <2>5, <2>7
  <2> QED  BY <1>1, <2>3, <2>5, <2>7, <2>8, <2>9, <2>10 DEF Extends
<1>2. CASE ~GoesOn(g, ev)
  BY <1>0, <1>2 DEF Joined, GoesOn, Parts
<1> QED  BY <1>1, <1>2

LEMMA JoinedTrue ==
    ASSUME NEW s \in Seq(STRING), NEW g, AllTrue(g, s), NEW ev \in Events, EventTrue(ev, s)
    PROVE  AllTrue(Joined(g, ev), s)
<1> PICK n \in Nat : n = Len(g)
  BY DEF AllTrue
<1> PICK t : t = Joined(g, ev)
  OBVIOUS
<1>0. g \in Seq(Events)
  BY DEF AllTrue
<1>1. CASE ~GoesOn(g, ev)
  <2>1. t = Append(g, ev)
    BY <1>0, <1>1, JoinedIs
  <2> QED  BY <1>0, <2>1 DEF AllTrue
<1>2. CASE GoesOn(g, ev)
  <2>1. /\ n > 0 /\ ev.loc.off = g[n].loc.off + Len(g[n].data)
        /\ t \in Seq(Events) /\ Len(t) = n /\ t[n].loc = g[n].loc
        /\ \A i \in 1 .. n - 1 : t[i] = g[i]
        /\ t[n].data = g[n].data \o ev.data
    <3>1. Extends(t, g, ev)
      BY <1>0, <1>2, JoinedIs
    <3> QED  BY <1>2, <3>1 DEF Extends, GoesOn
  <2>2. g[n] \in Events /\ EventTrue(g[n], s)
    BY <2>1 DEF AllTrue
  <2>3. PICK a \in Nat : a = g[n].loc.off
    BY <2>2, EventParts
  <2>k. PICK k \in Nat : k = Len(g[n].data)
    BY <2>2, EventParts
  <2>4. PICK b \in Nat : b = a + k
    OBVIOUS
  <2>w. PICK w \in Nat : w = Len(ev.data)
    BY EventParts
  <2>5. PICK c \in Nat : c = b + w
    OBVIOUS
  <2>6. /\ a <= b /\ b <= c /\ c <= Len(s) /\ LocTrue(t[n].loc, s)
        /\ t[n].data = SubSeq(s, a + 1, b) \o SubSeq(s, b + 1, c)
    <3>1. /\ g[n].data = SubSeq(s, a + 1, a + k) /\ LocTrue(g[n].loc, s)
      BY <2>2, <2>3, <2>k DEF EventTrue
    <3>2. /\ ev.data = SubSeq(s, b + 1, b + w) /\ b + w <= Len(s)
      BY <2>1, <2>3, <2>k, <2>4, <2>w DEF EventTrue
    <3> QED  BY <2>1, <2>4, <2>5, <3>1, <3>2
  <2>7. SubSeq(s, a + 1, b) \o SubSeq(s, b + 1, c) = SubSeq(s, a + 1, c)
    <3>1. PICK m \in 1 .. Len(s) + 1 : m = a + 1
      BY <2>6
    <3>2. b \in m - 1 .. Len(s) /\ c \in b .. Len(s)
      BY <2>6, <3>1
    <3> QED  BY <3>1, <3>2, ConcatAdjacentSubSeq
  <2>8. Len(t[n].data) = c - a
    <3>1. g[n].data \in Seq(STRING) /\ ev.data \in Seq(STRING)
      BY <2>2, EventParts
    <3>2. Len(g[n].data \o ev.data) = k + w
      BY <2>k, <2>w, <3>1, ConcatProperties
    <3> QED  BY <2>1, <2>4, <2>5, <3>2
  <2>9. EventTrue(t[n], s)
    <3>1. a + (c - a) = c
      OBVIOUS
    <3> QED  BY <2>1, <2>3, <2>6, <2>7, <2>8, <3>1 DEF EventTrue
  <2> QED  BY <2>1, <2>9 DEF AllTrue
<1> QED  BY <1>1, <1>2

\* The events delivered are true of a text, so those received are.
LEMMA DeliverTrue ==
    ASSUME NEW s \in Seq(STRING), AllTrue(got, s), NEW evs, AllTrue(evs, s), Len(evs) <= 2,
           NEW r, Deliver(evs, r)
    PROVE  /\ AllTrue(got', s)
           /\ \/ ret' = r
              \/ \E n \in 1 .. Len(evs) : ret' = Returned("cb_fail", evs[n].loc)
<1>1. Len(evs) \in 0 .. 2 /\ \A n \in 1 .. Len(evs) : evs[n] \in Events /\ EventTrue(evs[n], s)
  <2>1. evs \in Seq(Events)
    BY DEF AllTrue
  <2>2. Len(evs) \in Nat /\ \A n \in 1 .. Len(evs) : evs[n] \in Events
    BY <2>1
  <2>3. \A n \in 1 .. Len(evs) : EventTrue(evs[n], s)
    BY DEF AllTrue
  <2>n. PICK n \in Nat : n = Len(evs)
    BY <2>2
  <2>4. n \in 0 .. 2
    BY <2>n
  <2> QED  BY <2>n, <2>2, <2>3, <2>4
<1>2. \/ ret' = r
      \/ \E n \in 1 .. Len(evs) : ret' = Returned("cb_fail", evs[n].loc)
  BY DEF Deliver
<1>3. \/ got' = got
      \/ 1 <= Len(evs) /\ got' = Joined(got, evs[1])
      \/ 2 <= Len(evs) /\ got' = Joined(Joined(got, evs[1]), evs[2])
  BY <1>1 DEF Deliver
<1>4. ASSUME 1 <= Len(evs) PROVE AllTrue(Joined(got, evs[1]), s)
  BY <1>1, <1>4, JoinedTrue
<1>5. ASSUME 2 <= Len(evs) PROVE AllTrue(Joined(Joined(got, evs[1]), evs[2]), s)
  <2>1. AllTrue(Joined(got, evs[1]), s)
    BY <1>1, <1>4, <1>5
  <2> QED  BY <1>1, <1>5, <2>1, JoinedTrue
<1> QED  BY <1>2, <1>3, <1>4, <1>5

-----------------------------------------------------------------------------
(* Types and locations.                                                    *)

\* A step that reads on, or not, and whose events and places are true.
Moves ==
    /\ text' = text
    /\ \/ input' = input /\ loc' = loc /\ NextIs(nxt', input)
       \/ Take /\ nxt \notin {EndOfBuf, EndOfText}

LEMMA AllGrows ==
    ASSUME NEW s \in Seq(STRING), NEW c, NEW g, AllTrue(g, s)
    PROVE  AllTrue(g, Append(s, c))
<1>1. g \in Seq(Events)
  BY DEF AllTrue
<1>2. ASSUME NEW i \in 1 .. Len(g) PROVE EventTrue(g[i], Append(s, c))
  <2>1. g[i] \in Events /\ EventTrue(g[i], s)
    BY <1>1 DEF AllTrue
  <2> QED  BY <2>1, EventGrows
<1> QED  BY <1>1, <1>2 DEF AllTrue

LEMMA RetGrows ==
    ASSUME NEW s \in Seq(STRING), NEW c, NEW r, RetTrue(r, s)
    PROVE  RetTrue(r, Append(s, c))
<1>1. r.loc \in Loc
  BY DEF RetTrue
<1> QED  BY <1>1, LocGrows DEF RetTrue

\* The characters are strings.
LEMMA CharIsString ==
    ASSUME LocInv, nxt \notin {EndOfBuf, EndOfText}
    PROVE  nxt \in STRING /\ nxt \in CharsAt(Len(input) + 1)
<1>1. nxt \in CharsAt(Len(input) + 1)
  BY DEF LocInv, NextIs
<1>2. text.chars \in Seq(SUBSET STRING)
  BY PullAssumption DEF LocInv, PullAssumption
<1>3. PICK n \in Nat : n = Len(input) + 1
  BY DEF LocInv
<1>4. n > 0 /\ n <= Len(text.chars) /\ nxt \in text.chars[n]
  BY <1>1, <1>3 DEF CharsAt
<1>5. text.chars[n] \in SUBSET STRING
  BY <1>2, <1>4
<1> QED  BY <1>1, <1>4, <1>5

LEMMA TakeMoves ==
    ASSUME LocInv, text' = text, Take, nxt \notin {EndOfBuf, EndOfText}
    PROVE  /\ input' = Append(input, nxt) /\ input' \in Seq(STRING)
           /\ \A i \in 1 .. Len(input') : input'[i] \in CharsAt(i)'
           /\ NextIs(nxt, input)'
           /\ loc' = Advanced
           /\ loc' \in Loc /\ loc'.off = Len(input') /\ LocTrue(loc', input')
<1>1. nxt \in STRING /\ nxt \in CharsAt(Len(input) + 1)
  BY CharIsString
<1>2. PICK n \in Nat : n = Len(input)
  BY DEF LocInv
<1>3. input' = Append(input, nxt) /\ loc' = Advanced /\ nxt' \in {EndOfBuf} \union CharsAt(n + 2)
  BY <1>2 DEF Take
<1>4. /\ input' \in Seq(STRING) /\ Len(input') = n + 1 /\ input'[n + 1] = nxt
      /\ \A i \in 1 .. n : input'[i] = input[i]
  BY <1>1, <1>2, <1>3 DEF LocInv
<1>5. \A i : CharsAt(i)' = CharsAt(i)
  BY DEF CharsAt
<1>6. \A i \in 1 .. n + 1 : input'[i] \in CharsAt(i)
  BY <1>1, <1>2, <1>4 DEF LocInv
<1>7. NextIs(nxt, input)'
  <2>1. n + 1 + 1 = n + 2
    OBVIOUS
  <2> QED  BY <1>3, <1>4, <1>5, <2>1 DEF NextIs
<1>8. Advanced = After(loc, nxt)
  BY DEF Advanced, After
<1>9. loc' \in Loc /\ loc'.off = Len(input') /\ LocTrue(loc', input')
  BY <1>1, <1>3, <1>8, LocAdvances DEF LocInv
<1> QED  BY <1>3, <1>4, <1>5, <1>6, <1>7, <1>9

LEMMA StepTrue ==
    ASSUME LocInv, Moves, AllTrue(got', input), RetTrue(ret', input), StackType',
           TokTrue(at', tok', input')
    PROVE  LocInv'
<1>1. CASE input' = input /\ loc' = loc /\ NextIs(nxt', input)
  <2>1. \A i : CharsAt(i)' = CharsAt(i)
    BY DEF CharsAt, Moves
  <2>2. NextIs(nxt, input)'
    BY <1>1, <2>1 DEF NextIs
  <2> QED  BY <1>1, <2>1, <2>2 DEF LocInv, Moves
<1>2. CASE Take /\ nxt \notin {EndOfBuf, EndOfText}
  <2>1. /\ input' = Append(input, nxt) /\ input' \in Seq(STRING)
        /\ \A i \in 1 .. Len(input') : input'[i] \in CharsAt(i)'
        /\ NextIs(nxt, input)'
        /\ loc' \in Loc /\ loc'.off = Len(input') /\ LocTrue(loc', input')
    BY <1>2, TakeMoves DEF Moves
  <2>2. AllTrue(got', input') /\ RetTrue(ret', input')
    BY <2>1, AllGrows, RetGrows DEF LocInv
  <2> QED  BY <2>1, <2>2 DEF LocInv, Moves
<1> QED  BY <1>1, <1>2 DEF Moves

LEMMA FirstLocTrue ==
    ASSUME NEW s \in Seq(STRING)
    PROVE  FirstLoc \in Loc /\ LocTrue(FirstLoc, s)
<1>1. FirstLoc \in Loc /\ FirstLoc.off = 0 /\ FirstLoc.row = 1 /\ FirstLoc.col = 1
  BY DEF FirstLoc, Loc
<1>2. Feeds(s, 0) = {} /\ Cardinality(Feeds(s, 0)) = 0
  <2>1. Feeds(s, 0) = {}
    BY DEF Feeds
  <2>2. Cardinality(Feeds(s, 0)) = 0
    BY <2>1, FS_EmptySet, Zenon
  <2> QED  BY <2>1, <2>2
<1>3. PICK l : l = FirstLoc
  OBVIOUS
<1>4. Feeds(s, l.off) = {} /\ l.off <= Len(s) /\ l.col = l.off + 1 - 0
  BY <1>1, <1>2, <1>3
<1>5. \E last \in Feeds(s, l.off) \union {0} :
          (\A i \in Feeds(s, l.off) : i <= last) /\ l.col = l.off + 1 - last
  BY <1>4
<1>6. l.row = 1 + Cardinality(Feeds(s, l.off))
  BY <1>1, <1>2, <1>3
<1>7. LocTrue(l, s)
  BY <1>4, <1>5, <1>6 DEF LocTrue
<1> QED  BY <1>1, <1>3, <1>7

LEMMA NoLocType == NoLoc \in Loc
BY DEF NoLoc, Loc

LEMMA ReturnedTrue ==
    ASSUME NEW s, NEW cause \in Causes, NEW l \in Loc, l # NoLoc => LocTrue(l, s)
    PROVE  RetTrue(Returned(cause, l), s)
BY DEF RetTrue, Returned

LEMMA OneTrue ==
    ASSUME NEW s \in Seq(STRING), NEW kind \in Kinds, NEW l \in Loc, LocTrue(l, s)
    PROVE  /\ Event(kind, << >>, l) \in Events /\ EventTrue(Event(kind, << >>, l), s)
           /\ AllTrue(<<Event(kind, << >>, l)>>, s)
<1>1. PICK e : e = Event(kind, << >>, l)
  OBVIOUS
<1>2. e.kind = kind /\ e.data = << >> /\ e.loc = l
  BY <1>1 DEF Event
<1>3. << >> \in Seq(STRING)
  OBVIOUS
<1>4. e \in Events
  BY <1>1, <1>3 DEF Event, Events
<1>5. l.off \in Nat /\ l.off + 0 = l.off /\ SubSeq(s, l.off + 1, l.off) = << >> /\ Len(<< >>) = 0
  <2>1. l.off \in Nat
    BY DEF Loc
  <2>2. PICK n \in Nat : n = l.off
    BY <2>1
  <2>3. SubSeq(s, n + 1, n) = << >>
    BY SubSeqEmpty
  <2> QED  BY <2>2, <2>3
<1>6. EventTrue(e, s)
  BY <1>2, <1>5 DEF EventTrue, LocTrue
<1>7. <<e>> \in Seq(Events) /\ \A i \in 1 .. Len(<<e>>) : <<e>>[i] = e
  BY <1>4
<1> QED  BY <1>1, <1>4, <1>6, <1>7 DEF AllTrue

LEMMA TwoTrue ==
    ASSUME NEW s \in Seq(STRING), NEW g, AllTrue(g, s), NEW e \in Events, EventTrue(e, s)
    PROVE  AllTrue(Append(g, e), s) /\ Len(Append(g, e)) = Len(g) + 1
<1>1. g \in Seq(Events) /\ \A i \in 1 .. Len(g) : EventTrue(g[i], s)
  BY DEF AllTrue
<1>2. Append(g, e) \in Seq(Events) /\ Len(Append(g, e)) = Len(g) + 1
  BY <1>1
<1>3. \A i \in 1 .. Len(Append(g, e)) : EventTrue(Append(g, e)[i], s)
  BY <1>1
<1> QED  BY <1>2, <1>3 DEF AllTrue

\* The part that sput passes on.
LEMMA SputTrue ==
    ASSUME LocInv, at \in StrPlaces \union NumPlaces
    PROVE  /\ AllTrue(Sput, input) /\ Len(Sput) \in 0 .. 1
           /\ tok.seg \in Loc /\ tok.seg.off <= loc.off
           /\ IF loc.off = tok.seg.off THEN Sput = << >>
              ELSE \E e \in Events : /\ Sput = <<e>> /\ e.kind = PartKind /\ e.loc = tok.seg
                                     /\ tok.seg.off + Len(e.data) = loc.off
<1>1. /\ tok.seg \in Loc /\ LocTrue(tok.seg, input) /\ loc.off = Len(input)
      /\ input \in Seq(STRING) /\ tok.seg.off \in Nat
  BY DEF LocInv, TokTrue, Loc
<1>2. PICK n \in Nat : n = loc.off
  BY <1>1
<1>3. tok.seg.off <= n /\ n = Len(input)
  BY <1>1, <1>2 DEF LocTrue
<1>4. CASE n = tok.seg.off
  <2>1. Sput = << >>
    BY <1>2, <1>4 DEF Sput
  <2> QED  BY <1>1, <1>2, <1>4, <2>1 DEF AllTrue
<1>5. CASE n # tok.seg.off
  <2>1. PICK e : e = Event(PartKind, SubSeq(input, tok.seg.off + 1, n), tok.seg)
    OBVIOUS
  <2>2. PartKind \in Kinds
    BY DEF PartKind, Kinds
  <2>3. e \in Events /\ EventTrue(e, input) /\ Len(e.data) = n - tok.seg.off
    BY <1>1, <1>3, <2>1, <2>2, PartTrue
  <2>4. e.kind = PartKind /\ e.loc = tok.seg
    BY <2>1 DEF Event
  <2>5. Sput = <<e>>
    BY <1>2, <1>5, <2>1 DEF Sput
  <2>6. <<e>> \in Seq(Events) /\ Len(<<e>>) = 1 /\ <<e>>[1] = e
    BY <2>3
  <2>7. tok.seg.off + Len(e.data) = n
    BY <1>1, <2>3
  <2>8. AllTrue(Sput, input)
    BY <2>3, <2>5, <2>6 DEF AllTrue
  <2> QED  BY <1>1, <1>2, <1>3, <1>5, <2>3, <2>4, <2>5, <2>6, <2>7, <2>8
<1> QED  BY <1>4, <1>5

LEMMA SendTrue ==
    ASSUME LocInv, NEW evs, AllTrue(evs, input), Len(evs) <= 2, NEW r, RetTrue(r, input),
           Deliver(evs, r)
    PROVE  AllTrue(got', input) /\ RetTrue(ret', input)
<1>1. input \in Seq(STRING) /\ AllTrue(got, input)
  BY DEF LocInv
<1>2. AllTrue(got', input) /\ \/ ret' = r
                              \/ \E n \in 1 .. Len(evs) : ret' = Returned("cb_fail", evs[n].loc)
  BY <1>1, DeliverTrue
<1>3. ASSUME NEW n \in 1 .. Len(evs), ret' = Returned("cb_fail", evs[n].loc)
      PROVE  RetTrue(ret', input)
  <2>1. evs \in Seq(Events) /\ EventTrue(evs[n], input)
    BY DEF AllTrue
  <2>2. evs[n].loc \in Loc /\ LocTrue(evs[n].loc, input)
    BY <2>1, EventParts DEF EventTrue
  <2>3. PICK l \in Loc : l = evs[n].loc
    BY <2>2
  <2>4. RetTrue(Returned("cb_fail", l), input)
    BY <2>2, <2>3, ReturnedTrue DEF Causes, ByCaller
  <2> QED  BY <1>3, <2>3, <2>4
<1> QED  BY <1>2, <1>3

\* One event without data is sent.
LEMMA SendOne ==
    ASSUME LocInv, NEW kind \in Kinds, NEW l \in Loc, LocTrue(l, input),
           Deliver(<<Event(kind, << >>, l)>>, ret)
    PROVE  AllTrue(got', input) /\ RetTrue(ret', input)
<1>1. PICK evs : evs = <<Event(kind, << >>, l)>>
  OBVIOUS
<1>2. AllTrue(evs, input) /\ Len(evs) <= 2
  <2>1. input \in Seq(STRING)
    BY DEF LocInv
  <2>2. AllTrue(evs, input)
    BY <1>1, <2>1, OneTrue
  <2>3. Len(evs) = 1
    BY <1>1
  <2> QED  BY <2>2, <2>3
<1>3. RetTrue(ret, input) /\ Deliver(evs, ret)
  BY <1>1 DEF LocInv
<1> QED  BY <1>2, <1>3, SendTrue

LEMMA StopTrue ==
    ASSUME LocInv, text' = text, NEW cause \in Causes, NEW l \in {loc, NoLoc, FirstLoc},
           Stop(cause, l)
    PROVE  LocInv'
<1>1. l \in Loc /\ (l # NoLoc => LocTrue(l, input)) /\ input \in Seq(STRING)
  BY FirstLocTrue, NoLocType DEF LocInv
<1>2. RetTrue(ret', input)
  BY <1>1, ReturnedTrue DEF Stop
<1>3. Moves
  BY DEF Stop, Moves, LocInv
<1>4. StackType' /\ TokTrue(at', tok', input') /\ AllTrue(got', input)
  BY DEF Stop, LocInv, StackType
<1> QED  BY <1>2, <1>3, <1>4, StepTrue

\* Between tokens nothing is asked of tok.
LEMMA NoToken ==
    ASSUME LocInv, NEW place \in Between, NEW t \in {tok, NoTok}, NEW s
    PROVE  TokTrue(place, t, s)
<1>1. place \in Places /\ place \notin StrPlaces \union NumPlaces \union Literals \union {"bom"}
  BY DEF Places, Between, StrPlaces, NumPlaces, Literals
<1>2. /\ NoTok \in [seg : Loc, nloc : Loc, key : BOOLEAN, due : Seq(SUBSET DueChars)]
      /\ Len(NoTok.due) <= 4
  <2>1. << >> \in Seq(SUBSET DueChars) /\ Len(<< >>) <= 4
    OBVIOUS
  <2> QED  BY <2>1, NoLocType DEF NoTok, Tok
<1> QED  BY <1>1, <1>2 DEF LocInv, TokTrue

LEMMA AfterValuePlace ==
    ASSUME NEW st \in Seq({"objn", "arrn"})
    PROVE  /\ AfterValue(st) \in {"end", "objn", "arrn"} /\ AfterValue(st) \in Between
           /\ AfterValue(st) = "end" <=> st = << >>
           /\ st # << >> => AfterValue(st) = st[Len(st)]
<1>1. CASE st = << >>
  BY <1>1 DEF AfterValue, Between
<1>2. CASE st # << >>
  <2>1. st[Len(st)] \in {"objn", "arrn"}
    BY <1>2
  <2> QED  BY <1>2, <2>1 DEF AfterValue, Between
<1> QED  BY <1>1, <1>2

\* The token under way, or another of the same part, when a character follows.
LEMMA TokGrows ==
    ASSUME NEW s \in Seq(STRING), NEW c, NEW place, NEW t, TokTrue(place, t, s),
           NEW to \in Places \ {"bom"},
           to \in StrPlaces \union NumPlaces => place \in StrPlaces \union NumPlaces,
           to \in NumPlaces \union Literals => place \in NumPlaces \union Literals,
           NEW due \in Seq(SUBSET DueChars), Len(due) <= 4
    PROVE  /\ TokTrue(to, t, Append(s, c))
           /\ TokTrue(to, [t EXCEPT !.due = due], Append(s, c))
<1>1. t.seg \in Loc /\ t.nloc \in Loc
  BY DEF TokTrue
<1>2. /\ to \in StrPlaces \union NumPlaces => LocTrue(t.seg, Append(s, c))
      /\ to \in NumPlaces \union Literals => LocTrue(t.nloc, Append(s, c))
  BY <1>1, LocGrows DEF TokTrue
<1>3. PICK u : u = [t EXCEPT !.due = due]
  OBVIOUS
<1>4. /\ u \in [seg : Loc, nloc : Loc, key : BOOLEAN, due : Seq(SUBSET DueChars)]
      /\ u.seg = t.seg /\ u.nloc = t.nloc /\ u.due = due
  BY <1>3 DEF TokTrue
<1> QED  BY <1>2, <1>3, <1>4 DEF TokTrue

\* Neither the beginning nor the end of a token.
LEMMA QuietTrue ==
    ASSUME LocInv, Moves, Quiet, TokTrue(at', tok', input')
    PROVE  LocInv'
BY StepTrue DEF Quiet, LocInv, StackType

LEMMA LocPull ==
    ASSUME LocInv, text' = text, Pull \/ PullEmpty \/ PullFail
    PROVE  LocInv'
<1>1. AllTrue(PartAtCut, input) /\ Len(PartAtCut) <= 2
  <2>1. CASE at \in StrPlaces \union NumPlaces
    <3>1. PartAtCut = Sput
      BY <2>1 DEF PartAtCut
    <3>2. AllTrue(Sput, input) /\ Len(Sput) \in 0 .. 1
      BY <2>1, SputTrue
    <3> QED  BY <3>1, <3>2
  <2>2. CASE at \notin StrPlaces \union NumPlaces
    BY <2>2 DEF PartAtCut, AllTrue
  <2> QED  BY <2>1, <2>2
<1>2. RetTrue(ret, input) /\ loc \in Loc /\ LocTrue(loc, input)
  BY DEF LocInv
<1>3. CASE Pull
  <2>1. AllTrue(got', input) /\ RetTrue(ret', input)
    BY <1>1, <1>2, <1>3, SendTrue DEF Pull
  <2>2. TokTrue(at', tok', input')
    BY <1>2, <1>3 DEF Pull, SegAfterPull, LocInv, TokTrue
  <2>3. Moves /\ StackType'
    BY <1>3 DEF Pull, Moves, NextIs, LocInv, StackType
  <2> QED  BY <2>1, <2>2, <2>3, StepTrue
<1>4. CASE PullEmpty \/ PullFail
  <2>1. /\ RetTrue(Returned("pull_buf", loc), input)
        /\ RetTrue(Returned("pull", loc), input)
    BY <1>2, ReturnedTrue DEF Causes, ByCaller
  <2>2. AllTrue(got', input) /\ RetTrue(ret', input)
    BY <1>1, <1>4, <2>1, SendTrue DEF PullEmpty, PullFail
  <2>3. TokTrue(at', tok', input') /\ Moves /\ StackType'
    BY <1>4 DEF PullEmpty, PullFail, Moves, LocInv, StackType
  <2> QED  BY <2>2, <2>3, StepTrue
<1> QED  BY <1>3, <1>4

\* No character is the end of the text.
LEMMA NotEnd ==
    /\ EndOfText \notin Ws \union {"{", "[", "]", "}", ",", ":", "\"", "\\", "ef", "bb", "bf"}
    /\ EndOfText \notin {"t", "f", "n", "-", "u"}
    /\ EndOfText \notin Escaped \union Digit
    /\ EndOfText \notin DueChars
BY Zenon DEF EndOfText, Ws, Escaped, Digit, DueChars, Hex, HighBytes

\* What the actions' places are.
LEMMA PlacesApart ==
    /\ Between \subseteq Places \ {"bom"}
    /\ StrPlaces \union NumPlaces \union Literals \subseteq Places \ {"bom"}
    /\ Literals \subseteq Kinds
    /\ Between \intersect (StrPlaces \union NumPlaces \union Literals) = {}
    /\ StrPlaces \intersect (NumPlaces \union Literals) = {}
BY DEF Places, Between, StrPlaces, NumPlaces, Literals, Kinds

LEMMA LocBom ==
    ASSUME LocInv, text' = text, BomByte \/ NoBom
    PROVE  LocInv'
<1>1. at = "bom" /\ nxt # EndOfBuf /\ input \in Seq(STRING) /\ Len(input) \in 0 .. 2
  <2>1. at = "bom" /\ nxt # EndOfBuf
    BY DEF BomByte, NoBom, At
  <2>2. input \in Seq(STRING) /\ Len(input) < 3
    BY <2>1 DEF LocInv, TokTrue
  <2>3. Len(input) \in Nat
    BY <2>2
  <2>4. PICK n \in Nat : n = Len(input)
    BY <2>3
  <2>5. n \in 0 .. 2
    BY <2>2, <2>4
  <2> QED  BY <2>1, <2>2, <2>4, <2>5
<1>2. CASE BomByte
  <2>1. Bom[Len(input) + 1] \in {"ef", "bb", "bf"}
    <3>1. PICK n \in 0 .. 2 : n = Len(input)
      BY <1>1
    <3>2. n + 1 = 1 \/ n + 1 = 2 \/ n + 1 = 3
      BY <3>1
    <3>3. Bom[1] = "ef" /\ Bom[2] = "bb" /\ Bom[3] = "bf"
      BY DEF Bom
    <3> QED  BY <3>1, <3>2, <3>3
  <2>2. nxt \notin {EndOfBuf, EndOfText}
    BY <1>1, <1>2, <2>1, NotEnd DEF BomByte
  <2>3. Moves /\ Take /\ Quiet
    BY <1>2, <2>2 DEF BomByte, Moves
  <2>4. input' = Append(input, nxt)
    BY <2>3 DEF Take
  <2>5. CASE Len(input) = 2
    <3>1. at' = "val" /\ tok' = tok
      BY <1>2, <2>5 DEF BomByte, Goto
    <3>2. TokTrue(at', tok', input')
      BY <3>1, NoToken DEF Between
    <3> QED  BY <2>3, <3>2, QuietTrue
  <2>6. CASE Len(input) # 2
    <3>1. at' = "bom" /\ tok' = tok
      BY <1>2, <2>6 DEF BomByte, Goto
    <3>2. Len(input') < 3
      BY <1>1, <2>4, <2>6
    <3>3. TokTrue(at', tok', input')
      BY <3>1, <3>2, <1>1 DEF LocInv, TokTrue, StrPlaces, NumPlaces, Literals
    <3> QED  BY <2>3, <3>3, QuietTrue
  <2> QED  BY <2>5, <2>6
<1>3. CASE NoBom
  <2>1. CASE input = << >>
    <3>1. Stay /\ Quiet /\ at' = "val" /\ tok' = tok
      BY <1>3, <2>1 DEF NoBom, Goto
    <3>2. TokTrue(at', tok', input')
      BY <3>1, NoToken DEF Between
    <3>3. Moves
      BY <3>1 DEF Stay, Moves, LocInv
    <3> QED  BY <3>1, <3>2, <3>3, QuietTrue
  <2>2. CASE input # << >>
    <3>1. Stop("bad_tok", FirstLoc)
      BY <1>3, <2>2 DEF NoBom
    <3> QED  BY <3>1, StopTrue DEF Causes
  <2> QED  BY <2>1, <2>2
<1> QED  BY <1>2, <1>3

\* Between tokens.
LEMMA LocGap ==
    ASSUME LocInv, text' = text, Skip1 \/ FirstElement \/ Comma \/ Colon
    PROVE  LocInv'
<1>1. /\ {"key", "val"} \subseteq Between /\ {"arr0", "objn", "arrn", "colon"} \subseteq Between
  BY DEF Between
<1>2. CASE Skip1
  <2>1. Take /\ Quiet /\ at' = at /\ tok' = tok /\ at \in Between
    BY <1>2 DEF Skip1, At
  <2>2. nxt \notin {EndOfBuf, EndOfText}
    BY <1>2, NotEnd DEF Skip1, At
  <2>3. TokTrue(at', tok', input')
    BY <2>1, NoToken
  <2> QED  BY <2>1, <2>2, <2>3, QuietTrue DEF Moves
<1>3. CASE FirstElement
  <2>1. CASE nxt = EndOfText
    <3>1. Stop("want_aend", loc)
      BY <1>3, <2>1 DEF FirstElement
    <3> QED  BY <3>1, StopTrue DEF Causes
  <2>2. CASE nxt # EndOfText
    <3>1. Stay /\ Quiet /\ at' = "val" /\ tok' = tok
      BY <1>3, <2>2 DEF FirstElement, Goto
    <3>2. TokTrue(at', tok', input')
      BY <1>1, <3>1, NoToken
    <3>3. Moves
      BY <3>1 DEF Stay, Moves, LocInv
    <3> QED  BY <3>1, <3>2, <3>3, QuietTrue
  <2> QED  BY <2>1, <2>2
<1>4. CASE Comma \/ Colon
  <2>1. Take /\ Quiet /\ at' \in {"key", "val"} /\ tok' = tok
    BY <1>4 DEF Comma, Colon, Goto
  <2>2. nxt \notin {EndOfBuf, EndOfText}
    BY <1>4, NotEnd DEF Comma, Colon, At
  <2>3. TokTrue(at', tok', input')
    BY <1>1, <2>1, NoToken
  <2> QED  BY <2>1, <2>2, <2>3, QuietTrue DEF Moves
<1> QED  BY <1>2, <1>3, <1>4

\* An error that nothing is reported with, and the end.
LEMMA LocUnexpected ==
    ASSUME LocInv, text' = text, End \/ Unexpected \/ StrBad \/ NumBad
    PROVE  LocInv'
<1>1. CASE End
  <2>1. Stop("", NoLoc)
    BY <1>1 DEF End, Stop
  <2> QED  BY <2>1, StopTrue DEF Causes
<1>2. CASE Unexpected
  <2>1. at \in Between \ {"arr0"}
    BY <1>2 DEF Unexpected, At
  <2>2. PICK cause : /\ Stop(cause, loc)
                     /\ cause = (CASE at \in {"val", "colon"} /\ nxt = EndOfText -> "tok_eof"
                                   [] at = "val"                -> "want_val"
                                   [] at \in {"obj0", "key"}    -> "want_key"
                                   [] at = "colon"              -> "want_col"
                                   [] at = "objn"               -> "want_oend"
                                   [] at = "arrn"               -> "want_aend"
                                   [] at = "end"                -> "trail")
    BY <1>2 DEF Unexpected
  <2>3. cause \in Causes
    BY <2>1, <2>2 DEF Between, Causes
  <2> QED  BY <2>2, <2>3, StopTrue
<1>3. CASE StrBad
  <2>1. Stop("str_eof", loc) \/ Stop("ctl_str", loc)
    BY <1>3 DEF StrBad
  <2> QED  BY <2>1, StopTrue DEF Causes
<1>4. CASE NumBad
  <2>1. Stop("bad_num", NoLoc) \/ Stop("bad_num", loc)
    BY <1>4 DEF NumBad
  <2> QED  BY <2>1, StopTrue DEF Causes
<1> QED  BY <1>1, <1>2, <1>3, <1>4

LEMMA LocOpen ==
    ASSUME LocInv, text' = text, Open
    PROVE  LocInv'
<1>1. CASE DepthOK
  <2>1. PICK kind \in {"OBeg", "ABeg"}, open \in {"objn", "arrn"}, place \in {"obj0", "arr0"} :
           /\ Take /\ nxt # EndOfBuf
           /\ Deliver(<<Event(kind, << >>, loc)>>, ret)
           /\ stk' = Append(stk, open) /\ at' = place /\ tok' = tok
    BY <1>1 DEF Open, Goto, At
  <2>2. Moves
    BY <2>1, NotEnd DEF Open, Moves
  <2>3. stk \in Seq({"objn", "arrn"}) /\ loc \in Loc /\ LocTrue(loc, input) /\ input \in Seq(STRING)
        /\ RetTrue(ret, input)
    BY DEF LocInv, StackType
  <2>5. AllTrue(got', input) /\ RetTrue(ret', input)
    BY <2>1, <2>3, SendOne DEF Kinds
  <2>6. StackType'
    BY <1>1, <2>1, <2>3 DEF StackType, DepthOK
  <2>7. TokTrue(at', tok', input')
    BY <2>1, NoToken DEF Between
  <2> QED  BY <2>2, <2>5, <2>6, <2>7, StepTrue
<1>2. CASE ~ DepthOK
  <2>1. Stop("max_dep", loc)
    BY <1>2 DEF Open
  <2> QED  BY <2>1, StopTrue DEF Causes
<1> QED  BY <1>1, <1>2

LEMMA LocClose ==
    ASSUME LocInv, text' = text, Close
    PROVE  LocInv'
<1>1. PICK kind \in {"OEnd", "AEnd"} :
        /\ Take /\ nxt # EndOfBuf
        /\ Deliver(<<Event(kind, << >>, loc)>>, ret)
        /\ stk' = SubSeq(stk, 1, Len(stk) - 1) /\ at' = AfterValue(stk') /\ tok' = tok
  BY DEF Close, Goto, At
<1>2. Moves
  BY <1>1, NotEnd DEF Close, Moves
<1>3. stk \in Seq({"objn", "arrn"}) /\ loc \in Loc /\ LocTrue(loc, input) /\ input \in Seq(STRING)
      /\ RetTrue(ret, input) /\ Len(stk) <= MaxDep
  BY DEF LocInv, StackType
<1>5. AllTrue(got', input) /\ RetTrue(ret', input)
  BY <1>1, <1>3, SendOne DEF Kinds
<1>6. PICK n \in Nat : n = Len(stk)
  BY <1>3
<1>7. stk' \in Seq({"objn", "arrn"}) /\ Len(stk') <= MaxDep
  <2>1. CASE n = 0
    <3>1. stk' = << >>
      BY <1>1, <1>6, <2>1
    <3> QED  BY <3>1, PullAssumption DEF PullAssumption
  <2>2. CASE n > 0
    <3>1. stk' \in Seq({"objn", "arrn"}) /\ Len(stk') = n - 1
      BY <1>1, <1>3, <1>6, <2>2
    <3> QED  BY <1>3, <1>6, <3>1, PullAssumption DEF PullAssumption
  <2> QED  BY <2>1, <2>2
<1>8. StackType'
  BY <1>7 DEF StackType
<1>9. TokTrue(at', tok', input')
  BY <1>1, <1>7, AfterValuePlace, NoToken
<1> QED  BY <1>2, <1>5, <1>8, <1>9, StepTrue

-----------------------------------------------------------------------------
(* Strings, literals, numbers.                                             *)

LEMMA U8Type ==
    ASSUME NEW b0
    PROVE  U8Due(b0) \in Seq(SUBSET DueChars) /\ Len(U8Due(b0)) <= 4
<1>1. \A min, max : Bytes(min, max) \in SUBSET DueChars
  BY DEF Bytes, DueChars
<1>2. PICK m \in SUBSET DueChars, a \in SUBSET DueChars, d \in SUBSET DueChars,
           n \in SUBSET DueChars, f \in SUBSET DueChars :
        /\ m = Bytes(\h80, \hbf) /\ a = Bytes(\ha0, \hbf) /\ d = Bytes(\h80, \h9f)
        /\ n = Bytes(\h90, \hbf) /\ f = Bytes(\h80, \h8f)
  BY <1>1
<1>3. PICK u : u = U8Due(b0)
  OBVIOUS
<1>4. \/ u = << >> \/ u = <<m>> \/ u = <<a, m>> \/ u = <<m, m>> \/ u = <<d, m>>
      \/ u = <<n, m, m>> \/ u = <<m, m, m>> \/ u = <<f, m, m>>
  <2>1. U8Due(b0) = CASE b0 \in \hc2 .. \hdf -> <<m>>
          [] b0 = \he0           -> <<a, m>>
          [] b0 \in \he1 .. \hec \union \hee .. \hef -> <<m, m>>
          [] b0 = \hed           -> <<d, m>>
          [] b0 = \hf0           -> <<n, m, m>>
          [] b0 \in \hf1 .. \hf3 -> <<m, m, m>>
          [] b0 = \hf4           -> <<f, m, m>>
          [] OTHER               -> << >>
    BY <1>2, Zenon DEF U8Due
  <2> QED  BY <1>3, <2>1
<1>5. u \in Seq(SUBSET DueChars) /\ Len(u) <= 4
  <2>1. << >> \in Seq(SUBSET DueChars) /\ Len(<< >>) <= 4
    OBVIOUS
  <2>2. <<m>> \in Seq(SUBSET DueChars) /\ Len(<<m>>) <= 4
    OBVIOUS
  <2>3. \A x, y \in SUBSET DueChars : <<x, y>> \in Seq(SUBSET DueChars) /\ Len(<<x, y>>) <= 4
    OBVIOUS
  <2>4. \A x, y, z \in SUBSET DueChars :
          <<x, y, z>> \in Seq(SUBSET DueChars) /\ Len(<<x, y, z>>) <= 4
    OBVIOUS
  <2> QED  BY <1>4, <2>1, <2>2, <2>3, <2>4, Zenon
<1> QED  BY <1>3, <1>5

LEMMA LocQuote ==
    ASSUME LocInv, text' = text, Quote
    PROVE  LocInv'
<1>1. PICK kind \in {"SBeg", "KBeg"} :
        /\ Take /\ nxt \notin {EndOfBuf, EndOfText}
        /\ Deliver(<<Event(kind, << >>, loc)>>, ret)
        /\ at' = "str" /\ tok' = Tok(Advanced, at # "val", << >>) /\ stk' = stk
  BY NotEnd DEF Quote, Goto, At
<1>2. AllTrue(got', input) /\ RetTrue(ret', input)
  <2>1. loc \in Loc /\ LocTrue(loc, input)
    BY DEF LocInv
  <2> QED  BY <1>1, <2>1, SendOne DEF Kinds
<1>3. loc' = Advanced /\ loc' \in Loc /\ LocTrue(loc', input')
  BY <1>1, TakeMoves
<1>4. TokTrue(at', tok', input')
  <2>1. << >> \in Seq(SUBSET DueChars) /\ Len(<< >>) <= 4
    OBVIOUS
  <2>2. "str" \in Places /\ "str" \notin NumPlaces \union Literals \union {"bom"}
    BY DEF Places, StrPlaces, NumPlaces, Literals
  <2> QED  BY <1>1, <1>3, <2>1, <2>2 DEF TokTrue, Tok
<1>5. Moves /\ StackType'
  BY <1>1 DEF Moves, LocInv, StackType
<1> QED  BY <1>2, <1>4, <1>5, StepTrue

LEMMA LocStrEnd ==
    ASSUME LocInv, text' = text, StrEnd
    PROVE  LocInv'
<1>1. PICK kind \in {"SEnd", "KEnd"} :
        /\ at = "str" /\ Take /\ nxt \notin {EndOfBuf, EndOfText}
        /\ Deliver(Append(Sput, Event(kind, << >>, loc)), ret)
        /\ at' = (IF tok.key THEN "colon" ELSE AfterValue(stk)) /\ tok' = NoTok /\ stk' = stk
  BY NotEnd DEF StrEnd, Goto, At
<1>2. PICK evs : evs = Append(Sput, Event(kind, << >>, loc))
  OBVIOUS
<1>3. AllTrue(evs, input) /\ Len(evs) <= 2
  <2>1. loc \in Loc /\ LocTrue(loc, input) /\ input \in Seq(STRING) /\ kind \in Kinds
    BY DEF LocInv, Kinds
  <2>2. AllTrue(Sput, input) /\ Len(Sput) \in 0 .. 1
    BY <1>1, SputTrue DEF StrPlaces
  <2>3. AllTrue(evs, input) /\ Len(evs) = Len(Sput) + 1
    BY <1>2, <2>1, <2>2, OneTrue, TwoTrue
  <2> QED  BY <2>2, <2>3
<1>4. AllTrue(got', input) /\ RetTrue(ret', input)
  <2>1. RetTrue(ret, input) /\ Deliver(evs, ret)
    BY <1>1, <1>2 DEF LocInv
  <2> QED  BY <1>3, <2>1, SendTrue
<1>5. TokTrue(at', tok', input')
  <2>1. at' \in Between
    <3>1. stk \in Seq({"objn", "arrn"})
      BY DEF LocInv, StackType
    <3> QED  BY <1>1, <3>1, AfterValuePlace DEF Between
  <2> QED  BY <1>1, <2>1, NoToken
<1>6. Moves /\ StackType'
  BY <1>1 DEF Moves, LocInv, StackType
<1> QED  BY <1>4, <1>5, <1>6, StepTrue

LEMMA LocStrChar ==
    ASSUME LocInv, text' = text, StrChar \/ EscChar
    PROVE  LocInv'
<1>1. CASE \E cause \in {"utf8", "esc_eof", "bad_esc"} : Stop(cause, loc)
  BY <1>1, StopTrue DEF Causes
<1>2. ASSUME Take, Quiet, nxt \notin {EndOfBuf, EndOfText}, at \in StrPlaces, at' \in StrPlaces,
             NEW due \in Seq(SUBSET DueChars), Len(due) <= 4,
             tok' \in {tok, [tok EXCEPT !.due = due]}
      PROVE  LocInv'
  <2>1. input' = Append(input, nxt) /\ input \in Seq(STRING) /\ TokTrue(at, tok, input)
    BY <1>2 DEF Take, LocInv
  <2>2. TokTrue(at', tok', input')
    <3>1. at' \in Places \ {"bom"} /\ at' \notin NumPlaces \union Literals
      BY <1>2, PlacesApart
    <3>2. TokTrue(at', tok, Append(input, nxt)) /\ TokTrue(at', [tok EXCEPT !.due = due], Append(input, nxt))
      BY <1>2, <2>1, <3>1, TokGrows
    <3> QED  BY <1>2, <2>1, <3>2
  <2> QED  BY <1>2, <2>2, QuietTrue DEF Moves
<1>3. CASE StrChar
  <2>1. \/ Stop("utf8", loc)
        \/ /\ Take /\ Quiet /\ nxt \notin {EndOfBuf, EndOfText} /\ at = "str"
           /\ \/ at' = "esc" /\ tok' = tok
              \/ at' = "u8" /\ tok' = [tok EXCEPT !.due = U8Due(Byte(nxt))]
              \/ at' = "str" /\ tok' = tok
    BY <1>3 DEF StrChar, At, Goto
  <2>2. U8Due(Byte(nxt)) \in Seq(SUBSET DueChars) /\ Len(U8Due(Byte(nxt))) <= 4
    BY U8Type
  <2> QED  BY <1>1, <1>2, <2>1, <2>2 DEF StrPlaces
<1>4. CASE EscChar
  <2>1. \/ Stop("esc_eof", loc) \/ Stop("bad_esc", loc)
        \/ /\ Take /\ Quiet /\ nxt \notin {EndOfBuf, EndOfText} /\ at = "esc"
           /\ \/ at' = "hex" /\ tok' = [tok EXCEPT !.due = <<Hex, Hex, Hex, Hex>>]
              \/ at' = "str" /\ tok' = tok
    BY <1>4, NotEnd DEF EscChar, At, Goto
  <2>2. <<Hex, Hex, Hex, Hex>> \in Seq(SUBSET DueChars) /\ Len(<<Hex, Hex, Hex, Hex>>) <= 4
    <3>1. Hex \in SUBSET DueChars
      BY DEF DueChars
    <3> QED  BY <3>1
  <2> QED  BY <1>1, <1>2, <2>1, <2>2 DEF StrPlaces
<1> QED  BY <1>3, <1>4

\* What a literal still asks for.
LEMMA LitType ==
    ASSUME NEW lit \in {True, False, Null}
    PROVE  /\ [i \in 1 .. Len(lit) - 1 |-> {lit[i + 1]}] \in Seq(SUBSET DueChars)
           /\ Len([i \in 1 .. Len(lit) - 1 |-> {lit[i + 1]}]) <= 4
<1>1. \E n \in {3, 4} : Len(lit) - 1 = n /\ \A i \in 1 .. n : lit[i + 1] \in DueChars
  <2>1. CASE lit = True
    <3>1. Len(lit) = 4 /\ lit[2] = "r" /\ lit[3] = "u" /\ lit[4] = "e"
      BY <2>1 DEF True
    <3>2. \A i \in 1 .. 3 : i + 1 = 2 \/ i + 1 = 3 \/ i + 1 = 4
      OBVIOUS
    <3>3. {"r", "u", "e"} \subseteq DueChars
      BY DEF DueChars
    <3> QED  BY <3>1, <3>2, <3>3
  <2>2. CASE lit = False
    <3>1. Len(lit) = 5 /\ lit[2] = "a" /\ lit[3] = "l" /\ lit[4] = "s" /\ lit[5] = "e"
      BY <2>2 DEF False
    <3>2. \A i \in 1 .. 4 : i + 1 = 2 \/ i + 1 = 3 \/ i + 1 = 4 \/ i + 1 = 5
      OBVIOUS
    <3>3. {"a", "l", "s", "e"} \subseteq DueChars
      BY DEF DueChars
    <3> QED  BY <3>1, <3>2, <3>3
  <2>3. CASE lit = Null
    <3>1. Len(lit) = 4 /\ lit[2] = "u" /\ lit[3] = "l" /\ lit[4] = "l"
      BY <2>3 DEF Null
    <3>2. \A i \in 1 .. 3 : i + 1 = 2 \/ i + 1 = 3 \/ i + 1 = 4
      OBVIOUS
    <3>3. {"u", "l"} \subseteq DueChars
      BY DEF DueChars
    <3> QED  BY <3>1, <3>2, <3>3
  <2> QED  BY <2>1, <2>2, <2>3
<1>2. PICK n \in {3, 4} : Len(lit) - 1 = n /\ \A i \in 1 .. n : lit[i + 1] \in DueChars
  BY <1>1
<1>3. PICK f : f = [i \in 1 .. n |-> {lit[i + 1]}]
  OBVIOUS
<1>4. f \in Seq(SUBSET DueChars) /\ Len(f) = n
  BY <1>2, <1>3
<1> QED  BY <1>2, <1>3, <1>4

LEMMA LocLiteral ==
    ASSUME LocInv, text' = text, Literal
    PROVE  LocInv'
<1>1. PICK lit \in {True, False, Null} :
        /\ Take /\ Quiet /\ nxt \notin {EndOfBuf, EndOfText} /\ at' \in Literals
        /\ tok' = Tok(loc, FALSE, [i \in 1 .. Len(lit) - 1 |-> {lit[i + 1]}])
  <2>1. /\ Take /\ Quiet /\ nxt \notin {EndOfBuf, EndOfText} /\ nxt \in {"t", "f", "n"}
    BY NotEnd DEF Literal, At
  <2>2. PICK lit : /\ lit = (CASE nxt = "t" -> True [] nxt = "f" -> False [] nxt = "n" -> Null)
                   /\ tok' = Tok(loc, FALSE, [i \in 1 .. Len(lit) - 1 |-> {lit[i + 1]}])
                   /\ at' = CASE nxt = "t" -> "True" [] nxt = "f" -> "False" [] nxt = "n" -> "Null"
    BY DEF Literal, Goto
  <2>3. lit \in {True, False, Null} /\ at' \in Literals
    BY <2>1, <2>2 DEF Literals
  <2> QED  BY <2>1, <2>2, <2>3
<1>2. PICK due : due = [i \in 1 .. Len(lit) - 1 |-> {lit[i + 1]}]
  OBVIOUS
<1>3. due \in Seq(SUBSET DueChars) /\ Len(due) <= 4
  BY <1>2, LitType
<1>4. loc \in Loc /\ LocTrue(loc, input') /\ input' = Append(input, nxt)
  BY <1>1, LocGrows DEF LocInv, Take
<1>5. TokTrue(at', tok', input')
  <2>1. at' \in Places /\ at' \notin StrPlaces \union NumPlaces \union {"bom"}
    BY <1>1 DEF Places, StrPlaces, NumPlaces, Literals
  <2> QED  BY <1>1, <1>2, <1>3, <1>4, <2>1 DEF TokTrue, Tok
<1> QED  BY <1>1, <1>5, QuietTrue DEF Moves

LEMMA LocDue ==
    ASSUME LocInv, text' = text, Due
    PROVE  LocInv'
<1>1. at \in {"hex", "u8"} \union Literals /\ tok.due # << >> /\ nxt # EndOfBuf
  BY DEF Due, At
<1>2. tok.due \in Seq(SUBSET DueChars) /\ Len(tok.due) <= 4
  BY DEF LocInv, TokTrue
<1>3. CASE nxt \in Head(tok.due)
  <2>1. Take /\ Quiet
    BY <1>3 DEF Due
  <2>2. PICK due : due = Tail(tok.due)
    OBVIOUS
  <2>3. due \in Seq(SUBSET DueChars) /\ Len(due) <= 4 /\ Head(tok.due) \in SUBSET DueChars
    BY <1>1, <1>2, <2>2
  <2>4. nxt # EndOfText
    BY <1>3, <2>3, NotEnd
  <2>5. tok' = [tok EXCEPT !.due = due] /\ at' \in {at, "str"} /\ (at \in Literals => at' = at)
    BY <1>3, <2>2 DEF Due, Goto
  <2>6. input' = Append(input, nxt) /\ input \in Seq(STRING) /\ TokTrue(at, tok, input)
    BY <2>1 DEF Take, LocInv
  <2>7. TokTrue(at', [tok EXCEPT !.due = due], Append(input, nxt))
    <3>1. /\ at' \in Places \ {"bom"}
          /\ at' \in StrPlaces \union NumPlaces => at \in StrPlaces \union NumPlaces
          /\ at' \in NumPlaces \union Literals => at \in NumPlaces \union Literals
      BY <1>1, <2>5 DEF Places, StrPlaces, NumPlaces, Literals
    <3> QED  BY <2>3, <2>6, <3>1, TokGrows
  <2>8. TokTrue(at', tok', input')
    BY <2>5, <2>6, <2>7
  <2> QED  BY <1>1, <2>1, <2>4, <2>8, QuietTrue DEF Moves
<1>4. CASE nxt \notin Head(tok.due)
  <2>1. \/ Stop("utf8", loc) \/ Stop("u4_len", loc) \/ Stop("u4_hex", loc)
        \/ Stop("bad_tok", NoLoc) \/ Stop("bad_tok", loc)
    BY <1>1, <1>4 DEF Due, Literals
  <2> QED  BY <2>1, StopTrue DEF Causes
<1> QED  BY <1>3, <1>4

LEMMA LocLiteralEnd ==
    ASSUME LocInv, text' = text, LiteralEnd
    PROVE  LocInv'
<1>1. at \in Literals
  BY DEF LiteralEnd, At
<1>2. CASE EndsTok
  <2>1. /\ Stay /\ Deliver(<<Event(at, << >>, tok.nloc)>>, ret)
        /\ at' = AfterValue(stk) /\ tok' = NoTok /\ stk' = stk
    BY <1>2 DEF LiteralEnd, Goto
  <2>2. tok.nloc \in Loc /\ LocTrue(tok.nloc, input) /\ at \in Kinds
    BY <1>1, PlacesApart DEF LocInv, TokTrue
  <2>3. AllTrue(got', input) /\ RetTrue(ret', input)
    BY <2>1, <2>2, SendOne
  <2>4. TokTrue(at', tok', input')
    <3>1. stk \in Seq({"objn", "arrn"})
      BY DEF LocInv, StackType
    <3> QED  BY <2>1, <3>1, AfterValuePlace, NoToken
  <2>5. Moves /\ StackType'
    BY <2>1 DEF Moves, Stay, LocInv, StackType
  <2> QED  BY <2>3, <2>4, <2>5, StepTrue
<1>3. CASE ~ EndsTok
  <2>1. Stop("bad_tok", loc)
    BY <1>3 DEF LiteralEnd
  <2> QED  BY <2>1, StopTrue DEF Causes
<1> QED  BY <1>2, <1>3

LEMMA NumPlace ==
    ASSUME NEW place, NEW c, NumNext(place, c) # "none"
    PROVE  /\ NumNext(place, c) \in NumPlaces
           /\ c \in Digit \union {".", "e", "+", "-"} /\ c # EndOfText
<1>1. NumNext(place, c) \in NumPlaces
  BY DEF NumNext, NumPlaces
<1>2. c \in Digit \/ c = "." \/ c = "e" \/ c \in {"+", "-"}
  BY DEF NumNext, Digit
<1>3. EndOfText \notin Digit \union {".", "e", "+", "-"}
  BY Zenon DEF EndOfText, Digit
<1> QED  BY <1>1, <1>2, <1>3

LEMMA LocNumber ==
    ASSUME LocInv, text' = text, Number
    PROVE  LocInv'
<1>1. /\ Take /\ nxt \notin {EndOfBuf, EndOfText} /\ stk' = stk
      /\ Deliver(<<Event("NBeg", << >>, loc)>>, ret)
      /\ tok' = Tok(loc, FALSE, << >>)
  BY NotEnd DEF Number, Goto, At
<1>2. at' \in NumPlaces
  <2>1. CASE nxt = "-"
    <3>1. at' = "int0"
      BY <2>1 DEF Number, Goto
    <3> QED  BY <3>1 DEF NumPlaces
  <2>2. CASE nxt # "-"
    <3>1. nxt \in Digit /\ at' = NumNext("int0", nxt)
      BY <2>2 DEF Number, Goto, At
    <3>2. at' \in {"zero", "int"}
      BY <3>1 DEF NumNext
    <3> QED  BY <3>2 DEF NumPlaces
  <2> QED  BY <2>1, <2>2
<1>3. loc \in Loc /\ LocTrue(loc, input) /\ LocTrue(loc, input')
  BY <1>1, LocGrows DEF LocInv, Take
<1>4. AllTrue(got', input) /\ RetTrue(ret', input)
  BY <1>1, <1>3, SendOne DEF Kinds
<1>5. TokTrue(at', tok', input')
  <2>1. << >> \in Seq(SUBSET DueChars) /\ Len(<< >>) <= 4
    OBVIOUS
  <2>2. at' \in Places /\ at' # "bom"
    BY <1>2, PlacesApart
  <2> QED  BY <1>1, <1>3, <2>1, <2>2 DEF TokTrue, Tok
<1>6. Moves /\ StackType'
  BY <1>1 DEF Moves, LocInv, StackType
<1> QED  BY <1>4, <1>5, <1>6, StepTrue

LEMMA LocNumChar ==
    ASSUME LocInv, text' = text, NumChar
    PROVE  LocInv'
<1>1. /\ Take /\ Quiet /\ at \in NumPlaces /\ at' \in NumPlaces
      /\ nxt \notin {EndOfBuf, EndOfText} /\ tok' = [tok EXCEPT !.nloc = loc]
  BY NumPlace DEF NumChar, At, Goto
<1>2. /\ loc \in Loc /\ LocTrue(loc, input') /\ tok.seg \in Loc /\ LocTrue(tok.seg, input')
  <2>1. tok.seg \in Loc /\ LocTrue(tok.seg, input)
    BY <1>1 DEF LocInv, TokTrue
  <2> QED  BY <1>1, <2>1, LocGrows DEF LocInv, Take
<1>3. TokTrue(at', tok', input')
  <2>1. at' \in Places /\ at' # "bom"
    BY <1>1, PlacesApart
  <2> QED  BY <1>1, <1>2, <2>1 DEF LocInv, TokTrue
<1> QED  BY <1>1, <1>3, QuietTrue DEF Moves

LEMMA LocNumEnd ==
    ASSUME LocInv, text' = text, NumEnd
    PROVE  LocInv'
<1>1. at \in NumPlaces
  BY DEF NumEnd, At, NumPlaces
<1>2. /\ AllTrue(Sput, input) /\ Len(Sput) \in 0 .. 1 /\ input \in Seq(STRING)
      /\ tok.nloc \in Loc /\ LocTrue(tok.nloc, input) /\ loc \in Loc /\ LocTrue(loc, input)
      /\ RetTrue(ret, input)
  <2>1. AllTrue(Sput, input) /\ Len(Sput) \in 0 .. 1
    BY <1>1, SputTrue
  <2>2. tok.nloc \in Loc /\ LocTrue(tok.nloc, input)
    BY <1>1 DEF LocInv, TokTrue
  <2> QED  BY <2>1, <2>2 DEF LocInv
<1>k. Len(Sput) \in 0 .. 1
  BY <1>2
<1>3. AllTrue(got', input) /\ RetTrue(ret', input)
  <2>1. CASE EndsTok
    <3>1. PICK evs : evs = Append(Sput, Event("NEnd", << >>, tok.nloc))
      OBVIOUS
    <3>2. AllTrue(evs, input) /\ Len(evs) <= 2
      <4>1. AllTrue(evs, input) /\ Len(evs) = Len(Sput) + 1
        BY <1>2, <3>1, OneTrue, TwoTrue DEF Kinds
      <4>2. PICK k \in 0 .. 1 : k = Len(Sput)
        BY <1>k
      <4>3. Len(evs) <= 2
        BY <4>1, <4>2
      <4> QED  BY <4>1, <4>3
    <3>3. Deliver(evs, ret)
      BY <2>1, <3>1 DEF NumEnd
    <3> QED  BY <1>2, <3>2, <3>3, SendTrue
  <2>2. CASE ~ EndsTok
    <3>1. Deliver(Sput, Returned("bad_num", loc))
      BY <2>2 DEF NumEnd
    <3>2. RetTrue(Returned("bad_num", loc), input)
      BY <1>2, ReturnedTrue DEF Causes
    <3>3. Len(Sput) <= 2
      BY <1>k
    <3> QED  BY <1>2, <3>1, <3>2, <3>3, SendTrue
  <2> QED  BY <2>1, <2>2
<1>4. TokTrue(at', tok', input')
  <2>1. stk \in Seq({"objn", "arrn"}) /\ at' = AfterValue(stk) /\ tok' = NoTok
    BY DEF LocInv, StackType, NumEnd, Goto
  <2> QED  BY <2>1, AfterValuePlace, NoToken
<1>5. Moves /\ StackType'
  BY DEF NumEnd, Moves, Stay, LocInv, StackType
<1> QED  BY <1>3, <1>4, <1>5, StepTrue

LEMMA LocStart == Init => LocInv
<1> SUFFICES ASSUME Init PROVE LocInv
  OBVIOUS
<1>1. PICK s : s = << >>
  OBVIOUS
<1>2. s \in Seq(STRING) /\ Len(s) = 0 /\ input = s /\ loc = FirstLoc
  BY <1>1 DEF Init
<1>3. FirstLoc \in Loc /\ FirstLoc.off = 0 /\ LocTrue(FirstLoc, s)
  BY <1>2, FirstLocTrue DEF FirstLoc
<1>4. TokTrue(at, tok, s)
  <2>1. at \in {"bom", "val"} /\ tok = NoTok
    BY DEF Init
  <2>2. at \in Places /\ at \notin StrPlaces \union NumPlaces \union Literals
    BY <2>1 DEF Places, Between, StrPlaces, NumPlaces, Literals
  <2>3. << >> \in Seq(SUBSET DueChars) /\ Len(<< >>) <= 4
    OBVIOUS
  <2> QED  BY <1>2, <2>1, <2>2, <2>3, NoLocType DEF TokTrue, NoTok, Tok
<1>5. AllTrue(got, s) /\ StackType
  BY PullAssumption DEF Init, AllTrue, StackType, PullAssumption
<1>6. RetTrue(ret, s)
  BY NoLocType DEF Init, RetTrue, NoRet
<1>7. text \in Texts /\ NextIs(nxt, input)
  BY DEF Init, NextIs
<1> QED  BY <1>2, <1>3, <1>4, <1>5, <1>6, <1>7 DEF LocInv

LEMMA LocStep ==
    ASSUME LocInv, Next
    PROVE  LocInv'
<1>1. text' = text
  BY DEF Next
<1> QED
  BY <1>1, LocPull, LocBom, LocGap, LocUnexpected, LocOpen, LocClose, LocQuote, LocStrEnd,
     LocStrChar, LocLiteral, LocDue, LocLiteralEnd, LocNumber, LocNumChar, LocNumEnd DEF Next

\* The inductive invariant of the types and the locations.
THEOREM LocInvariant == Spec => []LocInv
<1>1. LocInv /\ UNCHANGED vars => LocInv'
  <2> SUFFICES ASSUME LocInv, UNCHANGED vars PROVE LocInv'
    OBVIOUS
  <2>1. Moves
    BY DEF vars, Moves, LocInv
  <2> QED  BY <2>1, StepTrue DEF vars, LocInv, StackType
<1> QED  BY <1>1, LocStart, LocStep, PTL DEF Spec

\* The state's types: the recursion of val stays within MaxDep, and Parse returns no
\* other error than those of its code.
THEOREM TypeCorrect == Spec => []TypeOK
<1>1. LocInv => TypeOK
  <2> SUFFICES ASSUME LocInv PROVE TypeOK
    OBVIOUS
  <2>1. /\ text \in Texts /\ input \in Seq(STRING)
        /\ (\A i \in 1 .. Len(input) : input[i] \in CharsAt(i)) /\ loc \in Loc
        /\ nxt \in CharsAt(Len(input) + 1) \union {EndOfBuf, EndOfText}
    BY DEF LocInv, NextIs
  <2>2. /\ at \in Places
        /\ tok \in [seg : Loc, nloc : Loc, key : BOOLEAN, due : Seq(SUBSET DueChars)]
        /\ Len(tok.due) <= 4
    BY DEF LocInv, TokTrue
  <2>3. /\ stk \in Seq({"objn", "arrn"}) /\ Len(stk) <= MaxDep /\ got \in Seq(Events)
        /\ ret \in [cause : Causes \union {"none"}, loc : Loc]
    BY DEF LocInv, StackType, AllTrue, RetTrue
  <2> QED  BY <2>1, <2>2, <2>3 DEF TypeOK, Places
<1> QED  BY <1>1, LocInvariant, PTL

\* Whatever the text, the cuts and the caller's failures: each event that on has received
\* and the error that Parse returns are located where their bytes are, and the parts of
\* a token are the bytes of the text behind its location.
THEOREM LocationsAreTrue == Spec => []LocationsTrue
<1>1. LocInv => LocationsTrue
  BY DEF LocInv, AllTrue, RetTrue, LocationsTrue
<1> QED  BY <1>1, LocInvariant, PTL

-----------------------------------------------------------------------------
(* Depth and nesting.                                                      *)

LEMMA CountNext ==
    ASSUME NEW g, NEW n \in Nat, NEW kinds
    PROVE  /\ Count(g, n, kinds) \in Nat
           /\ Count(g, n + 1, kinds) =
                 Count(g, n, kinds) + (IF g[n + 1].kind \in kinds THEN 1 ELSE 0)
<1>1. PICK A \in SUBSET (1 .. n) : A = {i \in 1 .. n : g[i].kind \in kinds}
  OBVIOUS
<1>2. PICK B : B = {i \in 1 .. n + 1 : g[i].kind \in kinds}
  OBVIOUS
<1>3. B = IF g[n + 1].kind \in kinds THEN A \union {n + 1} ELSE A
  BY <1>1, <1>2
<1>4. Cardinality(A) \in Nat /\ Cardinality(A \union {n + 1}) = Cardinality(A) + 1
  BY CountStep
<1>5. Count(g, n, kinds) = Cardinality(A) /\ Count(g, n + 1, kinds) = Cardinality(B)
  BY <1>1, <1>2 DEF Count
<1> QED  BY <1>3, <1>4, <1>5

\* How an event changes the depth.
Step(kind) == IF kind \in Opens THEN 1 ELSE IF kind \in Closes THEN -1 ELSE 0

LEMMA DepthNext ==
    ASSUME NEW g, NEW n \in Nat
    PROVE  /\ Depth(g, n) \in Int
           /\ Depth(g, n + 1) = Depth(g, n) + Step(g[n + 1].kind)
<1>1. /\ Count(g, n, Opens) \in Nat /\ Count(g, n, Closes) \in Nat
      /\ Count(g, n + 1, Opens) = Count(g, n, Opens) + (IF g[n + 1].kind \in Opens THEN 1 ELSE 0)
      /\ Count(g, n + 1, Closes) = Count(g, n, Closes) + (IF g[n + 1].kind \in Closes THEN 1 ELSE 0)
  BY CountNext
<1>2. ~ (g[n + 1].kind \in Opens /\ g[n + 1].kind \in Closes)
  BY DEF Opens, Closes
<1>3. /\ Depth(g, n) = Count(g, n, Opens) - Count(g, n, Closes)
      /\ Depth(g, n + 1) = Count(g, n + 1, Opens) - Count(g, n + 1, Closes)
  BY DEF Depth
<1> QED  BY <1>1, <1>2, <1>3 DEF Step

LEMMA DepthNone ==
    ASSUME NEW g
    PROVE  Depth(g, 0) = 0
<1>1. \A kinds : {i \in 1 .. 0 : g[i].kind \in kinds} = {}
  OBVIOUS
<1>2. Cardinality({}) = 0
  BY FS_EmptySet, Zenon
<1> QED  BY <1>1, <1>2 DEF Depth, Count

\* Depth and fitting depend on the kinds alone.
LEMMA SameKinds ==
    ASSUME NEW g, NEW h, NEW n \in Nat, \A i \in 1 .. n : h[i].kind = g[i].kind
    PROVE  /\ \A j \in 0 .. n : Depth(h, j) = Depth(g, j)
           /\ \A i \in 1 .. n : EventFits(g, i) <=> EventFits(h, i)
<1>1. ASSUME NEW j \in 0 .. n
      PROVE  Depth(h, j) = Depth(g, j)
  <2>1. \A kinds : {i \in 1 .. j : h[i].kind \in kinds} = {i \in 1 .. j : g[i].kind \in kinds}
    OBVIOUS
  <2> QED  BY <2>1 DEF Depth, Count
<1>2. ASSUME NEW j \in 0 .. n, NEW kind
      PROVE  Within(h, j, kind) <=> Within(g, j, kind)
  <2>1. \A i \in 1 .. j : h[i].kind = g[i].kind /\ i \in 0 .. n
    OBVIOUS
  <2>2. \A i \in 1 .. j : \A k \in i .. j : k \in 0 .. n
    OBVIOUS
  <2> QED  BY <1>1, <2>1, <2>2 DEF Within
<1>3. ASSUME NEW i \in 1 .. n
      PROVE  EventFits(g, i) <=> EventFits(h, i)
  <2>1. i \in 0 .. n /\ i - 1 \in 0 .. n /\ h[i].kind = g[i].kind
    OBVIOUS
  <2>2. i > 1 => h[i - 1].kind = g[i - 1].kind
    OBVIOUS
  <2>3. i # 1 => h[i - 1].kind = g[i - 1].kind
    OBVIOUS
  <2>4. Depth(h, i) = Depth(g, i) /\ \A kind : Within(h, i - 1, kind) <=> Within(g, i - 1, kind)
    BY <1>1, <1>2, <2>1
  <2> QED  BY <2>1, <2>2, <2>3, <2>4 DEF EventFits
<1> QED  BY <1>1, <1>3

\* Behind an event that is appended.
LEMMA AppendDepth ==
    ASSUME NEW g \in Seq(Events), NEW ev \in Events
    PROVE  /\ Len(Append(g, ev)) = Len(g) + 1 /\ Len(g) \in Nat
           /\ \A j \in 0 .. Len(g) : Depth(Append(g, ev), j) = Depth(g, j) /\ Depth(g, j) \in Int
           /\ Depth(Append(g, ev), Len(g) + 1) = Depth(g, Len(g)) + Step(ev.kind)
           /\ \A i \in 1 .. Len(g) : EventFits(Append(g, ev), i) <=> EventFits(g, i)
<1> PICK h : h = Append(g, ev)
  OBVIOUS
<1> PICK n \in Nat : n = Len(g)
  OBVIOUS
<1>1. Len(h) = n + 1 /\ h[n + 1] = ev /\ \A i \in 1 .. n : h[i] = g[i]
  OBVIOUS
<1>2. /\ \A j \in 0 .. n : Depth(h, j) = Depth(g, j)
      /\ \A i \in 1 .. n : EventFits(g, i) <=> EventFits(h, i)
  BY <1>1, SameKinds
<1>3. \A j \in 0 .. n : Depth(g, j) \in Int
  BY DepthNext
<1>4. Depth(h, n + 1) = Depth(h, n) + Step(ev.kind)
  BY <1>1, DepthNext
<1> QED  BY <1>1, <1>2, <1>3, <1>4

\* An event may stand behind those of g.
MayFollow(g, kind) ==
    /\ Depth(g, Len(g)) + Step(kind) <= MaxDep
    /\ Len(g) > 0 => kind \in Follow(Last(g).kind)
    /\ kind \in {"OEnd", "KBeg"} => Within(g, Len(g), "OBeg")
    /\ kind = "AEnd" => Within(g, Len(g), "ABeg")
    /\ kind \in Begins => \/ Len(g) = 0 \/ Last(g).kind = "KEnd"
                         \/ Within(g, Len(g), "ABeg")

LEMMA AppendFits ==
    ASSUME NEW g \in Seq(Events), AllFit(g), NEW ev \in Events, MayFollow(g, ev.kind)
    PROVE  AllFit(Append(g, ev))
<1> PICK h : h = Append(g, ev)
  OBVIOUS
<1> PICK n \in Nat : n = Len(g)
  OBVIOUS
<1>1. Len(h) = n + 1 /\ h[n + 1] = ev /\ \A i \in 1 .. n : h[i] = g[i]
  OBVIOUS
<1>2. /\ \A j \in 0 .. n : Depth(h, j) = Depth(g, j)
      /\ Depth(h, n + 1) = Depth(g, n) + Step(ev.kind)
      /\ \A i \in 1 .. n : EventFits(h, i)
  BY AppendDepth DEF AllFit
<1>3. ASSUME NEW kind, Within(g, n, kind)
      PROVE  Within(h, n, kind)
  <2>1. PICK i \in 1 .. n : /\ g[i].kind = kind /\ Depth(g, i) = Depth(g, n)
                            /\ \A j \in i .. n : Depth(g, j) >= Depth(g, n)
    BY <1>3 DEF Within
  <2>2. h[i].kind = kind /\ Depth(h, i) = Depth(h, n) /\ \A j \in i .. n : Depth(h, j) >= Depth(h, n)
    <3>1. i \in 0 .. n /\ n \in 0 .. n /\ \A j \in i .. n : j \in 0 .. n
      OBVIOUS
    <3> QED  BY <1>1, <1>2, <2>1, <3>1
  <2> QED  BY <2>2 DEF Within
<1>4. EventFits(h, n + 1)
  <2>1. Depth(h, n + 1) <= MaxDep
    BY <1>2 DEF MayFollow
  <2>2. n + 1 > 1 => ev.kind \in Follow(h[n].kind)
    BY <1>1 DEF MayFollow, Last
  <2>3. /\ ev.kind \in {"OEnd", "KBeg"} => Within(h, n, "OBeg")
        /\ ev.kind = "AEnd" => Within(h, n, "ABeg")
    BY <1>3 DEF MayFollow
  <2>4. ev.kind \in Begins => n + 1 = 1 \/ h[n].kind = "KEnd" \/ Within(h, n, "ABeg")
    BY <1>1, <1>3 DEF MayFollow, Last
  <2>5. n + 1 - 1 = n
    OBVIOUS
  <2> QED  BY <1>1, <2>1, <2>2, <2>3, <2>4, <2>5 DEF EventFits
<1>5. \A i \in 1 .. n + 1 : i \in 1 .. n \/ i = n + 1
  OBVIOUS
<1> QED  BY <1>1, <1>2, <1>4, <1>5 DEF AllFit

\* The innermost open object or array.
LEMMA TopWithin ==
    ASSUME NEW g \in Seq(Events), NEW st \in Seq({"objn", "arrn"}), LeftOpen(g, st), st # << >>
    PROVE  Within(g, Len(g), OpenedBy(Top(st)))
<1> PICK n \in Nat : n = Len(st)
  OBVIOUS
<1>1. n \in 1 .. n /\ Depth(g, Len(g)) = n
  BY DEF LeftOpen
<1>2. PICK i \in 1 .. Len(g) : g[i].kind = OpenedBy(st[n]) /\ Stays(g, i, n)
  BY <1>1 DEF LeftOpen
<1> QED  BY <1>1, <1>2 DEF Within, Stays, Top

\* What stays open behind an event that is appended.
LEMMA StaysNext ==
    ASSUME NEW g \in Seq(Events), NEW ev \in Events, NEW st \in Seq({"objn", "arrn"}),
           LeftOpen(g, st), NEW d \in 1 .. Len(st), d <= Depth(g, Len(g)) + Step(ev.kind)
    PROVE  \E i \in 1 .. Len(Append(g, ev)) :
              Append(g, ev)[i].kind = OpenedBy(st[d]) /\ Stays(Append(g, ev), i, d)
<1> PICK h : h = Append(g, ev)
  OBVIOUS
<1> PICK n \in Nat : n = Len(g)
  OBVIOUS
<1>1. Len(h) = n + 1 /\ h[n + 1] = ev /\ \A i \in 1 .. n : h[i] = g[i]
  OBVIOUS
<1>2. /\ \A j \in 0 .. n : Depth(h, j) = Depth(g, j)
      /\ Depth(h, n + 1) = Depth(g, n) + Step(ev.kind)
  BY AppendDepth
<1>3. PICK i \in 1 .. n : g[i].kind = OpenedBy(st[d]) /\ Depth(g, i) = d
                          /\ \A j \in i .. n : Depth(g, j) >= d
  BY DEF LeftOpen, Stays
<1>4. i \in 0 .. n /\ i \in 1 .. n + 1
  OBVIOUS
<1>5. h[i].kind = OpenedBy(st[d]) /\ Depth(h, i) = d
  BY <1>1, <1>2, <1>3, <1>4
<1>6. \A j \in i .. n + 1 : Depth(h, j) >= d
  <2> TAKE j \in i .. n + 1
  <2>1. CASE j # n + 1
    <3>1. i \in Int /\ i >= 1 /\ j \in Int /\ i <= j /\ j <= n + 1
      OBVIOUS
    <3>2. j \in 0 .. n /\ j \in i .. n
      BY <2>1, <3>1
    <3> QED  BY <1>2, <1>3, <3>2
  <2>2. CASE j = n + 1
    BY <1>2, <2>2
  <2> QED  BY <2>1, <2>2
<1> QED  BY <1>1, <1>4, <1>5, <1>6 DEF Stays

LEMMA OpenPlain ==
    ASSUME NEW g \in Seq(Events), NEW ev \in Events, NEW st \in Seq({"objn", "arrn"}),
           LeftOpen(g, st), Step(ev.kind) = 0
    PROVE  LeftOpen(Append(g, ev), st)
<1> PICK n \in Nat : n = Len(st)
  OBVIOUS
<1>1. Depth(g, Len(g)) = n /\ Depth(Append(g, ev), Len(Append(g, ev))) = n
  BY AppendDepth DEF LeftOpen
<1>2. \A d \in 1 .. n : d <= Depth(g, Len(g)) + Step(ev.kind)
  BY <1>1
<1> QED  BY <1>1, <1>2, StaysNext DEF LeftOpen

LEMMA OpenOne ==
    ASSUME NEW g \in Seq(Events), NEW ev \in Events, NEW st \in Seq({"objn", "arrn"}),
           LeftOpen(g, st), NEW open \in {"objn", "arrn"}, ev.kind = OpenedBy(open)
    PROVE  LeftOpen(Append(g, ev), Append(st, open))
<1> PICK n \in Nat : n = Len(st)
  OBVIOUS
<1> PICK h : h = Append(g, ev)
  OBVIOUS
<1> PICK m \in Nat : m = Len(h)
  OBVIOUS
<1> PICK ts : ts = Append(st, open)
  OBVIOUS
<1>1. Len(ts) = n + 1 /\ ts[n + 1] = open /\ \A d \in 1 .. n : ts[d] = st[d]
  OBVIOUS
<1>2. Step(ev.kind) = 1
  BY DEF Step, OpenedBy, Opens
<1>3. Depth(g, Len(g)) = n /\ Depth(h, m) = n + 1 /\ m > 0 /\ h[m] = ev
  BY <1>2, AppendDepth DEF LeftOpen
<1>4. ASSUME NEW d \in 1 .. n
      PROVE  \E i \in 1 .. m : h[i].kind = OpenedBy(ts[d]) /\ Stays(h, i, d)
  <2>1. d <= Depth(g, Len(g)) + Step(ev.kind)
    BY <1>2, <1>3
  <2> QED  BY <1>1, <2>1, StaysNext
<1>5. h[m].kind = OpenedBy(ts[n + 1]) /\ Stays(h, m, n + 1)
  BY <1>1, <1>3 DEF Stays
<1>6. \A d \in 1 .. n + 1 : d \in 1 .. n \/ d = n + 1
  OBVIOUS
<1>7. \A d \in 1 .. n + 1 : \E i \in 1 .. m : h[i].kind = OpenedBy(ts[d]) /\ Stays(h, i, d)
  BY <1>3, <1>4, <1>5, <1>6
<1> QED  BY <1>1, <1>3, <1>7 DEF LeftOpen

LEMMA CloseOne ==
    ASSUME NEW g \in Seq(Events), NEW ev \in Events, NEW st \in Seq({"objn", "arrn"}),
           LeftOpen(g, st), st # << >>, ev.kind \in Closes
    PROVE  LeftOpen(Append(g, ev), SubSeq(st, 1, Len(st) - 1))
<1> PICK n \in Nat : n = Len(st)
  OBVIOUS
<1> PICK h : h = Append(g, ev)
  OBVIOUS
<1> PICK ts : ts = SubSeq(st, 1, n - 1)
  OBVIOUS
<1>1. n > 0 /\ Len(ts) = n - 1 /\ \A d \in 1 .. n - 1 : ts[d] = st[d]
  OBVIOUS
<1>2. Step(ev.kind) = -1
  BY DEF Step, Opens, Closes
<1>3. Depth(g, Len(g)) = n /\ Depth(h, Len(h)) = n - 1
  BY <1>2, AppendDepth DEF LeftOpen
<1>4. ASSUME NEW d \in 1 .. n - 1
      PROVE  \E i \in 1 .. Len(h) : h[i].kind = OpenedBy(ts[d]) /\ Stays(h, i, d)
  <2>1. d <= Depth(g, Len(g)) + Step(ev.kind) /\ d \in 1 .. n
    BY <1>1, <1>2, <1>3
  <2> QED  BY <1>1, <2>1, StaysNext
<1> QED  BY <1>1, <1>3, <1>4 DEF LeftOpen

\* Which kinds may follow.
LEMMA FollowIs ==
    /\ \A kind \in Settled : Begins \union {"KBeg"} \union Closes \subseteq Follow(kind)
    /\ Begins \subseteq Follow("KEnd")
    /\ "KPar" \in Follow("KBeg") /\ "KEnd" \in Follow("KBeg") /\ "KEnd" \in Follow("KPar")
    /\ "SPar" \in Follow("SBeg") /\ "SEnd" \in Follow("SBeg") /\ "SEnd" \in Follow("SPar")
    /\ "NPar" \in Follow("NBeg") /\ "NEnd" \in Follow("NPar")
<1>1. \A kind \in Settled : Begins \union {"KBeg"} \union Closes \subseteq Follow(kind)
  BY DEF Settled, Kinds, Parts, Literals, Follow
<1>2. Begins \subseteq Follow("KEnd")
  BY DEF Follow
<1>3. /\ "KPar" \in Follow("KBeg") /\ "KEnd" \in Follow("KBeg") /\ "KEnd" \in Follow("KPar")
      /\ "SPar" \in Follow("SBeg") /\ "SEnd" \in Follow("SBeg") /\ "SEnd" \in Follow("SPar")
      /\ "NPar" \in Follow("NBeg") /\ "NEnd" \in Follow("NPar")
  BY DEF Follow
<1> QED  BY <1>1, <1>2, <1>3

LEMMA ReportParts ==
    ASSUME NEW g, NEW st, Report(g, st)
    PROVE  /\ g \in Seq(Events) /\ Len(g) \in Nat /\ AllFit(g) /\ LeftOpen(g, st)
           /\ st \in Seq({"objn", "arrn"}) /\ Len(st) \in Nat
           /\ Depth(g, Len(g)) = Len(st) /\ Len(st) <= MaxDep /\ MaxDep \in Nat
           /\ Len(g) = 0 <=> g = << >>
           /\ g # << >> => Last(g) \in Events
           /\ \A open : Inside(st, open) => Within(g, Len(g), OpenedBy(open))
<1>1. g \in Seq(Events) /\ st \in Seq({"objn", "arrn"}) /\ AllFit(g) /\ LeftOpen(g, st)
      /\ Len(st) <= MaxDep
  BY DEF Report
<1>2. Len(g) \in Nat /\ Len(st) \in Nat /\ (Len(g) = 0 <=> g = << >>)
  BY <1>1
<1>3. g # << >> => Last(g) \in Events
  BY <1>1 DEF Last
<1>4. \A open : Inside(st, open) => Within(g, Len(g), OpenedBy(open))
  BY <1>1, TopWithin DEF Inside
<1>5. Depth(g, Len(g)) = Len(st) /\ MaxDep \in Nat
  BY <1>1, PullAssumption DEF LeftOpen, PullAssumption
<1> QED  BY <1>1, <1>2, <1>3, <1>4, <1>5

LEMMA LastAppended ==
    ASSUME NEW g \in Seq(Events), NEW ev \in Events
    PROVE  /\ Append(g, ev) \in Seq(Events) /\ Append(g, ev) # << >>
           /\ Last(Append(g, ev)) = ev
BY DEF Last

\* A part goes on with the last one, or is the first.
LEMMA ReportPart ==
    ASSUME NEW g, NEW st, Report(g, st), g # << >>, NEW ev \in Events, ev.kind \in Parts,
           PartsMeet(g, ev.loc.off), Last(g).kind = ev.kind \/ ev.kind \in Follow(Last(g).kind)
    PROVE  /\ Report(Joined(g, ev), st) /\ Joined(g, ev) # << >>
           /\ Last(Joined(g, ev)).kind = ev.kind
           /\ PartsMeet(Joined(g, ev), ev.loc.off + Len(ev.data))
<1> PICK n \in Nat : n = Len(g)
  BY ReportParts
<1> PICK t : t = Joined(g, ev)
  OBVIOUS
<1>1. g \in Seq(Events) /\ n > 0 /\ g[n] \in Events /\ AllFit(g) /\ LeftOpen(g, st)
      /\ st \in Seq({"objn", "arrn"}) /\ Len(st) <= MaxDep
  BY ReportParts DEF Last
<1>2. CASE g[n].kind = ev.kind
  <2>1. GoesOn(g, ev)
    BY <1>1, <1>2 DEF GoesOn, PartsMeet, Last
  <2>2. /\ t \in Seq(Events) /\ Len(t) = n
        /\ \A i \in 1 .. n : t[i].kind = g[i].kind /\ t[i].loc = g[i].loc
        /\ t[n].data = g[n].data \o ev.data
    BY <1>1, <2>1, JoinedIs DEF Extends
  <2>3. /\ \A j \in 0 .. n : Depth(t, j) = Depth(g, j)
        /\ \A i \in 1 .. n : EventFits(g, i) <=> EventFits(t, i)
    <3>1. \A i \in 1 .. n : t[i].kind = g[i].kind
      BY <2>2
    <3> QED  BY <3>1, SameKinds
  <2>4. AllFit(t)
    BY <1>1, <2>2, <2>3 DEF AllFit
  <2>5. LeftOpen(t, st)
    <3>1. ASSUME NEW d \in 1 .. Len(st)
          PROVE  \E i \in 1 .. n : t[i].kind = OpenedBy(st[d]) /\ Stays(t, i, d)
      <4>1. PICK i \in 1 .. n : g[i].kind = OpenedBy(st[d]) /\ Stays(g, i, d)
        BY <1>1 DEF LeftOpen
      <4>2. i \in 0 .. n /\ \A j \in i .. n : j \in 0 .. n
        OBVIOUS
      <4>3. Stays(t, i, d)
        BY <2>2, <2>3, <4>1, <4>2 DEF Stays
      <4> QED  BY <2>2, <4>1, <4>3
    <3>2. Depth(t, n) = Len(st)
      BY <1>1, <2>3 DEF LeftOpen
    <3> QED  BY <2>2, <3>1, <3>2 DEF LeftOpen
  <2>6. t # << >> /\ Last(t).kind = ev.kind
    BY <1>1, <1>2, <2>2 DEF Last
  <2>7. PartsMeet(t, ev.loc.off + Len(ev.data))
    <3>1. g[n].data \in Seq(STRING) /\ ev.data \in Seq(STRING) /\ g[n].loc.off \in Nat
      BY <1>1, EventParts
    <3>2. PICK k \in Nat : k = Len(g[n].data)
      BY <3>1
    <3>3. PICK w \in Nat : w = Len(ev.data)
      BY <3>1
    <3>4. Len(t[n].data) = k + w
      BY <2>2, <3>1, <3>2, <3>3, ConcatProperties
    <3>5. t[n].loc = g[n].loc
      BY <1>1, <2>2
    <3>6. g[n].loc.off + k = ev.loc.off
      BY <1>2, <3>2 DEF PartsMeet, Last
    <3>7. PICK a \in Nat : a = g[n].loc.off
      BY <3>1
    <3>8. t[n].loc.off + Len(t[n].data) = ev.loc.off + Len(ev.data)
      <4>1. t[n].loc.off + Len(t[n].data) = a + (k + w)
        BY <3>4, <3>5, <3>7
      <4>2. ev.loc.off + Len(ev.data) = (a + k) + w
        BY <3>3, <3>6, <3>7
      <4> QED  BY <4>1, <4>2
    <3>9. Last(t) = t[n]
      BY <2>2 DEF Last
    <3> QED  BY <3>8, <3>9 DEF PartsMeet
  <2> QED  BY <1>1, <2>2, <2>4, <2>5, <2>6, <2>7 DEF Report
<1>3. CASE g[n].kind # ev.kind
  <2>1. t = Append(g, ev)
    BY <1>1, <1>3, JoinedIs DEF GoesOn
  <2>2. Step(ev.kind) = 0 /\ ev.kind \notin {"OEnd", "KBeg", "AEnd"} \union Begins
    BY DEF Step, Opens, Closes, Parts, Begins, Literals
  <2>3. MayFollow(g, ev.kind)
    BY <1>3, <2>2, ReportParts DEF MayFollow, Last
  <2>4. AllFit(t) /\ LeftOpen(t, st)
    BY <1>1, <2>1, <2>2, <2>3, AppendFits, OpenPlain
  <2>5. t \in Seq(Events) /\ t # << >> /\ Last(t) = ev
    BY <1>1, <2>1, LastAppended
  <2> QED  BY <1>1, <2>4, <2>5 DEF Report, PartsMeet
<1> QED  BY <1>2, <1>3

\* An event that neither opens nor closes, and is no part.
LEMMA ReportEvent ==
    ASSUME NEW g, NEW st, Report(g, st), NEW ev \in Events,
           ev.kind \notin Parts \union Opens \union Closes,
           g # << >> => ev.kind \in Follow(Last(g).kind),
           ev.kind = "KBeg" => Inside(st, "objn"),
           ev.kind \in Begins => ValueDue(g, st)
    PROVE  /\ Joined(g, ev) = Append(g, ev) /\ Report(Joined(g, ev), st)
           /\ Joined(g, ev) # << >> /\ Last(Joined(g, ev)) = ev
<1>1. g \in Seq(Events) /\ AllFit(g) /\ LeftOpen(g, st)
      /\ st \in Seq({"objn", "arrn"}) /\ Len(st) <= MaxDep
  BY ReportParts
<1>2. Joined(g, ev) = Append(g, ev)
  BY <1>1, JoinedIs DEF GoesOn
<1>3. Step(ev.kind) = 0 /\ ev.kind \notin {"OEnd", "AEnd"}
  BY DEF Step, Opens, Closes
<1>4. MayFollow(g, ev.kind)
  <2>1. Depth(g, Len(g)) + Step(ev.kind) <= MaxDep
    BY <1>3, ReportParts
  <2>2. Len(g) > 0 => ev.kind \in Follow(Last(g).kind)
    BY ReportParts
  <2>3. ev.kind = "KBeg" => Within(g, Len(g), "OBeg")
    BY ReportParts DEF OpenedBy
  <2>4. ev.kind \in Begins => \/ Len(g) = 0 \/ Last(g).kind = "KEnd"
                              \/ Within(g, Len(g), "ABeg")
    BY ReportParts DEF ValueDue, OpenedBy
  <2> QED  BY <1>3, <2>1, <2>2, <2>3, <2>4 DEF MayFollow
<1>5. AllFit(Append(g, ev)) /\ LeftOpen(Append(g, ev), st)
  BY <1>1, <1>3, <1>4, AppendFits, OpenPlain
<1> QED  BY <1>1, <1>2, <1>5, LastAppended DEF Report

LEMMA ReportOpen ==
    ASSUME NEW g, NEW st, Report(g, st), NEW ev \in Events, NEW open \in {"objn", "arrn"},
           ev.kind = OpenedBy(open), ValueDue(g, st), Len(st) + 1 <= MaxDep
    PROVE  /\ Report(Joined(g, ev), Append(st, open))
           /\ Joined(g, ev) # << >> /\ Last(Joined(g, ev)) = ev
<1>1. g \in Seq(Events) /\ AllFit(g) /\ LeftOpen(g, st)
      /\ st \in Seq({"objn", "arrn"}) /\ Len(st) <= MaxDep
  BY ReportParts
<1>2. ev.kind \in {"OBeg", "ABeg"} /\ ev.kind \in Begins
  BY DEF OpenedBy, Begins
<1>3. Joined(g, ev) = Append(g, ev)
  BY <1>1, <1>2, JoinedIs DEF GoesOn, Parts
<1>4. Step(ev.kind) = 1
  BY <1>2 DEF Step, Opens
<1>5. MayFollow(g, ev.kind)
  <2>1. Depth(g, Len(g)) + Step(ev.kind) <= MaxDep
    BY <1>4, ReportParts
  <2>2. Len(g) > 0 => ev.kind \in Follow(Last(g).kind)
    BY <1>2, ReportParts, FollowIs DEF ValueDue
  <2>4. \/ Len(g) = 0 \/ Last(g).kind = "KEnd" \/ Within(g, Len(g), "ABeg")
    BY ReportParts DEF ValueDue, OpenedBy
  <2> QED  BY <1>2, <2>1, <2>2, <2>4 DEF MayFollow
<1>6. AllFit(Append(g, ev)) /\ LeftOpen(Append(g, ev), Append(st, open))
  BY <1>1, <1>5, AppendFits, OpenOne
<1>7. Append(st, open) \in Seq({"objn", "arrn"}) /\ Len(Append(st, open)) <= MaxDep
  BY <1>1
<1> QED  BY <1>1, <1>3, <1>6, <1>7, LastAppended DEF Report

LEMMA ReportClose ==
    ASSUME NEW g, NEW st, Report(g, st), NEW ev \in Events, NEW open \in {"objn", "arrn"},
           ev.kind = (IF open = "objn" THEN "OEnd" ELSE "AEnd"), Inside(st, open),
           g # << >>, Last(g).kind \in Settled
    PROVE  /\ Report(Joined(g, ev), SubSeq(st, 1, Len(st) - 1))
           /\ Joined(g, ev) # << >> /\ Last(Joined(g, ev)) = ev
<1>1. g \in Seq(Events) /\ AllFit(g) /\ LeftOpen(g, st)
      /\ st \in Seq({"objn", "arrn"}) /\ Len(st) <= MaxDep
  BY ReportParts
<1>2. ev.kind \in Closes /\ ev.kind \notin Begins \union {"KBeg"} \union Parts
  BY DEF Closes, Begins, Literals, Parts
<1>3. Joined(g, ev) = Append(g, ev)
  BY <1>1, <1>2, JoinedIs DEF GoesOn
<1>4. Step(ev.kind) = -1
  BY <1>2 DEF Step, Closes, Opens
<1>5. MayFollow(g, ev.kind)
  <2>1. Depth(g, Len(g)) + Step(ev.kind) <= MaxDep
    BY <1>4, ReportParts
  <2>2. ev.kind \in Follow(Last(g).kind)
    BY <1>2, FollowIs
  <2>3. /\ ev.kind = "OEnd" => Within(g, Len(g), "OBeg")
        /\ ev.kind = "AEnd" => Within(g, Len(g), "ABeg")
    BY ReportParts DEF OpenedBy
  <2> QED  BY <1>2, <2>1, <2>2, <2>3 DEF MayFollow
<1>6. AllFit(Append(g, ev)) /\ LeftOpen(Append(g, ev), SubSeq(st, 1, Len(st) - 1))
  BY <1>1, <1>2, <1>5, AppendFits, CloseOne DEF Inside
<1>7. /\ SubSeq(st, 1, Len(st) - 1) \in Seq({"objn", "arrn"})
      /\ Len(SubSeq(st, 1, Len(st) - 1)) <= MaxDep
  <2>1. PICK n \in Nat : n = Len(st)
    BY <1>1
  <2>2. n > 0
    BY <1>1, <2>1 DEF Inside
  <2>3. SubSeq(st, 1, n - 1) \in Seq({"objn", "arrn"}) /\ Len(SubSeq(st, 1, n - 1)) = n - 1
    BY <1>1, <2>1, <2>2
  <2> QED  BY <1>1, <2>1, <2>3, ReportParts
<1> QED  BY <1>1, <1>3, <1>6, <1>7, LastAppended DEF Report

-----------------------------------------------------------------------------
(* The events of a step nest.                                              *)

LEMMA ReturnedIs ==
    ASSUME NEW cause, NEW l
    PROVE  /\ Returned(cause, l).cause = cause
           /\ cause # "none" => Returned(cause, l) # NoRet
           /\ NoRet.cause = "none" /\ "none" # "" /\ "cb_fail" \notin {"none", ""}
<1>1. Returned(cause, l).cause = cause /\ NoRet.cause = "none"
  BY DEF Returned, NoRet
<1>2. "none" # "" /\ "cb_fail" # "none" /\ "cb_fail" # ""
  BY Zenon
<1> QED  BY <1>1, <1>2

LEMMA NowReport ==
    ASSUME LocInv, NestInv, Running
    PROVE  /\ Report(got, stk) /\ PlaceFits(at, tok.key, stk)
           /\ LastFits(at, tok.key, tok.seg.off, stk, got, loc.off)
           /\ ret = NoRet
BY DEF LocInv, NestInv, StackType, AllTrue, Report, Running

\* Behind a step on which Parse goes on.
LEMMA NestGoesOn ==
    ASSUME ret' = NoRet, Report(got', stk'), PlaceFits(at', tok'.key, stk'),
           LastFits(at', tok'.key, tok'.seg.off, stk', got', loc'.off)
    PROVE  NestInv'
BY ReturnedIs DEF NestInv, Report, Running

\* Behind one on which it fails.
LEMMA NestFails ==
    ASSUME AllFit(got'), NEW cause, cause \notin {"", "none"}, NEW l, ret' = Returned(cause, l)
    PROVE  NestInv'
BY ReturnedIs DEF NestInv, Running

LEMMA NestStops ==
    ASSUME NestInv, NEW cause, cause \notin {"", "none"}, NEW l, Stop(cause, l)
    PROVE  NestInv'
<1>1. AllFit(got') /\ ret' = Returned(cause, l)
  BY DEF Stop, NestInv
<1> QED  BY <1>1, NestFails

\* A step that reports nothing.
LEMMA NestQuiet ==
    ASSUME LocInv, NestInv, Running, Quiet, PlaceFits(at', tok'.key, stk),
           LastFits(at', tok'.key, tok'.seg.off, stk, got, loc'.off)
    PROVE  NestInv'
BY NowReport, NestGoesOn DEF Quiet

\* A step that reports one event.
LEMMA NestSends ==
    ASSUME LocInv, NestInv, Running, NEW ev, Deliver(<<ev>>, ret),
           Report(Joined(got, ev), stk'), PlaceFits(at', tok'.key, stk'),
           LastFits(at', tok'.key, tok'.seg.off, stk', Joined(got, ev), loc'.off)
    PROVE  NestInv'
<1>1. PICK evs : evs = <<ev>>
  OBVIOUS
<1>2. Len(evs) = 1 /\ evs[1] = ev /\ \A n \in 1 .. Len(evs) : n = 1
  BY <1>1
<1>3. /\ got' = Joined(got, ev)
      /\ ret' = ret \/ ret' = Returned("cb_fail", evs[1].loc)
  BY <1>1, <1>2 DEF Deliver
<1>4. CASE ret' = ret
  <2>1. ret' = NoRet
    BY <1>4 DEF Running
  <2> QED  BY <1>3, <2>1, NestGoesOn
<1>5. CASE ret' = Returned("cb_fail", evs[1].loc)
  <2>1. AllFit(got')
    BY <1>3 DEF Report
  <2> QED  BY <1>5, <2>1, NestFails, ReturnedIs
<1> QED  BY <1>3, <1>4, <1>5

\* The events when the part under way has been passed on.
AfterPart == IF Sput = << >> THEN got ELSE Joined(got, Sput[1])

LEMMA PartNests ==
    ASSUME LocInv, NestInv, Running, at \in StrPlaces \union NumPlaces
    PROVE  /\ Report(AfterPart, stk) /\ AfterPart # << >> /\ PartsMeet(AfterPart, loc.off)
           /\ at \in StrPlaces =>
                 Last(AfterPart).kind \in (IF tok.key THEN {"KBeg", "KPar"} ELSE {"SBeg", "SPar"})
           /\ at \in NumPlaces => Last(AfterPart).kind = "NPar"
<1>1. /\ Report(got, stk) /\ got # << >> /\ PartsMeet(got, tok.seg.off)
      /\ at \in StrPlaces =>
            Last(got).kind \in (IF tok.key THEN {"KBeg", "KPar"} ELSE {"SBeg", "SPar"})
      /\ at \in NumPlaces => \/ Last(got).kind = "NBeg" /\ tok.seg.off < loc.off
                             \/ Last(got).kind = "NPar"
  <2>1. at \notin {"val", "bom"} \union Literals
    BY DEF StrPlaces, NumPlaces, Literals
  <2> QED  BY <2>1, NowReport DEF LastFits
<1>2. at \in StrPlaces => at \notin NumPlaces
  BY PlacesApart
<1>3. CASE loc.off = tok.seg.off
  <2>1. Sput = << >>
    BY <1>3, SputTrue
  <2>2. loc.off \in Nat
    BY DEF LocInv, Loc
  <2>3. at \in NumPlaces => Last(got).kind = "NPar"
    BY <1>1, <1>3, <2>2
  <2>4. PartsMeet(got, loc.off)
    BY <1>1, <1>3
  <2> QED  BY <1>1, <2>1, <2>3, <2>4 DEF AfterPart
<1>4. CASE loc.off # tok.seg.off
  <2>1. PICK e \in Events : /\ Sput = <<e>> /\ e.kind = PartKind /\ e.loc = tok.seg
                            /\ tok.seg.off + Len(e.data) = loc.off
    BY <1>4, SputTrue
  <2>2. AfterPart = Joined(got, e)
    BY <2>1 DEF AfterPart
  <2>3. /\ at \in StrPlaces => PartKind = (IF tok.key THEN "KPar" ELSE "SPar")
        /\ at \in NumPlaces => PartKind = "NPar"
    BY <1>2 DEF PartKind
  <2>4. e.kind \in Parts /\ (Last(got).kind = e.kind \/ e.kind \in Follow(Last(got).kind))
    BY <1>1, <2>1, <2>3, FollowIs DEF Parts
  <2>5. PartsMeet(got, e.loc.off)
    BY <1>1, <2>1
  <2>6. /\ Report(Joined(got, e), stk) /\ Joined(got, e) # << >>
        /\ Last(Joined(got, e)).kind = e.kind
        /\ PartsMeet(Joined(got, e), e.loc.off + Len(e.data))
    BY <1>1, <2>4, <2>5, ReportPart
  <2> QED  BY <2>1, <2>2, <2>3, <2>6
<1> QED  BY <1>3, <1>4

LEMMA SendsPart ==
    ASSUME LocInv, at \in StrPlaces \union NumPlaces, NEW r
    PROVE  /\ Deliver(Sput, r) =>
                 got' = AfterPart /\ (ret' = r \/ \E l \in Loc : ret' = Returned("cb_fail", l))
           /\ \A ev \in Events : Deliver(Append(Sput, ev), r) =>
                 \/ got' = Joined(AfterPart, ev) /\ ret' = r
                 \/ /\ got' \in {AfterPart, Joined(AfterPart, ev)}
                    /\ \E l \in Loc : ret' = Returned("cb_fail", l)
<1>1. CASE Sput = << >>
  <2>1. ASSUME Deliver(Sput, r)
        PROVE  got' = AfterPart /\ ret' = r
    <3>1. PICK evs : evs = << >>
      OBVIOUS
    <3>2. Len(evs) = 0 /\ 1 .. Len(evs) = {}
      BY <3>1
    <3> QED  BY <1>1, <2>1, <3>1, <3>2 DEF Deliver, AfterPart
  <2>2. ASSUME NEW ev \in Events, Deliver(Append(Sput, ev), r)
        PROVE  got' = Joined(AfterPart, ev) /\ (ret' = r \/ \E l \in Loc : ret' = Returned("cb_fail", l))
    <3>1. PICK evs : evs = Append(Sput, ev)
      OBVIOUS
    <3>2. Len(evs) = 1 /\ evs[1] = ev /\ \A n \in 1 .. Len(evs) : n = 1
      BY <1>1, <3>1
    <3>3. got' = Joined(got, ev) /\ (ret' = r \/ ret' = Returned("cb_fail", ev.loc))
      BY <2>2, <3>1, <3>2 DEF Deliver
    <3> QED  BY <1>1, <3>3, EventParts DEF AfterPart
  <2> QED  BY <2>1, <2>2
<1>2. CASE Sput # << >>
  <2>1. PICK e \in Events : Sput = <<e>>
    BY <1>2, SputTrue
  <2>2. AfterPart = Joined(got, e)
    BY <2>1 DEF AfterPart
  <2>3. ASSUME Deliver(Sput, r)
        PROVE  got' = AfterPart /\ (ret' = r \/ \E l \in Loc : ret' = Returned("cb_fail", l))
    <3>1. PICK evs : evs = Sput
      OBVIOUS
    <3>2. Len(evs) = 1 /\ evs[1] = e /\ \A n \in 1 .. Len(evs) : n = 1
      BY <2>1, <3>1
    <3>3. got' = Joined(got, e) /\ (ret' = r \/ ret' = Returned("cb_fail", e.loc))
      BY <2>3, <3>1, <3>2 DEF Deliver
    <3> QED  BY <2>2, <3>3, EventParts
  <2>4. ASSUME NEW ev \in Events, Deliver(Append(Sput, ev), r)
        PROVE  \/ got' = Joined(AfterPart, ev) /\ ret' = r
               \/ /\ got' \in {AfterPart, Joined(AfterPart, ev)}
                  /\ \E l \in Loc : ret' = Returned("cb_fail", l)
    <3>1. PICK evs : evs = Append(Sput, ev)
      OBVIOUS
    <3>2. Len(evs) = 2 /\ evs[1] = e /\ evs[2] = ev /\ \A n \in 1 .. Len(evs) : n = 1 \/ n = 2
      BY <2>1, <3>1
    <3>3. \/ got' = Joined(Joined(got, e), ev) /\ ret' = r
          \/ got' = Joined(got, e) /\ ret' = Returned("cb_fail", e.loc)
          \/ got' = Joined(Joined(got, e), ev) /\ ret' = Returned("cb_fail", ev.loc)
      BY <2>4, <3>1, <3>2 DEF Deliver
    <3> QED  BY <2>2, <3>3, EventParts
  <2> QED  BY <2>3, <2>4
<1> QED  BY <1>1, <1>2

LEMMA SendsNone ==
    ASSUME NEW r, Deliver(<< >>, r)
    PROVE  got' = got /\ ret' = r
<1>1. PICK evs : evs = << >>
  OBVIOUS
<1>2. Len(evs) = 0 /\ 1 .. Len(evs) = {}
  BY <1>1
<1> QED  BY <1>1, <1>2 DEF Deliver

\* The errors of a text are not nil.
TextErrors == {"bad_esc", "bad_num", "bad_tok", "ctl_str", "esc_eof", "max_dep", "str_eof",
               "tok_eof", "trail", "u4_hex", "u4_len", "utf8", "want_aend", "want_col",
               "want_key", "want_oend", "want_val"}

LEMMA NotNil == \A cause \in TextErrors \union ByCaller : cause \notin {"", "none"}
BY Zenon DEF TextErrors, ByCaller

LEMMA NestErrors ==
    ASSUME NestInv, NEW cause \in TextErrors, NEW l, Stop(cause, l)
    PROVE  NestInv'
BY NotNil, NestStops

\* Where a value has ended.
LEMMA AfterValueFits ==
    ASSUME NEW st \in Seq({"objn", "arrn"}), NEW g, g # << >>, Last(g).kind \in Settled,
           NEW key, NEW from, NEW off
    PROVE  /\ PlaceFits(AfterValue(st), key, st)
           /\ LastFits(AfterValue(st), key, from, st, g, off)
<1>1. PICK place \in {"end", "objn", "arrn"} :
        /\ place = AfterValue(st) /\ (place = "end" <=> st = << >>)
        /\ st # << >> => place = Top(st)
  BY AfterValuePlace DEF Top
<1>2. PlaceFits(place, key, st)
  BY <1>1 DEF PlaceFits, Inside, StrPlaces
<1>3. LastFits(place, key, from, st, g, off)
  BY <1>1 DEF LastFits, StrPlaces, NumPlaces, Literals
<1> QED  BY <1>1, <1>2, <1>3

LEMMA NestPull ==
    ASSUME LocInv, NestInv, Pull \/ PullEmpty \/ PullFail
    PROVE  NestInv'
<1>1. /\ Running /\ at' = at /\ stk' = stk /\ loc' = loc
      /\ \/ Deliver(PartAtCut, ret) /\ tok' = SegAfterPull
         \/ \E cause \in ByCaller : Deliver(PartAtCut, Returned(cause, loc))
  BY DEF Pull, PullEmpty, PullFail, ByCaller
<1>2. /\ tok \in [seg : Loc, nloc : Loc, key : BOOLEAN, due : Seq(SUBSET DueChars)]
  BY DEF LocInv, TokTrue
<1>3. CASE at \in StrPlaces \union NumPlaces
  <2>1. PartAtCut = Sput
    BY <1>3 DEF PartAtCut
  <2>2. /\ got' = AfterPart
        /\ \/ ret' = ret /\ tok' = SegAfterPull
           \/ \E cause \in ByCaller, l \in Loc \union {loc} : ret' = Returned(cause, l)
    BY <1>1, <1>3, <2>1, SendsPart DEF ByCaller
  <2>3. CASE ret' = ret /\ tok' = SegAfterPull
    <3>1. tok'.key = tok.key /\ tok'.seg.off = loc.off
      BY <1>2, <1>3, <2>3 DEF SegAfterPull
    <3>2. Report(got', stk') /\ PlaceFits(at', tok'.key, stk') /\ ret' = NoRet
      BY <1>1, <1>3, <2>2, <2>3, <3>1, PartNests, NowReport
    <3>3. at \notin {"val", "bom", "obj0", "key", "objn", "arr0", "arrn", "end", "colon"} \union Literals
      BY <1>3 DEF StrPlaces, NumPlaces, Literals
    <3>4. LastFits(at, tok.key, loc.off, stk, AfterPart, loc.off)
      BY <1>1, <1>3, <3>3, PartNests DEF LastFits
    <3> QED  BY <1>1, <2>2, <3>1, <3>2, <3>4, NestGoesOn
  <2>4. CASE \E cause \in ByCaller, l \in Loc \union {loc} : ret' = Returned(cause, l)
    <3>1. AllFit(got')
      BY <1>1, <1>3, <2>2, PartNests DEF Report
    <3> QED  BY <2>4, <3>1, NotNil, NestFails
  <2> QED  BY <2>2, <2>3, <2>4
<1>4. CASE at \notin StrPlaces \union NumPlaces
  <2>1. PartAtCut = << >>
    BY <1>4 DEF PartAtCut
  <2>2. /\ got' = got
        /\ \/ ret' = ret /\ tok' = SegAfterPull
           \/ \E cause \in ByCaller : ret' = Returned(cause, loc)
    BY <1>1, <2>1, SendsNone
  <2>3. CASE ret' = ret /\ tok' = SegAfterPull
    <3>1. tok'.key = tok.key /\ tok'.seg = tok.seg
      BY <1>2, <1>4, <2>3 DEF SegAfterPull
    <3> QED  BY <1>1, <2>2, <2>3, <3>1, NestQuiet, NowReport DEF Quiet
  <2>4. CASE \E cause \in ByCaller : ret' = Returned(cause, loc)
    <3>1. AllFit(got')
      BY <2>2 DEF NestInv
    <3> QED  BY <2>4, <3>1, NotNil, NestFails
  <2> QED  BY <2>2, <2>3, <2>4
<1> QED  BY <1>3, <1>4

LEMMA NestBom ==
    ASSUME LocInv, NestInv, BomByte \/ NoBom
    PROVE  NestInv'
<1>1. at = "bom" /\ Running
  BY DEF BomByte, NoBom, At
<1>2. got = << >>
  BY <1>1, NowReport DEF LastFits
<1>3. CASE Quiet /\ at' \in {"val", "bom"}
  <2>1. PlaceFits(at', tok'.key, stk)
    BY <1>3 DEF PlaceFits, StrPlaces
  <2>2. LastFits(at', tok'.key, tok'.seg.off, stk, got, loc'.off)
    BY <1>2, <1>3 DEF LastFits, ValueDue, StrPlaces, NumPlaces, Literals
  <2> QED  BY <1>1, <1>3, <2>1, <2>2, NestQuiet
<1>4. CASE Stop("bad_tok", FirstLoc)
  BY <1>4, NestErrors DEF TextErrors
<1>5. (Quiet /\ at' \in {"val", "bom"}) \/ Stop("bad_tok", FirstLoc)
  BY DEF BomByte, NoBom, Goto
<1> QED  BY <1>3, <1>4, <1>5

LEMMA NestGap ==
    ASSUME LocInv, NestInv, Skip1 \/ FirstElement \/ Comma \/ Colon
    PROVE  NestInv'
<1>1. Running /\ at \in Between
  BY DEF Skip1, FirstElement, Comma, Colon, At, Between
<1>2. /\ PlaceFits(at, tok.key, stk) /\ LastFits(at, tok.key, tok.seg.off, stk, got, loc.off)
  BY <1>1, NowReport
<1>3. at \notin StrPlaces \union NumPlaces \union Literals
  BY <1>1, PlacesApart
<1>4. CASE Skip1
  <2>1. Quiet /\ at' = at /\ tok' = tok
    BY <1>4 DEF Skip1
  <2>2. LastFits(at, tok.key, tok.seg.off, stk, got, loc'.off)
    BY <1>2, <1>3 DEF LastFits
  <2> QED  BY <1>1, <1>2, <2>1, <2>2, NestQuiet
<1>5. ASSUME Quiet, at' \in {"val", "key"}, at' = "val" => ValueDue(got, stk),
             at' = "key" => got # << >> /\ Last(got).kind \in Settled /\ Inside(stk, "objn")
      PROVE  NestInv'
  <2>1. PlaceFits(at', tok'.key, stk)
    BY <1>5 DEF PlaceFits, StrPlaces
  <2>2. LastFits(at', tok'.key, tok'.seg.off, stk, got, loc'.off)
    BY <1>5 DEF LastFits, StrPlaces, NumPlaces, Literals
  <2> QED  BY <1>1, <1>5, <2>1, <2>2, NestQuiet
<1>6. CASE FirstElement
  <2>1. at = "arr0" /\ ValueDue(got, stk)
    BY <1>2, <1>6 DEF FirstElement, At, PlaceFits, LastFits, ValueDue
  <2>2. Stop("want_aend", loc) \/ (Quiet /\ at' = "val")
    BY <1>6 DEF FirstElement, Goto
  <2> QED  BY <1>5, <2>1, <2>2, NestErrors DEF TextErrors
<1>7. CASE Comma
  <2>1. /\ Quiet /\ at \in {"objn", "arrn"} /\ at' = (IF at = "objn" THEN "key" ELSE "val")
        /\ got # << >> /\ Last(got).kind \in Settled /\ Inside(stk, at)
    BY <1>2, <1>3, <1>7 DEF Comma, At, Goto, PlaceFits, LastFits
  <2> QED  BY <1>5, <2>1 DEF ValueDue
<1>8. CASE Colon
  <2>1. Quiet /\ at' = "val" /\ at = "colon"
    BY <1>8 DEF Colon, At, Goto
  <2>2. ValueDue(got, stk)
    BY <1>2, <2>1 DEF LastFits, ValueDue
  <2> QED  BY <1>5, <2>1, <2>2
<1> QED  BY <1>4, <1>6, <1>7, <1>8

LEMMA NestUnexpected ==
    ASSUME LocInv, NestInv, End \/ Unexpected \/ StrBad \/ NumBad
    PROVE  NestInv'
<1>1. CASE End
  <2>1. Running /\ at = "end" /\ got' = got /\ ret' = Returned("", NoLoc)
    BY <1>1 DEF End, At
  <2>2. AllFit(got) /\ LeftOpen(got, stk) /\ stk = << >> /\ got # << >>
    BY <2>1, NowReport DEF Report, PlaceFits, LastFits, Literals
  <2>3. Depth(got, Len(got)) = 0
    BY <2>2 DEF LeftOpen
  <2>4. ret'.cause = "" /\ ret' # NoRet
    <3>1. "" # "none"
      BY ReturnedIs
    <3> QED  BY <2>1, <3>1, ReturnedIs
  <2> QED  BY <2>1, <2>2, <2>3, <2>4 DEF NestInv, Running
<1>2. CASE Unexpected
  <2>1. at \in Between \ {"arr0"}
    BY <1>2 DEF Unexpected, At
  <2>2. PICK cause : /\ Stop(cause, loc)
                     /\ cause = (CASE at \in {"val", "colon"} /\ nxt = EndOfText -> "tok_eof"
                                   [] at = "val"                -> "want_val"
                                   [] at \in {"obj0", "key"}    -> "want_key"
                                   [] at = "colon"              -> "want_col"
                                   [] at = "objn"               -> "want_oend"
                                   [] at = "arrn"               -> "want_aend"
                                   [] at = "end"                -> "trail")
    BY <1>2 DEF Unexpected
  <2>3. cause \in TextErrors
    BY <2>1, <2>2 DEF Between, TextErrors
  <2> QED  BY <2>2, <2>3, NestErrors
<1>3. CASE StrBad
  <2>1. Stop("str_eof", loc) \/ Stop("ctl_str", loc)
    BY <1>3 DEF StrBad
  <2> QED  BY <2>1, NestErrors DEF TextErrors
<1>4. CASE NumBad
  <2>1. Stop("bad_num", NoLoc) \/ Stop("bad_num", loc)
    BY <1>4 DEF NumBad
  <2> QED  BY <2>1, NestErrors DEF TextErrors
<1> QED  BY <1>1, <1>2, <1>3, <1>4

LEMMA NestOpen ==
    ASSUME LocInv, NestInv, Open
    PROVE  NestInv'
<1>1. Running /\ at = "val"
  BY DEF Open, At
<1>2. Report(got, stk) /\ ValueDue(got, stk) /\ loc \in Loc
  BY <1>1, NowReport DEF LastFits, LocInv
<1>3. CASE DepthOK
  <2>1. PICK open \in {"objn", "arrn"}, place \in {"obj0", "arr0"}, ev \in Events :
          /\ Deliver(<<ev>>, ret) /\ ev.kind = OpenedBy(open)
          /\ stk' = Append(stk, open) /\ at' = place /\ (place = "obj0" <=> open = "objn")
    <3>1. \E open \in {"objn", "arrn"}, place \in {"obj0", "arr0"} :
            /\ Deliver(<<Event(OpenedBy(open), << >>, loc)>>, ret)
            /\ stk' = Append(stk, open) /\ at' = place /\ (place = "obj0" <=> open = "objn")
      <4>1. CASE nxt = "{"
        <5>1. /\ Deliver(<<Event("OBeg", << >>, loc)>>, ret)
              /\ stk' = Append(stk, "objn") /\ at' = "obj0"
          BY <1>3, <4>1 DEF Open, Goto
        <5>2. OpenedBy("objn") = "OBeg"
          BY DEF OpenedBy
        <5> QED  BY <5>1, <5>2
      <4>2. CASE nxt # "{"
        <5>1. /\ Deliver(<<Event("ABeg", << >>, loc)>>, ret)
              /\ stk' = Append(stk, "arrn") /\ at' = "arr0"
          BY <1>3, <4>2 DEF Open, Goto
        <5>2. OpenedBy("arrn") = "ABeg"
          BY DEF OpenedBy
        <5> QED  BY <5>1, <5>2
      <4> QED  BY <4>1, <4>2
    <3>2. \A open \in {"objn", "arrn"} : /\ Event(OpenedBy(open), << >>, loc) \in Events
                                       /\ Event(OpenedBy(open), << >>, loc).kind = OpenedBy(open)
      BY <1>2 DEF OpenedBy, Kinds, Event, Events
    <3> QED  BY <3>1, <3>2
  <2>2. Len(stk) + 1 <= MaxDep
    BY <1>3 DEF DepthOK
  <2>3. /\ Report(Joined(got, ev), stk') /\ Joined(got, ev) # << >> /\ Last(Joined(got, ev)) = ev
    BY <1>2, <2>1, <2>2, ReportOpen
  <2>4. Inside(stk', open)
    <3>1. stk \in Seq({"objn", "arrn"})
      BY <1>2, ReportParts
    <3> QED  BY <2>1, <3>1 DEF Inside, Top
  <2>5. ev.kind \in Settled
    BY <2>1 DEF Settled, Parts, Kinds, OpenedBy
  <2>6. PlaceFits(at', tok'.key, stk')
    BY <2>1, <2>4 DEF PlaceFits, StrPlaces
  <2>7. LastFits(at', tok'.key, tok'.seg.off, stk', Joined(got, ev), loc'.off)
    BY <2>1, <2>3, <2>5 DEF LastFits, StrPlaces, NumPlaces, Literals
  <2> QED  BY <1>1, <2>1, <2>3, <2>6, <2>7, NestSends
<1>4. CASE ~ DepthOK
  <2>1. Stop("max_dep", loc)
    BY <1>4 DEF Open
  <2> QED  BY <2>1, NestErrors DEF TextErrors
<1> QED  BY <1>3, <1>4

LEMMA NestClose ==
    ASSUME LocInv, NestInv, Close
    PROVE  NestInv'
<1>1. Running /\ at \in {"obj0", "objn", "arr0", "arrn"} /\ loc \in Loc
  BY DEF Close, At, LocInv
<1>2. Report(got, stk) /\ got # << >> /\ Last(got).kind \in Settled
  BY <1>1, NowReport DEF LastFits, Literals
<1>3. PICK open \in {"objn", "arrn"}, ev \in Events :
        /\ Inside(stk, open) /\ Deliver(<<ev>>, ret)
        /\ ev.kind = (IF open = "objn" THEN "OEnd" ELSE "AEnd")
        /\ stk' = SubSeq(stk, 1, Len(stk) - 1) /\ at' = AfterValue(stk')
  <2>1. /\ Event("OEnd", << >>, loc) \in Events /\ Event("OEnd", << >>, loc).kind = "OEnd"
        /\ Event("AEnd", << >>, loc) \in Events /\ Event("AEnd", << >>, loc).kind = "AEnd"
    BY <1>1 DEF Kinds, Event, Events
  <2>2. stk' = SubSeq(stk, 1, Len(stk) - 1) /\ at' = AfterValue(stk')
    BY DEF Close, Goto
  <2>3. CASE at \in {"obj0", "objn"} /\ nxt = "}"
    <3>1. Inside(stk, "objn") /\ Deliver(<<Event("OEnd", << >>, loc)>>, ret)
      BY <1>1, <2>3, NowReport DEF Close, PlaceFits
    <3> QED  BY <2>1, <2>2, <3>1
  <2>4. CASE at \in {"arr0", "arrn"} /\ nxt = "]"
    <3>1. nxt # "}"
      BY <2>4, Zenon
    <3>2. Inside(stk, "arrn") /\ Deliver(<<Event("AEnd", << >>, loc)>>, ret)
      BY <1>1, <2>4, <3>1, NowReport DEF Close, PlaceFits
    <3> QED  BY <2>1, <2>2, <3>2
  <2> QED  BY <2>3, <2>4 DEF Close, At
<1>4. Report(Joined(got, ev), stk') /\ Joined(got, ev) # << >> /\ Last(Joined(got, ev)) = ev
  BY <1>2, <1>3, ReportClose
<1>5. ev.kind \in Settled
  BY <1>3 DEF Settled, Parts, Kinds
<1>6. stk' \in Seq({"objn", "arrn"})
  BY <1>4, ReportParts
<1>7. /\ PlaceFits(at', tok'.key, stk')
      /\ LastFits(at', tok'.key, tok'.seg.off, stk', Joined(got, ev), loc'.off)
  BY <1>3, <1>4, <1>5, <1>6, AfterValueFits
<1> QED  BY <1>1, <1>3, <1>4, <1>7, NestSends

LEMMA NestQuote ==
    ASSUME LocInv, NestInv, text' = text, Quote
    PROVE  NestInv'
<1>1. /\ Running /\ at \in {"val", "obj0", "key"} /\ stk' = stk /\ at' = "str"
      /\ tok' = Tok(Advanced, at # "val", << >>)
  BY DEF Quote, At, Goto
<1>2. Report(got, stk) /\ loc \in Loc
  BY <1>1, NowReport DEF LocInv
<1>3. PICK ev \in Events : /\ Deliver(<<ev>>, ret)
                           /\ ev.kind = (IF at = "val" THEN "SBeg" ELSE "KBeg")
  <2>1. Deliver(<<Event(IF at = "val" THEN "SBeg" ELSE "KBeg", << >>, loc)>>, ret)
    BY DEF Quote
  <2>2. PICK kind \in Kinds : kind = IF at = "val" THEN "SBeg" ELSE "KBeg"
    BY DEF Kinds
  <2>3. Event(kind, << >>, loc) \in Events /\ Event(kind, << >>, loc).kind = kind
    BY <1>2 DEF Event, Events
  <2> QED  BY <2>1, <2>2, <2>3
<1>4. /\ at = "val" => ValueDue(got, stk)
      /\ at # "val" => Inside(stk, "objn") /\ got # << >> /\ Last(got).kind \in Settled
  BY <1>1, NowReport DEF PlaceFits, LastFits, Literals
<1>5. ev.kind \notin Parts \union Opens \union Closes
  BY <1>3 DEF Parts, Opens, Closes
<1>6. got # << >> => ev.kind \in Follow(Last(got).kind)
  BY <1>3, <1>4, FollowIs DEF ValueDue, Begins
<1>7. /\ Report(Joined(got, ev), stk) /\ Joined(got, ev) # << >> /\ Last(Joined(got, ev)) = ev
  <2>1. ev.kind = "KBeg" => Inside(stk, "objn")
    BY <1>3, <1>4
  <2>2. ev.kind \in Begins => ValueDue(got, stk)
    BY <1>3, <1>4 DEF Begins, Literals
  <2> QED  BY <1>2, <1>5, <1>6, <2>1, <2>2, ReportEvent
<1>8. tok'.key = (at # "val")
  BY <1>1 DEF Tok
<1>9. PlaceFits(at', tok'.key, stk')
  BY <1>1, <1>4, <1>8 DEF PlaceFits
<1>10. LastFits(at', tok'.key, tok'.seg.off, stk', Joined(got, ev), loc'.off)
  BY <1>1, <1>3, <1>5, <1>7, <1>8 DEF LastFits, PartsMeet, NumPlaces, Literals
<1> QED  BY <1>1, <1>3, <1>7, <1>9, <1>10, NestSends

LEMMA NestStrEnd ==
    ASSUME LocInv, NestInv, StrEnd
    PROVE  NestInv'
<1>1. /\ Running /\ at = "str" /\ at \in StrPlaces /\ stk' = stk /\ loc \in Loc /\ tok' = NoTok
      /\ at' = (IF tok.key THEN "colon" ELSE AfterValue(stk))
  BY DEF StrEnd, At, Goto, StrPlaces, LocInv
<1>2. /\ Report(AfterPart, stk) /\ AfterPart # << >>
      /\ Last(AfterPart).kind \in (IF tok.key THEN {"KBeg", "KPar"} ELSE {"SBeg", "SPar"})
  BY <1>1, PartNests
<1>3. PICK ev \in Events : /\ Deliver(Append(Sput, ev), ret)
                           /\ ev.kind = (IF tok.key THEN "KEnd" ELSE "SEnd")
  <2>1. Deliver(Append(Sput, Event(IF tok.key THEN "KEnd" ELSE "SEnd", << >>, loc)), ret)
    BY DEF StrEnd
  <2>2. PICK kind \in Kinds : kind = IF tok.key THEN "KEnd" ELSE "SEnd"
    BY DEF Kinds
  <2>3. Event(kind, << >>, loc) \in Events /\ Event(kind, << >>, loc).kind = kind
    BY <1>1 DEF Event, Events
  <2> QED  BY <2>1, <2>2, <2>3
<1>4. /\ Report(Joined(AfterPart, ev), stk) /\ Joined(AfterPart, ev) # << >>
      /\ Last(Joined(AfterPart, ev)) = ev
  <2>1. ev.kind \notin Parts \union Opens \union Closes \union Begins \union {"KBeg"}
    BY <1>3 DEF Parts, Opens, Closes, Begins, Literals
  <2>2. ev.kind \in Follow(Last(AfterPart).kind)
    BY <1>2, <1>3, FollowIs
  <2> QED  BY <1>2, <2>1, <2>2, ReportEvent
<1>5. PlaceFits(at', tok'.key, stk) /\ LastFits(at', tok'.key, tok'.seg.off, stk, Joined(AfterPart, ev), loc'.off)
  <2>1. CASE tok.key
    <3>1. Inside(stk, "objn")
      BY <1>1, <2>1, NowReport DEF PlaceFits
    <3>2. PlaceFits(at', tok'.key, stk)
      BY <1>1, <2>1, <3>1 DEF PlaceFits, StrPlaces
    <3>3. LastFits(at', tok'.key, tok'.seg.off, stk, Joined(AfterPart, ev), loc'.off)
      BY <1>1, <1>3, <1>4, <2>1 DEF LastFits, StrPlaces, NumPlaces, Literals
    <3> QED  BY <3>2, <3>3
  <2>2. CASE ~ tok.key
    <3>1. ev.kind \in Settled
      BY <1>3, <2>2 DEF Settled, Parts, Kinds
    <3>2. stk \in Seq({"objn", "arrn"})
      BY <1>2, ReportParts
    <3> QED  BY <1>1, <1>4, <2>2, <3>1, <3>2, AfterValueFits
  <2> QED  BY <2>1, <2>2
<1>6. CASE got' = Joined(AfterPart, ev) /\ ret' = ret
  <2>1. ret' = NoRet
    BY <1>1, <1>6 DEF Running
  <2> QED  BY <1>1, <1>4, <1>5, <1>6, <2>1, NestGoesOn
<1>7. CASE got' \in {AfterPart, Joined(AfterPart, ev)} /\ \E l \in Loc : ret' = Returned("cb_fail", l)
  <2>1. AllFit(got')
    BY <1>2, <1>4, <1>7 DEF Report
  <2> QED  BY <1>7, <2>1, NotNil, NestFails DEF ByCaller
<1> QED  BY <1>1, <1>3, <1>6, <1>7, SendsPart

LEMMA NestStrChar ==
    ASSUME LocInv, NestInv, StrChar \/ EscChar
    PROVE  NestInv'
<1>1. Running /\ at \in {"str", "esc"}
  BY DEF StrChar, EscChar, At
<1>2. /\ tok \in [seg : Loc, nloc : Loc, key : BOOLEAN, due : Seq(SUBSET DueChars)]
  BY DEF LocInv, TokTrue
<1>3. \/ \E cause \in {"utf8", "esc_eof", "bad_esc"} : Stop(cause, loc)
      \/ /\ Quiet /\ at' \in {"str", "esc", "u8", "hex"}
         /\ tok' = tok \/ \E due : tok' = [tok EXCEPT !.due = due]
  BY DEF StrChar, EscChar, Goto
<1>4. CASE \E cause \in {"utf8", "esc_eof", "bad_esc"} : Stop(cause, loc)
  BY <1>4, NestErrors DEF TextErrors
<1>5. CASE /\ Quiet /\ at' \in {"str", "esc", "u8", "hex"}
           /\ tok' = tok \/ \E due : tok' = [tok EXCEPT !.due = due]
  <2>1. tok'.key = tok.key /\ tok'.seg = tok.seg
    BY <1>2, <1>5
  <2>2. PlaceFits(at', tok'.key, stk)
    BY <1>1, <1>5, <2>1, NowReport DEF PlaceFits, StrPlaces
  <2>3. LastFits(at', tok'.key, tok'.seg.off, stk, got, loc'.off)
    BY <1>1, <1>5, <2>1, NowReport DEF LastFits, StrPlaces, NumPlaces, Literals
  <2> QED  BY <1>1, <1>5, <2>2, <2>3, NestQuiet
<1> QED  BY <1>3, <1>4, <1>5

LEMMA NestLiteral ==
    ASSUME LocInv, NestInv, Literal
    PROVE  NestInv'
<1>1. Running /\ at = "val" /\ Quiet /\ nxt \in {"t", "f", "n"}
      /\ at' = CASE nxt = "t" -> "True" [] nxt = "f" -> "False" [] nxt = "n" -> "Null"
  BY DEF Literal, At, Goto
<1>2. at' \in Literals /\ ValueDue(got, stk)
  BY <1>1, NowReport DEF Literals, LastFits
<1>3. PlaceFits(at', tok'.key, stk)
  BY <1>2 DEF PlaceFits, StrPlaces, Literals
<1>4. LastFits(at', tok'.key, tok'.seg.off, stk, got, loc'.off)
  BY <1>2 DEF LastFits, StrPlaces, NumPlaces, Literals
<1> QED  BY <1>1, <1>3, <1>4, NestQuiet

LEMMA NestDue ==
    ASSUME LocInv, NestInv, Due
    PROVE  NestInv'
<1>1. Running /\ at \in {"hex", "u8"} \union Literals
  BY DEF Due, At
<1>2. tok \in [seg : Loc, nloc : Loc, key : BOOLEAN, due : Seq(SUBSET DueChars)]
  BY DEF LocInv, TokTrue
<1>3. CASE nxt \in Head(tok.due)
  <2>1. /\ Quiet /\ tok' = [tok EXCEPT !.due = Tail(@)]
        /\ at' = (IF Len(tok.due) = 1 /\ at \notin Literals THEN "str" ELSE at)
    BY <1>3 DEF Due, Goto
  <2>2. tok'.key = tok.key /\ tok'.seg = tok.seg
    BY <1>2, <2>1
  <2>3. PlaceFits(at', tok'.key, stk)
    BY <1>1, <2>1, <2>2, NowReport DEF PlaceFits, StrPlaces, Literals
  <2>4. LastFits(at', tok'.key, tok'.seg.off, stk, got, loc'.off)
    <3>1. CASE at \in Literals
      <4>1. at' = at /\ ValueDue(got, stk)
        BY <1>1, <2>1, <3>1, NowReport DEF LastFits
      <4> QED  BY <3>1, <4>1 DEF LastFits, StrPlaces, NumPlaces, Literals
    <3>2. CASE at \in {"hex", "u8"}
      <4>1. at' \in {"str", "hex", "u8"}
        BY <2>1, <3>2
      <4> QED  BY <1>1, <2>2, <3>2, <4>1, NowReport DEF LastFits, StrPlaces, NumPlaces, Literals
    <3> QED  BY <1>1, <3>1, <3>2
  <2> QED  BY <1>1, <2>1, <2>3, <2>4, NestQuiet
<1>4. CASE nxt \notin Head(tok.due)
  <2>1. \/ Stop("utf8", loc) \/ Stop("u4_len", loc) \/ Stop("u4_hex", loc)
        \/ Stop("bad_tok", NoLoc) \/ Stop("bad_tok", loc)
    BY <1>1, <1>4 DEF Due, Literals
  <2> QED  BY <2>1, NestErrors DEF TextErrors
<1> QED  BY <1>3, <1>4

LEMMA NestLiteralEnd ==
    ASSUME LocInv, NestInv, LiteralEnd
    PROVE  NestInv'
<1>1. Running /\ at \in Literals /\ at \in Kinds /\ tok.nloc \in Loc
  BY PlacesApart DEF LiteralEnd, At, LocInv, TokTrue
<1>2. Report(got, stk) /\ ValueDue(got, stk)
  BY <1>1, NowReport DEF LastFits
<1>3. CASE EndsTok
  <2>1. PICK ev : ev = Event(at, << >>, tok.nloc)
    OBVIOUS
  <2>2. ev \in Events /\ ev.kind = at
    BY <1>1, <2>1 DEF Event, Events
  <2>3. Deliver(<<ev>>, ret) /\ at' = AfterValue(stk) /\ stk' = stk
    BY <1>3, <2>1 DEF LiteralEnd, Goto
  <2>4. /\ ev.kind \notin Parts \union Opens \union Closes \union {"KBeg"}
        /\ ev.kind \in Begins /\ ev.kind \in Settled
    BY <1>1, <2>2 DEF Parts, Opens, Closes, Begins, Settled, Literals
  <2>5. got # << >> => ev.kind \in Follow(Last(got).kind)
    BY <1>2, <2>4, FollowIs DEF ValueDue
  <2>6. Report(Joined(got, ev), stk) /\ Joined(got, ev) # << >> /\ Last(Joined(got, ev)) = ev
    BY <1>2, <2>2, <2>4, <2>5, ReportEvent
  <2>7. /\ PlaceFits(at', tok'.key, stk')
        /\ LastFits(at', tok'.key, tok'.seg.off, stk', Joined(got, ev), loc'.off)
    BY <1>2, <2>3, <2>4, <2>6, AfterValueFits, ReportParts
  <2> QED  BY <1>1, <2>3, <2>6, <2>7, NestSends
<1>4. CASE ~ EndsTok
  <2>1. Stop("bad_tok", loc)
    BY <1>4 DEF LiteralEnd
  <2> QED  BY <2>1, NestErrors DEF TextErrors
<1> QED  BY <1>3, <1>4

LEMMA NestNumber ==
    ASSUME LocInv, NestInv, text' = text, Number
    PROVE  NestInv'
<1>1. /\ Running /\ at = "val" /\ stk' = stk /\ tok' = Tok(loc, FALSE, << >>) /\ loc \in Loc
      /\ Deliver(<<Event("NBeg", << >>, loc)>>, ret)
      /\ Take /\ nxt \notin {EndOfBuf, EndOfText}
  BY NotEnd DEF Number, At, Goto, LocInv
<1>2. at' \in NumPlaces
  <2>1. CASE nxt = "-"
    <3>1. at' = "int0"
      BY <2>1 DEF Number, Goto
    <3> QED  BY <3>1 DEF NumPlaces
  <2>2. CASE nxt # "-"
    <3>1. nxt \in Digit /\ at' = NumNext("int0", nxt)
      BY <2>2 DEF Number, Goto, At
    <3>2. at' \in {"zero", "int"}
      BY <3>1 DEF NumNext
    <3> QED  BY <3>2 DEF NumPlaces
  <2> QED  BY <2>1, <2>2
<1>3. Report(got, stk) /\ ValueDue(got, stk)
  BY <1>1, NowReport DEF LastFits
<1>4. PICK ev \in Events : ev = Event("NBeg", << >>, loc) /\ ev.kind = "NBeg"
  <2>1. "NBeg" \in Kinds
    BY DEF Kinds
  <2>2. Event("NBeg", << >>, loc) \in Events /\ Event("NBeg", << >>, loc).kind = "NBeg"
    BY <1>1, <2>1 DEF Event, Events
  <2> QED  BY <2>2
<1>5. /\ Report(Joined(got, ev), stk) /\ Joined(got, ev) # << >> /\ Last(Joined(got, ev)) = ev
  <2>1. ev.kind \notin Parts \union Opens \union Closes \union {"KBeg"} /\ ev.kind \in Begins
    BY <1>4 DEF Parts, Opens, Closes, Begins
  <2>2. got # << >> => ev.kind \in Follow(Last(got).kind)
    BY <1>3, <2>1, FollowIs DEF ValueDue
  <2> QED  BY <1>3, <2>1, <2>2, ReportEvent
<1>6. tok'.seg = loc /\ loc.off \in Nat /\ loc'.off = loc.off + 1
  <2>1. tok'.seg = loc /\ loc.off = Len(input) /\ input \in Seq(STRING)
    BY <1>1 DEF Tok, LocInv
  <2>2. loc'.off = Len(input') /\ input' = Append(input, nxt)
    BY <1>1, TakeMoves
  <2> QED  BY <2>1, <2>2
<1>7. PlaceFits(at', tok'.key, stk')
  BY <1>2 DEF PlaceFits, StrPlaces, NumPlaces
<1>8. LastFits(at', tok'.key, tok'.seg.off, stk', Joined(got, ev), loc'.off)
  <2>1. tok'.seg.off < loc'.off
    BY <1>6
  <2>2. Last(Joined(got, ev)).kind = "NBeg" /\ "NBeg" \notin Parts
    BY <1>4, <1>5 DEF Parts
  <2>3. at' \notin StrPlaces \union Literals \union
              {"val", "bom", "obj0", "key", "objn", "arr0", "arrn", "end", "colon"}
    BY <1>2 DEF StrPlaces, NumPlaces, Literals
  <2> QED  BY <1>5, <2>1, <2>2, <2>3 DEF LastFits, PartsMeet
<1> QED  BY <1>1, <1>4, <1>5, <1>7, <1>8, NestSends

LEMMA NestNumChar ==
    ASSUME LocInv, NestInv, text' = text, NumChar
    PROVE  NestInv'
<1>1. /\ Running /\ at \in NumPlaces /\ at' \in NumPlaces /\ Quiet /\ Take
      /\ tok' = [tok EXCEPT !.nloc = loc] /\ nxt \notin {EndOfBuf, EndOfText}
  BY NumPlace DEF NumChar, At, Goto
<1>2. tok'.key = tok.key /\ tok'.seg = tok.seg /\ tok.seg.off \in Nat
  BY <1>1 DEF LocInv, TokTrue, Loc
<1>3. loc.off \in Nat /\ loc'.off = loc.off + 1
  <2>1. loc.off = Len(input) /\ input \in Seq(STRING)
    BY DEF LocInv
  <2>2. loc'.off = Len(input') /\ input' = Append(input, nxt)
    BY <1>1, TakeMoves
  <2> QED  BY <2>1, <2>2
<1>4. \A place \in NumPlaces : place \notin StrPlaces \union Literals \union
              {"val", "bom", "obj0", "key", "objn", "arr0", "arrn", "end", "colon"}
  BY DEF StrPlaces, NumPlaces, Literals
<1>5. PlaceFits(at', tok'.key, stk)
  BY <1>1, <1>4 DEF PlaceFits
<1>6. LastFits(at', tok'.key, tok'.seg.off, stk, got, loc'.off)
  <2>1. tok.seg.off < loc.off => tok.seg.off < loc'.off
    BY <1>2, <1>3
  <2>2. LastFits(at, tok.key, tok.seg.off, stk, got, loc.off)
    BY <1>1, NowReport
  <2> QED  BY <1>1, <1>2, <1>4, <2>1, <2>2 DEF LastFits
<1> QED  BY <1>1, <1>5, <1>6, NestQuiet

LEMMA NestNumEnd ==
    ASSUME LocInv, NestInv, NumEnd
    PROVE  NestInv'
<1>1. /\ Running /\ at \in NumPlaces /\ stk' = stk /\ tok' = NoTok /\ at' = AfterValue(stk)
  BY DEF NumEnd, At, Goto, NumPlaces
<1>2. /\ Report(AfterPart, stk) /\ AfterPart # << >> /\ Last(AfterPart).kind = "NPar"
      /\ tok.nloc \in Loc
  BY <1>1, PartNests DEF LocInv, TokTrue
<1>3. CASE EndsTok
  <2>1. PICK ev \in Events : Deliver(Append(Sput, ev), ret) /\ ev.kind = "NEnd"
    <3>1. "NEnd" \in Kinds
      BY DEF Kinds
    <3>2. Event("NEnd", << >>, tok.nloc) \in Events /\ Event("NEnd", << >>, tok.nloc).kind = "NEnd"
      BY <1>2, <3>1 DEF Event, Events
    <3> QED  BY <1>3, <3>2 DEF NumEnd
  <2>2. /\ Report(Joined(AfterPart, ev), stk) /\ Joined(AfterPart, ev) # << >>
        /\ Last(Joined(AfterPart, ev)) = ev
    <3>1. ev.kind \notin Parts \union Opens \union Closes \union Begins \union {"KBeg"}
      BY <2>1 DEF Parts, Opens, Closes, Begins, Literals
    <3>2. ev.kind \in Follow(Last(AfterPart).kind)
      BY <1>2, <2>1, FollowIs
    <3> QED  BY <1>2, <3>1, <3>2, ReportEvent
  <2>3. /\ PlaceFits(at', tok'.key, stk)
        /\ LastFits(at', tok'.key, tok'.seg.off, stk, Joined(AfterPart, ev), loc'.off)
    <3>1. ev.kind \in Settled
      BY <2>1 DEF Settled, Parts, Kinds
    <3> QED  BY <1>1, <1>2, <2>2, <3>1, AfterValueFits, ReportParts
  <2>4. CASE got' = Joined(AfterPart, ev) /\ ret' = ret
    <3>1. ret' = NoRet
      BY <1>1, <2>4 DEF Running
    <3> QED  BY <1>1, <2>2, <2>3, <2>4, <3>1, NestGoesOn
  <2>5. CASE got' \in {AfterPart, Joined(AfterPart, ev)} /\ \E l \in Loc : ret' = Returned("cb_fail", l)
    <3>1. AllFit(got')
      BY <1>2, <2>2, <2>5 DEF Report
    <3> QED  BY <2>5, <3>1, NotNil, NestFails DEF ByCaller
  <2> QED  BY <1>1, <2>1, <2>4, <2>5, SendsPart
<1>4. CASE ~ EndsTok
  <2>1. Deliver(Sput, Returned("bad_num", loc))
    BY <1>4 DEF NumEnd
  <2>2. /\ got' = AfterPart
        /\ ret' = Returned("bad_num", loc) \/ \E l \in Loc : ret' = Returned("cb_fail", l)
    BY <1>1, <2>1, SendsPart
  <2>3. AllFit(got')
    BY <1>2, <2>2 DEF Report
  <2> QED  BY <2>2, <2>3, NotNil, NestFails DEF TextErrors, ByCaller
<1> QED  BY <1>3, <1>4

LEMMA NestStart == Init => NestInv
<1> SUFFICES ASSUME Init PROVE NestInv
  OBVIOUS
<1>1. got = << >> /\ stk = << >> /\ at \in {"val", "bom"} /\ ret.cause = "none"
  BY ReturnedIs DEF Init
<1>2. PICK g : g = << >> /\ g = got
  BY <1>1
<1>3. Len(g) = 0 /\ 1 .. Len(g) = {} /\ Depth(g, 0) = 0
  BY <1>2, DepthNone
<1>4. AllFit(got)
  BY <1>2, <1>3 DEF AllFit
<1>5. LeftOpen(got, stk)
  <2>1. Len(stk) = 0
    BY <1>1
  <2> QED  BY <1>2, <1>3, <2>1 DEF LeftOpen
<1>6. PlaceFits(at, tok.key, stk)
  BY <1>1 DEF PlaceFits, StrPlaces
<1>7. LastFits(at, tok.key, tok.seg.off, stk, got, loc.off)
  BY <1>1 DEF LastFits, ValueDue, StrPlaces, NumPlaces, Literals
<1> QED  BY <1>1, <1>4, <1>5, <1>6, <1>7, ReturnedIs DEF NestInv

LEMMA NestStep ==
    ASSUME LocInv, NestInv, Next
    PROVE  NestInv'
<1>1. text' = text
  BY DEF Next
<1> QED
  BY <1>1, NestPull, NestBom, NestGap, NestUnexpected, NestOpen, NestClose, NestQuote, NestStrEnd,
     NestStrChar, NestLiteral, NestDue, NestLiteralEnd, NestNumber, NestNumChar, NestNumEnd DEF Next

\* The inductive invariant of what on receives.
THEOREM NestInvariant == Spec => []NestInv
<1>1. NestInv /\ UNCHANGED vars => NestInv'
  BY DEF NestInv, vars, Running
<1> QED  BY <1>1, LocInvariant, NestStart, NestStep, PTL DEF Spec

\* Whatever the text, the cuts and the caller's failures: the events that on has received
\* are at any moment the beginning of the events of one value that nests at most MaxDep
\* deep, and the whole of them when Parse returns nil.
THEOREM EventsAlwaysNest == Spec => []EventsNest
<1>1. NestInv => EventsNest
  BY DEF NestInv, AllFit, EventsNest
<1> QED  BY <1>1, NestInvariant, PTL
=============================================================================
