------------------------------- MODULE TurnProofs ------------------------------
(***************************************************************************)
(* Theorems about conversations in a WAL (Turn), with their proofs: what   *)
(* Project shows is a moment of the conversation, and stays true.          *)
(***************************************************************************)
EXTENDS Turn, WalProofs, WellFoundedInduction

-----------------------------------------------------------------------------
(* MessagesTo, a recursive function: that it exists, and what follows.     *)

\* A set of numbers that is not empty has a least element.
LEMMA LeastOf ==
    ASSUME NEW S \in SUBSET Nat, S # {}
    PROVE  \E m \in S : \A n \in S : m <= n
<1>1. OpToRel(<, Nat) = {p \in Nat \X Nat : p[1] < p[2]}
  BY Zenon DEF OpToRel
<1>2. PICK m \in S : \A n \in S : ~(<<n, m>> \in OpToRel(<, Nat))
  BY WFMin, NatLessThanWellFounded, Zenon
<1>3. \A n \in S : ~(n < m)
  BY <1>1, <1>2
<1> QED  BY <1>3

\* What one more entry makes of the messages before it.
Behind(m, x) ==
    IF x.typ \in {TypeSys, TypeUser, TypeAsst, TypeDev} THEN Append(m, MsgOf(x)) ELSE m

\* f lists the messages among the first i of s, for each i up to n.
Lists(f, s, n) ==
    f = [i \in 0 .. n |-> IF i = 0 THEN << >> ELSE Behind(f[i - 1], s[i])]

LEMMA ListsExist ==
    ASSUME NEW s, NEW l \in Nat
    PROVE  \E f : Lists(f, s, l)
<1> DEFINE Bad == {n \in 0 .. l : ~\E f : Lists(f, s, n)}
<1>1. SUFFICES ASSUME Bad # {} PROVE FALSE
  OBVIOUS
<1>2. PICK m \in Bad : \A n \in Bad : m <= n
  <2>1. Bad \in SUBSET Nat
    OBVIOUS
  <2> HIDE DEF Bad
  <2> QED  BY <1>1, <2>1, LeastOf
<1>3. m \in 0 .. l /\ ~\E f : Lists(f, s, m)
  BY <1>2
<1>4. CASE m = 0
  <2> DEFINE f == [i \in 0 .. 0 |-> << >>]
  <2>1. f = [i \in 0 .. 0 |-> IF i = 0 THEN << >> ELSE Behind(f[i - 1], s[i])]
    OBVIOUS
  <2> QED  BY <1>3, <1>4, <2>1 DEF Lists
<1>5. CASE m # 0
  <2>1. m - 1 \in 0 .. l /\ m - 1 \notin Bad
    BY <1>2, <1>3, <1>5
  <2>2. PICK g : Lists(g, s, m - 1)
    BY <2>1
  <2> DEFINE f == [i \in 0 .. m |-> IF i = m THEN Behind(g[m - 1], s[m]) ELSE g[i]]
  <2>3. \A i \in 0 .. m - 1 :
            /\ f[i] = g[i]
            /\ g[i] = IF i = 0 THEN << >> ELSE Behind(g[i - 1], s[i])
    BY <1>3, <1>5, <2>2 DEF Lists
  <2>4. f[m] = Behind(g[m - 1], s[m])
    BY <1>3
  <2> HIDE DEF f
  <2>5. \A i \in 0 .. m : f[i] = IF i = 0 THEN << >> ELSE Behind(f[i - 1], s[i])
    <3> TAKE i \in 0 .. m
    <3>1. CASE i = m
      <4>1. m - 1 \in 0 .. m - 1
        BY <1>3, <1>5
      <4> QED  BY <1>5, <2>3, <2>4, <3>1, <4>1
    <3>2. CASE i # m
      <4>1. i \in 0 .. m - 1 /\ (i # 0 => i - 1 \in 0 .. m - 1)
        BY <1>3, <3>2
      <4> QED  BY <2>3, <4>1
    <3> QED  BY <3>1, <3>2
  <2>6. f = [i \in 0 .. m |-> IF i = 0 THEN << >> ELSE Behind(f[i - 1], s[i])]
    BY <2>5 DEF f
  <2> QED  BY <1>3, <2>6 DEF Lists
<1> QED  BY <1>4, <1>5

\* MessagesTo, one entry at a time.
LEMMA MessagesAre ==
    ASSUME NEW s \in Seq(Entry)
    PROVE  /\ MessagesTo(s)[0] = << >>
           /\ \A i \in 1 .. Len(s) : MessagesTo(s)[i] = Behind(MessagesTo(s)[i - 1], s[i])
<1>1. PICK f : Lists(f, s, Len(s))
  BY ListsExist
<1> DEFINE g == MessagesTo(s)
<1>2. g = CHOOSE h : h = [i \in 0 .. Len(s) |->
             IF i = 0 THEN << >>
             ELSE IF s[i].typ \in {TypeSys, TypeDev, TypeUser, TypeAsst}
             THEN Append(h[i - 1], MsgOf(s[i]))
             ELSE h[i - 1]]
  BY DEF MessagesTo
<1>3. f = [i \in 0 .. Len(s) |->
             IF i = 0 THEN << >>
             ELSE IF s[i].typ \in {TypeSys, TypeDev, TypeUser, TypeAsst}
             THEN Append(f[i - 1], MsgOf(s[i]))
             ELSE f[i - 1]]
  BY <1>1 DEF Lists, Behind
<1>4. g = [i \in 0 .. Len(s) |->
             IF i = 0 THEN << >>
             ELSE IF s[i].typ \in {TypeSys, TypeDev, TypeUser, TypeAsst}
             THEN Append(g[i - 1], MsgOf(s[i]))
             ELSE g[i - 1]]
  <2> HIDE DEF g
  <2> QED  BY <1>2, <1>3
<1> HIDE DEF g
<1>5. Len(s) \in Nat
  OBVIOUS
<1>6. Lists(g, s, Len(s))
  BY <1>4 DEF Lists, Behind
<1>7. g[0] = << >> /\ \A i \in 1 .. Len(s) : g[i] = Behind(g[i - 1], s[i])
  BY <1>5, <1>6 DEF Lists
<1> QED  BY <1>7 DEF g

\* Lists of messages are sequences.
LEMMA MessagesType ==
    ASSUME NEW s \in Seq(Entry), NEW i \in 0 .. Len(s)
    PROVE  MessagesTo(s)[i] \in Seq(Msg)
<1> DEFINE g == MessagesTo(s)
           Bad == {n \in 0 .. Len(s) : g[n] \notin Seq(Msg)}
<1>1. g[0] = << >> /\ \A n \in 1 .. Len(s) : g[n] = Behind(g[n - 1], s[n])
  BY MessagesAre
<1>2. ASSUME NEW m \in Seq(Msg), NEW x \in Entry PROVE Behind(m, x) \in Seq(Msg)
  <2>1. x.typ \in {TypeSys, TypeUser, TypeAsst, TypeDev} => MsgOf(x) \in Msg
    BY DEF MsgOf, Msg, Entry
  <2> QED  BY <2>1 DEF Behind
<1>3. Bad \in SUBSET Nat /\ \A n \in 0 .. Len(s) : n \in Bad <=> g[n] \notin Seq(Msg)
  OBVIOUS
<1> HIDE DEF g, Bad
<1>4. ASSUME NEW m \in Bad, \A n \in Bad : m <= n PROVE FALSE
  <2>1. m \in 0 .. Len(s) /\ g[m] \notin Seq(Msg)
    BY <1>4 DEF Bad
  <2>2. CASE m = 0
    <3>1. << >> \in Seq(Msg)
      OBVIOUS
    <3> QED  BY <1>1, <2>1, <2>2, <3>1
  <2>3. CASE m # 0
    <3>1. m \in 1 .. Len(s) /\ m - 1 \in 0 .. Len(s) /\ ~(m <= m - 1) /\ s[m] \in Entry
      BY <2>1, <2>3
    <3>2. g[m - 1] \in Seq(Msg)
      BY <1>3, <1>4, <3>1
    <3> QED  BY <1>1, <1>2, <2>1, <3>1, <3>2
  <2> QED  BY <2>2, <2>3
<1>5. Bad = {}
  BY <1>3, <1>4, LeastOf
<1>6. g[i] \in Seq(Msg)
  BY <1>3, <1>5
<1> QED  BY <1>6 DEF g

\* The messages among the first i entries are the same in a longer sequence.
LEMMA MessagesKept ==
    ASSUME NEW s \in Seq(Entry), NEW t \in Seq(Entry), Len(s) <= Len(t),
           \A k \in 1 .. Len(s) : t[k] = s[k], NEW i \in 0 .. Len(s)
    PROVE  MessagesTo(t)[i] = MessagesTo(s)[i]
<1> DEFINE g == MessagesTo(s)
           f == MessagesTo(t)
           Bad == {n \in 0 .. Len(s) : f[n] # g[n]}
<1>1. /\ g[0] = << >> /\ \A n \in 1 .. Len(s) : g[n] = Behind(g[n - 1], s[n])
      /\ f[0] = << >> /\ \A n \in 1 .. Len(t) : f[n] = Behind(f[n - 1], t[n])
  BY MessagesAre
<1>2. Len(s) \in Nat /\ Len(t) \in Nat
  OBVIOUS
<1>3. Bad \in SUBSET Nat /\ \A n \in 0 .. Len(s) : n \in Bad <=> f[n] # g[n]
  OBVIOUS
<1> HIDE DEF f, g, Bad
<1>4. ASSUME NEW m \in Bad, \A n \in Bad : m <= n PROVE FALSE
  <2>1. m \in 0 .. Len(s) /\ f[m] # g[m]
    BY <1>4 DEF Bad
  <2>2. CASE m = 0
    BY <1>1, <2>1, <2>2
  <2>3. CASE m # 0
    <3>1. m \in 1 .. Len(s) /\ m \in 1 .. Len(t) /\ m - 1 \in 0 .. Len(s) /\ ~(m <= m - 1)
      BY <1>2, <2>1, <2>3
    <3>2. f[m - 1] = g[m - 1] /\ t[m] = s[m]
      BY <1>3, <1>4, <3>1
    <3> QED  BY <1>1, <2>1, <3>1, <3>2
  <2> QED  BY <2>2, <2>3
<1>5. Bad = {}
  BY <1>3, <1>4, LeastOf
<1>6. f[i] = g[i]
  BY <1>3, <1>5
<1> QED  BY <1>6 DEF f, g

\* The messages among the first i entries come first among those of the first j.
LEMMA MessagesGrow ==
    ASSUME NEW s \in Seq(Entry), NEW j \in 0 .. Len(s), NEW i \in 0 .. j
    PROVE  IsPrefixOf(MessagesTo(s)[i], MessagesTo(s)[j])
<1> DEFINE g == MessagesTo(s)
           Bad == {n \in i .. Len(s) : ~IsPrefixOf(g[i], g[n])}
<1>1. \A n \in 1 .. Len(s) : g[n] = Behind(g[n - 1], s[n])
  BY MessagesAre
<1>2. \A n \in 0 .. Len(s) : g[n] \in Seq(Msg)
  BY MessagesType
<1>3. Bad \in SUBSET Nat /\ \A n \in i .. Len(s) : n \in Bad <=> ~IsPrefixOf(g[i], g[n])
  OBVIOUS
<1>4. Len(s) \in Nat /\ i \in Nat /\ j \in i .. Len(s) /\ i \in 0 .. Len(s)
  OBVIOUS
<1>5. \A n \in 1 .. Len(s) : g[n] \in Seq(Msg) /\ s[n] \in Entry
  BY <1>2
<1> HIDE DEF g, Bad
<1>6. ASSUME NEW m \in Bad, \A n \in Bad : m <= n PROVE FALSE
  <2>1. m \in i .. Len(s) /\ ~IsPrefixOf(g[i], g[m])
    BY <1>6 DEF Bad
  <2>2. CASE m = i
    BY <1>2, <1>4, <2>1, <2>2 DEF IsPrefixOf
  <2>3. CASE m # i
    <3>1. m \in 1 .. Len(s) /\ m - 1 \in i .. Len(s) /\ ~(m <= m - 1) /\ m - 1 \in 0 .. Len(s)
      BY <1>4, <2>1, <2>3
    <3>2. IsPrefixOf(g[i], g[m - 1])
      BY <1>3, <1>6, <3>1
    <3>3. g[m - 1] \in Seq(Msg) /\ g[i] \in Seq(Msg) /\ s[m] \in Entry
      BY <1>2, <1>4, <1>5, <3>1
    <3>4. g[m] = g[m - 1] \/ \E x \in Msg : g[m] = Append(g[m - 1], x)
      BY <1>1, <3>1, <3>3 DEF Behind, MsgOf, Msg, Entry
    <3>5. ASSUME NEW x \in Msg PROVE IsPrefixOf(g[i], Append(g[m - 1], x))
      BY <3>2, <3>3 DEF IsPrefixOf
    <3> QED  BY <2>1, <3>2, <3>4, <3>5
  <2> QED  BY <2>2, <2>3
<1>7. Bad = {}
  BY <1>3, <1>6, LeastOf
<1>8. IsPrefixOf(g[i], g[j])
  BY <1>3, <1>4, <1>7
<1> QED  BY <1>8 DEF g

\* The conversation of a sequence with one more entry.
LEMMA ConversationBehind ==
    ASSUME NEW s \in Seq(Entry), NEW x \in Entry
    PROVE  Conversation(Append(s, x)) = Behind(Conversation(s), x)
<1>0. Append(s, x) \in Seq(Entry)
  OBVIOUS
<1>1. PICK t \in Seq(Entry) : t = Append(s, x)
  BY <1>0
<1>2. /\ Len(s) \in Nat /\ Len(t) = Len(s) + 1 /\ t[Len(t)] = x
      /\ \A k \in 1 .. Len(s) : t[k] = s[k]
  BY <1>1
<1>3. MessagesTo(t)[Len(s)] = MessagesTo(s)[Len(s)]
  BY <1>2, MessagesKept
<1>4. Len(t) \in 1 .. Len(t) /\ Len(t) - 1 = Len(s)
  BY <1>2
<1>5. MessagesTo(t)[Len(t)] = Behind(MessagesTo(t)[Len(t) - 1], t[Len(t)])
  BY <1>4, MessagesAre
<1> QED  BY <1>1, <1>2, <1>3, <1>4, <1>5 DEF Conversation

\* The conversation of the first n entries is the beginning of that of all, and
\* of that of the first m.
LEMMA ConversationGrows ==
    ASSUME NEW s \in Seq(Entry), NEW m \in 0 .. Len(s), NEW n \in 0 .. m
    PROVE  IsPrefixOf(Conversation(SubSeq(s, 1, n)), Conversation(SubSeq(s, 1, m)))
<1>1. Len(s) \in Nat /\ m \in Nat /\ n \in 0 .. Len(s)
  OBVIOUS
<1>2. ASSUME NEW k \in 0 .. Len(s)
      PROVE  Conversation(SubSeq(s, 1, k)) = MessagesTo(s)[k]
  <2>1. PICK t : t = SubSeq(s, 1, k)
    OBVIOUS
  <2>2. /\ t \in Seq(Entry) /\ Len(t) = k /\ Len(t) <= Len(s) /\ k \in 0 .. Len(t)
        /\ \A i \in 1 .. Len(t) : s[i] = t[i]
    BY <2>1, PrefixOfSeq
  <2>3. MessagesTo(s)[k] = MessagesTo(t)[k]
    BY <2>2, MessagesKept
  <2>4. Conversation(t) = MessagesTo(t)[k]
    BY <2>2 DEF Conversation
  <2> QED  BY <2>1, <2>3, <2>4
<1> QED  BY <1>1, <1>2, MessagesGrow

\* No entries, no messages.
LEMMA NoConversation == Conversation(<< >>) = << >>
<1>1. << >> \in Seq(Entry) /\ Len(<< >>) = 0
  OBVIOUS
<1> QED  BY <1>1, MessagesAre DEF Conversation

-----------------------------------------------------------------------------
(* The steps of Turn are steps of Wal.                                     *)

LEMMA TurnStep ==
    ASSUME NEW h \in Handles,
           AppendTurn(h) \/ Project(h) \/ Collect(h) \/ ProjectReturn(h) \/ WalStep(h) \/ Crash(h)
    PROVE  Step(h)
<1>1. CASE AppendTurn(h)
  <2>1. PICK typ \in Types, text \in Payloads : BeginWrite(h, [typ |-> typ, pay |-> text])
    BY <1>1 DEF AppendTurn
  <2>2. [typ |-> typ, pay |-> text] \in Rec
    BY DEF Rec
  <2> QED  BY <2>1, <2>2 DEF Step, Client
<1>2. CASE Project(h) \/ Collect(h) \/ ProjectReturn(h) \/ WalStep(h) \/ Crash(h)
  BY <1>2 DEF Project, Collect, ProjectReturn, WalStep, Crash, Step, Client, Read
<1> QED  BY <1>1, <1>2

\* Whatever Append, Project and their process do to the file is what Wal does.
THEOREM TurnUsesWal == TurnSpec => Spec
<1>1. TurnInit => Init
  BY DEF TurnInit
<1>2. [TurnNext]_turnVars => [Next]_vars
  BY TurnStep DEF TurnNext, turnVars, Next
<1> QED  BY <1>1, <1>2, PTL DEF TurnSpec, Spec

-----------------------------------------------------------------------------
(* The inductive invariant.                                                *)

\* What a Project under way has read is the beginning of the log.
LEMMA GotIsLog ==
    ASSUME TypeInv, NEW h \in Handles, InCall(h), CallInv(h)
    PROVE  /\ Top(h).got \in Seq(Entry) /\ Len(Top(h).got) \in 0 .. Len(log)
           /\ Contiguous(Len(Top(h).got))
           /\ Top(h).got = SubSeq(log, 1, Len(Top(h).got))
<1>1. PICK got \in Seq(Found) : got = Top(h).got
  BY TopType DEF Call
<1>2. Len(got) \in Nat /\ Len(got) <= Len(log) /\ Contiguous(Len(got))
      /\ \A i \in 1 .. Len(got) : got[i] = log[i]
  BY <1>1 DEF CallInv, Passed
<1>3. PICK n \in 0 .. Len(log) : n = Len(got)
  BY <1>2, LogTypes
<1>4. log \in Seq(Entry)
  BY LogTypes
<1>5. PICK t \in Seq(Entry) : t = SubSeq(log, 1, n)
  BY <1>4, PrefixOfSeq
<1>6. Len(t) = n /\ \A i \in 1 .. n : t[i] = log[i]
  BY <1>4, <1>5, PrefixOfSeq
<1>7. got = t
  BY <1>2, <1>3, <1>6
<1> QED  BY <1>1, <1>2, <1>3, <1>5, <1>7

\* The records fn has been through, when it is called and when it is not.
LEMMA TakenIs ==
    ASSUME NEW s \in Seq(Entry), NEW c, c.got = s
    PROVE  /\ c.at # "cb" => Taken(c) = s
           /\ c.at = "cb" /\ s # << >> =>
                 /\ Taken(c) \in Seq(Entry) /\ s[Len(s)] \in Entry
                 /\ s = Append(Taken(c), s[Len(s)])
<1>1. Len(s) \in Nat /\ SubSeq(s, 1, Len(s)) = s
  OBVIOUS
<1>2. ASSUME s # << >>
      PROVE  /\ SubSeq(s, 1, Len(s) - 1) \in Seq(Entry) /\ s[Len(s)] \in Entry
             /\ s = Append(SubSeq(s, 1, Len(s) - 1), s[Len(s)])
  <2>1. PICK n \in Nat : n = Len(s) /\ n > 0
    BY <1>1, <1>2
  <2>2. PICK t \in Seq(Entry) : t = SubSeq(s, 1, n - 1)
    <3>1. n - 1 \in 0 .. Len(s)
      BY <2>1
    <3> QED  BY <3>1, PrefixOfSeq
  <2>3. Len(t) = n - 1 /\ \A i \in 1 .. n - 1 : t[i] = s[i]
    <3>1. n - 1 \in 0 .. Len(s)
      BY <2>1
    <3> QED  BY <2>2, <3>1, PrefixOfSeq
  <2>4. s[n] \in Entry
    BY <2>1
  <2>5. PICK u \in Seq(Entry) : u = Append(t, s[n])
    <3>1. Append(t, s[n]) \in Seq(Entry)
      BY <2>4
    <3> QED  BY <3>1
  <2>6. Len(u) = n /\ \A i \in 1 .. n : u[i] = s[i]
    BY <2>1, <2>3, <2>5
  <2>7. s = u
    BY <2>1, <2>6
  <2> QED  BY <2>1, <2>2, <2>4, <2>5, <2>7
<1> QED  BY <1>1, <1>2 DEF Taken

\* What was shown stays a conversation of the log, which only grows.
LEMMA ShowKept ==
    ASSUME TypeInv, TypeInv', LogExt, NEW n \in 0 .. Len(log), Contiguous(n)
    PROVE  /\ n \in 0 .. Len(log') /\ Contiguous(n)'
           /\ SubSeq(log', 1, n) = SubSeq(log, 1, n)
<1>1. /\ log \in Seq(Entry) /\ log' \in Seq(Entry) /\ Len(log) \in Nat /\ Len(log') \in Nat
      /\ Len(log) <= Len(log') /\ \A i \in 1 .. Len(log) : log'[i] = log[i]
  BY DEF TypeInv, TypeOK, LogExt
<1>2. n \in 0 .. Len(log') /\ Contiguous(n)'
  BY <1>1, ChainKept
<1>3. PICK s \in Seq(Entry) : s = SubSeq(log, 1, n)
  BY <1>1, PrefixOfSeq
<1>4. PICK t \in Seq(Entry) : t = SubSeq(log', 1, n)
  BY <1>1, <1>2, PrefixOfSeq
<1>5. /\ Len(s) = n /\ \A i \in 1 .. n : s[i] = log[i]
      /\ Len(t) = n /\ \A i \in 1 .. n : t[i] = log'[i]
  BY <1>1, <1>2, <1>3, <1>4, PrefixOfSeq
<1>6. \A i \in 1 .. n : t[i] = s[i]
  BY <1>1, <1>5
<1>7. s = t
  BY <1>5, <1>6
<1> QED  BY <1>2, <1>3, <1>4, <1>7

\* A step that shows nothing new, and ends no Project or begins one.
LEMMA ShowFrame ==
    ASSUME TypeInv, TypeInv', LogExt, NEW g \in Handles, Showing(g), shown'[g] = shown[g],
           InCall(g)' => Top(g)'.n0 = IF InCall(g) THEN Top(g).n0 ELSE Len(log)
    PROVE  Showing(g)'
<1>1. PICK n \in 0 .. Len(log) : /\ Contiguous(n)
                                 /\ shown[g] = Conversation(SubSeq(log, 1, n))
                                 /\ InCall(g) => n <= Top(g).n0
  BY DEF Showing
<1>2. /\ n \in 0 .. Len(log') /\ Contiguous(n)'
      /\ SubSeq(log', 1, n) = SubSeq(log, 1, n)
  BY <1>1, ShowKept
<1>3. Len(log) \in Nat
  BY LogTypes
<1>4. shown'[g] = Conversation(SubSeq(log', 1, n))
  BY <1>1, <1>2
<1>5. ASSUME InCall(g)' PROVE n <= Top(g)'.n0
  <2>1. CASE InCall(g)
    BY <1>1, <1>5, <2>1
  <2>2. CASE ~InCall(g)
    BY <1>3, <1>5, <2>2
  <2> QED  BY <2>1, <2>2
<1> QED  BY <1>2, <1>4, <1>5 DEF Showing

\* A handle that a step leaves alone.
LEMMA TurnFrame ==
    ASSUME TypeInv, TypeInv', LogExt, NEW g \in Handles, Collecting(g), Showing(g),
           calls'[g] = calls[g], msgs'[g] = msgs[g], shown'[g] = shown[g]
    PROVE  Collecting(g)' /\ Showing(g)'
<1>1. InCall(g)' = InCall(g) /\ Top(g)' = Top(g)
  BY DEF InCall, Top
<1>2. ~InCall(g)' => ~InCall(g)
  BY <1>1
<1>3. InCall(g)' => Top(g)'.n0 = IF InCall(g) THEN Top(g).n0 ELSE Len(log)
  BY <1>1
<1>4. Collecting(g)'
  BY <1>1 DEF Collecting
<1> QED  BY <1>3, <1>4, ShowFrame

\* The one call of a handle, replaced.
LEMMA TopReplaced ==
    ASSUME TypeInv, NEW h \in Handles, InCall(h), CallInv(h), NEW u, SetTop(h, u)
    PROVE  InCall(h)' /\ Top(h)' = u
<1>1. Len(calls[h]) = 1 /\ calls[h] \in Seq(Call) /\ calls \in [Handles -> Seq(Call)]
  BY DEF CallInv, TypeInv, TypeOK
<1>2. calls'[h] = [calls[h] EXCEPT ![1] = u]
  BY <1>1 DEF SetTop
<1>3. Len(calls'[h]) = 1 /\ calls'[h][1] = u /\ calls'[h] # << >>
  BY <1>1, <1>2
<1> QED  BY <1>3 DEF InCall, Top

\* The steps of the Scan itself: it goes on, or hands fn the record it has read.
LEMMA ScanCollects ==
    ASSUME TypeInv, NEW h \in Handles, CallInv(h), Collecting(h),
           \/ ReadEOF(h) \/ ReadShort(h) \/ ReadHdr(h) \/ ReadPay(h)
           \/ ReadCorrupt(h) \/ ReadFail(h),
           msgs'[h] = msgs[h]
    PROVE  Collecting(h)' /\ InCall(h) /\ Top(h)'.n0 = Top(h).n0
<1>1. InCall(h) /\ Top(h).at \in {"hdr", "pay"}
  BY DEF ReadEOF, ReadShort, ReadHdr, ReadPay, ReadCorrupt, ReadFail, Reading
<1>2. PICK t \in Call : t = Top(h)
  BY <1>1, TopType
<1>3. PICK s \in Seq(Entry) : s = t.got
  BY <1>1, <1>2, GotIsLog
<1>4. t.op = "scan" /\ msgs[h] = Conversation(s)
  BY <1>1, <1>2, <1>3, TakenIs DEF Collecting
<1>5. PICK u : /\ SetTop(h, u) /\ u.op = "scan" /\ u.n0 = t.n0
               /\ \/ u.at # "cb" /\ u.got = s
                  \/ u.at = "cb" /\ \E x \in Found : u.got = Append(s, x)
  <2>1. CASE ReadEOF(h) \/ ReadShort(h) \/ ReadCorrupt(h) \/ ReadFail(h)
    <3>1. PICK at \in {"ok", "err", "stop"} : SetTop(h, [t EXCEPT !.at = at])
      BY <1>2, <2>1 DEF ReadEOF, ReadShort, ReadCorrupt, ReadFail
    <3>2. PICK u : u = [t EXCEPT !.at = at]
      OBVIOUS
    <3>3. u.at = at /\ u.got = t.got /\ u.op = t.op /\ u.n0 = t.n0
      BY <3>2 DEF Call
    <3> QED  BY <1>3, <1>4, <3>1, <3>2, <3>3
  <2>2. CASE ReadHdr(h)
    <3>1. PICK at \in {"err", "pay"} :
             \E hdr, off : SetTop(h, [t EXCEPT !.at = at, !.hdr = hdr, !.off = off])
      BY <1>2, <2>2 DEF ReadHdr
    <3>h. PICK hdr, off : SetTop(h, [t EXCEPT !.at = at, !.hdr = hdr, !.off = off])
      BY <3>1
    <3>2. PICK u : u = [t EXCEPT !.at = at, !.hdr = hdr, !.off = off]
      OBVIOUS
    <3>3. u.at = at /\ u.got = t.got /\ u.op = t.op /\ u.n0 = t.n0
      BY <3>2 DEF Call
    <3> QED  BY <1>3, <1>4, <3>h, <3>2, <3>3
  <2>3. CASE ReadPay(h)
    <3>1. PICK x : x = [off |-> t.off, typ |-> DecTyp(t.hdr[2]), pay |-> SumOf(t.hdr[2])]
      OBVIOUS
    <3>2. PICK off : SetTop(h, [t EXCEPT !.at = "cb", !.off = off, !.got = Append(@, x)])
      BY <1>2, <1>4, <2>3, <3>1 DEF ReadPay
    <3>3. PICK u : u = [t EXCEPT !.at = "cb", !.off = off, !.got = Append(@, x)]
      OBVIOUS
    <3>4. u.at = "cb" /\ u.got = Append(t.got, x) /\ u.op = t.op /\ u.n0 = t.n0
      BY <3>3 DEF Call
    <3>5. t.off \in 0 .. FileCap /\ t.hdr[2] \in Cell
      BY DEF Call
    <3>6. x \in Found
      BY <3>1, <3>5, DecodeType DEF Found
    <3> QED  BY <1>3, <1>4, <3>2, <3>3, <3>4, <3>6
  <2> QED  BY <2>1, <2>2, <2>3
<1>6. InCall(h)' /\ Top(h)' = u
  BY <1>1, <1>5, TopReplaced
<1>7. Taken(u) = s /\ (u.at = "cb" => u.got # << >>)
  <2>1. CASE u.at # "cb" /\ u.got = s
    BY <2>1, TakenIs
  <2>2. ASSUME u.at = "cb", NEW x \in Found, u.got = Append(s, x) PROVE Taken(u) = s /\ u.got # << >>
    <3>1. s \in Seq(Found)
      <4>1. Top(h).got \in Seq(Found)
        BY <1>2 DEF Call
      <4> QED  BY <1>2, <1>3, <4>1
    <3>2. SubSeq(Append(s, x), 1, Len(Append(s, x)) - 1) = s /\ Append(s, x) # << >>
      BY <3>1
    <3> QED  BY <2>2, <3>2 DEF Taken
  <2> QED  BY <1>5, <2>1, <2>2
<1>8. msgs'[h] = Conversation(Taken(u))
  BY <1>4, <1>7
<1> QED  BY <1>1, <1>2, <1>5, <1>6, <1>7, <1>8 DEF Collecting

\* fn takes the record it was called for.
LEMMA CollectCollects ==
    ASSUME TypeInv, TurnTypeOK, NEW h \in Handles, CallInv(h), Collecting(h), Collect(h)
    PROVE  Collecting(h)' /\ InCall(h) /\ Top(h)'.n0 = Top(h).n0
<1>1. InCall(h) /\ Top(h).at = "cb"
  BY DEF Collect, Callback, Reading
<1>2. PICK t \in Call : t = Top(h)
  BY <1>1, TopType
<1>3. PICK s \in Seq(Entry) : s = t.got
  BY <1>1, <1>2, GotIsLog
<1>4. t.op = "scan" /\ s # << >> /\ msgs[h] = Conversation(Taken(t))
  BY <1>1, <1>2, <1>3 DEF Collecting
<1>5. Taken(t) \in Seq(Entry) /\ s[Len(s)] \in Entry /\ s = Append(Taken(t), s[Len(s)])
  BY <1>1, <1>2, <1>3, <1>4, TakenIs
<1>6. Conversation(s) = Behind(msgs[h], s[Len(s)])
  BY <1>4, <1>5, ConversationBehind
<1>7. msgs'[h] = Conversation(s)
  <2>1. msgs' = IF IsMsg(s[Len(s)].typ)
                THEN [msgs EXCEPT ![h] = Append(@, MsgOf(s[Len(s)]))]
                ELSE msgs
    BY <1>2, <1>3 DEF Collect, Handed
  <2> QED  BY <1>6, <2>1 DEF TurnTypeOK, IsMsg, Behind
<1>8. PICK u : SetTop(h, u) /\ u.op = "scan" /\ u.n0 = t.n0 /\ u.got = s
               /\ (u.at = "hdr" \/ u.at = "stop")
  <2>1. PICK at \in {"hdr", "stop"} : SetTop(h, [t EXCEPT !.at = at])
    BY <1>2 DEF Collect, Callback
  <2>2. PICK u : u = [t EXCEPT !.at = at]
    OBVIOUS
  <2>3. u.at = at /\ u.got = t.got /\ u.op = t.op /\ u.n0 = t.n0
    BY <2>2 DEF Call
  <2> QED  BY <1>3, <1>4, <2>1, <2>2, <2>3
<1>9. InCall(h)' /\ Top(h)' = u
  BY <1>1, <1>8, TopReplaced
<1>10. Taken(u) = s /\ u.at # "cb"
  BY <1>8, TakenIs
<1> QED  BY <1>1, <1>2, <1>7, <1>8, <1>9, <1>10 DEF Collecting

\* Project begins with no messages.
LEMMA ProjectCollects ==
    ASSUME TypeInv, TurnTypeOK, NEW h \in Handles, Project(h)
    PROVE  Collecting(h)' /\ ~InCall(h) /\ InCall(h)' /\ Top(h)'.n0 = Len(log)
<1>1. ~InCall(h) /\ calls[h] = << >> /\ calls \in [Handles -> Seq(Call)]
  BY DEF Project, InCall, TypeInv, TypeOK
<1>2. PICK t : t = [op |-> "scan", at |-> "hdr", hdr |-> <<Zero, Zero>>,
                    off |-> FileHdrN, got |-> << >>, n0 |-> Len(log)]
  OBVIOUS
<1>3. calls'[h] = <<t>>
  BY <1>1, <1>2 DEF Project, BeginScan, Begin
<1>4. InCall(h)' /\ Top(h)' = t
  BY <1>3 DEF InCall, Top
<1>5. t.got = << >> /\ t.at = "hdr" /\ t.op = "scan" /\ t.n0 = Len(log)
  BY <1>2
<1>6. Taken(t) = << >>
  <2>1. << >> \in Seq(Entry)
    OBVIOUS
  <2> QED  BY <1>5, <2>1, TakenIs
<1>7. msgs'[h] = << >>
  BY DEF Project, TurnTypeOK
<1>8. msgs'[h] = Conversation(Taken(t))
  BY <1>6, <1>7, NoConversation
<1> QED  BY <1>1, <1>4, <1>5, <1>8 DEF Collecting

\* A Project that returns its messages shows the conversation of what it has
\* read, and that of every append there was when it began.
LEMMA ReturnShows ==
    ASSUME TypeInv, NEW h \in Handles, CallInv(h), Collecting(h), Showing(h),
           InCall(h), Top(h).at = "ok"
    PROVE  \E m \in 0 .. Len(log) :
              /\ Contiguous(m)
              /\ msgs[h] = Conversation(SubSeq(log, 1, m))
              /\ \E n \in 0 .. m : shown[h] = Conversation(SubSeq(log, 1, n))
              /\ \A k \in 1 .. Top(h).n0 : Contiguous(k) => k <= m
<1>1. PICK t \in Call : t = Top(h)
  BY TopType
<1>2. PICK s \in Seq(Entry) : s = t.got
  BY <1>1, GotIsLog
<1>3. PICK m \in 0 .. Len(log) : m = Len(s)
  BY <1>1, <1>2, GotIsLog
<1>4. Contiguous(m) /\ s = SubSeq(log, 1, m)
  BY <1>1, <1>2, <1>3, GotIsLog
<1>5. msgs[h] = Conversation(SubSeq(log, 1, m))
  BY <1>1, <1>2, <1>4, TakenIs DEF Collecting
<1>6. \A k \in 1 .. t.n0 : Contiguous(k) => k <= m
  BY <1>1, <1>2, <1>3 DEF CallInv, Ended
<1>7. PICK n \in 0 .. Len(log) : /\ Contiguous(n) /\ n <= t.n0
                                 /\ shown[h] = Conversation(SubSeq(log, 1, n))
  BY <1>1 DEF Showing
<1>8. n \in 0 .. m
  <2>1. n \in Nat /\ t.n0 \in Nat /\ m \in Nat
    BY LogTypes DEF Call
  <2> QED  BY <1>6, <1>7, <2>1
<1> QED  BY <1>1, <1>4, <1>5, <1>6, <1>7, <1>8

\* Project returns.
LEMMA ReturnCollects ==
    ASSUME TypeInv, TypeInv', LogExt, TurnTypeOK, NEW h \in Handles, CallInv(h),
           Collecting(h), Showing(h), ProjectReturn(h)
    PROVE  Collecting(h)' /\ Showing(h)'
<1>1. /\ InCall(h) /\ Len(calls[h]) = 1 /\ calls[h] \in Seq(Call)
      /\ calls \in [Handles -> Seq(Call)]
  BY DEF ProjectReturn, Return, Reading, CallInv, TypeInv, TypeOK
<1>2. calls'[h] = SubSeq(calls[h], 1, Len(calls[h]) - 1)
  BY <1>1 DEF ProjectReturn, Return
<1>3. calls'[h] = << >>
  BY <1>1, <1>2
<1>4. ~InCall(h)' /\ msgs'[h] = << >>
  BY <1>3 DEF InCall, ProjectReturn, TurnTypeOK
<1>5. CASE Top(h).at = "ok"
  <2>1. shown'[h] = msgs[h]
    BY <1>5 DEF ProjectReturn, TurnTypeOK
  <2>2. PICK m \in 0 .. Len(log) : Contiguous(m) /\ msgs[h] = Conversation(SubSeq(log, 1, m))
    BY <1>1, <1>5, ReturnShows
  <2>3. m \in 0 .. Len(log') /\ Contiguous(m)' /\ SubSeq(log', 1, m) = SubSeq(log, 1, m)
    BY <2>2, ShowKept
  <2>4. shown'[h] = Conversation(SubSeq(log', 1, m))
    BY <2>1, <2>2, <2>3
  <2> QED  BY <1>4, <2>3, <2>4 DEF Showing, Collecting
<1>6. CASE Top(h).at # "ok"
  <2>1. shown'[h] = shown[h]
    BY <1>6 DEF ProjectReturn
  <2>2. Showing(h)'
    BY <1>4, <2>1, ShowFrame
  <2> QED  BY <1>4, <2>2 DEF Collecting
<1> QED  BY <1>5, <1>6

\* A step of one handle touches what no other one has collected or shown.
LEMMA OthersFrame ==
    ASSUME TurnTypeOK, NEW g \in Handles, NEW h \in Handles, h # g,
           AppendTurn(h) \/ Project(h) \/ Collect(h) \/ ProjectReturn(h) \/ WalStep(h) \/ Crash(h)
    PROVE  msgs'[g] = msgs[g] /\ shown'[g] = shown[g]
BY DEF TurnTypeOK, AppendTurn, Project, Collect, ProjectReturn, WalStep, Crash

\* Every handle, after every step.
LEMMA TurnKeeps ==
    ASSUME PlainUse, IInv, ReadInv, TypeInv', TurnInv, TurnNext, NEW g \in Handles
    PROVE  Collecting(g)' /\ Showing(g)'
<1>0. /\ SingleWriter /\ TypeInv /\ FileInv /\ LogInv /\ TailInv /\ CallInv(g)
      /\ TurnTypeOK /\ Collecting(g) /\ Showing(g)
      /\ calls \in [Handles -> Seq(Call)]
  BY DEF PlainUse, IInv, ReadInv, TurnInv, TypeInv, TypeOK
<1>1. PICK h \in Handles : \/ AppendTurn(h) \/ Project(h) \/ Collect(h)
                           \/ ProjectReturn(h) \/ WalStep(h) \/ Crash(h)
  BY DEF TurnNext
<1>2. Step(h)
  BY <1>1, TurnStep
<1>3. LogExt
  BY <1>0, <1>2, StepKeeps
<1>4. CASE h # g
  <2>1. calls'[g] = calls[g]
    BY <1>0, <1>2, <1>4, OthersKeep
  <2>2. msgs'[g] = msgs[g] /\ shown'[g] = shown[g]
    BY <1>0, <1>1, <1>4, OthersFrame
  <2> QED  BY <1>0, <1>3, <2>1, <2>2, TurnFrame
<1>5. CASE h = g
  <2>1. CASE AppendTurn(g)
    <3>1. UNCHANGED <<calls, msgs, shown>>
      BY <2>1 DEF AppendTurn, BeginWrite, readVars
    <3> QED  BY <1>0, <1>3, <3>1, TurnFrame
  <2>2. CASE Project(g)
    <3>1. Collecting(g)' /\ ~InCall(g) /\ InCall(g)' /\ Top(g)'.n0 = Len(log)
      BY <1>0, <2>2, ProjectCollects
    <3>2. shown'[g] = shown[g]
      BY <2>2 DEF Project
    <3> QED  BY <1>0, <1>3, <3>1, <3>2, ShowFrame
  <2>3. CASE Collect(g)
    <3>1. Collecting(g)' /\ InCall(g) /\ Top(g)'.n0 = Top(g).n0
      BY <1>0, <2>3, CollectCollects
    <3>2. shown'[g] = shown[g]
      BY <2>3 DEF Collect
    <3> QED  BY <1>0, <1>3, <3>1, <3>2, ShowFrame
  <2>4. CASE ProjectReturn(g)
    BY <1>0, <1>3, <2>4, ReturnCollects
  <2>5. CASE WalStep(g)
    <3>1. UNCHANGED <<msgs, shown>>
      BY <2>5 DEF WalStep
    <3>2. CASE \/ ReadEOF(g) \/ ReadShort(g) \/ ReadHdr(g) \/ ReadPay(g)
               \/ ReadCorrupt(g) \/ ReadFail(g)
      <4>1. Collecting(g)' /\ InCall(g) /\ Top(g)'.n0 = Top(g).n0
        BY <1>0, <3>1, <3>2, ScanCollects
      <4> QED  BY <1>0, <1>3, <3>1, <4>1, ShowFrame
    <3>3. CASE \/ Create(g) \/ WriteHead(g) \/ WriteHeadFail(g) \/ Open(g) \/ Close(g)
               \/ Sync(g) \/ Write(g)
      <4>1. UNCHANGED calls
        BY <3>3 DEF Create, WriteHead, WriteHeadFail, Open, Close, Sync, Write, WriteCell,
                    WriteHdrLast, WritePayLast, WriteFail, readVars
      <4> QED  BY <1>0, <1>3, <3>1, <4>1, TurnFrame
    <3> QED  BY <2>5, <3>2, <3>3 DEF WalStep
  <2>6. CASE Crash(g)
    <3>1. calls'[g] = << >> /\ msgs'[g] = << >> /\ shown'[g] = shown[g]
      BY <1>0, <2>6 DEF Crash, ProcCrash, TurnTypeOK
    <3>2. ~InCall(g)'
      BY <3>1 DEF InCall
    <3>3. Showing(g)'
      BY <1>0, <1>3, <3>1, <3>2, ShowFrame
    <3> QED  BY <3>1, <3>2, <3>3 DEF Collecting
  <2> QED  BY <1>1, <1>5, <2>1, <2>2, <2>3, <2>4, <2>5, <2>6
<1> QED  BY <1>4, <1>5

\* What is collected and shown is made of messages.
LEMMA TurnTypes ==
    ASSUME TypeInv, TurnInv, TurnNext, \A g \in Handles : CallInv(g)
    PROVE  TurnTypeOK'
<1>1. PICK h \in Handles : \/ AppendTurn(h) \/ Project(h) \/ Collect(h)
                           \/ ProjectReturn(h) \/ WalStep(h) \/ Crash(h)
  BY DEF TurnNext
<1>2. TurnTypeOK /\ << >> \in Seq(Msg)
  BY DEF TurnInv
<1>3. CASE Collect(h)
  <2>1. InCall(h) /\ Top(h).at = "cb"
    BY <1>3 DEF Collect, Callback, Reading
  <2>2. PICK s \in Seq(Entry) : s = Top(h).got
    BY <2>1, GotIsLog
  <2>3. Handed(h) \in Entry
    <3>1. s # << >>
      BY <2>1, <2>2 DEF TurnInv, Collecting
    <3> QED  BY <2>2, <3>1 DEF Handed
  <2>4. PICK x \in Entry : x = Handed(h)
    BY <2>3
  <2>5. IsMsg(x.typ) => MsgOf(x) \in Msg
    BY DEF IsMsg, MsgOf, Msg, Entry
  <2>6. /\ shown' = shown
        /\ msgs' = IF IsMsg(x.typ) THEN [msgs EXCEPT ![h] = Append(@, MsgOf(x))] ELSE msgs
    BY <1>3, <2>4 DEF Collect
  <2> QED  BY <1>2, <2>5, <2>6 DEF TurnTypeOK
<1>4. CASE AppendTurn(h) \/ Project(h) \/ ProjectReturn(h) \/ WalStep(h) \/ Crash(h)
  BY <1>2, <1>4 DEF TurnTypeOK, AppendTurn, Project, ProjectReturn, WalStep, Crash
<1> QED  BY <1>1, <1>3, <1>4

LEMMA TurnNextInv ==
    ASSUME PlainUse, IInv, ReadInv, IInv', ReadInv', TurnInv, [TurnNext]_turnVars
    PROVE  TurnInv'
<1>0. TypeInv /\ TypeInv' /\ TurnTypeOK
  BY DEF IInv, TurnInv
<1>1. CASE TurnNext
  <2>1. \A g \in Handles : Collecting(g)' /\ Showing(g)'
    BY <1>0, <1>1, TurnKeeps
  <2>2. TurnTypeOK'
    BY <1>0, <1>1, TurnTypes DEF ReadInv
  <2> QED  BY <2>1, <2>2 DEF TurnInv
<1>2. CASE UNCHANGED turnVars
  <2>1. UNCHANGED <<calls, msgs, shown, log>>
    BY <1>2 DEF turnVars, vars, readVars, history
  <2>2. LogExt
    BY <1>0, <2>1, LogTypes DEF LogExt
  <2>3. \A g \in Handles : Collecting(g)' /\ Showing(g)'
    BY <1>0, <2>1, <2>2, TurnFrame DEF TurnInv
  <2> QED  BY <1>0, <2>1, <2>3 DEF TurnInv, TurnTypeOK
<1> QED  BY <1>1, <1>2

LEMMA TurnInitInv == TurnInit => TurnInv
<1> SUFFICES ASSUME TurnInit PROVE TurnInv
  OBVIOUS
<1>1. /\ log = << >> /\ calls = [h \in Handles |-> << >>]
      /\ msgs = [h \in Handles |-> << >>] /\ shown = [h \in Handles |-> << >>]
  BY DEF TurnInit, Init
<1>2. << >> \in Seq(Msg) /\ << >> \in Seq(Entry) /\ Len(log) = 0
  BY <1>1
<1>3. SubSeq(log, 1, 0) = << >>
  BY <1>1, <1>2
<1>4. ASSUME NEW h \in Handles PROVE Collecting(h) /\ Showing(h)
  <2>1. ~InCall(h) /\ msgs[h] = << >> /\ shown[h] = << >>
    BY <1>1 DEF InCall
  <2>2. 0 \in 0 .. Len(log) /\ Contiguous(0)
    BY <1>2 DEF Contiguous
  <2>3. shown[h] = Conversation(SubSeq(log, 1, 0))
    BY <1>3, <2>1, NoConversation
  <2> QED  BY <2>1, <2>2, <2>3 DEF Collecting, Showing
<1> QED  BY <1>1, <1>2, <1>4 DEF TurnInv, TurnTypeOK

-----------------------------------------------------------------------------
(* The theorems.                                                           *)

\* In plain use a Project under way holds exactly the messages of the records
\* it has been through, and what it once showed is the conversation of appends
\* that lie back to back in the log.
THEOREM TurnInvariant ==
    ASSUME PlainUse
    PROVE  TurnSpec => []TurnInv
<1>1. IInv /\ ReadInv /\ (IInv /\ ReadInv)' /\ TurnInv /\ [TurnNext]_turnVars => TurnInv'
  BY TurnNextInv
<1>2. Spec => [](IInv /\ ReadInv)
  BY ReadInvariant
<1> QED  BY <1>1, <1>2, TurnInitInv, TurnUsesWal, PTL DEF TurnSpec

\* In plain use a Project that succeeds returns the conversation of one moment
\* between its call and its return, as long as no gap cuts the file in two.
THEOREM ProjectsAreSnapshots ==
    ASSUME PlainUse
    PROVE  TurnSpec => []ProjectIsSnapshot
<1>1. IInv /\ ReadInv /\ TurnInv => ProjectIsSnapshot
  <2> SUFFICES ASSUME IInv, ReadInv, TurnInv, NEW h \in Handles,
                      InCall(h), Top(h).at = "ok", ~gap
               PROVE  \E n \in Top(h).n0 .. Len(log) :
                          msgs[h] = Conversation(SubSeq(log, 1, n))
    BY DEF ProjectIsSnapshot
  <2>1. TypeInv /\ CallInv(h) /\ Collecting(h) /\ Showing(h) /\ Contiguous(Len(log))
    BY DEF IInv, ReadInv, TurnInv, GapInv
  <2>2. PICK m \in 0 .. Len(log) : /\ msgs[h] = Conversation(SubSeq(log, 1, m))
                                   /\ \A k \in 1 .. Top(h).n0 : Contiguous(k) => k <= m
    BY <2>1, ReturnShows
  <2>3. PICK t \in Call : t = Top(h)
    BY <2>1, TopType
  <2>4. t.n0 \in Nat /\ t.n0 <= Len(log) /\ Len(log) \in Nat
    BY <2>1, <2>3, LogTypes DEF CallInv, Call
  <2>5. Contiguous(t.n0)
    BY <2>1, <2>4 DEF Contiguous
  <2>6. t.n0 <= m
    <3>1. CASE t.n0 = 0
      BY <3>1
    <3>2. CASE t.n0 # 0
      <4>1. t.n0 \in 1 .. t.n0
        BY <2>4, <3>2
      <4> QED  BY <2>2, <2>3, <2>5, <4>1
    <3> QED  BY <3>1, <3>2
  <2> QED  BY <2>2, <2>3, <2>4, <2>6
<1> QED  BY <1>1, ReadInvariant, TurnInvariant, TurnUsesWal, PTL

\* In plain use what Project once showed stays the beginning of what it shows
\* later, through failed appends, crashes and reopenings.
THEOREM HistoryStays ==
    ASSUME PlainUse
    PROVE  TurnSpec => HistoryKept
<1>1. ASSUME IInv, ReadInv, TurnInv, [TurnNext]_turnVars, NEW g \in Handles
      PROVE  IsPrefixOf(shown[g], shown'[g])
  <2>1. TypeInv /\ CallInv(g) /\ Collecting(g) /\ Showing(g) /\ TurnTypeOK
    BY <1>1 DEF IInv, ReadInv, TurnInv
  <2>2. log \in Seq(Entry)
    BY <2>1, LogTypes
  <2>3. CASE shown'[g] = shown[g]
    BY <2>1, <2>3 DEF IsPrefixOf, TurnTypeOK
  <2>4. CASE InCall(g) /\ Top(g).at = "ok" /\ shown'[g] = msgs[g]
    BY <2>1, <2>2, <2>4, ReturnShows, ConversationGrows
  <2>5. shown'[g] = shown[g] \/ (InCall(g) /\ Top(g).at = "ok" /\ shown'[g] = msgs[g])
    <3>1. CASE UNCHANGED turnVars
      BY <3>1 DEF turnVars
    <3>2. ASSUME NEW h \in Handles, ProjectReturn(h)
          PROVE  \/ shown'[g] = shown[g]
                 \/ InCall(g) /\ Top(g).at = "ok" /\ shown'[g] = msgs[g]
      BY <2>1, <3>2 DEF ProjectReturn, Return, Reading, TurnTypeOK
    <3>3. ASSUME NEW h \in Handles,
                 AppendTurn(h) \/ Project(h) \/ Collect(h) \/ WalStep(h) \/ Crash(h)
          PROVE  shown' = shown
      BY <3>3 DEF AppendTurn, Project, Collect, WalStep, Crash
    <3> QED  BY <1>1, <3>1, <3>2, <3>3 DEF TurnNext
  <2> QED  BY <2>3, <2>4, <2>5
<1>2. IInv /\ ReadInv /\ TurnInv /\ [TurnNext]_turnVars
        => [\A h \in Handles : IsPrefixOf(shown[h], shown'[h])]_turnVars
  BY <1>1
<1> QED  BY <1>2, ReadInvariant, TurnInvariant, TurnUsesWal, PTL DEF TurnSpec, HistoryKept
=============================================================================
