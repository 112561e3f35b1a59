-------------------------------- MODULE FldProofs --------------------------------
(***************************************************************************)
(* Theorems about Fld, for every value of its constants, with their proofs *)
(* in four parts: strings and numbers; the events of an item; FldObj, item *)
(* by item; FldArrObj and FldArrScalar, element by element, and the arena. *)
(***************************************************************************)
EXTENDS Fld, FiniteSetTheorems, SequenceTheorems, WellFoundedInduction, TLAPS

-----------------------------------------------------------------------------
(* Recursive functions.                                                    *)

\* A set of numbers has a least one.
LEMMA LeastNumber ==
    ASSUME NEW S \in SUBSET Nat, S # {}
    PROVE  \E m \in S : \A n \in S : m <= n
<1>1. OpToRel(<, Nat) = {p \in Nat \X Nat : p[1] < p[2]}
  BY Zenon DEF OpToRel
<1>2. PICK m \in S : \A n \in S : ~(<<n, m>> \in OpToRel(<, Nat))
  BY WFMin, NatLessThanWellFounded, Zenon
<1>3. \A n \in S : ~(n < m)
  BY <1>1, <1>2
<1> QED  BY <1>3

\* A function is determined where each of its values depends only on values of
\* lower rank.
Agree(m, n, g, h) == \A y \in DOMAIN m : m[y] < n => g[y] = h[y]
UpToRank(F, m, n, g) == \A x \in DOMAIN m : m[x] < n => g[x] = F[x][g]

LEMMA RankedAgree ==
    ASSUME NEW D, NEW S, NEW m \in [D -> Nat], NEW F \in [D -> [[D -> S] -> S]],
           \A x \in D : \A g, h \in [D -> S] : Agree(m, m[x], g, h) => F[x][g] = F[x][h],
           NEW n \in Nat, NEW g \in [D -> S], NEW h \in [D -> S],
           UpToRank(F, m, n, g), UpToRank(F, m, n, h)
    PROVE  Agree(m, n, g, h)
<1>1. SUFFICES ASSUME NEW x \in D, m[x] < n, g[x] # h[x]  PROVE FALSE
  BY DEF Agree
<1> DEFINE W == {k \in Nat : \E y \in D : m[y] = k /\ k < n /\ g[y] # h[y]}
<1>2. m[x] \in W
  BY <1>1
<1>3. PICK k \in W : \A j \in W : k <= j
  BY <1>2, LeastNumber
<1>4. PICK y \in D : m[y] = k /\ k < n /\ g[y] # h[y]
  BY <1>3
<1>5. Agree(m, m[y], g, h)
  <2>1. SUFFICES ASSUME NEW z \in D, m[z] < m[y], g[z] # h[z]  PROVE FALSE
    BY DEF Agree
  <2>2. m[z] \in W
    BY <2>1, <1>4
  <2> QED  BY <2>1, <2>2, <1>3, <1>4
<1>6. g[y] = F[y][g] /\ h[y] = F[y][h]
  BY <1>4 DEF UpToRank
<1> QED  BY <1>4, <1>5, <1>6

LEMMA RankedUpTo ==
    ASSUME NEW D, NEW S, S # {}, NEW m \in [D -> Nat], NEW F \in [D -> [[D -> S] -> S]],
           \A x \in D : \A g, h \in [D -> S] : Agree(m, m[x], g, h) => F[x][g] = F[x][h]
    PROVE  \A n \in Nat : \E g \in [D -> S] : UpToRank(F, m, n, g)
<1> DEFINE W == {n \in Nat : ~ \E g \in [D -> S] : UpToRank(F, m, n, g)}
<1>1. SUFFICES ASSUME W # {}  PROVE FALSE
  OBVIOUS
<1>2. PICK n \in W : \A k \in W : n <= k
  BY <1>1, LeastNumber
<1>3. n # 0
  <2>1. PICK s \in S : TRUE
    OBVIOUS
  <2>2. [x \in D |-> s] \in [D -> S]
    OBVIOUS
  <2>3. UpToRank(F, m, 0, [x \in D |-> s])
    BY DEF UpToRank
  <2> QED  BY <2>2, <2>3
<1>4. n - 1 \in Nat /\ n - 1 \notin W
  BY <1>2, <1>3
<1>5. PICK g \in [D -> S] : UpToRank(F, m, n - 1, g)
  BY <1>4
<1> DEFINE h == [x \in D |-> IF m[x] = n - 1 THEN F[x][g] ELSE g[x]]
<1>6. h \in [D -> S]
  OBVIOUS
<1>7. \A x \in D : m[x] <= n - 1 => Agree(m, m[x], h, g)
  BY DEF Agree
<1>8. ASSUME NEW x \in D, m[x] < n  PROVE h[x] = F[x][h]
  <2>1. m[x] \in Nat /\ m[x] <= n - 1 /\ n \in Nat
    BY <1>8
  <2>2. F[x][h] = F[x][g]
    BY <2>1, <1>6, <1>7
  <2>3. ASSUME m[x] # n - 1  PROVE g[x] = F[x][g]
    <3>1. PICK k \in Nat : k = m[x]
      BY <2>1
    <3>2. k < n - 1
      <4>1. k <= n - 1 /\ k # n - 1
        BY <3>1, <2>1, <2>3, Zenon
      <4>2. n \in Nat
        BY <2>1
      <4> QED  BY <4>1, <4>2
    <3>3. x \in DOMAIN m
      OBVIOUS
    <3> QED  BY <3>1, <3>2, <3>3, <1>5 DEF UpToRank
  <2> QED  BY <2>2, <2>3
<1>9. UpToRank(F, m, n, h)
  BY <1>8 DEF UpToRank
<1> QED  BY <1>6, <1>9, <1>2

Ranked(D, S, m, F) ==
    /\ m \in [D -> Nat] /\ F \in [D -> [[D -> S] -> S]]
    /\ \A x \in D : \A g, h \in [D -> S] : Agree(m, m[x], g, h) => F[x][g] = F[x][h]
Fixed(D, F, fix) == fix = [x \in D |-> F[x][fix]]

LEMMA RankedExists ==
    ASSUME NEW D, NEW S, S # {}, NEW m, NEW F, Ranked(D, S, m, F)
    PROVE  \E fix \in [D -> S] : Fixed(D, F, fix)
<1> m \in [D -> Nat] /\ F \in [D -> [[D -> S] -> S]]
  BY DEF Ranked
<1>0. \A x \in D : \A g, h \in [D -> S] : Agree(m, m[x], g, h) => F[x][g] = F[x][h]
  BY DEF Ranked
<1> DEFINE G == [n \in Nat |-> CHOOSE g \in [D -> S] : UpToRank(F, m, n, g)]
<1>1. \A n \in Nat : G[n] \in [D -> S] /\ UpToRank(F, m, n, G[n])
  <2>1. \A n \in Nat : \E g \in [D -> S] : UpToRank(F, m, n, g)
    BY <1>0, RankedUpTo
  <2> QED  BY <2>1
<1> HIDE DEF G
<1> DEFINE fix == [x \in D |-> G[m[x] + 1][x]]
<1>2. fix \in [D -> S]
  BY <1>1
<1>3. ASSUME NEW x \in D  PROVE fix[x] = F[x][fix]
  <2>1. m[x] \in Nat /\ m[x] + 1 \in Nat
    OBVIOUS
  <2>2. Agree(m, m[x], fix, G[m[x] + 1])
    <3>1. SUFFICES ASSUME NEW y \in D, m[y] < m[x]  PROVE fix[y] = G[m[x] + 1][y]
      BY DEF Agree
    <3>2. m[y] \in Nat /\ m[y] + 1 \in Nat /\ m[y] + 1 <= m[x] + 1
      BY <3>1, <2>1
    <3>3. UpToRank(F, m, m[y] + 1, G[m[x] + 1])
      <4>1. \A z \in D : m[z] < m[y] + 1 => m[z] < m[x] + 1
        BY <3>2, <2>1
      <4> QED  BY <4>1, <2>1, <1>1 DEF UpToRank
    <3>4. UpToRank(F, m, m[y] + 1, G[m[y] + 1])
      BY <3>2, <1>1
    <3>5. G[m[x] + 1] \in [D -> S] /\ G[m[y] + 1] \in [D -> S]
      BY <3>2, <2>1, <1>1
    <3> HIDE DEF fix
    <3>6. Agree(m, m[y] + 1, G[m[y] + 1], G[m[x] + 1])
      BY <1>0, <3>2, <3>3, <3>4, <3>5, RankedAgree
    <3> QED  BY <3>6, <3>2 DEF Agree, fix
  <2>3. G[m[x] + 1] \in [D -> S] /\ G[m[x] + 1][x] = F[x][G[m[x] + 1]]
    BY <2>1, <1>1 DEF UpToRank
  <2>4. F[x][fix] = F[x][G[m[x] + 1]]
    BY <1>0, <2>2, <2>3, <1>2
  <2> QED  BY <2>3, <2>4
<1> HIDE DEF fix
<1>4. fix = [x \in D |-> F[x][fix]]
  BY <1>2, <1>3
<1> QED  BY <1>2, <1>4 DEF Fixed

LEMMA RankedType ==
    ASSUME NEW D, NEW S, NEW m \in [D -> Nat], NEW fix,
           \A x \in D : (\A y \in D : m[y] < m[x] => fix[y] \in S) => fix[x] \in S
    PROVE  \A x \in D : fix[x] \in S
<1>1. SUFFICES ASSUME NEW x \in D, fix[x] \notin S  PROVE FALSE
  OBVIOUS
<1> DEFINE W == {k \in Nat : \E y \in D : m[y] = k /\ fix[y] \notin S}
<1>2. m[x] \in W
  BY <1>1
<1>3. PICK k \in W : \A j \in W : k <= j
  BY <1>2, LeastNumber
<1>4. PICK y \in D : m[y] = k /\ fix[y] \notin S
  BY <1>3
<1>5. ASSUME NEW z \in D, m[z] < m[y]  PROVE fix[z] \in S
  <2>1. m[z] \in Nat /\ (fix[z] \notin S => m[z] \in W)
    OBVIOUS
  <2> QED  BY <2>1, <1>3, <1>4, <1>5
<1> QED  BY <1>4, <1>5

\* A function on 0 .. n that is given by its first value and the step from each
\* value to the next one: it exists, and its values have the type of the first.
LEMMA StepsType ==
    ASSUME NEW n \in Nat, NEW S, NEW F \in [1 .. n -> [S -> S]], NEW u, u[0] \in S,
           \A k \in 1 .. n : u[k - 1] \in S => u[k] = F[k][u[k - 1]]
    PROVE  \A k \in 0 .. n : u[k] \in S
<1> DEFINE Wrong == {k \in 0 .. n : u[k] \notin S}
<1>1. ASSUME NEW m \in Wrong, \A k \in Wrong : m <= k PROVE FALSE
  <2>1. m \in 0 .. n /\ u[m] \notin S /\ m # 0
    OBVIOUS
  <2>2. m \in 1 .. n /\ m - 1 \in 0 .. n /\ ~(m <= m - 1)
    BY <2>1
  <2>3. u[m - 1] \in S
    BY <1>1, <2>2
  <2>4. F[m] \in [S -> S]
    BY <2>2
  <2> QED  BY <2>1, <2>2, <2>3, <2>4
<1>2. Wrong \in SUBSET Nat
  OBVIOUS
<1>3. Wrong = {}
  <2> HIDE DEF Wrong
  <2> QED  BY <1>1, <1>2, LeastNumber
<1> QED  BY <1>3

Steps(u, n, S, base, F) ==
    u \in [0 .. n -> S] /\ u[0] = base /\ \A k \in 1 .. n : u[k] = F[k][u[k - 1]]

LEMMA StepsExist ==
    ASSUME NEW n \in Nat, NEW S, NEW base \in S, NEW F \in [1 .. n -> [S -> S]]
    PROVE  \E u : Steps(u, n, S, base, F)
<1> DEFINE Built(m) == \E u \in [0 .. m -> S] :
                           u[0] = base /\ \A k \in 1 .. m : u[k] = F[k][u[k - 1]]
           Unbuilt == {m \in 0 .. n : ~Built(m)}
<1>1. Built(0)
  <2> DEFINE z == [k \in 0 .. 0 |-> base]
  <2>1. z \in [0 .. 0 -> S] /\ z[0] = base /\ 1 .. 0 = {}
    OBVIOUS
  <2> HIDE DEF z
  <2> QED  BY <2>1
<1>2. ASSUME NEW m \in Unbuilt, \A k \in Unbuilt : m <= k PROVE FALSE
  <2>1. m \in 0 .. n /\ ~Built(m) /\ m # 0
    BY <1>1, <1>2
  <2>2. m \in 1 .. n /\ m - 1 \in 0 .. n /\ ~(m <= m - 1)
    BY <2>1
  <2>3. Built(m - 1)
    BY <1>2, <2>2
  <2>4. PICK u \in [0 .. m - 1 -> S] :
            u[0] = base /\ \A k \in 1 .. m - 1 : u[k] = F[k][u[k - 1]]
    BY <2>3
  <2> DEFINE w == [k \in 0 .. m |-> IF k = m THEN F[m][u[m - 1]] ELSE u[k]]
  <2>5. F[m][u[m - 1]] \in S
    <3>1. F[m] \in [S -> S] /\ u[m - 1] \in S
      BY <2>2, <2>4
    <3> QED  BY <3>1
  <2>6. w \in [0 .. m -> S]
    BY <2>2, <2>4, <2>5
  <2>7. w[0] = base /\ w[m] = F[m][w[m - 1]]
    <3>1. m \in 0 .. m /\ 0 \in 0 .. m /\ m # 0 /\ m - 1 # m
      BY <2>2
    <3>2. w[0] = u[0] /\ w[m] = F[m][u[m - 1]] /\ w[m - 1] = u[m - 1]
      BY <2>2, <3>1
    <3> QED  BY <2>4, <3>2
  <2>8. \A k \in 1 .. m - 1 : w[k] = u[k] /\ w[k - 1] = u[k - 1]
    BY <2>2
  <2>9. \A k \in 1 .. m : k = m \/ k \in 1 .. m - 1
    BY <2>2
  <2> HIDE DEF w
  <2>10. \A k \in 1 .. m : w[k] = F[k][w[k - 1]]
    BY <2>4, <2>7, <2>8, <2>9
  <2> QED  BY <2>1, <2>6, <2>7, <2>10
<1>3. Unbuilt \in SUBSET Nat
  OBVIOUS
<1>4. Unbuilt = {}
  <2> HIDE DEF Unbuilt
  <2> QED  BY <1>2, <1>3, LeastNumber
<1>5. Built(n)
  BY <1>4
<1> QED  BY <1>5 DEF Steps

-----------------------------------------------------------------------------
(* The text, item by item.                                                 *)

Items0 == Seq([key : Seq(Chars), val : Seq(Chars)])
Docs == [open : Seq(Chars), close : Seq(Chars), items : Items0]
Sep(k) == IF k = 1 THEN << >> ELSE <<",">>

LEMMA SeqElement ==
    ASSUME NEW T, NEW s \in Seq(T)
    PROVE  Len(s) \in Nat /\ \A k \in 1 .. Len(s) : s[k] \in T
OBVIOUS

LEMMA Marks ==
    /\ << >> \in Seq(Chars) /\ Len(<< >>) = 0
    /\ <<",">> \in Seq(Chars) /\ Len(<<",">>) = 1
    /\ <<":">> \in Seq(Chars) /\ Len(<<":">>) = 1
<1>1. "," \in Chars /\ ":" \in Chars
  BY FldAssumption
<1>2. \A c \in Chars : <<c>> \in Seq(Chars) /\ Len(<<c>>) = 1
  OBVIOUS
<1>3. << >> \in Seq(Chars) /\ Len(<< >>) = 0
  OBVIOUS
<1> QED  BY <1>1, <1>2, <1>3, Zenon

LEMMA OneIsText == \A it \in [key : Seq(Chars), val : Seq(Chars)] : One(it) \in Seq(Chars)
<1>1. SUFFICES ASSUME NEW it \in [key : Seq(Chars), val : Seq(Chars)]
               PROVE  One(it) \in Seq(Chars)
  OBVIOUS
<1>2. it.key \in Seq(Chars) /\ it.val \in Seq(Chars)
  OBVIOUS
<1>3. it.key \o <<":">> \in Seq(Chars)
  BY <1>2, Marks, ConcatProperties
<1>4. (it.key \o <<":">>) \o it.val \in Seq(Chars) /\ << >> \o it.val = it.val
  BY <1>2, <1>3, ConcatProperties
<1> QED  BY <1>2, <1>4 DEF One

LEMMA UpToIs ==
    ASSUME NEW doc \in Docs
    PROVE  /\ UpTo(doc) \in [0 .. Len(doc.items) -> Seq(Chars)]
           /\ UpTo(doc)[0] = doc.open
           /\ \A k \in 1 .. Len(doc.items) :
                 UpTo(doc)[k] = UpTo(doc)[k - 1] \o Sep(k) \o One(doc.items[k])
<1> DEFINE n == Len(doc.items)
           D == 0 .. n
           S == Seq(Chars)
           Next1(k, s) == s \o Sep(k) \o One(doc.items[k])
           Body(g, k) == IF k = 0 THEN doc.open ELSE Next1(k, g[k - 1])
           F == [k \in 1 .. n |-> [s \in S |-> Next1(k, s)]]
<1>1. n \in Nat /\ doc.open \in S
      /\ \A k \in 1 .. n : One(doc.items[k]) \in S /\ Sep(k) \in S
  <2>1. doc.items \in Items0 /\ doc.open \in S
    BY DEF Docs
  <2>2. n \in Nat /\ \A k \in 1 .. n : doc.items[k] \in [key : Seq(Chars), val : Seq(Chars)]
    BY <2>1, SeqElement, Zenon DEF Items0
  <2>3. \A k \in 1 .. n : Sep(k) \in S
    <3> QED  BY Marks, Zenon DEF Sep
  <2> QED  BY <2>1, <2>2, <2>3, OneIsText
<1>2. ASSUME NEW k \in 1 .. n, NEW s \in S  PROVE Next1(k, s) \in S
  <2>1. s \o Sep(k) \in S
    BY <1>1, ConcatProperties
  <2> QED  BY <1>1, <2>1, ConcatProperties
<1> HIDE DEF Next1, S
<1>3. F \in [1 .. n -> [S -> S]]
  BY <1>2
<1>4. PICK u : Steps(u, n, S, doc.open, F)
  <2> HIDE DEF F
  <2> QED  BY <1>1, <1>3, StepsExist
<1>5. u \in [0 .. n -> S] /\ u[0] = doc.open /\ \A k \in 1 .. n : u[k] = Next1(k, u[k - 1])
  <2>1. \A k \in 1 .. n : u[k - 1] \in S /\ u[k] = F[k][u[k - 1]]
    <3> HIDE DEF F, n
    <3>1. \A k \in 1 .. n : k - 1 \in 0 .. n
      BY <1>1
    <3> QED  BY <3>1, <1>4 DEF Steps
  <2> QED  BY <2>1, <1>4 DEF Steps
<1>6. u = [k \in D |-> Body(u, k)]
  BY <1>1, <1>5
<1>7. UpTo(doc) = [k \in D |-> Body(UpTo(doc), k)]
  BY <1>6 DEF UpTo, Sep, Next1
<1> DEFINE t == UpTo(doc)
<1> HIDE DEF t
<1>8. t = [k \in D |-> Body(t, k)]
  BY <1>7 DEF t
<1>9. t[0] = doc.open /\ \A k \in 1 .. n : t[k] = Next1(k, t[k - 1])
  BY <1>1, <1>8
<1>10. \A k \in 0 .. n : t[k] \in S
  <2>1. \A k \in 1 .. n : t[k - 1] \in S => t[k] = F[k][t[k - 1]]
    BY <1>9
  <2>2. t[0] \in S
    BY <1>1, <1>9
  <2> HIDE DEF F, n
  <2> QED  BY <1>1, <1>3, <2>1, <2>2, StepsType
<1> QED  BY <1>1, <1>8, <1>9, <1>10 DEF t, S, Next1

-----------------------------------------------------------------------------
(* Strings.                                                                *)

\* The characters of a decoded string.
OutChars == Chars \union {Control(c) : c \in Chars} \union {Rune(r) : r \in Int}
Decoded == [ok : BOOLEAN, data : Seq(OutChars)]

LEMMA HexType == \A c : HexVal(c) \in Nat
BY DEF HexVal

LEMMA Hex4Type == \A s : Hex4Val(s) \in Nat
<1>1. SUFFICES ASSUME NEW s  PROVE Hex4Val(s) \in Nat
  OBVIOUS
<1>2. PICK a \in Nat, b \in Nat, c \in Nat, d \in Nat :
          a = HexVal(s[1]) /\ b = HexVal(s[2]) /\ c = HexVal(s[3]) /\ d = HexVal(s[4])
  BY HexType
<1>3. a * 4096 + b * 256 + c * 16 + d \in Nat
  OBVIOUS
<1> QED  BY <1>2, <1>3 DEF Hex4Val

\* What an escape of a code point reads, by the cases of the code.
Pair(r, lo) == 65536 + (r - \hd800) * 1024 + (lo - \hdc00)
Paired(raw, lo) ==
    Len(raw) >= 10 /\ raw[5] = "\\" /\ raw[6] = "u" /\ IsHex4(SubSeq(raw, 7, 10)) /\ lo \in LowSur

LEMMA EscRuneIs ==
    ASSUME NEW raw
    PROVE  LET r == Hex4Val(SubSeq(raw, 1, 4))
               lo == Hex4Val(SubSeq(raw, 7, 10))
           IN  IF Len(raw) < 4 \/ ~IsHex4(SubSeq(raw, 1, 4)) THEN EscRune(raw) = [n |-> 0, r |-> 0]
               ELSE IF r \in HighSur
               THEN EscRune(raw) = IF Paired(raw, lo) THEN [n |-> 10, r |-> Pair(r, lo)]
                                   ELSE [n |-> 0, r |-> 0]
               ELSE EscRune(raw) = IF r \in LowSur THEN [n |-> 0, r |-> 0] ELSE [n |-> 4, r |-> r]
<1> DEFINE r == Hex4Val(SubSeq(raw, 1, 4))
           lo == Hex4Val(SubSeq(raw, 7, 10))
           short == Len(raw) < 4 \/ ~IsHex4(SubSeq(raw, 1, 4))
<1>1. EscRune(raw) =
          IF short THEN [n |-> 0, r |-> 0]
          ELSE CASE r \in HighSur -> IF Paired(raw, lo) THEN [n |-> 10, r |-> Pair(r, lo)]
                                     ELSE [n |-> 0, r |-> 0]
                 [] r \in LowSur -> [n |-> 0, r |-> 0]
                 [] OTHER -> [n |-> 4, r |-> r]
  BY DEF EscRune, Paired, Pair
<1>2. r \in Nat
  BY Hex4Type
<1>3. ~(r \in HighSur /\ r \in LowSur)
  <2>1. \A k \in Nat : ~(k \in HighSur /\ k \in LowSur)
    BY DEF HighSur, LowSur
  <2> HIDE DEF r
  <2> QED  BY <1>2, <2>1
<1> HIDE DEF r, lo, short
<1>4. IF short THEN EscRune(raw) = [n |-> 0, r |-> 0]
      ELSE IF r \in HighSur
      THEN EscRune(raw) = IF Paired(raw, lo) THEN [n |-> 10, r |-> Pair(r, lo)]
                          ELSE [n |-> 0, r |-> 0]
      ELSE EscRune(raw) = IF r \in LowSur THEN [n |-> 0, r |-> 0] ELSE [n |-> 4, r |-> r]
  BY <1>1, <1>3
<1> QED  BY <1>4 DEF r, lo, short

LEMMA RuneType ==
    ASSUME NEW raw \in Seq(Chars)
    PROVE  /\ EscRune(raw).r \in Int
           /\ \/ EscRune(raw).n = 0
              \/ EscRune(raw).n = 4 /\ Len(raw) >= 4
              \/ EscRune(raw).n = 10 /\ Len(raw) >= 10
<1> DEFINE r == Hex4Val(SubSeq(raw, 1, 4))
           lo == Hex4Val(SubSeq(raw, 7, 10))
<1>1. r \in Int /\ Pair(r, lo) \in Int
  <2>1. r \in Nat /\ lo \in Nat
    BY Hex4Type
  <2> HIDE DEF r, lo
  <2> QED  BY <2>1 DEF Pair
<1>2. Len(raw) \in Nat
  OBVIOUS
<1>3. \/ EscRune(raw) = [n |-> 0, r |-> 0]
      \/ EscRune(raw) = [n |-> 10, r |-> Pair(r, lo)] /\ Len(raw) >= 10
      \/ EscRune(raw) = [n |-> 4, r |-> r] /\ ~(Len(raw) < 4)
  <2>1. Paired(raw, lo) => Len(raw) >= 10
    BY DEF Paired
  <2> QED  BY <2>1, EscRuneIs, Zenon
<1> HIDE DEF r, lo
<1> QED  BY <1>1, <1>2, <1>3

\* fldStrDecode from place i on, by what it yields further on.
Past(g, k, c) == IF g[k].ok THEN Good(<<c>> \o g[k].data) ELSE Bad
DecodeAt(raw, g, i) ==
    LET u == EscRune(SubSeq(raw, i + 2, Len(raw)))
    IN  IF i > Len(raw) THEN Good(<< >>)
        ELSE IF raw[i] # "\\" THEN Past(g, i + 1, raw[i])
        ELSE IF i = Len(raw) THEN Bad
        ELSE IF raw[i + 1] \in Self THEN Past(g, i + 2, raw[i + 1])
        ELSE IF raw[i + 1] \in Letters THEN Past(g, i + 2, Control(raw[i + 1]))
        ELSE IF raw[i + 1] = "u"
        THEN IF u.n = 0 THEN Bad ELSE Past(g, i + 2 + u.n, Rune(u.r))
        ELSE Bad
IsDecoding(raw, g) ==
    /\ g \in [1 .. Len(raw) + 1 -> Decoded]
    /\ \A i \in 1 .. Len(raw) + 1 : g[i] = DecodeAt(raw, g, i)

LEMMA PastType ==
    ASSUME NEW g, NEW k, g[k] \in Decoded, NEW c \in OutChars
    PROVE  Past(g, k, c) \in Decoded
<1>1. g[k].data \in Seq(OutChars) /\ <<c>> \in Seq(OutChars) /\ g[k].ok \in BOOLEAN
  BY DEF Decoded
<1>2. <<c>> \o g[k].data \in Seq(OutChars)
  BY <1>1, ConcatProperties
<1>3. << >> \in Seq(OutChars)
  OBVIOUS
<1> QED  BY <1>2, <1>3 DEF Past, Good, Bad, Decoded

LEMMA CharsAreOut ==
    /\ \A c \in Chars : c \in OutChars /\ Control(c) \in OutChars
    /\ \A r \in Int : Rune(r) \in OutChars
BY DEF OutChars

\* What it yields at a place depends on later places only.
LEMMA DecodeAtLater ==
    ASSUME NEW raw \in Seq(Chars), NEW i \in 1 .. Len(raw) + 1,
           NEW g, \A k \in i + 1 .. Len(raw) + 1 : g[k] \in Decoded
    PROVE  /\ DecodeAt(raw, g, i) \in Decoded
           /\ \A h : (\A k \in i + 1 .. Len(raw) + 1 : h[k] = g[k]) =>
                         DecodeAt(raw, h, i) = DecodeAt(raw, g, i)
<1> DEFINE n == Len(raw)
           u == EscRune(SubSeq(raw, i + 2, n))
<1>1. n \in Nat /\ i \in Nat /\ \A k \in 1 .. n : raw[k] \in Chars
  OBVIOUS
<1>2. CASE i > n
  <2>1. Good(<< >>) \in Decoded
    BY DEF Good, Decoded
  <2> QED  BY <1>2, <2>1, Zenon DEF DecodeAt
<1>3. CASE ~(i > n)
  <2>1. i \in 1 .. n
    BY <1>1, <1>3
  <2>2. Bad \in Decoded
    BY DEF Bad, Decoded
  <2>3. i + 1 \in i + 1 .. n + 1 /\ raw[i] \in Chars
    BY <2>1
  <2>4. i # n => i + 2 \in i + 1 .. n + 1 /\ raw[i + 1] \in Chars
    BY <2>1
  <2>5. ASSUME i # n, u.n # 0  PROVE i + 2 + u.n \in i + 1 .. n + 1 /\ u.r \in Int
    <3>1. SubSeq(raw, i + 2, n) \in Seq(Chars) /\ Len(SubSeq(raw, i + 2, n)) = n - i - 1
      <4>1. i + 1 <= n /\ i + 2 \in Nat
        BY <2>1, <2>5
      <4> QED  BY <4>1, <2>1
    <3>2. /\ u.r \in Int
          /\ \/ u.n = 0
             \/ u.n = 4 /\ n - i - 1 >= 4
             \/ u.n = 10 /\ n - i - 1 >= 10
      <4> DEFINE t == SubSeq(raw, i + 2, n)
      <4> HIDE DEF t
      <4>1. t \in Seq(Chars) /\ Len(t) = n - i - 1 /\ u = EscRune(t)
        BY <3>1 DEF t
      <4> HIDE DEF u, n
      <4> QED  BY <4>1, RuneType, Zenon
    <3> HIDE DEF u
    <3> QED  BY <2>1, <2>5, <3>2
  <2> HIDE DEF n, u
  <2>6. ASSUME NEW k \in i + 1 .. n + 1, NEW c \in OutChars
        PROVE  /\ Past(g, k, c) \in Decoded
               /\ \A h : (\A j \in i + 1 .. n + 1 : h[j] = g[j]) => Past(h, k, c) = Past(g, k, c)
    <3>1. g[k] \in Decoded
      BY <2>6 DEF n
    <3>2. Past(g, k, c) \in Decoded
      BY <3>1, PastType
    <3> QED  BY <3>2, Zenon DEF Past
  <2>7. DecodeAt(raw, g, i) =
            IF i > n THEN Good(<< >>)
            ELSE IF raw[i] # "\\" THEN Past(g, i + 1, raw[i])
            ELSE IF i = n THEN Bad
            ELSE IF raw[i + 1] \in Self THEN Past(g, i + 2, raw[i + 1])
            ELSE IF raw[i + 1] \in Letters THEN Past(g, i + 2, Control(raw[i + 1]))
            ELSE IF raw[i + 1] = "u"
            THEN IF u.n = 0 THEN Bad ELSE Past(g, i + 2 + u.n, Rune(u.r))
            ELSE Bad
    BY DEF DecodeAt, n, u
  <2>8. DecodeAt(raw, g, i) \in Decoded
    BY <2>2, <2>3, <2>4, <2>5, <2>6, <2>7, <1>3, CharsAreOut
  <2>9. ASSUME NEW h, \A k \in i + 1 .. n + 1 : h[k] = g[k]
        PROVE  DecodeAt(raw, h, i) = DecodeAt(raw, g, i)
    <3>1. DecodeAt(raw, h, i) =
            IF i > n THEN Good(<< >>)
            ELSE IF raw[i] # "\\" THEN Past(h, i + 1, raw[i])
            ELSE IF i = n THEN Bad
            ELSE IF raw[i + 1] \in Self THEN Past(h, i + 2, raw[i + 1])
            ELSE IF raw[i + 1] \in Letters THEN Past(h, i + 2, Control(raw[i + 1]))
            ELSE IF raw[i + 1] = "u"
            THEN IF u.n = 0 THEN Bad ELSE Past(h, i + 2 + u.n, Rune(u.r))
            ELSE Bad
      BY DEF DecodeAt, n, u
    <3>2. \A k \in i + 1 .. n + 1 : \A c \in OutChars : Past(h, k, c) = Past(g, k, c)
      BY <2>6, <2>9, Zenon
    <3>3. Past(h, i + 1, raw[i]) = Past(g, i + 1, raw[i])
      BY <2>3, <3>2, CharsAreOut, Zenon
    <3>4. i # n => /\ Past(h, i + 2, raw[i + 1]) = Past(g, i + 2, raw[i + 1])
                   /\ Past(h, i + 2, Control(raw[i + 1])) = Past(g, i + 2, Control(raw[i + 1]))
      BY <2>4, <3>2, CharsAreOut, Zenon
    <3>5. i # n /\ u.n # 0 => Past(h, i + 2 + u.n, Rune(u.r)) = Past(g, i + 2 + u.n, Rune(u.r))
      BY <2>5, <3>2, CharsAreOut, Zenon
    <3> QED  BY <2>7, <3>1, <3>3, <3>4, <3>5
  <2> QED  BY <2>8, <2>9 DEF n
<1> QED  BY <1>2, <1>3

\* The decoding exists.
LEMMA StrDecodeIs ==
    ASSUME NEW raw \in Seq(Chars)
    PROVE  \E g : IsDecoding(raw, g) /\ StrDecode(raw) = g[1]
<1> DEFINE n == Len(raw)
           D == 1 .. n + 1
           m == [i \in D |-> n + 1 - i]
           F == [i \in D |-> [g \in [D -> Decoded] |-> DecodeAt(raw, g, i)]]
           Body(g, i) ==
               LET Then(w, c) == IF g[i + w].ok THEN Good(<<c>> \o g[i + w].data) ELSE Bad
                   u == EscRune(SubSeq(raw, i + 2, Len(raw)))
               IN  IF i > Len(raw) THEN Good(<< >>)
                   ELSE IF raw[i] # "\\" THEN Then(1, raw[i])
                   ELSE IF i = Len(raw) THEN Bad
                   ELSE CASE raw[i + 1] \in Self -> Then(2, raw[i + 1])
                          [] raw[i + 1] \in Letters -> Then(2, Control(raw[i + 1]))
                          [] raw[i + 1] = "u" -> IF u.n = 0 THEN Bad ELSE Then(2 + u.n, Rune(u.r))
                          [] OTHER -> Bad
<1>1. n \in Nat /\ 1 \in D
  OBVIOUS
<1>2. m \in [D -> Nat] /\ \A i \in D : \A k \in i + 1 .. n + 1 : k \in D /\ m[k] < m[i]
  BY <1>1
<1>3. Decoded # {}
  <2>1. Bad \in Decoded
    BY DEF Bad, Decoded
  <2> QED  BY <2>1
<1>4. ASSUME NEW i \in D, NEW g \in [D -> Decoded]
      PROVE  /\ DecodeAt(raw, g, i) \in Decoded
             /\ \A h : (\A k \in i + 1 .. n + 1 : h[k] = g[k]) => DecodeAt(raw, h, i) = DecodeAt(raw, g, i)
  <2>1. \A k \in i + 1 .. n + 1 : g[k] \in Decoded
    BY <1>2
  <2> HIDE DEF m, F
  <2> QED  BY <2>1, DecodeAtLater
<1>5. F \in [D -> [[D -> Decoded] -> Decoded]]
  BY <1>4
<1>6. ASSUME NEW i \in D, NEW g \in [D -> Decoded], NEW h \in [D -> Decoded], Agree(m, m[i], g, h)
      PROVE  F[i][g] = F[i][h]
  <2>1. \A k \in i + 1 .. n + 1 : g[k] = h[k]
    <3>1. DOMAIN m = D
      OBVIOUS
    <3> HIDE DEF m, D
    <3> QED  BY <1>2, <1>6, <3>1 DEF Agree
  <2>2. DecodeAt(raw, g, i) = DecodeAt(raw, h, i)
    <3> HIDE DEF m, F, D
    <3> QED  BY <2>1, <1>4
  <2> QED  BY <2>2
<1>7. PICK d \in [D -> Decoded] : d = [i \in D |-> F[i][d]]
  <2> HIDE DEF D, m, F, n
  <2>1. Ranked(D, Decoded, m, F)
    BY <1>2, <1>5, <1>6 DEF Ranked
  <2> QED  BY <1>3, <2>1, RankedExists DEF Fixed
<1>8. \A g : \A i \in D : Body(g, i) = DecodeAt(raw, g, i)
  <2>1. TAKE g
  <2>2. TAKE i \in D
  <2> DEFINE u == EscRune(SubSeq(raw, i + 2, Len(raw)))
             c == raw[i + 1]
             A == Past(g, i + 2, c)
             B == Past(g, i + 2, Control(c))
             C == IF u.n = 0 THEN Bad ELSE Past(g, i + (2 + u.n), Rune(u.r))
  <2> DEFINE K == CASE c \in Self -> A [] c \in Letters -> B [] c = "u" -> C [] OTHER -> Bad
             L == IF c \in Self THEN A ELSE IF c \in Letters THEN B
                  ELSE IF c = "u" THEN C ELSE Bad
  <2>3. K = L
    <3> HIDE DEF A, B, C, c
    <3>1. Letters \cap Self = {} /\ "u" \notin Letters \union Self
      BY DEF Letters, Self
    <3> QED  BY <3>1
  <2>4. u.n # 0 => i + (2 + u.n) = i + 2 + u.n
    <3>1. SubSeq(raw, i + 2, Len(raw)) \in Seq(Chars)
      BY <1>1
    <3>2. u.n \in Int
      <4> DEFINE t == SubSeq(raw, i + 2, Len(raw))
      <4> HIDE DEF t
      <4>1. t \in Seq(Chars) /\ u = EscRune(t)
        BY <3>1 DEF t
      <4>2. u.n = 0 \/ u.n = 4 \/ u.n = 10
        <5> HIDE DEF u
        <5> QED  BY <4>1, RuneType, Zenon
      <4> HIDE DEF u
      <4> QED  BY <4>2
    <3> HIDE DEF u
    <3> QED  BY <3>2, <1>1
  <2>5. Body(g, i) =
            IF i > Len(raw) THEN Good(<< >>)
            ELSE IF raw[i] # "\\" THEN Past(g, i + 1, raw[i])
            ELSE IF i = Len(raw) THEN Bad
            ELSE K
    BY Zenon DEF Past
  <2>6. DecodeAt(raw, g, i) =
            IF i > Len(raw) THEN Good(<< >>)
            ELSE IF raw[i] # "\\" THEN Past(g, i + 1, raw[i])
            ELSE IF i = Len(raw) THEN Bad
            ELSE L
    <3>1. C = IF u.n = 0 THEN Bad ELSE Past(g, i + 2 + u.n, Rune(u.r))
      <4> HIDE DEF u
      <4> QED  BY <2>4
    <3> HIDE DEF C
    <3> QED  BY <3>1, Zenon DEF DecodeAt
  <2> HIDE DEF Body, K, L
  <2> QED  BY <2>3, <2>5, <2>6
<1>9. d = [i \in D |-> Body(d, i)]
  <2>1. \A i \in D : d[i] = DecodeAt(raw, d, i)
    <3> HIDE DEF Body
    <3>1. \A i \in D : F[i][d] = DecodeAt(raw, d, i)
      OBVIOUS
    <3> HIDE DEF F, D
    <3> QED  BY <1>7, <3>1
  <2>2. \A i \in D : d[i] = Body(d, i)
    <3> HIDE DEF Body, D, F
    <3> QED  BY <2>1, <1>8
  <2> HIDE DEF Body, D, F
  <2> QED  BY <1>7, <2>2
<1> DEFINE from == CHOOSE g : g = [i \in D |-> Body(g, i)]
<1>10. from = [i \in D |-> Body(from, i)]
  <2> HIDE DEF Body, D
  <2> QED  BY <1>9
<1>11. StrDecode(raw) = from[1]
  BY Zenon DEF StrDecode
<1> HIDE DEF from, Body
<1>12. \A i \in D : from[i] = DecodeAt(raw, from, i)
  <2> HIDE DEF D
  <2> QED  BY <1>8, <1>10
<1>13. \A i \in D : (\A k \in D : m[k] < m[i] => from[k] \in Decoded) => from[i] \in Decoded
  <2>1. SUFFICES ASSUME NEW i \in D, \A k \in D : m[k] < m[i] => from[k] \in Decoded
                 PROVE  from[i] \in Decoded
    OBVIOUS
  <2>2. \A k \in i + 1 .. n + 1 : from[k] \in Decoded
    <3> HIDE DEF m, D
    <3> QED  BY <1>2, <2>1
  <2> HIDE DEF m, F
  <2> QED  BY <2>2, <1>12, DecodeAtLater
<1>14. \A i \in D : from[i] \in Decoded
  <2> HIDE DEF D, m, n
  <2> QED  BY <1>2, <1>13, RankedType
<1>15. from \in [D -> Decoded]
  <2> HIDE DEF D
  <2> QED  BY <1>10, <1>14
<1> HIDE DEF F, m
<1> QED  BY <1>11, <1>12, <1>15 DEF IsDecoding


\* Where the units of the inside of a string begin, and, in a character of
\* several bytes, each of its bytes.
Apart(s, W) ==
    /\ W \subseteq 1 .. Len(s) + 1 /\ 1 \in W
    /\ \A i \in W : i <= Len(s) =>
          \/ s[i] # "\\" /\ i + 1 \in W
          \/ /\ s[i] = "\\" /\ i + 1 <= Len(s) /\ s[i + 1] \in Self \union Letters /\ i + 2 \in W
          \/ /\ s[i] = "\\" /\ i + 5 <= Len(s) /\ s[i + 1] = "u" /\ i + 6 \in W
             /\ \A k \in i + 2 .. i + 5 : s[k] \in Hex

FineAt(s, g, i) ==
    \/ i = Len(s)
    \/ \E n \in 1 .. 6 : i + n <= Len(s) /\ IsUnit(SubSeq(s, i + 1, i + n)) /\ g[i + n]

LEMMA UnitsFine ==
    ASSUME NEW s \in Seq(Chars), IsUnits(s)
    PROVE  \E g : g[0] /\ \A i \in 0 .. Len(s) : g[i] = FineAt(s, g, i)
<1> DEFINE n == Len(s)
           D == 0 .. n
           m == [i \in D |-> n - i]
           F == [i \in D |-> [g \in [D -> BOOLEAN] |-> FineAt(s, g, i)]]
           Body(g, i) ==
               \/ i = Len(s)
               \/ \E k \in 1 .. 6 : /\ i + k <= Len(s)
                                    /\ IsUnit(SubSeq(s, i + 1, i + k))
                                    /\ g[i + k]
<1>1. n \in Nat /\ 0 \in D
  OBVIOUS
<1>2. m \in [D -> Nat] /\ \A i \in D : \A k \in i + 1 .. n : k \in D /\ m[k] < m[i]
  BY <1>1
<1>3. \A i \in D : \A g, h : (\A k \in i + 1 .. n : g[k] = h[k]) => FineAt(s, g, i) = FineAt(s, h, i)
  <2>1. TAKE i \in D
  <2>2. \A k \in 1 .. 6 : i + k <= Len(s) => i + k \in i + 1 .. n
    BY <1>1
  <2> HIDE DEF n, D, m, F
  <2> QED  BY <2>2, Zenon DEF FineAt
<1>4. \A i \in D : \A g : FineAt(s, g, i) \in BOOLEAN
  BY DEF FineAt
<1>5. F \in [D -> [[D -> BOOLEAN] -> BOOLEAN]]
  <2> HIDE DEF D
  <2> QED  BY <1>4
<1>6. ASSUME NEW i \in D, NEW g \in [D -> BOOLEAN], NEW h \in [D -> BOOLEAN], Agree(m, m[i], g, h)
      PROVE  F[i][g] = F[i][h]
  <2>1. \A k \in i + 1 .. n : g[k] = h[k]
    <3>1. DOMAIN m = D
      OBVIOUS
    <3> HIDE DEF m, D
    <3> QED  BY <1>2, <1>6, <3>1 DEF Agree
  <2>2. FineAt(s, g, i) = FineAt(s, h, i)
    <3> HIDE DEF m, F, D
    <3> QED  BY <2>1, <1>3
  <2> QED  BY <2>2
<1>7. PICK d \in [D -> BOOLEAN] : d = [i \in D |-> F[i][d]]
  <2> HIDE DEF D, m, F, n
  <2>1. Ranked(D, BOOLEAN, m, F)
    BY <1>2, <1>5, <1>6 DEF Ranked
  <2>2. BOOLEAN # {}
    OBVIOUS
  <2> QED  BY <2>1, <2>2, RankedExists DEF Fixed
<1>8. \A g : \A i \in D : Body(g, i) = FineAt(s, g, i)
  BY DEF FineAt
<1>9. d = [i \in D |-> Body(d, i)]
  <2>1. \A i \in D : F[i][d] = FineAt(s, d, i)
    OBVIOUS
  <2> HIDE DEF Body, D, F
  <2> QED  BY <2>1, <1>7, <1>8
<1> DEFINE fine == CHOOSE g : g = [i \in D |-> Body(g, i)]
<1>10. fine = [i \in D |-> Body(fine, i)]
  <2> HIDE DEF Body, D
  <2> QED  BY <1>9
<1>11. fine[0]
  <2>1. IsUnits(s) = fine[0]
    BY Zenon DEF IsUnits
  <2> HIDE DEF fine
  <2> QED  BY <2>1
<1> HIDE DEF fine, Body
<1>12. \A i \in D : fine[i] = FineAt(s, fine, i)
  <2> HIDE DEF D
  <2> QED  BY <1>8, <1>10
<1> QED  BY <1>11, <1>12

\* Of how many bytes a unit is, and whether one of them is a backslash.
LEMMA UnitCases ==
    ASSUME NEW u \in Seq(Chars), IsUnit(u)
    PROVE  \/ Len(u) >= 1 /\ \A i \in 1 .. Len(u) : u[i] # "\\"
           \/ Len(u) = 2 /\ u[1] = "\\" /\ u[2] \in Self \union Letters
           \/ Len(u) = 6 /\ u[1] = "\\" /\ u[2] = "u" /\ \A i \in 3 .. 6 : u[i] \in Hex
<1>1. CASE Len(u) = 1 /\ u[1] \notin Ctl \union {"\"", "\\"} /\ Byte(u[1]) = 0
  <2>1. Len(u) = 1 /\ u[1] # "\\"
    BY <1>1, Zenon
  <2> QED  BY <2>1
<1>2. CASE Len(u) = 2 /\ u[1] = "\\" /\ u[2] \in Escaped
  <2>1. Escaped = Self \union Letters
    BY DEF Escaped, Self, Letters
  <2> QED  BY <1>2, <2>1
<1>3. CASE Len(u) = 6 /\ u[1] = "\\" /\ u[2] = "u" /\ \A i \in 3 .. 6 : u[i] \in Hex
  BY <1>3
<1>4. CASE Len(u) > 1 /\ IsUtf8(u)
  <2>1. Byte("\\") = 0
    BY DEF Byte
  <2>2. Continued(u)
    BY <1>4, Zenon DEF IsUtf8
  <2>3. ASSUME NEW i \in 1 .. Len(u), u[i] = "\\"  PROVE FALSE
    <3>1. i = 1 \/ i \in 2 .. Len(u)
      OBVIOUS
    <3>2. u[1] # "\\"
      BY <2>1, <2>2 DEF Continued
    <3>3. \A k \in 2 .. Len(u) : u[k] # "\\"
      <4>1. ~(0 \in 128 .. 191)
        OBVIOUS
      <4> QED  BY <2>1, <2>2, <4>1, Zenon DEF Continued
    <3> QED  BY <2>3, <3>1, <3>2, <3>3
  <2> QED  BY <1>4, <2>3, SMT
<1> QED  BY <1>1, <1>2, <1>3, <1>4 DEF IsUnit

LEMMA UnitsApart ==
    ASSUME NEW s \in Seq(Chars), IsUnits(s)
    PROVE  \E W : Apart(s, W)
<1> DEFINE n == Len(s)
<1>1. PICK g : g[0] /\ \A i \in 0 .. n : g[i] = FineAt(s, g, i)
  BY UnitsFine
<1>2. n \in Nat
  OBVIOUS
<1> DEFINE W == {i \in 1 .. n + 1 : \E j \in i - 1 .. n : g[j] /\ \A k \in i .. j : s[k] # "\\"}
<1>3. 1 \in W
  BY <1>1, <1>2
<1>4. ASSUME NEW i \in W, i <= n
      PROVE  \/ s[i] # "\\" /\ i + 1 \in W
             \/ /\ s[i] = "\\" /\ i + 1 <= n /\ s[i + 1] \in Self \union Letters /\ i + 2 \in W
             \/ /\ s[i] = "\\" /\ i + 5 <= n /\ s[i + 1] = "u" /\ i + 6 \in W
                /\ \A k \in i + 2 .. i + 5 : s[k] \in Hex
  <2>1. PICK j \in i - 1 .. n : g[j] /\ \A k \in i .. j : s[k] # "\\"
    OBVIOUS
  <2>2. i \in 1 .. n
    BY <1>2, <1>4
  <2>3. CASE j # i - 1
    <3>1. j \in i .. n
      BY <2>1, <2>2, <2>3
    <3>2. i + 1 \in 1 .. n + 1 /\ j \in (i + 1) - 1 .. n /\ \A k \in i + 1 .. j : k \in i .. j
      BY <2>2, <3>1
    <3> QED  BY <2>1, <2>2, <3>1, <3>2
  <2>4. CASE j = i - 1
    <3>1. i - 1 \in 0 .. n /\ g[i - 1] /\ i - 1 # n
      BY <2>1, <2>2, <2>4
    <3>2. PICK w \in 1 .. 6 : /\ (i - 1) + w <= n /\ IsUnit(SubSeq(s, (i - 1) + 1, (i - 1) + w))
                              /\ g[(i - 1) + w]
      <4>1. FineAt(s, g, i - 1)
        BY <1>1, <3>1
      <4> QED  BY <3>1, <4>1 DEF FineAt
    <3> DEFINE u == SubSeq(s, i, i + w - 1)
    <3>3. /\ i + w - 1 <= n /\ IsUnit(u) /\ g[i + w - 1]
          /\ i + w - 1 \in i .. n /\ i + w \in 1 .. n + 1 /\ i + w - 1 \in (i + w) - 1 .. n
      <4>1. (i - 1) + 1 = i /\ (i - 1) + w = i + w - 1
        BY <2>2
      <4> QED  BY <2>2, <3>2, <4>1
    <3>4. u \in Seq(Chars) /\ Len(u) = w /\ \A k \in 1 .. w : u[k] = s[i + k - 1]
      BY <2>2, <3>3
    <3>5. i + w \in W
      <4>1. \A k \in i + w .. i + w - 1 : s[k] # "\\"
        BY <2>2
      <4> QED  BY <3>3, <4>1
    <3> HIDE DEF u
    <3>6. CASE Len(u) >= 1 /\ \A k \in 1 .. Len(u) : u[k] # "\\"
      <4>1. \A k \in i .. i + w - 1 : k - i + 1 \in 1 .. w /\ i + (k - i + 1) - 1 = k
        BY <2>2
      <4>2. \A k \in i .. i + w - 1 : s[k] = u[k - i + 1]
        BY <3>4, <4>1
      <4>3. \A k \in i .. i + w - 1 : s[k] # "\\"
        BY <3>4, <3>6, <4>1, <4>2
      <4>4. i \in i .. i + w - 1 /\ i + 1 \in 1 .. n + 1 /\ i + w - 1 \in (i + 1) - 1 .. n
            /\ \A k \in i + 1 .. i + w - 1 : k \in i .. i + w - 1
        BY <2>2, <3>3
      <4>5. i + 1 \in W
        BY <3>3, <4>3, <4>4
      <4> QED  BY <4>3, <4>4, <4>5
    <3>7. CASE Len(u) = 2 /\ u[1] = "\\" /\ u[2] \in Self \union Letters
      <4>1. w = 2 /\ s[i] = u[1] /\ s[i + 1] = u[2]
        BY <2>2, <3>4, <3>7
      <4> HIDE DEF W
      <4> QED  BY <2>2, <3>3, <3>5, <3>7, <4>1
    <3>8. CASE Len(u) = 6 /\ u[1] = "\\" /\ u[2] = "u" /\ \A k \in 3 .. 6 : u[k] \in Hex
      <4>1. w = 6 /\ s[i] = u[1] /\ s[i + 1] = u[2]
        BY <2>2, <3>4, <3>8
      <4>2. \A k \in i + 2 .. i + 5 : k - i + 1 \in 3 .. 6 /\ s[k] = u[k - i + 1]
        <5>1. \A k \in i + 2 .. i + 5 : /\ k - i + 1 \in 3 .. 6 /\ k - i + 1 \in 1 .. w
                                        /\ i + (k - i + 1) - 1 = k
          BY <2>2, <4>1
        <5> QED  BY <3>4, <5>1
      <4>3. \A k \in i + 2 .. i + 5 : s[k] \in Hex
        BY <3>8, <4>2, Zenon
      <4>4. i + 5 <= n /\ i + 6 \in W
        BY <2>2, <3>3, <3>5, <4>1
      <4> QED  BY <3>8, <4>1, <4>3, <4>4
    <3> QED  BY <3>3, <3>4, <3>6, <3>7, <3>8, UnitCases
  <2> QED  BY <2>3, <2>4
<1>5. W \subseteq 1 .. n + 1
  OBVIOUS
<1> HIDE DEF W
<1> QED  BY <1>3, <1>4, <1>5 DEF Apart

LEMMA Surrogates == \A k \in Int : ~(k \in HighSur /\ k \in LowSur)
<1>1. TAKE k \in Int
<1>2. CASE k \in HighSur
  <2>1. k <= 56319
    BY <1>2 DEF HighSur
  <2> QED  BY <2>1 DEF LowSur
<1> QED  BY <1>2

LEMMA WidthIs == \A s, i : Width(s, i) \in {1, 2, 6}
BY DEF Width

LEMMA UnitType == \A s, i : Unit(s, i) \in Int
<1>1. TAKE s, i
<1>2. Hex4Val(SubSeq(s, i + 2, i + 5)) \in Nat
  BY Hex4Type
<1>3. Unit(s, i) = Hex4Val(SubSeq(s, i + 2, i + 5)) \/ Unit(s, i) = -1
  BY Zenon DEF Unit
<1> DEFINE k == Hex4Val(SubSeq(s, i + 2, i + 5))
<1> HIDE DEF k
<1>4. k \in Nat /\ (Unit(s, i) = k \/ Unit(s, i) = -1)
  BY <1>2, <1>3 DEF k
<1> QED  BY <1>4

\* Whether the units from a place on are a text, by what they are further on.
FitsAt(s, g, i, high) ==
    IF i > Len(s) THEN ~high
    ELSE /\ Unit(s, i) \in LowSur <=> high
         /\ g[i + Width(s, i)][Unit(s, i) \in HighSur]

LEMMA IsTextIs ==
    ASSUME NEW s \in Seq(Chars)
    PROVE  \E g : /\ IsText(s) = g[1][FALSE]
                  /\ \A i \in 1 .. Len(s) + 6 : \A high \in BOOLEAN : g[i][high] = FitsAt(s, g, i, high)
<1> DEFINE n == Len(s)
           D == 1 .. n + 6
           S == [BOOLEAN -> BOOLEAN]
           m == [i \in D |-> n + 6 - i]
           F == [i \in D |-> [g \in [D -> S] |-> [high \in BOOLEAN |-> FitsAt(s, g, i, high)]]]
           Body(g, i) == [high \in BOOLEAN |->
                              IF i > Len(s) THEN ~high
                              ELSE /\ Unit(s, i) \in LowSur <=> high
                                   /\ g[i + Width(s, i)][Unit(s, i) \in HighSur]]
<1>1. n \in Nat /\ 1 \in D
  OBVIOUS
<1>2. m \in [D -> Nat]
      /\ \A i \in D : ~(i > n) => i + Width(s, i) \in D /\ m[i + Width(s, i)] < m[i]
  <2>1. m \in [D -> Nat]
    BY <1>1
  <2>2. ASSUME NEW i \in D, ~(i > n), NEW w \in {1, 2, 6}  PROVE i + w \in D /\ m[i + w] < m[i]
    BY <1>1, <2>2
  <2> HIDE DEF m, D, n
  <2> QED  BY <2>1, <2>2, WidthIs
<1>3. \A i \in D : \A g, h : Agree(m, m[i], g, h) => \A high \in BOOLEAN : FitsAt(s, g, i, high) = FitsAt(s, h, i, high)
  <2>1. SUFFICES ASSUME NEW i \in D, NEW g, NEW h, Agree(m, m[i], g, h), NEW high \in BOOLEAN
                 PROVE  FitsAt(s, g, i, high) = FitsAt(s, h, i, high)
    OBVIOUS
  <2>2. ~(i > n) => g[i + Width(s, i)] = h[i + Width(s, i)]
    <3>1. DOMAIN m = D
      OBVIOUS
    <3> HIDE DEF m, D
    <3> QED  BY <1>2, <2>1, <3>1 DEF Agree
  <2> QED  BY <2>2, Zenon DEF FitsAt
<1>4. \A i, g : [high \in BOOLEAN |-> FitsAt(s, g, i, high)] \in S
  <2>1. \A i, g : \A high \in BOOLEAN : FitsAt(s, g, i, high) \in BOOLEAN
    <3>1. TAKE i, g
    <3>2. TAKE high \in BOOLEAN
    <3>3. CASE i > n
      BY <3>3 DEF FitsAt
    <3>4. CASE ~(i > n)
      <4> DEFINE P == Unit(s, i) \in LowSur <=> high
                 Q == g[i + Width(s, i)][Unit(s, i) \in HighSur]
      <4>1. FitsAt(s, g, i, high) = (P /\ Q)
        BY <3>4, Zenon DEF FitsAt
      <4> HIDE DEF P, Q
      <4>2. (P /\ Q) \in BOOLEAN
        OBVIOUS
      <4> QED  BY <4>1, <4>2
    <3> QED  BY <3>3, <3>4
  <2> QED  BY <2>1
<1>5. Ranked(D, S, m, F)
  <2>1. F \in [D -> [[D -> S] -> S]]
    <3> HIDE DEF D, S
    <3> QED  BY <1>4
  <2>2. ASSUME NEW i \in D, NEW g \in [D -> S], NEW h \in [D -> S], Agree(m, m[i], g, h)
        PROVE  F[i][g] = F[i][h]
    <3>1. F[i][g] = [high \in BOOLEAN |-> FitsAt(s, g, i, high)]
          /\ F[i][h] = [high \in BOOLEAN |-> FitsAt(s, h, i, high)]
      OBVIOUS
    <3> HIDE DEF m, F, D, S
    <3> QED  BY <1>3, <2>2, <3>1
  <2> HIDE DEF m, F, D, S
  <2> QED  BY <1>2, <2>1, <2>2 DEF Ranked
<1>6. PICK d \in [D -> S] : d = [i \in D |-> F[i][d]]
  <2>1. S # {}
    <3>1. [b \in BOOLEAN |-> b] \in S
      OBVIOUS
    <3> QED  BY <3>1
  <2> HIDE DEF D, m, F, n, S
  <2> QED  BY <1>5, <2>1, RankedExists DEF Fixed
<1>7. \A g, i : Body(g, i) = [high \in BOOLEAN |-> FitsAt(s, g, i, high)]
  BY Zenon DEF FitsAt
<1>8. d = [i \in D |-> Body(d, i)]
  <2>1. \A i \in D : F[i][d] = [high \in BOOLEAN |-> FitsAt(s, d, i, high)]
    OBVIOUS
  <2> HIDE DEF Body, D, F, S
  <2>2. \A i \in D : F[i][d] = Body(d, i)
    BY <2>1, <1>7, Zenon
  <2> QED  BY <2>2, <1>6
<1> DEFINE fits == CHOOSE g : g = [i \in D |-> Body(g, i)]
<1>9. fits = [i \in D |-> Body(fits, i)]
  <2> HIDE DEF Body, D
  <2> QED  BY <1>8
<1>10. IsText(s) = fits[1][FALSE]
  BY Zenon DEF IsText
<1> HIDE DEF fits, Body
<1>11. \A i \in D : fits[i] = [high \in BOOLEAN |-> FitsAt(s, fits, i, high)]
  <2>1. \A i \in D : fits[i] = Body(fits, i)
    <3> HIDE DEF D
    <3> QED  BY <1>9
  <2> QED  BY <2>1, <1>7, Zenon
<1>12. \A i \in D : \A high \in BOOLEAN : fits[i][high] = FitsAt(s, fits, i, high)
  <2> HIDE DEF D
  <2> QED  BY <1>11
<1> QED  BY <1>10, <1>12

\* The characters of a string, and its neighbours where it ends too soon.
Around(s) ==
    OutChars \union {s[i + 1] : i \in 1 .. Len(s)} \union {Control(s[i + 1]) : i \in 1 .. Len(s)}

LEMMA CharAtType ==
    ASSUME NEW s \in Seq(Chars), NEW i \in 1 .. Len(s)
    PROVE  CharAt(s, i) \in Seq(Around(s))
<1> DEFINE u == Unit(s, i)
           A == Around(s)
<1>1. \A c \in A : <<c>> \in Seq(A)
  OBVIOUS
<1>2. << >> \in Seq(A)
  OBVIOUS
<1>3. s[i] \in A /\ s[i + 1] \in A /\ Control(s[i + 1]) \in A
  <2>1. s[i] \in Chars
    OBVIOUS
  <2> QED  BY <2>1 DEF Around, OutChars
<1>4. \A r \in Int : Rune(r) \in A
  BY DEF Around, OutChars
<1>5. u \in Int /\ 65536 + (u - \hd800) * 1024 + (Unit(s, i + 6) - \hdc00) \in Int
  <2>1. PICK x \in Int, y \in Int : x = u /\ y = Unit(s, i + 6)
    BY UnitType
  <2>2. 65536 + (x - \hd800) * 1024 + (y - \hdc00) \in Int
    OBVIOUS
  <2> QED  BY <2>1, <2>2
<1> DEFINE r == 65536 + (u - \hd800) * 1024 + (Unit(s, i + 6) - \hdc00)
           c == IF s[i + 1] \in Letters THEN Control(s[i + 1]) ELSE s[i + 1]
<1>6. c \in A
  BY <1>3, Zenon
<1>7. CharAt(s, i) = IF u = -1 THEN IF s[i] # "\\" THEN <<s[i]>> ELSE <<c>>
                     ELSE CASE u \in HighSur -> <<Rune(r)>>
                            [] u \in LowSur -> << >>
                            [] OTHER -> <<Rune(u)>>
  BY DEF CharAt
<1> HIDE DEF r, c, u, A
<1>8. CharAt(s, i) \in {<<s[i]>>, <<c>>, <<Rune(r)>>, << >>, <<Rune(u)>>}
  <2>1. ~(u \in HighSur /\ u \in LowSur)
    BY <1>5, Surrogates
  <2> QED  BY <1>7, <2>1
<1>9. \A q \in {<<s[i]>>, <<c>>, <<Rune(r)>>, << >>, <<Rune(u)>>} : q \in Seq(A)
  <2>1. Rune(r) \in A /\ Rune(u) \in A
    BY <1>4, <1>5 DEF r
  <2> QED  BY <1>1, <1>2, <1>3, <1>6, <2>1, Zenon
<1> QED  BY <1>8, <1>9 DEF A

LEMMA CharsOfIs ==
    ASSUME NEW s \in Seq(Chars)
    PROVE  \E g \in [1 .. Len(s) + 6 -> Seq(Around(s))] :
              /\ CharsOf(s) = g[1]
              /\ \A i \in 1 .. Len(s) + 6 :
                    g[i] = IF i > Len(s) THEN << >> ELSE CharAt(s, i) \o g[i + Width(s, i)]
<1> DEFINE n == Len(s)
           D == 1 .. n + 6
           S == Seq(Around(s))
           m == [i \in D |-> n + 6 - i]
           Body(g, i) == IF i > Len(s) THEN << >> ELSE CharAt(s, i) \o g[i + Width(s, i)]
           F == [i \in D |-> [g \in [D -> S] |-> Body(g, i)]]
<1>1. n \in Nat /\ 1 \in D
  OBVIOUS
<1>2. m \in [D -> Nat]
      /\ \A i \in D : ~(i > n) => i + Width(s, i) \in D /\ m[i + Width(s, i)] < m[i]
  <2>1. m \in [D -> Nat]
    BY <1>1
  <2>2. ASSUME NEW i \in D, ~(i > n), NEW w \in {1, 2, 6}  PROVE i + w \in D /\ m[i + w] < m[i]
    BY <1>1, <2>2
  <2> HIDE DEF m, D, n
  <2> QED  BY <2>1, <2>2, WidthIs
<1>3. ASSUME NEW i \in D, NEW g, ~(i > n) => g[i + Width(s, i)] \in S
      PROVE  Body(g, i) \in S
  <2>1. CASE i > n
    <3>1. << >> \in S
      OBVIOUS
    <3> QED  BY <2>1, <3>1, Zenon
  <2>2. CASE ~(i > n)
    <3>1. i \in 1 .. Len(s)
      BY <1>1, <2>2
    <3>2. CharAt(s, i) \in S
      BY <3>1, CharAtType
    <3>3. CharAt(s, i) \o g[i + Width(s, i)] \in S
      BY <3>2, <1>3, <2>2, ConcatProperties
    <3> HIDE DEF S
    <3> QED  BY <2>2, <3>3, Zenon
  <2> QED  BY <2>1, <2>2
<1>4. \A i \in D : \A g \in [D -> S] : Body(g, i) \in S
  <2> HIDE DEF D, S, Body, m, n
  <2> QED  BY <1>2, <1>3
<1>5. Ranked(D, S, m, F)
  <2>1. F \in [D -> [[D -> S] -> S]]
    <3> HIDE DEF D, S, Body
    <3> QED  BY <1>4
  <2>2. ASSUME NEW i \in D, NEW g \in [D -> S], NEW h \in [D -> S], Agree(m, m[i], g, h)
        PROVE  F[i][g] = F[i][h]
    <3>1. F[i][g] = Body(g, i) /\ F[i][h] = Body(h, i)
      <4> HIDE DEF Body, D, S
      <4> QED  OBVIOUS
    <3>2. ~(i > n) => g[i + Width(s, i)] = h[i + Width(s, i)]
      <4>1. DOMAIN m = D
        OBVIOUS
      <4> HIDE DEF m, D
      <4> QED  BY <1>2, <2>2, <4>1 DEF Agree
    <3>3. Body(g, i) = Body(h, i)
      BY <3>2, Zenon
    <3> QED  BY <3>1, <3>3, Zenon
  <2> HIDE DEF m, F, D, S
  <2> QED  BY <1>2, <2>1, <2>2 DEF Ranked
<1>6. PICK d \in [D -> S] : d = [i \in D |-> F[i][d]]
  <2>1. S # {}
    <3>1. << >> \in S
      OBVIOUS
    <3> QED  BY <3>1
  <2> HIDE DEF D, m, F, n, S
  <2> QED  BY <1>5, <2>1, RankedExists DEF Fixed
<1>7. d = [i \in D |-> Body(d, i)]
  <2> HIDE DEF Body, D, S
  <2>1. \A i \in D : F[i][d] = Body(d, i)
    OBVIOUS
  <2> HIDE DEF F
  <2> QED  BY <2>1, <1>6
<1> DEFINE from == CHOOSE g : g = [i \in D |-> Body(g, i)]
<1>8. from = [i \in D |-> Body(from, i)]
  <2> HIDE DEF Body, D
  <2> QED  BY <1>7
<1>9. CharsOf(s) = from[1]
  BY Zenon DEF CharsOf
<1> HIDE DEF from
<1>10. \A i \in D : from[i] = Body(from, i)
  <2> HIDE DEF D, Body
  <2> QED  BY <1>8
<1>11. \A i \in D : (\A k \in D : m[k] < m[i] => from[k] \in S) => from[i] \in S
  <2> HIDE DEF D, Body, m, S, n
  <2> QED  BY <1>2, <1>3, <1>10
<1>12. \A i \in D : from[i] \in S
  <2> HIDE DEF D, m, n, S
  <2> QED  BY <1>2, <1>11, RankedType
<1>13. from \in [D -> S]
  <2> HIDE DEF D, S, Body
  <2> QED  BY <1>8, <1>12
<1> QED  BY <1>9, <1>10, <1>13

\* The decoding of a string, d, beside what the reference reads, t and c.
Reading(s, W, d, t, c) ==
    /\ s \in Seq(Chars) /\ Apart(s, W) /\ IsDecoding(s, d)
    /\ \A i \in 1 .. Len(s) + 6 : \A high \in BOOLEAN : t[i][high] = FitsAt(s, t, i, high)
    /\ \A i \in 1 .. Len(s) + 6 :
          c[i] = IF i > Len(s) THEN << >> ELSE CharAt(s, i) \o c[i + Width(s, i)]
Same(d, t, c, i) == (d[i].ok <=> t[i][FALSE]) /\ (d[i].ok => d[i].data = c[i])

\* Behind one unit that is no surrogate, both go on at the same place.
LEMMA SameBehind ==
    ASSUME NEW s, NEW W, NEW d, NEW t, NEW c, Reading(s, W, d, t, c),
           NEW i \in W, i <= Len(s), NEW x,
           CharAt(s, i) = <<x>>, Unit(s, i) \notin LowSur \union HighSur,
           i + Width(s, i) \in W, Same(d, t, c, i + Width(s, i)),
           d[i] = Past(d, i + Width(s, i), x)
    PROVE  Same(d, t, c, i)
<1> DEFINE k == i + Width(s, i)
<1>1. i \in 1 .. Len(s) + 6 /\ ~(i > Len(s))
  BY DEF Reading, Apart
<1>2. t[i][FALSE] = FitsAt(s, t, i, FALSE)
  BY <1>1, Zenon DEF Reading
<1>3. c[i] = <<x>> \o c[k]
  BY <1>1, Zenon DEF Reading
<1>4. FitsAt(s, t, i, FALSE) = t[k][FALSE]
  <2>1. (Unit(s, i) \in LowSur) = FALSE /\ (Unit(s, i) \in HighSur) = FALSE
    OBVIOUS
  <2>2. FitsAt(s, t, i, FALSE) = ((FALSE <=> FALSE) /\ t[k][FALSE])
    BY <1>1, <2>1, Zenon DEF FitsAt
  <2>3. k \in 1 .. Len(s) + 6
    <3>1. W \subseteq 1 .. Len(s) + 1 /\ Len(s) \in Nat /\ k \in W
      BY DEF Reading, Apart
    <3> HIDE DEF k
    <3> QED  BY <3>1
  <2>4. t[k][FALSE] \in BOOLEAN
    <3>1. t[k][FALSE] = FitsAt(s, t, k, FALSE)
      BY <2>3, Zenon DEF Reading
    <3>2. k <= Len(s) \/ k > Len(s)
      <4>1. Len(s) \in Nat
        BY DEF Reading
      <4> QED  BY <2>3, <4>1
    <3>3. FitsAt(s, t, k, FALSE) \in BOOLEAN
      <4> DEFINE P == Unit(s, k) \in LowSur <=> FALSE
                 Q == t[k + Width(s, k)][Unit(s, k) \in HighSur]
      <4>1. FitsAt(s, t, k, FALSE) = IF k > Len(s) THEN ~FALSE ELSE P /\ Q
        BY Zenon DEF FitsAt
      <4> HIDE DEF P, Q, k
      <4> QED  BY <4>1
    <3> QED  BY <3>1, <3>3
  <2> HIDE DEF k
  <2> QED  BY <2>2, <2>4
<1>5. d[k].ok = t[k][FALSE] \/ (d[k].ok <=> t[k][FALSE])
  BY DEF Same
<1>6. d[k].ok => d[k].data = c[k]
  BY DEF Same
<1>7. d[k].ok => d[i] = Good(<<x>> \o d[k].data)
  BY Zenon DEF Past
<1>8. ~d[k].ok => d[i] = Bad
  BY Zenon DEF Past
<1> HIDE DEF k
<1>9. CASE d[k].ok
  <2>1. d[i].ok /\ d[i].data = <<x>> \o d[k].data
    BY <1>7, <1>9 DEF Good
  <2>2. d[i].data = c[i]
    BY <2>1, <1>3, <1>6, <1>9
  <2>3. t[i][FALSE]
    BY <1>2, <1>4, <1>5, <1>9, Zenon
  <2> QED  BY <2>1, <2>2, <2>3 DEF Same
<1>10. CASE ~d[k].ok
  <2>1. ~d[i].ok
    BY <1>8, <1>10 DEF Bad
  <2>2. ~t[i][FALSE]
    BY <1>2, <1>4, <1>5, <1>10, Zenon
  <2> QED  BY <2>1, <2>2 DEF Same
<1> QED  BY <1>9, <1>10

\* What a string has at a place where no unit of four digits begins.
LEMMA NoUnit ==
    ASSUME NEW s, NEW i, s[i] # "\\" \/ s[i + 1] \in Self \union Letters
    PROVE  Unit(s, i) = -1 /\ Unit(s, i) \notin LowSur \union HighSur
<1>1. "u" \notin Self \union Letters
  BY DEF Self, Letters
<1>2. Unit(s, i) = -1
  BY <1>1, Zenon DEF Unit
<1>3. -1 \notin LowSur \union HighSur
  BY DEF LowSur, HighSur
<1> QED  BY <1>2, <1>3, Zenon

LEMMA SamePlain ==
    ASSUME NEW s, NEW W, NEW d, NEW t, NEW c, Reading(s, W, d, t, c),
           NEW i \in W, i <= Len(s), s[i] # "\\", i + 1 \in W, Same(d, t, c, i + 1)
    PROVE  Same(d, t, c, i)
<1>1. Unit(s, i) = -1 /\ Unit(s, i) \notin LowSur \union HighSur
  BY NoUnit, Zenon
<1>2. Width(s, i) = 1
  BY Zenon DEF Width
<1>3. CharAt(s, i) = <<s[i]>>
  BY <1>1, SMT DEF CharAt
<1>4. d[i] = Past(d, i + 1, s[i])
  <2>1. i \in 1 .. Len(s) + 1 /\ ~(i > Len(s))
    BY DEF Reading, Apart
  <2>2. d[i] = DecodeAt(s, d, i)
    BY <2>1, Zenon DEF Reading, IsDecoding
  <2> QED  BY <2>1, <2>2, Zenon DEF DecodeAt
<1> QED  BY <1>1, <1>2, <1>3, <1>4, SameBehind

LEMMA SameEscape ==
    ASSUME NEW s, NEW W, NEW d, NEW t, NEW c, Reading(s, W, d, t, c),
           NEW i \in W, s[i] = "\\", i + 1 <= Len(s), s[i + 1] \in Self \union Letters,
           i + 2 \in W, Same(d, t, c, i + 2)
    PROVE  Same(d, t, c, i)
<1> DEFINE x == IF s[i + 1] \in Letters THEN Control(s[i + 1]) ELSE s[i + 1]
<1>1. Unit(s, i) = -1 /\ Unit(s, i) \notin LowSur \union HighSur
  BY NoUnit, Zenon
<1>2. "u" \notin Self \union Letters /\ Self \cap Letters = {}
  BY DEF Self, Letters
<1>3. Width(s, i) = 2
  <2>1. s[i + 1] # "u"
    BY <1>2
  <2> QED  BY <2>1, Zenon DEF Width
<1>4. CharAt(s, i) = <<x>>
  BY <1>1, SMT DEF CharAt
<1>5. d[i] = Past(d, i + 2, x)
  <2>1. i \in 1 .. Len(s) + 1 /\ ~(i > Len(s)) /\ i # Len(s) /\ i <= Len(s)
    BY DEF Reading, Apart
  <2>2. d[i] = DecodeAt(s, d, i)
    BY <2>1, Zenon DEF Reading, IsDecoding
  <2>3. DecodeAt(s, d, i) =
            IF s[i + 1] \in Self THEN Past(d, i + 2, s[i + 1])
            ELSE Past(d, i + 2, Control(s[i + 1]))
    BY <2>1, <1>2, Zenon DEF DecodeAt
  <2>4. s[i + 1] \in Self <=> s[i + 1] \notin Letters
    BY <1>2
  <2> QED  BY <2>2, <2>3, <2>4
<1> HIDE DEF x
<1>6. i <= Len(s)
  BY DEF Reading, Apart
<1> QED  BY <1>1, <1>3, <1>4, <1>5, <1>6, SameBehind


\* What follows place i in a string of n characters, and what EscRune looks at
\* there.
LEMMA Behind ==
    ASSUME NEW s \in Seq(Chars), NEW i \in 1 .. Len(s), i + 1 <= Len(s)
    PROVE  LET q == SubSeq(s, i + 2, Len(s))
           IN  /\ q \in Seq(Chars) /\ Len(q) = Len(s) - i - 1
               /\ \A k \in 1 .. Len(q) : q[k] = s[i + 1 + k]
               /\ Len(q) >= 4 => SubSeq(q, 1, 4) = SubSeq(s, i + 2, i + 5)
               /\ Len(q) >= 10 => SubSeq(q, 7, 10) = SubSeq(s, i + 8, i + 11)
<1> DEFINE n == Len(s)
           q == SubSeq(s, i + 2, n)
<1>1. n \in Nat /\ i \in Nat /\ i + 2 \in Nat
  OBVIOUS
<1>2. q \in Seq(Chars) /\ Len(q) = n - i - 1
  BY <1>1
<1>3. ASSUME NEW k \in 1 .. Len(q)  PROVE q[k] = s[i + 1 + k]
  <2>1. q[k] = s[(i + 2) + k - 1] /\ (i + 2) + k - 1 = i + 1 + k
    BY <1>1, <1>2
  <2> QED  BY <2>1
<1> HIDE DEF q
<1>4. ASSUME Len(q) >= 4  PROVE SubSeq(q, 1, 4) = SubSeq(s, i + 2, i + 5)
  <2>1. /\ SubSeq(q, 1, 4) \in Seq(Chars) /\ SubSeq(s, i + 2, i + 5) \in Seq(Chars)
        /\ Len(SubSeq(q, 1, 4)) = 4 /\ Len(SubSeq(s, i + 2, i + 5)) = 4
    BY <1>1, <1>2, <1>4
  <2>2. ASSUME NEW k \in 1 .. 4  PROVE SubSeq(q, 1, 4)[k] = SubSeq(s, i + 2, i + 5)[k]
    <3>1. SubSeq(q, 1, 4)[k] = q[k]
      BY <1>2, <1>4
    <3>2. SubSeq(s, i + 2, i + 5)[k] = s[(i + 2) + k - 1]
      BY <1>1, <1>2, <1>4
    <3>3. (i + 2) + k - 1 = i + 1 + k /\ k \in 1 .. Len(q)
      BY <1>1, <1>2, <1>4
    <3> QED  BY <3>1, <3>2, <3>3, <1>3
  <2> DEFINE a == SubSeq(q, 1, 4)
             b == SubSeq(s, i + 2, i + 5)
  <2> HIDE DEF a, b
  <2>3. a \in Seq(Chars) /\ b \in Seq(Chars) /\ Len(a) = 4 /\ Len(b) = 4
        /\ \A k \in 1 .. 4 : a[k] = b[k]
    BY <2>1, <2>2 DEF a, b
  <2>4. a = b
    BY <2>3, SeqEqual
  <2> QED  BY <2>4 DEF a, b
<1>5. ASSUME Len(q) >= 10  PROVE SubSeq(q, 7, 10) = SubSeq(s, i + 8, i + 11)
  <2>1. /\ SubSeq(q, 7, 10) \in Seq(Chars) /\ SubSeq(s, i + 8, i + 11) \in Seq(Chars)
        /\ Len(SubSeq(q, 7, 10)) = 4 /\ Len(SubSeq(s, i + 8, i + 11)) = 4
    BY <1>1, <1>2, <1>5
  <2>2. ASSUME NEW k \in 1 .. 4  PROVE SubSeq(q, 7, 10)[k] = SubSeq(s, i + 8, i + 11)[k]
    <3>1. SubSeq(q, 7, 10)[k] = q[7 + k - 1]
      BY <1>2, <1>5
    <3>2. SubSeq(s, i + 8, i + 11)[k] = s[(i + 8) + k - 1]
      BY <1>1, <1>2, <1>5
    <3>3. (i + 8) + k - 1 = i + 1 + (7 + k - 1) /\ 7 + k - 1 \in 1 .. Len(q)
      BY <1>1, <1>2, <1>5
    <3> QED  BY <3>1, <3>2, <3>3, <1>3
  <2> DEFINE a == SubSeq(q, 7, 10)
             b == SubSeq(s, i + 8, i + 11)
  <2> HIDE DEF a, b
  <2>3. a \in Seq(Chars) /\ b \in Seq(Chars) /\ Len(a) = 4 /\ Len(b) = 4
        /\ \A k \in 1 .. 4 : a[k] = b[k]
    BY <2>1, <2>2 DEF a, b
  <2>4. a = b
    BY <2>3, SeqEqual
  <2> QED  BY <2>4 DEF a, b
<1> QED  BY <1>2, <1>3, <1>4, <1>5 DEF q

\* Four hexadecimal digits of a string.
LEMMA HexThere ==
    ASSUME NEW s \in Seq(Chars), NEW i \in 1 .. Len(s), i + 3 <= Len(s),
           \A k \in i .. i + 3 : s[k] \in Hex
    PROVE  IsHex4(SubSeq(s, i, i + 3))
<1>1. Len(SubSeq(s, i, i + 3)) = 4
  OBVIOUS
<1>2. ASSUME NEW k \in 1 .. 4  PROVE SubSeq(s, i, i + 3)[k] \in Hex
  <2>1. SubSeq(s, i, i + 3)[k] = s[i + k - 1]
    OBVIOUS
  <2>2. i + k - 1 \in i .. i + 3
    OBVIOUS
  <2> QED  BY <2>1, <2>2
<1> QED  BY <1>1, <1>2 DEF IsHex4

\* A unit of four digits.
LEMMA UnitThere ==
    ASSUME NEW s \in Seq(Chars), NEW i \in 1 .. Len(s), s[i] = "\\", i + 5 <= Len(s), s[i + 1] = "u",
           \A k \in i + 2 .. i + 5 : s[k] \in Hex
    PROVE  /\ Unit(s, i) = Hex4Val(SubSeq(s, i + 2, i + 5)) /\ Unit(s, i) \in Nat /\ Unit(s, i) # -1
           /\ Width(s, i) = 6 /\ IsHex4(SubSeq(s, i + 2, i + 5))
<1>1. Unit(s, i) = Hex4Val(SubSeq(s, i + 2, i + 5))
  BY Zenon DEF Unit
<1>2. Unit(s, i) \in Nat /\ Unit(s, i) # -1
  <2>1. PICK k \in Nat : k = Unit(s, i)
    BY <1>1, Hex4Type
  <2> QED  BY <2>1
<1>3. Width(s, i) = 6
  BY Zenon DEF Width
<1>4. IsHex4(SubSeq(s, i + 2, i + 5))
  <2>1. i + 2 \in 1 .. Len(s) /\ (i + 2) + 3 <= Len(s) /\ (i + 2) + 3 = i + 5
    OBVIOUS
  <2>2. \A k \in i + 2 .. (i + 2) + 3 : s[k] \in Hex
    BY <2>1
  <2>3. IsHex4(SubSeq(s, i + 2, (i + 2) + 3))
    BY <2>1, <2>2, HexThere
  <2> QED  BY <2>1, <2>3
<1> QED  BY <1>1, <1>2, <1>3, <1>4

LEMMA SameCode ==
    ASSUME NEW s, NEW W, NEW d, NEW t, NEW c, Reading(s, W, d, t, c),
           NEW i \in W, s[i] = "\\", i + 5 <= Len(s), s[i + 1] = "u",
           \A k \in i + 2 .. i + 5 : s[k] \in Hex,
           i + 6 \in W, \A k \in W : k > i => Same(d, t, c, k)
    PROVE  Same(d, t, c, i)
<1> DEFINE n == Len(s)
           q == SubSeq(s, i + 2, n)
           x == Unit(s, i)
           y == Unit(s, i + 6)
           lo == Hex4Val(SubSeq(q, 7, 10))
<1>1. s \in Seq(Chars) /\ n \in Nat /\ i \in 1 .. n /\ i + 1 <= n /\ W \subseteq 1 .. n + 1
  <2>1. s \in Seq(Chars) /\ W \subseteq 1 .. n + 1
    BY DEF Reading, Apart
  <2>2. n \in Nat
    BY <2>1
  <2> HIDE DEF n
  <2>3. i \in 1 .. n + 1 /\ i + 5 <= n
    BY <2>1 DEF n
  <2> QED  BY <2>1, <2>2, <2>3
<1>2. /\ x = Hex4Val(SubSeq(s, i + 2, i + 5)) /\ x \in Nat /\ x # -1
      /\ Width(s, i) = 6 /\ IsHex4(SubSeq(s, i + 2, i + 5))
  BY <1>1, UnitThere, Zenon
<1>3. /\ q \in Seq(Chars) /\ Len(q) = n - i - 1
      /\ \A k \in 1 .. Len(q) : q[k] = s[i + 1 + k]
      /\ Len(q) >= 4 => SubSeq(q, 1, 4) = SubSeq(s, i + 2, i + 5)
      /\ Len(q) >= 10 => SubSeq(q, 7, 10) = SubSeq(s, i + 8, i + 11)
  BY <1>1, Behind, Zenon
<1>4. Len(q) >= 4 /\ ~(Len(q) < 4)
  <2> HIDE DEF q, n
  <2>1. i + 5 <= n
    BY DEF n
  <2> QED  BY <1>1, <1>3, <2>1
<1>5. IF x \in HighSur
      THEN EscRune(q) = IF Paired(q, lo) THEN [n |-> 10, r |-> Pair(x, lo)] ELSE [n |-> 0, r |-> 0]
      ELSE EscRune(q) = IF x \in LowSur THEN [n |-> 0, r |-> 0] ELSE [n |-> 4, r |-> x]
  <2> HIDE DEF q
  <2>1. SubSeq(q, 1, 4) = SubSeq(s, i + 2, i + 5)
    BY <1>3, <1>4, Zenon
  <2> QED  BY <1>2, <1>4, <2>1, EscRuneIs, Zenon DEF lo
<1>6. d[i] = IF EscRune(q).n = 0 THEN Bad ELSE Past(d, i + 2 + EscRune(q).n, Rune(EscRune(q).r))
  <2>1. i \in 1 .. n + 1 /\ ~(i > n) /\ i # n
    <3> HIDE DEF n
    <3> QED  BY <1>1
  <2>2. d[i] = DecodeAt(s, d, i)
    BY <2>1, Zenon DEF Reading, IsDecoding
  <2>3. "u" \notin Self /\ "u" \notin Letters
    BY DEF Self, Letters
  <2> QED  BY <2>1, <2>2, <2>3, Zenon DEF DecodeAt
<1>7. i \in 1 .. n + 6 /\ ~(i > n) /\ i + 6 \in 1 .. n + 6 /\ i + 6 > i /\ i <= n
  <2> HIDE DEF n
  <2>1. i + 5 <= n
    BY DEF n
  <2> QED  BY <1>1, <2>1
<1>8. t[i][FALSE] = ((x \in LowSur <=> FALSE) /\ t[i + 6][(x \in HighSur)])
  <2>1. t[i][FALSE] = FitsAt(s, t, i, FALSE)
    BY <1>7, Zenon DEF Reading
  <2> QED  BY <2>1, <1>2, <1>7, Zenon DEF FitsAt
<1>9. c[i] = CharAt(s, i) \o c[i + 6]
  <2>1. c[i] = IF i > Len(s) THEN << >> ELSE CharAt(s, i) \o c[i + Width(s, i)]
    BY <1>7, Zenon DEF Reading
  <2> QED  BY <2>1, <1>2, <1>7, Zenon
<1>10. CharAt(s, i) = IF x \in HighSur THEN <<Rune(Pair(x, y))>>
                      ELSE IF x \in LowSur THEN << >> ELSE <<Rune(x)>>
  <2>1. CharAt(s, i) = CASE x \in HighSur -> <<Rune(Pair(x, y))>>
                         [] x \in LowSur -> << >>
                         [] OTHER -> <<Rune(x)>>
    BY <1>2, SMT DEF CharAt, Pair
  <2>2. ~(x \in HighSur /\ x \in LowSur)
    BY <1>2, Surrogates
  <2> HIDE DEF x, y
  <2> QED  BY <2>1, <2>2
<1> HIDE DEF q, n, x, y, lo
<1>11. CASE x \notin HighSur /\ x \notin LowSur
  <2>1. EscRune(q).n = 4 /\ EscRune(q).r = x
    BY <1>5, <1>11
  <2>2. d[i] = Past(d, i + 6, Rune(x))
    <3>1. i + 2 + 4 = i + 6 /\ ~(4 = 0)
      BY <1>1
    <3> QED  BY <2>1, <3>1, <1>6
  <2>3. CharAt(s, i) = <<Rune(x)>>
    BY <1>10, <1>11
  <2>4. Unit(s, i) \notin LowSur \union HighSur
    BY <1>11 DEF x
  <2>5. i <= Len(s)
    BY <1>7 DEF n
  <2>6. Same(d, t, c, i + 6)
    BY <1>7
  <2> QED  BY <2>2, <2>3, <2>4, <2>5, <2>6, <1>2, SameBehind
<1>12. CASE x \in LowSur
  <2>1. ~(x \in HighSur)
    BY <1>2, <1>12, Surrogates
  <2>2. EscRune(q).n = 0
    BY <1>5, <1>12, <2>1
  <2>3. ~d[i].ok
    BY <1>6, <2>2 DEF Bad
  <2>4. ~t[i][FALSE]
    BY <1>8, <1>12, Zenon
  <2> QED  BY <2>3, <2>4 DEF Same
<1>13. CASE x \in HighSur
  <2>1. ~(x \in LowSur)
    BY <1>2, <1>13, Surrogates
  <2>2. t[i][FALSE] = (TRUE /\ t[i + 6][TRUE])
    <3>1. (x \in HighSur) = TRUE /\ (x \in LowSur <=> FALSE) = TRUE
      BY <2>1, <1>13
    <3> QED  BY <1>8, <3>1, Zenon
  <2>3. t[i + 6][TRUE] = FitsAt(s, t, i + 6, TRUE)
    BY <1>7, Zenon DEF Reading, n
  <2>4. CASE ~Paired(q, lo) /\ ~(i + 6 <= n /\ y \in LowSur)
    <3>1. EscRune(q).n = 0
      BY <1>5, <1>13, <2>4
    <3>2. ~d[i].ok
      BY <1>6, <3>1 DEF Bad
    <3>3. ~FitsAt(s, t, i + 6, TRUE)
      <4>1. i + 6 <= n \/ i + 6 > n
        BY <1>1
      <4>2. CASE i + 6 > n
        BY <4>2, Zenon DEF FitsAt, n
      <4>3. CASE i + 6 <= n /\ ~(y \in LowSur)
        <5>1. ~(i + 6 > n)
          BY <4>3, <1>1
        <5> QED  BY <4>3, <5>1, Zenon DEF FitsAt, n, y
      <4> QED  BY <4>1, <4>2, <4>3, <2>4
    <3>4. ~t[i][FALSE]
      BY <2>2, <2>3, <3>3, Zenon
    <3> QED  BY <3>2, <3>4 DEF Same
  <2>5. CASE i + 11 <= n /\ Paired(q, lo) /\ y = lo /\ y \in LowSur /\ Width(s, i + 6) = 6 /\ i + 12 \in W
             /\ y # -1 /\ y \in Nat
    <3>1. EscRune(q).n = 10 /\ EscRune(q).r = Pair(x, y)
      BY <1>5, <1>13, <2>5
    <3>2. d[i] = Past(d, i + 12, Rune(Pair(x, y)))
      <4>1. i + 2 + 10 = i + 12 /\ ~(10 = 0)
        BY <1>1
      <4> QED  BY <3>1, <4>1, <1>6
    <3>3. i + 6 \in 1 .. n + 6 /\ ~(i + 6 > n) /\ i + 12 > i /\ (i + 6) + 6 = i + 12
      BY <1>1, <2>5
    <3>4. CharAt(s, i + 6) = << >>
      <4>1. ~(y \in HighSur)
        BY <2>5, Surrogates
      <4>2. CharAt(s, i + 6) = CASE y \in HighSur -> <<Rune(Pair(y, Unit(s, (i + 6) + 6)))>>
                                 [] y \in LowSur -> << >>
                                 [] OTHER -> <<Rune(y)>>
        BY <2>5, SMT DEF CharAt, Pair, y
      <4> QED  BY <4>1, <4>2, <2>5
    <3>5. c[i + 6] = << >> \o c[i + 12]
      <4>1. c[i + 6] = IF i + 6 > Len(s) THEN << >> ELSE CharAt(s, i + 6) \o c[(i + 6) + Width(s, i + 6)]
        BY <3>3, Zenon DEF Reading, n
      <4> QED  BY <4>1, <2>5, <3>3, <3>4 DEF n
    <3>6. t[i + 6][TRUE] = ((TRUE <=> TRUE) /\ t[i + 12][FALSE])
      <4>1. (y \in LowSur) = TRUE /\ (y \in HighSur) = FALSE
        BY <2>5, Surrogates
      <4>2. FitsAt(s, t, i + 6, TRUE) = ((y \in LowSur <=> TRUE) /\ t[(i + 6) + 6][(y \in HighSur)])
        BY <3>3, <2>5, Zenon DEF FitsAt, y, n
      <4> QED  BY <2>3, <4>1, <4>2, <3>3
    <3>7. Same(d, t, c, i + 12)
      BY <2>5, <3>3
    <3>8. t[i][FALSE] <=> t[i + 12][FALSE]
      BY <2>2, <3>6, Zenon
    <3>9. CASE d[i + 12].ok
      <4>1. d[i].ok /\ d[i].data = <<Rune(Pair(x, y))>> \o d[i + 12].data
        BY <3>2, <3>9 DEF Past, Good
      <4>2. d[i + 12].data = c[i + 12] /\ t[i + 12][FALSE]
        BY <3>7, <3>9, Zenon DEF Same
      <4>3. << >> \o c[i + 12] = c[i + 12]
        <5>1. i + 12 \in 1 .. n + 1 /\ d \in [1 .. n + 1 -> Decoded]
          BY <2>5, <1>1 DEF Reading, IsDecoding, n
        <5>2. d[i + 12].data \in Seq(OutChars)
          BY <5>1 DEF Decoded
        <5>3. \A z \in Seq(OutChars) : << >> \o z = z
          OBVIOUS
        <5> QED  BY <4>2, <5>2, <5>3
      <4>4. c[i] = <<Rune(Pair(x, y))>> \o c[i + 12]
        BY <1>9, <1>10, <1>13, <3>5, <4>3
      <4>5. t[i][FALSE]
        BY <3>8, <4>2, Zenon
      <4> QED  BY <4>1, <4>2, <4>4, <4>5 DEF Same
    <3>10. CASE ~d[i + 12].ok
      <4>1. ~d[i].ok
        BY <3>2, <3>10 DEF Past, Bad
      <4>2. ~t[i][FALSE]
        BY <3>7, <3>8, <3>10, Zenon DEF Same
      <4> QED  BY <4>1, <4>2 DEF Same
    <3> QED  BY <3>9, <3>10
  <2>6. CASE i + 6 > n
    <3>1. ~(Len(q) >= 10) /\ ~(i + 6 <= n)
      BY <2>6, <1>1, <1>3
    <3>2. ~Paired(q, lo)
      BY <3>1, Zenon DEF Paired
    <3> QED  BY <2>4, <3>1, <3>2
  <2>7. CASE i + 6 <= n
    <3>1. Len(q) >= 10 => q[5] = s[i + 6] /\ q[6] = s[i + 7]
      <4>1. Len(q) >= 10 => 5 \in 1 .. Len(q) /\ 6 \in 1 .. Len(q)
        BY <1>1, <1>3
      <4>2. i + 1 + 5 = i + 6 /\ i + 1 + 6 = i + 7
        BY <1>1
      <4> QED  BY <1>3, <4>1, <4>2
    <3>2. \/ s[i + 6] # "\\"
          \/ /\ s[i + 6] = "\\" /\ s[i + 7] \in Self \union Letters
          \/ /\ s[i + 6] = "\\" /\ i + 11 <= n /\ s[i + 7] = "u" /\ i + 12 \in W
             /\ \A k \in i + 8 .. i + 11 : s[k] \in Hex
      <4>1. (i + 6) + 1 = i + 7 /\ (i + 6) + 2 = i + 8 /\ (i + 6) + 5 = i + 11 /\ (i + 6) + 6 = i + 12
        BY <1>1
      <4>2. \/ s[i + 6] # "\\" /\ (i + 6) + 1 \in W
            \/ /\ s[i + 6] = "\\" /\ (i + 6) + 1 <= n /\ s[(i + 6) + 1] \in Self \union Letters
               /\ (i + 6) + 2 \in W
            \/ /\ s[i + 6] = "\\" /\ (i + 6) + 5 <= n /\ s[(i + 6) + 1] = "u" /\ (i + 6) + 6 \in W
               /\ \A k \in (i + 6) + 2 .. (i + 6) + 5 : s[k] \in Hex
        BY <2>7, Zenon DEF Reading, Apart, n
      <4> QED  BY <4>1, <4>2
    <3>3. CASE s[i + 6] # "\\" \/ s[i + 7] \in Self \union Letters
      <4>1. "u" \notin Self \union Letters
        BY DEF Self, Letters
      <4>2. ~Paired(q, lo)
        BY <3>1, <3>3, <4>1, Zenon DEF Paired
      <4>3. (i + 6) + 1 = i + 7
        BY <1>1
      <4>4. ~(y \in LowSur)
        BY <3>3, <4>3, NoUnit DEF y
      <4> QED  BY <2>4, <4>2, <4>4
    <3>4. CASE /\ s[i + 6] = "\\" /\ i + 11 <= n /\ s[i + 7] = "u" /\ i + 12 \in W
               /\ \A k \in i + 8 .. i + 11 : s[k] \in Hex
      <4>1. (i + 6) + 1 = i + 7 /\ (i + 6) + 2 = i + 8 /\ (i + 6) + 5 = i + 11
            /\ i + 6 \in 1 .. n
        BY <1>1, <3>4
      <4>2. /\ Unit(s, i + 6) = Hex4Val(SubSeq(s, i + 8, i + 11)) /\ Unit(s, i + 6) \in Nat
            /\ Unit(s, i + 6) # -1
            /\ Width(s, i + 6) = 6 /\ IsHex4(SubSeq(s, i + 8, i + 11))
        <5>1. /\ i + 6 \in 1 .. Len(s) /\ s[i + 6] = "\\" /\ (i + 6) + 5 <= Len(s) /\ s[(i + 6) + 1] = "u"
              /\ \A k \in (i + 6) + 2 .. (i + 6) + 5 : s[k] \in Hex
          BY <3>4, <4>1 DEF n
        <5>2. /\ Unit(s, i + 6) = Hex4Val(SubSeq(s, (i + 6) + 2, (i + 6) + 5)) /\ Unit(s, i + 6) \in Nat
              /\ Unit(s, i + 6) # -1
              /\ Width(s, i + 6) = 6 /\ IsHex4(SubSeq(s, (i + 6) + 2, (i + 6) + 5))
          BY <5>1, <1>1, UnitThere
        <5> QED  BY <4>1, <5>2
      <4>3. Len(q) >= 10
        BY <1>1, <1>3, <3>4
      <4>4. SubSeq(q, 7, 10) = SubSeq(s, i + 8, i + 11)
        BY <1>3, <4>3
      <4>5. y = lo
        BY <4>2, <4>4 DEF y, lo
      <4>6. Paired(q, lo) <=> y \in LowSur
        BY <3>1, <3>4, <4>2, <4>3, <4>4, <4>5, Zenon DEF Paired
      <4>7. CASE y \in LowSur
        BY <2>5, <3>4, <4>2, <4>5, <4>6, <4>7 DEF y
      <4>8. CASE ~(y \in LowSur)
        BY <2>4, <4>6, <4>8
      <4> QED  BY <4>7, <4>8
    <3> QED  BY <3>2, <3>3, <3>4
  <2>8. i + 6 <= n \/ i + 6 > n
    BY <1>1
  <2> QED  BY <2>6, <2>7, <2>8
<1> QED  BY <1>11, <1>12, <1>13

\* The decoding of the inside of a string: it succeeds on a text, and yields its
\* characters.
LEMMA StringRead ==
    ASSUME NEW raw \in Seq(Chars), IsUnits(raw)
    PROVE  /\ StrDecode(raw).ok <=> IsText(raw)
           /\ StrDecode(raw).ok => StrDecode(raw).data = CharsOf(raw)
<1> DEFINE n == Len(raw)
<1>1. PICK W : Apart(raw, W)
  BY UnitsApart
<1>2. PICK d : IsDecoding(raw, d) /\ StrDecode(raw) = d[1]
  BY StrDecodeIs
<1>3. PICK t : /\ IsText(raw) = t[1][FALSE]
               /\ \A i \in 1 .. n + 6 : \A high \in BOOLEAN : t[i][high] = FitsAt(raw, t, i, high)
  BY IsTextIs
<1>4. PICK c : /\ CharsOf(raw) = c[1]
               /\ \A i \in 1 .. n + 6 :
                     c[i] = IF i > n THEN << >> ELSE CharAt(raw, i) \o c[i + Width(raw, i)]
  BY CharsOfIs
<1>5. Reading(raw, W, d, t, c)
  BY <1>1, <1>2, <1>3, <1>4, Zenon DEF Reading
<1>6. n \in Nat /\ W \subseteq 1 .. n + 1 /\ 1 \in W
  BY <1>1 DEF Apart
<1>7. ASSUME NEW i \in W, i > n  PROVE Same(d, t, c, i)
  <2>1. i \in 1 .. n + 1 /\ i \in 1 .. n + 6
    BY <1>6
  <2>2. d[i] = Good(<< >>)
    <3>1. d[i] = DecodeAt(raw, d, i)
      BY <2>1, <1>2, Zenon DEF IsDecoding
    <3> QED  BY <3>1, <1>7, Zenon DEF DecodeAt
  <2>3. c[i] = << >>
    BY <1>4, <1>7, <2>1, Zenon
  <2>4. t[i][FALSE]
    <3>1. t[i][FALSE] = FitsAt(raw, t, i, FALSE)
      BY <1>3, <2>1, Zenon
    <3> QED  BY <3>1, <1>7, Zenon DEF FitsAt
  <2> QED  BY <2>2, <2>3, <2>4 DEF Same, Good
<1>8. ASSUME NEW i \in W, i <= n, \A k \in W : k > i => Same(d, t, c, k)
      PROVE  Same(d, t, c, i)
  <2>1. i \in Nat /\ i + 1 > i /\ i + 2 > i /\ i + 6 > i /\ i <= Len(raw)
    BY <1>6, <1>8
  <2>2. \/ raw[i] # "\\" /\ i + 1 \in W
        \/ /\ raw[i] = "\\" /\ i + 1 <= n /\ raw[i + 1] \in Self \union Letters /\ i + 2 \in W
        \/ /\ raw[i] = "\\" /\ i + 5 <= n /\ raw[i + 1] = "u" /\ i + 6 \in W
           /\ \A k \in i + 2 .. i + 5 : raw[k] \in Hex
    BY <1>1, <2>1, Zenon DEF Apart
  <2>3. CASE raw[i] # "\\" /\ i + 1 \in W
    <3>1. Same(d, t, c, i + 1)
      BY <1>8, <2>1, <2>3, Zenon
    <3> QED  BY <3>1, <2>1, <2>3, <1>5, SamePlain
  <2>4. CASE raw[i] = "\\" /\ i + 1 <= n /\ raw[i + 1] \in Self \union Letters /\ i + 2 \in W
    <3>1. Same(d, t, c, i + 2)
      BY <1>8, <2>1, <2>4, Zenon
    <3> QED  BY <3>1, <2>4, <1>5, SameEscape
  <2>5. CASE /\ raw[i] = "\\" /\ i + 5 <= n /\ raw[i + 1] = "u" /\ i + 6 \in W
             /\ \A k \in i + 2 .. i + 5 : raw[k] \in Hex
    BY <1>5, <1>8, <2>5, SameCode
  <2> QED  BY <2>2, <2>3, <2>4, <2>5
<1> DEFINE Wrong == {n + 1 - i : i \in {j \in W : ~Same(d, t, c, j)}}
<1>9. Wrong = {}
  <2>1. Wrong \in SUBSET Nat
    BY <1>6
  <2>2. ASSUME NEW m \in Wrong, \A k \in Wrong : m <= k  PROVE FALSE
    <3>1. PICK i \in W : ~Same(d, t, c, i) /\ m = n + 1 - i
      BY <2>2
    <3>2. ASSUME NEW k \in W, k > i  PROVE Same(d, t, c, k)
      <4>1. SUFFICES ASSUME ~Same(d, t, c, k)  PROVE FALSE
        OBVIOUS
      <4>2. n + 1 - k \in Wrong
        BY <4>1
      <4>3. m <= n + 1 - k
        BY <4>2, <2>2
      <4> QED  BY <4>3, <3>1, <3>2, <1>6
    <3>3. i \in Nat /\ (i <= n \/ i > n)
      BY <1>6
    <3> QED  BY <3>1, <3>2, <3>3, <1>7, <1>8
  <2> HIDE DEF Wrong
  <2> QED  BY <2>1, <2>2, LeastNumber
<1>10. Same(d, t, c, 1)
  <2>1. ~Same(d, t, c, 1) => n + 1 - 1 \in Wrong
    BY <1>6
  <2> QED  BY <2>1, <1>9
<1> QED  BY <1>2, <1>3, <1>4, <1>10, Zenon DEF Same

\* A string without an escape stands for itself, and is a text.
LEMMA PlainRead ==
    ASSUME NEW raw \in Seq(Chars), ~HasEsc(raw)
    PROVE  CharsOf(raw) = raw
<1> DEFINE n == Len(raw)
<1>1. PICK c \in [1 .. n + 6 -> Seq(Around(raw))] :
          /\ CharsOf(raw) = c[1]
          /\ \A i \in 1 .. n + 6 :
                c[i] = IF i > n THEN << >> ELSE CharAt(raw, i) \o c[i + Width(raw, i)]
  BY CharsOfIs
<1>2. n \in Nat
  OBVIOUS
<1>3. ASSUME NEW i \in 1 .. n  PROVE CharAt(raw, i) = <<raw[i]>> /\ Width(raw, i) = 1
  <2>1. raw[i] # "\\"
    BY DEF HasEsc
  <2>2. Unit(raw, i) = -1
    BY <2>1, NoUnit
  <2>3. CharAt(raw, i) = <<raw[i]>>
    BY <2>1, <2>2, SMT DEF CharAt
  <2>4. Width(raw, i) = 1
    BY <2>1, Zenon DEF Width
  <2> QED  BY <2>3, <2>4
<1>4. ASSUME NEW i \in 1 .. n, c[i + 1] = SubSeq(raw, i + 1, n)
      PROVE  c[i] = SubSeq(raw, i, n)
  <2>1. c[i] = <<raw[i]>> \o c[i + 1]
    <3>1. i \in 1 .. n + 6 /\ ~(i > n)
      BY <1>2
    <3> QED  BY <1>1, <1>3, <3>1, Zenon
  <2>2. <<raw[i]>> \o SubSeq(raw, i + 1, n) = SubSeq(raw, i, n)
    <3>1. n \in i .. n
      BY <1>2
    <3> QED  BY <3>1, SubSeqRecursiveFirst
  <2> QED  BY <1>4, <2>1, <2>2
<1>5. c[n + 1] = SubSeq(raw, n + 1, n)
  <2>1. SubSeq(raw, n + 1, n) = << >>
    BY <1>2
  <2>2. n + 1 \in 1 .. n + 6 /\ n + 1 > n
    BY <1>2
  <2> QED  BY <1>1, <2>1, <2>2, Zenon
<1> DEFINE Wrong == {k \in 0 .. n : c[n + 1 - k] # SubSeq(raw, n + 1 - k, n)}
<1>6. Wrong = {}
  <2>1. Wrong \in SUBSET Nat
    BY <1>2
  <2>2. ASSUME NEW m \in Wrong, \A k \in Wrong : m <= k  PROVE FALSE
    <3>1. m \in 0 .. n /\ c[n + 1 - m] # SubSeq(raw, n + 1 - m, n)
      BY <2>2
    <3>2. m # 0
      <4>1. n + 1 - 0 = n + 1
        BY <1>2
      <4> QED  BY <3>1, <4>1, <1>5
    <3>3. m - 1 \in 0 .. n /\ ~(m <= m - 1) /\ n + 1 - m \in 1 .. n
          /\ n + 1 - (m - 1) = (n + 1 - m) + 1
      BY <3>1, <3>2, <1>2
    <3>4. m - 1 \notin Wrong
      BY <2>2, <3>3
    <3>5. c[(n + 1 - m) + 1] = SubSeq(raw, (n + 1 - m) + 1, n)
      BY <3>3, <3>4
    <3> HIDE DEF Wrong, n
    <3> QED  BY <3>1, <3>3, <3>5, <1>4
  <2> HIDE DEF Wrong
  <2> QED  BY <2>1, <2>2, LeastNumber
<1>7. c[1] = SubSeq(raw, 1, n)
  <2>1. n \in 0 .. n /\ n + 1 - n = 1
    BY <1>2
  <2>2. n \notin Wrong
    BY <1>6
  <2> QED  BY <2>1, <2>2
<1>8. SubSeq(raw, 1, n) = raw
  OBVIOUS
<1> QED  BY <1>1, <1>7, <1>8

\* The keys that match are those that read the same.
LEMMA KeyMatches ==
    ASSUME NEW raw \in Seq(Chars), IsUnits(raw), NEW key
    PROVE  KeyEq(raw, key) <=> IsText(raw) /\ CharsOf(raw) = key
<1> DEFINE d == StrDecode(raw)
<1>1. d \in Decoded
  <2>1. PICK g : IsDecoding(raw, g) /\ d = g[1]
    BY StrDecodeIs
  <2>2. 1 \in 1 .. Len(raw) + 1
    OBVIOUS
  <2> HIDE DEF d
  <2> QED  BY <2>1, <2>2 DEF IsDecoding
<1>2. (d.ok <=> IsText(raw)) /\ (d.ok => d.data = CharsOf(raw))
  BY StringRead
<1>3. d = [ok |-> d.ok, data |-> d.data]
  <2> HIDE DEF d
  <2> QED  BY <1>1 DEF Decoded
<1>4. KeyEq(raw, key) <=> d = Good(key)
  BY DEF KeyEq
<1> HIDE DEF d
<1>5. d = Good(key) <=> d.ok /\ d.data = key
  <2>1. ASSUME d = Good(key)  PROVE d.ok /\ d.data = key
    BY <2>1 DEF Good
  <2>2. ASSUME d.ok, d.data = key  PROVE d = Good(key)
    <3>1. d.ok = TRUE
      BY <1>1, <2>2 DEF Decoded
    <3> QED  BY <1>3, <2>2, <3>1 DEF Good
  <2> QED  BY <2>1, <2>2
<1> QED  BY <1>2, <1>4, <1>5

-----------------------------------------------------------------------------
(* Numbers.                                                                *)

LEMMA TotalIs ==
    ASSUME NEW raw \in Seq(Chars)
    PROVE  \E u : /\ Total(raw) = u[Len(raw)] /\ u[0] = 0
                  /\ \A k \in 0 .. Len(raw) : u[k] \in Nat
                  /\ \A k \in 1 .. Len(raw) : u[k] = 10 * u[k - 1] + HexVal(raw[k])
<1> DEFINE n == Len(raw)
           D == 0 .. n
           Body(g, i) == IF i = 0 THEN 0 ELSE 10 * g[i - 1] + HexVal(raw[i])
           F == [k \in 1 .. n |-> [x \in Nat |-> 10 * x + HexVal(raw[k])]]
<1>1. n \in Nat
  OBVIOUS
<1>2. F \in [1 .. n -> [Nat -> Nat]]
  <2>1. \A k : \A x \in Nat : 10 * x + HexVal(raw[k]) \in Nat
    BY HexType
  <2> HIDE DEF n
  <2> QED  BY <2>1
<1>3. PICK v : Steps(v, n, Nat, 0, F)
  <2>1. 0 \in Nat
    OBVIOUS
  <2> HIDE DEF F, n
  <2> QED  BY <1>1, <1>2, <2>1, StepsExist
<1>4. v \in [0 .. n -> Nat] /\ v[0] = 0 /\ \A k \in 1 .. n : v[k] = 10 * v[k - 1] + HexVal(raw[k])
  <2>1. \A k \in 1 .. n : v[k - 1] \in Nat /\ v[k] = F[k][v[k - 1]]
    <3> HIDE DEF F, n
    <3>1. \A k \in 1 .. n : k - 1 \in 0 .. n
      BY <1>1
    <3> QED  BY <3>1, <1>3 DEF Steps
  <2>2. v \in [0 .. n -> Nat] /\ v[0] = 0
    BY <1>3 DEF Steps
  <2> HIDE DEF n
  <2> QED  BY <2>1, <2>2
<1>5. v = [i \in D |-> Body(v, i)]
  <2>1. \A i \in D : i = 0 \/ i \in 1 .. n
    BY <1>1
  <2> HIDE DEF n
  <2> QED  BY <1>4, <2>1
<1> DEFINE sum == CHOOSE g : g = [i \in D |-> Body(g, i)]
<1>6. sum = [i \in D |-> Body(sum, i)]
  <2> HIDE DEF Body, D
  <2> QED  BY <1>5
<1>7. Total(raw) = sum[n]
  BY Zenon DEF Total
<1> HIDE DEF sum
<1>8. sum[0] = 0 /\ \A k \in 1 .. n : sum[k] = 10 * sum[k - 1] + HexVal(raw[k])
  <2>1. 0 \in D /\ \A k \in 1 .. n : k \in D /\ k # 0
    BY <1>1
  <2>2. \A k \in D : sum[k] = Body(sum, k)
    <3> HIDE DEF D, Body
    <3> QED  BY <1>6
  <2> HIDE DEF D, n
  <2> QED  BY <2>1, <2>2
<1>9. \A k \in 0 .. n : sum[k] \in Nat
  <2>1. \A k \in 1 .. n : sum[k - 1] \in Nat => sum[k] = F[k][sum[k - 1]]
    <3> HIDE DEF n
    <3> QED  BY <1>8
  <2>2. sum[0] \in Nat
    BY <1>8
  <2> HIDE DEF F, n
  <2> QED  BY <1>1, <1>2, <2>1, <2>2, StepsType
<1> QED  BY <1>7, <1>8, <1>9

Reads == {Bad} \union {Good(n) : n \in Nat}

LEMMA DigitsIs ==
    ASSUME NEW raw \in Seq(Chars), NEW max \in Nat
    PROVE  \E u : /\ ParseDigits(raw, max) = u[Len(raw)] /\ u[0] = Good(0)
                  /\ \A k \in 0 .. Len(raw) : u[k] \in Reads
                  /\ \A k \in 1 .. Len(raw) :
                        u[k] = IF ~u[k - 1].ok \/ raw[k] \notin Digit THEN Bad
                               ELSE IF u[k - 1].data * 10 + HexVal(raw[k]) > max THEN Bad
                               ELSE Good(u[k - 1].data * 10 + HexVal(raw[k]))
<1> DEFINE n == Len(raw)
           D == 0 .. n
           One1(k, x) == IF ~x.ok \/ raw[k] \notin Digit THEN Bad
                         ELSE IF x.data * 10 + HexVal(raw[k]) > max THEN Bad
                         ELSE Good(x.data * 10 + HexVal(raw[k]))
           Body(g, i) == IF i = 0 THEN Good(0) ELSE One1(i, g[i - 1])
           F == [k \in 1 .. n |-> [x \in Reads |-> One1(k, x)]]
<1>1. n \in Nat
  OBVIOUS
<1>2. ASSUME NEW k, NEW x \in Reads  PROVE One1(k, x) \in Reads
  <2>1. Bad \in Reads /\ \A j \in Nat : Good(j) \in Reads
    BY DEF Reads
  <2>2. CASE ~x.ok
    BY <2>1, <2>2, Zenon
  <2>3. CASE x.ok
    <3>1. x.data \in Nat
      <4>1. x # Bad
        BY <2>3 DEF Bad
      <4>2. PICK j \in Nat : x = Good(j)
        BY <4>1 DEF Reads
      <4> QED  BY <4>2 DEF Good
    <3>2. x.data * 10 + HexVal(raw[k]) \in Nat
      <4>1. PICK a \in Nat, b \in Nat : a = x.data /\ b = HexVal(raw[k])
        BY <3>1, HexType
      <4>2. a * 10 + b \in Nat
        OBVIOUS
      <4> QED  BY <4>1, <4>2
    <3> QED  BY <2>1, <3>2, Zenon
  <2> QED  BY <2>2, <2>3
<1>3. F \in [1 .. n -> [Reads -> Reads]]
  <2> HIDE DEF One1
  <2> QED  BY <1>2
<1>4. Good(0) \in Reads
  BY DEF Reads
<1> HIDE DEF One1
<1>5. PICK v : Steps(v, n, Reads, Good(0), F)
  <2> HIDE DEF F, n
  <2> QED  BY <1>1, <1>3, <1>4, StepsExist
<1>6. v \in [0 .. n -> Reads] /\ v[0] = Good(0) /\ \A k \in 1 .. n : v[k] = One1(k, v[k - 1])
  <2>1. \A k \in 1 .. n : v[k - 1] \in Reads /\ v[k] = F[k][v[k - 1]]
    <3> HIDE DEF F, n
    <3>1. \A k \in 1 .. n : k - 1 \in 0 .. n
      BY <1>1
    <3> QED  BY <3>1, <1>5 DEF Steps
  <2>2. v \in [0 .. n -> Reads] /\ v[0] = Good(0)
    BY <1>5 DEF Steps
  <2> HIDE DEF n
  <2> QED  BY <2>1, <2>2
<1>7. v = [i \in D |-> Body(v, i)]
  <2>1. \A i \in D : i = 0 \/ i \in 1 .. n
    BY <1>1
  <2> HIDE DEF n
  <2> QED  BY <1>6, <2>1
<1> DEFINE read == CHOOSE g : g = [i \in D |-> Body(g, i)]
<1>8. read = [i \in D |-> Body(read, i)]
  <2> HIDE DEF Body, D
  <2> QED  BY <1>7
<1>9. ParseDigits(raw, max) = read[n]
  <2> DEFINE Raw(g, i) ==
                 IF i = 0 THEN Good(0)
                 ELSE IF ~g[i - 1].ok \/ raw[i] \notin Digit THEN Bad
                 ELSE LET k == g[i - 1].data * 10 + HexVal(raw[i])
                      IN  IF k > max THEN Bad ELSE Good(k)
  <2>1. \A g, i : Raw(g, i) = Body(g, i)
    BY Zenon DEF One1
  <2>2. ParseDigits(raw, max) = (CHOOSE g : g = [i \in D |-> Raw(g, i)])[n]
    BY Zenon DEF ParseDigits
  <2>3. \A g : [i \in D |-> Raw(g, i)] = [i \in D |-> Body(g, i)]
    <3> HIDE DEF Raw, Body, D
    <3> QED  BY <2>1
  <2> HIDE DEF Raw, Body, D, n
  <2> QED  BY <2>2, <2>3, Zenon
<1> HIDE DEF read
<1>10. read[0] = Good(0) /\ \A k \in 1 .. n : read[k] = One1(k, read[k - 1])
  <2>1. 0 \in D /\ \A k \in 1 .. n : k \in D /\ k # 0
    BY <1>1
  <2>2. \A k \in D : read[k] = Body(read, k)
    <3> HIDE DEF D, Body
    <3> QED  BY <1>8
  <2> HIDE DEF D, n
  <2> QED  BY <2>1, <2>2
<1>11. \A k \in 0 .. n : read[k] \in Reads
  <2>1. \A k \in 1 .. n : read[k - 1] \in Reads => read[k] = F[k][read[k - 1]]
    <3> HIDE DEF n
    <3> QED  BY <1>10
  <2>2. read[0] \in Reads
    BY <1>4, <1>10
  <2> HIDE DEF F, n
  <2> QED  BY <1>1, <1>3, <2>1, <2>2, StepsType
<1>12. \A k \in 1 .. n : read[k] = IF ~read[k - 1].ok \/ raw[k] \notin Digit THEN Bad
                               ELSE IF read[k - 1].data * 10 + HexVal(raw[k]) > max THEN Bad
                               ELSE Good(read[k - 1].data * 10 + HexVal(raw[k]))
  BY <1>10, Zenon DEF One1
<1> QED  BY <1>9, <1>10, <1>11, <1>12, Zenon

\* The digits read are those of a number that fits, and its value.
LEMMA DigitsRead ==
    ASSUME NEW raw \in Seq(Chars), NEW max \in Nat
    PROVE  /\ Total(raw) \in Nat
           /\ ParseDigits(raw, max).ok <=> (\A i \in 1 .. Len(raw) : raw[i] \in Digit) /\ Total(raw) <= max
           /\ ParseDigits(raw, max).ok => ParseDigits(raw, max).data = Total(raw)
<1> DEFINE n == Len(raw)
<1>1. PICK u : /\ Total(raw) = u[n] /\ u[0] = 0
               /\ \A k \in 0 .. n : u[k] \in Nat
               /\ \A k \in 1 .. n : u[k] = 10 * u[k - 1] + HexVal(raw[k])
  BY TotalIs
<1>2. PICK r : /\ ParseDigits(raw, max) = r[n] /\ r[0] = Good(0)
               /\ \A k \in 0 .. n : r[k] \in Reads
               /\ \A k \in 1 .. n :
                     r[k] = IF ~r[k - 1].ok \/ raw[k] \notin Digit THEN Bad
                            ELSE IF r[k - 1].data * 10 + HexVal(raw[k]) > max THEN Bad
                            ELSE Good(r[k - 1].data * 10 + HexVal(raw[k]))
  BY DigitsIs
<1>3. n \in Nat
  OBVIOUS
<1> HIDE DEF n
<1> DEFINE Right(k) == /\ r[k].ok <=> (\A i \in 1 .. k : raw[i] \in Digit) /\ u[k] <= max
                       /\ r[k].ok => r[k].data = u[k]
           Wrong == {k \in 0 .. n : ~Right(k)}
<1>4. Right(0)
  <2>1. u[0] <= max /\ \A i \in 1 .. 0 : raw[i] \in Digit
    BY <1>1
  <2> QED  BY <1>1, <1>2, <2>1 DEF Good
<1>5. ASSUME NEW k \in 1 .. n, Right(k - 1)  PROVE Right(k)
  <2>1. PICK a \in Nat, b \in Nat, h \in Nat : a = u[k - 1] /\ b = u[k] /\ h = HexVal(raw[k])
    <3>1. k \in 0 .. n /\ k - 1 \in 0 .. n
      BY <1>3
    <3> QED  BY <1>1, <3>1, HexType
  <2>2. b = 10 * a + h /\ b = a * 10 + h /\ a <= b
    <3>1. b = 10 * a + h
      BY <1>1, <2>1
    <3> QED  BY <3>1
  <2>3. \A i \in 1 .. k : i = k \/ i \in 1 .. k - 1
    BY <1>3
  <2>4. k \in 1 .. k /\ \A i \in 1 .. k - 1 : i \in 1 .. k
    BY <1>3
  <2>5. CASE r[k - 1].ok /\ raw[k] \in Digit
    <3>1. r[k - 1].data = a /\ \A i \in 1 .. k : raw[i] \in Digit
      <4>1. r[k - 1].data = a
        BY <1>5, <2>1, <2>5
      <4>2. \A i \in 1 .. k - 1 : raw[i] \in Digit
        BY <1>5, <2>5
      <4> QED  BY <4>1, <4>2, <2>3, <2>5
    <3>2. r[k] = IF b > max THEN Bad ELSE Good(b)
      <4>1. r[k] = IF r[k - 1].data * 10 + HexVal(raw[k]) > max THEN Bad
                   ELSE Good(r[k - 1].data * 10 + HexVal(raw[k]))
        BY <1>2, <2>5, Zenon
      <4>2. r[k - 1].data * 10 + HexVal(raw[k]) = b
        BY <3>1, <2>1, <2>2
      <4> QED  BY <4>1, <4>2, Zenon
    <3>3. CASE b > max
      <4>1. ~r[k].ok /\ ~(u[k] <= max)
        BY <3>2, <3>3, <2>1 DEF Bad
      <4> QED  BY <4>1
    <3>4. CASE ~(b > max)
      <4>1. r[k].ok /\ r[k].data = u[k] /\ u[k] <= max
        BY <3>2, <3>4, <2>1 DEF Good
      <4> QED  BY <4>1, <3>1
    <3> QED  BY <3>3, <3>4
  <2>6. CASE ~(r[k - 1].ok /\ raw[k] \in Digit)
    <3>1. ~r[k].ok
      <4>1. r[k] = Bad
        BY <1>2, <2>6, Zenon
      <4> QED  BY <4>1 DEF Bad
    <3>2. ~((\A i \in 1 .. k : raw[i] \in Digit) /\ u[k] <= max)
      <4>1. SUFFICES ASSUME \A i \in 1 .. k : raw[i] \in Digit, u[k] <= max  PROVE FALSE
        OBVIOUS
      <4>2. u[k - 1] <= max
        BY <4>1, <2>1, <2>2
      <4>3. \A i \in 1 .. k - 1 : raw[i] \in Digit
        BY <4>1, <2>4
      <4> QED  BY <4>1, <4>2, <4>3, <2>4, <2>6, <1>5
    <3> QED  BY <3>1, <3>2
  <2> QED  BY <2>5, <2>6
<1>6. Wrong = {}
  <2>1. Wrong \in SUBSET Nat
    BY <1>3
  <2>2. ASSUME NEW m \in Wrong, \A k \in Wrong : m <= k  PROVE FALSE
    <3>1. m \in 0 .. n /\ ~Right(m) /\ m # 0
      <4> HIDE DEF Right
      <4> QED  BY <2>2, <1>4
    <3>2. m \in 1 .. n /\ m - 1 \in 0 .. n /\ ~(m <= m - 1)
      BY <3>1, <1>3
    <3> HIDE DEF Right
    <3>3. Right(m - 1)
      BY <2>2, <3>2
    <3> QED  BY <3>1, <3>2, <3>3, <1>5
  <2> HIDE DEF Wrong
  <2> QED  BY <2>1, <2>2, LeastNumber
<1>7. Right(n) /\ u[n] \in Nat
  <2>1. n \in 0 .. n
    BY <1>3
  <2> HIDE DEF Right
  <2> QED  BY <2>1, <1>6, <1>1
<1> QED  BY <1>1, <1>2, <1>7 DEF n

\* How a number begins.
LEMMA NumberBegins ==
    ASSUME NEW s \in Seq(Chars), IsNumber(s)
    PROVE  s # << >> /\ s[1] \in Digit \union {"-"}
           /\ (s[1] = "-" => Len(s) > 1 /\ s[2] \in Digit)
<1> DEFINE signed == s # << >> /\ s[1] = "-"
           u == IF signed THEN Tail(s) ELSE s
<1>1. PICK i \in 1 .. Len(u) : IsInt(SubSeq(u, 1, i))
  BY SMT DEF IsNumber
<1>2. u \in Seq(Chars)
  BY SMT
<1>3. Len(SubSeq(u, 1, i)) >= 1 /\ SubSeq(u, 1, i)[1] = u[1]
  BY <1>2
<1>4. u[1] \in Digit
  <2>1. AllDigits(SubSeq(u, 1, i))
    BY <1>1 DEF IsInt
  <2>2. 1 \in 1 .. Len(SubSeq(u, 1, i))
    <3> DEFINE q == SubSeq(u, 1, i)
    <3>1. q \in Seq(Chars) /\ Len(q) >= 1
      BY <1>2, <1>3
    <3> HIDE DEF q
    <3> QED  BY <3>1
  <2> QED  BY <2>1, <2>2, <1>3 DEF AllDigits
<1>5. Len(u) >= 1
  BY <1>2
<1>6. CASE signed
  <2>1. u = Tail(s)
    BY <1>6, Zenon
  <2>2. Len(s) > 1 /\ s[2] = u[1]
    BY <1>5, <1>6, <2>1
  <2> QED  BY <1>4, <1>6, <2>2
<1>7. CASE ~signed
  <2>1. u = s
    BY <1>7, Zenon
  <2>2. s # << >>
    <3>1. Len(<< >>) = 0
      OBVIOUS
    <3> QED  BY <1>5, <2>1, <3>1
  <2> QED  BY <1>4, <1>7, <2>1, <2>2
<1> QED  BY <1>6, <1>7

\* The characters that values begin with.
LEMMA Beginning ==
    /\ "\"" \notin Digit \union {"-", "t", "f", "n", "{", "["}
    /\ "{" \notin Digit \union {"-", "t", "f", "n", "["}
    /\ "[" \notin Digit \union {"-", "t", "f", "n"}
    /\ "t" \notin Digit \union {"-"} /\ "f" \notin Digit \union {"-"} /\ "n" \notin Digit \union {"-"}
    /\ "-" \notin Digit /\ "." \notin Digit \union {"-"} /\ "e" \notin Digit \union {"-"}
    /\ "t" # "f" /\ "t" # "n" /\ "f" # "n"
BY DEF Digit

LEMMA LiteralBegins ==
    True[1] = "t" /\ Len(True) = 4 /\ False[1] = "f" /\ Len(False) = 5 /\ Null[1] = "n" /\ Len(Null) = 4
BY DEF True, False, Null

\* A value is of one kind.
LEMMA KindsDiffer ==
    ASSUME NEW s \in Seq(Chars)
    PROVE  /\ IsString(s) => ~IsNumber(s) /\ s \notin {True, False, Null} /\ s[1] \notin {"{", "["}
           /\ IsNumber(s) => s \notin {True, False, Null} /\ s[1] \notin {"{", "["}
           /\ s \in {True, False, Null} => s[1] \notin {"{", "["}
           /\ True # False /\ True # Null /\ False # Null
<1>1. IsString(s) => s[1] = "\""
  BY Zenon DEF IsString
<1>2. IsNumber(s) => s[1] \in Digit \union {"-"}
  BY NumberBegins
<1>3. s \in {True, False, Null} => s[1] \in {"t", "f", "n"}
  BY LiteralBegins, Zenon
<1> QED  BY <1>1, <1>2, <1>3, Beginning, LiteralBegins, Zenon

\* The whole numbers are those of digits only, behind the sign.
LEMMA WholeIs ==
    ASSUME NEW s \in Seq(Chars), IsNumber(s)
    PROVE  IsWhole(s) <=> LET u == IF s[1] = "-" THEN Tail(s) ELSE s
                          IN  \A i \in 1 .. Len(u) : u[i] \in Digit
<1> DEFINE u == IF s[1] = "-" THEN Tail(s) ELSE s
<1>1. s # << >> /\ Len(s) \in Nat /\ Len(s) > 0
  BY NumberBegins
<1>2. u \in Seq(Chars)
  BY <1>1
<1>3. ASSUME \A i \in 1 .. Len(u) : u[i] \in Digit  PROVE IsWhole(s)
  <2>1. CASE s[1] = "-"
    <3>1. u = Tail(s) /\ Len(u) = Len(s) - 1 /\ \A i \in 1 .. Len(s) - 1 : u[i] = s[i + 1]
      BY <1>1, <2>1
    <3>2. ASSUME NEW i \in 1 .. Len(s), i # 1  PROVE s[i] \in Digit
      <4>1. i - 1 \in 1 .. Len(u) /\ u[i - 1] = s[i]
        BY <3>1, <3>2, <1>1
      <4> QED  BY <4>1, <1>3
    <3> QED  BY <2>1, <3>2 DEF IsWhole
  <2>2. CASE s[1] # "-"
    <3>1. u = s
      BY <2>2, Zenon
    <3> QED  BY <1>3, <3>1 DEF IsWhole
  <2> QED  BY <2>1, <2>2
<1>4. ASSUME IsWhole(s)  PROVE \A i \in 1 .. Len(u) : u[i] \in Digit
  <2>1. \A k \in 1 .. Len(s) : s[k] \in Digit \union {"-"}
    BY <1>4 DEF IsWhole
  <2>2. \A k \in 1 .. Len(u) : u[k] \in Digit \union {"-"}
    <3>1. CASE s[1] = "-"
      <4>1. u = Tail(s) /\ Len(u) = Len(s) - 1 /\ \A k \in 1 .. Len(s) - 1 : u[k] = s[k + 1]
        BY <1>1, <3>1
      <4>2. \A k \in 1 .. Len(s) - 1 : k + 1 \in 1 .. Len(s)
        BY <1>1
      <4> HIDE DEF u
      <4> QED  BY <4>1, <4>2, <2>1
    <3>2. CASE s[1] # "-"
      <4>1. u = s
        BY <3>2, Zenon
      <4> QED  BY <2>1, <4>1
    <3> QED  BY <3>1, <3>2
  <2>3. PICK i \in 1 .. Len(u) : \E j \in i .. Len(u) :
            /\ IsInt(SubSeq(u, 1, i))
            /\ IsFrac(SubSeq(u, i + 1, j))
            /\ IsExp(SubSeq(u, j + 1, Len(u)))
    <3>1. u = IF s # << >> /\ s[1] = "-" THEN Tail(s) ELSE s
      BY <1>1, Zenon
    <3> HIDE DEF u
    <3> QED  BY <3>1, Zenon DEF IsNumber
  <2>4. PICK j \in i .. Len(u) : /\ IsInt(SubSeq(u, 1, i))
                                 /\ IsFrac(SubSeq(u, i + 1, j))
                                 /\ IsExp(SubSeq(u, j + 1, Len(u)))
    BY <2>3
  <2> HIDE DEF u
  <2>5. ASSUME NEW x \in 1 .. Len(u), NEW y \in 1 .. Len(u), x <= y
        PROVE  /\ SubSeq(u, x, y) # << >> /\ SubSeq(u, x, y)[1] \in Digit \union {"-"}
    <3>1. Len(SubSeq(u, x, y)) = y - x + 1 /\ SubSeq(u, x, y)[1] = u[x]
      BY <1>2, <2>5
    <3>2. Len(<< >>) = 0 /\ y - x + 1 # 0
      BY <2>5
    <3> QED  BY <3>1, <3>2, <2>2
  <2>6. i = j
    <3>1. SUFFICES ASSUME i < j  PROVE FALSE
      BY <1>2
    <3>2. i + 1 \in 1 .. Len(u) /\ j \in 1 .. Len(u) /\ i + 1 <= j
      BY <3>1, <1>2
    <3>3. SubSeq(u, i + 1, j) # << >> /\ SubSeq(u, i + 1, j)[1] \in Digit \union {"-"}
      BY <3>2, <2>5
    <3> QED  BY <3>3, <2>4, Beginning, Zenon DEF IsFrac
  <2>7. j = Len(u)
    <3>1. SUFFICES ASSUME j < Len(u)  PROVE FALSE
      BY <1>2
    <3>2. j + 1 \in 1 .. Len(u) /\ Len(u) \in 1 .. Len(u) /\ j + 1 <= Len(u)
      BY <3>1, <1>2
    <3>3. SubSeq(u, j + 1, Len(u)) # << >> /\ SubSeq(u, j + 1, Len(u))[1] \in Digit \union {"-"}
      BY <3>2, <2>5
    <3> QED  BY <3>3, <2>4, Beginning, Zenon DEF IsExp
  <2>8. AllDigits(u)
    <3>1. SubSeq(u, 1, i) = u
      BY <1>2, <2>6, <2>7
    <3> QED  BY <3>1, <2>4 DEF IsInt
  <2> QED  BY <2>8 DEF AllDigits
<1> QED  BY <1>3, <1>4

LEMMA Bounds == I32Max \in Nat /\ U32Max \in Nat /\ Word \in Nat
<1>1. {Word, I32Max, U32Max} \subseteq Nat
  BY FldAssumption, Zenon
<1> QED  BY <1>1

\* Fits and Means by the type and the kind of the value.
LEMMA FitsIs ==
    ASSUME NEW s, NEW typ
    PROVE  /\ typ \in StrTypes =>
                 (Fits(s, typ) <=> IF IsString(s) THEN HasEsc(s) => call.hasArena /\ IsText(Strip(s, 1, 1))
                                   ELSE s = Null /\ typ \in {"ostr", "obytes"})
           /\ typ \in {"i32", "oi32"} =>
                 (Fits(s, typ) <=> IsWhole(s) /\ Value(s) \in (-I32Max - 1) .. I32Max)
           /\ typ \in {"u32", "ou32"} =>
                 (Fits(s, typ) <=> IsWhole(s) /\ s[1] # "-" /\ Value(s) <= U32Max)
           /\ typ \in {"f64", "of64"} => (Fits(s, typ) <=> IsNumber(s) /\ s \notin Huge)
           /\ typ \in BoolTypes => (Fits(s, typ) <=> s \in {True, False})
           /\ typ \notin StrTypes \union NumTypes \union BoolTypes => (Fits(s, typ) <=> typ = "raw")
<1> DEFINE A == IF IsString(s) THEN HasEsc(s) => call.hasArena /\ IsText(Strip(s, 1, 1))
                ELSE s = Null /\ typ \in {"ostr", "obytes"}
           B == IsWhole(s) /\ Value(s) \in (-I32Max - 1) .. I32Max
           C == IsWhole(s) /\ s[1] # "-" /\ Value(s) <= U32Max
           D == IsNumber(s) /\ s \notin Huge
           E == s \in {True, False}
<1>1. Fits(s, typ) = CASE typ \in StrTypes -> A
                       [] typ \in {"i32", "oi32"} -> B
                       [] typ \in {"u32", "ou32"} -> C
                       [] typ \in {"f64", "of64"} -> D
                       [] typ \in BoolTypes -> E
                       [] OTHER -> typ = "raw"
  BY Zenon DEF Fits
<1> HIDE DEF A, B, C, D, E
<1>2. /\ typ \in StrTypes => Fits(s, typ) = A
      /\ typ \in {"i32", "oi32"} => Fits(s, typ) = B
      /\ typ \in {"u32", "ou32"} => Fits(s, typ) = C
      /\ typ \in {"f64", "of64"} => Fits(s, typ) = D
      /\ typ \in BoolTypes => Fits(s, typ) = E
      /\ typ \notin StrTypes \union NumTypes \union BoolTypes => Fits(s, typ) = (typ = "raw")
  BY <1>1 DEF StrTypes, NumTypes, BoolTypes
<1> QED  BY <1>2, Zenon DEF A, B, C, D, E

LEMMA MeansIs ==
    ASSUME NEW s \in Seq(Chars), NEW typ
    PROVE  /\ typ = "raw" => Means(s, typ) = s
           /\ typ # "raw" /\ IsString(s) => Means(s, typ) = CharsOf(Strip(s, 1, 1))
           /\ ~IsString(s) /\ typ \in {"i32", "oi32", "u32", "ou32"} => Means(s, typ) = <<ToString(Value(s))>>
           /\ typ \in {"f64", "of64"} /\ IsNumber(s) => Means(s, typ) = s
           /\ typ \notin {"raw", "i32", "oi32", "u32", "ou32"} =>
                 /\ s = True => Means(s, typ) = <<"True">>
                 /\ s = False => Means(s, typ) = <<"False">>
                 /\ s = Null => Means(s, typ) = << >>
<1> DEFINE T == CharsOf(Strip(s, 1, 1))
           N == <<ToString(Value(s))>>
           V == CASE s = True -> <<"True">>
                  [] s = False -> <<"False">>
                  [] s = Null -> << >>
                  [] OTHER -> s
           I == {"i32", "oi32", "u32", "ou32"}
<1>1. Means(s, typ) = IF typ = "raw" THEN s ELSE IF IsString(s) THEN T ELSE IF typ \in I THEN N ELSE V
  BY Zenon DEF Means
<1>2. /\ s = True => V = <<"True">>
      /\ s = False => V = <<"False">>
      /\ s = Null => V = << >>
      /\ s \notin {True, False, Null} => V = s
  <2>1. True # False /\ True # Null /\ False # Null
    BY KindsDiffer
  <2> QED  BY <2>1
<1> HIDE DEF T, N, V
<1>3. "raw" \notin I /\ "f64" \notin I \union {"raw"} /\ "of64" \notin I \union {"raw"}
  OBVIOUS
<1> HIDE DEF I
<1>4. IsNumber(s) => ~IsString(s) /\ s \notin {True, False, Null}
  BY KindsDiffer
<1>5. s \in {True, False, Null} => ~IsString(s)
  BY KindsDiffer
<1> QED  BY <1>1, <1>2, <1>3, <1>4, <1>5, Zenon DEF T, N, I

\* What storeNum makes of a number.
NumRead(raw, typ) ==
    IF typ \in {"i32", "oi32"} THEN ParseI32(raw)
    ELSE IF typ \in {"u32", "ou32"} THEN ParseU32(raw) ELSE ParseF64(raw)

LEMMA NumberRead ==
    ASSUME NEW s \in Seq(Chars), IsNumber(s), NEW typ \in NumTypes
    PROVE  /\ NumRead(s, typ).ok <=> Fits(s, typ)
           /\ NumRead(s, typ).ok => NumRead(s, typ).data = Means(s, typ)
<1> DEFINE minus == s[1] = "-"
           u == IF minus THEN Tail(s) ELSE s
           digits == \A i \in 1 .. Len(u) : u[i] \in Digit
           d(max) == ParseDigits(u, max)
<1>1. IsWhole(s) <=> digits
  BY WholeIs
<1>2. u \in Seq(Chars)
  BY NumberBegins
<1>3. PICK t \in Nat : t = Total(u)
  <2>1. 0 \in Nat
    OBVIOUS
  <2> HIDE DEF u
  <2> QED  BY <1>2, <2>1, DigitsRead
<1>4. Value(s) = IF minus THEN -t ELSE t
  BY <1>3 DEF Value
<1>5. \A max \in Nat : (d(max).ok <=> digits /\ t <= max) /\ (d(max).ok => d(max).data = t)
  <2> HIDE DEF u
  <2> QED  BY <1>2, <1>3, DigitsRead
<1>6. I32Max \in Nat /\ I32Max + 1 \in Nat /\ U32Max \in Nat
  BY Bounds
<1>7. ~IsString(s)
  BY KindsDiffer
<1>8. \A n : Number(n).ok /\ Number(n).data = <<ToString(n)>>
  BY DEF Number, Good
<1>9. ~Bad.ok
  BY DEF Bad
<1>10. CASE typ \in {"i32", "oi32"}
  <2>1. NumRead(s, typ) = ParseI32(s)
    BY <1>10, Zenon DEF NumRead
  <2>2. Fits(s, typ) <=> digits /\ Value(s) \in (-I32Max - 1) .. I32Max
    BY <1>1, <1>10, FitsIs, Zenon
  <2>3. Means(s, typ) = <<ToString(Value(s))>>
    BY <1>7, <1>10, MeansIs, Zenon
  <2>4. CASE minus
    <3>1. ParseI32(s) = IF d(I32Max + 1).ok THEN Number(-d(I32Max + 1).data) ELSE Bad
      BY <2>4, Zenon DEF ParseI32
    <3>2. Value(s) \in (-I32Max - 1) .. I32Max <=> t <= I32Max + 1
      BY <1>4, <1>6, <2>4
    <3>3. (d(I32Max + 1).ok <=> digits /\ t <= I32Max + 1) /\ (d(I32Max + 1).ok => d(I32Max + 1).data = t)
      BY <1>5, <1>6
    <3> HIDE DEF d, digits
    <3>4. CASE d(I32Max + 1).ok
      <4>1. ParseI32(s) = Number(Value(s))
        BY <3>1, <3>3, <3>4, <1>4, <2>4
      <4> QED  BY <4>1, <2>1, <2>2, <2>3, <3>2, <3>3, <3>4, <1>8
    <3>5. CASE ~d(I32Max + 1).ok
      BY <2>1, <2>2, <3>1, <3>2, <3>3, <3>5, <1>9
    <3> QED  BY <3>4, <3>5
  <2>5. CASE ~minus
    <3>1. ParseI32(s) = IF d(I32Max).ok THEN Number(d(I32Max).data) ELSE Bad
      BY <2>5, Zenon DEF ParseI32, Unsigned
    <3>2. Value(s) \in (-I32Max - 1) .. I32Max <=> t <= I32Max
      BY <1>4, <1>6, <2>5
    <3>3. (d(I32Max).ok <=> digits /\ t <= I32Max) /\ (d(I32Max).ok => d(I32Max).data = t)
      BY <1>5, <1>6
    <3> HIDE DEF d, digits
    <3>4. CASE d(I32Max).ok
      <4>1. ParseI32(s) = Number(Value(s))
        BY <3>1, <3>3, <3>4, <1>4, <2>5
      <4> QED  BY <4>1, <2>1, <2>2, <2>3, <3>2, <3>3, <3>4, <1>8
    <3>5. CASE ~d(I32Max).ok
      BY <2>1, <2>2, <3>1, <3>2, <3>3, <3>5, <1>9
    <3> QED  BY <3>4, <3>5
  <2> QED  BY <2>4, <2>5
<1>11. CASE typ \in {"u32", "ou32"}
  <2>1. NumRead(s, typ) = ParseU32(s)
    <3>1. typ \notin {"i32", "oi32"}
      BY <1>11
    <3> QED  BY <1>11, <3>1, Zenon DEF NumRead
  <2>2. Fits(s, typ) <=> digits /\ ~minus /\ Value(s) <= U32Max
    BY <1>1, <1>11, FitsIs, Zenon
  <2>3. Means(s, typ) = <<ToString(Value(s))>>
    BY <1>7, <1>11, MeansIs, Zenon
  <2>4. CASE minus
    <3>1. ParseU32(s) = Bad
      BY <2>4, Zenon DEF ParseU32
    <3> QED  BY <2>1, <2>2, <2>4, <3>1, <1>9
  <2>5. CASE ~minus
    <3>1. ParseU32(s) = IF d(U32Max).ok THEN Number(d(U32Max).data) ELSE Bad
      BY <2>5, Zenon DEF ParseU32, Unsigned
    <3>2. (d(U32Max).ok <=> digits /\ t <= U32Max) /\ (d(U32Max).ok => d(U32Max).data = t)
      BY <1>5, <1>6
    <3>3. Value(s) = t
      BY <1>4, <2>5
    <3> HIDE DEF d, digits
    <3>4. CASE d(U32Max).ok
      <4>1. ParseU32(s) = Number(Value(s))
        BY <3>1, <3>2, <3>3, <3>4
      <4> QED  BY <4>1, <2>1, <2>2, <2>3, <2>5, <3>2, <3>3, <3>4, <1>8
    <3>5. CASE ~d(U32Max).ok
      BY <2>1, <2>2, <3>1, <3>2, <3>3, <3>5, <1>9
    <3> QED  BY <3>4, <3>5
  <2> QED  BY <2>4, <2>5
<1>12. CASE typ \in {"f64", "of64"}
  <2>1. NumRead(s, typ) = ParseF64(s)
    <3>1. typ \notin {"i32", "oi32", "u32", "ou32"}
      BY <1>12
    <3> QED  BY <3>1, Zenon DEF NumRead
  <2>2. Fits(s, typ) <=> s \notin Huge
    BY <1>12, FitsIs, Zenon
  <2>3. Means(s, typ) = s
    BY <1>12, MeansIs, Zenon
  <2> QED  BY <2>1, <2>2, <2>3 DEF ParseF64, Good, Bad
<1> QED  BY <1>10, <1>11, <1>12 DEF NumTypes

-----------------------------------------------------------------------------
(* Where the values are in the text.                                       *)

Placed(t, o, v) ==
    /\ o \in Nat
    /\ \A a \in 1 .. Len(v) + 1, b \in 0 .. Len(v) : SubSeq(t, o + a, o + b) = SubSeq(v, a, b)

LEMMA Middle ==
    ASSUME NEW S, NEW p \in Seq(S), NEW v \in Seq(S), NEW r \in Seq(S)
    PROVE  Placed((p \o v) \o r, Len(p), v)
<1> DEFINE t == (p \o v) \o r
<1>1. PICK l \in Nat, m \in Nat, n \in Nat : l = Len(p) /\ m = Len(v) /\ n = Len(r)
  OBVIOUS
<1>2. p \o v \in Seq(S) /\ Len(p \o v) = l + m
  BY <1>1, ConcatProperties
<1>3. t \in Seq(S) /\ Len(t) = l + m + n
  <2>1. t \in Seq(S) /\ Len(t) = Len(p \o v) + Len(r)
    BY <1>2, ConcatProperties
  <2> HIDE DEF t
  <2> QED  BY <1>1, <1>2, <2>1
<1> SUFFICES ASSUME NEW a \in 1 .. m + 1, NEW b \in 0 .. m
             PROVE  SubSeq(t, l + a, l + b) = SubSeq(v, a, b)
  BY <1>1 DEF Placed
<1>4. CASE a > b
  <2>1. l + b < l + a /\ b < a /\ l + a \in Int /\ l + b \in Int /\ a \in Int /\ b \in Int
    BY <1>4
  <2> HIDE DEF t
  <2> QED  BY <2>1, SubSeqEmpty
<1>5. CASE a <= b
  <2>1. a \in 1 .. m /\ b \in 1 .. m /\ l + a \in 1 .. l + m /\ l + b \in 1 .. l + m
        /\ l + a \in l + 1 .. l + m /\ l + b \in l + 1 .. l + m
        /\ (l + a) - l = a /\ (l + b) - l = b
    BY <1>5
  <2>2. SubSeq(t, l + a, l + b) = SubSeq(p \o v, l + a, l + b)
    BY <1>2, <2>1, SubSeqOfConcat1
  <2>3. SubSeq(p \o v, l + a, l + b) = SubSeq(v, (l + a) - l, (l + b) - l)
    BY <1>1, <2>1, SubSeqOfConcat2
  <2> QED  BY <2>1, <2>2, <2>3
<1>6. a > b \/ a <= b
  BY <1>1
<1> HIDE DEF t
<1> QED  BY <1>4, <1>5, <1>6

LEMMA ItemPlaced ==
    ASSUME NEW doc \in Docs, NEW k \in 1 .. Len(doc.items)
    PROVE  Placed(Text(doc), ValueAt(doc, k), doc.items[k].val)
<1> DEFINE n == Len(doc.items)
           U == UpTo(doc)
           S == Seq(Chars)
           Extended(j) == \E r \in S : Text(doc) = U[j] \o r
           Not == {i \in 0 .. n : ~Extended(n - i)}
<1>1. doc.items \in Items0 /\ doc.open \in S /\ doc.close \in S
  BY DEF Docs
<1>2. n \in Nat /\ \A j \in 1 .. n : doc.items[j] \in [key : S, val : S]
  BY <1>1, SeqElement, Zenon DEF Items0
<1>3. /\ \A j \in 0 .. n : U[j] \in S
      /\ \A j \in 1 .. n : U[j] = U[j - 1] \o Sep(j) \o One(doc.items[j])
  BY UpToIs
<1>4. \A j \in 1 .. n : Sep(j) \in S /\ One(doc.items[j]) \in S
  <2>1. \A j : Sep(j) \in S
    BY Marks, Zenon DEF Sep
  <2> QED  BY <1>2, <2>1, OneIsText
<1> HIDE DEF n, U, S
<1>5. Extended(n)
  BY <1>1, Zenon DEF Text, n, U
<1>6. ASSUME NEW j \in 1 .. n, Extended(j)  PROVE Extended(j - 1)
  <2>1. PICK r \in S : Text(doc) = U[j] \o r
    BY <1>6
  <2> DEFINE a == U[j - 1]
             b == Sep(j)
             d == One(doc.items[j])
  <2>2. a \in S /\ b \in S /\ d \in S /\ U[j] = a \o b \o d
    <3>1. j - 1 \in 0 .. n
      BY <1>2
    <3> QED  BY <1>3, <1>4, <3>1
  <2> HIDE DEF a, b, d
  <2>3. a \o b \in S /\ b \o d \in S /\ (b \o d) \o r \in S
    BY <2>2, ConcatProperties DEF S
  <2>4. (a \o b) \o d = a \o (b \o d)
    BY <2>2, ConcatAssociative DEF S
  <2>5. (a \o (b \o d)) \o r = a \o ((b \o d) \o r)
    <3> DEFINE bd == b \o d
    <3>1. bd \in S
      BY <2>3
    <3> HIDE DEF bd
    <3>2. a \in Seq(Chars) /\ bd \in Seq(Chars) /\ r \in Seq(Chars)
      BY <2>2, <3>1 DEF S
    <3>3. (a \o bd) \o r = a \o (bd \o r)
      BY <3>2, ConcatAssociative
    <3> QED  BY <3>3 DEF bd
  <2>6. Text(doc) = a \o ((b \o d) \o r)
    BY <2>1, <2>2, <2>4, <2>5
  <2> QED  BY <2>3, <2>6 DEF a
<1>7. Not = {}
  <2>1. Not \in SUBSET Nat
    OBVIOUS
  <2>2. ASSUME NEW m \in Not, \A i \in Not : m <= i  PROVE FALSE
    <3> HIDE DEF Extended
    <3>1. m \in 0 .. n /\ ~Extended(n - m) /\ m # 0
      BY <1>2, <1>5, <2>2
    <3>2. m - 1 \in 0 .. n /\ ~(m <= m - 1) /\ n - (m - 1) \in 1 .. n /\ n - (m - 1) - 1 = n - m
      BY <1>2, <3>1
    <3>3. Extended(n - (m - 1))
      BY <2>2, <3>2
    <3> QED  BY <1>6, <3>1, <3>2, <3>3
  <2> HIDE DEF Not
  <2> QED  BY <2>1, <2>2, LeastNumber
<1>8. PICK r \in S : Text(doc) = U[k] \o r
  <2> HIDE DEF Extended
  <2>1. n - k \in 0 .. n /\ n - (n - k) = k
    BY <1>2 DEF n
  <2>2. Extended(k)
    BY <1>7, <2>1
  <2> QED  BY <2>2 DEF Extended
<1> DEFINE it == doc.items[k]
           key == IF it.key = << >> THEN << >> ELSE it.key \o <<":">>
           before == (U[k - 1] \o Sep(k)) \o key
<1>9. it.val \in S /\ key \in S
  <2>1. it.key \in S /\ it.val \in S
    BY <1>2 DEF n
  <2>2. it.key \o <<":">> \in S
    BY <2>1, Marks, ConcatProperties DEF S
  <2> HIDE DEF it
  <2> QED  BY <2>1, <2>2, Marks, Zenon DEF S
<1>10. U[k - 1] \in S /\ Sep(k) \in S /\ k \in 1 .. n
  <2>1. k \in 1 .. n /\ k - 1 \in 0 .. n
    BY <1>2 DEF n
  <2> QED  BY <1>3, <1>4, <2>1
<1>11. One(it) = key \o it.val
  BY Zenon DEF One
<1> HIDE DEF it, key
<1>12. U[k - 1] \o Sep(k) \in S /\ before \in S
  BY <1>9, <1>10, ConcatProperties DEF S
<1>13. U[k] = before \o it.val
  <2>1. U[k] = (U[k - 1] \o Sep(k)) \o (key \o it.val)
    BY <1>3, <1>10, <1>11 DEF it
  <2>2. ((U[k - 1] \o Sep(k)) \o key) \o it.val = (U[k - 1] \o Sep(k)) \o (key \o it.val)
    <3> DEFINE p == U[k - 1] \o Sep(k)
               v == it.val
    <3>1. p \in S /\ v \in S
      BY <1>9, <1>12
    <3> HIDE DEF p, v
    <3>2. (p \o key) \o v = p \o (key \o v)
      BY <1>9, <3>1, ConcatAssociative DEF S
    <3> QED  BY <3>2 DEF p, v
  <2> QED  BY <2>1, <2>2
<1> HIDE DEF before
<1>14. ValueAt(doc, k) = Len(before)
  <2>1. ValueAt(doc, k) = Len(U[k]) - Len(it.val)
    BY Zenon DEF ValueAt, U, it
  <2>2. Len(U[k]) = Len(before) + Len(it.val) /\ Len(before) \in Nat /\ Len(it.val) \in Nat
    BY <1>9, <1>12, <1>13, ConcatProperties DEF S
  <2> QED  BY <2>1, <2>2
<1>15. Placed((before \o it.val) \o r, Len(before), it.val)
  BY <1>9, <1>12, Middle DEF S
<1> QED  BY <1>8, <1>13, <1>14, <1>15 DEF it

-----------------------------------------------------------------------------
(* The first number of a set; levels.                                      *)

First(n, S, m) == m \in 0 .. n /\ (\A i \in 1 .. m : i \notin S) /\ (m < n => m + 1 \in S)

LEMMA FirstExists ==
    ASSUME NEW n \in Nat, NEW S
    PROVE  \E m \in 0 .. n : First(n, S, m)
<1> DEFINE T == {i \in 1 .. n : i \in S}
<1>1. CASE T = {}
  <2>1. n \in 0 .. n /\ ~(n < n)
    OBVIOUS
  <2> QED  BY <1>1, <2>1 DEF First
<1>2. CASE T # {}
  <2>1. T \in SUBSET Nat
    OBVIOUS
  <2>2. PICK m \in T : \A i \in T : m <= i
    <3> HIDE DEF T
    <3> QED  BY <1>2, <2>1, LeastNumber
  <2>3. m - 1 \in 0 .. n /\ (m - 1) + 1 = m /\ m \in S
    BY <2>2
  <2>4. ASSUME NEW i \in 1 .. m - 1, i \in S  PROVE FALSE
    <3>1. i \in T /\ ~(m <= i)
      BY <2>3, <2>4
    <3> QED  BY <3>1, <2>2
  <2> QED  BY <2>3, <2>4 DEF First
<1> QED  BY <1>1, <1>2

Rise(kind) == IF kind \in Composite THEN 1 ELSE IF kind \in {"OEnd", "AEnd"} THEN -1 ELSE 0

LEMMA AmongStep ==
    ASSUME NEW evs, NEW i \in Nat, NEW m \in Nat, i <= m + 1, NEW kinds
    PROVE  /\ Among(evs, i, m, kinds) \in Nat
           /\ i = m + 1 => Among(evs, i, m, kinds) = 0
           /\ Among(evs, i, m + 1, kinds) =
                  Among(evs, i, m, kinds) + IF evs[m + 1].kind \in kinds THEN 1 ELSE 0
<1> DEFINE A == {j \in i .. m : evs[j].kind \in kinds}
           B == {j \in i .. m + 1 : evs[j].kind \in kinds}
<1>1. IsFiniteSet(A)
  <2>1. IsFiniteSet(i .. m)
    BY FS_Interval
  <2>2. A \subseteq i .. m
    OBVIOUS
  <2> HIDE DEF A
  <2> QED  BY <2>1, <2>2, FS_Subset
<1>2. Cardinality(A) \in Nat
  <2> HIDE DEF A
  <2> QED  BY <1>1, FS_CardinalityType
<1>3. i = m + 1 => A = {}
  OBVIOUS
<1>4. Cardinality({}) = 0
  BY FS_EmptySet
<1>5. m + 1 \notin A /\ B = IF evs[m + 1].kind \in kinds THEN A \union {m + 1} ELSE A
  OBVIOUS
<1>6. Cardinality(B) = Cardinality(A) + IF evs[m + 1].kind \in kinds THEN 1 ELSE 0
  <2> HIDE DEF A, B
  <2>1. m + 1 \notin A => Cardinality(A \union {m + 1}) = Cardinality(A) + 1
    BY <1>1, FS_AddElement
  <2> QED  BY <1>2, <1>5, <2>1
<1> HIDE DEF A, B
<1>7. Among(evs, i, m, kinds) = Cardinality(A) /\ Among(evs, i, m + 1, kinds) = Cardinality(B)
  BY Zenon DEF Among, A, B
<1> QED  BY <1>2, <1>3, <1>4, <1>6, <1>7

LEMMA LevelStep ==
    ASSUME NEW evs, NEW i \in Nat, NEW m \in Nat, i <= m + 1
    PROVE  /\ Level(evs, i, m) \in Int
           /\ i = m + 1 => Level(evs, i, m) = 0
           /\ Level(evs, i, m + 1) = Level(evs, i, m) + Rise(evs[m + 1].kind)
<1> DEFINE a == Among(evs, i, m, Composite)
           b == Among(evs, i, m, {"OEnd", "AEnd"})
           c == Among(evs, i, m + 1, Composite)
           d == Among(evs, i, m + 1, {"OEnd", "AEnd"})
           x == evs[m + 1].kind
           Ends == {"OEnd", "AEnd"}
<1>1. a \in Nat /\ (i = m + 1 => a = 0) /\ c = a + IF x \in Composite THEN 1 ELSE 0
  BY AmongStep
<1>2. b \in Nat /\ (i = m + 1 => b = 0) /\ d = b + IF x \in {"OEnd", "AEnd"} THEN 1 ELSE 0
  <2> HIDE DEF Ends
  <2>1. /\ Among(evs, i, m, Ends) \in Nat
        /\ i = m + 1 => Among(evs, i, m, Ends) = 0
        /\ Among(evs, i, m + 1, Ends) = Among(evs, i, m, Ends) + IF x \in Ends THEN 1 ELSE 0
    BY AmongStep
  <2> QED  BY <2>1 DEF Ends
<1>3. Level(evs, i, m) = a - b /\ Level(evs, i, m + 1) = c - d
  BY Zenon DEF Level
<1> HIDE DEF a, b, c, d
<1>4. ~(x \in Composite /\ x \in {"OEnd", "AEnd"})
  BY DEF Composite
<1> HIDE DEF x
<1> QED  BY <1>1, <1>2, <1>3, <1>4 DEF Rise, x

-----------------------------------------------------------------------------
(* What a call is given.                                                   *)

Called == call \in Calls /\ feed = Feed(buf)

Evs == feed.evs
Good0 == Sound(Items)
LastAt == Lasts(Evs, call.doc)

LEMMA LenIs ==
    ASSUME NEW n \in Nat, NEW g, g = [i \in 1 .. n |-> g[i]]
    PROVE  g \in Seq({g[i] : i \in 1 .. n}) /\ Len(g) = n
<1> DEFINE T == {g[i] : i \in 1 .. n}
<1>1. g \in [1 .. n -> T]
  OBVIOUS
<1> HIDE DEF T
<1>2. g \in Seq(T)
  BY <1>1
<1>3. Len(g) \in Nat /\ DOMAIN g = 1 .. Len(g)
  BY <1>2
<1>4. 1 .. n = 1 .. Len(g)
  BY <1>1, <1>3
<1>5. PICK l \in Nat : l = Len(g)
  BY <1>3
<1>6. l = n
  <2>1. \A i \in Int : i \in 1 .. n <=> i \in 1 .. l
    BY <1>4, <1>5
  <2>2. n \in 1 .. n => n \in 1 .. l
    BY <2>1
  <2>3. l \in 1 .. l => l \in 1 .. n
    BY <2>1
  <2> QED  BY <2>2, <2>3
<1> QED  BY <1>2, <1>5, <1>6 DEF T

LEMMA CallIs ==
    ASSUME Called
    PROVE  /\ WellFed(call)
           /\ call.mode \in {"obj", "arrobj", "arrscalar"}
           /\ call.doc \in Docs
           /\ Items \in Items0 /\ Len(Items) \in Nat
           /\ \A k \in 1 .. Len(Items) : Items[k].key \in Seq(Chars) /\ Items[k].val \in Seq(Chars)
           /\ Len(call.def) \in Nat
           /\ \A i \in 1 .. Len(call.def) :
                 /\ call.def[i].key \in Seq(Chars) /\ call.def[i].typ \in Types
                 /\ call.def[i].req \in BOOLEAN /\ call.def[i].dst \in BOOLEAN
           /\ call.cap \in Nat /\ call.hasArena \in BOOLEAN /\ call.arena \in Seq(Chars)
<1> DEFINE Def0 == [key : Seq(Chars), typ : Types, req : BOOLEAN, dst : BOOLEAN]
<1>1. call \in CallTypes /\ WellFed(call)
  BY FldAssumption, Zenon DEF Called
<1>2. /\ call.mode \in {"obj", "arrobj", "arrscalar"} /\ call.doc \in Docs /\ call.def \in Seq(Def0)
      /\ call.cap \in Nat /\ call.hasArena \in BOOLEAN /\ call.arena \in Seq(Chars)
  BY <1>1 DEF CallTypes, Docs, Items0
<1>3. Items \in Items0
  BY <1>2 DEF Items, Docs
<1>4. Len(Items) \in Nat /\ \A k \in 1 .. Len(Items) : Items[k] \in [key : Seq(Chars), val : Seq(Chars)]
  BY <1>3, SeqElement, Zenon DEF Items0
<1>5. \A k \in 1 .. Len(Items) : Items[k].key \in Seq(Chars) /\ Items[k].val \in Seq(Chars)
  BY <1>4
<1>6. Len(call.def) \in Nat /\ \A i \in 1 .. Len(call.def) : call.def[i] \in Def0
  BY <1>2, SeqElement, Zenon
<1>7. \A i \in 1 .. Len(call.def) :
         /\ call.def[i].key \in Seq(Chars) /\ call.def[i].typ \in Types
         /\ call.def[i].req \in BOOLEAN /\ call.def[i].dst \in BOOLEAN
  BY <1>6
<1> QED  BY <1>1, <1>2, <1>3, <1>4, <1>5, <1>6, <1>7, Zenon

LEMMA FeedIs ==
    ASSUME Called
    PROVE  /\ Evs \in Seq(FeedEvents) /\ Len(Evs) \in Nat
           /\ \A p \in 1 .. Len(Evs) : Evs[p] \in FeedEvents
           /\ feed.err.cause \notin {"missing", "none"}
           /\ feed.err.cause = NoCause <=> feed.err = NoError
           /\ IF Evs = << >> THEN feed.err # NoError ELSE Evs[1].kind \in Beginnings
           /\ Rooted <=> Evs # << >> /\ Evs[1].kind = Root(call).beg
<1>1. WellFed(call) /\ feed = Feed(Text(call.doc))
  BY CallIs, Zenon DEF Called, buf
<1>2. /\ Evs \in Seq(FeedEvents)
      /\ feed.err.cause \notin {"missing", "none"}
      /\ feed.err.cause = NoCause <=> feed.err = NoError
      /\ IF Evs = << >> THEN feed.err # NoError ELSE Evs[1].kind \in Beginnings
      /\ call.doc.open = Root(call).open <=> Evs # << >> /\ Evs[1].kind = Root(call).beg
  BY <1>1, Zenon DEF WellFed, Evs
<1>3. Len(Evs) \in Nat /\ \A p \in 1 .. Len(Evs) : Evs[p] \in FeedEvents
  BY <1>2, SeqElement
<1>4. Rooted <=> call.doc.open = Root(call).open
  <2>1. CASE call.mode = "obj"
    BY <2>1 DEF Rooted, Root
  <2>2. CASE call.mode # "obj"
    BY <2>2 DEF Rooted, Root
  <2> QED  BY <2>1, <2>2
<1> QED  BY <1>2, <1>3, <1>4, Zenon

LEMMA RootedIs ==
    ASSUME Called, Rooted
    PROVE  /\ \A k \in 1 .. Len(Items) :
                 /\ call.mode = "obj" => IsString(Items[k].key)
                 /\ call.mode # "obj" => Items[k].key = << >>
           /\ ItemsFed(Evs, call.doc, LastAt, Good0)
           /\ RestFed(feed, call.doc, LastAt[Good0] + 1, Good0, Root(call))
<1>1. WellFed(call) /\ feed = Feed(Text(call.doc))
  BY CallIs, Zenon DEF Called, buf
<1>2. call.doc.open = Root(call).open
  <2>1. CASE call.mode = "obj"
    BY <2>1 DEF Rooted, Root
  <2>2. CASE call.mode # "obj"
    BY <2>2 DEF Rooted, Root
  <2> QED  BY <2>1, <2>2
<1>3. /\ \A k \in 1 .. Len(call.doc.items) :
            IF call.mode = "obj" THEN IsString(call.doc.items[k].key) ELSE call.doc.items[k].key = << >>
      /\ ItemsFed(Evs, call.doc, LastAt, Good0)
      /\ RestFed(feed, call.doc, LastAt[Good0] + 1, Good0, Root(call))
  BY <1>1, <1>2, Zenon DEF WellFed, Evs, LastAt, Good0, Items
<1> QED  BY <1>3, Zenon DEF Items

-----------------------------------------------------------------------------
(* The first item that is no value, the first that stops the call.         *)

LEMMA GoodIs ==
    ASSUME Called
    PROVE  First(Len(Items), {k \in 1 .. Len(Items) : ~IsValue(Items[k].val, MaxDep - 1)}, Good0)
<1> DEFINE n == Len(Items)
           S == {k \in 1 .. n : ~IsValue(Items[k].val, MaxDep - 1)}
           P(m) == /\ \A k \in 1 .. m : IsValue(Items[k].val, MaxDep - 1)
                   /\ m < n => ~IsValue(Items[m + 1].val, MaxDep - 1)
<1>1. n \in Nat
  BY CallIs
<1> HIDE DEF n
<1>2. \A m \in 0 .. n : First(n, S, m) <=> P(m)
  <2>1. SUFFICES ASSUME NEW m \in 0 .. n  PROVE First(n, S, m) <=> P(m)
    OBVIOUS
  <2>2. \A k \in 1 .. m : k \in 1 .. n
    BY <1>1
  <2>3. m < n => m + 1 \in 1 .. n
    BY <1>1
  <2> QED  BY <2>2, <2>3 DEF First
<1>3. \E m \in 0 .. n : P(m)
  <2> HIDE DEF S, P
  <2>1. \E m \in 0 .. n : First(n, S, m)
    BY <1>1, FirstExists
  <2> QED  BY <1>2, <2>1
<1>4. Good0 \in 0 .. n /\ P(Good0)
  <2>1. Good0 = CHOOSE m \in 0 .. n : P(m)
    BY Zenon DEF Good0, Sound, n
  <2> HIDE DEF P
  <2> QED  BY <1>3, <2>1, Zenon
<1> HIDE DEF P
<1> QED  BY <1>2, <1>4 DEF n

LEMMA BeforeIs ==
    ASSUME Called
    PROVE  /\ First(Len(Items), {k \in 1 .. Len(Items) : Stops(Items[k])}, Before(Items))
           /\ Before(Items) <= Good0
<1> DEFINE n == Len(Items)
           S == {k \in 1 .. n : Stops(Items[k])}
           P(m) == (\A k \in 1 .. m : ~Stops(Items[k])) /\ (m < n => Stops(Items[m + 1]))
           B == Before(Items)
<1>1. n \in Nat
  BY CallIs
<1> HIDE DEF n
<1>2. \A m \in 0 .. n : First(n, S, m) <=> P(m)
  <2>1. SUFFICES ASSUME NEW m \in 0 .. n  PROVE First(n, S, m) <=> P(m)
    OBVIOUS
  <2>2. \A k \in 1 .. m : k \in 1 .. n
    BY <1>1
  <2>3. m < n => m + 1 \in 1 .. n
    BY <1>1
  <2> QED  BY <2>2, <2>3 DEF First
<1>3. \E m \in 0 .. n : P(m)
  <2> HIDE DEF S, P
  <2>1. \E m \in 0 .. n : First(n, S, m)
    BY <1>1, FirstExists
  <2> QED  BY <1>2, <2>1
<1>4. B \in 0 .. n /\ P(B)
  <2>1. B = CHOOSE m \in 0 .. n : P(m)
    BY Zenon DEF Before, n
  <2> HIDE DEF P, B
  <2> QED  BY <1>3, <2>1, Zenon
<1>5. First(n, S, B)
  <2> HIDE DEF P, B, S
  <2> QED  BY <1>2, <1>4
<1>6. B <= Good0
  <2>1. PICK g : g = Good0
    OBVIOUS
  <2>2. g \in 0 .. n /\ (g < n => ~IsValue(Items[g + 1].val, MaxDep - 1))
    <3>1. First(n, {k \in 1 .. n : ~IsValue(Items[k].val, MaxDep - 1)}, g)
      BY <2>1, GoodIs DEF n
    <3> QED  BY <3>1 DEF First
  <2>3. g < n => Stops(Items[g + 1])
    BY <2>2, Zenon DEF Stops
  <2>4. PICK b : b = B
    OBVIOUS
  <2>5. b \in 0 .. n /\ \A k \in 1 .. b : ~Stops(Items[k])
    BY <1>4, <2>4
  <2>6. ~(g < b)
    <3>1. SUFFICES ASSUME g < b  PROVE FALSE
      OBVIOUS
    <3>2. g + 1 \in 1 .. b /\ g < n
      BY <1>1, <2>2, <2>5, <3>1
    <3> QED  BY <2>3, <2>5, <3>2
  <2>7. b <= g
    BY <1>1, <2>2, <2>5, <2>6
  <2> QED  BY <2>1, <2>4, <2>7
<1> QED  BY <1>5, <1>6 DEF n

LEMMA LeastOf ==
    ASSUME NEW S \in SUBSET Nat, S # {}
    PROVE  LET m == CHOOSE i \in S : \A k \in S : i <= k
           IN  m \in S /\ \A k \in S : m <= k
BY LeastNumber, Zenon

LEMMA FieldOfIs ==
    ASSUME Called, NEW it, IsString(it.key), it.key \in Seq(Chars)
    PROVE  /\ FieldOf(it) = Find(Strip(it.key, 1, 1))
           /\ FieldOf(it) \in 0 .. Len(call.def)
<1> DEFINE key == Strip(it.key, 1, 1)
           A == {i \in 1 .. Len(call.def) : IsText(key) /\ CharsOf(key) = call.def[i].key}
           B == {i \in 1 .. Len(call.def) : KeyEq(key, call.def[i].key)}
<1>1. key \in Seq(Chars) /\ IsUnits(key)
  <2>1. IsUnits(key) /\ Len(it.key) > 1
    BY Zenon DEF IsString
  <2>2. Len(it.key) \in Nat
    OBVIOUS
  <2>3. SubSeq(it.key, 2, Len(it.key) - 1) \in Seq(Chars)
    BY <2>1, <2>2, SubSeqProperties
  <2> QED  BY <2>1, <2>3 DEF Strip
<1>2. A = B
  <2> HIDE DEF key
  <2> QED  BY <1>1, KeyMatches
<1>3. FieldOf(it) = IF A = {} THEN 0 ELSE CHOOSE i \in A : \A k \in A : i <= k
  BY Zenon DEF FieldOf
<1>4. Find(key) = IF B = {} THEN 0 ELSE CHOOSE i \in B : \A k \in B : i <= k
  BY Zenon DEF Find
<1>5. Len(call.def) \in Nat
  BY CallIs
<1>6. A \in SUBSET Nat /\ A \subseteq 1 .. Len(call.def)
  BY <1>5
<1> HIDE DEF A, B, key
<1>7. A # {} => (CHOOSE i \in A : \A k \in A : i <= k) \in A
  BY <1>6, LeastOf
<1>8. FieldOf(it) = Find(key)
  BY <1>2, <1>3, <1>4
<1>9. FieldOf(it) \in 0 .. Len(call.def)
  <2> DEFINE m == CHOOSE i \in A : \A k \in A : i <= k
  <2>1. FieldOf(it) = 0 \/ FieldOf(it) \in A
    <3> HIDE DEF m
    <3> QED  BY <1>3, <1>7, Zenon DEF m
  <2>2. PICK x : x = FieldOf(it)
    OBVIOUS
  <2>3. PICK l \in Nat : l = Len(call.def)
    BY <1>5
  <2>4. x = 0 \/ x \in 1 .. l
    BY <1>6, <2>1, <2>2, <2>3
  <2>5. x \in 0 .. l
    BY <2>4
  <2> QED  BY <2>2, <2>3, <2>5
<1> QED  BY <1>8, <1>9 DEF key

-----------------------------------------------------------------------------
(* The events of an item.                                                  *)

KeyAt(k) == LastAt[k - 1] + 1
ValAt(k) == KeyAt(k) + KeyEvents(Items[k].key)

LEMMA RestIs ==
    ASSUME NEW e, NEW doc, NEW i, NEW n, NEW end, RestFed(e, doc, i, n, end)
    PROVE  /\ n < Len(doc.items) =>
                 /\ e.err # NoError
                 /\ KeyFed(e.evs, i, doc.items[n + 1].key)
                 /\ Breaks(e.evs, i + KeyEvents(doc.items[n + 1].key))
           /\ ~(n < Len(doc.items)) =>
                 \/ Len(e.evs) = i - 1 /\ e.err # NoError /\ doc.close # end.close
                 \/ /\ Len(e.evs) = i /\ e.evs[i].kind = end.kind
                    /\ e.err = NoError <=> doc.close = end.close
BY DEF RestFed

LEMMA ItemEvents ==
    ASSUME Called, Rooted
    PROVE  /\ Good0 \in 0 .. Len(Items)
           /\ LastAt[0] = 1 /\ \A k \in 0 .. Good0 : LastAt[k] \in 1 .. Len(Evs)
           /\ \A k \in 1 .. Good0 :
                 /\ KeyFed(Evs, KeyAt(k), Items[k].key)
                 /\ ValueFed(Evs, ValAt(k), LastAt[k], Items[k].val, ValueAt(call.doc, k))
                 /\ IsValue(Items[k].val, MaxDep - 1)
           /\ Good0 < Len(Items) =>
                 /\ feed.err # NoError /\ ~IsValue(Items[Good0 + 1].val, MaxDep - 1)
                 /\ KeyFed(Evs, KeyAt(Good0 + 1), Items[Good0 + 1].key)
                 /\ Breaks(Evs, ValAt(Good0 + 1))
           /\ Good0 = Len(Items) =>
                 \/ Len(Evs) = LastAt[Good0] /\ feed.err # NoError /\ ~Whole
                 \/ /\ Len(Evs) = LastAt[Good0] + 1 /\ Evs[LastAt[Good0] + 1].kind = Root(call).kind
                    /\ feed.err = NoError <=> Whole
<1>1. PICK n : n = Good0
  OBVIOUS
<1>2. Len(Items) \in Nat
  BY CallIs
<1>3. /\ n \in 0 .. Len(Items) /\ \A k \in 1 .. n : IsValue(Items[k].val, MaxDep - 1)
      /\ n < Len(Items) => ~IsValue(Items[n + 1].val, MaxDep - 1)
  <2>1. First(Len(Items), {k \in 1 .. Len(Items) : ~IsValue(Items[k].val, MaxDep - 1)}, n)
    BY <1>1, GoodIs
  <2>2. n \in 0 .. Len(Items)
    BY <2>1 DEF First
  <2>3. \A k \in 1 .. n : k \in 1 .. Len(Items)
    BY <1>2, <2>2
  <2> QED  BY <2>1, <2>2, <2>3 DEF First
<1>4. ItemsFed(Evs, call.doc, LastAt, n) /\ RestFed(feed, call.doc, LastAt[n] + 1, n, Root(call))
  BY <1>1, RootedIs
<1>5. LastAt \in [0 .. n -> 1 .. Len(Evs)] /\ LastAt[0] = 1
  BY <1>4, Zenon DEF ItemsFed
<1>6. \A k \in 0 .. n : LastAt[k] \in 1 .. Len(Evs)
  BY <1>5
<1>7. \A k \in 1 .. n :
         /\ KeyFed(Evs, KeyAt(k), Items[k].key)
         /\ ValueFed(Evs, ValAt(k), LastAt[k], Items[k].val, ValueAt(call.doc, k))
  BY <1>4, Zenon DEF ItemsFed, KeyAt, ValAt, Items
<1>8. (n + 1) - 1 = n
  BY <1>2, <1>3
<1>9. ASSUME n < Len(Items)
      PROVE  /\ feed.err # NoError
             /\ KeyFed(Evs, KeyAt(n + 1), Items[n + 1].key)
             /\ Breaks(Evs, ValAt(n + 1))
  <2>1. /\ feed.err # NoError
        /\ KeyFed(feed.evs, LastAt[n] + 1, call.doc.items[n + 1].key)
        /\ Breaks(feed.evs, LastAt[n] + 1 + KeyEvents(call.doc.items[n + 1].key))
    BY <1>4, <1>9, RestIs, Zenon DEF Items
  <2>2. KeyAt(n + 1) = LastAt[n] + 1
    <3>1. KeyAt(n + 1) = LastAt[(n + 1) - 1] + 1
      BY Zenon DEF KeyAt
    <3> QED  BY <1>8, <3>1, Zenon
  <2>3. ValAt(n + 1) = LastAt[n] + 1 + KeyEvents(Items[n + 1].key)
    BY <2>2, Zenon DEF ValAt
  <2> HIDE DEF LastAt
  <2> QED  BY <2>1, <2>2, <2>3 DEF Evs, Items
<1>10. ASSUME n = Len(Items)
       PROVE  \/ Len(Evs) = LastAt[n] /\ feed.err # NoError /\ ~Whole
              \/ /\ Len(Evs) = LastAt[n] + 1 /\ Evs[LastAt[n] + 1].kind = Root(call).kind
                 /\ feed.err = NoError <=> Whole
  <2>1. Whole <=> call.doc.close = Root(call).close
    <3>1. CASE call.mode = "obj"
      BY <3>1 DEF Whole, Root
    <3>2. CASE call.mode # "obj"
      BY <3>2 DEF Whole, Root
    <3> QED  BY <3>1, <3>2
  <2>2. ~(n < Len(Items))
    BY <1>2, <1>10
  <2>3. \/ Len(Evs) = (LastAt[n] + 1) - 1 /\ feed.err # NoError /\ call.doc.close # Root(call).close
        \/ /\ Len(Evs) = LastAt[n] + 1 /\ Evs[LastAt[n] + 1].kind = Root(call).kind
           /\ feed.err = NoError <=> call.doc.close = Root(call).close
    <3> DEFINE i == LastAt[n] + 1
               R == Root(call)
    <3>1. RestFed(feed, call.doc, i, n, R) /\ ~(n < Len(call.doc.items))
      BY <1>4, <2>2 DEF Items
    <3> HIDE DEF i, R
    <3>2. \/ Len(feed.evs) = i - 1 /\ feed.err # NoError /\ call.doc.close # R.close
          \/ /\ Len(feed.evs) = i /\ feed.evs[i].kind = R.kind
             /\ feed.err = NoError <=> call.doc.close = R.close
      BY <3>1, RestIs
    <3>3. \/ Len(Evs) = i - 1 /\ feed.err # NoError /\ call.doc.close # R.close
          \/ /\ Len(Evs) = i /\ Evs[i].kind = R.kind
             /\ feed.err = NoError <=> call.doc.close = R.close
      BY <3>2, Zenon DEF Evs
    <3> QED  BY <3>3, Zenon DEF i, R
  <2>4. (LastAt[n] + 1) - 1 = LastAt[n]
    <3>1. n \in 0 .. n
      BY <1>2, <1>10
    <3>2. PICK x : x = LastAt[n]
      OBVIOUS
    <3>3. x \in Int
      BY <1>6, <3>1, <3>2
    <3> QED  BY <3>2, <3>3
  <2> QED  BY <2>1, <2>3, <2>4, Zenon
<1> QED  BY <1>1, <1>3, <1>5, <1>6, <1>7, <1>9, <1>10, Zenon

LEMMA KeyEvent ==
    ASSUME NEW evs, NEW i \in Nat, NEW key \in Seq(Chars), IsString(key), KeyFed(evs, i, key)
    PROVE  /\ KeyEvents(key) \in {2, 3} /\ i + KeyEvents(key) <= Len(evs) + 1
           /\ evs[i].kind = "KBeg"
           /\ KeyEvents(key) = 2 => Strip(key, 1, 1) = << >> /\ evs[i + 1].kind = "KEnd"
           /\ KeyEvents(key) = 3 => /\ evs[i + 1].kind = "KPar" /\ evs[i + 1].data = Strip(key, 1, 1)
                                    /\ evs[i + 2].kind = "KEnd"
<1>1. Len(key) > 1
  BY Zenon DEF IsString
<1>2. Len(key) \in Nat /\ key # << >>
  BY <1>1
<1>3. KeyEvents(key) = IF Len(key) = 2 THEN 2 ELSE 3
  BY <1>2 DEF KeyEvents
<1>4. PICK n : n = KeyEvents(key)
  OBVIOUS
<1>5. n \in {2, 3} /\ (n = 2 <=> Len(key) = 2)
  BY <1>3, <1>4
<1>6. i + n <= Len(evs) + 1 /\ Token(evs, i, i + n - 1, <<"KBeg", "KPar", "KEnd">>, Strip(key, 1, 1))
  BY <1>2, <1>4, Zenon DEF KeyFed
<1> DEFINE data == Strip(key, 1, 1)
<1>7. Len(key) = 2 <=> data = << >>
  <2>1. data = SubSeq(key, 2, Len(key) - 1)
    BY DEF Strip
  <2>2. data \in Seq(Chars) /\ Len(data) = Len(key) - 2
    <3>1. PICK l \in Nat : l = Len(key) /\ l > 1
      BY <1>1, <1>2
    <3>2. data = SubSeq(key, 2, l - 1) /\ 2 \in 1 .. l + 1 /\ l - 1 \in 1 .. l /\ l - 1 - 2 + 1 = l - 2
          /\ 2 <= l - 1 + 1
      BY <2>1, <3>1
    <3> HIDE DEF data
    <3>3. data \in Seq(Chars) /\ Len(data) = IF 2 <= l - 1 THEN l - 1 - 2 + 1 ELSE 0
      BY <3>1, <3>2, SubSeqProperties
    <3> QED  BY <3>1, <3>3
  <2> HIDE DEF data
  <2>3. data = << >> <=> Len(data) = 0
    BY <2>2, EmptySeq
  <2> QED  BY <1>2, <2>2, <2>3
<1> HIDE DEF data
<1>8. /\ evs[i].kind = "KBeg" /\ evs[i + n - 1].kind = "KEnd"
      /\ data # << >> => evs[i + 1].kind = "KPar" /\ evs[i + 1].data = data
  BY <1>6 DEF Token, data
<1>9. n = 2 => i + n - 1 = i + 1
  OBVIOUS
<1>10. n = 3 => i + n - 1 = i + 2
  OBVIOUS
<1>11. n = 2 => data = << >> /\ evs[i + 1].kind = "KEnd"
  BY <1>5, <1>7, <1>8, <1>9
<1>12. n = 3 => evs[i + 1].kind = "KPar" /\ evs[i + 1].data = data /\ evs[i + 2].kind = "KEnd"
  BY <1>5, <1>7, <1>8, <1>10
<1> QED  BY <1>4, <1>5, <1>6, <1>8, <1>11, <1>12, Zenon DEF data

\* Event p is behind the first of a value that begins at v, and the value is not
\* over; it is the value's last.
Begun(evs, v, p) ==
    /\ v < p
    /\ \/ evs[v].kind = "SBeg" /\ (p = v + 1 \/ (p = v + 2 /\ evs[v + 1].kind = "SPar"))
       \/ evs[v].kind = "NBeg" /\ (p = v + 1 \/ (p = v + 2 /\ evs[v + 1].kind = "NPar"))
       \/ evs[v].kind \in Composite /\ Level(evs, v, p - 1) > 0
Ends(evs, v, p) ==
    CASE evs[v].kind = "SBeg" -> evs[p].kind = "SEnd"
      [] evs[v].kind = "NBeg" -> evs[p].kind = "NEnd"
      [] OTHER -> evs[p].kind \in {"OEnd", "AEnd"} /\ Level(evs, v, p - 1) = 1

\* What may come at p instead.
Goes(evs, v, p) ==
    /\ ~Ends(evs, v, p) /\ Begun(evs, v, p + 1)
    /\ evs[v].kind = "SBeg" => p = v + 1 /\ evs[p].kind = "SPar"
    /\ evs[v].kind = "NBeg" => p = v + 1 /\ evs[p].kind = "NPar"

LEMMA LevelFirst ==
    ASSUME NEW evs, NEW v \in Nat, evs[v].kind \in Composite
    PROVE  Level(evs, v, v) = 1
<1>1. {j \in v .. v : evs[j].kind \in Composite} = {v}
  OBVIOUS
<1>2. {j \in v .. v : evs[j].kind \in {"OEnd", "AEnd"}} = {}
  BY DEF Composite
<1>3. Cardinality({v}) = 1 /\ Cardinality({}) = 0
  BY FS_EmptySet, FS_Singleton
<1>4. Among(evs, v, v, Composite) = 1 /\ Among(evs, v, v, {"OEnd", "AEnd"}) = 0
  BY <1>1, <1>2, <1>3, Zenon DEF Among
<1> QED  BY <1>4 DEF Level

LEMMA BeginsBegun ==
    ASSUME NEW evs, NEW v \in Nat, evs[v].kind \in {"SBeg", "NBeg"} \union Composite
    PROVE  Begun(evs, v, v + 1)
<1>1. CASE evs[v].kind \in Composite
  <2>1. (v + 1) - 1 = v /\ v < v + 1
    OBVIOUS
  <2>2. Level(evs, v, v) > 0
    BY <1>1, LevelFirst
  <2> QED  BY <1>1, <2>1, <2>2 DEF Begun
<1>2. CASE evs[v].kind \in {"SBeg", "NBeg"}
  BY <1>2 DEF Begun
<1> QED  BY <1>1, <1>2

\* The step from p to p + 1 inside an object or array.
LEMMA LevelGoes ==
    ASSUME NEW evs, NEW v \in Nat, NEW p \in Nat, Begun(evs, v, p), evs[v].kind \in Composite,
           Level(evs, v, p) > 0
    PROVE  Goes(evs, v, p)
<1>1. p - 1 \in Nat /\ v <= p - 1 + 1 /\ p - 1 + 1 = p /\ p + 1 - 1 = p /\ v < p + 1
  BY DEF Begun
<1>2. Level(evs, v, p - 1) \in Int /\ Level(evs, v, p) = Level(evs, v, p - 1) + Rise(evs[p].kind)
  BY <1>1, LevelStep
<1>3. evs[v].kind \notin {"SBeg", "NBeg"}
  BY DEF Composite
<1>4. Begun(evs, v, p + 1)
  BY <1>1 DEF Begun
<1>5. ~Ends(evs, v, p)
  <2>1. SUFFICES ASSUME Ends(evs, v, p)  PROVE FALSE
    OBVIOUS
  <2>2. evs[p].kind \in {"OEnd", "AEnd"} /\ Level(evs, v, p - 1) = 1
    BY <1>3, <2>1, Zenon DEF Ends
  <2>3. Rise(evs[p].kind) = -1
    BY <2>2 DEF Rise, Composite
  <2> QED  BY <1>2, <2>2, <2>3
<1> QED  BY <1>3, <1>4, <1>5, Zenon DEF Goes

\* The events of a good value.
ValueIs(evs, v, j, s, off) ==
    /\ v \in Nat /\ j \in Nat /\ v <= j /\ s \in Seq(Chars)
    /\ IsValue(s, MaxDep - 1) /\ ValueFed(evs, v, j, s, off)

LEMMA ValueBegins ==
    ASSUME NEW evs, NEW v, NEW j, NEW s, NEW off, ValueIs(evs, v, j, s, off)
    PROVE  /\ evs[v].loc.off = off
           /\ s \notin {True, False, Null} => evs[j].loc.off = off + Len(s) - 1
           /\ \/ /\ IsString(s) /\ evs[v].kind = "SBeg" /\ evs[j].kind = "SEnd"
                 /\ \/ j = v + 1 /\ Strip(s, 1, 1) = << >>
                    \/ /\ j = v + 2 /\ Strip(s, 1, 1) # << >>
                       /\ evs[v + 1].kind = "SPar" /\ evs[v + 1].data = Strip(s, 1, 1)
              \/ /\ IsNumber(s) /\ evs[v].kind = "NBeg" /\ evs[j].kind = "NEnd" /\ j = v + 2
                 /\ evs[v + 1].kind = "NPar" /\ evs[v + 1].data = s
              \/ /\ s \in {True, False, Null} /\ j = v
                 /\ s = True => evs[v].kind = "True"
                 /\ s = False => evs[v].kind = "False"
                 /\ s = Null => evs[v].kind = "Null"
              \/ /\ ~IsString(s) /\ ~IsNumber(s) /\ s \notin {True, False, Null}
                 /\ \/ s[1] = "{" /\ evs[v].kind = "OBeg" /\ evs[j].kind = "OEnd"
                    \/ s[1] = "[" /\ evs[v].kind = "ABeg" /\ evs[j].kind = "AEnd"
                 /\ Level(evs, v, j) = 0 /\ \A m \in v .. j - 1 : Level(evs, v, m) > 0
<1>1. /\ v \in Nat /\ j \in Nat /\ v <= j /\ s \in Seq(Chars) /\ evs[v].loc.off = off
      /\ s \notin {True, False, Null} => evs[j].loc.off = off + Len(s) - 1
  BY DEF ValueIs, ValueFed
<1>2. /\ IsString(s) => ~IsNumber(s) /\ s \notin {True, False, Null}
      /\ IsNumber(s) => s \notin {True, False, Null}
      /\ True # False /\ True # Null /\ False # Null
  BY <1>1, KindsDiffer
<1>3. CASE IsString(s)
  <2>1. Token(evs, v, j, <<"SBeg", "SPar", "SEnd">>, Strip(s, 1, 1))
    BY <1>3, Zenon DEF ValueIs, ValueFed
  <2> DEFINE data == Strip(s, 1, 1)
  <2> HIDE DEF data
  <2>2. /\ evs[v].kind = "SBeg" /\ evs[j].kind = "SEnd"
        /\ IF data = << >> THEN j = v + 1
           ELSE j = v + 2 /\ evs[v + 1].kind = "SPar" /\ evs[v + 1].data = data
    BY <2>1 DEF Token, data
  <2> QED  BY <1>1, <1>3, <2>2, Zenon DEF data
<1>4. CASE IsNumber(s)
  <2>1. Token(evs, v, j, <<"NBeg", "NPar", "NEnd">>, s)
    BY <1>2, <1>4, Zenon DEF ValueIs, ValueFed
  <2>2. s # << >>
    BY <1>1, <1>4, NumberBegins
  <2>3. /\ evs[v].kind = "NBeg" /\ evs[j].kind = "NEnd"
        /\ j = v + 2 /\ evs[v + 1].kind = "NPar" /\ evs[v + 1].data = s
    BY <2>1, <2>2 DEF Token
  <2> QED  BY <1>1, <1>4, <2>3, Zenon
<1>5. CASE s \in {True, False, Null}
  <2>1. v = j /\ <<s, evs[v].kind>> \in {<<True, "True">>, <<False, "False">>, <<Null, "Null">>}
    BY <1>2, <1>5, Zenon DEF ValueIs, ValueFed
  <2> QED  BY <1>1, <1>2, <1>5, <2>1
<1>6. CASE ~IsString(s) /\ ~IsNumber(s) /\ s \notin {True, False, Null}
  <2>1. /\ <<s[1], evs[v].kind, evs[j].kind>> \in {<<"{", "OBeg", "OEnd">>, <<"[", "ABeg", "AEnd">>}
        /\ Level(evs, v, j) = 0 /\ \A m \in v .. j - 1 : Level(evs, v, m) > 0
    BY <1>6, Zenon DEF ValueIs, ValueFed
  <2>2. \/ s[1] = "{" /\ evs[v].kind = "OBeg" /\ evs[j].kind = "OEnd"
        \/ s[1] = "[" /\ evs[v].kind = "ABeg" /\ evs[j].kind = "AEnd"
    BY <2>1
  <2> QED  BY <1>1, <1>6, <2>1, <2>2
<1> QED  BY <1>3, <1>4, <1>5, <1>6

\* Behind its first event, a good value goes on until its last, which ends it.
LEMMA Within ==
    ASSUME NEW evs, NEW v, NEW j, NEW s, NEW off, ValueIs(evs, v, j, s, off),
           NEW p \in Nat, Begun(evs, v, p), p <= j
    PROVE  /\ p < j => Goes(evs, v, p)
           /\ p = j => Ends(evs, v, p)
<1>1. /\ v \in Nat /\ j \in Nat /\ v <= j /\ v < p
  BY DEF ValueIs, Begun
<1>2. CASE evs[v].kind = "SBeg"
  <2>1. /\ evs[j].kind = "SEnd"
        /\ j = v + 1 \/ (j = v + 2 /\ evs[v + 1].kind = "SPar")
    BY <1>2, ValueBegins
  <2>2. p < j => p = v + 1 /\ j = v + 2 /\ evs[p].kind = "SPar"
    BY <1>1, <2>1
  <2>3. p < j => Goes(evs, v, p)
    BY <1>1, <1>2, <2>2 DEF Goes, Begun, Ends
  <2>4. p = j => Ends(evs, v, p)
    BY <1>2, <2>1, Zenon DEF Ends
  <2> QED  BY <2>3, <2>4
<1>3. CASE evs[v].kind = "NBeg"
  <2>1. evs[j].kind = "NEnd" /\ j = v + 2 /\ evs[v + 1].kind = "NPar"
    BY <1>3, ValueBegins
  <2>2. p < j => p = v + 1 /\ j = v + 2 /\ evs[p].kind = "NPar"
    BY <1>1, <2>1
  <2>3. p < j => Goes(evs, v, p)
    BY <1>1, <1>3, <2>2 DEF Goes, Begun, Ends
  <2>4. p = j => Ends(evs, v, p)
    BY <1>3, <2>1 DEF Ends
  <2> QED  BY <2>3, <2>4
<1>4. CASE evs[v].kind \in Composite
  <2>1. /\ evs[v].kind # "SBeg" /\ evs[v].kind # "NBeg"
        /\ evs[v].kind \notin {"True", "False", "Null"}
    BY <1>4 DEF Composite
  <2>2. /\ evs[j].kind \in {"OEnd", "AEnd"}
        /\ Level(evs, v, j) = 0 /\ \A m \in v .. j - 1 : Level(evs, v, m) > 0
    BY <2>1, ValueBegins
  <2>3. p < j => Level(evs, v, p) > 0
    BY <1>1, <2>2
  <2>4. p < j => Goes(evs, v, p)
    BY <1>1, <1>4, <2>3, LevelGoes
  <2>5. ASSUME p = j  PROVE Ends(evs, v, p)
    <3>1. p - 1 \in Nat /\ v <= (p - 1) + 1 /\ (p - 1) + 1 = p
      BY <1>1
    <3>2. Level(evs, v, p - 1) \in Int /\ Level(evs, v, p) = Level(evs, v, p - 1) + Rise(evs[p].kind)
      BY <1>1, <3>1, LevelStep
    <3>3. Rise(evs[p].kind) = -1
      BY <2>2, <2>5 DEF Rise, Composite
    <3>4. Level(evs, v, p - 1) = 1
      BY <2>2, <2>5, <3>2, <3>3
    <3> QED  BY <2>1, <2>2, <2>5, <3>4, Zenon DEF Ends
  <2> QED  BY <2>4, <2>5
<1> QED  BY <1>2, <1>3, <1>4 DEF Begun

\* A value that is broken off goes on to the last of the events.
LEMMA BrokenOff ==
    ASSUME NEW evs, NEW v \in Nat, Breaks(evs, v), Len(evs) \in Nat,
           NEW p \in Nat, Begun(evs, v, p), p <= Len(evs)
    PROVE  Goes(evs, v, p)
<1>1. PICK l \in Nat : l = Len(evs)
  OBVIOUS
<1>2. v < p /\ v < l
  BY <1>1 DEF Begun
<1>3. \/ /\ <<evs[v].kind, evs[l].kind>> \in {<<"SBeg", "SPar">>, <<"NBeg", "NPar">>}
         /\ l = v + 1
      \/ evs[v].kind \in {"SBeg", "NBeg"} /\ l = v
      \/ evs[v].kind \in Composite /\ \A m \in v .. l : Level(evs, v, m) > 0
  BY <1>1, <1>2 DEF Breaks
<1>4. CASE evs[v].kind \in Composite
  <2>1. Level(evs, v, p) > 0
    BY <1>1, <1>2, <1>3, <1>4 DEF Composite
  <2> QED  BY <1>4, <2>1, LevelGoes
<1>5. CASE evs[v].kind \notin Composite
  <2>1. l = v + 1 /\ p = v + 1
    BY <1>1, <1>2, <1>3, <1>5
  <2>2. \/ evs[v].kind = "SBeg" /\ evs[p].kind = "SPar"
        \/ evs[v].kind = "NBeg" /\ evs[p].kind = "NPar"
    BY <1>2, <1>3, <1>5, <2>1
  <2> QED  BY <2>1, <2>2 DEF Goes, Begun, Ends
<1> QED  BY <1>4, <1>5

LEMMA BreaksBegins ==
    ASSUME NEW evs, NEW v \in Nat, Breaks(evs, v), Len(evs) \in Nat, v <= Len(evs)
    PROVE  evs[v].kind \in {"SBeg", "NBeg"} \union Composite
BY DEF Breaks

-----------------------------------------------------------------------------
(* The steps of FldObj, by the kind of the event.                          *)

StFields == {"root", "dep", "cap", "keyRaw", "expectVal", "cur", "strRaw", "strLoc", "numRaw",
             "numLoc", "rawBeg", "rawDep", "seen", "n"}
IsSt == st = [x \in StFields |-> st[x]]

Same0 == UNCHANGED <<call, feed>>
Moved == pos' = pos + 1 /\ UNCHANGED <<ret, dst, arena, call, feed>>

\* FldObj runs, and is not done.
Runs == ret = NoRet /\ call.mode = "obj" /\ st.root = TRUE /\ IsSt /\ pos \in Nat /\ Len(Evs) \in Nat
Reads1 == Runs /\ pos <= Len(Evs)

LEMMA ObjActs ==
    Reads1 /\ Next =>
        /\ Same0
        /\ \/ ObjKey /\ ev.kind \in {"KBeg", "KPar", "KEnd"}
           \/ ObjUnknown /\ ev.kind \in Beginnings /\ TopValue /\ st.cur = 0
           \/ ObjMismatch /\ ev.kind \in Beginnings /\ TopValue /\ st.cur # 0
           \/ ObjCapture /\ ev.kind \in Composite \union {"SBeg", "NBeg"} /\ TopValue /\ st.cur # 0
           \/ ObjLiteral /\ ev.kind \in {"True", "False", "Null"} /\ TopValue /\ st.cur # 0
           \/ ObjStrEnd /\ ev.kind = "SEnd" /\ "str" \in st.cap
           \/ ObjNumEnd /\ ev.kind = "NEnd" /\ "num" \in st.cap
           \/ ObjPart /\ ev.kind \in {"SPar", "NPar"}
           \/ ObjInner /\ \/ ev.kind \in Beginnings /\ ~TopValue
                          \/ ev.kind = "SEnd" /\ "str" \notin st.cap
                          \/ ev.kind = "NEnd" /\ "num" \notin st.cap
           \/ ObjClose /\ ev.kind \in {"OEnd", "AEnd"}
<1> SUFFICES ASSUME Reads1, Next
             PROVE  /\ Same0
                    /\ \/ ObjKey /\ ev.kind \in {"KBeg", "KPar", "KEnd"}
                       \/ ObjUnknown /\ ev.kind \in Beginnings /\ TopValue /\ st.cur = 0
                       \/ ObjMismatch /\ ev.kind \in Beginnings /\ TopValue /\ st.cur # 0
                       \/ ObjCapture /\ ev.kind \in Composite \union {"SBeg", "NBeg"} /\ TopValue /\ st.cur # 0
                       \/ ObjLiteral /\ ev.kind \in {"True", "False", "Null"} /\ TopValue /\ st.cur # 0
                       \/ ObjStrEnd /\ ev.kind = "SEnd" /\ "str" \in st.cap
                       \/ ObjNumEnd /\ ev.kind = "NEnd" /\ "num" \in st.cap
                       \/ ObjPart /\ ev.kind \in {"SPar", "NPar"}
                       \/ ObjInner /\ \/ ev.kind \in Beginnings /\ ~TopValue
                                      \/ ev.kind = "SEnd" /\ "str" \notin st.cap
                                      \/ ev.kind = "NEnd" /\ "num" \notin st.cap
                       \/ ObjClose /\ ev.kind \in {"OEnd", "AEnd"}
  OBVIOUS
<1>1. ret = NoRet /\ call.mode = "obj" /\ st.root = TRUE /\ pos <= Len(Evs)
  BY Zenon DEF Reads1, Runs
<1>2. ~NotRoot
  BY <1>1, Zenon DEF NotRoot
<1>3. ~ObjReturn
  <2>1. ~(pos > Len(feed.evs))
    <3>1. pos \in Nat /\ Len(Evs) \in Nat
      BY Zenon DEF Reads1, Runs
    <3> QED  BY <1>1, <3>1 DEF Evs
  <2> QED  BY <2>1, Zenon DEF ObjReturn
<1>4. call.mode # "arrobj" /\ call.mode # "arrscalar"
  BY <1>1
<1>5. ~ArrMismatch /\ ~ArrCapture /\ ~ArrLiteral /\ ~ArrStr /\ ~ArrEnd /\ ~ArrInner
  BY <1>4, Zenon DEF ArrMismatch, ArrCapture, ArrLiteral, ArrStr, ArrEnd, ArrInner, OnArr, Got
<1>6. ~ArrReturn
  BY <1>1, Zenon DEF ArrReturn
<1>7. Same0 /\ \/ ObjKey \/ ObjUnknown \/ ObjMismatch \/ ObjCapture \/ ObjLiteral \/ ObjStrEnd
               \/ ObjNumEnd \/ ObjPart \/ ObjInner \/ ObjClose
  BY <1>2, <1>3, <1>5, <1>6, Zenon DEF Next, Same0
<1>8. /\ ObjKey => ev.kind \in {"KBeg", "KPar", "KEnd"}
      /\ ObjUnknown => ev.kind \in Beginnings /\ TopValue /\ st.cur = 0
      /\ ObjMismatch => ev.kind \in Beginnings /\ TopValue /\ st.cur # 0
      /\ ObjCapture => ev.kind \in Composite \union {"SBeg", "NBeg"} /\ TopValue /\ st.cur # 0
      /\ ObjLiteral => ev.kind \in {"True", "False", "Null"} /\ TopValue /\ st.cur # 0
  BY Zenon DEF ObjKey, ObjUnknown, ObjMismatch, ObjCapture, ObjLiteral, OnObj, Got
<1>9. /\ ObjStrEnd => ev.kind \in {"SEnd"} /\ "str" \in st.cap
      /\ ObjNumEnd => ev.kind \in {"NEnd"} /\ "num" \in st.cap
      /\ ObjPart => ev.kind \in {"SPar", "NPar"}
      /\ ObjClose => ev.kind \in {"OEnd", "AEnd"}
      /\ ObjInner => \/ ev.kind \in Beginnings /\ ~TopValue
                     \/ ev.kind \in {"SEnd"} /\ "str" \notin st.cap
                     \/ ev.kind \in {"NEnd"} /\ "num" \notin st.cap
  BY Zenon DEF ObjStrEnd, ObjNumEnd, ObjPart, ObjClose, ObjInner, OnObj, Got
<1>10. \A x : (x \in {"SEnd"} <=> x = "SEnd") /\ (x \in {"NEnd"} <=> x = "NEnd")
  OBVIOUS
<1> QED  BY <1>7, <1>8, <1>9, <1>10, Zenon

\* The kinds of events.
LEMMA KindsApart ==
    /\ Beginnings = {"OBeg", "ABeg", "SBeg", "NBeg", "True", "False", "Null"}
    /\ \A x : x \in Composite <=> x = "OBeg" \/ x = "ABeg"
    /\ \A x \in Beginnings : x \notin {"KBeg", "KPar", "KEnd", "SPar", "SEnd", "NPar", "NEnd", "OEnd", "AEnd"}
    /\ \A x \in Composite : x \notin {"SBeg", "NBeg", "True", "False", "Null"}
    /\ Composite \subseteq Beginnings /\ {"SBeg", "NBeg", "True", "False", "Null"} \subseteq Beginnings
BY DEF Beginnings, Composite

LEMMA KeyBegins ==
    Reads1 /\ Next /\ ev.kind = "KBeg" /\ st.dep = 1 =>
        Moved /\ st' = [st EXCEPT !.cap = @ \union {"key"}, !.keyRaw = << >>]
<1> SUFFICES ASSUME Reads1, Next, ev.kind = "KBeg", st.dep = 1
             PROVE  Moved /\ st' = [st EXCEPT !.cap = @ \union {"key"}, !.keyRaw = << >>]
  OBVIOUS
<1>1. ObjKey /\ Same0
  BY ObjActs, KindsApart
<1>2. /\ Kept
      /\ CASE ev.kind = "KBeg" /\ st.dep = 1 ->
                Go([st EXCEPT !.cap = @ \union {"key"}, !.keyRaw = << >>])
           [] ev.kind = "KPar" /\ "key" \in st.cap -> Go([st EXCEPT !.keyRaw = ev.data])
           [] ev.kind = "KEnd" /\ "key" \in st.cap ->
                Go([st EXCEPT !.cap = @ \ {"key"}, !.cur = Find(st.keyRaw), !.expectVal = TRUE])
           [] OTHER -> Go(st)
  BY <1>1, Zenon DEF ObjKey
<1> DEFINE A == Go([st EXCEPT !.cap = @ \union {"key"}, !.keyRaw = << >>])
           B == Go([st EXCEPT !.keyRaw = ev.data])
           C == Go([st EXCEPT !.cap = @ \ {"key"}, !.cur = Find(st.keyRaw), !.expectVal = TRUE])
           D == Go(st)
<1>3. Kept /\ CASE ev.kind = "KBeg" /\ st.dep = 1 -> A [] ev.kind = "KPar" /\ "key" \in st.cap -> B
                [] ev.kind = "KEnd" /\ "key" \in st.cap -> C [] OTHER -> D
  BY <1>2
<1>4. A
  <2> HIDE DEF A, B, C, D
  <2> QED  BY <1>3
<1> QED  BY <1>1, <1>2, <1>4, Zenon DEF Moved, Same0, Kept, Go

LEMMA KeyPart ==
    Reads1 /\ Next /\ ev.kind = "KPar" /\ "key" \in st.cap =>
        Moved /\ st' = [st EXCEPT !.keyRaw = ev.data]
<1> SUFFICES ASSUME Reads1, Next, ev.kind = "KPar", "key" \in st.cap
             PROVE  Moved /\ st' = [st EXCEPT !.keyRaw = ev.data]
  OBVIOUS
<1>1. ObjKey /\ Same0
  BY ObjActs, KindsApart
<1> DEFINE A == Go([st EXCEPT !.cap = @ \union {"key"}, !.keyRaw = << >>])
           B == Go([st EXCEPT !.keyRaw = ev.data])
           C == Go([st EXCEPT !.cap = @ \ {"key"}, !.cur = Find(st.keyRaw), !.expectVal = TRUE])
           D == Go(st)
<1>3. Kept /\ CASE ev.kind = "KBeg" /\ st.dep = 1 -> A [] ev.kind = "KPar" /\ "key" \in st.cap -> B
                [] ev.kind = "KEnd" /\ "key" \in st.cap -> C [] OTHER -> D
  BY <1>1, Zenon DEF ObjKey
<1>4. B
  <2> HIDE DEF A, B, C, D
  <2> QED  BY <1>3
<1> QED  BY <1>1, <1>3, <1>4, Zenon DEF Moved, Same0, Kept, Go

LEMMA KeyOver ==
    Reads1 /\ Next /\ ev.kind = "KEnd" /\ "key" \in st.cap =>
        Moved /\ st' = [st EXCEPT !.cap = @ \ {"key"}, !.cur = Find(st.keyRaw), !.expectVal = TRUE]
<1> SUFFICES ASSUME Reads1, Next, ev.kind = "KEnd", "key" \in st.cap
             PROVE  Moved /\ st' = [st EXCEPT !.cap = @ \ {"key"}, !.cur = Find(st.keyRaw), !.expectVal = TRUE]
  OBVIOUS
<1>1. ObjKey /\ Same0
  BY ObjActs, KindsApart
<1> DEFINE A == Go([st EXCEPT !.cap = @ \union {"key"}, !.keyRaw = << >>])
           B == Go([st EXCEPT !.keyRaw = ev.data])
           C == Go([st EXCEPT !.cap = @ \ {"key"}, !.cur = Find(st.keyRaw), !.expectVal = TRUE])
           D == Go(st)
<1>3. Kept /\ CASE ev.kind = "KBeg" /\ st.dep = 1 -> A [] ev.kind = "KPar" /\ "key" \in st.cap -> B
                [] ev.kind = "KEnd" /\ "key" \in st.cap -> C [] OTHER -> D
  BY <1>1, Zenon DEF ObjKey
<1>4. C
  <2> HIDE DEF A, B, C, D
  <2> QED  BY <1>3
<1> QED  BY <1>1, <1>3, <1>4, Zenon DEF Moved, Same0, Kept, Go

LEMMA ExceptSame ==
    ASSUME NEW D, NEW g, g = [x \in D |-> g[x]], NEW a, NEW b
    PROVE  [g EXCEPT ![a] = g[a]] = g /\ [g EXCEPT ![a] = g[a], ![b] = g[b]] = g
<1>1. [g EXCEPT ![a] = g[a]] = g
  OBVIOUS
<1> DEFINE h == [g EXCEPT ![a] = g[a]]
<1>2. [h EXCEPT ![b] = g[b]] = g
  <2> HIDE DEF h
  <2>1. h = g
    BY <1>1 DEF h
  <2>2. [g EXCEPT ![b] = g[b]] = g
    OBVIOUS
  <2> QED  BY <2>1, <2>2
<1> QED  BY <1>1, <1>2

\* An event that is neither of the top level nor of what is captured.
Quiet ==
    /\ st.expectVal = FALSE /\ st.cap \subseteq {"raw"}
    /\ ev.kind = "KBeg" => st.dep # 1
    /\ ev.kind \in {"OEnd", "AEnd"} => "raw" \notin st.cap \/ st.dep # st.rawDep

LEMMA QuietStep ==
    Reads1 /\ Next /\ Quiet /\ st.dep \in Int =>
        Moved /\ st' = [st EXCEPT !.dep = @ + Rise(ev.kind)]
<1> SUFFICES ASSUME Reads1, Next, Quiet, st.dep \in Int
             PROVE  Moved /\ st' = [st EXCEPT !.dep = @ + Rise(ev.kind)]
  OBVIOUS
<1>0. IsSt /\ ret = NoRet
  BY Zenon DEF Reads1, Runs
<1>1. ~TopValue /\ "key" \notin st.cap /\ "str" \notin st.cap /\ "num" \notin st.cap
  <2>1. st.expectVal = FALSE /\ st.cap \subseteq {"raw"}
    BY Zenon DEF Quiet
  <2>2. "key" \notin st.cap /\ "str" \notin st.cap /\ "num" \notin st.cap
    BY <2>1
  <2> QED  BY <2>1, <2>2, Zenon DEF TopValue
<1>2. st = [st EXCEPT !.dep = @ + 0] /\ st = [st EXCEPT !.strRaw = @, !.numRaw = @]
  <2>1. st.dep + 0 = st.dep
    OBVIOUS
  <2>2. [st EXCEPT !["dep"] = st["dep"]] = st
        /\ [st EXCEPT !["strRaw"] = st["strRaw"], !["numRaw"] = st["numRaw"]] = st
    BY <1>0, ExceptSame, Zenon DEF IsSt
  <2> QED  BY <2>1, <2>2
<1>3. \/ ObjKey /\ ev.kind \in {"KBeg", "KPar", "KEnd"}
      \/ ObjPart /\ ev.kind \in {"SPar", "NPar"}
      \/ ObjInner /\ ev.kind \in Beginnings \union {"SEnd", "NEnd"}
      \/ ObjClose /\ ev.kind \in {"OEnd", "AEnd"}
  BY <1>1, ObjActs
<1>4. Same0
  BY ObjActs
<1>5. CASE ObjKey /\ ev.kind \in {"KBeg", "KPar", "KEnd"}
  <2> DEFINE A == Go([st EXCEPT !.cap = @ \union {"key"}, !.keyRaw = << >>])
             B == Go([st EXCEPT !.keyRaw = ev.data])
             C == Go([st EXCEPT !.cap = @ \ {"key"}, !.cur = Find(st.keyRaw), !.expectVal = TRUE])
             D == Go(st)
  <2>1. Kept /\ CASE ev.kind = "KBeg" /\ st.dep = 1 -> A [] ev.kind = "KPar" /\ "key" \in st.cap -> B
                  [] ev.kind = "KEnd" /\ "key" \in st.cap -> C [] OTHER -> D
    BY <1>5, Zenon DEF ObjKey
  <2>2. D
    <3>1. ev.kind = "KBeg" => st.dep # 1
      BY Zenon DEF Quiet
    <3> HIDE DEF A, B, C, D
    <3> QED  BY <1>1, <2>1, <3>1
  <2>3. Rise(ev.kind) = 0
    BY <1>5 DEF Rise, Composite
  <2> QED  BY <1>2, <1>4, <2>1, <2>2, <2>3, Zenon DEF Moved, Same0, Kept, Go
<1>6. CASE ObjPart /\ ev.kind \in {"SPar", "NPar"}
  <2>1. Kept /\ Go([st EXCEPT !.strRaw = @, !.numRaw = @])
    BY <1>1, <1>6, Zenon DEF ObjPart
  <2>2. Rise(ev.kind) = 0
    BY <1>6 DEF Rise, Composite
  <2> QED  BY <1>2, <1>4, <2>1, <2>2, Zenon DEF Moved, Same0, Kept, Go
<1>7. CASE ObjInner /\ ev.kind \in Beginnings \union {"SEnd", "NEnd"}
  <2>1. Kept /\ Go([st EXCEPT !.dep = IF ev.kind \in Composite THEN @ + 1 ELSE @])
    BY <1>7, Zenon DEF ObjInner
  <2>2. Rise(ev.kind) = IF ev.kind \in Composite THEN 1 ELSE 0
    BY <1>7 DEF Rise, Composite, Beginnings
  <2>3. (IF ev.kind \in Composite THEN st.dep + 1 ELSE st.dep) = st.dep + Rise(ev.kind)
    BY <2>2
  <2> QED  BY <1>4, <2>1, <2>3, Zenon DEF Moved, Same0, Kept, Go
<1>8. CASE ObjClose /\ ev.kind \in {"OEnd", "AEnd"}
  <2>1. ~ObjRawEnd
    BY <1>8, Zenon DEF Quiet, ObjRawEnd
  <2>2. Go([st EXCEPT !.dep = @ - 1]) /\ UNCHANGED <<dst, arena>>
    BY <1>8, <2>1, Zenon DEF ObjClose
  <2>3. Rise(ev.kind) = -1
    BY <1>8 DEF Rise, Composite
  <2>4. st.dep - 1 = st.dep + Rise(ev.kind)
    BY <2>3
  <2> QED  BY <1>4, <2>2, <2>4, Zenon DEF Moved, Same0, Go
<1> QED  BY <1>3, <1>5, <1>6, <1>7, <1>8

LEMMA UnknownStep ==
    Reads1 /\ Next /\ ev.kind \in Beginnings /\ st.expectVal = TRUE /\ st.dep = 1 /\ st.cur = 0
           /\ st.cap = {} =>
        Moved /\ st' = [st EXCEPT !.expectVal = FALSE, !.dep = IF ev.kind \in Composite THEN @ + 1 ELSE @]
<1> SUFFICES ASSUME Reads1, Next, ev.kind \in Beginnings, st.expectVal = TRUE, st.dep = 1, st.cur = 0,
                    st.cap = {}
             PROVE  Moved /\ st' = [st EXCEPT !.expectVal = FALSE,
                                              !.dep = IF ev.kind \in Composite THEN @ + 1 ELSE @]
  OBVIOUS
<1>1. TopValue
  BY Zenon DEF TopValue
<1>2. ObjUnknown /\ Same0
  BY <1>1, ObjActs, KindsApart
<1> QED  BY <1>2, Zenon DEF ObjUnknown, Moved, Same0, Kept, Go

-----------------------------------------------------------------------------
(* What the destinations hold behind the first k items.                    *)

\* A destination holds x, where a is what the arena has.
Holds(v, a, x) ==
    /\ v.of \in {"buf", "copy", "arena"}
    /\ v.of = "buf" => SubSeq(buf, v.from + 1, v.to) = x
    /\ v.of = "copy" => v.data = x
    /\ v.of = "arena" => /\ v.from \in Nat /\ v.to \in Nat /\ v.to <= Len(a)
                         /\ SubSeq(a, v.from + 1, v.to) = x

Grown(a, b) == \E d \in Seq(OutChars) : b = a \o d

Mine(k, i) == {j \in 1 .. k : FieldOf(Items[j]) = i}
Stored(k, D, a, seen) ==
    /\ D = [i \in 1 .. Len(call.def) |-> D[i]] /\ a \in Seq(OutChars)
    /\ seen = {i \in 1 .. Len(call.def) : Mine(k, i) # {}}
    /\ \A i \in 1 .. Len(call.def) :
          /\ Mine(k, i) = {} => D[i] = Untouched
          /\ Mine(k, i) # {} =>
                \E j \in Mine(k, i) : /\ \A h \in Mine(k, i) : h <= j
                                      /\ Holds(D[i], a, Means(Items[j].val, call.def[i].typ))

LEMMA GrownIs ==
    ASSUME NEW a \in Seq(OutChars), NEW b, Grown(a, b)
    PROVE  /\ b \in Seq(OutChars) /\ Len(a) \in Nat /\ Len(a) <= Len(b) /\ SubSeq(b, 1, Len(a)) = a
           /\ \A v, x : Holds(v, a, x) => Holds(v, b, x)
<1>1. PICK d \in Seq(OutChars) : b = a \o d
  BY DEF Grown
<1>2. PICK l \in Nat, m \in Nat : l = Len(a) /\ m = Len(d)
  OBVIOUS
<1>3. b \in Seq(OutChars) /\ Len(b) = l + m
  BY <1>1, <1>2, ConcatProperties
<1>4. \A p \in Nat, q \in Nat : q <= l => SubSeq(b, p + 1, q) = SubSeq(a, p + 1, q)
  <2>1. SUFFICES ASSUME NEW p \in Nat, NEW q \in Nat, q <= l
                 PROVE  SubSeq(b, p + 1, q) = SubSeq(a, p + 1, q)
    OBVIOUS
  <2>2. CASE p < q
    <3>1. p + 1 \in 1 .. l /\ q \in 1 .. l
      BY <2>1, <2>2
    <3>2. p + 1 \in 1 .. Len(a) /\ q \in 1 .. Len(a)
      BY <1>2, <3>1
    <3> QED  BY <1>1, <3>2, SubSeqOfConcat1
  <2>3. CASE ~(p < q)
    <3>1. q < p + 1 /\ p + 1 \in Int /\ q \in Int
      BY <2>3
    <3> QED  BY <3>1, SubSeqEmpty
  <2> QED  BY <2>2, <2>3
<1>5. SubSeq(b, 1, l) = a
  <2>1. SubSeq(b, 1, l) = SubSeq(a, 1, l)
    <3>1. 0 \in Nat /\ l \in Nat /\ l <= l /\ 0 + 1 = 1
      OBVIOUS
    <3>2. SubSeq(b, 0 + 1, l) = SubSeq(a, 0 + 1, l)
      BY <1>4, <3>1, Zenon
    <3> QED  BY <3>1, <3>2, Zenon
  <2>2. SubSeq(a, 1, Len(a)) = a
    BY SubSeqFull
  <2> QED  BY <1>2, <2>1, <2>2
<1>6. ASSUME NEW v, NEW x, Holds(v, a, x)  PROVE Holds(v, b, x)
  <2>1. v.of = "arena" => /\ v.from \in Nat /\ v.to \in Nat /\ v.to <= l
                          /\ SubSeq(a, v.from + 1, v.to) = x
    BY <1>2, <1>6, Zenon DEF Holds
  <2>2. v.of = "arena" => /\ v.from \in Nat /\ v.to \in Nat /\ v.to <= Len(b)
                          /\ SubSeq(b, v.from + 1, v.to) = x
    <3>1. PICK p, q : p = v.from /\ q = v.to
      OBVIOUS
    <3>2. CASE v.of = "arena"
      <4>1. p \in Nat /\ q \in Nat /\ q <= l /\ SubSeq(a, p + 1, q) = x
        BY <2>1, <3>1, <3>2
      <4>2. SubSeq(b, p + 1, q) = x
        BY <1>4, <4>1
      <4>3. q <= Len(b)
        BY <1>2, <1>3, <4>1
      <4> QED  BY <3>1, <4>1, <4>2, <4>3
    <3> QED  BY <3>2
  <2> QED  BY <1>6, <2>2, Zenon DEF Holds
<1> QED  BY <1>2, <1>3, <1>5, <1>6

LEMMA Unmoved == \A a \in Seq(OutChars) : Grown(a, a)
<1>1. SUFFICES ASSUME NEW a \in Seq(OutChars)  PROVE Grown(a, a)
  OBVIOUS
<1>2. a = a \o << >> /\ << >> \in Seq(OutChars)
  OBVIOUS
<1> QED  BY <1>2 DEF Grown

LEMMA MineNext ==
    ASSUME NEW k \in Nat, NEW i
    PROVE  /\ Mine(k + 1, i) = IF FieldOf(Items[k + 1]) = i THEN Mine(k, i) \union {k + 1} ELSE Mine(k, i)
           /\ Mine(k, i) \subseteq 1 .. k
           /\ Mine(0, i) = {}
BY DEF Mine

LEMMA StoredFirst ==
    ASSUME Called, NEW a \in Seq(OutChars), NEW D, D = [i \in 1 .. Len(call.def) |-> Untouched]
    PROVE  Stored(0, D, a, {})
<1>1. \A i : Mine(0, i) = {}
  BY DEF Mine
<1>2. \A i \in 1 .. Len(call.def) : D[i] = Untouched
  OBVIOUS
<1> HIDE DEF Untouched
<1>3. D = [i \in 1 .. Len(call.def) |-> D[i]]
  OBVIOUS
<1> QED  BY <1>1, <1>2, <1>3 DEF Stored

LEMMA StoredNone ==
    ASSUME Called, NEW k \in Nat, NEW D, NEW a, NEW seen, Stored(k, D, a, seen), FieldOf(Items[k + 1]) = 0
    PROVE  Stored(k + 1, D, a, seen)
<1>1. \A i \in 1 .. Len(call.def) : Mine(k + 1, i) = Mine(k, i)
  <2>1. Len(call.def) \in Nat
    BY CallIs
  <2>2. \A i \in 1 .. Len(call.def) : i # 0
    BY <2>1
  <2> QED  BY <2>2, MineNext
<1> QED  BY <1>1, Zenon DEF Stored

LEMMA StoredOne ==
    ASSUME Called, NEW k \in Nat, NEW D, NEW a, NEW seen, Stored(k, D, a, seen),
           NEW u \in 1 .. Len(call.def), FieldOf(Items[k + 1]) = u, NEW b, Grown(a, b),
           NEW v, Holds(v, b, Means(Items[k + 1].val, call.def[u].typ))
    PROVE  Stored(k + 1, [D EXCEPT ![u] = v], b, seen \union {u})
<1> DEFINE E == [D EXCEPT ![u] = v]
           I == 1 .. Len(call.def)
<1>1. a \in Seq(OutChars) /\ D = [i \in I |-> D[i]] /\ seen = {i \in I : Mine(k, i) # {}}
  BY Zenon DEF Stored
<1>2. E = [i \in I |-> E[i]] /\ E[u] = v /\ \A i \in I : i # u => E[i] = D[i]
  BY <1>1
<1>3. b \in Seq(OutChars) /\ \A w, x : Holds(w, a, x) => Holds(w, b, x)
  BY <1>1, GrownIs
<1>4. /\ Mine(k + 1, u) = Mine(k, u) \union {k + 1} /\ Mine(k, u) \subseteq 1 .. k
      /\ \A i \in I : i # u => Mine(k + 1, i) = Mine(k, i)
  BY MineNext
<1>5. seen \union {u} = {i \in I : Mine(k + 1, i) # {}}
  BY <1>1, <1>4
<1>6. /\ k + 1 \in Mine(k + 1, u) /\ Mine(k + 1, u) # {}
      /\ \A h \in Mine(k + 1, u) : h <= k + 1
  BY <1>4
<1>7. ASSUME NEW i \in I
      PROVE  /\ Mine(k + 1, i) = {} => E[i] = Untouched
             /\ Mine(k + 1, i) # {} =>
                   \E j \in Mine(k + 1, i) : /\ \A h \in Mine(k + 1, i) : h <= j
                                             /\ Holds(E[i], b, Means(Items[j].val, call.def[i].typ))
  <2>1. CASE i = u
    BY <1>2, <1>6, <2>1, Zenon
  <2>2. CASE i # u
    <3>1. E[i] = D[i] /\ Mine(k + 1, i) = Mine(k, i)
      BY <1>2, <1>4, <2>2
    <3>2. /\ Mine(k, i) = {} => D[i] = Untouched
          /\ Mine(k, i) # {} =>
                \E j \in Mine(k, i) : /\ \A h \in Mine(k, i) : h <= j
                                      /\ Holds(D[i], a, Means(Items[j].val, call.def[i].typ))
      BY Zenon DEF Stored
    <3> QED  BY <1>3, <3>1, <3>2, Zenon
  <2> QED  BY <2>1, <2>2
<1> HIDE DEF E
<1>8. Stored(k + 1, E, b, seen \union {u})
  BY <1>2, <1>3, <1>5, <1>7, Zenon DEF Stored
<1> QED  BY <1>8 DEF E

-----------------------------------------------------------------------------
(* What is stored of a value.                                              *)

LEMMA ItemIs ==
    ASSUME Called, Rooted, NEW k \in Nat, k < Good0
    PROVE  LET it == Items[k + 1]
               off == ValueAt(call.doc, k + 1)
           IN  /\ k + 1 \in 1 .. Len(Items)
               /\ ValueIs(Evs, ValAt(k + 1), LastAt[k + 1], it.val, off)
               /\ Placed(buf, off, it.val) /\ LastAt[k + 1] <= Len(Evs)
<1> DEFINE it == Items[k + 1]
           off == ValueAt(call.doc, k + 1)
<1>1. PICK n : n = Good0
  OBVIOUS
<1>2. n \in 0 .. Len(Items) /\ Len(Items) \in Nat /\ call.doc \in Docs
  BY <1>1, ItemEvents, CallIs
<1>3. k + 1 \in 1 .. n /\ k + 1 \in 1 .. Len(Items) /\ (k + 1) - 1 = k /\ k \in 0 .. n /\ k + 1 \in 0 .. n
  BY <1>1, <1>2
<1>4. it.val \in Seq(Chars) /\ it.key \in Seq(Chars)
  BY <1>3, CallIs
<1>5. /\ ValueFed(Evs, ValAt(k + 1), LastAt[k + 1], it.val, off)
      /\ IsValue(it.val, MaxDep - 1)
  BY <1>1, <1>3, ItemEvents
<1>6. LastAt[k] \in 1 .. Len(Evs) /\ LastAt[k + 1] \in 1 .. Len(Evs)
  BY <1>1, <1>3, ItemEvents
<1>7. ValAt(k + 1) \in Nat
  <2>1. ValAt(k + 1) = (LastAt[k] + 1) + KeyEvents(it.key)
    BY <1>3, Zenon DEF ValAt, KeyAt
  <2>2. KeyEvents(it.key) \in {0, 2, 3}
    BY DEF KeyEvents
  <2>3. PICK x, y : x = LastAt[k] /\ y = KeyEvents(it.key)
    OBVIOUS
  <2>4. x \in Nat /\ y \in Nat
    BY <1>6, <2>2, <2>3
  <2> QED  BY <2>1, <2>3, <2>4
<1>8. ValAt(k + 1) <= LastAt[k + 1]
  BY <1>5, Zenon DEF ValueFed
<1>9. PICK j : j = LastAt[k + 1]
  OBVIOUS
<1>10. j \in Nat /\ j <= Len(Evs)
  <2>1. Len(Evs) \in Nat
    BY FeedIs
  <2> QED  BY <1>6, <1>9, <2>1
<1>11. ValueIs(Evs, ValAt(k + 1), LastAt[k + 1], it.val, off)
  BY <1>4, <1>5, <1>7, <1>8, <1>9, <1>10, Zenon DEF ValueIs
<1>12. Placed(buf, off, it.val)
  <2>1. k + 1 \in 1 .. Len(call.doc.items)
    BY <1>3 DEF Items
  <2>2. Placed(Text(call.doc), ValueAt(call.doc, k + 1), call.doc.items[k + 1].val)
    BY <1>2, <2>1, ItemPlaced
  <2> QED  BY <2>2, Zenon DEF buf, Items
<1> QED  BY <1>3, <1>9, <1>10, <1>11, <1>12, Zenon

LEMMA CopyHolds ==
    ASSUME NEW x, NEW b
    PROVE  Holds(Copy(x), b, x)
BY DEF Holds, Copy

LEMMA SliceHolds ==
    ASSUME NEW b, NEW p, NEW q
    PROVE  Holds(Slice("buf", p, q), b, SubSeq(buf, p + 1, q))
BY DEF Holds, Slice

LEMMA RawHolds ==
    ASSUME NEW off, NEW s \in Seq(Chars), Placed(buf, off, s), NEW b
    PROVE  Holds(Slice("buf", off, off + Len(s)), b, s)
<1>1. Len(s) \in Nat /\ 1 \in 1 .. Len(s) + 1 /\ Len(s) \in 0 .. Len(s)
  OBVIOUS
<1>2. SubSeq(buf, off + 1, off + Len(s)) = SubSeq(s, 1, Len(s))
  BY <1>1, Zenon DEF Placed
<1>3. SubSeq(s, 1, Len(s)) = s
  BY SubSeqFull
<1>4. Holds(Slice("buf", off, off + Len(s)), b, SubSeq(buf, off + 1, off + Len(s)))
  BY SliceHolds
<1> QED  BY <1>2, <1>3, <1>4

LEMMA InsideIs ==
    ASSUME NEW s \in Seq(Chars), IsString(s)
    PROVE  LET raw == Strip(s, 1, 1)
           IN  /\ raw \in Seq(Chars) /\ Len(raw) = Len(s) - 2 /\ Len(s) \in Nat /\ Len(s) > 1
               /\ raw = SubSeq(s, 2, Len(s) - 1)
               /\ IsUnits(raw) /\ (HasEsc(s) <=> HasEsc(raw))
<1> DEFINE raw == Strip(s, 1, 1)
<1>1. PICK l \in Nat : l = Len(s)
  OBVIOUS
<1>2. l > 1 /\ s[1] = "\"" /\ s[l] = "\"" /\ IsUnits(raw)
  BY <1>1, Zenon DEF IsString
<1>3. raw = SubSeq(s, 2, l - 1)
  <2>1. 1 + 1 = 2
    OBVIOUS
  <2> QED  BY <1>1, <2>1, Zenon DEF Strip
<1>4. /\ raw \in Seq(Chars) /\ Len(raw) = l - 2 /\ \A i \in 1 .. l - 2 : raw[i] = s[i + 1]
  <2>1. l > 1
    BY <1>2
  <2>2. \A i \in 2 .. l - 1 : s[i] \in Chars
    BY <1>1, <2>1
  <2>3. /\ SubSeq(s, 2, l - 1) \in Seq(Chars)
        /\ Len(SubSeq(s, 2, l - 1)) = IF 2 <= l - 1 THEN (l - 1) - 2 + 1 ELSE 0
        /\ \A i \in 1 .. (l - 1) - 2 + 1 : SubSeq(s, 2, l - 1)[i] = s[2 + i - 1]
    <3>1. 2 \in Int /\ l - 1 \in Int
      OBVIOUS
    <3> QED  BY <2>2, <3>1, SubSeqProperties
  <2>4. (l - 1) - 2 + 1 = l - 2 /\ \A i \in 1 .. l - 2 : 2 + i - 1 = i + 1
    OBVIOUS
  <2> HIDE DEF raw
  <2> QED  BY <1>3, <2>1, <2>3, <2>4
<1>5. "\"" # "\\"
  BY Zenon
<1>6. s[1] # "\\" /\ s[l] # "\\" /\ l > 1
  BY <1>2, <1>5, Zenon
<1>7. HasEsc(s) <=> HasEsc(raw)
  <2> HIDE DEF raw
  <2>1. ASSUME HasEsc(s)  PROVE HasEsc(raw)
    <3>1. PICK i \in 1 .. l : s[i] = "\\"
      BY <1>1, <2>1 DEF HasEsc
    <3>2. i # 1 /\ i # l
      BY <1>6, <3>1
    <3>3. i - 1 \in 1 .. l - 2 /\ (i - 1) + 1 = i
      BY <3>2
    <3>4. raw[i - 1] = "\\"
      BY <1>4, <3>1, <3>3
    <3> QED  BY <1>4, <3>3, <3>4 DEF HasEsc
  <2>2. ASSUME HasEsc(raw)  PROVE HasEsc(s)
    <3>1. PICK i \in 1 .. l - 2 : raw[i] = "\\"
      BY <1>4, <2>2 DEF HasEsc
    <3>2. i + 1 \in 1 .. l /\ s[i + 1] = "\\"
      BY <1>4, <3>1
    <3> QED  BY <1>1, <3>2 DEF HasEsc
  <2> QED  BY <2>1, <2>2
<1> QED  BY <1>1, <1>2, <1>3, <1>4, <1>7, Zenon

LEMMA StrHolds ==
    ASSUME NEW off, NEW s \in Seq(Chars), IsString(s), Placed(buf, off, s), NEW b
    PROVE  LET raw == Strip(s, 1, 1)
               beg == off + 1
           IN  Holds(Slice("buf", beg, beg + Len(raw)), b, raw)
<1> DEFINE raw == Strip(s, 1, 1)
           beg == off + 1
<1>1. PICK l \in Nat : l = Len(s) /\ l > 1
  BY InsideIs
<1>2. raw = SubSeq(s, 2, l - 1) /\ Len(raw) = l - 2 /\ off \in Nat
  BY <1>1, InsideIs DEF Placed
<1>3. 2 \in 1 .. l + 1 /\ l - 1 \in 0 .. l
  BY <1>1
<1>4. SubSeq(buf, off + 2, off + (l - 1)) = SubSeq(s, 2, l - 1)
  BY <1>1, <1>3, Zenon DEF Placed
<1>5. beg + 1 = off + 2 /\ beg + Len(raw) = off + (l - 1)
  <2>1. PICK m : m = Len(raw)
    OBVIOUS
  <2>2. m = l - 2 /\ off \in Nat
    BY <1>2, <2>1
  <2>3. (off + 1) + 1 = off + 2 /\ (off + 1) + m = off + (l - 1)
    BY <2>2
  <2> QED  BY <2>1, <2>3
<1>6. Holds(Slice("buf", beg, beg + Len(raw)), b, SubSeq(buf, beg + 1, beg + Len(raw)))
  BY SliceHolds
<1> QED  BY <1>2, <1>4, <1>5, <1>6, Zenon

\* A string captured for a field, or an element, that takes strings.
LEMMA StrValue ==
    ASSUME Called, NEW off, NEW s \in Seq(Chars), IsString(s), Placed(buf, off, s), NEW typ \in StrTypes,
           NEW a \in Seq(OutChars)
    PROVE  LET raw == Strip(s, 1, 1)
               beg == off + 1
               dec == StrDecode(raw)
               b == SubSeq(a, 1, Len(a)) \o dec.data
           IN  /\ ~HasEsc(raw) => /\ Fits(s, typ)
                                  /\ Holds(Slice("buf", beg, beg + Len(raw)), a, Means(s, typ))
               /\ HasEsc(raw) /\ (~call.hasArena \/ ~dec.ok) => ~Fits(s, typ)
               /\ HasEsc(raw) /\ call.hasArena /\ dec.ok =>
                     /\ Fits(s, typ) /\ Grown(a, b)
                     /\ Holds(Slice("arena", Len(a), Len(a) + Len(dec.data)), b, Means(s, typ))
<1> DEFINE raw == Strip(s, 1, 1)
           beg == off + 1
           dec == StrDecode(raw)
           b == SubSeq(a, 1, Len(a)) \o dec.data
<1>1. raw \in Seq(Chars) /\ IsUnits(raw) /\ (HasEsc(s) <=> HasEsc(raw))
  BY InsideIs
<1>2. Fits(s, typ) <=> (HasEsc(s) => call.hasArena /\ IsText(raw))
  BY FitsIs
<1>3. Means(s, typ) = CharsOf(raw)
  <2>1. typ # "raw"
    BY DEF StrTypes
  <2> QED  BY <2>1, MeansIs
<1>4. (dec.ok <=> IsText(raw)) /\ (dec.ok => dec.data = CharsOf(raw))
  BY <1>1, StringRead
<1>5. ~HasEsc(raw) => CharsOf(raw) = raw
  BY <1>1, PlainRead
<1>6. Holds(Slice("buf", beg, beg + Len(raw)), a, raw)
  BY StrHolds
<1>7. dec.data \in Seq(OutChars)
  <2>1. PICK g : IsDecoding(raw, g) /\ dec = g[1]
    BY <1>1, StrDecodeIs
  <2>2. 1 \in 1 .. Len(raw) + 1
    BY <1>1
  <2>3. g[1] \in Decoded
    BY <2>1, <2>2, Zenon DEF IsDecoding
  <2> QED  BY <2>1, <2>3 DEF Decoded
<1> HIDE DEF raw, dec
<1>8. SubSeq(a, 1, Len(a)) = a /\ b = a \o dec.data
  BY SubSeqFull
<1>9. Grown(a, b)
  BY <1>7, <1>8 DEF Grown
<1>10. Holds(Slice("arena", Len(a), Len(a) + Len(dec.data)), b, dec.data)
  <2> DEFINE d == dec.data
  <2>1. PICK l \in Nat, m \in Nat : l = Len(a) /\ m = Len(d)
    BY <1>7
  <2>2. d \in Seq(OutChars)
    BY <1>7
  <2> HIDE DEF d
  <2>3. Len(b) = l + m /\ b = a \o d
    BY <1>8, <2>1, <2>2, ConcatProperties DEF d
  <2> HIDE DEF b
  <2>4. SubSeq(b, l + 1, l + m) = d
    <3>1. CASE m = 0
      <4>1. d = << >>
        BY <2>1, <2>2, <3>1, EmptySeq
      <4>2. l + m < l + 1 /\ l + 1 \in Int /\ l + m \in Int
        BY <3>1
      <4>3. SubSeq(b, l + 1, l + m) = << >>
        BY <4>2, SubSeqEmpty
      <4> QED  BY <4>1, <4>3
    <3>2. CASE m # 0
      <4>1. l + 1 \in Len(a) + 1 .. Len(a) + Len(d) /\ l + m \in Len(a) + 1 .. Len(a) + Len(d)
            /\ (l + 1) - Len(a) = 1 /\ (l + m) - Len(a) = m
        BY <2>1, <3>2
      <4>2. SubSeq(b, l + 1, l + m) = SubSeq(d, (l + 1) - Len(a), (l + m) - Len(a))
        BY <2>2, <2>3, <4>1, SubSeqOfConcat2
      <4>3. SubSeq(d, 1, Len(d)) = d
        BY <2>2, SubSeqFull
      <4> QED  BY <2>1, <4>1, <4>2, <4>3
    <3> QED  BY <3>1, <3>2
  <2>5. Holds(Slice("arena", l, l + m), b, d)
    BY <2>1, <2>3, <2>4 DEF Holds, Slice
  <2> QED  BY <2>1, <2>5 DEF d
<1> HIDE DEF b
<1>11. ~HasEsc(raw) => Fits(s, typ) /\ Holds(Slice("buf", beg, beg + Len(raw)), a, Means(s, typ))
  BY <1>1, <1>2, <1>3, <1>5, <1>6, Zenon
<1>12. HasEsc(raw) /\ (~call.hasArena \/ ~dec.ok) => ~Fits(s, typ)
  BY <1>1, <1>2, <1>4, Zenon
<1>13. HasEsc(raw) /\ call.hasArena /\ dec.ok =>
          /\ Fits(s, typ) /\ Grown(a, b)
          /\ Holds(Slice("arena", Len(a), Len(a) + Len(dec.data)), b, Means(s, typ))
  BY <1>1, <1>2, <1>3, <1>4, <1>9, <1>10, Zenon
<1> QED  BY <1>11, <1>12, <1>13, Zenon DEF raw, dec, b

\* The kinds that a type of field takes.
LEMMA TakesIs ==
    ASSUME NEW typ \in Types
    PROVE  /\ typ = "raw" => Takes(typ) = Beginnings
           /\ typ \in {"ostr", "obytes"} => Takes(typ) = {"SBeg", "Null"}
           /\ typ \in {"str", "bytes"} => Takes(typ) = {"SBeg"}
           /\ typ \in NumTypes => Takes(typ) = {"NBeg"}
           /\ typ \in BoolTypes => Takes(typ) = {"True", "False"}
           /\ typ = "none" => Takes(typ) = {}
<1>1. /\ "raw" \notin {"ostr", "obytes", "str", "bytes"} \union NumTypes \union BoolTypes
      /\ "none" \notin {"ostr", "obytes", "str", "bytes", "raw"} \union NumTypes \union BoolTypes
      /\ \A x \in {"ostr", "obytes"} : x \notin {"str", "bytes"} \union NumTypes \union BoolTypes
      /\ \A x \in {"str", "bytes"} : x \notin NumTypes \union BoolTypes
      /\ \A x \in NumTypes : x \notin BoolTypes
  BY DEF NumTypes, BoolTypes
<1> DEFINE A == Beginnings
           B == {"SBeg", "Null"}
           C == {"SBeg"}
           D == {"NBeg"}
           E == {"True", "False"}
           G == {"ostr", "obytes"}
           H == {"str", "bytes"}
<1>2. Takes(typ) = CASE typ = "raw" -> A [] typ \in G -> B [] typ \in H -> C [] typ \in NumTypes -> D
                     [] typ \in BoolTypes -> E [] OTHER -> {}
  BY Zenon DEF Takes
<1>3. /\ "raw" \notin G \union H \union NumTypes \union BoolTypes
      /\ "none" \notin G \union H \union NumTypes \union BoolTypes /\ "none" # "raw"
      /\ \A x \in G : x \notin H \union NumTypes \union BoolTypes
      /\ \A x \in H : x \notin NumTypes \union BoolTypes
      /\ \A x \in NumTypes : x \notin BoolTypes
  BY <1>1
<1> HIDE DEF A, B, C, D, E, G, H
<1>4. /\ typ = "raw" => Takes(typ) = A
      /\ typ \in G => Takes(typ) = B
      /\ typ \in H => Takes(typ) = C
      /\ typ \in NumTypes => Takes(typ) = D
      /\ typ \in BoolTypes => Takes(typ) = E
      /\ typ = "none" => Takes(typ) = {}
  BY <1>2, <1>3
<1> QED  BY <1>4 DEF A, B, C, D, E, G, H

LEMMA TypeCases ==
    ASSUME NEW typ \in Types
    PROVE  \/ typ = "raw" /\ typ \notin StrTypes \union NumTypes \union BoolTypes
           \/ typ \in {"ostr", "obytes"} /\ typ \in StrTypes /\ typ # "raw"
           \/ typ \in {"str", "bytes"} /\ typ \in StrTypes /\ typ # "raw"
           \/ typ \in NumTypes /\ typ # "raw"
           \/ typ \in BoolTypes /\ typ # "raw" /\ typ \notin {"i32", "oi32", "u32", "ou32", "f64", "of64"}
           \/ typ = "none" /\ typ \notin StrTypes \union NumTypes \union BoolTypes
BY DEF Types, StrTypes, NumTypes, BoolTypes

\* A value of a kind that its field does not take does not fit; a literal that is
\* taken does, as does what is taken as it stands.
LEMMA TakesFits ==
    ASSUME NEW evs, NEW v, NEW j, NEW s, NEW off, ValueIs(evs, v, j, s, off), NEW typ \in Types
    PROVE  /\ evs[v].kind \in Beginnings
           /\ evs[v].kind \notin Takes(typ) => ~Fits(s, typ)
           /\ typ = "raw" => Fits(s, typ) /\ Means(s, typ) = s
           /\ evs[v].kind \in {"True", "False", "Null"} =>
                 /\ s \in {True, False, Null} /\ v = j
                 /\ Len(s) = LitLen(evs[v].kind)
                 /\ evs[v].kind \in Takes(typ) =>
                       /\ Fits(s, typ)
                       /\ typ # "raw" /\ evs[v].kind = "Null" => Means(s, typ) = << >>
                       /\ typ # "raw" /\ evs[v].kind # "Null" => Means(s, typ) = <<evs[v].kind>>
           /\ evs[v].kind = "SBeg" => IsString(s) /\ (typ # "raw" /\ "SBeg" \in Takes(typ) => typ \in StrTypes)
           /\ evs[v].kind = "NBeg" => IsNumber(s) /\ (typ # "raw" /\ "NBeg" \in Takes(typ) => typ \in NumTypes)
           /\ evs[v].kind \in Composite => (evs[v].kind \in Takes(typ) => typ = "raw")
<1> DEFINE kind == evs[v].kind
<1>1. s \in Seq(Chars) /\ v \in Nat /\ j \in Nat
  BY DEF ValueIs
<1>2. \/ IsString(s) /\ kind = "SBeg"
      \/ IsNumber(s) /\ kind = "NBeg"
      \/ /\ s \in {True, False, Null} /\ j = v
         /\ s = True => kind = "True"
         /\ s = False => kind = "False"
         /\ s = Null => kind = "Null"
      \/ /\ ~IsString(s) /\ ~IsNumber(s) /\ s \notin {True, False, Null}
         /\ kind = "OBeg" \/ kind = "ABeg"
  BY ValueBegins, Zenon
<1>3. /\ IsString(s) => ~IsNumber(s) /\ s \notin {True, False, Null}
      /\ IsNumber(s) => s \notin {True, False, Null}
      /\ True # False /\ True # Null /\ False # Null
  BY <1>1, KindsDiffer
<1> HIDE DEF kind
<1>4. /\ kind \in Beginnings
      /\ IsString(s) <=> kind = "SBeg"
      /\ IsNumber(s) <=> kind = "NBeg"
      /\ s = True <=> kind = "True"
      /\ s = False <=> kind = "False"
      /\ s = Null <=> kind = "Null"
      /\ kind \in Composite <=> kind \in {"OBeg", "ABeg"}
  BY <1>2, <1>3 DEF Beginnings, Composite
<1>5. IsWhole(s) => IsNumber(s)
  BY Zenon DEF IsWhole
<1>6. kind \notin Takes(typ) => ~Fits(s, typ)
  <2>1. CASE typ = "raw"
    BY <1>4, <2>1, TakesIs
  <2>2. CASE typ \in {"ostr", "obytes"} /\ typ \in StrTypes
    BY <1>4, <2>2, TakesIs, FitsIs
  <2>3. CASE typ \in {"str", "bytes"} /\ typ \in StrTypes
    <3>1. typ \notin {"ostr", "obytes"}
      BY <2>3
    <3>2. kind \notin Takes(typ) => ~IsString(s)
      BY <1>4, <2>3, TakesIs
    <3>3. Fits(s, typ) <=> IF IsString(s) THEN HasEsc(s) => call.hasArena /\ IsText(Strip(s, 1, 1))
                           ELSE s = Null /\ typ \in {"ostr", "obytes"}
      BY <2>3, FitsIs
    <3> QED  BY <3>1, <3>2, <3>3, Zenon
  <2>4. CASE typ \in NumTypes
    <3>1. typ \in {"i32", "oi32"} \/ typ \in {"u32", "ou32"} \/ typ \in {"f64", "of64"}
      BY <2>4 DEF NumTypes
    <3>2. kind \notin Takes(typ) => ~IsNumber(s)
      BY <1>4, <2>4, TakesIs
    <3>3. Fits(s, typ) => IsNumber(s)
      BY <1>5, <3>1, FitsIs, Zenon
    <3> QED  BY <3>2, <3>3
  <2>5. CASE typ \in BoolTypes
    BY <1>4, <2>5, TakesIs, FitsIs
  <2>6. CASE typ = "none" /\ typ \notin StrTypes \union NumTypes \union BoolTypes
    <3>1. typ # "raw"
      BY <2>6
    <3> QED  BY <2>6, <3>1, FitsIs
  <2> QED  BY <2>1, <2>2, <2>3, <2>4, <2>5, <2>6, TypeCases
<1>7. typ = "raw" => Fits(s, typ) /\ Means(s, typ) = s
  <2>1. typ = "raw" => typ \notin StrTypes \union NumTypes \union BoolTypes
    BY DEF StrTypes, NumTypes, BoolTypes
  <2> QED  BY <1>1, <2>1, FitsIs, MeansIs
<1>8. ASSUME kind \in {"True", "False", "Null"}
      PROVE  s \in {True, False, Null} /\ v = j /\ Len(s) = LitLen(kind)
  <2>1. s \in {True, False, Null}
    BY <1>4, <1>8
  <2>2. v = j
    BY <1>2, <1>3, <2>1
  <2>3. Len(s) = IF kind = "False" THEN 5 ELSE 4
    <3>1. Len(True) = 4 /\ Len(False) = 5 /\ Len(Null) = 4
      BY LiteralBegins
    <3>2. CASE s = True
      BY <1>4, <3>1, <3>2
    <3>3. CASE s = False
      BY <1>4, <3>1, <3>3
    <3>4. CASE s = Null
      BY <1>4, <3>1, <3>4
    <3> QED  BY <2>1, <3>2, <3>3, <3>4
  <2> QED  BY <2>1, <2>2, <2>3 DEF LitLen
<1>9. ASSUME kind \in {"True", "False", "Null"}, kind \in Takes(typ)
      PROVE  /\ Fits(s, typ)
             /\ typ # "raw" /\ kind = "Null" => Means(s, typ) = << >>
             /\ typ # "raw" /\ kind # "Null" => Means(s, typ) = <<kind>>
  <2>1. ~IsString(s)
    BY <1>4, <1>9
  <2>2. CASE typ = "raw"
    BY <1>7, <2>2
  <2>3. CASE typ \in {"ostr", "obytes"} /\ typ \in StrTypes
    <3>1. kind = "Null" /\ s = Null
      BY <1>4, <1>9, <2>3, TakesIs
    <3>2. typ \notin {"raw", "i32", "oi32", "u32", "ou32"}
      BY <2>3
    <3> QED  BY <1>1, <2>1, <2>3, <3>1, <3>2, FitsIs, MeansIs
  <2>4. CASE typ \in {"str", "bytes"}
    BY <1>9, <2>4, TakesIs
  <2>5. CASE typ \in NumTypes
    BY <1>9, <2>5, TakesIs
  <2>6. CASE typ \in BoolTypes /\ typ # "raw" /\ typ \notin {"i32", "oi32", "u32", "ou32", "f64", "of64"}
    <3>1. kind \in {"True", "False"} /\ s \in {True, False}
      BY <1>4, <1>9, <2>6, TakesIs
    <3>2. Fits(s, typ)
      BY <2>6, <3>1, FitsIs
    <3>3. /\ s = True => Means(s, typ) = <<"True">>
          /\ s = False => Means(s, typ) = <<"False">>
      BY <1>1, <2>6, MeansIs
    <3> QED  BY <1>4, <3>1, <3>2, <3>3
  <2>7. CASE typ = "none"
    BY <1>9, <2>7, TakesIs
  <2> QED  BY <2>2, <2>3, <2>4, <2>5, <2>6, <2>7, TypeCases
<1>10. kind = "SBeg" => (typ # "raw" /\ "SBeg" \in Takes(typ) => typ \in StrTypes)
  BY TakesIs, TypeCases
<1>11. kind = "NBeg" => (typ # "raw" /\ "NBeg" \in Takes(typ) => typ \in NumTypes)
  BY TakesIs, TypeCases
<1>12. kind \in Composite => (kind \in Takes(typ) => typ = "raw")
  BY <1>4, TakesIs, TypeCases
<1> QED  BY <1>4, <1>6, <1>7, <1>8, <1>9, <1>10, <1>11, <1>12, Zenon DEF kind

-----------------------------------------------------------------------------
(* Where FldObj is.                                                        *)

At(p, d, c, x, u) ==
    /\ Runs /\ pos = p /\ st.dep = d /\ st.cap = c /\ st.expectVal = x /\ st.cur = u

\* Behind event l, the last of an item; within a key that begins behind it;
\* before a value, at v, of field u; within it.
AtItem(l) == At(l + 1, 1, {}, FALSE, 0)
InKey(l, key) ==
    \/ At(l + 2, 1, {"key"}, FALSE, 0) /\ st.keyRaw = << >>
    \/ KeyEvents(key) = 3 /\ At(l + 3, 1, {"key"}, FALSE, 0) /\ st.keyRaw = Strip(key, 1, 1)
AtValue(v, u) == At(v, 1, {}, TRUE, u)
InStr(v, u) ==
    /\ Evs[v].kind = "SBeg" /\ Begun(Evs, v, pos)
    /\ At(pos, 1, IF u = 0 THEN {} ELSE {"str"}, FALSE, u)
    /\ u # 0 => st.strLoc = Evs[v].loc /\ st.strRaw = IF pos = v + 1 THEN << >> ELSE Evs[v + 1].data
InNum(v, u) ==
    /\ Evs[v].kind = "NBeg" /\ Begun(Evs, v, pos)
    /\ At(pos, 1, IF u = 0 THEN {} ELSE {"num"}, FALSE, u)
    /\ u # 0 => st.numLoc = Evs[v].loc /\ st.numRaw = IF pos = v + 1 THEN << >> ELSE Evs[v + 1].data
InRaw(v, u) ==
    /\ Evs[v].kind \in Composite /\ Begun(Evs, v, pos)
    /\ At(pos, 1 + Level(Evs, v, pos - 1), IF u = 0 THEN {} ELSE {"raw"}, FALSE, u)
    /\ u # 0 => st.rawBeg = Evs[v].loc.off /\ st.rawDep = 2
InVal(v, u) == InStr(v, u) \/ InNum(v, u) \/ InRaw(v, u)
AtEnd(l) == At(l + 2, 0, {}, FALSE, 0)

\* Nothing that was stored changes.
Steady == Moved /\ st'.seen = st.seen

LEMMA RunsOn == Runs /\ Same0 /\ ret' = ret /\ pos' = pos + 1 /\ IsSt' /\ st'.root = TRUE => Runs'
<1> SUFFICES ASSUME Runs, Same0, ret' = ret, pos' = pos + 1, IsSt', st'.root = TRUE
             PROVE  Runs'
  OBVIOUS
<1>1. ret = NoRet /\ call.mode = "obj" /\ pos \in Nat /\ Len(feed.evs) \in Nat
  BY Zenon DEF Runs, Evs
<1>2. pos + 1 \in Nat
  BY <1>1
<1> QED  BY <1>1, <1>2, Zenon DEF Runs, Evs, Same0, NoRet, NoLoc

LEMMA KeyEntered ==
    \A l \in Nat : AtItem(l) /\ l + 1 <= Len(Evs) /\ Evs[l + 1].kind = "KBeg" /\ Next =>
        Steady /\ \A key : InKey(l, key)'
<1> SUFFICES ASSUME NEW l \in Nat, AtItem(l), l + 1 <= Len(Evs), Evs[l + 1].kind = "KBeg", Next
             PROVE  Steady /\ \A key : InKey(l, key)'
  OBVIOUS
<1>1. Runs /\ pos = l + 1 /\ st.dep = 1 /\ st.cap = {} /\ st.expectVal = FALSE /\ st.cur = 0
  BY Zenon DEF AtItem, At
<1>2. Reads1 /\ ev.kind = "KBeg"
  BY <1>1, Zenon DEF Reads1, Evs, ev
<1>3. Moved /\ st' = [st EXCEPT !.cap = @ \union {"key"}, !.keyRaw = << >>]
  BY <1>1, <1>2, KeyBegins
<1>4. IsSt
  BY <1>1, Zenon DEF Runs
<1>5. /\ IsSt' /\ st'.root = st.root /\ st'.dep = st.dep /\ st'.cap = st.cap \union {"key"}
      /\ st'.expectVal = st.expectVal /\ st'.cur = st.cur /\ st'.keyRaw = << >> /\ st'.seen = st.seen
  BY <1>3, <1>4 DEF IsSt, StFields
<1>6. Runs'
  <2>1. st.root = TRUE
    BY <1>1, Zenon DEF Runs
  <2> QED  BY <1>1, <1>3, <1>5, <2>1, RunsOn, Zenon DEF Moved, Same0
<1>7. pos' = l + 2 /\ st'.cap = {"key"}
  BY <1>1, <1>3, <1>5 DEF Moved
<1> QED  BY <1>1, <1>3, <1>5, <1>6, <1>7, Zenon DEF Steady, InKey, At

\* The events of a key, from i on.
KeyIs(i, key) ==
    /\ KeyEvents(key) \in {2, 3} /\ i + KeyEvents(key) <= Len(Evs) + 1
    /\ Evs[i].kind = "KBeg"
    /\ KeyEvents(key) = 2 => Strip(key, 1, 1) = << >> /\ Evs[i + 1].kind = "KEnd"
    /\ KeyEvents(key) = 3 => /\ Evs[i + 1].kind = "KPar" /\ Evs[i + 1].data = Strip(key, 1, 1)
                             /\ Evs[i + 2].kind = "KEnd"

LEMMA KeyStep ==
    \A l \in Nat : \A key :
        KeyIs(l + 1, key) /\ InKey(l, key) /\ Next =>
            /\ Steady
            /\ InKey(l, key)' \/ AtValue((l + 1) + KeyEvents(key), Find(Strip(key, 1, 1)))'
<1> SUFFICES ASSUME NEW l \in Nat, NEW key, KeyIs(l + 1, key), InKey(l, key), Next
             PROVE  /\ Steady
                    /\ InKey(l, key)' \/ AtValue((l + 1) + KeyEvents(key), Find(Strip(key, 1, 1)))'
  OBVIOUS
<1> DEFINE n == KeyEvents(key)
           raw == Strip(key, 1, 1)
<1>1. /\ n \in {2, 3} /\ (l + 1) + n <= Len(Evs) + 1
      /\ n = 2 => raw = << >> /\ Evs[(l + 1) + 1].kind = "KEnd"
      /\ n = 3 => /\ Evs[(l + 1) + 1].kind = "KPar" /\ Evs[(l + 1) + 1].data = raw
                  /\ Evs[(l + 1) + 2].kind = "KEnd"
  BY Zenon DEF KeyIs
<1>2. /\ Runs /\ st.dep = 1 /\ st.cap = {"key"} /\ st.expectVal = FALSE /\ st.cur = 0
      /\ \/ pos = l + 2 /\ st.keyRaw = << >>
         \/ n = 3 /\ pos = l + 3 /\ st.keyRaw = raw
  BY Zenon DEF InKey, At
<1> HIDE DEF n, raw
<1>3. IsSt /\ st.root = TRUE /\ Len(Evs) \in Nat
  BY <1>2, Zenon DEF Runs
<1>4. Reads1
  <2>1. pos <= Len(Evs)
    BY <1>1, <1>2, <1>3
  <2> QED  BY <1>2, <2>1, Zenon DEF Reads1
<1>5. ev = Evs[pos]
  BY Zenon DEF ev, Evs
<1>6. CASE n = 3 /\ pos = l + 2
  <2>1. (l + 1) + 1 = l + 2
    OBVIOUS
  <2>2. ev.kind = "KPar" /\ ev.data = raw
    BY <1>1, <1>5, <1>6, <2>1
  <2>3. "key" \in st.cap
    BY <1>2
  <2>4. Moved /\ st' = [st EXCEPT !.keyRaw = ev.data]
    BY <1>4, <2>2, <2>3, KeyPart
  <2>5. /\ IsSt' /\ st'.root = st.root /\ st'.dep = st.dep /\ st'.cap = st.cap
        /\ st'.expectVal = st.expectVal /\ st'.cur = st.cur /\ st'.keyRaw = ev.data /\ st'.seen = st.seen
    BY <1>3, <2>4 DEF IsSt, StFields
  <2>6. Runs'
    BY <1>2, <1>3, <2>4, <2>5, RunsOn, Zenon DEF Moved, Same0
  <2>7. pos' = l + 3
    BY <1>6, <2>4 DEF Moved
  <2>8. InKey(l, key)'
    BY <1>2, <1>6, <2>2, <2>5, <2>6, <2>7, Zenon DEF InKey, At, n, raw
  <2> QED  BY <2>4, <2>5, <2>8, Zenon DEF Steady
<1>7. CASE ~(n = 3 /\ pos = l + 2)
  <2>1. pos + 1 = (l + 1) + n /\ ev.kind = "KEnd" /\ st.keyRaw = raw
    <3>1. (l + 1) + 1 = l + 2 /\ (l + 1) + 2 = l + 3
      OBVIOUS
    <3> QED  BY <1>1, <1>2, <1>5, <1>7, <3>1
  <2>2. "key" \in st.cap
    BY <1>2
  <2>3. Moved /\ st' = [st EXCEPT !.cap = @ \ {"key"}, !.cur = Find(st.keyRaw), !.expectVal = TRUE]
    BY <1>4, <2>1, <2>2, KeyOver
  <2>4. /\ IsSt' /\ st'.root = st.root /\ st'.dep = st.dep /\ st'.cap = st.cap \ {"key"}
        /\ st'.expectVal = TRUE /\ st'.cur = Find(st.keyRaw) /\ st'.seen = st.seen
    BY <1>3, <2>3 DEF IsSt, StFields
  <2>5. Runs'
    BY <1>2, <1>3, <2>3, <2>4, RunsOn, Zenon DEF Moved, Same0
  <2>6. pos' = (l + 1) + n /\ st'.cap = {}
    BY <1>2, <2>1, <2>3, <2>4 DEF Moved
  <2>7. n' = n /\ raw' = raw
    BY DEF n, raw
  <2>8. st'.cur = Find(raw) /\ Find(raw)' = Find(raw)
    <3>1. call' = call
      BY <2>3, Zenon DEF Moved
    <3> QED  BY <2>1, <2>4, <3>1 DEF Find, raw
  <2>9. AtValue((l + 1) + n, Find(raw))'
    BY <1>2, <2>4, <2>5, <2>6, <2>8, Zenon DEF AtValue, At, n, raw
  <2> QED  BY <2>3, <2>4, <2>9, Zenon DEF Steady, n, raw
<1> QED  BY <1>6, <1>7

\* The value of a key that no field has.
LEMMA UnknownBegins ==
    \A v \in Nat :
        AtValue(v, 0) /\ v <= Len(Evs) /\ Evs[v].kind \in Beginnings /\ Next =>
            /\ Steady
            /\ IF Evs[v].kind \in {"True", "False", "Null"} THEN AtItem(v)' ELSE InVal(v, 0)'
<1> SUFFICES ASSUME NEW v \in Nat, AtValue(v, 0), v <= Len(Evs), Evs[v].kind \in Beginnings, Next
             PROVE  /\ Steady
                    /\ IF Evs[v].kind \in {"True", "False", "Null"} THEN AtItem(v)' ELSE InVal(v, 0)'
  OBVIOUS
<1>1. Runs /\ pos = v /\ st.dep = 1 /\ st.cap = {} /\ st.expectVal = TRUE /\ st.cur = 0
  BY Zenon DEF AtValue, At
<1>2. IsSt /\ st.root = TRUE /\ Len(Evs) \in Nat
  BY <1>1, Zenon DEF Runs
<1>3. Reads1 /\ ev = Evs[v]
  BY <1>1, Zenon DEF Reads1, ev, Evs
<1>4. Moved /\ st' = [st EXCEPT !.expectVal = FALSE, !.dep = IF ev.kind \in Composite THEN @ + 1 ELSE @]
  BY <1>1, <1>3, UnknownStep
<1>5. /\ IsSt' /\ st'.root = st.root /\ st'.dep = (IF ev.kind \in Composite THEN st.dep + 1 ELSE st.dep)
      /\ st'.cap = st.cap /\ st'.expectVal = FALSE /\ st'.cur = st.cur /\ st'.seen = st.seen
  BY <1>2, <1>4 DEF IsSt, StFields
<1>6. Runs'
  BY <1>1, <1>2, <1>4, <1>5, RunsOn, Zenon DEF Moved, Same0
<1>7. pos' = v + 1 /\ Evs' = Evs /\ st'.cap = {} /\ st'.cur = 0
  BY <1>1, <1>4, <1>5 DEF Moved, Evs
<1>8. st'.dep = IF Evs[v].kind \in Composite THEN 2 ELSE 1
  BY <1>1, <1>3, <1>5
<1>9. Steady
  BY <1>4, <1>5, Zenon DEF Steady
<1>10. CASE Evs[v].kind \in {"True", "False", "Null"}
  <2>1. st'.dep = 1
    BY <1>8, <1>10 DEF Composite
  <2>2. AtItem(v)'
    BY <1>5, <1>6, <1>7, <2>1, Zenon DEF AtItem, At
  <2> QED  BY <1>9, <1>10, <2>2
<1>11. CASE Evs[v].kind \notin {"True", "False", "Null"}
  <2>1. Evs[v].kind \in {"SBeg", "NBeg"} \union Composite
    BY <1>11 DEF Beginnings, Composite
  <2>2. Begun(Evs, v, v + 1)
    BY <2>1, BeginsBegun
  <2>3. Begun(Evs, v, pos)'
    BY <1>7, <2>2, Zenon DEF Begun, Level, Among
  <2>4. CASE Evs[v].kind = "SBeg"
    <3>1. st'.dep = 1
      BY <1>8, <2>4 DEF Composite
    <3>2. InStr(v, 0)'
      BY <1>5, <1>6, <1>7, <2>3, <2>4, <3>1, Zenon DEF InStr, At
    <3> QED  BY <1>9, <1>11, <3>2, Zenon DEF InVal
  <2>5. CASE Evs[v].kind = "NBeg"
    <3>1. st'.dep = 1
      BY <1>8, <2>5 DEF Composite
    <3>2. InNum(v, 0)'
      BY <1>5, <1>6, <1>7, <2>3, <2>5, <3>1, Zenon DEF InNum, At
    <3> QED  BY <1>9, <1>11, <3>2, Zenon DEF InVal
  <2>6. CASE Evs[v].kind \in Composite
    <3>1. st'.dep = 1 + Level(Evs, v, (v + 1) - 1)
      <4>1. Level(Evs, v, (v + 1) - 1) = 1
        <5>1. (v + 1) - 1 = v
          OBVIOUS
        <5>2. Level(Evs, v, v) = 1
          BY <2>6, LevelFirst
        <5> QED  BY <5>1, <5>2
      <4> QED  BY <1>8, <2>6, <4>1
    <3>2. InRaw(v, 0)'
      BY <1>5, <1>6, <1>7, <2>3, <2>6, <3>1, Zenon DEF InRaw, At
    <3> QED  BY <1>9, <1>11, <3>2, Zenon DEF InVal
  <2> QED  BY <2>1, <2>4, <2>5, <2>6
<1> QED  BY <1>10, <1>11

LEMMA StrPart ==
    Reads1 /\ Next /\ ev.kind = "SPar" /\ "str" \in st.cap =>
        Moved /\ st' = [st EXCEPT !.strRaw = ev.data, !.numRaw = @]
<1> SUFFICES ASSUME Reads1, Next, ev.kind = "SPar", "str" \in st.cap
             PROVE  Moved /\ st' = [st EXCEPT !.strRaw = ev.data, !.numRaw = @]
  OBVIOUS
<1>1. ObjPart /\ Same0
  BY ObjActs, KindsApart
<1>2. "SPar" # "NPar"
  OBVIOUS
<1> QED  BY <1>1, <1>2, Zenon DEF ObjPart, Moved, Same0, Kept, Go

LEMMA NumPart ==
    Reads1 /\ Next /\ ev.kind = "NPar" /\ "num" \in st.cap =>
        Moved /\ st' = [st EXCEPT !.strRaw = @, !.numRaw = ev.data]
<1> SUFFICES ASSUME Reads1, Next, ev.kind = "NPar", "num" \in st.cap
             PROVE  Moved /\ st' = [st EXCEPT !.strRaw = @, !.numRaw = ev.data]
  OBVIOUS
<1>1. ObjPart /\ Same0
  BY ObjActs, KindsApart
<1>2. "SPar" # "NPar"
  OBVIOUS
<1> QED  BY <1>1, <1>2, Zenon DEF ObjPart, Moved, Same0, Kept, Go

\* Within a value: its inner events change nothing; nor does the end of one that
\* is not stored.
LEMMA RawGoes ==
    \A v \in Nat : \A u, p :
        InRaw(v, u) /\ pos = p /\ p <= Len(Evs) /\ Next /\ (u = 0 \/ ~Ends(Evs, v, p)) =>
            /\ Steady
            /\ Goes(Evs, v, p) => InRaw(v, u)'
            /\ Ends(Evs, v, p) => AtItem(p)'
<1> SUFFICES ASSUME NEW v \in Nat, NEW u, NEW p, InRaw(v, u), pos = p, p <= Len(Evs), Next,
                    u = 0 \/ ~Ends(Evs, v, p)
             PROVE  /\ Steady
                    /\ Goes(Evs, v, p) => InRaw(v, u)'
                    /\ Ends(Evs, v, p) => AtItem(p)'
  OBVIOUS
<1>1. /\ Runs /\ st.dep = 1 + Level(Evs, v, p - 1) /\ st.cap = (IF u = 0 THEN {} ELSE {"raw"})
      /\ st.expectVal = FALSE /\ st.cur = u
      /\ Evs[v].kind \in Composite /\ Begun(Evs, v, p)
      /\ u # 0 => st.rawBeg = Evs[v].loc.off /\ st.rawDep = 2
  BY Zenon DEF InRaw, At
<1>2. IsSt /\ st.root = TRUE /\ Len(Evs) \in Nat /\ p \in Nat
  BY <1>1, Zenon DEF Runs
<1>3. Reads1 /\ ev = Evs[p]
  BY <1>1, Zenon DEF Reads1, ev, Evs
<1>4. Evs[v].kind \notin {"SBeg", "NBeg"} /\ v < p /\ Level(Evs, v, p - 1) > 0
  BY <1>1 DEF Composite, Begun
<1>5. p - 1 \in Nat /\ v <= (p - 1) + 1 /\ (p - 1) + 1 = p /\ (p + 1) - 1 = p
  BY <1>2, <1>4
<1>6. Level(Evs, v, p - 1) \in Int /\ Level(Evs, v, p) = Level(Evs, v, p - 1) + Rise(Evs[p].kind)
  BY <1>5, LevelStep
<1>7. Ends(Evs, v, p) <=> Evs[p].kind \in {"OEnd", "AEnd"} /\ Level(Evs, v, p - 1) = 1
  BY <1>4, Zenon DEF Ends
<1>8. st.dep \in Int /\ st.dep # 1 /\ (st.dep = 2 <=> Level(Evs, v, p - 1) = 1)
  BY <1>1, <1>4, <1>6
<1>9. Quiet
  <2>1. st.cap \subseteq {"raw"} /\ (u = 0 => "raw" \notin st.cap)
    BY <1>1
  <2>2. ev.kind \in {"OEnd", "AEnd"} => "raw" \notin st.cap \/ st.dep # st.rawDep
    BY <1>1, <1>3, <1>7, <1>8, <2>1
  <2> QED  BY <1>1, <1>8, <2>1, <2>2, Zenon DEF Quiet
<1>10. Moved /\ st' = [st EXCEPT !.dep = @ + Rise(ev.kind)]
  BY <1>3, <1>8, <1>9, QuietStep
<1>11. /\ IsSt' /\ st'.root = st.root /\ st'.dep = st.dep + Rise(ev.kind)
       /\ st'.cap = st.cap /\ st'.expectVal = st.expectVal /\ st'.cur = st.cur /\ st'.seen = st.seen
       /\ st'.rawBeg = st.rawBeg /\ st'.rawDep = st.rawDep
  BY <1>2, <1>10 DEF IsSt, StFields
<1>12. Runs'
  BY <1>1, <1>2, <1>10, <1>11, RunsOn, Zenon DEF Moved, Same0
<1>13. pos' = p + 1 /\ Evs' = Evs
  BY <1>10 DEF Moved, Evs
<1>14. st'.dep = 1 + Level(Evs, v, p)
  <2>1. PICK a, b, r : a = Level(Evs, v, p - 1) /\ b = Level(Evs, v, p) /\ r = Rise(ev.kind)
    OBVIOUS
  <2>2. r \in Int
    BY <2>1 DEF Rise
  <2>3. a \in Int /\ b = a + r /\ st'.dep = (1 + a) + r
    BY <1>1, <1>3, <1>6, <1>11, <2>1
  <2> QED  BY <2>1, <2>2, <2>3
<1>15. Steady
  BY <1>10, <1>11, Zenon DEF Steady
<1>16. ASSUME Goes(Evs, v, p)  PROVE InRaw(v, u)'
  <2>1. Begun(Evs, v, p + 1)
    BY <1>16, Zenon DEF Goes
  <2>2. Begun(Evs, v, pos)'
    BY <1>13, <2>1, Zenon DEF Begun, Level, Among
  <2>3. st'.dep = 1 + Level(Evs, v, (p + 1) - 1)
    BY <1>5, <1>14
  <2> QED  BY <1>1, <1>11, <1>12, <1>13, <2>2, <2>3, Zenon DEF InRaw, At
<1>17. ASSUME Ends(Evs, v, p)  PROVE AtItem(p)'
  <2>1. u = 0 /\ st'.cap = {} /\ st'.cur = 0
    BY <1>1, <1>11, <1>17
  <2>2. st'.dep = 1
    <3>1. Rise(Evs[p].kind) = -1
      BY <1>7, <1>17 DEF Rise, Composite
    <3> QED  BY <1>6, <1>7, <1>14, <1>17, <3>1
  <2> QED  BY <1>1, <1>11, <1>12, <1>13, <2>1, <2>2, Zenon DEF AtItem, At
<1> QED  BY <1>15, <1>16, <1>17

LEMMA StrGoes ==
    \A v \in Nat : \A u, p :
        InStr(v, u) /\ pos = p /\ p <= Len(Evs) /\ Next /\ Goes(Evs, v, p) => Steady /\ InStr(v, u)'
<1> SUFFICES ASSUME NEW v \in Nat, NEW u, NEW p, InStr(v, u), pos = p, p <= Len(Evs), Next,
                    Goes(Evs, v, p)
             PROVE  Steady /\ InStr(v, u)'
  OBVIOUS
<1>1. /\ Runs /\ st.dep = 1 /\ st.cap = (IF u = 0 THEN {} ELSE {"str"})
      /\ st.expectVal = FALSE /\ st.cur = u /\ Evs[v].kind = "SBeg"
      /\ u # 0 => st.strLoc = Evs[v].loc
  BY Zenon DEF InStr, At
<1>2. IsSt /\ st.root = TRUE /\ Len(Evs) \in Nat
  BY <1>1, Zenon DEF Runs
<1>3. Reads1 /\ ev = Evs[p]
  BY <1>1, Zenon DEF Reads1, ev, Evs
<1>4. p = v + 1 /\ ev.kind = "SPar" /\ Begun(Evs, v, p + 1)
  BY <1>1, <1>3, Zenon DEF Goes
<1>5. /\ Moved /\ IsSt' /\ st'.root = st.root /\ st'.dep = st.dep
      /\ st'.cap = st.cap /\ st'.expectVal = st.expectVal /\ st'.cur = st.cur /\ st'.seen = st.seen
      /\ u # 0 => st'.strLoc = st.strLoc /\ st'.strRaw = Evs[v + 1].data
  <2>1. CASE u = 0
    <3>1. Quiet
      <4>1. st.cap \subseteq {"raw"} /\ ev.kind # "KBeg" /\ ev.kind \notin {"OEnd", "AEnd"}
        BY <1>1, <1>4, <2>1
      <4> QED  BY <1>1, <4>1, Zenon DEF Quiet
    <3>2. Moved /\ st' = [st EXCEPT !.dep = @ + Rise(ev.kind)]
      BY <1>1, <1>3, <3>1, QuietStep
    <3>3. Rise(ev.kind) = 0
      BY <1>4 DEF Rise, Composite
    <3> QED  BY <1>1, <1>2, <2>1, <3>2, <3>3 DEF IsSt, StFields
  <2>2. CASE u # 0
    <3>1. "str" \in st.cap
      BY <1>1, <2>2
    <3>2. Moved /\ st' = [st EXCEPT !.strRaw = ev.data, !.numRaw = @]
      BY <1>3, <1>4, <3>1, StrPart
    <3> QED  BY <1>2, <1>3, <1>4, <3>2 DEF IsSt, StFields
  <2> QED  BY <2>1, <2>2
<1>6. Runs'
  BY <1>1, <1>2, <1>5, RunsOn, Zenon DEF Moved, Same0
<1>7. pos' = p + 1 /\ Evs' = Evs /\ pos' # v + 1
  BY <1>4, <1>5 DEF Moved, Evs
<1>8. Begun(Evs, v, pos)'
  BY <1>4, <1>7, Zenon DEF Begun, Level, Among
<1>9. InStr(v, u)'
  BY <1>1, <1>5, <1>6, <1>7, <1>8, Zenon DEF InStr, At
<1> QED  BY <1>5, <1>9, Zenon DEF Steady

LEMMA NumGoes ==
    \A v \in Nat : \A u, p :
        InNum(v, u) /\ pos = p /\ p <= Len(Evs) /\ Next /\ Goes(Evs, v, p) => Steady /\ InNum(v, u)'
<1> SUFFICES ASSUME NEW v \in Nat, NEW u, NEW p, InNum(v, u), pos = p, p <= Len(Evs), Next,
                    Goes(Evs, v, p)
             PROVE  Steady /\ InNum(v, u)'
  OBVIOUS
<1>1. /\ Runs /\ st.dep = 1 /\ st.cap = (IF u = 0 THEN {} ELSE {"num"})
      /\ st.expectVal = FALSE /\ st.cur = u /\ Evs[v].kind = "NBeg"
      /\ u # 0 => st.numLoc = Evs[v].loc
  BY Zenon DEF InNum, At
<1>2. IsSt /\ st.root = TRUE /\ Len(Evs) \in Nat
  BY <1>1, Zenon DEF Runs
<1>3. Reads1 /\ ev = Evs[p]
  BY <1>1, Zenon DEF Reads1, ev, Evs
<1>4. p = v + 1 /\ ev.kind = "NPar" /\ Begun(Evs, v, p + 1)
  BY <1>1, <1>3, Zenon DEF Goes
<1>5. /\ Moved /\ IsSt' /\ st'.root = st.root /\ st'.dep = st.dep
      /\ st'.cap = st.cap /\ st'.expectVal = st.expectVal /\ st'.cur = st.cur /\ st'.seen = st.seen
      /\ u # 0 => st'.numLoc = st.numLoc /\ st'.numRaw = Evs[v + 1].data
  <2>1. CASE u = 0
    <3>1. Quiet
      <4>1. st.cap \subseteq {"raw"} /\ ev.kind # "KBeg" /\ ev.kind \notin {"OEnd", "AEnd"}
        BY <1>1, <1>4, <2>1
      <4> QED  BY <1>1, <4>1, Zenon DEF Quiet
    <3>2. Moved /\ st' = [st EXCEPT !.dep = @ + Rise(ev.kind)]
      BY <1>1, <1>3, <3>1, QuietStep
    <3>3. Rise(ev.kind) = 0
      BY <1>4 DEF Rise, Composite
    <3> QED  BY <1>1, <1>2, <2>1, <3>2, <3>3 DEF IsSt, StFields
  <2>2. CASE u # 0
    <3>1. "num" \in st.cap
      BY <1>1, <2>2
    <3>2. Moved /\ st' = [st EXCEPT !.strRaw = @, !.numRaw = ev.data]
      BY <1>3, <1>4, <3>1, NumPart
    <3> QED  BY <1>2, <1>3, <1>4, <3>2 DEF IsSt, StFields
  <2> QED  BY <2>1, <2>2
<1>6. Runs'
  BY <1>1, <1>2, <1>5, RunsOn, Zenon DEF Moved, Same0
<1>7. pos' = p + 1 /\ Evs' = Evs /\ pos' # v + 1
  BY <1>4, <1>5 DEF Moved, Evs
<1>8. Begun(Evs, v, pos)'
  BY <1>4, <1>7, Zenon DEF Begun, Level, Among
<1>9. InNum(v, u)'
  BY <1>1, <1>5, <1>6, <1>7, <1>8, Zenon DEF InNum, At
<1> QED  BY <1>5, <1>9, Zenon DEF Steady

\* The end of a string or number that is not stored.
LEMMA UnknownEnds ==
    \A v \in Nat : \A p :
        (InStr(v, 0) \/ InNum(v, 0)) /\ pos = p /\ p <= Len(Evs) /\ Next /\ Ends(Evs, v, p) =>
            Steady /\ AtItem(p)'
<1> SUFFICES ASSUME NEW v \in Nat, NEW p, InStr(v, 0) \/ InNum(v, 0), pos = p, p <= Len(Evs), Next,
                    Ends(Evs, v, p)
             PROVE  Steady /\ AtItem(p)'
  OBVIOUS
<1>1. /\ Runs /\ st.dep = 1 /\ st.cap = {} /\ st.expectVal = FALSE /\ st.cur = 0
      /\ Evs[v].kind = "SBeg" \/ Evs[v].kind = "NBeg"
  BY Zenon DEF InStr, InNum, At
<1>2. IsSt /\ st.root = TRUE /\ Len(Evs) \in Nat
  BY <1>1, Zenon DEF Runs
<1>3. Reads1 /\ ev = Evs[p]
  BY <1>1, Zenon DEF Reads1, ev, Evs
<1>4. ev.kind \in {"SEnd", "NEnd"}
  BY <1>1, <1>3 DEF Ends
<1>5. Quiet
  <2>1. st.cap \subseteq {"raw"} /\ ev.kind # "KBeg" /\ ev.kind \notin {"OEnd", "AEnd"}
    BY <1>1, <1>4
  <2> QED  BY <1>1, <2>1, Zenon DEF Quiet
<1>6. Moved /\ st' = [st EXCEPT !.dep = @ + Rise(ev.kind)]
  BY <1>1, <1>3, <1>5, QuietStep
<1>7. Rise(ev.kind) = 0
  BY <1>4 DEF Rise, Composite
<1>8. /\ IsSt' /\ st'.root = st.root /\ st'.dep = 1
      /\ st'.cap = st.cap /\ st'.expectVal = st.expectVal /\ st'.cur = st.cur /\ st'.seen = st.seen
  BY <1>1, <1>2, <1>6, <1>7 DEF IsSt, StFields
<1>9. Runs'
  BY <1>1, <1>2, <1>6, <1>8, RunsOn, Zenon DEF Moved, Same0
<1>10. pos' = p + 1
  BY <1>6 DEF Moved
<1>11. AtItem(p)'
  BY <1>1, <1>8, <1>9, <1>10, Zenon DEF AtItem, At
<1> QED  BY <1>6, <1>8, <1>11, Zenon DEF Steady

\* The bracket that closes the object.
LEMMA Closed ==
    \A l \in Nat :
        AtItem(l) /\ l + 1 <= Len(Evs) /\ Evs[l + 1].kind = "OEnd" /\ Next => Steady /\ AtEnd(l)'
<1> SUFFICES ASSUME NEW l \in Nat, AtItem(l), l + 1 <= Len(Evs), Evs[l + 1].kind = "OEnd", Next
             PROVE  Steady /\ AtEnd(l)'
  OBVIOUS
<1>1. Runs /\ pos = l + 1 /\ st.dep = 1 /\ st.cap = {} /\ st.expectVal = FALSE /\ st.cur = 0
  BY Zenon DEF AtItem, At
<1>2. IsSt /\ st.root = TRUE /\ Len(Evs) \in Nat
  BY <1>1, Zenon DEF Runs
<1>3. Reads1 /\ ev = Evs[l + 1]
  BY <1>1, Zenon DEF Reads1, ev, Evs
<1>4. Quiet
  <2>1. st.cap \subseteq {"raw"} /\ ev.kind # "KBeg" /\ "raw" \notin st.cap
    BY <1>1, <1>3
  <2> QED  BY <1>1, <2>1, Zenon DEF Quiet
<1>5. Moved /\ st' = [st EXCEPT !.dep = @ + Rise(ev.kind)]
  BY <1>1, <1>3, <1>4, QuietStep
<1>6. Rise(ev.kind) = -1
  BY <1>3 DEF Rise, Composite
<1>7. /\ IsSt' /\ st'.root = st.root /\ st'.dep = 0
      /\ st'.cap = st.cap /\ st'.expectVal = st.expectVal /\ st'.cur = st.cur /\ st'.seen = st.seen
  <2>1. st.dep + Rise(ev.kind) = 0
    BY <1>1, <1>6
  <2> QED  BY <1>2, <1>5, <2>1 DEF IsSt, StFields
<1>8. Runs'
  BY <1>1, <1>2, <1>5, <1>7, RunsOn, Zenon DEF Moved, Same0
<1>9. pos' = l + 2
  BY <1>1, <1>5 DEF Moved
<1>10. AtEnd(l)'
  BY <1>1, <1>7, <1>8, <1>9, Zenon DEF AtEnd, At
<1> QED  BY <1>5, <1>7, <1>10, Zenon DEF Steady

-----------------------------------------------------------------------------
(* Values that are stored, and those that stop the call.                   *)

Failed(cause) == cause \notin {NoCause, "missing", "none"}
Halts ==
    /\ Failed(ret'.cause) /\ Same0 /\ UNCHANGED <<st, pos, dst>> /\ Grown(arena, arena')

LEMMA Causes ==
    \A c \in {"want_str", "want_num", "want_bool", "want_val", "fld_typ", "bad_dst", "arg_arena", "str",
              "num", "arg_cap", "want_obj", "want_obeg", "want_abeg"} : Failed(c)
<1>1. \A c \in {"want_str", "want_num", "want_bool", "want_val", "fld_typ", "bad_dst", "arg_arena", "str",
                "num", "arg_cap", "want_obj", "want_obeg", "want_abeg"} : c # "missing" /\ c # "none"
  OBVIOUS
<1>2. /\ "want_str" # NoCause /\ "want_num" # NoCause /\ "want_bool" # NoCause /\ "want_val" # NoCause
      /\ "fld_typ" # NoCause /\ "bad_dst" # NoCause /\ "arg_arena" # NoCause /\ "str" # NoCause
      /\ "num" # NoCause /\ "arg_cap" # NoCause /\ "want_obj" # NoCause /\ "want_obeg" # NoCause
      /\ "want_abeg" # NoCause
  BY Zenon DEF NoCause
<1> QED  BY <1>1, <1>2, Zenon DEF Failed

LEMMA StopHalts ==
    \A c, l : Failed(c) /\ Stop(c, l) /\ Same0 /\ Grown(arena, arena') => Halts
<1> SUFFICES ASSUME NEW c, NEW l, Failed(c), Stop(c, l), Same0, Grown(arena, arena')
             PROVE  Halts
  OBVIOUS
<1>1. ret'.cause = c /\ UNCHANGED <<st, pos, dst>>
  <2>1. ret' = Returned(c, l, 0)
    BY Zenon DEF Stop
  <2>2. Returned(c, l, 0).cause = c
    BY DEF Returned
  <2> QED  BY <2>1, <2>2, Zenon DEF Stop
<1> QED  BY <1>1, Zenon DEF Halts

LEMMA WantCauses == \A typ \in Types : Failed(Want(typ))
<1>1. SUFFICES ASSUME NEW typ \in Types  PROVE Failed(Want(typ))
  OBVIOUS
<1>2. Want(typ) \in {"want_str", "want_num", "want_bool", "want_val", "fld_typ"}
  BY DEF Want
<1> QED  BY <1>2, Causes

LEMMA SeenIs ==
    ASSUME Called, NEW u \in 1 .. Len(call.def)
    PROVE  Seen(u) = {u}
<1>1. Len(call.def) \in Nat /\ Word \in Nat
  BY CallIs, Bounds
<1>2. WideDef \/ u <= Word
  BY <1>1 DEF WideDef
<1> QED  BY <1>2, Zenon DEF Seen

\* The state that goes with a value that is over.
Over(s) ==
    /\ s = [x \in StFields |-> s[x]] /\ s.root = TRUE
    /\ s.dep = 1 /\ s.cap = {} /\ s.expectVal = FALSE /\ s.seen = st.seen

\* A value is stored, or stops the call; then the next item begins behind event p.
Taken(k, p) == Same0 /\ Grown(arena, arena') /\ Stored(k + 1, dst', arena', st'.seen) /\ AtItem(p)'

\* Field u, that of item k + 1, may get v at event p; s is what else changes.
CanStore(k, u, v, s, p) ==
    /\ Called /\ Runs /\ pos = p /\ st.cur = u /\ u \in 1 .. Len(call.def) /\ FieldOf(Items[k + 1]) = u
    /\ Stored(k, dst, arena, st.seen) /\ Same0 /\ Grown(arena, arena')
    /\ Holds(v, arena', Means(Items[k + 1].val, call.def[u].typ))
    /\ Over(s)

LEMMA StoreStep ==
    \A k \in Nat : \A u, v, s, p :
        CanStore(k, u, v, s, p) /\ Store(v, s) => (Taken(k, p) /\ call.def[u].dst) \/ (Halts /\ ~call.def[u].dst)
<1> SUFFICES ASSUME NEW k \in Nat, NEW u, NEW v, NEW s, NEW p, CanStore(k, u, v, s, p), Store(v, s)
             PROVE  (Taken(k, p) /\ call.def[u].dst) \/ (Halts /\ ~call.def[u].dst)
  OBVIOUS
<1>0. /\ Called /\ Runs /\ pos = p /\ st.cur = u /\ u \in 1 .. Len(call.def) /\ FieldOf(Items[k + 1]) = u
      /\ Stored(k, dst, arena, st.seen) /\ Same0 /\ Grown(arena, arena')
      /\ Holds(v, arena', Means(Items[k + 1].val, call.def[u].typ))
      /\ Over(s)
  BY Zenon DEF CanStore
<1>1. f = call.def[u]
  BY <1>0, Zenon DEF f
<1>2. CASE f.dst
  <2>1. /\ dst' = [dst EXCEPT ![u] = v] /\ pos' = pos + 1 /\ ret' = ret
        /\ st' = [s EXCEPT !.seen = @ \union Seen(u), !.cur = 0]
    BY <1>0, <1>2, Zenon DEF Store, Go
  <2>2. s = [x \in StFields |-> s[x]] /\ s.root = TRUE
        /\ s.dep = 1 /\ s.cap = {} /\ s.expectVal = FALSE /\ s.seen = st.seen
    BY <1>0, Zenon DEF Over
  <2>3. Seen(u) = {u}
    BY <1>0, SeenIs
  <2>4. /\ IsSt' /\ st'.root = TRUE /\ st'.dep = 1 /\ st'.cap = {} /\ st'.expectVal = FALSE /\ st'.cur = 0
        /\ st'.seen = st.seen \union {u}
    BY <2>1, <2>2, <2>3 DEF IsSt, StFields
  <2>5. Runs'
    BY <1>0, <2>1, <2>4, RunsOn
  <2>6. AtItem(p)'
    BY <1>0, <2>1, <2>4, <2>5, Zenon DEF AtItem, At
  <2>7. Stored(k + 1, [dst EXCEPT ![u] = v], arena', st.seen \union {u})
    <3>1. PICK D, a, b, n : D = dst /\ a = arena /\ b = arena' /\ n = st.seen
      OBVIOUS
    <3>2. Stored(k, D, a, n) /\ Grown(a, b) /\ Holds(v, b, Means(Items[k + 1].val, call.def[u].typ))
      BY <1>0, <3>1
    <3>3. Stored(k + 1, [D EXCEPT ![u] = v], b, n \union {u})
      BY <1>0, <3>2, StoredOne
    <3> QED  BY <3>1, <3>3
  <2> QED  BY <1>0, <1>1, <1>2, <2>1, <2>4, <2>6, <2>7, Zenon DEF Taken
<1>3. CASE ~f.dst
  <2>1. Stop("bad_dst", NoLoc)
    BY <1>3, Zenon DEF Store
  <2>2. Failed("bad_dst")
    BY Causes
  <2> QED  BY <1>0, <1>1, <1>3, <2>1, <2>2, StopHalts
<1> QED  BY <1>2, <1>3

LEMMA Stopped ==
    ASSUME NEW k, NEW u, Called, call.mode = "obj", k \in Nat, FieldOf(Items[k + 1]) = u,
           u \in 1 .. Len(call.def), IsValue(Items[k + 1].val, MaxDep - 1)
    PROVE  Stops(Items[k + 1]) <=> ~Fits(Items[k + 1].val, call.def[u].typ) \/ ~call.def[u].dst
<1>1. Len(call.def) \in Nat
  BY CallIs
<1>2. u # 0
  BY <1>1
<1> DEFINE A == FieldOf(Items[k + 1]) # 0 /\ LET d == call.def[FieldOf(Items[k + 1])]
                                             IN  ~Fits(Items[k + 1].val, d.typ) \/ ~d.dst
           B == Items[k + 1].val[1] # "{"
           C == \/ Items[k + 1].val[1] \in {"{", "["}
                \/ IsString(Items[k + 1].val) /\ ~Fits(Items[k + 1].val, "bytes")
           D == CASE call.mode = "obj" -> A [] call.mode = "arrobj" -> B [] OTHER -> C
<1>3. A <=> ~Fits(Items[k + 1].val, call.def[u].typ) \/ ~call.def[u].dst
  BY <1>2, Zenon
<1>4. Stops(Items[k + 1]) <=> ~IsValue(Items[k + 1].val, MaxDep - 1) \/ D
  BY Zenon DEF Stops
<1>5. D <=> A
  <2> HIDE DEF A, B, C
  <2> QED  OBVIOUS
<1> QED  BY <1>3, <1>4, <1>5, Zenon

\* An item with a key that no field has.
LEMMA Unstopped ==
    ASSUME NEW it, call.mode = "obj", FieldOf(it) = 0, IsValue(it.val, MaxDep - 1)
    PROVE  ~Stops(it)
<1> DEFINE A == FieldOf(it) # 0 /\ LET d == call.def[FieldOf(it)] IN  ~Fits(it.val, d.typ) \/ ~d.dst
           B == it.val[1] # "{"
           C == it.val[1] \in {"{", "["} \/ (IsString(it.val) /\ ~Fits(it.val, "bytes"))
           D == CASE call.mode = "obj" -> A [] call.mode = "arrobj" -> B [] OTHER -> C
<1>1. Stops(it) <=> ~IsValue(it.val, MaxDep - 1) \/ D
  BY Zenon DEF Stops
<1>2. D <=> A
  <2> HIDE DEF A, B, C
  <2> QED  OBVIOUS
<1>3. ~A
  OBVIOUS
<1> QED  BY <1>1, <1>2, <1>3, Zenon

-----------------------------------------------------------------------------
(* The value of a field, from its first event to its last.                 *)

\* The first event of the value of field u.
Opens(v, u) == Called /\ AtValue(v, u) /\ u \in 1 .. Len(call.def) /\ v <= Len(Evs) /\ arena \in Seq(OutChars)

LEMMA OpensIs ==
    \A v, u : Opens(v, u) => /\ Reads1 /\ ev = Evs[v] /\ TopValue /\ st.cur # 0 /\ f = call.def[u]
                             /\ call.def[u].typ \in Types
<1> SUFFICES ASSUME NEW v, NEW u, Opens(v, u)
             PROVE  /\ Reads1 /\ ev = Evs[v] /\ TopValue /\ st.cur # 0 /\ f = call.def[u]
                    /\ call.def[u].typ \in Types
  OBVIOUS
<1>1. Called /\ u \in 1 .. Len(call.def) /\ v <= Len(Evs)
  BY Zenon DEF Opens
<1>2. Runs /\ pos = v /\ st.dep = 1 /\ st.expectVal = TRUE /\ st.cur = u
  BY Zenon DEF Opens, AtValue, At
<1>3. Len(call.def) \in Nat /\ call.def[u].typ \in Types
  BY <1>1, CallIs
<1>4. u # 0
  BY <1>1, <1>3
<1>5. Reads1 /\ ev = Evs[v] /\ TopValue /\ f = call.def[u]
  BY <1>1, <1>2, Zenon DEF Reads1, ev, Evs, TopValue, f
<1> QED  BY <1>2, <1>3, <1>4, <1>5

LEMMA MismatchHalts ==
    \A v \in Nat : \A u :
        Opens(v, u) /\ Next /\ Evs[v].kind \in Beginnings \ Takes(call.def[u].typ) => Halts
<1> SUFFICES ASSUME NEW v \in Nat, NEW u, Opens(v, u), Next,
                    Evs[v].kind \in Beginnings \ Takes(call.def[u].typ)
             PROVE  Halts
  OBVIOUS
<1>1. /\ Reads1 /\ ev = Evs[v] /\ TopValue /\ st.cur # 0 /\ f = call.def[u]
      /\ call.def[u].typ \in Types /\ arena \in Seq(OutChars)
  BY OpensIs, Zenon DEF Opens
<1>2. ev.kind \in Beginnings /\ ev.kind \notin Takes(f.typ)
  BY <1>1
<1>3. ~ObjCapture /\ ~ObjLiteral
  BY <1>2, Zenon DEF ObjCapture, ObjLiteral
<1>4. ObjMismatch /\ Same0
  BY <1>1, <1>2, <1>3, ObjActs, KindsApart
<1>5. Stop(Want(f.typ), ev.loc) /\ UNCHANGED arena
  BY <1>4, Zenon DEF ObjMismatch
<1>6. Failed(Want(f.typ)) /\ Grown(arena, arena')
  BY <1>1, <1>5, WantCauses, Unmoved
<1> QED  BY <1>4, <1>5, <1>6, StopHalts

LEMMA CaptureBegins ==
    \A v \in Nat : \A u :
        Opens(v, u) /\ Next /\ Evs[v].kind \in Composite \union {"SBeg", "NBeg"}
        /\ Evs[v].kind \in Takes(call.def[u].typ) =>
            Steady /\ InVal(v, u)'
<1> SUFFICES ASSUME NEW v \in Nat, NEW u, Opens(v, u), Next,
                    Evs[v].kind \in Composite \union {"SBeg", "NBeg"},
                    Evs[v].kind \in Takes(call.def[u].typ)
             PROVE  Steady /\ InVal(v, u)'
  OBVIOUS
<1>1. /\ Reads1 /\ ev = Evs[v] /\ TopValue /\ st.cur # 0 /\ f = call.def[u]
      /\ call.def[u].typ \in Types
  BY OpensIs
<1>2. /\ Runs /\ pos = v /\ st.dep = 1 /\ st.cap = {} /\ st.cur = u
  BY Zenon DEF Opens, AtValue, At
<1>3. IsSt /\ st.root = TRUE /\ Len(Evs) \in Nat /\ u # 0
  BY <1>1, <1>2, Zenon DEF Runs
<1>4. ev.kind \in Composite \union {"SBeg", "NBeg"} /\ ev.kind \in Takes(f.typ)
      /\ ev.kind \in Beginnings /\ ev.kind \notin {"True", "False", "Null"}
  <2>1. ev.kind \in Composite \union {"SBeg", "NBeg"} /\ ev.kind \in Takes(f.typ)
    BY <1>1
  <2> QED  BY <2>1, KindsApart
<1>5. ~ObjMismatch
  BY <1>4, Zenon DEF ObjMismatch
<1>6. ObjCapture /\ Same0
  BY <1>1, <1>4, <1>5, ObjActs, KindsApart
<1> DEFINE s == [st EXCEPT !.expectVal = FALSE]
           A == Go([s EXCEPT !.cap = @ \union {"raw"}, !.rawBeg = ev.loc.off,
                             !.rawDep = s.dep + 1, !.dep = @ + 1])
           B == Go([s EXCEPT !.cap = @ \union {"str"}, !.strRaw = << >>, !.strLoc = ev.loc])
           C == Go([s EXCEPT !.cap = @ \union {"num"}, !.numRaw = << >>, !.numLoc = ev.loc])
<1>7. Kept /\ CASE ev.kind \in Composite -> A [] ev.kind = "SBeg" -> B [] ev.kind = "NBeg" -> C
  BY <1>6, Zenon DEF ObjCapture
<1>8. /\ ev.kind \in Composite => A
      /\ ev.kind = "SBeg" => B
      /\ ev.kind = "NBeg" => C
  <2> HIDE DEF A, B, C
  <2>1. "SBeg" \notin Composite /\ "NBeg" \notin Composite /\ "SBeg" # "NBeg"
    BY DEF Composite
  <2> QED  BY <1>7, <2>1
<1>9. Begun(Evs, v, v + 1)
  BY <1>1, <1>4, BeginsBegun
<1>10. UNCHANGED <<dst, arena, call, feed>> /\ Evs' = Evs
  BY <1>6, <1>7, Zenon DEF Kept, Same0, Evs
<1>11. CASE ev.kind \in Composite
  <2>1. /\ st' = [s EXCEPT !.cap = @ \union {"raw"}, !.rawBeg = ev.loc.off, !.rawDep = s.dep + 1, !.dep = @ + 1]
        /\ pos' = pos + 1 /\ ret' = ret
    BY <1>8, <1>11, Zenon DEF Go
  <2>2. /\ IsSt' /\ st'.root = TRUE /\ st'.dep = 2 /\ st'.cap = {"raw"} /\ st'.expectVal = FALSE
        /\ st'.cur = u /\ st'.rawBeg = ev.loc.off /\ st'.rawDep = 2 /\ st'.seen = st.seen
    <3>1. /\ s = [x \in StFields |-> s[x]] /\ s.root = TRUE /\ s.dep = 1 /\ s.cap = {} /\ s.expectVal = FALSE
          /\ s.cur = u /\ s.seen = st.seen
      BY <1>2, <1>3 DEF IsSt, StFields
    <3>2. s.dep + 1 = 2
      BY <3>1
    <3> HIDE DEF s
    <3>3. st' = [s EXCEPT !.cap = {"raw"}, !.rawBeg = ev.loc.off, !.rawDep = 2, !.dep = 2]
      BY <2>1, <3>1, <3>2
    <3> QED  BY <3>1, <3>3 DEF IsSt, StFields
  <2>3. Runs'
    BY <1>2, <1>6, <2>1, <2>2, RunsOn
  <2>4. Begun(Evs, v, pos)'
    BY <1>2, <1>9, <1>10, <2>1, Zenon DEF Begun, Level, Among
  <2>5. st'.dep = 1 + Level(Evs, v, (v + 1) - 1)
    <3>1. (v + 1) - 1 = v
      OBVIOUS
    <3>2. Level(Evs, v, v) = 1
      BY <1>1, <1>11, LevelFirst
    <3> QED  BY <2>2, <3>1, <3>2
  <2>6. InRaw(v, u)'
    BY <1>1, <1>2, <1>3, <1>10, <1>11, <2>1, <2>2, <2>3, <2>4, <2>5, Zenon DEF InRaw, At
  <2> QED  BY <1>10, <2>1, <2>2, <2>6, Zenon DEF Steady, Moved, InVal
<1>12. CASE ev.kind = "SBeg"
  <2>1. /\ st' = [s EXCEPT !.cap = @ \union {"str"}, !.strRaw = << >>, !.strLoc = ev.loc]
        /\ pos' = pos + 1 /\ ret' = ret
    BY <1>8, <1>12, Zenon DEF Go
  <2>2. /\ IsSt' /\ st'.root = TRUE /\ st'.dep = 1 /\ st'.cap = {"str"} /\ st'.expectVal = FALSE
        /\ st'.cur = u /\ st'.strRaw = << >> /\ st'.strLoc = ev.loc /\ st'.seen = st.seen
    BY <1>2, <1>3, <2>1 DEF IsSt, StFields
  <2>3. Runs'
    BY <1>2, <1>6, <2>1, <2>2, RunsOn
  <2>4. Begun(Evs, v, pos)'
    BY <1>2, <1>9, <1>10, <2>1, Zenon DEF Begun, Level, Among
  <2>5. InStr(v, u)'
    BY <1>1, <1>2, <1>3, <1>10, <1>12, <2>1, <2>2, <2>3, <2>4, Zenon DEF InStr, At
  <2> QED  BY <1>10, <2>1, <2>2, <2>5, Zenon DEF Steady, Moved, InVal
<1>13. CASE ev.kind = "NBeg"
  <2>1. /\ st' = [s EXCEPT !.cap = @ \union {"num"}, !.numRaw = << >>, !.numLoc = ev.loc]
        /\ pos' = pos + 1 /\ ret' = ret
    BY <1>8, <1>13, Zenon DEF Go
  <2>2. /\ IsSt' /\ st'.root = TRUE /\ st'.dep = 1 /\ st'.cap = {"num"} /\ st'.expectVal = FALSE
        /\ st'.cur = u /\ st'.numRaw = << >> /\ st'.numLoc = ev.loc /\ st'.seen = st.seen
    BY <1>2, <1>3, <2>1 DEF IsSt, StFields
  <2>3. Runs'
    BY <1>2, <1>6, <2>1, <2>2, RunsOn
  <2>4. Begun(Evs, v, pos)'
    BY <1>2, <1>9, <1>10, <2>1, Zenon DEF Begun, Level, Among
  <2>5. InNum(v, u)'
    BY <1>1, <1>2, <1>3, <1>10, <1>13, <2>1, <2>2, <2>3, <2>4, Zenon DEF InNum, At
  <2> QED  BY <1>10, <2>1, <2>2, <2>5, Zenon DEF Steady, Moved, InVal
<1> QED  BY <1>4, <1>11, <1>12, <1>13

\* Item k + 1, of field u, comes next.
Due(k, u) ==
    /\ Called /\ Rooted /\ call.mode = "obj" /\ k \in Nat /\ k < Good0 /\ Stored(k, dst, arena, st.seen)
    /\ FieldOf(Items[k + 1]) = u /\ u \in 1 .. Len(call.def)

\* It is stored, or stops the call.
Outcome(k) ==
    \/ ~Stops(Items[k + 1]) /\ \E p : p = LastAt[k + 1] /\ Taken(k, p)
    \/ Halts /\ Stops(Items[k + 1])

LEMMA DueIs ==
    \A k, u : Due(k, u) =>
        LET s == Items[k + 1].val
            v == ValAt(k + 1)
            j == LastAt[k + 1]
            off == ValueAt(call.doc, k + 1)
        IN  /\ ValueIs(Evs, v, j, s, off) /\ Placed(buf, off, s) /\ j <= Len(Evs)
            /\ v \in Nat /\ j \in Nat /\ s \in Seq(Chars) /\ Len(s) \in Nat /\ off \in Nat
            /\ call.def[u].typ \in Types /\ arena \in Seq(OutChars) /\ u # 0
            /\ Evs[v].loc.off = off
            /\ Evs[v].kind \notin {"True", "False", "Null"} => Evs[j].loc.off + 1 = off + Len(s)
<1> SUFFICES ASSUME NEW k, NEW u, Due(k, u)
             PROVE  LET s == Items[k + 1].val
                        v == ValAt(k + 1)
                        j == LastAt[k + 1]
                        off == ValueAt(call.doc, k + 1)
                    IN  /\ ValueIs(Evs, v, j, s, off) /\ Placed(buf, off, s) /\ j <= Len(Evs)
                        /\ v \in Nat /\ j \in Nat /\ s \in Seq(Chars) /\ Len(s) \in Nat /\ off \in Nat
                        /\ call.def[u].typ \in Types /\ arena \in Seq(OutChars) /\ u # 0
                        /\ Evs[v].loc.off = off
                        /\ Evs[v].kind \notin {"True", "False", "Null"} => Evs[j].loc.off + 1 = off + Len(s)
  OBVIOUS
<1> DEFINE s == Items[k + 1].val
           v == ValAt(k + 1)
           j == LastAt[k + 1]
           off == ValueAt(call.doc, k + 1)
<1>1. ValueIs(Evs, v, j, s, off) /\ Placed(buf, off, s) /\ j <= Len(Evs)
  BY ItemIs, Zenon DEF Due
<1>2. v \in Nat /\ j \in Nat /\ s \in Seq(Chars)
  BY <1>1, Zenon DEF ValueIs
<1>3. off \in Nat
  BY <1>1, Zenon DEF Placed
<1>4. Len(call.def) \in Nat /\ u \in 1 .. Len(call.def) /\ call.def[u].typ \in Types
  BY CallIs, Zenon DEF Due
<1>5. arena \in Seq(OutChars)
  BY Zenon DEF Due, Stored
<1>6. /\ Evs[v].loc.off = off
      /\ s \notin {True, False, Null} => Evs[j].loc.off = off + Len(s) - 1
  BY <1>1, ValueBegins, Zenon
<1>7. Evs[v].kind \notin {"True", "False", "Null"} => s \notin {True, False, Null}
  <2>1. s \in {True, False, Null} => Evs[v].kind \in {"True", "False", "Null"}
    <3> HIDE DEF s, v, j, off
    <3>1. \/ IsString(s) \/ IsNumber(s)
          \/ /\ s = True => Evs[v].kind = "True"
             /\ s = False => Evs[v].kind = "False"
             /\ s = Null => Evs[v].kind = "Null"
          \/ s \notin {True, False, Null}
      BY <1>1, ValueBegins, Zenon
    <3> QED  BY <1>2, <3>1, KindsDiffer
  <2> QED  BY <2>1
<1>8. PICK l \in Nat : l = Len(s)
  BY <1>2
<1>9. Evs[v].kind \notin {"True", "False", "Null"} => Evs[j].loc.off + 1 = off + Len(s)
  <2> HIDE DEF s, v, j, off
  <2>1. off + l - 1 + 1 = off + l
    BY <1>3
  <2> QED  BY <1>6, <1>7, <1>8, <2>1
<1>10. u # 0
  BY <1>4
<1> HIDE DEF s, v, j, off
<1> QED  BY <1>1, <1>2, <1>3, <1>4, <1>5, <1>6, <1>8, <1>9, <1>10, Zenon DEF s, v, j, off

\* What is stored or stops the call at the value's last event.
Settling(k, u, x, s) ==
    /\ Due(k, u) /\ Runs /\ pos = LastAt[k + 1] /\ st.cur = u /\ Same0 /\ Grown(arena, arena')
    /\ Fits(Items[k + 1].val, call.def[u].typ)
    /\ Holds(x, arena', Means(Items[k + 1].val, call.def[u].typ)) /\ Over(s) /\ Store(x, s)

LEMMA Settled == \A k, u, x, s : Settling(k, u, x, s) => Outcome(k)
<1> SUFFICES ASSUME NEW k, NEW u, NEW x, NEW s, Settling(k, u, x, s)
             PROVE  Outcome(k)
  OBVIOUS
<1>0. /\ Due(k, u) /\ Runs /\ pos = LastAt[k + 1] /\ st.cur = u /\ Same0 /\ Grown(arena, arena')
      /\ Holds(x, arena', Means(Items[k + 1].val, call.def[u].typ)) /\ Over(s) /\ Store(x, s)
  BY Zenon DEF Settling
<1> PICK p : p = LastAt[k + 1]
  OBVIOUS
<1>1. CanStore(k, u, x, s, p)
  BY <1>0, Zenon DEF CanStore, Due
<1>2. k \in Nat
  BY <1>0, Zenon DEF Due
<1>3. (Taken(k, p) /\ call.def[u].dst) \/ (Halts /\ ~call.def[u].dst)
  BY <1>0, <1>1, <1>2, StoreStep
<1>4. IsValue(Items[k + 1].val, MaxDep - 1)
  BY <1>0, DueIs, Zenon DEF ValueIs
<1>5. Stops(Items[k + 1]) <=> ~Fits(Items[k + 1].val, call.def[u].typ) \/ ~call.def[u].dst
  BY <1>0, <1>4, Stopped, Zenon DEF Due
<1>6. Fits(Items[k + 1].val, call.def[u].typ)
  BY Zenon DEF Settling
<1> QED  BY <1>3, <1>5, <1>6, Zenon DEF Outcome

LEMMA Unfit ==
    \A k, u : Due(k, u) /\ ~Fits(Items[k + 1].val, call.def[u].typ) /\ Halts => Outcome(k)
<1> SUFFICES ASSUME NEW k, NEW u, Due(k, u), ~Fits(Items[k + 1].val, call.def[u].typ), Halts
             PROVE  Outcome(k)
  OBVIOUS
<1>1. IsValue(Items[k + 1].val, MaxDep - 1)
  BY DueIs, Zenon DEF ValueIs
<1>2. Stops(Items[k + 1])
  BY <1>1, Stopped, Zenon DEF Due
<1> QED  BY <1>2, Zenon DEF Outcome

\* The value is of one event, or of a kind that the field does not take.
Brief(v, u) == Evs[v].kind \in {"True", "False", "Null"} \/ Evs[v].kind \notin Takes(call.def[u].typ)

LEMMA OpeningEnds ==
    \A k, u : Due(k, u) /\ Opens(ValAt(k + 1), u) /\ Next /\ Brief(ValAt(k + 1), u) => Outcome(k)
<1> SUFFICES ASSUME NEW k, NEW u, Due(k, u), Opens(ValAt(k + 1), u), Next, Brief(ValAt(k + 1), u)
             PROVE  Outcome(k)
  OBVIOUS
<1> DEFINE s == Items[k + 1].val
           v == ValAt(k + 1)
           j == LastAt[k + 1]
           off == ValueAt(call.doc, k + 1)
           typ == call.def[u].typ
<1>1. /\ ValueIs(Evs, v, j, s, off) /\ Placed(buf, off, s) /\ v \in Nat /\ s \in Seq(Chars)
      /\ typ \in Types /\ arena \in Seq(OutChars) /\ Evs[v].loc.off = off
  BY DueIs, Zenon
<1>2. /\ Reads1 /\ ev = Evs[v] /\ TopValue /\ st.cur # 0 /\ f = call.def[u]
  BY OpensIs, Zenon
<1>3. Runs /\ pos = v /\ st.dep = 1 /\ st.cap = {} /\ st.cur = u
  BY Zenon DEF Opens, AtValue, At
<1>4. /\ Evs[v].kind \in Beginnings
      /\ Evs[v].kind \notin Takes(typ) => ~Fits(s, typ)
      /\ typ = "raw" => Means(s, typ) = s
      /\ Evs[v].kind \in {"True", "False", "Null"} =>
            /\ v = j /\ Len(s) = LitLen(Evs[v].kind)
            /\ Evs[v].kind \in Takes(typ) =>
                  /\ Fits(s, typ)
                  /\ typ # "raw" /\ Evs[v].kind = "Null" => Means(s, typ) = << >>
                  /\ typ # "raw" /\ Evs[v].kind # "Null" => Means(s, typ) = <<Evs[v].kind>>
  <2> HIDE DEF s, v, j, off, typ
  <2> QED  BY <1>1, TakesFits
<1>5. CASE Evs[v].kind \notin Takes(typ)
  <2>1. Evs[v].kind \in Beginnings \ Takes(typ)
    BY <1>4, <1>5
  <2>2. Halts
    BY <1>1, <2>1, MismatchHalts
  <2> QED  BY <1>4, <1>5, <2>2, Unfit
<1>6. CASE Evs[v].kind \in Takes(typ)
  <2>1. Evs[v].kind \in {"True", "False", "Null"}
    BY <1>6 DEF Brief
  <2>2. ~ObjMismatch
    BY <1>2, <1>6, Zenon DEF ObjMismatch
  <2>3. ObjLiteral /\ Same0
    <3>1. ev.kind \in {"True", "False", "Null"}
      BY <1>2, <2>1
    <3>2. ev.kind \notin Composite \union {"SBeg", "NBeg"} /\ ev.kind \in Beginnings
      BY <3>1, KindsApart
    <3> QED  BY <1>2, <2>2, <3>1, <3>2, ObjActs, KindsApart
  <2> DEFINE x == CASE f.typ = "raw" -> Slice("buf", ev.loc.off, ev.loc.off + LitLen(ev.kind))
                    [] f.typ # "raw" /\ ev.kind = "Null" -> Copy(<< >>)
                    [] OTHER -> Copy(<<ev.kind>>)
             z == [st EXCEPT !.expectVal = FALSE]
  <2>4. Store(x, z) /\ arena' = arena
    BY <2>3, Zenon DEF ObjLiteral
  <2>5. Over(z)
    <3>1. IsSt /\ st.root = TRUE
      BY <1>3, Zenon DEF Runs
    <3> QED  BY <1>3, <3>1 DEF Over, IsSt, StFields
  <2>6. Holds(x, arena', Means(s, typ))
    <3> HIDE DEF s, v, j, off
    <3>1. CASE typ = "raw"
      <4>1. x = Slice("buf", off, off + Len(s))
        <5>1. x = Slice("buf", ev.loc.off, ev.loc.off + LitLen(ev.kind))
          BY <1>2, <3>1
        <5> QED  BY <1>1, <1>2, <1>4, <2>1, <5>1, Zenon
      <4> QED  BY <1>1, <1>4, <3>1, <4>1, RawHolds
    <3>2. CASE typ # "raw" /\ ev.kind = "Null"
      <4>1. x = Copy(<< >>) /\ Means(s, typ) = << >>
        BY <1>2, <1>4, <1>6, <2>1, <3>2
      <4> QED  BY <4>1, CopyHolds
    <3>3. CASE typ # "raw" /\ ev.kind # "Null"
      <4>1. x = Copy(<<ev.kind>>) /\ Means(s, typ) = <<ev.kind>>
        BY <1>2, <1>4, <1>6, <2>1, <3>3
      <4> QED  BY <4>1, CopyHolds
    <3> QED  BY <3>1, <3>2, <3>3
  <2>7. pos = LastAt[k + 1]
    BY <1>3, <1>4, <2>1
  <2>8. Grown(arena, arena')
    BY <1>1, <2>4, Unmoved
  <2>9. Fits(s, typ)
    BY <1>4, <1>6, <2>1
  <2> HIDE DEF x, z
  <2> QED  BY <1>3, <2>3, <2>4, <2>5, <2>6, <2>7, <2>8, <2>9, Settled, Zenon DEF Settling
<1> QED  BY <1>5, <1>6

\* Within the value of item k + 1 at its last event; its field takes it.
Last(k, u) ==
    /\ Due(k, u) /\ pos = LastAt[k + 1]
    /\ Evs[ValAt(k + 1)].kind \in Takes(call.def[u].typ)

\* A slice from the first of a value's events to its last.
LEMMA SpanHolds ==
    \A k, u : Due(k, u) /\ Evs[ValAt(k + 1)].kind \notin {"True", "False", "Null"} =>
        \A b : Holds(Slice("buf", Evs[ValAt(k + 1)].loc.off, Evs[LastAt[k + 1]].loc.off + 1), b, Items[k + 1].val)
<1> SUFFICES ASSUME NEW k, NEW u, Due(k, u), Evs[ValAt(k + 1)].kind \notin {"True", "False", "Null"}, NEW b
             PROVE  Holds(Slice("buf", Evs[ValAt(k + 1)].loc.off, Evs[LastAt[k + 1]].loc.off + 1), b, Items[k + 1].val)
  OBVIOUS
<1> DEFINE s == Items[k + 1].val
           v == ValAt(k + 1)
           j == LastAt[k + 1]
           off == ValueAt(call.doc, k + 1)
<1>1. /\ Placed(buf, off, s) /\ s \in Seq(Chars) /\ Evs[v].loc.off = off /\ Evs[j].loc.off + 1 = off + Len(s)
  BY DueIs, Zenon
<1> HIDE DEF s, v, j, off
<1>2. Holds(Slice("buf", off, off + Len(s)), b, s)
  BY <1>1, RawHolds
<1> QED  BY <1>1, <1>2, Zenon DEF s, v, j

LEMMA LastIs ==
    \A k, u : Last(k, u) /\ InVal(ValAt(k + 1), u) =>
        /\ Runs /\ Reads1 /\ ev = Evs[LastAt[k + 1]] /\ f = call.def[u] /\ st.cur = u /\ st.expectVal = FALSE
        /\ Ends(Evs, ValAt(k + 1), LastAt[k + 1]) /\ Begun(Evs, ValAt(k + 1), LastAt[k + 1])
        /\ Evs[ValAt(k + 1)].kind \notin {"True", "False", "Null"}
<1> SUFFICES ASSUME NEW k, NEW u, Last(k, u), InVal(ValAt(k + 1), u)
             PROVE  /\ Runs /\ Reads1 /\ ev = Evs[LastAt[k + 1]] /\ f = call.def[u] /\ st.cur = u /\ st.expectVal = FALSE
                    /\ Ends(Evs, ValAt(k + 1), LastAt[k + 1]) /\ Begun(Evs, ValAt(k + 1), LastAt[k + 1])
                    /\ Evs[ValAt(k + 1)].kind \notin {"True", "False", "Null"}
  OBVIOUS
<1> DEFINE s == Items[k + 1].val
           v == ValAt(k + 1)
           j == LastAt[k + 1]
           off == ValueAt(call.doc, k + 1)
<1>1. Due(k, u) /\ pos = j
  BY Zenon DEF Last
<1>2. ValueIs(Evs, v, j, s, off) /\ j <= Len(Evs) /\ v \in Nat /\ j \in Nat
  BY <1>1, DueIs, Zenon
<1>3. /\ Runs /\ st.cur = u /\ st.expectVal = FALSE /\ Begun(Evs, v, pos)
      /\ \/ Evs[v].kind = "SBeg" \/ Evs[v].kind = "NBeg" \/ Evs[v].kind \in Composite
  BY Zenon DEF InVal, InStr, InNum, InRaw, At
<1> HIDE DEF s, v, j, off
<1>4. j <= j
  BY <1>2
<1>5. Begun(Evs, v, j)
  BY <1>1, <1>3
<1>6. Ends(Evs, v, j)
  BY <1>2, <1>4, <1>5, Within
<1>7. Evs[v].kind \notin {"True", "False", "Null"}
  BY <1>3, KindsApart
<1> QED  BY <1>1, <1>2, <1>3, <1>5, <1>6, <1>7, Zenon DEF Reads1, ev, Evs, f, v, j

LEMMA RawEnds == \A k, u : Last(k, u) /\ InRaw(ValAt(k + 1), u) /\ Next => Outcome(k)
<1> SUFFICES ASSUME NEW k, NEW u, Last(k, u), InRaw(ValAt(k + 1), u), Next
             PROVE  Outcome(k)
  OBVIOUS
<1> DEFINE s == Items[k + 1].val
           v == ValAt(k + 1)
           j == LastAt[k + 1]
           off == ValueAt(call.doc, k + 1)
           typ == call.def[u].typ
<1>1. /\ Runs /\ Reads1 /\ ev = Evs[j] /\ f = call.def[u] /\ st.cur = u /\ st.expectVal = FALSE
      /\ Ends(Evs, v, j) /\ Begun(Evs, v, j) /\ Evs[v].kind \notin {"True", "False", "Null"}
  BY LastIs, Zenon DEF InVal
<1>2. Due(k, u) /\ pos = j /\ Evs[v].kind \in Takes(typ)
  BY Zenon DEF Last
<1>3. /\ ValueIs(Evs, v, j, s, off) /\ v \in Nat /\ j \in Nat /\ typ \in Types /\ arena \in Seq(OutChars) /\ u # 0
  BY <1>2, DueIs, Zenon
<1>4. /\ st.dep = 1 + Level(Evs, v, j - 1) /\ st.cap = {"raw"} /\ Evs[v].kind \in Composite
      /\ st.rawBeg = Evs[v].loc.off /\ st.rawDep = 2
  BY <1>2, <1>3, Zenon DEF InRaw, At
<1>5. typ = "raw" /\ Means(s, typ) = s /\ Fits(s, typ)
  <2> HIDE DEF s, v, j, off, typ
  <2> QED  BY <1>2, <1>3, <1>4, TakesFits
<1> HIDE DEF s, off, typ
<1>6. ev.kind \in {"OEnd", "AEnd"} /\ st.dep = 2
  <2> HIDE DEF v, j
  <2>1. Evs[v].kind \notin {"SBeg", "NBeg"}
    BY <1>4 DEF Composite
  <2>2. ev.kind \in {"OEnd", "AEnd"} /\ Level(Evs, v, j - 1) = 1
    BY <1>1, <2>1, Zenon DEF Ends
  <2> QED  BY <1>4, <2>2
<1>7. ObjClose /\ Same0 /\ ObjRawEnd
  <2>1. "raw" \in st.cap
    BY <1>4
  <2> QED  BY <1>1, <1>4, <1>6, <2>1, ObjActs, KindsApart DEF ObjRawEnd
<1> DEFINE z == [st EXCEPT !.cap = @ \ {"raw"}, !.dep = @ - 1]
           x == Slice("buf", st.rawBeg, ev.loc.off + 1)
<1>8. Store(x, z) /\ arena' = arena
  BY <1>7, Zenon DEF ObjClose
<1>9. Over(z)
  <2>1. IsSt /\ st.root = TRUE
    BY <1>1, Zenon DEF Runs
  <2>2. st.dep - 1 = 1 /\ st.cap \ {"raw"} = {}
    BY <1>4, <1>6
  <2>3. z = [st EXCEPT !.cap = {}, !.dep = 1]
    BY <2>2
  <2> HIDE DEF z
  <2> QED  BY <1>1, <2>1, <2>3 DEF Over, IsSt, StFields
<1>10. Holds(x, arena', Means(s, typ))
  <2>1. Holds(Slice("buf", Evs[v].loc.off, Evs[j].loc.off + 1), arena', s)
    BY <1>1, <1>2, SpanHolds, Zenon DEF s
  <2>2. x = Slice("buf", Evs[v].loc.off, Evs[j].loc.off + 1)
    BY <1>1, <1>4, Zenon
  <2> HIDE DEF x, v, j
  <2> QED  BY <1>5, <2>1, <2>2, Zenon
<1>11. Grown(arena, arena')
  BY <1>3, <1>8, Unmoved
<1> HIDE DEF x, z
<1> QED  BY <1>1, <1>2, <1>5, <1>7, <1>8, <1>9, <1>10, <1>11, Settled, Zenon DEF Settling, s, typ

LEMMA NumEvents ==
    ASSUME NEW evs, NEW v, NEW j, NEW s, NEW off, ValueIs(evs, v, j, s, off), IsNumber(s)
    PROVE  j = v + 2 /\ evs[v + 1].data = s
<1>1. s \in Seq(Chars)
  BY Zenon DEF ValueIs
<1>2. ~IsString(s)
  BY <1>1, KindsDiffer
<1>3. Token(evs, v, j, <<"NBeg", "NPar", "NEnd">>, s)
  BY <1>2, Zenon DEF ValueIs, ValueFed
<1>4. s # << >>
  BY <1>1, NumberBegins
<1> QED  BY <1>3, <1>4 DEF Token

LEMMA NumEnds == \A k, u : Last(k, u) /\ InNum(ValAt(k + 1), u) /\ Next => Outcome(k)
<1> SUFFICES ASSUME NEW k, NEW u, Last(k, u), InNum(ValAt(k + 1), u), Next
             PROVE  Outcome(k)
  OBVIOUS
<1> DEFINE s == Items[k + 1].val
           v == ValAt(k + 1)
           j == LastAt[k + 1]
           off == ValueAt(call.doc, k + 1)
           typ == call.def[u].typ
<1>1. /\ Runs /\ Reads1 /\ ev = Evs[j] /\ f = call.def[u] /\ st.cur = u /\ st.expectVal = FALSE
      /\ Ends(Evs, v, j) /\ Begun(Evs, v, j) /\ Evs[v].kind \notin {"True", "False", "Null"}
  BY LastIs, Zenon DEF InVal
<1>2. Due(k, u) /\ pos = j /\ Evs[v].kind \in Takes(typ)
  BY Zenon DEF Last
<1>3. /\ ValueIs(Evs, v, j, s, off) /\ Placed(buf, off, s) /\ v \in Nat /\ j \in Nat /\ typ \in Types
      /\ arena \in Seq(OutChars) /\ u # 0 /\ Evs[v].loc.off = off /\ s \in Seq(Chars)
  BY <1>2, DueIs, Zenon
<1>4. /\ st.dep = 1 /\ st.cap = {"num"} /\ Evs[v].kind = "NBeg"
      /\ st.numLoc = Evs[v].loc /\ st.numRaw = IF pos = v + 1 THEN << >> ELSE Evs[v + 1].data
  BY <1>2, <1>3, Zenon DEF InNum, At
<1>5. /\ typ = "raw" => Means(s, typ) = s /\ Fits(s, typ)
      /\ typ # "raw" => typ \in NumTypes
  <2> HIDE DEF s, v, j, off, typ
  <2> QED  BY <1>2, <1>3, <1>4, TakesFits
<1>6. IsNumber(s)
  <2> HIDE DEF s, v, j, off, typ
  <2> QED  BY <1>3, <1>4, TakesFits
<1>7. st.numRaw = s
  <2> HIDE DEF s, v, j, off, typ
  <2>1. j = v + 2 /\ Evs[v + 1].data = s
    BY <1>3, <1>6, NumEvents
  <2>2. j # v + 1
    BY <1>3, <2>1
  <2> QED  BY <1>2, <1>4, <2>1, <2>2
<1> HIDE DEF s, off, typ
<1>8. ev.kind = "NEnd"
  BY <1>1, <1>4 DEF Ends
<1>9. ObjNumEnd /\ Same0
  BY <1>1, <1>4, <1>8, ObjActs, KindsApart
<1> DEFINE z == [st EXCEPT !.cap = @ \ {"num"}]
           w == CASE f.typ \in {"i32", "oi32"} -> ParseI32(st.numRaw)
                  [] f.typ \in {"u32", "ou32"} -> ParseU32(st.numRaw)
                  [] OTHER                     -> ParseF64(st.numRaw)
           A == Store(Slice("buf", st.numLoc.off, st.numLoc.off + Len(st.numRaw)), z)
           B == Store(Copy(w.data), z)
           C == Stop("num", st.numLoc)
<1>10. arena' = arena /\ CASE f.typ = "raw" -> A [] f.typ # "raw" /\ w.ok -> B [] OTHER -> C
  BY <1>9, Zenon DEF ObjNumEnd
<1>11. /\ f.typ = "raw" => A
       /\ f.typ # "raw" /\ w.ok => B
       /\ f.typ # "raw" /\ ~w.ok => C
  <2> HIDE DEF A, B, C, w
  <2> QED  BY <1>10
<1>12. Over(z)
  <2>1. IsSt /\ st.root = TRUE
    BY <1>1, Zenon DEF Runs
  <2> QED  BY <1>1, <1>4, <2>1 DEF Over, IsSt, StFields
<1>13. Grown(arena, arena')
  BY <1>3, <1>10, Unmoved
<1>14. CASE typ = "raw"
  <2> DEFINE x == Slice("buf", st.numLoc.off, st.numLoc.off + Len(st.numRaw))
  <2>1. Store(x, z)
    BY <1>1, <1>11, <1>14 DEF typ
  <2>2. x = Slice("buf", off, off + Len(s))
    BY <1>3, <1>4, <1>7, Zenon
  <2>3. Holds(Slice("buf", off, off + Len(s)), arena', s)
    BY <1>3, RawHolds
  <2> HIDE DEF x, z
  <2>4. Holds(x, arena', Means(s, typ))
    BY <1>5, <1>6, <1>14, <2>2, <2>3
  <2> QED  BY <1>1, <1>2, <1>5, <1>9, <1>12, <1>13, <1>14, <2>1, <2>4, Settled, Zenon DEF Settling, s, typ
<1>15. CASE typ # "raw"
  <2>1. typ \in NumTypes
    BY <1>5, <1>15
  <2>2. w = NumRead(s, typ)
    <3>1. f.typ = typ
      BY <1>1, Zenon DEF typ
    <3> DEFINE a == ParseI32(s)
               b == ParseU32(s)
               c == ParseF64(s)
    <3>2. w = CASE typ \in {"i32", "oi32"} -> a [] typ \in {"u32", "ou32"} -> b [] OTHER -> c
      BY <1>7, <3>1, Zenon
    <3>3. NumRead(s, typ) = IF typ \in {"i32", "oi32"} THEN a ELSE IF typ \in {"u32", "ou32"} THEN b ELSE c
      BY Zenon DEF NumRead
    <3> HIDE DEF a, b, c, w
    <3>4. typ \in {"i32", "oi32"} => typ \notin {"u32", "ou32"}
      OBVIOUS
    <3> QED  BY <3>2, <3>3, <3>4
  <2> HIDE DEF w
  <2>3. (w.ok <=> Fits(s, typ)) /\ (w.ok => w.data = Means(s, typ))
    BY <1>3, <1>6, <2>1, <2>2, NumberRead
  <2>4. CASE w.ok
    <3>1. Store(Copy(w.data), z)
      BY <1>1, <1>11, <1>15, <2>4 DEF typ
    <3>2. Holds(Copy(w.data), arena', Means(s, typ))
      BY <2>3, <2>4, CopyHolds
    <3> HIDE DEF z
    <3> QED  BY <1>1, <1>2, <1>9, <1>12, <1>13, <2>3, <2>4, <3>1, <3>2, Settled, Zenon DEF Settling, s, typ
  <2>5. CASE ~w.ok
    <3>1. Stop("num", st.numLoc)
      BY <1>1, <1>11, <1>15, <2>5 DEF typ
    <3>2. Failed("num")
      BY Causes
    <3>3. Halts
      BY <1>9, <1>13, <3>1, <3>2, StopHalts
    <3>4. ~Fits(s, typ)
      BY <2>3, <2>5
    <3> QED  BY <1>2, <3>3, <3>4, Unfit, Zenon DEF s, typ
  <2> QED  BY <2>4, <2>5
<1> QED  BY <1>14, <1>15

LEMMA StrEvents ==
    ASSUME NEW evs, NEW v, NEW j, NEW s, NEW off, ValueIs(evs, v, j, s, off), IsString(s)
    PROVE  \/ j = v + 1 /\ Strip(s, 1, 1) = << >>
           \/ j = v + 2 /\ evs[v + 1].data = Strip(s, 1, 1)
<1> DEFINE data == Strip(s, 1, 1)
<1>1. Token(evs, v, j, <<"SBeg", "SPar", "SEnd">>, data)
  BY Zenon DEF ValueIs, ValueFed
<1> HIDE DEF data
<1>2. data = << >> \/ data # << >>
  OBVIOUS
<1>3. (data = << >> /\ j = v + 1) \/ (j = v + 2 /\ evs[v + 1].data = data)
  BY <1>1, <1>2 DEF Token
<1> QED  BY <1>3 DEF data

LEMMA StrEnds == \A k, u : Last(k, u) /\ InStr(ValAt(k + 1), u) /\ Next => Outcome(k)
<1> SUFFICES ASSUME NEW k, NEW u, Last(k, u), InStr(ValAt(k + 1), u), Next
             PROVE  Outcome(k)
  OBVIOUS
<1> DEFINE s == Items[k + 1].val
           v == ValAt(k + 1)
           j == LastAt[k + 1]
           off == ValueAt(call.doc, k + 1)
           typ == call.def[u].typ
           raw == Strip(s, 1, 1)
<1>1. /\ Runs /\ Reads1 /\ ev = Evs[j] /\ f = call.def[u] /\ st.cur = u /\ st.expectVal = FALSE
      /\ Ends(Evs, v, j) /\ Begun(Evs, v, j) /\ Evs[v].kind \notin {"True", "False", "Null"}
  BY LastIs, Zenon DEF InVal
<1>2. Due(k, u) /\ pos = j /\ Evs[v].kind \in Takes(typ)
  BY Zenon DEF Last
<1>3. /\ ValueIs(Evs, v, j, s, off) /\ Placed(buf, off, s) /\ v \in Nat /\ j \in Nat /\ typ \in Types
      /\ arena \in Seq(OutChars) /\ u # 0 /\ Evs[v].loc.off = off /\ s \in Seq(Chars) /\ Called
  BY <1>2, DueIs, Zenon DEF Due
<1>4. /\ st.dep = 1 /\ st.cap = {"str"} /\ Evs[v].kind = "SBeg"
      /\ st.strLoc = Evs[v].loc /\ st.strRaw = IF pos = v + 1 THEN << >> ELSE Evs[v + 1].data
  BY <1>2, <1>3, Zenon DEF InStr, At
<1> HIDE DEF raw
<1>5. /\ IsString(s) /\ (typ = "raw" => Means(s, typ) = s /\ Fits(s, typ)) /\ (typ # "raw" => typ \in StrTypes)
  <2> HIDE DEF s, v, j, off, typ
  <2> QED  BY <1>2, <1>3, <1>4, TakesFits
<1>6. st.strRaw = raw
  <2> HIDE DEF s, v, j, off, typ
  <2>1. (j = v + 1 /\ raw = << >>) \/ (j = v + 2 /\ Evs[v + 1].data = raw)
    BY <1>3, <1>5, StrEvents DEF raw
  <2>2. j = v + 2 => j # v + 1
    BY <1>3
  <2> QED  BY <1>2, <1>4, <2>1, <2>2
<1> HIDE DEF s, off, typ
<1>7. ev.kind = "SEnd"
  BY <1>1, <1>4 DEF Ends
<1>8. ObjStrEnd /\ Same0
  BY <1>1, <1>4, <1>7, ObjActs, KindsApart
<1> DEFINE z == [st EXCEPT !.cap = @ \ {"str"}]
<1>9. Over(z)
  <2>1. IsSt /\ st.root = TRUE
    BY <1>1, Zenon DEF Runs
  <2> QED  BY <1>1, <1>4, <2>1 DEF Over, IsSt, StFields
<1>10. CASE typ = "raw"
  <2> DEFINE x == Slice("buf", st.strLoc.off, ev.loc.off + 1)
  <2>1. Store(x, z) /\ arena' = arena
    BY <1>1, <1>8, <1>10, Zenon DEF ObjStrEnd, typ
  <2>2. Holds(x, arena', Means(s, typ))
    <3>1. Holds(Slice("buf", Evs[v].loc.off, Evs[j].loc.off + 1), arena', s)
      BY <1>1, <1>2, SpanHolds, Zenon DEF s
    <3>2. x = Slice("buf", Evs[v].loc.off, Evs[j].loc.off + 1)
      BY <1>1, <1>4, Zenon
    <3> HIDE DEF x, v, j
    <3> QED  BY <1>5, <1>10, <3>1, <3>2, Zenon
  <2>3. Grown(arena, arena')
    BY <1>3, <2>1, Unmoved
  <2> HIDE DEF x, z
  <2> QED  BY <1>1, <1>2, <1>5, <1>8, <1>9, <1>10, <2>1, <2>2, <2>3, Settled, Zenon DEF Settling, s, typ
<1>11. CASE typ # "raw"
  <2> DEFINE beg == st.strLoc.off + 1
             dec == StrDecode(st.strRaw)
             grown == SubSeq(arena, 1, Slot) \o dec.data
             A == Store(Slice("buf", beg, beg + Len(st.strRaw)), z) /\ UNCHANGED arena
             B == Stop("arg_arena", NoLoc) /\ UNCHANGED arena
             C == Stop("str", NoLoc) /\ UNCHANGED arena
             D == Store(Slice("arena", Slot, Slot + Len(dec.data)), z) /\ arena' = grown
             esc == HasEsc(st.strRaw)
  <2>1. StrBytes(st.strRaw, LAMBDA w : Store(w, z))
    BY <1>1, <1>8, <1>11, Zenon DEF ObjStrEnd, typ
  <2>2. TRUE /\ CASE ~esc -> A [] esc /\ ~call.hasArena -> B [] esc /\ call.hasArena /\ ~dec.ok -> C
                  [] OTHER -> D
    BY <2>1, Zenon DEF StrBytes
  <2>3. /\ ~esc => A
        /\ esc /\ ~call.hasArena => B
        /\ esc /\ call.hasArena /\ ~dec.ok => C
        /\ esc /\ call.hasArena /\ dec.ok => D
    <3> HIDE DEF A, B, C, D, esc, dec
    <3> QED  BY <2>2
  <2> DEFINE back == off + 1
             read == StrDecode(raw)
             b == SubSeq(arena, 1, Len(arena)) \o read.data
  <2>4. /\ ~HasEsc(raw) => Fits(s, typ) /\ Holds(Slice("buf", back, back + Len(raw)), arena, Means(s, typ))
        /\ HasEsc(raw) /\ (~call.hasArena \/ ~read.ok) => ~Fits(s, typ)
        /\ HasEsc(raw) /\ call.hasArena /\ read.ok =>
              /\ Fits(s, typ) /\ Grown(arena, b)
              /\ Holds(Slice("arena", Len(arena), Len(arena) + Len(read.data)), b, Means(s, typ))
    <3>1. PICK a : a = arena
      OBVIOUS
    <3>2. a \in Seq(OutChars) /\ typ \in StrTypes
      BY <1>3, <1>5, <1>11, <3>1
    <3> HIDE DEF s, typ, off
    <3>3. LET c == SubSeq(a, 1, Len(a)) \o read.data
          IN  /\ ~HasEsc(raw) => Fits(s, typ) /\ Holds(Slice("buf", back, back + Len(raw)), a, Means(s, typ))
              /\ HasEsc(raw) /\ (~call.hasArena \/ ~read.ok) => ~Fits(s, typ)
              /\ HasEsc(raw) /\ call.hasArena /\ read.ok =>
                    /\ Fits(s, typ) /\ Grown(a, c)
                    /\ Holds(Slice("arena", Len(a), Len(a) + Len(read.data)), c, Means(s, typ))
      BY <1>3, <1>5, <3>2, StrValue, Zenon DEF raw
    <3> QED  BY <3>1, <3>3, Zenon
  <2>5. beg = back /\ dec = read /\ Slot = Len(arena) /\ grown = b /\ (esc <=> HasEsc(raw))
    BY <1>3, <1>4, <1>6, Zenon DEF Slot
  <2>6. CASE ~esc
    <3> DEFINE x == Slice("buf", beg, beg + Len(st.strRaw))
    <3>1. Store(x, z) /\ arena' = arena
      BY <2>3, <2>6, Zenon
    <3>2. x = Slice("buf", back, back + Len(raw))
      BY <1>6, <2>5, Zenon
    <3>3. Fits(s, typ) /\ Holds(x, arena', Means(s, typ)) /\ Grown(arena, arena')
      <4>1. Grown(arena, arena')
        BY <1>3, <3>1, Unmoved
      <4> HIDE DEF x, back, beg, esc
      <4> QED  BY <2>4, <2>5, <2>6, <3>1, <3>2, <4>1, Zenon
    <3> HIDE DEF x, z
    <3> QED  BY <1>1, <1>2, <1>8, <1>9, <3>1, <3>3, Settled, Zenon DEF Settling, s, typ
  <2>7. CASE esc /\ (~call.hasArena \/ ~dec.ok)
    <3>1. (Stop("arg_arena", NoLoc) \/ Stop("str", NoLoc)) /\ arena' = arena
      BY <2>3, <2>7, Zenon
    <3>2. Failed("arg_arena") /\ Failed("str") /\ Grown(arena, arena')
      BY <1>3, <3>1, Causes, Unmoved
    <3>3. Halts
      BY <1>8, <3>1, <3>2, StopHalts
    <3>4. ~Fits(s, typ)
      <4> HIDE DEF dec, read, esc
      <4> QED  BY <2>4, <2>5, <2>7, Zenon
    <3> QED  BY <1>2, <3>3, <3>4, Unfit, Zenon DEF s, typ
  <2>8. CASE esc /\ call.hasArena /\ dec.ok
    <3> DEFINE x == Slice("arena", Slot, Slot + Len(dec.data))
    <3>1. Store(x, z) /\ arena' = grown
      BY <2>3, <2>8, Zenon
    <3>2. x = Slice("arena", Len(arena), Len(arena) + Len(read.data)) /\ arena' = b
      BY <2>5, <3>1, Zenon
    <3>3. Fits(s, typ) /\ Holds(x, arena', Means(s, typ)) /\ Grown(arena, arena')
      <4> HIDE DEF x, dec, read, esc, b
      <4> QED  BY <2>4, <2>5, <2>8, <3>2, Zenon
    <3> HIDE DEF x, z
    <3> QED  BY <1>1, <1>2, <1>8, <1>9, <3>1, <3>3, Settled, Zenon DEF Settling, s, typ
  <2> QED  BY <2>6, <2>7, <2>8
<1> QED  BY <1>10, <1>11

-----------------------------------------------------------------------------
(* From item to item.                                                      *)

\* The names that item k + 1 goes by: the last event before it, its key, where
\* its value begins, its field, its last event.
Named(k, l, key, v, u, j) ==
    /\ l = LastAt[k]
    /\ k < Len(Items) => key = Items[k + 1].key /\ v = ValAt(k + 1) /\ u = FieldOf(Items[k + 1])
    /\ k < Good0 => j = LastAt[k + 1]

\* k items have been read and none of them stopped the call.
On(k, l, key, v, u, j) ==
    /\ Called /\ Rooted /\ call.mode = "obj" /\ k \in 0 .. Good0 /\ k <= Before(Items)
    /\ Stored(k, dst, arena, st.seen) /\ Named(k, l, key, v, u, j)

LEMMA NamedOn == \A k, l, key, v, u, j : Same0 /\ Named(k, l, key, v, u, j) => Named(k, l, key, v, u, j)'
<1> SUFFICES ASSUME NEW k, NEW l, NEW key, NEW v, NEW u, NEW j, Same0, Named(k, l, key, v, u, j)
             PROVE  Named(k, l, key, v, u, j)'
  OBVIOUS
<1>1. call' = call /\ feed' = feed
  BY Zenon DEF Same0
<1>2. Items' = Items /\ Evs' = Evs
  BY <1>1, Zenon DEF Items, Evs
<1>3. LastAt' = LastAt /\ Good0' = Good0
  BY <1>1, <1>2, Zenon DEF LastAt, Good0
<1>4. ValAt(k + 1)' = ValAt(k + 1)
  BY <1>2, <1>3, Zenon DEF ValAt, KeyAt
<1>5. FieldOf(Items[k + 1])' = FieldOf(Items[k + 1])
  <2>1. PICK it : it = Items[k + 1]
    OBVIOUS
  <2>2. FieldOf(it)' = FieldOf(it)
    BY <1>1 DEF FieldOf
  <2> QED  BY <1>2, <2>1, <2>2
<1> QED  BY <1>2, <1>3, <1>4, <1>5, Zenon DEF Named

LEMMA StoredOn ==
    \A k, D, a, n : Same0 /\ D = dst' /\ a = arena' /\ n = st'.seen /\ Stored(k, D, a, n) =>
        Stored(k, dst, arena, st.seen)'
<1> SUFFICES ASSUME NEW k, NEW D, NEW a, NEW n, Same0, D = dst', a = arena', n = st'.seen, Stored(k, D, a, n)
             PROVE  Stored(k, dst, arena, st.seen)'
  OBVIOUS
<1>1. call' = call
  BY Zenon DEF Same0
<1>2. Items' = Items /\ buf' = buf
  BY <1>1, Zenon DEF Items, buf
<1>3. \A i : Mine(k, i)' = Mine(k, i)
  BY <1>1, <1>2 DEF Mine, FieldOf
<1>4. \A w, b, x : Holds(w, b, x)' <=> Holds(w, b, x)
  BY <1>2, Zenon DEF Holds
<1>5. /\ D = [i \in 1 .. Len(call.def) |-> D[i]] /\ a \in Seq(OutChars)
      /\ n = {i \in 1 .. Len(call.def) : Mine(k, i) # {}}
      /\ \A i \in 1 .. Len(call.def) :
            /\ Mine(k, i) = {} => D[i] = Untouched
            /\ Mine(k, i) # {} =>
                  \E j \in Mine(k, i) : /\ \A h \in Mine(k, i) : h <= j
                                        /\ Holds(D[i], a, Means(Items[j].val, call.def[i].typ))
  BY Zenon DEF Stored
<1>6. \A i : \A j : Holds(dst[i], arena, Means(Items[j].val, call.def[i].typ))'
                   <=> Holds(D[i], a, Means(Items[j].val, call.def[i].typ))
  <2> SUFFICES ASSUME NEW i, NEW j
               PROVE  Holds(dst[i], arena, Means(Items[j].val, call.def[i].typ))'
                      <=> Holds(D[i], a, Means(Items[j].val, call.def[i].typ))
    OBVIOUS
  <2>1. Means(Items[j].val, call.def[i].typ)' = Means(Items[j].val, call.def[i].typ)
    BY <1>1, <1>2
  <2> QED  BY <1>2, <2>1, Zenon DEF Holds
<1>7. (1 .. Len(call.def))' = 1 .. Len(call.def)
  BY <1>1
<1>8. \A i \in (1 .. Len(call.def))' :
         /\ Mine(k, i)' = {} => dst'[i] = Untouched
         /\ Mine(k, i)' # {} =>
               \E j \in Mine(k, i)' : /\ \A h \in Mine(k, i)' : h <= j
                                      /\ Holds(dst[i], arena, Means(Items[j].val, call.def[i].typ))'
  <2> SUFFICES ASSUME NEW i \in 1 .. Len(call.def)
               PROVE  /\ Mine(k, i)' = {} => dst'[i] = Untouched
                      /\ Mine(k, i)' # {} =>
                            \E j \in Mine(k, i)' : /\ \A h \in Mine(k, i)' : h <= j
                                                   /\ Holds(dst[i], arena, Means(Items[j].val, call.def[i].typ))'
    BY <1>7, Zenon
  <2>1. Mine(k, i) = {} => D[i] = Untouched
    BY <1>5, Zenon
  <2>2. Mine(k, i) # {} =>
            \E j \in Mine(k, i) : /\ \A h \in Mine(k, i) : h <= j
                                  /\ Holds(D[i], a, Means(Items[j].val, call.def[i].typ))
    BY <1>5, Zenon
  <2>3. PICK M : M = Mine(k, i) /\ Mine(k, i)' = M
    BY <1>3
  <2>4. dst'[i] = D[i]
    OBVIOUS
  <2>5. ASSUME M # {}
        PROVE  \E j \in M : /\ \A h \in M : h <= j
                            /\ Holds(dst[i], arena, Means(Items[j].val, call.def[i].typ))'
    <3>1. PICK j \in M : (\A h \in M : h <= j) /\ Holds(D[i], a, Means(Items[j].val, call.def[i].typ))
      BY <2>2, <2>3, <2>5, Zenon
    <3>2. Holds(dst[i], arena, Means(Items[j].val, call.def[i].typ))'
      BY <1>6, <3>1, Zenon
    <3> QED  BY <3>1, <3>2, Zenon
  <2> QED  BY <2>1, <2>3, <2>4, <2>5, Zenon
<1>9. st'.seen = {i \in (1 .. Len(call.def))' : Mine(k, i)' # {}}
  BY <1>3, <1>5, <1>7
<1>10. dst' = [i \in (1 .. Len(call.def))' |-> dst'[i]] /\ arena' \in Seq(OutChars)
  BY <1>5, <1>7
<1>11. Untouched' = Untouched
  BY DEF Untouched, Copy
<1> QED  BY <1>8, <1>9, <1>10, <1>11, Zenon DEF Stored

\* A value of more than one event ends behind its first.
LEMMA LongIs ==
    ASSUME NEW evs, NEW v, NEW j, NEW s, NEW off, ValueIs(evs, v, j, s, off),
           evs[v].kind \notin {"True", "False", "Null"}
    PROVE  v < j
<1>1. v \in Nat /\ j \in Nat /\ v <= j
  BY Zenon DEF ValueIs
<1>2. \/ evs[v].kind = "SBeg" /\ evs[j].kind = "SEnd"
      \/ evs[v].kind = "NBeg" /\ evs[j].kind = "NEnd"
      \/ evs[v].kind = "OBeg" /\ evs[j].kind = "OEnd"
      \/ evs[v].kind = "ABeg" /\ evs[j].kind = "AEnd"
  <2>1. s \notin {True, False, Null}
    <3>1. s \in Seq(Chars)
      BY Zenon DEF ValueIs
    <3>2. /\ s = True => evs[v].kind = "True" \/ IsString(s) \/ IsNumber(s)
          /\ s = False => evs[v].kind = "False" \/ IsString(s) \/ IsNumber(s)
          /\ s = Null => evs[v].kind = "Null" \/ IsString(s) \/ IsNumber(s)
      BY ValueBegins
    <3> QED  BY <3>1, <3>2, KindsDiffer
  <2> QED  BY <2>1, ValueBegins
<1> QED  BY <1>1, <1>2

\* What there is of item k + 1.
Next1(k, l, key, v, u, j) ==
    /\ l \in Nat /\ k \in Nat /\ Len(Evs) \in Nat /\ Len(Items) \in Nat /\ k <= Len(Items) /\ k <= Good0
    /\ arena \in Seq(OutChars)
    /\ k < Len(Items) =>
          /\ KeyIs(l + 1, key) /\ v = (l + 1) + KeyEvents(key) /\ v \in Nat /\ v <= Len(Evs) + 1
          /\ u = Find(Strip(key, 1, 1)) /\ u \in 0 .. Len(call.def) /\ u = FieldOf(Items[k + 1])
    /\ k < Good0 =>
          /\ k < Len(Items) /\ ValueIs(Evs, v, j, Items[k + 1].val, ValueAt(call.doc, k + 1))
          /\ v \in Nat /\ j \in Nat /\ v <= j /\ j <= Len(Evs)
          /\ IsValue(Items[k + 1].val, MaxDep - 1)
    /\ ~(k < Good0) /\ k < Len(Items) => Breaks(Evs, v) /\ Stops(Items[k + 1]) /\ feed.err # NoError
    /\ k = Len(Items) =>
          \/ Len(Evs) = l /\ feed.err # NoError /\ ~Whole
          \/ /\ Len(Evs) = l + 1 /\ Evs[l + 1].kind = "OEnd"
             /\ feed.err = NoError <=> Whole

LEMMA OnIs == \A k, l, key, v, u, j : On(k, l, key, v, u, j) => Next1(k, l, key, v, u, j)
<1> SUFFICES ASSUME NEW k, NEW l, NEW key, NEW v, NEW u, NEW j, On(k, l, key, v, u, j)
             PROVE  Next1(k, l, key, v, u, j)
  OBVIOUS
<1>1. /\ Called /\ Rooted /\ call.mode = "obj" /\ k \in 0 .. Good0 /\ k <= Before(Items)
      /\ arena \in Seq(OutChars)
  BY Zenon DEF On, Stored
<1>2. /\ l = LastAt[k]
      /\ k < Len(Items) => key = Items[k + 1].key /\ v = ValAt(k + 1) /\ u = FieldOf(Items[k + 1])
      /\ k < Good0 => j = LastAt[k + 1]
  BY Zenon DEF On, Named
<1>3. PICK g : g = Good0
  OBVIOUS
<1>4. g \in 0 .. Len(Items) /\ Len(Items) \in Nat /\ Len(Evs) \in Nat
  BY <1>1, <1>3, ItemEvents, CallIs, FeedIs
<1>5. k \in Nat /\ k <= g /\ k <= Len(Items) /\ (k < g => k < Len(Items)) /\ (k + 1) - 1 = k
  BY <1>1, <1>3, <1>4
<1>6. l \in Nat
  <2>1. LastAt[k] \in 1 .. Len(Evs)
    BY <1>1, ItemEvents
  <2> QED  BY <1>2, <2>1
<1>7. ASSUME k < Len(Items)
      PROVE  /\ KeyIs(l + 1, key) /\ v = (l + 1) + KeyEvents(key) /\ v \in Nat /\ v <= Len(Evs) + 1
             /\ u = Find(Strip(key, 1, 1)) /\ u \in 0 .. Len(call.def) /\ u = FieldOf(Items[k + 1])
  <2>1. key = Items[k + 1].key /\ v = ValAt(k + 1) /\ u = FieldOf(Items[k + 1])
    BY <1>2, <1>7
  <2>2. k + 1 \in 1 .. Len(Items)
    BY <1>4, <1>5, <1>7
  <2>3. key \in Seq(Chars) /\ IsString(key)
    BY <1>1, <2>1, <2>2, CallIs, RootedIs
  <2>4. KeyAt(k + 1) = l + 1
    BY <1>2, <1>5, Zenon DEF KeyAt
  <2>5. KeyFed(Evs, KeyAt(k + 1), key)
    <3>1. CASE k < g
      <4>1. k + 1 \in 1 .. g
        BY <1>4, <1>5, <3>1
      <4> QED  BY <1>1, <1>3, <2>1, <4>1, ItemEvents
    <3>2. CASE ~(k < g)
      <4>1. k = g
        BY <1>4, <1>5, <3>2
      <4> QED  BY <1>1, <1>3, <1>7, <2>1, <4>1, ItemEvents
    <3> QED  BY <3>1, <3>2
  <2>6. v = (l + 1) + KeyEvents(key)
    BY <2>1, <2>4, Zenon DEF ValAt
  <2>7. l + 1 \in Nat
    BY <1>6
  <2>8. KeyIs(l + 1, key)
    BY <2>3, <2>4, <2>5, <2>7, KeyEvent, Zenon DEF KeyIs
  <2>9. v \in Nat /\ v <= Len(Evs) + 1
    <3>1. PICK n : n = KeyEvents(key)
      OBVIOUS
    <3>2. n \in {2, 3} /\ (l + 1) + n <= Len(Evs) + 1
      BY <2>8, <3>1, Zenon DEF KeyIs
    <3> QED  BY <2>6, <2>7, <3>1, <3>2
  <2>10. u = Find(Strip(key, 1, 1)) /\ u \in 0 .. Len(call.def)
    BY <1>1, <2>1, <2>3, FieldOfIs
  <2> QED  BY <2>1, <2>6, <2>8, <2>9, <2>10
<1>8. ASSUME k < g
      PROVE  /\ ValueIs(Evs, v, j, Items[k + 1].val, ValueAt(call.doc, k + 1))
             /\ v \in Nat /\ j \in Nat /\ v <= j /\ j <= Len(Evs)
             /\ IsValue(Items[k + 1].val, MaxDep - 1)
  <2>1. v = ValAt(k + 1) /\ j = LastAt[k + 1]
    BY <1>2, <1>3, <1>5, <1>8
  <2>2. ValueIs(Evs, v, j, Items[k + 1].val, ValueAt(call.doc, k + 1)) /\ j <= Len(Evs)
    BY <1>1, <1>3, <1>5, <1>8, <2>1, ItemIs, Zenon
  <2> QED  BY <2>2, Zenon DEF ValueIs
<1>9. ASSUME ~(k < g), k < Len(Items)
      PROVE  Breaks(Evs, v) /\ Stops(Items[k + 1]) /\ feed.err # NoError
  <2>1. k = g
    BY <1>4, <1>5, <1>9
  <2>2. Breaks(Evs, ValAt(k + 1)) /\ ~IsValue(Items[k + 1].val, MaxDep - 1) /\ feed.err # NoError
    BY <1>1, <1>3, <1>9, <2>1, ItemEvents
  <2> QED  BY <1>2, <1>9, <2>2, Zenon DEF Stops
<1>10. ASSUME k = Len(Items)
       PROVE  \/ Len(Evs) = l /\ feed.err # NoError /\ ~Whole
              \/ /\ Len(Evs) = l + 1 /\ Evs[l + 1].kind = "OEnd"
                 /\ feed.err = NoError <=> Whole
  <2>1. k = g
    <3>1. PICK m : m = Len(Items)
      OBVIOUS
    <3>2. g \in 0 .. m /\ m \in Nat /\ k = m
      BY <1>4, <1>10, <3>1
    <3> QED  BY <1>5, <3>2
  <2>2. \/ Len(Evs) = LastAt[k] /\ feed.err # NoError /\ ~Whole
        \/ /\ Len(Evs) = LastAt[k] + 1 /\ Evs[LastAt[k] + 1].kind = Root(call).kind
           /\ feed.err = NoError <=> Whole
    BY <1>1, <1>3, <1>10, <2>1, ItemEvents
  <2>3. Root(call).kind = "OEnd"
    BY <1>1 DEF Root
  <2> QED  BY <1>2, <2>2, <2>3
<1> QED  BY <1>1, <1>3, <1>4, <1>5, <1>6, <1>7, <1>8, <1>9, <1>10, Zenon DEF Next1

\* Where FldObj may be in item k + 1.
Inside(k, v, u, j) ==
    /\ InVal(v, u) /\ (u # 0 => Evs[v].kind \in Takes(call.def[u].typ))
    /\ k < Good0 => pos <= j
Where(k, l, key, v, u, j) ==
    \/ AtItem(l)
    \/ k < Len(Items) /\ (InKey(l, key) \/ AtValue(v, u) \/ Inside(k, v, u, j))
    \/ k = Len(Items) /\ AtEnd(l)

\* A step stays in the item, passes to the next, or stops the call.
Stays(k, l, key, v, u, j) == Steady /\ Where(k, l, key, v, u, j)'
Passes(k) ==
    /\ Same0 /\ k < Good0 /\ ~Stops(Items[k + 1]) /\ Stored(k + 1, dst', arena', st'.seen)
    /\ \E p : p = LastAt[k + 1] /\ AtItem(p)'
Halted(k) == Halts /\ k < Len(Items) /\ Stops(Items[k + 1])
Moves(k, l, key, v, u, j) == Stays(k, l, key, v, u, j) \/ Passes(k) \/ Halted(k)

LEMMA Framed == Same0 => Items' = Items /\ Good0' = Good0 /\ Evs' = Evs /\ call' = call
<1> SUFFICES ASSUME Same0  PROVE Items' = Items /\ Good0' = Good0 /\ Evs' = Evs /\ call' = call
  OBVIOUS
<1>1. call' = call /\ feed' = feed
  BY Zenon DEF Same0
<1>2. Items' = Items /\ Evs' = Evs
  BY <1>1, Zenon DEF Items, Evs
<1> QED  BY <1>1, <1>2, Zenon DEF Good0

LEMMA ItemStep ==
    \A k, l, key, v, u, j :
        On(k, l, key, v, u, j) /\ AtItem(l) /\ pos <= Len(Evs) /\ Next => Moves(k, l, key, v, u, j)
<1> SUFFICES ASSUME NEW k, NEW l, NEW key, NEW v, NEW u, NEW j, On(k, l, key, v, u, j), AtItem(l),
                    pos <= Len(Evs), Next
             PROVE  Moves(k, l, key, v, u, j)
  OBVIOUS
<1>1. Next1(k, l, key, v, u, j)
  BY OnIs
<1>2. l \in Nat /\ Len(Evs) \in Nat /\ k \in Nat /\ k <= Len(Items) /\ Len(Items) \in Nat
  BY <1>1, Zenon DEF Next1
<1>3. pos = l + 1 /\ l + 1 <= Len(Evs)
  BY Zenon DEF AtItem, At
<1>4. CASE k < Len(Items)
  <2>1. Evs[l + 1].kind = "KBeg"
    BY <1>1, <1>4, Zenon DEF Next1, KeyIs
  <2>2. Steady /\ InKey(l, key)'
    BY <1>2, <1>3, <2>1, KeyEntered
  <2>3. Items' = Items
    BY <2>2, Framed, Zenon DEF Steady, Moved, Same0
  <2> QED  BY <1>4, <2>2, <2>3, Zenon DEF Moves, Stays, Where
<1>5. CASE ~(k < Len(Items))
  <2>1. k = Len(Items)
    <3>1. PICK m : m = Len(Items)
      OBVIOUS
    <3> QED  BY <1>2, <1>5, <3>1
  <2>2. Evs[l + 1].kind = "OEnd"
    <3>1. Len(Evs) = l \/ Evs[l + 1].kind = "OEnd"
      BY <1>1, <2>1, Zenon DEF Next1
    <3> QED  BY <1>2, <1>3, <3>1
  <2>3. Steady /\ AtEnd(l)'
    BY <1>2, <1>3, <2>2, Closed
  <2>4. Items' = Items
    BY <2>3, Framed, Zenon DEF Steady, Moved, Same0
  <2> QED  BY <2>1, <2>3, <2>4, Zenon DEF Moves, Stays, Where
<1> QED  BY <1>4, <1>5

LEMMA InKeyStep ==
    \A k, l, key, v, u, j :
        On(k, l, key, v, u, j) /\ k < Len(Items) /\ InKey(l, key) /\ Next => Moves(k, l, key, v, u, j)
<1> SUFFICES ASSUME NEW k, NEW l, NEW key, NEW v, NEW u, NEW j, On(k, l, key, v, u, j), k < Len(Items),
                    InKey(l, key), Next
             PROVE  Moves(k, l, key, v, u, j)
  OBVIOUS
<1>1. Next1(k, l, key, v, u, j)
  BY OnIs
<1>2. l \in Nat /\ KeyIs(l + 1, key) /\ v = (l + 1) + KeyEvents(key) /\ u = Find(Strip(key, 1, 1))
  BY <1>1, Zenon DEF Next1
<1>3. Steady /\ (InKey(l, key)' \/ AtValue((l + 1) + KeyEvents(key), Find(Strip(key, 1, 1)))')
  BY <1>2, KeyStep
<1>4. Items' = Items /\ call' = call
  BY <1>3, Framed, Zenon DEF Steady, Moved, Same0
<1>5. Find(Strip(key, 1, 1))' = u
  BY <1>2, <1>4 DEF Find
<1>6. InKey(l, key)' \/ AtValue(v, u)'
  BY <1>2, <1>3, <1>5, Zenon DEF AtValue, At
<1> QED  BY <1>3, <1>4, <1>6, Zenon DEF Moves, Stays, Where

\* The item of a key that no field has is over.
LEMMA PassesUnknown ==
    \A k, l, key, v, u, j :
        On(k, l, key, v, u, j) /\ k < Good0 /\ u = 0 /\ Steady /\ AtItem(j)' => Passes(k)
<1> SUFFICES ASSUME NEW k, NEW l, NEW key, NEW v, NEW u, NEW j, On(k, l, key, v, u, j), k < Good0, u = 0,
                    Steady, AtItem(j)'
             PROVE  Passes(k)
  OBVIOUS
<1>1. Next1(k, l, key, v, u, j)
  BY OnIs
<1>2. k \in Nat /\ FieldOf(Items[k + 1]) = 0 /\ IsValue(Items[k + 1].val, MaxDep - 1)
  BY <1>1, Zenon DEF Next1
<1>3. Called /\ call.mode = "obj" /\ Stored(k, dst, arena, st.seen) /\ j = LastAt[k + 1]
  BY Zenon DEF On, Named
<1>4. ~Stops(Items[k + 1])
  BY <1>2, <1>3, Unstopped
<1>5. Stored(k + 1, dst, arena, st.seen)
  <2>1. PICK D, a, n : D = dst /\ a = arena /\ n = st.seen
    OBVIOUS
  <2>2. Stored(k, D, a, n)
    BY <1>3, <2>1
  <2>3. Stored(k + 1, D, a, n)
    BY <1>2, <1>3, <2>2, StoredNone
  <2> QED  BY <2>1, <2>3
<1>6. dst' = dst /\ arena' = arena /\ st'.seen = st.seen /\ Same0
  BY Zenon DEF Steady, Moved, Same0
<1>7. Stored(k + 1, dst', arena', st'.seen)
  BY <1>5, <1>6
<1> QED  BY <1>3, <1>4, <1>6, <1>7, Zenon DEF Passes

\* Item k + 1 is that of a field.
LEMMA DueOn ==
    \A k, l, key, v, u, j :
        On(k, l, key, v, u, j) /\ k < Good0 /\ u # 0 =>
            /\ Due(k, u) /\ v = ValAt(k + 1) /\ j = LastAt[k + 1]
            /\ Outcome(k) => Moves(k, l, key, v, u, j)
<1> SUFFICES ASSUME NEW k, NEW l, NEW key, NEW v, NEW u, NEW j, On(k, l, key, v, u, j), k < Good0, u # 0
             PROVE  /\ Due(k, u) /\ v = ValAt(k + 1) /\ j = LastAt[k + 1]
                    /\ Outcome(k) => Moves(k, l, key, v, u, j)
  OBVIOUS
<1>1. /\ Called /\ Rooted /\ call.mode = "obj" /\ Stored(k, dst, arena, st.seen) /\ j = LastAt[k + 1]
      /\ k < Len(Items) => v = ValAt(k + 1) /\ u = FieldOf(Items[k + 1])
  BY Zenon DEF On, Named
<1>2. k \in Nat /\ k < Len(Items) /\ u \in 0 .. Len(call.def)
  BY OnIs, Zenon DEF Next1
<1>3. u \in 1 .. Len(call.def)
  <2>1. Len(call.def) \in Nat
    BY <1>1, CallIs
  <2> QED  BY <1>2, <2>1
<1>4. Due(k, u)
  BY <1>1, <1>2, <1>3, Zenon DEF Due
<1>5. Outcome(k) => Passes(k) \/ Halted(k)
  BY <1>2, Zenon DEF Outcome, Taken, Passes, Halted
<1> QED  BY <1>1, <1>2, <1>4, <1>5, Zenon DEF Moves

\* The first event of a value of several, and what is behind it.
Entered(k, v, u) ==
    /\ k < Len(Items) /\ Evs[v].kind \notin {"True", "False", "Null"} /\ pos = v /\ Steady /\ InVal(v, u)'
    /\ u # 0 => Evs[v].kind \in Takes(call.def[u].typ)

LEMMA EnterValue ==
    \A k, l, key, v, u, j : On(k, l, key, v, u, j) /\ Entered(k, v, u) => Moves(k, l, key, v, u, j)
<1> SUFFICES ASSUME NEW k, NEW l, NEW key, NEW v, NEW u, NEW j, On(k, l, key, v, u, j), Entered(k, v, u)
             PROVE  Moves(k, l, key, v, u, j)
  OBVIOUS
<1>2. /\ On(k, l, key, v, u, j) /\ k < Len(Items) /\ Evs[v].kind \notin {"True", "False", "Null"}
      /\ pos = v /\ Steady /\ InVal(v, u)' /\ (u # 0 => Evs[v].kind \in Takes(call.def[u].typ))
  BY Zenon DEF Entered
<1>3. Next1(k, l, key, v, u, j)
  BY <1>2, OnIs
<1>4. /\ Items' = Items /\ Good0' = Good0 /\ Evs' = Evs /\ call' = call
  BY <1>2, Framed, Zenon DEF Steady, Moved, Same0
<1>5. k < Good0 => pos' <= j
  <2>1. k < Good0 => v < j /\ v \in Nat /\ j \in Nat
    BY <1>2, <1>3, LongIs, Zenon DEF Next1
  <2>2. pos' = v + 1
    BY <1>2 DEF Steady, Moved
  <2> QED  BY <2>1, <2>2
<1>6. Inside(k, v, u, j)'
  BY <1>2, <1>4, <1>5, Zenon DEF Inside
<1> QED  BY <1>2, <1>4, <1>6, Zenon DEF Moves, Stays, Where

LEMMA ValueStep ==
    \A k, l, key, v, u, j :
        On(k, l, key, v, u, j) /\ k < Len(Items) /\ AtValue(v, u) /\ v <= Len(Evs) /\ Next =>
            Moves(k, l, key, v, u, j)
<1> SUFFICES ASSUME NEW k, NEW l, NEW key, NEW v, NEW u, NEW j, On(k, l, key, v, u, j), k < Len(Items),
                    AtValue(v, u), v <= Len(Evs), Next
             PROVE  Moves(k, l, key, v, u, j)
  OBVIOUS
<1>1. Next1(k, l, key, v, u, j)
  BY OnIs
<1>2. /\ v \in Nat /\ k \in Nat /\ arena \in Seq(OutChars) /\ Len(Evs) \in Nat /\ u \in 0 .. Len(call.def)
      /\ k < Good0 => /\ ValueIs(Evs, v, j, Items[k + 1].val, ValueAt(call.doc, k + 1))
                      /\ v \in Nat /\ j \in Nat /\ v <= j
      /\ ~(k < Good0) => Breaks(Evs, v) /\ Stops(Items[k + 1])
  BY <1>1, Zenon DEF Next1
<1>3. Called /\ Len(call.def) \in Nat /\ pos = v
  BY CallIs, Zenon DEF On, AtValue, At
<1>4. /\ Evs[v].kind \in Beginnings
      /\ Evs[v].kind \in {"True", "False", "Null"} => k < Good0 /\ v = j
  <2>1. CASE k < Good0
    <3>1. "raw" \in Types
      BY DEF Types
    <3> QED  BY <1>2, <2>1, <3>1, TakesFits
  <2>2. CASE ~(k < Good0)
    <3>1. Evs[v].kind \in {"SBeg", "NBeg"} \union Composite
      BY <1>2, <2>2, BreaksBegins
    <3>2. Evs[v].kind \in Beginnings
      BY <3>1, KindsApart
    <3>3. Evs[v].kind \notin {"True", "False", "Null"}
      BY <3>1, KindsApart
    <3> QED  BY <3>2, <3>3
  <2> QED  BY <2>1, <2>2
<1>5. CASE u = 0
  <2>1. /\ Steady
        /\ IF Evs[v].kind \in {"True", "False", "Null"} THEN AtItem(v)' ELSE InVal(v, 0)'
    BY <1>2, <1>4, <1>5, UnknownBegins
  <2>2. CASE Evs[v].kind \in {"True", "False", "Null"}
    <3>1. k < Good0 /\ v = j /\ AtItem(v)'
      BY <1>4, <2>1, <2>2
    <3>2. AtItem(j)'
      BY <3>1, Zenon DEF AtItem, At
    <3>3. Passes(k)
      BY <1>5, <2>1, <3>1, <3>2, PassesUnknown
    <3> QED  BY <3>3, Zenon DEF Moves
  <2>3. CASE Evs[v].kind \notin {"True", "False", "Null"}
    <3>1. InVal(v, 0)' /\ u = 0
      BY <1>5, <2>1, <2>3
    <3>2. InVal(v, u)'
      BY <3>1, Zenon DEF InVal, InStr, InNum, InRaw, At
    <3> QED  BY <1>3, <1>5, <2>1, <2>3, <3>2, EnterValue, Zenon DEF Entered
  <2> QED  BY <2>2, <2>3
<1>6. CASE u # 0
  <2>1. u \in 1 .. Len(call.def)
    BY <1>2, <1>3, <1>6
  <2>2. Opens(v, u)
    BY <1>2, <1>3, <2>1, Zenon DEF Opens
  <2>3. CASE k < Good0 /\ Brief(v, u)
    <3>1. /\ Due(k, u) /\ v = ValAt(k + 1)
          /\ Outcome(k) => Moves(k, l, key, v, u, j)
      BY <1>6, <2>3, DueOn, Zenon
    <3>2. Opens(ValAt(k + 1), u) /\ Brief(ValAt(k + 1), u)
      BY <2>2, <2>3, <3>1, Zenon
    <3> QED  BY <3>1, <3>2, OpeningEnds
  <2>4. CASE ~(k < Good0) /\ Evs[v].kind \notin Takes(call.def[u].typ)
    <3>1. Evs[v].kind \in Beginnings \ Takes(call.def[u].typ)
      BY <1>4, <2>4
    <3>2. Halts
      BY <1>2, <2>2, <3>1, MismatchHalts
    <3> QED  BY <1>2, <2>4, <3>2, Zenon DEF Moves, Halted
  <2>5. CASE Evs[v].kind \notin {"True", "False", "Null"} /\ Evs[v].kind \in Takes(call.def[u].typ)
    <3>1. Evs[v].kind \in Composite \union {"SBeg", "NBeg"}
      BY <1>4, <2>5 DEF Beginnings, Composite
    <3>2. Steady /\ InVal(v, u)'
      BY <1>2, <2>2, <2>5, <3>1, CaptureBegins
    <3> QED  BY <1>3, <2>5, <3>2, EnterValue, Zenon DEF Entered
  <2> QED  BY <1>4, <2>3, <2>4, <2>5, Zenon DEF Brief
<1> QED  BY <1>5, <1>6

LEMMA InsideStep ==
    \A k, l, key, v, u, j :
        On(k, l, key, v, u, j) /\ k < Len(Items) /\ Inside(k, v, u, j) /\ pos <= Len(Evs) /\ Next =>
            Moves(k, l, key, v, u, j)
<1> SUFFICES ASSUME NEW k, NEW l, NEW key, NEW v, NEW u, NEW j, On(k, l, key, v, u, j), k < Len(Items),
                    Inside(k, v, u, j), pos <= Len(Evs), Next
             PROVE  Moves(k, l, key, v, u, j)
  OBVIOUS
<1>1. Next1(k, l, key, v, u, j)
  BY OnIs
<1>2. /\ v \in Nat /\ k \in Nat /\ Len(Evs) \in Nat
      /\ k < Good0 => /\ ValueIs(Evs, v, j, Items[k + 1].val, ValueAt(call.doc, k + 1))
                      /\ v \in Nat /\ j \in Nat /\ v <= j
      /\ ~(k < Good0) => Breaks(Evs, v) /\ Stops(Items[k + 1])
  BY <1>1, Zenon DEF Next1
<1> PICK p : p = pos
  OBVIOUS
<1>3. /\ Begun(Evs, v, p) /\ Runs /\ p \in Nat /\ p <= Len(Evs)
      /\ k < Good0 => p <= j
      /\ u # 0 => Evs[v].kind \in Takes(call.def[u].typ)
      /\ InVal(v, u)
  BY Zenon DEF Inside, InVal, InStr, InNum, InRaw, At, Runs
<1>4. CASE Goes(Evs, v, p) /\ (k < Good0 => p < j)
  <2>1. Steady /\ InVal(v, u)'
    <3>1. CASE InStr(v, u)
      BY <1>2, <1>3, <1>4, <3>1, StrGoes, Zenon DEF InVal
    <3>2. CASE InNum(v, u)
      BY <1>2, <1>3, <1>4, <3>2, NumGoes, Zenon DEF InVal
    <3>3. CASE InRaw(v, u)
      <4>1. ~Ends(Evs, v, p)
        BY <1>4, Zenon DEF Goes
      <4> QED  BY <1>2, <1>3, <1>4, <3>3, <4>1, RawGoes, Zenon DEF InVal
    <3> QED  BY <1>3, <3>1, <3>2, <3>3, Zenon DEF InVal
  <2>2. Items' = Items /\ Good0' = Good0 /\ Evs' = Evs /\ call' = call
    BY <2>1, Framed, Zenon DEF Steady, Moved, Same0
  <2>3. k < Good0 => pos' <= j
    <3>1. pos' = p + 1
      BY <2>1 DEF Steady, Moved
    <3> QED  BY <1>2, <1>3, <1>4, <3>1
  <2>4. Inside(k, v, u, j)'
    BY <1>3, <2>1, <2>2, <2>3, Zenon DEF Inside
  <2> QED  BY <2>1, <2>2, <2>4, Zenon DEF Moves, Stays, Where
<1>5. CASE k < Good0 /\ p = j /\ Ends(Evs, v, p)
  <2>1. CASE u = 0
    <3>1. Steady /\ AtItem(p)'
      <4>1. CASE InRaw(v, u)
        BY <1>2, <1>3, <1>5, <2>1, <4>1, RawGoes
      <4>2. CASE InStr(v, u) \/ InNum(v, u)
        BY <1>2, <1>3, <1>5, <2>1, <4>2, UnknownEnds
      <4> QED  BY <1>3, <4>1, <4>2, Zenon DEF InVal
    <3>2. AtItem(j)'
      BY <1>5, <3>1, Zenon DEF AtItem, At
    <3>3. Passes(k)
      BY <1>5, <2>1, <3>1, <3>2, PassesUnknown
    <3> QED  BY <3>3, Zenon DEF Moves
  <2>2. CASE u # 0
    <3>1. /\ Due(k, u) /\ v = ValAt(k + 1) /\ j = LastAt[k + 1]
          /\ Outcome(k) => Moves(k, l, key, v, u, j)
      BY <1>5, <2>2, DueOn, Zenon
    <3>2. Last(k, u)
      BY <1>3, <1>5, <2>2, <3>1, Zenon DEF Last
    <3>3. InStr(ValAt(k + 1), u) \/ InNum(ValAt(k + 1), u) \/ InRaw(ValAt(k + 1), u)
      BY <1>3, <3>1, Zenon DEF InVal
    <3>4. Outcome(k)
      BY <3>2, <3>3, StrEnds, NumEnds, RawEnds, Zenon
    <3> QED  BY <3>1, <3>4
  <2> QED  BY <2>1, <2>2
<1>6. (Goes(Evs, v, p) /\ (k < Good0 => p < j)) \/ (k < Good0 /\ p = j /\ Ends(Evs, v, p))
  <2>1. CASE k < Good0
    <3>1. (p < j => Goes(Evs, v, p)) /\ (p = j => Ends(Evs, v, p))
      BY <1>2, <1>3, <2>1, Within
    <3>2. p < j \/ p = j
      BY <1>2, <1>3, <2>1
    <3> QED  BY <2>1, <3>1, <3>2
  <2>2. CASE ~(k < Good0)
    <3>1. Goes(Evs, v, p)
      BY <1>2, <1>3, <2>2, BrokenOff
    <3> QED  BY <2>2, <3>1
  <2> QED  BY <2>1, <2>2
<1> QED  BY <1>4, <1>5, <1>6

LEMMA WhereStep ==
    \A k, l, key, v, u, j :
        On(k, l, key, v, u, j) /\ Where(k, l, key, v, u, j) /\ pos <= Len(Evs) /\ Next =>
            Moves(k, l, key, v, u, j)
<1> SUFFICES ASSUME NEW k, NEW l, NEW key, NEW v, NEW u, NEW j, On(k, l, key, v, u, j),
                    Where(k, l, key, v, u, j), pos <= Len(Evs), Next
             PROVE  Moves(k, l, key, v, u, j)
  OBVIOUS
<1>1. ~(k = Len(Items) /\ AtEnd(l))
  <2>1. SUFFICES ASSUME k = Len(Items), AtEnd(l)  PROVE FALSE
    OBVIOUS
  <2>2. Next1(k, l, key, v, u, j)
    BY OnIs
  <2>3. (Len(Evs) = l \/ Len(Evs) = l + 1) /\ l \in Nat
    BY <2>1, <2>2, Zenon DEF Next1
  <2>4. pos = l + 2
    BY <2>1, Zenon DEF AtEnd, At
  <2> QED  BY <2>3, <2>4
<1>2. AtValue(v, u) => v <= Len(Evs)
  BY Zenon DEF AtValue, At
<1> QED  BY <1>1, <1>2, ItemStep, InKeyStep, ValueStep, InsideStep, Zenon DEF Where

-----------------------------------------------------------------------------
(* Which item is the first that stops the call.                            *)

LEMMA StopsHere ==
    ASSUME Called, NEW k \in Nat, k <= Before(Items), k < Len(Items), Stops(Items[k + 1])
    PROVE  Before(Items) = k
<1> DEFINE S == {i \in 1 .. Len(Items) : Stops(Items[i])}
<1>1. PICK b, n : b = Before(Items) /\ n = Len(Items)
  OBVIOUS
<1>2. n \in Nat
  BY <1>1, CallIs
<1>3. First(n, S, b)
  BY <1>1, BeforeIs
<1>4. k + 1 \in S
  BY <1>1, <1>2
<1> HIDE DEF S
<1>5. b \in 0 .. n /\ \A i \in 1 .. b : i \notin S
  BY <1>3 DEF First
<1>6. ~(k < b)
  BY <1>2, <1>4, <1>5
<1> QED  BY <1>1, <1>2, <1>5, <1>6

LEMMA StopsLater ==
    ASSUME Called, NEW k \in Nat, k <= Before(Items), k < Len(Items), ~Stops(Items[k + 1])
    PROVE  k + 1 <= Before(Items)
<1> DEFINE S == {i \in 1 .. Len(Items) : Stops(Items[i])}
<1>1. PICK b, n : b = Before(Items) /\ n = Len(Items)
  OBVIOUS
<1>2. n \in Nat
  BY <1>1, CallIs
<1>3. First(n, S, b)
  BY <1>1, BeforeIs
<1>4. k + 1 \notin S
  OBVIOUS
<1> HIDE DEF S
<1>5. b \in 0 .. n /\ (b < n => b + 1 \in S)
  BY <1>3 DEF First
<1>6. k # b
  BY <1>1, <1>2, <1>4, <1>5
<1> QED  BY <1>1, <1>2, <1>5, <1>6

LEMMA BeforeRange ==
    ASSUME Called
    PROVE  Before(Items) \in Nat /\ Before(Items) <= Len(Items) /\ Len(Items) \in Nat
<1>1. PICK b, n : b = Before(Items) /\ n = Len(Items)
  OBVIOUS
<1>2. n \in Nat
  BY <1>1, CallIs
<1>3. First(n, {i \in 1 .. Len(Items) : Stops(Items[i])}, b)
  BY <1>1, BeforeIs
<1>4. b \in 0 .. n
  BY <1>3 DEF First
<1> QED  BY <1>1, <1>2, <1>4

LEMMA StoredGrown ==
    ASSUME NEW k, NEW D, NEW a, NEW seen, Stored(k, D, a, seen), NEW b, Grown(a, b)
    PROVE  Stored(k, D, b, seen)
<1>1. a \in Seq(OutChars)
  BY Zenon DEF Stored
<1>2. b \in Seq(OutChars) /\ \A w, x : Holds(w, a, x) => Holds(w, b, x)
  BY <1>1, GrownIs
<1> QED  BY <1>2, Zenon DEF Stored

\* What is left to do when the events are over.
LEMMA OverIs ==
    \A k, l, key, v, u, j :
        On(k, l, key, v, u, j) /\ Where(k, l, key, v, u, j) /\ pos > Len(Evs) =>
            /\ k = Before(Items)
            /\ feed.err = NoError <=> Whole /\ Before(Items) = Len(Items)
<1> SUFFICES ASSUME NEW k, NEW l, NEW key, NEW v, NEW u, NEW j, On(k, l, key, v, u, j),
                    Where(k, l, key, v, u, j), pos > Len(Evs)
             PROVE  /\ k = Before(Items)
                    /\ feed.err = NoError <=> Whole /\ Before(Items) = Len(Items)
  OBVIOUS
<1>1. Next1(k, l, key, v, u, j) /\ Called /\ k <= Before(Items)
  BY OnIs, Zenon DEF On
<1>2. PICK b, n, m : b = Before(Items) /\ n = Len(Items) /\ m = Len(Evs)
  OBVIOUS
<1>3. b \in Nat /\ b <= n /\ n \in Nat /\ m \in Nat /\ l \in Nat /\ k \in Nat /\ k <= b /\ pos > m
  <2>1. Len(Evs) \in Nat /\ l \in Nat /\ k \in Nat
    BY <1>1, Zenon DEF Next1
  <2> QED  BY <1>1, <1>2, <2>1, BeforeRange
<1>4. CASE k < n
  <2>1. AtItem(l) \/ InKey(l, key) \/ AtValue(v, u) \/ Inside(k, v, u, j)
    BY <1>2, <1>3, <1>4 DEF Where
  <2>2. KeyIs(l + 1, key) /\ v = (l + 1) + KeyEvents(key)
    BY <1>1, <1>2, <1>4, Zenon DEF Next1
  <2>3. PICK e : e = KeyEvents(key)
    OBVIOUS
  <2>4. e \in {2, 3} /\ (l + 1) + e <= m + 1
    BY <1>2, <2>2, <2>3, Zenon DEF KeyIs
  <2>5. ~AtItem(l)
    <3>1. AtItem(l) => pos = l + 1
      BY Zenon DEF AtItem, At
    <3> QED  BY <1>3, <2>4, <3>1
  <2>6. ~InKey(l, key)
    <3>1. InKey(l, key) => pos = l + 2 \/ (e = 3 /\ pos = l + 3)
      BY <2>3, Zenon DEF InKey, At
    <3> QED  BY <1>3, <2>4, <3>1
  <2>7. ~(k < Good0)
    <3>1. SUFFICES ASSUME k < Good0  PROVE FALSE
      OBVIOUS
    <3>2. v \in Nat /\ j \in Nat /\ v <= j /\ j <= m
      BY <1>1, <1>2, <3>1, Zenon DEF Next1
    <3>3. pos = v \/ pos <= j
      BY <2>1, <2>5, <2>6, <3>1, Zenon DEF AtValue, At, Inside
    <3>4. pos \in Nat
      BY <2>1, Zenon DEF AtItem, InKey, AtValue, Inside, InVal, InStr, InNum, InRaw, At, Runs
    <3> QED  BY <1>3, <3>2, <3>3, <3>4
  <2>8. Stops(Items[k + 1]) /\ feed.err # NoError
    BY <1>1, <1>2, <1>4, <2>7, Zenon DEF Next1
  <2>9. b = k
    BY <1>1, <1>2, <1>3, <1>4, <2>8, StopsHere
  <2>10. b # n
    BY <1>3, <1>4, <2>9
  <2> QED  BY <1>2, <2>8, <2>9, <2>10
<1>5. CASE ~(k < n)
  <2>1. k = n /\ b = n
    BY <1>3, <1>5
  <2>2. AtItem(l) \/ AtEnd(l)
    BY <1>2, <1>5, Zenon DEF Where
  <2>3. \/ m = l /\ feed.err # NoError /\ ~Whole
        \/ m = l + 1 /\ (feed.err = NoError <=> Whole)
    BY <1>1, <1>2, <2>1, Zenon DEF Next1
  <2>4. feed.err = NoError <=> Whole
    BY <2>3
  <2> QED  BY <1>2, <2>1, <2>4
<1> QED  BY <1>4, <1>5

-----------------------------------------------------------------------------
(* The invariant of FldObj.                                                *)

\* Before the first event; behind k items, at a known event of the next one; at
\* the end, all items before the first that stops the call stored; stopped by a
\* text that is no object.
Fresh ==
    /\ Called /\ call.mode = "obj" /\ ret = NoRet /\ pos = 1 /\ st = State0
    /\ dst = [i \in 1 .. Len(call.def) |-> Untouched] /\ arena \in Seq(OutChars)
ReadingObj == \E k, l, key, v, u, j : On(k, l, key, v, u, j) /\ Where(k, l, key, v, u, j)

Missing == {i \in 1 .. Len(call.def) : call.def[i].req /\ i \notin st.seen}
First1(S) == CHOOSE i \in S : \A k \in S : i <= k
Done ==
    /\ Called /\ call.mode = "obj" /\ Rooted /\ ret # NoRet
    /\ \E b : b = Before(Items) /\ Stored(b, dst, arena, st.seen)
    /\ \/ Failed(ret.cause) /\ ~(Whole /\ Before(Items) = Len(Items))
       \/ /\ Whole /\ Before(Items) = Len(Items)
          /\ \/ Missing = {} /\ ret.cause = NoCause
             \/ Missing # {} /\ ret.cause = "missing" /\ ret.fld = First1(Missing)
Refused == Called /\ call.mode = "obj" /\ ~Rooted /\ ret # NoRet /\ Failed(ret.cause)

ObjInv == call.mode = "obj" => Fresh \/ ReadingObj \/ Done \/ Refused

LEMMA CallKept ==
    Same0 => /\ Called' = Called /\ Rooted' = Rooted /\ Whole' = Whole /\ Before(Items)' = Before(Items)
             /\ Items' = Items /\ Evs' = Evs /\ Good0' = Good0 /\ call' = call /\ buf' = buf
<1> SUFFICES ASSUME Same0
             PROVE  /\ Called' = Called /\ Rooted' = Rooted /\ Whole' = Whole /\ Before(Items)' = Before(Items)
                    /\ Items' = Items /\ Evs' = Evs /\ Good0' = Good0 /\ call' = call /\ buf' = buf
  OBVIOUS
<1>1. call' = call /\ feed' = feed
  BY Zenon DEF Same0
<1>2. Items' = Items /\ Evs' = Evs /\ Good0' = Good0
  BY Framed
<1>3. buf' = buf
  BY <1>1, Zenon DEF buf
<1>4. Called' = Called
  BY <1>1, <1>3, Zenon DEF Called
<1>5. Rooted' = Rooted /\ Whole' = Whole
  BY <1>1 DEF Rooted, Whole
<1>6. \A it : Stops(it)' = Stops(it)
  BY <1>1 DEF Stops, FieldOf, Fits
<1>7. \A items : Before(items)' = Before(items)
  BY <1>6, Zenon DEF Before
<1>8. Before(Items)' = Before(Items)
  BY <1>2, <1>7, Zenon
<1> QED  BY <1>1, <1>2, <1>3, <1>4, <1>5, <1>8, Zenon

\* The k-th item has been read by the step.
Ready(k, l, key, v, u, j) ==
    /\ Called /\ Rooted /\ call.mode = "obj" /\ k \in 0 .. Good0 /\ k <= Before(Items)
    /\ Stored(k, dst', arena', st'.seen) /\ Named(k, l, key, v, u, j)

LEMMA OnGoes == \A k, l, key, v, u, j : Same0 /\ Ready(k, l, key, v, u, j) => On(k, l, key, v, u, j)'
<1> SUFFICES ASSUME NEW k, NEW l, NEW key, NEW v, NEW u, NEW j, Same0, Ready(k, l, key, v, u, j)
             PROVE  On(k, l, key, v, u, j)'
  OBVIOUS
<1>1. /\ Called /\ Rooted /\ call.mode = "obj" /\ k \in 0 .. Good0 /\ k <= Before(Items)
      /\ Stored(k, dst', arena', st'.seen) /\ Named(k, l, key, v, u, j)
  BY Zenon DEF Ready
<1>2. /\ Called' = Called /\ Rooted' = Rooted /\ Before(Items)' = Before(Items) /\ Good0' = Good0
      /\ call' = call
  BY CallKept
<1>3. Named(k, l, key, v, u, j)'
  BY <1>1, NamedOn
<1>4. Stored(k, dst, arena, st.seen)'
  <2>1. PICK D, a, n : D = dst' /\ a = arena' /\ n = st'.seen
    OBVIOUS
  <2>2. Stored(k, D, a, n)
    BY <1>1, <2>1
  <2> QED  BY <2>1, <2>2, StoredOn
<1> QED  BY <1>1, <1>2, <1>3, <1>4, Zenon DEF On

LEMMA FreshActs == Fresh /\ Next => Same0 /\ (NotRoot \/ ObjReturn)
<1> SUFFICES ASSUME Fresh, Next  PROVE Same0 /\ (NotRoot \/ ObjReturn)
  OBVIOUS
<1>1. ret = NoRet /\ call.mode = "obj" /\ st = State0
  BY Zenon DEF Fresh
<1>2. st.root = FALSE
  BY <1>1 DEF State0
<1>3. ~OnObj({"KBeg", "KPar", "KEnd"}) /\ \A kinds : ~OnObj(kinds) /\ ~OnArr(kinds)
  BY <1>2, Zenon DEF OnObj, OnArr
<1>4. /\ ~ObjKey /\ ~ObjUnknown /\ ~ObjMismatch /\ ~ObjCapture /\ ~ObjLiteral /\ ~ObjStrEnd
      /\ ~ObjNumEnd /\ ~ObjPart /\ ~ObjClose
  BY <1>3, Zenon DEF ObjKey, ObjUnknown, ObjMismatch, ObjCapture, ObjLiteral, ObjStrEnd, ObjNumEnd,
                     ObjPart, ObjClose
<1>5. ~ObjInner
  BY <1>3, Zenon DEF ObjInner
<1>6. ~ArrMismatch /\ ~ArrCapture /\ ~ArrLiteral /\ ~ArrStr /\ ~ArrEnd /\ ~ArrInner
  BY <1>3, Zenon DEF ArrMismatch, ArrCapture, ArrLiteral, ArrStr, ArrEnd, ArrInner
<1>7. ~ArrReturn
  BY <1>1, Zenon DEF ArrReturn
<1> QED  BY <1>4, <1>5, <1>6, <1>7, Zenon DEF Next, Same0

LEMMA OverActs == ret # NoRet => ~Next
<1> SUFFICES ASSUME ret # NoRet, Next  PROVE FALSE
  OBVIOUS
<1>1. \A modes, kinds : ~Got(modes, kinds)
  BY Zenon DEF Got
<1>2. \A kinds : ~OnObj(kinds) /\ ~OnArr(kinds)
  BY <1>1, Zenon DEF OnObj, OnArr
<1>3. /\ ~ObjKey /\ ~ObjUnknown /\ ~ObjMismatch /\ ~ObjCapture /\ ~ObjLiteral /\ ~ObjStrEnd
      /\ ~ObjNumEnd /\ ~ObjPart /\ ~ObjClose /\ ~ObjInner
  BY <1>2, Zenon DEF ObjKey, ObjUnknown, ObjMismatch, ObjCapture, ObjLiteral, ObjStrEnd, ObjNumEnd,
                     ObjPart, ObjClose, ObjInner
<1>4. ~ArrMismatch /\ ~ArrCapture /\ ~ArrLiteral /\ ~ArrStr /\ ~ArrEnd /\ ~ArrInner
  BY <1>2, Zenon DEF ArrMismatch, ArrCapture, ArrLiteral, ArrStr, ArrEnd, ArrInner
<1>5. ~ArrReturn /\ ~ObjReturn /\ ~NotRoot
  BY <1>1, Zenon DEF ArrReturn, ObjReturn, NotRoot
<1> QED  BY <1>3, <1>4, <1>5, Zenon DEF Next

\* The opening bracket, or what stands in its place.
LEMMA RootStep == Fresh /\ NotRoot /\ Same0 => ReadingObj' \/ Refused'
<1> SUFFICES ASSUME Fresh, NotRoot, Same0  PROVE ReadingObj' \/ Refused'
  OBVIOUS
<1>1. /\ Called /\ call.mode = "obj" /\ ret = NoRet /\ pos = 1 /\ st = State0
      /\ dst = [i \in 1 .. Len(call.def) |-> Untouched] /\ arena \in Seq(OutChars)
  BY Zenon DEF Fresh
<1> DEFINE A == Go([st EXCEPT !.root = TRUE, !.dep = 1]) /\ Kept
           B == Stop("want_obeg", ev.loc) /\ UNCHANGED arena
<1>2. /\ pos <= Len(feed.evs) /\ ev.kind \in Beginnings
      /\ IF ev.kind = "OBeg" THEN A ELSE B
  <2>1. /\ Got({"obj", "arrobj", "arrscalar"}, Beginnings)
        /\ LET first == IF call.mode = "obj" THEN "OBeg" ELSE "ABeg"
           IN  IF ev.kind = first THEN Go([st EXCEPT !.root = TRUE, !.dep = 1]) /\ Kept
               ELSE /\ Stop(IF call.mode = "obj" THEN "want_obeg" ELSE "want_abeg", ev.loc)
                    /\ UNCHANGED arena
    BY Zenon DEF NotRoot
  <2>2. IF ev.kind = "OBeg" THEN A ELSE B
    BY <1>1, <2>1, Zenon
  <2> QED  BY <2>1, <2>2, Zenon DEF Got
<1> HIDE DEF A, B
<1>3. Evs[1] = ev /\ 1 <= Len(Evs) /\ Len(Evs) \in Nat
  BY <1>1, <1>2, FeedIs, Zenon DEF Evs, ev
<1>4. Evs # << >>
  BY <1>3
<1>5. Rooted <=> ev.kind = "OBeg"
  <2>1. Root(call).beg = "OBeg"
    BY <1>1 DEF Root
  <2> QED  BY <1>1, <1>3, <1>4, <2>1, FeedIs, Zenon
<1>6. /\ Called' = Called /\ Rooted' = Rooted /\ call' = call
  BY CallKept
<1>7. CASE ev.kind = "OBeg"
  <2>1. /\ st' = [st EXCEPT !.root = TRUE, !.dep = 1] /\ pos' = pos + 1 /\ ret' = ret
        /\ dst' = dst /\ arena' = arena
    BY <1>2, <1>7, Zenon DEF A, Go, Kept
  <2>2. /\ IsSt' /\ st'.root = TRUE /\ st'.dep = 1 /\ st'.cap = {} /\ st'.expectVal = FALSE /\ st'.cur = 0
        /\ st'.seen = {}
    BY <1>1, <2>1 DEF IsSt, StFields, State0
  <2>3. Runs'
    <3>1. pos' \in Nat
      BY <1>1, <2>1
    <3>2. Evs' = Evs /\ NoRet' = NoRet
      BY CallKept DEF NoRet, NoLoc
    <3> QED  BY <1>1, <1>3, <1>6, <2>1, <2>2, <3>1, <3>2, Zenon DEF Runs
  <2>4. AtItem(1)'
    <3>1. pos' = 1 + 1
      BY <1>1, <2>1
    <3> QED  BY <2>2, <2>3, <3>1, Zenon DEF AtItem, At
  <2>5. Rooted
    BY <1>5, <1>7
  <2>6. Stored(0, dst', arena', st'.seen)
    <3>1. PICK D, a, n : D = dst' /\ a = arena' /\ n = st'.seen
      OBVIOUS
    <3>2. D = [i \in 1 .. Len(call.def) |-> Untouched] /\ a \in Seq(OutChars) /\ n = {}
      BY <1>1, <2>1, <2>2, <3>1, Zenon
    <3>3. Stored(0, D, a, {})
      BY <1>1, <3>2, StoredFirst
    <3> QED  BY <3>1, <3>2, <3>3
  <2>7. 0 \in 0 .. Good0 /\ 0 <= Before(Items) /\ LastAt[0] = 1
    <3>1. PICK g, b, n : g = Good0 /\ b = Before(Items) /\ n = Len(Items)
      OBVIOUS
    <3>2. g \in 0 .. n /\ b \in Nat /\ n \in Nat /\ LastAt[0] = 1
      BY <1>1, <2>5, <3>1, ItemEvents, BeforeRange
    <3> QED  BY <3>1, <3>2
  <2>8. PICK key, v, u, j : key = Items[0 + 1].key /\ v = ValAt(0 + 1) /\ u = FieldOf(Items[0 + 1])
                            /\ j = LastAt[0 + 1]
    OBVIOUS
  <2>9. Named(0, 1, key, v, u, j)
    BY <2>7, <2>8, Zenon DEF Named
  <2>10. Ready(0, 1, key, v, u, j)
    BY <1>1, <2>5, <2>6, <2>7, <2>9, Zenon DEF Ready
  <2>11. On(0, 1, key, v, u, j)'
    BY <2>10, OnGoes
  <2>12. Where(0, 1, key, v, u, j)'
    BY <2>4, Zenon DEF Where
  <2> QED  BY <2>11, <2>12, Zenon DEF ReadingObj
<1>8. CASE ev.kind # "OBeg"
  <2>1. ret' = Returned("want_obeg", ev.loc, 0)
    BY <1>2, <1>8, Zenon DEF B, Stop
  <2>2. ret'.cause = "want_obeg"
    BY <2>1 DEF Returned
  <2>3. Failed(ret'.cause)
    BY <2>2, Causes
  <2>4. ret'.cause # "none" /\ NoRet'.cause = "none"
    BY <2>2 DEF NoRet
  <2>5. ret' # NoRet'
    BY <2>4
  <2> QED  BY <1>1, <1>5, <1>6, <1>8, <2>3, <2>5, Zenon DEF Refused, Failed, NoCause
<1> QED  BY <1>7, <1>8

\* The text ends before there is anything.
LEMMA EmptyStep == Fresh /\ ObjReturn /\ Same0 => Refused'
<1> SUFFICES ASSUME Fresh, ObjReturn, Same0  PROVE Refused'
  OBVIOUS
<1>1. Called /\ call.mode = "obj" /\ pos = 1
  BY Zenon DEF Fresh
<1>2. Len(Evs) \in Nat /\ ~(1 <= Len(Evs))
  <2>1. pos > Len(Evs)
    BY Zenon DEF ObjReturn, Evs
  <2> QED  BY <1>1, <2>1, FeedIs
<1>3. Evs = << >>
  <2>1. Evs \in Seq(FeedEvents)
    BY <1>1, FeedIs
  <2> QED  BY <1>2, <2>1
<1>4. ~Rooted /\ feed.err # NoError /\ feed.err.cause \notin {"missing", "none"} /\ feed.err.cause # NoCause
  BY <1>1, <1>3, FeedIs
<1>5. ret' = Returned(feed.err.cause, feed.err.loc, 0)
  <2> DEFINE missing == {i \in 1 .. Len(call.def) : call.def[i].req /\ i \notin st.seen}
             A == Returned(feed.err.cause, feed.err.loc, 0)
             B == Returned("missing", NoLoc, CHOOSE i \in missing : \A k \in missing : i <= k)
             C == Returned(NoCause, NoLoc, 0)
  <2>1. ret' = CASE feed.err # NoError -> A [] feed.err = NoError /\ missing # {} -> B [] OTHER -> C
    BY Zenon DEF ObjReturn
  <2> HIDE DEF A, B, C, missing
  <2>2. ret' = A
    BY <1>4, <2>1
  <2> QED  BY <2>2, Zenon DEF A
<1>6. ret'.cause = feed.err.cause
  BY <1>5 DEF Returned
<1>7. Failed(ret'.cause)
  BY <1>4, <1>6, Zenon DEF Failed
<1>8. ret' # NoRet'
  <2>1. ret'.cause # "none" /\ NoRet'.cause = "none"
    BY <1>4, <1>6 DEF NoRet
  <2> QED  BY <2>1
<1>9. Called' = Called /\ Rooted' = Rooted /\ call' = call
  BY CallKept
<1> QED  BY <1>1, <1>4, <1>7, <1>8, <1>9, Zenon DEF Refused, Failed, NoCause

LEMMA EndActs == Runs /\ pos > Len(Evs) /\ Next => Same0 /\ ObjReturn
<1> SUFFICES ASSUME Runs, pos > Len(Evs), Next  PROVE Same0 /\ ObjReturn
  OBVIOUS
<1>1. call.mode = "obj"
  BY Zenon DEF Runs
<1>2. ~(pos <= Len(feed.evs))
  <2>1. pos \in Nat /\ Len(Evs) \in Nat
    BY Zenon DEF Runs
  <2> QED  BY <2>1 DEF Evs
<1>3. \A modes, kinds : ~Got(modes, kinds)
  BY <1>2, Zenon DEF Got
<1>4. \A kinds : ~OnObj(kinds) /\ ~OnArr(kinds)
  BY <1>3, Zenon DEF OnObj, OnArr
<1>5. /\ ~ObjKey /\ ~ObjUnknown /\ ~ObjMismatch /\ ~ObjCapture /\ ~ObjLiteral /\ ~ObjStrEnd
      /\ ~ObjNumEnd /\ ~ObjPart /\ ~ObjClose /\ ~ObjInner
  BY <1>4, Zenon DEF ObjKey, ObjUnknown, ObjMismatch, ObjCapture, ObjLiteral, ObjStrEnd, ObjNumEnd,
                     ObjPart, ObjClose, ObjInner
<1>6. ~ArrMismatch /\ ~ArrCapture /\ ~ArrLiteral /\ ~ArrStr /\ ~ArrEnd /\ ~ArrInner
  BY <1>4, Zenon DEF ArrMismatch, ArrCapture, ArrLiteral, ArrStr, ArrEnd, ArrInner
<1>7. ~ArrReturn /\ ~NotRoot
  BY <1>1, <1>3, Zenon DEF ArrReturn, NotRoot
<1> QED  BY <1>5, <1>6, <1>7, Zenon DEF Next, Same0

LEMMA StaysReads ==
    \A k, l, key, v, u, j : On(k, l, key, v, u, j) /\ Stays(k, l, key, v, u, j) => ReadingObj'
<1> SUFFICES ASSUME NEW k, NEW l, NEW key, NEW v, NEW u, NEW j, On(k, l, key, v, u, j),
                    Stays(k, l, key, v, u, j)
             PROVE  ReadingObj'
  OBVIOUS
<1>1. Steady /\ Where(k, l, key, v, u, j)'
  BY Zenon DEF Stays
<1>2. dst' = dst /\ arena' = arena /\ st'.seen = st.seen /\ Same0
  BY <1>1, Zenon DEF Steady, Moved, Same0
<1>3. Stored(k, dst', arena', st'.seen)
  <2>1. Stored(k, dst, arena, st.seen)
    BY Zenon DEF On
  <2> QED  BY <1>2, <2>1
<1>4. Ready(k, l, key, v, u, j)
  BY <1>3, Zenon DEF On, Ready
<1>5. On(k, l, key, v, u, j)'
  BY <1>2, <1>4, OnGoes
<1> QED  BY <1>1, <1>5, Zenon DEF ReadingObj

LEMMA PassesReads == \A k, l, key, v, u, j : On(k, l, key, v, u, j) /\ Passes(k) => ReadingObj'
<1> SUFFICES ASSUME NEW k, NEW l, NEW key, NEW v, NEW u, NEW j, On(k, l, key, v, u, j), Passes(k)
             PROVE  ReadingObj'
  OBVIOUS
<1>1. Same0 /\ k < Good0 /\ ~Stops(Items[k + 1]) /\ Stored(k + 1, dst', arena', st'.seen)
  BY Zenon DEF Passes
<1>2. PICK p : p = LastAt[k + 1] /\ AtItem(p)'
  BY Zenon DEF Passes
<1>3. Called /\ Rooted /\ call.mode = "obj" /\ k <= Before(Items) /\ k \in 0 .. Good0
  BY Zenon DEF On
<1>4. PICK m, g, n : m = k + 1 /\ g = Good0 /\ n = Len(Items)
  OBVIOUS
<1>5. g \in 0 .. n /\ n \in Nat
  BY <1>3, <1>4, ItemEvents, BeforeRange
<1>6. k \in Nat /\ m \in 0 .. g /\ k < n
  BY <1>1, <1>3, <1>4, <1>5
<1>7. m <= Before(Items)
  <2>1. k + 1 <= Before(Items)
    BY <1>1, <1>3, <1>4, <1>6, StopsLater
  <2> QED  BY <1>4, <2>1
<1>8. PICK key2, v2, u2, j2 : key2 = Items[m + 1].key /\ v2 = ValAt(m + 1) /\ u2 = FieldOf(Items[m + 1])
                              /\ j2 = LastAt[m + 1]
  OBVIOUS
<1>9. Named(m, p, key2, v2, u2, j2)
  <2>1. p = LastAt[m]
    BY <1>2, <1>4
  <2> QED  BY <1>8, <2>1, Zenon DEF Named
<1>10. Ready(m, p, key2, v2, u2, j2)
  <2>1. m \in 0 .. Good0 /\ Stored(m, dst', arena', st'.seen)
    BY <1>1, <1>4, <1>6
  <2> QED  BY <1>3, <1>7, <1>9, <2>1, Zenon DEF Ready
<1>11. On(m, p, key2, v2, u2, j2)'
  BY <1>1, <1>10, OnGoes
<1>12. Where(m, p, key2, v2, u2, j2)'
  BY <1>2, Zenon DEF Where
<1> QED  BY <1>11, <1>12, Zenon DEF ReadingObj

\* Nothing more is stored, and the call has returned.
Returns(k) ==
    /\ Called /\ call.mode = "obj" /\ Rooted /\ k = Before(Items) /\ ret' # NoRet
    /\ Stored(k, dst', arena', st'.seen)

LEMMA ReturnsDone ==
    \A k : Same0 /\ Returns(k) =>
        /\ Called' /\ call'.mode = "obj" /\ Rooted' /\ ret' # NoRet'
        /\ \E b : b = Before(Items)' /\ Stored(b, dst, arena, st.seen)'
        /\ (Whole /\ Before(Items) = Len(Items))' <=> Whole /\ Before(Items) = Len(Items)
<1> SUFFICES ASSUME NEW k, Same0, Returns(k)
             PROVE  /\ Called' /\ call'.mode = "obj" /\ Rooted' /\ ret' # NoRet'
                    /\ \E b : b = Before(Items)' /\ Stored(b, dst, arena, st.seen)'
                    /\ (Whole /\ Before(Items) = Len(Items))' <=> Whole /\ Before(Items) = Len(Items)
  OBVIOUS
<1>1. /\ Called /\ call.mode = "obj" /\ Rooted /\ k = Before(Items) /\ ret' # NoRet
      /\ Stored(k, dst', arena', st'.seen)
  BY Zenon DEF Returns
<1>2. /\ Called' = Called /\ Rooted' = Rooted /\ Whole' = Whole /\ Before(Items)' = Before(Items)
      /\ Items' = Items /\ call' = call
  BY CallKept
<1>3. Stored(k, dst, arena, st.seen)'
  <2>1. PICK D, a, n : D = dst' /\ a = arena' /\ n = st'.seen
    OBVIOUS
  <2>2. Stored(k, D, a, n)
    BY <1>1, <2>1
  <2> QED  BY <2>1, <2>2, StoredOn
<1>4. NoRet' = NoRet
  BY DEF NoRet, NoLoc
<1> QED  BY <1>1, <1>2, <1>3, <1>4, Zenon

LEMMA HaltedDone == \A k, l, key, v, u, j : On(k, l, key, v, u, j) /\ Halted(k) => Done'
<1> SUFFICES ASSUME NEW k, NEW l, NEW key, NEW v, NEW u, NEW j, On(k, l, key, v, u, j), Halted(k)
             PROVE  Done'
  OBVIOUS
<1>1. Halts /\ k < Len(Items) /\ Stops(Items[k + 1])
  BY Zenon DEF Halted
<1>2. Failed(ret'.cause) /\ Same0 /\ st' = st /\ dst' = dst /\ Grown(arena, arena')
  BY <1>1, Zenon DEF Halts
<1>3. Called /\ Rooted /\ call.mode = "obj" /\ k <= Before(Items) /\ k \in 0 .. Good0
      /\ Stored(k, dst, arena, st.seen)
  BY Zenon DEF On
<1>4. k \in Nat
  <2>1. PICK g : g = Good0
    OBVIOUS
  <2>2. g \in 0 .. Len(Items) /\ Len(Items) \in Nat
    BY <1>3, <2>1, ItemEvents, BeforeRange
  <2> QED  BY <1>3, <2>1, <2>2
<1>5. k = Before(Items)
  BY <1>1, <1>3, <1>4, StopsHere
<1>6. Stored(k, dst', arena', st'.seen)
  <2>1. PICK D, a, b, n : D = dst /\ a = arena /\ b = arena' /\ n = st.seen
    OBVIOUS
  <2>2. Stored(k, D, b, n)
    <3>1. Stored(k, D, a, n) /\ Grown(a, b)
      BY <1>2, <1>3, <2>1
    <3> QED  BY <3>1, StoredGrown
  <2>3. D = dst' /\ b = arena' /\ n = st'.seen
    BY <1>2, <2>1
  <2> QED  BY <2>2, <2>3
<1>7. ret' # NoRet
  <2>1. ret'.cause # "none" /\ NoRet.cause = "none"
    BY <1>2 DEF NoRet, Failed
  <2> QED  BY <2>1
<1>8. Returns(k)
  BY <1>3, <1>5, <1>6, <1>7, Zenon DEF Returns
<1>9. ~(Whole /\ Before(Items) = Len(Items))
  <2>1. PICK n : n = Len(Items)
    OBVIOUS
  <2>2. n \in Nat
    BY <1>3, <2>1, BeforeRange
  <2>3. k # n
    BY <1>1, <1>4, <2>1, <2>2
  <2> QED  BY <1>5, <2>1, <2>3
<1>10. /\ Called' /\ call'.mode = "obj" /\ Rooted' /\ ret' # NoRet'
       /\ \E b : b = Before(Items)' /\ Stored(b, dst, arena, st.seen)'
       /\ ~(Whole /\ Before(Items) = Len(Items))'
  BY <1>2, <1>8, <1>9, ReturnsDone, Zenon
<1>11. Failed(ret.cause)'
  BY <1>2, Zenon DEF Failed, NoCause
<1> QED  BY <1>10, <1>11, Zenon DEF Done

LEMMA OverDone ==
    \A k, l, key, v, u, j :
        On(k, l, key, v, u, j) /\ Where(k, l, key, v, u, j) /\ pos > Len(Evs) /\ Same0 /\ ObjReturn => Done'
<1> SUFFICES ASSUME NEW k, NEW l, NEW key, NEW v, NEW u, NEW j, On(k, l, key, v, u, j),
                    Where(k, l, key, v, u, j), pos > Len(Evs), Same0, ObjReturn
             PROVE  Done'
  OBVIOUS
<1>1. Called /\ Rooted /\ call.mode = "obj" /\ Stored(k, dst, arena, st.seen)
  BY Zenon DEF On
<1>2. k = Before(Items) /\ (feed.err = NoError <=> Whole /\ Before(Items) = Len(Items))
  BY OverIs
<1> DEFINE missing == {i \in 1 .. Len(call.def) : call.def[i].req /\ i \notin st.seen}
           A == Returned(feed.err.cause, feed.err.loc, 0)
           B == Returned("missing", NoLoc, CHOOSE i \in missing : \A h \in missing : i <= h)
           C == Returned(NoCause, NoLoc, 0)
<1>3. /\ ret' = CASE feed.err # NoError -> A [] feed.err = NoError /\ missing # {} -> B [] OTHER -> C
      /\ pos' = pos /\ st' = st /\ dst' = dst /\ arena' = arena
  BY Zenon DEF ObjReturn
<1>4. /\ feed.err # NoError => ret' = A
      /\ feed.err = NoError /\ missing # {} => ret' = B
      /\ feed.err = NoError /\ missing = {} => ret' = C
  <2> HIDE DEF A, B, C, missing
  <2> QED  BY <1>3
<1>5. /\ A.cause = feed.err.cause /\ B.cause = "missing" /\ C.cause = NoCause
      /\ B.fld = CHOOSE i \in missing : \A h \in missing : i <= h
  BY DEF Returned
<1>6. missing = Missing /\ Missing' = Missing /\ B.fld = First1(Missing)
  <2>1. missing = Missing
    BY Zenon DEF Missing
  <2>2. Missing' = Missing
    <3>1. call' = call
      BY CallKept
    <3> QED  BY <1>3, <3>1 DEF Missing
  <2> HIDE DEF missing, B
  <2> QED  BY <1>5, <2>1, <2>2, Zenon DEF First1
<1>7. ret' \in {A, B, C} /\ ret'.cause # "none" /\ (feed.err # NoError => Failed(ret'.cause))
  <2>1. feed.err.cause \notin {"missing", "none"} /\ (feed.err.cause = NoCause <=> feed.err = NoError)
    BY <1>1, FeedIs
  <2>2. NoCause # "none"
    BY DEF NoCause
  <2> HIDE DEF A, B, C, missing
  <2> QED  BY <1>4, <1>5, <2>1, <2>2, Zenon DEF Failed
<1> HIDE DEF A, B, C, missing
<1>8. Returns(k)
  <2>1. ret' # NoRet
    <3>1. NoRet.cause = "none"
      BY DEF NoRet
    <3> QED  BY <1>7, <3>1
  <2> QED  BY <1>1, <1>2, <1>3, <2>1, Zenon DEF Returns
<1>9. /\ Called' /\ call'.mode = "obj" /\ Rooted' /\ ret' # NoRet'
      /\ \E b : b = Before(Items)' /\ Stored(b, dst, arena, st.seen)'
      /\ (Whole /\ Before(Items) = Len(Items))' <=> feed.err = NoError
  BY <1>2, <1>8, ReturnsDone, Zenon
<1>10. CASE feed.err # NoError
  <2>1. Failed(ret.cause)'
    BY <1>7, <1>10, Zenon DEF Failed, NoCause
  <2> QED  BY <1>9, <1>10, <2>1, Zenon DEF Done
<1>11. CASE feed.err = NoError
  <2>1. \/ Missing' = {} /\ ret'.cause = NoCause
        \/ Missing' # {} /\ ret'.cause = "missing" /\ ret'.fld = First1(Missing')
    BY <1>4, <1>5, <1>6, <1>11, Zenon
  <2>2. First1(Missing)' = First1(Missing')
    BY Zenon DEF First1
  <2>3. NoCause' = NoCause
    BY Zenon DEF NoCause
  <2> QED  BY <1>9, <1>11, <2>1, <2>2, <2>3, Zenon DEF Done
<1> QED  BY <1>10, <1>11

LEMMA WhereRuns == \A k, l, key, v, u, j : Where(k, l, key, v, u, j) => Runs
<1> SUFFICES ASSUME NEW k, NEW l, NEW key, NEW v, NEW u, NEW j, Where(k, l, key, v, u, j)
             PROVE  Runs
  OBVIOUS
<1>1. AtItem(l) \/ InKey(l, key) \/ AtValue(v, u) \/ Inside(k, v, u, j) \/ AtEnd(l)
  BY Zenon DEF Where
<1>2. Inside(k, v, u, j) => Runs
  <2>1. InStr(v, u) => Runs
    BY Zenon DEF InStr, At
  <2>2. InNum(v, u) => Runs
    BY Zenon DEF InNum, At
  <2>3. InRaw(v, u) => Runs
    BY Zenon DEF InRaw, At
  <2> QED  BY <2>1, <2>2, <2>3, Zenon DEF Inside, InVal
<1>3. InKey(l, key) => Runs
  BY Zenon DEF InKey, At
<1> QED  BY <1>1, <1>2, <1>3, Zenon DEF AtItem, AtValue, AtEnd, At

LEMMA ReadingStep == ReadingObj /\ Next => ReadingObj' \/ Done'
<1> SUFFICES ASSUME ReadingObj, Next  PROVE ReadingObj' \/ Done'
  OBVIOUS
<1>1. PICK k, l, key, v, u, j : On(k, l, key, v, u, j) /\ Where(k, l, key, v, u, j)
  BY Zenon DEF ReadingObj
<1>2. Runs
  BY <1>1, WhereRuns
<1>3. pos \in Nat /\ Len(Evs) \in Nat
  BY <1>2, Zenon DEF Runs
<1>4. CASE pos <= Len(Evs)
  <2>1. Moves(k, l, key, v, u, j)
    BY <1>1, <1>4, WhereStep
  <2> QED  BY <1>1, <2>1, StaysReads, PassesReads, HaltedDone, Zenon DEF Moves
<1>5. CASE pos > Len(Evs)
  <2>1. Same0 /\ ObjReturn
    BY <1>2, <1>5, EndActs
  <2> QED  BY <1>1, <1>5, <2>1, OverDone
<1> QED  BY <1>3, <1>4, <1>5

LEMMA ObjStep == ObjInv /\ Next => ObjInv'
<1> SUFFICES ASSUME ObjInv, Next, call'.mode = "obj"
             PROVE  Fresh' \/ ReadingObj' \/ Done' \/ Refused'
  BY Zenon DEF ObjInv
<1>1. call' = call
  BY Zenon DEF Next
<1>2. Fresh \/ ReadingObj \/ Done \/ Refused
  BY <1>1, Zenon DEF ObjInv
<1>3. CASE Fresh
  BY <1>3, FreshActs, RootStep, EmptyStep
<1>4. CASE ReadingObj
  BY <1>4, ReadingStep
<1>5. CASE Done \/ Refused
  <2>1. ret # NoRet
    BY <1>5, Zenon DEF Done, Refused
  <2> QED  BY <2>1, OverActs
<1> QED  BY <1>2, <1>3, <1>4, <1>5

LEMMA ObjStutter == ObjInv /\ UNCHANGED vars => ObjInv'
<1> SUFFICES ASSUME ObjInv, UNCHANGED vars  PROVE ObjInv'
  OBVIOUS
<1>1. Same0 /\ st' = st /\ pos' = pos /\ dst' = dst /\ arena' = arena /\ ret' = ret
  BY Zenon DEF vars, Same0
<1>2. /\ Called' = Called /\ Rooted' = Rooted /\ Whole' = Whole /\ Before(Items)' = Before(Items)
      /\ Items' = Items /\ Evs' = Evs /\ Good0' = Good0 /\ call' = call
  BY <1>1, CallKept
<1>3. NoRet' = NoRet /\ NoCause' = NoCause
  BY DEF NoRet, NoLoc, NoCause
<1>4. \A k : Stored(k, dst, arena, st.seen) => Stored(k, dst, arena, st.seen)'
  <2>1. PICK D, a, n : D = dst /\ a = arena /\ n = st.seen
    OBVIOUS
  <2>2. D = dst' /\ a = arena' /\ n = st'.seen
    BY <1>1, <2>1
  <2>3. \A k : Stored(k, D, a, n) => Stored(k, dst, arena, st.seen)'
    BY <1>1, <2>2, StoredOn
  <2> QED  BY <2>1, <2>3
<1>5. Fresh => Fresh'
  BY <1>1, <1>2, <1>3 DEF Fresh, State0, Untouched, Copy, NoLoc
<1>6. ReadingObj => ReadingObj'
  <2> SUFFICES ASSUME ReadingObj  PROVE ReadingObj'
    OBVIOUS
  <2>1. PICK k, l, key, v, u, j : On(k, l, key, v, u, j) /\ Where(k, l, key, v, u, j)
    BY Zenon DEF ReadingObj
  <2>2. On(k, l, key, v, u, j)'
    BY <1>1, <1>2, <1>4, <2>1, NamedOn, Zenon DEF On
  <2>3. \A p, d, c, x, w : At(p, d, c, x, w) => At(p, d, c, x, w)'
    BY <1>1, <1>2, <1>3, Zenon DEF At, Runs, IsSt
  <2>4. AtItem(l) => AtItem(l)'
    BY <2>3, Zenon DEF AtItem
  <2>5. InKey(l, key) => InKey(l, key)'
    BY <1>1, <2>3, Zenon DEF InKey
  <2>6. AtValue(v, u) => AtValue(v, u)'
    BY <2>3, Zenon DEF AtValue
  <2>7. AtEnd(l) => AtEnd(l)'
    BY <2>3, Zenon DEF AtEnd
  <2>8. Inside(k, v, u, j) => Inside(k, v, u, j)'
    BY <1>1, <1>2, <1>3 DEF Inside, InVal, InStr, InNum, InRaw, At, Runs, IsSt
  <2>9. Where(k, l, key, v, u, j)'
    BY <1>2, <2>1, <2>4, <2>5, <2>6, <2>7, <2>8, Zenon DEF Where
  <2> QED  BY <2>2, <2>9, Zenon DEF ReadingObj
<1>7. Done => Done'
  <2>1. Missing' = Missing
    BY <1>1, <1>2 DEF Missing
  <2>2. First1(Missing)' = First1(Missing)
    BY <2>1, Zenon DEF First1
  <2>3. SUFFICES ASSUME Done  PROVE Done'
    OBVIOUS
  <2>4. \E b : b = Before(Items)' /\ Stored(b, dst, arena, st.seen)'
    BY <1>2, <1>4, <2>3, Zenon DEF Done
  <2>5. Failed(ret.cause)' = Failed(ret.cause)
    BY <1>1, <1>3, Zenon DEF Failed
  <2> QED  BY <1>1, <1>2, <1>3, <2>1, <2>2, <2>3, <2>4, <2>5, Zenon DEF Done
<1>8. Refused => Refused'
  BY <1>1, <1>2, <1>3, Zenon DEF Refused, Failed
<1> QED  BY <1>2, <1>5, <1>6, <1>7, <1>8, Zenon DEF ObjInv

LEMMA ObjFirst == Init => ObjInv
<1> SUFFICES ASSUME Init, call.mode = "obj"  PROVE Fresh
  BY Zenon DEF ObjInv
<1>1. Called
  BY Zenon DEF Init, Called
<1>2. arena \in Seq(OutChars)
  <2>1. arena \in Seq(Chars)
    BY <1>1, CallIs, Zenon DEF Init
  <2>2. Chars \subseteq OutChars
    BY DEF OutChars
  <2> QED  BY <2>1, <2>2
<1>3. dst = [i \in 1 .. Len(call.def) |-> Untouched]
  BY Zenon DEF Init
<1> QED  BY <1>1, <1>2, <1>3, Zenon DEF Init, Fresh

\* A call of FldObj that has returned is in one of two ways.
LEMMA ObjReturned == ObjInv /\ ret # NoRet /\ call.mode = "obj" => Done \/ Refused
<1> SUFFICES ASSUME ObjInv, ret # NoRet, call.mode = "obj"  PROVE Done \/ Refused
  OBVIOUS
<1>1. ~Fresh
  BY Zenon DEF Fresh
<1>2. ~ReadingObj
  BY WhereRuns, Zenon DEF ReadingObj, Runs
<1> QED  BY <1>1, <1>2, Zenon DEF ObjInv

LEMMA FieldsHeld == Done => FieldsStored
<1> SUFFICES ASSUME Done  PROVE FieldsStored
  OBVIOUS
<1>1. Called /\ call.mode = "obj" /\ Rooted
  BY Zenon DEF Done
<1>2. PICK b : b = Before(Items) /\ Stored(b, dst, arena, st.seen)
  BY Zenon DEF Done
<1>3. b \in Nat
  BY <1>1, <1>2, BeforeRange
<1>4. Len(dst) = Len(call.def)
  <2>1. dst = [i \in 1 .. Len(call.def) |-> dst[i]] /\ Len(call.def) \in Nat
    BY <1>1, <1>2, CallIs, Zenon DEF Stored
  <2> QED  BY <2>1, LenIs
<1>5. SUFFICES ASSUME NEW i \in 1 .. Len(call.def)
               PROVE  LET mine == {k \in 1 .. Before(Items) : FieldOf(Items[k]) = i}
                          last == CHOOSE k \in mine : \A j \in mine : j <= k
                      IN  IF mine = {} THEN dst[i] = Untouched
                          ELSE /\ dst[i] # Untouched
                               /\ Content(dst[i]) = Means(Items[last].val, call.def[i].typ)
  BY <1>4, Zenon DEF FieldsStored
<1> DEFINE mine == {k \in 1 .. Before(Items) : FieldOf(Items[k]) = i}
           last == CHOOSE k \in mine : \A j \in mine : j <= k
<1>6. mine = Mine(b, i)
  BY <1>2, Zenon DEF Mine
<1>7. /\ Mine(b, i) = {} => dst[i] = Untouched
      /\ Mine(b, i) # {} =>
            \E j \in Mine(b, i) : /\ \A h \in Mine(b, i) : h <= j
                                  /\ Holds(dst[i], arena, Means(Items[j].val, call.def[i].typ))
  BY <1>2, <1>5, Zenon DEF Stored
<1>8. CASE mine = {}
  BY <1>6, <1>7, <1>8, Zenon
<1>9. CASE mine # {}
  <2>1. PICK j \in mine : /\ \A h \in mine : h <= j
                          /\ Holds(dst[i], arena, Means(Items[j].val, call.def[i].typ))
    BY <1>6, <1>7, <1>9, Zenon
  <2>2. mine \subseteq Nat
    <3>1. Mine(b, i) \subseteq 1 .. b
      BY <1>3, MineNext
    <3> QED  BY <1>3, <1>6, <3>1
  <2>3. last = j
    <3> HIDE DEF mine
    <3>1. \A k \in mine : (\A h \in mine : h <= k) => k = j
      BY <2>1, <2>2
    <3>2. last \in mine /\ \A h \in mine : h <= last
      BY <2>1, Zenon
    <3> QED  BY <3>1, <3>2, Zenon
  <2>4. PICK x : x = Means(Items[j].val, call.def[i].typ)
    OBVIOUS
  <2>5. Holds(dst[i], arena, x)
    BY <2>1, <2>4
  <2>6. dst[i] # Untouched /\ Content(dst[i]) = x
    <3>1. PICK w : w = dst[i]
      OBVIOUS
    <3>2. /\ w.of \in {"buf", "copy", "arena"}
          /\ w.of = "buf" => SubSeq(buf, w.from + 1, w.to) = x
          /\ w.of = "copy" => w.data = x
          /\ w.of = "arena" => SubSeq(arena, w.from + 1, w.to) = x
      BY <2>5, <3>1, Zenon DEF Holds
    <3>3. Untouched.of = "none"
      BY DEF Untouched, Copy
    <3>4. w # Untouched
      BY <3>2, <3>3
    <3>5. Content(w) = x
      BY <3>2 DEF Content
    <3> QED  BY <3>1, <3>4, <3>5
  <2> HIDE DEF mine, last
  <2> QED  BY <1>9, <2>3, <2>4, <2>6, Zenon DEF mine, last
<1> QED  BY <1>8, <1>9

LEMMA RequiredHeld == Done => RequiredFound
<1> SUFFICES ASSUME Done  PROVE RequiredFound
  OBVIOUS
<1>1. Called /\ call.mode = "obj" /\ Rooted
  BY Zenon DEF Done
<1>2. PICK b : b = Before(Items) /\ Stored(b, dst, arena, st.seen)
  BY Zenon DEF Done
<1>3. b \in Nat /\ Len(call.def) \in Nat
  BY <1>1, <1>2, BeforeRange, CallIs
<1>4. Len(dst) = Len(call.def)
  <2>1. dst = [i \in 1 .. Len(call.def) |-> dst[i]]
    BY <1>2, Zenon DEF Stored
  <2> QED  BY <1>3, <2>1, LenIs
<1> DEFINE fine == Rooted /\ Whole /\ Before(Items) = Len(Items)
           missing == {i \in 1 .. Len(dst) : /\ call.def[i].req
                                             /\ \A k \in 1 .. Len(Items) : FieldOf(Items[k]) # i}
<1>5. SUFFICES /\ ret.cause = NoCause <=> fine /\ missing = {}
               /\ ret.cause = "missing" <=> fine /\ missing # {}
               /\ ret.cause = "missing" => ret.fld \in missing /\ \A i \in missing : ret.fld <= i
  BY Zenon DEF RequiredFound
<1>6. NoCause # "missing"
  BY DEF NoCause
<1>7. CASE Failed(ret.cause) /\ ~(Whole /\ Before(Items) = Len(Items))
  BY <1>7, Zenon DEF Failed
<1>8. CASE /\ Whole /\ Before(Items) = Len(Items)
           /\ \/ Missing = {} /\ ret.cause = NoCause
              \/ Missing # {} /\ ret.cause = "missing" /\ ret.fld = First1(Missing)
  <2>1. fine
    BY <1>1, <1>8, Zenon
  <2>2. missing = Missing
    <3>1. \A i \in 1 .. Len(call.def) : i \notin st.seen <=> \A k \in 1 .. Len(Items) : FieldOf(Items[k]) # i
      <4>1. st.seen = {i \in 1 .. Len(call.def) : Mine(b, i) # {}}
        BY <1>2, Zenon DEF Stored
      <4>2. \A i : Mine(b, i) = {} <=> \A k \in 1 .. Len(Items) : FieldOf(Items[k]) # i
        BY <1>2, <1>8, Zenon DEF Mine
      <4> QED  BY <4>1, <4>2
    <3> QED  BY <1>4, <3>1 DEF Missing
  <2>3. Missing # {} => First1(Missing) \in Missing /\ \A i \in Missing : First1(Missing) <= i
    <3>1. Missing \in SUBSET Nat
      BY <1>3 DEF Missing
    <3> QED  BY <3>1, LeastOf, Zenon DEF First1
  <2> HIDE DEF fine, missing
  <2> QED  BY <1>6, <1>8, <2>1, <2>2, <2>3, Zenon
<1> QED  BY <1>7, <1>8, Zenon DEF Done

LEMMA RefusedHeld == Refused => FieldsStored /\ RequiredFound
<1> SUFFICES ASSUME Refused  PROVE FieldsStored /\ RequiredFound
  OBVIOUS
<1>1. ~Rooted /\ ret.cause # NoCause /\ ret.cause # "missing"
  <2>1. ret.cause \notin {NoCause, "missing", "none"} /\ ~Rooted
    BY Zenon DEF Refused, Failed
  <2> QED  BY <2>1
<1> QED  BY <1>1, Zenon DEF FieldsStored, RequiredFound

\* Where FldObj is, what it has stored by then, field by field, and what it
\* returns: for every definition of fields, every text of items, every arena.
THEOREM ObjInvariant == Spec => []ObjInv
<1>1. ObjInv /\ [Next]_vars => ObjInv'
  BY ObjStep, ObjStutter, Zenon
<1> QED  BY ObjFirst, <1>1, PTL DEF Spec

\* FldObj leaves in each field the value of the last item with its key, of
\* those before the first item that stops the call, and touches no other.
THEOREM FieldsAreStored == Spec => []FieldsStored
<1>1. ObjInv => FieldsStored
  <2>1. (ret # NoRet /\ call.mode = "obj") \/ FieldsStored
    BY Zenon DEF FieldsStored
  <2> QED  BY <2>1, ObjReturned, FieldsHeld, RefusedHeld, Zenon
<1> QED  BY ObjInvariant, <1>1, PTL

\* FldObj succeeds exactly if the text is an object, no item stops the call and
\* every required field has an item; otherwise it names the first without one.
THEOREM RequiredAreFound == Spec => []RequiredFound
<1>1. ObjInv => RequiredFound
  <2>1. (ret # NoRet /\ call.mode = "obj") \/ RequiredFound
    BY Zenon DEF RequiredFound
  <2> QED  BY <2>1, ObjReturned, RequiredHeld, RefusedHeld, Zenon
<1> QED  BY ObjInvariant, <1>1, PTL

-----------------------------------------------------------------------------
(* FldArrObj and FldArrScalar: the elements of a text.                     *)

Elem(it) == Means(it.val, IF IsString(it.val) THEN "bytes" ELSE "raw")

\* The kinds that elements do not have.
Refuses(kind) == IF Objects THEN kind # "OBeg" ELSE kind \in Composite

LEMMA ElemKinds ==
    ASSUME NEW evs, NEW v, NEW j, NEW s, NEW off, ValueIs(evs, v, j, s, off)
    PROVE  /\ evs[v].kind = "OBeg" <=> s[1] = "{"
           /\ evs[v].kind \in Composite <=> s[1] \in {"{", "["}
           /\ evs[v].kind = "SBeg" <=> IsString(s)
           /\ evs[v].kind = "NBeg" => evs[j].kind = "NEnd"
           /\ evs[v].kind = "OBeg" => evs[j].kind = "OEnd"
           /\ evs[v].kind \in {"True", "False", "Null"} =>
                 s \in {True, False, Null} /\ v = j /\ Len(s) = LitLen(evs[v].kind)
           /\ evs[v].kind \in Beginnings
<1>1. s \in Seq(Chars)
  BY Zenon DEF ValueIs
<1>2. \/ IsString(s) /\ evs[v].kind = "SBeg"
      \/ IsNumber(s) /\ evs[v].kind = "NBeg" /\ evs[j].kind = "NEnd"
      \/ /\ s \in {True, False, Null} /\ ~IsString(s) /\ ~IsNumber(s)
         /\ evs[v].kind \in {"True", "False", "Null"}
      \/ ~IsString(s) /\ s[1] = "{" /\ evs[v].kind = "OBeg" /\ evs[j].kind = "OEnd"
      \/ ~IsString(s) /\ s[1] = "[" /\ evs[v].kind = "ABeg" /\ evs[j].kind = "AEnd"
  <2>1. /\ s \in {True, False, Null} => ~IsString(s) /\ ~IsNumber(s)
        /\ IsNumber(s) => ~IsString(s)
        /\ s[1] \in {"{", "["} => ~IsString(s)
    BY <1>1, KindsDiffer, Zenon
  <2>2. /\ evs[v].kind \in Beginnings
        /\ evs[v].kind \in {"True", "False", "Null"} => s \in {True, False, Null}
        /\ evs[v].kind = "SBeg" => IsString(s)
        /\ evs[v].kind = "NBeg" => IsNumber(s)
    <3>1. "raw" \in Types
      BY DEF Types
    <3> QED  BY <3>1, TakesFits
  <2>3. evs[v].kind = "NBeg" => evs[j].kind = "NEnd"
    BY ValueBegins
  <2>4. evs[v].kind = "OBeg" => s[1] = "{" /\ evs[j].kind = "OEnd"
    BY ValueBegins
  <2>5. evs[v].kind = "ABeg" => s[1] = "[" /\ evs[j].kind = "AEnd"
    BY ValueBegins
  <2>6. /\ evs[v].kind = "OBeg" => ~IsString(s)
        /\ evs[v].kind = "ABeg" => ~IsString(s)
    BY <2>1, <2>4, <2>5
  <2>7. \/ evs[v].kind = "OBeg" \/ evs[v].kind = "ABeg" \/ evs[v].kind = "SBeg" \/ evs[v].kind = "NBeg"
        \/ evs[v].kind \in {"True", "False", "Null"}
    BY <2>2, KindsApart
  <2> QED  BY <2>1, <2>2, <2>3, <2>4, <2>5, <2>6, <2>7, Zenon
<1>3. evs[v].kind \in {"True", "False", "Null"} =>
          s \in {True, False, Null} /\ v = j /\ Len(s) = LitLen(evs[v].kind)
  <2>1. "raw" \in Types
    BY DEF Types
  <2> QED  BY <2>1, TakesFits
<1>4. CASE IsString(s) /\ evs[v].kind = "SBeg"
  <2>1. s[1] \notin {"{", "["}
    BY <1>1, <1>4, KindsDiffer, Zenon
  <2>2. s[1] # "{" /\ s[1] # "["
    BY <2>1
  <2> QED  BY <1>3, <1>4, <2>2, KindsApart
<1>5. CASE IsNumber(s) /\ evs[v].kind = "NBeg" /\ evs[j].kind = "NEnd"
  <2>1. s[1] \notin {"{", "["} /\ ~IsString(s)
    BY <1>1, <1>5, KindsDiffer, Zenon
  <2>2. s[1] # "{" /\ s[1] # "["
    BY <2>1
  <2> QED  BY <1>3, <1>5, <2>1, <2>2, KindsApart
<1>6. CASE /\ s \in {True, False, Null} /\ ~IsString(s) /\ ~IsNumber(s)
           /\ evs[v].kind \in {"True", "False", "Null"}
  <2>1. s[1] \notin {"{", "["}
    BY <1>1, <1>6, KindsDiffer, Zenon
  <2>2. s[1] # "{" /\ s[1] # "["
    BY <2>1
  <2> QED  BY <1>3, <1>6, <2>2, KindsApart
<1>7. CASE ~IsString(s) /\ s[1] = "{" /\ evs[v].kind = "OBeg" /\ evs[j].kind = "OEnd"
  BY <1>3, <1>7, KindsApart
<1>8. CASE ~IsString(s) /\ s[1] = "[" /\ evs[v].kind = "ABeg" /\ evs[j].kind = "AEnd"
  BY <1>3, <1>8, KindsApart
<1> QED  BY <1>2, <1>4, <1>5, <1>6, <1>7, <1>8

\* The elements that stop the call, by the kind of their first event.
LEMMA StopsElem ==
    ASSUME NEW it, NEW evs, NEW v, NEW j, NEW off, ValueIs(evs, v, j, it.val, off), call.mode # "obj"
    PROVE  Stops(it) <=> Refuses(evs[v].kind)
                         \/ (~Objects /\ evs[v].kind = "SBeg" /\ ~Fits(it.val, "bytes"))
<1> DEFINE A == FieldOf(it) # 0 /\ LET d == call.def[FieldOf(it)] IN  ~Fits(it.val, d.typ) \/ ~d.dst
           B == it.val[1] # "{"
           C == it.val[1] \in {"{", "["} \/ (IsString(it.val) /\ ~Fits(it.val, "bytes"))
           D == CASE call.mode = "obj" -> A [] call.mode = "arrobj" -> B [] OTHER -> C
<1>1. Stops(it) <=> ~IsValue(it.val, MaxDep - 1) \/ D
  BY Zenon DEF Stops
<1>2. D <=> IF Objects THEN B ELSE C
  <2> HIDE DEF A, B, C
  <2> QED  BY DEF Objects
<1>3. IsValue(it.val, MaxDep - 1)
  BY Zenon DEF ValueIs
<1>4. /\ evs[v].kind = "OBeg" <=> it.val[1] = "{"
      /\ evs[v].kind \in Composite <=> it.val[1] \in {"{", "["}
      /\ evs[v].kind = "SBeg" <=> IsString(it.val)
  BY ElemKinds, Zenon
<1> QED  BY <1>1, <1>2, <1>3, <1>4, Zenon DEF Refuses

-----------------------------------------------------------------------------
(* What out holds behind the first k elements.                             *)

Filled(k, D, a, n) ==
    /\ D = [i \in 1 .. call.cap |-> D[i]] /\ a \in Seq(OutChars) /\ n = k /\ k <= call.cap
    /\ \A i \in 1 .. call.cap : /\ i <= k => Holds(D[i], a, Elem(Items[i]))
                                /\ ~(i <= k) => D[i] = Untouched

LEMMA FilledFirst ==
    ASSUME Called, NEW a \in Seq(OutChars), NEW D, D = [i \in 1 .. call.cap |-> Untouched]
    PROVE  Filled(0, D, a, 0)
<1>1. \A i \in 1 .. call.cap : D[i] = Untouched
  OBVIOUS
<1>2. call.cap \in Nat
  BY CallIs
<1> HIDE DEF Untouched
<1>3. D = [i \in 1 .. call.cap |-> D[i]]
  OBVIOUS
<1>4. \A i \in 1 .. call.cap : ~(i <= 0)
  BY <1>2
<1>5. 0 <= call.cap
  BY <1>2
<1> QED  BY <1>1, <1>3, <1>4, <1>5, Zenon DEF Filled

LEMMA FilledNext ==
    ASSUME Called, NEW k \in Nat, NEW D, NEW a, NEW n, Filled(k, D, a, n), k < call.cap,
           NEW b, Grown(a, b), NEW v, Holds(v, b, Elem(Items[k + 1]))
    PROVE  Filled(k + 1, [D EXCEPT ![k + 1] = v], b, n + 1)
<1>1. PICK cap : cap = call.cap
  OBVIOUS
<1>2. cap \in Nat /\ k < cap
  BY <1>1, CallIs
<1>3. /\ D = [i \in 1 .. cap |-> D[i]] /\ a \in Seq(OutChars) /\ n = k
      /\ \A i \in 1 .. cap : /\ i <= k => Holds(D[i], a, Elem(Items[i]))
                             /\ ~(i <= k) => D[i] = Untouched
  BY <1>1, Zenon DEF Filled
<1>4. b \in Seq(OutChars) /\ \A w, x : Holds(w, a, x) => Holds(w, b, x)
  BY <1>3, GrownIs
<1>5. PICK E : E = [D EXCEPT ![k + 1] = v]
  OBVIOUS
<1>6. /\ E = [i \in 1 .. cap |-> E[i]] /\ E[k + 1] = v
      /\ \A i \in 1 .. cap : i # k + 1 => E[i] = D[i]
  <2>1. PICK m : m = k + 1
    OBVIOUS
  <2>2. m \in 1 .. cap
    BY <1>2, <2>1
  <2>3. E = [D EXCEPT ![m] = v] /\ D = [i \in 1 .. cap |-> D[i]]
    BY <1>3, <1>5, <2>1
  <2>4. E = [i \in 1 .. cap |-> E[i]] /\ E[m] = v /\ \A i \in 1 .. cap : i # m => E[i] = D[i]
    BY <2>2, <2>3
  <2> QED  BY <2>1, <2>4
<1>7. \A i \in 1 .. cap : i <= k + 1 => Holds(E[i], b, Elem(Items[i]))
  <2>1. SUFFICES ASSUME NEW i \in 1 .. cap, i <= k + 1  PROVE Holds(E[i], b, Elem(Items[i]))
    OBVIOUS
  <2>2. CASE i = k + 1
    BY <1>6, <2>2
  <2>3. CASE i # k + 1
    <3>1. i <= k
      BY <1>2, <2>1, <2>3
    <3>2. Holds(D[i], a, Elem(Items[i]))
      BY <1>3, <3>1
    <3>3. E[i] = D[i]
      BY <1>6, <2>3
    <3> QED  BY <1>4, <3>2, <3>3
  <2> QED  BY <2>2, <2>3
<1>8. \A i \in 1 .. cap : ~(i <= k + 1) => E[i] = Untouched
  <2>1. SUFFICES ASSUME NEW i \in 1 .. cap, ~(i <= k + 1)  PROVE E[i] = Untouched
    OBVIOUS
  <2>2. i # k + 1 /\ ~(i <= k)
    BY <1>2, <2>1
  <2> QED  BY <1>3, <1>6, <2>2
<1>9. n + 1 = k + 1 /\ k + 1 <= cap
  BY <1>2, <1>3
<1> QED  BY <1>1, <1>4, <1>5, <1>6, <1>7, <1>8, <1>9, Zenon DEF Filled

LEMMA FilledGrown ==
    ASSUME NEW k, NEW D, NEW a, NEW n, Filled(k, D, a, n), NEW b, Grown(a, b)
    PROVE  Filled(k, D, b, n)
<1>1. a \in Seq(OutChars)
  BY Zenon DEF Filled
<1>2. b \in Seq(OutChars) /\ \A w, x : Holds(w, a, x) => Holds(w, b, x)
  BY <1>1, GrownIs
<1> QED  BY <1>2, Zenon DEF Filled

LEMMA FilledOn ==
    \A k, D, a, n : Same0 /\ D = dst' /\ a = arena' /\ n = st'.n /\ Filled(k, D, a, n) =>
        Filled(k, dst, arena, st.n)'
<1> SUFFICES ASSUME NEW k, NEW D, NEW a, NEW n, Same0, D = dst', a = arena', n = st'.n, Filled(k, D, a, n)
             PROVE  Filled(k, dst, arena, st.n)'
  OBVIOUS
<1>1. call' = call /\ Items' = Items /\ buf' = buf
  BY CallKept
<1>2. \A w, b, x : Holds(w, b, x)' <=> Holds(w, b, x)
  BY <1>1, Zenon DEF Holds
<1>3. /\ D = [i \in 1 .. call.cap |-> D[i]] /\ a \in Seq(OutChars) /\ n = k /\ k <= call.cap
      /\ \A i \in 1 .. call.cap : /\ i <= k => Holds(D[i], a, Elem(Items[i]))
                                  /\ ~(i <= k) => D[i] = Untouched
  BY Zenon DEF Filled
<1>4. \A i : Holds(dst[i], arena, Elem(Items[i]))' <=> Holds(D[i], a, Elem(Items[i]))
  <2> SUFFICES ASSUME NEW i  PROVE Holds(dst[i], arena, Elem(Items[i]))' <=> Holds(D[i], a, Elem(Items[i]))
    OBVIOUS
  <2>1. Elem(Items[i])' = Elem(Items[i])
    BY <1>1 DEF Elem
  <2> QED  BY <1>1, <2>1, Zenon DEF Holds
<1>5. \A i \in 1 .. call.cap :
         /\ i <= k => Holds(dst[i], arena, Elem(Items[i]))'
         /\ ~(i <= k) => dst'[i] = Untouched
  <2> SUFFICES ASSUME NEW i \in 1 .. call.cap
               PROVE  /\ i <= k => Holds(dst[i], arena, Elem(Items[i]))'
                      /\ ~(i <= k) => dst'[i] = Untouched
    OBVIOUS
  <2>1. dst'[i] = D[i]
    OBVIOUS
  <2> QED  BY <1>3, <1>4, <2>1, Zenon
<1>6. dst' = [i \in 1 .. call.cap |-> dst'[i]]
  BY <1>3
<1>7. Untouched' = Untouched
  BY DEF Untouched, Copy
<1>8. (1 .. call.cap)' = 1 .. call.cap
  BY <1>1
<1> QED  BY <1>1, <1>3, <1>5, <1>6, <1>7, <1>8, Zenon DEF Filled

-----------------------------------------------------------------------------
(* Where FldArrObj and FldArrScalar are, and their steps.                  *)

ArrRuns ==
    /\ ret = NoRet /\ call.mode \in {"arrobj", "arrscalar"} /\ st.root = TRUE /\ IsSt
    /\ pos \in Nat /\ Len(Evs) \in Nat
AtA(p, d, c) == ArrRuns /\ pos = p /\ st.dep = d /\ st.cap = c

\* Behind event l, the last of an element; within a string, a number, an object
\* that begins at v; behind the closing bracket.
AtElem(l) == AtA(l + 1, 1, {})
StrElem(v) ==
    /\ Evs[v].kind = "SBeg" /\ Begun(Evs, v, pos) /\ ~Objects /\ AtA(pos, 1, {"str"})
    /\ st.strLoc = Evs[v].loc /\ st.strRaw = IF pos = v + 1 THEN << >> ELSE Evs[v + 1].data
NumElem(v) ==
    /\ Evs[v].kind = "NBeg" /\ Begun(Evs, v, pos) /\ ~Objects /\ AtA(pos, 1, {"raw"})
    /\ st.rawBeg = Evs[v].loc.off /\ st.rawDep = 1
ObjElem(v) ==
    /\ Evs[v].kind = "OBeg" /\ Begun(Evs, v, pos) /\ Objects /\ AtA(pos, 1 + Level(Evs, v, pos - 1), {"raw"})
    /\ st.rawBeg = Evs[v].loc.off /\ st.rawDep = 2
InElem(v) == StrElem(v) \/ NumElem(v) \/ ObjElem(v)
AtClose(l) == AtA(l + 2, 0, {})

\* Nothing that was stored changes.
Constant == Moved /\ st'.n = st.n

LEMMA ArrRunsOn == ArrRuns /\ Same0 /\ ret' = ret /\ pos' = pos + 1 /\ IsSt' /\ st'.root = TRUE => ArrRuns'
<1> SUFFICES ASSUME ArrRuns, Same0, ret' = ret, pos' = pos + 1, IsSt', st'.root = TRUE
             PROVE  ArrRuns'
  OBVIOUS
<1>1. ret = NoRet /\ call.mode \in {"arrobj", "arrscalar"} /\ pos \in Nat /\ Len(feed.evs) \in Nat
  BY Zenon DEF ArrRuns, Evs
<1>2. pos + 1 \in Nat
  BY <1>1
<1> QED  BY <1>1, <1>2, Zenon DEF ArrRuns, Evs, Same0, NoRet, NoLoc

ArrReads == ArrRuns /\ pos <= Len(Evs)

LEMMA ArrActs ==
    ArrReads /\ Next =>
        /\ Same0
        /\ \/ ArrMismatch /\ ev.kind \in Beginnings /\ st.dep = 1 /\ Refuses(ev.kind)
           \/ ArrCapture /\ st.dep = 1 /\ ev.kind \in {"OBeg", "SBeg", "NBeg"} /\ ~Refuses(ev.kind)
           \/ ArrLiteral /\ st.dep = 1 /\ ev.kind \in {"True", "False", "Null"} /\ ~Objects
           \/ ArrStr /\ ev.kind \in {"SPar", "SEnd"}
           \/ ArrEnd /\ ev.kind \in {"OEnd", "AEnd", "NEnd"}
           \/ ArrInner /\ ev.kind \in {"KBeg", "KPar", "KEnd", "NPar"}
           \/ ArrInner /\ ev.kind \in Beginnings /\ st.dep > 1
<1> SUFFICES ASSUME ArrReads, Next
             PROVE  /\ Same0
                    /\ \/ ArrMismatch /\ ev.kind \in Beginnings /\ st.dep = 1 /\ Refuses(ev.kind)
                       \/ ArrCapture /\ st.dep = 1 /\ ev.kind \in {"OBeg", "SBeg", "NBeg"} /\ ~Refuses(ev.kind)
                       \/ ArrLiteral /\ st.dep = 1 /\ ev.kind \in {"True", "False", "Null"} /\ ~Objects
                       \/ ArrStr /\ ev.kind \in {"SPar", "SEnd"}
                       \/ ArrEnd /\ ev.kind \in {"OEnd", "AEnd", "NEnd"}
                       \/ ArrInner /\ ev.kind \in {"KBeg", "KPar", "KEnd", "NPar"}
                       \/ ArrInner /\ ev.kind \in Beginnings /\ st.dep > 1
  OBVIOUS
<1>1. ret = NoRet /\ call.mode \in {"arrobj", "arrscalar"} /\ st.root = TRUE /\ pos <= Len(Evs)
      /\ pos \in Nat /\ Len(Evs) \in Nat
  BY Zenon DEF ArrReads, ArrRuns
<1>2. call.mode # "obj" /\ call.mode \notin {"obj"}
  BY <1>1
<1>3. ~NotRoot /\ ~ObjReturn
  BY <1>1, <1>2, Zenon DEF NotRoot, ObjReturn
<1>4. ~ArrReturn
  <2>1. ~(pos > Len(feed.evs))
    BY <1>1 DEF Evs
  <2> QED  BY <2>1, Zenon DEF ArrReturn
<1>5. \A kinds : ~OnObj(kinds)
  BY <1>2, Zenon DEF OnObj, Got
<1>6. /\ ~ObjKey /\ ~ObjUnknown /\ ~ObjMismatch /\ ~ObjCapture /\ ~ObjLiteral /\ ~ObjStrEnd
      /\ ~ObjNumEnd /\ ~ObjPart /\ ~ObjClose /\ ~ObjInner
  BY <1>5, Zenon DEF ObjKey, ObjUnknown, ObjMismatch, ObjCapture, ObjLiteral, ObjStrEnd, ObjNumEnd,
                     ObjPart, ObjClose, ObjInner
<1>7. Same0 /\ (ArrMismatch \/ ArrCapture \/ ArrLiteral \/ ArrStr \/ ArrEnd \/ ArrInner)
  BY <1>3, <1>4, <1>6, Zenon DEF Next, Same0
<1>8. ArrMismatch => ev.kind \in Beginnings /\ st.dep = 1 /\ Refuses(ev.kind)
  <2> SUFFICES ASSUME ArrMismatch  PROVE ev.kind \in Beginnings /\ st.dep = 1 /\ Refuses(ev.kind)
    OBVIOUS
  <2>1. ev.kind \in Beginnings /\ st.dep = 1 /\ ev.kind \in IF Objects THEN Beginnings \ {"OBeg"} ELSE Composite
    BY Zenon DEF ArrMismatch, OnArr, Got
  <2> QED  BY <2>1 DEF Refuses
<1>9. ArrCapture => st.dep = 1 /\ ev.kind \in {"OBeg", "SBeg", "NBeg"} /\ ~Refuses(ev.kind)
  <2> SUFFICES ASSUME ArrCapture
               PROVE  st.dep = 1 /\ ev.kind \in {"OBeg", "SBeg", "NBeg"} /\ ~Refuses(ev.kind)
    OBVIOUS
  <2>1. st.dep = 1 /\ \/ ev.kind \in {"OBeg"} /\ Objects
                      \/ ev.kind \in {"SBeg"} /\ ~Objects
                      \/ ev.kind \in {"NBeg"} /\ ~Objects
    BY Zenon DEF ArrCapture, OnArr, Got
  <2> QED  BY <2>1 DEF Refuses, Composite
<1>10. /\ ArrLiteral => st.dep = 1 /\ ev.kind \in {"True", "False", "Null"} /\ ~Objects
       /\ ArrStr => ev.kind \in {"SPar", "SEnd"}
       /\ ArrEnd => ev.kind \in {"OEnd", "AEnd", "NEnd"}
       /\ ArrInner => /\ ev.kind \in Beginnings \union {"KBeg", "KPar", "KEnd", "NPar"}
                      /\ ev.kind \in Beginnings => st.dep > 1
  BY Zenon DEF ArrLiteral, ArrStr, ArrEnd, ArrInner, OnArr, Got
<1>11. ArrInner => \/ ev.kind \in {"KBeg", "KPar", "KEnd", "NPar"}
                   \/ ev.kind \in Beginnings /\ st.dep > 1
  BY <1>10
<1> QED  BY <1>7, <1>8, <1>9, <1>10, <1>11, Zenon

LEMMA RefusedHalts ==
    ArrReads /\ Next /\ ev.kind \in Beginnings /\ st.dep = 1 /\ Refuses(ev.kind) /\ arena \in Seq(OutChars) =>
        Halts
<1> SUFFICES ASSUME ArrReads, Next, ev.kind \in Beginnings, st.dep = 1, Refuses(ev.kind),
                    arena \in Seq(OutChars)
             PROVE  Halts
  OBVIOUS
<1>1. Same0 /\ (ArrMismatch \/ (ArrLiteral /\ ev.kind \in {"True", "False", "Null"} /\ ~Objects))
  BY ArrActs, KindsApart
<1>2. ~(ev.kind \in {"True", "False", "Null"} /\ ~Objects)
  BY DEF Refuses, Composite
<1>3. ArrMismatch
  BY <1>1, <1>2
<1>4. Stop(IF Objects THEN "want_obj" ELSE "want_str", ev.loc) /\ arena' = arena
  BY <1>3, Zenon DEF ArrMismatch
<1>5. Failed("want_obj") /\ Grown(arena, arena')
  BY <1>4, Causes, Unmoved
<1>6. Failed("want_str")
  BY Causes
<1> QED  BY <1>1, <1>4, <1>5, <1>6, StopHalts

\* An event that only moves in and out of levels.
Passive == "str" \notin st.cap /\ ~ArrRawEnd /\ (ev.kind \in Beginnings => st.dep # 1) /\ st.dep \in Int

LEMMA PassiveStep ==
    ArrReads /\ Next /\ Passive => Moved /\ st' = [st EXCEPT !.dep = @ + Rise(ev.kind)]
<1> SUFFICES ASSUME ArrReads, Next, Passive
             PROVE  Moved /\ st' = [st EXCEPT !.dep = @ + Rise(ev.kind)]
  OBVIOUS
<1>1. "str" \notin st.cap /\ ~ArrRawEnd /\ (ev.kind \in Beginnings => st.dep # 1) /\ st.dep \in Int
  BY Zenon DEF Passive
<1>2. IsSt
  BY Zenon DEF ArrReads, ArrRuns
<1>3. st = [st EXCEPT !.dep = @ + 0]
  <2>1. st.dep + 0 = st.dep
    BY <1>1
  <2>2. [st EXCEPT !["dep"] = st["dep"]] = st
    BY <1>2, ExceptSame, Zenon DEF IsSt
  <2> QED  BY <2>1, <2>2
<1>4. /\ Same0
      /\ \/ ArrStr /\ ev.kind \in {"SPar", "SEnd"}
         \/ ArrEnd /\ ev.kind \in {"OEnd", "AEnd", "NEnd"}
         \/ ArrInner /\ ev.kind \in Beginnings \union {"KBeg", "KPar", "KEnd", "NPar"}
  <2>1. {"OBeg", "SBeg", "NBeg"} \subseteq Beginnings /\ {"True", "False", "Null"} \subseteq Beginnings
    BY DEF Beginnings
  <2> QED  BY <1>1, <2>1, ArrActs
<1>5. CASE ArrStr /\ ev.kind \in {"SPar", "SEnd"}
  <2>1. Go(st) /\ Kept
    <3> DEFINE A == Go(st) /\ Kept
               B == Go([st EXCEPT !.strRaw = ev.data]) /\ Kept
               C == StrBytes(st.strRaw, LAMBDA v : Put(v, [st EXCEPT !.cap = @ \ {"str"}], st.strLoc))
    <3>1. TRUE /\ CASE "str" \notin st.cap -> A [] ev.kind = "SPar" /\ "str" \in st.cap -> B [] OTHER -> C
      BY <1>5, Zenon DEF ArrStr
    <3> HIDE DEF A, B, C
    <3>2. A
      BY <1>1, <3>1
    <3> QED  BY <3>2 DEF A
  <2>2. Rise(ev.kind) = 0
    BY <1>5 DEF Rise, Composite
  <2> QED  BY <1>3, <1>4, <2>1, <2>2, Zenon DEF Moved, Same0, Kept, Go
<1>6. CASE ArrEnd /\ ev.kind \in {"OEnd", "AEnd", "NEnd"}
  <2>1. Go([st EXCEPT !.dep = IF ev.kind = "NEnd" THEN @ ELSE @ - 1]) /\ UNCHANGED <<dst, arena>>
    BY <1>1, <1>6, Zenon DEF ArrEnd
  <2>2. Rise(ev.kind) = IF ev.kind = "NEnd" THEN 0 ELSE -1
    BY <1>6 DEF Rise, Composite
  <2>3. (IF ev.kind = "NEnd" THEN st.dep ELSE st.dep - 1) = st.dep + Rise(ev.kind)
    BY <1>1, <2>2
  <2> QED  BY <1>4, <2>1, <2>3, Zenon DEF Moved, Same0, Go
<1>7. CASE ArrInner /\ ev.kind \in Beginnings \union {"KBeg", "KPar", "KEnd", "NPar"}
  <2>1. Kept /\ Go([st EXCEPT !.dep = IF ev.kind \in Composite THEN @ + 1 ELSE @])
    BY <1>7, Zenon DEF ArrInner
  <2>2. Rise(ev.kind) = IF ev.kind \in Composite THEN 1 ELSE 0
    BY <1>7 DEF Rise, Composite, Beginnings
  <2>3. (IF ev.kind \in Composite THEN st.dep + 1 ELSE st.dep) = st.dep + Rise(ev.kind)
    BY <1>1, <2>2
  <2> QED  BY <1>4, <2>1, <2>3, Zenon DEF Moved, Same0, Kept, Go
<1> QED  BY <1>4, <1>5, <1>6, <1>7

\* The first event of an element of several.
LEMMA ElemBegins ==
    \A l \in Nat :
        AtElem(l) /\ l + 1 <= Len(Evs) /\ Evs[l + 1].kind \in {"OBeg", "SBeg", "NBeg"}
        /\ ~Refuses(Evs[l + 1].kind) /\ Next => Constant /\ InElem(l + 1)'
<1> SUFFICES ASSUME NEW l \in Nat, AtElem(l), l + 1 <= Len(Evs), Evs[l + 1].kind \in {"OBeg", "SBeg", "NBeg"},
                    ~Refuses(Evs[l + 1].kind), Next
             PROVE  Constant /\ InElem(l + 1)'
  OBVIOUS
<1>1. PICK v \in Nat : v = l + 1
  OBVIOUS
<1>2. ArrRuns /\ pos = v /\ st.dep = 1 /\ st.cap = {}
  BY <1>1, Zenon DEF AtElem, AtA
<1>3. IsSt /\ st.root = TRUE /\ Len(Evs) \in Nat /\ ArrReads /\ ev = Evs[v]
  BY <1>1, <1>2, Zenon DEF ArrRuns, ArrReads, ev, Evs
<1>4. ev.kind \in {"OBeg", "SBeg", "NBeg"} /\ ~Refuses(ev.kind)
  BY <1>1, <1>3
<1>5. ArrCapture /\ Same0
  <2>1. {"OBeg", "SBeg", "NBeg"} \subseteq Beginnings
    BY DEF Beginnings
  <2>2. ~(st.dep > 1)
    BY <1>2
  <2> QED  BY <1>3, <1>4, <2>1, <2>2, ArrActs, KindsApart
<1>6. Kept /\ \/ /\ ev.kind = "OBeg" /\ Objects
                 /\ Go([st EXCEPT !.cap = @ \union {"raw"}, !.rawBeg = ev.loc.off, !.rawDep = 2, !.dep = 2])
              \/ /\ ev.kind = "SBeg" /\ ~Objects
                 /\ Go([st EXCEPT !.cap = @ \union {"str"}, !.strRaw = << >>, !.strLoc = ev.loc])
              \/ /\ ev.kind = "NBeg" /\ ~Objects
                 /\ Go([st EXCEPT !.cap = @ \union {"raw"}, !.rawBeg = ev.loc.off, !.rawDep = 1])
  <2>1. Kept /\ \/ /\ OnArr({"OBeg"}) /\ Objects
                   /\ Go([st EXCEPT !.cap = @ \union {"raw"}, !.rawBeg = ev.loc.off, !.rawDep = 2, !.dep = 2])
                \/ /\ OnArr({"SBeg"}) /\ ~Objects
                   /\ Go([st EXCEPT !.cap = @ \union {"str"}, !.strRaw = << >>, !.strLoc = ev.loc])
                \/ /\ OnArr({"NBeg"}) /\ ~Objects
                   /\ Go([st EXCEPT !.cap = @ \union {"raw"}, !.rawBeg = ev.loc.off, !.rawDep = 1])
    BY <1>5, Zenon DEF ArrCapture
  <2>2. /\ OnArr({"OBeg"}) => ev.kind \in {"OBeg"}
        /\ OnArr({"SBeg"}) => ev.kind \in {"SBeg"}
        /\ OnArr({"NBeg"}) => ev.kind \in {"NBeg"}
    BY Zenon DEF OnArr, Got
  <2>3. \A x : (x \in {"OBeg"} => x = "OBeg") /\ (x \in {"SBeg"} => x = "SBeg") /\ (x \in {"NBeg"} => x = "NBeg")
    OBVIOUS
  <2> QED  BY <2>1, <2>2, <2>3, Zenon
<1>7. Begun(Evs, v, v + 1)
  <2>1. Evs[v].kind \in {"SBeg", "NBeg"} \union Composite
    BY <1>3, <1>4 DEF Composite
  <2> QED  BY <2>1, BeginsBegun
<1>8. UNCHANGED <<dst, arena, call, feed>> /\ Evs' = Evs /\ Objects' = Objects
  BY <1>5, <1>6, Zenon DEF Kept, Same0, Evs, Objects
<1>9. CASE ev.kind = "OBeg" /\ Objects
           /\ Go([st EXCEPT !.cap = @ \union {"raw"}, !.rawBeg = ev.loc.off, !.rawDep = 2, !.dep = 2])
  <2>1. /\ st' = [st EXCEPT !.cap = @ \union {"raw"}, !.rawBeg = ev.loc.off, !.rawDep = 2, !.dep = 2]
        /\ pos' = pos + 1 /\ ret' = ret
    BY <1>9, Zenon DEF Go
  <2>2. /\ IsSt' /\ st'.root = TRUE /\ st'.dep = 2 /\ st'.cap = {"raw"}
        /\ st'.rawBeg = ev.loc.off /\ st'.rawDep = 2 /\ st'.n = st.n
    BY <1>2, <1>3, <2>1 DEF IsSt, StFields
  <2>3. ArrRuns'
    BY <1>2, <1>5, <2>1, <2>2, ArrRunsOn
  <2>4. Begun(Evs, v, pos)'
    BY <1>2, <1>7, <1>8, <2>1, Zenon DEF Begun, Level, Among
  <2>5. st'.dep = 1 + Level(Evs, v, (v + 1) - 1)
    <3>1. (v + 1) - 1 = v
      OBVIOUS
    <3>2. Level(Evs, v, v) = 1
      <4>1. Evs[v].kind \in Composite
        BY <1>3, <1>9 DEF Composite
      <4> QED  BY <4>1, LevelFirst
    <3> QED  BY <2>2, <3>1, <3>2
  <2>6. ObjElem(v)'
    BY <1>2, <1>3, <1>8, <1>9, <2>1, <2>2, <2>3, <2>4, <2>5, Zenon DEF ObjElem, AtA
  <2>7. InElem(l + 1)'
    BY <1>1, <2>6, Zenon DEF InElem, ObjElem, AtA
  <2> QED  BY <1>8, <2>1, <2>2, <2>7, Zenon DEF Constant, Moved
<1>10. CASE ev.kind = "SBeg" /\ ~Objects
            /\ Go([st EXCEPT !.cap = @ \union {"str"}, !.strRaw = << >>, !.strLoc = ev.loc])
  <2>1. /\ st' = [st EXCEPT !.cap = @ \union {"str"}, !.strRaw = << >>, !.strLoc = ev.loc]
        /\ pos' = pos + 1 /\ ret' = ret
    BY <1>10, Zenon DEF Go
  <2>2. /\ IsSt' /\ st'.root = TRUE /\ st'.dep = 1 /\ st'.cap = {"str"}
        /\ st'.strRaw = << >> /\ st'.strLoc = ev.loc /\ st'.n = st.n
    BY <1>2, <1>3, <2>1 DEF IsSt, StFields
  <2>3. ArrRuns'
    BY <1>2, <1>5, <2>1, <2>2, ArrRunsOn
  <2>4. Begun(Evs, v, pos)'
    BY <1>2, <1>7, <1>8, <2>1, Zenon DEF Begun, Level, Among
  <2>5. StrElem(v)'
    BY <1>2, <1>3, <1>8, <1>10, <2>1, <2>2, <2>3, <2>4, Zenon DEF StrElem, AtA
  <2>6. InElem(l + 1)'
    BY <1>1, <2>5, Zenon DEF InElem, StrElem, AtA
  <2> QED  BY <1>8, <2>1, <2>2, <2>6, Zenon DEF Constant, Moved
<1>11. CASE ev.kind = "NBeg" /\ ~Objects
            /\ Go([st EXCEPT !.cap = @ \union {"raw"}, !.rawBeg = ev.loc.off, !.rawDep = 1])
  <2>1. /\ st' = [st EXCEPT !.cap = @ \union {"raw"}, !.rawBeg = ev.loc.off, !.rawDep = 1]
        /\ pos' = pos + 1 /\ ret' = ret
    BY <1>11, Zenon DEF Go
  <2>2. /\ IsSt' /\ st'.root = TRUE /\ st'.dep = 1 /\ st'.cap = {"raw"}
        /\ st'.rawBeg = ev.loc.off /\ st'.rawDep = 1 /\ st'.n = st.n
    BY <1>2, <1>3, <2>1 DEF IsSt, StFields
  <2>3. ArrRuns'
    BY <1>2, <1>5, <2>1, <2>2, ArrRunsOn
  <2>4. Begun(Evs, v, pos)'
    BY <1>2, <1>7, <1>8, <2>1, Zenon DEF Begun, Level, Among
  <2>5. NumElem(v)'
    BY <1>2, <1>3, <1>8, <1>11, <2>1, <2>2, <2>3, <2>4, Zenon DEF NumElem, AtA
  <2>6. InElem(l + 1)'
    BY <1>1, <2>5, Zenon DEF InElem, NumElem, AtA
  <2> QED  BY <1>8, <2>1, <2>2, <2>6, Zenon DEF Constant, Moved
<1> QED  BY <1>6, <1>9, <1>10, <1>11

\* Within an element, up to its last event.
LEMMA ObjElemGoes ==
    \A v \in Nat : \A p :
        ObjElem(v) /\ pos = p /\ p <= Len(Evs) /\ Next /\ Goes(Evs, v, p) => Constant /\ ObjElem(v)'
<1> SUFFICES ASSUME NEW v \in Nat, NEW p, ObjElem(v), pos = p, p <= Len(Evs), Next, Goes(Evs, v, p)
             PROVE  Constant /\ ObjElem(v)'
  OBVIOUS
<1>1. /\ ArrRuns /\ st.dep = 1 + Level(Evs, v, p - 1) /\ st.cap = {"raw"} /\ Objects
      /\ Evs[v].kind = "OBeg" /\ Begun(Evs, v, p) /\ st.rawBeg = Evs[v].loc.off /\ st.rawDep = 2
  BY Zenon DEF ObjElem, AtA
<1>2. IsSt /\ st.root = TRUE /\ Len(Evs) \in Nat /\ p \in Nat
  BY <1>1, Zenon DEF ArrRuns
<1>3. ArrReads /\ ev = Evs[p]
  BY <1>1, Zenon DEF ArrReads, ev, Evs
<1>4. Evs[v].kind \notin {"SBeg", "NBeg"} /\ v < p /\ Level(Evs, v, p - 1) > 0
  BY <1>1 DEF Composite, Begun
<1>5. p - 1 \in Nat /\ v <= (p - 1) + 1 /\ (p - 1) + 1 = p /\ (p + 1) - 1 = p
  BY <1>2, <1>4
<1>6. Level(Evs, v, p - 1) \in Int /\ Level(Evs, v, p) = Level(Evs, v, p - 1) + Rise(Evs[p].kind)
  BY <1>5, LevelStep
<1>7. ~(Evs[p].kind \in {"OEnd", "AEnd"} /\ Level(Evs, v, p - 1) = 1)
  BY <1>4, Zenon DEF Goes, Ends
<1>8. st.dep \in Int /\ st.dep # 1 /\ (st.dep = 2 <=> Level(Evs, v, p - 1) = 1)
  BY <1>1, <1>4, <1>6
<1>9. Passive
  <2>1. "str" \notin st.cap
    BY <1>1
  <2>2. ~ArrRawEnd
    BY <1>1, <1>3, <1>7, <1>8 DEF ArrRawEnd
  <2> QED  BY <1>8, <2>1, <2>2, Zenon DEF Passive
<1>10. Moved /\ st' = [st EXCEPT !.dep = @ + Rise(ev.kind)]
  BY <1>3, <1>9, PassiveStep
<1>11. /\ IsSt' /\ st'.root = st.root /\ st'.dep = st.dep + Rise(ev.kind)
       /\ st'.cap = st.cap /\ st'.n = st.n /\ st'.rawBeg = st.rawBeg /\ st'.rawDep = st.rawDep
  BY <1>2, <1>10 DEF IsSt, StFields
<1>12. ArrRuns'
  BY <1>1, <1>2, <1>10, <1>11, ArrRunsOn, Zenon DEF Moved, Same0
<1>13. pos' = p + 1 /\ Evs' = Evs /\ Objects' = Objects
  BY <1>10 DEF Moved, Evs, Objects
<1>14. st'.dep = 1 + Level(Evs, v, p)
  <2>1. PICK a, b, r : a = Level(Evs, v, p - 1) /\ b = Level(Evs, v, p) /\ r = Rise(ev.kind)
    OBVIOUS
  <2>2. r \in Int
    BY <2>1 DEF Rise
  <2>3. a \in Int /\ b = a + r /\ st'.dep = (1 + a) + r
    BY <1>1, <1>3, <1>6, <1>11, <2>1
  <2> QED  BY <2>1, <2>2, <2>3
<1>15. Begun(Evs, v, p + 1)
  BY Zenon DEF Goes
<1>16. Begun(Evs, v, pos)'
  BY <1>13, <1>15, Zenon DEF Begun, Level, Among
<1>17. st'.dep = 1 + Level(Evs, v, (p + 1) - 1)
  BY <1>5, <1>14
<1>18. ObjElem(v)'
  BY <1>1, <1>11, <1>12, <1>13, <1>16, <1>17, Zenon DEF ObjElem, AtA
<1> QED  BY <1>10, <1>11, <1>18, Zenon DEF Constant

LEMMA StrElemGoes ==
    \A v \in Nat : \A p :
        StrElem(v) /\ pos = p /\ p <= Len(Evs) /\ Next /\ Goes(Evs, v, p) => Constant /\ StrElem(v)'
<1> SUFFICES ASSUME NEW v \in Nat, NEW p, StrElem(v), pos = p, p <= Len(Evs), Next, Goes(Evs, v, p)
             PROVE  Constant /\ StrElem(v)'
  OBVIOUS
<1>1. /\ ArrRuns /\ st.dep = 1 /\ st.cap = {"str"} /\ ~Objects /\ Evs[v].kind = "SBeg"
      /\ st.strLoc = Evs[v].loc
  BY Zenon DEF StrElem, AtA
<1>2. IsSt /\ st.root = TRUE /\ Len(Evs) \in Nat
  BY <1>1, Zenon DEF ArrRuns
<1>3. ArrReads /\ ev = Evs[p]
  BY <1>1, Zenon DEF ArrReads, ev, Evs
<1>4. p = v + 1 /\ ev.kind = "SPar" /\ Begun(Evs, v, p + 1)
  BY <1>1, <1>3, Zenon DEF Goes
<1>5. ArrStr /\ Same0
  BY <1>3, <1>4, ArrActs, KindsApart
<1>6. Go([st EXCEPT !.strRaw = ev.data]) /\ Kept
  <2> DEFINE A == Go(st) /\ Kept
             B == Go([st EXCEPT !.strRaw = ev.data]) /\ Kept
             C == StrBytes(st.strRaw, LAMBDA w : Put(w, [st EXCEPT !.cap = @ \ {"str"}], st.strLoc))
  <2>1. TRUE /\ CASE "str" \notin st.cap -> A [] ev.kind = "SPar" /\ "str" \in st.cap -> B [] OTHER -> C
    BY <1>5, Zenon DEF ArrStr
  <2>2. "str" \in st.cap
    BY <1>1
  <2> HIDE DEF A, B, C
  <2>3. B
    BY <1>4, <2>1, <2>2
  <2> QED  BY <2>3 DEF B
<1>7. /\ IsSt' /\ st'.root = st.root /\ st'.dep = st.dep /\ st'.cap = st.cap /\ st'.n = st.n
      /\ st'.strLoc = st.strLoc /\ st'.strRaw = Evs[v + 1].data
  <2>1. st' = [st EXCEPT !.strRaw = ev.data]
    BY <1>6, Zenon DEF Go
  <2> QED  BY <1>2, <1>3, <1>4, <2>1 DEF IsSt, StFields
<1>8. Moved
  BY <1>5, <1>6, Zenon DEF Moved, Same0, Go, Kept
<1>9. ArrRuns'
  BY <1>1, <1>2, <1>7, <1>8, ArrRunsOn, Zenon DEF Moved, Same0
<1>10. pos' = p + 1 /\ Evs' = Evs /\ pos' # v + 1 /\ Objects' = Objects
  BY <1>4, <1>8 DEF Moved, Evs, Objects
<1>11. Begun(Evs, v, pos)'
  BY <1>4, <1>10, Zenon DEF Begun, Level, Among
<1>12. StrElem(v)'
  BY <1>1, <1>7, <1>9, <1>10, <1>11, Zenon DEF StrElem, AtA
<1> QED  BY <1>7, <1>8, <1>12, Zenon DEF Constant

LEMMA NumElemGoes ==
    \A v \in Nat : \A p :
        NumElem(v) /\ pos = p /\ p <= Len(Evs) /\ Next /\ Goes(Evs, v, p) => Constant /\ NumElem(v)'
<1> SUFFICES ASSUME NEW v \in Nat, NEW p, NumElem(v), pos = p, p <= Len(Evs), Next, Goes(Evs, v, p)
             PROVE  Constant /\ NumElem(v)'
  OBVIOUS
<1>1. /\ ArrRuns /\ st.dep = 1 /\ st.cap = {"raw"} /\ ~Objects /\ Evs[v].kind = "NBeg"
      /\ st.rawBeg = Evs[v].loc.off /\ st.rawDep = 1
  BY Zenon DEF NumElem, AtA
<1>2. IsSt /\ st.root = TRUE /\ Len(Evs) \in Nat
  BY <1>1, Zenon DEF ArrRuns
<1>3. ArrReads /\ ev = Evs[p]
  BY <1>1, Zenon DEF ArrReads, ev, Evs
<1>4. p = v + 1 /\ ev.kind = "NPar" /\ Begun(Evs, v, p + 1)
  BY <1>1, <1>3, Zenon DEF Goes
<1>5. Passive
  <2>1. "str" \notin st.cap /\ ev.kind \notin Beginnings /\ st.dep \in Int
    BY <1>1, <1>4, KindsApart
  <2>2. ~ArrRawEnd
    BY <1>4 DEF ArrRawEnd
  <2> QED  BY <2>1, <2>2, Zenon DEF Passive
<1>6. Moved /\ st' = [st EXCEPT !.dep = @ + Rise(ev.kind)]
  BY <1>3, <1>5, PassiveStep
<1>7. Rise(ev.kind) = 0
  BY <1>4 DEF Rise, Composite
<1>8. /\ IsSt' /\ st'.root = st.root /\ st'.dep = st.dep /\ st'.cap = st.cap /\ st'.n = st.n
      /\ st'.rawBeg = st.rawBeg /\ st'.rawDep = st.rawDep
  BY <1>1, <1>2, <1>6, <1>7 DEF IsSt, StFields
<1>9. ArrRuns'
  BY <1>1, <1>2, <1>6, <1>8, ArrRunsOn, Zenon DEF Moved, Same0
<1>10. pos' = p + 1 /\ Evs' = Evs /\ Objects' = Objects
  BY <1>6 DEF Moved, Evs, Objects
<1>11. Begun(Evs, v, pos)'
  BY <1>4, <1>10, Zenon DEF Begun, Level, Among
<1>12. NumElem(v)'
  BY <1>1, <1>8, <1>9, <1>10, <1>11, Zenon DEF NumElem, AtA
<1> QED  BY <1>6, <1>8, <1>12, Zenon DEF Constant

LEMMA ElemGoes ==
    \A v \in Nat : \A p :
        InElem(v) /\ pos = p /\ p <= Len(Evs) /\ Next /\ Goes(Evs, v, p) => Constant /\ InElem(v)'
<1> SUFFICES ASSUME NEW v \in Nat, NEW p, InElem(v), pos = p, p <= Len(Evs), Next, Goes(Evs, v, p)
             PROVE  Constant /\ (StrElem(v)' \/ NumElem(v)' \/ ObjElem(v)')
  BY Zenon DEF InElem
<1> QED  BY StrElemGoes, NumElemGoes, ObjElemGoes, Zenon DEF InElem

\* The bracket that closes the array.
LEMMA ElemsClosed ==
    \A l \in Nat :
        AtElem(l) /\ l + 1 <= Len(Evs) /\ Evs[l + 1].kind = "AEnd" /\ Next => Constant /\ AtClose(l)'
<1> SUFFICES ASSUME NEW l \in Nat, AtElem(l), l + 1 <= Len(Evs), Evs[l + 1].kind = "AEnd", Next
             PROVE  Constant /\ AtClose(l)'
  OBVIOUS
<1>1. ArrRuns /\ pos = l + 1 /\ st.dep = 1 /\ st.cap = {}
  BY Zenon DEF AtElem, AtA
<1>2. IsSt /\ st.root = TRUE /\ Len(Evs) \in Nat
  BY <1>1, Zenon DEF ArrRuns
<1>3. ArrReads /\ ev = Evs[l + 1]
  BY <1>1, Zenon DEF ArrReads, ev, Evs
<1>4. Passive
  <2>1. "str" \notin st.cap /\ ev.kind \notin Beginnings /\ st.dep \in Int
    BY <1>1, <1>3, KindsApart
  <2>2. ~ArrRawEnd
    BY <1>1 DEF ArrRawEnd
  <2> QED  BY <2>1, <2>2, Zenon DEF Passive
<1>5. Moved /\ st' = [st EXCEPT !.dep = @ + Rise(ev.kind)]
  BY <1>3, <1>4, PassiveStep
<1>6. Rise(ev.kind) = -1
  BY <1>3 DEF Rise, Composite
<1>7. IsSt' /\ st'.root = st.root /\ st'.dep = 0 /\ st'.cap = st.cap /\ st'.n = st.n
  <2>1. st.dep + Rise(ev.kind) = 0
    BY <1>1, <1>6
  <2> QED  BY <1>2, <1>5, <2>1 DEF IsSt, StFields
<1>8. ArrRuns'
  BY <1>1, <1>2, <1>5, <1>7, ArrRunsOn, Zenon DEF Moved, Same0
<1>9. pos' = l + 2
  BY <1>1, <1>5 DEF Moved
<1>10. AtClose(l)'
  BY <1>1, <1>7, <1>8, <1>9, Zenon DEF AtClose, AtA
<1> QED  BY <1>5, <1>7, <1>10, Zenon DEF Constant

-----------------------------------------------------------------------------
(* From element to element.                                                *)

\* k elements have been read and none of them stopped the call; l and j are the
\* last events of the k-th and of the next one.
OnElem(k, l, j) ==
    /\ Called /\ Rooted /\ call.mode # "obj" /\ k \in 0 .. Good0 /\ k <= Before(Items)
    /\ Filled(k, dst, arena, st.n)
    /\ l = LastAt[k] /\ (k < Good0 => j = LastAt[k + 1])

\* What there is of element k + 1.
NextElem(k, l, j) ==
    /\ Called /\ Rooted /\ call.mode # "obj" /\ k <= Before(Items)
    /\ l \in Nat /\ k \in Nat /\ Len(Evs) \in Nat /\ Len(Items) \in Nat /\ k <= Len(Items) /\ k <= Good0
    /\ arena \in Seq(OutChars) /\ Len(dst) = call.cap /\ call.cap \in Nat /\ st.n = k /\ k <= call.cap
    /\ k < Good0 =>
          /\ k < Len(Items)
          /\ \E off : /\ ValueIs(Evs, l + 1, j, Items[k + 1].val, off)
                      /\ Placed(buf, off, Items[k + 1].val)
          /\ j \in Nat /\ l + 1 <= j /\ j <= Len(Evs)
    /\ ~(k < Good0) /\ k < Len(Items) => Breaks(Evs, l + 1) /\ Stops(Items[k + 1]) /\ feed.err # NoError
    /\ k = Len(Items) =>
          \/ Len(Evs) = l /\ feed.err # NoError /\ ~Whole
          \/ /\ Len(Evs) = l + 1 /\ Evs[l + 1].kind = "AEnd"
             /\ feed.err = NoError <=> Whole

LEMMA FilledIs ==
    ASSUME Called, NEW k, Filled(k, dst, arena, st.n)
    PROVE  /\ arena \in Seq(OutChars) /\ Len(dst) = call.cap /\ call.cap \in Nat /\ st.n = k /\ k <= call.cap
<1>1. call.cap \in Nat
  BY CallIs
<1>2. dst = [i \in 1 .. call.cap |-> dst[i]] /\ arena \in Seq(OutChars) /\ st.n = k /\ k <= call.cap
  BY Zenon DEF Filled
<1>3. Len(dst) = call.cap
  BY <1>1, <1>2, LenIs
<1> QED  BY <1>1, <1>2, <1>3

LEMMA ElemIs == \A k, l, j : OnElem(k, l, j) => NextElem(k, l, j)
<1> SUFFICES ASSUME NEW k, NEW l, NEW j, OnElem(k, l, j)
             PROVE  NextElem(k, l, j)
  OBVIOUS
<1>1. /\ Called /\ Rooted /\ call.mode # "obj" /\ k \in 0 .. Good0 /\ k <= Before(Items)
      /\ l = LastAt[k] /\ (k < Good0 => j = LastAt[k + 1])
  BY Zenon DEF OnElem
<1>2. arena \in Seq(OutChars) /\ Len(dst) = call.cap /\ call.cap \in Nat /\ st.n = k /\ k <= call.cap
  BY <1>1, FilledIs, Zenon DEF OnElem
<1>3. PICK g : g = Good0
  OBVIOUS
<1>4. g \in 0 .. Len(Items) /\ Len(Items) \in Nat /\ Len(Evs) \in Nat
  BY <1>1, <1>3, ItemEvents, CallIs, FeedIs
<1>5. k \in Nat /\ k <= g /\ k <= Len(Items) /\ (k < g => k < Len(Items)) /\ (k + 1) - 1 = k
  BY <1>1, <1>3, <1>4
<1>6. l \in Nat
  <2>1. LastAt[k] \in 1 .. Len(Evs)
    BY <1>1, ItemEvents
  <2> QED  BY <1>1, <2>1
<1>7. k < Len(Items) => ValAt(k + 1) = l + 1
  <2>1. SUFFICES ASSUME k < Len(Items)  PROVE ValAt(k + 1) = l + 1
    OBVIOUS
  <2>2. k + 1 \in 1 .. Len(Items)
    BY <1>4, <1>5, <2>1
  <2>3. Items[k + 1].key = << >>
    BY <1>1, <2>2, RootedIs
  <2>4. KeyEvents(Items[k + 1].key) = 0
    BY <2>3 DEF KeyEvents
  <2>5. KeyAt(k + 1) = l + 1
    BY <1>1, <1>5, Zenon DEF KeyAt
  <2>6. ValAt(k + 1) = (l + 1) + 0
    BY <2>4, <2>5, Zenon DEF ValAt
  <2> QED  BY <1>6, <2>6
<1>8. ASSUME k < g
      PROVE  /\ \E off : /\ ValueIs(Evs, l + 1, j, Items[k + 1].val, off)
                         /\ Placed(buf, off, Items[k + 1].val)
             /\ j \in Nat /\ l + 1 <= j /\ j <= Len(Evs)
  <2>1. j = LastAt[k + 1] /\ ValAt(k + 1) = l + 1
    BY <1>1, <1>3, <1>5, <1>7, <1>8
  <2>2. PICK off : off = ValueAt(call.doc, k + 1)
    OBVIOUS
  <2>3. ValueIs(Evs, l + 1, j, Items[k + 1].val, off) /\ j <= Len(Evs) /\ Placed(buf, off, Items[k + 1].val)
    BY <1>1, <1>3, <1>5, <1>8, <2>1, <2>2, ItemIs, Zenon
  <2> QED  BY <2>3, Zenon DEF ValueIs
<1>9. ASSUME ~(k < g), k < Len(Items)
      PROVE  Breaks(Evs, l + 1) /\ Stops(Items[k + 1]) /\ feed.err # NoError
  <2>1. k = g
    BY <1>4, <1>5, <1>9
  <2>2. Breaks(Evs, ValAt(k + 1)) /\ ~IsValue(Items[k + 1].val, MaxDep - 1) /\ feed.err # NoError
    BY <1>1, <1>3, <1>9, <2>1, ItemEvents
  <2> QED  BY <1>7, <1>9, <2>2, Zenon DEF Stops
<1>10. ASSUME k = Len(Items)
       PROVE  \/ Len(Evs) = l /\ feed.err # NoError /\ ~Whole
              \/ /\ Len(Evs) = l + 1 /\ Evs[l + 1].kind = "AEnd"
                 /\ feed.err = NoError <=> Whole
  <2>1. k = g
    <3>1. PICK m : m = Len(Items)
      OBVIOUS
    <3>2. g \in 0 .. m /\ m \in Nat /\ k = m
      BY <1>4, <1>10, <3>1
    <3> QED  BY <1>5, <3>2
  <2>2. \/ Len(Evs) = LastAt[k] /\ feed.err # NoError /\ ~Whole
        \/ /\ Len(Evs) = LastAt[k] + 1 /\ Evs[LastAt[k] + 1].kind = Root(call).kind
           /\ feed.err = NoError <=> Whole
    BY <1>1, <1>3, <1>10, <2>1, ItemEvents
  <2>3. Root(call).kind = "AEnd"
    BY <1>1 DEF Root
  <2> QED  BY <1>1, <2>2, <2>3
<1> QED  BY <1>1, <1>2, <1>3, <1>4, <1>5, <1>6, <1>8, <1>9, <1>10, Zenon DEF NextElem

\* The k-th element has been read by the step.
ReadyElem(k, l, j) ==
    /\ Called /\ Rooted /\ call.mode # "obj" /\ k \in 0 .. Good0 /\ k <= Before(Items)
    /\ Filled(k, dst', arena', st'.n)
    /\ l = LastAt[k] /\ (k < Good0 => j = LastAt[k + 1])

LEMMA OnElemGoes == \A k, l, j : Same0 /\ ReadyElem(k, l, j) => OnElem(k, l, j)'
<1> SUFFICES ASSUME NEW k, NEW l, NEW j, Same0, ReadyElem(k, l, j)
             PROVE  OnElem(k, l, j)'
  OBVIOUS
<1>0. /\ Called /\ Rooted /\ call.mode # "obj" /\ k \in 0 .. Good0 /\ k <= Before(Items)
      /\ Filled(k, dst', arena', st'.n)
      /\ l = LastAt[k] /\ (k < Good0 => j = LastAt[k + 1])
  BY Zenon DEF ReadyElem
<1>1. /\ Called' = Called /\ Rooted' = Rooted /\ Before(Items)' = Before(Items) /\ Good0' = Good0
      /\ call' = call /\ Items' = Items /\ Evs' = Evs
  BY CallKept
<1>2. LastAt' = LastAt
  BY <1>1, Zenon DEF LastAt
<1>3. Filled(k, dst, arena, st.n)'
  <2>1. PICK D, a, n : D = dst' /\ a = arena' /\ n = st'.n
    OBVIOUS
  <2>2. Filled(k, D, a, n)
    BY <1>0, <2>1
  <2> QED  BY <2>1, <2>2, FilledOn
<1> QED  BY <1>0, <1>1, <1>2, <1>3, Zenon DEF OnElem

\* Element k + 1 is put in its place, stops the call, or finds no room.
PassesElem(k, j) ==
    /\ Same0 /\ k < Good0 /\ ~Stops(Items[k + 1]) /\ Filled(k + 1, dst', arena', st'.n) /\ AtElem(j)'
HaltedElem(k) == Halts /\ k < Len(Items) /\ Stops(Items[k + 1])
NoRoom(k) == Halts /\ ret'.cause = "arg_cap" /\ k < Len(Items) /\ ~Stops(Items[k + 1]) /\ k = call.cap

\* The state that goes with an element that is over.
OverElem(s) ==
    /\ s = [x \in StFields |-> s[x]] /\ s.root = TRUE
    /\ s.dep = 1 /\ s.cap = {} /\ s.n = st.n

\* The value x of element k + 1 goes to out at the element's last event.
Putting(k, l, j, x, s) ==
    /\ OnElem(k, l, j) /\ k < Good0 /\ ArrRuns /\ pos = j /\ Same0 /\ Grown(arena, arena')
    /\ ~Stops(Items[k + 1]) /\ Holds(x, arena', Elem(Items[k + 1])) /\ OverElem(s)

LEMMA PutStep ==
    \A k, l, j, x, s, loc : Putting(k, l, j, x, s) /\ Put(x, s, loc) => PassesElem(k, j) \/ NoRoom(k)
<1> SUFFICES ASSUME NEW k, NEW l, NEW j, NEW x, NEW s, NEW loc, Putting(k, l, j, x, s), Put(x, s, loc)
             PROVE  PassesElem(k, j) \/ NoRoom(k)
  OBVIOUS
<1>1. /\ OnElem(k, l, j) /\ k < Good0 /\ ArrRuns /\ pos = j /\ Same0 /\ Grown(arena, arena')
      /\ ~Stops(Items[k + 1]) /\ Holds(x, arena', Elem(Items[k + 1])) /\ OverElem(s)
  BY Zenon DEF Putting
<1>2. /\ Called /\ k \in Nat /\ k < Len(Items) /\ Len(dst) = call.cap /\ call.cap \in Nat
      /\ st.n = k /\ k <= call.cap
  BY <1>1, ElemIs, Zenon DEF NextElem
<1>3. Filled(k, dst, arena, st.n)
  BY <1>1, Zenon DEF OnElem
<1>4. CASE st.n < Len(dst)
  <2>1. /\ dst' = [dst EXCEPT ![st.n + 1] = x] /\ pos' = pos + 1 /\ ret' = ret
        /\ st' = [s EXCEPT !.n = @ + 1]
    BY <1>4, Zenon DEF Put, Go
  <2>2. s = [y \in StFields |-> s[y]] /\ s.root = TRUE /\ s.dep = 1 /\ s.cap = {} /\ s.n = st.n
    BY <1>1, Zenon DEF OverElem
  <2>3. IsSt' /\ st'.root = TRUE /\ st'.dep = 1 /\ st'.cap = {} /\ st'.n = st.n + 1
    BY <2>1, <2>2 DEF IsSt, StFields
  <2>4. ArrRuns'
    BY <1>1, <2>1, <2>3, ArrRunsOn
  <2>5. AtElem(j)'
    BY <1>1, <2>1, <2>3, <2>4, Zenon DEF AtElem, AtA
  <2>6. Filled(k + 1, dst', arena', st'.n)
    <3>1. PICK D, a, b, n, m : D = dst /\ a = arena /\ b = arena' /\ n = st.n /\ m = k + 1
      OBVIOUS
    <3>2. Filled(k, D, a, n) /\ Grown(a, b) /\ Holds(x, b, Elem(Items[k + 1])) /\ k < call.cap
      BY <1>1, <1>2, <1>3, <1>4, <3>1
    <3>3. Filled(k + 1, [D EXCEPT ![k + 1] = x], b, n + 1)
      BY <1>2, <3>2, FilledNext
    <3>4. dst' = [D EXCEPT ![k + 1] = x] /\ arena' = b /\ st'.n = n + 1
      BY <1>2, <2>1, <2>3, <3>1, Zenon
    <3> QED  BY <3>3, <3>4, Zenon
  <2> QED  BY <1>1, <2>5, <2>6, Zenon DEF PassesElem
<1>5. CASE ~(st.n < Len(dst))
  <2>1. Stop("arg_cap", loc)
    BY <1>5, Zenon DEF Put
  <2>2. Halts
    BY <1>1, <2>1, Causes, StopHalts
  <2>3. ret'.cause = "arg_cap"
    <3>1. ret' = Returned("arg_cap", loc, 0)
      BY <2>1, Zenon DEF Stop
    <3> QED  BY <3>1 DEF Returned
  <2>4. k = call.cap
    BY <1>2, <1>5
  <2> QED  BY <1>1, <1>2, <2>2, <2>3, <2>4, Zenon DEF NoRoom
<1> QED  BY <1>4, <1>5

\* What element k + 1 is, at its first event.
LEMMA ElemCases ==
    \A k, l, j : OnElem(k, l, j) /\ k < Good0 =>
        /\ Stops(Items[k + 1]) <=> Refuses(Evs[l + 1].kind)
                                   \/ (~Objects /\ Evs[l + 1].kind = "SBeg" /\ ~Fits(Items[k + 1].val, "bytes"))
        /\ Evs[l + 1].kind \in Beginnings /\ Items[k + 1].val \in Seq(Chars)
        /\ Evs[l + 1].kind = "SBeg" <=> IsString(Items[k + 1].val)
        /\ Evs[l + 1].kind # "SBeg" => Elem(Items[k + 1]) = Items[k + 1].val
        /\ Evs[l + 1].kind \in {"True", "False", "Null"} => j = l + 1
        /\ Evs[l + 1].kind \notin {"True", "False", "Null"} => l + 1 < j
        /\ Evs[l + 1].kind = "NBeg" => Evs[j].kind = "NEnd"
        /\ Evs[l + 1].kind = "OBeg" => Evs[j].kind = "OEnd"
        /\ Evs[l + 1].kind \in {"True", "False", "Null"} =>
              \A b : Holds(Slice("buf", Evs[l + 1].loc.off, Evs[l + 1].loc.off + LitLen(Evs[l + 1].kind)), b,
                           Items[k + 1].val)
        /\ Evs[l + 1].kind \notin {"True", "False", "Null"} =>
              \A b : Holds(Slice("buf", Evs[l + 1].loc.off, Evs[j].loc.off + 1), b, Items[k + 1].val)
<1> SUFFICES ASSUME NEW k, NEW l, NEW j, OnElem(k, l, j), k < Good0
             PROVE
        /\ Stops(Items[k + 1]) <=> Refuses(Evs[l + 1].kind)
                                   \/ (~Objects /\ Evs[l + 1].kind = "SBeg" /\ ~Fits(Items[k + 1].val, "bytes"))
        /\ Evs[l + 1].kind \in Beginnings /\ Items[k + 1].val \in Seq(Chars)
        /\ Evs[l + 1].kind = "SBeg" <=> IsString(Items[k + 1].val)
        /\ Evs[l + 1].kind # "SBeg" => Elem(Items[k + 1]) = Items[k + 1].val
        /\ Evs[l + 1].kind \in {"True", "False", "Null"} => j = l + 1
        /\ Evs[l + 1].kind \notin {"True", "False", "Null"} => l + 1 < j
        /\ Evs[l + 1].kind = "NBeg" => Evs[j].kind = "NEnd"
        /\ Evs[l + 1].kind = "OBeg" => Evs[j].kind = "OEnd"
        /\ Evs[l + 1].kind \in {"True", "False", "Null"} =>
              \A b : Holds(Slice("buf", Evs[l + 1].loc.off, Evs[l + 1].loc.off + LitLen(Evs[l + 1].kind)), b,
                           Items[k + 1].val)
        /\ Evs[l + 1].kind \notin {"True", "False", "Null"} =>
              \A b : Holds(Slice("buf", Evs[l + 1].loc.off, Evs[j].loc.off + 1), b, Items[k + 1].val)
  OBVIOUS
<1>1. NextElem(k, l, j)
  BY ElemIs
<1>2. PICK it, v : it = Items[k + 1] /\ v = l + 1
  OBVIOUS
<1>3. PICK off : ValueIs(Evs, v, j, it.val, off) /\ Placed(buf, off, it.val)
  BY <1>1, <1>2, Zenon DEF NextElem
<1>4. call.mode # "obj"
  BY <1>1, Zenon DEF NextElem
<1>5. PICK s : s = it.val
  OBVIOUS
<1>6. ValueIs(Evs, v, j, s, off) /\ Placed(buf, off, s) /\ s \in Seq(Chars)
  BY <1>3, <1>5, Zenon DEF ValueIs
<1>7. Stops(it) <=> Refuses(Evs[v].kind) \/ (~Objects /\ Evs[v].kind = "SBeg" /\ ~Fits(s, "bytes"))
  BY <1>3, <1>4, <1>5, StopsElem
<1>8. /\ Evs[v].kind = "SBeg" <=> IsString(s)
      /\ Evs[v].kind = "NBeg" => Evs[j].kind = "NEnd"
      /\ Evs[v].kind = "OBeg" => Evs[j].kind = "OEnd"
      /\ Evs[v].kind \in {"True", "False", "Null"} =>
            s \in {True, False, Null} /\ v = j /\ Len(s) = LitLen(Evs[v].kind)
      /\ Evs[v].kind \in Beginnings
  BY <1>6, ElemKinds
<1>9. Evs[v].kind # "SBeg" => Elem(it) = s
  <2>1. Means(s, "raw") = s
    BY <1>6, MeansIs
  <2>2. Evs[v].kind # "SBeg" => (IF IsString(it.val) THEN "bytes" ELSE "raw") = "raw"
    BY <1>5, <1>8
  <2> QED  BY <1>5, <2>1, <2>2 DEF Elem
<1>10. Evs[v].kind \notin {"True", "False", "Null"} => v < j
  BY <1>6, LongIs
<1>11. /\ Evs[v].loc.off = off
       /\ s \notin {True, False, Null} => Evs[j].loc.off = off + Len(s) - 1
  BY <1>6, ValueBegins, Zenon
<1>12. \A b : Holds(Slice("buf", off, off + Len(s)), b, s)
  BY <1>6, RawHolds
<1>13. Evs[v].kind \in {"True", "False", "Null"} =>
          \A b : Holds(Slice("buf", Evs[v].loc.off, Evs[v].loc.off + LitLen(Evs[v].kind)), b, s)
  BY <1>8, <1>11, <1>12, Zenon
<1>14. Evs[v].kind \notin {"True", "False", "Null"} =>
          \A b : Holds(Slice("buf", Evs[v].loc.off, Evs[j].loc.off + 1), b, s)
  <2>1. SUFFICES ASSUME Evs[v].kind \notin {"True", "False", "Null"}
                 PROVE  \A b : Holds(Slice("buf", Evs[v].loc.off, Evs[j].loc.off + 1), b, s)
    OBVIOUS
  <2>2. v < j /\ v \in Nat /\ j \in Nat
    BY <1>6, <1>10, <2>1, Zenon DEF ValueIs
  <2>3. s \notin {True, False, Null}
    <3>1. /\ s = True => Evs[v].kind = "True" \/ IsString(s) \/ IsNumber(s)
          /\ s = False => Evs[v].kind = "False" \/ IsString(s) \/ IsNumber(s)
          /\ s = Null => Evs[v].kind = "Null" \/ IsString(s) \/ IsNumber(s)
      BY <1>6, ValueBegins
    <3> QED  BY <1>6, <2>1, <3>1, KindsDiffer
  <2>4. PICK n \in Nat : n = Len(s)
    BY <1>6
  <2>5. off \in Nat
    BY <1>6, Zenon DEF Placed
  <2>6. Evs[j].loc.off + 1 = off + Len(s)
    <3>1. off + n - 1 + 1 = off + n
      BY <2>5
    <3> QED  BY <1>11, <2>3, <2>4, <3>1
  <2> QED  BY <1>11, <1>12, <2>6
<1> QED  BY <1>2, <1>5, <1>6, <1>7, <1>8, <1>9, <1>10, <1>13, <1>14, Zenon

\* An element of one event.
LEMMA LiteralElem ==
    \A k, l, j :
        OnElem(k, l, j) /\ k < Good0 /\ AtElem(l) /\ Evs[l + 1].kind \in {"True", "False", "Null"}
        /\ ~Refuses(Evs[l + 1].kind) /\ Next => PassesElem(k, j) \/ NoRoom(k)
<1> SUFFICES ASSUME NEW k, NEW l, NEW j, OnElem(k, l, j), k < Good0, AtElem(l),
                    Evs[l + 1].kind \in {"True", "False", "Null"}, ~Refuses(Evs[l + 1].kind), Next
             PROVE  PassesElem(k, j) \/ NoRoom(k)
  OBVIOUS
<1>1. NextElem(k, l, j)
  BY ElemIs
<1>2. l \in Nat /\ j \in Nat /\ j <= Len(Evs) /\ arena \in Seq(OutChars)
  BY <1>1, Zenon DEF NextElem
<1>3. /\ Stops(Items[k + 1]) <=> Refuses(Evs[l + 1].kind)
                                 \/ (~Objects /\ Evs[l + 1].kind = "SBeg" /\ ~Fits(Items[k + 1].val, "bytes"))
      /\ Evs[l + 1].kind # "SBeg" => Elem(Items[k + 1]) = Items[k + 1].val
      /\ j = l + 1
      /\ \A b : Holds(Slice("buf", Evs[l + 1].loc.off, Evs[l + 1].loc.off + LitLen(Evs[l + 1].kind)), b,
                      Items[k + 1].val)
  BY ElemCases, Zenon
<1>4. ArrRuns /\ pos = l + 1 /\ st.dep = 1 /\ st.cap = {}
  BY Zenon DEF AtElem, AtA
<1>5. ArrReads /\ ev = Evs[l + 1]
  BY <1>2, <1>3, <1>4 DEF ArrReads, ev, Evs
<1>6. ev.kind \in {"True", "False", "Null"} /\ ev.kind # "SBeg" /\ ~(st.dep > 1)
  BY <1>4, <1>5
<1>7. ArrLiteral /\ Same0
  BY <1>5, <1>6, ArrActs, KindsApart
<1> DEFINE x == Slice("buf", ev.loc.off, ev.loc.off + LitLen(ev.kind))
<1>8. Put(x, st, ev.loc) /\ arena' = arena
  BY <1>7, Zenon DEF ArrLiteral
<1>9. OverElem(st)
  BY <1>4, Zenon DEF OverElem, ArrRuns, IsSt
<1>10. Grown(arena, arena')
  BY <1>2, <1>8, Unmoved
<1>11. ~Stops(Items[k + 1]) /\ Holds(x, arena', Elem(Items[k + 1]))
  <2>1. Elem(Items[k + 1]) = Items[k + 1].val /\ ~Stops(Items[k + 1])
    BY <1>3, <1>5, <1>6, Zenon
  <2>2. Holds(x, arena', Items[k + 1].val)
    BY <1>3, <1>5, Zenon
  <2> QED  BY <2>1, <2>2, Zenon
<1> HIDE DEF x
<1>12. Putting(k, l, j, x, st)
  BY <1>3, <1>4, <1>7, <1>9, <1>10, <1>11, Zenon DEF Putting
<1> QED  BY <1>8, <1>12, PutStep

\* At the last event of an element of several that is not refused.
LastElem(k, l, j) ==
    /\ OnElem(k, l, j) /\ k < Good0 /\ pos = j /\ Ends(Evs, l + 1, j)
    /\ Evs[l + 1].kind \in {"SBeg", "NBeg", "OBeg"} /\ ~Refuses(Evs[l + 1].kind)

LEMMA SpanElem ==
    \A k, l, j : LastElem(k, l, j) /\ (NumElem(l + 1) \/ ObjElem(l + 1)) /\ Next => PassesElem(k, j) \/ NoRoom(k)
<1> SUFFICES ASSUME NEW k, NEW l, NEW j, LastElem(k, l, j), NumElem(l + 1) \/ ObjElem(l + 1), Next
             PROVE  PassesElem(k, j) \/ NoRoom(k)
  OBVIOUS
<1>1. /\ OnElem(k, l, j) /\ k < Good0 /\ pos = j /\ Ends(Evs, l + 1, j) /\ ~Refuses(Evs[l + 1].kind)
      /\ Evs[l + 1].kind \in {"SBeg", "NBeg", "OBeg"}
  BY Zenon DEF LastElem
<1>2. l \in Nat /\ j \in Nat /\ j <= Len(Evs) /\ arena \in Seq(OutChars) /\ Len(Evs) \in Nat
  BY <1>1, ElemIs, Zenon DEF NextElem
<1>3. Evs[l + 1].kind \notin {"True", "False", "Null"}
  BY <1>1
<1>4. /\ Stops(Items[k + 1]) <=> Refuses(Evs[l + 1].kind)
                                 \/ (~Objects /\ Evs[l + 1].kind = "SBeg" /\ ~Fits(Items[k + 1].val, "bytes"))
      /\ Evs[l + 1].kind # "SBeg" => Elem(Items[k + 1]) = Items[k + 1].val
      /\ l + 1 < j
      /\ Evs[l + 1].kind = "NBeg" => Evs[j].kind = "NEnd"
      /\ Evs[l + 1].kind = "OBeg" => Evs[j].kind = "OEnd"
      /\ \A b : Holds(Slice("buf", Evs[l + 1].loc.off, Evs[j].loc.off + 1), b, Items[k + 1].val)
  <2>1. OnElem(k, l, j) /\ k < Good0
    BY <1>1
  <2> HIDE <1>1
  <2> QED  BY <1>3, <2>1, ElemCases, Zenon
<1>5. /\ ArrRuns /\ st.cap = {"raw"} /\ st.rawBeg = Evs[l + 1].loc.off
      /\ Evs[l + 1].kind = "NBeg" \/ Evs[l + 1].kind = "OBeg"
  BY Zenon DEF NumElem, ObjElem, AtA
<1>6. ArrReads /\ ev = Evs[j] /\ IsSt /\ st.root = TRUE
  BY <1>1, <1>2, <1>5, Zenon DEF ArrReads, ArrRuns, ev, Evs
<1>7. \/ ev.kind = "NEnd" /\ st.dep = 1 /\ st.rawDep = 1
      \/ ev.kind = "OEnd" /\ st.dep = 2 /\ st.rawDep = 2
  <2>1. CASE NumElem(l + 1)
    <3>1. Evs[l + 1].kind = "NBeg" /\ st.dep = 1 /\ st.rawDep = 1
      BY <2>1, Zenon DEF NumElem, AtA
    <3> QED  BY <1>4, <1>6, <3>1
  <2>2. CASE ObjElem(l + 1)
    <3>1. Evs[l + 1].kind = "OBeg" /\ st.dep = 1 + Level(Evs, l + 1, j - 1) /\ st.rawDep = 2
      BY <1>1, <2>2, Zenon DEF ObjElem, AtA
    <3>2. Level(Evs, l + 1, j - 1) = 1
      BY <1>1, <3>1 DEF Ends
    <3> QED  BY <1>4, <1>6, <3>1, <3>2
  <2> QED  BY <2>1, <2>2
<1>8. ArrEnd /\ Same0
  <2>1. ev.kind \in {"NEnd", "OEnd"}
    BY <1>7
  <2> QED  BY <1>6, <2>1, ArrActs, KindsApart
<1>9. ArrRawEnd
  BY <1>5, <1>7 DEF ArrRawEnd
<1> DEFINE x == Slice("buf", st.rawBeg, ev.loc.off + 1)
           s == [st EXCEPT !.dep = IF ev.kind = "NEnd" THEN @ ELSE @ - 1]
           z == [s EXCEPT !.cap = @ \ {"raw"}]
<1>10. Put(x, z, ev.loc) /\ arena' = arena
  BY <1>8, <1>9, Zenon DEF ArrEnd
<1>11. OverElem(z)
  <2>1. st = [y \in StFields |-> st[y]]
    BY <1>6, Zenon DEF IsSt
  <2>2. s = [y \in StFields |-> s[y]] /\ s.root = TRUE /\ s.dep = 1 /\ s.cap = {"raw"} /\ s.n = st.n
    BY <1>5, <1>6, <1>7, <2>1 DEF StFields
  <2> HIDE DEF s
  <2> QED  BY <2>2 DEF OverElem, StFields
<1>12. Grown(arena, arena')
  BY <1>2, <1>10, Unmoved
<1>13. ~Stops(Items[k + 1]) /\ Holds(x, arena', Elem(Items[k + 1]))
  <2>1. Evs[l + 1].kind # "SBeg"
    BY <1>5
  <2>2. Elem(Items[k + 1]) = Items[k + 1].val /\ ~Stops(Items[k + 1])
    BY <1>1, <1>4, <2>1, Zenon
  <2>3. Holds(x, arena', Items[k + 1].val)
    BY <1>4, <1>5, <1>6, Zenon
  <2> QED  BY <2>2, <2>3, Zenon
<1> HIDE DEF x, z
<1>14. Putting(k, l, j, x, z)
  BY <1>1, <1>5, <1>8, <1>11, <1>12, <1>13, Zenon DEF Putting
<1> QED  BY <1>10, <1>14, PutStep

LEMMA StrElemEnds ==
    \A k, l, j : LastElem(k, l, j) /\ StrElem(l + 1) /\ Next => PassesElem(k, j) \/ NoRoom(k) \/ HaltedElem(k)
<1> SUFFICES ASSUME NEW k, NEW l, NEW j, LastElem(k, l, j), StrElem(l + 1), Next
             PROVE  PassesElem(k, j) \/ NoRoom(k) \/ HaltedElem(k)
  OBVIOUS
<1>1. /\ OnElem(k, l, j) /\ k < Good0 /\ pos = j /\ Ends(Evs, l + 1, j) /\ ~Refuses(Evs[l + 1].kind)
  BY Zenon DEF LastElem
<1>2. NextElem(k, l, j)
  BY <1>1, ElemIs
<1>3. /\ l \in Nat /\ j \in Nat /\ j <= Len(Evs) /\ arena \in Seq(OutChars) /\ Len(Evs) \in Nat
      /\ Called /\ k < Len(Items)
  BY <1>1, <1>2, Zenon DEF NextElem
<1>4. PICK off, s, v : /\ ValueIs(Evs, v, j, s, off) /\ Placed(buf, off, s)
                       /\ s = Items[k + 1].val /\ v = l + 1
  BY <1>1, <1>2, Zenon DEF NextElem
<1>5. /\ ArrRuns /\ st.dep = 1 /\ st.cap = {"str"} /\ Evs[v].kind = "SBeg" /\ ~Objects
      /\ st.strLoc = Evs[v].loc /\ st.strRaw = IF pos = v + 1 THEN << >> ELSE Evs[v + 1].data
  BY <1>4, Zenon DEF StrElem, AtA
<1>6. ArrReads /\ ev = Evs[j] /\ IsSt /\ st.root = TRUE
  BY <1>1, <1>3, <1>5, Zenon DEF ArrReads, ArrRuns, ev, Evs
<1>7. /\ Stops(Items[k + 1]) <=> ~Fits(s, "bytes")
      /\ IsString(s) /\ Elem(Items[k + 1]) = Means(s, "bytes")
  <2>1. OnElem(k, l, j) /\ k < Good0
    BY <1>1
  <2>2. /\ Stops(Items[k + 1]) <=> Refuses(Evs[l + 1].kind)
                                   \/ (~Objects /\ Evs[l + 1].kind = "SBeg" /\ ~Fits(Items[k + 1].val, "bytes"))
        /\ Evs[l + 1].kind = "SBeg" <=> IsString(Items[k + 1].val)
    BY <2>1, ElemCases, Zenon
  <2>3. IsString(s)
    BY <1>4, <1>5, <2>2, Zenon
  <2>4. Elem(Items[k + 1]) = Means(s, "bytes")
    BY <1>4, <2>3 DEF Elem
  <2> QED  BY <1>1, <1>4, <1>5, <2>2, <2>3, <2>4, Zenon
<1> DEFINE raw == Strip(s, 1, 1)
<1> HIDE DEF raw
<1>8. s \in Seq(Chars) /\ Evs[v].loc.off = off /\ v \in Nat
  <2>1. ValueIs(Evs, v, j, s, off)
    BY <1>4
  <2>2. Evs[v].loc.off = off
    BY <2>1, ValueBegins
  <2> QED  BY <2>1, <2>2, Zenon DEF ValueIs
<1>9. st.strRaw = raw
  <2>1. (j = v + 1 /\ raw = << >>) \/ (j = v + 2 /\ Evs[v + 1].data = raw)
    BY <1>4, <1>7, StrEvents DEF raw
  <2>2. j = v + 2 => j # v + 1
    BY <1>8
  <2> QED  BY <1>1, <1>5, <2>1, <2>2
<1>10. ev.kind = "SEnd"
  BY <1>1, <1>4, <1>5, <1>6 DEF Ends
<1>11. ArrStr /\ Same0
  BY <1>6, <1>10, ArrActs, KindsApart
<1> DEFINE z == [st EXCEPT !.cap = @ \ {"str"}]
<1>12. OverElem(z)
  BY <1>5, <1>6 DEF OverElem, IsSt, StFields
<1>13. StrBytes(st.strRaw, LAMBDA w : Put(w, z, st.strLoc))
  <2> DEFINE A == Go(st) /\ Kept
             B == Go([st EXCEPT !.strRaw = ev.data]) /\ Kept
             C == StrBytes(st.strRaw, LAMBDA w : Put(w, z, st.strLoc))
  <2>1. TRUE /\ CASE "str" \notin st.cap -> A [] ev.kind = "SPar" /\ "str" \in st.cap -> B [] OTHER -> C
    BY <1>11, Zenon DEF ArrStr
  <2>2. "str" \in st.cap /\ ev.kind # "SPar"
    BY <1>5, <1>10
  <2> HIDE DEF A, B, C
  <2>3. C
    BY <2>1, <2>2
  <2> QED  BY <2>3 DEF C
<1> HIDE DEF z
<1> DEFINE beg == st.strLoc.off + 1
           dec == StrDecode(st.strRaw)
           grown == SubSeq(arena, 1, Slot) \o dec.data
           A == Put(Slice("buf", beg, beg + Len(st.strRaw)), z, st.strLoc) /\ UNCHANGED arena
           B == Stop("arg_arena", NoLoc) /\ UNCHANGED arena
           C == Stop("str", NoLoc) /\ UNCHANGED arena
           D == Put(Slice("arena", Slot, Slot + Len(dec.data)), z, st.strLoc) /\ arena' = grown
           esc == HasEsc(st.strRaw)
<1>14. TRUE /\ CASE ~esc -> A [] esc /\ ~call.hasArena -> B [] esc /\ call.hasArena /\ ~dec.ok -> C
                 [] OTHER -> D
  BY <1>13, Zenon DEF StrBytes
<1>15. /\ ~esc => A
       /\ esc /\ ~call.hasArena => B
       /\ esc /\ call.hasArena /\ ~dec.ok => C
       /\ esc /\ call.hasArena /\ dec.ok => D
  <2> HIDE DEF A, B, C, D, esc, dec
  <2> QED  BY <1>14
<1> DEFINE back == off + 1
           read == StrDecode(raw)
           b == SubSeq(arena, 1, Len(arena)) \o read.data
<1>16. /\ ~HasEsc(raw) => Fits(s, "bytes") /\ Holds(Slice("buf", back, back + Len(raw)), arena, Means(s, "bytes"))
       /\ HasEsc(raw) /\ (~call.hasArena \/ ~read.ok) => ~Fits(s, "bytes")
       /\ HasEsc(raw) /\ call.hasArena /\ read.ok =>
             /\ Fits(s, "bytes") /\ Grown(arena, b)
             /\ Holds(Slice("arena", Len(arena), Len(arena) + Len(read.data)), b, Means(s, "bytes"))
  <2>1. PICK a, typ : a = arena /\ typ = "bytes"
    OBVIOUS
  <2>2. a \in Seq(OutChars) /\ typ \in StrTypes
    BY <1>3, <2>1 DEF StrTypes
  <2>3. LET c == SubSeq(a, 1, Len(a)) \o read.data
        IN  /\ ~HasEsc(raw) => Fits(s, typ) /\ Holds(Slice("buf", back, back + Len(raw)), a, Means(s, typ))
            /\ HasEsc(raw) /\ (~call.hasArena \/ ~read.ok) => ~Fits(s, typ)
            /\ HasEsc(raw) /\ call.hasArena /\ read.ok =>
                  /\ Fits(s, typ) /\ Grown(a, c)
                  /\ Holds(Slice("arena", Len(a), Len(a) + Len(read.data)), c, Means(s, typ))
    BY <1>3, <1>4, <1>7, <1>8, <2>2, StrValue, Zenon DEF raw
  <2> QED  BY <2>1, <2>3, Zenon
<1>17. beg = back /\ dec = read /\ Slot = Len(arena) /\ grown = b /\ (esc <=> HasEsc(raw))
  BY <1>5, <1>8, <1>9, Zenon DEF Slot
<1>18. CASE ~esc
  <2> DEFINE x == Slice("buf", beg, beg + Len(st.strRaw))
  <2>1. Put(x, z, st.strLoc) /\ arena' = arena
    BY <1>15, <1>18, Zenon
  <2>2. x = Slice("buf", back, back + Len(raw))
    BY <1>9, <1>17, Zenon
  <2>3. Fits(s, "bytes") /\ Holds(x, arena', Means(s, "bytes")) /\ Grown(arena, arena')
    <3>1. Grown(arena, arena')
      BY <1>3, <2>1, Unmoved
    <3> HIDE DEF x, back, beg, esc
    <3> QED  BY <1>16, <1>17, <1>18, <2>1, <2>2, <3>1, Zenon
  <2> HIDE DEF x
  <2>4. Putting(k, l, j, x, z)
    BY <1>1, <1>5, <1>7, <1>11, <1>12, <2>3, Zenon DEF Putting
  <2> QED  BY <2>1, <2>4, PutStep
<1>19. CASE esc /\ (~call.hasArena \/ ~dec.ok)
  <2>1. (Stop("arg_arena", NoLoc) \/ Stop("str", NoLoc)) /\ arena' = arena
    BY <1>15, <1>19, Zenon
  <2>2. Failed("arg_arena") /\ Failed("str") /\ Grown(arena, arena')
    BY <1>3, <2>1, Causes, Unmoved
  <2>3. Halts
    BY <1>11, <2>1, <2>2, StopHalts
  <2>4. ~Fits(s, "bytes")
    <3> HIDE DEF dec, read, esc
    <3> QED  BY <1>16, <1>17, <1>19, Zenon
  <2> QED  BY <1>3, <1>7, <2>3, <2>4, Zenon DEF HaltedElem
<1>20. CASE esc /\ call.hasArena /\ dec.ok
  <2> DEFINE x == Slice("arena", Slot, Slot + Len(dec.data))
  <2>1. Put(x, z, st.strLoc) /\ arena' = grown
    BY <1>15, <1>20, Zenon
  <2>2. x = Slice("arena", Len(arena), Len(arena) + Len(read.data)) /\ arena' = b
    BY <1>17, <2>1, Zenon
  <2>3. Fits(s, "bytes") /\ Holds(x, arena', Means(s, "bytes")) /\ Grown(arena, arena')
    <3> HIDE DEF x, dec, read, esc, b
    <3> QED  BY <1>16, <1>17, <1>20, <2>2, Zenon
  <2> HIDE DEF x
  <2>4. Putting(k, l, j, x, z)
    BY <1>1, <1>5, <1>7, <1>11, <1>12, <2>3, Zenon DEF Putting
  <2> QED  BY <2>1, <2>4, PutStep
<1> QED  BY <1>18, <1>19, <1>20

\* Where FldArrObj and FldArrScalar may be in element k + 1.
InsideElem(k, l, j) == InElem(l + 1) /\ (k < Good0 => pos <= j)
WhereElem(k, l, j) ==
    \/ AtElem(l)
    \/ k < Len(Items) /\ InsideElem(k, l, j)
    \/ k = Len(Items) /\ AtClose(l)

\* A step stays in the element, passes to the next, stops the call, or finds no
\* room for the element.
StaysElem(k, l, j) == Constant /\ WhereElem(k, l, j)'
MovesElem(k, l, j) == StaysElem(k, l, j) \/ PassesElem(k, j) \/ HaltedElem(k) \/ NoRoom(k)

LEMMA EnterElem ==
    \A k, l, j :
        OnElem(k, l, j) /\ k < Len(Items) /\ pos = l + 1 /\ Evs[l + 1].kind \in {"OBeg", "SBeg", "NBeg"}
        /\ Constant /\ InElem(l + 1)' => MovesElem(k, l, j)
<1> SUFFICES ASSUME NEW k, NEW l, NEW j, OnElem(k, l, j), k < Len(Items), pos = l + 1,
                    Evs[l + 1].kind \in {"OBeg", "SBeg", "NBeg"}, Constant, InElem(l + 1)'
             PROVE  MovesElem(k, l, j)
  OBVIOUS
<1>1. Items' = Items /\ Good0' = Good0 /\ pos' = pos + 1
  BY Framed, Zenon DEF Constant, Moved, Same0
<1>2. k < Good0 => pos' <= j
  <2>1. SUFFICES ASSUME k < Good0  PROVE pos' <= j
    OBVIOUS
  <2>2. Evs[l + 1].kind \notin {"True", "False", "Null"}
    OBVIOUS
  <2>3. l + 1 < j
    BY <2>1, <2>2, ElemCases, Zenon
  <2>4. l \in Nat /\ j \in Nat
    BY <2>1, ElemIs, Zenon DEF NextElem
  <2> QED  BY <1>1, <2>3, <2>4
<1>3. InsideElem(k, l, j)'
  BY <1>1, <1>2, Zenon DEF InsideElem
<1> QED  BY <1>1, <1>3, Zenon DEF MovesElem, StaysElem, WhereElem

LEMMA AtElemStep ==
    \A k, l, j : OnElem(k, l, j) /\ AtElem(l) /\ pos <= Len(Evs) /\ Next => MovesElem(k, l, j)
<1> SUFFICES ASSUME NEW k, NEW l, NEW j, OnElem(k, l, j), AtElem(l), pos <= Len(Evs), Next
             PROVE  MovesElem(k, l, j)
  OBVIOUS
<1>1. NextElem(k, l, j)
  BY ElemIs
<1>2. /\ l \in Nat /\ Len(Evs) \in Nat /\ k \in Nat /\ k <= Len(Items) /\ Len(Items) \in Nat
      /\ arena \in Seq(OutChars)
      /\ k < Good0 => k < Len(Items)
      /\ ~(k < Good0) /\ k < Len(Items) => Breaks(Evs, l + 1) /\ Stops(Items[k + 1])
  BY <1>1, Zenon DEF NextElem
<1>3. pos = l + 1 /\ l + 1 <= Len(Evs) /\ st.dep = 1 /\ ArrRuns
  BY Zenon DEF AtElem, AtA
<1>4. ArrReads /\ ev = Evs[l + 1]
  BY <1>3, Zenon DEF ArrReads, ev, Evs
<1>5. CASE k < Len(Items)
  <2>1. /\ Evs[l + 1].kind \in Beginnings
        /\ Evs[l + 1].kind \in {"True", "False", "Null"} => k < Good0
        /\ Refuses(Evs[l + 1].kind) => Stops(Items[k + 1])
    <3>1. CASE k < Good0
      <4>1. OnElem(k, l, j) /\ k < Good0
        BY <3>1
      <4> QED  BY <3>1, <4>1, ElemCases, Zenon
    <3>2. CASE ~(k < Good0)
      <4>1. Breaks(Evs, l + 1) /\ Stops(Items[k + 1]) /\ l + 1 \in Nat
        BY <1>2, <1>5, <3>2
      <4>2. Evs[l + 1].kind \in {"SBeg", "NBeg"} \union Composite
        BY <1>2, <1>3, <4>1, BreaksBegins
      <4>3. Evs[l + 1].kind \in Beginnings /\ Evs[l + 1].kind \notin {"True", "False", "Null"}
        BY <4>2, KindsApart
      <4> QED  BY <4>1, <4>3
    <3> QED  BY <3>1, <3>2
  <2>2. CASE Refuses(Evs[l + 1].kind)
    <3>1. Halts
      BY <1>2, <1>3, <1>4, <2>1, <2>2, RefusedHalts
    <3> QED  BY <1>5, <2>1, <2>2, <3>1, Zenon DEF MovesElem, HaltedElem
  <2>3. CASE ~Refuses(Evs[l + 1].kind) /\ Evs[l + 1].kind \in {"True", "False", "Null"}
    <3>1. PassesElem(k, j) \/ NoRoom(k)
      BY <2>1, <2>3, LiteralElem
    <3> QED  BY <3>1, Zenon DEF MovesElem
  <2>4. CASE ~Refuses(Evs[l + 1].kind) /\ Evs[l + 1].kind \notin {"True", "False", "Null"}
    <3>1. Evs[l + 1].kind \in {"OBeg", "SBeg", "NBeg"}
      BY <2>1, <2>4 DEF Refuses, Beginnings, Composite
    <3>2. Constant /\ InElem(l + 1)'
      BY <1>2, <1>3, <2>4, <3>1, ElemBegins
    <3> QED  BY <1>3, <1>5, <3>1, <3>2, EnterElem
  <2> QED  BY <2>2, <2>3, <2>4
<1>6. CASE ~(k < Len(Items))
  <2>1. k = Len(Items)
    <3>1. PICK m : m = Len(Items)
      OBVIOUS
    <3> QED  BY <1>2, <1>6, <3>1
  <2>2. Evs[l + 1].kind = "AEnd"
    <3>1. Len(Evs) = l \/ Evs[l + 1].kind = "AEnd"
      BY <1>1, <2>1, Zenon DEF NextElem
    <3> QED  BY <1>2, <1>3, <3>1
  <2>3. Constant /\ AtClose(l)'
    BY <1>2, <1>3, <2>2, ElemsClosed
  <2>4. Items' = Items
    BY <2>3, Framed, Zenon DEF Constant, Moved, Same0
  <2> QED  BY <2>1, <2>3, <2>4, Zenon DEF MovesElem, StaysElem, WhereElem
<1> QED  BY <1>5, <1>6

LEMMA InsideElemStep ==
    \A k, l, j :
        OnElem(k, l, j) /\ k < Len(Items) /\ InsideElem(k, l, j) /\ pos <= Len(Evs) /\ Next => MovesElem(k, l, j)
<1> SUFFICES ASSUME NEW k, NEW l, NEW j, OnElem(k, l, j), k < Len(Items), InsideElem(k, l, j),
                    pos <= Len(Evs), Next
             PROVE  MovesElem(k, l, j)
  OBVIOUS
<1>1. NextElem(k, l, j)
  BY ElemIs
<1>2. l \in Nat /\ Len(Evs) \in Nat /\ (~(k < Good0) => Breaks(Evs, l + 1))
  BY <1>1, Zenon DEF NextElem
<1>3. PICK v \in Nat : v = l + 1
  BY <1>2
<1> PICK p : p = pos
  OBVIOUS
<1>4. /\ Begun(Evs, v, p) /\ ArrRuns /\ p \in Nat /\ p <= Len(Evs)
      /\ k < Good0 => p <= j
      /\ InElem(v) /\ InElem(l + 1)
  BY <1>3, Zenon DEF InsideElem, InElem, StrElem, NumElem, ObjElem, AtA, ArrRuns
<1>5. Evs[v].kind \in {"SBeg", "NBeg", "OBeg"} /\ ~Refuses(Evs[v].kind)
  <2>1. \/ Evs[v].kind = "SBeg" /\ ~Objects
        \/ Evs[v].kind = "NBeg" /\ ~Objects
        \/ Evs[v].kind = "OBeg" /\ Objects
    BY <1>4, Zenon DEF InElem, StrElem, NumElem, ObjElem
  <2> QED  BY <2>1 DEF Refuses, Composite
<1>6. CASE Goes(Evs, v, p) /\ (k < Good0 => p < j)
  <2>1. Constant /\ InElem(v)'
    BY <1>4, <1>6, ElemGoes
  <2>2. Items' = Items /\ Good0' = Good0
    BY <2>1, Framed, Zenon DEF Constant, Moved, Same0
  <2>3. k < Good0 => pos' <= j
    <3>1. pos' = p + 1
      BY <2>1 DEF Constant, Moved
    <3>2. k < Good0 => j \in Nat
      BY <1>1, Zenon DEF NextElem
    <3> QED  BY <1>4, <1>6, <3>1, <3>2
  <2>4. InElem(l + 1)'
    BY <1>3, <2>1, Zenon DEF InElem, StrElem, NumElem, ObjElem, AtA
  <2>5. InsideElem(k, l, j)'
    BY <2>2, <2>3, <2>4, Zenon DEF InsideElem
  <2> QED  BY <2>1, <2>2, <2>5, Zenon DEF MovesElem, StaysElem, WhereElem
<1>7. CASE k < Good0 /\ p = j /\ Ends(Evs, v, p)
  <2>1. LastElem(k, l, j)
    BY <1>3, <1>5, <1>7, Zenon DEF LastElem
  <2>2. StrElem(l + 1) \/ NumElem(l + 1) \/ ObjElem(l + 1)
    BY <1>4, Zenon DEF InElem
  <2>3. PassesElem(k, j) \/ NoRoom(k) \/ HaltedElem(k)
    BY <2>1, <2>2, SpanElem, StrElemEnds, Zenon
  <2> QED  BY <2>3, Zenon DEF MovesElem
<1>8. (Goes(Evs, v, p) /\ (k < Good0 => p < j)) \/ (k < Good0 /\ p = j /\ Ends(Evs, v, p))
  <2>1. CASE k < Good0
    <3>1. PICK s, off : ValueIs(Evs, v, j, s, off)
      BY <1>1, <1>3, <2>1, Zenon DEF NextElem
    <3>2. (p < j => Goes(Evs, v, p)) /\ (p = j => Ends(Evs, v, p))
      BY <1>4, <2>1, <3>1, Within
    <3>3. p < j \/ p = j
      <4>1. j \in Nat
        BY <3>1, Zenon DEF ValueIs
      <4> QED  BY <1>4, <2>1, <4>1
    <3> QED  BY <2>1, <3>2, <3>3
  <2>2. CASE ~(k < Good0)
    <3>1. Goes(Evs, v, p)
      BY <1>2, <1>3, <1>4, <2>2, BrokenOff
    <3> QED  BY <2>2, <3>1
  <2> QED  BY <2>1, <2>2
<1> QED  BY <1>6, <1>7, <1>8

LEMMA WhereElemStep ==
    \A k, l, j : OnElem(k, l, j) /\ WhereElem(k, l, j) /\ pos <= Len(Evs) /\ Next => MovesElem(k, l, j)
<1> SUFFICES ASSUME NEW k, NEW l, NEW j, OnElem(k, l, j), WhereElem(k, l, j), pos <= Len(Evs), Next
             PROVE  MovesElem(k, l, j)
  OBVIOUS
<1>1. ~(k = Len(Items) /\ AtClose(l))
  <2>1. SUFFICES ASSUME k = Len(Items), AtClose(l)  PROVE FALSE
    OBVIOUS
  <2>2. (Len(Evs) = l \/ Len(Evs) = l + 1) /\ l \in Nat
    BY <2>1, ElemIs, Zenon DEF NextElem
  <2>3. pos = l + 2
    BY <2>1, Zenon DEF AtClose, AtA
  <2> QED  BY <2>2, <2>3
<1> QED  BY <1>1, AtElemStep, InsideElemStep, Zenon DEF WhereElem

\* What is left to do when the events are over.
LEMMA OverElems ==
    \A k, l, j :
        OnElem(k, l, j) /\ WhereElem(k, l, j) /\ pos > Len(Evs) =>
            /\ k = Before(Items)
            /\ feed.err = NoError <=> Whole /\ Before(Items) = Len(Items)
<1> SUFFICES ASSUME NEW k, NEW l, NEW j, OnElem(k, l, j), WhereElem(k, l, j), pos > Len(Evs)
             PROVE  /\ k = Before(Items)
                    /\ feed.err = NoError <=> Whole /\ Before(Items) = Len(Items)
  OBVIOUS
<1>1. NextElem(k, l, j) /\ Called /\ k <= Before(Items)
  BY ElemIs, Zenon DEF OnElem
<1>2. PICK b, n, m : b = Before(Items) /\ n = Len(Items) /\ m = Len(Evs)
  OBVIOUS
<1>3. b \in Nat /\ b <= n /\ n \in Nat /\ m \in Nat /\ l \in Nat /\ k \in Nat /\ k <= b /\ pos > m
  <2>1. Len(Evs) \in Nat /\ l \in Nat /\ k \in Nat
    BY <1>1, Zenon DEF NextElem
  <2> QED  BY <1>1, <1>2, <2>1, BeforeRange
<1>4. CASE k < n
  <2>1. AtElem(l) \/ InsideElem(k, l, j)
    BY <1>2, <1>3, <1>4 DEF WhereElem
  <2>2. ~(k < Good0)
    <3>1. SUFFICES ASSUME k < Good0  PROVE FALSE
      OBVIOUS
    <3>2. j \in Nat /\ l + 1 <= j /\ j <= m
      BY <1>1, <1>2, <3>1, Zenon DEF NextElem
    <3>3. pos = l + 1 \/ pos <= j
      BY <2>1, <3>1, Zenon DEF AtElem, AtA, InsideElem
    <3>4. pos \in Nat
      BY <2>1, Zenon DEF AtElem, InsideElem, InElem, StrElem, NumElem, ObjElem, AtA, ArrRuns
    <3> QED  BY <1>3, <3>2, <3>3, <3>4
  <2>3. Stops(Items[k + 1]) /\ feed.err # NoError
    BY <1>1, <1>2, <1>4, <2>2, Zenon DEF NextElem
  <2>4. b = k
    BY <1>1, <1>2, <1>3, <1>4, <2>3, StopsHere
  <2>5. b # n
    BY <1>3, <1>4, <2>4
  <2> QED  BY <1>2, <2>3, <2>4, <2>5
<1>5. CASE ~(k < n)
  <2>1. k = n /\ b = n
    BY <1>3, <1>5
  <2>2. \/ m = l /\ feed.err # NoError /\ ~Whole
        \/ m = l + 1 /\ (feed.err = NoError <=> Whole)
    BY <1>1, <1>2, <2>1, Zenon DEF NextElem
  <2>3. feed.err = NoError <=> Whole
    BY <2>2
  <2> QED  BY <1>2, <2>1, <2>3
<1> QED  BY <1>4, <1>5

-----------------------------------------------------------------------------
(* The invariant of FldArrObj and FldArrScalar.                            *)

\* As for FldObj.
FreshArr ==
    /\ Called /\ call.mode # "obj" /\ ret = NoRet /\ pos = 1 /\ st = State0
    /\ dst = [i \in 1 .. call.cap |-> Untouched] /\ arena \in Seq(OutChars)
ReadingArr == \E k, l, j : OnElem(k, l, j) /\ WhereElem(k, l, j)

\* k elements are in out: those before the first that stops the call, or as many
\* as there is room for.
DoneArr ==
    /\ Called /\ call.mode # "obj" /\ Rooted /\ ret # NoRet
    /\ \E k : /\ k \in Nat /\ Filled(k, dst, arena, st.n)
              /\ \/ k = Before(Items) /\ Failed(ret.cause) /\ ~(Whole /\ Before(Items) = Len(Items))
                 \/ k = call.cap /\ k < Before(Items) /\ ret.cause = "arg_cap"
                 \/ k = Before(Items) /\ ret.cause = NoCause /\ Whole /\ Before(Items) = Len(Items)
RefusedArr == Called /\ call.mode # "obj" /\ ~Rooted /\ ret # NoRet

ArrInv == call.mode # "obj" => FreshArr \/ ReadingArr \/ DoneArr \/ RefusedArr

LEMMA FreshArrActs == FreshArr /\ Next => Same0 /\ (NotRoot \/ ArrReturn)
<1> SUFFICES ASSUME FreshArr, Next  PROVE Same0 /\ (NotRoot \/ ArrReturn)
  OBVIOUS
<1>1. ret = NoRet /\ call.mode # "obj" /\ st = State0
  BY Zenon DEF FreshArr
<1>2. st.root = FALSE
  BY <1>1 DEF State0
<1>3. \A kinds : ~OnObj(kinds) /\ ~OnArr(kinds)
  BY <1>2, Zenon DEF OnObj, OnArr
<1>4. /\ ~ObjKey /\ ~ObjUnknown /\ ~ObjMismatch /\ ~ObjCapture /\ ~ObjLiteral /\ ~ObjStrEnd
      /\ ~ObjNumEnd /\ ~ObjPart /\ ~ObjClose
  BY <1>3, Zenon DEF ObjKey, ObjUnknown, ObjMismatch, ObjCapture, ObjLiteral, ObjStrEnd, ObjNumEnd,
                     ObjPart, ObjClose
<1>5. ~ObjInner
  BY <1>3, Zenon DEF ObjInner
<1>6. ~ArrMismatch /\ ~ArrCapture /\ ~ArrLiteral /\ ~ArrStr /\ ~ArrEnd /\ ~ArrInner
  BY <1>3, Zenon DEF ArrMismatch, ArrCapture, ArrLiteral, ArrStr, ArrEnd, ArrInner
<1>7. ~ObjReturn
  BY <1>1, Zenon DEF ObjReturn
<1> QED  BY <1>4, <1>5, <1>6, <1>7, Zenon DEF Next, Same0

\* The opening bracket, or what stands in its place.
LEMMA RootArrStep == FreshArr /\ NotRoot /\ Same0 => ReadingArr' \/ RefusedArr'
<1> SUFFICES ASSUME FreshArr, NotRoot, Same0  PROVE ReadingArr' \/ RefusedArr'
  OBVIOUS
<1>1. /\ Called /\ call.mode # "obj" /\ ret = NoRet /\ pos = 1 /\ st = State0
      /\ dst = [i \in 1 .. call.cap |-> Untouched] /\ arena \in Seq(OutChars)
  BY Zenon DEF FreshArr
<1> DEFINE A == Go([st EXCEPT !.root = TRUE, !.dep = 1]) /\ Kept
           B == Stop("want_abeg", ev.loc) /\ UNCHANGED arena
<1>2. /\ pos <= Len(feed.evs) /\ ev.kind \in Beginnings
      /\ IF ev.kind = "ABeg" THEN A ELSE B
  <2>1. /\ Got({"obj", "arrobj", "arrscalar"}, Beginnings)
        /\ LET first == IF call.mode = "obj" THEN "OBeg" ELSE "ABeg"
           IN  IF ev.kind = first THEN Go([st EXCEPT !.root = TRUE, !.dep = 1]) /\ Kept
               ELSE /\ Stop(IF call.mode = "obj" THEN "want_obeg" ELSE "want_abeg", ev.loc)
                    /\ UNCHANGED arena
    BY Zenon DEF NotRoot
  <2>2. IF ev.kind = "ABeg" THEN A ELSE B
    BY <1>1, <2>1, Zenon
  <2> QED  BY <2>1, <2>2, Zenon DEF Got
<1> HIDE DEF A, B
<1>3. Evs[1] = ev /\ 1 <= Len(Evs) /\ Len(Evs) \in Nat
  BY <1>1, <1>2, FeedIs, Zenon DEF Evs, ev
<1>4. Evs # << >>
  BY <1>3
<1>5. Rooted <=> ev.kind = "ABeg"
  <2>1. Root(call).beg = "ABeg"
    BY <1>1 DEF Root
  <2> QED  BY <1>1, <1>3, <1>4, <2>1, FeedIs, Zenon
<1>6. /\ Called' = Called /\ Rooted' = Rooted /\ call' = call
  BY CallKept
<1>7. CASE ev.kind = "ABeg"
  <2>1. /\ st' = [st EXCEPT !.root = TRUE, !.dep = 1] /\ pos' = pos + 1 /\ ret' = ret
        /\ dst' = dst /\ arena' = arena
    BY <1>2, <1>7, Zenon DEF A, Go, Kept
  <2>2. /\ IsSt' /\ st'.root = TRUE /\ st'.dep = 1 /\ st'.cap = {} /\ st'.n = 0
    BY <1>1, <2>1 DEF IsSt, StFields, State0
  <2>3. ArrRuns'
    <3>1. pos' \in Nat
      BY <1>1, <2>1
    <3>2. Evs' = Evs /\ NoRet' = NoRet
      BY CallKept DEF NoRet, NoLoc
    <3>3. call.mode \in {"arrobj", "arrscalar"}
      <4>1. call.mode \in {"obj", "arrobj", "arrscalar"}
        BY <1>1, CallIs
      <4> QED  BY <1>1, <4>1
    <3> QED  BY <1>1, <1>3, <1>6, <2>1, <2>2, <3>1, <3>2, <3>3, Zenon DEF ArrRuns
  <2>4. AtElem(1)'
    <3>1. pos' = 1 + 1
      BY <1>1, <2>1
    <3> QED  BY <2>2, <2>3, <3>1, Zenon DEF AtElem, AtA
  <2>5. Rooted
    BY <1>5, <1>7
  <2>6. Filled(0, dst', arena', st'.n)
    <3>1. PICK D, a, n : D = dst' /\ a = arena' /\ n = st'.n
      OBVIOUS
    <3>2. D = [i \in 1 .. call.cap |-> Untouched] /\ a \in Seq(OutChars) /\ n = 0
      BY <1>1, <2>1, <2>2, <3>1, Zenon
    <3>3. Filled(0, D, a, 0)
      BY <1>1, <3>2, FilledFirst
    <3> QED  BY <3>1, <3>2, <3>3
  <2>7. 0 \in 0 .. Good0 /\ 0 <= Before(Items) /\ LastAt[0] = 1
    <3>1. PICK g, b, n : g = Good0 /\ b = Before(Items) /\ n = Len(Items)
      OBVIOUS
    <3>2. g \in 0 .. n /\ b \in Nat /\ n \in Nat /\ LastAt[0] = 1
      BY <1>1, <2>5, <3>1, ItemEvents, BeforeRange
    <3> QED  BY <3>1, <3>2
  <2>8. PICK j : j = LastAt[0 + 1]
    OBVIOUS
  <2>9. ReadyElem(0, 1, j)
    BY <1>1, <2>5, <2>6, <2>7, <2>8, Zenon DEF ReadyElem
  <2>10. OnElem(0, 1, j)'
    BY <2>9, OnElemGoes
  <2>11. WhereElem(0, 1, j)'
    BY <2>4, Zenon DEF WhereElem
  <2> QED  BY <2>10, <2>11, Zenon DEF ReadingArr
<1>8. CASE ev.kind # "ABeg"
  <2>1. ret' = Returned("want_abeg", ev.loc, 0)
    BY <1>2, <1>8, Zenon DEF B, Stop
  <2>2. ret'.cause # "none" /\ NoRet'.cause = "none"
    BY <2>1 DEF NoRet, Returned
  <2>3. ret' # NoRet'
    BY <2>2
  <2> QED  BY <1>1, <1>5, <1>6, <1>8, <2>3, Zenon DEF RefusedArr
<1> QED  BY <1>7, <1>8

\* The text ends before there is anything.
LEMMA EmptyArrStep == FreshArr /\ ArrReturn /\ Same0 => RefusedArr'
<1> SUFFICES ASSUME FreshArr, ArrReturn, Same0  PROVE RefusedArr'
  OBVIOUS
<1>1. Called /\ call.mode # "obj" /\ pos = 1
  BY Zenon DEF FreshArr
<1>2. Len(Evs) \in Nat /\ ~(1 <= Len(Evs))
  <2>1. pos > Len(Evs)
    BY Zenon DEF ArrReturn, Evs
  <2> QED  BY <1>1, <2>1, FeedIs
<1>3. Evs = << >>
  <2>1. Evs \in Seq(FeedEvents)
    BY <1>1, FeedIs
  <2> QED  BY <1>2, <2>1
<1>4. ~Rooted /\ feed.err.cause \notin {"missing", "none"}
  BY <1>1, <1>3, FeedIs
<1>5. ret' = Returned(feed.err.cause, feed.err.loc, 0)
  BY Zenon DEF ArrReturn
<1>6. ret' # NoRet'
  <2>1. ret'.cause # "none" /\ NoRet'.cause = "none"
    BY <1>4, <1>5 DEF NoRet, Returned
  <2> QED  BY <2>1
<1>7. Called' = Called /\ Rooted' = Rooted /\ call' = call
  BY CallKept
<1> QED  BY <1>1, <1>4, <1>6, <1>7, Zenon DEF RefusedArr

LEMMA EndArrActs == ArrRuns /\ pos > Len(Evs) /\ Next => Same0 /\ ArrReturn
<1> SUFFICES ASSUME ArrRuns, pos > Len(Evs), Next  PROVE Same0 /\ ArrReturn
  OBVIOUS
<1>1. call.mode # "obj"
  BY Zenon DEF ArrRuns
<1>2. ~(pos <= Len(feed.evs))
  <2>1. pos \in Nat /\ Len(Evs) \in Nat
    BY Zenon DEF ArrRuns
  <2> QED  BY <2>1 DEF Evs
<1>3. \A modes, kinds : ~Got(modes, kinds)
  BY <1>2, Zenon DEF Got
<1>4. \A kinds : ~OnObj(kinds) /\ ~OnArr(kinds)
  BY <1>3, Zenon DEF OnObj, OnArr
<1>5. /\ ~ObjKey /\ ~ObjUnknown /\ ~ObjMismatch /\ ~ObjCapture /\ ~ObjLiteral /\ ~ObjStrEnd
      /\ ~ObjNumEnd /\ ~ObjPart /\ ~ObjClose /\ ~ObjInner
  BY <1>4, Zenon DEF ObjKey, ObjUnknown, ObjMismatch, ObjCapture, ObjLiteral, ObjStrEnd, ObjNumEnd,
                     ObjPart, ObjClose, ObjInner
<1>6. ~ArrMismatch /\ ~ArrCapture /\ ~ArrLiteral /\ ~ArrStr /\ ~ArrEnd /\ ~ArrInner
  BY <1>4, Zenon DEF ArrMismatch, ArrCapture, ArrLiteral, ArrStr, ArrEnd, ArrInner
<1>7. ~ObjReturn /\ ~NotRoot
  BY <1>1, <1>3, Zenon DEF ObjReturn, NotRoot
<1> QED  BY <1>5, <1>6, <1>7, Zenon DEF Next, Same0

LEMMA StaysElems == \A k, l, j : OnElem(k, l, j) /\ StaysElem(k, l, j) => ReadingArr'
<1> SUFFICES ASSUME NEW k, NEW l, NEW j, OnElem(k, l, j), StaysElem(k, l, j)
             PROVE  ReadingArr'
  OBVIOUS
<1>1. Constant /\ WhereElem(k, l, j)'
  BY Zenon DEF StaysElem
<1>2. dst' = dst /\ arena' = arena /\ st'.n = st.n /\ Same0
  BY <1>1, Zenon DEF Constant, Moved, Same0
<1>3. Filled(k, dst', arena', st'.n)
  <2>1. Filled(k, dst, arena, st.n)
    BY Zenon DEF OnElem
  <2> QED  BY <1>2, <2>1
<1>4. ReadyElem(k, l, j)
  BY <1>3, Zenon DEF OnElem, ReadyElem
<1>5. OnElem(k, l, j)'
  BY <1>2, <1>4, OnElemGoes
<1> QED  BY <1>1, <1>5, Zenon DEF ReadingArr

LEMMA PassesElems == \A k, l, j : OnElem(k, l, j) /\ PassesElem(k, j) => ReadingArr'
<1> SUFFICES ASSUME NEW k, NEW l, NEW j, OnElem(k, l, j), PassesElem(k, j)
             PROVE  ReadingArr'
  OBVIOUS
<1>1. /\ Same0 /\ k < Good0 /\ ~Stops(Items[k + 1]) /\ Filled(k + 1, dst', arena', st'.n) /\ AtElem(j)'
  BY Zenon DEF PassesElem
<1>2. Called /\ Rooted /\ call.mode # "obj" /\ k <= Before(Items) /\ k \in 0 .. Good0
  BY Zenon DEF OnElem
<1>3. j = LastAt[k + 1]
  BY <1>1, Zenon DEF OnElem
<1>4. PICK m, g, n : m = k + 1 /\ g = Good0 /\ n = Len(Items)
  OBVIOUS
<1>5. g \in 0 .. n /\ n \in Nat
  BY <1>2, <1>4, ItemEvents, BeforeRange
<1>6. k \in Nat /\ m \in 0 .. g /\ k < n
  BY <1>1, <1>2, <1>4, <1>5
<1>7. m <= Before(Items)
  <2>1. k + 1 <= Before(Items)
    BY <1>1, <1>2, <1>4, <1>6, StopsLater
  <2> QED  BY <1>4, <2>1
<1>8. PICK j2 : j2 = LastAt[m + 1]
  OBVIOUS
<1>9. ReadyElem(m, j, j2)
  <2>1. m \in 0 .. Good0 /\ Filled(m, dst', arena', st'.n) /\ j = LastAt[m]
    BY <1>1, <1>3, <1>4, <1>6
  <2> QED  BY <1>2, <1>7, <1>8, <2>1, Zenon DEF ReadyElem
<1>10. OnElem(m, j, j2)'
  BY <1>1, <1>9, OnElemGoes
<1>11. WhereElem(m, j, j2)'
  BY <1>1, Zenon DEF WhereElem
<1> QED  BY <1>10, <1>11, Zenon DEF ReadingArr

\* The call returns with k elements in out.
ReturnsArr(k) ==
    /\ Called /\ call.mode # "obj" /\ Rooted /\ k \in Nat /\ Filled(k, dst', arena', st'.n)
    /\ ret'.cause # "none"
    /\ \/ k = Before(Items) /\ Failed(ret'.cause) /\ ~(Whole /\ Before(Items) = Len(Items))
       \/ k = call.cap /\ k < Before(Items) /\ ret'.cause = "arg_cap"
       \/ k = Before(Items) /\ ret'.cause = NoCause /\ Whole /\ Before(Items) = Len(Items)

LEMMA ReturnsDoneArr == \A k : Same0 /\ ReturnsArr(k) => DoneArr'
<1> SUFFICES ASSUME NEW k, Same0, ReturnsArr(k)  PROVE DoneArr'
  OBVIOUS
<1>1. /\ Called /\ call.mode # "obj" /\ Rooted /\ k \in Nat /\ Filled(k, dst', arena', st'.n)
      /\ ret'.cause # "none"
      /\ \/ k = Before(Items) /\ Failed(ret'.cause) /\ ~(Whole /\ Before(Items) = Len(Items))
         \/ k = call.cap /\ k < Before(Items) /\ ret'.cause = "arg_cap"
         \/ k = Before(Items) /\ ret'.cause = NoCause /\ Whole /\ Before(Items) = Len(Items)
  BY Zenon DEF ReturnsArr
<1>2. /\ Called' = Called /\ Rooted' = Rooted /\ Whole' = Whole /\ Before(Items)' = Before(Items)
      /\ Items' = Items /\ call' = call
  BY CallKept
<1>3. Filled(k, dst, arena, st.n)'
  <2>1. PICK D, a, n : D = dst' /\ a = arena' /\ n = st'.n
    OBVIOUS
  <2>2. Filled(k, D, a, n)
    BY <1>1, <2>1
  <2> QED  BY <2>1, <2>2, FilledOn
<1>4. ret' # NoRet'
  <2>1. NoRet'.cause = "none"
    BY DEF NoRet
  <2> QED  BY <1>1, <2>1
<1>5. Failed(ret'.cause) => Failed(ret.cause)'
  BY Zenon DEF Failed, NoCause
<1>6. NoCause' = NoCause
  BY Zenon DEF NoCause
<1>7. \/ k = Before(Items)' /\ Failed(ret.cause)' /\ ~(Whole' /\ Before(Items)' = Len(Items)')
      \/ k = call'.cap /\ k < Before(Items)' /\ ret'.cause = "arg_cap"
      \/ k = Before(Items)' /\ ret'.cause = NoCause' /\ Whole' /\ Before(Items)' = Len(Items)'
  BY <1>1, <1>2, <1>5, <1>6, Zenon
<1> QED  BY <1>1, <1>2, <1>3, <1>4, <1>7, Zenon DEF DoneArr

LEMMA HaltedElems == \A k, l, j : OnElem(k, l, j) /\ (HaltedElem(k) \/ NoRoom(k)) => DoneArr'
<1> SUFFICES ASSUME NEW k, NEW l, NEW j, OnElem(k, l, j), HaltedElem(k) \/ NoRoom(k)
             PROVE  DoneArr'
  OBVIOUS
<1>1. Halts /\ k < Len(Items)
  BY Zenon DEF HaltedElem, NoRoom
<1>2. Failed(ret'.cause) /\ Same0 /\ st' = st /\ dst' = dst /\ Grown(arena, arena')
  BY <1>1, Zenon DEF Halts
<1>3. Called /\ Rooted /\ call.mode # "obj" /\ k <= Before(Items) /\ Filled(k, dst, arena, st.n)
  BY Zenon DEF OnElem
<1>4. k \in Nat
  BY ElemIs, Zenon DEF NextElem
<1>5. Filled(k, dst', arena', st'.n)
  <2>1. PICK D, a, b, n : D = dst /\ a = arena /\ b = arena' /\ n = st.n
    OBVIOUS
  <2>2. Filled(k, D, b, n)
    <3>1. Filled(k, D, a, n) /\ Grown(a, b)
      BY <1>2, <1>3, <2>1
    <3> QED  BY <3>1, FilledGrown
  <2>3. D = dst' /\ b = arena' /\ n = st'.n
    BY <1>2, <2>1
  <2> QED  BY <2>2, <2>3
<1>6. ret'.cause # "none"
  BY <1>2 DEF Failed
<1>7. CASE HaltedElem(k)
  <2>1. Stops(Items[k + 1])
    BY <1>7, Zenon DEF HaltedElem
  <2>2. k = Before(Items)
    BY <1>1, <1>3, <1>4, <2>1, StopsHere
  <2>3. ~(Whole /\ Before(Items) = Len(Items))
    <3>1. PICK n : n = Len(Items)
      OBVIOUS
    <3>2. n \in Nat
      BY <1>3, <3>1, BeforeRange
    <3>3. k # n
      BY <1>1, <1>4, <3>1, <3>2
    <3> QED  BY <2>2, <3>1, <3>3
  <2>4. ReturnsArr(k)
    BY <1>2, <1>3, <1>4, <1>5, <1>6, <2>2, <2>3, Zenon DEF ReturnsArr
  <2> QED  BY <1>2, <2>4, ReturnsDoneArr
<1>8. CASE NoRoom(k)
  <2>1. ret'.cause = "arg_cap" /\ ~Stops(Items[k + 1]) /\ k = call.cap
    BY <1>8, Zenon DEF NoRoom
  <2>2. k < Before(Items)
    <3>1. k + 1 <= Before(Items)
      BY <1>1, <1>3, <1>4, <2>1, StopsLater
    <3>2. PICK b \in Nat : b = Before(Items)
      BY <1>3, BeforeRange
    <3> QED  BY <1>4, <3>1, <3>2
  <2>3. ReturnsArr(k)
    BY <1>3, <1>4, <1>5, <1>6, <2>1, <2>2, Zenon DEF ReturnsArr
  <2> QED  BY <1>2, <2>3, ReturnsDoneArr
<1> QED  BY <1>7, <1>8

LEMMA OverDoneArr ==
    \A k, l, j : OnElem(k, l, j) /\ WhereElem(k, l, j) /\ pos > Len(Evs) /\ Same0 /\ ArrReturn => DoneArr'
<1> SUFFICES ASSUME NEW k, NEW l, NEW j, OnElem(k, l, j), WhereElem(k, l, j), pos > Len(Evs), Same0,
                    ArrReturn
             PROVE  DoneArr'
  OBVIOUS
<1>1. Called /\ Rooted /\ call.mode # "obj" /\ Filled(k, dst, arena, st.n)
  BY Zenon DEF OnElem
<1>2. k = Before(Items) /\ (feed.err = NoError <=> Whole /\ Before(Items) = Len(Items))
  BY OverElems
<1>3. k \in Nat
  BY ElemIs, Zenon DEF NextElem
<1>4. /\ ret' = Returned(feed.err.cause, feed.err.loc, 0)
      /\ st' = st /\ dst' = dst /\ arena' = arena
  BY Zenon DEF ArrReturn
<1>5. ret'.cause = feed.err.cause
  BY <1>4 DEF Returned
<1>6. feed.err.cause \notin {"missing", "none"} /\ (feed.err.cause = NoCause <=> feed.err = NoError)
  BY <1>1, FeedIs
<1>7. Filled(k, dst', arena', st'.n)
  BY <1>1, <1>4
<1>8. CASE feed.err = NoError
  <2>1. ReturnsArr(k)
    BY <1>1, <1>2, <1>3, <1>5, <1>6, <1>7, <1>8 DEF ReturnsArr
  <2> QED  BY <2>1, ReturnsDoneArr
<1>9. CASE feed.err # NoError
  <2>1. Failed(ret'.cause) /\ ret'.cause # "none"
    BY <1>5, <1>6, <1>9 DEF Failed
  <2>2. ~(Whole /\ Before(Items) = Len(Items))
    BY <1>2, <1>9
  <2>3. ReturnsArr(k)
    BY <1>1, <1>2, <1>3, <1>7, <2>1, <2>2, Zenon DEF ReturnsArr
  <2> QED  BY <2>3, ReturnsDoneArr
<1> QED  BY <1>8, <1>9

LEMMA WhereElemRuns == \A k, l, j : WhereElem(k, l, j) => ArrRuns
<1> SUFFICES ASSUME NEW k, NEW l, NEW j, WhereElem(k, l, j)  PROVE ArrRuns
  OBVIOUS
<1>1. InElem(l + 1) => ArrRuns
  BY Zenon DEF InElem, StrElem, NumElem, ObjElem, AtA
<1> QED  BY <1>1, Zenon DEF WhereElem, InsideElem, AtElem, AtClose, AtA

LEMMA ReadingArrStep == ReadingArr /\ Next => ReadingArr' \/ DoneArr'
<1> SUFFICES ASSUME ReadingArr, Next  PROVE ReadingArr' \/ DoneArr'
  OBVIOUS
<1>1. PICK k, l, j : OnElem(k, l, j) /\ WhereElem(k, l, j)
  BY Zenon DEF ReadingArr
<1>2. ArrRuns
  BY <1>1, WhereElemRuns
<1>3. pos \in Nat /\ Len(Evs) \in Nat
  BY <1>2, Zenon DEF ArrRuns
<1>4. CASE pos <= Len(Evs)
  <2>1. MovesElem(k, l, j)
    BY <1>1, <1>4, WhereElemStep
  <2> QED  BY <1>1, <2>1, StaysElems, PassesElems, HaltedElems, Zenon DEF MovesElem
<1>5. CASE pos > Len(Evs)
  <2>1. Same0 /\ ArrReturn
    BY <1>2, <1>5, EndArrActs
  <2> QED  BY <1>1, <1>5, <2>1, OverDoneArr
<1> QED  BY <1>3, <1>4, <1>5

LEMMA ArrStep == ArrInv /\ Next => ArrInv'
<1> SUFFICES ASSUME ArrInv, Next, call'.mode # "obj"
             PROVE  FreshArr' \/ ReadingArr' \/ DoneArr' \/ RefusedArr'
  BY Zenon DEF ArrInv
<1>1. call' = call
  BY Zenon DEF Next
<1>2. FreshArr \/ ReadingArr \/ DoneArr \/ RefusedArr
  BY <1>1, Zenon DEF ArrInv
<1>3. CASE FreshArr
  BY <1>3, FreshArrActs, RootArrStep, EmptyArrStep
<1>4. CASE ReadingArr
  BY <1>4, ReadingArrStep
<1>5. CASE DoneArr \/ RefusedArr
  <2>1. ret # NoRet
    BY <1>5, Zenon DEF DoneArr, RefusedArr
  <2> QED  BY <2>1, OverActs
<1> QED  BY <1>2, <1>3, <1>4, <1>5

LEMMA ArrStutter == ArrInv /\ UNCHANGED vars => ArrInv'
<1> SUFFICES ASSUME ArrInv, UNCHANGED vars  PROVE ArrInv'
  OBVIOUS
<1>1. Same0 /\ st' = st /\ pos' = pos /\ dst' = dst /\ arena' = arena /\ ret' = ret
  BY Zenon DEF vars, Same0
<1>2. /\ Called' = Called /\ Rooted' = Rooted /\ Whole' = Whole /\ Before(Items)' = Before(Items)
      /\ Items' = Items /\ Evs' = Evs /\ Good0' = Good0 /\ call' = call
  BY <1>1, CallKept
<1>3. NoRet' = NoRet /\ NoCause' = NoCause
  BY DEF NoRet, NoLoc, NoCause
<1>4. \A k : Filled(k, dst, arena, st.n) => Filled(k, dst, arena, st.n)' /\ Filled(k, dst', arena', st'.n)
  <2>1. PICK D, a, n : D = dst /\ a = arena /\ n = st.n
    OBVIOUS
  <2>2. D = dst' /\ a = arena' /\ n = st'.n
    BY <1>1, <2>1
  <2>3. \A k : Filled(k, D, a, n) => Filled(k, dst, arena, st.n)'
    BY <1>1, <2>2, FilledOn
  <2> QED  BY <2>1, <2>2, <2>3
<1>5. FreshArr => FreshArr'
  BY <1>1, <1>2, <1>3 DEF FreshArr, State0, Untouched, Copy, NoLoc
<1>6. ReadingArr => ReadingArr'
  <2> SUFFICES ASSUME ReadingArr  PROVE ReadingArr'
    OBVIOUS
  <2>1. PICK k, l, j : OnElem(k, l, j) /\ WhereElem(k, l, j)
    BY Zenon DEF ReadingArr
  <2>2. OnElem(k, l, j)'
    <3>1. ReadyElem(k, l, j)
      BY <1>4, <2>1, Zenon DEF OnElem, ReadyElem
    <3> QED  BY <1>1, <3>1, OnElemGoes
  <2>3. \A p, d, c : AtA(p, d, c) => AtA(p, d, c)'
    BY <1>1, <1>2, <1>3, Zenon DEF AtA, ArrRuns, IsSt
  <2>4. AtElem(l) => AtElem(l)'
    BY <2>3, Zenon DEF AtElem
  <2>5. AtClose(l) => AtClose(l)'
    BY <2>3, Zenon DEF AtClose
  <2>6. InsideElem(k, l, j) => InsideElem(k, l, j)'
    BY <1>1, <1>2, <1>3 DEF InsideElem, InElem, StrElem, NumElem, ObjElem, AtA, ArrRuns, IsSt, Objects
  <2>7. WhereElem(k, l, j)'
    BY <1>2, <2>1, <2>4, <2>5, <2>6, Zenon DEF WhereElem
  <2> QED  BY <2>2, <2>7, Zenon DEF ReadingArr
<1>7. DoneArr => DoneArr'
  <2> SUFFICES ASSUME DoneArr  PROVE DoneArr'
    OBVIOUS
  <2>1. PICK k : /\ k \in Nat /\ Filled(k, dst, arena, st.n)
                 /\ \/ k = Before(Items) /\ Failed(ret.cause) /\ ~(Whole /\ Before(Items) = Len(Items))
                    \/ k = call.cap /\ k < Before(Items) /\ ret.cause = "arg_cap"
                    \/ k = Before(Items) /\ ret.cause = NoCause /\ Whole /\ Before(Items) = Len(Items)
    BY Zenon DEF DoneArr
  <2>2. ret'.cause = ret.cause /\ ret.cause # "none"
    <3>1. NoCause # "none" /\ "arg_cap" # "none"
      BY DEF NoCause
    <3> QED  BY <1>1, <2>1, <3>1 DEF Failed
  <2>3. ReturnsArr(k)
    BY <1>4, <2>1, <2>2, Zenon DEF DoneArr, ReturnsArr
  <2> QED  BY <1>1, <2>3, ReturnsDoneArr
<1>8. RefusedArr => RefusedArr'
  BY <1>1, <1>2, <1>3, Zenon DEF RefusedArr
<1> QED  BY <1>2, <1>5, <1>6, <1>7, <1>8, Zenon DEF ArrInv

LEMMA ArrFirst == Init => ArrInv
<1> SUFFICES ASSUME Init, call.mode # "obj"  PROVE FreshArr
  BY Zenon DEF ArrInv
<1>1. Called
  BY Zenon DEF Init, Called
<1>2. arena \in Seq(OutChars)
  <2>1. arena \in Seq(Chars)
    BY <1>1, CallIs, Zenon DEF Init
  <2>2. Chars \subseteq OutChars
    BY DEF OutChars
  <2> QED  BY <2>1, <2>2
<1>3. dst = [i \in 1 .. call.cap |-> Untouched]
  BY Zenon DEF Init
<1> QED  BY <1>1, <1>2, <1>3, Zenon DEF Init, FreshArr

LEMMA ElementsHeld == DoneArr => ElementsStored
<1> SUFFICES ASSUME DoneArr  PROVE ElementsStored
  OBVIOUS
<1>1. Called /\ call.mode # "obj"
  BY Zenon DEF DoneArr
<1>2. PICK k : /\ k \in Nat /\ Filled(k, dst, arena, st.n)
               /\ \/ k = Before(Items) /\ Failed(ret.cause) /\ ~(Whole /\ Before(Items) = Len(Items))
                  \/ k = call.cap /\ k < Before(Items) /\ ret.cause = "arg_cap"
                  \/ k = Before(Items) /\ ret.cause = NoCause /\ Whole /\ Before(Items) = Len(Items)
  BY Zenon DEF DoneArr
<1>3. Len(dst) = call.cap /\ call.cap \in Nat /\ st.n = k /\ k <= call.cap
  BY <1>1, <1>2, FilledIs
<1>4. PICK b, n, c : b = Before(Items) /\ n = Len(Items) /\ c = call.cap
  OBVIOUS
<1>5. b \in Nat /\ n \in Nat /\ b <= n /\ c \in Nat /\ k <= c
  BY <1>1, <1>3, <1>4, BeforeRange
<1>6. NoCause # "arg_cap" /\ (Failed(ret.cause) => ret.cause # NoCause)
  BY DEF NoCause, Failed
<1>7. ASSUME NEW i \in 1 .. Len(dst)
      PROVE  IF i <= b
             THEN Content(dst[i]) = Means(Items[i].val, IF IsString(Items[i].val) THEN "bytes" ELSE "raw")
             ELSE dst[i] = Untouched
  <2>1. i \in 1 .. c /\ i \in Nat
    BY <1>3, <1>4, <1>5, <1>7
  <2>2. /\ i <= k => Holds(dst[i], arena, Elem(Items[i]))
        /\ ~(i <= k) => dst[i] = Untouched
    BY <1>2, <1>4, <2>1, Zenon DEF Filled
  <2>3. i <= b <=> i <= k
    BY <1>2, <1>4, <1>5, <2>1
  <2>4. PICK x : x = Elem(Items[i])
    OBVIOUS
  <2>5. i <= k => Content(dst[i]) = x
    <3>1. PICK w : w = dst[i]
      OBVIOUS
    <3>2. i <= k => /\ w.of \in {"buf", "copy", "arena"}
                    /\ w.of = "buf" => SubSeq(buf, w.from + 1, w.to) = x
                    /\ w.of = "copy" => w.data = x
                    /\ w.of = "arena" => SubSeq(arena, w.from + 1, w.to) = x
      BY <2>2, <2>4, <3>1, Zenon DEF Holds
    <3>3. i <= k => Content(w) = x
      BY <3>2 DEF Content
    <3> QED  BY <3>1, <3>3
  <2>6. i <= k => Content(dst[i]) = Means(Items[i].val, IF IsString(Items[i].val) THEN "bytes" ELSE "raw")
    BY <2>4, <2>5, Zenon DEF Elem
  <2> QED  BY <2>2, <2>3, <2>6, Zenon
<1>8. st.n = IF b < Len(dst) THEN b ELSE Len(dst)
  BY <1>2, <1>3, <1>4, <1>5
<1>9. ret.cause = NoCause <=> Whole /\ b = n /\ n <= Len(dst)
  BY <1>2, <1>3, <1>4, <1>5, <1>6
<1>10. b > Len(dst) => ret.cause = "arg_cap"
  BY <1>2, <1>3, <1>4, <1>5
<1> QED  BY <1>4, <1>7, <1>8, <1>9, <1>10, Zenon DEF ElementsStored

LEMMA ArrReturned == ArrInv => ElementsStored
<1> SUFFICES ASSUME ArrInv, ret # NoRet, call.mode # "obj", Rooted  PROVE DoneArr
  BY ElementsHeld, Zenon DEF ElementsStored
<1>1. ~FreshArr
  BY Zenon DEF FreshArr
<1>2. ~ReadingArr
  BY WhereElemRuns, Zenon DEF ReadingArr, ArrRuns
<1>3. ~RefusedArr
  BY Zenon DEF RefusedArr
<1> QED  BY <1>1, <1>2, <1>3, Zenon DEF ArrInv

\* Where FldArrObj and FldArrScalar are, what they have stored by then, and what
\* they return: for every text of items, every length of out, every arena.
THEOREM ArrInvariant == Spec => []ArrInv
<1>1. ArrInv /\ [Next]_vars => ArrInv'
  BY ArrStep, ArrStutter, Zenon
<1> QED  BY ArrFirst, <1>1, PTL DEF Spec

\* FldArrObj and FldArrScalar leave in out the elements before the first that
\* stops the call, as many as there is room for, in their order, count them, and
\* succeed exactly if these are all of the text's.
THEOREM ElementsAreStored == Spec => []ElementsStored
<1> QED  BY ArrInvariant, ArrReturned, PTL

-----------------------------------------------------------------------------
(* The arena.                                                              *)

\* A state of the handlers: what is captured of a string is text.
IsFed(s) == s = [x \in StFields |-> s[x]] /\ s.strRaw \in Seq(Chars)
ArenaInv == Called /\ pos \in Nat \ {0} /\ arena \in Seq(OutChars) /\ IsFed(st)

\* A step that keeps it so.
Sane == IsFed(st') /\ (pos' = pos \/ pos' = pos + 1)

\* The string captured has been decoded to the end of the arena.
Decodes ==
    LET dec == StrDecode(st.strRaw)
    IN  dec.ok /\ arena' = SubSeq(arena, 1, Slot) \o dec.data

LEMMA DecodeText ==
    ASSUME NEW raw \in Seq(Chars), StrDecode(raw).ok
    PROVE  StrDecode(raw).data \in Seq(OutChars)
<1>1. PICK g : IsDecoding(raw, g) /\ StrDecode(raw) = g[1]
  BY StrDecodeIs
<1>2. Len(raw) \in Nat
  OBVIOUS
<1>3. g[1] \in Decoded
  <2>1. 1 \in 1 .. Len(raw) + 1
    BY <1>2
  <2> QED  BY <1>1, <2>1 DEF IsDecoding
<1> QED  BY <1>1, <1>3 DEF Decoded

LEMMA DecodesGrown == ArenaInv /\ (arena' = arena \/ Decodes) => Grown(arena, arena')
<1> SUFFICES ASSUME ArenaInv, arena' = arena \/ Decodes  PROVE Grown(arena, arena')
  OBVIOUS
<1>1. arena \in Seq(OutChars) /\ st.strRaw \in Seq(Chars)
  BY Zenon DEF ArenaInv, IsFed
<1>2. CASE arena' = arena
  BY <1>1, <1>2, Unmoved
<1>3. CASE Decodes
  <2>1. PICK dec : dec = StrDecode(st.strRaw)
    OBVIOUS
  <2>2. dec.ok /\ arena' = SubSeq(arena, 1, Len(arena)) \o dec.data
    BY <1>3, <2>1, Zenon DEF Decodes, Slot
  <2>3. dec.data \in Seq(OutChars)
    BY <1>1, <2>1, <2>2, DecodeText
  <2>4. SubSeq(arena, 1, Len(arena)) = arena
    BY <1>1
  <2> QED  BY <2>2, <2>3, <2>4 DEF Grown
<1> QED  BY <1>2, <1>3

LEMMA GoFed == \A s : IsFed(s) /\ Go(s) => Sane
BY Zenon DEF Go, Sane

LEMMA StopFed == \A c, l : IsFed(st) /\ Stop(c, l) => Sane
<1> SUFFICES ASSUME NEW c, NEW l, IsFed(st), Stop(c, l)  PROVE Sane
  OBVIOUS
<1>1. st' = st /\ pos' = pos
  BY Zenon DEF Stop
<1> QED  BY <1>1, Zenon DEF Sane

LEMMA StoreFed == \A v, s : IsFed(st) /\ IsFed(s) /\ Store(v, s) => Sane
<1> SUFFICES ASSUME NEW v, NEW s, IsFed(st), IsFed(s), Store(v, s)  PROVE Sane
  OBVIOUS
<1>1. Go([s EXCEPT !.seen = @ \union Seen(st.cur), !.cur = 0]) \/ Stop("bad_dst", NoLoc)
  BY Zenon DEF Store
<1>2. IsFed([s EXCEPT !.seen = @ \union Seen(st.cur), !.cur = 0])
  BY DEF IsFed, StFields
<1> QED  BY <1>1, <1>2, GoFed, StopFed, Zenon

LEMMA PutFed == \A v, s, l : IsFed(st) /\ IsFed(s) /\ Put(v, s, l) => Sane
<1> SUFFICES ASSUME NEW v, NEW s, NEW l, IsFed(st), IsFed(s), Put(v, s, l)  PROVE Sane
  OBVIOUS
<1>1. Go([s EXCEPT !.n = @ + 1]) \/ Stop("arg_cap", l)
  BY Zenon DEF Put
<1>2. IsFed([s EXCEPT !.n = @ + 1])
  BY DEF IsFed, StFields
<1> QED  BY <1>1, <1>2, GoFed, StopFed, Zenon

\* The data of an event.
LEMMA DataIs == ArenaInv /\ pos <= Len(Evs) => ev.data \in Seq(Chars)
<1> SUFFICES ASSUME ArenaInv, pos <= Len(Evs)  PROVE ev.data \in Seq(Chars)
  OBVIOUS
<1>1. Evs[pos] \in FeedEvents
  <2>1. Called /\ pos \in Nat \ {0}
    BY Zenon DEF ArenaInv
  <2>2. pos \in 1 .. Len(Evs)
    BY <2>1, FeedIs
  <2> QED  BY <2>1, <2>2, FeedIs
<1>2. Evs[pos].data \in Seq(Chars)
  BY <1>1 DEF FeedEvents
<1> QED  BY <1>2, Zenon DEF ev, Evs

\* What a string, or a value taken as it stands, sets when it begins.
LEMMA FedStr ==
    \A s, k, l : IsFed(s) => IsFed([s EXCEPT !.cap = k, !.strRaw = << >>, !.strLoc = l])
<1> SUFFICES ASSUME NEW s, NEW k, NEW l, IsFed(s)
             PROVE  IsFed([s EXCEPT !.cap = k, !.strRaw = << >>, !.strLoc = l])
  OBVIOUS
<1>1. << >> \in Seq(Chars)
  OBVIOUS
<1>2. PICK e : e = << >> /\ e \in Seq(Chars)
  BY <1>1, Zenon
<1>3. IsFed([s EXCEPT !.cap = k, !.strRaw = e, !.strLoc = l])
  BY <1>2 DEF IsFed, StFields
<1> QED  BY <1>2, <1>3, Zenon

LEMMA FedRaw ==
    \A s, k, x, y, d : IsFed(s) =>
        IsFed([s EXCEPT !.cap = k, !.rawBeg = x, !.rawDep = y, !.dep = d])
<1> SUFFICES ASSUME NEW s, NEW k, NEW x, NEW y, NEW d, IsFed(s)
             PROVE  IsFed([s EXCEPT !.cap = k, !.rawBeg = x, !.rawDep = y, !.dep = d])
  OBVIOUS
<1>1. IsFed([s EXCEPT !.cap = k, !.rawBeg = x])
  BY DEF IsFed, StFields
<1>2. PICK r : r = [s EXCEPT !.cap = k, !.rawBeg = x] /\ IsFed(r)
  BY <1>1, Zenon
<1>3. IsFed([r EXCEPT !.rawDep = y, !.dep = d])
  BY <1>2 DEF IsFed, StFields
<1>4. [s EXCEPT !.cap = k, !.rawBeg = x, !.rawDep = y, !.dep = d] = [r EXCEPT !.rawDep = y, !.dep = d]
  BY <1>2 DEF IsFed, StFields
<1> QED  BY <1>3, <1>4

LEMMA ObjFed ==
    ArenaInv /\ (ObjKey \/ ObjUnknown \/ ObjMismatch \/ ObjCapture \/ ObjPart \/ ObjInner) =>
        Sane /\ arena' = arena
<1> SUFFICES ASSUME ArenaInv, ObjKey \/ ObjUnknown \/ ObjMismatch \/ ObjCapture \/ ObjPart \/ ObjInner
             PROVE  Sane /\ arena' = arena
  OBVIOUS
<1>1. IsFed(st)
  BY Zenon DEF ArenaInv
<1>2. CASE ObjKey
  <2> DEFINE A == Go([st EXCEPT !.cap = @ \union {"key"}, !.keyRaw = << >>])
             B == Go([st EXCEPT !.keyRaw = ev.data])
             C == Go([st EXCEPT !.cap = @ \ {"key"}, !.cur = Find(st.keyRaw), !.expectVal = TRUE])
             D == Go(st)
  <2>1. Kept /\ CASE ev.kind = "KBeg" /\ st.dep = 1 -> A [] ev.kind = "KPar" /\ "key" \in st.cap -> B
                  [] ev.kind = "KEnd" /\ "key" \in st.cap -> C [] OTHER -> D
    BY <1>2, Zenon DEF ObjKey
  <2>2. A \/ B \/ C \/ D
    <3> HIDE DEF A, B, C, D
    <3> QED  BY <2>1
  <2>3. /\ IsFed([st EXCEPT !.cap = @ \union {"key"}, !.keyRaw = << >>])
        /\ IsFed([st EXCEPT !.keyRaw = ev.data])
        /\ IsFed([st EXCEPT !.cap = @ \ {"key"}, !.cur = Find(st.keyRaw), !.expectVal = TRUE])
    BY <1>1 DEF IsFed, StFields
  <2> QED  BY <1>1, <2>1, <2>2, <2>3, GoFed, Zenon DEF Kept
<1>3. CASE ObjUnknown
  <2> DEFINE s == [st EXCEPT !.expectVal = FALSE, !.dep = IF ev.kind \in Composite THEN @ + 1 ELSE @]
  <2>1. Go(s) /\ Kept
    BY <1>3, Zenon DEF ObjUnknown
  <2>2. IsFed(s)
    BY <1>1 DEF IsFed, StFields
  <2> QED  BY <2>1, <2>2, GoFed, Zenon DEF Kept
<1>4. CASE ObjMismatch
  BY <1>1, <1>4, StopFed, Zenon DEF ObjMismatch
<1>5. CASE ObjCapture
  <2> DEFINE s == [st EXCEPT !.expectVal = FALSE]
             a == [s EXCEPT !.cap = @ \union {"raw"}, !.rawBeg = ev.loc.off, !.rawDep = s.dep + 1, !.dep = @ + 1]
             b == [s EXCEPT !.cap = @ \union {"str"}, !.strRaw = << >>, !.strLoc = ev.loc]
             c == [s EXCEPT !.cap = @ \union {"num"}, !.numRaw = << >>, !.numLoc = ev.loc]
             A == Go(a)
             B == Go(b)
             C == Go(c)
  <2>1. Kept /\ CASE ev.kind \in Composite -> A [] ev.kind = "SBeg" -> B [] ev.kind = "NBeg" -> C
    BY <1>5, Zenon DEF ObjCapture
  <2>2. ev.kind \in Composite \/ ev.kind = "SBeg" \/ ev.kind = "NBeg"
    <3>1. ev.kind \in Composite \union {"SBeg", "NBeg"}
      BY <1>5, Zenon DEF ObjCapture, OnObj, Got
    <3> QED  BY <3>1
  <2>3. A \/ B \/ C
    <3> HIDE DEF A, B, C
    <3> QED  BY <2>1, <2>2
  <2>4. IsFed(s)
    BY <1>1 DEF IsFed, StFields
  <2>5. IsFed(a) /\ IsFed(b) /\ IsFed(c)
    <3> HIDE DEF s
    <3>2. IsFed(a)
      <4>1. a = [s EXCEPT !.cap = s.cap \union {"raw"}, !.rawBeg = ev.loc.off, !.rawDep = s.dep + 1,
                         !.dep = s.dep + 1]
        BY Zenon
      <4> QED  BY <2>4, <4>1, FedRaw
    <3>3. IsFed(b)
      <4>1. b = [s EXCEPT !.cap = s.cap \union {"str"}, !.strRaw = << >>, !.strLoc = ev.loc]
        BY Zenon
      <4> QED  BY <2>4, <4>1, FedStr
    <3>4. IsFed(c)
      BY <2>4 DEF IsFed, StFields
    <3> QED  BY <3>2, <3>3, <3>4
  <2> HIDE DEF a, b, c
  <2> QED  BY <2>1, <2>3, <2>5, GoFed, Zenon DEF Kept
<1>6. CASE ObjPart
  <2> DEFINE s == [st EXCEPT !.strRaw = IF ev.kind = "SPar" /\ "str" \in st.cap THEN ev.data ELSE @,
                             !.numRaw = IF ev.kind = "NPar" /\ "num" \in st.cap THEN ev.data ELSE @]
  <2>1. Go(s) /\ Kept /\ pos <= Len(Evs)
    BY <1>6, Zenon DEF ObjPart, OnObj, Got, Evs
  <2>2. ev.data \in Seq(Chars)
    BY <2>1, DataIs
  <2>3. IsFed(s)
    BY <1>1, <2>2 DEF IsFed, StFields
  <2> QED  BY <2>1, <2>3, GoFed, Zenon DEF Kept
<1>7. CASE ObjInner
  <2> DEFINE s == [st EXCEPT !.dep = IF ev.kind \in Composite THEN @ + 1 ELSE @]
  <2>1. Go(s) /\ Kept
    BY <1>7, Zenon DEF ObjInner
  <2>2. IsFed(s)
    BY <1>1 DEF IsFed, StFields
  <2> QED  BY <2>1, <2>2, GoFed, Zenon DEF Kept
<1> QED  BY <1>2, <1>3, <1>4, <1>5, <1>6, <1>7

LEMMA ObjStoreFed ==
    ArenaInv /\ (ObjLiteral \/ ObjNumEnd \/ ObjClose \/ ObjReturn) => Sane /\ arena' = arena
<1> SUFFICES ASSUME ArenaInv, ObjLiteral \/ ObjNumEnd \/ ObjClose \/ ObjReturn
             PROVE  Sane /\ arena' = arena
  OBVIOUS
<1>1. IsFed(st)
  BY Zenon DEF ArenaInv
<1>2. CASE ObjLiteral
  <2> DEFINE x == CASE f.typ = "raw" -> Slice("buf", ev.loc.off, ev.loc.off + LitLen(ev.kind))
                    [] f.typ # "raw" /\ ev.kind = "Null" -> Copy(<< >>)
                    [] OTHER -> Copy(<<ev.kind>>)
             s == [st EXCEPT !.expectVal = FALSE]
  <2>1. Store(x, s) /\ arena' = arena
    BY <1>2, Zenon DEF ObjLiteral
  <2>2. IsFed(s)
    BY <1>1 DEF IsFed, StFields
  <2> HIDE DEF x, s
  <2> QED  BY <1>1, <2>1, <2>2, StoreFed, Zenon
<1>3. CASE ObjNumEnd
  <2> DEFINE s == [st EXCEPT !.cap = @ \ {"num"}]
             raw == st.numRaw
             v == CASE f.typ \in {"i32", "oi32"} -> ParseI32(raw)
                    [] f.typ \in {"u32", "ou32"} -> ParseU32(raw)
                    [] OTHER                     -> ParseF64(raw)
             A == Store(Slice("buf", st.numLoc.off, st.numLoc.off + Len(raw)), s)
             B == Store(Copy(v.data), s)
             C == Stop("num", st.numLoc)
  <2>1. /\ CASE f.typ = "raw" -> A [] f.typ # "raw" /\ v.ok -> B [] OTHER -> C
        /\ arena' = arena
    BY <1>3, Zenon DEF ObjNumEnd
  <2>2. A \/ B \/ C
    <3> HIDE DEF A, B, C, v
    <3> QED  BY <2>1
  <2>3. IsFed(s)
    BY <1>1 DEF IsFed, StFields
  <2> HIDE DEF s, v
  <2> QED  BY <1>1, <2>1, <2>2, <2>3, StoreFed, StopFed, Zenon
<1>4. CASE ObjClose
  <2> DEFINE s == [st EXCEPT !.cap = @ \ {"raw"}, !.dep = @ - 1]
             t == [st EXCEPT !.dep = @ - 1]
             x == Slice("buf", st.rawBeg, ev.loc.off + 1)
  <2>1. (Store(x, s) \/ Go(t)) /\ arena' = arena
    BY <1>4, Zenon DEF ObjClose
  <2>2. IsFed(s) /\ IsFed(t)
    BY <1>1 DEF IsFed, StFields
  <2> HIDE DEF x, s, t
  <2> QED  BY <1>1, <2>1, <2>2, StoreFed, GoFed, Zenon
<1>5. CASE ObjReturn
  <2>1. pos' = pos /\ st' = st /\ arena' = arena
    BY <1>5, Zenon DEF ObjReturn
  <2> QED  BY <1>1, <2>1 DEF Sane
<1> QED  BY <1>2, <1>3, <1>4, <1>5

LEMMA ObjStrFed == ArenaInv /\ ObjStrEnd => Sane /\ (arena' = arena \/ Decodes)
<1> SUFFICES ASSUME ArenaInv, ObjStrEnd  PROVE Sane /\ (arena' = arena \/ Decodes)
  OBVIOUS
<1>1. IsFed(st)
  BY Zenon DEF ArenaInv
<1> DEFINE s == [st EXCEPT !.cap = @ \ {"str"}]
           x == Slice("buf", st.strLoc.off, ev.loc.off + 1)
<1>2. (Store(x, s) /\ arena' = arena) \/ StrBytes(st.strRaw, LAMBDA v : Store(v, s))
  BY Zenon DEF ObjStrEnd
<1>3. IsFed(s)
  BY <1>1 DEF IsFed, StFields
<1> HIDE DEF x, s
<1>4. CASE Store(x, s) /\ arena' = arena
  BY <1>1, <1>3, <1>4, StoreFed, Zenon
<1>5. CASE StrBytes(st.strRaw, LAMBDA v : Store(v, s))
  <2> DEFINE beg == st.strLoc.off + 1
             dec == StrDecode(st.strRaw)
             A == Store(Slice("buf", beg, beg + Len(st.strRaw)), s) /\ UNCHANGED arena
             B == Stop("arg_arena", NoLoc) /\ UNCHANGED arena
             C == Stop("str", NoLoc) /\ UNCHANGED arena
             D == /\ Store(Slice("arena", Slot, Slot + Len(dec.data)), s)
                  /\ arena' = SubSeq(arena, 1, Slot) \o dec.data
             esc == HasEsc(st.strRaw)
  <2>1. TRUE /\ CASE ~esc -> A [] esc /\ ~call.hasArena -> B [] esc /\ call.hasArena /\ ~dec.ok -> C
                  [] OTHER -> D
    BY <1>5, Zenon DEF StrBytes
  <2>2. A \/ B \/ C \/ (dec.ok /\ D)
    <3> HIDE DEF A, B, C, D, esc, dec
    <3> QED  BY <2>1
  <2>3. CASE A
    BY <1>1, <1>3, <2>3, StoreFed, Zenon
  <2>4. CASE B \/ C
    BY <1>1, <2>4, StopFed, Zenon
  <2>5. CASE dec.ok /\ D
    BY <1>1, <1>3, <2>5, StoreFed, Zenon DEF Decodes
  <2> QED  BY <2>2, <2>3, <2>4, <2>5
<1> QED  BY <1>2, <1>4, <1>5

LEMMA RootFed == ArenaInv /\ NotRoot => Sane /\ arena' = arena
<1> SUFFICES ASSUME ArenaInv, NotRoot  PROVE Sane /\ arena' = arena
  OBVIOUS
<1>1. IsFed(st)
  BY Zenon DEF ArenaInv
<1> DEFINE s == [st EXCEPT !.root = TRUE, !.dep = 1]
<1>2. \/ Go(s) /\ Kept
      \/ \E c : Stop(c, ev.loc) /\ UNCHANGED arena
  BY Zenon DEF NotRoot
<1>3. IsFed(s)
  BY <1>1 DEF IsFed, StFields
<1> HIDE DEF s
<1> QED  BY <1>1, <1>2, <1>3, GoFed, StopFed, Zenon DEF Kept

LEMMA ArrFed ==
    ArenaInv /\ (ArrMismatch \/ ArrCapture \/ ArrLiteral \/ ArrEnd \/ ArrInner \/ ArrReturn) =>
        Sane /\ arena' = arena
<1> SUFFICES ASSUME ArenaInv,
                    ArrMismatch \/ ArrCapture \/ ArrLiteral \/ ArrEnd \/ ArrInner \/ ArrReturn
             PROVE  Sane /\ arena' = arena
  OBVIOUS
<1>1. IsFed(st)
  BY Zenon DEF ArenaInv
<1>2. CASE ArrMismatch
  BY <1>1, <1>2, StopFed, Zenon DEF ArrMismatch
<1>3. CASE ArrCapture
  <2> DEFINE a == [st EXCEPT !.cap = @ \union {"raw"}, !.rawBeg = ev.loc.off, !.rawDep = 2, !.dep = 2]
             b == [st EXCEPT !.cap = @ \union {"str"}, !.strRaw = << >>, !.strLoc = ev.loc]
             c == [st EXCEPT !.cap = @ \union {"raw"}, !.rawBeg = ev.loc.off, !.rawDep = 1]
  <2>1. (Go(a) \/ Go(b) \/ Go(c)) /\ Kept
    BY <1>3, Zenon DEF ArrCapture
  <2>2. IsFed(a)
    BY <1>1, FedRaw, Zenon
  <2>3. IsFed(b)
    BY <1>1, FedStr, Zenon
  <2>4. IsFed(c)
    BY <1>1 DEF IsFed, StFields
  <2> HIDE DEF a, b, c
  <2> QED  BY <2>1, <2>2, <2>3, <2>4, GoFed, Zenon DEF Kept
<1>4. CASE ArrLiteral
  BY <1>1, <1>4, PutFed, Zenon DEF ArrLiteral
<1>5. CASE ArrEnd
  <2> DEFINE s == [st EXCEPT !.dep = IF ev.kind = "NEnd" THEN @ ELSE @ - 1]
             t == [s EXCEPT !.cap = @ \ {"raw"}]
             x == Slice("buf", st.rawBeg, ev.loc.off + 1)
  <2>1. (Put(x, t, ev.loc) \/ Go(s)) /\ arena' = arena
    BY <1>5, Zenon DEF ArrEnd
  <2>2. IsFed(s)
    BY <1>1 DEF IsFed, StFields
  <2>3. IsFed(t)
    <3> HIDE DEF s
    <3> QED  BY <2>2 DEF IsFed, StFields
  <2> HIDE DEF x, s, t
  <2> QED  BY <1>1, <2>1, <2>2, <2>3, PutFed, GoFed, Zenon
<1>6. CASE ArrInner
  <2> DEFINE s == [st EXCEPT !.dep = IF ev.kind \in Composite THEN @ + 1 ELSE @]
  <2>1. Go(s) /\ Kept
    BY <1>6, Zenon DEF ArrInner
  <2>2. IsFed(s)
    BY <1>1 DEF IsFed, StFields
  <2> QED  BY <2>1, <2>2, GoFed, Zenon DEF Kept
<1>7. CASE ArrReturn
  <2>1. pos' = pos /\ st' = st /\ arena' = arena
    BY <1>7, Zenon DEF ArrReturn
  <2> QED  BY <1>1, <2>1 DEF Sane
<1> QED  BY <1>2, <1>3, <1>4, <1>5, <1>6, <1>7

LEMMA ArrStrFed == ArenaInv /\ ArrStr => Sane /\ (arena' = arena \/ Decodes)
<1> SUFFICES ASSUME ArenaInv, ArrStr  PROVE Sane /\ (arena' = arena \/ Decodes)
  OBVIOUS
<1>1. IsFed(st)
  BY Zenon DEF ArenaInv
<1> DEFINE s == [st EXCEPT !.cap = @ \ {"str"}]
           r == [st EXCEPT !.strRaw = ev.data]
           E == Go(st) /\ Kept
           F == Go(r) /\ Kept
           G == StrBytes(st.strRaw, LAMBDA v : Put(v, s, st.strLoc))
<1>2. E \/ F \/ G
  <2>1. TRUE /\ CASE "str" \notin st.cap -> E [] ev.kind = "SPar" /\ "str" \in st.cap -> F [] OTHER -> G
    BY Zenon DEF ArrStr
  <2> HIDE DEF E, F, G
  <2> QED  BY <2>1
<1>3. IsFed(s)
  BY <1>1 DEF IsFed, StFields
<1>4. CASE E
  BY <1>1, <1>4, GoFed, Zenon DEF Kept
<1>5. CASE F
  <2>1. pos <= Len(Evs)
    BY Zenon DEF ArrStr, OnArr, Got, Evs
  <2>2. PICK d : d = ev.data /\ d \in Seq(Chars)
    BY <2>1, DataIs
  <2>3. IsFed([st EXCEPT !.strRaw = d])
    BY <1>1, <2>2 DEF IsFed, StFields
  <2> QED  BY <1>5, <2>2, <2>3, GoFed, Zenon DEF Kept
<1>6. CASE G
  <2> DEFINE beg == st.strLoc.off + 1
             dec == StrDecode(st.strRaw)
             A == Put(Slice("buf", beg, beg + Len(st.strRaw)), s, st.strLoc) /\ UNCHANGED arena
             B == Stop("arg_arena", NoLoc) /\ UNCHANGED arena
             C == Stop("str", NoLoc) /\ UNCHANGED arena
             D == /\ Put(Slice("arena", Slot, Slot + Len(dec.data)), s, st.strLoc)
                  /\ arena' = SubSeq(arena, 1, Slot) \o dec.data
             esc == HasEsc(st.strRaw)
  <2>1. TRUE /\ CASE ~esc -> A [] esc /\ ~call.hasArena -> B [] esc /\ call.hasArena /\ ~dec.ok -> C
                  [] OTHER -> D
    BY <1>6, Zenon DEF StrBytes
  <2>2. A \/ B \/ C \/ (dec.ok /\ D)
    <3> HIDE DEF A, B, C, D, esc, dec
    <3> QED  BY <2>1
  <2> HIDE DEF s
  <2>3. CASE A
    BY <1>1, <1>3, <2>3, PutFed, Zenon
  <2>4. CASE B \/ C
    BY <1>1, <2>4, StopFed, Zenon
  <2>5. CASE dec.ok /\ D
    BY <1>1, <1>3, <2>5, PutFed, Zenon DEF Decodes
  <2> QED  BY <2>2, <2>3, <2>4, <2>5
<1> QED  BY <1>2, <1>4, <1>5, <1>6

LEMMA ArenaFirst == Init => ArenaInv
<1> SUFFICES ASSUME Init  PROVE ArenaInv
  OBVIOUS
<1>1. Called /\ pos = 1 /\ st = State0
  BY Zenon DEF Init, Called
<1>2. arena \in Seq(OutChars)
  <2>1. arena \in Seq(Chars)
    BY <1>1, CallIs, Zenon DEF Init
  <2>2. Chars \subseteq OutChars
    BY DEF OutChars
  <2> QED  BY <2>1, <2>2
<1>3. IsFed(st)
  <2>1. << >> \in Seq(Chars)
    OBVIOUS
  <2>2. State0 = [x \in StFields |-> State0[x]]
    BY DEF State0, StFields
  <2>3. State0.strRaw = << >>
    BY DEF State0
  <2> QED  BY <1>1, <2>1, <2>2, <2>3, Zenon DEF IsFed
<1>4. pos \in Nat \ {0}
  BY <1>1
<1> QED  BY <1>1, <1>2, <1>3, <1>4, Zenon DEF ArenaInv

LEMMA ArenaActs == ArenaInv /\ Next => Sane /\ (arena' = arena \/ Decodes) /\ Same0
<1> SUFFICES ASSUME ArenaInv, Next  PROVE Sane /\ (arena' = arena \/ Decodes) /\ Same0
  OBVIOUS
<1>1. Same0
  BY Zenon DEF Next, Same0
<1>2. CASE NotRoot
  BY <1>1, <1>2, RootFed, Zenon
<1>3. CASE ObjKey \/ ObjUnknown \/ ObjMismatch \/ ObjCapture \/ ObjPart \/ ObjInner
  BY <1>1, <1>3, ObjFed, Zenon
<1>4. CASE ObjLiteral \/ ObjNumEnd \/ ObjClose \/ ObjReturn
  BY <1>1, <1>4, ObjStoreFed, Zenon
<1>5. CASE ObjStrEnd
  BY <1>1, <1>5, ObjStrFed, Zenon
<1>6. CASE ArrMismatch \/ ArrCapture \/ ArrLiteral \/ ArrEnd \/ ArrInner \/ ArrReturn
  BY <1>1, <1>6, ArrFed, Zenon
<1>7. CASE ArrStr
  BY <1>1, <1>7, ArrStrFed, Zenon
<1> QED  BY <1>2, <1>3, <1>4, <1>5, <1>6, <1>7, Zenon DEF Next

ArenaStays == Len(arena) <= Len(arena') /\ SubSeq(arena', 1, Len(arena)) = arena

LEMMA ArenaStep == ArenaInv /\ [Next]_vars => ArenaInv' /\ ArenaStays
<1> SUFFICES ASSUME ArenaInv, [Next]_vars  PROVE ArenaInv' /\ ArenaStays
  OBVIOUS
<1>1. Called /\ pos \in Nat \ {0} /\ arena \in Seq(OutChars) /\ IsFed(st)
  BY Zenon DEF ArenaInv
<1>2. Sane /\ (arena' = arena \/ Decodes) /\ Same0
  <2>1. CASE Next
    BY <2>1, ArenaActs, Zenon
  <2>2. CASE UNCHANGED vars
    <3>1. st' = st /\ pos' = pos /\ arena' = arena /\ Same0
      BY <2>2 DEF vars, Same0
    <3> QED  BY <1>1, <3>1, Zenon DEF Sane
  <2> QED  BY <2>1, <2>2, Zenon
<1>3. Grown(arena, arena')
  BY <1>2, DecodesGrown, Zenon
<1>4. arena' \in Seq(OutChars) /\ ArenaStays
  <2> HIDE DEF ArenaInv
  <2> QED  BY <1>1, <1>3, GrownIs, Zenon DEF ArenaStays
<1>5. Called'
  BY <1>1, <1>2, CallKept, Zenon
<1>6. pos' \in Nat \ {0}
  BY <1>1, <1>2 DEF Sane
<1>7. IsFed(st)'
  BY <1>2, Zenon DEF Sane, IsFed
<1> QED  BY <1>4, <1>5, <1>6, <1>7, Zenon DEF ArenaInv

\* No step of a call takes back or changes what the arena holds, be it the
\* caller's or a string decoded earlier: the slices handed out stay good.
THEOREM ArenaIsKept == Spec => ArenaKept
<1>1. ArenaInv /\ [Next]_vars => ArenaInv' /\ [ArenaStays]_vars
  BY ArenaStep, Zenon
<1> QED  BY ArenaFirst, <1>1, PTL DEF Spec, ArenaKept, ArenaStays
=============================================================================
