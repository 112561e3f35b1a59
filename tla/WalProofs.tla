------------------------------- MODULE WalProofs -------------------------------
(***************************************************************************)
(* Theorems about Wal, for every value of its constants: its file, what    *)
(* Scan and Index show of it, and that it implements AppendLog.            *)
(***************************************************************************)
EXTENDS WalInv, SequenceTheorems, TLAPS

-----------------------------------------------------------------------------
(* Lemmas about the format.                                                *)

\* A record has its header and one cell per payload byte.
LEMMA RecNType ==
    ASSUME NEW r, r.pay \in Payloads \union {<< >>}
    PROVE  /\ Len(r.pay) \in Nat
           /\ RecN(r) \in Nat
           /\ RecN(r) = RecHdrN + Len(r.pay)
           /\ RecN(r) >= RecHdrN
BY FormatAssumption DEF RecN, RecHdrN

\* Every cell of a record that Write accepts is a cell of the file.
LEMMA RecCellType ==
    ASSUME NEW r \in Rec, NEW i \in 1 .. RecN(r)
    PROVE  RecCell(r, i) \in Cell
<1>1. r.pay \in Seq(Bytes) /\ r.pay \in Payloads /\ r.typ \in Types /\ Len(r.pay) \in Nat
  BY FormatAssumption DEF Rec
<1>2. CASE i = 1
  <2>1. LenField(r.pay) \in 0 .. U32 - 1
    <3>1. \A a \in Nat, n \in Nat : n > 0 => a % n \in 0 .. n - 1
      OBVIOUS
    <3>2. U32 \in Nat /\ U32 > 0 /\ RecHdrN + Len(r.pay) \in Nat
      BY <1>1, FormatAssumption DEF RecHdrN
    <3> QED  BY <3>1, <3>2 DEF LenField
  <2> QED  BY <1>2, <2>1 DEF RecCell, LenCell, Cell
<1>3. CASE i = 2
  BY <1>1, <1>3 DEF RecCell, SumCell, Cell
<1>4. CASE i # 1 /\ i # 2
  <2>1. i - RecHdrN \in 1 .. Len(r.pay)
    BY <1>1, <1>4 DEF RecN, RecHdrN
  <2>2. r.pay[i - RecHdrN] \in Bytes
    BY <1>1, <2>1
  <2>3. RecCell(r, i) = PayCell(r.pay[i - RecHdrN])
    BY <1>4 DEF RecCell
  <2> QED  BY <2>2, <2>3 DEF PayCell, Cell
<1> QED  BY <1>2, <1>3, <1>4

\* What a reader decodes from the cells of a header is well typed.
LEMMA DecodeType ==
    ASSUME NEW x \in Cell
    PROVE  /\ DecLen(x) \in Nat
           /\ DecTyp(x) \in Types \union {ZeroTyp}
           /\ SumOf(x) \in Payloads \union {<< >>}
<1>1. CASE x = Zero
  BY <1>1 DEF Zero, DecLen, DecTyp, SumOf
<1>2. CASE x \in {"magic"} \X Magics
  BY <1>2 DEF DecLen, DecTyp, SumOf
<1>3. CASE x \in {"len"} \X (0 .. U32 - 1)
  BY <1>3, FormatAssumption DEF DecLen, DecTyp, SumOf
<1>4. CASE x \in {"sum"} \X (Types \X Payloads)
  BY <1>4 DEF DecLen, DecTyp, SumOf
<1>5. CASE x \in {"pay"} \X Bytes
  BY <1>5 DEF DecLen, DecTyp, SumOf
<1> QED  BY <1>1, <1>2, <1>3, <1>4, <1>5 DEF Cell

\* Replacing the last element of a sequence.
LEMMA ReplaceLast ==
    ASSUME NEW S, NEW s \in Seq(S), s # << >>, NEW x \in S
    PROVE  /\ [s EXCEPT ![Len(s)] = x] \in Seq(S)
           /\ [s EXCEPT ![Len(s)] = x] # << >>
           /\ Len([s EXCEPT ![Len(s)] = x]) = Len(s)
           /\ [s EXCEPT ![Len(s)] = x][Len(s)] = x
           /\ \A i \in 1 .. Len(s) - 1 : [s EXCEPT ![Len(s)] = x][i] = s[i]
           /\ Len(s) \in Nat \ {0}
OBVIOUS

-----------------------------------------------------------------------------
(* Type correctness.                                                       *)

\* A step that replaces the innermost call of h by a well-typed one, and moves
\* the file position of h at most, keeps the types of the reader's state.
LEMMA SetTopType ==
    ASSUME TypeInv, NEW h \in Handles, InCall(h), NEW t \in Call,
           SetTop(h, t), NEW p \in 0 .. FileCap, pos' = [pos EXCEPT ![h] = p],
           t.at = "pay" => t.off + RecHdrN = p /\ DecLen(t.hdr[1]) >= RecHdrN,
           t.at = "hdr" /\ t.op = "index" => t.off = p,
           t.at = "cb" => t.op = "scan",
           pc' = pc
    PROVE  /\ calls' \in [Handles -> Seq(Call)]
           /\ pos' \in [Handles -> 0 .. FileCap]
           /\ \A g \in Handles : ReaderOK(g)'
<1> DEFINE s == calls[h]
           u == [s EXCEPT ![Len(s)] = t]
<1>1. s \in Seq(Call) /\ s # << >> /\ calls \in [Handles -> Seq(Call)]
      /\ pos \in [Handles -> 0 .. FileCap]
  BY DEF TypeInv, TypeOK, InCall
<1>2. /\ u \in Seq(Call) /\ u # << >> /\ Len(u) = Len(s) /\ u[Len(s)] = t
      /\ \A i \in 1 .. Len(s) - 1 : u[i] = s[i]
  <2> HIDE DEF s
  <2> QED  BY <1>1, ReplaceLast
<1>3. calls' = [calls EXCEPT ![h] = u]
  BY <1>1 DEF SetTop
<1>4. calls'[h] = u /\ pos'[h] = p
  BY <1>1, <1>3
<1>5. \A g \in Handles : g # h => calls'[g] = calls[g] /\ pos'[g] = pos[g]
  BY <1>1, <1>3
<1>6. ReaderOK(h)'
  <2> HIDE DEF u
  <2>1. \A k \in 1 .. Len(s) - 1 : s[k].at = "cb" /\ s[k].op = "scan"
    BY DEF TypeInv, ReaderOK
  <2>2. Top(h)' = t
    BY <1>2, <1>4 DEF Top
  <2>3. \A k \in 1 .. Len(u) - 1 : u[k].at = "cb" /\ u[k].op = "scan"
    BY <1>2, <2>1
  <2> QED  BY <1>4, <2>2, <2>3 DEF ReaderOK, TypeInv, Live
<1>7. \A g \in Handles : g # h => ReaderOK(g)'
  BY <1>5 DEF TypeInv, ReaderOK, InCall, Top, Live
<1> HIDE DEF u
<1>8. calls' \in [Handles -> Seq(Call)] /\ pos' \in [Handles -> 0 .. FileCap]
  BY <1>1, <1>2, <1>3
<1> QED  BY <1>6, <1>7, <1>8

\* The first n elements of a sequence.
LEMMA PrefixOfSeq ==
    ASSUME NEW S, NEW s \in Seq(S), NEW n \in 0 .. Len(s)
    PROVE  /\ SubSeq(s, 1, n) \in Seq(S) /\ Len(SubSeq(s, 1, n)) = n
           /\ \A k \in 1 .. n : SubSeq(s, 1, n)[k] = s[k]
<1>1. Len(s) \in Nat /\ \A i \in 1 .. n : s[i] \in S
  OBVIOUS
<1>2. /\ SubSeq(s, 1, n) \in Seq(S)
      /\ Len(SubSeq(s, 1, n)) = IF 1 <= n THEN n - 1 + 1 ELSE 0
      /\ \A i \in 1 .. n - 1 + 1 : SubSeq(s, 1, n)[i] = s[1 + i - 1]
  BY <1>1, SubSeqProperties
<1> QED  BY <1>1, <1>2

\* The innermost call of a handle is a call.
LEMMA TopType ==
    ASSUME TypeInv, NEW h \in Handles, InCall(h)
    PROVE  Top(h) \in Call /\ calls[h] \in Seq(Call) /\ Len(calls[h]) \in Nat \ {0}
<1>1. calls[h] \in Seq(Call) /\ calls[h] # << >>
  BY DEF TypeInv, TypeOK, InCall
<1>2. Len(calls[h]) \in Nat \ {0}
  BY <1>1
<1> QED  BY <1>1, <1>2 DEF Top

\* The place and the value of the cell that Write puts next.
LEMMA PutCellType ==
    ASSUME TypeInv, NEW h \in Handles, InWrite(h), PutCell(h)
    PROVE  /\ h \in Writers /\ cur[h] \in Rec /\ RecN(cur[h]) \in Nat
           /\ RecN(cur[h]) = RecHdrN + Len(cur[h].pay) /\ Len(cur[h].pay) \in Nat
           /\ Start(h) \in Nat /\ done[h] \in Nat
           /\ done[h] < RecN(cur[h])
           /\ Start(h) + done[h] \in Addr
           /\ RecCell(cur[h], done[h] + 1) \in Cell
           /\ file' \in [Addr -> Cell]
           /\ size' \in 0 .. FileCap
           /\ size <= size'
           /\ Start(h) + done[h] + 1 <= size'
<1>1. /\ h \in Writers /\ cur[h] \in Rec /\ done[h] \in Nat /\ end[h] \in 0 .. FileCap
      /\ Start(h) + RecN(cur[h]) <= FileCap
      /\ file \in [Addr -> Cell] /\ size \in 0 .. FileCap
  BY DEF TypeInv, TypeOK, WriterOK
<1>2. /\ RecN(cur[h]) \in Nat /\ RecN(cur[h]) = RecHdrN + Len(cur[h].pay)
      /\ Len(cur[h].pay) \in Nat
  <2>1. cur[h].pay \in Payloads \union {<< >>}
    BY <1>1 DEF Rec
  <2> QED  BY <2>1, RecNType
<1>3. Start(h) \in Nat /\ done[h] < RecN(cur[h])
  BY <1>1, <1>2 DEF TypeInv, WriterOK, InWrite, Start, RecHdrN
<1>4. Start(h) + done[h] \in Addr
  BY <1>1, <1>2, <1>3, FormatAssumption DEF Addr
<1>5. RecCell(cur[h], done[h] + 1) \in Cell
  BY <1>1, <1>2, <1>3, RecCellType
<1>6. file' \in [Addr -> Cell]
  BY <1>1, <1>5 DEF PutCell
<1>7. size' \in 0 .. FileCap /\ size <= size' /\ Start(h) + done[h] + 1 <= size'
  BY <1>1, <1>4, FormatAssumption DEF PutCell, Larger, Addr
<1> QED  BY <1>1, <1>2, <1>3, <1>4, <1>5, <1>6, <1>7

\* Init is well typed.
LEMMA TypeInit == Init => TypeInv
<1> SUFFICES ASSUME Init PROVE TypeInv
  OBVIOUS
<1>1. Zero \in Cell
  BY DEF Cell
<1>2. TypeOK
  <2>1. exists \in BOOLEAN /\ file \in [Addr -> Cell]
    BY <1>1 DEF Init
  <2>5. size \in 0 .. FileCap
    BY FormatAssumption DEF Init, FileHdrN
  <2>4. disk \in [cells : [Addr -> Cell], size : 0 .. FileCap]
    BY <2>1, <2>5 DEF Init
  <2>2. /\ pc \in [Handles -> {"none", "head", "idle", "whdr", "wpay"}]
        /\ end \in [Handles -> 0 .. FileCap]
        /\ cur \in [Handles -> Rec \union {NoRec}]
        /\ done \in [Handles -> Nat]
    BY FormatAssumption DEF Init, FileHdrN
  <2>3. /\ pos \in [Handles -> 0 .. FileCap]
        /\ calls \in [Handles -> Seq(Call)]
        /\ index \in [Handles -> Seq(Found)]
        /\ log \in Seq(Entry) /\ synced \in Nat /\ gap \in BOOLEAN
    <3>1. << >> \in Seq(Call) /\ << >> \in Seq(Found) /\ << >> \in Seq(Entry)
      OBVIOUS
    <3>2. 0 \in 0 .. FileCap
      BY FormatAssumption DEF FileHdrN
    <3> QED  BY <3>1, <3>2 DEF Init
  <2> QED  BY <2>1, <2>2, <2>3, <2>4, <2>5 DEF TypeOK
<1>3. \A h \in Handles : WriterOK(h) /\ ReaderOK(h)
  <2>1. \A h \in Handles : pc[h] = "none" /\ done[h] = 0 /\ calls[h] = << >>
    BY DEF Init
  <2> QED  BY <2>1 DEF WriterOK, ReaderOK, InWrite, InCall
<1> QED  BY <1>2, <1>3 DEF TypeInv

\* A step leaves the writer's state of every other handle alone.
WriterSame(h) == \A g \in Handles : g # h =>
    pc'[g] = pc[g] /\ end'[g] = end[g] /\ cur'[g] = cur[g] /\ done'[g] = done[g]

LEMMA WriterFrame ==
    ASSUME TypeInv, NEW h \in Handles, WriterSame(h), WriterOK(h)'
    PROVE  \A g \in Handles : WriterOK(g)'
BY DEF TypeInv, WriterSame, WriterOK, InWrite, Start

\* A step leaves the calls under way alone, and the handles they are made on.
ReaderSame == \A g \in Handles :
    /\ calls'[g] = calls[g]
    /\ InCall(g) => pos'[g] = pos[g] /\ Live(g)'

LEMMA ReaderFrame ==
    ASSUME TypeInv, ReaderSame
    PROVE  \A g \in Handles : ReaderOK(g)'
BY DEF TypeInv, ReaderSame, ReaderOK, InCall, Top

\* Creating, opening and closing handles.
LEMMA TypeOpen ==
    ASSUME TypeInv, NEW h \in Handles,
           Create(h) \/ WriteHead(h) \/ WriteHeadFail(h) \/ Open(h) \/ Close(h)
    PROVE  TypeInv'
<1>0. /\ TypeOK /\ 0 \in Addr /\ FileHdrN \in 0 .. FileCap
      /\ WriterOK(h) /\ \A g \in Handles : InCall(g) => Live(g)
  BY FormatAssumption DEF Addr, FileHdrN, TypeInv, ReaderOK
<1>1. CASE Create(h)
  <2>1. TypeOK'
    BY <1>0, <1>1 DEF TypeOK, Create, writeVars, readVars, history
  <2>2. WriterSame(h) /\ WriterOK(h)'
    BY <1>0, <1>1 DEF TypeOK, Create, writeVars, WriterSame, WriterOK, InWrite
  <2>3. ReaderSame
    BY <1>0, <1>1 DEF TypeOK, Create, readVars, ReaderSame, Live
  <2> QED  BY <2>1, <2>2, <2>3, WriterFrame, ReaderFrame DEF TypeInv
<1>2. CASE WriteHead(h)
  <2>1. TypeOK'
    <3>1. PICK m \in Magics : file' = [file EXCEPT ![0] = MagicCell(m)]
      BY <1>2 DEF WriteHead
    <3>2. MagicCell(m) \in Cell
      BY DEF MagicCell, Cell
    <3>3. file' \in [Addr -> Cell]
      BY <1>0, <3>1, <3>2 DEF TypeOK
    <3> QED  BY <1>0, <1>2, <3>3 DEF TypeOK, WriteHead, history
  <2>2. WriterSame(h) /\ WriterOK(h)'
    BY <1>0, <1>2 DEF TypeOK, WriteHead, WriterSame, WriterOK, InWrite
  <2>3. ReaderSame
    BY <1>0, <1>2 DEF TypeOK, WriteHead, ReaderSame, Live
  <2> QED  BY <2>1, <2>2, <2>3, WriterFrame, ReaderFrame DEF TypeInv
<1>3. CASE WriteHeadFail(h)
  <2>1. TypeOK'
    BY <1>0, <1>3 DEF TypeOK, WriteHeadFail, writeVars, readVars, history
  <2>2. WriterSame(h) /\ WriterOK(h)'
    BY <1>0, <1>3 DEF TypeOK, WriteHeadFail, writeVars, WriterSame, WriterOK, InWrite
  <2>3. ReaderSame
    BY <1>0, <1>3 DEF TypeOK, WriteHeadFail, readVars, ReaderSame, Live
  <2> QED  BY <2>1, <2>2, <2>3, WriterFrame, ReaderFrame DEF TypeInv
<1>4. CASE Open(h)
  <2>1. TypeOK'
    BY <1>0, <1>4 DEF TypeOK, Open, TailOffset, fileVars
  <2>2. WriterSame(h) /\ WriterOK(h)'
    BY <1>0, <1>4 DEF TypeOK, Open, WriterSame, WriterOK, InWrite
  <2>3. ReaderSame
    BY <1>0, <1>4 DEF TypeOK, Open, ReaderSame, Live
  <2> QED  BY <2>1, <2>2, <2>3, WriterFrame, ReaderFrame DEF TypeInv
<1>5. CASE Close(h)
  <2>1. TypeOK'
    BY <1>0, <1>5 DEF TypeOK, Close, fileVars, writeVars, readVars, history
  <2>2. WriterSame(h) /\ WriterOK(h)'
    BY <1>0, <1>5 DEF TypeOK, Close, writeVars, WriterSame, WriterOK, InWrite
  <2>3. ReaderSame
    BY <1>0, <1>5 DEF TypeOK, Close, readVars, ReaderSame, Live
  <2> QED  BY <2>1, <2>2, <2>3, WriterFrame, ReaderFrame DEF TypeInv
<1> QED  BY <1>1, <1>2, <1>3, <1>4, <1>5

\* What Ack leaves: an idle handle with nothing under way, one entry more.
LEMMA AckType ==
    ASSUME TypeInv, NEW h \in Handles, InWrite(h), NEW off \in 0 .. FileCap, Ack(h, off)
    PROVE  /\ pc' \in [Handles -> {"none", "head", "idle", "whdr", "wpay"}]
           /\ cur' \in [Handles -> Rec \union {NoRec}]
           /\ done' \in [Handles -> Nat]
           /\ log' \in Seq(Entry)
           /\ pc'[h] = "idle" /\ done'[h] = 0
<1>1. TypeOK /\ cur[h] \in Rec
  BY DEF TypeInv, WriterOK
<1>2. [off |-> off, typ |-> cur[h].typ, pay |-> cur[h].pay] \in Entry
  BY <1>1 DEF Rec, Entry
<1>3. log' \in Seq(Entry)
  BY <1>1, <1>2 DEF Ack, TypeOK
<1> QED  BY <1>1, <1>3 DEF Ack, TypeOK

\* The steps of Write, and Sync.
LEMMA TypeWrite ==
    ASSUME TypeInv, NEW h \in Handles,
           Write(h) \/ Sync(h) \/ \E r \in Rec : BeginWrite(h, r)
    PROVE  TypeInv'
<1>0. /\ TypeOK /\ WriterOK(h) /\ \A g \in Handles : InCall(g) => Live(g)
      /\ end[h] \in 0 .. FileCap
  BY DEF TypeInv, TypeOK, ReaderOK
<1>1. ASSUME NEW r \in Rec, BeginWrite(h, r) PROVE TypeInv'
  <2>1. TypeOK'
    BY <1>0, <1>1 DEF TypeOK, BeginWrite, fileVars, readVars, history
  <2>2. WriterSame(h) /\ WriterOK(h)'
    BY <1>0, <1>1 DEF TypeOK, BeginWrite, Free, WriterSame, WriterOK, InWrite, Start, RecHdrN
  <2>3. ReaderSame
    BY <1>0, <1>1 DEF TypeOK, BeginWrite, readVars, ReaderSame, Live
  <2> QED  BY <2>1, <2>2, <2>3, WriterFrame, ReaderFrame DEF TypeInv
<1>2. CASE WriteCell(h)
  <2>0. InWrite(h) /\ PutCell(h)
    BY <1>2 DEF WriteCell, InWrite
  <2>a. /\ file' \in [Addr -> Cell] /\ size' \in 0 .. FileCap
        /\ done[h] \in Nat /\ RecN(cur[h]) \in Nat
    BY <2>0, PutCellType
  <2>b. done' = [done EXCEPT ![h] = @ + 1] /\ done' \in [Handles -> Nat]
    BY <1>0, <1>2, <2>a DEF TypeOK, WriteCell
  <2>1. TypeOK'
    BY <1>0, <1>2, <2>a, <2>b DEF TypeOK, WriteCell, readVars, history
  <2>c. WriterSame(h)
    BY <1>0, <1>2 DEF TypeOK, WriteCell, WriterSame
  <2>d. UNCHANGED <<pc, end, cur>> /\ done'[h] = done[h] + 1
    BY <1>0, <1>2 DEF TypeOK, WriteCell
  <2>2. WriterSame(h) /\ WriterOK(h)'
    BY <1>0, <1>2, <2>a, <2>c, <2>d
    DEF WriteCell, WriterOK, InWrite, Start, RecHdrN, RecN
  <2>3. ReaderSame
    BY <1>0, <1>2 DEF TypeOK, WriteCell, readVars, ReaderSame, Live
  <2> QED  BY <2>1, <2>2, <2>3, WriterFrame, ReaderFrame DEF TypeInv
<1>3. CASE WriteHdrLast(h)
  <2>0. /\ InWrite(h) /\ PutCell(h) /\ Start(h) = end[h]
        /\ Start(h) + RecN(cur[h]) <= FileCap
    BY <1>0, <1>3 DEF WriteHdrLast, InWrite, Start, WriterOK
  <2>1. /\ file' \in [Addr -> Cell] /\ size' \in 0 .. FileCap
        /\ end' \in [Handles -> 0 .. FileCap] /\ end'[h] = end[h] + RecHdrN
        /\ Len(cur[h].pay) \in Nat /\ RecN(cur[h]) = RecHdrN + Len(cur[h].pay)
        /\ cur[h] \in Rec
    <3>1. /\ file' \in [Addr -> Cell] /\ size' \in 0 .. FileCap
          /\ Len(cur[h].pay) \in Nat /\ RecN(cur[h]) = RecHdrN + Len(cur[h].pay)
          /\ cur[h] \in Rec
      BY <2>0, PutCellType
    <3>2. end[h] + RecHdrN \in 0 .. FileCap
      BY <1>0, <2>0, <3>1, FormatAssumption DEF RecHdrN
    <3>3. end' = [end EXCEPT ![h] = end[h] + RecHdrN]
      BY <1>3 DEF WriteHdrLast, AfterHdr
    <3> QED  BY <1>0, <3>1, <3>2, <3>3 DEF TypeOK
  <2>2. CASE cur[h].pay = << >>
    <3>1. Ack(h, Start(h)) /\ Start(h) \in 0 .. FileCap
      BY <1>0, <1>3, <2>0, <2>2 DEF WriteHdrLast
    <3>2. TypeOK' /\ pc'[h] = "idle" /\ done'[h] = 0
      BY <1>0, <1>3, <2>0, <2>1, <3>1, AckType DEF TypeOK, WriteHdrLast, readVars
    <3>3. WriterSame(h) /\ WriterOK(h)'
      BY <1>0, <1>3, <3>1, <3>2
      DEF TypeOK, WriteHdrLast, Ack, WriterSame, WriterOK, InWrite
    <3>4. ReaderSame
      BY <1>0, <1>3, <3>1 DEF TypeOK, WriteHdrLast, Ack, readVars, ReaderSame, Live
    <3> QED  BY <3>2, <3>3, <3>4, WriterFrame, ReaderFrame DEF TypeInv
  <2>3. CASE cur[h].pay # << >>
    <3>0. Len(cur[h].pay) > 0
      <4>1. cur[h].pay \in Seq(Bytes)
        BY <2>1, FormatAssumption DEF Rec
      <4> QED  BY <4>1, <2>3
    <3>1. TypeOK'
      <4>1. /\ pc' = [pc EXCEPT ![h] = "wpay"] /\ done' = [done EXCEPT ![h] = RecHdrN]
            /\ UNCHANGED <<cur, log, exists, disk, readVars, synced, gap>>
        BY <1>3, <2>3 DEF WriteHdrLast
      <4>2. done' \in [Handles -> Nat]
        BY <1>0, <4>1 DEF TypeOK, RecHdrN
      <4>3. pc' \in [Handles -> {"none", "head", "idle", "whdr", "wpay"}]
        BY <1>0, <4>1 DEF TypeOK
      <4> QED  BY <1>0, <2>1, <4>1, <4>2, <4>3 DEF TypeOK, readVars
    <3>2. WriterSame(h)
      BY <1>0, <1>3, <2>3 DEF TypeOK, WriteHdrLast, WriterSame
    <3>3. pc'[h] = "wpay" /\ done'[h] = RecHdrN /\ cur'[h] = cur[h]
      BY <1>0, <1>3, <2>3 DEF TypeOK, WriteHdrLast
    <3>4. WriterOK(h)'
      BY <1>0, <2>0, <2>1, <3>0, <3>3
      DEF WriterOK, InWrite, Start, RecHdrN, RecN
    <3>5. ReaderSame
      BY <1>0, <1>3, <2>3 DEF TypeOK, WriteHdrLast, readVars, ReaderSame, Live
    <3> QED  BY <3>1, <3>2, <3>4, <3>5, WriterFrame, ReaderFrame DEF TypeInv
  <2> QED  BY <2>2, <2>3
<1>4. CASE WritePayLast(h)
  <2>0. /\ InWrite(h) /\ PutCell(h) /\ Start(h) = end[h] - RecHdrN
        /\ Start(h) + RecN(cur[h]) <= FileCap /\ Ack(h, Start(h))
    BY <1>0, <1>4 DEF WritePayLast, InWrite, Start, WriterOK
  <2>1. /\ file' \in [Addr -> Cell] /\ size' \in 0 .. FileCap
        /\ Start(h) \in 0 .. FileCap
        /\ AfterPay(h) \in 0 .. FileCap
    <3>1. /\ file' \in [Addr -> Cell] /\ size' \in 0 .. FileCap
          /\ Len(cur[h].pay) \in Nat /\ RecN(cur[h]) = RecHdrN + Len(cur[h].pay)
          /\ Start(h) \in Nat
      BY <2>0, PutCellType
    <3>2. Start(h) \in 0 .. FileCap
      BY <2>0, <3>1, FormatAssumption DEF RecHdrN
    <3>3. AfterPay(h) = Start(h) + RecN(cur[h])
      <4>1. end[h] \in Nat /\ Start(h) = end[h] - RecHdrN
        BY <1>0, <2>0
      <4> QED  BY <4>1, <3>1 DEF AfterPay, RecHdrN
    <3>4. AfterPay(h) \in 0 .. FileCap
      BY <2>0, <3>1, <3>3, FormatAssumption DEF RecHdrN
    <3> QED  BY <3>1, <3>2, <3>4
  <2>2. TypeOK' /\ pc'[h] = "idle" /\ done'[h] = 0
    BY <1>0, <1>4, <2>0, <2>1, AckType DEF TypeOK, WritePayLast, readVars
  <2>3. WriterSame(h) /\ WriterOK(h)'
    BY <1>0, <1>4, <2>0, <2>2 DEF TypeOK, WritePayLast, Ack, WriterSame, WriterOK, InWrite
  <2>4. ReaderSame
    BY <1>0, <1>4, <2>0 DEF TypeOK, WritePayLast, Ack, readVars, ReaderSame, Live
  <2> QED  BY <2>2, <2>3, <2>4, WriterFrame, ReaderFrame DEF TypeInv
<1>5. CASE WriteFail(h)
  <2>1. TypeOK'
    BY <1>0, <1>5 DEF TypeOK, WriteFail, fileVars, readVars
  <2>2. WriterSame(h) /\ WriterOK(h)'
    BY <1>0, <1>5 DEF TypeOK, WriteFail, WriterSame, WriterOK, InWrite
  <2>3. ReaderSame
    BY <1>0, <1>5 DEF TypeOK, WriteFail, readVars, ReaderSame, Live
  <2> QED  BY <2>1, <2>2, <2>3, WriterFrame, ReaderFrame DEF TypeInv
<1>6. CASE Sync(h)
  <2>0. Len(log) \in Nat /\ Flushed \in [cells : [Addr -> Cell], size : 0 .. FileCap]
    BY <1>0 DEF TypeOK, Flushed
  <2>1. TypeOK'
    BY <1>0, <1>6, <2>0 DEF TypeOK, Sync, writeVars, readVars
  <2>2. WriterSame(h) /\ WriterOK(h)'
    BY <1>0, <1>6 DEF Sync, writeVars, WriterSame, WriterOK, InWrite, Start
  <2>3. ReaderSame
    BY <1>0, <1>6 DEF Sync, readVars, ReaderSame, Live
  <2> QED  BY <2>1, <2>2, <2>3, WriterFrame, ReaderFrame DEF TypeInv
<1> QED  BY <1>1, <1>2, <1>3, <1>4, <1>5, <1>6 DEF Write

\* A reading step that leaves the writer's state alone is well typed if the
\* call and the file position it leaves behind are.
LEMMA ReadStep ==
    ASSUME TypeInv, NEW h \in Handles, InCall(h), NEW t \in Call,
           SetTop(h, t), NEW p \in 0 .. FileCap, pos' = [pos EXCEPT ![h] = p],
           t.at = "pay" => t.off + RecHdrN = p /\ DecLen(t.hdr[1]) >= RecHdrN,
           t.at = "hdr" /\ t.op = "index" => t.off = p,
           t.at = "cb" => t.op = "scan",
           UNCHANGED <<fileVars, pc, writeVars, index, history>>
    PROVE  TypeInv'
<1>1. /\ calls' \in [Handles -> Seq(Call)] /\ pos' \in [Handles -> 0 .. FileCap]
      /\ \A g \in Handles : ReaderOK(g)'
  <2>1. pc' = pc
    OBVIOUS
  <2> QED  BY <2>1, SetTopType
<1>2. TypeOK'
  BY <1>1 DEF TypeInv, TypeOK, fileVars, writeVars, history
<1>3. \A g \in Handles : WriterOK(g)'
  BY DEF TypeInv, WriterOK, InWrite, Start, writeVars
<1> QED  BY <1>1, <1>2, <1>3 DEF TypeInv

\* Beginning a Scan or an Index.
LEMMA TypeBegin ==
    ASSUME TypeInv, NEW h \in Handles, BeginScan(h) \/ BeginIndex(h)
    PROVE  TypeInv'
<1>1. PICK op \in {"scan", "index"} : Begin(h, op)
  BY DEF BeginScan, BeginIndex
<1> DEFINE t == [op |-> op, at |-> "hdr", hdr |-> <<Zero, Zero>>,
                 off |-> FileHdrN, got |-> << >>, n0 |-> Len(log)]
           s == Append(calls[h], t)
<1>2. /\ TypeOK /\ calls \in [Handles -> Seq(Call)] /\ pos \in [Handles -> 0 .. FileCap]
      /\ calls[h] \in Seq(Call) /\ Len(calls[h]) \in Nat
  BY DEF TypeInv, TypeOK
<1>3. t \in Call
  <2>1. Zero \in Cell /\ FileHdrN \in 0 .. FileCap /\ Len(log) \in Nat
    BY <1>2, FormatAssumption DEF Cell, FileHdrN, TypeOK
  <2>2. << >> \in Seq(Found)
    OBVIOUS
  <2> QED  BY <2>1, <2>2 DEF Call
<1>4. /\ calls' = [calls EXCEPT ![h] = s]
      /\ pos' = [pos EXCEPT ![h] = FileHdrN]
      /\ UNCHANGED <<fileVars, pc, writeVars, index, history>>
      /\ Free(h)
  BY <1>1 DEF Begin
<1> HIDE DEF t
<1>5. /\ s \in Seq(Call) /\ Len(s) = Len(calls[h]) + 1 /\ s[Len(s)] = t
      /\ \A k \in 1 .. Len(calls[h]) : s[k] = calls[h][k]
  BY <1>2, <1>3
<1> HIDE DEF s
<1>6. calls'[h] = s /\ pos'[h] = FileHdrN
      /\ \A g \in Handles : g # h => calls'[g] = calls[g] /\ pos'[g] = pos[g]
  BY <1>2, <1>4
<1>7. TypeOK'
  <2>1. calls' \in [Handles -> Seq(Call)]
    BY <1>2, <1>4, <1>5
  <2>2. pos' \in [Handles -> 0 .. FileCap]
    BY <1>2, <1>4, FormatAssumption DEF FileHdrN
  <2> QED  BY <1>2, <1>4, <2>1, <2>2 DEF TypeOK, fileVars, writeVars, history
<1>8. \A g \in Handles : WriterOK(g)'
  BY <1>4 DEF TypeInv, WriterOK, InWrite, Start, writeVars
<1>9. ReaderOK(h)'
  <2>1. \A k \in 1 .. Len(calls[h]) : calls[h][k].at = "cb" /\ calls[h][k].op = "scan"
    <3>1. \A k \in 1 .. Len(calls[h]) - 1 : calls[h][k].at = "cb" /\ calls[h][k].op = "scan"
      BY DEF TypeInv, ReaderOK
    <3>2. calls[h] # << >> => /\ calls[h][Len(calls[h])].at = "cb"
                              /\ calls[h][Len(calls[h])].op = "scan"
      BY <1>4 DEF Free, InCall, Top, TypeInv, ReaderOK
    <3> QED  BY <1>2, <3>1, <3>2
  <2>2. \A k \in 1 .. Len(s) - 1 : s[k].at = "cb" /\ s[k].op = "scan"
    BY <1>2, <1>5, <2>1
  <2>3. Top(h)' = t /\ t.at = "hdr" /\ t.off = FileHdrN
    BY <1>5, <1>6 DEF Top, t
  <2>4. Live(h)'
    BY <1>4 DEF Live, Free
  <2> QED  BY <1>6, <2>2, <2>3, <2>4 DEF ReaderOK
<1>10. \A g \in Handles : g # h => ReaderOK(g)'
  BY <1>4, <1>6 DEF TypeInv, ReaderOK, InCall, Top, Live
<1> QED  BY <1>7, <1>8, <1>9, <1>10 DEF TypeInv

\* Changing the place a call is at leaves it a call.
LEMMA AtType ==
    ASSUME NEW t \in Call, NEW a \in {"hdr", "pay", "cb", "ok", "err", "stop"}
    PROVE  /\ [t EXCEPT !.at = a] \in Call
           /\ [t EXCEPT !.at = a].at = a
           /\ [t EXCEPT !.at = a].off = t.off
           /\ [t EXCEPT !.at = a].op = t.op
           /\ [t EXCEPT !.at = a].hdr = t.hdr
BY DEF Call

\* The steps of Scan and Index.
LEMMA TypeRead ==
    ASSUME TypeInv, NEW h \in Handles,
           \/ ReadEOF(h) \/ ReadShort(h) \/ ReadHdr(h) \/ ReadPay(h)
           \/ ReadCorrupt(h) \/ ReadFail(h) \/ Callback(h)
    PROVE  TypeInv'
<1> DEFINE t == Top(h)
<1>1. /\ InCall(h) /\ TypeOK
      /\ UNCHANGED <<fileVars, pc, writeVars, index, history>>
  BY DEF ReadEOF, ReadShort, ReadHdr, ReadPay, ReadCorrupt, ReadFail, Callback,
         Reading, TypeInv
<1>2. /\ t \in Call /\ pos[h] \in 0 .. FileCap /\ pos \in [Handles -> 0 .. FileCap]
      /\ pos = [pos EXCEPT ![h] = pos[h]]
      /\ size \in 0 .. FileCap /\ FileCap \in Nat
      /\ file \in [Addr -> Cell]
      /\ t.at \in {"hdr", "pay", "cb", "ok", "err", "stop"}
      /\ t.op \in {"scan", "index"} /\ t.off \in 0 .. FileCap /\ t.hdr \in Cell \X Cell
      /\ t.got \in Seq(Found)
  <2>1. t \in Call
    BY <1>1, TopType
  <2> QED  BY <1>1, <2>1, FormatAssumption DEF TypeOK, Call
<1>3. t.at = "pay" => t.off + RecHdrN = pos[h] /\ DecLen(t.hdr[1]) >= RecHdrN
  BY <1>1 DEF TypeInv, ReaderOK
<1>4. t.at = "hdr" /\ t.op = "index" => t.off = pos[h]
  BY <1>1 DEF TypeInv, ReaderOK
<1>5. DecLen(t.hdr[1]) \in Nat /\ SumOf(t.hdr[2]) \in Payloads \union {<< >>}
      /\ DecTyp(t.hdr[2]) \in Types \union {ZeroTyp}
  BY <1>2, DecodeType
<1> HIDE DEF t
<1>6. ASSUME NEW a \in {"ok", "err", "stop"}, NEW p \in 0 .. FileCap,
             SetTop(h, [t EXCEPT !.at = a]), pos' = [pos EXCEPT ![h] = p]
      PROVE  TypeInv'
  <2>1. [t EXCEPT !.at = a] \in Call /\ [t EXCEPT !.at = a].at = a
    <3>1. t \in Call /\ a \in {"hdr", "pay", "cb", "ok", "err", "stop"}
      BY <1>2
    <3> QED  BY <3>1, AtType
  <2> QED  BY <1>1, <1>6, <2>1, ReadStep
<1>7. CASE ReadEOF(h)
  BY <1>2, <1>6, <1>7 DEF ReadEOF, t
<1>8. CASE ReadShort(h)
  BY <1>2, <1>6, <1>8 DEF ReadShort, t
<1>9. CASE ReadCorrupt(h)
  <2>1. pos[h] + PayN(h) \in Nat
    <3>1. DecLen(t.hdr[1]) >= RecHdrN
      BY <1>3, <1>9 DEF ReadCorrupt, Reading, t
    <3> QED  BY <1>2, <1>5, <3>1 DEF PayN, RecHdrN, t
  <2> DEFINE p == IF Available(h, PayN(h)) THEN pos[h] + PayN(h)
                                           ELSE Larger(pos[h], size)
  <2>2. p \in 0 .. FileCap
    BY <1>2, <2>1 DEF Available, Larger
  <2>3. pos' = [pos EXCEPT ![h] = p]
    BY <1>9 DEF ReadCorrupt
  <2> QED  BY <1>6, <1>9, <2>2, <2>3 DEF ReadCorrupt, t
<1>10. CASE ReadFail(h)
  BY <1>2, <1>6, <1>10 DEF ReadFail, t
<1>11. CASE Callback(h)
  <2>1. PICK a \in {"hdr", "stop"} : SetTop(h, [t EXCEPT !.at = a])
    BY <1>11 DEF Callback, t
  <2>2. CASE a = "stop"
    BY <1>2, <1>6, <1>11, <2>1, <2>2 DEF Callback
  <2>3. CASE a = "hdr"
    <3> DEFINE u == [t EXCEPT !.at = a]
    <3>1. t.at = "cb" /\ t.op = "scan"
      BY <1>1, <1>11 DEF Callback, Reading, t, TypeInv, ReaderOK
    <3>2. u \in Call /\ u.at = "hdr" /\ u.op = "scan"
      <4>1. t \in Call /\ a \in {"hdr", "pay", "cb", "ok", "err", "stop"}
        BY <1>2, <2>3
      <4> QED  BY <2>3, <3>1, <4>1, AtType
    <3>3. SetTop(h, u) /\ pos' = [pos EXCEPT ![h] = pos[h]]
      BY <1>2, <1>11, <2>1 DEF Callback
    <3> HIDE DEF u
    <3> QED  BY <1>1, <1>2, <3>2, <3>3, ReadStep
  <2> QED  BY <2>1, <2>2, <2>3
<1>12. CASE ReadHdr(h)
  <2> DEFINE a == pos[h]
             hdr == <<file[a], file[a + 1]>>
             u == [t EXCEPT !.at = IF DecLen(hdr[1]) < RecHdrN THEN "err" ELSE "pay",
                            !.hdr = hdr,
                            !.off = IF t.op = "scan" THEN a ELSE @]
  <2>1. t.at = "hdr" /\ a + RecHdrN <= size
    BY <1>12 DEF ReadHdr, Reading, Available, t
  <2>2. a \in Addr /\ a + 1 \in Addr /\ a + RecHdrN \in 0 .. FileCap
    BY <1>2, <2>1 DEF Addr, RecHdrN
  <2>3. hdr \in Cell \X Cell /\ hdr[1] \in Cell
    BY <1>2, <2>2
  <2>4. DecLen(hdr[1]) \in Nat
    BY <2>3, DecodeType
  <2>5. SetTop(h, u) /\ pos' = [pos EXCEPT ![h] = a + RecHdrN]
    BY <1>12 DEF ReadHdr, t
  <2> HIDE DEF hdr
  <2>6. u \in Call /\ u.hdr = hdr /\ u.at \in {"err", "pay"} /\ u.off = a
        /\ (u.at = "pay" => DecLen(hdr[1]) >= RecHdrN)
    <3>1. /\ t \in Call /\ t.op \in {"scan", "index"} /\ t.off \in 0 .. FileCap
          /\ (t.op # "scan" => t.off = a) /\ a \in 0 .. FileCap
      BY <1>2, <1>4, <2>1
    <3>2. CASE DecLen(hdr[1]) < RecHdrN
      BY <2>3, <3>1, <3>2 DEF Call
    <3>3. CASE ~(DecLen(hdr[1]) < RecHdrN)
      <4>1. DecLen(hdr[1]) >= RecHdrN
        BY <2>4, <3>3 DEF RecHdrN
      <4> QED  BY <2>3, <3>1, <3>3, <4>1 DEF Call
    <3> QED  BY <3>2, <3>3
  <2> HIDE DEF u
  <2> QED  BY <1>1, <2>2, <2>5, <2>6, ReadStep
<1>13. CASE ReadPay(h)
  <2> DEFINE n == DecLen(t.hdr[1]) - RecHdrN
             rec == [off |-> t.off, typ |-> DecTyp(t.hdr[2]), pay |-> SumOf(t.hdr[2])]
             u == [t EXCEPT !.at = IF t.op = "scan" THEN "cb" ELSE "hdr",
                            !.off = IF t.op = "scan" THEN @ ELSE t.off + DecLen(t.hdr[1]),
                            !.got = Append(@, rec)]
  <2>1. t.at = "pay" /\ pos[h] + n <= size
    BY <1>13 DEF ReadPay, Reading, PayOK, Available, PayN, t
  <2>2. n \in Nat /\ pos[h] + n \in 0 .. FileCap
        /\ t.off + DecLen(t.hdr[1]) = pos[h] + n
    BY <1>2, <1>3, <1>5, <2>1 DEF RecHdrN
  <2>3. SetTop(h, u) /\ pos' = [pos EXCEPT ![h] = pos[h] + n]
    BY <1>13 DEF ReadPay, NextIndexOff, PayN, t
  <2>4. rec \in Found
    BY <1>2, <1>5 DEF Found
  <2> HIDE DEF n, rec
  <2>5. Append(t.got, rec) \in Seq(Found)
    BY <1>2, <2>4
  <2>6. u \in Call /\ (u.at = "hdr" /\ u.op = "index" => u.off = pos[h] + n)
        /\ u.at \in {"cb", "hdr"} /\ (u.at = "cb" => u.op = "scan")
    BY <1>2, <2>2, <2>5 DEF Call
  <2> HIDE DEF u
  <2> QED  BY <1>1, <2>2, <2>3, <2>6, ReadStep
<1> QED  BY <1>7, <1>8, <1>9, <1>10, <1>11, <1>12, <1>13

\* A call returns to the one it was made from, or to the client.
LEMMA TypeReturn ==
    ASSUME TypeInv, NEW h \in Handles, Return(h)
    PROVE  TypeInv'
<1> DEFINE s == calls[h]
           u == SubSeq(s, 1, Len(s) - 1)
<1>1. /\ InCall(h) /\ TypeOK /\ Top(h) \in Call /\ s \in Seq(Call) /\ Len(s) \in Nat \ {0}
      /\ UNCHANGED <<fileVars, pc, writeVars, pos, history>>
      /\ calls' = [calls EXCEPT ![h] = u]
  BY TopType DEF Return, Reading, TypeInv
<1>2. \A k \in 1 .. Len(s) - 1 : s[k].at = "cb" /\ s[k].op = "scan"
  BY DEF TypeInv, ReaderOK
<1> HIDE DEF s
<1>3. /\ u \in Seq(Call) /\ Len(u) = Len(s) - 1
      /\ \A k \in 1 .. Len(u) : u[k] = s[k]
  <2>1. Len(s) - 1 \in 0 .. Len(s) /\ s \in Seq(Call)
    BY <1>1
  <2> QED  BY <2>1, PrefixOfSeq
<1> HIDE DEF u
<1>4. calls' \in [Handles -> Seq(Call)] /\ calls'[h] = u
      /\ \A g \in Handles : g # h => calls'[g] = calls[g]
  BY <1>1, <1>3 DEF TypeOK
<1>5. index' \in [Handles -> Seq(Found)]
  BY <1>1 DEF Return, TypeOK, Call
<1>6. TypeOK'
  BY <1>1, <1>4, <1>5 DEF TypeOK, fileVars, writeVars, history
<1>7. \A g \in Handles : WriterOK(g)'
  BY <1>1 DEF TypeInv, WriterOK, InWrite, Start, writeVars
<1>8. \A g \in Handles : g # h => ReaderOK(g)'
  BY <1>1, <1>4 DEF TypeInv, ReaderOK, InCall, Top, Live
<1>9. ReaderOK(h)'
  <2>1. \A k \in 1 .. Len(u) : u[k].at = "cb" /\ u[k].op = "scan"
    BY <1>1, <1>2, <1>3
  <2>2. u # << >> => Len(u) \in 1 .. Len(u)
    BY <1>3
  <2>3. Live(h)'
    BY <1>1 DEF TypeInv, ReaderOK, Live
  <2>4. \A k \in 1 .. Len(u) - 1 : u[k].at = "cb" /\ u[k].op = "scan"
    BY <1>1, <1>3, <2>1
  <2> QED  BY <1>4, <2>1, <2>2, <2>3, <2>4 DEF ReaderOK, InCall, Top
<1> QED  BY <1>6, <1>7, <1>8, <1>9 DEF TypeInv

\* A process is killed.
LEMMA TypeCrash ==
    ASSUME TypeInv, NEW h \in Handles, ProcCrash(h)
    PROVE  TypeInv'
<1>0. TypeOK /\ << >> \in Seq(Call) /\ << >> \in Seq(Found)
  BY DEF TypeInv
<1>1. calls' \in [Handles -> Seq(Call)] /\ index' \in [Handles -> Seq(Found)]
      /\ calls'[h] = << >> /\ pc'[h] = "none" /\ done'[h] = 0
  BY <1>0 DEF ProcCrash, TypeOK
<1>2. TypeOK'
  BY <1>0, <1>1 DEF ProcCrash, TypeOK, fileVars, history
<1>3. WriterSame(h) /\ WriterOK(h)'
  BY <1>0, <1>1 DEF ProcCrash, TypeOK, WriterSame, WriterOK, InWrite
<1>4. \A g \in Handles : g # h => calls'[g] = calls[g] /\ pos'[g] = pos[g] /\ pc'[g] = pc[g]
  BY <1>0 DEF ProcCrash, TypeOK
<1>5. \A g \in Handles : ReaderOK(g)'
  BY <1>1, <1>4 DEF TypeInv, ReaderOK, InCall, Top, Live
<1> QED  BY <1>2, <1>3, <1>5, WriterFrame DEF TypeInv

\* The power fails.
LEMMA TypePower ==
    ASSUME TypeInv, PowerFail
    PROVE  TypeInv'
<1>0. TypeOK /\ << >> \in Seq(Call) /\ << >> \in Seq(Found) /\ Zero \in Cell
  BY DEF TypeInv, Cell
<1>1. /\ \A h \in Handles : pc'[h] = "none" /\ calls'[h] = << >> /\ done'[h] = 0
      /\ pc' \in [Handles -> {"none", "head", "idle", "whdr", "wpay"}]
      /\ cur' \in [Handles -> Rec \union {NoRec}] /\ done' \in [Handles -> Nat]
      /\ calls' \in [Handles -> Seq(Call)] /\ index' \in [Handles -> Seq(Found)]
      /\ exists' \in BOOLEAN /\ UNCHANGED <<end, pos, synced, gap>>
  BY <1>0 DEF PowerFail
<1>2. PICK n \in disk.size .. size, kept \in SUBSET (0 .. (FileCap - 1) \div PageN),
           k \in Surviving(file', size') :
        /\ file' = [a \in Addr |-> IF a >= n \/ ~exists' THEN Zero
                                   ELSE IF a \div PageN \in kept THEN file[a]
                                   ELSE disk.cells[a]]
        /\ size' = IF exists' THEN n ELSE 0
        /\ disk' = [cells |-> file', size |-> size']
        /\ log' = SubSeq(log, 1, k)
  BY DEF PowerFail
<1>3. disk.size \in 0 .. FileCap /\ size \in 0 .. FileCap /\ FileCap \in Nat
      /\ file \in [Addr -> Cell] /\ disk.cells \in [Addr -> Cell]
  BY <1>0, FormatAssumption DEF TypeOK
<1>4. file' \in [Addr -> Cell]
  BY <1>0, <1>2, <1>3
<1>5. size' \in 0 .. FileCap
  BY <1>2, <1>3
<1>6. disk' \in [cells : [Addr -> Cell], size : 0 .. FileCap]
  BY <1>2, <1>4, <1>5
<1>7. log' \in Seq(Entry)
  <2>1. log \in Seq(Entry) /\ k \in 0 .. Len(log)
    BY <1>0 DEF TypeOK, Surviving
  <2> QED  BY <1>2, <2>1, PrefixOfSeq
<1>8. TypeOK'
  BY <1>0, <1>1, <1>4, <1>5, <1>6, <1>7 DEF TypeOK
<1>9. \A h \in Handles : WriterOK(h)' /\ ReaderOK(h)'
  BY <1>1 DEF WriterOK, ReaderOK, InWrite, InCall
<1> QED  BY <1>8, <1>9 DEF TypeInv

\* Every step preserves TypeInv.
LEMMA TypeNext == TypeInv /\ [Next]_vars => TypeInv'
<1> SUFFICES ASSUME TypeInv, [Next]_vars PROVE TypeInv'
  OBVIOUS
<1>1. CASE PowerFail
  BY <1>1, TypePower
<1>2. ASSUME NEW h \in Handles, Step(h) PROVE TypeInv'
  BY <1>2, TypeOpen, TypeWrite, TypeBegin, TypeRead, TypeReturn, TypeCrash
  DEF Step, Client, Write, Read
<1>3. CASE UNCHANGED vars
  <2>1. TypeOK'
    BY <1>3 DEF TypeInv, TypeOK, vars, fileVars, writeVars, readVars, history
  <2>2. \A h \in Handles : WriterOK(h)' /\ ReaderOK(h)'
    BY <1>3 DEF TypeInv, vars, writeVars, readVars, WriterOK, ReaderOK, InWrite,
                Start, InCall, Top, Live
  <2> QED  BY <2>1, <2>2 DEF TypeInv
<1> QED  BY <1>1, <1>2, <1>3 DEF Next

\* Every variable keeps its type in every behaviour of the code: w.end and the
\* offsets of an Index never pass the end of the file, and whatever bytes a
\* reader decodes, the Scan and Index loops stay within the file.
THEOREM TypeCorrect == Spec => []TypeOK
<1>1. TypeInv => TypeOK
  BY DEF TypeInv
<1> QED  BY <1>1, TypeInit, TypeNext, PTL DEF Spec

-----------------------------------------------------------------------------
(* The file and its header.                                                *)

\* A step of an open handle that keeps or closes it, and cuts nothing off.
LiveStep(h) ==
    /\ Live(h) /\ (Live(h)' \/ pc'[h] = "none")
    /\ \A g \in Handles : g # h => pc'[g] = pc[g]
    /\ exists' = exists /\ size <= size' /\ size' \in Nat

LEMMA LiveStepFile ==
    ASSUME TypeInv, FileInv, NEW h \in Handles, LiveStep(h)
    PROVE  FileInv'
<1>1. exists /\ FileHdrN <= size /\ size \in Nat
  BY FormatAssumption DEF FileInv, LiveStep, Live, TypeInv, TypeOK
<1>2. \A g \in Handles : pc[g] # "head"
  BY <1>1 DEF FileInv, FileHdrN
<1>3. \A g \in Handles : pc'[g] # "head"
  BY <1>2 DEF LiveStep, Live
<1>4. FileHdrN <= size'
  BY <1>1 DEF LiveStep, FileHdrN
<1> QED  BY <1>1, <1>3, <1>4 DEF FileInv, LiveStep

\* All steps but those of Create, Open and the environment are of that kind.
LEMMA IsLiveStep ==
    ASSUME TypeInv, NEW h \in Handles,
           \/ Close(h) \/ Sync(h) \/ BeginScan(h) \/ BeginIndex(h)
           \/ (\E r \in Rec : BeginWrite(h, r))
           \/ Write(h) \/ Read(h) \/ Callback(h)
    PROVE  LiveStep(h)
<1>1. TypeOK /\ size \in Nat /\ size <= size
  BY FormatAssumption DEF TypeInv, TypeOK
<1>2. CASE Close(h) \/ Sync(h) \/ BeginScan(h) \/ BeginIndex(h)
  BY <1>1, <1>2 DEF TypeOK, Close, Sync, BeginScan, BeginIndex, Begin, Free,
                    LiveStep, Live, fileVars
<1>3. CASE \E r \in Rec : BeginWrite(h, r)
  BY <1>1, <1>3 DEF TypeOK, BeginWrite, Free, LiveStep, Live, fileVars
<1>4. CASE Read(h) \/ Callback(h)
  BY <1>1, <1>4 DEF Read, ReadEOF, ReadShort, ReadHdr, ReadPay, ReadCorrupt,
                    ReadFail, Return, Callback, Reading, LiveStep, Live, fileVars
<1>5. CASE WriteFail(h)
  BY <1>1, <1>5 DEF TypeOK, WriteFail, InWrite, LiveStep, Live, fileVars
<1>6. CASE WriteCell(h) \/ WriteHdrLast(h) \/ WritePayLast(h)
  <2>1. InWrite(h) /\ PutCell(h) /\ Live(h) /\ exists' = exists
    BY <1>6 DEF WriteCell, WriteHdrLast, WritePayLast, InWrite, Live
  <2>2. size <= size' /\ size' \in 0 .. FileCap
    BY <2>1, PutCellType
  <2>3. Live(h)' /\ \A g \in Handles : g # h => pc'[g] = pc[g]
    BY <1>1, <1>6, <2>1 DEF TypeOK, WriteCell, WriteHdrLast, WritePayLast, Ack, Live
  <2> QED  BY <2>1, <2>2, <2>3, FormatAssumption DEF LiveStep
<1> QED  BY <1>2, <1>3, <1>4, <1>5, <1>6 DEF Write

LEMMA FileNext == TypeInv /\ FileInv /\ [Next]_vars => FileInv'
<1> SUFFICES ASSUME TypeInv, FileInv, [Next]_vars PROVE FileInv'
  OBVIOUS
<1>0. TypeOK /\ size \in Nat
  BY FormatAssumption DEF TypeInv, TypeOK
<1>1. CASE PowerFail
  <2>1. ~exists' => size' = 0
    BY <1>1 DEF PowerFail
  <2>2. \A h \in Handles : pc'[h] = "none"
    BY <1>1 DEF PowerFail
  <2> QED  BY <2>1, <2>2 DEF FileInv, Live
<1>2. ASSUME NEW h \in Handles, Step(h) PROVE FileInv'
  <2>1. CASE Create(h)
    BY <1>0, <2>1 DEF FileInv, Create, TypeOK, Live
  <2>2. CASE WriteHead(h)
    BY <1>0, <2>2 DEF FileInv, WriteHead, TypeOK, Live, FileHdrN
  <2>3. CASE WriteHeadFail(h)
    BY <1>0, <2>3 DEF FileInv, WriteHeadFail, TypeOK, Live
  <2>4. CASE Open(h)
    <3>1. exists /\ FileHdrN <= size
      BY <1>0, <2>4 DEF Open, HeadOK, FileHdrN
    <3> QED  BY <1>0, <2>4, <3>1 DEF FileInv, Open, fileVars, TypeOK, Live, FileHdrN
  <2>5. CASE ProcCrash(h)
    BY <1>0, <2>5 DEF FileInv, ProcCrash, fileVars, TypeOK, Live
  <2> QED  BY <1>2, <2>1, <2>2, <2>3, <2>4, <2>5, IsLiveStep, LiveStepFile
           DEF Step, Client
<1>3. CASE UNCHANGED vars
  BY <1>3 DEF FileInv, vars, fileVars, Live
<1> QED  BY <1>1, <1>2, <1>3 DEF Next

-----------------------------------------------------------------------------
(* Acknowledged appends stay intact.                                       *)

\* An acknowledged append has an address and a length.
LEMMA EntryType ==
    ASSUME NEW x \in Entry
    PROVE  /\ x.off \in Nat /\ RecN(x) \in Nat /\ RecN(x) = RecHdrN + Len(x.pay)
           /\ Len(x.pay) \in Nat /\ NextOff(x) = x.off + RecN(x) /\ NextOff(x) \in Nat
<1>1. x.off \in 0 .. FileCap /\ x.pay \in Payloads
  BY DEF Entry
<1>2. x.off \in Nat /\ RecN(x) \in Nat /\ RecN(x) = RecHdrN + Len(x.pay) /\ Len(x.pay) \in Nat
  BY <1>1, RecNType, FormatAssumption
<1> QED  BY <1>2 DEF NextOff

\* A file that is no shorter, and the same below the end of an intact entry,
\* holds it intact too.
LEMMA IntactKept ==
    ASSUME NEW x \in Entry, NEW f, NEW n \in Nat, NEW f2, NEW n2 \in Nat,
           Intact(f, n, x), NextOff(x) <= n2,
           \A a \in Nat : a < NextOff(x) => f2[a] = f[a]
    PROVE  Intact(f2, n2, x)
<1>1. \A i \in 1 .. RecN(x) : x.off + i - 1 \in Nat /\ x.off + i - 1 < NextOff(x)
  BY EntryType
<1> QED  BY <1>1 DEF Intact

\* What a step may do to the writers when it leaves the file and the log alone:
\* begin an append, give one up, or close the handle.
QuietWriters == \A g \in Writers : Live(g)' =>
    /\ Live(g)
    /\ \/ Start(g)' = Start(g) /\ done'[g] = done[g] /\ cur'[g] = cur[g]
       \/ /\ done'[g] = 0 /\ Start(g)' \in Nat
          /\ Start(g) <= Start(g)' /\ Start(g)' <= Start(g) + done[g]

LEMMA QuietLog ==
    ASSUME TypeInv, LogInv, UNCHANGED <<file, size, log>>, QuietWriters
    PROVE  LogInv'
<1>0. /\ TypeOK /\ size \in Nat /\ log \in Seq(Entry) /\ Len(log) \in Nat
      /\ \A i \in 1 .. Len(log) : NextOff(log[i]) \in Nat
  <2>1. TypeOK /\ size \in Nat /\ log \in Seq(Entry)
    BY FormatAssumption DEF TypeInv, TypeOK
  <2>2. \A i \in 1 .. Len(log) : log[i] \in Entry
    BY <2>1
  <2> QED  BY <2>1, <2>2, EntryType
<1>1. AckedIntact'
  BY DEF LogInv, AckedIntact, Intact
<1>2. ASSUME NEW g \in Writers, Live(g)'
      PROVE  InFlight(g)' /\ \A i \in 1 .. Len(log') : NextOff(log'[i]) <= Start(g)'
  <2>1. Live(g) /\ InFlight(g) /\ \A i \in 1 .. Len(log) : NextOff(log[i]) <= Start(g)
    BY <1>2 DEF QuietWriters, LogInv
  <2>2. g \in Handles /\ Start(g) \in Int /\ done[g] \in Nat
    BY <1>0, WalAssumption, FormatAssumption DEF Start, TypeOK, RecHdrN
  <2>3. CASE Start(g)' = Start(g) /\ done'[g] = done[g] /\ cur'[g] = cur[g]
    BY <2>1, <2>3 DEF InFlight
  <2>4. CASE /\ done'[g] = 0 /\ Start(g)' \in Nat
             /\ Start(g) <= Start(g)' /\ Start(g)' <= Start(g) + done[g]
    <3>1. InFlight(g)'
      BY <1>0, <2>1, <2>2, <2>4 DEF InFlight
    <3>2. \A i \in 1 .. Len(log) : NextOff(log[i]) <= Start(g)'
      BY <1>0, <2>1, <2>2, <2>4
    <3> QED  BY <3>1, <3>2
  <2> QED  BY <1>2, <2>3, <2>4 DEF QuietWriters
<1> QED  BY <1>1, <1>2 DEF LogInv

\* The cell that Write puts disturbs no acknowledged append, and extends the
\* one under way.
LEMMA PutCellLog ==
    ASSUME TypeInv, LogInv, NEW h \in Handles, InWrite(h), PutCell(h)
    PROVE  /\ \A i \in 1 .. Len(log) : Intact(file', size', log[i])
           /\ \A i \in 1 .. done[h] + 1 : file'[Start(h) + i - 1] = RecCell(cur[h], i)
<1> DEFINE a == Start(h) + done[h]
<1>1. /\ h \in Writers /\ Start(h) \in Nat /\ done[h] \in Nat /\ a \in Addr
      /\ size \in Nat /\ size' \in Nat /\ size <= size' /\ file \in [Addr -> Cell]
  BY PutCellType, FormatAssumption DEF TypeInv, TypeOK
<1>2. file' = [file EXCEPT ![a] = RecCell(cur[h], done[h] + 1)]
  BY DEF PutCell
<1>3. /\ InFlight(h) /\ AckedIntact
      /\ \A i \in 1 .. Len(log) : NextOff(log[i]) <= Start(h)
  BY <1>1 DEF LogInv, Live, InWrite
<1>4. ASSUME NEW i \in 1 .. Len(log) PROVE Intact(file', size', log[i])
  <2>1. log[i] \in Entry /\ NextOff(log[i]) \in Nat /\ Intact(file, size, log[i])
    BY <1>3, EntryType DEF TypeInv, TypeOK, AckedIntact
  <2>2. NextOff(log[i]) <= size'
    BY <1>1, <2>1 DEF Intact
  <2>3. \A b \in Nat : b < NextOff(log[i]) => file'[b] = file[b]
    BY <1>1, <1>2, <1>3, <2>1 DEF Addr
  <2> QED  BY <1>1, <2>1, <2>2, <2>3, IntactKept
<1>5. ASSUME NEW i \in 1 .. done[h] + 1
      PROVE  file'[Start(h) + i - 1] = RecCell(cur[h], i)
  <2>1. CASE i = done[h] + 1
    <3>1. Start(h) + i - 1 = a
      BY <1>1, <2>1
    <3> QED  BY <1>1, <1>2, <2>1, <3>1
  <2>2. CASE i \in 1 .. done[h]
    <3>1. Start(h) + i - 1 # a /\ file[Start(h) + i - 1] = RecCell(cur[h], i)
      BY <1>1, <1>3, <2>2 DEF InFlight
    <3> QED  BY <1>1, <1>2, <3>1
  <2> QED  BY <1>1, <2>1, <2>2
<1> QED  BY <1>4, <1>5

\* The entry that an acknowledged append adds to the log.
NewEntry(h) == [off |-> Start(h), typ |-> cur[h].typ, pay |-> cur[h].pay]

\* The last cell of an append makes it an intact entry behind all others.
LEMMA AckLog ==
    ASSUME SingleWriter, TypeInv, LogInv, NEW h \in Handles, InWrite(h), PutCell(h),
           Ack(h, Start(h)), done[h] + 1 = RecN(cur[h]),
           end'[h] = Start(h) + RecN(cur[h])
    PROVE  LogInv'
<1> DEFINE x == NewEntry(h)
<1>1. /\ h \in Writers /\ cur[h] \in Rec /\ Start(h) \in Nat /\ done[h] \in Nat
      /\ RecN(cur[h]) \in Nat /\ Start(h) + RecN(cur[h]) <= FileCap
      /\ size' \in Nat /\ Start(h) + done[h] + 1 <= size' /\ FileCap \in Nat
      /\ RecN(cur[h]) >= 1
  BY PutCellType, FormatAssumption DEF TypeInv, WriterOK, RecHdrN
<1>2. log \in Seq(Entry) /\ Len(log) \in Nat /\ \A i \in 1 .. Len(log) : log[i] \in Entry
  BY DEF TypeInv, TypeOK
<1>3. x \in Entry /\ RecN(x) = RecN(cur[h]) /\ NextOff(x) = Start(h) + RecN(cur[h])
      /\ \A i \in 1 .. RecN(x) : RecCell(x, i) = RecCell(cur[h], i)
  BY <1>1 DEF NewEntry, Rec, Entry, RecN, NextOff, RecCell
<1>4. x.off = Start(h)
  BY DEF NewEntry
<1> HIDE DEF x
<1>5. Intact(file', size', x)
  BY <1>1, <1>3, <1>4, PutCellLog DEF Intact
<1>6. log' = Append(log, x)
  BY DEF Ack, NewEntry, x
<1>7. /\ Len(log') = Len(log) + 1 /\ log'[Len(log) + 1] = x
      /\ \A i \in 1 .. Len(log) : log'[i] = log[i]
  BY <1>2, <1>3, <1>6
<1>8. AckedIntact'
  <2> SUFFICES ASSUME NEW i \in 1 .. Len(log) + 1 PROVE Intact(file', size', log'[i])
    BY <1>7 DEF AckedIntact
  <2>1. CASE i = Len(log) + 1
    BY <1>5, <1>7, <2>1
  <2>2. CASE i \in 1 .. Len(log)
    BY <1>7, <2>2, PutCellLog
  <2> QED  BY <1>2, <2>1, <2>2
<1>9. pc'[h] = "idle" /\ done'[h] = 0
  BY DEF Ack, TypeInv, TypeOK
<1>10. Start(h)' = Start(h) + RecN(cur[h])
  BY <1>9 DEF Start
<1>11. InFlight(h)'
  BY <1>1, <1>9, <1>10 DEF InFlight
<1>12. \A i \in 1 .. Len(log') : NextOff(log'[i]) <= Start(h)'
  <2> SUFFICES ASSUME NEW i \in 1 .. Len(log) + 1
               PROVE  NextOff(log'[i]) <= Start(h) + RecN(cur[h])
    BY <1>7, <1>10
  <2>1. CASE i = Len(log) + 1
    BY <1>1, <1>3, <1>7, <2>1
  <2>2. CASE i \in 1 .. Len(log)
    <3>1. NextOff(log[i]) \in Nat /\ NextOff(log[i]) <= Start(h)
      BY <1>1, <1>2, <2>2, EntryType DEF LogInv, Live, InWrite
    <3> QED  BY <1>1, <1>7, <2>2, <3>1
  <2> QED  BY <1>2, <2>1, <2>2
<1>13. \A g \in Writers : g = h
  BY <1>1 DEF SingleWriter
<1> QED  BY <1>8, <1>11, <1>12, <1>13 DEF LogInv

\* The steps of Write.
LEMMA LogWrite ==
    ASSUME SingleWriter, TypeInv, LogInv, NEW h \in Handles,
           WriteCell(h) \/ WriteHdrLast(h) \/ WritePayLast(h)
    PROVE  LogInv'
<1>1. InWrite(h) /\ PutCell(h)
  BY DEF WriteCell, WriteHdrLast, WritePayLast, InWrite
<1>2. /\ h \in Writers /\ cur[h] \in Rec /\ Start(h) \in Nat /\ done[h] \in Nat
      /\ RecN(cur[h]) = RecHdrN + Len(cur[h].pay) /\ Len(cur[h].pay) \in Nat
      /\ size' \in Nat /\ Start(h) + done[h] + 1 <= size' /\ FileCap \in Nat
      /\ TypeOK /\ end[h] \in Nat
  <2>1. /\ h \in Writers /\ cur[h] \in Rec /\ Start(h) \in Nat /\ done[h] \in Nat
        /\ RecN(cur[h]) = RecHdrN + Len(cur[h].pay) /\ Len(cur[h].pay) \in Nat
        /\ size' \in 0 .. FileCap /\ Start(h) + done[h] + 1 <= size'
    BY <1>1, PutCellType
  <2>2. FileCap \in Nat /\ TypeOK
    BY FormatAssumption DEF TypeInv
  <2>3. end[h] \in 0 .. FileCap
    BY <2>2 DEF TypeOK
  <2>4. end[h] \in Nat /\ size' \in Nat
    BY <2>1, <2>2, <2>3
  <2> QED  BY <2>1, <2>2, <2>4
<1>3. \A g \in Writers : g = h
  BY <1>2 DEF SingleWriter
<1>4. \A i \in 1 .. Len(log) : NextOff(log[i]) <= Start(h)
  BY <1>1, <1>2 DEF LogInv, Live, InWrite
\* The append goes on: one cell more of it is in the file.
<1>5. ASSUME log' = log, cur'[h] = cur[h], done'[h] = done[h] + 1, Start(h)' = Start(h)
      PROVE  LogInv'
  <2>1. InFlight(h)'
    BY <1>1, <1>2, <1>5, PutCellLog DEF InFlight
  <2>2. AckedIntact'
    BY <1>1, <1>5, PutCellLog DEF AckedIntact
  <2>3. \A i \in 1 .. Len(log') : NextOff(log'[i]) <= Start(h)'
    BY <1>4, <1>5
  <2> QED  BY <1>3, <2>1, <2>2, <2>3 DEF LogInv
<1>6. CASE WriteCell(h)
  <2>1. log' = log /\ cur'[h] = cur[h] /\ done'[h] = done[h] + 1 /\ Start(h)' = Start(h)
    BY <1>2, <1>6 DEF WriteCell, Start, TypeOK, history
  <2> QED  BY <1>5, <2>1
<1>7. CASE WriteHdrLast(h)
  <2>1. /\ Start(h) = end[h] /\ end'[h] = end[h] + RecHdrN /\ done[h] + 1 = RecHdrN
    BY <1>2, <1>7 DEF WriteHdrLast, AfterHdr, Start, TypeOK
  <2>2. CASE cur[h].pay = << >>
    <3>1. Ack(h, Start(h)) /\ RecN(cur[h]) = RecHdrN
      BY <1>2, <1>7, <2>2 DEF WriteHdrLast, RecHdrN
    <3> QED  BY <1>1, <2>1, <3>1, AckLog
  <2>3. CASE cur[h].pay # << >>
    <3>1. log' = log /\ cur'[h] = cur[h] /\ done'[h] = RecHdrN /\ pc'[h] = "wpay"
      BY <1>2, <1>7, <2>3 DEF WriteHdrLast, TypeOK
    <3>2. Start(h)' = Start(h)
      BY <1>2, <2>1, <3>1 DEF Start, RecHdrN
    <3> QED  BY <1>5, <2>1, <3>1, <3>2
  <2> QED  BY <2>2, <2>3
<1>8. CASE WritePayLast(h)
  <2>1. /\ Ack(h, Start(h)) /\ done[h] + 1 = RecN(cur[h])
        /\ Start(h) = end[h] - RecHdrN
        /\ end'[h] = end[h] + Len(cur[h].pay)
    BY <1>2, <1>8 DEF WritePayLast, AfterPay, Start, TypeOK
  <2>2. end'[h] = Start(h) + RecN(cur[h])
    <3>1. end[h] \in Nat /\ Len(cur[h].pay) \in Nat
      BY <1>2
    <3>2. end[h] + Len(cur[h].pay) = (end[h] - RecHdrN) + (RecHdrN + Len(cur[h].pay))
      BY <3>1 DEF RecHdrN
    <3> QED  BY <1>2, <2>1, <3>2
  <2> QED  BY <1>1, <2>1, <2>2, AckLog
<1> QED  BY <1>6, <1>7, <1>8

\* All steps but those that touch the file or bring a writer to life are quiet.
LEMMA IsQuiet ==
    ASSUME TypeInv, LogInv, NEW h \in Handles,
           \/ Create(h) \/ WriteHeadFail(h) \/ Close(h) \/ Sync(h) \/ BeginScan(h)
           \/ BeginIndex(h) \/ (\E r \in Rec : BeginWrite(h, r)) \/ WriteFail(h)
           \/ Read(h) \/ Callback(h) \/ ProcCrash(h)
    PROVE  QuietWriters /\ UNCHANGED <<file, size, log>>
<1>0. /\ TypeOK /\ WriterOK(h) /\ done[h] \in Nat
      /\ \A g \in Writers : g \in Handles
      /\ \A g \in Handles : end[g] \in Nat
  BY WalAssumption, FormatAssumption DEF TypeInv, TypeOK
<1>1. CASE Create(h) \/ WriteHeadFail(h) \/ Close(h)
  BY <1>0, <1>1 DEF TypeOK, Create, WriteHeadFail, Close, writeVars, history, fileVars,
                    QuietWriters, Live, Start
<1>2. CASE Sync(h) \/ BeginScan(h) \/ BeginIndex(h)
  BY <1>0, <1>2 DEF Sync, BeginScan, BeginIndex, Begin, writeVars, history, fileVars,
                    QuietWriters, Live, Start
<1>3. CASE Read(h) \/ Callback(h)
  BY <1>3 DEF Read, ReadEOF, ReadShort, ReadHdr, ReadPay, ReadCorrupt, ReadFail,
              Return, Callback, writeVars, history, fileVars, QuietWriters, Live, Start
<1>4. CASE ProcCrash(h)
  BY <1>0, <1>4 DEF TypeOK, ProcCrash, history, fileVars, QuietWriters, Live, Start
<1>5. ASSUME NEW r \in Rec, BeginWrite(h, r)
      PROVE  QuietWriters /\ UNCHANGED <<file, size, log>>
  <2>1. Start(h) = end[h] /\ Start(h)' = end[h] /\ Live(h) /\ done'[h] = 0
        /\ UNCHANGED <<file, size, log>>
    BY <1>0, <1>5 DEF TypeOK, BeginWrite, Free, fileVars, history, Start, Live
  <2>2. \A g \in Handles : g # h => /\ pc'[g] = pc[g] /\ end'[g] = end[g]
                                    /\ cur'[g] = cur[g] /\ done'[g] = done[g]
    BY <1>0, <1>5 DEF TypeOK, BeginWrite
  <2> QED  BY <1>0, <2>1, <2>2 DEF QuietWriters, Live, Start
<1>6. CASE WriteFail(h)
  <2>1. /\ Start(h)' = end[h] /\ Live(h) /\ done'[h] = 0
        /\ UNCHANGED <<file, size, log>>
    BY <1>0, <1>6 DEF TypeOK, WriteFail, InWrite, fileVars, Start, Live
  <2>2. \A g \in Handles : g # h => /\ pc'[g] = pc[g] /\ end'[g] = end[g]
                                    /\ cur'[g] = cur[g] /\ done'[g] = done[g]
    BY <1>0, <1>6 DEF TypeOK, WriteFail
  <2>3. Start(h) <= end[h] /\ end[h] <= Start(h) + done[h] /\ end[h] \in Nat
    BY <1>0, <1>6 DEF WriteFail, InWrite, Start, WriterOK, RecHdrN
  <2> QED  BY <1>0, <2>1, <2>2, <2>3 DEF QuietWriters, Live, Start
<1> QED  BY <1>1, <1>2, <1>3, <1>4, <1>5, <1>6

LEMMA LogNext ==
    SingleWriter /\ TypeInv /\ FileInv /\ LogInv /\ [Next]_vars => LogInv'
<1> SUFFICES ASSUME SingleWriter, TypeInv, FileInv, LogInv, [Next]_vars PROVE LogInv'
  OBVIOUS
<1>0. /\ TypeOK /\ log \in Seq(Entry) /\ size \in Nat /\ FileHdrN \in Nat
      /\ Writers \subseteq Handles
      /\ Len(log) \in Nat /\ \A i \in 1 .. Len(log) : log[i] \in Entry
      /\ \A i \in 1 .. Len(log) : NextOff(log[i]) \in Nat /\ NextOff(log[i]) <= size
  <2>1. TypeOK /\ log \in Seq(Entry) /\ size \in Nat /\ FileHdrN \in Nat
        /\ Writers \subseteq Handles
    BY FormatAssumption, WalAssumption DEF TypeInv, TypeOK, FileHdrN
  <2>2. Len(log) \in Nat /\ \A i \in 1 .. Len(log) : log[i] \in Entry
    BY <2>1
  <2>3. \A i \in 1 .. Len(log) : NextOff(log[i]) <= size
    BY DEF LogInv, AckedIntact, Intact
  <2> QED  BY <2>1, <2>2, <2>3, EntryType
<1>1. CASE PowerFail
  <2>1. PICK k \in Surviving(file', size') : log' = SubSeq(log, 1, k)
    BY <1>1 DEF PowerFail
  <2>2. /\ k \in 0 .. Len(log)
        /\ \A i \in 1 .. k : Intact(file', size', log[i])
    BY <2>1 DEF Surviving
  <2>3. Len(log') = k /\ \A i \in 1 .. k : log'[i] = log[i]
    BY <1>0, <2>1, <2>2, PrefixOfSeq
  <2>4. \A h \in Handles : ~Live(h)'
    BY <1>1 DEF PowerFail, Live
  <2> QED  BY <1>0, <2>2, <2>3, <2>4 DEF LogInv, AckedIntact
<1>2. ASSUME NEW h \in Handles, Step(h) PROVE LogInv'
  <2>1. CASE WriteHead(h)
    <3>1. size = 0 /\ \A g \in Handles : g # h => pc[g] = "none"
      BY <2>1 DEF WriteHead, FileInv
    <3>2. \A i \in 1 .. Len(log) : FALSE
      <4> SUFFICES ASSUME NEW i \in 1 .. Len(log) PROVE FALSE
        OBVIOUS
      <4>1. NextOff(log[i]) <= 0 /\ NextOff(log[i]) \in Nat
        BY <1>0, <3>1
      <4>2. NextOff(log[i]) >= RecHdrN
        <5>1. log[i] \in Entry
          BY <1>0
        <5> QED  BY <5>1, EntryType DEF RecHdrN
      <4> QED  BY <4>1, <4>2 DEF RecHdrN
    <3>3. \A g \in Handles : g # h => ~Live(g)'
      BY <1>0, <2>1, <3>1 DEF WriteHead, TypeOK, Live
    <3>4. log' = log /\ pc'[h] = "idle" /\ end'[h] = FileHdrN /\ done'[h] = done[h]
          /\ size' = FileHdrN
      BY <1>0, <2>1 DEF WriteHead, TypeOK, history
    <3>5. done[h] = 0
      BY <2>1 DEF TypeInv, WriterOK, WriteHead, InWrite
    <3>6. InFlight(h)'
      BY <1>0, <3>4, <3>5 DEF InFlight, Start
    <3> QED  BY <1>0, <3>2, <3>3, <3>4, <3>6 DEF LogInv, AckedIntact
  <2>2. CASE Open(h)
    <3>1. /\ UNCHANGED <<file, size, log, cur, done>> /\ pc'[h] = "idle"
          /\ end'[h] = size /\ done[h] = 0
      BY <1>0, <2>2 DEF Open, TailOffset, fileVars, TypeOK, TypeInv, WriterOK, InWrite
    <3>2. \A g \in Handles : g # h => pc'[g] = pc[g] /\ end'[g] = end[g]
      BY <1>0, <2>2 DEF Open, TypeOK
    <3>3. AckedIntact'
      BY <3>1 DEF LogInv, AckedIntact, Intact
    <3>4. InFlight(h)' /\ \A i \in 1 .. Len(log') : NextOff(log'[i]) <= Start(h)'
      BY <1>0, <3>1 DEF InFlight, Start
    <3>5. ASSUME NEW g \in Writers, g # h, Live(g)'
          PROVE  InFlight(g)' /\ \A i \in 1 .. Len(log') : NextOff(log'[i]) <= Start(g)'
      BY <1>0, <3>1, <3>2, <3>5 DEF LogInv, InFlight, Start, Live
    <3> QED  BY <3>3, <3>4, <3>5 DEF LogInv
  <2> QED  BY <1>2, <2>1, <2>2, LogWrite, IsQuiet, QuietLog DEF Step, Client, Write
<1>3. CASE UNCHANGED vars
  <2>1. QuietWriters /\ UNCHANGED <<file, size, log>>
    BY <1>3 DEF vars, fileVars, writeVars, history, QuietWriters, Live, Start
  <2> QED  BY <2>1, QuietLog
<1> QED  BY <1>1, <1>2, <1>3 DEF Next

LEMMA FileLogInit == Init => FileInv /\ LogInv
<1> SUFFICES ASSUME Init PROVE FileInv /\ LogInv
  OBVIOUS
<1>1. size = 0 /\ log = << >> /\ \A h \in Handles : pc[h] = "none"
  BY DEF Init
<1>2. Len(log) = 0
  BY <1>1
<1> QED  BY <1>1, <1>2, WalAssumption DEF FileInv, LogInv, AckedIntact, Live

\* With one writer at most, no append that Write acknowledged is ever damaged:
\* not by later appends, failed ones and their retries, crashes, reopenings or
\* readers, nor, as long as it survives at all, by a power failure.
THEOREM AckedStayIntact ==
    ASSUME SingleWriter
    PROVE  Spec => []AckedIntact
<1>1. LogInv => AckedIntact
  BY DEF LogInv
<1>2. (TypeInv /\ FileInv /\ LogInv) /\ [Next]_vars
        => (TypeInv /\ FileInv /\ LogInv)'
  BY TypeNext, FileNext, LogNext
<1>3. Init => TypeInv /\ FileInv /\ LogInv
  BY TypeInit, FileLogInit
<1> QED  BY <1>1, <1>2, <1>3, PTL DEF Spec

-----------------------------------------------------------------------------
(* Appends are lost only behind a gap.                                     *)

\* A step leaves the log alone, and every open writer where it was, unless it
\* records a gap.
QuietGap ==
    /\ log' = log
    /\ ~gap' => /\ ~gap
                /\ \A g \in Writers : Live(g)' => Live(g) /\ Start(g)' = Start(g)

LEMMA QuietGapInv ==
    ASSUME GapInv, QuietGap
    PROVE  GapInv'
BY DEF GapInv, QuietGap, Contiguous, LogEnd

LEMMA IsQuietGap ==
    ASSUME TypeInv, NEW h \in Handles,
           \/ Create(h) \/ WriteHeadFail(h) \/ Close(h) \/ Sync(h) \/ BeginScan(h)
           \/ BeginIndex(h) \/ (\E r \in Rec : BeginWrite(h, r)) \/ WriteFail(h)
           \/ Read(h) \/ Callback(h) \/ ProcCrash(h) \/ WriteCell(h)
    PROVE  QuietGap
<1>0. TypeOK /\ \A g \in Writers : g \in Handles
  BY WalAssumption DEF TypeInv
<1>1. CASE Create(h) \/ WriteHeadFail(h) \/ Close(h)
  BY <1>0, <1>1 DEF TypeOK, Create, WriteHeadFail, Close, writeVars, history,
                    QuietGap, Live, Start
<1>2. CASE Sync(h) \/ BeginScan(h) \/ BeginIndex(h)
  BY <1>0, <1>2 DEF Sync, BeginScan, BeginIndex, Begin, writeVars, history,
                    QuietGap, Live, Start
<1>3. CASE Read(h) \/ Callback(h)
  BY <1>3 DEF Read, ReadEOF, ReadShort, ReadHdr, ReadPay, ReadCorrupt, ReadFail,
              Return, Callback, writeVars, history, QuietGap, Live, Start
<1>4. CASE ProcCrash(h)
  BY <1>0, <1>4 DEF TypeOK, ProcCrash, history, QuietGap, Live, Start
<1>5. ASSUME NEW r \in Rec, BeginWrite(h, r) PROVE QuietGap
  <2>1. Live(h) /\ Start(h) = end[h] /\ pc'[h] = "whdr" /\ end' = end
        /\ log' = log /\ gap' = gap
    BY <1>0, <1>5 DEF TypeOK, BeginWrite, Free, history, Start, Live
  <2>2. \A g \in Handles : g # h => pc'[g] = pc[g]
    BY <1>0, <1>5 DEF TypeOK, BeginWrite
  <2> QED  BY <1>0, <2>1, <2>2 DEF QuietGap, Live, Start
<1>6. CASE WriteFail(h)
  <2>1. pc'[h] = "idle" /\ end' = end /\ log' = log /\ Live(h)
    BY <1>0, <1>6 DEF TypeOK, WriteFail, InWrite, Live
  <2>2. \A g \in Handles : g # h => pc'[g] = pc[g]
    BY <1>0, <1>6 DEF TypeOK, WriteFail
  <2>3. ~gap' => ~gap /\ pc[h] = "whdr"
    BY <1>6 DEF WriteFail, InWrite
  <2> QED  BY <1>0, <2>1, <2>2, <2>3 DEF QuietGap, Live, Start
<1>7. CASE WriteCell(h)
  BY <1>7 DEF WriteCell, history, QuietGap, Live, Start
<1> QED  BY <1>1, <1>2, <1>3, <1>4, <1>5, <1>6, <1>7

\* An acknowledged append is put right behind the last one.
LEMMA AckGap ==
    ASSUME SingleWriter, TypeInv, GapInv, NEW h \in Handles, InWrite(h), PutCell(h),
           Ack(h, Start(h)), end'[h] = Start(h) + RecN(cur[h]), gap' = gap
    PROVE  GapInv'
<1> SUFFICES ASSUME ~gap
             PROVE  /\ Contiguous(Len(log))'
                    /\ \A g \in Writers : Live(g)' => Start(g)' = LogEnd'
  BY DEF GapInv
<1> DEFINE x == NewEntry(h)
<1>1. /\ h \in Writers /\ cur[h] \in Rec /\ Start(h) \in Nat
      /\ Start(h) + RecN(cur[h]) <= FileCap /\ RecN(cur[h]) \in Nat
  BY PutCellType DEF TypeInv, WriterOK
<1>2. Contiguous(Len(log)) /\ Start(h) = LogEnd
  BY <1>1 DEF GapInv, Live, InWrite
<1>3. log \in Seq(Entry) /\ Len(log) \in Nat
  BY DEF TypeInv, TypeOK
<1>4. x \in Entry /\ x.off = Start(h) /\ NextOff(x) = Start(h) + RecN(cur[h])
  BY <1>1, FormatAssumption DEF NewEntry, Rec, Entry, RecN, NextOff
<1>5. log' = Append(log, x)
  BY DEF Ack, NewEntry
<1> HIDE DEF x
<1>6. /\ Len(log') = Len(log) + 1 /\ log'[Len(log) + 1] = x /\ log' # << >>
      /\ \A i \in 1 .. Len(log) : log'[i] = log[i]
  BY <1>3, <1>4, <1>5
<1>7. Contiguous(Len(log))'
  <2> SUFFICES ASSUME NEW i \in 1 .. Len(log) + 1
               PROVE  log'[i].off = IF i = 1 THEN FileHdrN ELSE NextOff(log'[i - 1])
    BY <1>6 DEF Contiguous
  <2>1. CASE i \in 1 .. Len(log)
    <3>1. log[i].off = IF i = 1 THEN FileHdrN ELSE NextOff(log[i - 1])
      BY <1>2, <2>1 DEF Contiguous
    <3>2. log'[i] = log[i] /\ (i # 1 => log'[i - 1] = log[i - 1])
      BY <1>3, <1>6, <2>1
    <3> QED  BY <3>1, <3>2
  <2>2. CASE i = Len(log) + 1 /\ log = << >>
    <3>1. i = 1
      BY <2>2
    <3> QED  BY <1>2, <1>4, <1>6, <2>2, <3>1 DEF LogEnd
  <2>3. CASE i = Len(log) + 1 /\ log # << >>
    <3>1. i # 1 /\ i - 1 = Len(log) /\ log'[i - 1] = log[Len(log)]
      BY <1>3, <1>6, <2>3
    <3> QED  BY <1>2, <1>4, <1>6, <2>3, <3>1 DEF LogEnd
  <2> QED  BY <1>3, <2>1, <2>2, <2>3
<1>8. pc'[h] = "idle"
  BY DEF Ack, TypeInv, TypeOK
<1>9. Start(h)' = LogEnd'
  BY <1>4, <1>6, <1>8 DEF Start, LogEnd
<1>10. \A g \in Writers : g = h
  BY <1>1 DEF SingleWriter
<1> QED  BY <1>7, <1>9, <1>10

LEMMA GapNext ==
    SingleWriter /\ TypeInv /\ FileInv /\ LogInv /\ GapInv /\ [Next]_vars => GapInv'
<1> SUFFICES ASSUME SingleWriter, TypeInv, FileInv, LogInv, GapInv, [Next]_vars
             PROVE  GapInv'
  OBVIOUS
<1>0. /\ TypeOK /\ log \in Seq(Entry) /\ Len(log) \in Nat
      /\ \A g \in Writers : g \in Handles
      /\ \A i \in 1 .. Len(log) : log[i] \in Entry
  BY WalAssumption DEF TypeInv, TypeOK
<1>1. CASE PowerFail
  <2>1. PICK k \in 0 .. Len(log) : log' = SubSeq(log, 1, k)
    BY <1>1 DEF PowerFail, Surviving
  <2>2. Len(log') = k /\ \A i \in 1 .. k : log'[i] = log[i]
    BY <1>0, <2>1, PrefixOfSeq
  <2>3. \A h \in Handles : ~Live(h)'
    BY <1>1 DEF PowerFail, Live
  <2>4. gap' = gap
    BY <1>1 DEF PowerFail
  <2>5. Contiguous(Len(log)) => Contiguous(Len(log))'
    <3> SUFFICES ASSUME Contiguous(Len(log)), NEW i \in 1 .. k
                 PROVE  log'[i].off = IF i = 1 THEN FileHdrN ELSE NextOff(log'[i - 1])
      BY <2>2 DEF Contiguous
    <3>1. log[i].off = IF i = 1 THEN FileHdrN ELSE NextOff(log[i - 1])
      BY <1>0, <2>1 DEF Contiguous
    <3>2. log'[i] = log[i] /\ (i # 1 => log'[i - 1] = log[i - 1])
      BY <2>1, <2>2
    <3> QED  BY <3>1, <3>2
  <2> QED  BY <1>0, <2>3, <2>4, <2>5 DEF GapInv
<1>2. ASSUME NEW h \in Handles, Step(h) PROVE GapInv'
  <2>1. CASE WriteHead(h)
    <3>1. size = 0 /\ \A g \in Handles : g # h => pc[g] = "none"
      BY <2>1 DEF WriteHead, FileInv
    <3>2. log = << >>
      <4>1. ASSUME NEW i \in 1 .. Len(log) PROVE NextOff(log[i]) <= size
        <5>1. Intact(file, size, log[i])
          BY DEF LogInv, AckedIntact
        <5> QED  BY <5>1 DEF Intact
      <4>2. ASSUME NEW i \in 1 .. Len(log) PROVE FALSE
        <5>1. log[i] \in Entry
          BY <1>0
        <5>2. /\ log[i].off \in Nat /\ Len(log[i].pay) \in Nat
              /\ NextOff(log[i]) = log[i].off + (RecHdrN + Len(log[i].pay))
          BY <5>1, EntryType
        <5>3. NextOff(log[i]) > 0
          BY <5>2 DEF RecHdrN
        <5> QED  BY <3>1, <4>1, <5>2, <5>3 DEF RecHdrN
      <4>3. \A i \in 1 .. Len(log) : FALSE
        BY <4>2
      <4> QED  BY <1>0, <4>3
    <3>3. \A g \in Handles : g # h => ~Live(g)'
      BY <1>0, <2>1, <3>1 DEF WriteHead, TypeOK, Live
    <3>4. log' = log /\ pc'[h] = "idle" /\ end'[h] = FileHdrN
      BY <1>0, <2>1 DEF WriteHead, TypeOK, history
    <3>5. Contiguous(Len(log))' /\ Start(h)' = LogEnd'
      BY <3>2, <3>4 DEF Contiguous, Start, LogEnd
    <3> QED  BY <1>0, <3>3, <3>5 DEF GapInv
  <2>2. CASE Open(h)
    <3>1. /\ log' = log /\ pc'[h] = "idle" /\ end'[h] = size
          /\ (~gap' => ~gap /\ (h \in Writers => size = LogEnd))
      BY <1>0, <2>2 DEF Open, TailOffset, TypeOK
    <3>2. \A g \in Handles : g # h => pc'[g] = pc[g] /\ end'[g] = end[g]
      BY <1>0, <2>2 DEF Open, TypeOK
    <3>3. Contiguous(Len(log)) => Contiguous(Len(log))'
      BY <3>1 DEF Contiguous
    <3> QED  BY <1>0, <3>1, <3>2, <3>3 DEF GapInv, Start, Live, LogEnd
  <2>3. CASE WriteHdrLast(h)
    <3>1. /\ InWrite(h) /\ PutCell(h) /\ Start(h) = end[h] /\ gap' = gap
          /\ end' = [end EXCEPT ![h] = end[h] + RecHdrN]
      BY <2>3 DEF WriteHdrLast, InWrite, AfterHdr, Start
    <3>2. end[h] \in Nat /\ end'[h] = end[h] + RecHdrN
          /\ RecN(cur[h]) = RecHdrN + Len(cur[h].pay) /\ Len(cur[h].pay) \in Nat
      <4>1. end[h] \in 0 .. FileCap /\ end'[h] = end[h] + RecHdrN
        BY <1>0, <3>1 DEF TypeOK
      <4> QED  BY <3>1, <4>1, PutCellType, FormatAssumption
    <3>3. CASE cur[h].pay = << >>
      <4>1. Ack(h, Start(h)) /\ RecN(cur[h]) = RecHdrN
        BY <2>3, <3>2, <3>3 DEF WriteHdrLast, RecHdrN
      <4> QED  BY <3>1, <3>2, <4>1, AckGap
    <3>4. CASE cur[h].pay # << >>
      <4>1. pc' = [pc EXCEPT ![h] = "wpay"] /\ log' = log
        BY <2>3, <3>4 DEF WriteHdrLast
      <4>2. pc'[h] = "wpay" /\ Live(h)
            /\ \A g \in Handles : g # h => pc'[g] = pc[g] /\ end'[g] = end[g]
        BY <1>0, <3>1, <4>1 DEF TypeOK, Live, InWrite
      <4>3. Start(h)' = Start(h)
        BY <3>1, <3>2, <4>2 DEF Start, RecHdrN
      <4>4. QuietGap
        BY <1>0, <3>1, <4>1, <4>2, <4>3 DEF QuietGap, Start, Live
      <4> QED  BY <4>4, QuietGapInv
    <3> QED  BY <3>3, <3>4
  <2>4. CASE WritePayLast(h)
    <3>1. /\ InWrite(h) /\ PutCell(h) /\ Start(h) = end[h] - RecHdrN /\ gap' = gap
          /\ Ack(h, Start(h)) /\ end' = [end EXCEPT ![h] = end[h] + Len(cur[h].pay)]
      BY <2>4 DEF WritePayLast, InWrite, AfterPay, Start
    <3>2. /\ RecN(cur[h]) = RecHdrN + Len(cur[h].pay) /\ Len(cur[h].pay) \in Nat
          /\ end[h] \in 0 .. FileCap /\ end'[h] = end[h] + Len(cur[h].pay)
      BY <1>0, <3>1, PutCellType DEF TypeOK
    <3>3. end[h] \in Nat
      BY <3>2, FormatAssumption
    <3>4. end[h] + Len(cur[h].pay) = (end[h] - RecHdrN) + (RecHdrN + Len(cur[h].pay))
      BY <3>2, <3>3 DEF RecHdrN
    <3>5. end'[h] = Start(h) + RecN(cur[h])
      BY <3>1, <3>2, <3>4
    <3> QED  BY <3>1, <3>5, AckGap
  <2> QED  BY <1>2, <2>1, <2>2, <2>3, <2>4, IsQuietGap, QuietGapInv
           DEF Step, Client, Write
<1>3. CASE UNCHANGED vars
  <2>1. QuietGap
    BY <1>3 DEF vars, writeVars, history, QuietGap, Live, Start
  <2> QED  BY <2>1, QuietGapInv
<1> QED  BY <1>1, <1>2, <1>3 DEF Next

\* With one writer at most, appends stay within the reach of Scan unless an
\* append failed between its header and its payload, or a writer opened a file
\* with a torn tail.  A failed header write and its retry, a crash between two
\* appends, and any number of readers cost nothing.
THEOREM NoLossUnlessGap ==
    ASSUME SingleWriter
    PROVE  Spec => []NoLossWithoutGap
<1>1. GapInv => NoLossWithoutGap
  BY DEF GapInv, NoLossWithoutGap
<1>2. (TypeInv /\ FileInv /\ LogInv /\ GapInv) /\ [Next]_vars
        => (TypeInv /\ FileInv /\ LogInv /\ GapInv)'
  BY TypeNext, FileNext, LogNext, GapNext
<1>3. Init => TypeInv /\ FileInv /\ LogInv /\ GapInv
  <2>1. ASSUME Init PROVE GapInv
    <3>1. log = << >> /\ \A h \in Handles : ~Live(h)
      BY <2>1 DEF Init, Live
    <3>2. Len(log) = 0
      BY <3>1
    <3> QED  BY <3>1, <3>2, WalAssumption DEF GapInv, Contiguous
  <2> QED  BY <2>1, TypeInit, FileLogInit
<1> QED  BY <1>1, <1>2, <1>3, PTL DEF Spec

-----------------------------------------------------------------------------
(* What a Sync covered survives.                                           *)

\* The log only grows, the file does not shrink, nothing is synced.
LogGrows ==
    /\ UNCHANGED <<disk, synced>> /\ size <= size' /\ size' \in Nat
    /\ Len(log') \in Nat /\ Len(log) <= Len(log')
    /\ \A i \in 1 .. Len(log) : log'[i] = log[i]

LEMMA LogGrowsDisk ==
    ASSUME TypeInv, DiskInv, LogGrows
    PROVE  DiskInv'
<1>1. disk.size \in Nat /\ size \in Nat /\ synced \in Nat /\ Len(log) \in Nat
  BY FormatAssumption DEF TypeInv, TypeOK
<1>2. disk.size <= size' /\ synced <= Len(log')
  BY <1>1 DEF DiskInv, LogGrows
<1>3. \A i \in 1 .. synced : Intact(disk.cells, disk.size, log'[i])
  BY <1>1 DEF DiskInv, LogGrows
<1> QED  BY <1>2, <1>3 DEF DiskInv, LogGrows, Intact

LEMMA AckGrows ==
    ASSUME TypeInv, NEW h \in Handles, NEW off, Ack(h, off)
    PROVE  /\ Len(log') \in Nat /\ Len(log) <= Len(log')
           /\ \A i \in 1 .. Len(log) : log'[i] = log[i]
BY DEF TypeInv, TypeOK, Ack

LEMMA StepGrows ==
    ASSUME TypeInv, FileInv, NEW h \in Handles, Step(h), ~Sync(h)
    PROVE  LogGrows
<1>0. TypeOK /\ size \in Nat /\ Len(log) \in Nat
  BY FormatAssumption DEF TypeInv, TypeOK
<1>1. CASE \/ Create(h) \/ WriteHeadFail(h) \/ Open(h) \/ Close(h)
           \/ BeginScan(h) \/ BeginIndex(h) \/ (\E r \in Rec : BeginWrite(h, r))
           \/ ProcCrash(h) \/ WriteFail(h)
  BY <1>0, <1>1 DEF Create, WriteHeadFail, Open, Close, BeginScan, BeginIndex, Begin,
                    BeginWrite, ProcCrash, WriteFail, fileVars, history, LogGrows
<1>2. CASE Read(h) \/ Callback(h)
  BY <1>0, <1>2 DEF Read, ReadEOF, ReadShort, ReadHdr, ReadPay, ReadCorrupt, ReadFail,
                    Return, Callback, fileVars, history, LogGrows
<1>3. CASE WriteHead(h)
  BY <1>0, <1>3 DEF WriteHead, FileInv, history, LogGrows, FileHdrN
<1>4. CASE WriteCell(h) \/ WriteHdrLast(h) \/ WritePayLast(h)
  <2>1. InWrite(h) /\ PutCell(h) /\ UNCHANGED <<disk, synced>>
    BY <1>4 DEF WriteCell, WriteHdrLast, WritePayLast, InWrite, history
  <2>2. size <= size' /\ size' \in Nat
    BY <2>1, PutCellType, FormatAssumption
  <2>3. log' = log \/ Ack(h, Start(h))
    BY <1>4 DEF WriteCell, WriteHdrLast, WritePayLast, history
  <2> QED  BY <1>0, <2>1, <2>2, <2>3, AckGrows DEF LogGrows
<1> QED  BY <1>1, <1>2, <1>3, <1>4 DEF Step, Client, Write

\* After a power failure the synced appends are among the survivors: each of
\* their cells is the same in the page cache and on disk.
LEMMA PowerDisk ==
    ASSUME TypeInv, LogInv, DiskInv, PowerFail
    PROVE  DiskInv'
<1>0. /\ TypeOK /\ log \in Seq(Entry) /\ Len(log) \in Nat /\ synced \in Nat
      /\ \A i \in 1 .. Len(log) : log[i] \in Entry
      /\ disk.size \in 0 .. FileCap /\ size \in 0 .. FileCap /\ FileCap \in Nat
  BY FormatAssumption DEF TypeInv, TypeOK
<1>1. PICK n \in disk.size .. size, kept \in SUBSET (0 .. (FileCap - 1) \div PageN),
           k \in Surviving(file', size') :
        /\ file' = [a \in Addr |-> IF a >= n \/ ~exists' THEN Zero
                                   ELSE IF a \div PageN \in kept THEN file[a]
                                   ELSE disk.cells[a]]
        /\ size' = IF exists' THEN n ELSE 0
        /\ disk' = [cells |-> file', size |-> size']
        /\ \A j \in Surviving(file', size') : j <= k
        /\ log' = SubSeq(log, 1, k)
  BY DEF PowerFail
<1>2. synced' = synced /\ (disk.size # 0 => exists')
  BY DEF PowerFail
<1>3. /\ k \in 0 .. Len(log) /\ \A i \in 1 .. k : Intact(file', size', log[i])
  BY DEF Surviving
<1>4. Len(log') = k /\ \A i \in 1 .. k : log'[i] = log[i]
  BY <1>0, <1>1, <1>3, PrefixOfSeq
<1>5. size' \in Nat
  BY <1>0, <1>1
<1>6. ASSUME NEW i \in 1 .. synced PROVE Intact(file', size', log[i])
  <2> DEFINE x == log[i]
  <2>1. /\ i \in 1 .. Len(log) /\ x \in Entry
        /\ Intact(file, size, x) /\ Intact(disk.cells, disk.size, x)
    BY <1>0 DEF DiskInv, LogInv, AckedIntact
  <2> HIDE DEF x
  <2>2. /\ x.off \in Nat /\ RecN(x) \in Nat /\ RecN(x) >= RecHdrN
        /\ NextOff(x) = x.off + RecN(x) /\ NextOff(x) <= disk.size
    BY <2>1, EntryType DEF Intact, RecHdrN
  <2>3. disk.size # 0 /\ exists' /\ size' = n
    BY <1>0, <1>1, <1>2, <2>2 DEF RecHdrN
  <2>4. NextOff(x) <= size'
    BY <1>0, <1>1, <2>2, <2>3
  <2>5. ASSUME NEW j \in 1 .. RecN(x) PROVE file'[x.off + j - 1] = RecCell(x, j)
    <3>1. x.off + j - 1 \in Addr /\ ~(x.off + j - 1 >= n)
      BY <1>0, <1>1, <2>2, <2>3, <2>4 DEF Addr
    <3>2. file[x.off + j - 1] = RecCell(x, j) /\ disk.cells[x.off + j - 1] = RecCell(x, j)
      BY <2>1 DEF Intact
    <3> QED  BY <1>1, <2>3, <3>1, <3>2
  <2> QED  BY <2>4, <2>5 DEF Intact, x
<1>7. synced \in Surviving(file', size')
  BY <1>0, <1>6 DEF Surviving, DiskInv
<1>8. synced <= k
  BY <1>1, <1>7
<1>9. \A i \in 1 .. synced : Intact(file', size', log'[i])
  BY <1>0, <1>3, <1>4, <1>6, <1>8
<1>10. disk'.cells = file' /\ disk'.size = size' /\ disk'.size <= size'
  BY <1>1, <1>5
<1> QED  BY <1>2, <1>4, <1>8, <1>9, <1>10 DEF DiskInv

LEMMA DiskNext ==
    TypeInv /\ FileInv /\ LogInv /\ DiskInv /\ [Next]_vars => DiskInv'
<1> SUFFICES ASSUME TypeInv, FileInv, LogInv, DiskInv, [Next]_vars PROVE DiskInv'
  OBVIOUS
<1>0. TypeOK /\ size \in Nat /\ Len(log) \in Nat
  BY FormatAssumption DEF TypeInv, TypeOK
<1>1. CASE PowerFail
  BY <1>1, PowerDisk
<1>2. ASSUME NEW h \in Handles, Sync(h) PROVE DiskInv'
  <2>1. /\ disk' = [cells |-> file, size |-> size] /\ synced' = Len(log)
        /\ UNCHANGED <<file, size, log>>
    BY <1>2 DEF Sync, Flushed
  <2>2. disk'.cells = file /\ disk'.size = size
    BY <2>1
  <2>3. \A i \in 1 .. Len(log) : Intact(file, size, log[i])
    BY DEF LogInv, AckedIntact
  <2> QED  BY <1>0, <2>1, <2>2, <2>3 DEF DiskInv
<1>3. ASSUME NEW h \in Handles, Step(h), ~Sync(h) PROVE DiskInv'
  BY <1>3, StepGrows, LogGrowsDisk
<1>4. CASE UNCHANGED vars
  <2>1. LogGrows
    BY <1>0, <1>4 DEF vars, fileVars, history, LogGrows
  <2> QED  BY <2>1, LogGrowsDisk
<1> QED  BY <1>1, <1>2, <1>3, <1>4 DEF Next

\* With one writer at most, every append that a Sync covered survives every
\* power failure, whichever of the unsynced pages the disk keeps.
THEOREM SyncedAppendsSurvive ==
    ASSUME SingleWriter
    PROVE  Spec => []SyncedSurvive
<1>1. DiskInv => SyncedSurvive
  BY DEF DiskInv, SyncedSurvive
<1>2. (TypeInv /\ FileInv /\ LogInv /\ DiskInv) /\ [Next]_vars
        => (TypeInv /\ FileInv /\ LogInv /\ DiskInv)'
  BY TypeNext, FileNext, LogNext, DiskNext
<1>3. Init => TypeInv /\ FileInv /\ LogInv /\ DiskInv
  <2>1. ASSUME Init PROVE DiskInv
    <3>1. log = << >> /\ synced = 0 /\ disk.size = 0 /\ size = 0
      BY <2>1 DEF Init
    <3>2. Len(log) = 0
      BY <3>1
    <3> QED  BY <3>1, <3>2 DEF DiskInv
  <2> QED  BY <2>1, TypeInit, FileLogInit
<1> QED  BY <1>1, <1>2, <1>3, PTL DEF Spec

-----------------------------------------------------------------------------
(* All of it together, and files without a header.                         *)

\* With one writer at most, the whole inductive invariant: handles are where
\* their calls say, the file has a header wherever it has a handle, appends are
\* intact and back to back, and the synced ones are so on disk.
THEOREM InductiveInvariant ==
    ASSUME SingleWriter
    PROVE  Spec => []IInv
<1>1. IInv /\ [Next]_vars => IInv'
  BY TypeNext, FileNext, LogNext, GapNext, DiskNext DEF IInv
<1>2. Init => IInv
  <2> SUFFICES ASSUME Init PROVE IInv
    OBVIOUS
  <2>1. /\ log = << >> /\ synced = 0 /\ disk.size = 0 /\ size = 0
        /\ \A h \in Handles : ~Live(h)
    BY DEF Init, Live
  <2>2. Len(log) = 0
    BY <2>1
  <2>3. DiskInv
    BY <2>1, <2>2 DEF DiskInv
  <2>4. GapInv
    BY <2>1, <2>2, WalAssumption DEF GapInv, Contiguous
  <2> QED  BY <2>3, <2>4, TypeInit, FileLogInit DEF IInv
<1> QED  BY <1>1, <1>2, PTL DEF Spec

\* What a step does that is no crash: the header stays, or a Create is at work.
LEMMA HeadlessNext ==
    ASSUME "crash" \notin Faults, "power" \notin Faults,
           TypeInv, FileInv, NoHeadlessFile, [Next]_vars
    PROVE  NoHeadlessFile'
<1>0. TypeOK /\ size \in Nat
  BY FormatAssumption DEF TypeInv, TypeOK
<1>1. ~PowerFail
  BY DEF PowerFail
<1>2. ASSUME NEW h \in Handles, Step(h) PROVE NoHeadlessFile'
  <2>0. ~ProcCrash(h)
    BY DEF ProcCrash
  <2>1. CASE Create(h)
    BY <1>0, <2>1 DEF Create, TypeOK, NoHeadlessFile
  <2>2. CASE WriteHead(h)
    BY <2>2 DEF WriteHead, NoHeadlessFile, FileHdrN
  <2>3. CASE WriteHeadFail(h)
    BY <2>3 DEF WriteHeadFail, NoHeadlessFile
  <2>4. CASE Open(h)
    BY <1>0, <2>4 DEF Open, HeadOK, fileVars, NoHeadlessFile, FileHdrN
  <2>5. CASE LiveStep(h)
    <3>1. FileHdrN <= size
      BY <2>5 DEF FileInv, LiveStep
    <3> QED  BY <1>0, <2>5, <3>1 DEF LiveStep, NoHeadlessFile, FileHdrN
  <2> QED  BY <1>2, <2>0, <2>1, <2>2, <2>3, <2>4, <2>5, IsLiveStep DEF Step, Client
<1>3. CASE UNCHANGED vars
  BY <1>3 DEF NoHeadlessFile, vars, fileVars
<1> QED  BY <1>1, <1>2, <1>3 DEF Next

\* Where no process is killed and the power does not fail, a file without a
\* header belongs to a Create under way, whatever other I/O fails: a Create that
\* fails removes what it made.
THEOREM NoFileWithoutHeader ==
    ASSUME "crash" \notin Faults, "power" \notin Faults
    PROVE  Spec => []NoHeadlessFile
<1>1. (TypeInv /\ FileInv /\ NoHeadlessFile) /\ [Next]_vars
        => (TypeInv /\ FileInv /\ NoHeadlessFile)'
  BY TypeNext, FileNext, HeadlessNext
<1>2. Init => TypeInv /\ FileInv /\ NoHeadlessFile
  <2>1. Init => NoHeadlessFile
    BY DEF Init, NoHeadlessFile
  <2> QED  BY <2>1, TypeInit, FileLogInit
<1> QED  BY <1>1, <1>2, PTL DEF Spec

-----------------------------------------------------------------------------
(* Readers: records and the chain of appends.                              *)

LEMMA LogTypes ==
    ASSUME TypeInv
    PROVE  /\ log \in Seq(Entry) /\ Len(log) \in Nat /\ size \in Nat
           /\ \A i \in 1 .. Len(log) :
                 /\ log[i] \in Entry /\ log[i].off \in Nat /\ NextOff(log[i]) \in Nat
                 /\ NextOff(log[i]) = log[i].off + RecHdrN + Len(log[i].pay)
                 /\ Len(log[i].pay) \in Nat
           /\ \A k \in 0 .. Len(log) : ChainEnd(k) \in Nat /\ ChainEnd(k) >= FileHdrN
<1>1. log \in Seq(Entry) /\ size \in 0 .. FileCap
  BY DEF TypeInv, TypeOK
<1>2. Len(log) \in Nat /\ size \in Nat /\ \A i \in 1 .. Len(log) : log[i] \in Entry
  BY <1>1, FormatAssumption
<1>3. ASSUME NEW i \in 1 .. Len(log)
      PROVE  /\ log[i].off \in Nat /\ NextOff(log[i]) \in Nat
             /\ NextOff(log[i]) = log[i].off + RecHdrN + Len(log[i].pay)
             /\ Len(log[i].pay) \in Nat
  <2>1. log[i] \in Entry
    BY <1>2
  <2>2. /\ log[i].off \in Nat /\ RecN(log[i]) = RecHdrN + Len(log[i].pay) /\ Len(log[i].pay) \in Nat
        /\ NextOff(log[i]) = log[i].off + RecN(log[i])
    BY <2>1, EntryType
  <2>3. PICK a, b, m, n : /\ a = log[i].off /\ b = RecN(log[i])
                          /\ m = NextOff(log[i]) /\ n = Len(log[i].pay)
    OBVIOUS
  <2>4. a \in Nat /\ n \in Nat /\ b = RecHdrN + n /\ m = a + b
    BY <2>2, <2>3, Zenon
  <2>5. m \in Nat /\ m = a + RecHdrN + n
    BY <2>4 DEF RecHdrN
  <2> QED  BY <2>3, <2>4, <2>5, Zenon
<1>4. ASSUME NEW k \in 0 .. Len(log) PROVE ChainEnd(k) \in Nat /\ ChainEnd(k) >= FileHdrN
  <2>1. CASE k = 0
    BY <2>1 DEF ChainEnd, FileHdrN
  <2>2. CASE k # 0
    <3>1. k \in 1 .. Len(log) /\ ChainEnd(k) = NextOff(log[k])
      BY <1>2, <2>2 DEF ChainEnd
    <3>2. PICK a, n \in Nat : NextOff(log[k]) = a + RecHdrN + n /\ a \in Nat
      BY <1>3, <3>1
    <3> QED  BY <3>1, <3>2 DEF RecHdrN, FileHdrN
  <2> QED  BY <2>1, <2>2
<1> QED  BY <1>1, <1>2, <1>3, <1>4

\* The appends that lie back to back begin where the ones before them end.
LEMMA ChainStep ==
    ASSUME TypeInv, NEW n \in 0 .. Len(log), Contiguous(n), NEW k \in 0 .. n - 1
    PROVE  /\ k + 1 \in 1 .. Len(log)
           /\ log[k + 1].off = ChainEnd(k)
           /\ ChainEnd(k + 1) = NextOff(log[k + 1])
           /\ Contiguous(k)
<1>1. Len(log) \in Nat /\ n \in Nat /\ k \in Nat /\ k + 1 \in 1 .. n /\ k + 1 \in 1 .. Len(log)
  BY LogTypes
<1>2. log[k + 1].off = IF k + 1 = 1 THEN FileHdrN ELSE NextOff(log[k + 1 - 1])
  BY <1>1 DEF Contiguous
<1>3. (k + 1 = 1) = (k = 0) /\ k + 1 - 1 = k /\ k + 1 # 0
  BY <1>1
<1>4. Contiguous(k)
  BY <1>1 DEF Contiguous
<1> QED  BY <1>1, <1>2, <1>3, <1>4 DEF ChainEnd

\* The length field of an append that Write accepts is its length.
LEMMA LenFieldIs ==
    ASSUME NEW pay, Len(pay) \in Nat, Len(pay) <= MaxPayload
    PROVE  LenField(pay) = RecHdrN + Len(pay)
<1>1. U32 \in Nat /\ RecHdrN + Len(pay) \in 0 .. U32 - 1
  BY FormatAssumption DEF MaxPayload, RecHdrN
<1>2. \A x \in Nat, m \in Nat : x < m => x % m = x
  OBVIOUS
<1> QED  BY <1>1, <1>2 DEF LenField, RecHdrN

\* An intact append is a record.
LEMMA EntryIsRecord ==
    ASSUME NEW f, NEW n \in Nat, NEW x \in Entry, Intact(f, n, x), Len(x.pay) <= MaxPayload
    PROVE  /\ RecordAt(f, n, x.off)
           /\ f[x.off + 1] = SumCell(x.typ, x.pay)
           /\ DecLen(f[x.off]) = RecHdrN + Len(x.pay)
           /\ DecTyp(f[x.off + 1]) = x.typ /\ SumOf(f[x.off + 1]) = x.pay
           /\ RecEnd(f, x.off) = NextOff(x)
<1> DEFINE a == x.off
<1>1. /\ a \in Nat /\ Len(x.pay) \in Nat /\ RecN(x) = RecHdrN + Len(x.pay)
      /\ NextOff(x) = a + RecN(x) /\ NextOff(x) <= n
  BY EntryType DEF Intact
<1> HIDE DEF a
<1>2. \A i \in 1 .. RecN(x) : f[a + i - 1] = RecCell(x, i)
  BY DEF Intact, a
<1>3. f[a] = LenCell(LenField(x.pay)) /\ f[a + 1] = SumCell(x.typ, x.pay)
  <2>1. 1 \in 1 .. RecN(x) /\ 2 \in 1 .. RecN(x) /\ a + 1 - 1 = a /\ a + 2 - 1 = a + 1
    BY <1>1 DEF RecHdrN
  <2> QED  BY <1>2, <2>1 DEF RecCell
<1>4. /\ DecLen(f[a]) = RecHdrN + Len(x.pay) /\ f[a + 1][1] = "sum"
      /\ DecTyp(f[a + 1]) = x.typ /\ SumOf(f[a + 1]) = x.pay
  BY <1>1, <1>3, LenFieldIs DEF LenCell, SumCell, DecLen, DecTyp, SumOf
<1>5. RecEnd(f, a) = NextOff(x)
  BY <1>1, <1>4 DEF RecEnd, RecHdrN
<1>6. PayFits(f, a)
  <2> SUFFICES ASSUME NEW b \in a + RecHdrN .. NextOff(x) - 1
               PROVE  f[b] = PayCell(x.pay[b - a - 1])
    BY <1>4, <1>5 DEF PayFits
  <2>1. b - a + 1 \in 1 .. RecN(x) /\ a + (b - a + 1) - 1 = b
        /\ b - a + 1 # 1 /\ b - a + 1 # 2 /\ (b - a + 1) - RecHdrN = b - a - 1
    BY <1>1 DEF RecHdrN
  <2>2. f[a + (b - a + 1) - 1] = RecCell(x, b - a + 1)
    BY <1>2, <2>1
  <2> QED  BY <2>1, <2>2 DEF RecCell
<1> QED  BY <1>1, <1>3, <1>4, <1>5, <1>6 DEF RecordAt, HdrFits, RecHdrN, a

-----------------------------------------------------------------------------
(* The tail of the file.                                                   *)

\* Only the writers write, and where they write is behind all appends.
LEMMA WriterTypes ==
    ASSUME TypeInv, LogInv, NEW h \in Writers, Live(h)
    PROVE  /\ h \in Handles /\ Start(h) \in Nat /\ done[h] \in Nat
           /\ Start(h) + done[h] <= size
           /\ ~InWrite(h) => done[h] = 0
           /\ pc[h] = "whdr" => done[h] < RecHdrN
           /\ \A i \in 1 .. done[h] : file[Start(h) + i - 1] = RecCell(cur[h], i)
<1>1. h \in Handles /\ TypeOK /\ WriterOK(h)
  BY WalAssumption DEF TypeInv
<1>2. end[h] \in Nat /\ done[h] \in Nat
  BY <1>1, FormatAssumption DEF TypeOK
<1>3. Start(h) \in Nat
  BY <1>1, <1>2 DEF Start, WriterOK, RecHdrN
<1> QED  BY <1>1, <1>2, <1>3 DEF LogInv, InFlight, WriterOK

\* The first cell of a record under way is a length cell.
LEMMA FirstCell ==
    ASSUME NEW r
    PROVE  RecCell(r, 1)[1] = "len"
BY DEF RecCell, LenCell

\* The end of the chain, with at most the beginning of an append, is no record.
LEMMA TailNoRecord ==
    ASSUME SingleWriter, TypeInv, LogInv, NEW n \in 0 .. Len(log), AtTail(n)
    PROVE  ~RecordAt(file, size, ChainEnd(n))
<1> DEFINE a == ChainEnd(n)
<1> SUFFICES ASSUME RecordAt(file, size, a) PROVE FALSE
  OBVIOUS
<1>1. a \in Nat /\ size \in Nat /\ a + RecHdrN <= size
  BY LogTypes DEF RecordAt
<1>2. PICK h \in Writers : Live(h)
  BY <1>1 DEF AtTail, RecHdrN
<1>3. Start(h) = a /\ (size <= a + 1 \/ size <= a + done[h])
  BY <1>2 DEF AtTail
<1> HIDE DEF a
<1>4. /\ h \in Handles /\ done[h] \in Nat /\ done[h] >= RecHdrN
      /\ \A i \in 1 .. done[h] : file[a + i - 1] = RecCell(cur[h], i)
  BY <1>1, <1>2, <1>3, WriterTypes DEF RecHdrN
<1>5. InWrite(h) /\ pc[h] = "wpay"
  BY <1>2, <1>4, WriterTypes DEF InWrite, RecHdrN
<1>6. /\ cur[h] \in Rec /\ done[h] < RecN(cur[h])
      /\ RecN(cur[h]) = RecHdrN + Len(cur[h].pay) /\ Len(cur[h].pay) \in Nat
  <2>1. cur[h] \in Rec /\ done[h] < RecN(cur[h])
    BY <1>4, <1>5 DEF TypeInv, WriterOK
  <2> QED  BY <2>1, RecNType DEF Rec
<1>7. file[a + 1] = SumCell(cur[h].typ, cur[h].pay)
  <2>1. 2 \in 1 .. done[h] /\ a + 2 - 1 = a + 1
    BY <1>1, <1>4 DEF RecHdrN
  <2>2. file[a + 2 - 1] = RecCell(cur[h], 2)
    BY <1>4, <2>1
  <2> QED  BY <2>1, <2>2 DEF RecCell
<1>8. RecEnd(file, a) = a + RecHdrN + Len(cur[h].pay)
  BY <1>7 DEF RecEnd, SumCell, SumOf
<1>9. a + RecHdrN + Len(cur[h].pay) <= size
  BY <1>8 DEF RecordAt
<1>10. \A x, m, d \in Nat : x + RecHdrN + m <= size /\ d < RecHdrN + m /\ RecHdrN <= d
          => ~(size <= x + 1) /\ ~(size <= x + d)
  BY <1>1 DEF RecHdrN
<1> QED  BY <1>1, <1>3, <1>4, <1>6, <1>9, <1>10

\* What a reader at the end of the chain meets is the next append of the chain.
LEMMA PassedIsNext ==
    ASSUME SingleWriter, TypeInv, LogInv, TailInv,
           NEW k \in 0 .. Len(log), Contiguous(k), RecordAt(file, size, ChainEnd(k))
    PROVE  k < Len(log) /\ log[k + 1].off = ChainEnd(k)
<1>1. ChainEnd(k) \in Nat /\ size \in Nat /\ FileHdrN <= size /\ Len(log) \in Nat
  BY LogTypes DEF RecordAt, RecHdrN, FileHdrN
<1>2. PICK n \in 0 .. Len(log) : Contiguous(n) /\ (AtTail(n) \/ AtTear(n))
  BY <1>1 DEF TailInv
<1>3. CASE k < n
  <2>1. k \in 0 .. n - 1
    BY <1>1, <1>3
  <2> QED  BY <1>1, <1>2, <1>3, <2>1, ChainStep
<1>4. CASE k = n
  BY <1>2, <1>4, TailNoRecord DEF AtTear
<1>5. CASE n < k
  <2>1. n \in 0 .. k - 1 /\ n < Len(log)
    BY <1>1, <1>5
  <2>2. log[n + 1].off = ChainEnd(n)
    BY <2>1, ChainStep
  <2>3. ChainEnd(n) \in Nat /\ ~(ChainEnd(n) < ChainEnd(n))
    BY <1>2, LogTypes
  <2> QED  BY <1>1, <1>2, <1>5, <2>1, <2>2, <2>3 DEF AtTail, AtTear
<1> QED  BY <1>1, <1>3, <1>4, <1>5

\* The next cell of an append makes no record of what is torn.
LEMMA PutCellTear ==
    ASSUME TypeInv, LogInv, NEW h \in Handles, InWrite(h), PutCell(h),
           NEW a \in Nat, a < size, ~RecordAt(file, size, a), a < Start(h)
    PROVE  ~RecordAt(file', size', a)
<1> SUFFICES ASSUME RecordAt(file', size', a) PROVE FALSE
  OBVIOUS
<1>1. /\ h \in Writers /\ Live(h) /\ Start(h) \in Nat /\ done[h] \in Nat
      /\ Start(h) + done[h] \in Addr /\ file \in [Addr -> Cell] /\ size \in Nat /\ FileCap \in Nat
  BY PutCellType, FormatAssumption DEF TypeInv, TypeOK, Live, InWrite
<1>2. \A b \in Nat : b < Start(h) => file'[b] = file[b]
  BY <1>1 DEF PutCell, Addr
<1>3. file'[Start(h)] = RecCell(cur[h], 1)
  <2>1. 1 \in 1 .. done[h] + 1 /\ Start(h) + 1 - 1 = Start(h)
    BY <1>1
  <2> QED  BY <2>1, PutCellLog
<1>4. file'[Start(h)][1] = "len"
  BY <1>3, FirstCell
<1>5. Start(h) # a + 1
  BY <1>4 DEF RecordAt, HdrFits
<1>6. file'[a] = file[a] /\ file'[a + 1] = file[a + 1] /\ a + RecHdrN <= Start(h)
  BY <1>1, <1>2, <1>5 DEF RecHdrN
<1>7. Start(h) <= size
  BY <1>1, WriterTypes
<1> DEFINE e == RecEnd(file, a)
<1>8. RecEnd(file', a) = e /\ HdrFits(file, a)
  BY <1>6 DEF RecEnd, RecordAt, HdrFits
<1>9. e \in Nat
  <2>1. DecLen(file[a]) \in Nat /\ DecLen(file[a]) = RecHdrN + Len(SumOf(file[a + 1]))
    <3>1. a \in Addr
      BY <1>1, <1>6 DEF Addr, RecHdrN
    <3> QED  BY <1>1, <1>8, <3>1, DecodeType DEF HdrFits
  <2>2. SumOf(file[a + 1]) \in Payloads \union {<< >>}
    <3>1. a + 1 \in Addr
      BY <1>1, <1>6 DEF Addr, RecHdrN
    <3> QED  BY <1>1, <3>1, DecodeType
  <2>3. Len(SumOf(file[a + 1])) \in Nat
    BY <2>2, FormatAssumption
  <2> QED  BY <2>3 DEF RecEnd, RecHdrN
<1> HIDE DEF e
<1>10. \A b \in a + RecHdrN .. e - 1 : file'[b] = PayCell(SumOf(file[a + 1])[b - a - 1])
  BY <1>6, <1>8 DEF RecordAt, PayFits
<1>11. CASE Start(h) < e
  <2>1. Start(h) \in a + RecHdrN .. e - 1
    BY <1>1, <1>6, <1>9, <1>11 DEF RecHdrN
  <2>2. file'[Start(h)] = PayCell(SumOf(file[a + 1])[Start(h) - a - 1])
    BY <1>10, <2>1
  <2> QED  BY <1>4, <2>2 DEF PayCell
<1>12. CASE e <= Start(h)
  <2>1. e <= size /\ a + RecHdrN <= size
    BY <1>1, <1>6, <1>7, <1>9, <1>12 DEF RecHdrN
  <2>2. ASSUME NEW b \in a + RecHdrN .. e - 1
        PROVE  file[b] = PayCell(SumOf(file[a + 1])[b - a - 1])
    <3>1. b \in Nat /\ b < Start(h)
      BY <1>1, <1>9, <1>12 DEF RecHdrN
    <3> QED  BY <1>2, <1>10, <3>1
  <2>3. PayFits(file, a)
    BY <2>2 DEF PayFits, e
  <2> QED  BY <1>8, <2>1, <2>3 DEF RecordAt, e
<1> QED  BY <1>1, <1>9, <1>11, <1>12

-----------------------------------------------------------------------------
(* Lengths, and what is on disk.                                           *)

\* What a power failure makes of the file.
LEMMA PowerShape ==
    ASSUME TypeInv, PowerFail
    PROVE  \E n \in Nat, kept \in SUBSET (0 .. (FileCap - 1) \div PageN), k \in 0 .. Len(log) :
        /\ file' = [a \in Addr |-> IF a >= n \/ ~exists' THEN Zero
                                   ELSE IF a \div PageN \in kept THEN file[a]
                                   ELSE disk.cells[a]]
        /\ n <= size /\ size' = IF exists' THEN n ELSE 0
        /\ disk'.cells = file'
        /\ Len(log') = k /\ \A i \in 1 .. k : log'[i] = log[i]
        /\ \A i \in 1 .. k : Intact(file', size', log[i])
        /\ \A j \in Surviving(file', size') : j <= k
<1>1. /\ disk.size \in Nat /\ size \in Nat /\ log \in Seq(Entry)
  BY FormatAssumption DEF TypeInv, TypeOK
<1>2. PICK n \in disk.size .. size, kept \in SUBSET (0 .. (FileCap - 1) \div PageN),
           k \in Surviving(file', size') :
        /\ file' = [a \in Addr |-> IF a >= n \/ ~exists' THEN Zero
                                   ELSE IF a \div PageN \in kept THEN file[a]
                                   ELSE disk.cells[a]]
        /\ size' = IF exists' THEN n ELSE 0
        /\ disk' = [cells |-> file', size |-> size']
        /\ \A j \in Surviving(file', size') : j <= k
        /\ log' = SubSeq(log, 1, k)
  BY DEF PowerFail
<1>3. k \in 0 .. Len(log) /\ \A i \in 1 .. k : Intact(file', size', log[i])
  BY DEF Surviving
<1>4. Len(log') = k /\ \A i \in 1 .. k : log'[i] = log[i]
  BY <1>1, <1>2, <1>3, PrefixOfSeq
<1>5. n \in Nat /\ n <= size /\ disk'.cells = file'
  BY <1>1, <1>2
<1> QED  BY <1>2, <1>3, <1>4, <1>5

\* Where no write fails, it leaves of every cell what it was, or zeros.
LEMMA PowerCells ==
    ASSUME PlainUse, TypeInv, GrowInv, PowerFail
    PROVE  \A a \in Addr : file'[a] \in {file[a], Zero}
<1>1. "io" \notin Faults
  BY DEF PowerFail, PlainUse
<1>2. \A a \in Addr : disk.cells[a] \in {file[a], Zero}
  BY <1>1 DEF GrowInv
<1>3. PICK n \in Nat, kept \in SUBSET (0 .. (FileCap - 1) \div PageN) :
        file' = [a \in Addr |-> IF a >= n \/ ~exists' THEN Zero
                                   ELSE IF a \div PageN \in kept THEN file[a]
                                   ELSE disk.cells[a]]
  BY PowerShape
<1> QED  BY <1>2, <1>3

\* What an append puts where the power may fail is no length of an empty one.
LEMMA CellNotEmpty ==
    ASSUME PlainUse, "power" \in Faults, NEW r \in Rec, Len(r.pay) <= MaxPayload, NEW i
    PROVE  DecLen(RecCell(r, i)) # RecHdrN
<1>1. r.pay \in Payloads /\ r.pay # << >> /\ r.pay \in Seq(Bytes)
  BY FormatAssumption DEF PlainUse, Rec
<1>2. Len(r.pay) \in Nat /\ Len(r.pay) # 0
  BY <1>1
<1>3. LenField(r.pay) = RecHdrN + Len(r.pay)
  BY <1>2, LenFieldIs
<1>4. CASE i = 1
  <2>1. DecLen(RecCell(r, i)) = RecHdrN + Len(r.pay)
    BY <1>3, <1>4 DEF RecCell, LenCell, DecLen
  <2> QED  BY <1>2, <2>1 DEF RecHdrN
<1>5. CASE i # 1
  <2>1. DecLen(RecCell(r, i)) = 0
    BY <1>5 DEF RecCell, SumCell, PayCell, DecLen
  <2> QED  BY <2>1 DEF RecHdrN
<1> QED  BY <1>4, <1>5

LEMMA LenNext ==
    PlainUse /\ TypeInv /\ GrowInv /\ LenInv /\ [Next]_vars => LenInv'
<1> SUFFICES ASSUME PlainUse, TypeInv, GrowInv, LenInv, [Next]_vars PROVE LenInv'
  OBVIOUS
<1> DEFINE LenLog == \A i \in 1 .. Len(log) : Len(log[i].pay) <= MaxPayload
           LenCur == \A h \in Handles : InWrite(h) => Len(cur[h].pay) <= MaxPayload
           LenFile == "power" \in Faults => \A a \in Addr : DecLen(file[a]) # RecHdrN
<1>0. /\ TypeOK /\ log \in Seq(Entry) /\ Len(log) \in Nat /\ file \in [Addr -> Cell]
      /\ LenLog /\ LenCur /\ LenFile
  BY DEF TypeInv, TypeOK, LenInv
<1> HIDE DEF LenLog, LenCur, LenFile
<1>q. ASSUME LenLog', LenCur', LenFile' PROVE LenInv'
  BY <1>q DEF LenLog, LenCur, LenFile, LenInv
<1>1. CASE PowerFail
  <2>1. PICK k \in 0 .. Len(log) : Len(log') = k /\ \A i \in 1 .. k : log'[i] = log[i]
    BY <1>1, PowerShape
  <2>2. LenLog'
    BY <1>0, <2>1 DEF LenLog
  <2>3. LenCur'
    BY <1>1 DEF PowerFail, InWrite, LenCur
  <2>4. LenFile'
    <3>1. DecLen(Zero) # RecHdrN
      BY DEF DecLen, Zero, RecHdrN
    <3> QED  BY <1>0, <1>1, <3>1, PowerCells DEF LenFile
  <2> QED  BY <1>q, <2>2, <2>3, <2>4
<1>2. ASSUME NEW h \in Handles, Step(h) PROVE LenInv'
  <2>1. ASSUME NEW r \in Rec, BeginWrite(h, r) PROVE LenInv'
    <3>1. UNCHANGED <<log, file>> /\ Len(r.pay) <= MaxPayload
          /\ cur' = [cur EXCEPT ![h] = r] /\ pc' = [pc EXCEPT ![h] = "whdr"]
      BY <2>1 DEF BeginWrite, fileVars, history
    <3>2. LenCur'
      BY <1>0, <3>1 DEF LenCur, InWrite, TypeOK
    <3> QED  BY <1>0, <1>q, <3>1, <3>2 DEF LenLog, LenFile
  <2>2. CASE WriteHead(h)
    <3>1. PICK m \in Magics : file' = [file EXCEPT ![0] = MagicCell(m)]
      BY <2>2 DEF WriteHead
    <3>2. DecLen(MagicCell(m)) # RecHdrN
      BY DEF MagicCell, DecLen, RecHdrN
    <3>3. LenFile'
      BY <1>0, <3>1, <3>2 DEF LenFile
    <3>4. UNCHANGED <<log, cur>> /\ pc' = [pc EXCEPT ![h] = "idle"]
      BY <2>2 DEF WriteHead, history
    <3> QED  BY <1>0, <1>q, <3>3, <3>4 DEF LenLog, LenCur, InWrite, TypeOK
  <2>3. CASE WriteCell(h) \/ WriteHdrLast(h) \/ WritePayLast(h)
    <3>1. InWrite(h) /\ PutCell(h)
          /\ (UNCHANGED <<log, cur>> \/ Ack(h, Start(h)))
          /\ \A g \in Handles : g # h => pc'[g] = pc[g] /\ cur'[g] = cur[g]
      BY <1>0, <2>3 DEF WriteCell, WriteHdrLast, WritePayLast, InWrite, history, Ack, TypeOK
    <3>2. cur[h] \in Rec /\ Len(cur[h].pay) <= MaxPayload
      BY <1>0, <3>1, PutCellType DEF LenCur
    <3>3. LenFile'
      <4>1. \A i : "power" \in Faults => DecLen(RecCell(cur[h], i)) # RecHdrN
        BY <3>2, CellNotEmpty
      <4> QED  BY <1>0, <3>1, <4>1 DEF LenFile, PutCell
    <3>4. LenCur'
      <4>1. ASSUME Ack(h, Start(h)) PROVE ~InWrite(h)'
        BY <1>0, <4>1 DEF Ack, InWrite, TypeOK
      <4>2. ASSUME NEW g \in Handles, InWrite(g)' PROVE Len(cur'[g].pay) <= MaxPayload
        BY <1>0, <3>1, <3>2, <4>1, <4>2 DEF LenCur, InWrite
      <4> QED  BY <4>2 DEF LenCur
    <3>5. LenLog'
      <4>1. CASE log' = log
        BY <1>0, <4>1 DEF LenLog
      <4>2. CASE Ack(h, Start(h))
        <5>1. log' = Append(log, NewEntry(h)) /\ Len(NewEntry(h).pay) <= MaxPayload
          BY <3>2, <4>2 DEF Ack, NewEntry
        <5>2. /\ Len(log') = Len(log) + 1 /\ log'[Len(log) + 1] = NewEntry(h)
              /\ \A i \in 1 .. Len(log) : log'[i] = log[i]
          BY <1>0, <5>1
        <5> QED  BY <1>0, <5>1, <5>2 DEF LenLog
      <4> QED  BY <3>1, <4>1, <4>2
    <3> QED  BY <1>q, <3>3, <3>4, <3>5
  <2>4. CASE Read(h) \/ Callback(h) \/ BeginScan(h) \/ BeginIndex(h)
    <3>1. UNCHANGED <<log, file, pc, cur>>
      BY <2>4 DEF Read, ReadEOF, ReadShort, ReadHdr, ReadPay, ReadCorrupt, ReadFail, Return,
                  Callback, BeginScan, BeginIndex, Begin, fileVars, writeVars, history
    <3> QED  BY <1>0, <1>q, <3>1 DEF LenLog, LenCur, LenFile, InWrite
  <2>5. CASE \/ Create(h) \/ WriteHeadFail(h) \/ Open(h) \/ Close(h)
             \/ Sync(h) \/ ProcCrash(h) \/ WriteFail(h)
    <3>1. /\ UNCHANGED <<log, file>>
          /\ \A g \in Handles : InWrite(g)' => InWrite(g) /\ cur'[g] = cur[g]
      BY <1>0, <2>5 DEF Create, WriteHeadFail, Open, Close, Sync, ProcCrash, WriteFail,
                        fileVars, writeVars, history, InWrite, TypeOK
    <3> QED  BY <1>0, <1>q, <3>1 DEF LenLog, LenCur, LenFile
  <2> QED  BY <1>2, <2>1, <2>2, <2>3, <2>4, <2>5 DEF Step, Client, Write
<1>3. CASE UNCHANGED vars
  BY <1>0, <1>3 DEF vars, fileVars, writeVars, history, LenInv, InWrite, LenLog, LenCur, LenFile
<1> QED  BY <1>1, <1>2, <1>3 DEF Next

\* A step that leaves the cells alone, and puts no writer anywhere new.
QuietGrow ==
    /\ UNCHANGED <<file, size>>
    /\ disk' = disk \/ disk'.cells = file
    /\ \A g \in Writers : Live(g)' =>
          \/ Live(g) /\ Start(g)' + done'[g] = Start(g) + done[g]
          \/ Start(g)' + done'[g] = size

LEMMA QuietGrowInv ==
    ASSUME GrowInv, QuietGrow
    PROVE  GrowInv'
BY DEF GrowInv, QuietGrow

LEMMA GrowNext ==
    SingleWriter /\ TypeInv /\ FileInv /\ GrowInv /\ [Next]_vars => GrowInv'
<1> SUFFICES ASSUME "io" \notin Faults, SingleWriter, TypeInv, FileInv, GrowInv, [Next]_vars
             PROVE  GrowInv'
  BY DEF GrowInv
<1>0. /\ TypeOK /\ size \in Nat /\ file \in [Addr -> Cell] /\ Addr \subseteq Nat
      /\ \A a \in Addr : size <= a => file[a] = Zero
      /\ \A a \in Addr : disk.cells[a] \in {file[a], Zero}
      /\ \A h \in Writers : Live(h) => Start(h) + done[h] = size
      /\ \A h \in Handles : end[h] \in Nat /\ done[h] \in Nat /\ Start(h) \in Int
      /\ \A h \in Handles : ~InWrite(h) => done[h] = 0 /\ Start(h) = end[h]
      /\ Writers \subseteq Handles
  <2>1. /\ TypeOK /\ size \in Nat /\ file \in [Addr -> Cell] /\ Addr \subseteq Nat
        /\ Writers \subseteq Handles
    BY FormatAssumption, WalAssumption DEF TypeInv, TypeOK, Addr
  <2>2. \A h \in Handles : end[h] \in Nat /\ done[h] \in Nat /\ Start(h) \in Int
    BY <2>1, FormatAssumption DEF TypeOK, Start, RecHdrN
  <2>3. \A h \in Handles : ~InWrite(h) => done[h] = 0 /\ Start(h) = end[h]
    BY DEF TypeInv, WriterOK, InWrite, Start
  <2> QED  BY <2>1, <2>2, <2>3 DEF GrowInv
<1>1. CASE PowerFail
  <2>1. PICK n \in Nat, kept \in SUBSET (0 .. (FileCap - 1) \div PageN) :
            /\ file' = [a \in Addr |-> IF a >= n \/ ~exists' THEN Zero
                                       ELSE IF a \div PageN \in kept THEN file[a]
                                       ELSE disk.cells[a]]
            /\ size' = IF exists' THEN n ELSE 0
            /\ disk'.cells = file'
    BY <1>1, PowerShape
  <2>2. \A h \in Handles : ~Live(h)'
    BY <1>1 DEF PowerFail, Live
  <2>3. \A a \in Addr : size' <= a => file'[a] = Zero
    BY <1>0, <2>1
  <2> QED  BY <1>0, <2>1, <2>2, <2>3 DEF GrowInv
<1>2. ASSUME NEW h \in Handles, Step(h) PROVE GrowInv'
  <2>1. CASE WriteHead(h)
    <3>1. /\ size = 0 /\ size' = 1 /\ pc'[h] = "idle" /\ end'[h] = 1 /\ done' = done
          /\ disk' = disk /\ pc[h] = "head"
          /\ \A g \in Handles : g # h => pc'[g] = "none"
      BY <1>0, <2>1 DEF WriteHead, FileHdrN, TypeOK, FileInv
    <3>2. PICK m \in Magics : file' = [file EXCEPT ![0] = MagicCell(m)]
      BY <2>1 DEF WriteHead
    <3>3. \A a \in Addr : file[a] = Zero
      BY <1>0, <3>1
    <3>4. \A a \in Addr : disk'.cells[a] \in {file'[a], Zero}
      BY <1>0, <3>1, <3>3
    <3>5. \A a \in Addr : size' <= a => file'[a] = Zero
      BY <1>0, <3>1, <3>2, <3>3
    <3>6. \A g \in Writers : Live(g)' => Start(g)' + done'[g] = size'
      <4>1. done[h] = 0
        BY <1>0, <3>1 DEF InWrite
      <4> QED  BY <1>0, <3>1, <4>1 DEF Live, Start
    <3> QED  BY <3>4, <3>5, <3>6 DEF GrowInv
  <2>2. CASE Open(h)
    <3>1. /\ UNCHANGED <<file, size, disk, done>> /\ pc'[h] = "idle" /\ end'[h] = size
          /\ pc[h] = "none"
          /\ \A g \in Handles : g # h => pc'[g] = pc[g] /\ end'[g] = end[g]
      BY <1>0, <2>2 DEF Open, TailOffset, TypeOK, fileVars
    <3>2. done[h] = 0
      BY <1>0, <3>1 DEF InWrite
    <3>3. QuietGrow
      BY <1>0, <3>1, <3>2 DEF QuietGrow, Live, Start
    <3> QED  BY <3>3, QuietGrowInv
  <2>3. CASE WriteCell(h) \/ WriteHdrLast(h) \/ WritePayLast(h)
    <3>1. InWrite(h) /\ PutCell(h) /\ disk' = disk
      BY <2>3 DEF WriteCell, WriteHdrLast, WritePayLast, InWrite
    <3>2. /\ h \in Writers /\ Start(h) \in Nat /\ done[h] \in Nat
          /\ RecN(cur[h]) = RecHdrN + Len(cur[h].pay) /\ Len(cur[h].pay) \in Nat
      BY <3>1, PutCellType
    <3>3. Start(h) + done[h] = size
      BY <1>0, <3>1, <3>2 DEF Live, InWrite
    <3>4. size' = size + 1 /\ file' = [file EXCEPT ![size] = RecCell(cur[h], done[h] + 1)]
      <4>1. /\ size' = Larger(size, Start(h) + done[h] + 1)
            /\ file' = [file EXCEPT ![Start(h) + done[h]] = RecCell(cur[h], done[h] + 1)]
        BY <3>1 DEF PutCell
      <4>2. Larger(size, size + 1) = size + 1
        BY <1>0 DEF Larger
      <4> QED  BY <3>3, <4>1, <4>2
    <3>5. \A a \in Addr : size' <= a => file'[a] = Zero
      BY <1>0, <3>4
    <3>6. \A a \in Addr : disk'.cells[a] \in {file'[a], Zero}
      BY <1>0, <3>1, <3>4
    <3>7. Start(h)' + done'[h] = size'
      <4>1. CASE WriteCell(h)
        <5>1. done'[h] = done[h] + 1 /\ UNCHANGED <<pc, end>>
          BY <1>0, <3>2, <4>1 DEF WriteCell, TypeOK
        <5>2. Start(h)' = Start(h)
          BY <5>1 DEF Start
        <5> QED  BY <3>2, <3>3, <3>4, <5>1, <5>2
      <4>2. CASE WriteHdrLast(h) /\ cur[h].pay # << >>
        <5>1. /\ Start(h) = end[h] /\ done[h] + 1 = RecHdrN
              /\ end'[h] = end[h] + RecHdrN /\ pc'[h] = "wpay" /\ done'[h] = RecHdrN
          BY <1>0, <4>2 DEF WriteHdrLast, AfterHdr, Start, TypeOK
        <5>2. Start(h)' = Start(h)
          BY <3>2, <5>1 DEF Start, RecHdrN
        <5> QED  BY <3>2, <3>3, <3>4, <5>1, <5>2 DEF RecHdrN
      <4>3. CASE WriteHdrLast(h) /\ cur[h].pay = << >>
        <5>1. /\ Start(h) = end[h] /\ done[h] + 1 = RecHdrN
              /\ end'[h] = end[h] + RecHdrN /\ pc'[h] = "idle" /\ done'[h] = 0
          BY <1>0, <4>3 DEF WriteHdrLast, AfterHdr, Start, TypeOK, Ack
        <5> QED  BY <3>2, <3>3, <3>4, <5>1 DEF Start, RecHdrN
      <4>4. CASE WritePayLast(h)
        <5>1. /\ Start(h) = end[h] - RecHdrN /\ done[h] + 1 = RecN(cur[h])
              /\ end'[h] = end[h] + Len(cur[h].pay) /\ pc'[h] = "idle" /\ done'[h] = 0
          BY <1>0, <4>4 DEF WritePayLast, AfterPay, Start, TypeOK, Ack
        <5>2. Start(h)' = end'[h] /\ end[h] \in Nat
          BY <1>0, <3>2, <5>1 DEF Start
        <5>3. \A s, d, e, l \in Nat : s = e - RecHdrN /\ d + 1 = RecHdrN + l
                 => e + l = s + d + 1
          BY DEF RecHdrN
        <5>4. end[h] + Len(cur[h].pay) = size + 1
          BY <3>2, <3>3, <5>1, <5>2, <5>3
        <5> QED  BY <1>0, <3>4, <5>1, <5>2, <5>4
      <4> QED  BY <2>3, <4>1, <4>2, <4>3, <4>4
    <3>8. \A g \in Writers : g = h
      BY <3>2 DEF SingleWriter
    <3> QED  BY <3>5, <3>6, <3>7, <3>8 DEF GrowInv
  <2>4. ASSUME NEW r \in Rec, BeginWrite(h, r) PROVE GrowInv'
    <3>1. /\ UNCHANGED <<file, size, disk, end>> /\ pc[h] = "idle"
          /\ pc'[h] = "whdr" /\ done'[h] = 0
          /\ \A g \in Handles : g # h => pc'[g] = pc[g] /\ done'[g] = done[g]
      BY <1>0, <2>4 DEF BeginWrite, Free, TypeOK, fileVars
    <3>2. done[h] = 0
      BY <1>0, <3>1 DEF InWrite
    <3>3. QuietGrow
      BY <1>0, <3>1, <3>2 DEF QuietGrow, Live, Start
    <3> QED  BY <3>3, QuietGrowInv
  <2>5. CASE Read(h) \/ Callback(h) \/ BeginScan(h) \/ BeginIndex(h)
    <3>1. UNCHANGED <<file, size, disk, pc, end, done>>
      BY <2>5 DEF Read, ReadEOF, ReadShort, ReadHdr, ReadPay, ReadCorrupt, ReadFail, Return,
                  Callback, BeginScan, BeginIndex, Begin, fileVars, writeVars
    <3>2. QuietGrow
      BY <1>0, <3>1 DEF QuietGrow, Live, Start
    <3> QED  BY <3>2, QuietGrowInv
  <2>6. CASE Create(h) \/ WriteHeadFail(h) \/ Close(h) \/ ProcCrash(h) \/ Sync(h) \/ WriteFail(h)
    <3>1. /\ UNCHANGED <<file, size, end>> /\ (disk' = disk \/ disk'.cells = file)
          /\ \A g \in Handles : Live(g)' => pc'[g] = pc[g] /\ done'[g] = done[g]
      BY <1>0, <2>6 DEF Create, WriteHeadFail, Close, ProcCrash, Sync, WriteFail, Flushed,
                        fileVars, writeVars, TypeOK, Live
    <3>2. QuietGrow
      BY <1>0, <3>1 DEF QuietGrow, Live, Start
    <3> QED  BY <3>2, QuietGrowInv
  <2> QED  BY <1>2, <2>1, <2>2, <2>3, <2>4, <2>5, <2>6 DEF Step, Client, Write
<1>3. CASE UNCHANGED vars
  BY <1>0, <1>3, QuietGrowInv DEF vars, fileVars, writeVars, QuietGrow, Live, Start
<1> QED  BY <1>1, <1>2, <1>3 DEF Next

-----------------------------------------------------------------------------
(* The tail of the file, step by step.                                     *)

\* A file without a header has no appends.
LEMMA NoHeaderNoLog ==
    ASSUME TypeInv, LogInv, size < FileHdrN
    PROVE  Len(log) = 0
<1>1. /\ log \in Seq(Entry) /\ Len(log) \in Nat /\ size \in Nat
  BY LogTypes
<1>2. ASSUME NEW i \in 1 .. Len(log) PROVE FALSE
  <2>1. Intact(file, size, log[i]) /\ NextOff(log[i]) <= size
    BY DEF LogInv, AckedIntact, Intact
  <2>2. NextOff(log[i]) = log[i].off + RecHdrN + Len(log[i].pay)
        /\ log[i].off \in Nat /\ Len(log[i].pay) \in Nat
    BY LogTypes
  <2> QED  BY <1>1, <2>1, <2>2 DEF FileHdrN, RecHdrN
<1> QED  BY <1>1, <1>2

\* What a step that leaves file and log alone may do to the writers: begin an
\* append, give up the one under way, close the handle or open one.
QuietTail ==
    /\ UNCHANGED <<file, size, log>>
    /\ \A g \in Writers :
          /\ Live(g)' =>
                \/ Live(g) /\ Start(g)' = Start(g) /\ done'[g] = done[g]
                \/ Live(g) /\ Start(g)' = Start(g) /\ done'[g] = 0 /\ done[g] < RecHdrN
                \/ /\ Live(g) /\ pc[g] = "wpay" /\ Faults # {} /\ done'[g] = 0
                   /\ Start(g)' = Start(g) + RecHdrN
                \/ ~Live(g) /\ Start(g)' = size /\ done'[g] = 0
          /\ Live(g) /\ ~Live(g)' => Faults # {} \/ Start(g) = size

LEMMA QuietTailInv ==
    ASSUME SingleWriter, TypeInv, LogInv, TailInv, QuietTail
    PROVE  TailInv'
<1> SUFFICES ASSUME FileHdrN <= size
             PROVE  \E n \in 0 .. Len(log) : Contiguous(n) /\ (AtTail(n)' \/ AtTear(n)')
  BY DEF TailInv, QuietTail, Contiguous
<1>1. PICK n \in 0 .. Len(log) : Contiguous(n) /\ (AtTail(n) \/ AtTear(n))
  BY DEF TailInv
<1> DEFINE a == ChainEnd(n)
<1>2. a \in Nat /\ size \in Nat /\ ChainEnd(n)' = a /\ UNCHANGED <<file, size, log>>
  BY LogTypes DEF QuietTail, ChainEnd
<1>3. \A g \in Writers : Live(g) =>
        Start(g) \in Nat /\ done[g] \in Nat /\ Start(g) + done[g] <= size
  BY WriterTypes
<1>4. \A g, h \in Writers : g = h
  BY DEF SingleWriter
<1> HIDE DEF a
<1>5. CASE AtTear(n)
  <2>1. ASSUME NEW g \in Writers, Live(g)'
        PROVE  a < Start(g)' /\ (Start(g)' = a + 1 /\ a + 1 < size => file[a + 1][1] = "len")
    <3>1. Live(g) => a < Start(g) /\ (Start(g) = a + 1 /\ a + 1 < size => file[a + 1][1] = "len")
      BY <1>5 DEF AtTear, a
    <3>2. a < size
      BY <1>5 DEF AtTear, a
    <3>3. CASE Live(g) /\ Start(g)' = Start(g)
      BY <3>1, <3>3
    <3>4. CASE Live(g) /\ Start(g)' = Start(g) + RecHdrN
      <4>1. \A x \in Nat : a < x => a < x + RecHdrN /\ x + RecHdrN # a + 1
        BY <1>2 DEF RecHdrN
      <4> QED  BY <1>3, <3>1, <3>4, <4>1
    <3>5. CASE Start(g)' = size
      BY <1>2, <3>2, <3>5
    <3> QED  BY <2>1, <3>3, <3>4, <3>5 DEF QuietTail
  <2>2. AtTear(n)'
    BY <1>2, <1>5, <2>1 DEF AtTear, a, RecordAt, RecEnd, HdrFits, PayFits
  <2> QED  BY <1>1, <2>2
<1>6. CASE AtTail(n)
  <2>1. n = Len(log) /\ ~RecordAt(file, size, a)
    BY <1>6, TailNoRecord DEF AtTail, a
  <2>2. CASE \E g \in Writers : Live(g)'
    <3>1. PICK g \in Writers : Live(g)'
      BY <2>2
    <3>2. CASE /\ Live(g) /\ Start(g)' = Start(g)
               /\ done'[g] = done[g] \/ (done'[g] = 0 /\ done[g] < RecHdrN)
      <4>1. Start(g) = a /\ (size <= a + 1 \/ size <= a + done[g])
        BY <1>6, <3>2 DEF AtTail, a
      <4>2. done[g] \in Nat
        BY <1>3, <3>2
      <4>3. Start(g)' = a /\ (size <= a + 1 \/ size <= a + done'[g])
        BY <1>2, <3>2, <4>1, <4>2 DEF RecHdrN
      <4>4. AtTail(n)'
        BY <1>2, <1>4, <2>1, <3>1, <4>3 DEF AtTail, a
      <4> QED  BY <1>1, <4>4
    <3>3. CASE /\ Live(g) /\ pc[g] = "wpay" /\ Faults # {} /\ done'[g] = 0
               /\ Start(g)' = Start(g) + RecHdrN
      <4>1. Start(g) = a
        BY <1>6, <3>3 DEF AtTail, a
      <4>2. done[g] \in Nat /\ RecHdrN <= done[g]
        BY <1>3, <3>3, WalAssumption DEF TypeInv, WriterOK
      <4>3. a < size /\ a < a + RecHdrN /\ a + RecHdrN # a + 1
        BY <1>2, <1>3, <3>3, <4>1, <4>2 DEF RecHdrN
      <4>4. AtTear(n)'
        BY <1>2, <1>4, <2>1, <3>1, <3>3, <4>1, <4>3
        DEF AtTear, a, RecordAt, RecEnd, HdrFits, PayFits
      <4> QED  BY <1>1, <4>4
    <3>4. CASE ~Live(g) /\ Start(g)' = size /\ done'[g] = 0
      <4>1. size = a
        BY <1>4, <1>6, <3>4 DEF AtTail, a
      <4>2. AtTail(n)'
        BY <1>2, <1>4, <2>1, <3>1, <3>4, <4>1 DEF AtTail, a
      <4> QED  BY <1>1, <4>2
    <3> QED  BY <3>1, <3>2, <3>3, <3>4 DEF QuietTail
  <2>3. CASE \A g \in Writers : ~Live(g)'
    <3>1. CASE size = a
      <4>1. AtTail(n)'
        BY <1>2, <2>1, <2>3, <3>1 DEF AtTail, a
      <4> QED  BY <1>1, <4>1
    <3>2. CASE size # a
      <4>1. PICK g \in Writers : Live(g)
        BY <1>6, <3>2 DEF AtTail, a
      <4>2. Start(g) = a
        BY <1>6, <4>1 DEF AtTail, a
      <4>3. Faults # {}
        BY <2>3, <3>2, <4>1, <4>2 DEF QuietTail
      <4>4. a < size
        BY <1>2, <1>3, <3>2, <4>1, <4>2
      <4>5. AtTear(n)'
        BY <1>2, <2>1, <2>3, <4>3, <4>4 DEF AtTear, a, RecordAt, RecEnd, HdrFits, PayFits
      <4> QED  BY <1>1, <4>5
    <3> QED  BY <3>1, <3>2
  <2> QED  BY <2>2, <2>3
<1> QED  BY <1>1, <1>5, <1>6

\* The steps that leave file and log alone.
LEMMA IsQuietTail ==
    ASSUME SingleWriter, TypeInv, LogInv, GrowInv, NEW h \in Handles,
           \/ Create(h) \/ WriteHeadFail(h) \/ Close(h) \/ Sync(h) \/ BeginScan(h)
           \/ BeginIndex(h) \/ (\E r \in Rec : BeginWrite(h, r)) \/ WriteFail(h)
           \/ Read(h) \/ Callback(h) \/ ProcCrash(h) \/ Open(h)
    PROVE  QuietTail
<1>0. /\ TypeOK /\ Writers \subseteq Handles
      /\ \A g \in Handles : end[g] \in Nat /\ done[g] \in Nat
      /\ \A g \in Handles : ~InWrite(g) => done[g] = 0 /\ Start(g) = end[g]
  <2>1. TypeOK /\ \A g \in Handles : end[g] \in Nat /\ done[g] \in Nat
    BY FormatAssumption DEF TypeInv, TypeOK
  <2> QED  BY <2>1, WalAssumption DEF TypeInv, WriterOK, InWrite, Start
<1>1. CASE Create(h) \/ WriteHeadFail(h)
  BY <1>0, <1>1 DEF TypeOK, Create, WriteHeadFail, writeVars, history, fileVars,
                    QuietTail, Live, Start
<1>2. CASE Sync(h) \/ BeginScan(h) \/ BeginIndex(h)
  BY <1>0, <1>2 DEF Sync, BeginScan, BeginIndex, Begin, writeVars, history, fileVars,
                    QuietTail, Live, Start
<1>3. CASE Read(h) \/ Callback(h)
  BY <1>3 DEF Read, ReadEOF, ReadShort, ReadHdr, ReadPay, ReadCorrupt, ReadFail,
              Return, Callback, writeVars, history, fileVars, QuietTail, Live, Start
<1>4. CASE ProcCrash(h)
  <2>1. Faults # {}
    BY <1>4 DEF ProcCrash
  <2> QED  BY <1>0, <1>4, <2>1 DEF TypeOK, ProcCrash, history, fileVars, QuietTail, Live, Start
<1>5. ASSUME NEW r \in Rec, BeginWrite(h, r) PROVE QuietTail
  <2>1. /\ Start(h) = end[h] /\ Start(h)' = end[h] /\ Live(h) /\ done'[h] = 0 /\ done[h] = 0
        /\ UNCHANGED <<file, size, log>>
    BY <1>0, <1>5 DEF TypeOK, BeginWrite, Free, fileVars, history, Start, Live, InWrite
  <2>2. Live(h)' /\ \A g \in Handles : g # h => /\ pc'[g] = pc[g] /\ end'[g] = end[g]
                                                /\ done'[g] = done[g]
    BY <1>0, <1>5 DEF TypeOK, BeginWrite, Live
  <2> QED  BY <1>0, <2>1, <2>2 DEF QuietTail, Live, Start
<1>6. CASE WriteFail(h)
  <2>1. /\ Start(h)' = end[h] /\ Live(h) /\ Live(h)' /\ done'[h] = 0 /\ Faults # {}
        /\ UNCHANGED <<file, size, log>>
    BY <1>0, <1>6 DEF TypeOK, WriteFail, InWrite, fileVars, Start, Live
  <2>2. \A g \in Handles : g # h => /\ pc'[g] = pc[g] /\ end'[g] = end[g]
                                    /\ done'[g] = done[g]
    BY <1>0, <1>6 DEF TypeOK, WriteFail
  <2>3. \/ pc[h] = "whdr" /\ Start(h) = end[h] /\ done[h] < RecHdrN
        \/ pc[h] = "wpay" /\ end[h] = Start(h) + RecHdrN
    <3>1. \A x \in Nat : x = x - RecHdrN + RecHdrN
      BY DEF RecHdrN
    <3> QED  BY <1>0, <1>6, <3>1 DEF WriteFail, InWrite, Start, WriterOK, TypeInv
  <2> QED  BY <1>0, <2>1, <2>2, <2>3 DEF QuietTail, Live, Start
<1>7. CASE Close(h)
  <2>1. /\ UNCHANGED <<file, size, log, end, done>> /\ pc[h] = "idle" /\ ~Live(h)'
        /\ \A g \in Handles : g # h => pc'[g] = pc[g]
    BY <1>0, <1>7 DEF Close, TypeOK, fileVars, writeVars, history, Live
  <2>2. h \in Writers /\ "io" \notin Faults => Start(h) = size
    <3>1. Start(h) = end[h] /\ done[h] = 0 /\ Live(h)
      BY <1>0, <2>1 DEF InWrite, Live
    <3> QED  BY <1>0, <3>1 DEF GrowInv
  <2> QED  BY <1>0, <2>1, <2>2 DEF QuietTail, Live, Start
<1>8. CASE Open(h)
  <2>1. /\ UNCHANGED <<file, size, log, done>> /\ pc[h] = "none" /\ pc'[h] = "idle"
        /\ end'[h] = size
        /\ \A g \in Handles : g # h => pc'[g] = pc[g] /\ end'[g] = end[g]
    BY <1>0, <1>8 DEF Open, TailOffset, TypeOK, fileVars
  <2>2. ~Live(h) /\ Start(h)' = size /\ done'[h] = 0 /\ Live(h)'
    BY <1>0, <2>1 DEF Live, InWrite, Start
  <2> QED  BY <1>0, <2>1, <2>2 DEF QuietTail, Live, Start
<1> QED  BY <1>1, <1>2, <1>3, <1>4, <1>5, <1>6, <1>7, <1>8

\* A cell of an append is written: either it is not the last one, or the append
\* is acknowledged.
PutMore(h) == /\ log' = log /\ Start(h)' = Start(h) /\ done'[h] = done[h] + 1
              /\ InWrite(h)' /\ cur'[h] = cur[h]
PutLast(h) == /\ log' = Append(log, NewEntry(h)) /\ done[h] + 1 = RecN(cur[h])
              /\ Start(h)' = Start(h) + RecN(cur[h]) /\ done'[h] = 0 /\ pc'[h] = "idle"

LEMMA PutKinds ==
    ASSUME TypeInv, NEW h \in Handles, WriteCell(h) \/ WriteHdrLast(h) \/ WritePayLast(h)
    PROVE  InWrite(h) /\ PutCell(h) /\ (PutMore(h) \/ PutLast(h))
<1>0. TypeOK /\ end[h] \in Nat
  BY FormatAssumption DEF TypeInv, TypeOK
<1>1. InWrite(h) /\ PutCell(h)
  BY DEF WriteCell, WriteHdrLast, WritePayLast, InWrite
<1>2. /\ Start(h) \in Nat /\ done[h] \in Nat
      /\ RecN(cur[h]) = RecHdrN + Len(cur[h].pay) /\ Len(cur[h].pay) \in Nat
  BY <1>1, PutCellType
<1>3. CASE WriteCell(h)
  <2>1. UNCHANGED <<pc, end, cur, log>> /\ done'[h] = done[h] + 1
    BY <1>0, <1>2, <1>3 DEF WriteCell, TypeOK, history
  <2> QED  BY <1>1, <2>1 DEF PutMore, Start, InWrite
<1>4. CASE WriteHdrLast(h)
  <2>1. /\ Start(h) = end[h] /\ done[h] + 1 = RecHdrN /\ end'[h] = end[h] + RecHdrN
    BY <1>0, <1>4 DEF WriteHdrLast, AfterHdr, Start, TypeOK
  <2>2. CASE cur[h].pay # << >>
    <3>1. pc'[h] = "wpay" /\ done'[h] = RecHdrN /\ UNCHANGED <<cur, log>>
      BY <1>0, <1>4, <2>2 DEF WriteHdrLast, TypeOK
    <3>2. Start(h)' = Start(h)
      BY <1>0, <2>1, <3>1 DEF Start, RecHdrN
    <3> QED  BY <1>1, <2>1, <3>1, <3>2 DEF PutMore, InWrite
  <2>3. CASE cur[h].pay = << >>
    <3>1. pc'[h] = "idle" /\ done'[h] = 0 /\ log' = Append(log, NewEntry(h))
      BY <1>0, <1>4, <2>3 DEF WriteHdrLast, TypeOK, Ack, NewEntry
    <3>2. RecN(cur[h]) = RecHdrN
      BY <1>2, <2>3 DEF RecHdrN
    <3> QED  BY <1>1, <2>1, <3>1, <3>2 DEF PutLast, Start
  <2> QED  BY <2>2, <2>3
<1>5. CASE WritePayLast(h)
  <2>1. /\ Start(h) = end[h] - RecHdrN /\ done[h] + 1 = RecN(cur[h])
        /\ end'[h] = end[h] + Len(cur[h].pay) /\ pc'[h] = "idle" /\ done'[h] = 0
        /\ log' = Append(log, NewEntry(h))
    BY <1>0, <1>5 DEF WritePayLast, AfterPay, Start, TypeOK, Ack, NewEntry
  <2>2. \A e, l \in Nat : e + l = e - RecHdrN + (RecHdrN + l)
    BY DEF RecHdrN
  <2>3. end[h] + Len(cur[h].pay) = Start(h) + RecN(cur[h])
    BY <1>0, <1>2, <2>1, <2>2
  <2> QED  BY <1>1, <2>1, <2>3 DEF PutLast, Start
<1> QED  BY <1>1, <1>3, <1>4, <1>5

LEMMA PutTail ==
    ASSUME SingleWriter, TypeInv, LogInv, TailInv, NEW h \in Handles,
           WriteCell(h) \/ WriteHdrLast(h) \/ WritePayLast(h),
           FileHdrN <= size
    PROVE  TailInv'
<1>1. /\ InWrite(h) /\ PutCell(h) /\ (PutMore(h) \/ PutLast(h)) /\ Live(h)
  BY PutKinds DEF InWrite, Live
<1>2. /\ h \in Writers /\ Start(h) \in Nat /\ done[h] \in Nat /\ RecN(cur[h]) \in Nat
      /\ cur[h] \in Rec /\ RecN(cur[h]) >= RecHdrN
      /\ size \in Nat /\ size' \in Nat /\ size <= size' /\ Start(h) + RecN(cur[h]) <= FileCap
      /\ log \in Seq(Entry) /\ Len(log) \in Nat /\ FileCap \in Nat
  <2>1. /\ h \in Writers /\ Start(h) \in Nat /\ done[h] \in Nat /\ cur[h] \in Rec
        /\ RecN(cur[h]) \in Nat /\ RecN(cur[h]) >= RecHdrN /\ size <= size'
        /\ size' \in 0 .. FileCap
    BY <1>1, PutCellType DEF RecHdrN
  <2>2. Start(h) + RecN(cur[h]) <= FileCap
    BY <1>1 DEF TypeInv, WriterOK
  <2>3. size \in Nat /\ FileCap \in Nat /\ log \in Seq(Entry)
    BY FormatAssumption DEF TypeInv, TypeOK
  <2> QED  BY <2>1, <2>2, <2>3
<1>3. size' = size \/ size' = Start(h) + done[h] + 1
  BY <1>1 DEF PutCell, Larger
<1>4. \A g \in Writers : g = h
  BY <1>2 DEF SingleWriter
<1>5. PICK n \in 0 .. Len(log) : Contiguous(n) /\ (AtTail(n) \/ AtTear(n))
  BY DEF TailInv
<1> DEFINE a == ChainEnd(n)
<1>6. a \in Nat
  BY LogTypes
<1> HIDE DEF a
<1>7. \/ log' = log
      \/ /\ Len(log') = Len(log) + 1 /\ log'[Len(log) + 1] = NewEntry(h)
         /\ \A i \in 1 .. Len(log) : log'[i] = log[i]
  <2>1. NewEntry(h) \in Entry
    <3>1. Start(h) \in 0 .. FileCap
      BY <1>2
    <3> QED  BY <1>2, <3>1 DEF NewEntry, Entry, Rec
  <2>2. CASE log' = Append(log, NewEntry(h))
    BY <1>2, <2>1, <2>2
  <2> QED  BY <1>1, <2>2 DEF PutMore, PutLast
<1>8. n \in 0 .. Len(log') /\ Contiguous(n)' /\ ChainEnd(n)' = a
  <2>0. \A i \in 1 .. Len(log) : log'[i] = log[i]
    BY <1>7
  <2>1. \A i \in 1 .. n : log'[i] = log[i] /\ (i # 1 => log'[i - 1] = log[i - 1])
    BY <1>2, <2>0
  <2>2. Contiguous(n)'
    BY <1>5, <2>1 DEF Contiguous
  <2>3. ChainEnd(n)' = a
    BY <2>1 DEF ChainEnd, a
  <2> QED  BY <1>2, <1>7, <2>2, <2>3
<1>9. CASE AtTear(n)
  <2>1. a < size /\ ~RecordAt(file, size, a) /\ a < Start(h) /\ Faults # {}
        /\ (n < Len(log) => a < log[n + 1].off)
    BY <1>1, <1>2, <1>9 DEF AtTear, a
  <2>2. ~RecordAt(file', size', a)
    BY <1>1, <1>6, <2>1, PutCellTear
  <2>3. n < Len(log') => a < log'[n + 1].off
    <3>1. n + 1 \in 1 .. Len(log) \/ n = Len(log)
      BY <1>2
    <3> QED  BY <1>2, <1>7, <2>1, <3>1 DEF NewEntry
  <2>4. a < Start(h)' /\ (Start(h)' = a + 1 /\ a + 1 < size' => file'[a + 1][1] = "len")
    <3>1. CASE PutMore(h)
      <4>1. 1 \in 1 .. done[h] + 1 /\ Start(h) + 1 - 1 = Start(h)
        BY <1>2
      <4>2. file'[Start(h)] = RecCell(cur[h], 1)
        BY <1>1, <4>1, PutCellLog
      <4> QED  BY <2>1, <3>1, <4>2, FirstCell DEF PutMore
    <3>2. CASE PutLast(h)
      <4>1. Start(h)' = Start(h) + RecN(cur[h])
        BY <3>2 DEF PutLast
      <4>2. \A x, y \in Nat : a < x /\ RecHdrN <= y => a < x + y /\ x + y # a + 1
        BY <1>6 DEF RecHdrN
      <4> QED  BY <1>2, <2>1, <4>1, <4>2
    <3> QED  BY <1>1, <3>1, <3>2
  <2>5. a < size'
    BY <1>2, <1>6, <2>1
  <2>6. AtTear(n)'
    BY <1>4, <1>8, <2>1, <2>2, <2>3, <2>4, <2>5 DEF AtTear
  <2> QED  BY <1>8, <2>6 DEF TailInv
<1>10. CASE AtTail(n)
  <2>1. n = Len(log) /\ Start(h) = a /\ (size <= a + 1 \/ size <= a + done[h])
    BY <1>1, <1>2, <1>10 DEF AtTail, a
  <2>2. CASE PutMore(h)
    <3>1. size' <= a + 1 \/ size' <= a + (done[h] + 1)
      BY <1>2, <1>3, <1>6, <2>1
    <3>2. /\ Live(h)' /\ Start(h)' = a /\ done'[h] = done[h] + 1 /\ log' = log
      BY <2>1, <2>2 DEF PutMore, InWrite, Live
    <3>3. AtTail(n)'
      BY <1>2, <1>4, <1>8, <2>1, <3>1, <3>2 DEF AtTail
    <3> QED  BY <1>8, <3>3 DEF TailInv
  <2>3. CASE PutLast(h)
    <3> DEFINE b == a + RecN(cur[h])
    <3>1. /\ Start(h)' = b /\ done'[h] = 0 /\ Live(h)' /\ done[h] + 1 = RecN(cur[h])
          /\ log' = Append(log, NewEntry(h))
      BY <2>1, <2>3 DEF PutLast, Live
    <3>2. size' <= b
      BY <1>2, <1>3, <1>6, <2>1, <3>1 DEF RecHdrN
    <3>3. Len(log') = Len(log) + 1 /\ log'[Len(log) + 1] = NewEntry(h)
          /\ \A i \in 1 .. Len(log) : log'[i] = log[i]
      <4>1. NewEntry(h) \in Entry
        <5>1. Start(h) \in 0 .. FileCap
          BY <1>2
        <5> QED  BY <1>2, <5>1 DEF NewEntry, Entry, Rec
      <4> QED  BY <1>2, <3>1, <4>1
    <3>4. NewEntry(h).off = a /\ NextOff(NewEntry(h)) = b
      BY <2>1 DEF NewEntry, NextOff, RecN
    <3>5. ChainEnd(n + 1)' = b
      <4>1. n + 1 # 0 /\ n + 1 = Len(log) + 1
        BY <1>2, <2>1
      <4> QED  BY <3>3, <3>4, <4>1 DEF ChainEnd
    <3>6. Contiguous(n + 1)'
      <4> SUFFICES ASSUME NEW i \in 1 .. n + 1
                   PROVE  log'[i].off = IF i = 1 THEN FileHdrN ELSE NextOff(log'[i - 1])
        BY DEF Contiguous
      <4>1. CASE i \in 1 .. n
        <5>1. log'[i] = log[i] /\ (i # 1 => log'[i - 1] = log[i - 1])
          BY <1>2, <3>3, <4>1
        <5> QED  BY <1>5, <4>1, <5>1 DEF Contiguous
      <4>2. CASE i = n + 1
        <5>1. log'[i].off = a
          BY <2>1, <3>3, <3>4, <4>2
        <5>2. a = IF n = 0 THEN FileHdrN ELSE NextOff(log[n])
          BY DEF a, ChainEnd
        <5>3. (i = 1) = (n = 0) /\ i - 1 = n /\ (n # 0 => log'[n] = log[n])
          BY <2>1, <3>3, <4>2
        <5> QED  BY <5>1, <5>2, <5>3
      <4> QED  BY <1>2, <4>1, <4>2
    <3>7. AtTail(n + 1)'
      <4>1. n + 1 = Len(log') /\ size' <= b + 1
        BY <1>2, <1>6, <2>1, <3>2, <3>3
      <4> QED  BY <1>2, <1>4, <3>1, <3>5, <4>1 DEF AtTail
    <3> QED  BY <1>2, <2>1, <3>3, <3>6, <3>7 DEF TailInv
  <2> QED  BY <1>1, <2>2, <2>3
<1> QED  BY <1>5, <1>9, <1>10

LEMMA HeadTail ==
    ASSUME SingleWriter, TypeInv, FileInv, LogInv, NEW h \in Handles, WriteHead(h)
    PROVE  TailInv'
<1>1. TypeOK /\ size = 0 /\ \A g \in Handles : g # h => pc[g] = "none"
  BY DEF TypeInv, WriteHead, FileInv
<1>2. Len(log) = 0
  BY <1>1, NoHeaderNoLog DEF FileHdrN
<1>3. /\ log' = log /\ size' = FileHdrN /\ pc'[h] = "idle" /\ end'[h] = FileHdrN
      /\ \A g \in Handles : g # h => pc'[g] = "none"
  BY <1>1 DEF WriteHead, TypeOK, history
<1>4. Contiguous(0)' /\ ChainEnd(0)' = FileHdrN
  BY DEF Contiguous, ChainEnd
<1>5. AtTail(0)'
  <2>1. ASSUME NEW g \in Writers, Live(g)' PROVE Start(g)' = FileHdrN
    BY <1>3, <2>1, WalAssumption DEF Live, Start
  <2> QED  BY <1>2, <1>3, <1>4, <2>1 DEF AtTail, FileHdrN
<1> QED  BY <1>2, <1>3, <1>4, <1>5 DEF TailInv

\* A record that a power failure leaves was one before.
LEMMA PowerRecord ==
    ASSUME PlainUse, TypeInv, GrowInv, LenInv, PowerFail,
           NEW a \in Nat, RecordAt(file', size', a)
    PROVE  /\ RecordAt(file, size, a)
           /\ RecEnd(file', a) = RecEnd(file, a) /\ RecEnd(file, a) <= size'
           /\ \A b \in a .. RecEnd(file, a) - 1 : file'[b] = file[b]
<1>0. /\ size \in Nat /\ size <= FileCap /\ FileCap \in Nat /\ size' \in Nat /\ size' <= size
      /\ file' \in [Addr -> Cell] /\ "power" \in Faults
  <2>1. size \in 0 .. FileCap /\ TypeInv' /\ FileCap \in Nat
    BY TypePower, FormatAssumption DEF TypeInv, TypeOK
  <2>2. size' \in 0 .. FileCap /\ file' \in [Addr -> Cell]
    BY <2>1 DEF TypeInv, TypeOK
  <2>3. size' <= size
    <3>1. PICK n \in Nat : n <= size /\ size' = IF exists' THEN n ELSE 0
      BY PowerShape
    <3> QED  BY <2>1, <3>1
  <2> QED  BY <2>1, <2>2, <2>3 DEF PowerFail
<1>1. /\ a + RecHdrN <= size' /\ RecEnd(file', a) <= size'
      /\ file'[a + 1][1] \in {"sum", "zero"}
      /\ DecLen(file'[a]) = RecHdrN + Len(SumOf(file'[a + 1]))
      /\ \A b \in a + RecHdrN .. RecEnd(file', a) - 1 :
            file'[b] = PayCell(SumOf(file'[a + 1])[b - a - 1])
  BY DEF RecordAt, HdrFits, PayFits
<1>2. a \in Addr /\ a + 1 \in Addr
  BY <1>0, <1>1 DEF Addr, RecHdrN
<1>3. \A b \in Addr : file'[b] \in {file[b], Zero}
  BY PowerCells
<1>4. DecLen(file'[a]) # RecHdrN
  <2>1. DecLen(Zero) # RecHdrN
    BY DEF DecLen, Zero, RecHdrN
  <2> QED  BY <1>0, <1>2, <1>3, <2>1 DEF LenInv
<1>5. Len(SumOf(file'[a + 1])) \in Nat
  <2>1. SumOf(file'[a + 1]) \in Payloads \union {<< >>}
    BY <1>0, <1>2, DecodeType
  <2> QED  BY <2>1, FormatAssumption
<1>6. SumOf(file'[a + 1]) # << >>
  <2>1. SumOf(file'[a + 1]) = << >> => Len(SumOf(file'[a + 1])) = 0
    OBVIOUS
  <2> QED  BY <1>1, <1>4, <2>1 DEF RecHdrN
<1>7. file'[a + 1] = file[a + 1]
  <2>1. SumOf(Zero) = << >>
    BY DEF SumOf, Zero
  <2> QED  BY <1>2, <1>3, <1>6, <2>1
<1>8. file'[a] = file[a]
  <2>1. DecLen(Zero) = 0
    BY DEF DecLen, Zero
  <2>2. DecLen(file'[a]) # 0
    BY <1>1, <1>5 DEF RecHdrN
  <2> QED  BY <1>2, <1>3, <2>1, <2>2
<1>9. RecEnd(file', a) = RecEnd(file, a) /\ RecEnd(file, a) \in Nat
  BY <1>5, <1>7 DEF RecEnd, RecHdrN
<1> DEFINE e == RecEnd(file, a)
<1>10. e \in Nat /\ e <= size'
  BY <1>1, <1>9
<1> HIDE DEF e
<1>11. \A b \in a + RecHdrN .. e - 1 : file'[b] = PayCell(SumOf(file[a + 1])[b - a - 1])
  BY <1>1, <1>7, <1>9 DEF e
<1>12. ASSUME NEW b \in a + RecHdrN .. e - 1 PROVE file'[b] = file[b]
  <2>1. b \in Addr
    BY <1>0, <1>10 DEF Addr, RecHdrN
  <2>2. file'[b] # Zero
    BY <1>11 DEF PayCell, Zero
  <2> QED  BY <1>3, <2>1, <2>2
<1>13. HdrFits(file, a)
  BY <1>1, <1>7, <1>8 DEF HdrFits
<1>14. PayFits(file, a)
  BY <1>11, <1>12 DEF PayFits, e
<1>15. a + RecHdrN <= size /\ e <= size
  BY <1>0, <1>1, <1>10 DEF RecHdrN
<1>16. \A b \in a .. e - 1 : file'[b] = file[b]
  <2>1. \A b \in a .. e - 1 : b = a \/ b = a + 1 \/ b \in a + RecHdrN .. e - 1
    BY <1>10 DEF RecHdrN
  <2> QED  BY <1>7, <1>8, <1>12, <2>1
<1> QED  BY <1>9, <1>10, <1>13, <1>14, <1>15, <1>16 DEF RecordAt, e

LEMMA PowerTail ==
    ASSUME PlainUse, TypeInv, LogInv, GrowInv, LenInv, TailInv, PowerFail
    PROVE  TailInv'
<1> SUFFICES ASSUME FileHdrN <= size' PROVE TailInv'
  BY DEF TailInv
<1>0. /\ log \in Seq(Entry) /\ Len(log) \in Nat /\ size \in Nat /\ size' \in Nat
      /\ Faults # {} /\ SingleWriter
  <2>1. TypeInv' /\ log \in Seq(Entry) /\ Len(log) \in Nat /\ size \in Nat
    BY TypePower, LogTypes
  <2>2. size' \in Nat
    BY <2>1, FormatAssumption DEF TypeInv, TypeOK
  <2> QED  BY <2>1, <2>2 DEF PowerFail, PlainUse
<1>1. PICK m \in Nat, k \in 0 .. Len(log) :
        /\ m <= size /\ size' = IF exists' THEN m ELSE 0
        /\ Len(log') = k /\ \A i \in 1 .. k : log'[i] = log[i]
        /\ \A i \in 1 .. k : Intact(file', size', log[i])
        /\ \A j \in Surviving(file', size') : j <= k
  BY PowerShape
<1>2. FileHdrN <= size
  BY <1>0, <1>1 DEF FileHdrN
<1>3. PICK n \in 0 .. Len(log) : Contiguous(n) /\ (AtTail(n) \/ AtTear(n))
  BY <1>2 DEF TailInv
<1>4. ~RecordAt(file, size, ChainEnd(n))
  BY <1>0, <1>3, TailNoRecord DEF AtTear
<1>5. \A h \in Writers : ~Live(h)'
  BY WalAssumption DEF PowerFail, Live
<1>6. \A j \in 0 .. k : ChainEnd(j)' = ChainEnd(j) /\ ChainEnd(j) \in Nat
  <2>1. \A j \in 0 .. k : j # 0 => j \in 1 .. k /\ log'[j] = log[j]
    BY <1>0, <1>1
  <2>2. \A j \in 0 .. k : j \in 0 .. Len(log)
    BY <1>0
  <2> QED  BY <2>1, <2>2, LogTypes DEF ChainEnd
<1>7. \A j \in 0 .. k : Contiguous(j) => Contiguous(j)'
  <2> SUFFICES ASSUME NEW j \in 0 .. k, Contiguous(j), NEW i \in 1 .. j
               PROVE  log'[i].off = IF i = 1 THEN FileHdrN ELSE NextOff(log'[i - 1])
    BY DEF Contiguous
  <2>1. i \in 1 .. k /\ (i # 1 => i - 1 \in 1 .. k)
    BY <1>0
  <2>2. log'[i] = log[i] /\ (i # 1 => log'[i - 1] = log[i - 1])
    BY <1>1, <2>1
  <2> QED  BY <2>2 DEF Contiguous
<1>8. CASE n < k
  <2>1. n + 1 \in 1 .. k /\ n \in 0 .. k /\ n < Len(log) /\ n + 1 \in 1 .. Len(log)
    BY <1>0, <1>8
  <2>2. ChainEnd(n) < log[n + 1].off
    BY <1>3, <2>1 DEF AtTail, AtTear
  <2>3. log[n + 1].off < NextOff(log[n + 1]) /\ NextOff(log[n + 1]) \in Nat
        /\ log[n + 1].off \in Nat
    <3>1. log[n + 1] \in Entry
      BY <1>0, <2>1
    <3> QED  BY <3>1, EntryType DEF RecHdrN
  <2>4. NextOff(log[n + 1]) <= size'
    BY <1>1, <2>1 DEF Intact
  <2>5. ChainEnd(n) < size'
    BY <1>0, <1>6, <2>1, <2>2, <2>3, <2>4
  <2>6. ~RecordAt(file', size', ChainEnd(n))
    BY <1>4, <1>6, <2>1, PowerRecord
  <2>7. AtTear(n)'
    <3>1. log'[n + 1] = log[n + 1]
      BY <1>1, <2>1
    <3> QED  BY <1>0, <1>5, <1>6, <2>1, <2>2, <2>5, <2>6, <3>1 DEF AtTear
  <2> QED  BY <1>1, <1>3, <1>7, <2>1, <2>7 DEF TailInv
<1>9. CASE k <= n
  <2>1. k \in 0 .. k /\ Contiguous(k)' /\ k \in 0 .. n
    <3>1. k \in 0 .. k /\ k \in 0 .. n
      BY <1>9
    <3>2. Contiguous(k)
      BY <1>3, <3>1 DEF Contiguous
    <3> QED  BY <1>7, <3>1, <3>2
  <2> DEFINE a == ChainEnd(k)
  <2>2. a \in Nat /\ ChainEnd(k)' = a
    BY <1>6, <2>1
  <2>3. a <= size'
    <3>1. CASE k = 0
      BY <3>1 DEF ChainEnd
    <3>2. CASE k # 0
      <4>1. k \in 1 .. k /\ a = NextOff(log[k])
        BY <3>2 DEF ChainEnd
      <4>2. Intact(file', size', log[k])
        BY <1>1, <4>1
      <4> QED  BY <4>1, <4>2 DEF Intact
    <3> QED  BY <3>1, <3>2
  <2> HIDE DEF a
  <2>4. CASE size' = a
    <3>1. AtTail(k)'
      BY <1>1, <1>5, <2>2, <2>4 DEF AtTail
    <3> QED  BY <1>1, <2>1, <3>1 DEF TailInv
  <2>5. CASE size' # a
    <3>1. ~RecordAt(file', size', a)
      <4> SUFFICES ASSUME RecordAt(file', size', a) PROVE FALSE
        OBVIOUS
      <4>1. /\ RecordAt(file, size, a) /\ RecEnd(file, a) <= size'
            /\ \A b \in a .. RecEnd(file, a) - 1 : file'[b] = file[b]
        BY <2>2, PowerRecord
      <4>2. k # n
        BY <1>4, <4>1 DEF a
      <4>3. k \in 0 .. n - 1 /\ k + 1 \in 1 .. Len(log)
        BY <1>0, <1>9, <4>2
      <4>4. log[k + 1].off = a
        BY <1>3, <4>3, ChainStep DEF a
      <4> DEFINE x == log[k + 1]
      <4>5. x \in Entry /\ Intact(file, size, x) /\ Len(x.pay) <= MaxPayload /\ x.off = a
        BY <1>0, <4>3, <4>4 DEF LogInv, AckedIntact, LenInv
      <4> HIDE DEF x
      <4>6. RecEnd(file, a) = NextOff(x)
        BY <1>0, <4>5, EntryIsRecord
      <4>7. Intact(file', size', x)
        <5>1. \A i \in 1 .. RecN(x) : a + i - 1 \in a .. NextOff(x) - 1
          BY <2>2, <4>5, EntryType
        <5> QED  BY <4>1, <4>5, <4>6, <5>1 DEF Intact
      <4>8. \A i \in 1 .. k + 1 : Intact(file', size', log[i])
        <5>1. \A i \in 1 .. k + 1 : i \in 1 .. k \/ i = k + 1
          OBVIOUS
        <5> QED  BY <1>1, <4>7, <5>1 DEF x
      <4>9. k + 1 \in Surviving(file', size')
        BY <1>0, <4>3, <4>8 DEF Surviving
      <4> QED  BY <1>1, <4>9
    <3>2. a < size'
      BY <1>0, <2>2, <2>3, <2>5
    <3>3. AtTear(k)'
      BY <1>0, <1>1, <1>5, <2>2, <3>1, <3>2 DEF AtTear
    <3> QED  BY <1>1, <2>1, <3>3 DEF TailInv
  <2> QED  BY <2>4, <2>5
<1> QED  BY <1>0, <1>8, <1>9

LEMMA TailNext ==
    PlainUse /\ IInv /\ GrowInv /\ LenInv /\ TailInv /\ [Next]_vars => TailInv'
<1> SUFFICES ASSUME PlainUse, IInv, GrowInv, LenInv, TailInv, [Next]_vars PROVE TailInv'
  OBVIOUS
<1>0. SingleWriter /\ TypeInv /\ FileInv /\ LogInv
  BY DEF PlainUse, IInv
<1>1. CASE PowerFail
  BY <1>0, <1>1, PowerTail
<1>2. ASSUME NEW h \in Handles, Step(h) PROVE TailInv'
  <2>1. CASE WriteCell(h) \/ WriteHdrLast(h) \/ WritePayLast(h)
    <3>1. FileHdrN <= size
      BY <1>0, <2>1, PutKinds DEF FileInv, InWrite, Live
    <3> QED  BY <1>0, <2>1, <3>1, PutTail
  <2> QED  BY <1>0, <1>2, <2>1, HeadTail, IsQuietTail, QuietTailInv DEF Step, Client, Write
<1>3. CASE UNCHANGED vars
  <2>1. QuietTail
    BY <1>3 DEF vars, fileVars, writeVars, history, QuietTail, Live, Start
  <2> QED  BY <1>0, <2>1, QuietTailInv
<1> QED  BY <1>1, <1>2, <1>3 DEF Next

-----------------------------------------------------------------------------
(* The calls under way.                                                    *)

\* The log is only added to.
LogExt == /\ Len(log') \in Nat /\ Len(log) <= Len(log')
          /\ \A i \in 1 .. Len(log) : log'[i] = log[i]

\* The header behind the first appends of the chain is not written again,
\* unless it is none: the length cell of a torn append, and another one.
HeaderKept ==
    /\ size \in Nat /\ size' \in Nat /\ size <= size'
    /\ \A k \in 0 .. Len(log) :
          LET a == ChainEnd(k)
          IN  Contiguous(k) /\ a + RecHdrN <= size =>
                 /\ file'[a] = file[a]
                 /\ \/ file'[a + 1] = file[a + 1]
                    \/ file'[a + 1][1] = "len" /\ file[a + 1][1] = "len"

LEMMA HeaderPut ==
    ASSUME SingleWriter, TypeInv, LogInv, TailInv, NEW h \in Handles, InWrite(h), PutCell(h)
    PROVE  HeaderKept
<1>1. /\ h \in Writers /\ Live(h) /\ Start(h) \in Nat /\ done[h] \in Nat
      /\ size \in Nat /\ size' \in Nat /\ size <= size'
      /\ file \in [Addr -> Cell] /\ Len(log) \in Nat
  <2>1. /\ h \in Writers /\ Start(h) \in Nat /\ done[h] \in Nat
        /\ size <= size' /\ size' \in 0 .. FileCap
    BY PutCellType
  <2>2. size \in Nat /\ FileCap \in Nat /\ file \in [Addr -> Cell] /\ Len(log) \in Nat
    BY FormatAssumption, LogTypes DEF TypeInv, TypeOK
  <2> QED  BY <2>1, <2>2 DEF Live, InWrite
<1>2. \A b : b # Start(h) + done[h] => file'[b] = file[b]
  BY <1>1 DEF PutCell
<1> SUFFICES ASSUME NEW k \in 0 .. Len(log), Contiguous(k), ChainEnd(k) + RecHdrN <= size
             PROVE  /\ file'[ChainEnd(k)] = file[ChainEnd(k)]
                    /\ \/ file'[ChainEnd(k) + 1] = file[ChainEnd(k) + 1]
                       \/ file'[ChainEnd(k) + 1][1] = "len" /\ file[ChainEnd(k) + 1][1] = "len"
  BY <1>1 DEF HeaderKept
<1> DEFINE a == ChainEnd(k)
<1>3. a \in Nat /\ a + RecHdrN <= size /\ FileHdrN <= size
  BY <1>1, LogTypes DEF FileHdrN, RecHdrN
<1>4. PICK n \in 0 .. Len(log) : Contiguous(n) /\ (AtTail(n) \/ AtTear(n))
  BY <1>3 DEF TailInv
<1>5. CASE n < k
  <2>1. n \in 0 .. k - 1 /\ n < Len(log)
    BY <1>1, <1>5
  <2>2. log[n + 1].off = ChainEnd(n)
    BY <2>1, ChainStep
  <2>3. ChainEnd(n) \in Nat /\ ~(ChainEnd(n) < ChainEnd(n))
    BY <1>4, LogTypes
  <2> QED  BY <1>1, <1>4, <1>5, <2>1, <2>2, <2>3 DEF AtTail, AtTear
<1>6. CASE k < n
  <2>1. k \in 0 .. n - 1
    BY <1>1, <1>6
  <2>2. k + 1 \in 1 .. Len(log) /\ log[k + 1].off = a
    BY <1>4, <2>1, ChainStep
  <2>3. PICK l \in Nat : l = Len(log[k + 1].pay) /\ NextOff(log[k + 1]) = a + RecHdrN + l
    BY <2>2, LogTypes
  <2>4. a + RecHdrN + l <= Start(h)
    BY <1>1, <2>2, <2>3 DEF LogInv
  <2> HIDE DEF a
  <2>5. a # Start(h) + done[h] /\ a + 1 # Start(h) + done[h]
    BY <1>1, <1>3, <2>4 DEF RecHdrN
  <2> QED  BY <1>2, <2>5 DEF a
<1>7. CASE k = n /\ AtTail(n)
  <2>1. Start(h) = a /\ (size <= a + 1 \/ size <= a + done[h])
    BY <1>1, <1>7 DEF AtTail
  <2> HIDE DEF a
  <2>2. a # Start(h) + done[h] /\ a + 1 # Start(h) + done[h]
    BY <1>1, <1>3, <2>1 DEF RecHdrN
  <2> QED  BY <1>2, <2>2 DEF a
<1>8. CASE k = n /\ AtTear(n)
  <2>1. a < Start(h) /\ (Start(h) = a + 1 /\ a + 1 < size => file[a + 1][1] = "len")
    BY <1>1, <1>8 DEF AtTear
  <2> HIDE DEF a
  <2>2. a # Start(h) + done[h] /\ a + 1 < size
    BY <1>1, <1>3, <2>1 DEF RecHdrN
  <2>3. CASE a + 1 = Start(h) + done[h]
    <3>1. Start(h) = a + 1 /\ done[h] = 0
      BY <1>1, <1>3, <2>1, <2>3
    <3>2. 1 \in 1 .. done[h] + 1 /\ Start(h) + 1 - 1 = a + 1
      BY <1>1, <1>3, <3>1
    <3>3. file'[a + 1] = RecCell(cur[h], 1)
      BY <3>2, PutCellLog
    <3> QED  BY <1>2, <2>1, <2>2, <3>1, <3>3, FirstCell DEF a
  <2> QED  BY <1>2, <2>2, <2>3 DEF a
<1> QED  BY <1>1, <1>4, <1>5, <1>6, <1>7, <1>8

\* What a step does to log and file as far as readers are concerned.
LEMMA StepKeeps ==
    ASSUME SingleWriter, TypeInv, FileInv, LogInv, TailInv, NEW h \in Handles, Step(h)
    PROVE  LogExt /\ HeaderKept
<1>0. log \in Seq(Entry) /\ Len(log) \in Nat /\ size \in Nat
  BY LogTypes
<1>1. CASE WriteCell(h) \/ WriteHdrLast(h) \/ WritePayLast(h)
  <2>1. InWrite(h) /\ PutCell(h) /\ (PutMore(h) \/ PutLast(h))
    BY <1>1, PutKinds
  <2>2. LogExt
    <3>1. CASE PutMore(h)
      BY <1>0, <3>1 DEF PutMore, LogExt
    <3>2. CASE PutLast(h)
      BY <1>0, <3>2 DEF PutLast, LogExt
    <3> QED  BY <2>1, <3>1, <3>2
  <2> QED  BY <2>1, <2>2, HeaderPut
<1>2. CASE WriteHead(h)
  <2>1. size = 0 /\ size' = FileHdrN /\ log' = log
    BY <1>2 DEF WriteHead, FileInv, history
  <2>2. \A k \in 0 .. Len(log) : ~(ChainEnd(k) + RecHdrN <= size)
    BY <2>1, LogTypes DEF RecHdrN
  <2> QED  BY <1>0, <2>1, <2>2 DEF LogExt, HeaderKept, FileHdrN
<1>3. CASE UNCHANGED <<file, size, log>>
  BY <1>0, <1>3 DEF LogExt, HeaderKept
<1>4. CASE Open(h)
  BY <1>3, <1>4 DEF Open, fileVars
<1> QED  BY <1>1, <1>2, <1>3, <1>4, IsQuiet DEF Step, Client, Write

\* The chain of appends as it was.
LEMMA ChainKept ==
    ASSUME TypeInv, LogExt, NEW n \in 0 .. Len(log)
    PROVE  /\ ChainEnd(n)' = ChainEnd(n) /\ ChainEnd(n) \in Nat
           /\ Contiguous(n)' = Contiguous(n)
<1>1. Len(log) \in Nat /\ ChainEnd(n) \in Nat
  BY LogTypes
<1>2. \A i \in 1 .. n : log'[i] = log[i] /\ (i # 1 => log'[i - 1] = log[i - 1])
  BY <1>1 DEF LogExt
<1>3. n # 0 => n \in 1 .. n
  BY <1>1
<1>4. Contiguous(n)' = Contiguous(n)
  BY <1>2 DEF Contiguous
<1> QED  BY <1>1, <1>2, <1>3, <1>4 DEF ChainEnd

LEMMA PassedKept ==
    ASSUME TypeInv, LogExt, NEW got \in Seq(Found), Passed(got)
    PROVE  Passed(got)'
<1>1. Len(got) \in 0 .. Len(log) /\ Len(got) \in Nat /\ Len(log) \in Nat
  BY LogTypes DEF Passed
<1>2. Len(got) <= Len(log') /\ \A i \in 1 .. Len(got) : got[i] = log'[i]
  BY <1>1 DEF Passed, LogExt
<1>3. Contiguous(Len(got))'
  BY <1>1, ChainKept DEF Passed
<1> QED  BY <1>2, <1>3 DEF Passed

\* A call that a step leaves alone.
LEMMA CallFrame ==
    ASSUME TypeInv, LogExt, HeaderKept, NEW g \in Handles, CallInv(g),
           calls'[g] = calls[g], InCall(g) => pos'[g] = pos[g]
    PROVE  CallInv(g)'
<1> SUFFICES ASSUME InCall(g) PROVE CallInv(g)'
  BY DEF CallInv, InCall
<1>1. PICK t \in Call : t = Top(g)
  BY TopType
<1>2. /\ InCall(g)' /\ Top(g)' = t /\ Len(calls'[g]) = Len(calls[g]) /\ pos'[g] = pos[g]
      /\ Len(log) \in Nat /\ Len(log') \in Nat
      /\ t.got \in Seq(Found) /\ t.n0 \in Nat /\ Len(t.got) \in Nat
  BY <1>1, LogTypes DEF InCall, Top, LogExt, Call
<1>3. PICK k \in Nat : k = Len(t.got)
  BY <1>2
<1>4. PICK a \in Nat : a = ChainEnd(k)
  <2>1. k \in 0 .. Len(log)
    BY <1>1, <1>2, <1>3 DEF CallInv, Passed
  <2> QED  BY <2>1, LogTypes
<1>5. /\ Len(calls[g]) = 1 /\ Passed(t.got) /\ t.n0 <= Len(log)
      /\ t.at \in {"hdr", "cb"} => pos[g] = a
      /\ t.at = "pay" => t.off = a /\ HdrStands(t.hdr, a)
      /\ Ended(t) => \A n \in 1 .. t.n0 : Contiguous(n) => n <= k
  BY <1>1, <1>3, <1>4 DEF CallInv
<1>6. k \in 0 .. Len(log) /\ Contiguous(k)
  BY <1>2, <1>3, <1>5 DEF Passed
<1>7. ChainEnd(k)' = a
  BY <1>4, <1>6, ChainKept
<1>8. HdrStands(t.hdr, a) => HdrStands(t.hdr, a)'
  <2> SUFFICES ASSUME HdrStands(t.hdr, a) PROVE HdrStands(t.hdr, a)'
    OBVIOUS
  <2>1. a + RecHdrN <= size
    BY DEF HdrStands
  <2>2. /\ file'[a] = file[a]
        /\ file'[a + 1] = file[a + 1] \/ (file'[a + 1][1] = "len" /\ file[a + 1][1] = "len")
    BY <1>4, <1>6, <2>1 DEF HeaderKept
  <2>3. a + RecHdrN <= size'
    BY <1>4, <2>1 DEF HeaderKept, RecHdrN
  <2> QED  BY <2>2, <2>3 DEF HdrStands
<1>9. t.n0 <= Len(log')
  BY <1>2, <1>5 DEF LogExt
<1>10. ASSUME Ended(t), NEW n \in 1 .. t.n0, Contiguous(n)' PROVE n <= k
  <2>1. n \in 0 .. Len(log)
    BY <1>2, <1>5
  <2> QED  BY <1>5, <1>10, <2>1, ChainKept
<1>11. Passed(t.got)'
  BY <1>2, <1>5, PassedKept
<1> QED  BY <1>2, <1>3, <1>5, <1>7, <1>8, <1>9, <1>10, <1>11 DEF CallInv

\* What a reader has not passed yet of what it has to pass is a record.
LEMMA DueRecord ==
    ASSUME TypeInv, LogInv, LenInv, NEW k \in Nat, NEW n \in 1 .. Len(log), k < n, Contiguous(n)
    PROVE  RecordAt(file, size, ChainEnd(k)) /\ file[ChainEnd(k) + 1][1] = "sum"
<1>1. Len(log) \in Nat /\ n \in 0 .. Len(log) /\ k \in 0 .. n - 1 /\ size \in Nat
  BY LogTypes
<1>2. k + 1 \in 1 .. Len(log) /\ log[k + 1].off = ChainEnd(k)
  BY <1>1, ChainStep
<1>3. /\ log[k + 1] \in Entry /\ Intact(file, size, log[k + 1])
      /\ Len(log[k + 1].pay) <= MaxPayload
  BY <1>2, LogTypes DEF LogInv, AckedIntact, LenInv
<1>4. /\ RecordAt(file, size, log[k + 1].off)
      /\ file[log[k + 1].off + 1] = SumCell(log[k + 1].typ, log[k + 1].pay)
  BY <1>1, <1>3, EntryIsRecord
<1> QED  BY <1>2, <1>4 DEF SumCell

\* The checks that Scan and Index make of a payload find out a record.
LEMMA SumIsRecord ==
    ASSUME TypeInv, NEW a \in Nat, NEW hdr, HdrStands(hdr, a), NEW n \in Nat,
           DecLen(hdr[1]) = RecHdrN + n
    PROVE  /\ a + RecHdrN + n <= size /\ SumOK(file, hdr[2], a + RecHdrN, n)
              => /\ RecordAt(file, size, a) /\ hdr[2] = file[a + 1]
                 /\ RecEnd(file, a) = a + RecHdrN + n
           /\ RecordAt(file, size, a) /\ file[a + 1][1] = "sum"
              => a + RecHdrN + n <= size /\ SumOK(file, hdr[2], a + RecHdrN, n)
<1>1. /\ a + RecHdrN <= size /\ hdr[1] = file[a]
      /\ hdr[2] = file[a + 1] \/ (hdr[2][1] = "len" /\ file[a + 1][1] = "len")
      /\ size \in Nat
  BY LogTypes DEF HdrStands
<1>2. ASSUME a + RecHdrN + n <= size, SumOK(file, hdr[2], a + RecHdrN, n)
      PROVE  /\ RecordAt(file, size, a) /\ hdr[2] = file[a + 1]
             /\ RecEnd(file, a) = a + RecHdrN + n
  <2>1. hdr[2] = file[a + 1]
    BY <1>1, <1>2 DEF SumOK
  <2>2. /\ file[a + 1][1] \in {"sum", "zero"} /\ n = Len(SumOf(file[a + 1]))
        /\ \A i \in 1 .. n : file[a + RecHdrN + i - 1] = PayCell(SumOf(file[a + 1])[i])
    BY <1>2, <2>1 DEF SumOK
  <2>3. RecEnd(file, a) = a + RecHdrN + n /\ HdrFits(file, a)
    BY <1>1, <2>2 DEF RecEnd, HdrFits
  <2>4. ASSUME NEW b \in a + RecHdrN .. RecEnd(file, a) - 1
        PROVE  file[b] = PayCell(SumOf(file[a + 1])[b - a - 1])
    <3>1. b - a - 1 \in 1 .. n /\ a + RecHdrN + (b - a - 1) - 1 = b
      BY <2>3 DEF RecHdrN
    <3> QED  BY <2>2, <3>1
  <2> QED  BY <1>1, <1>2, <2>1, <2>3, <2>4 DEF RecordAt, PayFits
<1>3. ASSUME RecordAt(file, size, a), file[a + 1][1] = "sum"
      PROVE  a + RecHdrN + n <= size /\ SumOK(file, hdr[2], a + RecHdrN, n)
  <2>1. hdr[2] = file[a + 1]
    BY <1>1, <1>3
  <2>2. Len(SumOf(file[a + 1])) = n
    <3>1. DecLen(file[a]) = RecHdrN + Len(SumOf(file[a + 1]))
      BY <1>3 DEF RecordAt, HdrFits
    <3>2. a + 1 \in Addr /\ file \in [Addr -> Cell]
      BY <1>1, FormatAssumption DEF TypeInv, TypeOK, Addr, RecHdrN
    <3>3. Len(SumOf(file[a + 1])) \in Nat
      <4>1. SumOf(file[a + 1]) \in Payloads \union {<< >>}
        BY <3>2, DecodeType
      <4> QED  BY <4>1, FormatAssumption
    <3> QED  BY <1>1, <3>1, <3>3 DEF RecHdrN
  <2>3. RecEnd(file, a) = a + RecHdrN + n /\ a + RecHdrN + n <= size
    BY <1>3, <2>2 DEF RecEnd, RecordAt
  <2>4. ASSUME NEW i \in 1 .. n
        PROVE  file[a + RecHdrN + i - 1] = PayCell(SumOf(file[a + 1])[i])
    <3>1. a + RecHdrN + i - 1 \in a + RecHdrN .. RecEnd(file, a) - 1
          /\ (a + RecHdrN + i - 1) - a - 1 = i
      BY <2>3 DEF RecHdrN
    <3>2. file[a + RecHdrN + i - 1]
            = PayCell(SumOf(file[a + 1])[(a + RecHdrN + i - 1) - a - 1])
      BY <1>3, <3>1 DEF RecordAt, PayFits
    <3> QED  BY <3>1, <3>2
  <2> QED  BY <1>3, <2>1, <2>2, <2>3, <2>4 DEF SumOK
<1> QED  BY <1>2, <1>3

\* What a step must leave behind of the one call of h.
LEMMA TopStep ==
    ASSUME TypeInv, NEW h \in Handles, InCall(h), Len(calls[h]) = 1, NEW u \in Call,
           SetTop(h, u), UNCHANGED <<file, size, log>>,
           Passed(u.got), u.n0 <= Len(log),
           u.at \in {"hdr", "cb"} => pos'[h] = ChainEnd(Len(u.got)),
           u.at = "pay" => /\ u.off = ChainEnd(Len(u.got))
                           /\ HdrStands(u.hdr, ChainEnd(Len(u.got))),
           Ended(u) => \A n \in 1 .. u.n0 : Contiguous(n) => n <= Len(u.got)
    PROVE  CallInv(h)'
<1>1. calls[h] \in Seq(Call) /\ calls[h] # << >> /\ calls \in [Handles -> Seq(Call)]
  BY DEF TypeInv, TypeOK, InCall
<1>2. Len(calls'[h]) = 1 /\ Top(h)' = u
  <2>1. calls'[h] = [calls[h] EXCEPT ![Len(calls[h])] = u]
    BY <1>1 DEF SetTop
  <2> DEFINE c == calls[h]
  <2>2. c \in Seq(Call) /\ c # << >> /\ Len(c) = 1
    BY <1>1
  <2> HIDE DEF c
  <2>3. Len([c EXCEPT ![Len(c)] = u]) = 1 /\ [c EXCEPT ![Len(c)] = u][Len(c)] = u
    BY <2>2, ReplaceLast
  <2> QED  BY <2>1, <2>2, <2>3 DEF c, Top
<1>3. PICK k : k = Len(u.got)
  OBVIOUS
<1>4. ChainEnd(k)' = ChainEnd(k) /\ Passed(u.got)' /\ (HdrStands(u.hdr, ChainEnd(k)) => HdrStands(u.hdr, ChainEnd(k))')
      /\ \A n \in 1 .. u.n0 : Contiguous(n)' = Contiguous(n)
  BY <1>3 DEF ChainEnd, Passed, Contiguous, HdrStands
<1> QED  BY <1>2, <1>3, <1>4 DEF CallInv

\* The steps of Scan and Index keep their reader behind what it has passed.
LEMMA CallRead ==
    ASSUME SingleWriter, TypeInv, LogInv, LenInv, TailInv, NEW h \in Handles, CallInv(h),
           \/ ReadEOF(h) \/ ReadShort(h) \/ ReadHdr(h) \/ ReadPay(h)
           \/ ReadCorrupt(h) \/ ReadFail(h) \/ Callback(h)
    PROVE  CallInv(h)'
<1>0. /\ InCall(h) /\ TypeOK /\ UNCHANGED <<file, size, log>> /\ size \in Nat
      /\ pos \in [Handles -> 0 .. FileCap] /\ pos[h] \in Nat /\ Len(log) \in Nat
      /\ file \in [Addr -> Cell]
  <2>1. InCall(h) /\ UNCHANGED <<file, size, log>>
    BY DEF ReadEOF, ReadShort, ReadHdr, ReadPay, ReadCorrupt, ReadFail, Callback,
           Reading, fileVars, history
  <2>2. size \in Nat /\ Len(log) \in Nat
    BY LogTypes
  <2> QED  BY <2>1, <2>2, FormatAssumption DEF TypeInv, TypeOK
<1>1. PICK t \in Call : t = Top(h)
  BY <1>0, TopType
<1>2. /\ t.at \in {"hdr", "pay", "cb", "ok", "err", "stop"} /\ t.op \in {"scan", "index"}
      /\ t.got \in Seq(Found) /\ Len(t.got) \in Nat /\ t.n0 \in Nat /\ t.hdr \in Cell \X Cell
      /\ t.off \in 0 .. FileCap
  BY <1>1 DEF Call
<1>3. PICK k \in Nat : k = Len(t.got)
  BY <1>2
<1>4. /\ Len(calls[h]) = 1 /\ Passed(t.got) /\ t.n0 <= Len(log)
      /\ t.at \in {"hdr", "cb"} => pos[h] = ChainEnd(k)
      /\ t.at = "pay" => t.off = ChainEnd(k) /\ HdrStands(t.hdr, ChainEnd(k))
  BY <1>0, <1>1, <1>3 DEF CallInv
<1>5. k \in 0 .. Len(log) /\ Contiguous(k)
  BY <1>2, <1>3, <1>4 DEF Passed
<1>6. PICK a \in Nat : a = ChainEnd(k)
  BY <1>5, LogTypes
<1>7. t.at = "pay" => t.off + RecHdrN = pos[h] /\ DecLen(t.hdr[1]) >= RecHdrN
  BY <1>0, <1>1 DEF TypeInv, ReaderOK
<1>8. ASSUME NEW n \in 1 .. t.n0, Contiguous(n), ~(n <= k)
      PROVE  RecordAt(file, size, a) /\ file[a + 1][1] = "sum"
  <2>1. n \in 1 .. Len(log) /\ k < n
    BY <1>0, <1>2, <1>4, <1>8
  <2> QED  BY <1>6, <1>8, <2>1, DueRecord
<1>9. ASSUME NEW at \in {"ok", "err", "stop"}, SetTop(h, [t EXCEPT !.at = at]),
             at # "stop" => ~(RecordAt(file, size, a) /\ file[a + 1][1] = "sum")
      PROVE  CallInv(h)'
  <2> DEFINE u == [t EXCEPT !.at = at]
  <2>1. /\ u \in Call /\ u.at = at /\ u.got = t.got /\ u.n0 = t.n0
        /\ SetTop(h, u)
    BY <1>2, <1>9 DEF Call
  <2>2. Ended(u) => \A n \in 1 .. u.n0 : Contiguous(n) => n <= Len(u.got)
    BY <1>3, <1>8, <1>9, <2>1 DEF Ended
  <2> HIDE DEF u
  <2> QED  BY <1>0, <1>4, <2>1, <2>2, TopStep
<1>10. CASE ReadEOF(h)
  <2>1. t.at = "hdr" /\ pos[h] >= size /\ SetTop(h, [t EXCEPT !.at = "ok"])
    BY <1>1, <1>10 DEF ReadEOF, Reading, AtEOF
  <2>2. ~(a + RecHdrN <= size)
    BY <1>0, <1>4, <1>6, <2>1 DEF RecHdrN
  <2> QED  BY <1>9, <2>1, <2>2 DEF RecordAt
<1>11. CASE ReadShort(h)
  <2>1. t.at = "hdr" /\ ~(pos[h] + RecHdrN <= size) /\ SetTop(h, [t EXCEPT !.at = "err"])
    BY <1>1, <1>11 DEF ReadShort, Reading, Available
  <2> QED  BY <1>4, <1>6, <1>9, <2>1 DEF RecordAt
<1>12. CASE ReadFail(h)
  BY <1>1, <1>9, <1>12 DEF ReadFail
<1>13. CASE Callback(h)
  <2>1. PICK at \in {"hdr", "stop"} : SetTop(h, [t EXCEPT !.at = at])
    BY <1>1, <1>13 DEF Callback
  <2>2. t.at = "cb" /\ pos' = pos
    BY <1>1, <1>13 DEF Callback, Reading
  <2> DEFINE u == [t EXCEPT !.at = at]
  <2>3. /\ u \in Call /\ u.at = at /\ u.got = t.got /\ u.n0 = t.n0 /\ SetTop(h, u)
    BY <1>2, <2>1 DEF Call
  <2>4. pos'[h] = ChainEnd(Len(u.got)) /\ ~Ended(u) /\ u.at # "pay"
    BY <1>3, <1>4, <2>2, <2>3 DEF Ended
  <2> HIDE DEF u
  <2> QED  BY <1>0, <1>4, <2>3, <2>4, TopStep
<1>14. CASE ReadHdr(h)
  <2> DEFINE hdr == <<file[a], file[a + 1]>>
             u == [t EXCEPT !.at = IF DecLen(hdr[1]) < RecHdrN THEN "err" ELSE "pay",
                            !.hdr = hdr,
                            !.off = IF t.op = "scan" THEN a ELSE @]
  <2>1. t.at = "hdr" /\ pos[h] = a /\ a + RecHdrN <= size
    BY <1>1, <1>4, <1>6, <1>14 DEF ReadHdr, Reading, Available
  <2>2. SetTop(h, u)
    BY <1>1, <1>14, <2>1 DEF ReadHdr
  <2>3. hdr \in Cell \X Cell /\ a \in 0 .. FileCap
    <3>1. a \in Addr /\ a + 1 \in Addr
      BY <1>0, <2>1, FormatAssumption DEF TypeOK, Addr, RecHdrN
    <3> QED  BY <1>0, <3>1, FormatAssumption DEF Addr
  <2>4. HdrStands(hdr, a)
    BY <2>1 DEF HdrStands
  <2>5. t.op = "index" => t.off = a
    BY <1>0, <1>1, <2>1 DEF TypeInv, ReaderOK
  <2>6. DecLen(hdr[1]) < RecHdrN => ~RecordAt(file, size, a)
    <3>1. DecLen(file[a]) < RecHdrN /\ RecordAt(file, size, a) => FALSE
      <4>1. a \in Addr /\ a + 1 \in Addr
        BY <1>0, <2>1, FormatAssumption DEF TypeOK, Addr, RecHdrN
      <4>2. SumOf(file[a + 1]) \in Payloads \union {<< >>}
        BY <1>0, <4>1, DecodeType
      <4>3. Len(SumOf(file[a + 1])) \in Nat
        BY <4>2, FormatAssumption
      <4>4. RecordAt(file, size, a) => DecLen(file[a]) = RecHdrN + Len(SumOf(file[a + 1]))
        BY DEF RecordAt, HdrFits
      <4> QED  BY <4>3, <4>4 DEF RecHdrN
    <3> QED  BY <3>1
  <2> HIDE DEF hdr
  <2>7. /\ u \in Call /\ u.got = t.got /\ u.n0 = t.n0 /\ u.hdr = hdr /\ u.off = a
        /\ u.at \in {"err", "pay"} /\ (u.at = "err" => DecLen(hdr[1]) < RecHdrN)
    BY <1>2, <2>3, <2>5 DEF Call
  <2> HIDE DEF u
  <2>8. Ended(u) => \A n \in 1 .. u.n0 : Contiguous(n) => n <= Len(u.got)
    BY <1>3, <1>8, <2>6, <2>7 DEF Ended
  <2> QED  BY <1>0, <1>3, <1>4, <1>6, <2>2, <2>4, <2>7, <2>8, TopStep
<1>15. ASSUME t.at = "pay"
       PROVE  /\ PayN(h) \in Nat /\ DecLen(t.hdr[1]) = RecHdrN + PayN(h)
              /\ t.off = a /\ pos[h] = a + RecHdrN /\ HdrStands(t.hdr, a)
              /\ PayOK(h) <=> /\ a + RecHdrN + PayN(h) <= size
                              /\ SumOK(file, t.hdr[2], a + RecHdrN, PayN(h))
  <2>1. DecLen(t.hdr[1]) \in Nat
    BY <1>2, DecodeType
  <2>2. PayN(h) \in Nat /\ DecLen(t.hdr[1]) = RecHdrN + PayN(h)
    BY <1>1, <1>7, <1>15, <2>1 DEF PayN, RecHdrN
  <2>3. t.off = a /\ pos[h] = a + RecHdrN /\ HdrStands(t.hdr, a)
    BY <1>4, <1>6, <1>7, <1>15
  <2> QED  BY <1>1, <2>2, <2>3 DEF PayOK, Available
<1>16. CASE ReadCorrupt(h)
  <2>1. t.at = "pay" /\ ~PayOK(h) /\ SetTop(h, [t EXCEPT !.at = "err"])
    BY <1>1, <1>16 DEF ReadCorrupt, Reading
  <2>2. ~(RecordAt(file, size, a) /\ file[a + 1][1] = "sum")
    BY <1>15, <2>1, SumIsRecord
  <2> QED  BY <1>9, <2>1, <2>2
<1>17. CASE ReadPay(h)
  <2>1. t.at = "pay" /\ PayOK(h)
    BY <1>1, <1>17 DEF ReadPay, Reading
  <2>2. /\ RecordAt(file, size, a) /\ t.hdr[2] = file[a + 1]
        /\ RecEnd(file, a) = a + RecHdrN + PayN(h)
    BY <1>15, <2>1, SumIsRecord
  <2>3. k < Len(log) /\ log[k + 1].off = a
    BY <1>5, <1>6, <2>2, PassedIsNext
  <2> DEFINE x == log[k + 1]
  <2>4. /\ k + 1 \in 1 .. Len(log) /\ x \in Entry /\ Intact(file, size, x)
        /\ Len(x.pay) <= MaxPayload /\ x.off = a
    <3>1. k + 1 \in 1 .. Len(log)
      BY <1>0, <2>3
    <3> QED  BY <2>3, <3>1, LogTypes DEF LogInv, AckedIntact, LenInv
  <2> HIDE DEF x
  <2>5. /\ DecTyp(file[a + 1]) = x.typ /\ SumOf(file[a + 1]) = x.pay
        /\ RecEnd(file, a) = NextOff(x)
    BY <1>0, <2>4, EntryIsRecord
  <2> DEFINE rec == [off |-> t.off, typ |-> DecTyp(t.hdr[2]), pay |-> SumOf(t.hdr[2])]
             u == [t EXCEPT !.at = IF t.op = "scan" THEN "cb" ELSE "hdr",
                            !.off = IF t.op = "scan" THEN @ ELSE t.off + DecLen(t.hdr[1]),
                            !.got = Append(@, rec)]
  <2>6. SetTop(h, u) /\ pos' = [pos EXCEPT ![h] = @ + PayN(h)]
    BY <1>1, <1>17 DEF ReadPay, NextIndexOff
  <2>7. rec = x
    BY <1>15, <2>1, <2>2, <2>4, <2>5 DEF Entry
  <2>8. rec \in Found
    BY <2>4, <2>7 DEF Found, Entry
  <2>9. t.off + DecLen(t.hdr[1]) \in 0 .. FileCap
    <3>1. a + RecHdrN + PayN(h) <= size /\ size <= FileCap /\ size \in Nat /\ FileCap \in Nat
      BY <1>0, <1>15, <2>1, FormatAssumption DEF TypeOK
    <3> QED  BY <1>15, <2>1, <3>1 DEF RecHdrN
  <2> HIDE DEF rec
  <2>10. /\ Append(t.got, rec) \in Seq(Found) /\ Len(Append(t.got, rec)) = k + 1
         /\ Append(t.got, rec)[k + 1] = x
         /\ \A i \in 1 .. k : Append(t.got, rec)[i] = t.got[i]
    BY <1>2, <1>3, <2>7, <2>8
  <2>11. /\ u \in Call /\ u.got = Append(t.got, rec) /\ u.n0 = t.n0
         /\ u.at \in {"cb", "hdr"}
    BY <1>2, <2>9, <2>10 DEF Call
  <2> HIDE DEF u
  <2>12. Contiguous(k + 1)
    <3> SUFFICES ASSUME NEW i \in 1 .. k + 1
                 PROVE  log[i].off = IF i = 1 THEN FileHdrN ELSE NextOff(log[i - 1])
      BY DEF Contiguous
    <3>1. CASE i \in 1 .. k
      BY <1>5, <3>1 DEF Contiguous
    <3>2. CASE i = k + 1
      <4>1. (i = 1) = (k = 0) /\ i - 1 = k
        BY <3>2
      <4> QED  BY <1>6, <2>3, <3>2, <4>1 DEF ChainEnd
    <3> QED  BY <3>1, <3>2
  <2>13. Passed(u.got)
    <3>1. \A i \in 1 .. k : t.got[i] = log[i]
      BY <1>3, <1>4 DEF Passed
    <3>2. \A i \in 1 .. k + 1 : u.got[i] = log[i]
      <4>1. \A i \in 1 .. k + 1 : i \in 1 .. k \/ i = k + 1
        OBVIOUS
      <4> QED  BY <2>10, <2>11, <3>1, <4>1 DEF x
    <3> QED  BY <1>0, <2>3, <2>10, <2>11, <2>12, <3>2 DEF Passed
  <2>14. pos'[h] = ChainEnd(Len(u.got))
    <3>1. ChainEnd(k + 1) = NextOff(x)
      BY DEF ChainEnd, x
    <3>2. pos'[h] = pos[h] + PayN(h)
      BY <1>0, <2>6
    <3> QED  BY <1>15, <2>1, <2>2, <2>5, <2>10, <2>11, <3>1, <3>2
  <2> QED  BY <1>0, <1>4, <2>6, <2>11, <2>13, <2>14, TopStep DEF Ended
<1> QED  BY <1>10, <1>11, <1>12, <1>13, <1>14, <1>16, <1>17

\* A handle that begins a call stands behind the file header.
LEMMA CallBegin ==
    ASSUME PlainUse, TypeInv, NEW h \in Handles, BeginScan(h) \/ BeginIndex(h)
    PROVE  CallInv(h)'
<1>1. PICK op \in {"scan", "index"} : Begin(h, op)
  BY DEF BeginScan, BeginIndex
<1>t. PICK t : t = [op |-> op, at |-> "hdr", hdr |-> <<Zero, Zero>>,
                    off |-> FileHdrN, got |-> << >>, n0 |-> Len(log)]
  OBVIOUS
<1>2. /\ calls \in [Handles -> Seq(Call)] /\ pos \in [Handles -> 0 .. FileCap]
      /\ calls[h] \in Seq(Call) /\ Len(calls[h]) \in Nat /\ Len(log) \in Nat
  BY LogTypes DEF TypeInv, TypeOK
<1>3. /\ calls'[h] = Append(calls[h], t) /\ pos'[h] = FileHdrN /\ log' = log
      /\ Len(calls[h]) < MaxNest
  BY <1>1, <1>2, <1>t DEF Begin, history
<1>4. calls[h] = << >>
  <2>1. MaxNest \in Nat /\ MaxNest <= 1
    BY WalAssumption DEF PlainUse
  <2>2. Len(calls[h]) = 0
    BY <1>2, <1>3, <2>1
  <2> QED  BY <1>2, <2>2
<1>5. t.got = << >> /\ t.at = "hdr" /\ t.n0 = Len(log)
  BY <1>t
<1>6. Len(calls'[h]) = 1 /\ Top(h)' = t
  <2>1. calls'[h] = <<t>>
    BY <1>3, <1>4
  <2> QED  BY <2>1 DEF Top
<1>7. Len(t.got) = 0
  BY <1>5
<1>8. Passed(t.got)' /\ ChainEnd(Len(t.got))' = FileHdrN
  BY <1>2, <1>3, <1>7 DEF Passed, Contiguous, ChainEnd
<1>9. t.n0 <= Len(log')
  BY <1>2, <1>3, <1>5
<1> QED  BY <1>3, <1>5, <1>6, <1>8, <1>9 DEF CallInv, Ended

\* A step of one handle is none of the calls of another.
LEMMA OthersKeep ==
    ASSUME TypeInv, NEW g \in Handles, NEW h \in Handles, h # g, Step(h)
    PROVE  calls'[g] = calls[g] /\ index'[g] = index[g] /\ pos'[g] = pos[g]
<1>1. /\ pos \in [Handles -> 0 .. FileCap] /\ calls \in [Handles -> Seq(Call)]
      /\ index \in [Handles -> Seq(Found)]
  BY DEF TypeInv, TypeOK
<1>2. CASE Read(h) \/ Callback(h)
  BY <1>1, <1>2
  DEF Read, ReadEOF, ReadShort, ReadHdr, ReadPay, ReadCorrupt, ReadFail, Return,
      Callback, SetTop
<1>3. CASE BeginScan(h) \/ BeginIndex(h) \/ ProcCrash(h) \/ Open(h) \/ WriteHead(h)
  BY <1>1, <1>3 DEF BeginScan, BeginIndex, Begin, ProcCrash, Open, WriteHead
<1>4. CASE \/ Create(h) \/ WriteHeadFail(h) \/ Close(h) \/ Sync(h)
           \/ (\E r \in Rec : BeginWrite(h, r)) \/ Write(h)
  BY <1>4 DEF Create, WriteHeadFail, Close, Sync, BeginWrite, Write, WriteCell,
              WriteHdrLast, WritePayLast, WriteFail, readVars
<1> QED  BY <1>2, <1>3, <1>4 DEF Step, Client

\* Every call under way, and every index handed over, after any step.
LEMMA CallNext ==
    ASSUME PlainUse, IInv, ReadInv, [Next]_vars, NEW g \in Handles
    PROVE  CallInv(g)' /\ Passed(index[g])'
<1>0. /\ SingleWriter /\ TypeInv /\ FileInv /\ LogInv /\ LenInv /\ TailInv /\ CallInv(g)
      /\ Passed(index[g]) /\ index[g] \in Seq(Found) /\ TypeOK
      /\ calls \in [Handles -> Seq(Call)] /\ index \in [Handles -> Seq(Found)]
  BY DEF PlainUse, IInv, ReadInv, TypeInv, TypeOK
<1>1. ASSUME calls'[g] = << >>, index'[g] = << >> PROVE CallInv(g)' /\ Passed(index[g])'
  <2>1. Len(index'[g]) = 0
    BY <1>1
  <2>2. TypeInv'
    BY TypeNext DEF IInv
  <2>3. Len(log') \in Nat
    BY <2>2 DEF TypeInv, TypeOK
  <2> QED  BY <1>1, <2>1, <2>3 DEF CallInv, InCall, Passed, Contiguous
<1>2. CASE PowerFail
  BY <1>1, <1>2 DEF PowerFail
<1>3. ASSUME NEW h \in Handles, Step(h) PROVE CallInv(g)' /\ Passed(index[g])'
  <2>1. LogExt /\ HeaderKept
    BY <1>0, <1>3, StepKeeps
  <2>2. ASSUME index'[g] = index[g] PROVE Passed(index[g])'
    BY <1>0, <2>1, <2>2, PassedKept
  <2>3. ASSUME calls'[g] = calls[g], InCall(g) => pos'[g] = pos[g] PROVE CallInv(g)'
    BY <1>0, <2>1, <2>3, CallFrame
  <2>4. CASE h # g
    <3>1. calls'[g] = calls[g] /\ index'[g] = index[g] /\ pos'[g] = pos[g]
      BY <1>0, <1>3, <2>4, OthersKeep
    <3> QED  BY <2>2, <2>3, <3>1
  <2>5. CASE h = g
    <3>1. CASE \/ ReadEOF(g) \/ ReadShort(g) \/ ReadHdr(g) \/ ReadPay(g)
               \/ ReadCorrupt(g) \/ ReadFail(g) \/ Callback(g)
      <4>1. index'[g] = index[g]
        BY <3>1 DEF ReadEOF, ReadShort, ReadHdr, ReadPay, ReadCorrupt, ReadFail, Callback
      <4> QED  BY <1>0, <2>2, <3>1, <4>1, CallRead
    <3>2. CASE Return(g)
      <4>1. InCall(g) /\ Len(calls[g]) = 1 /\ Passed(Top(g).got)
        BY <1>0, <3>2 DEF Return, Reading, CallInv
      <4>2. calls'[g] = SubSeq(calls[g], 1, Len(calls[g]) - 1)
        BY <1>0, <3>2 DEF Return
      <4>3. calls'[g] = << >>
        BY <1>0, <4>1, <4>2
      <4>4. index'[g] = index[g] \/ index'[g] = Top(g).got
        BY <1>0, <3>2 DEF Return
      <4>5. Top(g).got \in Seq(Found)
        BY <1>0, <4>1, TopType DEF Call
      <4>6. Passed(index[g])'
        <5>1. CASE index'[g] = index[g]
          BY <2>2, <5>1
        <5>2. PICK got \in Seq(Found) : got = Top(g).got
          BY <4>5
        <5>3. CASE index'[g] = got
          <6>1. Passed(got)'
            BY <1>0, <2>1, <4>1, <5>2, PassedKept
          <6> QED  BY <5>3, <6>1 DEF Passed, Contiguous
        <5> QED  BY <4>4, <5>1, <5>2, <5>3
      <4> QED  BY <4>3, <4>6 DEF CallInv, InCall
    <3>3. CASE BeginScan(g) \/ BeginIndex(g)
      <4>1. index'[g] = index[g]
        BY <3>3 DEF BeginScan, BeginIndex, Begin
      <4> QED  BY <1>0, <2>2, <3>3, <4>1, CallBegin
    <3>4. CASE ProcCrash(g)
      <4>1. calls'[g] = << >> /\ index'[g] = << >>
        BY <1>0, <3>4 DEF ProcCrash
      <4> QED  BY <1>1, <4>1
    <3>5. CASE Open(g) \/ WriteHead(g)
      <4>1. UNCHANGED <<calls, index>> /\ ~InCall(g)
        BY <1>0, <3>5 DEF Open, WriteHead, TypeInv, ReaderOK, Live
      <4> QED  BY <2>2, <2>3, <4>1
    <3>6. CASE \/ Create(g) \/ WriteHeadFail(g) \/ Close(g) \/ Sync(g)
               \/ (\E r \in Rec : BeginWrite(g, r)) \/ Write(g)
      <4>1. UNCHANGED <<calls, index, pos>>
        BY <3>6 DEF Create, WriteHeadFail, Close, Sync, BeginWrite, Write, WriteCell,
                    WriteHdrLast, WritePayLast, WriteFail, readVars
      <4> QED  BY <2>2, <2>3, <4>1
    <3> QED  BY <1>3, <2>5, <3>1, <3>2, <3>3, <3>4, <3>5, <3>6 DEF Step, Client, Read
  <2> QED  BY <2>4, <2>5
<1>4. CASE UNCHANGED vars
  BY <1>0, <1>4 DEF vars, fileVars, readVars, history, CallInv, InCall, Top, Passed,
                    Contiguous, ChainEnd, HdrStands
<1> QED  BY <1>2, <1>3, <1>4 DEF Next

-----------------------------------------------------------------------------
(* The theorems.                                                           *)

LEMMA ReadInit == PlainUse /\ Init => ReadInv
<1> SUFFICES ASSUME PlainUse, Init PROVE ReadInv
  OBVIOUS
<1>1. /\ log = << >> /\ size = 0 /\ file = [a \in Addr |-> Zero] /\ disk.cells = file
      /\ \A h \in Handles : pc[h] = "none" /\ calls[h] = << >> /\ index[h] = << >>
  BY DEF Init
<1>2. Len(log) = 0 /\ Len(<< >>) = 0
  BY <1>1
<1>3. DecLen(Zero) # RecHdrN
  BY DEF DecLen, Zero, RecHdrN
<1>4. TailInv /\ LenInv /\ GrowInv
  BY <1>1, <1>2, <1>3, WalAssumption
  DEF TailInv, LenInv, GrowInv, FileHdrN, InWrite, Live
<1>5. \A h \in Handles : CallInv(h) /\ Passed(index[h])
  BY <1>1, <1>2 DEF CallInv, InCall, Passed, Contiguous
<1> QED  BY <1>4, <1>5 DEF ReadInv

\* In plain use, at every moment: the file holds the appends, back to back up to
\* where the first one was torn off, and every Scan and Index under way stands
\* exactly behind what it has passed of them.
THEOREM ReadInvariant ==
    ASSUME PlainUse
    PROVE  Spec => [](IInv /\ ReadInv)
<1>1. (IInv /\ ReadInv) /\ [Next]_vars => (IInv /\ ReadInv)'
  <2> SUFFICES ASSUME IInv, ReadInv, [Next]_vars PROVE IInv' /\ ReadInv'
    OBVIOUS
  <2>1. IInv'
    BY TypeNext, FileNext, LogNext, GapNext, DiskNext DEF IInv, PlainUse
  <2>2. TailInv' /\ LenInv' /\ GrowInv'
    BY TailNext, LenNext, GrowNext DEF IInv, ReadInv, PlainUse
  <2> QED  BY <2>1, <2>2, CallNext DEF ReadInv
<1>2. Init => IInv /\ ReadInv
  <2>1. Init => IInv
    <3> SUFFICES ASSUME Init PROVE IInv
      OBVIOUS
    <3>1. /\ log = << >> /\ synced = 0 /\ disk.size = 0 /\ size = 0
          /\ \A h \in Handles : ~Live(h)
      BY DEF Init, Live
    <3>2. Len(log) = 0
      BY <3>1
    <3>3. DiskInv /\ GapInv
      BY <3>1, <3>2, WalAssumption DEF DiskInv, GapInv, Contiguous
    <3> QED  BY <3>3, TypeInit, FileLogInit DEF IInv
  <2> QED  BY <2>1, ReadInit
<1> QED  BY <1>1, <1>2, PTL DEF Spec

\* In plain use what a Scan hands to fn, and what an Index lists, is at every
\* moment a prefix of the acknowledged appends: whatever is written, given up,
\* crashes or is lost meanwhile, no record is passed twice, out of order, torn,
\* or made of two.
THEOREM ScansAreSound ==
    ASSUME PlainUse
    PROVE  Spec => []ScanSound
<1>1. IInv /\ ReadInv => ScanSound
  <2> SUFFICES ASSUME IInv, ReadInv, NEW h \in Handles, NEW k \in 1 .. Len(calls[h])
               PROVE  /\ Len(calls[h][k].got) <= Len(log)
                      /\ \A i \in 1 .. Len(calls[h][k].got) : calls[h][k].got[i] = log[i]
    BY DEF ScanSound
  <2>1. CallInv(h) /\ TypeInv
    BY DEF IInv, ReadInv
  <2>2. InCall(h)
    BY DEF InCall
  <2>3. Len(calls[h]) = 1 /\ Passed(Top(h).got)
    BY <2>1, <2>2 DEF CallInv
  <2>4. k = 1 /\ calls[h][k] = Top(h)
    BY <2>3 DEF Top
  <2> QED  BY <2>3, <2>4 DEF Passed
<1> QED  BY <1>1, ReadInvariant, PTL

\* In plain use a Scan or Index that ends by itself, even in a corrupt_* error,
\* has passed every append acknowledged before it began that lies back to back
\* with those before it.
THEOREM ScansAreComplete ==
    ASSUME PlainUse
    PROVE  Spec => []ScanComplete
<1>1. IInv /\ ReadInv => ScanComplete
  <2> SUFFICES ASSUME IInv, ReadInv, NEW h \in Handles, NEW k \in 1 .. Len(calls[h]),
                      Ended(calls[h][k]), NEW n \in 1 .. calls[h][k].n0, Contiguous(n)
               PROVE  Len(calls[h][k].got) >= n
    BY DEF ScanComplete
  <2>1. CallInv(h) /\ TypeInv
    BY DEF IInv, ReadInv
  <2>2. InCall(h)
    BY DEF InCall
  <2>3. Len(calls[h]) = 1 /\ (Ended(Top(h)) => \A m \in 1 .. Top(h).n0 :
                                  Contiguous(m) => m <= Len(Top(h).got))
    BY <2>1, <2>2 DEF CallInv
  <2>4. calls[h][k] = Top(h)
    BY <2>3 DEF Top
  <2>5. n <= Len(Top(h).got)
    BY <2>3, <2>4
  <2>6. Top(h) \in Call
    BY <2>1, <2>2, TopType
  <2>7. Top(h).n0 \in Nat /\ Len(Top(h).got) \in Nat
    BY <2>6 DEF Call
  <2> QED  BY <2>4, <2>5, <2>7
<1> QED  BY <1>1, ReadInvariant, PTL

\* In plain use the offsets that an Index handed over stay good for ReadAt, for
\* as long as the handle is open, through everything that happens to the file.
THEOREM IndexesAreStable ==
    ASSUME PlainUse
    PROVE  Spec => []IndexStable
<1>1. IInv /\ ReadInv => IndexStable
  <2> SUFFICES ASSUME IInv, ReadInv, NEW h \in Handles, NEW k \in 1 .. Len(index[h])
               PROVE  ReadAtOK(index[h][k])
    BY DEF IndexStable
  <2>1. Passed(index[h]) /\ TypeInv /\ LogInv /\ index[h] \in Seq(Found)
    BY DEF IInv, ReadInv, TypeInv, TypeOK
  <2>2. k \in 1 .. Len(log) /\ index[h][k] = log[k]
    BY <2>1, LogTypes DEF Passed
  <2>3. PICK x \in Entry : x = log[k]
    BY <2>1, <2>2, LogTypes
  <2>4. Intact(file, size, x)
    BY <2>1, <2>2, <2>3 DEF LogInv, AckedIntact
  <2>5. /\ x.off \in Nat /\ Len(x.pay) \in Nat /\ RecN(x) = RecHdrN + Len(x.pay)
        /\ NextOff(x) = x.off + RecN(x) /\ NextOff(x) <= size /\ size \in Nat
    BY <2>1, <2>3, <2>4, EntryType, LogTypes DEF Intact
  <2>6. ASSUME NEW i \in 1 .. Len(x.pay)
        PROVE  /\ x.off + RecHdrN + i - 1 < size
               /\ file[x.off + RecHdrN + i - 1] = PayCell(x.pay[i])
    <3>1. /\ RecHdrN + i \in 1 .. RecN(x) /\ RecHdrN + i # 1 /\ RecHdrN + i # 2
          /\ RecHdrN + i - RecHdrN = i
          /\ x.off + (RecHdrN + i) - 1 = x.off + RecHdrN + i - 1
          /\ x.off + RecHdrN + i - 1 < size
      BY <2>5 DEF RecHdrN
    <3>2. file[x.off + (RecHdrN + i) - 1] = RecCell(x, RecHdrN + i)
      BY <2>4, <3>1 DEF Intact
    <3>3. PICK j : j = RecHdrN + i
      OBVIOUS
    <3>4. j - RecHdrN = i
      BY <2>5, <3>3 DEF RecHdrN
    <3>5. RecCell(x, j) = PayCell(x.pay[i])
      <4>1. RecCell(x, j) = PayCell(x.pay[j - RecHdrN])
        BY <3>1, <3>3 DEF RecCell
      <4> QED  BY <3>4, <4>1, Zenon
    <3>6. x.off + j - 1 = x.off + RecHdrN + i - 1
      BY <3>1, <3>3
    <3>7. file[x.off + j - 1] = RecCell(x, j)
      BY <3>2, <3>3
    <3> QED  BY <3>1, <3>5, <3>6, <3>7
  <2> QED  BY <2>2, <2>3, <2>6 DEF ReadAtOK
<1> QED  BY <1>1, ReadInvariant, PTL

-----------------------------------------------------------------------------
(* A corrupt_* error without faults.                                       *)

\* Where a Scan or Index meets an error, there is something, and no record.
LEMMA ErrAtNoRecord ==
    ASSUME SingleWriter, TypeInv, LogInv, TailInv, NEW h \in Handles, CallInv(h),
           ReadEOF(h) \/ ReadShort(h) \/ ReadHdr(h) \/ ReadPay(h) \/ ReadCorrupt(h)
             \/ ReadFail(h) \/ Callback(h),
           Top(h)'.at = "err"
    PROVE  LET a == ChainEnd(Len(Top(h).got))
           IN  a < size /\ ~(RecordAt(file, size, a) /\ file[a + 1][1] = "sum")
<1>1. InCall(h) /\ calls \in [Handles -> Seq(Call)] /\ file \in [Addr -> Cell]
  BY DEF ReadEOF, ReadShort, ReadHdr, ReadPay, ReadCorrupt, ReadFail, Callback, Reading,
         TypeInv, TypeOK
<1>2. PICK t \in Call : t = Top(h)
  BY <1>1, TopType
<1>3. PICK a : a = ChainEnd(Len(t.got))
  OBVIOUS
<1>4. /\ Len(calls[h]) = 1 /\ Passed(t.got) /\ Len(t.got) \in Nat
      /\ t.at \in {"hdr", "cb"} => pos[h] = a
      /\ t.at = "pay" => t.off = a /\ HdrStands(t.hdr, a)
      /\ t.at = "pay" => t.off + RecHdrN = pos[h] /\ DecLen(t.hdr[1]) >= RecHdrN
  <2>1. Len(t.got) \in Nat
    BY DEF Call
  <2>2. /\ Len(calls[h]) = 1 /\ Passed(t.got)
        /\ t.at \in {"hdr", "cb"} => pos[h] = a
        /\ t.at = "pay" => t.off = a /\ HdrStands(t.hdr, a)
    BY <1>1, <1>2, <1>3 DEF CallInv
  <2>3. t.at = "pay" => t.off + RecHdrN = pos[h] /\ DecLen(t.hdr[1]) >= RecHdrN
    BY <1>1, <1>2 DEF TypeInv, ReaderOK
  <2> QED  BY <2>1, <2>2, <2>3
<1>5. a \in Nat /\ size \in Nat
  <2>1. Len(t.got) \in 0 .. Len(log)
    BY <1>4, LogTypes DEF Passed
  <2> QED  BY <1>3, <2>1, LogTypes
<1>6. ASSUME NEW u, SetTop(h, u) PROVE Top(h)' = u
  <2>1. calls'[h] = [calls[h] EXCEPT ![1] = u] /\ calls[h] \in Seq(Call)
    BY <1>1, <1>4, <1>6 DEF SetTop
  <2>2. Len(calls'[h]) = 1 /\ calls'[h][1] = u
    BY <1>4, <2>1
  <2> QED  BY <2>2 DEF Top
<1>7. ASSUME NEW at, SetTop(h, [t EXCEPT !.at = at]) PROVE at = "err"
  <2>1. Top(h)' = [t EXCEPT !.at = at]
    BY <1>6, <1>7
  <2> QED  BY <2>1 DEF Call
<1>8. CASE ReadEOF(h) \/ ReadFail(h)
  BY <1>2, <1>7, <1>8 DEF ReadEOF, ReadFail
<1>9. CASE Callback(h)
  <2>1. PICK at \in {"hdr", "stop"} : SetTop(h, [t EXCEPT !.at = at])
    BY <1>2, <1>9 DEF Callback
  <2> QED  BY <1>7, <2>1
<1>10. CASE ReadShort(h)
  BY <1>2, <1>3, <1>4, <1>5, <1>10 DEF ReadShort, Reading, AtEOF, Available, RecordAt
<1>11. CASE ReadHdr(h)
  <2> DEFINE u == [t EXCEPT !.at = IF DecLen(file[a]) < RecHdrN THEN "err" ELSE "pay",
                            !.hdr = <<file[a], file[a + 1]>>,
                            !.off = IF t.op = "scan" THEN a ELSE @]
  <2>1. t.at = "hdr" /\ pos[h] = a /\ a + RecHdrN <= size /\ SetTop(h, u)
    BY <1>2, <1>4, <1>11 DEF ReadHdr, Reading, Available
  <2>2. u.at = IF DecLen(file[a]) < RecHdrN THEN "err" ELSE "pay"
    BY DEF Call
  <2> HIDE DEF u
  <2>3. DecLen(file[a]) < RecHdrN
    BY <1>6, <2>1, <2>2
  <2>4. Len(SumOf(file[a + 1])) \in Nat
    <3>1. a + 1 \in Addr
      BY <1>5, <2>1, FormatAssumption DEF TypeInv, TypeOK, Addr, RecHdrN
    <3>2. SumOf(file[a + 1]) \in Payloads \union {<< >>}
      BY <1>1, <3>1, DecodeType
    <3> QED  BY <3>2, FormatAssumption
  <2>5. RecordAt(file, size, a) => DecLen(file[a]) = RecHdrN + Len(SumOf(file[a + 1]))
    BY DEF RecordAt, HdrFits
  <2>6. ~RecordAt(file, size, a)
    BY <2>3, <2>4, <2>5 DEF RecHdrN
  <2> QED  BY <1>2, <1>3, <1>5, <2>1, <2>6 DEF RecHdrN
<1>12. CASE ReadPay(h)
  <2> DEFINE u == [t EXCEPT !.at = IF t.op = "scan" THEN "cb" ELSE "hdr",
                            !.off = IF t.op = "scan" THEN @ ELSE NextIndexOff(h),
                            !.got = Append(@, [off |-> t.off, typ |-> DecTyp(t.hdr[2]),
                                               pay |-> SumOf(t.hdr[2])])]
  <2>1. SetTop(h, u)
    BY <1>2, <1>12 DEF ReadPay
  <2>2. u.at \in {"cb", "hdr"}
    BY DEF Call
  <2> HIDE DEF u
  <2> QED  BY <1>6, <2>1, <2>2
<1>13. CASE ReadCorrupt(h)
  <2>1. t.at = "pay" /\ ~PayOK(h)
    BY <1>2, <1>13 DEF ReadCorrupt, Reading
  <2>2. DecLen(t.hdr[1]) \in Nat
    <3>1. t.hdr[1] \in Cell
      BY DEF Call
    <3> QED  BY <3>1, DecodeType
  <2>3. PayN(h) \in Nat /\ DecLen(t.hdr[1]) = RecHdrN + PayN(h)
    BY <1>2, <1>4, <2>1, <2>2 DEF PayN, RecHdrN
  <2>4. pos[h] = a + RecHdrN /\ HdrStands(t.hdr, a)
    BY <1>4, <2>1
  <2>5. ~(RecordAt(file, size, a) /\ file[a + 1][1] = "sum")
    BY <1>2, <1>5, <2>1, <2>3, <2>4, SumIsRecord DEF PayOK, Available
  <2>6. a < size
    BY <1>5, <2>4 DEF HdrStands, RecHdrN
  <2> QED  BY <1>2, <1>3, <2>5, <2>6
<1> QED  BY <1>8, <1>9, <1>10, <1>11, <1>12, <1>13

\* Without faults, and with nothing under way, there is nothing behind the
\* appends, so no reader meets an error.
LEMMA ErrMeetsWrite ==
    ASSUME PlainUse, Faults = {}, IInv, ReadInv, NEW h \in Handles,
           ReadEOF(h) \/ ReadShort(h) \/ ReadHdr(h) \/ ReadPay(h) \/ ReadCorrupt(h)
             \/ ReadFail(h) \/ Callback(h),
           Top(h)'.at = "err"
    PROVE  \E g \in Handles : InWrite(g)
<1> SUFFICES ASSUME \A g \in Handles : ~InWrite(g) PROVE FALSE
  OBVIOUS
<1>0. /\ SingleWriter /\ TypeInv /\ FileInv /\ LogInv /\ LenInv /\ TailInv /\ GrowInv
      /\ CallInv(h)
  BY DEF PlainUse, IInv, ReadInv
<1>1. InCall(h)
  BY DEF ReadEOF, ReadShort, ReadHdr, ReadPay, ReadCorrupt, ReadFail, Callback, Reading
<1>2. PICK t \in Call : t = Top(h)
  BY <1>0, <1>1, TopType
<1>3. PICK k \in Nat : k = Len(t.got)
  BY DEF Call
<1>4. k \in 0 .. Len(log)
  BY <1>0, <1>1, <1>2, <1>3, LogTypes DEF CallInv, Passed
<1>5. /\ ChainEnd(k) < size
      /\ ~(RecordAt(file, size, ChainEnd(k)) /\ file[ChainEnd(k) + 1][1] = "sum")
  BY <1>0, <1>2, <1>3, ErrAtNoRecord
<1>6. FileHdrN <= size
  BY <1>0, <1>1 DEF TypeInv, ReaderOK, FileInv
<1>7. PICK n \in 0 .. Len(log) : Contiguous(n) /\ (AtTail(n) \/ AtTear(n))
  BY <1>0, <1>6 DEF TailInv
<1>8. AtTail(n)
  BY <1>7 DEF AtTear
<1>9. size = ChainEnd(n)
  <2>1. CASE \A g \in Writers : ~Live(g)
    BY <1>8, <2>1 DEF AtTail
  <2>2. ASSUME NEW g \in Writers, Live(g) PROVE size = ChainEnd(n)
    <3>1. g \in Handles
      BY WalAssumption
    <3>2. Start(g) = ChainEnd(n)
      BY <1>8, <2>2 DEF AtTail
    <3>3. Start(g) + done[g] = size
      BY <1>0, <2>2 DEF GrowInv
    <3>4. done[g] = 0
      BY <1>0, <3>1 DEF TypeInv, WriterOK
    <3>5. ChainEnd(n) \in Nat
      BY <1>0, <1>7, LogTypes
    <3> QED  BY <3>2, <3>3, <3>4, <3>5
  <2> QED  BY <2>1, <2>2
<1>10. n = Len(log) /\ Len(log) \in Nat
  BY <1>0, <1>8, LogTypes DEF AtTail
<1>11. CASE k = n
  <2>1. ChainEnd(n) \in Nat
    BY <1>0, <1>7, LogTypes
  <2> QED  BY <1>5, <1>9, <1>11, <2>1
<1>12. CASE k # n
  <2>1. k < n /\ n \in 1 .. Len(log)
    BY <1>4, <1>10, <1>12
  <2> QED  BY <1>0, <1>5, <1>7, <2>1, DueRecord
<1> QED  BY <1>11, <1>12

\* In plain use, without faults, a Scan or Index fails with corrupt_* only at a
\* moment when some handle is inside Write: an error a reader reports is the
\* record being appended, never one that Write has returned.
THEOREM ErrorsMeetWrites ==
    ASSUME PlainUse, Faults = {}
    PROVE  Spec => ErrOnlyInWrite
<1>1. ASSUME IInv, ReadInv, [Next]_vars, NEW h \in Handles,
             InCall(h), Top(h).at # "err", InCall(h)', Top(h)'.at = "err"
      PROVE  \E g \in Handles : InWrite(g)
  <2>0. TypeInv /\ CallInv(h) /\ calls \in [Handles -> Seq(Call)]
    BY <1>1 DEF IInv, ReadInv, TypeInv, TypeOK
  <2>1. calls'[h] # calls[h]
    BY <1>1 DEF Top
  <2>2. PICK g \in Handles : Step(g)
    BY <1>1, <2>1 DEF Next, PowerFail, vars, readVars
  <2>3. g = h
    BY <2>0, <2>1, <2>2, OthersKeep
  <2>4. CASE \/ ReadEOF(h) \/ ReadShort(h) \/ ReadHdr(h) \/ ReadPay(h)
             \/ ReadCorrupt(h) \/ ReadFail(h) \/ Callback(h)
    BY <1>1, <2>4, ErrMeetsWrite
  <2>5. CASE Return(h)
    <3>1. Len(calls[h]) = 1 /\ calls'[h] = SubSeq(calls[h], 1, Len(calls[h]) - 1)
      BY <1>1, <2>0, <2>5 DEF CallInv, Return
    <3>2. calls'[h] = << >>
      BY <2>0, <3>1
    <3> QED  BY <1>1, <3>2 DEF InCall
  <2>6. CASE BeginScan(h) \/ BeginIndex(h)
    <3>1. PICK op \in {"scan", "index"} : Begin(h, op)
      BY <2>6 DEF BeginScan, BeginIndex
    <3>2. Len(calls[h]) < MaxNest /\ calls[h] \in Seq(Call) /\ calls[h] # << >>
      BY <1>1, <2>0, <3>1 DEF Begin, InCall
    <3>3. Len(calls[h]) \in Nat \ {0}
      BY <3>2
    <3> QED  BY <3>2, <3>3, WalAssumption DEF PlainUse
  <2>7. CASE ProcCrash(h)
    BY <2>7 DEF ProcCrash
  <2>8. CASE \/ Create(h) \/ Open(h) \/ WriteHead(h) \/ WriteHeadFail(h) \/ Close(h)
             \/ Sync(h) \/ (\E r \in Rec : BeginWrite(h, r)) \/ Write(h)
    BY <2>1, <2>8 DEF Create, Open, WriteHead, WriteHeadFail, Close, Sync, BeginWrite, Write,
                      WriteCell, WriteHdrLast, WritePayLast, WriteFail, readVars
  <2> QED  BY <2>2, <2>3, <2>4, <2>5, <2>6, <2>7, <2>8 DEF Step, Client, Read
<1>2. IInv /\ ReadInv /\ [Next]_vars =>
        [\A h \in Handles :
          (InCall(h) /\ Top(h).at # "err" /\ InCall(h)' /\ Top(h)'.at = "err")
              => \E g \in Handles : InWrite(g)]_vars
  BY <1>1
<1> QED  BY <1>2, ReadInvariant, PTL DEF Spec, ErrOnlyInWrite

-----------------------------------------------------------------------------
(* The file and its handles implement the abstract log, AppendLog.         *)

\* What Log takes as seen: what the outermost call of each handle has passed.
Seen == [h \in Handles |-> IF InCall(h) THEN calls[h][1].got ELSE << >>]

\* A step of h that leaves the log and its handle's pass at s.
LEMMA SeenStep ==
    ASSUME TypeInv, NEW h \in Handles, NEW s,
           s = IF calls'[h] # << >> THEN calls'[h][1].got ELSE << >>,
           \A g \in Handles : g # h => calls'[g] = calls[g]
    PROVE  Seen' = [Seen EXCEPT ![h] = s]
<1>1. \A g \in Handles : Seen'[g] = IF g = h THEN s ELSE Seen[g]
  BY DEF Seen, InCall
<1>2. Seen' = [g \in Handles |-> IF g = h THEN s ELSE Seen[g]]
  BY <1>1 DEF Seen
<1>3. [Seen EXCEPT ![h] = s] = [g \in Handles |-> IF g = h THEN s ELSE Seen[g]]
  BY DEF Seen
<1> QED  BY <1>2, <1>3

\* What a step of a reader does to what it has passed: nothing, or one more.
LEMMA ReadGot ==
    ASSUME PlainUse, IInv, ReadInv, NEW h \in Handles,
           \/ ReadEOF(h) \/ ReadShort(h) \/ ReadHdr(h) \/ ReadPay(h)
           \/ ReadCorrupt(h) \/ ReadFail(h) \/ Callback(h)
    PROVE  /\ calls[h] # << >> /\ Seen[h] = Top(h).got
           /\ calls'[h] # << >> /\ calls'[h][1] = Top(h)' /\ UNCHANGED <<log, synced>>
           /\ Passed(Top(h).got)'
           /\ \/ Top(h)'.got = Top(h).got
              \/ \E x \in Found : Top(h)'.got = Append(Top(h).got, x)
<1>0. /\ SingleWriter /\ TypeInv /\ LogInv /\ LenInv /\ TailInv /\ CallInv(h)
      /\ calls \in [Handles -> Seq(Call)] /\ file \in [Addr -> Cell]
  BY DEF PlainUse, IInv, ReadInv, TypeInv, TypeOK
<1>1. InCall(h) /\ UNCHANGED <<log, synced>>
  BY DEF ReadEOF, ReadShort, ReadHdr, ReadPay, ReadCorrupt, ReadFail, Callback,
         Reading, history
<1>2. Len(calls[h]) = 1 /\ calls[h] \in Seq(Call)
  BY <1>0, <1>1 DEF CallInv
<1>3. PICK t \in Call : t = Top(h)
  BY <1>0, <1>1, TopType
<1>4. PICK u : SetTop(h, u) /\ (u.got = t.got \/ \E x \in Found : u.got = Append(t.got, x))
  <2>1. CASE ReadEOF(h) \/ ReadShort(h) \/ ReadCorrupt(h) \/ ReadFail(h) \/ Callback(h)
    <3>1. PICK at : SetTop(h, [t EXCEPT !.at = at])
      BY <1>3, <2>1 DEF ReadEOF, ReadShort, ReadCorrupt, ReadFail, Callback
    <3>2. [t EXCEPT !.at = at].got = t.got
      BY DEF Call
    <3> QED  BY <3>1, <3>2
  <2>2. CASE ReadHdr(h)
    <3>1. PICK at, hdr, off : SetTop(h, [t EXCEPT !.at = at, !.hdr = hdr, !.off = off])
      BY <1>3, <2>2 DEF ReadHdr
    <3>2. [t EXCEPT !.at = at, !.hdr = hdr, !.off = off].got = t.got
      BY DEF Call
    <3> QED  BY <3>1, <3>2
  <2>3. CASE ReadPay(h)
    <3>1. PICK x : x = [off |-> t.off, typ |-> DecTyp(t.hdr[2]), pay |-> SumOf(t.hdr[2])]
      OBVIOUS
    <3>2. PICK at, off : SetTop(h, [t EXCEPT !.at = at, !.off = off, !.got = Append(@, x)])
      BY <1>3, <2>3, <3>1 DEF ReadPay
    <3>3. [t EXCEPT !.at = at, !.off = off, !.got = Append(@, x)].got = Append(t.got, x)
      BY DEF Call
    <3>4. t.off \in 0 .. FileCap /\ t.hdr[2] \in Cell
      BY DEF Call
    <3>5. x \in Found
      BY <3>1, <3>4, DecodeType DEF Found
    <3> QED  BY <3>2, <3>3, <3>5
  <2> QED  BY <2>1, <2>2, <2>3
<1>5. calls'[h] # << >> /\ calls'[h][1] = u /\ Len(calls'[h]) = 1
  <2>1. calls'[h] = [calls[h] EXCEPT ![1] = u]
    BY <1>0, <1>2, <1>4 DEF SetTop
  <2> QED  BY <1>2, <2>1
<1>6. Top(h)' = u
  BY <1>5 DEF Top
<1>7. Seen[h] = t.got
  BY <1>1, <1>2, <1>3 DEF Seen, Top
<1>8. CallInv(h)'
  BY <1>0, CallRead
<1>9. Passed(Top(h).got)'
  BY <1>5, <1>8 DEF CallInv, InCall
<1> QED  BY <1>1, <1>3, <1>4, <1>5, <1>6, <1>7, <1>9 DEF InCall

\* A power failure is a loss of appends that no Sync covered.
LEMMA PowerLoses ==
    ASSUME IInv, IInv', PowerFail
    PROVE  Log!Lose
<1>1. log \in Seq(Entry) /\ Len(log) \in Nat /\ synced \in Nat
  BY DEF IInv, TypeInv, TypeOK
<1>2. PICK k \in 0 .. Len(log) : log' = SubSeq(log, 1, k)
  BY DEF PowerFail, Surviving
<1>3. Len(log') = k
  BY <1>1, <1>2, PrefixOfSeq
<1>4. synced' = synced /\ synced <= k
  BY <1>3 DEF IInv, DiskInv, PowerFail
<1>5. k \in synced .. Len(log)
  BY <1>1, <1>4
<1>6. Seen' = [h \in Handles |-> << >>]
  BY DEF PowerFail, Seen, InCall
<1> QED  BY <1>2, <1>4, <1>5, <1>6 DEF Log!Lose, Seen

\* Every other step is an append, a sync, a reader's next entry, the end of a
\* reader's pass, or nothing the abstract log can see.
LEMMA StepRefines ==
    ASSUME PlainUse, IInv, ReadInv, IInv', NEW h \in Handles, Step(h)
    PROVE  Log!Next \/ UNCHANGED Log!vars
<1>0. /\ SingleWriter /\ TypeInv /\ CallInv(h) /\ calls \in [Handles -> Seq(Call)]
      /\ calls[h] \in Seq(Call) /\ log \in Seq(Entry) /\ Len(log) \in Nat
      /\ log' \in Seq(Entry)
  <2>1. SingleWriter /\ TypeInv /\ CallInv(h)
    BY DEF PlainUse, IInv, ReadInv
  <2>2. TypeInv'
    BY DEF IInv
  <2>3. log' \in Seq(Entry)
    BY <2>2 DEF TypeInv, TypeOK
  <2>4. /\ calls \in [Handles -> Seq(Call)] /\ log \in Seq(Entry) /\ Len(log) \in Nat
    BY <2>1 DEF TypeInv, TypeOK
  <2> QED  BY <2>1, <2>3, <2>4
<1>1. \A g \in Handles : g # h => calls'[g] = calls[g]
  BY <1>0, OthersKeep
<1>2. ASSUME UNCHANGED <<log, synced, Seen>> PROVE UNCHANGED Log!vars
  BY <1>2 DEF Log!vars, Seen
<1>3. ASSUME UNCHANGED <<log, synced>>, calls'[h] = << >> PROVE Log!Next
  <2>1. Seen' = [Seen EXCEPT ![h] = << >>]
    BY <1>0, <1>1, <1>3, SeenStep
  <2> QED  BY <1>3, <2>1 DEF Log!Next, Log!Restart, Seen
<1>4. CASE \/ ReadEOF(h) \/ ReadShort(h) \/ ReadHdr(h) \/ ReadPay(h)
           \/ ReadCorrupt(h) \/ ReadFail(h) \/ Callback(h)
  <2>1. PICK s : s = Top(h)'.got
    OBVIOUS
  <2>2. Seen' = [Seen EXCEPT ![h] = s] /\ UNCHANGED <<log, synced>> /\ Seen[h] = Top(h).got
    BY <1>0, <1>1, <1>4, <2>1, ReadGot, SeenStep
  <2>3. CASE s = Seen[h]
    <3>1. Seen' = Seen
      BY <2>2, <2>3 DEF Seen
    <3> QED  BY <1>2, <2>2, <3>1
  <2>4. ASSUME NEW x \in Found, s = Append(Seen[h], x) PROVE Log!Receive(h)
    <3>1. PICK got \in Seq(Found) : got = Seen[h]
      <4>1. InCall(h)
        BY <1>4, ReadGot DEF InCall
      <4>2. Top(h) \in Call
        BY <1>0, <4>1, TopType
      <4> QED  BY <2>2, <4>2 DEF Call
    <3>2. Len(s) = Len(got) + 1 /\ s[Len(got) + 1] = x /\ Len(got) \in Nat
      BY <2>4, <3>1
    <3>3. Passed(s)'
      BY <1>4, <2>1, ReadGot DEF Passed, Contiguous
    <3>4. Len(s) <= Len(log) /\ \A i \in 1 .. Len(s) : s[i] = log[i]
      BY <2>2, <3>3 DEF Passed
    <3>5. Len(got) < Len(log) /\ x = log[Len(got) + 1]
      BY <1>0, <3>2, <3>4
    <3>6. Seen' = [Seen EXCEPT ![h] = Append(@, log[Len(@) + 1])]
      BY <2>2, <2>4, <3>1, <3>5 DEF Seen
    <3> QED  BY <2>2, <3>1, <3>5, <3>6 DEF Log!Receive, Seen
  <2>5. s = Top(h).got \/ \E x \in Found : s = Append(Top(h).got, x)
    BY <1>4, <2>1, ReadGot
  <2> QED  BY <2>2, <2>3, <2>4, <2>5 DEF Log!Next
<1>5. CASE Return(h)
  <2>1. Len(calls[h]) = 1 /\ calls'[h] = SubSeq(calls[h], 1, Len(calls[h]) - 1)
    BY <1>0, <1>5 DEF CallInv, Return, Reading
  <2>2. calls'[h] = << >>
    BY <1>0, <2>1
  <2> QED  BY <1>3, <1>5, <2>2 DEF Return, history
<1>6. CASE ProcCrash(h)
  BY <1>0, <1>3, <1>6 DEF ProcCrash, history
<1>7. CASE BeginScan(h) \/ BeginIndex(h)
  <2>1. PICK op \in {"scan", "index"} : Begin(h, op)
    BY <1>7 DEF BeginScan, BeginIndex
  <2>2. PICK t : t = [op |-> op, at |-> "hdr", hdr |-> <<Zero, Zero>>,
                      off |-> FileHdrN, got |-> << >>, n0 |-> Len(log)]
    OBVIOUS
  <2>3. /\ calls'[h] = Append(calls[h], t) /\ Len(calls[h]) < MaxNest
        /\ UNCHANGED <<log, synced>>
    BY <1>0, <2>1, <2>2 DEF Begin, history
  <2>4. Len(calls[h]) = 0
    BY <1>0, <2>3, WalAssumption DEF PlainUse
  <2>5. calls[h] = << >>
    BY <1>0, <2>4
  <2>6. calls'[h] = <<t>>
    BY <2>3, <2>5
  <2>7. calls'[h] # << >> /\ calls'[h][1].got = << >>
    BY <2>2, <2>6
  <2>8. Seen' = [Seen EXCEPT ![h] = << >>]
    BY <1>0, <1>1, <2>7, SeenStep
  <2>9. Seen' = Seen
    BY <2>5, <2>8 DEF Seen, InCall
  <2> QED  BY <1>2, <2>3, <2>9
<1>8. CASE Sync(h)
  <2>1. synced' = Len(log) /\ log' = log /\ Seen' = Seen
    BY <1>8 DEF Sync, readVars, Seen, InCall
  <2> QED  BY <2>1 DEF Log!Next, Log!Sync, Seen
<1>9. CASE WriteCell(h) \/ WriteHdrLast(h) \/ WritePayLast(h)
  <2>1. Seen' = Seen /\ synced' = synced
    BY <1>9 DEF WriteCell, WriteHdrLast, WritePayLast, readVars, history, Seen, InCall
  <2>2. log' = log \/ Ack(h, Start(h))
    BY <1>9 DEF WriteCell, WriteHdrLast, WritePayLast, history
  <2>3. ASSUME Ack(h, Start(h)) PROVE Log!Add
    <3>1. PICK e : log' = Append(log, e)
      BY <2>3 DEF Ack
    <3>2. e = log'[Len(log) + 1] /\ Len(log) + 1 \in 1 .. Len(log')
      BY <1>0, <3>1
    <3>3. e \in Entry
      BY <1>0, <3>2
    <3> QED  BY <2>1, <3>1, <3>3 DEF Log!Add, Seen
  <2> QED  BY <1>2, <2>1, <2>2, <2>3 DEF Log!Next
<1>10. CASE \/ Create(h) \/ Open(h) \/ WriteHead(h) \/ WriteHeadFail(h) \/ Close(h)
            \/ (\E r \in Rec : BeginWrite(h, r)) \/ WriteFail(h)
  <2>1. UNCHANGED <<log, synced, calls>>
    BY <1>10 DEF Create, Open, WriteHead, WriteHeadFail, Close, BeginWrite, WriteFail,
                 readVars, history
  <2>2. Seen' = Seen
    BY <2>1 DEF Seen, InCall
  <2> QED  BY <1>2, <2>1, <2>2
<1> QED  BY <1>4, <1>5, <1>6, <1>7, <1>8, <1>9, <1>10 DEF Step, Client, Read, Write

\* In plain use the file and its handles implement the abstract log, through
\* every crash, failed write and power failure: appends form one sequence, each
\* Scan or Index receives it from its first element on, and a power failure cuts
\* it at most down to what a Sync has covered.
THEOREM FileImplementsLog ==
    ASSUME PlainUse
    PROVE  Spec => ImplementsAppendLog
<1>1. Init => Log!Init
  <2> SUFFICES ASSUME Init PROVE Log!Init
    OBVIOUS
  <2>1. log = << >> /\ synced = 0 /\ Seen = [h \in Handles |-> << >>]
    BY DEF Init, Seen, InCall
  <2> QED  BY <2>1 DEF Log!Init, Seen
<1>2. IInv /\ ReadInv /\ IInv' /\ [Next]_vars => [Log!Next]_(Log!vars)
  <2> SUFFICES ASSUME IInv, ReadInv, IInv', [Next]_vars PROVE [Log!Next]_(Log!vars)
    OBVIOUS
  <2>1. CASE PowerFail
    BY <2>1, PowerLoses DEF Log!Next
  <2>2. ASSUME NEW h \in Handles, Step(h) PROVE [Log!Next]_(Log!vars)
    BY <2>2, StepRefines
  <2>3. CASE UNCHANGED vars
    BY <2>3 DEF vars, readVars, history, InCall, Log!vars
  <2> QED  BY <2>1, <2>2, <2>3 DEF Next
<1> QED  BY <1>1, <1>2, ReadInvariant, PTL DEF Spec, ImplementsAppendLog, Log!Spec
=============================================================================
