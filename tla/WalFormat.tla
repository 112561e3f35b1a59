------------------------------- MODULE WalFormat -------------------------------
(***************************************************************************)
(* The bytes of a WAL file (internal/wal/wal.go), and what a reader makes  *)
(* of them.                                                                *)
(*                                                                         *)
(* A file is a function from addresses to cells.  One cell stands for the  *)
(* smallest run of bytes a torn write may tear apart and a property can    *)
(* tell from another:                                                      *)
(*   - the file header is one cell;                                        *)
(*   - a record header is two, the length field, and the rest of it (type  *)
(*     and checksum; flag, timestamp, id and metadata travel with them);   *)
(*   - a payload is one cell per byte.                                     *)
(* Bytes that a crash left unwritten inside the file read as zeros.        *)
(* The checksum is idealised to be injective: the cell that holds it       *)
(* carries the payload it was computed from.  The checksum of the empty    *)
(* payload is 0 (CRC-32 of nothing), so a zero cell passes for it.         *)
(***************************************************************************)
EXTENDS Naturals, Sequences

CONSTANTS
    Magics,     \* file identifiers the callers use
    Types,      \* record types the callers use
    ZeroTyp,    \* the record type a zero cell decodes to
    Bytes,      \* payload bytes
    Payloads,   \* payloads the callers append
    U32,        \* 2^32: the width of the length field
    FileCap     \* bound: no file of the model grows past it

FileHdrN == 1   \* fileHdrN, in cells
RecHdrN  == 2   \* recHdrN, in cells

ASSUME FormatAssumption ==
    /\ ZeroTyp \notin Types
    /\ Payloads \subseteq Seq(Bytes)
    /\ U32 \in Nat /\ U32 > RecHdrN + 1
    /\ FileCap \in Nat /\ FileCap > FileHdrN

Addr == 0 .. FileCap - 1

Rec   == [typ : Types, pay : Payloads]              \* an Append
NoRec == [typ |-> ZeroTyp, pay |-> << >>]           \* no append under way
Entry == [off : 0 .. FileCap, typ : Types, pay : Payloads]
RecN(r) == RecHdrN + Len(r.pay)                     \* cells of a record
NextOff(e) == e.off + RecN(e)                       \* where the next one goes

-----------------------------------------------------------------------------
(* Cells: a tag and a value.                                               *)

Zero           == <<"zero", 0>>
MagicCell(m)   == <<"magic", m>>
LenCell(n)     == <<"len", n>>
SumCell(typ, pay) == <<"sum", <<typ, pay>> >>
PayCell(b)     == <<"pay", b>>

Cell == {Zero} \union ({"magic"} \X Magics) \union ({"len"} \X (0 .. U32 - 1))
        \union ({"sum"} \X (Types \X Payloads)) \union ({"pay"} \X Bytes)

\* The length field of a record: uint32(recHdrN) + uint32(len(payload)).
LenField(pay) == (RecHdrN + Len(pay)) % U32

\* Mutant of MaxPayload: the header's share of the length is forgotten.
MaxPayload_NoHdr == U32 - 1

\* Write refuses longer payloads: the sum above must not wrap.
MaxPayload == U32 - 1 - RecHdrN

\* The i-th cell of record r, header first: encRec, then the payload.
RecCell(r, i) ==
    CASE i = 1 -> LenCell(LenField(r.pay))
      [] i = 2 -> SumCell(r.typ, r.pay)
      [] OTHER -> PayCell(r.pay[i - RecHdrN])

\* decRec.  Payload bytes read as a header are taken to hold no valid length.
DecLen(c) == IF c[1] = "len" THEN c[2] ELSE 0
DecTyp(c) == IF c[1] = "sum" THEN c[2][1] ELSE ZeroTyp
SumOf(c)  == IF c[1] = "sum" THEN c[2][2] ELSE << >>

\* Mutant of SumOK: the payload is taken as it is read.
SumOK_NoCrc(f, c, a, n) == c[1] \in {"sum", "zero"} /\ n = Len(SumOf(c))

\* The n cells of f at address a have the checksum that header cell c holds.
SumOK(f, c, a, n) ==
    /\ c[1] \in {"sum", "zero"}
    /\ n = Len(SumOf(c))
    /\ \A i \in 1 .. n : f[a + i - 1] = PayCell(SumOf(c)[i])

\* Every cell of entry e is in the first n cells of file f.
Intact(f, n, e) ==
    /\ NextOff(e) <= n
    /\ \A i \in 1 .. RecN(e) : f[e.off + i - 1] = RecCell(e, i)
=============================================================================
