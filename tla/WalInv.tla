--------------------------------- MODULE WalInv --------------------------------
(***************************************************************************)
(* The inductive invariants behind the properties of Wal, in the order in  *)
(* which each rests on the ones before it.                                 *)
(***************************************************************************)
EXTENDS Wal

\* The hypothesis of the theorems on appends: at most one handle appends.
SingleWriter == \A g, h \in Writers : g = h

Live(h) == pc[h] \in {"idle", "whdr", "wpay"}

\* An append under way fits in the file and is as far as done says.
WriterOK(h) ==
    /\ InWrite(h) => /\ h \in Writers
                     /\ cur[h] \in Rec
                     /\ Start(h) + RecN(cur[h]) <= FileCap
    /\ pc[h] = "whdr" => done[h] < RecHdrN
    /\ pc[h] = "wpay" => /\ RecHdrN <= done[h]
                         /\ done[h] < RecN(cur[h])
                         /\ RecHdrN <= end[h]
    /\ ~InWrite(h) => done[h] = 0

\* Calls are made on open handles, and only the innermost one moves; between
\* header and payload the file position is right behind the header, and Index's
\* own sum of lengths agrees with it.
ReaderOK(h) ==
    /\ \A k \in 1 .. Len(calls[h]) - 1 : calls[h][k].at = "cb" /\ calls[h][k].op = "scan"
    /\ InCall(h) =>
          /\ Live(h)
          /\ Top(h).at = "pay" => /\ Top(h).off + RecHdrN = pos[h]
                                  /\ DecLen(Top(h).hdr[1]) >= RecHdrN
          /\ Top(h).at = "hdr" /\ Top(h).op = "index" => Top(h).off = pos[h]
          /\ Top(h).at = "cb" => Top(h).op = "scan"

TypeInv ==
    /\ TypeOK
    /\ \A h \in Handles : WriterOK(h) /\ ReaderOK(h)

\* A file without a header has no handle but the one that is creating it.
FileInv ==
    /\ ~exists => size = 0 /\ \A h \in Handles : pc[h] = "none"
    /\ \A h \in Handles :
          /\ pc[h] = "head" => size = 0 /\ \A g \in Handles : g # h => pc[g] = "none"
          /\ Live(h) => FileHdrN <= size

\* What is in the file of the append that h has under way.
InFlight(h) ==
    /\ Start(h) + done[h] <= size
    /\ \A i \in 1 .. done[h] : file[Start(h) + i - 1] = RecCell(cur[h], i)

\* Acknowledged appends are intact, and lie below any place still written to.
LogInv ==
    /\ AckedIntact
    /\ \A h \in Writers : Live(h) =>
          /\ InFlight(h)
          /\ \A i \in 1 .. Len(log) : NextOff(log[i]) <= Start(h)

\* Without a gap the appends are back to back and the writer is behind them.
GapInv ==
    ~gap => /\ Contiguous(Len(log))
            /\ \A h \in Writers : Live(h) => Start(h) = LogEnd

\* The appends a Sync covered are intact on disk.
DiskInv ==
    /\ disk.size <= size
    /\ synced <= Len(log)
    /\ \A i \in 1 .. synced : Intact(disk.cells, disk.size, log[i])

IInv == TypeInv /\ FileInv /\ LogInv /\ GapInv /\ DiskInv

-----------------------------------------------------------------------------
(* What the readers rest on.                                               *)

\* The hypotheses of the theorems on Scan and Index: fn does not read from the
\* handle it is called for; and where the power may fail, no append is empty
\* (a zeroed header cell passes for its checksum) and none is overwritten.
PlainUse ==
    /\ SingleWriter
    /\ MaxNest <= 1
    /\ "power" \in Faults => "io" \notin Faults /\ << >> \notin Payloads

\* Where a reader stands that has passed the first k appends.
ChainEnd(k) == IF k = 0 THEN FileHdrN ELSE NextOff(log[k])

\* The record whose header lies at a of file f: where it ends, whether its two
\* header cells agree, and whether its payload is there.
RecEnd(f, a) == a + RecHdrN + Len(SumOf(f[a + 1]))
HdrFits(f, a) == /\ f[a + 1][1] \in {"sum", "zero"}
                 /\ DecLen(f[a]) = RecHdrN + Len(SumOf(f[a + 1]))
PayFits(f, a) == \A b \in a + RecHdrN .. RecEnd(f, a) - 1 :
                     f[b] = PayCell(SumOf(f[a + 1])[b - a - 1])

\* A reader at a passes a record of the n cells of f.
RecordAt(f, n, a) ==
    /\ a + RecHdrN <= n
    /\ HdrFits(f, a)
    /\ RecEnd(f, a) <= n
    /\ PayFits(f, a)

\* The appends all lie back to back, and behind them there is at most the
\* beginning of the one under way, or of one whose header failed.
AtTail(n) ==
    /\ n = Len(log)
    /\ (\A h \in Writers : ~Live(h)) => size = ChainEnd(n)
    /\ \A h \in Writers : Live(h) =>
          /\ Start(h) = ChainEnd(n)
          /\ size <= ChainEnd(n) + 1 \/ size <= ChainEnd(n) + done[h]

\* Behind the first n appends lies what no reader gets past, and no append will
\* ever mend: the next one begins behind it, or within it, with a length cell.
AtTear(n) ==
    LET a == ChainEnd(n)
    IN  /\ Faults # {}
        /\ a < size
        /\ ~RecordAt(file, size, a)
        /\ n < Len(log) => a < log[n + 1].off
        /\ \A h \in Writers : Live(h) =>
              /\ a < Start(h)
              /\ Start(h) = a + 1 /\ a + 1 < size => file[a + 1][1] = "len"

TailInv ==
    FileHdrN <= size =>
        \E n \in 0 .. Len(log) : Contiguous(n) /\ (AtTail(n) \/ AtTear(n))

\* No length of an append wraps in the length field; and where no append is
\* empty, no length in the file says that one is.
LenInv ==
    /\ \A i \in 1 .. Len(log) : Len(log[i].pay) <= MaxPayload
    /\ \A h \in Handles : InWrite(h) => Len(cur[h].pay) <= MaxPayload
    /\ "power" \in Faults => \A a \in Addr : DecLen(file[a]) # RecHdrN

\* Where no write fails the file only grows: a cell on disk is as it is in the
\* page cache, or was never written there.
GrowInv ==
    "io" \notin Faults =>
        /\ \A h \in Writers : Live(h) => Start(h) + done[h] = size
        /\ \A a \in Addr : size <= a => file[a] = Zero
        /\ \A a \in Addr : disk.cells[a] \in {file[a], Zero}

\* got is what a reader has passed that began at the file header.
Passed(got) ==
    /\ Len(got) <= Len(log)
    /\ \A i \in 1 .. Len(got) : got[i] = log[i]
    /\ Contiguous(Len(got))

\* The header that was read is still in the file, at a; or it was no header: the
\* length cell of one append, cut off, and that of the next.
HdrStands(hdr, a) ==
    /\ a + RecHdrN <= size
    /\ hdr[1] = file[a]
    /\ hdr[2] = file[a + 1] \/ (hdr[2][1] = "len" /\ file[a + 1][1] = "len")

\* The Scan or Index of h stands behind what it has passed, or has read the
\* header there; and when it has ended it has passed all that it had to.
CallInv(h) ==
    InCall(h) =>
        LET t == Top(h)
            a == ChainEnd(Len(t.got))
        IN  /\ Len(calls[h]) = 1
            /\ Passed(t.got)
            /\ t.n0 <= Len(log)
            /\ t.at \in {"hdr", "cb"} => pos[h] = a
            /\ t.at = "pay" => t.off = a /\ HdrStands(t.hdr, a)
            /\ Ended(t) => \A n \in 1 .. t.n0 : Contiguous(n) => n <= Len(t.got)

ReadInv ==
    /\ TailInv /\ LenInv /\ GrowInv
    /\ \A h \in Handles : CallInv(h) /\ Passed(index[h])
=============================================================================
