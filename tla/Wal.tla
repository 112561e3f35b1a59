---------------------------------- MODULE Wal ----------------------------------
(***************************************************************************)
(* One WAL file and the handles open on it (internal/wal/wal.go).          *)
(*                                                                         *)
(* A handle is a *WAL of a process of its own.  Its Write puts the header  *)
(* and then the payload at the offset the handle tracks, cell by cell; its *)
(* Scan and Index seek to the first record and read forward at the file    *)
(* position, which every call made on the handle shares; fn, the callback  *)
(* of a Scan, may use the handle it is called from.  A process may crash   *)
(* between any two cells, an I/O call may fail half done, and the power    *)
(* may fail, which keeps of the unsynced pages any subset.                 *)
(***************************************************************************)
EXTENDS WalFormat

CONSTANTS
    Handles,    \* open files, each with a process of its own
    Writers,    \* the handles that append
    MaxNest,    \* bound: calls of Scan and Index nested on one handle
    PageN,      \* cells in a page, the unit in which the kernel writes back
    Faults      \* what may go wrong: a subset of {"io", "crash", "power"}

ASSUME WalAssumption ==
    /\ Writers \subseteq Handles
    /\ MaxNest \in Nat
    /\ PageN \in Nat \ {0}
    /\ Faults \subseteq {"io", "crash", "power"}

VARIABLES
    exists,     \* the path names a file
    file, size, \* its cells as every process reads them, and its length
    disk,       \* its cells and length as of the last sync: what is durable
    pc,         \* [Handles -> where the handle is]
    end,        \* [Handles -> w.end, the tracked write offset]
    cur, done,  \* [Handles -> the record being appended, its cells written]
    pos,        \* [Handles -> the file position]
    calls,      \* [Handles -> the stack of Scan and Index calls under way]
    index,      \* [Handles -> what the handle's last Index returned]
    log,        \* history: the appends acknowledged, with their offsets
    synced,     \* history: how many of them a Sync has covered
    gap         \* history: an append was given up behind its header, or a
                \* handle opened for appending found a torn tail

fileVars == <<exists, file, size, disk>>
writeVars == <<end, cur, done>>
readVars == <<pos, calls, index>>
history == <<log, synced, gap>>
vars == <<fileVars, pc, writeVars, readVars, history>>

-----------------------------------------------------------------------------
(* State predicates and helpers.                                           *)

\* What a reader finds: an entry, or zeros that pass for one.
Found == [off : 0 .. FileCap, typ : Types \union {ZeroTyp},
          pay : Payloads \union {<< >>}]

Call == [op  : {"scan", "index"},
         at  : {"hdr", "pay", "cb", "ok", "err", "stop"},
         hdr : Cell \X Cell,        \* the header read last
         off : 0 .. FileCap,        \* and its address
         got : Seq(Found),          \* the records passed so far
         n0  : Nat]                 \* history: appends acknowledged at the start

TypeOK ==
    /\ exists \in BOOLEAN
    /\ file \in [Addr -> Cell]
    /\ size \in 0 .. FileCap
    /\ disk \in [cells : [Addr -> Cell], size : 0 .. FileCap]
    /\ pc \in [Handles -> {"none", "head", "idle", "whdr", "wpay"}]
    /\ end \in [Handles -> 0 .. FileCap]
    /\ cur \in [Handles -> Rec \union {NoRec}]
    /\ done \in [Handles -> Nat]
    /\ pos \in [Handles -> 0 .. FileCap]
    /\ calls \in [Handles -> Seq(Call)]
    /\ index \in [Handles -> Seq(Found)]
    /\ log \in Seq(Entry)
    /\ synced \in Nat
    /\ gap \in BOOLEAN

InCall(h) == calls[h] # << >>
Top(h) == calls[h][Len(calls[h])]
SetTop(h, c) == calls' = [calls EXCEPT ![h][Len(calls[h])] = c]

\* The client of h may call it: between calls, or from within fn.
Free(h) == pc[h] = "idle" /\ (InCall(h) => Top(h).at = "cb")

\* h is inside Write; the address its append began at.
InWrite(h) == pc[h] \in {"whdr", "wpay"}
Start(h) == IF pc[h] = "wpay" THEN end[h] - RecHdrN ELSE end[h]

LogEnd == IF log = << >> THEN FileHdrN ELSE NextOff(log[Len(log)])

Larger(a, b) == IF a > b THEN a ELSE b

Init ==
    /\ exists = FALSE
    /\ file = [a \in Addr |-> Zero]
    /\ size = 0
    /\ disk = [cells |-> file, size |-> 0]
    /\ pc = [h \in Handles |-> "none"]
    /\ end = [h \in Handles |-> 0]
    /\ cur = [h \in Handles |-> NoRec]
    /\ done = [h \in Handles |-> 0]
    /\ pos = [h \in Handles |-> 0]
    /\ calls = [h \in Handles |-> << >>]
    /\ index = [h \in Handles |-> << >>]
    /\ log = << >>
    /\ synced = 0
    /\ gap = FALSE

-----------------------------------------------------------------------------
(* Create, Open, Close.                                                    *)

\* O_CREATE|O_EXCL: the file is there, and empty, before its header is.
Create(h) ==
    /\ pc[h] = "none"
    /\ ~exists
    /\ exists' = TRUE
    /\ pc' = [pc EXCEPT ![h] = "head"]
    /\ UNCHANGED <<file, size, disk, writeVars, readVars, history>>

WriteHead(h) ==
    /\ pc[h] = "head"
    /\ \E m \in Magics : file' = [file EXCEPT ![0] = MagicCell(m)]
    /\ size' = FileHdrN
    /\ pc' = [pc EXCEPT ![h] = "idle"]
    /\ end' = [end EXCEPT ![h] = FileHdrN]
    /\ pos' = [pos EXCEPT ![h] = FileHdrN]
    /\ UNCHANGED <<exists, disk, cur, done, calls, index, history>>

\* writeHead failed: Create closes and removes the file it made.
WriteHeadFail(h) ==
    /\ "io" \in Faults
    /\ pc[h] = "head"
    /\ exists' = FALSE
    /\ pc' = [pc EXCEPT ![h] = "none"]
    /\ UNCHANGED <<file, size, disk, writeVars, readVars, history>>

\* readHead: the file is long enough and holds the caller's magic.
HeadOK(m) == size >= FileHdrN /\ file[0] = MagicCell(m)

\* Mutant of TailOffset: w.end is left where readHead stopped.
TailOffset_NoSeek == FileHdrN

\* Where Open puts the tracked offset: the end of the file (SeekEnd).
TailOffset == size

\* Open; OpenOrCreate is the same, since os.IsNotExist does not look inside
\* the error Open wraps.  A call that fails changes nothing.
Open(h) ==
    /\ pc[h] = "none"
    /\ exists
    /\ \E m \in Magics : HeadOK(m)
    /\ pc' = [pc EXCEPT ![h] = "idle"]
    /\ end' = [end EXCEPT ![h] = TailOffset]
    /\ pos' = [pos EXCEPT ![h] = size]
    /\ gap' = (gap \/ (h \in Writers /\ size # LogEnd))
    /\ UNCHANGED <<fileVars, cur, done, calls, index, log, synced>>

Close(h) ==
    /\ pc[h] = "idle"
    /\ ~InCall(h)
    /\ pc' = [pc EXCEPT ![h] = "none"]
    /\ UNCHANGED <<fileVars, writeVars, readVars, history>>

-----------------------------------------------------------------------------
(* Write.                                                                  *)

BeginWrite(h, r) ==
    /\ h \in Writers
    /\ Free(h)
    /\ Len(r.pay) <= MaxPayload
    /\ end[h] + RecN(r) <= FileCap          \* the bound on the file
    /\ pc' = [pc EXCEPT ![h] = "whdr"]
    /\ cur' = [cur EXCEPT ![h] = r]
    /\ done' = [done EXCEPT ![h] = 0]
    /\ UNCHANGED <<fileVars, end, readVars, history>>

\* WriteAt puts its next cell.
PutCell(h) ==
    LET a == Start(h) + done[h]
    IN  /\ file' = [file EXCEPT ![a] = RecCell(cur[h], done[h] + 1)]
        /\ size' = Larger(size, a + 1)

\* What Write leaves in w.end when the header, or the payload, is written.
AfterHdr(h) == end[h] + RecHdrN
\* Mutant of AfterPay: r.Len is added, which counts the header again.
AfterPay_Len(h) == end[h] + RecN(cur[h])

AfterPay(h) == end[h] + Len(cur[h].pay)

\* Write returns the record: the append is acknowledged.
Ack(h, off) ==
    /\ pc' = [pc EXCEPT ![h] = "idle"]
    /\ cur' = [cur EXCEPT ![h] = NoRec]
    /\ done' = [done EXCEPT ![h] = 0]
    /\ log' = Append(log, [off |-> off, typ |-> cur[h].typ, pay |-> cur[h].pay])

\* A cell of the header, or of the payload, that is not its last one.
WriteCell(h) ==
    /\ \/ pc[h] = "whdr" /\ done[h] + 1 < RecHdrN
       \/ pc[h] = "wpay" /\ done[h] + 1 < RecN(cur[h])
    /\ PutCell(h)
    /\ done' = [done EXCEPT ![h] = @ + 1]
    /\ UNCHANGED <<exists, disk, pc, end, cur, readVars, history>>

\* The last cell of the header: w.end advances at once.
WriteHdrLast(h) ==
    /\ pc[h] = "whdr"
    /\ done[h] + 1 = RecHdrN
    /\ PutCell(h)
    /\ end' = [end EXCEPT ![h] = AfterHdr(h)]
    /\ IF cur[h].pay = << >>
       THEN Ack(h, Start(h))
       ELSE /\ pc' = [pc EXCEPT ![h] = "wpay"]
            /\ done' = [done EXCEPT ![h] = RecHdrN]
            /\ UNCHANGED <<cur, log>>
    /\ UNCHANGED <<exists, disk, readVars, synced, gap>>

WritePayLast(h) ==
    /\ pc[h] = "wpay"
    /\ done[h] + 1 = RecN(cur[h])
    /\ PutCell(h)
    /\ end' = [end EXCEPT ![h] = AfterPay(h)]
    /\ Ack(h, Start(h))
    /\ UNCHANGED <<exists, disk, readVars, synced, gap>>

\* A WriteAt fails with some of its cells written; w.end stays as it is.
WriteFail(h) ==
    /\ "io" \in Faults
    /\ InWrite(h)
    /\ pc' = [pc EXCEPT ![h] = "idle"]
    /\ cur' = [cur EXCEPT ![h] = NoRec]
    /\ done' = [done EXCEPT ![h] = 0]
    /\ gap' = (gap \/ pc[h] = "wpay")
    /\ UNCHANGED <<fileVars, end, readVars, log, synced>>

\* Mutant of Flushed: nothing is.
Flushed_None == disk

\* What fsync makes durable.
Flushed == [cells |-> file, size |-> size]

\* Sync; observable only where the power can fail.
Sync(h) ==
    /\ "power" \in Faults
    /\ Free(h)
    /\ disk' = Flushed
    /\ synced' = Len(log)
    /\ UNCHANGED <<exists, file, size, pc, writeVars, readVars, log, gap>>

-----------------------------------------------------------------------------
(* Scan and Index: one loop, told apart by what follows a record.          *)

Begin(h, op) ==
    /\ Free(h)
    /\ Len(calls[h]) < MaxNest
    /\ pos' = [pos EXCEPT ![h] = FileHdrN]
    /\ calls' = [calls EXCEPT ![h] =
          Append(@, [op |-> op, at |-> "hdr", hdr |-> <<Zero, Zero>>,
                     off |-> FileHdrN, got |-> << >>, n0 |-> Len(log)])]
    /\ UNCHANGED <<fileVars, pc, writeVars, index, history>>

BeginScan(h) == Begin(h, "scan")
BeginIndex(h) == Begin(h, "index")

\* h runs the innermost of its calls, which is at the given place.
Reading(h, at) == pc[h] = "idle" /\ InCall(h) /\ Top(h).at = at

\* io.ReadFull finds n cells, or no cell at all.
Available(h, n) == pos[h] + n <= size
\* Mutants of AtEOF: a header without payload ends the file; end of file
\* is met only beyond the end.
AtEOF_Early(h) == pos[h] + RecHdrN >= size
AtEOF_Late(h) == pos[h] > size

AtEOF(h) == pos[h] >= size

ReadEOF(h) ==
    /\ Reading(h, "hdr")
    /\ AtEOF(h)
    /\ SetTop(h, [Top(h) EXCEPT !.at = "ok"])
    /\ UNCHANGED <<fileVars, pc, writeVars, pos, index, history>>

\* Mutant of ReadShort: the reader goes back and waits for the rest.
ReadShort_Retry(h) ==
    /\ Reading(h, "hdr")
    /\ ~AtEOF(h)
    /\ ~Available(h, RecHdrN)
    /\ UNCHANGED vars

\* The file ends inside a header: corrupt_head_trunc.
ReadShort(h) ==
    /\ Reading(h, "hdr")
    /\ ~AtEOF(h)
    /\ ~Available(h, RecHdrN)
    /\ SetTop(h, [Top(h) EXCEPT !.at = "err"])
    /\ pos' = [pos EXCEPT ![h] = size]
    /\ UNCHANGED <<fileVars, pc, writeVars, index, history>>

\* Scan takes a record's offset from the file position, as the client sees
\* the order of its calls; Index sums up the lengths (off).
ReadHdr(h) ==
    LET t == Top(h)
        a == pos[h]
        hdr == <<file[a], file[a + 1]>>
    IN  /\ Reading(h, "hdr")
        /\ Available(h, RecHdrN)
        /\ SetTop(h, [t EXCEPT !.at = IF DecLen(hdr[1]) < RecHdrN
                                      THEN "err" ELSE "pay",
                               !.hdr = hdr,
                               !.off = IF t.op = "scan" THEN a ELSE @])
        /\ pos' = [pos EXCEPT ![h] = a + RecHdrN]
        /\ UNCHANGED <<fileVars, pc, writeVars, index, history>>

PayN(h) == DecLen(Top(h).hdr[1]) - RecHdrN
PayOK(h) == /\ Available(h, PayN(h))
            /\ SumOK(file, Top(h).hdr[2], pos[h], PayN(h))

\* Mutant of NextIndexOff: the payload's length is added.
NextIndexOff_Pay(h) == Top(h).off + PayN(h)

\* off += int64(r.Len)
NextIndexOff(h) == Top(h).off + DecLen(Top(h).hdr[1])

\* The record is whole: Scan hands it to fn, Index goes on to the next.
ReadPay(h) ==
    LET t == Top(h)
        rec == [off |-> t.off, typ |-> DecTyp(t.hdr[2]), pay |-> SumOf(t.hdr[2])]
    IN  /\ Reading(h, "pay")
        /\ PayOK(h)
        /\ SetTop(h, [t EXCEPT !.at = IF t.op = "scan" THEN "cb" ELSE "hdr",
                               !.off = IF t.op = "scan" THEN @ ELSE NextIndexOff(h),
                               !.got = Append(@, rec)])
        /\ pos' = [pos EXCEPT ![h] = @ + PayN(h)]
        /\ UNCHANGED <<fileVars, pc, writeVars, index, history>>

\* corrupt_payload_trunc or corrupt_crc.
ReadCorrupt(h) ==
    /\ Reading(h, "pay")
    /\ ~PayOK(h)
    /\ SetTop(h, [Top(h) EXCEPT !.at = "err"])
    /\ pos' = [pos EXCEPT ![h] = IF Available(h, PayN(h)) THEN @ + PayN(h)
                                                          ELSE Larger(@, size)]
    /\ UNCHANGED <<fileVars, pc, writeVars, index, history>>

ReadFail(h) ==
    /\ "io" \in Faults
    /\ Reading(h, "hdr") \/ Reading(h, "pay")
    /\ SetTop(h, [Top(h) EXCEPT !.at = "stop"])
    /\ UNCHANGED <<fileVars, pc, writeVars, pos, index, history>>

\* fn returns nil, or an error that ends the scan.
Callback(h) ==
    /\ Reading(h, "cb")
    /\ \E next \in {"hdr", "stop"} : SetTop(h, [Top(h) EXCEPT !.at = next])
    /\ UNCHANGED <<fileVars, pc, writeVars, pos, index, history>>

\* The innermost call returns to its caller; an Index hands over its result.
Return(h) ==
    /\ Reading(h, "ok") \/ Reading(h, "err") \/ Reading(h, "stop")
    /\ calls' = [calls EXCEPT ![h] = SubSeq(@, 1, Len(@) - 1)]
    /\ index' = IF Top(h).op = "index" /\ Top(h).at = "ok"
                THEN [index EXCEPT ![h] = Top(h).got]
                ELSE index
    /\ UNCHANGED <<fileVars, pc, writeVars, pos, history>>

\* ReadAt of an index entry returns the payload the entry was made for.
ReadAtOK(e) ==
    \A i \in 1 .. Len(e.pay) :
        /\ e.off + RecHdrN + i - 1 < size
        /\ file[e.off + RecHdrN + i - 1] = PayCell(e.pay[i])

-----------------------------------------------------------------------------
(* The environment.                                                        *)

\* The process of h is killed: what it wrote stays in the page cache.
ProcCrash(h) ==
    /\ "crash" \in Faults
    /\ pc[h] # "none"
    /\ pc' = [pc EXCEPT ![h] = "none"]
    /\ cur' = [cur EXCEPT ![h] = NoRec]
    /\ done' = [done EXCEPT ![h] = 0]
    /\ calls' = [calls EXCEPT ![h] = << >>]
    /\ index' = [index EXCEPT ![h] = << >>]
    /\ UNCHANGED <<fileVars, end, pos, history>>

\* The acknowledged appends that survive in the first n cells of f.
Surviving(f, n) ==
    {k \in 0 .. Len(log) : \A i \in 1 .. k : Intact(f, n, log[i])}

\* The power fails.  Of the pages written since the last sync any subset is
\* on disk, and the file is as long as it was then, or longer; a file never
\* synced may be gone.  All processes die.
PowerFail ==
    /\ "power" \in Faults
    /\ exists
    /\ exists' \in (IF disk.size = 0 THEN BOOLEAN ELSE {TRUE})
    /\ \E n \in disk.size .. size, kept \in SUBSET (0 .. (FileCap - 1) \div PageN) :
          /\ file' = [a \in Addr |-> IF a >= n \/ ~exists' THEN Zero
                                     ELSE IF a \div PageN \in kept THEN file[a]
                                     ELSE disk.cells[a]]
          /\ size' = IF exists' THEN n ELSE 0
          /\ disk' = [cells |-> file', size |-> size']
          /\ \E k \in Surviving(file', size') :
                /\ \A j \in Surviving(file', size') : j <= k
                /\ log' = SubSeq(log, 1, k)
    /\ pc' = [h \in Handles |-> "none"]
    /\ cur' = [h \in Handles |-> NoRec]
    /\ done' = [h \in Handles |-> 0]
    /\ calls' = [h \in Handles |-> << >>]
    /\ index' = [h \in Handles |-> << >>]
    /\ UNCHANGED <<end, pos, synced, gap>>

-----------------------------------------------------------------------------
(* The specification.                                                      *)

Write(h) == WriteCell(h) \/ WriteHdrLast(h) \/ WritePayLast(h) \/ WriteFail(h)
Read(h) == \/ ReadEOF(h) \/ ReadShort(h) \/ ReadHdr(h) \/ ReadPay(h)
           \/ ReadCorrupt(h) \/ ReadFail(h) \/ Return(h)

Client(h) ==
    \/ Create(h) \/ Open(h) \/ Close(h) \/ Sync(h)
    \/ \E r \in Rec : BeginWrite(h, r)
    \/ BeginScan(h) \/ BeginIndex(h)

Step(h) ==
    \/ Client(h) \/ WriteHead(h) \/ WriteHeadFail(h)
    \/ Write(h) \/ Read(h) \/ Callback(h) \/ ProcCrash(h)

Next == PowerFail \/ \E h \in Handles : Step(h)

Spec == Init /\ [][Next]_vars

\* What a call under way does as long as nothing fails.
Progress(h) ==
    \/ WriteHead(h) \/ WriteCell(h) \/ WriteHdrLast(h) \/ WritePayLast(h)
    \/ ReadEOF(h) \/ ReadShort(h) \/ ReadHdr(h) \/ ReadPay(h)
    \/ ReadCorrupt(h) \/ Return(h)

\* A call under way keeps running, and the client's fn returns each time.
Fairness == \A h \in Handles :
    /\ WF_vars(Progress(h))
    /\ SF_vars(Callback(h))

FairSpec == Spec /\ Fairness

-----------------------------------------------------------------------------
(* Properties.                                                             *)

\* The file and its handles, seen as one sequence of appends and the readers
\* that go through it: the outermost Scan or Index of each handle.
Log == INSTANCE AppendLog WITH
    Entries <- Entry,
    Readers <- Handles,
    seen <- [h \in Handles |-> IF InCall(h) THEN calls[h][1].got ELSE << >>]

\* The file implements the abstract log, through every fault modelled.
ImplementsAppendLog == Log!Spec

\* An acknowledged append stays in the file, byte for byte, whatever appends,
\* failures, crashes and reopenings follow (Write and Open agree on w.end).
AckedIntact == \A i \in 1 .. Len(log) : Intact(file, size, log[i])

\* What a Scan hands to fn, and what an Index lists, is at every moment a
\* prefix of the acknowledged appends: no record twice, out of order, made of
\* two appends, torn, or never written.
ScanSound ==
    \A h \in Handles : \A k \in 1 .. Len(calls[h]) :
        LET got == calls[h][k].got
        IN  /\ Len(got) <= Len(log)
            /\ \A i \in 1 .. Len(got) : got[i] = log[i]

\* The first k appends lie back to back from the file header on.
Contiguous(k) ==
    \A i \in 1 .. k :
        log[i].off = IF i = 1 THEN FileHdrN ELSE NextOff(log[i - 1])

\* The call ended by itself, not by an error of fn or of the disk.
Ended(c) == c.at \in {"ok", "err"}

\* A Scan or Index that ends by itself, even in a corrupt_* error, has passed
\* every append acknowledged before it began, up to the first that does not lie
\* behind its predecessor.
ScanComplete ==
    \A h \in Handles : \A k \in 1 .. Len(calls[h]) :
        LET c == calls[h][k]
        IN  Ended(c) => \A n \in 1 .. c.n0 : Contiguous(n) => Len(c.got) >= n

\* Appends lie back to back, and so within the reach of Scan, as long as no
\* append failed between its header and its payload and no writer opened a file
\* with a torn tail: a failed header write, in particular, costs nothing.
NoLossWithoutGap == ~gap => Contiguous(Len(log))

\* The Idx entries of an Index stay good for ReadAt through later appends,
\* failed appends, reopenings and crashes of others.
IndexStable == \A h \in Handles : \A i \in 1 .. Len(index[h]) : ReadAtOK(index[h][i])

\* No append that a Sync covered is lost to a power failure.
SyncedSurvive == synced <= Len(log)

\* Without faults, a Scan or Index fails with corrupt_* only at a moment when
\* some handle is inside Write (the reader met the record being appended).
ErrOnlyInWrite ==
    [][\A h \in Handles :
          (InCall(h) /\ Top(h).at # "err" /\ InCall(h)' /\ Top(h)'.at = "err")
              => \E g \in Handles : InWrite(g)]_vars

\* A Create that fails leaves no file behind: a file without a header belongs
\* to a Create still under way.
NoHeadlessFile == exists /\ size < FileHdrN => \E h \in Handles : pc[h] = "head"

\* Every Write, Scan and Index returns.
Busy(h) == InCall(h) \/ InWrite(h) \/ pc[h] = "head"
CallsReturn == \A h \in Handles : Busy(h) ~> ~Busy(h)
=============================================================================
