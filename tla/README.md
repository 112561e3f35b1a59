# TLA+ models and proofs for iele

iele is a set of small Go packages that a generator (`src/main.go`) copies into
a new project. This directory models those of its packages that keep state or
follow a protocol, checks the models with TLC, and proves theorems about them
with TLAPS. Paths below are relative to `src/internal`, unless they say more.

## The system

| component | state it keeps | operations | what is hard about it | what makes it correct |
|---|---|---|---|---|
| `wal` | a file; per handle the write offset `w.end` and the file position | Create, Open, OpenOrCreate, Close, Write, Sync, Scan, Index, ReadAt | a write failing between header and payload; kills and power failures; torn tails found at Open; a second process reading or writing; callbacks that use the handle | acknowledged appends stay; Scan yields the appends, in order, once, nothing else; synced appends survive |
| `turn` (turn.go) | none of its own: a WAL | Append, Project | Project is all or nothing over a file others may be writing | the messages shown are the conversation at one moment, and never change later |
| `turn` (parse.go) | the parser's automaton | Parse, ParseWith, Param | blank lines, indents and limits | accepts the documented subset, and gives back each message's text |
| `tmp` | `watching`, `stopped`, `quit`; a goroutine and a channel per session | Watch, Stop, Stopped; Make, Dir, Remove, RemoveAll | signals and goroutines at any moment, goroutines of past sessions | a signal in a session is latched and not fatal; after Stop it is fatal again |
| `proc` | a child process, two copying goroutines, two capped buffers | Run, RunWith, RunPath, RunPathWith, Detach | which of several errors is reported; who closes the pipe | output is a prefix within the cap, and passing the cap is reported |
| `web` | a request; for a form, a goroutine and a pipe | Do, Read, Multipart and shorthands | a request that fails while the form is being written | the writer ends; the body is whole or an error is reported |
| `cfg` | destinations of the caller | Parse, Load, Apply | errors half way | no unknown key, all required ones |
| `jsn` | parser position and depth; destinations of the caller | Parse (pull), ParseBytes, FldObj, FldArrObj, FldArrScalar | tokens cut by chunk ends; two parsers for one grammar; errors half way | both accept JSON and emit the same events |
| `sec` | none | Load, Hash, Pick | check, then open, by path | only a private file is read |
| `arg`, `pipe`, `err` | none | parse the command line; pick a stream, split lines; wrap errors | - | - |
| stamper (`src/main.go`, `src/templates`) | none | copies files | - | - |

`turn` calls `wal`; every package calls `err`, whose `Wrap` hides the wrapped
error from `os.IsNotExist` (this matters to `wal.OpenOrCreate`). Nothing else is
shared: there are no other calls between packages, and no locks anywhere.
Concurrency is between processes on one file, between callbacks and the call
that runs them, and between goroutines that a package starts (`tmp`, `proc`,
`web`) and its callers.

## Modules

| module | models | extends or instantiates |
|---|---|---|
| `WalFormat` | bytes of a WAL file: records, headers, checksums | |
| `Wal` | wal.go: one file, its handles, the faults | `WalFormat`, `AppendLog` (refinement) |
| `AppendLog` | what an append log promises (abstract) | |
| `WalOpen` | OpenOrCreate and its answers | `Wal` |
| `WalInv` | the inductive invariants of `Wal`: of the file, and of its readers | `Wal` |
| `Turn` | turn.go on top of `Wal` | `Wal` |
| `Tmp` | tmp.go: the signal latch, and its inductive invariant | |
| `JsnText` | characters, locations, events of jsn | |
| `JsnGrammar` | RFC 8259 and RFC 3629, a reference that knows neither parser | `JsnText` |
| `JsnBytes` | bytes.go: ParseBytes, a recursive function of a text | `JsnText` |
| `JsnPull` | parser.go: Parse, a state machine over buffers | `JsnText` |
| `JsnParsers` | no code: what the two parsers and the grammar must agree on | `JsnPull`, `JsnBytes`, `JsnGrammar` |
| `Fld` | fld.go: FldObj, FldArrObj, FldArrScalar on the events of ParseBytes (`Feed`, which `MCFld` takes from `JsnBytes`) | `JsnGrammar` |
| `Proc` | proc.go, detach_unix.go: child, pipes, copying goroutines, cap | |
| `Form` | web.go: the form's goroutine, pipe and transport; Read | |
| `Cfg` | cfg.go: Apply, Load and Parse, line by line | |
| `TurnParse` | turn/parse.go: the automaton over lines | |
| `WalProofs`, `TmpProofs`, `ProcProofs`, `FormProofs` | theorems | the modules they are named for |
| `LineProofs` | theorems on the two readers of lines | `Cfg`, `TurnParse` |
| `TurnProofs` | theorems on conversations | `Turn`, `WalProofs` |
| `JsnProofs` | theorems on Parse | `JsnPull` |
| `FldProofs` | theorems on FldObj, FldArrObj, FldArrScalar | `Fld` |
| `MCWal`, `MCWalOpen`, `MCTurn`, `MCTmp`, `MCJsn`, `MCFld`, `MCProc`, `MCForm`, `MCLines` | small instances for TLC; `MCLines` is one of `Cfg` and one of `TurnParse` | |

Operators named `X_Word`, with a comment "Mutant of X", are variants of `X` that
a plausible bug would produce. No specification uses them; they are there to see
that a property fails when `X` is replaced by one of them.

### Wal

A file is a function from addresses to cells. A cell is the smallest piece that
a torn write can tear off and a property can tell from another: the file header
is one cell, a record header two (the length field; the rest, which holds type and
checksum), a payload one per byte. Flag, timestamp, id and metadata travel with
the second header cell and are left out. The checksum is taken to be injective:
its cell carries the payload it was made for. It covers the payload only, and
that of the empty payload is zero, as in the code, so that zeros decode to it.

| variable | in the code |
|---|---|
| `exists`, `file`, `size` | the path, and the file as all processes see it (the page cache) |
| `disk` | what a power failure cannot take: contents and length at the last fsync |
| `pc[h]` | handle `h` is closed, inside Create, idle, writing a header, writing a payload |
| `end[h]` | `w.end` |
| `cur[h]`, `done[h]` | the `Append` under way and how many of its cells are in the file |
| `pos[h]` | the file position of `w.f`, which Seek and Read move and WriteAt does not |
| `calls[h]` | the Scan and Index calls under way, innermost last: a callback may start another |
| `index[h]` | the entries that the last Index returned |
| `log`, `synced`, `gap` | history: the acknowledged appends; how many a Sync covered; whether an append was given up behind its header or a writer opened a torn file |

Each WriteAt puts its cells one action at a time (`WriteCell`, `WriteHdrLast`,
`WritePayLast`); it may fail after any of them (`WriteFail`), the process may be
killed between any two (`ProcCrash`), and the power may fail (`PowerFail`), which
keeps any subset of the pages written since the last sync and any length between
the old and the new one. A reader's steps are its `io.ReadFull` calls; Scan and
Index share them. Index checks the payload before it appends the entry here, after
in the code; an Index that fails returns no entries, so that the order is not visible.
Where the bytes of a payload are read as a header (only with two writers, or behind a
torn append), they are taken to hold no valid length; the properties that runs with
such files check hold or fail by then already.

ReadAt reads without moving anything and is the predicate `ReadAtOK`.
Bounds: `FileCap` cells per file, `MaxNest` nested calls, `U32` for 2^32. The runs set
`MaxNest` to 1: with 2, a Scan or Index called from a callback moves the position the outer Scan
reads at, which then ends early or passes records again (`ScanSound` fails);
the code does not say whether a callback may use its handle. The theorems of `WalProofs` hold for any `MaxNest`,
those on readers for `MaxNest` up to 1.

### AppendLog, and the refinement

`AppendLog` knows a sequence of entries, how many are safe, and for each reader
what its pass has received. `Wal` implements it (`ImplementsAppendLog`, run
`wal_power`) with `log` and `synced` as they are and the outermost call of a handle
as its reader: faults and offsets disappear, and what is left is that
a pass receives the log from its first element on and that a power failure
takes unsynced appends, last first.

### Turn

Every action of `Turn` is an action of `Wal` with the reader's messages added.
`Append` is one Write with the type and text of the caller, `Project` a Scan with
a callback that never fails and never calls back. The record types have the
numbers of turn.go, where the messages are not a range.

### Tmp

One action for each shared variable that Watch, Stop and the goroutine touch, in
program order: swap `watching`, make the channel, register it, start the goroutine;
unregister, clear `stopped`, clear `watching`. The goroutine is started in state
`new` and reads `quit` in a step of its own, since the closure captures the
variable. os/signal is external: a signal goes to all registered channels,
dropped by those whose buffer of one is taken, and ends the process if
there is none. `session` and `caught` are history.

### JsnText, JsnGrammar, JsnBytes, JsnPull, JsnParsers

A text is a sequence of characters, by the class that some test in the code tells apart:
`"nl"` is a line feed, `"tab"` a tab or carriage return, `"ctl"` another control character;
the bytes of multi-byte characters have their hexadecimal names, and are those at
the ends of the ranges that `u8` tests. The digits are `0` and three others, `E` is `e`,
and the letters in capitals of an escape are left out. An event is its kind, its data and its location.

`JsnBytes` is ParseBytes with its recursion: each function of `bpar` is an operator from a state
(`p.pos`, row, column, the events emitted, the error) to the next one. A state with an error is left
alone, as the code returns at once. The two guards `bad_tok` at the head of `str` and
`lit` cannot be reached from `val` and `obj` and are left out. `JsnGrammar` is recursive too. The prover takes
no RECURSIVE operators, so that `JsnPull` reaches neither, and what compares them stands in `JsnParsers`.

`JsnPull` is Parse, one character per action:

| variable | in the code |
|---|---|
| `text` | what the caller's Pull may hand out: for each place a set of characters, and Flg's PFBOM |
| `input`, `nxt` | the characters consumed; the one that peek sees, `EndOfBuf` where the buffer is used up, `EndOfText` where `p.eof` is set |
| `loc` | `p.off`, `p.row`, `p.col` |
| `at`, `stk` | the place in `val`, `obj`, `arr`, `str`, `num`, `lit`, and the calls of `obj` and `arr` around it |
| `tok` | the token under way: `seg`'s location, `nloc`, key or value, the characters due |
| `got` | the events that the caller received, with the parts of one token joined |
| `ret` | what Parse returned |

After each character the buffer may end (`nxt' = EndOfBuf`), so that TLC cuts each text at
every byte; then `Pull` hands out the next one, or says that there is none, or an empty
one (`PullEmpty`), or fails (`PullFail`), and `speek`'s part of the token goes out first.
`on` may fail on any event (`Deliver`). The characters are chosen as they are consumed.

### Fld

A behaviour is one call. `feed` is what ParseBytes emits on the text, and an action
is what `fldState.on` or `fldArrState.on` does with one event: so an error that the handler returns ends the
call where it stands, with what was stored. `st` holds the fields of the two structs, with the
flags keyCap, strCap, numCap, rawCap that are set in `cap`; `dst` is what the destinations hold: a slice of the
text or of the arena (by its bounds, to see a slice that a later write would change), or a copy. The
width of the word `seenBits` and the largest integers are constants. strTmp and
keyTmp, which join parts, are left out: ParseBytes emits a string in one part.

A text is made of items between two brackets (`Text`), which need not be values, keys or the right brackets. What
ParseBytes makes of it is a constant, `Feed`, which `MCFld` gives the function of `JsnBytes`. `FldAssumption` says what is
relied on of it, text by text (`WellFed`): up to the first item that is no value come the events of each key and value, in
their places (`ItemsFed`: a string's inside or a number in one part, brackets that close where they should, offsets), then a
beginning that is not the whole of a value and an error, or the end (`RestFed`). TLC evaluates it on all calls
of `fld`, against `JsnBytes` and `JsnGrammar`.

### Proc

A stream is counted in bytes: `sent` into its pipe, `piped` in it, `kept` in the buffer, `n` counted by
`limitWriter`. The child writes pieces of any size, starts a process that inherits the pipes (`Fork`), exits,
or is ended by a broken pipe unless it ignores the signal (`tough`). The goroutine of a stream reads a piece of any
size and writes it to the `limitWriter` (`Copy`), and ends at the end of the pipe or with an error, and then the pipe has no
reader. os/exec is external: it waits for the child and then for the goroutines, and reports
the child's exit before a goroutine's error (`Outcome`).

### Form

The pieces of a form are what the goroutine of Multipart writes: the head of a part, then its data. A
write to an `io.Pipe` hands over: it ends when the transport has taken the piece (`TakePiece`,
`TakeBoundary`), or when the reader's side is closed (`PipeBroken`). `Fail` is any error of writeMultipart that is not the
pipe's; `mw.Close` follows in any case and writes the boundary, so that only the way the pipe is closed (`WriteEnd`) tells a
whole form from half a one. net/http is external: it may stop reading at any step (`GiveUp`), and Do may fail
before or after it has begun to. `Read` follows a Do that succeeded; `max + 1` is computed in
the width of `MaxInt`.

### Cfg and TurnParse

Both read lines, and a line is what their tests tell apart: for `Cfg` a kind and what its
checks look at, for `TurnParse` the leading spaces, whether a tab follows, and the rest. Sizes over a
limit are classes (`long`, `LongLines`, `TooLong`). `Cfg`'s actions are one line each, an entry together with the search
among the bindings and `set`; `dst` and `hit` are the caller's destinations and ApplyWith's slice. A string takes any
text, an enum those of the members its binding lists, and the texts that strconv accepts for numbers are a constant (`Numbers`).
`TurnParse` has one form for each rest of a line, which is the line without its line feed and the CR in front of it, and keeps the code's state 0 to 3; a line that ends a message is looked at again in
state 1 (`Flush`), as the loop's `continue` does without reading on. The files, and what someone writes, are constants:
`ParseAssumption` asks that the lines of the format are not themselves too long, and of what is written that its keys are there,
that no key, value or line of text is over its limit, that no parameter is spelled like the head or like a content line, and that there is a message with a text, as `IsTalk` says.

## Runs

Runs that pass:

| run | instance | checks |
|---|---|---|
| `wal_seq` | 1 process, 2 record types, `U32` = 4, payloads of 0, 1 or 2 bytes, 9 cells; I/O errors and kills; fair | `IInv`, `AckedIntact`, `NoLossWithoutGap`, `IndexStable`, `ScanComplete`, `ReadInv`, `CallsReturn` |
| `wal_readers` | a writing and a reading process, 7 cells, no faults | `ScanSound`, `ScanComplete`, `ErrOnlyInWrite` |
| `wal_power` | 1 process, payloads of 1 or 2 bytes, pages of 2 cells, 8 cells; power failures and kills | `SyncedSurvive`, `ImplementsAppendLog` |
| `turn` | a writing and a projecting process, types developer and begin, 6 cells; I/O errors and kills | `ProjectIsSnapshot`, `HistoryKept` |
| `tmp_one` | one caller, 3 sessions, 3 signals; fair | `NoSignalLost`, `StopRestores`, `WatchedNotKilled`, `LatchedOnce`, `SignalLatched` |
| `tmp_two` | two callers, 3 channels, 2 signals; the callers symmetric | `RacesSettle` |
| `jsn` | 7 kinds of texts of up to 9 characters, cut anywhere, nesting limit 2; pull and callback fail; fair | `EventsNest`, `PullIsBytes`, `AcceptsJson`, `LocationsTrue`, `ParseReturns` |
| `fld` | objects and arrays of up to 3 items, 10 definitions of up to 3 fields, words of 2 bits, nesting limit 3 | `FieldsStored`, `RequiredFound`, `ElementsStored`, `ArenaKept` |
| `proc` | 2 streams of up to 4 bytes, pipes of 2, caps -1 to 2; fair | `OutputIsPrefix`, `CapReported`, `ReturnsWhenEnded` |
| `form` | 9 forms of up to 2 parts, responses of up to 9 bytes, limits -1 to 7, the largest integer 7; fair | `EofMeansWhole`, `FilesClosed`, `ReadIsWhole`, `WriterEnds` |
| `lines` | configuration files of up to 3 lines and 3 lists of bindings; payload files of up to 2 messages, and such files with any line changed | `EntriesInEffect`, `OnlyGoodFiles`, `WrittenIsRead`, `NoLineDropped` |

What they show, in words:

- `IInv`: the inductive invariant that the proofs of `Wal` rest on. Among the rest it holds the type invariant, which includes
  that no position leaves the file. Those of the other modules are proved, and no run is spent on them.
- `ReadInv`: what lies behind the appends of the file, and where each reader stands: what the proofs on readers
  rest on, with failing writes, and with appends up to the longest and beyond.
- `AckedIntact`: no append overwrites another, whatever failed in between.
- `ScanSound`: what a Scan or Index has passed is at every moment a prefix of the acknowledged appends.
- `ScanComplete`: it ends only behind all appends there were when it began, up to the first that a
  gap separates from its predecessor: with a writer at work (`wal_readers`), and in files with orphaned headers and torn tails
  (`wal_seq`).
- `NoLossWithoutGap`: only a payload write that fails, or a torn tail found by Open, makes a gap.
- `IndexStable`: the entries of an Index stay good for ReadAt.
- `ErrOnlyInWrite`: without faults, corrupt_* is reported only while some handle is inside Write.
- `SyncedSurvive`, `ImplementsAppendLog`: what a power failure may take.
- `CallsReturn`: Create, Write, Scan and Index return, whatever fails and however often the process is killed.
- `ProjectIsSnapshot`, `HistoryKept`: see the table of components, `turn`. The first is
  claimed only while there is no gap: behind one, Project fails or shows less.
- `NoSignalLost`, `SignalLatched`, `StopRestores`, `WatchedNotKilled`: see the same table, `tmp`.
- `LatchedOnce`: each signal sets the latch once at most, whichever sessions' goroutines are left: one may set that of a
  later session, and then none of that session's own does for the same signal.
- `RacesSettle`: Watch and Stop may be called by several goroutines at once. What they leave behind when all have
  returned is coherent: if the process is watching, its channel is registered, and a goroutine receives from it unless the latch is set or about to be.
- `PullIsBytes`: the two parsers are one: at any moment, also where a function of the caller fails, what Parse
  has emitted is what ParseBytes emits of the text read so far, with the same locations, and they fail for
  the same cause at the same place.
- `AcceptsJson`: Parse, and so ParseBytes, accepts a text exactly if RFC 8259 does and it nests at most `MaxDep` deep,
  and refuses a text at the first byte that no such text has at that place, neither before nor behind it. That a beginning is
  one of such a text is shown by ending it: `Endings` are the rests of characters, escapes, strings, literals, numbers, members, elements and
  of the byte order mark, `Closings` the brackets (`Viable`). The reference looks for a division of the text into tokens and knows neither parser.
- `LocationsTrue`: offset, row and column of each event, and of the error returned, are those of its byte, and the data
  are the bytes there.
- `EventsNest`: what `on` receives is at any moment the beginning of the events of one value: keys and
  values alternate in objects, each end closes the last beginning, the parts of a token follow one another without a gap,
  and no more than `MaxDep` are open; when Parse returns nil it is the whole of one.
- `ParseReturns`: Parse returns on every finite text.
- `FieldsStored`, `ElementsStored`: each destination holds what the last item for it before the first bad one
  means, where the meaning is read off the items: strings by their UTF-16 units, numbers by value.
- `RequiredFound`: success means that all required fields were there, and no good text is refused; also where
  there are more fields than bits.
- `ArenaKept`: no call changes what the arena held, or what an earlier string of the same call put there.
- `OutputIsPrefix`: a stream's buffer is what was written to it, up to the cap, however it was cut.
- `CapReported`: a Run whose child exits with 0 reports output_cap if and only if output is missing.
- `ReturnsWhenEnded`: Run returns when all writers have ended.
- `EofMeansWhole`: the transport sees the end of the body without an error only behind a whole form with good parts.
- `FilesClosed`, `WriterEnds`: the goroutine ends, however the request does, and leaves no file open.
- `ReadIsWhole`: Read returns the whole response or an error, and refuses only what is too long.
- `EntriesInEffect`: each entry read so far is in effect, the later of two, and nothing else is; also after an error.
- `OnlyGoodFiles`: Apply accepts exactly the files with good lines, known keys, values that their bindings take (any for a string), and all required keys.
- `WrittenIsRead`: messages written by the format's rules come back as they were, whatever their texts look like.
- `NoLineDropped`: each line that is not blank ends up in exactly one place.

One run ends in a counterexample, to a sentence of the code's own documentation
(quoted in PROJECT.json, `findings`): in `wal_open_or_create`, OpenOrCreate fails when there is no
file, which it is there to create (`wal.go:107`, against the comment at `wal.go:104`).

`CHECK_DEADLOCK FALSE` is set where the system may stop: a kill inside Create, or a
power failure, leaves a file without a valid header, which Open rejects and Create does not
replace; a process of `Tmp` that a signal has ended does nothing more; a call of `jsn`, a Run, a
request that has returned is over. `fld` and `lines` do check for deadlock: there a call that has returned
stutters (`Done`), and TLC shows that no event and no line is without an action.

Why the bounds are enough. The records of `wal_seq` are 2 or 3 cells behind a
header of 1, so that 9 cells hold up to four appends: an orphaned header, an append
inside what it announces, and one behind it fit. What matters of a second
reader is the writer's step it meets, so that one writer and one reader with two or
three appends show each pair. `wal_power` has pages that a record straddles and
pages that two records share. The width of `wal_seq`'s length field is so small
that one byte is the longest payload and two are refused. The file of `turn` holds two records:
a message and a marker in either order, and the second one torn, failed or overtaken. Three sessions in `tmp_one` let a goroutine
be left over from two sessions before; three signals fill a buffer and overflow it. Two callers in `tmp_two` have each step of a Watch or a Stop meet each step of
another; with four channels and two signals it has been run too, with the same result in 11.7 million states. What the theorems
prove of it holds for any number of callers.
The kinds of `jsn` take one part of the grammar each: brackets and keys nested one deeper than the limit,
blanks and line feeds between tokens, escapes up to `\u` with its digits, every first byte of a
character with every byte behind it, numbers with each of their parts and a sign, literals whole and broken, the byte order
mark. In `fld` three fields are one more than the bits of a word, three elements are as many as the longer `out` has room for
and more than the shorter has, and each item is good or bad for
some type; `I32Max` is 10 and `U32Max` 16, with texts at the limit and behind it. Four bytes through
pipes of two, with caps up to two, let a stream fill its pipe twice, end at the cap, and pass it in one read or in two. Two parts are enough
for a part that fails behind a file that was good. `MaxInt` is 7, so that the limit that wraps is one of those tried.
In `lines` three lines are a section, an entry and what follows, or one key set twice.
Only `tmp_two` uses symmetry, of its two callers, which no property tells apart; it checks an invariant only.

Fairness. `Wal`'s liveness assumes that a call under way is scheduled (WF of a
handle's own steps, never of a client's decision to call) and that the client's
callback returns each time it is run (SF of `Callback`, which crashes and nested calls may
interrupt). Nothing is assumed of faults: they may happen always or
never. `Tmp`'s assumes that the Go scheduler runs a goroutine that can run. `JsnPull`'s assumes that Parse runs on and its
caller's functions return. `Proc`'s assumes that the copying goroutines, Run and the reaper run when they can; nothing is
assumed of the child, which may write, wait or exit. `Form`'s assumes that the goroutine runs, that Do returns,
and that the transport goes on reading the body or closes it, as net/http documents of its
RoundTripper. The code justifies the second where the caller leaves the client to Do, which gives it a time limit, 10 s by default
(`web.go:62-69`); a client of the caller's (`r.Client`) brings its own limit or none, r.Timeout is not applied to it, and
`WriterEnds` is then claimed only as far as that client's Do returns.

### What the code does that no run claims

Modelling showed behaviours that no document contradicts, so that they are told here:

- An append whose payload write fails leaves its header, and `w.end` behind it (`wal.go:149`): later appends are acknowledged, but
  lie inside the record that the header announces, and no Scan reaches them. `ScanComplete` is stated up to such a gap.
- The checksum of an empty payload is 0 (`wal.go:217`): a header of which only the length survived a power failure
  reads as a record of type 0. `wal_power` has no empty payloads for that reason.
- Two handles that append to one file overwrite each other (`wal.go:146`): the file is not opened with O_APPEND, nor locked.
- A second, concurrent Watch returns before the first has registered its channel (`tmp.go:51`): a signal in between is fatal. `RacesSettle` says
  that this is over when no call is under way any more.
- A goroutine left over from an ended session that received a signal stores `true` into the next one (`tmp.go:58`): the next session is told to stop by
  a signal of the one before. `LatchedOnce` says that a signal does so once at most.
- A Stop that runs while another goroutine is inside Watch may leave a channel registered that no Stop reaches (`tmp.go:63`);
  `StopRestores` is checked for one caller.
- A child that passes the cap is mostly ended by SIGPIPE; Run then returns the truncated output with exit -1 and no error
  (`proc.go:49-55`), so that output_cap is reported only for children that exit with 0. `CapReported` is stated for those.
- `Read` with max = MaxInt64 reads nothing and succeeds (`web.go:120`). `ReadIsWhole` is stated below that.
- Blank lines at the end of a content block belong to its text (`turn/parse.go:86-90`).
- Of two bindings for one key the second is never set, and if it is required Apply always fails (`cfg.go:181-184`).

## Proofs

`WalProofs` proves, for all values of the constants that meet `FormatAssumption` and
`WalAssumption`, so for any number of handles, faults, record types and file sizes:

| theorem | property | hypothesis |
|---|---|---|
| `TypeCorrect` | `Spec => []TypeOK` | - |
| `InductiveInvariant` | `Spec => []IInv` | `SingleWriter` |
| `AckedStayIntact` | `Spec => []AckedIntact` | `SingleWriter` |
| `NoLossUnlessGap` | `Spec => []NoLossWithoutGap` | `SingleWriter` |
| `SyncedAppendsSurvive` | `Spec => []SyncedSurvive` | `SingleWriter` |
| `NoFileWithoutHeader` | `Spec => []NoHeadlessFile` | no kills, no power failures among `Faults` |

`NoHeadlessFile` (a file without a header belongs to a Create under way) is proved only: it needs an instance without kills.
`SingleWriter` says that at most one handle appends; with two, `AckedIntact` fails. None of the properties is inductive. The invariants of `WalInv`, each
resting on those before it, are:
1. `TypeInv`: `TypeOK`, and where each handle is within its call. Without "the write
   under way fits in the file" `TypeOK` would not survive a cell write, and without "Index's sum
   of lengths is the file position" not the addition of a length.
2. `FileInv`: a handle that is open implies a header in the file, and a file without
   one has no other handle: so that a Create never truncates under a writer.
3. `LogInv`: acknowledged appends are intact and lie below the place where the writer's
   append starts. This is what makes a cell write harmless; it uses that Write and Open agree
   on `w.end` (`TailOffset`, `AfterHdr`, `AfterPay`).
4. `GapInv`: while `gap` is false the writer stands right behind the last append.
5. `DiskInv`: synced appends are intact in `disk`, so that any subset of newer pages leaves
   them intact: the newer page, if kept, holds them as well.

Each is proved as initiation and one step per action, with lemmas for what a cell write
does to intact records, to the log's end, and for power failures; the
temporal theorems combine the two with PTL. TLC checks their conjunction `IInv` (`wal_seq`).

`TmpProofs` proves, for any number of sessions and signals (`MaxChan`, `MaxSig`):

| theorem | property | hypothesis |
|---|---|---|
| `TypeCorrect` | `Spec => []TypeOK` | - |
| `SingleCallerInv` | `Spec => []IInv` | `SingleCaller` |
| `NoSignalIsLost` | `Spec => []NoSignalLost` | `SingleCaller` |
| `SessionNotKilled` | `Spec => []WatchedNotKilled` | `SingleCaller` |
| `StopRestoresDefault` | `Spec => []StopRestores` | `SingleCaller` |
| `SignalLatchedOnce` | `Spec => []LatchedOnce` | `SingleCaller` |
| `RacesAlwaysSettle` | `Spec => []RacesSettle` | - |

`SingleCaller` says that one goroutine calls Watch and Stop; `WatchedNotKilled` needs it. The invariant is `TypeInv` (quit is the channel made last),
`SessionInv` (that channel, and no other, is registered from Notify to Stop) and `LatchInv` (while
it is registered, some goroutine will receive from it, or the latch is set or about to be; a
signal that was taken lies in it until then); `IInv` is their conjunction with `WatchedNotKilled`. `LatchedOnce` is inductive with these: a signal
fills one channel at most, since only one is registered, and a goroutine on its way to the latch has emptied one. `RacesSettle` needs of
several callers who is to blame while calls are under way: `RaceInv` says that a process which is watching has quit registered unless some call is between its swap
and Notify, or between signal.Stop and the end of Stop; and a way to the latch unless some call is under way.

`ProcProofs` proves, for any streams, caps, pipe size and exit codes, `TypeCorrect`, `OutputIsAPrefix` (`OutputIsPrefix`) and `CapIsReported`
(`CapReported`). The invariant that both need says, for each stream, that while it is copied `kept = n` and
`sent = n + piped`, with `n` at most the cap; that a goroutine which ended at the end of the pipe has kept all that
was sent; and that one which ended with the error has kept the cap exactly, with more than that sent. The goroutines of
a child that is reaped have ended, so that nothing is sent any more.

`FormProofs` proves, for any forms, sizes and limits, `TypeCorrect`, `EofIsWhole` (`EofMeansWhole`), `FilesAreClosed` (`FilesClosed`) and `ReadsAreWhole`
(`ReadIsWhole`). For the first, the invariant ties the pipe's end to the goroutine's history: while nothing
has failed, all pieces before `at` are good and were taken by the transport, a goroutine in `closing` without a failure has
written them all, and the end `eof` is set only in the step that hands over the boundary.

It also proves what readers see, in `PlainUse`: `SingleWriter`; `MaxNest <= 1`; and where the power
may fail, no write fails and no payload is empty. Each part is needed: with a second writer appends overwrite each other; a nested call moves
the position that the outer one reads at; a zeroed header cell passes for the checksum of an
empty payload; and a failed write leaves cells in the page cache beyond `w.end` of which a power failure may keep any. All runs of `Wal` and
`Turn` meet it.

| theorem | property | hypothesis |
|---|---|---|
| `ReadInvariant` | `Spec => [](IInv /\ ReadInv)` | `PlainUse` |
| `ScansAreSound` | `Spec => []ScanSound` | `PlainUse` |
| `ScansAreComplete` | `Spec => []ScanComplete` | `PlainUse` |
| `IndexesAreStable` | `Spec => []IndexStable` | `PlainUse` |
| `ErrorsMeetWrites` | `Spec => ErrOnlyInWrite` | `PlainUse`, `Faults = {}` |
| `FileImplementsLog` | `Spec => ImplementsAppendLog` | `PlainUse` |

`ScanSound` is not inductive with `IInv`: that says where the appends are, and a reader asks what else is there. `ReadInv` adds
1. `TailInv`: the appends lie back to back up to some place, and there is nothing that reads as a record there: it is where
   the writer's append starts and grows, or a header whose append was given up, with what it announces.
2. `LenInv`: no append is longer than its length field can say, so that a header announces the place where the
   next one starts; and in files that lose power, no header announces an empty payload.
3. `GrowInv`: where no write fails the file only grows, and a cell on disk is the newest or was never written, so that
   a power failure leaves of each cell what it was, or zeros.
4. `CallInv`: a call under way stands behind what it has passed, or has read the header there, which is still what
   it was; and when it has ended it has passed what it had to.

Lemmas, mostly one per action, show that each survives; `PassedIsNext` that what reads as a record at the end of the chain
is the next append of the chain. TLC checks `ReadInv` (`wal_seq`). The refinement maps a step of `Wal` to one of `AppendLog`
or to a stutter: the last cell of an append to `Append`, `Sync` to `Sync`, the callback or Index's check to the
reader's next entry, a power failure to the loss of the newest appends.

`TurnProofs` proves `TurnUsesWal` (`TurnSpec => Spec`: each action of `Turn` is one of `Wal`, so that all the theorems above hold of
conversations) and, in `PlainUse`, `ProjectsAreSnapshots` (`ProjectIsSnapshot`) and `HistoryStays` (`HistoryKept`). The
invariant, `TurnInv`, says that a Project under way holds the messages of the records that its fn has been
through, and that what was shown is the conversation of some of the appends that lie back to back; with `ReadInv` those
are a prefix of the log, which only grows where the shown part is concerned. The messages of a sequence
are a recursive function, of which existence and the step from `n` to `n + 1` are proved by a least counterexample.

`LineProofs` proves of `Cfg`, for any files, bindings, members of enums and numbers that strconv takes that meet `CfgAssumption` (which says what is a sequence of lines, of bindings, and
for which types there are numbers),
`EntriesTakeEffect` (`EntriesInEffect`) and `ApplyAcceptsGoodFiles` (`OnlyGoodFiles`). The invariant
`CfgInv` adds to the first where Apply is (`PlaceInv`), that all lines before are good, that a binding is hit only by an entry
for it, and how Apply has ended; the search among the bindings is shown to find the one that the entry is for.

Of `TurnParse` it proves, for any files, talks, indentations and limits that meet `ParseAssumption`, `EveryLineTaken` (`NoLineDropped`) and
`ParseReadsWhatIsWritten` (`WrittenIsRead`). For the first, `ParseInv` adds the types and that state 0 is left exactly with the
header; a line that is taken is then counted in one place (`OneLine`), and the one that ends a message in none until
it is looked at again. The second is about what was written before a reader came to it: `ReadInv` says, for each talk and each indentation that
the input may have been written from, where in it the reader stands (`AtHead`, `AtRole`, `AtContent`, `InText`, given back,
done), with the parameters and messages before that place read as they were. `Start` and `Layout` say on which line each message
begins: recursive functions over the messages, of which existence and each step are proved by a least counterexample (`StepsExist`,
`StepsAgree`), as for `MessagesTo`. The texts are arbitrary lines: that one which looks like a role or like the header is read as
text, for its indentation, is the point of the theorem.

`JsnProofs` proves, for any `Texts`, `MaxDep` and `Faults` that meet `PullAssumption`, so for every text of any length, cut anywhere, with
functions of the caller that fail at any time:

| theorem | property |
|---|---|
| `LocInvariant` | `Spec => []LocInv` |
| `TypeCorrect` | `Spec => []TypeOK` |
| `LocationsAreTrue` | `Spec => []LocationsTrue` |
| `NestInvariant` | `Spec => []NestInv` |
| `EventsAlwaysNest` | `Spec => []EventsNest` |

`LocInv` says that `loc` is the location of the end of what was read, and that the locations which Parse keeps for later (`seg`,
where the next part of the token begins, and `nloc`, the end of a number) are those of places in it, with only
characters of the token behind them: an event is located by what was stored before the buffer was exchanged. `NestInv` relates
the three places where nesting is kept: what is open in the events (`LeftOpen`) is what is on the stack,
the place of the automaton fits the top of the stack (`PlaceFits`), and the last event fits the place (`LastFits`: behind `colon`
there is a key's end, in a string its beginning or a part, and the parts meet). Without the second an end would not be known to
close the last beginning; without the third not that keys and values alternate. No run of `jsn` checks `TypeOK`: it is proved.

`FldProofs` proves, for any calls and any `Feed` that meet `FldAssumption`, so for any number of fields and items, any width of
the word, any contents of the arena:

| theorem | property |
|---|---|
| `ObjInvariant` | `Spec => []ObjInv` |
| `FieldsAreStored` | `Spec => []FieldsStored` |
| `RequiredAreFound` | `Spec => []RequiredFound` |
| `ArrInvariant` | `Spec => []ArrInv` |
| `ElementsAreStored` | `Spec => []ElementsStored` |
| `ArenaIsKept` | `Spec => ArenaKept` |

The properties speak of the end of a call; the handlers see events, and all that they know is in a few flags. `ObjInv` says
where FldObj is: before the first event (`Fresh`), behind `k` items at a known event of the next one (`ReadingObj`), over
(`Done`), or stopped by a text that is no object (`Refused`). Behind `k` items every field holds the value of the last of them
with its key, and `seen` is the set of the fields that have one (`Stored`); within item `k + 1`, `Where` gives the
flags, the level and the capture that this event must find. `ArrInv` does the same element by element, with `n`. Each step stays in
the item, passes to the next one, or stops the call; it passes only at the last event of the item's value, which for a value taken as
it stands is the one bracket that brings the level back (`ObjRawEnd`, `ArrRawEnd`).

What is stored is proved equal to a meaning stated without the code: StrDecode, which goes from
left to right, to the characters of the text by its UTF-16 units (`StringRead`), which it refuses exactly if they are no text (`IsText`);
ParseI32 and ParseU32, which stop at the first digit that is too many, to the number's value and range. All of these are recursive
functions: that they exist, and that two of them agree, is proved by a least counterexample (`RankedExists`, `StepsExist`, `SameBehind`). A
slice of the arena stays what it was as the arena grows only at its end (`Grown`), which is `ArenaIsKept` too. That ParseBytes meets
`FldAssumption` for every text is not proved.

Only model-checked:

- liveness (`CallsReturn`, `SignalLatched`, `ReturnsWhenEnded`, `WriterEnds`, `ParseReturns`), which
  needs fairness and ENABLED, out of the prover's reach;
- `PullIsBytes` and `AcceptsJson`: ParseBytes is RECURSIVE, which takes a module that reaches it away from the prover, and both it and
  the grammar are recursive over a text. Of Parse alone `EventsNest` is proved;
- that ParseBytes meets `FldAssumption`, for the same reason: TLC evaluates it for the calls of `fld`;
- `CreatesWhenAbsent` of `WalOpen`, which the code violates.

## Not modelled

- `sec`: the permission checks are system calls, on Windows of another kind than on Unix, the
  rest is a loop over lines and arithmetic on bytes; nothing is kept.
- `arg`: sets destinations from the command line and exits on the first error; `Cfg` models the same kind of binding.
- `pipe`, `err` (but for what `WalOpen` says of it), the stamper and the templates: no state that outlives a call.
- In `wal`: the nil checks, the contents of Flag, TS, ID and Meta, the growth of Scan's buffer,
  errors of Seek, Close and Sync (they change nothing), version and endianness (the
  magic stands for the header), and Scan's check of the payload against the largest int (`wal.go:198`), which only a 32-bit build can fail.
- In `tmp`: Make, Dir, Remove and RemoveAll, each one system call. In `cfg`: Dir and Path, likewise.
- In `web`: URL, proxy and client checks and the headers (a Do that fails stands for the first; the header map
  is the caller's, and two concurrent requests may not share one), and Read's check for a body that is nil (`web.go:109`), which Do never returns.
- In `jsn`: the nil and option checks in front of a call, PFDup (refused by the code), Arena.Reset and Arena.put (which nothing calls).
- In `proc`: the Windows twin of Detach, which differs in the flags it passes.

## What is left

1. Proofs: that ParseBytes meets `FldAssumption`, with its recursion written as a function.
2. An abstract specification of `Form` (a request that is sent whole or fails) and the refinement.
3. `Parse` feeding `Fld` in parts, as the code's addSeg allows for: today only ParseBytes does.
