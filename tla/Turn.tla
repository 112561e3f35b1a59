---------------------------------- MODULE Turn ---------------------------------
(***************************************************************************)
(* Conversations kept in a WAL (internal/turn/turn.go on internal/wal).    *)
(*                                                                         *)
(* Append writes one record; Project runs a Scan whose fn collects the     *)
(* messages and never fails.  Everything the file does is Wal's: every     *)
(* step of this module is a step of Wal.                                   *)
(***************************************************************************)
EXTENDS Wal

VARIABLES
    msgs,       \* [Handles -> what the Project under way has collected]
    shown       \* [Handles -> what the last Project that succeeded returned];
                \* history: it outlives the process

turnVars == <<vars, msgs, shown>>

\* The record types, as turn.go numbers them.
TxBegin    == 1
TypeSys    == 2
TypeUser   == 3
TypeAsst   == 4
TypeTCCall == 5
TypeTCRes  == 6
TxCommit   == 7
TypeDev    == 8

\* Mutant of IsMsg: the message types taken for a range.
IsMsg_Range(typ) == typ \in TypeSys .. TypeAsst

\* The record types that are messages: the switch in Project.
IsMsg(typ) == typ \in {TypeSys, TypeDev, TypeUser, TypeAsst}

Msg == [role : {TypeSys, TypeDev, TypeUser, TypeAsst}, text : Payloads]
MsgOf(x) == [role |-> x.typ, text |-> x.pay]

\* The messages among the first i of a sequence of entries, for every i, and
\* among all of them: what a reader of the conversation should see of it.
MessagesTo(s) ==
    LET msg[i \in 0 .. Len(s)] ==
            IF i = 0 THEN << >>
            ELSE IF s[i].typ \in {TypeSys, TypeDev, TypeUser, TypeAsst}
            THEN Append(msg[i - 1], MsgOf(s[i]))
            ELSE msg[i - 1]
    IN  msg
Conversation(s) == MessagesTo(s)[Len(s)]

TurnTypeOK ==
    /\ msgs \in [Handles -> Seq(Msg)]
    /\ shown \in [Handles -> Seq(Msg)]

TurnInit ==
    /\ Init
    /\ msgs = [h \in Handles |-> << >>]
    /\ shown = [h \in Handles |-> << >>]

\* Append: one Write of the text under the caller's type.
AppendTurn(h) ==
    /\ ~InCall(h)
    /\ \E typ \in Types, text \in Payloads : BeginWrite(h, [typ |-> typ, pay |-> text])
    /\ UNCHANGED <<msgs, shown>>

Project(h) ==
    /\ ~InCall(h)
    /\ BeginScan(h)
    /\ msgs' = [msgs EXCEPT ![h] = << >>]
    /\ UNCHANGED shown

\* The record that the Scan of h has just handed to fn.
Handed(h) == Top(h).got[Len(Top(h).got)]

\* fn copies the text of a message, skips all else, and returns nil.
Collect(h) ==
    /\ Callback(h)
    /\ Top(h)'.at = "hdr"
    /\ msgs' = IF IsMsg(Handed(h).typ)
               THEN [msgs EXCEPT ![h] = Append(@, MsgOf(Handed(h)))]
               ELSE msgs
    /\ UNCHANGED shown

\* Mutant of ProjectReturn: what was collected is returned with the error.
ProjectReturn_Partial(h) ==
    /\ Return(h)
    /\ shown' = [shown EXCEPT ![h] = msgs[h]]
    /\ msgs' = [msgs EXCEPT ![h] = << >>]

\* Project returns its messages, or, when the Scan failed, none of them.
ProjectReturn(h) ==
    /\ Return(h)
    /\ shown' = IF Top(h).at = "ok" THEN [shown EXCEPT ![h] = msgs[h]] ELSE shown
    /\ msgs' = [msgs EXCEPT ![h] = << >>]

\* The other steps of Wal: nothing else calls into it while Project runs.
WalStep(h) ==
    /\ \/ Create(h) \/ WriteHead(h) \/ WriteHeadFail(h) \/ Open(h) \/ Close(h)
       \/ ~InCall(h) /\ Sync(h)
       \/ Write(h)
       \/ ReadEOF(h) \/ ReadShort(h) \/ ReadHdr(h) \/ ReadPay(h)
       \/ ReadCorrupt(h) \/ ReadFail(h)
    /\ UNCHANGED <<msgs, shown>>

Crash(h) ==
    /\ ProcCrash(h)
    /\ msgs' = [msgs EXCEPT ![h] = << >>]
    /\ UNCHANGED shown

TurnNext ==
    \E h \in Handles :
        \/ AppendTurn(h) \/ Project(h) \/ Collect(h) \/ ProjectReturn(h)
        \/ WalStep(h) \/ Crash(h)

TurnSpec == TurnInit /\ [][TurnNext]_turnVars

-----------------------------------------------------------------------------
(* Properties.                                                             *)

\* A Project that succeeds returns the conversation as it was at some moment
\* between its call and its return: every message acknowledged by then, each
\* once, in order, and nothing else (as long as no gap cuts the file in two).
ProjectIsSnapshot ==
    \A h \in Handles : InCall(h) /\ Top(h).at = "ok" /\ ~gap =>
        \E n \in Top(h).n0 .. Len(log) :
            msgs[h] = Conversation(SubSeq(log, 1, n))

\* The records that fn has been through: all that were read, but for the one
\* that fn is being called for.
Taken(c) == SubSeq(c.got, 1, IF c.at = "cb" THEN Len(c.got) - 1 ELSE Len(c.got))

\* A Project under way is a Scan, which holds the messages of the records fn has
\* been through; where fn is called, it is called for a record.
Collecting(h) ==
    IF InCall(h)
    THEN /\ Top(h).op = "scan"
         /\ Top(h).at = "cb" => Top(h).got # << >>
         /\ msgs[h] = Conversation(Taken(Top(h)))
    ELSE msgs[h] = << >>

\* What a Project showed is the conversation of appends that lie back to back,
\* and were all acknowledged before the Project under way began.
Showing(h) ==
    \E n \in 0 .. Len(log) :
        /\ Contiguous(n)
        /\ shown[h] = Conversation(SubSeq(log, 1, n))
        /\ InCall(h) => n <= Top(h).n0

\* The inductive invariant behind HistoryKept, on top of those of Wal.
TurnInv == TurnTypeOK /\ \A h \in Handles : Collecting(h) /\ Showing(h)

\* s is t, or its beginning.
IsPrefixOf(s, t) == Len(s) <= Len(t) /\ \A i \in 1 .. Len(s) : s[i] = t[i]

\* What Project once showed never changes afterwards, through failed appends,
\* crashes and reopenings: a later Project of the same client shows the same
\* messages, and newer ones behind them.
HistoryKept == [][\A h \in Handles : IsPrefixOf(shown[h], shown'[h])]_turnVars
=============================================================================
