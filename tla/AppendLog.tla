------------------------------- MODULE AppendLog -------------------------------
(***************************************************************************)
(* What a write-ahead log promises its clients, without files, offsets or  *)
(* handles: appends form one sequence; a reader receives that sequence     *)
(* from its first element on, one element at a time; a power failure may   *)
(* cut the sequence short, but never below what a sync has covered.        *)
(***************************************************************************)
EXTENDS Naturals, Sequences

CONSTANTS Entries, Readers

VARIABLES
    log,        \* the appends acknowledged and not lost
    synced,     \* how many of them are safe from a power failure
    seen        \* [Readers -> what the reader's current pass has received]

vars == <<log, synced, seen>>

TypeOK ==
    /\ log \in Seq(Entries)
    /\ synced \in 0 .. Len(log)
    /\ seen \in [Readers -> Seq(Entries)]

Init ==
    /\ log = << >>
    /\ synced = 0
    /\ seen = [r \in Readers |-> << >>]

Add ==
    /\ \E e \in Entries : log' = Append(log, e)
    /\ UNCHANGED <<synced, seen>>

Sync ==
    /\ synced' = Len(log)
    /\ UNCHANGED <<log, seen>>

\* A power failure: the readers are gone as well.
Lose ==
    /\ \E n \in synced .. Len(log) : log' = SubSeq(log, 1, n)
    /\ seen' = [r \in Readers |-> << >>]
    /\ UNCHANGED synced

Receive(r) ==
    /\ Len(seen[r]) < Len(log)
    /\ seen' = [seen EXCEPT ![r] = Append(@, log[Len(@) + 1])]
    /\ UNCHANGED <<log, synced>>

\* The reader's pass is over, for whatever reason.
Restart(r) ==
    /\ seen' = [seen EXCEPT ![r] = << >>]
    /\ UNCHANGED <<log, synced>>

Next == Add \/ Sync \/ Lose \/ \E r \in Readers : Receive(r) \/ Restart(r)

Spec == Init /\ [][Next]_vars

\* A reader's pass is a prefix of the log: nothing skipped, nothing invented.
SeenIsPrefix ==
    \A r \in Readers :
        /\ Len(seen[r]) <= Len(log)
        /\ \A i \in 1 .. Len(seen[r]) : seen[r][i] = log[i]
=============================================================================
