-------------------------------- MODULE WalOpen --------------------------------
(***************************************************************************)
(* Wal with its clients opening the file by OpenOrCreate, and the answer   *)
(* each such call gave (internal/wal/wal.go, OpenOrCreate).                *)
(***************************************************************************)
EXTENDS Wal

VARIABLE answer     \* [Handles -> what OpenOrCreate last answered]

openVars == <<vars, answer>>

OpenInit == Init /\ answer = [h \in Handles |-> "none"]

\* os.IsNotExist knows the os package's own error types only; the error that
\* Open returns is an *err.E around one of them.
IsNotExist(wrapped) == ~wrapped

\* Open, which readHead may fail, and Create when Open's error says that there is no file.
OpenOrCreate(h) ==
    \/ /\ Open(h)
       /\ answer' = [answer EXCEPT ![h] = "ok"]
    \/ /\ pc[h] = "none"
       /\ exists
       /\ \E m \in Magics : ~HeadOK(m)
       /\ UNCHANGED vars /\ answer' = [answer EXCEPT ![h] = "error"]
    \/ /\ pc[h] = "none"
       /\ ~exists
       /\ IF IsNotExist(TRUE)
          THEN Create(h) /\ answer' = [answer EXCEPT ![h] = "ok"]
          ELSE UNCHANGED vars /\ answer' = [answer EXCEPT ![h] = "error"]

OpenNext == \E h \in Handles : OpenOrCreate(h) \/ (Step(h) /\ UNCHANGED answer)

OpenSpec == OpenInit /\ [][OpenNext]_openVars

\* "OpenOrCreate opens an existing WAL or creates a new one" (wal.go:104): a
\* call that finds no file does not fail on that account.
CreatesWhenAbsent ==
    [][\A h \in Handles : answer'[h] = "error" /\ answer[h] # "error" => exists]_openVars
=============================================================================
