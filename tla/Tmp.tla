---------------------------------- MODULE Tmp ----------------------------------
(***************************************************************************)
(* The signal latch of internal/tmp/tmp.go: Watch, Stop, the goroutine     *)
(* that Watch starts, and the signals that arrive meanwhile.               *)
(*                                                                         *)
(* Callers are goroutines that call Watch and Stop in any order, one step  *)
(* per shared variable touched.  A goroutine started by Watch reads the    *)
(* package variable quit when it first runs, not when it is started.       *)
(* os/signal is external: a signal goes, without blocking, to every        *)
(* registered channel; one that meets none ends the process.               *)
(***************************************************************************)
EXTENDS Naturals, FiniteSets

CONSTANTS
    Callers,    \* goroutines that call Watch and Stop
    MaxChan,    \* bound: channels made, one by each Watch that does its work
    MaxSig      \* bound: signals sent to the process

ASSUME TmpAssumption == MaxChan \in Nat /\ MaxSig \in Nat

Chan == 1 .. MaxChan
Nil == 0        \* quit before the first Watch

VARIABLES
    watching, stopped, quit,    \* the package variables
    made,       \* channels made so far: the next one is made + 1
    full,       \* the channels whose buffer of one is taken
    reg,        \* the channels registered with os/signal
    pc,         \* [Callers -> where in Watch or Stop the caller is]
    gor,        \* [Chan -> where the goroutine of the n-th Watch is]
    waits,      \* [Chan -> the channel that goroutine receives from]
    sent,       \* signals sent
    killed,     \* a signal has ended the process
    session,    \* history: callers whose last call was a Watch, and returned
    caught      \* history: a channel took a signal, and no Stop has begun since

call == <<pc, session>>
latch == <<watching, stopped, quit>>
goroutine == <<gor, waits>>
signals == <<sent, killed, caught>>
vars == <<latch, made, full, reg, call, goroutine, signals>>

TypeOK ==
    /\ watching \in BOOLEAN /\ stopped \in BOOLEAN
    /\ quit \in Chan \union {Nil}
    /\ made \in 0 .. MaxChan
    /\ full \subseteq Chan
    /\ reg \subseteq Chan
    /\ pc \in [Callers -> {"idle", "make", "notify", "go", "clear", "unwatch"}]
    /\ gor \in [Chan -> {"none", "new", "wait", "store", "done"}]
    /\ waits \in [Chan -> Chan \union {Nil}]
    /\ \A n \in Chan : gor[n] \in {"wait", "store", "done"} => waits[n] # Nil
    /\ sent \in 0 .. MaxSig
    /\ killed \in BOOLEAN /\ caught \in BOOLEAN
    /\ session \subseteq Callers

Init ==
    /\ watching = FALSE /\ stopped = FALSE
    /\ quit = Nil
    /\ made = 0
    /\ full = {} /\ reg = {}
    /\ pc = [c \in Callers |-> "idle"]
    /\ gor = [n \in Chan |-> "none"]
    /\ waits = [n \in Chan |-> Nil]
    /\ sent = 0
    /\ killed = FALSE /\ caught = FALSE
    /\ session = {}

-----------------------------------------------------------------------------
(* Watch.                                                                  *)

\* The call returns: from now on the caller is in a session.
Watched(c) == pc' = [pc EXCEPT ![c] = "idle"] /\ session' = session \union {c}

\* watching.CompareAndSwap(false, true); the loser returns at once.
WatchSwap(c) ==
    /\ ~killed
    /\ pc[c] = "idle"
    /\ IF watching
       THEN Watched(c) /\ UNCHANGED watching
       ELSE /\ watching' = TRUE
            /\ pc' = [pc EXCEPT ![c] = "make"]
            /\ UNCHANGED session
    /\ UNCHANGED <<stopped, quit, made, full, reg, goroutine, signals>>

WatchMake(c) ==
    /\ ~killed
    /\ pc[c] = "make"
    /\ made < MaxChan                   \* the bound on channels
    /\ made' = made + 1
    /\ quit' = made'
    /\ pc' = [pc EXCEPT ![c] = "notify"]
    /\ UNCHANGED <<watching, stopped, full, reg, session, goroutine, signals>>

WatchNotify(c) ==
    /\ ~killed
    /\ pc[c] = "notify"
    /\ reg' = reg \union {quit}
    /\ pc' = [pc EXCEPT ![c] = "go"]
    /\ UNCHANGED <<latch, made, full, session, goroutine, signals>>

\* A goroutine is started; it has not read quit yet.
WatchGo(c) ==
    /\ ~killed
    /\ pc[c] = "go"
    /\ \E n \in 1 .. made :
          /\ gor[n] = "none"
          /\ \A k \in 1 .. n - 1 : gor[k] # "none"
          /\ gor' = [gor EXCEPT ![n] = "new"]
    /\ Watched(c)
    /\ UNCHANGED <<latch, made, full, reg, waits, signals>>

-----------------------------------------------------------------------------
(* Stop.                                                                   *)

\* Mutant of Unregistered: Stop does not call signal.Stop.
Unregistered_None == reg

\* What signal.Stop(quit) leaves registered; quit is never nil again.
Unregistered == reg \ {quit}

StopSignal(c) ==
    /\ ~killed
    /\ pc[c] = "idle"
    /\ reg' = Unregistered
    /\ pc' = [pc EXCEPT ![c] = "clear"]
    /\ session' = session \ {c}
    /\ caught' = FALSE
    /\ UNCHANGED <<latch, made, full, goroutine, sent, killed>>

StopClear(c) ==
    /\ ~killed
    /\ pc[c] = "clear"
    /\ stopped' = FALSE
    /\ pc' = [pc EXCEPT ![c] = "unwatch"]
    /\ UNCHANGED <<watching, quit, made, full, reg, session, goroutine, signals>>

\* Mutant of StopUnwatch: watching stays set, so the next Watch does nothing.
StopUnwatch_Kept(c) ==
    /\ ~killed
    /\ pc[c] = "unwatch"
    /\ pc' = [pc EXCEPT ![c] = "idle"]
    /\ UNCHANGED <<latch, made, full, reg, session, goroutine, signals>>

\* Mutant of StopUnwatch: signal.Stop comes (again) at the end, when another Watch
\* may have replaced quit.
StopUnwatch_Deferred(c) ==
    /\ ~killed
    /\ \/ /\ pc[c] = "unwatch"
          /\ watching' = FALSE
          /\ pc' = [pc EXCEPT ![c] = "deferred"]
          /\ UNCHANGED reg
       \/ /\ pc[c] = "deferred"
          /\ reg' = Unregistered
          /\ pc' = [pc EXCEPT ![c] = "idle"]
          /\ UNCHANGED watching
    /\ UNCHANGED <<stopped, quit, made, full, session, goroutine, signals>>

StopUnwatch(c) ==
    /\ ~killed
    /\ pc[c] = "unwatch"
    /\ watching' = FALSE
    /\ pc' = [pc EXCEPT ![c] = "idle"]
    /\ UNCHANGED <<stopped, quit, made, full, reg, session, goroutine, signals>>

-----------------------------------------------------------------------------
(* The goroutine of the n-th Watch: <-quit, then stopped.Store(true).      *)

GoRead(n) ==
    /\ ~killed
    /\ gor[n] = "new"
    /\ waits' = [waits EXCEPT ![n] = quit]
    /\ gor' = [gor EXCEPT ![n] = "wait"]
    /\ UNCHANGED <<latch, made, full, reg, call, signals>>

GoReceive(n) ==
    /\ ~killed
    /\ gor[n] = "wait"
    /\ waits[n] \in full
    /\ full' = full \ {waits[n]}
    /\ gor' = [gor EXCEPT ![n] = "store"]
    /\ UNCHANGED <<latch, made, reg, call, waits, signals>>

GoStore(n) ==
    /\ ~killed
    /\ gor[n] = "store"
    /\ stopped' = TRUE
    /\ gor' = [gor EXCEPT ![n] = "done"]
    /\ UNCHANGED <<watching, quit, made, full, reg, call, waits, signals>>

-----------------------------------------------------------------------------
(* A signal arrives.                                                       *)

\* Mutant of Accepts: a channel without a buffer takes a signal only while a
\* goroutine waits on it.
Accepts_Unbuffered(ch) == \E n \in Chan : gor[n] = "wait" /\ waits[n] = ch

\* A channel takes what os/signal sends unless its buffer is taken.
Accepts(ch) == ch \notin full

Signal ==
    /\ ~killed
    /\ sent < MaxSig                    \* the bound on signals
    /\ sent' = sent + 1
    /\ full' = full \union {ch \in reg : Accepts(ch)}
    /\ killed' = (reg = {})
    /\ caught' = (caught \/ reg # {})
    /\ UNCHANGED <<latch, made, reg, call, goroutine>>

-----------------------------------------------------------------------------

Caller(c) == \/ WatchSwap(c) \/ WatchMake(c) \/ WatchNotify(c) \/ WatchGo(c)
             \/ StopSignal(c) \/ StopClear(c) \/ StopUnwatch(c)
Goroutine(n) == GoRead(n) \/ GoReceive(n) \/ GoStore(n)

Next ==
    \/ \E c \in Callers : Caller(c)
    \/ \E n \in Chan : Goroutine(n)
    \/ Signal

Spec == Init /\ [][Next]_vars

\* The Go scheduler runs every goroutine that can run: those Watch started,
\* and a caller that is inside Watch.
FairSpec ==
    /\ Spec
    /\ \A n \in Chan : WF_vars(Goroutine(n))
    /\ \A c \in Callers : WF_vars(WatchGo(c))

-----------------------------------------------------------------------------
(* Properties.                                                             *)

\* A goroutine that takes, or will take, what lies in channel quit.
Receiver ==
    \/ \E n \in Chan : gor[n] = "new" \/ (gor[n] = "wait" /\ waits[n] = quit)
    \/ \E c \in Callers : pc[c] = "go"

\* A signal that a channel took is on its way to the latch: stored already, or
\* about to be, or in the channel of a goroutine that will take it, whichever
\* Watch started that goroutine and whenever it first runs.
NoSignalLost ==
    caught => \/ stopped
              \/ \E n \in Chan : gor[n] = "store"
              \/ quit \in full /\ Receiver

\* A signal that a channel took makes Stopped() true, unless a Stop comes first.
SignalLatched == caught ~> (stopped \/ ~caught)

\* After Stop, and before the next Watch, the process has its default
\* behaviour back: no channel, of this session or an earlier one, takes its
\* signals.
StopRestores == (\A c \in Callers : pc[c] = "idle") /\ ~watching => reg = {}

\* A signal stops one session at most: a goroutine of an ended session may set the
\* latch of the next one (Stop neither waits for it nor ends it, tmp.go:56-67), but
\* only with a signal that no other goroutine has taken, or will.
Latches == {n \in Chan : gor[n] \in {"store", "done"}}
LatchedOnce == Cardinality(Latches) + Cardinality(full) <= sent

\* However the Watches and Stops of several callers race, a Watch that returns
\* before the one under way has registered its channel included (tmp.go:51): once
\* all have returned, and if the process is watching then, quit is registered, and
\* a goroutine receives from it unless the latch is set or about to be.
RacesSettle ==
    watching /\ (\A c \in Callers : pc[c] = "idle") =>
        quit \in reg /\ (stopped \/ (\E n \in Chan : gor[n] = "store") \/ Receiver)

\* "Watch latches SIGINT/SIGTERM for cooperative shutdown. Safe to call
\* multiple times" (tmp.go:48): once a caller's Watch has returned, and it has
\* not called Stop, a signal does not end the process.
WatchedNotKilled == killed => session = {}

-----------------------------------------------------------------------------
(* The invariants behind them.                                             *)

\* For any callers: while the process is watching, its channel is registered or some
\* call has that before it, or will end the watching; and likewise for the goroutine.
RaceInv ==
    watching =>
        /\ quit \in reg \/ \E c \in Callers : pc[c] \in {"make", "notify", "clear", "unwatch"}
        /\ \/ stopped \/ (\E n \in Chan : gor[n] = "store") \/ Receiver
           \/ \E c \in Callers : pc[c] # "idle"

\* quit is the channel made last; a goroutine finds one when it first runs.
TypeInv ==
    /\ TypeOK
    /\ quit = made
    /\ \A c \in Callers : pc[c] \in {"notify", "go"} => made > 0
    /\ \A n \in Chan : gor[n] # "none" => made > 0

\* The hypothesis of the theorems on sessions.
SingleCaller == \A c, d \in Callers : c = d

\* The channel is registered from Notify until Stop, and no other ever is.
SessionInv ==
    /\ reg \subseteq {quit}
    /\ ~watching => reg = {}
    /\ \A c \in Callers :
          /\ c \in session => watching /\ pc[c] = "idle"
          /\ pc[c] \in {"make", "notify", "go"} => watching
          /\ reg # {} <=> watching /\ pc[c] \in {"idle", "go"}

\* While a channel is registered there is a goroutine for it, or the latch is
\* set or about to be; a signal that was taken is in that channel until then.
LatchInv ==
    /\ reg # {} => stopped \/ (\E n \in Chan : gor[n] = "store") \/ Receiver
    /\ caught => reg # {}
    /\ NoSignalLost

IInv == TypeInv /\ SessionInv /\ LatchInv /\ WatchedNotKilled
=============================================================================
