------------------------------- MODULE TmpProofs -------------------------------
(***************************************************************************)
(* Theorems about Tmp: its types and how its races settle for any callers, *)
(* and for one caller the safety of its sessions, for any number of        *)
(* sessions and signals.                                                   *)
(***************************************************************************)
EXTENDS Tmp, FiniteSetTheorems, TLAPS

-----------------------------------------------------------------------------
(* Types.                                                                  *)

\* The package variables start unset, and no channel exists.
LEMMA TypeInit == Init => TypeInv
<1> SUFFICES ASSUME Init PROVE TypeInv
  OBVIOUS
<1> USE TmpAssumption DEF Init, Chan, Nil
<1>1. quit \in Chan \union {Nil} /\ made \in 0 .. MaxChan /\ sent \in 0 .. MaxSig
  OBVIOUS
<1>2. /\ pc \in [Callers -> {"idle", "make", "notify", "go", "clear", "unwatch"}]
      /\ gor \in [Chan -> {"none", "new", "wait", "store", "done"}]
      /\ waits \in [Chan -> Chan \union {Nil}]
  OBVIOUS
<1>3. \A n \in Chan : gor[n] = "none"
  OBVIOUS
<1>4. \A c \in Callers : pc[c] = "idle"
  OBVIOUS
<1>5. TypeOK
  BY <1>1, <1>2, <1>3 DEF TypeOK
<1> QED
  BY <1>3, <1>4, <1>5 DEF TypeInv

\* Each step keeps types, and quit at the channel made last.
LEMMA TypeStep == TypeInv /\ [Next]_vars => TypeInv'
<1> SUFFICES ASSUME TypeInv, [Next]_vars PROVE TypeInv'
  OBVIOUS
<1> USE TmpAssumption DEF TypeInv, TypeOK, Chan, Nil
<1>1. ASSUME NEW c \in Callers, WatchSwap(c) PROVE TypeInv'
  <2>1. UNCHANGED <<quit, made, gor, waits, sent, killed, caught, stopped, full, reg>>
    BY <1>1 DEF WatchSwap, goroutine, signals
  <2>2. CASE watching
    BY <1>1, <2>1, <2>2 DEF WatchSwap, Watched
  <2>3. CASE ~watching
    BY <1>1, <2>1, <2>3 DEF WatchSwap
  <2> QED
    BY <2>2, <2>3
<1>2. ASSUME NEW c \in Callers, WatchMake(c) PROVE TypeInv'
  BY <1>2 DEF WatchMake, goroutine, signals
<1>3. ASSUME NEW c \in Callers, WatchNotify(c) PROVE TypeInv'
  BY <1>3 DEF WatchNotify, latch, goroutine, signals
<1>4. ASSUME NEW c \in Callers, WatchGo(c) PROVE TypeInv'
  BY <1>4 DEF WatchGo, Watched, latch, signals
<1>5. ASSUME NEW c \in Callers, StopSignal(c) PROVE TypeInv'
  BY <1>5 DEF StopSignal, Unregistered, latch, goroutine
<1>6. ASSUME NEW c \in Callers, StopClear(c) PROVE TypeInv'
  BY <1>6 DEF StopClear, goroutine, signals
<1>7. ASSUME NEW c \in Callers, StopUnwatch(c) PROVE TypeInv'
  BY <1>7 DEF StopUnwatch, goroutine, signals
<1>8. ASSUME NEW n \in Chan, GoRead(n) PROVE TypeInv'
  BY <1>8 DEF GoRead, latch, call, signals
<1>9. ASSUME NEW n \in Chan, GoReceive(n) PROVE TypeInv'
  BY <1>9 DEF GoReceive, latch, call, signals
<1>10. ASSUME NEW n \in Chan, GoStore(n) PROVE TypeInv'
  BY <1>10 DEF GoStore, call, signals
<1>11. CASE Signal
  <2>1. sent' \in 0 .. MaxSig
    BY <1>11 DEF Signal
  <2>4. full' \subseteq Chan
    BY <1>11, Zenon DEF Signal
  <2>2. killed' \in BOOLEAN /\ caught' \in BOOLEAN
    BY <1>11 DEF Signal
  <2>3. UNCHANGED <<watching, stopped, quit, made, reg, pc, session, gor, waits>>
    BY <1>11 DEF Signal, latch, call, goroutine
  <2> QED
    BY <2>1, <2>2, <2>3, <2>4
<1>12. CASE UNCHANGED vars
  BY <1>12 DEF vars, latch, call, goroutine, signals
<1> QED
  BY <1>1, <1>2, <1>3, <1>4, <1>5, <1>6, <1>7, <1>8, <1>9, <1>10, <1>11, <1>12
  DEF Next, Caller, Goroutine

\* The type invariant of Tmp, for any number of concurrent callers: in
\* particular no goroutine ever receives from a nil channel, which would block
\* it for good, and none is ever registered.
THEOREM TypeCorrect == Spec => []TypeOK
<1>1. TypeInv => TypeOK
  BY DEF TypeInv
<1> QED
  BY <1>1, TypeInit, TypeStep, PTL DEF Spec

-----------------------------------------------------------------------------
(* Races of any callers.                                                   *)

\* Only a call in progress leaves quit unregistered or without a goroutine.
LEMMA RaceStep == TypeInv /\ RaceInv /\ [Next]_vars => RaceInv'
<1> SUFFICES ASSUME TypeInv, RaceInv, [Next]_vars PROVE RaceInv'
  OBVIOUS
<1> USE DEF TypeInv, TypeOK, RaceInv, Receiver
<1>1. ASSUME NEW c \in Callers, WatchSwap(c) PROVE RaceInv'
  <2>1. UNCHANGED <<quit, reg, stopped, gor, waits>>
    BY <1>1 DEF WatchSwap, goroutine
  <2>2. CASE watching
    BY <1>1, <2>1, <2>2 DEF WatchSwap, Watched
  <2>3. CASE ~watching
    BY <1>1, <2>1, <2>3 DEF WatchSwap
  <2> QED
    BY <2>2, <2>3
<1>2. ASSUME NEW c \in Callers, WatchMake(c) PROVE RaceInv'
  BY <1>2 DEF WatchMake, goroutine
<1>3. ASSUME NEW c \in Callers, WatchNotify(c) PROVE RaceInv'
  BY <1>3 DEF WatchNotify, latch, goroutine
<1>4. ASSUME NEW c \in Callers, WatchGo(c) PROVE RaceInv'
  <2>1. PICK n \in 1 .. made : gor' = [gor EXCEPT ![n] = "new"]
    BY <1>4 DEF WatchGo
  <2>2. n \in Chan /\ gor'[n] = "new"
    BY <2>1, TmpAssumption DEF Chan
  <2>3. UNCHANGED <<watching, quit, reg>>
    BY <1>4 DEF WatchGo, latch
  <2>4. \A d \in Callers : pc[d] \in {"make", "notify", "clear", "unwatch"} => pc'[d] = pc[d]
    BY <1>4 DEF WatchGo, Watched
  <2> QED
    BY <2>2, <2>3, <2>4
<1>5. ASSUME NEW c \in Callers, StopSignal(c) PROVE RaceInv'
  BY <1>5 DEF StopSignal, latch
<1>6. ASSUME NEW c \in Callers, StopClear(c) PROVE RaceInv'
  BY <1>6 DEF StopClear
<1>7. ASSUME NEW c \in Callers, StopUnwatch(c) PROVE RaceInv'
  BY <1>7 DEF StopUnwatch
<1>8. ASSUME NEW n \in Chan, GoRead(n) PROVE RaceInv'
  <2>1. gor'[n] = "wait" /\ waits'[n] = quit
    BY <1>8 DEF GoRead
  <2> QED
    BY <1>8, <2>1 DEF GoRead, latch, call
<1>9. ASSUME NEW n \in Chan, GoReceive(n) PROVE RaceInv'
  <2>1. gor'[n] = "store"
    BY <1>9 DEF GoReceive
  <2> QED
    BY <1>9, <2>1 DEF GoReceive, latch, call
<1>10. ASSUME NEW n \in Chan, GoStore(n) PROVE RaceInv'
  BY <1>10 DEF GoStore, call
<1>11. CASE Signal
  BY <1>11 DEF Signal, latch, call, goroutine
<1>12. CASE UNCHANGED vars
  BY <1>12 DEF vars, latch, call, goroutine
<1> QED
  BY <1>1, <1>2, <1>3, <1>4, <1>5, <1>6, <1>7, <1>8, <1>9, <1>10, <1>11, <1>12
  DEF Next, Caller, Goroutine

\* However many callers race, once no call is in progress the process is either not
\* watching or has quit registered, with a goroutine for it or the latch set.
THEOREM RacesAlwaysSettle == Spec => []RacesSettle
<1>1. Init => RaceInv
  BY DEF Init, RaceInv
<1>2. RaceInv => RacesSettle
  BY DEF RaceInv, RacesSettle
<1> QED
  BY <1>1, <1>2, TypeInit, TypeStep, RaceStep, PTL DEF Spec

-----------------------------------------------------------------------------
(* Sessions of a single caller.                                            *)

\* No session is on at the start.
LEMMA SessionInit == Init => SessionInv /\ LatchInv /\ WatchedNotKilled
BY DEF Init, SessionInv, LatchInv, NoSignalLost, WatchedNotKilled

\* The steps of Watch and Stop keep the one registered channel in step with
\* watching; other steps do not touch either.
LEMMA SessionStep ==
    ASSUME SingleCaller, TypeInv, SessionInv, [Next]_vars
    PROVE  SessionInv'
<1> USE DEF TypeInv, TypeOK, SessionInv, SingleCaller
<1>1. ASSUME NEW c \in Callers, WatchSwap(c) PROVE SessionInv'
  BY <1>1 DEF WatchSwap, Watched, goroutine, signals
<1>2. ASSUME NEW c \in Callers, WatchMake(c) PROVE SessionInv'
  BY <1>2 DEF WatchMake, goroutine, signals
<1>3. ASSUME NEW c \in Callers, WatchNotify(c) PROVE SessionInv'
  BY <1>3 DEF WatchNotify, latch, goroutine, signals
<1>4. ASSUME NEW c \in Callers, WatchGo(c) PROVE SessionInv'
  BY <1>4 DEF WatchGo, Watched, latch, signals
<1>5. ASSUME NEW c \in Callers, StopSignal(c) PROVE SessionInv'
  BY <1>5 DEF StopSignal, Unregistered, latch, goroutine
<1>6. ASSUME NEW c \in Callers, StopClear(c) PROVE SessionInv'
  BY <1>6 DEF StopClear, goroutine, signals
<1>7. ASSUME NEW c \in Callers, StopUnwatch(c) PROVE SessionInv'
  BY <1>7 DEF StopUnwatch, goroutine, signals
<1>8. ASSUME NEW n \in Chan, Goroutine(n) PROVE SessionInv'
  <2>1. UNCHANGED <<watching, quit, reg, pc, session>>
    BY <1>8 DEF Goroutine, GoRead, GoReceive, GoStore, latch, call
  <2> QED
    BY <2>1
<1>9. CASE Signal
  BY <1>9 DEF Signal, latch, call, goroutine
<1>10. CASE UNCHANGED vars
  BY <1>10 DEF vars, latch, call, goroutine, signals
<1> QED
  BY <1>1, <1>2, <1>3, <1>4, <1>5, <1>6, <1>7, <1>8, <1>9, <1>10 DEF Next, Caller

\* The latch: what a step does to the signal on its way to it.
LEMMA LatchStep ==
    ASSUME SingleCaller, TypeInv, SessionInv, LatchInv, [Next]_vars
    PROVE  LatchInv'
<1> USE DEF TypeInv, TypeOK, SessionInv, SingleCaller, LatchInv, NoSignalLost, Receiver
<1>1. ASSUME NEW c \in Callers, WatchSwap(c) PROVE LatchInv'
  BY <1>1 DEF WatchSwap, Watched, goroutine, signals
<1>2. ASSUME NEW c \in Callers, WatchMake(c) PROVE LatchInv'
  BY <1>2 DEF WatchMake, goroutine, signals
<1>3. ASSUME NEW c \in Callers, WatchNotify(c) PROVE LatchInv'
  BY <1>3 DEF WatchNotify, latch, goroutine, signals
<1>4. ASSUME NEW c \in Callers, WatchGo(c) PROVE LatchInv'
  <2>1. PICK n \in 1 .. made : gor[n] = "none" /\ gor' = [gor EXCEPT ![n] = "new"]
    BY <1>4 DEF WatchGo
  <2>2. n \in Chan /\ gor'[n] = "new"
    BY <2>1, TmpAssumption DEF Chan
  <2>3. \A k \in Chan : gor[k] = "store" => gor'[k] = "store"
    BY <2>1
  <2> QED
    BY <1>4, <2>2, <2>3 DEF WatchGo, Watched, latch, signals
<1>5. ASSUME NEW c \in Callers, StopSignal(c) PROVE LatchInv'
  BY <1>5 DEF StopSignal, Unregistered, latch, goroutine
<1>6. ASSUME NEW c \in Callers, StopClear(c) PROVE LatchInv'
  BY <1>6 DEF StopClear, goroutine, signals
<1>7. ASSUME NEW c \in Callers, StopUnwatch(c) PROVE LatchInv'
  BY <1>7 DEF StopUnwatch, goroutine, signals
<1>8. ASSUME NEW n \in Chan, GoRead(n) PROVE LatchInv'
  <2>1. gor'[n] = "wait" /\ waits'[n] = quit
    BY <1>8 DEF GoRead
  <2>2. \A k \in Chan : gor[k] = "store" => gor'[k] = "store"
    BY <1>8 DEF GoRead
  <2> QED
    BY <1>8, <2>1, <2>2 DEF GoRead, latch, call, signals
<1>9. ASSUME NEW n \in Chan, GoReceive(n) PROVE LatchInv'
  <2>1. gor'[n] = "store"
    BY <1>9 DEF GoReceive
  <2> QED
    BY <1>9, <2>1 DEF GoReceive, latch, call, signals
<1>10. ASSUME NEW n \in Chan, GoStore(n) PROVE LatchInv'
  BY <1>10 DEF GoStore, call, signals
<1>11. CASE Signal
  <2>1. Receiver' = Receiver /\ UNCHANGED <<reg, quit, stopped, gor>>
    BY <1>11 DEF Signal, latch, call, goroutine
  <2>2. ASSUME reg # {} PROVE quit \in full'
    <3>1. \E ch \in reg : ch = quit
      <4>1. reg \subseteq {quit}
        BY DEF SessionInv
      <4> QED
        BY ONLY <2>2, <4>1, Zenon
    <3>2. full' = full \union {ch \in reg : ch \notin full}
      BY <1>11 DEF Signal, Accepts
    <3> QED
      BY ONLY <3>1, <3>2, Zenon
  <2> QED
    BY <1>11, <2>1, <2>2 DEF Signal
<1>12. CASE UNCHANGED vars
  BY <1>12 DEF vars, latch, call, goroutine, signals
<1> QED
  BY <1>1, <1>2, <1>3, <1>4, <1>5, <1>6, <1>7, <1>8, <1>9, <1>10, <1>11, <1>12
  DEF Next, Caller, Goroutine

\* A signal is fatal only outside the sessions; nothing follows one that is.
LEMMA KilledStep ==
    ASSUME SingleCaller, TypeInv, SessionInv, WatchedNotKilled, [Next]_vars
    PROVE  WatchedNotKilled'
<1> USE DEF SessionInv, SingleCaller, WatchedNotKilled, TypeInv, TypeOK
<1>1. ASSUME NEW c \in Callers, Caller(c) PROVE ~killed'
  BY <1>1 DEF Caller, WatchSwap, WatchMake, WatchNotify, WatchGo, StopSignal,
              StopClear, StopUnwatch, signals
<1>2. ASSUME NEW n \in Chan, Goroutine(n) PROVE ~killed'
  BY <1>2 DEF Goroutine, GoRead, GoReceive, GoStore, signals
<1>3. CASE Signal
  BY <1>3 DEF Signal, call
<1>4. CASE UNCHANGED vars
  BY <1>4 DEF vars, call, signals
<1> QED
  BY <1>1, <1>2, <1>3, <1>4 DEF Next

\* With one caller, the inductive invariant holds: quit is the channel made last,
\* that channel and no other is registered from Watch to Stop, and while it is,
\* some goroutine receives from it or the latch is set or about to be.
THEOREM SingleCallerInv == ASSUME SingleCaller PROVE Spec => []IInv
<1>1. Init => IInv
  BY TypeInit, SessionInit DEF IInv
<1>2. IInv /\ [Next]_vars => IInv'
  BY TypeStep, SessionStep, LatchStep, KilledStep DEF IInv
<1> QED
  BY <1>1, <1>2, PTL DEF Spec

\* With one caller, no signal that a channel took is lost on its way to the
\* latch, however many sessions there were and whenever goroutines run.
THEOREM NoSignalIsLost == ASSUME SingleCaller PROVE Spec => []NoSignalLost
<1>1. IInv => NoSignalLost
  BY DEF IInv, LatchInv
<1> QED
  BY <1>1, SingleCallerInv, PTL

\* With one caller, no signal is fatal between a Watch and the next Stop.
THEOREM SessionNotKilled == ASSUME SingleCaller PROVE Spec => []WatchedNotKilled
<1>1. IInv => WatchedNotKilled
  BY DEF IInv
<1> QED
  BY <1>1, SingleCallerInv, PTL

\* With one caller, nothing takes the signals after a Stop, not even a channel
\* of an earlier session.
THEOREM StopRestoresDefault ==
    ASSUME SingleCaller PROVE Spec => []StopRestores
<1>1. IInv => StopRestores
  BY DEF IInv, SessionInv, StopRestores
<1> QED
  BY <1>1, SingleCallerInv, PTL

-----------------------------------------------------------------------------
(* One signal, one session.                                                *)

\* The goroutines and the channels are finitely many.
LEMMA FiniteHolders ==
    ASSUME TypeInv
    PROVE  /\ IsFiniteSet(Latches) /\ IsFiniteSet(full)
           /\ Cardinality(Latches) \in Nat /\ Cardinality(full) \in Nat
<1>1. IsFiniteSet(Chan)
  BY FS_Interval, TmpAssumption DEF Chan
<1>2. Latches \subseteq Chan /\ full \subseteq Chan
  BY DEF TypeInv, TypeOK, Latches
<1> QED
  BY <1>1, <1>2, FS_Subset, FS_CardinalityType

\* A signal fills one channel at most; a goroutine that goes on to the latch has
\* emptied one.
LEMMA OnceStep ==
    ASSUME TypeInv, SessionInv, LatchedOnce, [Next]_vars
    PROVE  LatchedOnce'
<1> USE DEF LatchedOnce
<1>0. /\ IsFiniteSet(Latches) /\ IsFiniteSet(full) /\ sent \in Nat
      /\ Cardinality(Latches) \in Nat /\ Cardinality(full) \in Nat
  BY FiniteHolders, TmpAssumption DEF TypeInv, TypeOK
<1>1. ASSUME NEW c \in Callers, Caller(c) PROVE LatchedOnce'
  <2>1. UNCHANGED <<full, sent>>
    BY <1>1 DEF Caller, WatchSwap, WatchMake, WatchNotify, WatchGo, StopSignal,
                StopClear, StopUnwatch, signals
  <2>2. Latches' = Latches
    <3>1. CASE WatchGo(c)
      <4>1. PICK n \in 1 .. made : gor[n] = "none" /\ gor' = [gor EXCEPT ![n] = "new"]
        BY <3>1 DEF WatchGo
      <4>2. \A k \in Chan : gor'[k] \in {"store", "done"} <=> gor[k] \in {"store", "done"}
        BY <4>1 DEF TypeInv, TypeOK
      <4> QED
        BY <4>2 DEF Latches
    <3>2. CASE ~WatchGo(c)
      <4>1. gor' = gor
        BY <1>1, <3>2 DEF Caller, WatchSwap, WatchMake, WatchNotify, StopSignal,
                          StopClear, StopUnwatch, goroutine
      <4> QED
        BY <4>1 DEF Latches
    <3> QED
      BY <3>1, <3>2
  <2> QED
    BY <2>1, <2>2
<1>2. ASSUME NEW n \in Chan, GoRead(n) PROVE LatchedOnce'
  <2>1. \A k \in Chan : gor'[k] \in {"store", "done"} <=> gor[k] \in {"store", "done"}
    BY <1>2 DEF GoRead, TypeInv, TypeOK
  <2>2. Latches' = Latches /\ UNCHANGED <<full, sent>>
    BY <1>2, <2>1 DEF Latches, GoRead, signals
  <2> QED
    BY <2>2
<1>3. ASSUME NEW n \in Chan, GoReceive(n) PROVE LatchedOnce'
  <2>1. n \notin Latches /\ waits[n] \in full /\ sent' = sent
    BY <1>3 DEF GoReceive, Latches, signals
  <2>2. Latches' = Latches \union {n}
    <3>1. \A k \in Chan : gor'[k] \in {"store", "done"} <=> k = n \/ gor[k] \in {"store", "done"}
      BY <1>3 DEF GoReceive, TypeInv, TypeOK
    <3> QED
      BY <1>3, <3>1 DEF Latches
  <2>3. Cardinality(Latches') = Cardinality(Latches) + 1
    BY <1>0, <2>1, <2>2, FS_AddElement
  <2>4. full' = full \ {waits[n]}
    BY <1>3 DEF GoReceive
  <2>5. Cardinality(full') = Cardinality(full) - 1
    BY <1>0, <2>1, <2>4, FS_RemoveElement
  <2> QED
    BY <1>0, <2>1, <2>3, <2>5
<1>4. ASSUME NEW n \in Chan, GoStore(n) PROVE LatchedOnce'
  <2>1. \A k \in Chan : gor'[k] \in {"store", "done"} <=> gor[k] \in {"store", "done"}
    BY <1>4 DEF GoStore, TypeInv, TypeOK
  <2>2. Latches' = Latches /\ UNCHANGED <<full, sent>>
    BY <1>4, <2>1 DEF Latches, GoStore, signals
  <2> QED
    BY <2>2
<1>5. CASE Signal
  <2>1. Latches' = Latches /\ sent' = sent + 1
    BY <1>5 DEF Signal, Latches, goroutine
  <2>2. full' = full \/ full' = full \union {quit}
    <3>1. reg \subseteq {quit}
      BY DEF SessionInv
    <3>2. full' = full \union {ch \in reg : ch \notin full}
      BY <1>5 DEF Signal, Accepts
    <3> QED
      BY ONLY <3>1, <3>2, Zenon
  <2>3. Cardinality(full') <= Cardinality(full) + 1
    <3>1. CASE full' = full
      BY <1>0, <3>1
    <3>2. CASE full' = full \union {quit}
      <4>1. Cardinality(full \union {quit}) \in {Cardinality(full), Cardinality(full) + 1}
        BY <1>0, FS_AddElement
      <4> QED
        BY <1>0, <3>2, <4>1
    <3> QED
      BY <2>2, <3>1, <3>2
  <2>4. Cardinality(full') \in Nat
    BY FiniteHolders, <1>0, <2>2, FS_AddElement, FS_CardinalityType
  <2> QED
    BY <1>0, <2>1, <2>3, <2>4
<1>6. CASE UNCHANGED vars
  BY <1>6 DEF vars, goroutine, signals, Latches
<1> QED
  BY <1>1, <1>2, <1>3, <1>4, <1>5, <1>6 DEF Next, Goroutine

\* With one caller, at most one goroutine sets the latch for each signal, however
\* many goroutines of ended sessions are left.
THEOREM SignalLatchedOnce == ASSUME SingleCaller PROVE Spec => []LatchedOnce
<1>1. Init => LatchedOnce
  <2>1. ASSUME Init PROVE Latches = {} /\ full = {} /\ sent = 0
    BY <2>1 DEF Init, Latches
  <2> QED
    BY <2>1, FS_EmptySet DEF LatchedOnce
<1>2. IInv => TypeInv /\ SessionInv
  BY DEF IInv
<1> QED
  BY <1>1, <1>2, SingleCallerInv, OnceStep, PTL DEF Spec
=============================================================================
