---------------------------- MODULE LifecycleProofs ----------------------------
(***************************************************************************)
(* TLAPS proofs about Lifecycle, for any files the user saves, any         *)
(* environment and any number of saves.                                    *)
(***************************************************************************)
EXTENDS Lifecycle, TLAPS

Usable(cfg) ==
  /\ IsConfig(cfg)
  /\ Accepted(cfg)
  /\ cfg.core_log_level \in {"debug", "info", "warn", "error"}

\* The watcher goroutine and the callback are the records Init makes them.
ShapeInv ==
  /\ reload = [pc |-> reload.pc, old |-> reload.old, new |-> reload.new]
  /\ callback = [on |-> callback.on, old |-> callback.old, new |-> callback.new]

\* What is in force, or about to be, has been validated.
UsableInv ==
  /\ Usable(current)
  /\ reload.pc \in {"set", "notify"} => Usable(reload.new)

\* The watcher goroutine has not begun, or has ended.
Quiet == reload.pc \in {"off", "exited"}

\* The watcher is forgotten, and the database closed, only when it is quiet.
QuietInv ==
  /\ main = "new" => /\ watcher = "nil" /\ Quiet /\ conn = "open"
                     /\ ~started /\ signals = "none"
                     /\ \A c \in Calls : shut[c] = "none"
  /\ signals = "listening" => started
  /\ watcher = "nil" => Quiet
  /\ \A c \in Calls : shut[c] \in {"db", "done"} => Quiet
  /\ conn = "closed" => Quiet

\* The last call of a callback ended where the next one will begin.
ChainInv ==
  /\ reload.pc \in {"read", "set"} => reload.old = current
  /\ reload.pc = "notify" => reload.new = current
  /\ ~callback.on => callback.new = NoConfig
  /\ callback.new # NoConfig =>
       callback.new = IF reload.pc = "notify" THEN reload.old ELSE current

IInv == TypeOK /\ ShapeInv /\ UsableInv /\ QuietInv /\ ChainInv

-----------------------------------------------------------------------------
\* What Load and a reload take, they make usable.
LEMMA LoadedIsUsable ==
  ASSUME NEW f, Loadable(f)
  PROVE  Usable(Loaded(f))
<1> DEFINE cfg == applyEnvOverrides(Decode(f))
<1>1. DOMAIN cfg = Fields /\ Accepted(cfg)
  BY DEF applyEnvOverrides, Loadable
<1>2. {"core_log_level", "server_port", "core_data_dir", "ui_theme", "ui_language"}
        \subseteq Fields
  BY DEF Fields, DefaultConfig
<1>3. CASE cfg.core_log_level \in {"debug", "info", "warn", "error"}
  BY <1>1, <1>3 DEF Usable, IsConfig, Loaded, Repaired
<1>4. CASE cfg.core_log_level \notin {"debug", "info", "warn", "error"}
  <2>1. Loaded(f) = [cfg EXCEPT !.core_log_level = "info"]
    BY <1>4 DEF Loaded, Repaired
  <2>2. /\ DOMAIN Loaded(f) = Fields
        /\ Loaded(f).core_log_level = "info"
        /\ \A k \in Fields \ {"core_log_level"} : Loaded(f)[k] = cfg[k]
    <3> HIDE DEF cfg
    <3> QED
      BY <1>1, <1>2, <2>1
  <2>3. Accepted(Loaded(f))
    <3> HIDE DEF cfg
    <3> QED
      BY <1>1, <1>2, <2>2 DEF Accepted
  <2>4. QED
    BY <2>2, <2>3 DEF Usable, IsConfig
<1>5. QED
  BY <1>3, <1>4

LEMMA InitInv == Init => IInv
<1> SUFFICES ASSUME Init PROVE IInv
  OBVIOUS
<1>1. Usable(current)
  BY LoadedIsUsable DEF Init
<1>2. file \in Contents
  BY DEF Init
<1>3. 0 \in 0..MaxSaves
  BY LifecycleAssumption
<1>4. TypeOK
  BY <1>1, <1>2, <1>3 DEF Init, TypeOK, Usable
<1>5. UsableInv /\ ShapeInv /\ QuietInv /\ ChainInv
  BY <1>1 DEF Init, UsableInv, ShapeInv, QuietInv, Quiet, ChainInv
<1>6. QED
  BY <1>4, <1>5 DEF IInv

-----------------------------------------------------------------------------
LEMMA TypeStep == IInv /\ [Next]_vars => TypeOK'
<1> SUFFICES ASSUME IInv, [Next]_vars PROVE TypeOK'
  OBVIOUS
<1> USE DEF IInv, TypeOK, IsConfig
<1>1. CASE UNCHANGED vars
  BY <1>1 DEF vars, config, engine
<1>2. CASE User
  <2>1. ASSUME NEW f \in Contents, Truncate(f) \/ Rename(f) PROVE TypeOK'
    BY <2>1, LifecycleAssumption DEF Truncate, Rename, Notify, engine
  <2>2. CASE Write \/ Quit
    BY <2>2 DEF Write, Notify, Quit, config, engine
  <2>3. CASE OnReload
    <3>1. callback'.on = TRUE
      BY <2>3 DEF OnReload, ShapeInv
    <3>2. QED
      BY <2>3, <3>1 DEF OnReload, engine
  <2>4. CASE Signal \/ CloseWindow
    BY <2>4 DEF Signal, CloseWindow, Shutdown, Calls, config
  <2>5. QED
    BY <1>2, <2>1, <2>2, <2>3, <2>4 DEF User
<1>3. CASE StartWatcher \/ Start \/ SignalsDone
  BY ZenonT(60), <1>3 DEF StartWatcher, Start, SignalsDone, config, ShapeInv
<1>4. CASE Watch
  <2>1. CASE Receive \/ Read \/ ExitWatcher
    <3>1. reload'.pc \in {"read", "set", "select", "exited"}
      BY <2>1 DEF Receive, Read, ExitWatcher, ShapeInv
    <3>2. events' \in Nat
      BY <2>1 DEF Receive, Read, ExitWatcher
    <3>3. QED
      BY <2>1, <3>1, <3>2 DEF Receive, Read, ExitWatcher, engine
  <2>2. CASE setCurrent
    <3>1. DOMAIN current' = Fields /\ reload'.pc = "notify"
      BY <2>2 DEF setCurrent, ShapeInv, UsableInv, Usable
    <3>2. QED
      BY <2>2, <3>1 DEF setCurrent, engine
  <2>3. CASE notifyReload
    <3>1. reload'.pc = "select" /\ callback'.on \in BOOLEAN
      BY <2>3 DEF notifyReload, ShapeInv
    <3>2. QED
      BY <2>3, <3>1 DEF notifyReload, engine
  <2>4. QED
    BY <1>4, <2>1, <2>2, <2>3 DEF Watch
<1>5. ASSUME NEW c \in Calls, Close(c) \/ Timeout(c) PROVE TypeOK'
  BY <1>5 DEF Close, Timeout, ShutStep, Cancel, SigWait, StopWatcher, CloseWatcher,
    AwaitWatcher, CloseDB, Complete, config
<1>6. QED
  BY <1>1, <1>2, <1>3, <1>4, <1>5 DEF Next

\* Who changes what the watcher goroutine and the callbacks work on.
LEMMA OtherSteps ==
  ASSUME [Next]_vars
  PROVE  \/ UNCHANGED <<reload, callback, current>>
         \/ StartWatcher \/ OnReload \/ Watch
<1>1. CASE UNCHANGED vars
  BY <1>1 DEF vars, config
<1>2. CASE User
  BY <1>2 DEF User, Truncate, Rename, Write, Signal, CloseWindow, Quit, config
<1>3. CASE Start \/ SignalsDone
  BY <1>3 DEF Start, SignalsDone, config
<1>4. ASSUME NEW c \in Calls, Close(c) \/ Timeout(c)
      PROVE  UNCHANGED <<reload, callback, current>>
  BY <1>4 DEF Close, Timeout, Cancel, SigWait, StopWatcher, CloseWatcher, AwaitWatcher,
    CloseDB, Complete, config
<1>5. QED
  BY <1>1, <1>2, <1>3, <1>4 DEF Next

LEMMA ShapeStep == IInv /\ [Next]_vars => ShapeInv'
<1> SUFFICES ASSUME IInv, [Next]_vars PROVE ShapeInv'
  OBVIOUS
<1> USE DEF IInv, ShapeInv
<1>1. CASE UNCHANGED <<reload, callback>>
  BY <1>1
<1>2. CASE StartWatcher \/ OnReload
  BY <1>2 DEF StartWatcher, OnReload
<1>3. CASE Watch
  BY <1>3 DEF Watch, Receive, Read, setCurrent, notifyReload, ExitWatcher
<1>4. QED
  BY <1>1, <1>2, <1>3, OtherSteps

\* The watcher has quiet goroutines only before it starts and after it ends, and
\* the window opens before anything can be shut down.
LEMMA QuietStep == IInv /\ [Next]_vars => QuietInv'
<1> SUFFICES ASSUME IInv, [Next]_vars PROVE QuietInv'
  OBVIOUS
<1> USE DEF IInv, QuietInv, Quiet
<1>1. CASE UNCHANGED vars
  BY <1>1 DEF vars, config, engine
<1>2. CASE User
  <2>1. ASSUME NEW f \in Contents, Truncate(f) \/ Rename(f) PROVE QuietInv'
    BY <2>1 DEF Truncate, Rename, engine
  <2>2. CASE Write \/ OnReload \/ Quit
    BY <2>2 DEF Write, OnReload, Quit, engine, config
  <2>3. CASE Signal \/ CloseWindow
    BY <2>3 DEF Signal, CloseWindow, Shutdown, Calls, config, TypeOK
  <2>4. QED
    BY <1>2, <2>1, <2>2, <2>3 DEF User
<1>3. CASE StartWatcher
  BY <1>3 DEF StartWatcher, ShapeInv
<1>4. CASE Start \/ SignalsDone
  BY <1>4 DEF Start, SignalsDone, config
<1>5. CASE Watch
  BY <1>5 DEF Watch, Receive, Read, setCurrent, notifyReload, ExitWatcher, engine, ShapeInv
<1>6. ASSUME NEW c \in Calls, Close(c) \/ Timeout(c) PROVE QuietInv'
  <2>1. CASE Cancel(c) \/ SigWait(c) \/ Complete(c) \/ Timeout(c)
    BY <2>1 DEF Cancel, SigWait, Complete, Timeout, ShutStep, config, TypeOK
  <2>2. CASE StopWatcher(c) \/ CloseWatcher(c) \/ AwaitWatcher(c) \/ CloseDB(c)
    BY <2>2 DEF StopWatcher, CloseWatcher, AwaitWatcher, CloseDB, ShutStep, config, TypeOK
  <2>3. QED
    BY <1>6, <2>1, <2>2 DEF Close
<1>7. QED
  BY <1>1, <1>2, <1>3, <1>4, <1>5, <1>6 DEF Next

\* Only the watcher goroutine sets the configuration, after it has validated it.
LEMMA UsableStep == IInv /\ [Next]_vars => UsableInv'
<1> SUFFICES ASSUME IInv, [Next]_vars PROVE UsableInv'
  OBVIOUS
<1> USE DEF IInv
<1>1. SUFFICES /\ Usable(current')
               /\ reload'.pc \in {"set", "notify"} => Usable(reload'.new)
  BY DEF UsableInv
<1>2. CASE UNCHANGED <<reload, current>>
  BY <1>2 DEF UsableInv
<1>3. CASE StartWatcher \/ OnReload
  BY <1>3 DEF StartWatcher, OnReload, UsableInv, ShapeInv
<1>4. CASE Read
  <2>1. Loadable(file) => Usable(Loaded(file))
    BY LoadedIsUsable
  <2>2. QED
    BY <1>4, <2>1 DEF Read, UsableInv, ShapeInv
<1>5. CASE Receive \/ setCurrent \/ notifyReload \/ ExitWatcher
  <2>1. CASE Receive \/ notifyReload \/ ExitWatcher
    <3>1. current' = current /\ reload'.pc \in {"read", "select", "exited"}
      <4>1. CASE Receive
        BY <4>1 DEF Receive, ShapeInv
      <4>2. CASE ExitWatcher
        BY <4>2 DEF ExitWatcher, ShapeInv
      <4>3. CASE notifyReload
        BY <4>3 DEF notifyReload
      <4>4. QED
        BY <2>1, <4>1, <4>2, <4>3
    <3>2. QED
      BY <3>1 DEF UsableInv
  <2>2. CASE setCurrent
    <3>1. reload.pc = "set" /\ current' = reload.new /\ reload'.new = reload.new
      BY <2>2 DEF setCurrent, ShapeInv
    <3>2. QED
      BY <3>1 DEF UsableInv
  <2>3. QED
    BY <1>5, <2>1, <2>2
<1>6. QED
  BY <1>2, <1>3, <1>4, <1>5, OtherSteps DEF Watch

LEMMA ChainStep == IInv /\ [Next]_vars => ChainInv'
<1> SUFFICES ASSUME IInv, [Next]_vars PROVE ChainInv'
  OBVIOUS
<1> USE DEF IInv, ChainInv
<1>1. CASE UNCHANGED <<reload, callback, current>>
  BY <1>1
<1>2. CASE StartWatcher
  <2>1. reload.pc # "notify"
    BY <1>2 DEF StartWatcher, QuietInv, Quiet
  <2>2. QED
    BY <1>2, <2>1 DEF StartWatcher, ShapeInv
<1>3. CASE OnReload
  BY <1>3 DEF OnReload, ShapeInv
<1>4. CASE Receive \/ Read \/ ExitWatcher
  BY <1>4 DEF Receive, Read, ExitWatcher, ShapeInv
<1>5. CASE setCurrent
  BY <1>5 DEF setCurrent, ShapeInv
<1>6. CASE notifyReload
  BY <1>6 DEF notifyReload, ShapeInv, TypeOK
<1>7. QED
  BY <1>1, <1>2, <1>3, <1>4, <1>5, <1>6, OtherSteps DEF Watch

LEMMA SpecInv == Spec => []IInv
<1>1. IInv /\ [Next]_vars => IInv'
  BY TypeStep, ShapeStep, UsableStep, QuietStep, ChainStep DEF IInv
<1>2. QED
  BY InitInv, <1>1, PTL DEF Spec

-----------------------------------------------------------------------------
(***************************************************************************)
(* The theorems.                                                           *)
(***************************************************************************)
\* Every step keeps the state within its types; the configuration in force
\* always has every field (engine.go, config.go, main.go).
THEOREM TypeCorrect == Spec => []TypeOK
BY SpecInv, PTL DEF IInv

\* No reload runs on a closed database, however a signal's and the window's
\* shutdown interleave (StopWatcher's receive from watcherDone, Shutdown's order).
THEOREM NoReloadOnceClosed == Spec => []NoReloadAfterClose
<1>1. IInv => NoReloadAfterClose
  BY DEF IInv, QuietInv, Quiet, NoReloadAfterClose
<1>2. QED
  BY <1>1, SpecInv, PTL

\* The configuration in force is one the program can use, whatever is saved and
\* whenever it is read (the watcher validates before setCurrent).
THEOREM CurrentUsable == Spec => []CurrentIsUsable
<1>1. IInv => CurrentIsUsable
  BY DEF IInv, UsableInv, Usable, CurrentIsUsable
<1>2. QED
  BY <1>1, SpecInv, PTL

\* Each call of a callback begins where the one before ended (old is read before
\* setCurrent, by the only goroutine that sets it).
THEOREM ReloadsAreAChain == Spec => CallbacksSeeAChain
<1>1. ASSUME IInv, [Next]_vars
      PROVE  [callback.new # NoConfig /\ callback' # callback
                => callback'.old = callback.new]_callback
  <2>1. SUFFICES ASSUME callback' # callback, callback.new # NoConfig
                 PROVE  callback'.old = callback.new
    OBVIOUS
  <2>2. callback.on
    BY <1>1, <2>1 DEF IInv, ChainInv, TypeOK
  <2>3. CASE notifyReload
    BY <1>1, <2>1, <2>2, <2>3 DEF notifyReload, IInv, ChainInv, ShapeInv
  <2>4. CASE StartWatcher \/ OnReload \/ Receive \/ Read \/ setCurrent \/ ExitWatcher
    BY <2>1, <2>2, <2>4 DEF StartWatcher, OnReload, Receive, Read, setCurrent, ExitWatcher
  <2>5. QED
    BY <1>1, <2>1, <2>3, <2>4, OtherSteps DEF Watch
<1>2. QED
  BY <1>1, SpecInv, PTL DEF Spec, CallbacksSeeAChain
=============================================================================
