------------------------------- MODULE Lifecycle -------------------------------
(***************************************************************************)
(* The life of one Nala process once its configuration is loaded:          *)
(* src/internal/engine/engine.go (Start, handleSignals, Shutdown),         *)
(* src/internal/config/config.go (the watcher and hot reload) and          *)
(* src/main.go (the window).  The concurrent parts are the user saving     *)
(* config.toml, the watcher goroutine, the signal goroutine of Start, and   *)
(* the goroutine of every Shutdown call: one for a signal and one for the  *)
(* window.  The workers Start launches are in other modules.               *)
(*                                                                         *)
(* Time is not modelled: a timeout may always expire.                      *)
(*                                                                         *)
(* A definition marked "Mutant" is a wrong version of the one after it;    *)
(* it is used only to show that the property it breaks can fail.           *)
(***************************************************************************)
EXTENDS Settings, FiniteSets

CONSTANTS
  Contents,  \* what the user may save in config.toml
  NoConfig,  \* not a configuration
  MaxSaves   \* bound: saves by the user

ASSUME LifecycleAssumption ==
  /\ \E f \in Contents : f # Malformed /\ Loadable(f)
  /\ MaxSaves \in Nat

Calls == {"signal", "window"}  \* callers of Shutdown

VARIABLES
  file,      \* config.toml
  saves,     \* saves begun by the user
  editor,    \* contents a save has truncated the file for, or NoConfig
  current,   \* config.current
  events,    \* undelivered write and create events of config.toml
  watcher,   \* the global: "nil", "open" or "closed" (not nil, but closed)
  reload,    \* the watcher goroutine: [pc, old, new]
  callback,  \* a callback of OnReload: [on, old, new], the arguments of its last call
  started,   \* Start was called
  cancelled, \* the context of Start is cancelled
  signals,   \* the goroutine of handleSignals: "none", "listening" or "gone"
  shut,      \* call -> the steps of its goroutine
  wait,      \* call -> Shutdown itself: "none", "select", "complete" or "fatal"
  conn,      \* the database handle: "open" or "closed"
  main       \* the process: "new", "window", "closing", "exited" or "panicked"

config == <<file, saves, editor, current, events, watcher, reload, callback>>
engine == <<started, cancelled, signals, shut, wait, conn, main>>
vars == <<config, engine>>

Empty == [f \in {} |-> 0]

Alive == main \in {"new", "window", "closing"}

Init ==
  /\ file \in {f \in Contents : Loadable(f)}
  /\ current = Loaded(file)
  /\ saves = 0 /\ editor = NoConfig /\ events = 0
  /\ watcher = "nil"
  /\ reload = [pc |-> "off", old |-> NoConfig, new |-> NoConfig]
  /\ callback = [on |-> FALSE, old |-> NoConfig, new |-> NoConfig]
  /\ started = FALSE /\ cancelled = FALSE /\ signals = "none"
  /\ shut = [c \in Calls |-> "none"]
  /\ wait = [c \in Calls |-> "none"]
  /\ conn = "open"
  /\ main = "new"

-----------------------------------------------------------------------------
(***************************************************************************)
(* The user saves config.toml, in place or by renaming a new file over it. *)
(* The kernel queues an event when somebody watches.                       *)
(***************************************************************************)
Notify == events' = IF watcher = "open" THEN events + 1 ELSE events

Truncate(f) ==
  /\ saves < MaxSaves /\ editor = NoConfig
  /\ saves' = saves + 1
  /\ file' = Empty
  /\ editor' = f
  /\ Notify
  /\ UNCHANGED <<current, watcher, reload, callback, engine>>

Write ==
  /\ editor # NoConfig
  /\ file' = editor
  /\ editor' = NoConfig
  /\ Notify
  /\ UNCHANGED <<saves, current, watcher, reload, callback, engine>>

Rename(f) ==
  /\ saves < MaxSaves /\ editor = NoConfig
  /\ saves' = saves + 1
  /\ file' = f
  /\ Notify
  /\ UNCHANGED <<editor, current, watcher, reload, callback, engine>>

-----------------------------------------------------------------------------
(***************************************************************************)
(* The end of engine.New, and the watcher goroutine.                       *)
(***************************************************************************)
\* A watcher that cannot be created is only logged: nothing is reloaded then.
StartWatcher ==
  /\ main = "new"
  /\ main' = "window"
  /\ \/ /\ watcher' = "open"
        /\ reload' = [reload EXCEPT !.pc = "select"]
     \/ UNCHANGED <<watcher, reload>>
  /\ UNCHANGED <<file, saves, editor, current, events, callback,
                 started, cancelled, signals, shut, wait, conn>>

OnReload ==
  /\ Alive /\ ~callback.on
  /\ callback' = [callback EXCEPT !.on = TRUE]
  /\ UNCHANGED <<file, saves, editor, current, events, watcher, reload, engine>>

\* An event arrives: old is read before the file is.
Receive ==
  /\ Alive
  /\ reload.pc = "select" /\ watcher = "open" /\ events > 0
  /\ events' = events - 1
  /\ reload' = [reload EXCEPT !.pc = "read", !.old = current]
  /\ UNCHANGED <<file, saves, editor, current, watcher, callback, engine>>

\* Mutant: the loop is left on an error.
ReadOnce ==
  /\ Alive
  /\ reload.pc = "read"
  /\ reload' = IF Loadable(file)
               THEN [reload EXCEPT !.pc = "set", !.new = Loaded(file)]
               ELSE [reload EXCEPT !.pc = "exited", !.old = NoConfig]
  /\ UNCHANGED <<file, saves, editor, current, events, watcher, callback, engine>>

\* The file is decoded over the defaults, overridden and validated; what is
\* refused is only logged.
Read ==
  /\ Alive
  /\ reload.pc = "read"
  /\ reload' = IF Loadable(file)
               THEN [reload EXCEPT !.pc = "set", !.new = Loaded(file)]
               ELSE [reload EXCEPT !.pc = "select", !.old = NoConfig]
  /\ UNCHANGED <<file, saves, editor, current, events, watcher, callback, engine>>

setCurrent ==
  /\ Alive
  /\ reload.pc = "set"
  /\ current' = reload.new
  /\ reload' = [reload EXCEPT !.pc = "notify"]
  /\ UNCHANGED <<file, saves, editor, events, watcher, callback, engine>>

\* Mutant: the callbacks are told the configuration in force as the old one.
notifyCurrent ==
  /\ Alive
  /\ reload.pc = "notify"
  /\ callback' = IF callback.on
                 THEN [callback EXCEPT !.old = current, !.new = reload.new]
                 ELSE callback
  /\ reload' = [pc |-> "select", old |-> NoConfig, new |-> NoConfig]
  /\ UNCHANGED <<file, saves, editor, current, events, watcher, engine>>

notifyReload ==
  /\ Alive
  /\ reload.pc = "notify"
  /\ callback' = IF callback.on
                 THEN [callback EXCEPT !.old = reload.old, !.new = reload.new]
                 ELSE callback
  /\ reload' = [pc |-> "select", old |-> NoConfig, new |-> NoConfig]
  /\ UNCHANGED <<file, saves, editor, current, events, watcher, engine>>

\* The channel is closed: the goroutine ends and closes watcherDone.
ExitWatcher ==
  /\ Alive
  /\ reload.pc = "select" /\ watcher = "closed"
  /\ reload' = [reload EXCEPT !.pc = "exited"]
  /\ UNCHANGED <<file, saves, editor, current, events, watcher, callback, engine>>

-----------------------------------------------------------------------------
(***************************************************************************)
(* Engine.Start and the signal goroutine.                                  *)
(***************************************************************************)
Start ==
  /\ main = "window" /\ ~started /\ \A c \in Calls : wait[c] = "none"
  /\ started' = TRUE
  /\ signals' = "listening"
  /\ UNCHANGED <<config, cancelled, shut, wait, conn, main>>

\* Shutdown begins: its goroutine runs beside the wait for it.
Shutdown(c) ==
  /\ shut' = [shut EXCEPT ![c] = "cancel"]
  /\ wait' = [wait EXCEPT ![c] = "select"]

\* Mutant: the goroutine calls Shutdown itself, and is still counted by
\* sigWg while Shutdown waits for it.
SignalInline ==
  /\ Alive
  /\ signals = "listening" /\ wait["signal"] = "none"
  /\ Shutdown("signal")
  /\ UNCHANGED <<config, started, cancelled, signals, conn, main>>

\* SIGINT or SIGTERM: another goroutine shuts down, this one ends.
Signal ==
  /\ Alive
  /\ signals = "listening" /\ wait["signal"] = "none"
  /\ Shutdown("signal")
  /\ signals' = "gone"
  /\ UNCHANGED <<config, started, cancelled, conn, main>>

SignalsDone ==
  /\ Alive
  /\ signals = "listening" /\ cancelled /\ wait["signal"] = "none"
  /\ signals' = "gone"
  /\ UNCHANGED <<config, started, cancelled, shut, wait, conn, main>>

\* The window is closed: OnShutdown, with a timeout of 30 nanoseconds.
CloseWindow ==
  /\ main = "window"
  /\ main' = "closing"
  /\ Shutdown("window")
  /\ UNCHANGED <<config, started, cancelled, signals, conn>>

-----------------------------------------------------------------------------
(***************************************************************************)
(* The goroutine of a Shutdown call c.                                     *)
(***************************************************************************)
ShutStep(c, from, to) ==
  /\ Alive
  /\ shut[c] = from
  /\ shut' = [shut EXCEPT ![c] = to]

Cancel(c) ==
  /\ ShutStep(c, "cancel", "join")
  /\ cancelled' = (cancelled \/ started)
  /\ UNCHANGED <<config, started, signals, wait, conn, main>>

SigWait(c) ==
  /\ signals # "listening"
  /\ ShutStep(c, "join", "stop")
  /\ UNCHANGED <<config, started, cancelled, signals, wait, conn, main>>

\* StopWatcher looks at the global once ...
StopWatcher(c) ==
  /\ ShutStep(c, "stop", IF watcher = "nil" THEN "db" ELSE "close")
  /\ UNCHANGED <<config, started, cancelled, signals, wait, conn, main>>

\* ... and again to close it: the other call may have set it to nil meanwhile,
\* and a nil watcher's Close panics.
CloseWatcher(c) ==
  /\ ShutStep(c, "close", "done?")
  /\ IF watcher = "nil"
     THEN main' = "panicked" /\ UNCHANGED watcher
     ELSE watcher' = "closed" /\ UNCHANGED main
  /\ UNCHANGED <<file, saves, editor, current, events, reload, callback>>
  /\ UNCHANGED <<started, cancelled, signals, wait, conn>>

\* Mutant: nobody waits for the goroutine.
ForgetWatcher(c) ==
  /\ ShutStep(c, "done?", "db")
  /\ watcher' = "nil"
  /\ UNCHANGED <<file, saves, editor, current, events, reload, callback>>
  /\ UNCHANGED <<started, cancelled, signals, wait, conn, main>>

AwaitWatcher(c) ==
  /\ reload.pc = "exited"
  /\ ShutStep(c, "done?", "db")
  /\ watcher' = "nil"
  /\ UNCHANGED <<file, saves, editor, current, events, reload, callback>>
  /\ UNCHANGED <<started, cancelled, signals, wait, conn, main>>

CloseDB(c) ==
  /\ ShutStep(c, "db", "done")
  /\ conn' = "closed"
  /\ UNCHANGED <<config, started, cancelled, signals, wait, main>>

\* Shutdown returns; a window that was closed takes the process with it.
Complete(c) ==
  /\ Alive
  /\ wait[c] = "select" /\ shut[c] = "done"
  /\ wait' = [wait EXCEPT ![c] = "complete"]
  /\ main' = IF c = "window" THEN "exited" ELSE main
  /\ UNCHANGED <<config, started, cancelled, signals, shut, conn>>

\* time.After fires first: os.Exit(1), for main calls no SetOnFatal.
Timeout(c) ==
  /\ Alive
  /\ wait[c] = "select"
  /\ wait' = [wait EXCEPT ![c] = "fatal"]
  /\ main' = "exited"
  /\ UNCHANGED <<config, started, cancelled, signals, shut, conn>>

\* Quit in the menu is os.Exit(0); the process may also be killed.
Quit ==
  /\ Alive
  /\ main' = "exited"
  /\ UNCHANGED <<config, started, cancelled, signals, shut, wait, conn>>

-----------------------------------------------------------------------------
User ==
  \/ \E f \in Contents : Truncate(f) \/ Rename(f)
  \/ Write \/ OnReload \/ Signal \/ CloseWindow \/ Quit

Watch == Receive \/ Read \/ setCurrent \/ notifyReload \/ ExitWatcher

Close(c) ==
  \/ Cancel(c) \/ SigWait(c) \/ StopWatcher(c) \/ CloseWatcher(c)
  \/ AwaitWatcher(c) \/ CloseDB(c) \/ Complete(c)

Next ==
  \/ User
  \/ StartWatcher \/ Start \/ SignalsDone
  \/ Watch
  \/ \E c \in Calls : Close(c) \/ Timeout(c)

Spec == Init /\ [][Next]_vars

\* Goroutines that can go on do; nobody has to save, signal, close or time out.
Fairness ==
  /\ WF_vars(Watch) /\ WF_vars(SignalsDone)
  /\ \A c \in Calls : WF_vars(Close(c))

FairSpec == Spec /\ Fairness

-----------------------------------------------------------------------------
\* A configuration of the program: of the same fields, whatever their values.
IsConfig(c) == DOMAIN c = Fields

TypeOK ==
  /\ file \in Contents \cup {Empty} /\ saves \in 0..MaxSaves
  /\ editor \in Contents \cup {NoConfig}
  /\ IsConfig(current)
  /\ events \in Nat
  /\ watcher \in {"nil", "open", "closed"}
  /\ reload.pc \in {"off", "select", "read", "set", "notify", "exited"}
  /\ callback.on \in BOOLEAN
  /\ started \in BOOLEAN /\ cancelled \in BOOLEAN
  /\ signals \in {"none", "listening", "gone"}
  /\ shut \in [Calls -> {"none", "cancel", "join", "stop", "close", "done?", "db", "done"}]
  /\ wait \in [Calls -> {"none", "select", "complete", "fatal"}]
  /\ conn \in {"open", "closed"}
  /\ main \in {"new", "window", "closing", "exited", "panicked"}

\* Whatever is saved, and whenever the watcher reads it, the configuration in
\* force has a port, a theme and a language the program can use and a known
\* log level (the watcher goroutine validates before setCurrent).
CurrentIsUsable ==
  Accepted(current) /\ current.core_log_level \in {"debug", "info", "warn", "error"}

\* Hot reload catches up: if the file stays loadable while the watcher is
\* open, the configuration in force becomes the file's, after any number of
\* saves that were half-written or refused (the watcher's continue).  A save
\* between Load and StartWatcher is the exception: no event tells of it, so
\* the property asks for an event that is still to be handled.
ReloadCatchesUp ==
  (watcher = "open" /\ events > 0)
    ~> \/ ~Loadable(file)
       \/ current = Loaded(file)
       \/ watcher # "open" \/ ~Alive

\* Each call of a callback begins where the previous one ended: no change of
\* the configuration is told twice and none is left out (old is read before
\* setCurrent, by the only goroutine that sets it).
CallbacksSeeAChain ==
  [][callback.new # NoConfig /\ callback' # callback => callback'.old = callback.new]_callback

\* The database is closed only after the watcher goroutine has ended, however
\* two Shutdown calls interleave: no reload runs on a closed engine
\* (StopWatcher's receive from watcherDone, Shutdown's order).
NoReloadAfterClose ==
  conn = "closed" => reload.pc \in {"off", "exited"}

\* A Shutdown call gets through to the database, or the process ends: it does
\* not wait for itself or for the watcher for ever, even if no timeout fires
\* (handleSignals starts Shutdown in a goroutine of its own).
ShutdownCloses ==
  (\E c \in Calls : wait[c] = "select") ~> (conn = "closed" \/ ~Alive)
=============================================================================
