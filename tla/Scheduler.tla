------------------------------- MODULE Scheduler -------------------------------
(***************************************************************************)
(* The cron scheduler of src/internal/scheduler/scheduler.go.              *)
(*                                                                         *)
(* One Go process owns a robfig/cron instance (cron, nextID), the two maps *)
(* guarded by Scheduler.mu (entries, jobs) and the goroutines that run a   *)
(* task (runs).  The table scheduled_tasks (db) is all that survives a     *)
(* restart.  A critical section of mu is one step; what the code does with *)
(* mu released - the executor call, the UPDATE - is a step of its own.     *)
(* Cron expressions are "accepted" or "rejected", time is not modelled:    *)
(* an entry may fire whenever it is installed.                             *)
(*                                                                         *)
(* A definition marked "Mutant" is a wrong version of the one after it;    *)
(* it is used only to show that the property it breaks can fail.           *)
(***************************************************************************)
EXTENDS Integers, FiniteSets

CONSTANTS
  Rows,       \* ids that may have a row in scheduled_tasks
  UITask,     \* the id the bindings give every task they schedule: ""
  Slots,      \* bound: task goroutines alive at once
  NoTask,     \* no such task / no such row
  MaxLimit,   \* bound: max_runs and run_count of a row, max_runs from the UI
  MaxEntries, \* bound: cron entries added by one process
  MaxExecs,   \* bound: executions of one task
  MaxBoots    \* bound: processes started

TaskIDs == Rows \cup {UITask}

Task == [id : TaskIDs, enabled : BOOLEAN, maxRuns : Nat, runCount : Nat,
         nextRun : BOOLEAN]      \* nextRun: next_run_at is set

ASSUME SchedulerAssumption ==
  /\ UITask \notin Rows
  /\ NoTask \notin Task
  /\ {MaxLimit, MaxEntries, MaxExecs, MaxBoots} \subseteq Nat

VARIABLES
  db,        \* the table scheduled_tasks: id -> row
  conn,      \* the pool's only connection: "free", or held by the "rows" of LoadFromDB
  loader,    \* LoadFromDB: [pc, todo]
  cron,      \* installed cron entries [eid, task]: each job holds its own copy of the task
  nextID,    \* the next cron.EntryID
  entries,   \* Scheduler.entries, 0 for a missing key
  jobs,      \* Scheduler.jobs
  runs,      \* goroutines in executeTask: slot -> [pc, task]
  boots,     \* processes started so far
  armed,     \* history: the last accepted request about the task was to run it
  executed   \* history: executions of the task ever started

vars == <<db, conn, loader, cron, nextID, entries, jobs, runs, boots, armed, executed>>

-----------------------------------------------------------------------------
\* Rows come from outside: nothing in the repository inserts one.
Row(t) == [id : {t}, enabled : BOOLEAN, maxRuns : 0..MaxLimit,
           runCount : 0..MaxLimit, nextRun : BOOLEAN]

Present(table) == {t \in TaskIDs : table[t] # NoTask}

IdleRun == [pc |-> "idle", task |-> NoTask]

\* What scheduler.New and the start of LoadFromDB leave behind.
FreshProcess(table) ==
  /\ conn' = "rows"
  /\ loader' = [pc |-> "loading", todo |-> Present(table)]
  /\ cron' = {}
  /\ nextID' = 1
  /\ entries' = [t \in TaskIDs |-> 0]
  /\ jobs' = [t \in TaskIDs |-> NoTask]
  /\ runs' = [r \in Slots |-> IdleRun]
  /\ armed' = [t \in TaskIDs |-> FALSE]

Init ==
  /\ db \in {f \in [TaskIDs -> (UNION {Row(t) : t \in Rows}) \cup {NoTask}] :
               \A t \in TaskIDs : f[t] # NoTask => t \in Rows /\ f[t].id = t}
  /\ conn = "rows"
  /\ loader = [pc |-> "loading", todo |-> Present(db)]
  /\ cron = {}
  /\ nextID = 1
  /\ entries = [t \in TaskIDs |-> 0]
  /\ jobs = [t \in TaskIDs |-> NoTask]
  /\ runs = [r \in Slots |-> IdleRun]
  /\ boots = 1
  /\ armed = [t \in TaskIDs |-> FALSE]
  /\ executed = [t \in TaskIDs |-> IF db[t] = NoTask THEN 0 ELSE db[t].runCount]

-----------------------------------------------------------------------------
Exhausted(task) == task.maxRuns > 0 /\ task.runCount >= task.maxRuns

\* Mutant: nothing is removed.
WithoutNone(eid) == cron

\* cron.Remove; the zero EntryID of a missing key removes nothing.
Without(eid) == {c \in cron : c.eid # eid}

\* Remove the entry recorded for the task, then add one for this copy of it.
Install(task) ==
  /\ nextID <= MaxEntries
  /\ cron' = Without(entries[task.id]) \cup {[eid |-> nextID, task |-> task]}
  /\ nextID' = nextID + 1
  /\ entries' = [entries EXCEPT ![task.id] = nextID]
  /\ armed' = [armed EXCEPT ![task.id] = TRUE]

\* Scheduler.Schedule.  A rejected expression returns after the old entry was
\* removed, with entries and jobs still naming it.
Schedule(task) ==
  \/ /\ Exhausted(task)
     /\ UNCHANGED <<cron, nextID, entries, jobs, armed>>
  \/ /\ ~Exhausted(task)
     /\ Install(task)
     /\ jobs' = [jobs EXCEPT ![task.id] = task]
  \/ /\ ~Exhausted(task)
     /\ cron' = Without(entries[task.id])
     /\ UNCHANGED <<nextID, entries, jobs, armed>>

\* go executeTask(task): the executor is called on the goroutine's own copy.
Start(task) ==
  /\ executed[task.id] < MaxExecs
  /\ executed' = [executed EXCEPT ![task.id] = @ + 1]
  /\ \E r \in Slots :
       /\ runs[r].pc = "idle"
       /\ runs' = [runs EXCEPT ![r] = [pc |-> "executing", task |-> task]]

-----------------------------------------------------------------------------
\* LoadFromDB holds the only connection while it walks the rows.
LoadRow(t) ==
  /\ loader.pc = "loading"
  /\ t \in loader.todo
  /\ loader' = [loader EXCEPT !.todo = @ \ {t}]
  /\ \/ db[t].enabled /\ Schedule(db[t])
     \/ UNCHANGED <<cron, nextID, entries, jobs, armed>>  \* disabled, or rows.Scan failed
  /\ UNCHANGED <<db, conn, runs, boots, executed>>

\* Mutant: the rows stay open, as if catchUp were called inside the loop.
LoadRowsKeptOpen ==
  /\ loader.pc = "loading"
  /\ loader.todo = {}
  /\ loader' = [pc |-> "catchup", todo |-> Present(jobs)]
  /\ UNCHANGED <<db, conn, cron, nextID, entries, jobs, runs, boots, armed, executed>>

LoadRowsDone ==
  /\ loader.pc = "loading"
  /\ loader.todo = {}
  /\ conn' = "free"
  /\ loader' = [pc |-> "catchup", todo |-> Present(jobs)]
  /\ UNCHANGED <<db, cron, nextID, entries, jobs, runs, boots, armed, executed>>

\* catchUp ranges over jobs without mu: a step reads whatever is there now.
CatchUp(t) ==
  /\ loader.pc = "catchup"
  /\ t \in loader.todo
  /\ loader' = [loader EXCEPT !.todo = @ \ {t}]
  /\ \/ jobs[t].nextRun /\ Start(jobs[t])
     \/ UNCHANGED <<runs, executed>>      \* not missed, or more than an hour ago
  /\ UNCHANGED <<db, conn, cron, nextID, entries, jobs, boots, armed>>

CatchUpDone ==
  /\ loader.pc = "catchup"
  /\ loader.todo = {}
  /\ loader' = [loader EXCEPT !.pc = "ready"]
  /\ UNCHANGED <<db, conn, cron, nextID, entries, jobs, runs, boots, armed, executed>>

-----------------------------------------------------------------------------
\* The bindings; the window opens once engine.New has returned.
UISchedule(limit) ==
  /\ loader.pc = "ready"
  /\ Schedule([id |-> UITask, enabled |-> TRUE, maxRuns |-> limit,
               runCount |-> 0, nextRun |-> FALSE])
  /\ UNCHANGED <<db, conn, loader, runs, boots, executed>>

\* Only a task with an entry is forgotten; otherwise jobs keeps it.
Unschedule(t) ==
  /\ loader.pc = "ready"
  /\ \/ /\ entries[t] # 0
        /\ cron' = Without(entries[t])
        /\ entries' = [entries EXCEPT ![t] = 0]
        /\ jobs' = [jobs EXCEPT ![t] = NoTask]
     \/ /\ entries[t] = 0
        /\ UNCHANGED <<cron, entries, jobs>>
  /\ armed' = [armed EXCEPT ![t] = FALSE]
  /\ UNCHANGED <<db, conn, loader, nextID, runs, boots, executed>>

\* The expression in jobs was accepted before, so AddFunc accepts it again;
\* max_runs is not looked at.
ToggleOn(t) ==
  /\ loader.pc = "ready"
  /\ jobs[t] # NoTask
  /\ LET task == [jobs[t] EXCEPT !.enabled = TRUE]
     IN  /\ Install(task)
         /\ jobs' = [jobs EXCEPT ![t] = task]
  /\ UNCHANGED <<db, conn, loader, runs, boots, executed>>

ToggleOff(t) ==
  /\ loader.pc = "ready"
  /\ jobs[t] # NoTask
  /\ cron' = Without(entries[t])
  /\ entries' = [entries EXCEPT ![t] = 0]
  /\ jobs' = [jobs EXCEPT ![t].enabled = FALSE]
  /\ armed' = [armed EXCEPT ![t] = FALSE]
  /\ UNCHANGED <<db, conn, loader, nextID, runs, boots, executed>>

-----------------------------------------------------------------------------
\* cron starts the job's goroutine; two firings of one entry may overlap.
Fire(c) ==
  /\ Start(c.task)
  /\ UNCHANGED <<db, conn, loader, cron, nextID, entries, jobs, boots, armed>>

\* The critical section of executeTask after the executor has returned.
Count(r) ==
  /\ runs[r].pc = "executing"
  /\ LET task == [runs[r].task EXCEPT !.runCount = @ + 1]
         done == Exhausted(task)
     IN  /\ runs' = [runs EXCEPT ![r] = [pc |-> "counted", task |-> task]]
         /\ jobs' = [jobs EXCEPT ![task.id] = task]
         /\ cron' = IF done THEN Without(entries[task.id]) ELSE cron
         /\ entries' = IF done THEN [entries EXCEPT ![task.id] = 0] ELSE entries
  /\ UNCHANGED <<db, conn, loader, nextID, boots, armed, executed>>

\* Mutant: run_count = run_count + ?.
UpdatedTwice(row, task) == [row EXCEPT !.runCount = @ + task.runCount]

\* The UPDATE sets the row's count to that of the goroutine's copy.
Updated(row, task) == [row EXCEPT !.runCount = task.runCount]

\* The UPDATE waits for the connection; it changes no row when there is none.
Persist(r) ==
  /\ runs[r].pc = "counted"
  /\ conn = "free"
  /\ LET task == runs[r].task
     IN  db' = IF db[task.id] = NoTask THEN db
               ELSE [db EXCEPT ![task.id] = Updated(@, task)]
  /\ runs' = [runs EXCEPT ![r] = IdleRun]
  /\ UNCHANGED <<conn, loader, cron, nextID, entries, jobs, boots, armed, executed>>

\* The process ends at any point - goroutines in flight are lost, nothing
\* joins them - and a new one loads the table.
Restart ==
  /\ boots < MaxBoots
  /\ boots' = boots + 1
  /\ FreshProcess(db)
  /\ UNCHANGED <<db, executed>>

-----------------------------------------------------------------------------
Load == (\E t \in TaskIDs : LoadRow(t) \/ CatchUp(t)) \/ LoadRowsDone \/ CatchUpDone

UI ==
  \/ \E limit \in 0..MaxLimit : UISchedule(limit)
  \/ \E t \in TaskIDs : Unschedule(t) \/ ToggleOn(t) \/ ToggleOff(t)

Goroutine(r) == Count(r) \/ Persist(r)

Next ==
  \/ Load
  \/ UI
  \/ \E c \in cron : Fire(c)
  \/ \E r \in Slots : Goroutine(r)
  \/ Restart

Spec == Init /\ [][Next]_vars

\* The executor runs under a five-minute timeout and LoadFromDB calls nothing
\* that can block for ever; cron, the user and the end of the process are free.
FairSpec == Spec /\ WF_vars(Load) /\ \A r \in Slots : WF_vars(Goroutine(r))

-----------------------------------------------------------------------------
\* The type of the state.
TypeOK ==
  /\ db \in [TaskIDs -> Task \cup {NoTask}]
  /\ conn \in {"free", "rows"}
  /\ loader \in [pc : {"loading", "catchup", "ready"}, todo : SUBSET TaskIDs]
  /\ cron \in SUBSET [eid : Nat \ {0}, task : Task]
  /\ nextID \in Nat \ {0}
  /\ entries \in [TaskIDs -> Nat]
  /\ jobs \in [TaskIDs -> Task \cup {NoTask}]
  /\ runs \in [Slots -> [pc : {"executing", "counted"}, task : Task] \cup {IdleRun}]
  /\ boots \in Nat
  /\ armed \in [TaskIDs -> BOOLEAN]
  /\ executed \in [TaskIDs -> Nat]

\* Every entry installed in cron is the one the entries map records for its
\* task: a task has at most one entry, and no entry fires that Unschedule,
\* Toggle or the max_runs check could not remove.
OneEntryPerTask == \A c \in cron : entries[c.task.id] = c.eid

\* No execution of a task starts, from cron or from the catch-up, after an
\* Unschedule or a Toggle(false) until the task is scheduled or enabled again,
\* whatever executions of it were in flight.
NothingFiresOnceDisarmed ==
  [][\A t \in TaskIDs : executed'[t] > executed[t] => armed[t]]_vars

\* The run count the scheduler shows and the one it persists never exceed the
\* executions that really started, across overlapping runs, toggles, catch-up
\* runs and restarts.
RunCountNeverOvercounts ==
  \A t \in TaskIDs :
    /\ db[t] # NoTask => db[t].runCount <= executed[t]
    /\ jobs[t] # NoTask => jobs[t].runCount <= executed[t]

\* While LoadFromDB walks the rows, only tasks whose row is enabled and has
\* runs left are installed: the connection it holds keeps the UPDATE of a task
\* that already fired from changing a row under it.
LoadArmsOnlyRunnableRows ==
  loader.pc = "loading" =>
    \A c \in cron : LET row == db[c.task.id]
                    IN  row # NoTask /\ row.enabled /\ ~Exhausted(row)

\* Every execution is eventually counted and its UPDATE done (or the process
\* ended): LoadFromDB gives the only connection back.
RunsSettle ==
  \A r \in Slots : runs[r].pc = "executing" ~> runs[r].pc = "idle"

-----------------------------------------------------------------------------
\* What the documentation says and the code does not do.

\* docs/spec.md "Max runs limit (0 = unlimited)", "Test: max_runs stops": cron
\* does not execute a row with a limit again once it was executed that often.
MaxRunsRespected ==
  [][\A t \in Rows : /\ executed'[t] > executed[t]
                     /\ loader.pc = "ready"
                     /\ db[t].maxRuns > 0
                     => executed[t] < db[t].maxRuns]_vars
=============================================================================
