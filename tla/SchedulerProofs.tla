---------------------------- MODULE SchedulerProofs ----------------------------
(***************************************************************************)
(* TLAPS proofs about Scheduler, for every set of rows, every number of    *)
(* concurrent executions and every bound.                                  *)
(***************************************************************************)
EXTENDS Scheduler, TLAPS

\* The rows and jobs carry their own key, and LoadFromDB only visits what is there.
KeysOK ==
  /\ \A t \in TaskIDs : db[t] # NoTask => db[t].id = t
  /\ \A t \in TaskIDs : jobs[t] # NoTask => jobs[t].id = t
  /\ loader.pc = "loading" => loader.todo \subseteq Present(db)
  /\ loader.pc = "catchup" => loader.todo \subseteq Present(jobs)

WellFormed == TypeOK /\ KeysOK

-----------------------------------------------------------------------------
\* Installing a well-typed task keeps the cron table and its maps well typed.
LEMMA InstallType ==
  ASSUME TypeOK, NEW task \in Task, Install(task)
  PROVE  /\ cron' \in SUBSET [eid : Nat \ {0}, task : Task]
         /\ nextID' \in Nat \ {0}
         /\ entries' \in [TaskIDs -> Nat]
         /\ armed' \in [TaskIDs -> BOOLEAN]
BY DEF TypeOK, Install, Without, Task

\* So does Schedule, whichever of its three outcomes it has.
LEMMA ScheduleType ==
  ASSUME WellFormed, NEW task \in Task, Schedule(task)
  PROVE  /\ cron' \in SUBSET [eid : Nat \ {0}, task : Task]
         /\ nextID' \in Nat \ {0}
         /\ entries' \in [TaskIDs -> Nat]
         /\ armed' \in [TaskIDs -> BOOLEAN]
         /\ jobs' \in [TaskIDs -> Task \cup {NoTask}]
         /\ \A t \in TaskIDs : jobs'[t] # NoTask => jobs'[t].id = t
         /\ Present(jobs) \subseteq Present(jobs')
<1>1. CASE Exhausted(task) /\ UNCHANGED <<cron, nextID, entries, jobs, armed>>
  BY <1>1 DEF WellFormed, TypeOK, KeysOK, Present
<1>2. CASE Install(task) /\ jobs' = [jobs EXCEPT ![task.id] = task]
  <2>1. task.id \in TaskIDs /\ task # NoTask
    BY SchedulerAssumption DEF Task
  <2>2. QED
    BY <1>2, <2>1, InstallType DEF WellFormed, TypeOK, KeysOK, Present
<1>3. CASE cron' = Without(entries[task.id]) /\ UNCHANGED <<nextID, entries, jobs, armed>>
  BY <1>3 DEF WellFormed, TypeOK, KeysOK, Present, Without
<1>4. QED
  BY <1>1, <1>2, <1>3 DEF Schedule

\* Starting an execution puts the task in a slot.
LEMMA StartType ==
  ASSUME TypeOK, NEW task \in Task, Start(task)
  PROVE  /\ runs' \in [Slots -> [pc : {"executing", "counted"}, task : Task] \cup {IdleRun}]
         /\ executed' \in [TaskIDs -> Nat]
BY DEF TypeOK, Start, Task

LEMMA InitWellFormed == Init => WellFormed
<1> SUFFICES ASSUME Init PROVE WellFormed
  OBVIOUS
<1>1. \A t \in Rows : Row(t) \subseteq Task
  BY SchedulerAssumption DEF Row, Task, TaskIDs
<1>2. db \in [TaskIDs -> Task \cup {NoTask}]
  BY <1>1 DEF Init
<1>3. \A t \in TaskIDs : db[t] # NoTask => db[t].runCount \in Nat
  BY <1>2 DEF Task
<1>4. executed \in [TaskIDs -> Nat]
  BY <1>3 DEF Init
<1>5. QED
  BY <1>2, <1>4 DEF Init, WellFormed, TypeOK, KeysOK, Present, IdleRun

LEMMA RestartWellFormed == WellFormed /\ Restart => WellFormed'
BY DEF WellFormed, TypeOK, KeysOK, Restart, FreshProcess, Present, IdleRun

LEMMA LoadWellFormed == WellFormed /\ Load => WellFormed'
<1> SUFFICES ASSUME WellFormed, Load PROVE WellFormed'
  OBVIOUS
<1>1. ASSUME NEW t \in TaskIDs, LoadRow(t) PROVE WellFormed'
  <2>1. db[t] \in Task
    BY <1>1 DEF LoadRow, WellFormed, TypeOK, KeysOK, Present
  <2>2. CASE Schedule(db[t])
    BY <1>1, <2>1, <2>2, ScheduleType DEF LoadRow, WellFormed, TypeOK, KeysOK, Present
  <2>3. CASE UNCHANGED <<cron, nextID, entries, jobs, armed>>
    BY <1>1, <2>3 DEF LoadRow, WellFormed, TypeOK, KeysOK, Present
  <2>4. QED
    BY <1>1, <2>2, <2>3 DEF LoadRow
<1>2. ASSUME NEW t \in TaskIDs, CatchUp(t) PROVE WellFormed'
  <2>1. jobs[t] \in Task
    BY <1>2 DEF CatchUp, WellFormed, TypeOK, KeysOK, Present
  <2>2. CASE Start(jobs[t])
    BY <1>2, <2>1, <2>2, StartType DEF CatchUp, WellFormed, TypeOK, KeysOK, Present
  <2>3. CASE UNCHANGED <<runs, executed>>
    BY <1>2, <2>3 DEF CatchUp, WellFormed, TypeOK, KeysOK, Present
  <2>4. QED
    BY <1>2, <2>2, <2>3 DEF CatchUp
<1>3. CASE LoadRowsDone
  BY <1>3 DEF LoadRowsDone, WellFormed, TypeOK, KeysOK, Present
<1>4. CASE CatchUpDone
  BY <1>4 DEF CatchUpDone, WellFormed, TypeOK, KeysOK, Present
<1>5. QED
  BY <1>1, <1>2, <1>3, <1>4 DEF Load

\* What Toggle does to a task value.
LEMMA SetEnabled ==
  ASSUME NEW task \in Task, NEW on \in BOOLEAN
  PROVE  /\ [task EXCEPT !.enabled = on] \in Task
         /\ [task EXCEPT !.enabled = on].id = task.id
         /\ [task EXCEPT !.enabled = on].runCount = task.runCount
         /\ [task EXCEPT !.enabled = on] # NoTask
<1>1. [task EXCEPT !.enabled = on] \in Task
  BY DEF Task
<1>2. [task EXCEPT !.enabled = on].id = task.id
  BY DEF Task
<1>3. [task EXCEPT !.enabled = on].runCount = task.runCount
  BY DEF Task
<1>4. QED
  BY <1>1, <1>2, <1>3, SchedulerAssumption

LEMMA UIWellFormed == WellFormed /\ UI => WellFormed'
<1> SUFFICES ASSUME WellFormed, UI PROVE WellFormed'
  OBVIOUS
<1>1. ASSUME NEW limit \in 0..MaxLimit, UISchedule(limit) PROVE WellFormed'
  <2> DEFINE task == [id |-> UITask, enabled |-> TRUE, maxRuns |-> limit,
                      runCount |-> 0, nextRun |-> FALSE]
  <2>1. task \in Task
    BY SchedulerAssumption DEF Task, TaskIDs
  <2>2. Schedule(task)
    BY <1>1 DEF UISchedule
  <2> HIDE DEF task
  <2>3. QED
    BY <1>1, <2>1, <2>2, ScheduleType DEF UISchedule, WellFormed, TypeOK, KeysOK, Present
<1>2. ASSUME NEW t \in TaskIDs, Unschedule(t) PROVE WellFormed'
  BY <1>2 DEF Unschedule, WellFormed, TypeOK, KeysOK, Present, Without
<1>3. ASSUME NEW t \in TaskIDs, ToggleOn(t) PROVE WellFormed'
  <2> DEFINE task == [jobs[t] EXCEPT !.enabled = TRUE]
  <2>1. jobs[t] \in Task /\ jobs[t].id = t
    BY <1>3 DEF ToggleOn, WellFormed, TypeOK, KeysOK
  <2>2. task \in Task /\ task.id = t /\ task # NoTask
    BY <2>1, SetEnabled
  <2>3. Install(task) /\ jobs' = [jobs EXCEPT ![t] = task]
    BY <1>3 DEF ToggleOn
  <2>4. UNCHANGED <<db, conn, loader, runs, boots, executed>> /\ loader.pc = "ready"
    BY <1>3 DEF ToggleOn
  <2> HIDE DEF task
  <2>5. QED
    BY <2>2, <2>3, <2>4, InstallType DEF WellFormed, TypeOK, KeysOK, Present
<1>4. ASSUME NEW t \in TaskIDs, ToggleOff(t) PROVE WellFormed'
  <2> DEFINE task == [jobs[t] EXCEPT !.enabled = FALSE]
  <2>1. jobs[t] \in Task /\ jobs[t].id = t
    BY <1>4 DEF ToggleOff, WellFormed, TypeOK, KeysOK
  <2>2. task \in Task /\ task.id = t /\ task # NoTask
    BY <2>1, SetEnabled
  <2>3. jobs' = [jobs EXCEPT ![t] = task]
    BY <1>4 DEF ToggleOff
  <2>4. /\ cron' = Without(entries[t])
        /\ entries' = [entries EXCEPT ![t] = 0]
        /\ armed' = [armed EXCEPT ![t] = FALSE]
        /\ UNCHANGED <<db, conn, loader, nextID, runs, boots, executed>>
        /\ loader.pc = "ready"
    BY <1>4 DEF ToggleOff
  <2> HIDE DEF task
  <2>5. QED
    BY <2>2, <2>3, <2>4 DEF WellFormed, TypeOK, KeysOK, Present, Without
<1>5. QED
  BY <1>1, <1>2, <1>3, <1>4 DEF UI

\* The copy a goroutine puts back in jobs, with its count raised.
LEMMA CountedTask ==
  ASSUME TypeOK, NEW r \in Slots, runs[r].pc # "idle"
  PROVE  /\ runs[r].task \in Task
         /\ runs[r].pc \in {"executing", "counted"}
         /\ [runs[r].task EXCEPT !.runCount = @ + 1] \in Task
         /\ [runs[r].task EXCEPT !.runCount = @ + 1].id = runs[r].task.id
         /\ [runs[r].task EXCEPT !.runCount = @ + 1].runCount = runs[r].task.runCount + 1
<1>1. runs[r] \in [pc : {"executing", "counted"}, task : Task]
  BY DEF TypeOK, IdleRun
<1>2. QED
  BY <1>1 DEF Task

LEMMA GoroutineWellFormed ==
  ASSUME WellFormed, NEW r \in Slots, Goroutine(r)
  PROVE  WellFormed'
<1>1. CASE Count(r)
  <2> DEFINE task == [runs[r].task EXCEPT !.runCount = @ + 1]
  <2>1. task \in Task /\ task.id \in TaskIDs /\ task # NoTask
    BY <1>1, CountedTask, SchedulerAssumption DEF Count, WellFormed, Task
  <2>2. /\ runs' = [runs EXCEPT ![r] = [pc |-> "counted", task |-> task]]
        /\ jobs' = [jobs EXCEPT ![task.id] = task]
        /\ cron' = IF Exhausted(task) THEN Without(entries[task.id]) ELSE cron
        /\ entries' = IF Exhausted(task) THEN [entries EXCEPT ![task.id] = 0] ELSE entries
        /\ UNCHANGED <<db, conn, loader, nextID, boots, armed, executed>>
    BY <1>1 DEF Count
  <2> HIDE DEF task
  <2>3. runs' \in [Slots -> [pc : {"executing", "counted"}, task : Task] \cup {IdleRun}]
    BY <2>1, <2>2 DEF WellFormed, TypeOK
  <2>4. cron' \in SUBSET [eid : Nat \ {0}, task : Task] /\ entries' \in [TaskIDs -> Nat]
    BY <2>1, <2>2 DEF WellFormed, TypeOK, Without
  <2>5. QED
    BY <2>1, <2>2, <2>3, <2>4 DEF WellFormed, TypeOK, KeysOK, Present
<1>2. CASE Persist(r)
  <2>1. runs[r].task \in Task /\ runs[r].task.id \in TaskIDs /\ runs[r].task.runCount \in Nat
    BY <1>2, CountedTask DEF Persist, WellFormed, Task
  <2>2. \A t \in TaskIDs : db[t] # NoTask =>
          /\ [db[t] EXCEPT !.runCount = runs[r].task.runCount] \in Task
          /\ [db[t] EXCEPT !.runCount = runs[r].task.runCount].id = t
          /\ [db[t] EXCEPT !.runCount = runs[r].task.runCount] # NoTask
    BY <2>1, SchedulerAssumption DEF WellFormed, TypeOK, KeysOK, Task
  <2>3. db' \in [TaskIDs -> Task \cup {NoTask}] /\ Present(db') = Present(db)
    BY <1>2, <2>1, <2>2 DEF Persist, Updated, WellFormed, TypeOK, Present
  <2>4. \A t \in TaskIDs : db'[t] # NoTask => db'[t].id = t
    BY <1>2, <2>1, <2>2 DEF Persist, Updated, WellFormed, TypeOK, KeysOK
  <2>5. QED
    BY <1>2, <2>3, <2>4 DEF Persist, WellFormed, TypeOK, KeysOK, Present
<1>3. QED
  BY <1>1, <1>2 DEF Goroutine

\* The state keeps its type, and the maps their keys.
THEOREM WellFormedAlways == Spec => []WellFormed
<1>1. WellFormed /\ [Next]_vars => WellFormed'
  <2> SUFFICES ASSUME WellFormed, [Next]_vars PROVE WellFormed'
    OBVIOUS
  <2>1. CASE Load
    BY <2>1, LoadWellFormed
  <2>2. CASE UI
    BY <2>2, UIWellFormed
  <2>3. ASSUME NEW c \in cron, Fire(c) PROVE WellFormed'
    <3>1. c.task \in Task
      BY DEF WellFormed, TypeOK
    <3>2. QED
      BY <2>3, <3>1, StartType DEF Fire, WellFormed, TypeOK, KeysOK, Present
  <2>4. ASSUME NEW r \in Slots, Goroutine(r) PROVE WellFormed'
    BY <2>4, GoroutineWellFormed
  <2>5. CASE Restart
    BY <2>5, RestartWellFormed
  <2>6. CASE UNCHANGED vars
    BY <2>6 DEF vars, WellFormed, TypeOK, KeysOK, Present
  <2>7. QED
    BY <2>1, <2>2, <2>3, <2>4, <2>5, <2>6 DEF Next
<1>2. QED
  BY <1>1, InitWellFormed, PTL DEF Spec

\* Every reachable state has the type TypeOK gives it.
THEOREM TypeCorrect == Spec => []TypeOK
<1>1. WellFormed => TypeOK
  BY DEF WellFormed
<1>2. QED
  BY <1>1, WellFormedAlways, PTL

-----------------------------------------------------------------------------
\* What a step may do to cron and entries: remove the entry recorded for one
\* task (and forget it), replace it by a new one, or leave a dangling record.
CronStep ==
  \/ UNCHANGED <<cron, entries>>
  \/ \E t \in TaskIDs : /\ cron' = Without(entries[t])
                        /\ entries' = [entries EXCEPT ![t] = 0]
  \/ \E t \in TaskIDs : cron' = Without(entries[t]) /\ UNCHANGED entries
  \/ \E task \in Task : Install(task)
  \/ cron' = {}

\* Every step of the scheduler is one of those.
LEMMA NextCronStep ==
  ASSUME WellFormed, [Next]_vars
  PROVE  CronStep
<1>1. ASSUME NEW task \in Task, Schedule(task) PROVE CronStep
  BY <1>1 DEF Schedule, CronStep, Task
<1>2. ASSUME NEW t \in TaskIDs, LoadRow(t) PROVE CronStep
  <2>1. db[t] \in Task
    BY <1>2 DEF LoadRow, WellFormed, TypeOK, KeysOK, Present
  <2>2. QED
    BY <1>1, <1>2, <2>1 DEF LoadRow, CronStep
<1>3. ASSUME NEW limit \in 0..MaxLimit, UISchedule(limit) PROVE CronStep
  <2> DEFINE task == [id |-> UITask, enabled |-> TRUE, maxRuns |-> limit,
                      runCount |-> 0, nextRun |-> FALSE]
  <2>1. task \in Task
    BY SchedulerAssumption DEF Task, TaskIDs
  <2>2. Schedule(task)
    BY <1>3 DEF UISchedule
  <2>3. QED
    BY <1>1, <2>1, <2>2
<1>4. ASSUME NEW t \in TaskIDs, ToggleOn(t) PROVE CronStep
  <2>1. jobs[t] \in Task
    BY <1>4 DEF ToggleOn, WellFormed, TypeOK
  <2>2. [jobs[t] EXCEPT !.enabled = TRUE] \in Task
    BY <2>1, SetEnabled
  <2>3. QED
    BY <1>4, <2>2 DEF ToggleOn, CronStep
<1>5. ASSUME NEW t \in TaskIDs, Unschedule(t) \/ ToggleOff(t) PROVE CronStep
  BY <1>5 DEF Unschedule, ToggleOff, CronStep
<1>6. ASSUME NEW r \in Slots, Count(r) PROVE CronStep
  <2>1. [runs[r].task EXCEPT !.runCount = @ + 1].id \in TaskIDs
    BY <1>6, CountedTask DEF Count, WellFormed, Task
  <2>2. QED
    BY <1>6, <2>1 DEF Count, CronStep
<1>7. CASE \/ LoadRowsDone \/ CatchUpDone \/ (\E t \in TaskIDs : CatchUp(t))
           \/ (\E c \in cron : Fire(c)) \/ (\E r \in Slots : Persist(r))
           \/ UNCHANGED vars
  BY <1>7 DEF LoadRowsDone, CatchUpDone, CatchUp, Fire, Persist, vars, CronStep
<1>8. CASE Restart
  BY <1>8 DEF Restart, FreshProcess, CronStep
<1>9. QED
  BY <1>2, <1>3, <1>4, <1>5, <1>6, <1>7, <1>8 DEF Next, Load, UI, Goroutine

\* A task has at most one cron entry, and the maps know it: whatever fires can
\* be removed by Unschedule, Toggle and the max_runs check.
THEOREM OneEntryPerTaskAlways == Spec => []OneEntryPerTask
<1>1. Init => OneEntryPerTask
  BY DEF Init, OneEntryPerTask
<1>2. WellFormed /\ OneEntryPerTask /\ [Next]_vars => OneEntryPerTask'
  <2> SUFFICES ASSUME WellFormed, OneEntryPerTask, [Next]_vars,
                      NEW c \in cron'
               PROVE  entries'[c.task.id] = c.eid
    BY DEF OneEntryPerTask
  <2>1. \A d \in cron : d.task.id \in TaskIDs /\ entries[d.task.id] = d.eid
    BY DEF WellFormed, TypeOK, Task, OneEntryPerTask
  <2>2. CASE \E t \in TaskIDs : /\ cron' = Without(entries[t])
                                /\ entries' \in {entries, [entries EXCEPT ![t] = 0]}
    BY <2>1, <2>2 DEF WellFormed, TypeOK, Without
  <2>3. ASSUME NEW task \in Task, Install(task) PROVE entries'[c.task.id] = c.eid
    <3>1. task.id \in TaskIDs
      BY DEF Task
    <3>2. CASE c = [eid |-> nextID, task |-> task]
      BY <2>3, <3>1, <3>2 DEF Install, WellFormed, TypeOK
    <3>3. CASE c \in Without(entries[task.id])
      BY <2>1, <2>3, <3>1, <3>3 DEF Install, WellFormed, TypeOK, Without
    <3>4. QED
      BY <2>3, <3>2, <3>3 DEF Install
  <2>4. CASE UNCHANGED <<cron, entries>> \/ cron' = {}
    BY <2>1, <2>4
  <2>5. QED
    BY <2>2, <2>3, <2>4, NextCronStep DEF CronStep
<1>3. QED
  BY <1>1, <1>2, WellFormedAlways, PTL DEF Spec

-----------------------------------------------------------------------------
\* Why nothing disarmed fires: entries exist for armed tasks only, and until
\* the user can disarm anything, jobs and goroutines are of armed tasks too.
ArmedInv ==
  /\ \A c \in cron : armed[c.task.id]
  /\ loader.pc # "ready" =>
       /\ \A t \in TaskIDs : jobs[t] # NoTask => armed[t]
       /\ \A r \in Slots : runs[r].pc # "idle" => armed[runs[r].task.id]

\* Schedule arms what it installs and disarms nothing.
LEMMA ScheduleArmed ==
  ASSUME WellFormed, ArmedInv, NEW task \in Task, Schedule(task)
  PROVE  /\ \A c \in cron' : armed'[c.task.id]
         /\ \A t \in TaskIDs : armed[t] => armed'[t]
         /\ \A t \in TaskIDs : jobs'[t] # jobs[t] => armed'[t]
<1>1. task.id \in TaskIDs /\ \A c \in cron : c.task.id \in TaskIDs
  BY DEF Task, WellFormed, TypeOK
<1>2. CASE Install(task) /\ jobs' = [jobs EXCEPT ![task.id] = task]
  BY <1>1, <1>2 DEF Install, Without, ArmedInv, WellFormed, TypeOK
<1>3. CASE /\ cron' \in {cron, Without(entries[task.id])}
           /\ UNCHANGED <<entries, jobs, armed>>
  BY <1>1, <1>3 DEF Without, ArmedInv
<1>4. QED
  BY <1>2, <1>3 DEF Schedule

LEMMA LoadArmed == WellFormed /\ ArmedInv /\ Load => ArmedInv'
<1> SUFFICES ASSUME WellFormed, ArmedInv, Load PROVE ArmedInv'
  OBVIOUS
<1>1. ASSUME NEW t \in TaskIDs, LoadRow(t) PROVE ArmedInv'
  <2>1. db[t] \in Task
    BY <1>1 DEF LoadRow, WellFormed, TypeOK, KeysOK, Present
  <2>2. loader.pc = "loading" /\ UNCHANGED runs
    BY <1>1 DEF LoadRow
  <2>3. CASE Schedule(db[t])
    <3>1. \A r \in Slots : runs[r].pc # "idle" => runs[r].task.id \in TaskIDs
      BY CountedTask DEF WellFormed, Task
    <3>2. QED
      BY <2>1, <2>2, <2>3, <3>1, ScheduleArmed DEF ArmedInv
  <2>4. CASE UNCHANGED <<cron, nextID, entries, jobs, armed>>
    BY <2>2, <2>4 DEF ArmedInv
  <2>5. QED
    BY <1>1, <2>3, <2>4 DEF LoadRow
<1>2. ASSUME NEW t \in TaskIDs, CatchUp(t) PROVE ArmedInv'
  <2>1. /\ loader.pc = "catchup" /\ jobs[t] \in Task /\ jobs[t].id = t /\ armed[t]
        /\ UNCHANGED <<cron, jobs, armed>>
    BY <1>2 DEF CatchUp, WellFormed, TypeOK, KeysOK, Present, ArmedInv
  <2>2. CASE Start(jobs[t])
    BY <2>1, <2>2 DEF Start, ArmedInv, WellFormed, TypeOK
  <2>3. CASE UNCHANGED <<runs, executed>>
    BY <2>1, <2>3 DEF ArmedInv
  <2>4. QED
    BY <1>2, <2>2, <2>3 DEF CatchUp
<1>3. CASE LoadRowsDone
  BY <1>3 DEF LoadRowsDone, ArmedInv
<1>4. CASE CatchUpDone
  BY <1>4 DEF CatchUpDone, ArmedInv, WellFormed, TypeOK
<1>5. QED
  BY <1>1, <1>2, <1>3, <1>4 DEF Load

LEMMA UIArmed == WellFormed /\ ArmedInv /\ OneEntryPerTask /\ UI => ArmedInv'
<1> SUFFICES ASSUME WellFormed, ArmedInv, OneEntryPerTask, UI PROVE ArmedInv'
  OBVIOUS
<1>1. ASSUME NEW limit \in 0..MaxLimit, UISchedule(limit) PROVE ArmedInv'
  <2> DEFINE task == [id |-> UITask, enabled |-> TRUE, maxRuns |-> limit,
                      runCount |-> 0, nextRun |-> FALSE]
  <2>1. task \in Task
    BY SchedulerAssumption DEF Task, TaskIDs
  <2>2. Schedule(task) /\ loader.pc = "ready" /\ UNCHANGED loader
    BY <1>1 DEF UISchedule
  <2>3. QED
    BY <2>1, <2>2, ScheduleArmed DEF ArmedInv
<1>2. ASSUME NEW t \in TaskIDs, Unschedule(t) \/ ToggleOff(t) PROVE ArmedInv'
  <2>1. /\ loader.pc = "ready" /\ UNCHANGED loader
        /\ armed' = [armed EXCEPT ![t] = FALSE]
        /\ cron' = Without(entries[t]) \/ (cron' = cron /\ entries[t] = 0)
    BY <1>2 DEF Unschedule, ToggleOff
  <2>2. \A c \in cron' : c \in cron /\ c.task.id \in TaskIDs /\ c.task.id # t
    BY <2>1 DEF Without, OneEntryPerTask, WellFormed, TypeOK, Task
  <2>3. QED
    BY <2>1, <2>2 DEF ArmedInv, WellFormed, TypeOK
<1>3. ASSUME NEW t \in TaskIDs, ToggleOn(t) PROVE ArmedInv'
  <2> DEFINE task == [jobs[t] EXCEPT !.enabled = TRUE]
  <2>1. task.id \in TaskIDs /\ \A c \in cron : c.task.id \in TaskIDs
    BY <1>3, SetEnabled DEF ToggleOn, WellFormed, TypeOK, KeysOK, Task
  <2>2. Install(task) /\ loader.pc = "ready" /\ UNCHANGED loader
    BY <1>3 DEF ToggleOn
  <2> HIDE DEF task
  <2>3. QED
    BY <2>1, <2>2 DEF Install, Without, ArmedInv, WellFormed, TypeOK
<1>4. QED
  BY <1>1, <1>2, <1>3 DEF UI

\* ArmedInv holds in every reachable state.
THEOREM ArmedInvAlways == Spec => []ArmedInv
<1>1. Init => ArmedInv
  BY DEF Init, ArmedInv, IdleRun
<1>2. WellFormed /\ OneEntryPerTask /\ ArmedInv /\ [Next]_vars => ArmedInv'
  <2> SUFFICES ASSUME WellFormed, OneEntryPerTask, ArmedInv, [Next]_vars
               PROVE  ArmedInv'
    OBVIOUS
  <2>1. CASE Load
    BY <2>1, LoadArmed
  <2>2. CASE UI
    BY <2>2, UIArmed
  <2>3. ASSUME NEW c \in cron, Fire(c) PROVE ArmedInv'
    BY <2>3 DEF Fire, Start, ArmedInv, WellFormed, TypeOK
  <2>4. ASSUME NEW r \in Slots, Count(r) PROVE ArmedInv'
    <3> DEFINE task == [runs[r].task EXCEPT !.runCount = @ + 1]
    <3>1. task.id = runs[r].task.id /\ task.id \in TaskIDs /\ runs[r].pc # "idle"
      BY <2>4, CountedTask DEF Count, WellFormed, Task
    <3>2. /\ runs' = [runs EXCEPT ![r] = [pc |-> "counted", task |-> task]]
          /\ jobs' = [jobs EXCEPT ![task.id] = task]
          /\ cron' \in {cron, Without(entries[task.id])}
          /\ UNCHANGED <<loader, armed>>
      BY <2>4 DEF Count
    <3> HIDE DEF task
    <3>3. QED
      BY <3>1, <3>2 DEF Without, ArmedInv, WellFormed, TypeOK
  <2>5. ASSUME NEW r \in Slots, Persist(r) PROVE ArmedInv'
    BY <2>5 DEF Persist, ArmedInv, IdleRun, WellFormed, TypeOK
  <2>6. CASE Restart
    BY <2>6 DEF Restart, FreshProcess, ArmedInv, IdleRun
  <2>7. CASE UNCHANGED vars
    BY <2>7 DEF vars, ArmedInv
  <2>8. QED
    BY <2>1, <2>2, <2>3, <2>4, <2>5, <2>6, <2>7 DEF Next, Goroutine
<1>3. QED
  BY <1>1, <1>2, WellFormedAlways, OneEntryPerTaskAlways, PTL DEF Spec

\* Unschedule and Toggle(false) stop a task: no execution of it starts, from
\* cron or from the catch-up, until it is scheduled or enabled again.
THEOREM NothingFiresOnceDisarmedAlways == Spec => NothingFiresOnceDisarmed
<1> DEFINE A == \A t \in TaskIDs : executed'[t] > executed[t] => armed[t]
<1>1. WellFormed /\ ArmedInv /\ [Next]_vars => [A]_vars
  <2> SUFFICES ASSUME WellFormed, ArmedInv, Next,
                      NEW t \in TaskIDs, executed'[t] > executed[t]
               PROVE  armed[t]
    OBVIOUS
  <2>1. PICK task \in Task : Start(task) /\ armed[task.id]
    <3>1. executed' # executed
      BY DEF WellFormed, TypeOK
    <3>2. ASSUME NEW c \in cron, Fire(c) PROVE Start(c.task) /\ armed[c.task.id] /\ c.task \in Task
      BY <3>2 DEF Fire, ArmedInv, WellFormed, TypeOK
    <3>3. ASSUME NEW s \in TaskIDs, CatchUp(s)
          PROVE  Start(jobs[s]) /\ armed[jobs[s].id] /\ jobs[s] \in Task
      BY <3>1, <3>3 DEF CatchUp, ArmedInv, WellFormed, TypeOK, KeysOK, Present
    <3>4. QED
      BY <3>1, <3>2, <3>3 DEF Next, Load, LoadRow, LoadRowsDone, CatchUpDone, UI,
         UISchedule, Unschedule, ToggleOn, ToggleOff, Goroutine, Count, Persist, Restart
  <2>2. t = task.id
    BY <2>1 DEF Start, WellFormed, TypeOK, Task
  <2>3. QED
    BY <2>1, <2>2
<1>2. QED
  BY <1>1, WellFormedAlways, ArmedInvAlways, PTL DEF Spec, NothingFiresOnceDisarmed

-----------------------------------------------------------------------------
\* Every copy of a task - in the table, in jobs, in a cron entry, in a
\* goroutine - carries a count the executions cover; the copy of a goroutine
\* that is about to count one more has it to spare.
CountInv ==
  /\ RunCountNeverOvercounts
  /\ \A c \in cron : c.task.runCount <= executed[c.task.id]
  /\ \A r \in Slots : runs[r].pc = "executing" =>
       runs[r].task.runCount < executed[runs[r].task.id]
  /\ \A r \in Slots : runs[r].pc = "counted" =>
       runs[r].task.runCount <= executed[runs[r].task.id]

\* Scheduling a copy whose count is covered keeps every copy covered.
LEMMA ScheduleCount ==
  ASSUME WellFormed, CountInv, UNCHANGED <<db, runs, executed>>,
         NEW task \in Task, task.runCount <= executed[task.id],
         \/ Schedule(task)
         \/ Install(task) /\ jobs' = [jobs EXCEPT ![task.id] = task]
  PROVE  CountInv'
<1>1. task.id \in TaskIDs
  BY DEF Task
<1>2. \A c \in cron' : c.task.runCount <= executed[c.task.id]
  BY DEF Schedule, Install, Without, CountInv
<1>3. \A t \in TaskIDs : jobs'[t] # NoTask => jobs'[t].runCount <= executed[t]
  BY <1>1 DEF Schedule, CountInv, RunCountNeverOvercounts, WellFormed, TypeOK
<1>4. QED
  BY <1>2, <1>3 DEF CountInv, RunCountNeverOvercounts

\* Starting a covered copy leaves it one execution to spare.
LEMMA StartCount ==
  ASSUME WellFormed, CountInv, UNCHANGED <<db, jobs, cron>>,
         NEW task \in Task, task.runCount <= executed[task.id], Start(task)
  PROVE  CountInv'
<1>1. /\ \A t \in TaskIDs : executed[t] \in Nat /\ executed'[t] \in Nat
      /\ \A t \in TaskIDs : executed[t] <= executed'[t]
      /\ task.id \in TaskIDs /\ task.runCount < executed'[task.id]
  BY DEF Start, WellFormed, TypeOK, Task
<1>2. PICK r \in Slots : runs' = [runs EXCEPT ![r] = [pc |-> "executing", task |-> task]]
  BY DEF Start
<1>3. /\ \A t \in TaskIDs : jobs[t] # NoTask => jobs[t].runCount \in Nat
      /\ \A t \in TaskIDs : db[t] # NoTask => db[t].runCount \in Nat
      /\ \A c \in cron : c.task.runCount \in Nat /\ c.task.id \in TaskIDs
      /\ \A q \in Slots : runs[q].pc # "idle" =>
           runs[q].task.runCount \in Nat /\ runs[q].task.id \in TaskIDs
  BY CountedTask DEF WellFormed, TypeOK, Task
<1>4. RunCountNeverOvercounts'
  BY <1>1, <1>3 DEF CountInv, RunCountNeverOvercounts
<1>5. \A c \in cron' : c.task.runCount <= executed'[c.task.id]
  BY <1>1, <1>3 DEF CountInv
<1>6. ASSUME NEW q \in Slots
      PROVE  /\ runs'[q].pc = "executing" => runs'[q].task.runCount < executed'[runs'[q].task.id]
             /\ runs'[q].pc = "counted" => runs'[q].task.runCount <= executed'[runs'[q].task.id]
  <2>1. CASE q = r
    BY <1>1, <1>2, <2>1 DEF WellFormed, TypeOK
  <2>2. CASE q # r
    BY <1>1, <1>2, <1>3, <2>2 DEF CountInv, WellFormed, TypeOK
  <2>3. QED
    BY <2>1, <2>2
<1>7. QED
  BY <1>4, <1>5, <1>6 DEF CountInv

\* Counting and persisting use up what the execution added.
LEMMA GoroutineCount ==
  ASSUME WellFormed, CountInv, NEW r \in Slots, Goroutine(r)
  PROVE  CountInv'
<1>1. CASE Count(r)
  <2> DEFINE task == [runs[r].task EXCEPT !.runCount = @ + 1]
  <2>1. /\ task.id \in TaskIDs /\ executed[task.id] \in Nat
        /\ task.runCount <= executed[task.id]
    <3>1. runs[r].task \in Task /\ runs[r].task.runCount < executed[runs[r].task.id]
      BY <1>1, CountedTask DEF Count, WellFormed, CountInv
    <3>2. runs[r].task.id \in TaskIDs /\ runs[r].task.runCount \in Nat
      BY <3>1 DEF Task
    <3>3. executed[runs[r].task.id] \in Nat
      BY <3>2 DEF WellFormed, TypeOK
    <3>4. task.id = runs[r].task.id /\ task.runCount = runs[r].task.runCount + 1
      BY <1>1, CountedTask DEF Count, WellFormed
    <3> HIDE DEF task
    <3>5. QED
      BY <3>1, <3>2, <3>3, <3>4
  <2>2. /\ runs' = [runs EXCEPT ![r] = [pc |-> "counted", task |-> task]]
        /\ jobs' = [jobs EXCEPT ![task.id] = task]
        /\ cron' \in {cron, Without(entries[task.id])}
        /\ UNCHANGED <<db, executed>>
    BY <1>1 DEF Count
  <2> HIDE DEF task
  <2>3. QED
    BY <2>1, <2>2 DEF Without, CountInv, RunCountNeverOvercounts, WellFormed, TypeOK
<1>2. CASE Persist(r)
  <2> DEFINE task == runs[r].task
  <2>1. task.id \in TaskIDs /\ task.runCount <= executed[task.id] /\ runs[r].pc = "counted"
    BY <1>2, CountedTask DEF Persist, WellFormed, CountInv, Task
  <2>2. \A t \in TaskIDs : db'[t] # NoTask =>
          db[t] # NoTask /\ (db'[t] = db[t] \/ (t = task.id /\ db'[t].runCount = task.runCount))
    <3>1. \A t \in TaskIDs : db[t] # NoTask =>
            [db[t] EXCEPT !.runCount = task.runCount].runCount = task.runCount
      BY DEF WellFormed, TypeOK, Task
    <3>2. QED
      BY <1>2, <2>1, <3>1 DEF Persist, Updated, WellFormed, TypeOK
  <2>3. UNCHANGED <<jobs, cron, executed>> /\ runs' = [runs EXCEPT ![r] = IdleRun]
    BY <1>2 DEF Persist
  <2> HIDE DEF task
  <2>4. QED
    BY <2>1, <2>2, <2>3 DEF CountInv, RunCountNeverOvercounts, WellFormed, TypeOK, IdleRun
<1>3. QED
  BY <1>1, <1>2 DEF Goroutine

\* CountInv holds in every reachable state.
THEOREM CountInvAlways == Spec => []CountInv
<1>1. Init => CountInv
  <2> SUFFICES ASSUME Init PROVE CountInv
    OBVIOUS
  <2>1. \A t \in TaskIDs : db[t] # NoTask => executed[t] = db[t].runCount /\ db[t].runCount \in Nat
    BY InitWellFormed DEF Init, WellFormed, TypeOK, Task
  <2>2. QED
    BY <2>1 DEF Init, CountInv, RunCountNeverOvercounts, IdleRun
<1>2. WellFormed /\ CountInv /\ [Next]_vars => CountInv'
  <2> SUFFICES ASSUME WellFormed, CountInv, [Next]_vars PROVE CountInv'
    OBVIOUS
  <2>1. ASSUME NEW t \in TaskIDs, LoadRow(t) PROVE CountInv'
    <3>1. db[t] \in Task /\ db[t].runCount <= executed[db[t].id]
      BY <2>1 DEF LoadRow, WellFormed, TypeOK, KeysOK, Present, CountInv, RunCountNeverOvercounts
    <3>2. CASE Schedule(db[t])
      BY <2>1, <3>1, <3>2, ScheduleCount DEF LoadRow
    <3>3. CASE UNCHANGED <<cron, jobs>>
      BY <2>1, <3>3 DEF LoadRow, CountInv, RunCountNeverOvercounts
    <3>4. QED
      BY <2>1, <3>2, <3>3 DEF LoadRow
  <2>2. ASSUME NEW t \in TaskIDs, CatchUp(t) PROVE CountInv'
    <3>1. jobs[t] \in Task /\ jobs[t].runCount <= executed[jobs[t].id]
      BY <2>2 DEF CatchUp, WellFormed, TypeOK, KeysOK, Present, CountInv, RunCountNeverOvercounts
    <3>2. CASE Start(jobs[t])
      BY <2>2, <3>1, <3>2, StartCount DEF CatchUp
    <3>3. CASE UNCHANGED <<runs, executed>>
      BY <2>2, <3>3 DEF CatchUp, CountInv, RunCountNeverOvercounts
    <3>4. QED
      BY <2>2, <3>2, <3>3 DEF CatchUp
  <2>3. ASSUME NEW limit \in 0..MaxLimit, UISchedule(limit) PROVE CountInv'
    <3> DEFINE task == [id |-> UITask, enabled |-> TRUE, maxRuns |-> limit,
                        runCount |-> 0, nextRun |-> FALSE]
    <3>1. task \in Task /\ executed[task.id] \in Nat /\ task.runCount = 0
      BY SchedulerAssumption DEF Task, TaskIDs, WellFormed, TypeOK
    <3>2. Schedule(task) /\ UNCHANGED <<db, runs, executed>>
      BY <2>3 DEF UISchedule
    <3> HIDE DEF task
    <3>3. QED
      BY <3>1, <3>2, ScheduleCount
  <2>4. ASSUME NEW t \in TaskIDs, ToggleOn(t) PROVE CountInv'
    <3> DEFINE task == [jobs[t] EXCEPT !.enabled = TRUE]
    <3>1. task \in Task /\ task.id = t /\ task.runCount <= executed[t]
      BY <2>4, SetEnabled
         DEF ToggleOn, WellFormed, TypeOK, KeysOK, CountInv, RunCountNeverOvercounts
    <3>2. Install(task) /\ jobs' = [jobs EXCEPT ![t] = task] /\ UNCHANGED <<db, runs, executed>>
      BY <2>4 DEF ToggleOn
    <3> HIDE DEF task
    <3>3. QED
      BY <3>1, <3>2, ScheduleCount
  <2>5. ASSUME NEW t \in TaskIDs, Unschedule(t) PROVE CountInv'
    BY <2>5 DEF Unschedule, Without, CountInv, RunCountNeverOvercounts, WellFormed, TypeOK
  <2>6. ASSUME NEW t \in TaskIDs, ToggleOff(t) PROVE CountInv'
    <3>1. [jobs[t] EXCEPT !.enabled = FALSE].runCount = jobs[t].runCount
      BY <2>6, SetEnabled DEF ToggleOff, WellFormed, TypeOK
    <3>2. \A s \in TaskIDs : jobs'[s] # NoTask =>
            jobs[s] # NoTask /\ jobs'[s].runCount = jobs[s].runCount
      BY <2>6, <3>1 DEF ToggleOff, WellFormed, TypeOK
    <3>3. UNCHANGED <<db, runs, executed>> /\ cron' \subseteq cron
      BY <2>6 DEF ToggleOff, Without
    <3>4. QED
      BY <3>2, <3>3 DEF CountInv, RunCountNeverOvercounts
  <2>7. ASSUME NEW c \in cron, Fire(c) PROVE CountInv'
    <3>1. c.task \in Task /\ c.task.runCount <= executed[c.task.id]
      BY DEF WellFormed, TypeOK, CountInv
    <3>2. QED
      BY <2>7, <3>1, StartCount DEF Fire
  <2>8. ASSUME NEW r \in Slots, Goroutine(r) PROVE CountInv'
    BY <2>8, GoroutineCount
  <2>9. CASE Restart
    BY <2>9 DEF Restart, FreshProcess, CountInv, RunCountNeverOvercounts, IdleRun
  <2>10. CASE LoadRowsDone \/ CatchUpDone \/ UNCHANGED vars
    BY <2>10 DEF LoadRowsDone, CatchUpDone, vars, CountInv, RunCountNeverOvercounts
  <2>11. QED
    BY <2>1, <2>2, <2>3, <2>4, <2>5, <2>6, <2>7, <2>8, <2>9, <2>10 DEF Next, Load, UI
<1>3. QED
  BY <1>1, <1>2, WellFormedAlways, PTL DEF Spec

\* The counts the scheduler shows and persists never exceed the executions
\* that started, whatever overlaps, is toggled, caught up on or lost in a crash.
THEOREM RunCountNeverOvercountsAlways == Spec => []RunCountNeverOvercounts
<1>1. CountInv => RunCountNeverOvercounts
  BY DEF CountInv
<1>2. QED
  BY <1>1, CountInvAlways, PTL

-----------------------------------------------------------------------------
\* LoadFromDB has the only connection as long as it walks the rows.
LoadInv ==
  /\ loader.pc = "loading" => conn = "rows"
  /\ LoadArmsOnlyRunnableRows

\* While the rows are being walked only tasks of runnable rows are installed.
THEOREM LoadArmsOnlyRunnableRowsAlways == Spec => []LoadArmsOnlyRunnableRows
<1>1. Init => LoadInv
  BY DEF Init, LoadInv, LoadArmsOnlyRunnableRows
<1>2. WellFormed /\ LoadInv /\ [Next]_vars => LoadInv'
  <2> SUFFICES ASSUME WellFormed, LoadInv, [Next]_vars PROVE LoadInv'
    OBVIOUS
  <2>1. ASSUME NEW t \in TaskIDs, LoadRow(t) PROVE LoadInv'
    <3>1. db[t] # NoTask /\ db[t].id = t /\ conn = "rows" /\ UNCHANGED <<db, conn>>
          /\ \A c \in cron : LET row == db[c.task.id]
                             IN  row # NoTask /\ row.enabled /\ ~Exhausted(row)
      BY <2>1 DEF LoadRow, WellFormed, KeysOK, Present, LoadInv, LoadArmsOnlyRunnableRows
    <3>2. CASE db[t].enabled /\ Schedule(db[t])
      <4>1. \A c \in cron' : c \in cron \/ (c.task = db[t] /\ ~Exhausted(db[t]))
        BY <3>2 DEF Schedule, Install, Without
      <4>2. QED
        BY <3>1, <3>2, <4>1 DEF LoadInv, LoadArmsOnlyRunnableRows, Exhausted
    <3>3. CASE UNCHANGED cron
      BY <3>1, <3>3 DEF LoadInv, LoadArmsOnlyRunnableRows, Exhausted
    <3>4. QED
      BY <2>1, <3>2, <3>3 DEF LoadRow
  <2>2. ASSUME UNCHANGED <<db, conn, loader>>, cron' \subseteq cron PROVE LoadInv'
    BY <2>2 DEF LoadInv, LoadArmsOnlyRunnableRows, Exhausted
  <2>3. CASE (\E c \in cron : Fire(c)) \/ (\E r \in Slots : Count(r)) \/ UNCHANGED vars
    BY <2>2, <2>3 DEF Fire, Count, Without, vars
  <2>4. CASE loader'.pc # "loading"
    BY <2>4 DEF LoadInv, LoadArmsOnlyRunnableRows
  <2>5. ASSUME NEW r \in Slots, Persist(r) PROVE LoadInv'
    BY <2>4, <2>5 DEF Persist, LoadInv
  <2>6. CASE Restart
    BY <2>6 DEF Restart, FreshProcess, LoadInv, LoadArmsOnlyRunnableRows
  <2>7. CASE LoadRowsDone \/ CatchUpDone \/ \E t \in TaskIDs : CatchUp(t)
    BY <2>4, <2>7 DEF LoadRowsDone, CatchUpDone, CatchUp, WellFormed, TypeOK
  <2>8. CASE UI
    BY <2>4, <2>8 DEF UI, UISchedule, Unschedule, ToggleOn, ToggleOff
  <2>9. QED
    BY <2>1, <2>3, <2>5, <2>6, <2>7, <2>8 DEF Next, Load, Goroutine
<1>3. LoadInv => LoadArmsOnlyRunnableRows
  BY DEF LoadInv
<1>4. QED
  BY <1>1, <1>2, <1>3, WellFormedAlways, PTL DEF Spec
=============================================================================
