--------------------------------- MODULE Startup ---------------------------------
(***************************************************************************)
(* The part of engine.New in src/internal/engine/engine.go that several    *)
(* Nala processes share through the disk: config.Load with config.toml,    *)
(* db.New and db.Migrate with nala.db.  Any process may be stopped between *)
(* two steps and started again.                                            *)
(*                                                                         *)
(* A transaction of Migrate is one step: it waits for the other writers,   *)
(* and one that was stopped leaves nothing.  The switch of a new file to   *)
(* WAL does not wait: its locks are taken one by one.  Nor is config.toml  *)
(* written at once: os.Create leaves it empty until the encoder's buffer   *)
(* is flushed.                                                             *)
(*                                                                         *)
(* A definition marked "Mutant" is a wrong version of the one after it;    *)
(* it is used only to show that the property it breaks can fail.           *)
(***************************************************************************)
EXTENDS Settings, Schema, FiniteSets

CONSTANTS
  Procs,     \* processes that may run
  NoFile,    \* config.toml does not exist
  OldFiles,  \* contents config.toml may have before the first start
  OldRuns,   \* numbers of migrations an earlier version may have applied
  MaxBoots   \* bound: processes started

Empty == [f \in {} |-> 0]

ASSUME StartupAssumption ==
  /\ NoFile \notin OldFiles \cup {Empty, DefaultConfig}
  /\ Malformed # Empty
  /\ OldRuns \subseteq 0..Len(Migrations)
  /\ MaxBoots \in Nat

VARIABLES
  file,     \* config.toml
  db,       \* nala.db: [tables, applied], applied is the table _migrations
  wal,      \* nala.db is in the mode WAL, for good
  proc,     \* process -> [pc, next]: next is the migration Migrate looks at
  boots,    \* processes started so far
  stopped   \* history: a process was stopped while it was starting

vars == <<file, db, wal, proc, boots, stopped>>

\* A process that is not running, one that gave up on the configuration
\* or on the database, and one that is past Migrate.
Resting == {"down", "refused", "failed", "up"}

At(p, pc) == proc[p].pc = pc

Goto(p, pc) == proc' = [proc EXCEPT ![p].pc = pc]

Init ==
  /\ file \in OldFiles \cup {NoFile}
  /\ db \in {[tables |-> TablesOf(1..n), applied |-> 1..n] : n \in OldRuns}
  /\ wal \in IF db.applied = {} THEN BOOLEAN ELSE {TRUE}
  /\ proc = [p \in Procs |-> [pc |-> "down", next |-> 1]]
  /\ boots = 0
  /\ stopped = FALSE

Boot(p) ==
  /\ proc[p].pc \in {"down", "refused", "failed"}
  /\ boots < MaxBoots
  /\ boots' = boots + 1
  /\ proc' = [proc EXCEPT ![p] = [pc |-> "stat", next |-> 1]]
  /\ UNCHANGED <<file, db, wal, stopped>>

-----------------------------------------------------------------------------
(***************************************************************************)
(* config.Load.                                                            *)
(***************************************************************************)
Stat(p) ==
  /\ At(p, "stat")
  /\ Goto(p, IF file = NoFile THEN "create" ELSE "decode")
  /\ UNCHANGED <<file, db, wal, boots, stopped>>

\* os.Create: the file exists and is empty, whatever it was a moment ago.
Create(p) ==
  /\ At(p, "create")
  /\ file' = Empty
  /\ Goto(p, "encode")
  /\ UNCHANGED <<db, wal, boots, stopped>>

\* Mutant: the zero configuration is written.
EncodeZero(p) ==
  /\ At(p, "encode")
  /\ file' = [DefaultConfig EXCEPT !.server_port = 0]
  /\ Goto(p, IF Loadable(DefaultConfig) THEN "open" ELSE "refused")
  /\ UNCHANGED <<db, wal, boots, stopped>>

\* The defaults are written, and are what this process goes on with.
Encode(p) ==
  /\ At(p, "encode")
  /\ file' = DefaultConfig
  /\ Goto(p, IF Loadable(DefaultConfig) THEN "open" ELSE "refused")
  /\ UNCHANGED <<db, wal, boots, stopped>>

DecodeFile(p) ==
  /\ At(p, "decode")
  /\ Goto(p, IF Loadable(file) THEN "open" ELSE "refused")
  /\ UNCHANGED <<file, db, wal, boots, stopped>>

-----------------------------------------------------------------------------
(***************************************************************************)
(* db.New and db.Migrate.                                                  *)
(***************************************************************************)
\* PRAGMA journal_mode=WAL reads the file's header under a SHARED lock, which is
\* kept while the mode has to be changed.
OpenDB(p) ==
  /\ At(p, "open")
  /\ Goto(p, IF wal THEN "check" ELSE "shared")
  /\ UNCHANGED <<file, db, wal, boots, stopped>>

\* busy_timeout is set only afterwards: the first PRAGMA fails at once when another
\* process is writing, recovering or closing the file.
OpenBusy(p) ==
  /\ At(p, "open")
  /\ \E q \in Procs \ {p} :
       proc[q].pc \in {"open", "shared", "reserved", "busy", "check", "apply", "up"}
  /\ Goto(p, "failed")
  /\ UNCHANGED <<file, db, wal, boots, stopped>>

\* RESERVED is one process's at a time; one that does not get it gives up, and
\* then lets go of SHARED.
TakeReserved(p) ==
  /\ At(p, "shared")
  /\ Goto(p, IF \E q \in Procs : At(q, "reserved") THEN "busy" ELSE "reserved")
  /\ UNCHANGED <<file, db, wal, boots, stopped>>

GiveUp(p) ==
  /\ At(p, "busy")
  /\ Goto(p, "failed")
  /\ UNCHANGED <<file, db, wal, boots, stopped>>

\* The new mode is committed under EXCLUSIVE, which nobody's SHARED may stand by.
Switch(p) ==
  /\ At(p, "reserved")
  /\ IF \E q \in Procs : proc[q].pc \in {"shared", "busy"}
     THEN Goto(p, "failed") /\ UNCHANGED wal
     ELSE Goto(p, "check") /\ wal' = TRUE
  /\ UNCHANGED <<file, db, boots, stopped>>

\* Mutant: what has been applied is not looked up.
CheckNothing(p) ==
  /\ At(p, "check")
  /\ proc[p].next \in IDs
  /\ Goto(p, "apply")
  /\ UNCHANGED <<file, db, wal, boots, stopped>>

\* SELECT COUNT(*) FROM _migrations.
Check(p) ==
  /\ At(p, "check")
  /\ proc[p].next \in IDs
  /\ IF proc[p].next \in db.applied
     THEN proc' = [proc EXCEPT ![p].next = @ + 1]
     ELSE Goto(p, "apply")
  /\ UNCHANGED <<file, db, wal, boots, stopped>>

\* Mutant: the migration is recorded in a transaction of its own, before
\* the one that creates the tables; "apply" is entered twice.
ApplyInTwo(p) ==
  LET i == proc[p].next IN
  /\ At(p, "apply")
  /\ IF i \in db.applied
     THEN /\ db' = [db EXCEPT !.tables = @ \cup Migrations[i]]
          /\ proc' = [proc EXCEPT ![p] = [pc |-> "check", next |-> i + 1]]
     ELSE /\ db' = [db EXCEPT !.applied = @ \cup {i}]
          /\ UNCHANGED proc
  /\ UNCHANGED <<file, wal, boots, stopped>>

\* The transaction: CREATE ... IF NOT EXISTS and the INSERT of the id, which
\* is the primary key of _migrations: the second of two processes rolls back.
Apply(p) ==
  LET i == proc[p].next IN
  /\ At(p, "apply")
  /\ IF i \in db.applied
     THEN /\ Goto(p, "failed")
          /\ UNCHANGED db
     ELSE /\ db' = [tables |-> db.tables \cup Migrations[i], applied |-> db.applied \cup {i}]
          /\ proc' = [proc EXCEPT ![p] = [pc |-> "check", next |-> i + 1]]
  /\ UNCHANGED <<file, wal, boots, stopped>>

Migrated(p) ==
  /\ At(p, "check")
  /\ proc[p].next \notin IDs
  /\ Goto(p, "up")
  /\ UNCHANGED <<file, db, wal, boots, stopped>>

\* The process is killed, or exits once it is up.
Stop(p) ==
  /\ proc[p].pc \notin {"down", "refused", "failed"}
  /\ Goto(p, "down")
  /\ stopped' = (stopped \/ ~At(p, "up"))
  /\ UNCHANGED <<file, db, wal, boots>>

-----------------------------------------------------------------------------
New(p) ==
  \/ Stat(p) \/ Create(p) \/ Encode(p) \/ DecodeFile(p)
  \/ OpenDB(p) \/ OpenBusy(p) \/ TakeReserved(p) \/ GiveUp(p) \/ Switch(p)
  \/ Check(p) \/ Apply(p) \/ Migrated(p)

Next == \E p \in Procs : Boot(p) \/ New(p) \/ Stop(p)

Spec == Init /\ [][Next]_vars

\* A process that is starting goes on; nobody has to start or stop one.
Fairness == \A p \in Procs : WF_vars(New(p))

FairSpec == Spec /\ Fairness

-----------------------------------------------------------------------------
TypeOK ==
  /\ file \in OldFiles \cup {NoFile, Empty, DefaultConfig}
  /\ db \in [tables : SUBSET TablesOf(IDs), applied : SUBSET IDs]
  /\ wal \in BOOLEAN
  /\ proc \in [Procs -> [pc : Resting \cup {"stat", "create", "encode", "decode", "open",
                                            "shared", "reserved", "busy", "check", "apply"},
                         next : 1..Len(Migrations) + 1]]
  /\ boots \in 0..MaxBoots
  /\ stopped \in BOOLEAN

\* Whoever starts or is stopped, the database holds exactly the tables of the
\* first n migrations, and n grows by one (Migrate's transactions and the
\* COUNT that skips what is applied).
L == INSTANCE Ledger WITH n <- Cardinality(db.applied), tables <- db.tables

SchemaIsALedger == L!Spec

\* A table never refers to one that does not exist yet: whichever migration
\* a start was stopped at, foreign keys and external-content indexes resolve
\* (the order of Migrations).
ReferencesResolve ==
  \A r \in References : r[1] \in db.tables => r[2] \in db.tables

\* config.toml can be refused only if it was so before the first start: a
\* stop between os.Create and the flush, or two first starts at once, leave
\* a file every later Load takes (Load's create branch).
OwnFileIsLoadable ==
  (\E p \in Procs : At(p, "refused")) =>
    \/ \E f \in OldFiles : file = f /\ ~Loadable(f)
    \/ ~Loadable(DefaultConfig)

\* A process that got past Migrate, also by skipping what another one applied,
\* runs on the whole schema (Migrate's loop).
UpIsMigrated ==
  \A p \in Procs : At(p, "up") => db.tables = TablesOf(IDs)

\* When starts race through Migrate, they do not all fail: as long as none is
\* stopped, one that has opened the database leads to a complete schema (the
\* losers' rollback leaves the winner undisturbed).  Of the starts that race to
\* open it this cannot be said: two first ones may each hold the lock that the
\* other's switch to WAL needs, and both fail.
RacingStartsComplete ==
  (\E p \in Procs : At(p, "check")) ~> (stopped \/ db.applied = IDs)
=============================================================================
