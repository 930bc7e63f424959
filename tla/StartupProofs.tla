----------------------------- MODULE StartupProofs -----------------------------
(***************************************************************************)
(* TLAPS proofs about Startup, for any processes, old files, environment   *)
(* and numbers of earlier migrations.                                      *)
(***************************************************************************)
EXTENDS Startup, FiniteSetTheorems, TLAPS

Places == Resting \cup {"stat", "create", "encode", "decode", "open", "shared", "reserved",
                         "busy", "check", "apply"}

\* The database is that of the first k migrations.
Upto(k) == db = [tables |-> TablesOf(1..k), applied |-> 1..k]

LedgerInv == \E k \in 0..Len(Migrations) : Upto(k)

\* A process has seen everything before next applied.
ProgressInv ==
  \A p \in Procs :
    /\ proc[p].pc \in {"check", "apply"} => 1..(proc[p].next - 1) \subseteq db.applied
    /\ proc[p].pc = "apply" => proc[p].next \in IDs
    /\ proc[p].pc = "up" => db.applied = IDs

\* Before Migrate its loop is at the first migration.
FirstPlaces ==
  {"stat", "create", "encode", "decode", "open", "shared", "reserved", "busy"}

FirstInv == \A p \in Procs : proc[p].pc \in FirstPlaces => proc[p].next = 1

\* Whoever creates config.toml has found none, and nobody removes it.
FileInv ==
  /\ \A p \in Procs : proc[p].pc \in {"create", "encode"} =>
       file \in {NoFile, Empty, DefaultConfig}
  /\ \A p \in Procs : proc[p].pc = "decode" => file # NoFile
  /\ Loadable(DefaultConfig) =>
       \A p \in Procs : proc[p].pc = "refused" => file \in OldFiles /\ ~Loadable(file)

IInv == TypeOK /\ LedgerInv /\ FirstInv /\ ProgressInv /\ FileInv

-----------------------------------------------------------------------------
\* The concatenation of the three lists, for the solvers.
LEMMA MigrationsAre ==
  /\ Len(Migrations) = 21
  /\ Migrations[1] = {"agents"}
  /\ Migrations[2] = {"sessions"}
  /\ Migrations[3] = {"messages"}
  /\ Migrations[4] = {"tool_bindings"}
  /\ Migrations[5] = {"knowledge_bases"}
  /\ Migrations[6] = {"documents"}
  /\ Migrations[7] = {"provider_configs"}
  /\ Migrations[8] = {"scheduled_tasks"}
  /\ Migrations[9] = {"audit_log"}
  /\ Migrations[10] = {"messages_fts", "documents_fts"}
  /\ Migrations[11] = {"app_state"}
  /\ Migrations[12] = {"calendars"}
  /\ Migrations[13] = {"events"}
  /\ Migrations[14] = {"email_accounts"}
  /\ Migrations[15] = {"emails"}
  /\ Migrations[16] = {"reminders"}
  /\ Migrations[17] = {"skills"}
  /\ Migrations[18] = {"user_data"}
  /\ Migrations[19] = {"system_hooks"}
  /\ Migrations[20] = {"notes"}
  /\ Migrations[21] = {"tasks"}
<1>1. AgentTables \in Seq({{"agents"}, {"sessions"}, {"messages"}, {"tool_bindings"},
                            {"knowledge_bases"}, {"documents"}})
  BY DEF AgentTables
<1>2. ServiceTables \in Seq({{"provider_configs"}, {"scheduled_tasks"}, {"audit_log"},
                              {"messages_fts", "documents_fts"}, {"app_state"},
                              {"calendars"}, {"events"}})
  BY DEF ServiceTables
<1>3. PersonalTables \in Seq({{"email_accounts"}, {"emails"}, {"reminders"}, {"skills"},
                               {"user_data"}, {"system_hooks"}, {"notes"}, {"tasks"}})
  BY DEF PersonalTables
<1>4. \A i \in 1..21 :
        Migrations[i] = IF i <= 6 THEN AgentTables[i]
                        ELSE IF i <= 13 THEN ServiceTables[i - 6] ELSE PersonalTables[i - 13]
  BY <1>1, <1>2, <1>3 DEF Migrations, AgentTables, ServiceTables, PersonalTables
<1>5. QED
  BY <1>1, <1>2, <1>3, <1>4 DEF Migrations, AgentTables, ServiceTables, PersonalTables

LEMMA MigrationsType == Len(Migrations) \in Nat /\ IDs = 1..Len(Migrations)
BY MigrationsAre DEF IDs

\* What a migration refers to was made by itself or by an earlier one.
LEMMA ReferencesAreEarlier ==
  ASSUME NEW r \in References, NEW i \in IDs, r[1] \in Migrations[i]
  PROVE  \E j \in 1..i : r[2] \in Migrations[j]
<1>1. IDs = 1..21
  BY MigrationsAre DEF IDs
<1>2. CASE r \in AgentReferences
  BY <1>1, <1>2, MigrationsAre, SMTT(60) DEF AgentReferences
<1>3. CASE r \in ServiceReferences
  BY <1>1, <1>3, MigrationsAre, SMTT(60) DEF ServiceReferences
<1>4. CASE r \in PersonalReferences
  BY <1>1, <1>4, MigrationsAre, SMTT(60) DEF PersonalReferences
<1>5. QED
  BY <1>2, <1>3, <1>4 DEF References

\* An empty file is as good as the defaults.
LEMMA EmptyIsLoadable == Loadable(DefaultConfig) => Loadable(Empty)
<1>1. DOMAIN Empty = {}
  BY DEF Empty
<1>2. Decode(Empty) = [f \in Fields |-> DefaultConfig[f]]
  BY <1>1 DEF Decode
<1>3. Decode(DefaultConfig) = [f \in Fields |-> DefaultConfig[f]]
  BY DEF Decode
<1>4. QED
  BY <1>2, <1>3, StartupAssumption DEF Loadable

LEMMA TablesUpto ==
  ASSUME NEW k \in 0..Len(Migrations)
  PROVE  TablesOf(1..k) \subseteq TablesOf(IDs) /\ 1..k \subseteq IDs
<1>1. 1..k \subseteq IDs
  BY MigrationsType
<1>2. QED
  BY <1>1 DEF TablesOf

LEMMA InitInv == Init => IInv
<1> SUFFICES ASSUME Init PROVE IInv
  OBVIOUS
<1>1. PICK n \in OldRuns : Upto(n)
  BY DEF Init, Upto
<1>2. n \in 0..Len(Migrations)
  BY StartupAssumption
<1>3. TypeOK
  <2>1. db \in [tables : SUBSET TablesOf(IDs), applied : SUBSET IDs]
    <3>1. TablesOf(1..n) \subseteq TablesOf(IDs) /\ 1..n \subseteq IDs
      BY <1>2, TablesUpto
    <3>2. QED
      BY <1>1, <3>1 DEF Upto
  <2>2. proc \in [Procs -> [pc : Places, next : 1..Len(Migrations) + 1]]
    <3>1. 1 \in 1..Len(Migrations) + 1
      BY MigrationsType
    <3>2. QED
      BY <3>1 DEF Init, Places, Resting
  <2>3. boots \in 0..MaxBoots /\ stopped \in BOOLEAN
    <3>1. MaxBoots \in Nat
      BY StartupAssumption
    <3>2. boots = 0 /\ stopped = FALSE
      BY DEF Init
    <3>3. boots \in 0..MaxBoots
      BY <3>1, <3>2
    <3>4. stopped \in BOOLEAN
      BY <3>2
    <3>5. QED
      BY <3>3, <3>4
  <2>4. wal \in BOOLEAN
    BY DEF Init
  <2>5. QED
    BY <2>1, <2>2, <2>3, <2>4 DEF Init, TypeOK, Places
<1>4. LedgerInv
  BY <1>1, <1>2 DEF LedgerInv
<1>5. \A p \in Procs : proc[p].pc = "down"
  BY DEF Init
<1>6. QED
  BY <1>3, <1>4, <1>5 DEF IInv, FirstInv, FirstPlaces, ProgressInv, FileInv

-----------------------------------------------------------------------------
\* The steps of db.New.
Opening(p) == OpenDB(p) \/ OpenBusy(p) \/ TakeReserved(p) \/ GiveUp(p) \/ Switch(p)

LEMMA OpeningFact ==
  ASSUME NEW p \in Procs, Opening(p)
  PROVE  /\ \/ Goto(p, "check") /\ (At(p, "open") \/ At(p, "reserved"))
            \/ Goto(p, "shared") /\ At(p, "open")
            \/ (Goto(p, "busy") \/ Goto(p, "reserved")) /\ At(p, "shared")
            \/ Goto(p, "failed")
         /\ wal' = wal \/ wal' = TRUE
         /\ UNCHANGED <<file, db, boots, stopped>>
BY DEF Opening, OpenDB, OpenBusy, TakeReserved, GiveUp, Switch

\* Types are kept: a migration adds tables of IDs, and next goes no further
\* than one past the last.
LEMMA TypeStep == IInv /\ [Next]_vars => TypeOK'
<1> SUFFICES ASSUME IInv, [Next]_vars PROVE TypeOK'
  OBVIOUS
<1> USE DEF IInv
<1>1. CASE UNCHANGED vars
  BY <1>1 DEF vars, TypeOK
<1>2. CASE Next
  <2>1. PICK p \in Procs : Boot(p) \/ New(p) \/ Stop(p)
    BY <1>2 DEF Next
  <2>2. /\ \A place \in Places : Goto(p, place) =>
              proc' \in [Procs -> [pc : Places, next : 1..Len(Migrations) + 1]]
        /\ UNCHANGED proc =>
              proc' \in [Procs -> [pc : Places, next : 1..Len(Migrations) + 1]]
    <3>1. proc \in [Procs -> [pc : Places, next : 1..Len(Migrations) + 1]]
      BY DEF TypeOK, Places
    <3>2. QED
      BY <3>1 DEF Goto
  <2>3. UNCHANGED db => db' \in [tables : SUBSET TablesOf(IDs), applied : SUBSET IDs]
    BY DEF TypeOK
  <2>4. CASE Boot(p)
    <3>1. 1 \in 1..Len(Migrations) + 1 /\ boots' \in 0..MaxBoots
      BY <2>4, MigrationsType, StartupAssumption DEF Boot, TypeOK
    <3>2. proc' \in [Procs -> [pc : Places, next : 1..Len(Migrations) + 1]]
      BY <2>4, <3>1 DEF Boot, TypeOK, Places
    <3>3. QED
      BY <2>3, <2>4, <3>1, <3>2 DEF Boot, TypeOK, Places
  <2>5. CASE Stat(p) \/ Create(p) \/ Encode(p) \/ DecodeFile(p)
    BY <2>2, <2>3, <2>5 DEF Stat, Create, Encode, DecodeFile, TypeOK, Places, Resting
  <2>6. CASE Opening(p) \/ Migrated(p) \/ Stop(p)
    <3>1. wal' \in BOOLEAN
      BY <2>6, OpeningFact DEF Migrated, Stop, TypeOK
    <3>2. \E place \in Places : Goto(p, place)
      BY <2>6, OpeningFact DEF Migrated, Stop, Places, Resting
    <3>3. QED
      BY <2>2, <2>3, <2>6, <3>1, <3>2, OpeningFact DEF Migrated, Stop, TypeOK, Places
  <2>7. CASE Check(p)
    <3>1. CASE proc[p].next \in db.applied
      <4>1. proc[p].next \in 1..Len(Migrations) + 1 /\ proc[p].next \in IDs
        BY <2>7 DEF Check, TypeOK
      <4>2. proc[p].next + 1 \in 1..Len(Migrations) + 1
        BY <4>1, MigrationsType
      <4>3. proc' \in [Procs -> [pc : Places, next : 1..Len(Migrations) + 1]]
        BY SMTT(30), <2>7, <3>1, <4>2 DEF Check, TypeOK, Places
      <4>4. QED
        BY <2>3, <2>7, <4>3 DEF Check, TypeOK, Places
    <3>2. CASE proc[p].next \notin db.applied
      BY <2>2, <2>3, <2>7, <3>2 DEF Check, TypeOK, Places
    <3>3. QED
      BY <3>1, <3>2
  <2>8. CASE Apply(p)
    <3>1. CASE proc[p].next \in db.applied
      BY <2>2, <2>3, <2>8, <3>1 DEF Apply, TypeOK, Places, Resting
    <3>2. CASE proc[p].next \notin db.applied
      <4>1. proc[p].next \in IDs
        BY <2>8 DEF Apply, At, ProgressInv
      <4>2. proc[p].next + 1 \in 1..Len(Migrations) + 1
        BY <4>1, MigrationsType
      <4>3. Migrations[proc[p].next] \subseteq TablesOf(IDs)
        BY <4>1 DEF TablesOf
      <4>4. db' \in [tables : SUBSET TablesOf(IDs), applied : SUBSET IDs]
        BY <2>8, <3>2, <4>1, <4>3 DEF Apply, TypeOK
      <4>5. proc' \in [Procs -> [pc : Places, next : 1..Len(Migrations) + 1]]
        BY <2>8, <3>2, <4>2 DEF Apply, TypeOK, Places
      <4>6. QED
        BY <2>8, <4>4, <4>5 DEF Apply, TypeOK, Places
    <3>3. QED
      BY <3>1, <3>2
  <2>9. QED
    BY <2>1, <2>4, <2>5, <2>6, <2>7, <2>8 DEF New, Opening
<1>3. QED
  BY <1>1, <1>2

-----------------------------------------------------------------------------
\* A migration that is applied is the first of those that were not.
LEMMA ApplyFact ==
  ASSUME IInv, NEW k \in 0..Len(Migrations), Upto(k), NEW p \in Procs, Apply(p),
         proc[p].next \notin db.applied
  PROVE  /\ proc[p].next = k + 1 /\ k + 1 \in 0..Len(Migrations)
         /\ Upto(k + 1)'
         /\ proc' = [proc EXCEPT ![p] = [pc |-> "check", next |-> k + 2]]
<1>1. /\ proc[p].next \in IDs
      /\ 1..(proc[p].next - 1) \subseteq 1..k
      /\ proc[p].next \notin 1..k
  BY DEF IInv, ProgressInv, Apply, At, Upto
<1>2. proc[p].next \in 1..Len(Migrations) /\ k \in Nat /\ Len(Migrations) \in Nat
  BY <1>1, MigrationsType
<1>3. proc[p].next > k
  BY <1>1, <1>2
<1>4. proc[p].next <= k + 1
  <2>1. SUFFICES ASSUME proc[p].next > k + 1 PROVE FALSE
    BY <1>2
  <2>2. k + 1 \in 1..(proc[p].next - 1)
    BY <1>2, <2>1
  <2>3. QED
    BY <1>1, <1>2, <2>2
<1>5. proc[p].next = k + 1
  BY <1>2, <1>3, <1>4
<1>6. TablesOf(1..k) \cup Migrations[k + 1] = TablesOf(1..(k + 1))
  <2>1. 1..(k + 1) = (1..k) \cup {k + 1}
    BY <1>2
  <2>2. QED
    BY <2>1 DEF TablesOf
<1>7. (1..k) \cup {k + 1} = 1..(k + 1)
  BY <1>2
<1>8. db' = [tables |-> TablesOf(1..(k + 1)), applied |-> 1..(k + 1)]
  BY <1>5, <1>6, <1>7 DEF Apply, Upto
<1>9. TablesOf(1..(k + 1))' = TablesOf(1..(k + 1))
  BY DEF TablesOf, Migrations, AgentTables, ServiceTables, PersonalTables
<1>10. QED
  BY <1>2, <1>5, <1>8, <1>9 DEF Upto, Apply

\* Every other step leaves the database alone.
LEMMA OtherFact ==
  ASSUME [Next]_vars
  PROVE  \/ UNCHANGED db
         \/ \E p \in Procs : Apply(p) /\ proc[p].next \notin db.applied
BY DEF Next, vars, New, Boot, Stat, Create, Encode, DecodeFile, OpenDB, OpenBusy,
       TakeReserved, GiveUp, Switch, Check, Apply, Migrated, Stop

LEMMA LedgerStep == IInv /\ [Next]_vars => LedgerInv'
<1> SUFFICES ASSUME IInv, [Next]_vars PROVE LedgerInv'
  OBVIOUS
<1>1. PICK k \in 0..Len(Migrations) : Upto(k)
  BY DEF IInv, LedgerInv
<1>2. CASE UNCHANGED db
  BY <1>1, <1>2 DEF Upto, LedgerInv
<1>3. ASSUME NEW p \in Procs, Apply(p), proc[p].next \notin db.applied PROVE LedgerInv'
  <2>1. k + 1 \in 0..Len(Migrations) /\ Upto(k + 1)'
    BY <1>1, <1>3, ApplyFact
  <2>2. QED
    BY <2>1 DEF LedgerInv
<1>4. QED
  BY <1>2, <1>3, OtherFact

\* What has been applied stays applied.
LEMMA AppliedGrows == IInv /\ [Next]_vars => db.applied \subseteq db'.applied
<1> SUFFICES ASSUME IInv, [Next]_vars PROVE db.applied \subseteq db'.applied
  OBVIOUS
<1>1. CASE UNCHANGED db
  BY <1>1
<1>2. ASSUME NEW p \in Procs, Apply(p), proc[p].next \notin db.applied
      PROVE  db.applied \subseteq db'.applied
  BY <1>2 DEF Apply
<1>3. QED
  BY <1>1, <1>2, OtherFact

-----------------------------------------------------------------------------
\* A step of p leaves the other processes where they were, and what they have
\* seen applied stays so; p itself has looked at one migration more, or none.
LEMMA ProgressStep == IInv /\ [Next]_vars => ProgressInv'
<1> SUFFICES ASSUME IInv, [Next]_vars,
                    NEW q \in Procs
             PROVE  /\ proc'[q].pc \in {"check", "apply"} =>
                         1..(proc'[q].next - 1) \subseteq db'.applied
                    /\ proc'[q].pc = "apply" => proc'[q].next \in IDs
                    /\ proc'[q].pc = "up" => db'.applied = IDs
  BY DEF ProgressInv, IDs, Migrations, AgentTables, ServiceTables, PersonalTables
<1> USE DEF IInv
<1>1. /\ proc[q].pc \in {"check", "apply"} => 1..(proc[q].next - 1) \subseteq db.applied
      /\ proc[q].pc = "apply" => proc[q].next \in IDs
      /\ proc[q].pc = "up" => db.applied = IDs
      /\ proc[q].next \in 1..Len(Migrations) + 1
      /\ DOMAIN proc = Procs
  BY DEF ProgressInv, TypeOK
<1>2. db.applied \subseteq db'.applied
  BY AppliedGrows
<1>3. db'.applied \subseteq IDs
  BY TypeStep DEF TypeOK, IDs, Migrations, AgentTables, ServiceTables, PersonalTables
<1>4. CASE proc'[q] = proc[q]
  BY <1>1, <1>2, <1>3, <1>4
<1>5. CASE proc'[q] # proc[q]
  <2>1. PICK p \in Procs : Boot(p) \/ New(p) \/ Stop(p)
    BY <1>5 DEF Next, vars
  <2>2. \A place : Goto(p, place) =>
          /\ p = q
          /\ proc'[q].pc = place
          /\ proc'[q].next = proc[q].next
    BY <1>1, <1>5 DEF Goto, TypeOK
  <2>3. CASE Boot(p)
    <3>1. proc'[q].pc = "stat"
      BY <1>1, <1>5, <2>3 DEF Boot
    <3>2. QED
      BY <3>1
  <2>4. CASE Stat(p) \/ Create(p) \/ Encode(p) \/ DecodeFile(p) \/ Stop(p)
    <3>1. proc'[q].pc \in {"create", "decode", "encode", "open", "refused", "down"}
      BY <2>2, <2>4 DEF Stat, Create, Encode, DecodeFile, Stop
    <3>2. QED
      BY <3>1
  <2>5. CASE Opening(p)
    <3>1. CASE Goto(p, "check") /\ (At(p, "open") \/ At(p, "reserved"))
      <4>1. p = q /\ proc'[q].pc = "check" /\ proc'[q].next = proc[q].next
        BY <2>2, <3>1
      <4>2. proc[q].next = 1
        BY <3>1, <4>1 DEF At, FirstInv, FirstPlaces
      <4>3. QED
        BY <4>1, <4>2
    <3>2. CASE \E place \in {"shared", "busy", "reserved", "failed"} : Goto(p, place)
      BY <2>2, <3>2
    <3>3. QED
      BY <2>5, <3>1, <3>2, OpeningFact
  <2>6. CASE Check(p)
    <3>1. p = q /\ proc[q].pc = "check" /\ proc[q].next \in IDs
      BY <1>1, <1>5, <2>2, <2>6 DEF Check, At
    <3>2. CASE proc[q].next \in db.applied
      <4>1. proc'[q].pc = "check" /\ proc'[q].next = proc[q].next + 1
        BY <1>1, <2>6, <3>1, <3>2 DEF Check, TypeOK
      <4>2. 1..(proc[q].next + 1 - 1) = 1..(proc[q].next - 1) \cup {proc[q].next}
        BY <1>1, MigrationsType
      <4>3. QED
        BY <1>1, <1>2, <3>1, <3>2, <4>1, <4>2
    <3>3. CASE proc[q].next \notin db.applied
      <4>1. proc'[q].pc = "apply" /\ proc'[q].next = proc[q].next
        BY <2>2, <2>6, <3>1, <3>3 DEF Check
      <4>2. QED
        BY <1>1, <1>2, <3>1, <4>1
    <3>4. QED
      BY <3>2, <3>3
  <2>7. CASE Apply(p)
    <3>1. p = q
      BY <1>1, <1>5, <2>2, <2>7 DEF Apply
    <3>2. CASE proc[q].next \in db.applied
      <4>1. proc'[q].pc = "failed"
        BY <2>2, <2>7, <3>1, <3>2 DEF Apply
      <4>2. QED
        BY <4>1
    <3>3. CASE proc[q].next \notin db.applied
      <4>1. PICK k \in 0..Len(Migrations) : Upto(k)
        BY DEF LedgerInv
      <4>2. /\ k + 1 \in 0..Len(Migrations)
            /\ Upto(k + 1)'
            /\ proc' = [proc EXCEPT ![q] = [pc |-> "check", next |-> k + 2]]
        BY <2>7, <3>1, <3>3, <4>1, ApplyFact
      <4>3. proc'[q] = [pc |-> "check", next |-> k + 2]
        BY <1>1, <4>2
      <4>4. db'.applied = 1..(k + 1)
        BY <4>2 DEF Upto
      <4>5. k + 2 - 1 = k + 1
        BY <4>2, MigrationsType
      <4>6. QED
        BY <4>3, <4>4, <4>5
    <3>4. QED
      BY <3>2, <3>3
  <2>8. CASE Migrated(p)
    <3>1. p = q /\ proc[q].pc = "check" /\ proc[q].next \notin IDs /\ proc'[q].pc = "up"
      BY <2>2, <2>8 DEF Migrated, At
    <3>2. proc[q].next = Len(Migrations) + 1
      BY <1>1, <3>1, MigrationsType
    <3>3. IDs \subseteq db.applied
      BY <1>1, <3>1, <3>2, MigrationsType
    <3>4. QED
      BY <1>2, <1>3, <3>1, <3>3
  <2>9. QED
    BY <2>1, <2>3, <2>4, <2>5, <2>6, <2>7, <2>8 DEF New, Opening
<1>6. QED
  BY <1>4, <1>5

LEMMA FirstStep == IInv /\ [Next]_vars => FirstInv'
<1> SUFFICES ASSUME IInv, [Next]_vars, NEW q \in Procs,
                    proc'[q].pc \in FirstPlaces
             PROVE  proc'[q].next = 1
  BY DEF FirstInv, FirstPlaces
<1>1. proc \in [Procs -> [pc : Places, next : 1..Len(Migrations) + 1]] /\ FirstInv
  BY DEF IInv, TypeOK, Places
<1>2. CASE proc'[q] = proc[q]
  BY <1>1, <1>2 DEF FirstInv
<1>3. CASE proc'[q] # proc[q]
  <2>1. PICK p \in Procs : Boot(p) \/ New(p) \/ Stop(p)
    BY <1>3 DEF Next, vars
  <2>2. \A place : Goto(p, place) =>
          p = q /\ proc'[q].pc = place /\ proc'[q].next = proc[q].next
    BY <1>1, <1>3 DEF Goto
  <2>3. CASE Boot(p)
    BY <1>1, <1>3, <2>3 DEF Boot
  <2>4. CASE Stat(p) \/ Create(p) \/ Encode(p) \/ DecodeFile(p)
    BY <1>1, <2>2, <2>4 DEF Stat, Create, Encode, DecodeFile, At, FirstInv, FirstPlaces
  <2>5. CASE Opening(p)
    <3>1. ASSUME NEW place \in {"shared", "busy", "reserved"}, Goto(p, place),
                 At(p, "open") \/ At(p, "shared")
          PROVE  proc'[q].next = 1
      BY <1>1, <2>2, <3>1 DEF At, FirstInv, FirstPlaces
    <3>2. ~Goto(p, "check") /\ ~Goto(p, "failed")
      BY <2>2 DEF FirstPlaces
    <3>3. QED
      BY <2>5, <3>1, <3>2, OpeningFact
  <2>6. CASE Check(p)
    <3>1. proc'[q].pc \in {"check", "apply"}
      <4>1. CASE proc[p].next \in db.applied
        BY <1>1, <1>3, <2>6, <4>1 DEF Check, At
      <4>2. CASE proc[p].next \notin db.applied
        BY <2>2, <2>6, <4>2 DEF Check
      <4>3. QED
        BY <4>1, <4>2
    <3>2. QED
      BY <3>1 DEF FirstPlaces
  <2>7. CASE Apply(p)
    <3>1. CASE proc[p].next \in db.applied
      BY <2>2, <2>7, <3>1 DEF Apply, FirstPlaces
    <3>2. CASE proc[p].next \notin db.applied
      BY <1>1, <1>3, <2>7, <3>2 DEF Apply, FirstPlaces
    <3>3. QED
      BY <3>1, <3>2
  <2>8. CASE Migrated(p) \/ Stop(p)
    <3>1. ~Goto(p, "up") /\ ~Goto(p, "down")
      BY <2>2 DEF FirstPlaces
    <3>2. QED
      BY <2>8, <3>1 DEF Migrated, Stop
  <2>9. QED
    BY <2>1, <2>3, <2>4, <2>5, <2>6, <2>7, <2>8 DEF New, Opening
<1>4. QED
  BY <1>2, <1>3

-----------------------------------------------------------------------------
\* A process that creates the file has not found one, so only the program has
\* written it; and one that finds the file finds it for good.
LEMMA FileStep == IInv /\ [Next]_vars => FileInv'
<1> SUFFICES ASSUME IInv, [Next]_vars PROVE FileInv'
  OBVIOUS
<1> DEFINE Ours == {NoFile, Empty, DefaultConfig}
<1>1. /\ proc \in [Procs -> [pc : Places, next : 1..Len(Migrations) + 1]]
      /\ FileInv
  BY DEF IInv, TypeOK, Places
<1>2. /\ Ours' = Ours
      /\ Loadable(DefaultConfig)' = Loadable(DefaultConfig)
      /\ (Loadable(file))' = Loadable(file')
  BY DEF Empty, DefaultConfig, Loadable, Decode, Fields, Accepted, validatePort,
         applyEnvOverrides, Sets, SetField, NumberFields, FlagFields, ListFields
<1>3. NoFile \notin OldFiles /\ Empty # NoFile /\ DefaultConfig # NoFile
  BY StartupAssumption
<1>4. SUFFICES ASSUME NEW q \in Procs
               PROVE  /\ proc'[q].pc \in {"create", "encode"} => file' \in Ours
                      /\ proc'[q].pc = "decode" => file' # NoFile
                      /\ Loadable(DefaultConfig) /\ proc'[q].pc = "refused"
                           => file' \in OldFiles /\ ~Loadable(file')
  BY <1>2 DEF FileInv
<1>5. CASE UNCHANGED vars
  BY <1>1, <1>5 DEF vars, FileInv
<1>6. CASE Next
  <2>1. PICK p \in Procs : Boot(p) \/ New(p) \/ Stop(p)
    BY <1>6 DEF Next
  <2>2. \A place : Goto(p, place) =>
          proc'[q].pc = IF q = p THEN place ELSE proc[q].pc
    BY <1>1 DEF Goto
  <2>3. CASE Boot(p)
    <3>1. proc'[q].pc = (IF q = p THEN "stat" ELSE proc[q].pc) /\ file' = file
      BY <1>1, <2>3 DEF Boot
    <3>2. QED
      BY <1>1, <3>1 DEF FileInv
  <2>4. CASE Stat(p)
    <3>1. /\ file' = file
          /\ proc'[q].pc = IF q = p THEN IF file = NoFile THEN "create" ELSE "decode"
                            ELSE proc[q].pc
      BY <2>2, <2>4 DEF Stat
    <3>2. QED
      BY <1>1, <3>1 DEF FileInv
  <2>5. CASE Create(p) \/ Encode(p)
    <3>1. file \in Ours /\ file' \in {Empty, DefaultConfig}
      BY <1>1, <2>5 DEF Create, Encode, At, FileInv
    <3>2. /\ proc'[q].pc \in {proc[q].pc, "encode", "open", "refused"}
          /\ proc'[q].pc = "refused" /\ Loadable(DefaultConfig) => proc[q].pc = "refused"
      BY <2>2, <2>5 DEF Create, Encode
    <3>3. Loadable(DefaultConfig) => proc[q].pc # "refused"
      BY <1>1, <1>3, <3>1, EmptyIsLoadable DEF FileInv
    <3>4. QED
      BY <1>3, <3>1, <3>2, <3>3
  <2>6. CASE DecodeFile(p)
    <3>1. /\ file' = file /\ file # NoFile
          /\ proc'[q].pc = IF q = p THEN IF Loadable(file) THEN "open" ELSE "refused"
                            ELSE proc[q].pc
      BY <1>1, <2>2, <2>6 DEF DecodeFile, At, FileInv
    <3>2. file \in OldFiles \cup Ours
      BY DEF IInv, TypeOK
    <3>3. QED
      BY <1>1, <3>1, <3>2, EmptyIsLoadable DEF FileInv
  <2>7. CASE Opening(p) \/ Migrated(p) \/ Stop(p)
    <3>1. /\ proc'[q].pc \in {proc[q].pc, "shared", "reserved", "busy", "check", "failed", "up",
                              "down"}
          /\ file' = file
      BY <2>2, <2>7, OpeningFact DEF Migrated, Stop
    <3>2. QED
      BY <1>1, <3>1 DEF FileInv
  <2>8. CASE Check(p)
    <3>1. proc'[q].pc \in {proc[q].pc, "check", "apply"} /\ file' = file
      <4>1. CASE proc[p].next \in db.applied
        BY <1>1, <2>8, <4>1 DEF Check, At
      <4>2. CASE proc[p].next \notin db.applied
        BY <2>2, <2>8, <4>2 DEF Check
      <4>3. QED
        BY <4>1, <4>2
    <3>2. QED
      BY <1>1, <3>1 DEF FileInv
  <2>9. CASE Apply(p)
    <3>1. proc'[q].pc \in {proc[q].pc, "check", "failed"} /\ file' = file
      <4>1. CASE proc[p].next \in db.applied
        BY <2>2, <2>9, <4>1 DEF Apply
      <4>2. CASE proc[p].next \notin db.applied
        BY <1>1, <2>9, <4>2 DEF Apply
      <4>3. QED
        BY <4>1, <4>2
    <3>2. QED
      BY <1>1, <3>1 DEF FileInv
  <2>10. QED
    BY <2>1, <2>3, <2>4, <2>5, <2>6, <2>7, <2>8, <2>9 DEF New, Opening
<1>7. QED
  BY <1>5, <1>6

LEMMA SpecInv == Spec => []IInv
<1>1. IInv /\ [Next]_vars => IInv'
  BY TypeStep, LedgerStep, ProgressStep, FirstStep, FileStep DEF IInv
<1>2. QED
  BY InitInv, <1>1, PTL DEF Spec

LEMMA CountTo ==
  ASSUME NEW k \in 0..Len(Migrations)
  PROVE  Cardinality(1..k) = k
<1>1. k \in Int /\ k >= 0
  BY MigrationsType
<1>2. Cardinality(1..k) = IF 1 > k THEN 0 ELSE k - 1 + 1
  BY <1>1, FS_Interval
<1>3. QED
  BY <1>1, <1>2

LEMMA CountUpto ==
  ASSUME NEW k \in 0..Len(Migrations), Upto(k)
  PROVE  Cardinality(db.applied) = k
BY CountTo DEF Upto

\* Ledger and Startup speak of the same migrations.
LEMMA SameSchema ==
  /\ L!Migrations = Migrations
  /\ \A ids : L!TablesOf(ids) = TablesOf(ids)
BY DEF L!TablesOf, TablesOf, L!Migrations, Migrations, L!AgentTables, AgentTables,
       L!ServiceTables, ServiceTables, L!PersonalTables, PersonalTables

-----------------------------------------------------------------------------
(***************************************************************************)
(* The theorems.                                                           *)
(***************************************************************************)
\* Every step keeps the disk and the processes within their types: next stays
\* within one of the last migration (engine.New, Migrate's loop).
THEOREM TypeCorrect == Spec => []TypeOK
BY SpecInv, PTL DEF IInv

\* The database implements Ledger, however many processes start, race and are
\* stopped: it holds the tables of the first n migrations, and n grows by one
\* (Migrate's transactions and the count that skips what is applied).
THEOREM LedgerImplemented == Spec => SchemaIsALedger
<1>1. ASSUME Init PROVE L!Init
  <2>1. PICK k \in 0..Len(Migrations) : Upto(k)
    BY <1>1, InitInv DEF IInv, LedgerInv
  <2>2. Cardinality(db.applied) = k /\ db.tables = TablesOf(1..k)
    BY <2>1, CountUpto DEF Upto
  <2>3. QED
    BY <2>2, SameSchema DEF L!Init
<1>2. ASSUME IInv, [Next]_vars
      PROVE  [L!Migrate]_<<Cardinality(db.applied), db.tables>>
  <2>1. CASE UNCHANGED db
    BY <2>1
  <2>2. ASSUME NEW p \in Procs, Apply(p), proc[p].next \notin db.applied
        PROVE  L!Migrate
    <3>1. PICK k \in 0..Len(Migrations) : Upto(k)
      BY <1>2 DEF IInv, LedgerInv
    <3>2. k + 1 \in 0..Len(Migrations) /\ Upto(k + 1)'
      BY <1>2, <2>2, <3>1, ApplyFact
    <3>3. Cardinality(db.applied) = k
      BY <3>1, CountUpto
    <3>4. Cardinality(db'.applied) = k + 1 /\ db'.tables = TablesOf(1..(k + 1))
      <4>1. db' = [tables |-> TablesOf(1..(k + 1)), applied |-> 1..(k + 1)]
        BY <3>2 DEF Upto, TablesOf, Migrations, AgentTables, ServiceTables, PersonalTables
      <4>2. Cardinality(1..(k + 1)) = k + 1
        BY <3>2, CountTo
      <4>3. QED
        BY <4>1, <4>2
    <3>5. k < Len(Migrations)
      BY <3>2, MigrationsType
    <3>6. QED
      BY <3>3, <3>4, <3>5, SameSchema DEF L!Migrate
  <2>3. QED
    BY <1>2, <2>1, <2>2, OtherFact
<1>3. QED
  BY <1>1, <1>2, SpecInv, PTL DEF Spec, SchemaIsALedger, L!Spec

\* Config.toml can be refused only if it was so before the first start,
\* wherever the starts before were stopped (Load's create branch).
THEOREM OwnFileLoadable == Spec => []OwnFileIsLoadable
<1>1. IInv => OwnFileIsLoadable
  <2> SUFFICES ASSUME IInv, NEW p \in Procs, proc[p].pc = "refused",
                      Loadable(DefaultConfig)
               PROVE  \E f \in OldFiles : file = f /\ ~Loadable(f)
    BY DEF OwnFileIsLoadable, At
  <2>1. file \in OldFiles /\ ~Loadable(file)
    BY DEF IInv, FileInv
  <2>2. QED
    BY <2>1
<1>2. QED
  BY <1>1, SpecInv, PTL

\* A process past Migrate runs on the whole schema, also when another process
\* applied a part of it (Migrate's loop).
THEOREM UpMigrated == Spec => []UpIsMigrated
<1>1. IInv => UpIsMigrated
  <2> SUFFICES ASSUME IInv, NEW p \in Procs, proc[p].pc = "up"
               PROVE  db.tables = TablesOf(IDs)
    BY DEF UpIsMigrated, At
  <2>1. db.applied = IDs
    BY DEF IInv, ProgressInv
  <2>2. PICK k \in 0..Len(Migrations) : Upto(k)
    BY DEF IInv, LedgerInv
  <2>3. QED
    BY <2>1, <2>2 DEF Upto
<1>2. QED
  BY <1>1, SpecInv, PTL
\* Wherever a start was stopped, a table refers to no table that is missing
\* (the order of Migrations, and one transaction for each).
THEOREM ReferencesAlwaysResolve == Spec => []ReferencesResolve
<1>1. IInv => ReferencesResolve
  <2> SUFFICES ASSUME IInv, NEW r \in References, r[1] \in db.tables
               PROVE  r[2] \in db.tables
    BY DEF ReferencesResolve
  <2>1. PICK k \in 0..Len(Migrations) : Upto(k)
    BY DEF IInv, LedgerInv
  <2>2. db.tables = UNION {Migrations[i] : i \in 1..k}
    BY <2>1 DEF Upto, TablesOf
  <2>3. PICK i \in 1..k : r[1] \in Migrations[i]
    BY <2>2
  <2>4. i \in IDs /\ 1..i \subseteq 1..k
    BY <2>1, <2>3, MigrationsType
  <2>5. PICK j \in 1..i : r[2] \in Migrations[j]
    BY <2>3, <2>4, ReferencesAreEarlier
  <2>6. QED
    BY <2>2, <2>4, <2>5
<1>2. QED
  BY <1>1, SpecInv, PTL
=============================================================================
