--------------------------------- MODULE Ledger ---------------------------------
(***************************************************************************)
(* What Migrate of src/internal/db/migrate.go promises of a database,      *)
(* whoever starts on it and whenever it is stopped: it always holds the    *)
(* tables of the first n migrations and no others, and n only grows, by    *)
(* one migration at a time.                                                *)
(***************************************************************************)
EXTENDS Schema

VARIABLES
  n,      \* migrations recorded
  tables  \* tables that exist

Init == n \in 0..Len(Migrations) /\ tables = TablesOf(1..n)

Migrate ==
  /\ n < Len(Migrations)
  /\ n' = n + 1
  /\ tables' = TablesOf(1..n')

Spec == Init /\ [][Migrate]_<<n, tables>>
=============================================================================
