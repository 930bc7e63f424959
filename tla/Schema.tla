--------------------------------- MODULE Schema ---------------------------------
(***************************************************************************)
(* The migrations of src/internal/db/migrate.go as data: the tables each   *)
(* one creates (all of them CREATE ... IF NOT EXISTS) and the tables its   *)
(* REFERENCES clauses and content= options name.  Columns and indexes are  *)
(* left out.                                                               *)
(***************************************************************************)
EXTENDS Naturals, Sequences

\* Migrations 1 to 6: agents, their conversations and their documents.
AgentTables ==
  <<{"agents"}, {"sessions"}, {"messages"}, {"tool_bindings"},
    {"knowledge_bases"}, {"documents"}>>

AgentReferences ==
  {<<"sessions", "agents">>, <<"messages", "sessions">>, <<"messages", "messages">>,
   <<"tool_bindings", "agents">>, <<"documents", "knowledge_bases">>}

\* Migrations 7 to 13: providers, tasks, the audit log, the full-text indexes
\* and the calendar.
ServiceTables ==
  <<{"provider_configs"}, {"scheduled_tasks"}, {"audit_log"},
    {"messages_fts", "documents_fts"}, {"app_state"}, {"calendars"}, {"events"}>>

ServiceReferences ==
  {<<"scheduled_tasks", "agents">>, <<"messages_fts", "messages">>,
   <<"documents_fts", "documents">>, <<"events", "calendars">>}

\* Migrations 14 to 21: mail, reminders and the user's own data.
PersonalTables ==
  <<{"email_accounts"}, {"emails"}, {"reminders"}, {"skills"}, {"user_data"},
    {"system_hooks"}, {"notes"}, {"tasks"}>>

PersonalReferences ==
  {<<"emails", "email_accounts">>, <<"reminders", "events">>, <<"tasks", "agents">>}

\* Mutant: the personal tables are listed before the services they refer to.
PersonalFirst == AgentTables \o PersonalTables \o ServiceTables

Migrations == AgentTables \o ServiceTables \o PersonalTables

IDs == 1..Len(Migrations)

TablesOf(ids) == UNION {Migrations[i] : i \in ids}

References == AgentReferences \cup ServiceReferences \cup PersonalReferences
=============================================================================
