-------------------------------- MODULE Routing --------------------------------
(***************************************************************************)
(* src/internal/model/router.go as the turns of src/internal/agent/loop.go *)
(* use it: every iteration of ProcessMessage asks Router.Chat with an      *)
(* empty model, so Route goes by its rules.  The turns share the rules and *)
(* take no lock.                                                           *)
(*                                                                         *)
(* checkProvider repairs the rules of a provider that no longer has the    *)
(* model a rule names, while Route goes on with the copy it made before.   *)
(* A Go string is two words, so a rule's Model is a pair: a reader or      *)
(* another writer may come between the writes of its words, and the name   *)
(* it then reads is nobody's.                                              *)
(*                                                                         *)
(* A definition marked "Mutant" is a wrong version of the one after it;    *)
(* it is used only to show that the property it breaks can fail.           *)
(***************************************************************************)
EXTENDS Integers, Sequences, FiniteSets

LOCAL INSTANCE SequencesExt

CONSTANTS
  Callers,    \* turns that may run at the same time
  Rules,      \* the rules: a sequence of [intent, provider]
  Defaults,   \* the model each rule names at first
  Unknown,    \* IntentUnknown
  Lists,      \* provider -> the lists of models it may have, none empty
  MaxChanges  \* bound: changes of a provider's list (a pull, a removal)

Providers == {r.provider : r \in ToSet(Rules)}
Intents == {r.intent : r \in ToSet(Rules)} \ {Unknown}
Names == ToSet(Defaults) \cup UNION {UNION {ToSet(l) : l \in Lists[p]} : p \in Providers}

ASSUME RoutingAssumption ==
  /\ DOMAIN Defaults = DOMAIN Rules
  /\ \A p \in Providers : <<>> \notin Lists[p]
  /\ MaxChanges \in Nat

Nobody == "none"

VARIABLES
  list,     \* provider -> what its ListModels answers
  changes,  \* changes of list so far
  model,    \* rule -> its Model: [ptr, len], the name each word is of
  turn      \* turn -> its call of Router.Chat

routingVars == <<list, changes, model, turn>>

Whole(n) == [ptr |-> n, len |-> n]

\* A call: where it is; its intent; the rule it is at; matchedRules with the
\* Model as it was copied; the provider and the name it chose; the name it
\* writes, the head of the provider's list.
RouteCalls == [pc : {"idle", "copy", "check", "last", "check last", "write", "write2", "chat"},
          intent : Intents \cup {Nobody},
          i : 1..Len(Rules) + 1,
          copies : Seq([rule : DOMAIN Rules, name : [ptr : Names, len : Names]]),
          provider : Providers \cup {Nobody},
          name : [ptr : Names \cup {Nobody}, len : Names \cup {Nobody}],
          head : Names \cup {Nobody}]

Idle == [pc |-> "idle", intent |-> Nobody, i |-> 1, copies |-> <<>>,
         provider |-> Nobody, name |-> Whole(Nobody), head |-> Nobody]

RoutingInit ==
  /\ list \in {f \in [Providers -> UNION {Lists[p] : p \in Providers}] :
                 \A p \in Providers : f[p] \in Lists[p]}
  /\ changes = 0
  /\ model = [i \in DOMAIN Rules |-> Whole(Defaults[i])]
  /\ turn = [t \in Callers |-> Idle]

CallAt(t, pc) == turn[t].pc = pc

Listed(p, name) == \E n \in ToSet(list[p]) : name = Whole(n)

-----------------------------------------------------------------------------
\* An iteration of ProcessMessage: the intent is that of all its messages,
\* and words that tie are settled by the order of a map.
Ask(t, intent) ==
  /\ CallAt(t, "idle")
  /\ turn' = [turn EXCEPT ![t] = [Idle EXCEPT !.pc = "copy", !.intent = intent]]
  /\ UNCHANGED <<list, changes, model>>

Matches(rule, intent) == rule.intent \in {intent, Unknown}

\* Route's first loop, for one rule.
Copy(t) ==
  LET c == turn[t]
      copied == IF Matches(Rules[c.i], c.intent)
                  THEN Append(c.copies, [rule |-> c.i, name |-> model[c.i]])
                  ELSE c.copies
      done == c.i = Len(Rules)
  IN /\ CallAt(t, "copy")
     /\ turn' = [turn EXCEPT ![t] = [c EXCEPT !.copies = copied,
                                              !.i = IF done THEN 1 ELSE c.i + 1,
                                              !.pc = IF done THEN "check" ELSE "copy"]]
     /\ UNCHANGED <<list, changes, model>>

RulesOf(p) == {k \in DOMAIN Rules : Rules[k].provider = p}
UnknownRules == {k \in DOMAIN Rules : Rules[k].intent = Unknown}

\* The first place of ks from i on, or one past the last rule.
NextIn(ks, i) ==
  LET rest == {k \in ks : k >= i}
  IN IF rest = {} THEN Len(Rules) + 1 ELSE CHOOSE k \in rest : \A j \in rest : k <= j

\* Mutant: the repaired name stays in the call.
AnsweredUnrepaired(t, p, name) ==
  turn' = [turn EXCEPT ![t] = [Idle EXCEPT !.pc = "chat", !.provider = p, !.name = name]]

\* ListModels of checkProvider answers: the provider is chosen, with the
\* name of the rule as it was read, and if the list has no such name the
\* rules of the provider are given the list's head.
Answered(t, p, name) ==
  turn' = [turn EXCEPT ![t] =
             IF Listed(p, name)
               THEN [Idle EXCEPT !.pc = "chat", !.provider = p, !.name = name]
               ELSE [Idle EXCEPT !.pc = "write", !.provider = p, !.name = name,
                                 !.head = Head(list[p]), !.i = NextIn(RulesOf(p), 1)]]

\* Route's second loop: the copies are checked in order.
Check(t) ==
  LET rule == turn[t].copies[turn[t].i]
  IN /\ CallAt(t, "check") /\ turn[t].i <= Len(turn[t].copies)
     /\ Answered(t, Rules[rule.rule].provider, rule.name)
     /\ UNCHANGED <<list, changes, model>>

\* ListModels fails, or the list is empty: the next copy, and after the
\* last the third loop.
CheckFails(t) ==
  /\ CallAt(t, "check")
  /\ turn' = [turn EXCEPT ![t] =
                IF @.i <= Len(@.copies)
                  THEN [@ EXCEPT !.i = @ + 1]
                  ELSE [@ EXCEPT !.pc = "last", !.i = NextIn(UnknownRules, 1), !.copies = <<>>]]
  /\ UNCHANGED <<list, changes, model>>

\* Route's third loop: the rules of IntentUnknown once more, read one by
\* one, each before its provider is asked.
ReadLast(t) ==
  /\ CallAt(t, "last") /\ turn[t].i <= Len(Rules)
  /\ turn' = [turn EXCEPT ![t].pc = "check last", ![t].name = model[turn[t].i]]
  /\ UNCHANGED <<list, changes, model>>

CheckLast(t) ==
  /\ CallAt(t, "check last")
  /\ Answered(t, Rules[turn[t].i].provider, turn[t].name)
  /\ UNCHANGED <<list, changes, model>>

CheckLastFails(t) ==
  /\ CallAt(t, "check last")
  /\ turn' = [turn EXCEPT ![t].pc = "last", ![t].name = Idle.name,
                         ![t].i = NextIn(UnknownRules, turn[t].i + 1)]
  /\ UNCHANGED <<list, changes, model>>

\* "no suitable provider found".
NoneFound(t) ==
  /\ CallAt(t, "last") /\ turn[t].i > Len(Rules)
  /\ turn' = [turn EXCEPT ![t] = Idle]
  /\ UNCHANGED <<list, changes, model>>

\* checkProvider's loop, for one rule of the provider: its Model is written
\* word by word.
Write(t) ==
  /\ CallAt(t, "write") /\ turn[t].i <= Len(Rules)
  /\ model' = [model EXCEPT ![turn[t].i].ptr = turn[t].head]
  /\ turn' = [turn EXCEPT ![t].pc = "write2"]
  /\ UNCHANGED <<list, changes>>

Write2(t) ==
  /\ CallAt(t, "write2")
  /\ model' = [model EXCEPT ![turn[t].i].len = turn[t].head]
  /\ turn' = [turn EXCEPT ![t].pc = "write",
                         ![t].i = NextIn(RulesOf(turn[t].provider), turn[t].i + 1)]
  /\ UNCHANGED <<list, changes>>

Written(t) ==
  /\ CallAt(t, "write") /\ turn[t].i > Len(Rules)
  /\ turn' = [turn EXCEPT ![t].pc = "chat"]
  /\ UNCHANGED <<list, changes, model>>

\* registry.Chat of the chosen provider, whatever it answers.  The turn's
\* next iteration, or its next turn, is another call.
Chat(t) ==
  /\ CallAt(t, "chat")
  /\ turn' = [turn EXCEPT ![t] = Idle]
  /\ UNCHANGED <<list, changes, model>>

\* A model is pulled or removed, or the server restarts with others.
Change(p) ==
  /\ changes < MaxChanges
  /\ changes' = changes + 1
  /\ \E l \in Lists[p] \ {list[p]} : list' = [list EXCEPT ![p] = l]
  /\ UNCHANGED <<model, turn>>

Routes(t) ==
  \/ Copy(t)
  \/ Check(t) \/ CheckFails(t)
  \/ ReadLast(t) \/ CheckLast(t) \/ CheckLastFails(t) \/ NoneFound(t)
  \/ Write(t) \/ Write2(t) \/ Written(t)
  \/ Chat(t)

RoutingNext ==
  \/ \E t \in Callers : Routes(t) \/ \E intent \in Intents : Ask(t, intent)
  \/ \E p \in Providers : Change(p)

RoutingSpec == RoutingInit /\ [][RoutingNext]_routingVars

\* A call that has begun goes on: ListModels and Chat end by the context's
\* deadline.  Nobody has to ask again.
RoutingFairness == \A t \in Callers : WF_routingVars(Routes(t))

RoutingFairSpec == RoutingSpec /\ RoutingFairness

-----------------------------------------------------------------------------
\* The type of the state.
RoutingTypeOK ==
  /\ list \in [Providers -> Seq(Names)]
  /\ changes \in 0..MaxChanges
  /\ model \in [DOMAIN Rules -> [ptr : Names, len : Names]]
  /\ turn \in [Callers -> RouteCalls]

Misnamed(t) == CallAt(t, "chat") /\ ~Listed(turn[t].provider, turn[t].name)

\* Once the providers' lists stay as they are, only finitely many calls go
\* to a model their provider does not have: whatever order the unlocked
\* writes of several turns took, and even if a name was left half written
\* by two of them, the calls that are given it repair it.
NamesSettle == <>[](\A t \in Callers : ~Misnamed(t))
=============================================================================
