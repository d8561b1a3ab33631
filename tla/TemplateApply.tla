---------------------------- MODULE TemplateApply ---------------------------
(* POST /tenants/:id/industry-template and the automatic application at        *)
(* approval: one tenant's agent configuration, intents and knowledge base, and *)
(* the packs merged into them.  IndustryTemplateService.apply reads the three, *)
(* plans the merge with the pure planIndustryTemplateApply and writes the plan *)
(* with one query per item, while the owner edits the same rows from the       *)
(* console.  Every action is one query.                                        *)
EXTENDS Integers, FiniteSets

CONSTANTS Packs,         \* industry packs a request may name
          Fields,        \* single-valued fields of the agent configuration
          Fillable,      \* those a pack fills when empty: persona, SMS settings
          Rules,         \* entries of the list fields (tone, constraints, keywords)
          Intents,       \* intent keys
          Questions,     \* knowledge base questions, trimmed
          PackRules, PackIntents, PackQuestions,  \* what each pack brings
          MaxItems,      \* bound: knowledge items the owner keeps per question
          Applies        \* applications in flight at once; a finished one is reused

Empty == "empty"
Own == "own"

PacksAssumption ==
  /\ Fillable \subseteq Fields
  /\ PackRules \in [Packs -> SUBSET Rules]
  /\ PackIntents \in [Packs -> SUBSET Intents]
  /\ PackQuestions \in [Packs -> SUBSET Questions]
  /\ Packs # {} /\ Empty \notin Packs /\ Own \notin Packs
  /\ MaxItems \in Nat

VARIABLES
  agentConfig, \* the TenantAgentConfig row, or NoConfig
  intents,     \* keys of the tenant's intents, (tenantId, key) unique
  kb,          \* [Questions -> how many items ask it]
  at,          \* [Applies -> where the application waits]
  pack,        \* [Applies -> the pack it applies]
  toRead,      \* [Applies -> queries of its Promise.all not answered yet]
  readConfig,  \* [Applies -> the configuration it read]
  todoIntents, todoKb, \* [Applies -> what its plan still has to create]
  disturbed    \* history: the applications during which another request changed
               \* the tenant's rows

tenant == <<agentConfig, intents, kb>>
plan == <<readConfig, todoIntents, todoKb>>
vars == <<tenant, at, pack, toRead, plan, disturbed>>

Values == {Empty, Own} \cup Packs
Config == [exists : BOOLEAN, fields : [Fields -> Values], rules : SUBSET Rules]
NoConfig == [exists |-> FALSE, fields |-> [f \in Fields |-> Empty], rules |-> {}]
Reads == {"config", "intents", "kb"}

TypeOK ==
  /\ agentConfig \in Config
  /\ intents \subseteq Intents
  /\ kb \in [Questions -> Nat]
  /\ at \in [Applies -> {"idle", "reading", "writing"}]
  /\ pack \in [Applies -> Packs]
  /\ toRead \in [Applies -> SUBSET Reads]
  /\ readConfig \in [Applies -> Config]
  /\ todoIntents \in [Applies -> SUBSET Intents]
  /\ todoKb \in [Applies -> SUBSET Questions]
  /\ disturbed \subseteq Applies

\* Signup and onboarding leave a configuration whose fields and lists are
\* empty, POST /tenants leaves none.
Init ==
  /\ agentConfig \in {NoConfig, [NoConfig EXCEPT !.exists = TRUE]}
  /\ intents = {}
  /\ kb = [q \in Questions |-> 0]
  /\ at = [a \in Applies |-> "idle"]
  /\ pack = [a \in Applies |-> CHOOSE p \in Packs : TRUE]
  /\ toRead = [a \in Applies |-> {}]
  /\ readConfig = [a \in Applies |-> NoConfig]
  /\ todoIntents = [a \in Applies |-> {}]
  /\ todoKb = [a \in Applies |-> {}]
  /\ disturbed = {}

InFlight(a) == at[a] # "idle"

\* History, kept by every step: a change of the rows disturbs the applications
\* in flight among others.
Disturb(others) == disturbed' = {a \in Applies :
  at'[a] # "idle" /\ (a \in disturbed \/ (a \in others /\ tenant' # tenant))}

-----------------------------------------------------------------------------
\* Mutant: the pack's value replaces what is there.
Replaced(fs, p) == [f \in Fields |-> IF f \in Fillable THEN p ELSE fs[f]]

\* planIndustryTemplateApply on what was read: fill what is empty, append what
\* is missing, create the keys and questions that do not exist.
Filled(fs, p) == [f \in Fields |-> IF f \in Fillable /\ fs[f] = Empty THEN p ELSE fs[f]]

NextConfig(c, p) == [exists |-> TRUE, fields |-> Filled(c.fields, p),
                     rules |-> c.rules \cup PackRules[p]]

\* The tenant and the pack were found; the three queries are issued at once.
Begin(a) ==
  /\ ~InFlight(a)
  /\ at' = [at EXCEPT ![a] = "reading"]
  /\ \E p \in Packs : pack' = [pack EXCEPT ![a] = p]
  /\ toRead' = [toRead EXCEPT ![a] = Reads]
  /\ UNCHANGED <<tenant, plan>>

Answered(a, x) == /\ at[a] = "reading" /\ x \in toRead[a]
                  /\ toRead' = [toRead EXCEPT ![a] = @ \ {x}]

ReadConfig(a) ==
  /\ Answered(a, "config")
  /\ readConfig' = [readConfig EXCEPT ![a] = agentConfig]
  /\ UNCHANGED <<tenant, at, pack, todoIntents, todoKb>>

ReadIntents(a) ==
  /\ Answered(a, "intents")
  /\ todoIntents' = [todoIntents EXCEPT ![a] = PackIntents[pack[a]] \ intents]
  /\ UNCHANGED <<tenant, at, pack, readConfig, todoKb>>

\* Mutant: the questions that exist already are not skipped.
ReadKbAll(a) ==
  /\ Answered(a, "kb")
  /\ todoKb' = [todoKb EXCEPT ![a] = PackQuestions[pack[a]]]
  /\ UNCHANGED <<tenant, at, pack, readConfig, todoIntents>>

ReadKb(a) ==
  /\ Answered(a, "kb")
  /\ todoKb' = [todoKb EXCEPT ![a] = {q \in PackQuestions[pack[a]] : kb[q] = 0}]
  /\ UNCHANGED <<tenant, at, pack, readConfig, todoIntents>>

\* Mutant: a configuration is written only where there is none.
WriteNewConfig(a) ==
  /\ at[a] = "reading" /\ toRead[a] = {}
  /\ at' = [at EXCEPT ![a] = "writing"]
  /\ agentConfig' = IF ~readConfig[a].exists THEN NextConfig(readConfig[a], pack[a])
                                             ELSE agentConfig
  /\ readConfig' = [readConfig EXCEPT ![a] = NoConfig]
  /\ UNCHANGED <<intents, kb, pack, toRead, todoIntents, todoKb>>

\* The configuration is upserted whole, and only when the plan changes it.
WriteConfig(a) ==
  LET next == NextConfig(readConfig[a], pack[a])
  IN  /\ at[a] = "reading" /\ toRead[a] = {}
      /\ at' = [at EXCEPT ![a] = "writing"]
      /\ agentConfig' = IF next # readConfig[a] THEN next ELSE agentConfig
      /\ readConfig' = [readConfig EXCEPT ![a] = NoConfig]
      /\ UNCHANGED <<intents, kb, pack, toRead, todoIntents, todoKb>>

\* The application is over; what it had read and planned is garbage.
Over(a) ==
  /\ at' = [at EXCEPT ![a] = "idle"]
  /\ toRead' = [toRead EXCEPT ![a] = {}]
  /\ readConfig' = [readConfig EXCEPT ![a] = NoConfig]
  /\ todoIntents' = [todoIntents EXCEPT ![a] = {}]
  /\ todoKb' = [todoKb EXCEPT ![a] = {}]
  /\ UNCHANGED <<tenant, pack>>

\* One query per planned intent, in the pack's order, which nothing here tells
\* apart.  A key created meanwhile is a unique violation: the rest is not done.
CreateIntent(a, k) ==
  /\ at[a] = "writing" /\ k \in todoIntents[a] /\ k \notin intents
  /\ intents' = intents \cup {k}
  /\ todoIntents' = [todoIntents EXCEPT ![a] = @ \ {k}]
  /\ UNCHANGED <<agentConfig, kb, at, pack, toRead, readConfig, todoKb>>

KeyTaken(a, k) == at[a] = "writing" /\ k \in todoIntents[a] \cap intents /\ Over(a)

\* Then one per planned question; nothing makes questions unique.
CreateKb(a, q) ==
  /\ at[a] = "writing" /\ todoIntents[a] = {} /\ q \in todoKb[a]
  /\ kb' = [kb EXCEPT ![q] = @ + 1]
  /\ todoKb' = [todoKb EXCEPT ![a] = @ \ {q}]
  /\ UNCHANGED <<agentConfig, intents, at, pack, toRead, readConfig, todoIntents>>

\* The application is answered ok.
Finish(a) == at[a] = "writing" /\ todoIntents[a] = {} /\ todoKb[a] = {} /\ Over(a)

\* A query is rejected: apply throws, what it wrote stays.
Fail(a) == InFlight(a) /\ Over(a)

Apply(a) ==
  \/ Begin(a) \/ ReadConfig(a) \/ ReadIntents(a) \/ ReadKb(a) \/ WriteConfig(a)
  \/ \E k \in Intents : CreateIntent(a, k) \/ KeyTaken(a, k)
  \/ \E q \in Questions : CreateKb(a, q)
  \/ Finish(a) \/ Fail(a)

-----------------------------------------------------------------------------
\* The owner, from the console.  PUT /tenants/:id/agent-config stores a whole
\* configuration: here the one that was there with a field set or cleared, or
\* with a list entry added or removed.
Aside == UNCHANGED <<at, pack, toRead, plan>>

PutAgentConfig ==
  /\ \/ \E f \in Fields, v \in {Empty, Own} :
          agentConfig' = [agentConfig EXCEPT !.exists = TRUE, !.fields = [@ EXCEPT ![f] = v]]
     \/ \E r \in Rules :
          \/ agentConfig' = [agentConfig EXCEPT !.exists = TRUE, !.rules = @ \cup {r}]
          \/ agentConfig' = [agentConfig EXCEPT !.exists = TRUE, !.rules = @ \ {r}]
  /\ UNCHANGED <<intents, kb>> /\ Aside

PostIntent == /\ \E k \in Intents \ intents : intents' = intents \cup {k}
              /\ UNCHANGED <<agentConfig, kb>> /\ Aside

DeleteIntent == /\ \E k \in intents : intents' = intents \ {k}
                /\ UNCHANGED <<agentConfig, kb>> /\ Aside

\* Rewording an item's question is a deletion and a creation here.
PostKb == /\ \E q \in Questions : kb[q] < MaxItems /\ kb' = [kb EXCEPT ![q] = @ + 1]
          /\ UNCHANGED <<agentConfig, intents>> /\ Aside

DeleteKb == /\ \E q \in Questions : kb[q] > 0 /\ kb' = [kb EXCEPT ![q] = @ - 1]
            /\ UNCHANGED <<agentConfig, intents>> /\ Aside

Edit == PutAgentConfig \/ PostIntent \/ DeleteIntent \/ PostKb \/ DeleteKb

Next == \/ \E a \in Applies : Apply(a) /\ Disturb(Applies \ {a})
        \/ Edit /\ Disturb(Applies)

Spec == Init /\ [][Next]_vars

-----------------------------------------------------------------------------
\* What is filled stays as it is (planIndustryTemplateApply).
Kept == /\ \A f \in Fields : agentConfig.fields[f] # Empty
                               => agentConfig'.fields[f] = agentConfig.fields[f]
        /\ agentConfig.rules \subseteq agentConfig'.rules

\* Applying a pack never overwrites, as far as the code can keep that: an application
\* that nobody disturbed since it began overwrites nothing, whatever the packs, edits
\* and broken-off applications before it left, and however many others only read.
UndisturbedOverwritesNothing ==
  [][\A a \in Applies \ disturbed : Apply(a) => Kept]_vars

\* However often packs are applied and wherever an application broke off, an
\* undisturbed one adds no item for a question the knowledge base already asks
\* (KnowledgeItem has no unique key, only the plan skips it).
NoneTwice == \A q \in Questions : kb[q] > 0 => kb'[q] <= kb[q]
UndisturbedAsksNothingTwice ==
  [][\A a \in Applies \ disturbed : Apply(a) => NoneTwice]_vars

\* An undisturbed application answered ok leaves its whole pack in place, the
\* items it skipped included (the result of IndustryTemplateService.apply).
Whole(p) == /\ agentConfig.exists
            /\ \A f \in Fillable : agentConfig.fields[f] # Empty
            /\ PackRules[p] \subseteq agentConfig.rules
            /\ PackIntents[p] \subseteq intents
            /\ \A q \in PackQuestions[p] : kb[q] > 0
OkIsWhole == [][\A a \in Applies \ disturbed : Finish(a) => Whole(pack[a])]_vars

-----------------------------------------------------------------------------
\* What an undisturbed application read is still so when it writes, and what its
\* plan no longer lists is in place.
HasRead(a, x) == InFlight(a) /\ x \notin toRead[a]
ConfigCurrent(a) ==
  at[a] = "reading" /\ HasRead(a, "config") => readConfig[a] = agentConfig
ConfigWritten(a) == at[a] = "writing" =>
  /\ agentConfig.exists
  /\ \A f \in Fillable : agentConfig.fields[f] # Empty
  /\ PackRules[pack[a]] \subseteq agentConfig.rules
IntentsCurrent(a) == HasRead(a, "intents") =>
  PackIntents[pack[a]] \subseteq intents \cup todoIntents[a]
KbCurrent(a) == HasRead(a, "kb") =>
  /\ \A q \in todoKb[a] : kb[q] = 0
  /\ \A q \in PackQuestions[pack[a]] \ todoKb[a] : kb[q] > 0
Current(a) == ConfigCurrent(a) /\ ConfigWritten(a) /\ IntentsCurrent(a) /\ KbCurrent(a)

\* The inductive invariant of Spec.
IInv == /\ TypeOK
        /\ \A a \in disturbed : InFlight(a)
        /\ \A a \in Applies : at[a] = "writing" => toRead[a] = {}
        /\ \A a \in Applies \ disturbed : Current(a)
=============================================================================
