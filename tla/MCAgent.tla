------------------------------ MODULE MCAgent ------------------------------
\* What a tenant's agent is made of comes from two sides that share no state here,
\* each with a run of its own: the studio (Studio) and the application of an industry
\* template (TemplateApply).  Where one is run the other stands still.
EXTENDS Studio, TLC

CONSTANTS Packs, Fields, Fillable, Rules, Intents, Questions,
          PackRules, PackIntents, PackQuestions, MaxItems, Applies

VARIABLES agentConfig, intents, kb, at, pack, toRead, readConfig, todoIntents, todoKb,
          disturbed

P == INSTANCE TemplateApply

ASSUME PackAssumption == P!PacksAssumption

template == <<agentConfig, intents, kb, at, pack, toRead, readConfig, todoIntents, todoKb,
              disturbed>>
allVars == <<vars, template>>

MCInit ==
  /\ Init /\ P!Init
  /\ Applies # {} => page = "faq" /\ talk = None /\ \A id \in ToolIds : db.tools[id] = None
  /\ Applies = {} => ~ agentConfig.exists

StudioSpec == MCInit /\ [][Next /\ UNCHANGED template]_allVars
TemplateSpec == MCInit /\ [][P!Next /\ UNCHANGED vars]_allVars

\* The studio's instance: one or two keywords for every BoBi intent, one that usage and
\* churn share and one that billing lists twice; the tenant's two intents share one.
MCWords == {"how", "pay", "error", "plan", "leave", "join"}
MCBobiKeywords == [usage |-> <<"how", "leave">>, billing |-> <<"pay", "pay">>,
  tech_error |-> <<"error">>, upgrade |-> <<"plan">>, churn |-> <<"leave">>, new_signup |-> <<"join">>]
MCKeywordsOf == [k \in IntentKeys |-> IF k = "book" THEN <<"how", "pay">> ELSE <<"pay">>]

\* Others route an intent to the webhook tool, make, switch and delete things.
MCOthersRows == [
  intents |-> [routingToolName : {"check"}, sortOrder : SortOrders, enabled : {TRUE}],
  tools |-> [name : {"check"}, secret : {FALSE}, enabled : BOOLEAN],
  faq |-> [category : {"any"}, enabled : BOOLEAN]]

\* The template's: two packs that share an intent and a question and differ in the
\* persona; only the clinic's brings a rule.
RulesOf == [p \in Packs |-> IF p = "clinic" THEN Rules ELSE {}]
IntentsOf == [p \in Packs |-> Intents]
QuestionsOf == [p \in Packs |-> Questions]
Alike == Permutations(Applies)

\* The properties of TemplateApply, by their names; the studio's own come with Studio.
UndisturbedOverwritesNothing == P!UndisturbedOverwritesNothing
UndisturbedAsksNothingTwice == P!UndisturbedAsksNothingTwice
OkIsWhole == P!OkIsWhole
=============================================================================
