------------------------------ MODULE Dialogue ------------------------------
(***************************************************************************)
(* The deterministic half of a conversation: packages/dialogue/src.  What  *)
(* a caller says is classified (classify-intent.ts) and a tool is chosen   *)
(* for it, by the branches written for BoBi (decide-action.ts) or by the   *)
(* tenant's catalogue (decide-generic-action.ts); the system prompt of a   *)
(* call names the tools the agent may be told to use (system-prompt.ts).   *)
(*                                                                         *)
(* An utterance is the set of known keywords it contains.  A catalogue is  *)
(* a sequence of intents in the order the database returned them, each     *)
(* with its key, its keywords in a sequence (one listed twice counts       *)
(* twice), the tool it is routed to or None, its sortOrder and whether it  *)
(* is enabled.                                                             *)
(***************************************************************************)
EXTENDS Integers, Sequences, FiniteSets, SequencesExt

CONSTANTS
  Words,        \* the keywords an utterance may contain
  BobiKeywords, \* KEYWORD_MAP: the keywords of every BoBi intent but "other"
  None          \* null

INTENTS == <<"usage", "billing", "tech_error", "upgrade", "churn", "new_signup", "other">>
TIE_BREAK_ORDER == <<"churn", "upgrade", "new_signup", "tech_error", "billing", "usage", "other">>
Emotions == {"angry", "urgent", "confused", "neutral"}
SystemTools == {"lookup_subscriber", "get_kb_answer", "create_ticket", "route_to_sales",
                "send_selfservice_link", "request_callback", "escalate_to_human",
                "send_kakao_alimtalk"}

MAX_INTENT_ATTEMPTS == 2
KB_CONFIDENCE_THRESHOLD == 500        \* confidences are counted in thousandths

ASSUME BobiKeywordsAssumption ==
  BobiKeywords \in [ToSet(INTENTS) \ {"other"} -> Seq(Words)]

-----------------------------------------------------------------------------
\* Mutant: one attempt more is allowed.
Mut_TriedEnough(attempts) == attempts > MAX_INTENT_ATTEMPTS

\* countMatches
Score(keywords, said) == Cardinality({n \in DOMAIN keywords : keywords[n] \in said})

\* The first intent in the order given whose score no earlier one reaches.
Better(best, def, said) ==
  LET score == Score(def.keywords, said)
  IN IF score > best.score THEN [key |-> def.key, score |-> score] ELSE best

Best(defs, said, fallback) ==
  LET best[n \in 0 .. Len(defs)] ==
        IF n = 0 THEN [key |-> fallback, score |-> 0] ELSE Better(best[n - 1], defs[n], said)
  IN best[Len(defs)]

Total(defs, said) ==
  LET total[n \in 0 .. Len(defs)] ==
        IF n = 0 THEN 0 ELSE total[n - 1] + Score(defs[n].keywords, said)
  IN total[Len(defs)]

\* The share of the best score among all matches, rounded to three digits.
Confidence(score, total) ==
  IF total = 0 THEN 0 ELSE (2000 * score + total) \div (2 * total)

Classified(defs, said, fallback) ==
  LET best == Best(defs, said, fallback)
  IN [key |-> best.key, confidence |-> Confidence(best.score, Total(defs, said))]

ClassifyBobi(said) ==
  LET keywordsOf(intent) == IF intent = "other" THEN << >> ELSE BobiKeywords[intent]
  IN Classified([n \in DOMAIN TIE_BREAK_ORDER |->
                   [key |-> TIE_BREAK_ORDER[n], keywords |-> keywordsOf(TIE_BREAK_ORDER[n])]],
                said, "other")

\* The enabled intents by sortOrder; equal ones stay as the database returned them.
Enabled(defs) == {n \in DOMAIN defs : defs[n].enabled}

SortsBefore(defs, a, b) ==
  defs[a].sortOrder < defs[b].sortOrder \/ (defs[a].sortOrder = defs[b].sortOrder /\ a < b)

Rank(defs, n) == 1 + Cardinality({m \in Enabled(defs) : SortsBefore(defs, m, n)})

Sorted(defs) ==
  [r \in 1 .. Cardinality(Enabled(defs)) |->
     defs[CHOOSE n \in Enabled(defs) : Rank(defs, n) = r]]

\* classifyIntentWithCatalog throws when no intent is enabled: the key is None.
ClassifyWithCatalog(catalogue, said) ==
  LET sorted == Sorted(catalogue)
  IN IF sorted = << >> THEN [key |-> None, confidence |-> 0]
     ELSE Classified(sorted, said, Last(sorted).key)

-----------------------------------------------------------------------------
\* tagEmotion: what was heard of each emotion, the strongest first.
TagEmotion(heard) ==
  IF "angry" \in heard THEN "angry"
  ELSE IF "urgent" \in heard THEN "urgent"
  ELSE IF "confused" \in heard THEN "confused"
  ELSE "neutral"

Decision(action, tool) == [action |-> action, tool |-> tool]
Unresolved(intent) == intent \in {None, "other"}
TriedEnough(attempts) == attempts >= MAX_INTENT_ATTEMPTS

(***************************************************************************)
(* decideAction.  A state is the intent or None, its confidence or None,   *)
(* the attempts at it, whether the knowledge base was tried and unsure,    *)
(* whether advice on insurance was asked for, and the caller's emotion.    *)
(***************************************************************************)
DecideAction(state) ==
  LET unsure == \/ state.kbLowConfidence
                \/ state.confidence # None /\ state.confidence < KB_CONFIDENCE_THRESHOLD
      prioritize == state.emotion \in {"angry", "urgent"}
  IN CASE state.insuranceAdviceRequested -> Decision("escalate", "escalate_to_human")
       [] OTHER ->
     CASE Unresolved(state.intent) /\ TriedEnough(state.intentAttempts) ->
            Decision("request_callback", "request_callback")
       [] OTHER ->
     CASE state.intent = None -> Decision("reask", None)
       [] state.intent \in {"upgrade", "churn", "new_signup"} ->
            Decision("route_sales", "route_to_sales")
       [] state.intent = "tech_error" -> Decision("create_ticket", "create_ticket")
       [] state.intent = "billing" -> Decision("send_selfservice", "send_selfservice_link")
       [] state.intent = "usage" /\ unsure /\ prioritize ->
            Decision("escalate", "escalate_to_human")
       [] state.intent \in {"usage", "other"} /\ unsure /\ ~ (state.intent = "usage" /\ prioritize) ->
            Decision("request_callback", "request_callback")
       [] OTHER -> Decision("answer_from_kb", "get_kb_answer")

\* findIntent: the enabled intents of the catalogue with this key, at most one.
FindIntent(key, catalogue) ==
  {n \in DOMAIN catalogue : catalogue[n].enabled /\ catalogue[n].key = key}

\* decideGenericAction, with the fallback tool and the attempts of the agent's settings.
DecideGenericAction(intent, attempts, catalogue, config) ==
  LET found == FindIntent(intent, catalogue)
      routed == {catalogue[n].routingToolName : n \in found} \ {None}
  IN CASE found = {} /\ (intent # None \/ attempts >= config.maxIntentAttempts) ->
            Decision("unresolved_fallback", config.intentUnresolvedFallbackTool)
       [] found = {} /\ intent = None /\ attempts < config.maxIntentAttempts ->
            Decision("reask", None)
       [] found # {} /\ routed # {} ->
            Decision("route_to_intent_tool", CHOOSE tool \in routed : TRUE)
       [] OTHER -> Decision("answer_from_kb", "get_kb_answer")

BOBI_ROUTING_TOOL(intent) ==
  CASE intent = "usage" -> "get_kb_answer"
    [] intent = "billing" -> "send_selfservice_link"
    [] intent = "tech_error" -> "create_ticket"
    [] intent \in {"upgrade", "churn", "new_signup"} -> "route_to_sales"
    [] OTHER -> None

BOBI_DEFAULT_TENANT_INTENTS ==
  [n \in DOMAIN INTENTS |->
     [key |-> INTENTS[n],
      keywords |-> IF INTENTS[n] = "other" THEN << >> ELSE BobiKeywords[INTENTS[n]],
      routingToolName |-> BOBI_ROUTING_TOOL(INTENTS[n]),
      sortOrder |-> n - 1, enabled |-> TRUE]]

BOBI_DEFAULT_AGENT_CONFIG ==
  [intentUnresolvedFallbackTool |-> "request_callback", maxIntentAttempts |-> 2]

-----------------------------------------------------------------------------
(***************************************************************************)
(* buildTenantSystemPrompt at the start of a call, before consent and      *)
(* verification: the sections in order, and the tools each of them names.  *)
(* The settings that add sections are whether hours, emergency keywords    *)
(* and constraints of the trade are set, and what is done after hours.     *)
(***************************************************************************)
SystemPrompt(settings, isAfterHours) ==
  LET opt(condition, section) == IF condition THEN <<section>> ELSE << >> IN
  <<"role">> \o opt(settings.hours /\ isAfterHours, "after_hours")
    \o opt(settings.emergency, "emergency")
    \o <<"tone", "greeting", "consent", "identity", "intents", "tool_rules", "payment_guard">>
    \o opt(settings.constraints, "constraints") \o opt(settings.hours, "hours")
    \o <<"emotion", "closing">>

\* buildToolRulesSectionTenant names the tool of every enabled intent that has one.
RoutedTools(catalogue) ==
  {catalogue[n].routingToolName : n \in {m \in DOMAIN catalogue : catalogue[m].enabled}} \ {None}

ToolsNamedIn(section, settings, catalogue) ==
  CASE section = "after_hours" ->
         IF settings.afterHoursMode = "callback" THEN {"request_callback"} ELSE {}
    [] section \in {"emergency", "consent"} -> {"escalate_to_human"}
    [] section = "identity" -> {"lookup_subscriber"}
    [] section = "intents" -> {"request_callback"}
    [] section = "tool_rules" ->
         RoutedTools(catalogue) \cup {"escalate_to_human", "request_callback"}
    [] section = "payment_guard" -> {"send_selfservice_link"}
    [] OTHER -> {}

ToolsNamed(settings, isAfterHours, catalogue) ==
  UNION {ToolsNamedIn(section, settings, catalogue) :
           section \in ToSet(SystemPrompt(settings, isAfterHours))}
=============================================================================
