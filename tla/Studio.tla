------------------------------- MODULE Studio -------------------------------
(***************************************************************************)
(* What a tenant's agent is made of besides its settings: the intents, the *)
(* webhook tools and the questions and answers (FAQ) that its owner edits  *)
(* on three console pages (IntentsPage, ToolsPage, KnowledgeBasePage.tsx), *)
(* the handlers of TenantsController that serve the edits, and             *)
(* TenantResolverService, which reads them for a call with two queries,    *)
(* one after the other.                                                    *)
(*                                                                         *)
(* One browser on one of the pages is followed click by click; what others *)
(* and its other pages do to the rows is Elsewhere.  A page has one form,  *)
(* filled from the list as last read, and two mutations, create and        *)
(* update, whose answers close the form.  A change of a row is a partial   *)
(* record merged into it.                                                  *)
(*                                                                         *)
(* The dialogue written for BoBi reads none of this: a behaviour is either *)
(* one of the studio or one conversation (talk) of Dialogue's.             *)
(***************************************************************************)
EXTENDS Dialogue

CONSTANTS
  IntentKeys,     \* the keys an intent may have
  KeywordsOf,     \* the keywords of each of them
  ToolIds,        \* database ids of webhook tools, each given once
  ToolNames,      \* the names webhook tools are given, which validateCustomToolName accepts
  FaqIds,         \* database ids of FAQ items, each given once
  OthersRows,     \* the rows others write, of each collection
  Gone,           \* the row of an id was deleted
  MaxChanges,     \* bound on the requests of the browser and the writes from elsewhere
  MaxTurns        \* bound on the turns of a conversation

ASSUME KeywordsAssumption == KeywordsOf \in [IntentKeys -> Seq(Words)]
ASSUME NamesAssumption == ToolNames # {} /\ ToolNames \cap SystemTools = {}
ASSUME KeysAssumption == IsFiniteSet(IntentKeys) /\ Cardinality(IntentKeys) > 1
ASSUME NoneAssumption ==
  /\ None # Gone /\ None \notin ToSet(INTENTS) \cup SystemTools
  /\ None \notin IntentKeys \cup ToolIds \cup FaqIds
ASSUME BoundAssumption == MaxChanges \in Nat /\ MaxTurns \in Nat

VARIABLES
  db,        \* tables TenantIntent, TenantTool and KnowledgeItem of the tenant
  lists,     \* the three lists as the browser last read them
  page,      \* the page it works on
  form,      \* its form, or None
  reqs,      \* the browser's requests that are not over
  changes,   \* how many there have been, with the writes from elsewhere
  resolve,   \* the intents read for a call whose tools are not read yet, or None
  gone,      \* names of webhook tools that have at some time not been on offer
  talk       \* a conversation under BoBi's rules, or None

vars == <<db, lists, page, form, reqs, changes, resolve, gone, talk>>

Collections == {"intents", "tools", "faq"}
Ids == [intents |-> IntentKeys, tools |-> ToolIds, faq |-> FaqIds]

Routings == {"create_ticket", None} \cup ToolNames
SortOrders == 0 .. Cardinality(IntentKeys)
Intent == [routingToolName : Routings, sortOrder : SortOrders, enabled : BOOLEAN]
Tool == [name : ToolNames, secret : BOOLEAN, enabled : BOOLEAN]
Faq == [category : {"any", None}, enabled : BOOLEAN]
Rows == [intents |-> Intent, tools |-> Tool, faq |-> Faq]
Missing == {None, Gone}

ASSUME RowsAssumption == \A c \in Collections : OthersRows[c] \subseteq Rows[c]

Live(table) == {id \in DOMAIN table : table[id] \notin Missing}
StoredNames(tables) == {tables.tools[id].name : id \in Live(tables.tools)}
Offered(tables) ==
  {tables.tools[id].name : id \in {t \in Live(tables.tools) : tables.tools[t].enabled}}

TypeOK ==
  /\ \A c \in Collections :
       /\ \A id \in Ids[c] : db[c][id] \in Rows[c] \cup Missing
       /\ \A id \in Ids[c] : lists[c][id] \in Rows[c] \cup Missing
  /\ page \in Collections
  /\ form # None => /\ form.id \in Ids[page] \cup {None}
                    /\ form.draft \in Rows[page]
                    /\ form.basis \in Rows[page] \cup {None}
  /\ \A r \in reqs : /\ r.coll \in Collections /\ r.op \in {"create", "update", "delete"}
                     /\ r.stage \in {"sent", "found", "ok", "failed"}
  /\ changes \in 0 .. MaxChanges
  /\ gone \subseteq ToolNames
  /\ talk # None => talk.turns \in 0 .. MaxTurns

-----------------------------------------------------------------------------
\* Mutants: webhook tools without a secret are not offered; the edit form opens
\* enabled.
Mut_CallTools(tables) ==
  SystemTools \cup {tables.tools[id].name :
    id \in {t \in Live(tables.tools) : tables.tools[t].enabled /\ tables.tools[t].secret}}
Mut_Fill(row) == [row EXCEPT !.enabled = TRUE]

\* buildRuntimeToolList: the system's tools, and the enabled ones of the tenant whose
\* names are not theirs.
CallTools(tables) == SystemTools \cup Offered(tables)

\* The rows an adapter's list returns for a call: by sortOrder, equal ones in any order.
Listings(table) ==
  {s \in [1 .. Cardinality(Live(table)) -> Live(table)] :
     \A a, b \in DOMAIN s : a < b => /\ s[a] # s[b]
                                     /\ table[s[a]].sortOrder <= table[s[b]].sortOrder}

ToDefinition(table, key) ==
  [key |-> key, keywords |-> KeywordsOf[key], routingToolName |-> table[key].routingToolName,
   sortOrder |-> table[key].sortOrder, enabled |-> table[key].enabled]

\* resolveByTenantId: the intents, by one query, and then the tools by another.
ReadIntents ==
  /\ resolve = None
  /\ \E s \in Listings(db.intents) :
       resolve' = [n \in DOMAIN s |-> ToDefinition(db.intents, s[n])]
  /\ UNCHANGED <<db, lists, page, form, reqs, changes, gone>>

ReadTools ==
  /\ resolve # None
  /\ resolve' = None
  /\ UNCHANGED <<db, lists, page, form, reqs, changes, gone>>

-----------------------------------------------------------------------------
\* A write to a table; gone remembers the names that are stored or were, and not offered.
Write(c, id, row) ==
  /\ db' = [db EXCEPT ![c][id] = row]
  /\ gone' = gone \cup ((StoredNames(db) \cup StoredNames(db')) \ Offered(db'))

\* Creates: an intent's key and a tool's name are unique, an FAQ item needs a category.
Creatable(c, id, row) ==
  CASE c = "intents" -> db.intents[id] \in Missing
    [] c = "tools" -> db.tools[id] = None /\ row.name \notin StoredNames(db) \cup SystemTools
    [] c = "faq" -> db.faq[id] = None /\ row.category # None

\* A partial record merged into a row.
Patched(row, change) ==
  [f \in DOMAIN change \cup DOMAIN row |-> IF f \in DOMAIN change THEN change[f] ELSE row[f]]

\* What an update leaves: where its row is gone the adapters throw.
Merged(body, row) == IF row \in Missing THEN row ELSE Patched(row, body)

Step(r, stage) == reqs' = (reqs \ {r}) \cup {[r EXCEPT !.stage = stage]}
NoWrite == UNCHANGED <<db, gone>>

ServeCreate(r) ==
  /\ r.op = "create" /\ r.stage = "sent"
  /\ \/ \E id \in IF r.coll = "intents" THEN {r.id} ELSE Ids[r.coll] :
          /\ Creatable(r.coll, id, r.body)
          /\ Write(r.coll, id, r.body)
          /\ Step(r, "ok")
     \/ /\ CASE r.coll = "intents" -> db.intents[r.id] \notin Missing
             [] r.coll = "tools" -> r.body.name \in StoredNames(db) \cup SystemTools
             [] r.coll = "faq" -> r.body.category = None
        /\ Step(r, "failed")
        /\ NoWrite

\* Tools and FAQ items are looked up before they are changed or deleted.
ServeFind(r) ==
  /\ r.op # "create" /\ r.coll # "intents" /\ r.stage = "sent"
  /\ Step(r, IF db[r.coll][r.id] \notin Missing THEN "found"
             ELSE IF r.op = "delete" THEN "ok" ELSE "failed")
  /\ NoWrite

Ready(r) == r.stage = IF r.coll = "intents" THEN "sent" ELSE "found"

ServeUpdate(r) ==
  LET row == db[r.coll][r.id] IN
  /\ r.op = "update" /\ Ready(r)
  /\ Write(r.coll, r.id, Merged(r.body, row))
  /\ Step(r, IF row \in Missing THEN "failed" ELSE "ok")

ServeDelete(r) ==
  /\ r.op = "delete" /\ Ready(r)
  /\ IF db[r.coll][r.id] \in Missing THEN NoWrite /\ Step(r, "failed")
     ELSE Write(r.coll, r.id, Gone) /\ Step(r, "ok")

Serve(r) ==
  /\ ServeCreate(r) \/ ServeFind(r) \/ ServeUpdate(r) \/ ServeDelete(r)
  /\ UNCHANGED <<lists, page, form, changes, resolve>>

-----------------------------------------------------------------------------
\* useMutation: mutate makes its request the latest one of its observer, and only the
\* latest one's own onSuccess is called; leaving the page drops them all.
Mutate(r) ==
  /\ changes < MaxChanges
  /\ changes' = changes + 1
  /\ reqs' = {IF q.coll = r.coll /\ q.op = r.op THEN [q EXCEPT !.latest = FALSE] ELSE q :
                q \in reqs} \cup {r}

IsPending(op) == \E r \in reqs : r.coll = page /\ r.op = op /\ r.latest

Request(op, id, body, save, basis, typed) ==
  [coll |-> page, op |-> op, id |-> id, body |-> body, stage |-> "sent", latest |-> TRUE,
   save |-> save, basis |-> basis, typed |-> typed, n |-> changes]

NextSortOrder(list) == Cardinality(Live(list))

EmptyDraft(c, nextSortOrder) ==
  CASE c = "intents" -> [routingToolName |-> None, sortOrder |-> nextSortOrder, enabled |-> TRUE]
    [] c = "tools" -> [name |-> CHOOSE n \in ToolNames : TRUE, secret |-> FALSE, enabled |-> TRUE]
    [] c = "faq" -> [category |-> None, enabled |-> TRUE]

\* The edit form is a copy of the listed row; a tool's secret is not known and left blank.
Fill(row) == IF page = "tools" THEN [row EXCEPT !.secret = FALSE] ELSE row

\* Leaving a page, whenever it is opened again.
Leave ==
  /\ form' = None
  /\ reqs' = {[r EXCEPT !.latest = FALSE] : r \in reqs}
  /\ <<form', reqs'>> # <<form, reqs>>
  /\ UNCHANGED <<db, lists, page, changes, resolve, gone>>

StartNew(id) ==
  /\ form' = [id |-> id, draft |-> EmptyDraft(page, NextSortOrder(lists[page])),
              basis |-> None, typed |-> {}]
  /\ UNCHANGED <<db, lists, page, reqs, changes, resolve, gone>>

StartEdit(id) ==
  /\ id \in Live(lists[page])
  /\ form' = [id |-> id, draft |-> Fill(lists[page][id]), basis |-> lists[page][id], typed |-> {}]
  /\ UNCHANGED <<db, lists, page, reqs, changes, resolve, gone>>

Cancel ==
  /\ form # None
  /\ form' = None
  /\ UNCHANGED <<db, lists, page, reqs, changes, resolve, gone>>

\* What can be typed or chosen in the form of a page: the tools on offer for an intent
\* are the system's and all those of the list, enabled or not.  One field is typed into a form.
Changes ==
  [intents |-> [routingToolName : {"create_ticket", None} \cup StoredNames([db EXCEPT !.tools = lists.tools])]
                 \cup [enabled : BOOLEAN],
   tools |-> [name : ToolNames] \cup [secret : {TRUE}] \cup [enabled : BOOLEAN],
   faq |-> [category : {"any"}]]

Type ==
  /\ form # None /\ form.typed = {}
  /\ \E change \in Changes[page] :
       form' = [form EXCEPT !.draft = Patched(@, change), !.typed = DOMAIN change]
  /\ UNCHANGED <<db, lists, page, reqs, changes, resolve, gone>>

\* The server ignores the name in an update of a tool.
Patch(draft) ==
  IF page = "tools" THEN [secret |-> draft.secret, enabled |-> draft.enabled] ELSE draft

Save ==
  /\ form # None
  /\ ~ IsPending("create") /\ ~ IsPending("update")
  /\ IF form.basis = None
     THEN Mutate(Request("create", form.id, form.draft, TRUE, None, form.typed))
     ELSE Mutate(Request("update", form.id, Patch(form.draft), TRUE, form.basis, form.typed))
  /\ UNCHANGED <<db, lists, page, form, resolve, gone>>

\* KnowledgeBasePage: an answer is switched on or off from the list.
Toggle(id) ==
  /\ page = "faq" /\ id \in Live(lists.faq)
  /\ Mutate(Request("update", id, [enabled |-> ~ lists.faq[id].enabled], FALSE,
                    lists.faq[id], {"enabled"}))
  /\ UNCHANGED <<db, lists, page, form, resolve, gone>>

Delete(id) ==
  /\ id \in Live(lists[page])
  /\ Mutate(Request("delete", id, None, FALSE, None, {}))
  /\ UNCHANGED <<db, lists, page, form, resolve, gone>>

\* The answer to the latest Save closes the form, whichever form is open by then.
Answered(r) ==
  /\ r.stage \in {"ok", "failed"}
  /\ reqs' = reqs \ {r}
  /\ form' = IF r.stage = "ok" /\ r.latest /\ r.save THEN None ELSE form
  /\ UNCHANGED <<db, lists, page, changes, resolve, gone>>

\* A list is read again after a change of it, when the network returns, or when its page opens.
Refresh(c) ==
  /\ lists' = [lists EXCEPT ![c] = db[c]]
  /\ lists' # lists
  /\ UNCHANGED <<db, page, form, reqs, changes, resolve, gone>>

\* What an update does not change: a tool's name; and nobody reorders the intents.
Keeps(c, row, stored) ==
  /\ c = "tools" => row.name = stored.name
  /\ c = "intents" => row.sortOrder = stored.sortOrder

\* FAQ items have nothing to do with intents and tools: who edits the ones is not looked
\* at together with who edits the others.
Nearby == IF page = "faq" THEN {"faq"} ELSE {"intents", "tools"}

\* Other administrators use the same pages: an intent is routed to what they see listed.
Elsewhere ==
  /\ changes < MaxChanges
  /\ changes' = changes + 1
  /\ \E c \in Nearby : \E id \in Ids[c] :
       \/ \E row \in OthersRows[c] :
            /\ \/ Creatable(c, id, row)
               \/ db[c][id] \notin Missing /\ Keeps(c, row, db[c][id])
            /\ c = "intents" => /\ row.routingToolName \notin ToolNames \ StoredNames(db)
                                /\ db.intents[id] \in Missing =>
                                     row.sortOrder = Cardinality(Live(db.intents))
            /\ Write(c, id, row)
       \/ db[c][id] \notin Missing /\ Write(c, id, Gone)
  /\ UNCHANGED <<lists, page, form, reqs, resolve>>

-----------------------------------------------------------------------------
\* What decideAction is given in a turn: the intent is what classifyIntent or the
\* language model makes of the words, or null.
StateOf(said, known, heard, insurance, kbLow) ==
  LET class == ClassifyBobi(said) IN
  [intent |-> IF known THEN class.key ELSE None,
   confidence |-> IF known THEN class.confidence ELSE None,
   intentAttempts |-> talk.turns + 1,
   kbLowConfidence |-> kbLow /\ talk.last = "answer_from_kb",
   insuranceAdviceRequested |-> insurance, emotion |-> TagEmotion(heard)]

NoTalk == [turns |-> 0, last |-> None, asked |-> 0, missed |-> 0]

Turn ==
  /\ talk.turns < MaxTurns
  /\ \E said \in SUBSET Words, known, insurance, kbLow \in BOOLEAN,
        heard \in SUBSET (Emotions \ {"neutral"}) :
       LET state == StateOf(said, known, heard, insurance, kbLow)
           action == DecideAction(state).action
       IN talk' = [turns |-> talk.turns + 1, last |-> action,
                   asked |-> talk.asked + IF action = "reask" THEN 1 ELSE 0,
                   missed |-> IF Unresolved(state.intent)
                                   /\ action \notin {"request_callback", "escalate"}
                              THEN talk.missed + 1 ELSE 0]

-----------------------------------------------------------------------------
\* A tenant from an industry template: two intents of the system's tools, an FAQ item to
\* be switched on, and a webhook tool or none.
Template(tool) ==
  LET main == CHOOSE k \in IntentKeys : TRUE
      other == CHOOSE k \in IntentKeys \ {main} : TRUE
      first == CHOOSE t \in ToolIds : TRUE
      item == CHOOSE f \in FaqIds : TRUE
  IN [intents |-> [k \in IntentKeys |->
        IF k = main THEN [routingToolName |-> "create_ticket", sortOrder |-> 0, enabled |-> TRUE]
        ELSE IF k = other THEN [routingToolName |-> None, sortOrder |-> 1, enabled |-> TRUE]
        ELSE None],
      tools |-> [id \in ToolIds |-> IF id = first THEN tool ELSE None],
      faq |-> [id \in FaqIds |-> IF id = item THEN [category |-> "any", enabled |-> FALSE] ELSE None]]

Init ==
  /\ \E tool \in {None} \cup [name : {CHOOSE n \in ToolNames : TRUE}, secret : {TRUE}, enabled : {TRUE}] :
       db = Template(tool)
  /\ lists = db
  /\ page \in Collections
  /\ form = None
  /\ reqs = {}
  /\ changes = 0
  /\ resolve = None
  /\ gone = {}
  /\ talk \in {None, NoTalk}

Studio ==
  \/ ReadIntents
  \/ ReadTools
  \/ \E r \in reqs : Serve(r) \/ Answered(r)
  \/ \E c \in {page} \cup (IF page = "intents" THEN {"tools"} ELSE {}) : Refresh(c)
  \/ Leave
  \/ \E id \in IF page = "intents" THEN IntentKeys ELSE {None} : StartNew(id)
  \/ \E id \in Ids[page] : StartEdit(id) \/ Toggle(id) \/ Delete(id)
  \/ Cancel
  \/ Type
  \/ Save
  \/ Elsewhere

Next ==
  \/ talk = None /\ Studio /\ UNCHANGED talk
  \/ talk # None /\ Turn /\ UNCHANGED <<db, lists, page, form, reqs, changes, resolve, gone>>

Spec == Init /\ [][Next]_vars
-----------------------------------------------------------------------------
\* What a caller may say that matters to the tenant's intents.
Utterances == SUBSET UNION {ToSet(KeywordsOf[k]) : k \in IntentKeys}

\* The settings that add every optional section to a prompt.
FullSettings == [hours |-> TRUE, emergency |-> TRUE, constraints |-> TRUE,
                 afterHoursMode |-> "callback"]

(***************************************************************************)
(* A call is told of no webhook tool that it does not have, unless somebody *)
(* withdrew the tool: every tool its prompt names, with all its sections,  *)
(* and every tool decideGenericAction can choose on its catalogue is a     *)
(* system tool, on offer to it, or was deleted or switched off, before the *)
(* resolver's two queries or between them - no intent is rerouted then, and *)
(* nothing compares the two lists.  What is checked of the queries is what *)
(* is made between them and before: an intent is routed to a tool after    *)
(* the tool was made, so that a prompt never runs ahead of the tools only  *)
(* because the intents are read first (tenant-resolver.service.ts:113-114, *)
(* system-prompt.ts:347-357).                                              *)
(***************************************************************************)
PromptNamesOffered ==
  [][resolve # None /\ resolve' = None =>
       LET has == CallTools(db) \cup gone IN
       /\ ToolsNamed(FullSettings, TRUE, resolve) \subseteq has
       /\ \A key \in {resolve[n].key : n \in DOMAIN resolve} \cup {None},
             attempts \in {0, MAX_INTENT_ATTEMPTS} :
            DecideGenericAction(key, attempts, resolve, BOBI_DEFAULT_AGENT_CONFIG).tool
              \in has \cup {None}]_vars

(***************************************************************************)
(* What classifyIntent is to compute, without its loop: the enabled intent *)
(* with the most keywords heard, on a tie the one that sorts first, and    *)
(* when none is heard the one that sorts last (classify-intent.ts:146-230).*)
(***************************************************************************)
IsClassOf(defs, said, key) ==
  LET enabled == Enabled(defs)
      score(n) == Score(defs[n].keywords, said)
  IN \/ enabled = {} /\ key = None
     \/ \E n \in enabled :
          /\ key = defs[n].key
          /\ \A m \in enabled \ {n} :
               \/ score(m) < score(n)
               \/ score(m) = score(n) /\ score(n) > 0 /\ SortsBefore(defs, n, m)
               \/ score(m) = 0 /\ score(n) = 0 /\ SortsBefore(defs, m, n)

CatalogueClassified ==
  resolve # None =>
    \A said \in Utterances : IsClassOf(resolve, said, ClassifyWithCatalog(resolve, said).key)

(***************************************************************************)
(* The rules every tenant gets choose what the rules written for BoBi      *)
(* choose, on BoBi's own catalogue (classify-intent.ts:276-316,            *)
(* decide-generic-action.ts:55-113), except where the newer ones are       *)
(* simpler on purpose: advice on insurance, unsure answers, "other" after  *)
(* two attempts, and words on which two intents tie.                       *)
(***************************************************************************)
Tied(said) ==
  \E a, b \in DOMAIN BobiKeywords :
    a # b /\ Score(BobiKeywords[a], said) = Score(BobiKeywords[b], said)
          /\ Score(BobiKeywords[a], said) > 0

NewRulesAgree ==
  talk # None =>
    \A said \in SUBSET Words, known \in BOOLEAN :
      LET state == StateOf(said, known, {}, FALSE, FALSE)
          class == ClassifyWithCatalog(BOBI_DEFAULT_TENANT_INTENTS, said)
      IN \/ Tied(said)
         \/ known /\ state.confidence < KB_CONFIDENCE_THRESHOLD
         \/ state.intent = "other" /\ state.intentAttempts >= MAX_INTENT_ATTEMPTS
         \/ DecideGenericAction(IF known THEN class.key ELSE None, state.intentAttempts,
                                BOBI_DEFAULT_TENANT_INTENTS, BOBI_DEFAULT_AGENT_CONFIG).tool
              = DecideAction(state).tool

(***************************************************************************)
(* A conversation never goes round in circles: a caller is asked again at  *)
(* most once, and of the turns in a row whose intent stays unknown or      *)
(* "other" at most one goes by without a callback or a person              *)
(* (decide-action.ts:135-158, "no endless loop").                          *)
(***************************************************************************)
NoEndlessReask ==
  talk # None => talk.asked < MAX_INTENT_ATTEMPTS /\ talk.missed < MAX_INTENT_ATTEMPTS

(***************************************************************************)
(* Saving a form changes what was typed into it and nothing else, as long  *)
(* as the row is still the one the form was filled from, with one          *)
(* exception: a tool's signing secret is always overwritten, by the blank  *)
(* field it was left as (IntentsPage.tsx:50-60, ToolsPage.tsx:58-70,       *)
(* KnowledgeBasePage.tsx:59-68, tenant-prisma.ts:416-435).                 *)
(***************************************************************************)
Served(r) == [r EXCEPT !.stage = "ok"] \in reqs' \ reqs

OnlyTypedFieldsChange ==
  [][\A r \in reqs : r.op = "update" /\ Served(r) /\ db[r.coll][r.id] = r.basis =>
       \A f \in DOMAIN r.basis :
         db'[r.coll][r.id][f] # r.basis[f] => f \in r.typed \cup {"secret"}]_vars

(***************************************************************************)
(* What was deleted stays deleted: an update that looked its tool or FAQ   *)
(* item up before a delete and writes after it brings nothing back, and an *)
(* intent comes back only by being created again                           *)
(* (tenant-prisma.ts:330-340 and 416-435, prisma.ts:193-208).              *)
(***************************************************************************)
DeletedStaysDeleted ==
  [][/\ \A c \in {"tools", "faq"} : \A id \in Ids[c] : db[c][id] = Gone => db'[c][id] = Gone
     /\ \A k \in IntentKeys :
          (db.intents[k] = Gone /\ db'.intents[k] # Gone) =>
             \/ changes' # changes
             \/ \E r \in reqs : r.coll = "intents" /\ r.op = "create" /\ r.id = k /\ Served(r)
    ]_vars
(***************************************************************************)
(* The three rules of the dialogue together, with the types; and the two   *)
(* of the update: it writes what the form had typed, to a row that exists. *)
(***************************************************************************)
DialogueKeepsItsRules == TypeOK /\ CatalogueClassified /\ NewRulesAgree /\ NoEndlessReask

UpdatesKeepToTheForm == OnlyTypedFieldsChange /\ DeletedStaysDeleted
=============================================================================
