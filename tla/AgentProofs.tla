---------------------------- MODULE AgentProofs ----------------------------
(***************************************************************************)
(* Proofs about what a tenant's agent is made of: the studio (Studio) with *)
(* the decisions of a conversation (Dialogue), and the application of an   *)
(* industry template (TemplateApply).                                      *)
(*                                                                         *)
(* The studio's invariant (StudioInv) has three parts.  Typed gives every  *)
(* row, form and request its type, and says that what a form sends was     *)
(* typed into it.  Numbered tells requests apart.  Named says that every   *)
(* name of a webhook tool, wherever a list, a form, a request or a call    *)
(* has kept it, is of a tool on offer or of one known to have been         *)
(* withdrawn: PromptNamesOffered follows, and it is inductive only with    *)
(* the names that are still on their way.                                  *)
(*                                                                         *)
(* The classification of an utterance is a loop over the intents: Best is  *)
(* unrolled (BestUnrolled) and characterised by its least counterexample   *)
(* (BestIsFirst); Rank is an injection of a finite set into one of its     *)
(* size, so Sorted lists every enabled intent once (SortedLists).          *)
(***************************************************************************)
EXTENDS MCAgent, FiniteSetTheorems, SequenceTheorems, WellFoundedInduction, TLAPS
-----------------------------------------------------------------------------
(* The studio: types.                                                      *)

Keys == IntentKeys \cup ToolIds \cup FaqIds \cup {None}
AllRows == Intent \cup Tool \cup Faq
Tables == [intents : [IntentKeys -> Intent \cup Missing], tools : [ToolIds -> Tool \cup Missing],
           faq : [FaqIds -> Faq \cup Missing]]

\* What an update may carry: an intent whole, a tool without its name, a question whole
\* or its switch alone.
ToolChange == [secret : BOOLEAN, enabled : BOOLEAN]
Switch == [enabled : BOOLEAN]
Bodies == [intents |-> Intent, tools |-> ToolChange, faq |-> Faq \cup Switch]

Operations == {"create", "update", "delete"}
Stages == {"sent", "found", "ok", "failed"}
FieldNames == {"routingToolName", "sortOrder", "enabled", "name", "secret", "category"}
Requests == [coll : Collections, op : Operations, id : Keys,
             body : AllRows \cup ToolChange \cup Switch \cup {None}, stage : Stages,
             latest : BOOLEAN, save : BOOLEAN, basis : AllRows \cup {None},
             typed : SUBSET FieldNames, n : Nat]
Forms == [id : Keys, draft : AllRows, basis : AllRows \cup {None}, typed : SUBSET FieldNames]
Definitions == [key : IntentKeys, keywords : Seq(Words), routingToolName : Routings,
                sortOrder : SortOrders, enabled : BOOLEAN]

\* What differs from the row a form was filled from was typed, or is the secret.
Faithful(body, basis, typed) ==
  \A f \in DOMAIN basis :
    f \in DOMAIN body /\ body[f] # basis[f] => f \in typed \cup {"secret"}

FormFits ==
  form # None =>
    /\ form \in Forms
    /\ form.id \in Ids[page] \cup {None} /\ form.draft \in Rows[page]
    /\ form.basis \in Rows[page] \cup {None}
    /\ form.basis # None => form.id \in Ids[page] /\ Faithful(form.draft, form.basis, form.typed)
    /\ page = "intents" => form.id \in IntentKeys

RequestFits(r) ==
  /\ r \in Requests
  /\ r.op # "create" \/ r.coll = "intents" => r.id \in Ids[r.coll]
  /\ r.op = "create" => r.body \in Rows[r.coll]
  /\ r.op = "update" => /\ r.body \in Bodies[r.coll] /\ r.basis \in Rows[r.coll]
                        /\ Faithful(r.body, r.basis, r.typed)

\* The requests are told apart by when they were sent.
Numbered ==
  \A r \in reqs : r.n < changes /\ \A q \in reqs : q.n = r.n => q = r

Typed ==
  /\ db \in Tables /\ lists \in Tables /\ page \in Collections
  /\ FormFits
  /\ \A r \in reqs : RequestFits(r)
  /\ changes \in 0 .. MaxChanges
  /\ gone \subseteq ToolNames
  /\ resolve # None => resolve \in Seq(Definitions)

LEMMA EntryTyped ==
  ASSUME NEW t \in Tables, NEW c \in Collections, NEW id \in Ids[c]
  PROVE  t[c][id] \in Rows[c] \cup Missing
<1>1. CASE c = "intents"  BY <1>1 DEF Tables, Ids, Rows
<1>2. CASE c = "tools"    BY <1>2 DEF Tables, Ids, Rows
<1>3. CASE c = "faq"      BY <1>3 DEF Tables, Ids, Rows
<1> QED  BY <1>1, <1>2, <1>3 DEF Collections

Overwritten(t, c, id, row) == [t EXCEPT ![c][id] = row]

LEMMA WriteTyped ==
  ASSUME NEW t \in Tables, NEW c \in Collections, NEW id \in Ids[c],
         NEW row \in Rows[c] \cup Missing
  PROVE  /\ Overwritten(t, c, id, row) \in Tables
         /\ \A d \in Collections : \A i \in Ids[d] :
              Overwritten(t, c, id, row)[d][i] = IF d = c /\ i = id THEN row ELSE t[d][i]
<1> DEFINE u == [t[c] EXCEPT ![id] = row]
<1>1. CASE c = "intents"
  <2>1. u \in [IntentKeys -> Intent \cup Missing]
    BY <1>1 DEF Tables, Ids, Rows
  <2>2. \A i \in IntentKeys : u[i] = IF i = id THEN row ELSE t[c][i]
    BY <1>1 DEF Tables, Ids
  <2> HIDE DEF u
  <2>3. [t EXCEPT ![c] = u] \in Tables
    BY <1>1, <2>1 DEF Tables
  <2>4. \A d \in Collections : [t EXCEPT ![c] = u][d] = IF d = c THEN u ELSE t[d]
    BY <1>1 DEF Tables, Collections
  <2> QED  BY <1>1, <2>2, <2>3, <2>4 DEF u, Ids, Overwritten
<1>2. CASE c = "tools"
  <2>1. u \in [ToolIds -> Tool \cup Missing]
    BY <1>2 DEF Tables, Ids, Rows
  <2>2. \A i \in ToolIds : u[i] = IF i = id THEN row ELSE t[c][i]
    BY <1>2 DEF Tables, Ids
  <2> HIDE DEF u
  <2>3. [t EXCEPT ![c] = u] \in Tables
    BY <1>2, <2>1 DEF Tables
  <2>4. \A d \in Collections : [t EXCEPT ![c] = u][d] = IF d = c THEN u ELSE t[d]
    BY <1>2 DEF Tables, Collections
  <2> QED  BY <1>2, <2>2, <2>3, <2>4 DEF u, Ids, Overwritten
<1>3. CASE c = "faq"
  <2>1. u \in [FaqIds -> Faq \cup Missing]
    BY <1>3 DEF Tables, Ids, Rows
  <2>2. \A i \in FaqIds : u[i] = IF i = id THEN row ELSE t[c][i]
    BY <1>3 DEF Tables, Ids
  <2> HIDE DEF u
  <2>3. [t EXCEPT ![c] = u] \in Tables
    BY <1>3, <2>1 DEF Tables
  <2>4. \A d \in Collections : [t EXCEPT ![c] = u][d] = IF d = c THEN u ELSE t[d]
    BY <1>3 DEF Tables, Collections
  <2> QED  BY <1>3, <2>2, <2>3, <2>4 DEF u, Ids, Overwritten
<1> QED  BY <1>1, <1>2, <1>3 DEF Collections

\* A partial record merged into a row is a row of the collection.
LEMMA PatchTyped ==
  ASSUME NEW c \in Collections, NEW row \in Rows[c], NEW body \in Bodies[c]
  PROVE  /\ Patched(row, body) \in Rows[c]
         /\ DOMAIN Patched(row, body) = DOMAIN row
         /\ \A f \in DOMAIN row :
              Patched(row, body)[f] = IF f \in DOMAIN body THEN body[f] ELSE row[f]
<1>1. CASE c = "intents"
  BY <1>1 DEF Patched, Rows, Bodies, Intent
<1>2. CASE c = "tools"
  BY <1>2 DEF Patched, Rows, Bodies, Tool, ToolChange
<1>3. CASE c = "faq" /\ body \in Faq
  BY <1>3 DEF Patched, Rows, Faq
<1>4. CASE c = "faq" /\ body \in Switch
  BY <1>4 DEF Patched, Rows, Faq, Switch
<1> QED  BY <1>1, <1>2, <1>3, <1>4 DEF Collections, Bodies

LEMMA StageTyped ==
  ASSUME NEW r, RequestFits(r), NEW stage \in Stages
  PROVE  /\ RequestFits([r EXCEPT !.stage = stage])
         /\ LET q == [r EXCEPT !.stage = stage] IN
              /\ q.coll = r.coll /\ q.op = r.op /\ q.id = r.id /\ q.body = r.body
              /\ q.basis = r.basis /\ q.typed = r.typed /\ q.n = r.n
<1> DEFINE q == [r EXCEPT !.stage = stage]
<1>1. q \in Requests
  BY DEF RequestFits, Requests
<1>2. /\ q.coll = r.coll /\ q.op = r.op /\ q.id = r.id /\ q.body = r.body /\ q.basis = r.basis
      /\ q.typed = r.typed /\ q.n = r.n
  BY DEF RequestFits, Requests
<1> HIDE DEF q
<1>3. RequestFits(q)
  BY <1>1, <1>2 DEF RequestFits
<1> QED  BY <1>2, <1>3 DEF q

LEMMA LatestTyped ==
  ASSUME NEW r, RequestFits(r)
  PROVE  /\ RequestFits([r EXCEPT !.latest = FALSE])
         /\ LET q == [r EXCEPT !.latest = FALSE] IN
              /\ q.coll = r.coll /\ q.op = r.op /\ q.id = r.id /\ q.body = r.body
              /\ q.basis = r.basis /\ q.typed = r.typed /\ q.n = r.n
<1> DEFINE q == [r EXCEPT !.latest = FALSE]
<1>1. q \in Requests
  BY DEF RequestFits, Requests
<1>2. /\ q.coll = r.coll /\ q.op = r.op /\ q.id = r.id /\ q.body = r.body /\ q.basis = r.basis
      /\ q.typed = r.typed /\ q.n = r.n
  BY DEF RequestFits, Requests
<1> HIDE DEF q
<1>3. RequestFits(q)
  BY <1>1, <1>2 DEF RequestFits
<1> QED  BY <1>2, <1>3 DEF q

-----------------------------------------------------------------------------
(* The studio: what its steps do to the tables, the requests and the form. *)

LEMMA StoredTyped ==
  ASSUME NEW t \in Tables
  PROVE  StoredNames(t) \subseteq ToolNames /\ Offered(t) \subseteq StoredNames(t)
BY DEF Tables, StoredNames, Offered, Live, Tool

\* A write keeps the tables, and a name that was stored or on offer before it, or is
\* after it, is on offer or noted as gone.
LEMMA WriteKeeps ==
  ASSUME Typed, NEW c \in Collections, NEW id \in Ids[c], NEW row \in Rows[c] \cup Missing,
         Write(c, id, row)
  PROVE  /\ db' \in Tables /\ gone' \subseteq ToolNames
         /\ \A d \in Collections : \A i \in Ids[d] :
              db'[d][i] = IF d = c /\ i = id THEN row ELSE db[d][i]
         /\ gone \subseteq gone'
         /\ StoredNames(db) \cup StoredNames(db') \subseteq Offered(db') \cup gone'
<1>1. db \in Tables /\ gone \subseteq ToolNames
  BY DEF Typed
<1>2. /\ db' = [db EXCEPT ![c][id] = row]
      /\ gone' = gone \cup ((StoredNames(db) \cup StoredNames(db')) \ Offered(db'))
  BY DEF Write
<1>5. /\ Overwritten(db, c, id, row) \in Tables
      /\ \A d \in Collections : \A i \in Ids[d] :
           Overwritten(db, c, id, row)[d][i] = IF d = c /\ i = id THEN row ELSE db[d][i]
  BY <1>1, WriteTyped
<1>3. db' \in Tables /\ \A d \in Collections : \A i \in Ids[d] :
        db'[d][i] = IF d = c /\ i = id THEN row ELSE db[d][i]
  BY <1>2, <1>5 DEF Overwritten
<1>4. StoredNames(db) \subseteq ToolNames /\ StoredNames(db') \subseteq ToolNames
  BY <1>1, <1>3, StoredTyped
<1> QED  BY <1>1, <1>2, <1>3, <1>4

\* What may be written for a request: its own row, a patched one, or no row.
Written(r, row) ==
  \/ row \in Missing
  \/ r.op = "create" /\ row = r.body
  \/ /\ r.op = "update" /\ db[r.coll][r.id] \in Rows[r.coll]
     /\ row = Patched(db[r.coll][r.id], r.body)

LEMMA ServeDoes ==
  ASSUME Typed, NEW r \in reqs, Serve(r)
  PROVE  /\ UNCHANGED <<lists, page, form, changes, resolve>>
         /\ \E stage \in Stages : Step(r, stage)
         /\ \/ NoWrite
            \/ \E id \in Ids[r.coll] : \E row \in Rows[r.coll] \cup Missing :
                 Write(r.coll, id, row) /\ Written(r, row)
<1>1. RequestFits(r) /\ db \in Tables
  BY DEF Typed
<1>2. r.coll \in Collections /\ r.op \in Operations /\ r.stage \in Stages
  BY <1>1 DEF RequestFits, Requests
<1>3. UNCHANGED <<lists, page, form, changes, resolve>>
  BY DEF Serve
<1>4. CASE ServeCreate(r)
  <2>1. CASE \E id \in IF r.coll = "intents" THEN {r.id} ELSE Ids[r.coll] :
               Write(r.coll, id, r.body) /\ Step(r, "ok")
    <3>1. PICK id \in IF r.coll = "intents" THEN {r.id} ELSE Ids[r.coll] :
                 Write(r.coll, id, r.body) /\ Step(r, "ok")
      BY <2>1
    <3>2. r.op = "create"
      BY <1>4 DEF ServeCreate
    <3>3. id \in Ids[r.coll] /\ r.body \in Rows[r.coll]
      BY <1>1, <3>1, <3>2 DEF RequestFits
    <3>4. "ok" \in Stages
      BY DEF Stages
    <3> QED  BY <1>3, <3>1, <3>2, <3>3, <3>4 DEF Written
  <2>2. CASE Step(r, "failed") /\ NoWrite
    <3>1. "failed" \in Stages
      BY DEF Stages
    <3> QED  BY <1>3, <2>2, <3>1
  <2> QED  BY <1>4, <2>1, <2>2 DEF ServeCreate
<1>5. CASE ServeFind(r)
  <2>1. NoWrite /\ \E stage \in {"found", "ok", "failed"} : Step(r, stage)
    BY <1>5 DEF ServeFind
  <2>2. {"found", "ok", "failed"} \subseteq Stages
    BY DEF Stages
  <2> QED  BY <1>3, <2>1, <2>2
<1>6. CASE ServeUpdate(r)
  <2> DEFINE row == db[r.coll][r.id]
  <2>1. /\ r.op = "update" /\ Write(r.coll, r.id, Merged(r.body, row))
        /\ \E stage \in {"ok", "failed"} : Step(r, stage)
    BY <1>6 DEF ServeUpdate
  <2>2. r.id \in Ids[r.coll] /\ r.body \in Bodies[r.coll]
    BY <1>1, <2>1 DEF RequestFits
  <2>3. row \in Rows[r.coll] \cup Missing
    BY <1>1, <1>2, <2>2, EntryTyped
  <2> HIDE DEF row
  <2>4. CASE row \in Missing
    <3>1. Merged(r.body, row) = row
      BY <2>4 DEF Merged
    <3> QED  BY <1>3, <2>1, <2>2, <2>4, <3>1 DEF Written, Stages
  <2>5. CASE row \notin Missing
    <3>1. Merged(r.body, row) = Patched(row, r.body)
      BY <2>5 DEF Merged
    <3>2. row \in Rows[r.coll]
      BY <2>3, <2>5
    <3>3. Patched(row, r.body) \in Rows[r.coll]
      BY <1>2, <2>2, <3>2, PatchTyped
    <3>4. Written(r, Patched(row, r.body))
      BY <2>1, <3>2 DEF Written, row
    <3> QED  BY <1>3, <2>1, <2>2, <3>1, <3>3, <3>4 DEF Stages
  <2> QED  BY <2>4, <2>5
<1>7. CASE ServeDelete(r)
  <2>1. CASE NoWrite /\ Step(r, "failed")
    BY <1>3, <2>1 DEF Stages
  <2>2. CASE Write(r.coll, r.id, Gone) /\ Step(r, "ok")
    <3>1. r.op # "create"
      BY <1>7 DEF ServeDelete
    <3>2. r.id \in Ids[r.coll]
      BY <1>1, <3>1 DEF RequestFits
    <3>3. Gone \in Missing
      BY DEF Missing
    <3> QED  BY <1>3, <2>2, <3>2, <3>3 DEF Written, Stages
  <2> QED  BY <1>7, <2>1, <2>2 DEF ServeDelete
<1> QED  BY <1>4, <1>5, <1>6, <1>7 DEF Serve

\* A write from elsewhere.
LEMMA ElsewhereDoes ==
  ASSUME Typed, Elsewhere
  PROVE  /\ UNCHANGED <<lists, page, form, reqs, resolve>>
         /\ changes < MaxChanges /\ changes' = changes + 1
         /\ \E c \in Collections : \E id \in Ids[c] : \E row \in Rows[c] \cup Missing :
              /\ Write(c, id, row)
              /\ \/ row = Gone /\ db[c][id] \notin Missing
                 \/ /\ row \in OthersRows[c]
                    /\ Creatable(c, id, row) \/ db[c][id] \notin Missing
                    /\ c = "intents" => row.routingToolName \notin ToolNames \ StoredNames(db)
<1>1. UNCHANGED <<lists, page, form, reqs, resolve>> /\ changes < MaxChanges /\ changes' = changes + 1
  BY DEF Elsewhere
<1>2. Nearby \subseteq Collections
  BY DEF Nearby, Collections
<1>3. PICK c \in Nearby : \E id \in Ids[c] :
        \/ \E row \in OthersRows[c] :
             /\ \/ Creatable(c, id, row)
                \/ db[c][id] \notin Missing /\ Keeps(c, row, db[c][id])
             /\ c = "intents" => row.routingToolName \notin ToolNames \ StoredNames(db)
             /\ Write(c, id, row)
        \/ db[c][id] \notin Missing /\ Write(c, id, Gone)
  BY DEF Elsewhere
<1>7. PICK id \in Ids[c] :
        \/ \E row \in OthersRows[c] :
             /\ \/ Creatable(c, id, row)
                \/ db[c][id] \notin Missing /\ Keeps(c, row, db[c][id])
             /\ c = "intents" => row.routingToolName \notin ToolNames \ StoredNames(db)
             /\ Write(c, id, row)
        \/ db[c][id] \notin Missing /\ Write(c, id, Gone)
  BY <1>3
<1>4. c \in Collections
  BY <1>2, <1>3
<1>5. CASE db[c][id] \notin Missing /\ Write(c, id, Gone)
  <2>1. Gone \in Rows[c] \cup Missing
    BY DEF Missing
  <2> QED  BY <1>1, <1>7, <1>4, <1>5, <2>1
<1>6. CASE \E row \in OthersRows[c] :
             /\ \/ Creatable(c, id, row)
                \/ db[c][id] \notin Missing /\ Keeps(c, row, db[c][id])
             /\ c = "intents" => row.routingToolName \notin ToolNames \ StoredNames(db)
             /\ Write(c, id, row)
  <2>1. PICK row \in OthersRows[c] :
             /\ Creatable(c, id, row) \/ db[c][id] \notin Missing
             /\ c = "intents" => row.routingToolName \notin ToolNames \ StoredNames(db)
             /\ Write(c, id, row)
    BY <1>6
  <2>2. row \in Rows[c] \cup Missing
    BY <1>4, <2>1, RowsAssumption
  <2> QED  BY <1>1, <1>7, <1>4, <2>1, <2>2
<1> QED  BY <1>7, <1>5, <1>6

-----------------------------------------------------------------------------
(* The studio: its types are kept.                                         *)

LEMMA SortOrderTyped ==
  ASSUME NEW t \in Tables
  PROVE  /\ IsFiniteSet(Live(t.intents)) /\ Cardinality(Live(t.intents)) \in Nat
         /\ Cardinality(Live(t.intents)) \in SortOrders
         /\ 0 \in SortOrders /\ 1 \in SortOrders
<1>1. Live(t.intents) \in SUBSET IntentKeys
  BY DEF Live, Tables
<1>2. IsFiniteSet(IntentKeys) /\ Cardinality(IntentKeys) > 1
  BY KeysAssumption
<1>3. Cardinality(IntentKeys) \in Nat
  BY <1>2, FS_CardinalityType
<1>4. IsFiniteSet(Live(t.intents)) /\ Cardinality(Live(t.intents)) <= Cardinality(IntentKeys)
  BY <1>1, <1>2, FS_Subset
<1>5. Cardinality(Live(t.intents)) \in Nat
  BY <1>4, FS_CardinalityType
<1> QED  BY <1>2, <1>3, <1>4, <1>5 DEF SortOrders

LEMMA LiveTyped ==
  ASSUME NEW t \in Tables, NEW c \in Collections, NEW id \in Live(t[c])
  PROVE  id \in Ids[c] /\ t[c][id] \in Rows[c] /\ t[c][id] # None
<1>1. DOMAIN t[c] = Ids[c]
  BY DEF Tables, Collections, Ids
<1>2. id \in Ids[c] /\ t[c][id] \notin Missing
  BY <1>1 DEF Live
<1> QED  BY <1>2, EntryTyped DEF Missing

LEMMA RowIsNotBlank == ASSUME NEW c \in Collections PROVE Ids[c] \subseteq Keys
BY DEF Ids, Keys, Collections

LEMMA EmptyTyped ==
  ASSUME NEW t \in Tables, NEW c \in Collections
  PROVE  EmptyDraft(c, NextSortOrder(t[c])) \in Rows[c]
<1>1. CASE c = "intents"
  <2>1. NextSortOrder(t[c]) \in SortOrders
    BY <1>1, SortOrderTyped DEF NextSortOrder
  <2> QED  BY <1>1, <2>1 DEF EmptyDraft, Rows, Intent, Routings
<1>2. CASE c = "tools"
  <2>1. (CHOOSE n \in ToolNames : TRUE) \in ToolNames
    BY NamesAssumption
  <2> QED  BY <1>2, <2>1 DEF EmptyDraft, Rows, Tool
<1>3. CASE c = "faq"
  BY <1>3 DEF EmptyDraft, Rows, Faq
<1> QED  BY <1>1, <1>2, <1>3 DEF Collections

LEMMA TemplateTyped ==
  ASSUME NEW tool \in {None} \cup [name : {CHOOSE n \in ToolNames : TRUE}, secret : {TRUE}, enabled : {TRUE}]
  PROVE  Template(tool) \in Tables
<1> DEFINE main == CHOOSE k \in IntentKeys : TRUE
           other == CHOOSE k \in IntentKeys \ {main} : TRUE
           first == CHOOSE t \in ToolIds : TRUE
           item == CHOOSE f \in FaqIds : TRUE
           keys == [k \in IntentKeys |->
             IF k = main THEN [routingToolName |-> "create_ticket", sortOrder |-> 0, enabled |-> TRUE]
             ELSE IF k = other THEN [routingToolName |-> None, sortOrder |-> 1, enabled |-> TRUE]
             ELSE None]
           tools == [id \in ToolIds |-> IF id = first THEN tool ELSE None]
           items == [id \in FaqIds |->
             IF id = item THEN [category |-> "any", enabled |-> FALSE] ELSE None]
<1>1. Template(tool) = [intents |-> keys, tools |-> tools, faq |-> items]
  BY DEF Template
<1>2. 0 \in SortOrders /\ 1 \in SortOrders
  <2>1. [intents |-> [k \in IntentKeys |-> None], tools |-> [k \in ToolIds |-> None],
         faq |-> [k \in FaqIds |-> None]] \in Tables
    BY DEF Tables, Missing
  <2> QED  BY <2>1, SortOrderTyped
<1>3. (CHOOSE n \in ToolNames : TRUE) \in ToolNames
  BY NamesAssumption
<1>4. tool \in Tool \cup Missing
  BY <1>3 DEF Tool, Missing
<1> HIDE DEF main, other, first, item
<1>5. keys \in [IntentKeys -> Intent \cup Missing]
  BY <1>2 DEF Intent, Routings, Missing
<1>6. tools \in [ToolIds -> Tool \cup Missing]
  BY <1>4 DEF Missing
<1>7. items \in [FaqIds -> Faq \cup Missing]
  BY DEF Faq, Missing
<1> HIDE DEF keys, tools, items
<1> QED  BY <1>1, <1>5, <1>6, <1>7 DEF Tables

LEMMA TypedInit == Init => Typed
<1> SUFFICES ASSUME Init PROVE Typed
  OBVIOUS
<1>1. db \in Tables
  BY TemplateTyped DEF Init
<1>2. 0 \in 0 .. MaxChanges
  BY BoundAssumption
<1> QED  BY <1>1, <1>2 DEF Init, Typed, FormFits

\* A new request, and what becomes of the others when it is sent.
LEMMA MutateTyped ==
  ASSUME Typed, NEW q, RequestFits(q), q.n = changes, Mutate(q)
  PROVE  (\A r \in reqs' : RequestFits(r)) /\ changes' \in 0 .. MaxChanges /\ changes' = changes + 1
<1>1. changes < MaxChanges /\ changes' = changes + 1 /\ changes \in 0 .. MaxChanges
  BY DEF Mutate, Typed
<1>2. \A r \in reqs : RequestFits(r) /\ RequestFits([r EXCEPT !.latest = FALSE])
  BY LatestTyped DEF Typed
<1>3. \A r \in reqs' : \/ r = q
                       \/ r \in reqs
                       \/ \E p \in reqs : r = [p EXCEPT !.latest = FALSE]
  BY DEF Mutate
<1>4. \A r \in reqs' : RequestFits(r)
  BY <1>2, <1>3
<1> QED  BY <1>1, <1>4, BoundAssumption

LEMMA SaveTyped ==
  ASSUME Typed, Save
  PROVE  \E q : RequestFits(q) /\ q.n = changes /\ q.coll = page /\ Mutate(q)
                /\ q.op \in {"create", "update"} /\ q.stage = "sent"
                /\ (q.coll = "intents" => q.body = form.draft)
<1>1. form # None /\ form \in Forms /\ page \in Collections /\ changes \in Nat
  BY BoundAssumption DEF Save, Typed, FormFits
<1>2. CASE form.basis = None
  <2> DEFINE q == Request("create", form.id, form.draft, TRUE, None, form.typed)
  <2>1. Mutate(q)
    BY <1>2 DEF Save
  <2>2. q \in Requests
    BY <1>1 DEF Request, Requests, Forms, Operations, Stages
  <2>3. /\ q.coll = page /\ q.op = "create" /\ q.n = changes /\ q.body = form.draft
        /\ q.id = form.id /\ q.stage = "sent"
    BY DEF Request
  <2> HIDE DEF q
  <2>4. RequestFits(q)
    BY <1>1, <2>2, <2>3 DEF RequestFits, Typed, FormFits, Ids
  <2> QED  BY <2>1, <2>3, <2>4
<1>3. CASE form.basis # None
  <2> DEFINE body == Patch(form.draft)
             q == Request("update", form.id, body, TRUE, form.basis, form.typed)
  <2>1. Mutate(q)
    BY <1>3 DEF Save
  <2>2. form.draft \in Rows[page] /\ form.basis \in Rows[page]
        /\ Faithful(form.draft, form.basis, form.typed) /\ form.id \in Ids[page]
    BY <1>1, <1>3 DEF Typed, FormFits
  <2>3. body \in Bodies[page] /\ (page = "intents" => body = form.draft)
        /\ Faithful(body, form.basis, form.typed)
    <3>1. CASE page = "tools"
      <4>1. /\ body = [secret |-> form.draft.secret, enabled |-> form.draft.enabled]
            /\ form.draft \in Tool /\ form.basis \in Tool
        BY <2>2, <3>1 DEF Patch, Rows
      <4>2. DOMAIN form.draft = {"name", "secret", "enabled"}
        BY <4>1 DEF Tool
      <4>3. body \in ToolChange
        BY <4>1 DEF Tool, ToolChange
      <4>4. \A f \in DOMAIN form.basis : f \in DOMAIN body => body[f] = form.draft[f]
                                                    /\ f \in DOMAIN form.draft
        BY <4>1, <4>2
      <4> HIDE DEF body
      <4> QED  BY <2>2, <3>1, <4>3, <4>4 DEF Faithful, Bodies
    <3>2. CASE page # "tools"
      <4>1. body = form.draft
        BY <3>2 DEF Patch
      <4>2. body \in Bodies[page]
        BY <1>1, <2>2, <3>2, <4>1 DEF Rows, Bodies, Collections
      <4> QED  BY <2>2, <3>2, <4>1, <4>2
    <3> QED  BY <3>1, <3>2
  <2>4. body \in AllRows \cup ToolChange
    BY <1>1, <2>3 DEF Bodies, Collections, AllRows, Patch, Forms
  <2> HIDE DEF body
  <2>5. q \in Requests
    BY <1>1, <2>4 DEF Request, Requests, Forms, Operations, Stages
  <2>6. /\ q.coll = page /\ q.op = "update" /\ q.n = changes /\ q.body = body
        /\ q.id = form.id /\ q.basis = form.basis /\ q.typed = form.typed /\ q.stage = "sent"
    BY DEF Request
  <2> HIDE DEF q
  <2>7. RequestFits(q)
    BY <1>1, <2>2, <2>3, <2>5, <2>6 DEF RequestFits
  <2> QED  BY <2>1, <2>3, <2>6, <2>7
<1> QED  BY <1>2, <1>3

LEMMA ToggleTyped ==
  ASSUME Typed, NEW id \in Ids[page], Toggle(id)
  PROVE  \E q : RequestFits(q) /\ q.n = changes /\ q.coll = "faq" /\ Mutate(q) /\ q.stage = "sent"
<1>1. page = "faq" /\ id \in Live(lists.faq) /\ lists \in Tables /\ changes \in Nat
  BY BoundAssumption DEF Toggle, Typed
<1>2. id \in FaqIds /\ lists.faq[id] \in Faq
  BY <1>1, LiveTyped DEF Collections, Ids, Rows
<1> DEFINE body == [enabled |-> ~ lists.faq[id].enabled]
           q == Request("update", id, body, FALSE, lists.faq[id], {"enabled"})
<1>3. Mutate(q)
  BY DEF Toggle
<1>4. body \in Switch /\ DOMAIN body = {"enabled"}
  BY DEF Switch
<1> HIDE DEF body
<1>5. q \in Requests
  BY <1>1, <1>2, <1>4
     DEF Request, Requests, Keys, Operations, Stages, Collections, AllRows, FieldNames
<1>6. /\ q.coll = "faq" /\ q.op = "update" /\ q.n = changes /\ q.body = body
      /\ q.id = id /\ q.basis = lists.faq[id] /\ q.typed = {"enabled"} /\ q.stage = "sent"
  BY <1>1 DEF Request
<1> HIDE DEF q
<1>7. RequestFits(q)
  BY <1>2, <1>4, <1>5, <1>6 DEF RequestFits, Ids, Rows, Bodies, Faithful
<1> QED  BY <1>3, <1>6, <1>7

LEMMA DeleteTyped ==
  ASSUME Typed, NEW id \in Ids[page], Delete(id)
  PROVE  \E q : RequestFits(q) /\ q.n = changes /\ q.op = "delete" /\ Mutate(q) /\ q.stage = "sent"
<1>1. page \in Collections /\ changes \in Nat /\ id \in Keys
  BY BoundAssumption, RowIsNotBlank DEF Typed
<1> DEFINE q == Request("delete", id, None, FALSE, None, {})
<1>2. Mutate(q)
  BY DEF Delete
<1>3. q \in Requests
  BY <1>1 DEF Request, Requests, Operations, Stages
<1>4. q.coll = page /\ q.op = "delete" /\ q.n = changes /\ q.id = id /\ q.stage = "sent"
  BY DEF Request
<1> HIDE DEF q
<1>5. RequestFits(q)
  BY <1>1, <1>3, <1>4 DEF RequestFits
<1> QED  BY <1>2, <1>4, <1>5

\* The definitions a call reads are rows of the catalogue in some order.
LEMMA ReadTyped ==
  ASSUME Typed, ReadIntents
  PROVE  resolve' \in Seq(Definitions)
<1>1. db \in Tables
  BY DEF Typed
<1>2. PICK s \in Listings(db.intents) :
        resolve' = [n \in DOMAIN s |-> ToDefinition(db.intents, s[n])]
  BY DEF ReadIntents
<1> DEFINE many == Cardinality(Live(db.intents))
<1>3. many \in Nat
  BY <1>1, SortOrderTyped
<1>4. s \in [1 .. many -> Live(db.intents)]
  BY <1>2 DEF Listings
<1> HIDE DEF many
<1>5. \A k \in Live(db.intents) : ToDefinition(db.intents, k) \in Definitions
  <2> SUFFICES ASSUME NEW k \in Live(db.intents)
               PROVE  ToDefinition(db.intents, k) \in Definitions
    OBVIOUS
  <2>1. k \in IntentKeys /\ db.intents[k] \in Intent
    BY <1>1, LiveTyped DEF Collections, Ids, Rows
  <2>2. KeywordsOf[k] \in Seq(Words)
    BY <2>1, KeywordsAssumption
  <2> QED  BY <2>1, <2>2 DEF ToDefinition, Definitions, Intent
<1>6. resolve' \in [1 .. many -> Definitions]
  BY <1>2, <1>4, <1>5
<1> QED  BY <1>3, <1>6

LEMMA TypedServe ==
  ASSUME Typed, NEW r \in reqs, Serve(r)
  PROVE  Typed'
<1>1. /\ UNCHANGED <<lists, page, form, changes, resolve>>
      /\ \E stage \in Stages : Step(r, stage)
      /\ \/ NoWrite
         \/ \E id \in Ids[r.coll] : \E row \in Rows[r.coll] \cup Missing :
              Write(r.coll, id, row) /\ Written(r, row)
  BY ServeDoes
<1>2. RequestFits(r) /\ r.coll \in Collections
  BY DEF Typed, RequestFits, Requests
<1>3. db' \in Tables /\ gone' \subseteq ToolNames
  <2>1. CASE NoWrite
    BY <2>1 DEF NoWrite, Typed
  <2>2. CASE \E id \in Ids[r.coll] : \E row \in Rows[r.coll] \cup Missing :
               Write(r.coll, id, row) /\ Written(r, row)
    <3>1. PICK id \in Ids[r.coll] : \E row \in Rows[r.coll] \cup Missing : Write(r.coll, id, row)
      BY <2>2
    <3>2. PICK row \in Rows[r.coll] \cup Missing : Write(r.coll, id, row)
      BY <3>1
    <3> QED  BY <1>2, <3>1, <3>2, WriteKeeps
  <2> QED  BY <1>1, <2>1, <2>2
<1>4. PICK stage \in Stages : Step(r, stage)
  BY <1>1
<1>5. \A q \in reqs' : RequestFits(q)
  <2>1. RequestFits([r EXCEPT !.stage = stage])
    BY <1>2, StageTyped
  <2> QED  BY <1>4, <2>1 DEF Step, Typed
<1> QED  BY <1>1, <1>3, <1>5 DEF Typed, FormFits

LEMMA TypedAnswered ==
  ASSUME Typed, NEW r \in reqs, Answered(r)
  PROVE  Typed'
<1>1. /\ UNCHANGED <<db, lists, page, changes, resolve, gone>>
      /\ reqs' \subseteq reqs /\ (form' = form \/ form' = None)
  BY DEF Answered
<1> QED  BY <1>1 DEF Typed, FormFits

LEMMA TypedRefresh ==
  ASSUME Typed, NEW c \in Collections, Refresh(c)
  PROVE  Typed'
<1>1. /\ UNCHANGED <<db, page, form, reqs, changes, resolve, gone>>
      /\ lists' = [lists EXCEPT ![c] = db[c]]
  BY DEF Refresh
<1>2. lists' \in Tables
  BY <1>1 DEF Typed, Tables, Collections
<1> QED  BY <1>1, <1>2 DEF Typed, FormFits

\* A form as it is opened or changed.
LEMMA TypedForm ==
  ASSUME Typed, FormFits', UNCHANGED <<db, lists, page, reqs, changes, resolve, gone>>
  PROVE  Typed'
BY DEF Typed

LEMMA TypedStart ==
  ASSUME Typed, NEW id \in IF page = "intents" THEN IntentKeys ELSE {None}, StartNew(id)
  PROVE  Typed'
<1>1. /\ UNCHANGED <<db, lists, page, reqs, changes, resolve, gone>>
      /\ lists \in Tables /\ page \in Collections
  BY DEF StartNew, Typed
<1> DEFINE draft == EmptyDraft(page, NextSortOrder(lists[page]))
<1>2. form' = [id |-> id, draft |-> draft, basis |-> None, typed |-> {}]
  BY DEF StartNew
<1>3. draft \in Rows[page]
  BY <1>1, EmptyTyped
<1> HIDE DEF draft
<1>4. Rows[page] \subseteq AllRows
  BY <1>1 DEF Rows, Collections, AllRows
<1>5. id \in Ids[page] \cup {None} /\ (page = "intents" => id \in IntentKeys) /\ id \in Keys
  BY <1>1 DEF Ids, Keys
<1>6. form' \in Forms
  BY <1>2, <1>3, <1>4, <1>5 DEF Forms
<1>7. FormFits'
  BY <1>1, <1>2, <1>3, <1>5, <1>6 DEF FormFits
<1> QED  BY <1>1, <1>7, TypedForm

LEMMA TypedEdit ==
  ASSUME Typed, NEW id \in Ids[page], StartEdit(id)
  PROVE  Typed'
<1>1. /\ UNCHANGED <<db, lists, page, reqs, changes, resolve, gone>>
      /\ lists \in Tables /\ page \in Collections /\ id \in Live(lists[page])
  BY DEF StartEdit, Typed
<1> DEFINE row == lists[page][id]
           draft == Fill(row)
<1>2. form' = [id |-> id, draft |-> draft, basis |-> row, typed |-> {}]
  BY DEF StartEdit
<1>3. id \in Ids[page] /\ row \in Rows[page]
  BY <1>1, LiveTyped
<1> HIDE DEF row
<1>4. draft \in Rows[page] /\ Faithful(draft, row, {})
  <2>1. CASE page = "tools"
    <3>1. row \in Tool /\ draft = [row EXCEPT !.secret = FALSE]
      BY <1>3, <2>1 DEF Rows, Fill
    <3>2. draft \in Tool
      BY <3>1 DEF Tool
    <3>3. draft.name = row.name /\ draft.enabled = row.enabled
      BY <3>1 DEF Tool
    <3>4. DOMAIN row = {"name", "secret", "enabled"} /\ DOMAIN draft = {"name", "secret", "enabled"}
      BY <3>1, <3>2 DEF Tool
    <3> HIDE DEF draft
    <3> QED  BY <2>1, <3>2, <3>3, <3>4 DEF Rows, Faithful
  <2>2. CASE page # "tools"
    BY <1>3, <2>2 DEF Fill, Faithful
  <2> QED  BY <2>1, <2>2
<1> HIDE DEF draft
<1>5. Rows[page] \subseteq AllRows
  BY <1>1 DEF Rows, Collections, AllRows
<1>6. id \in Keys /\ (page = "intents" => id \in IntentKeys)
  BY <1>1, <1>3, RowIsNotBlank DEF Ids
<1>7. form' \in Forms
  BY <1>2, <1>3, <1>4, <1>5, <1>6 DEF Forms
<1>8. FormFits'
  BY <1>1, <1>2, <1>3, <1>4, <1>6, <1>7 DEF FormFits
<1> QED  BY <1>1, <1>8, TypedForm

\* What can be typed is one field of the page's rows, with a value they may have.
LEMMA ChangeTyped ==
  ASSUME Typed, NEW draft \in Rows[page], NEW change \in Changes[page]
  PROVE  /\ Patched(draft, change) \in Rows[page]
         /\ DOMAIN Patched(draft, change) = DOMAIN draft
         /\ \A f \in DOMAIN draft \ DOMAIN change : Patched(draft, change)[f] = draft[f]
         /\ DOMAIN change \subseteq FieldNames
         /\ page = "intents" =>
              Patched(draft, change).routingToolName \in
                {draft.routingToolName, "create_ticket", None} \cup StoredNames(lists)
<1>1. page \in Collections /\ lists \in Tables
  BY DEF Typed
<1>2. CASE page = "intents"
  <2>1. StoredNames([db EXCEPT !.tools = lists.tools]) = StoredNames(lists)
    BY DEF StoredNames, Live, Typed, Tables
  <2>2. StoredNames(lists) \subseteq ToolNames
    BY <1>1, StoredTyped
  <2>3. \/ change \in [routingToolName : {"create_ticket", None} \cup StoredNames(lists)]
        \/ change \in [enabled : BOOLEAN]
    BY <1>2, <2>1 DEF Changes
  <2>4. draft \in Intent
    BY <1>2 DEF Rows
  <2>5. CASE change \in [routingToolName : {"create_ticket", None} \cup StoredNames(lists)]
    BY <1>2, <2>2, <2>4, <2>5 DEF Patched, Rows, Intent, Routings, FieldNames
  <2>6. CASE change \in [enabled : BOOLEAN]
    BY <1>2, <2>4, <2>6 DEF Patched, Rows, Intent, FieldNames
  <2> QED  BY <2>3, <2>5, <2>6
<1>3. CASE page = "tools"
  <2>1. change \in [name : ToolNames] \cup [secret : {TRUE}] \cup [enabled : BOOLEAN]
    BY <1>3 DEF Changes
  <2>2. draft \in Tool
    BY <1>3 DEF Rows
  <2>3. CASE change \in [name : ToolNames]
    BY <1>3, <2>2, <2>3 DEF Patched, Rows, Tool, FieldNames
  <2>4. CASE change \in [secret : {TRUE}]
    BY <1>3, <2>2, <2>4 DEF Patched, Rows, Tool, FieldNames
  <2>5. CASE change \in [enabled : BOOLEAN]
    BY <1>3, <2>2, <2>5 DEF Patched, Rows, Tool, FieldNames
  <2> QED  BY <2>1, <2>3, <2>4, <2>5
<1>4. CASE page = "faq"
  <2>1. change \in [category : {"any"}]
    BY <1>4 DEF Changes
  <2>2. draft \in Faq
    BY <1>4 DEF Rows
  <2> QED  BY <1>4, <2>1, <2>2 DEF Patched, Rows, Faq, FieldNames
<1> QED  BY <1>1, <1>2, <1>3, <1>4 DEF Collections

LEMMA TypedType ==
  ASSUME Typed, Type
  PROVE  Typed'
<1>1. /\ UNCHANGED <<db, lists, page, reqs, changes, resolve, gone>>
      /\ form # None /\ form.typed = {} /\ form \in Forms /\ page \in Collections
  BY DEF Type, Typed, FormFits
<1>2. PICK change \in Changes[page] :
        form' = [form EXCEPT !.draft = Patched(@, change), !.typed = DOMAIN change]
  BY DEF Type
<1> DEFINE draft == Patched(form.draft, change)
<1>3. form.draft \in Rows[page] /\ (form.basis # None => Faithful(form.draft, form.basis, {}))
      /\ form.basis \in Rows[page] \cup {None}
  BY <1>1 DEF Typed, FormFits
<1>4. /\ draft \in Rows[page] /\ DOMAIN draft = DOMAIN form.draft
      /\ \A f \in DOMAIN form.draft \ DOMAIN change : draft[f] = form.draft[f]
      /\ DOMAIN change \subseteq FieldNames
  BY <1>2, <1>3, ChangeTyped
<1> HIDE DEF draft
<1>5. form' = [id |-> form.id, draft |-> draft, basis |-> form.basis, typed |-> DOMAIN change]
  BY <1>1, <1>2 DEF Forms, draft
<1>6. Rows[page] \subseteq AllRows
  BY <1>1 DEF Rows, Collections, AllRows
<1>7. form' \in Forms
  BY <1>1, <1>4, <1>5, <1>6 DEF Forms
<1>8. form.basis # None => Faithful(draft, form.basis, DOMAIN change)
  BY <1>3, <1>4 DEF Faithful
<1>9. form.id \in Ids[page] \cup {None} /\ (form.basis # None => form.id \in Ids[page])
      /\ (page = "intents" => form.id \in IntentKeys)
  BY <1>1 DEF Typed, FormFits
<1>10. FormFits'
  BY <1>1, <1>3, <1>4, <1>5, <1>7, <1>8, <1>9 DEF FormFits
<1> QED  BY <1>1, <1>10, TypedForm

\* The steps of the form that neither open it nor change what it holds, and the steps of
\* a conversation.
LEMMA TypedStep == Typed /\ [Next]_vars => Typed'
<1> SUFFICES ASSUME Typed, [Next]_vars PROVE Typed'
  OBVIOUS
<1>1. CASE UNCHANGED <<db, lists, page, form, reqs, changes, resolve, gone>>
  BY <1>1 DEF Typed, FormFits
<1>2. CASE Studio
  <2>1. CASE ReadIntents
    BY <2>1, ReadTyped DEF ReadIntents, Typed, FormFits
  <2>2. CASE ReadTools
    BY <2>2 DEF ReadTools, Typed, FormFits
  <2>3. CASE \E r \in reqs : Serve(r) \/ Answered(r)
    BY <2>3, TypedServe, TypedAnswered
  <2>4. CASE \E c \in {page} \cup (IF page = "intents" THEN {"tools"} ELSE {}) : Refresh(c)
    <3>1. {page} \cup (IF page = "intents" THEN {"tools"} ELSE {}) \subseteq Collections
      BY DEF Typed, Collections
    <3> QED  BY <2>4, <3>1, TypedRefresh
  <2>5. CASE Leave
    <3>1. /\ UNCHANGED <<db, lists, page, changes, resolve, gone>>
          /\ form' = None /\ reqs' = {[r EXCEPT !.latest = FALSE] : r \in reqs}
      BY <2>5 DEF Leave
    <3>2. \A r \in reqs : RequestFits([r EXCEPT !.latest = FALSE])
      BY LatestTyped DEF Typed
    <3> QED  BY <3>1, <3>2 DEF Typed, FormFits
  <2>6. CASE \E id \in IF page = "intents" THEN IntentKeys ELSE {None} : StartNew(id)
    BY <2>6, TypedStart
  <2>7. CASE \E id \in Ids[page] : StartEdit(id)
    BY <2>7, TypedEdit
  <2>8. CASE \E id \in Ids[page] : Toggle(id) \/ Delete(id)
    <3>1. PICK id \in Ids[page] : Toggle(id) \/ Delete(id)
      BY <2>8
    <3>2. UNCHANGED <<db, lists, page, form, resolve, gone>>
      BY <3>1 DEF Toggle, Delete
    <3>3. \E q : RequestFits(q) /\ q.n = changes /\ Mutate(q)
      BY <3>1, ToggleTyped, DeleteTyped
    <3>4. (\A r \in reqs' : RequestFits(r)) /\ changes' \in 0 .. MaxChanges
      BY <3>3, MutateTyped
    <3> QED  BY <3>2, <3>4 DEF Typed, FormFits
  <2>9. CASE Cancel
    BY <2>9 DEF Cancel, Typed, FormFits
  <2>10. CASE Type
    BY <2>10, TypedType
  <2>11. CASE Save
    <3>1. UNCHANGED <<db, lists, page, form, resolve, gone>>
      BY <2>11 DEF Save
    <3>2. \E q : RequestFits(q) /\ q.n = changes /\ Mutate(q)
      BY <2>11, SaveTyped
    <3>3. (\A r \in reqs' : RequestFits(r)) /\ changes' \in 0 .. MaxChanges
      BY <3>2, MutateTyped
    <3> QED  BY <3>1, <3>3 DEF Typed, FormFits
  <2>12. CASE Elsewhere
    <3>1. /\ UNCHANGED <<lists, page, form, reqs, resolve>>
          /\ changes < MaxChanges /\ changes' = changes + 1 /\ changes \in 0 .. MaxChanges
      BY <2>12, ElsewhereDoes DEF Typed
    <3>2. PICK c \in Collections : \E id \in Ids[c] : \E row \in Rows[c] \cup Missing : Write(c, id, row)
      BY <2>12, ElsewhereDoes
    <3>3. PICK id \in Ids[c] : \E row \in Rows[c] \cup Missing : Write(c, id, row)
      BY <3>2
    <3>4. db' \in Tables /\ gone' \subseteq ToolNames
      BY <3>3, WriteKeeps
    <3>5. changes' \in 0 .. MaxChanges
      BY <3>1, BoundAssumption
    <3> QED  BY <3>1, <3>4, <3>5 DEF Typed, FormFits
  <2> QED
    BY <1>2, <2>1, <2>2, <2>3, <2>4, <2>5, <2>6, <2>7, <2>8, <2>9, <2>10, <2>11, <2>12 DEF Studio
<1> QED  BY <1>1, <1>2 DEF Next, vars

\* Requests stay told apart: a new one has a number of its own.
LEMMA NumberedInit == Init => Numbered
BY DEF Init, Numbered

LEMMA NumberedMutate ==
  ASSUME Typed, Numbered, NEW q, q.n = changes, Mutate(q)
  PROVE  Numbered'
<1>1. changes \in Nat /\ changes' = changes + 1
  BY BoundAssumption DEF Mutate, Typed
<1>2. \A r \in reqs : r.n < changes /\ r.n \in Nat /\ [r EXCEPT !.latest = FALSE].n = r.n
  BY LatestTyped DEF Typed, Numbered, RequestFits, Requests
<1> DEFINE Kept(r) == IF r.coll = q.coll /\ r.op = q.op THEN [r EXCEPT !.latest = FALSE] ELSE r
<1>3. \A r \in reqs : Kept(r).n = r.n
  BY <1>2
<1>4. reqs' = {Kept(r) : r \in reqs} \cup {q}
  BY DEF Mutate
<1> HIDE DEF Kept
<1>5. \A p \in reqs' : p = q \/ \E r \in reqs : p = Kept(r)
  BY <1>4
<1>6. \A p \in reqs' : p.n < changes'
  BY <1>1, <1>2, <1>3, <1>5
<1>7. \A p1, p2 \in reqs' : p2.n = p1.n => p2 = p1
  <2> SUFFICES ASSUME NEW p1 \in reqs', NEW p2 \in reqs', p2.n = p1.n PROVE p2 = p1
    OBVIOUS
  <2>1. CASE \E r1 \in reqs : p1 = Kept(r1)
    <3>1. PICK r1 \in reqs : p1 = Kept(r1)
      BY <2>1
    <3>2. CASE \E r2 \in reqs : p2 = Kept(r2)
      <4>1. PICK r2 \in reqs : p2 = Kept(r2)
        BY <3>2
      <4>2. r1.n = r2.n
        BY <1>3, <3>1, <4>1
      <4> QED  BY <3>1, <4>1, <4>2 DEF Numbered
    <3>3. CASE p2 = q
      BY <1>1, <1>2, <1>3, <3>1, <3>3
    <3> QED  BY <1>5, <3>2, <3>3
  <2>2. CASE p1 = q
    BY <1>1, <1>2, <1>3, <1>5, <2>2
  <2> QED  BY <1>5, <2>1, <2>2
<1> QED  BY <1>6, <1>7 DEF Numbered

LEMMA NumberedStep == Typed /\ Numbered /\ [Next]_vars => Numbered'
<1> SUFFICES ASSUME Typed, Numbered, [Next]_vars PROVE Numbered'
  OBVIOUS
<1>1. CASE reqs' \subseteq reqs /\ changes' = changes
  BY <1>1 DEF Numbered
<1>2. ASSUME NEW r \in reqs, Serve(r) PROVE Numbered'
  <2>1. changes' = changes /\ \E stage \in Stages : Step(r, stage)
    BY <1>2, ServeDoes
  <2>2. PICK stage \in Stages : Step(r, stage)
    BY <2>1
  <2> DEFINE q == [r EXCEPT !.stage = stage]
  <2>3. q.n = r.n /\ reqs' = (reqs \ {r}) \cup {q}
    BY <2>2, StageTyped DEF Step, Typed
  <2> HIDE DEF q
  <2> QED  BY <2>1, <2>3 DEF Numbered
<1>3. CASE Leave
  <2> DEFINE q(r) == [r EXCEPT !.latest = FALSE]
  <2>1. changes' = changes /\ reqs' = {q(r) : r \in reqs}
    BY <1>3 DEF Leave
  <2>2. \A r \in reqs : q(r).n = r.n
    BY LatestTyped DEF Typed
  <2> HIDE DEF q
  <2> QED  BY <2>1, <2>2 DEF Numbered
<1>4. CASE \E id \in Ids[page] : Toggle(id) \/ Delete(id)
  BY <1>4, ToggleTyped, DeleteTyped, NumberedMutate
<1>5. CASE Save
  BY <1>5, SaveTyped, NumberedMutate
<1>6. CASE Elsewhere
  <2>1. reqs' = reqs /\ changes' = changes + 1 /\ changes \in Nat
    BY <1>6, ElsewhereDoes, BoundAssumption DEF Typed
  <2>2. \A r \in reqs : r.n \in Nat
    BY DEF Typed, RequestFits, Requests
  <2> QED  BY <2>1, <2>2 DEF Numbered
<1>7. CASE \E r \in reqs : Answered(r)
  BY <1>1, <1>7 DEF Answered
<1>8. CASE UNCHANGED <<reqs, changes>>
  BY <1>1, <1>8
<1> QED  BY <1>2, <1>3, <1>4, <1>5, <1>6, <1>7, <1>8
  DEF Next, Studio, vars, ReadIntents, ReadTools, Refresh, StartNew, StartEdit, Cancel, Type

-----------------------------------------------------------------------------
(* The studio: the tools a call is told of.                                *)

\* What an intent may be routed to: a tool that is on offer, or was deleted or switched
\* off some time before.
Reached == {"create_ticket", None} \cup Offered(db) \cup gone
RoutedTo(table) == {table[k].routingToolName : k \in Live(table)}

\* Wherever the browser, a request or a call keeps the name of a tool, it is one of these.
HeldIn(names, ls, pg, fm, rs, res) ==
  /\ StoredNames(ls) \subseteq names
  /\ RoutedTo(ls.intents) \subseteq names
  /\ fm # None /\ pg = "intents" => fm.draft.routingToolName \in names
  /\ \A r \in rs : r.coll = "intents" /\ r.op # "delete" => r.body.routingToolName \in names
  /\ res # None => \A n \in DOMAIN res : res[n].routingToolName \in names

Named ==
  /\ StoredNames(db) \subseteq Reached
  /\ RoutedTo(db.intents) \subseteq Reached
  /\ HeldIn(Reached, lists, page, form, reqs, resolve)

LEMMA RoutedTyped ==
  ASSUME NEW t \in Tables, NEW k \in Live(t.intents)
  PROVE  k \in IntentKeys /\ t.intents[k] \in Intent /\ t.intents[k].routingToolName \in Routings
BY LiveTyped DEF Collections, Ids, Rows, Intent

\* A name that could be told stays one, and a write of an intent routed to one keeps
\* the invariant of the tables.
LEMMA WriteNamed ==
  ASSUME Typed, Named, NEW c \in Collections, NEW id \in Ids[c], NEW row \in Rows[c] \cup Missing,
         Write(c, id, row),
         c = "intents" /\ row \notin Missing => row.routingToolName \in Reached
  PROVE  /\ Reached \subseteq Reached'
         /\ StoredNames(db') \subseteq Reached' /\ RoutedTo(db'.intents) \subseteq Reached'
<1>1. /\ db' \in Tables /\ db \in Tables
      /\ \A d \in Collections : \A i \in Ids[d] :
           db'[d][i] = IF d = c /\ i = id THEN row ELSE db[d][i]
      /\ gone \subseteq gone'
      /\ StoredNames(db) \cup StoredNames(db') \subseteq Offered(db') \cup gone'
  BY WriteKeeps DEF Typed
<1>2. Offered(db) \subseteq StoredNames(db)
  BY <1>1, StoredTyped
<1>3. Reached' = {"create_ticket", None} \cup Offered(db') \cup gone'
  BY DEF Reached
<1>4. Reached \subseteq Reached' /\ StoredNames(db') \subseteq Reached'
  BY <1>1, <1>2, <1>3 DEF Reached
<1>5. RoutedTo(db'.intents) \subseteq Reached
  <2> SUFFICES ASSUME NEW k \in Live(db'.intents) PROVE db'.intents[k].routingToolName \in Reached
    BY DEF RoutedTo
  <2>1. k \in IntentKeys /\ db'.intents[k] \notin Missing
    BY <1>1, RoutedTyped DEF Live
  <2>2. db'.intents[k] = IF "intents" = c /\ k = id THEN row ELSE db.intents[k]
    BY <1>1, <2>1 DEF Collections, Ids
  <2>3. CASE c = "intents" /\ k = id
    BY <2>1, <2>2, <2>3
  <2>4. CASE ~ (c = "intents" /\ k = id)
    <3>1. k \in Live(db.intents)
      BY <1>1, <2>1, <2>2, <2>4 DEF Live, Tables
    <3> QED  BY <2>2, <2>4, <3>1 DEF Named, RoutedTo
  <2> QED  BY <2>3, <2>4
<1> QED  BY <1>4, <1>5

\* What a request's step writes is what the form sent.
LEMMA ServeNamed ==
  ASSUME Typed, Named, NEW r \in reqs, Serve(r)
  PROVE  /\ Reached \subseteq Reached'
         /\ StoredNames(db') \subseteq Reached' /\ RoutedTo(db'.intents) \subseteq Reached'
<1>1. CASE NoWrite
  BY <1>1 DEF NoWrite, Reached, Named, StoredNames, Offered, RoutedTo
<1>2. CASE \E id \in Ids[r.coll] : \E row \in Rows[r.coll] \cup Missing :
             Write(r.coll, id, row) /\ Written(r, row)
  <2>1. PICK id \in Ids[r.coll] : \E row \in Rows[r.coll] \cup Missing :
             Write(r.coll, id, row) /\ Written(r, row)
    BY <1>2
  <2>2. PICK row \in Rows[r.coll] \cup Missing : Write(r.coll, id, row) /\ Written(r, row)
    BY <2>1
  <2>3. RequestFits(r) /\ r.coll \in Collections
    BY DEF Typed, RequestFits, Requests
  <2>4. ASSUME r.coll = "intents", row \notin Missing
        PROVE  row.routingToolName \in Reached
    <3>1. CASE r.op = "create" /\ row = r.body
      BY <2>4, <3>1 DEF Named, HeldIn
    <3>2. CASE r.op = "update" /\ db[r.coll][r.id] \in Rows[r.coll]
               /\ row = Patched(db[r.coll][r.id], r.body)
      <4>1. r.body \in Bodies[r.coll] /\ r.body \in Intent
        BY <2>3, <2>4, <3>2 DEF RequestFits, Bodies
      <4>2. "routingToolName" \in DOMAIN r.body /\ "routingToolName" \in DOMAIN db[r.coll][r.id]
        BY <2>4, <3>2, <4>1 DEF Intent, Rows
      <4>3. row.routingToolName = r.body.routingToolName
        BY <2>3, <3>2, <4>1, <4>2, PatchTyped
      <4> QED  BY <2>4, <3>2, <4>3 DEF Named, HeldIn
    <3> QED  BY <2>2, <2>4, <3>1, <3>2 DEF Written
  <2> QED  BY <2>1, <2>2, <2>3, <2>4, WriteNamed
<1> QED  BY <1>1, <1>2, ServeDoes

LEMMA ElsewhereNamed ==
  ASSUME Typed, Named, Elsewhere
  PROVE  /\ Reached \subseteq Reached'
         /\ StoredNames(db') \subseteq Reached' /\ RoutedTo(db'.intents) \subseteq Reached'
<1>1. PICK c \in Collections : \E id \in Ids[c] : \E row \in Rows[c] \cup Missing :
        /\ Write(c, id, row)
        /\ \/ row = Gone
           \/ /\ row \in OthersRows[c]
              /\ c = "intents" => row.routingToolName \notin ToolNames \ StoredNames(db)
  BY ElsewhereDoes
<1>2. PICK id \in Ids[c] : \E row \in Rows[c] \cup Missing :
        /\ Write(c, id, row)
        /\ \/ row = Gone
           \/ /\ row \in OthersRows[c]
              /\ c = "intents" => row.routingToolName \notin ToolNames \ StoredNames(db)
  BY <1>1
<1>3. PICK row \in Rows[c] \cup Missing :
        /\ Write(c, id, row)
        /\ \/ row = Gone
           \/ /\ row \in OthersRows[c]
              /\ c = "intents" => row.routingToolName \notin ToolNames \ StoredNames(db)
  BY <1>2
<1>4. ASSUME c = "intents", row \notin Missing
      PROVE  row.routingToolName \in Reached
  <2>1. row.routingToolName \in Routings
    BY <1>3, <1>4 DEF Rows, Intent
  <2>2. row.routingToolName \notin ToolNames \ StoredNames(db)
    BY <1>3, <1>4 DEF Missing
  <2> QED  BY <2>1, <2>2 DEF Routings, Named, Reached
<1> QED  BY <1>2, <1>3, <1>4, WriteNamed

LEMMA NamedInit == Init => Named
<1> SUFFICES ASSUME Init PROVE Named
  OBVIOUS
<1>1. Typed
  BY TypedInit
<1>2. PICK tool \in {None} \cup [name : {CHOOSE n \in ToolNames : TRUE}, secret : {TRUE}, enabled : {TRUE}] :
        db = Template(tool)
  BY DEF Init
<1>3. \A k \in Live(db.intents) : db.intents[k].routingToolName \in {"create_ticket", None}
  <2> DEFINE main == CHOOSE k \in IntentKeys : TRUE
             other == CHOOSE k \in IntentKeys \ {main} : TRUE
             keys == [k \in IntentKeys |->
               IF k = main THEN [routingToolName |-> "create_ticket", sortOrder |-> 0, enabled |-> TRUE]
               ELSE IF k = other THEN [routingToolName |-> None, sortOrder |-> 1, enabled |-> TRUE]
               ELSE None]
  <2>1. db.intents = keys
    BY <1>2 DEF Template
  <2> HIDE DEF main, other
  <2>2. \A k \in IntentKeys : keys[k] # None => keys[k].routingToolName \in {"create_ticket", None}
    BY NoneAssumption
  <2>3. \A k \in Live(db.intents) : k \in IntentKeys /\ db.intents[k] # None
    BY <1>1, LiveTyped DEF Typed, Collections, Ids
  <2> QED  BY <2>1, <2>2, <2>3
<1>4. StoredNames(db) \subseteq Offered(db)
  <2>1. \A id \in ToolIds : db.tools[id] = tool \/ db.tools[id] = None
    BY <1>2 DEF Template
  <2>2. \A id \in Live(db.tools) : id \in ToolIds /\ db.tools[id] # None
    BY <1>1, LiveTyped DEF Typed, Collections, Ids
  <2>3. \A id \in Live(db.tools) : db.tools[id].enabled
    BY <1>2, <2>1, <2>2
  <2> QED  BY <2>3 DEF StoredNames, Offered
<1>5. lists = db /\ form = None /\ reqs = {} /\ resolve = None
  BY DEF Init
<1> QED  BY <1>3, <1>4, <1>5 DEF Named, HeldIn, RoutedTo, Reached

LEMMA NamedHolders ==
  ASSUME Reached \subseteq Reached',
         StoredNames(db') \subseteq Reached', RoutedTo(db'.intents) \subseteq Reached',
         HeldIn(Reached, lists', page', form', reqs', resolve')
  PROVE  Named'
<1>1. HeldIn(Reached', lists', page', form', reqs', resolve')
  BY DEF HeldIn
<1> QED  BY <1>1 DEF Named

\* A step that leaves the tables alone.
LEMMA NamedApart ==
  ASSUME Named, UNCHANGED <<db, gone>>,
         HeldIn(Reached, lists', page', form', reqs', resolve')
  PROVE  Named'
<1>1. Reached' = Reached /\ db' = db
  BY DEF Reached
<1>2. StoredNames(db') \subseteq Reached' /\ RoutedTo(db'.intents) \subseteq Reached'
  BY <1>1 DEF Named
<1> QED  BY <1>1, <1>2, NamedHolders

LEMMA NamedMutate ==
  ASSUME Typed, Named, UNCHANGED <<db, lists, page, form, resolve, gone>>, NEW q, Mutate(q),
         q.coll = "intents" /\ q.op # "delete" => q.body.routingToolName \in Reached
  PROVE  Named'
<1>1. HeldIn(Reached, lists, page, form, reqs, resolve)
  BY DEF Named
<1> DEFINE Kept(r) == [r EXCEPT !.latest = FALSE]
<1>2. \A r \in reqs : Kept(r).coll = r.coll /\ Kept(r).op = r.op /\ Kept(r).body = r.body
  BY LatestTyped DEF Typed
<1>3. \A p \in reqs' : p = q \/ p \in reqs \/ \E r \in reqs : p = Kept(r)
  BY DEF Mutate
<1> HIDE DEF Kept
<1>4. \A p \in reqs' : p.coll = "intents" /\ p.op # "delete" => p.body.routingToolName \in Reached
  BY <1>1, <1>2, <1>3 DEF HeldIn
<1>5. HeldIn(Reached, lists', page', form', reqs', resolve')
  BY <1>1, <1>4 DEF HeldIn
<1> QED  BY <1>5, NamedApart

LEMMA NamedStep == Typed /\ Named /\ [Next]_vars => Named'
<1> SUFFICES ASSUME Typed, Named, [Next]_vars PROVE Named'
  OBVIOUS
<1>0. HeldIn(Reached, lists, page, form, reqs, resolve) /\ page \in Collections
      /\ lists \in Tables /\ db \in Tables
  BY DEF Named, Typed
<1>1. CASE UNCHANGED <<db, lists, page, form, reqs, resolve, gone>>
  BY <1>0, <1>1, NamedApart
<1>2. CASE ReadIntents
  <2>1. UNCHANGED <<db, lists, page, form, reqs, gone>>
    BY <1>2 DEF ReadIntents
  <2>2. PICK s \in Listings(db.intents) :
          resolve' = [n \in DOMAIN s |-> ToDefinition(db.intents, s[n])]
    BY <1>2 DEF ReadIntents
  <2>3. \A n \in DOMAIN s : s[n] \in Live(db.intents)
    BY <2>2 DEF Listings
  <2>4. \A n \in DOMAIN resolve' : resolve'[n].routingToolName \in Reached
    BY <2>2, <2>3 DEF ToDefinition, Named, RoutedTo
  <2>5. HeldIn(Reached, lists', page', form', reqs', resolve')
    BY <1>0, <2>1, <2>4 DEF HeldIn
  <2> QED  BY <2>1, <2>5, NamedApart
<1>3. CASE ReadTools
  <2>1. UNCHANGED <<db, lists, page, form, reqs, gone>> /\ resolve' = None
    BY <1>3 DEF ReadTools
  <2>2. HeldIn(Reached, lists', page', form', reqs', resolve')
    BY <1>0, <2>1 DEF HeldIn
  <2> QED  BY <2>1, <2>2, NamedApart
<1>4. ASSUME NEW r \in reqs, Serve(r) PROVE Named'
  <2>1. UNCHANGED <<lists, page, form, resolve>> /\ \E stage \in Stages : Step(r, stage)
    BY <1>4, ServeDoes
  <2>2. PICK stage \in Stages : Step(r, stage)
    BY <2>1
  <2> DEFINE q == [r EXCEPT !.stage = stage]
  <2>3. q.coll = r.coll /\ q.op = r.op /\ q.body = r.body /\ reqs' = (reqs \ {r}) \cup {q}
    BY <2>2, StageTyped DEF Step, Typed
  <2> HIDE DEF q
  <2>4. \A p \in reqs' : p.coll = "intents" /\ p.op # "delete" => p.body.routingToolName \in Reached
    BY <1>0, <2>3 DEF HeldIn
  <2>5. HeldIn(Reached, lists', page', form', reqs', resolve')
    BY <1>0, <2>1, <2>4 DEF HeldIn
  <2> QED  BY <1>4, <2>5, ServeNamed, NamedHolders
<1>5. ASSUME NEW r \in reqs, Answered(r) PROVE Named'
  <2>1. UNCHANGED <<db, lists, page, resolve, gone>> /\ reqs' \subseteq reqs
        /\ form' \in {form, None}
    BY <1>5 DEF Answered
  <2>2. HeldIn(Reached, lists', page', form', reqs', resolve')
    BY <1>0, <2>1 DEF HeldIn
  <2> QED  BY <2>1, <2>2, NamedApart
<1>6. ASSUME NEW c \in Collections, Refresh(c) PROVE Named'
  <2>1. UNCHANGED <<db, page, form, reqs, resolve, gone>> /\ lists' = [lists EXCEPT ![c] = db[c]]
    BY <1>6 DEF Refresh
  <2>2. lists'.tools \in {lists.tools, db.tools} /\ lists'.intents \in {lists.intents, db.intents}
    BY <1>0, <2>1 DEF Tables, Collections
  <2>3. StoredNames(lists') \subseteq Reached /\ RoutedTo(lists'.intents) \subseteq Reached
    <3>1. StoredNames(lists') \subseteq StoredNames(lists) \cup StoredNames(db)
      BY <2>2 DEF StoredNames
    <3> QED  BY <1>0, <2>2, <3>1 DEF Named, HeldIn
  <2>4. HeldIn(Reached, lists', page', form', reqs', resolve')
    BY <1>0, <2>1, <2>3 DEF HeldIn
  <2> QED  BY <2>1, <2>4, NamedApart
<1>7. CASE Leave
  <2> DEFINE q(r) == [r EXCEPT !.latest = FALSE]
  <2>1. UNCHANGED <<db, lists, page, resolve, gone>> /\ form' = None /\ reqs' = {q(r) : r \in reqs}
    BY <1>7 DEF Leave
  <2>2. \A r \in reqs : q(r).coll = r.coll /\ q(r).op = r.op /\ q(r).body = r.body
    BY LatestTyped DEF Typed
  <2> HIDE DEF q
  <2>3. HeldIn(Reached, lists', page', form', reqs', resolve')
    BY <1>0, <2>1, <2>2 DEF HeldIn
  <2> QED  BY <2>1, <2>3, NamedApart
<1>8. ASSUME UNCHANGED <<db, lists, page, reqs, resolve, gone>>,
             page = "intents" /\ form' # None => form'.draft.routingToolName \in Reached
      PROVE  Named'
  <2>1. HeldIn(Reached, lists', page', form', reqs', resolve')
    BY <1>0, <1>8 DEF HeldIn
  <2> QED  BY <1>8, <2>1, NamedApart
<1>9. ASSUME NEW id, StartNew(id) PROVE Named'
  <2>1. UNCHANGED <<db, lists, page, reqs, resolve, gone>>
        /\ form'.draft = EmptyDraft(page, NextSortOrder(lists[page]))
    BY <1>9 DEF StartNew
  <2>2. page = "intents" => form'.draft.routingToolName = None
    BY <2>1 DEF EmptyDraft
  <2> QED  BY <1>8, <2>1, <2>2 DEF Reached
<1>10. ASSUME NEW id \in Ids[page], StartEdit(id) PROVE Named'
  <2>1. UNCHANGED <<db, lists, page, reqs, resolve, gone>>
        /\ form'.draft = Fill(lists[page][id]) /\ id \in Live(lists[page])
    BY <1>10 DEF StartEdit
  <2>2. page = "intents" => form'.draft.routingToolName \in RoutedTo(lists.intents)
    BY <2>1 DEF Fill, RoutedTo
  <2> QED  BY <1>0, <1>8, <2>1, <2>2 DEF HeldIn
<1>11. CASE Type
  <2>1. UNCHANGED <<db, lists, page, reqs, resolve, gone>> /\ form # None /\ form \in Forms
        /\ form.draft \in Rows[page]
    BY <1>11 DEF Type, Typed, FormFits
  <2>2. PICK change \in Changes[page] :
          form' = [form EXCEPT !.draft = Patched(@, change), !.typed = DOMAIN change]
    BY <1>11 DEF Type
  <2> DEFINE draft == Patched(form.draft, change)
  <2>3. page = "intents" => draft.routingToolName \in
          {form.draft.routingToolName, "create_ticket", None} \cup StoredNames(lists)
    BY <2>1, <2>2, ChangeTyped
  <2>4. form'.draft = draft
    BY <2>1, <2>2 DEF Forms
  <2> HIDE DEF draft
  <2>5. page = "intents" => form'.draft.routingToolName \in Reached
    BY <1>0, <2>1, <2>3, <2>4 DEF HeldIn, Reached
  <2> QED  BY <1>8, <2>1, <2>5
<1>12. CASE Cancel
  BY <1>8, <1>12 DEF Cancel
<1>13. CASE Save
  <2>1. UNCHANGED <<db, lists, page, form, resolve, gone>> /\ form # None
    BY <1>13 DEF Save
  <2>2. PICK q : q.coll = page /\ Mutate(q) /\ (q.coll = "intents" => q.body = form.draft)
    BY <1>13, SaveTyped
  <2>3. q.coll = "intents" => q.body.routingToolName \in Reached
    BY <1>0, <2>1, <2>2 DEF HeldIn
  <2> QED  BY <2>1, <2>2, <2>3, NamedMutate
<1>14. ASSUME NEW id \in Ids[page], Toggle(id) \/ Delete(id) PROVE Named'
  <2>1. UNCHANGED <<db, lists, page, form, resolve, gone>>
    BY <1>14 DEF Toggle, Delete
  <2>2. \E q : Mutate(q) /\ (q.coll = "faq" \/ q.op = "delete")
    BY <1>14, ToggleTyped, DeleteTyped
  <2> QED  BY <2>1, <2>2, NamedMutate
<1>15. CASE Elsewhere
  <2>1. UNCHANGED <<lists, page, form, reqs, resolve>>
    BY <1>15 DEF Elsewhere
  <2> QED  BY <1>0, <1>15, <2>1, ElsewhereNamed, NamedHolders
<1>16. {page} \cup (IF page = "intents" THEN {"tools"} ELSE {}) \subseteq Collections
  BY <1>0 DEF Collections
<1> QED
  BY <1>1, <1>2, <1>3, <1>4, <1>5, <1>6, <1>7, <1>9, <1>10, <1>11, <1>12, <1>13, <1>14, <1>15, <1>16
  DEF Next, Studio, vars

\* The inductive invariant of the studio.
StudioInv == Typed /\ Numbered /\ Named

(***************************************************************************)
(* The rows, forms, requests and definitions of the studio have their      *)
(* types, every change a form sends was typed into it, and every name of a *)
(* webhook tool kept anywhere is that of a tool on offer or known to have  *)
(* been withdrawn.                                                         *)
(***************************************************************************)
THEOREM StudioInductive == Spec => []StudioInv
<1>1. Init => StudioInv
  BY TypedInit, NumberedInit, NamedInit DEF StudioInv
<1>2. StudioInv /\ [Next]_vars => StudioInv'
  BY TypedStep, NumberedStep, NamedStep DEF StudioInv
<1> QED  BY <1>1, <1>2, PTL DEF Spec

LEMMA SectionsName ==
  ASSUME NEW section, NEW catalogue
  PROVE  ToolsNamedIn(section, FullSettings, catalogue) \subseteq SystemTools \cup RoutedTools(catalogue)
<1>1. CASE section = "after_hours"
  BY <1>1 DEF ToolsNamedIn, SystemTools
<1>2. CASE section \in {"emergency", "consent"}
  BY <1>2 DEF ToolsNamedIn, SystemTools
<1>3. CASE section = "identity"
  BY <1>3 DEF ToolsNamedIn, SystemTools
<1>4. CASE section = "intents"
  BY <1>4 DEF ToolsNamedIn, SystemTools
<1>5. CASE section = "tool_rules"
  BY <1>5 DEF ToolsNamedIn, SystemTools
<1>6. CASE section = "payment_guard"
  BY <1>6 DEF ToolsNamedIn, SystemTools
<1>7. CASE section \notin {"after_hours", "emergency", "consent", "identity", "intents",
                           "tool_rules", "payment_guard"}
  BY <1>7 DEF ToolsNamedIn
<1> QED  BY <1>1, <1>2, <1>3, <1>4, <1>5, <1>6, <1>7

\* The generic rules choose a system tool, one that an intent is routed to, or none.
LEMMA GenericChoice ==
  ASSUME NEW key, NEW attempts \in Nat, NEW catalogue
  PROVE  DecideGenericAction(key, attempts, catalogue, BOBI_DEFAULT_AGENT_CONFIG).tool
           \in SystemTools \cup {None} \cup {catalogue[n].routingToolName : n \in DOMAIN catalogue}
<1> DEFINE config == BOBI_DEFAULT_AGENT_CONFIG
           found == FindIntent(key, catalogue)
           routed == {catalogue[n].routingToolName : n \in found} \ {None}
<1>1. config.maxIntentAttempts = 2 /\ config.intentUnresolvedFallbackTool = "request_callback"
  BY DEF BOBI_DEFAULT_AGENT_CONFIG
<1>2. found \subseteq DOMAIN catalogue
  BY DEF FindIntent
<1>3. DecideGenericAction(key, attempts, catalogue, config) =
        CASE found = {} /\ (key # None \/ attempts >= config.maxIntentAttempts) ->
               Decision("unresolved_fallback", config.intentUnresolvedFallbackTool)
          [] found = {} /\ key = None /\ attempts < config.maxIntentAttempts ->
               Decision("reask", None)
          [] found # {} /\ routed # {} ->
               Decision("route_to_intent_tool", CHOOSE tool \in routed : TRUE)
          [] OTHER -> Decision("answer_from_kb", "get_kb_answer")
  BY DEF DecideGenericAction
<1> HIDE DEF found, config
<1>4. CASE found = {} /\ (key # None \/ attempts >= config.maxIntentAttempts)
  BY <1>1, <1>3, <1>4 DEF Decision, SystemTools, config
<1>5. CASE found = {} /\ key = None /\ attempts < config.maxIntentAttempts
  BY <1>1, <1>3, <1>5 DEF Decision, config
<1>6. CASE found # {} /\ routed # {}
  <2>1. (CHOOSE tool \in routed : TRUE) \in routed
    BY <1>6
  <2> QED  BY <1>2, <1>3, <1>6, <2>1 DEF Decision, config
<1>7. CASE found # {} /\ routed = {}
  BY <1>3, <1>7 DEF Decision, SystemTools, config
<1> QED  BY <1>1, <1>4, <1>5, <1>6, <1>7

(***************************************************************************)
(* Whatever is made and routed before or between the two queries of the    *)
(* resolver, a webhook tool that a call's prompt or rules name and the     *)
(* call does not have is one that was deleted or switched off, before the  *)
(* queries or between them (tenant-resolver.service.ts:113-114,            *)
(* system-prompt.ts:347-357).                                              *)
(***************************************************************************)
THEOREM CallsHaveTheToolsTheyAreToldOf == Spec => PromptNamesOffered
<1>1. ASSUME StudioInv, [Next]_vars, resolve # None, resolve' = None
      PROVE  LET has == CallTools(db) \cup gone IN
             /\ ToolsNamed(FullSettings, TRUE, resolve) \subseteq has
             /\ \A key \in {resolve[n].key : n \in DOMAIN resolve} \cup {None},
                   attempts \in {0, MAX_INTENT_ATTEMPTS} :
                  DecideGenericAction(key, attempts, resolve, BOBI_DEFAULT_AGENT_CONFIG).tool
                    \in has \cup {None}
  <2> DEFINE has == CallTools(db) \cup gone
  <2>1. {resolve[n].routingToolName : n \in DOMAIN resolve} \subseteq has \cup {None}
    BY <1>1 DEF StudioInv, Named, HeldIn, Reached, CallTools, SystemTools
  <2>2. RoutedTools(resolve) \subseteq has /\ SystemTools \subseteq has
    BY <2>1 DEF RoutedTools, CallTools
  <2>3. MAX_INTENT_ATTEMPTS \in Nat /\ 0 \in Nat
    BY DEF MAX_INTENT_ATTEMPTS
  <2> HIDE DEF has
  <2>4. ToolsNamed(FullSettings, TRUE, resolve) \subseteq has
    BY <2>2, SectionsName DEF ToolsNamed
  <2>5. ASSUME NEW key, NEW attempts \in {0, MAX_INTENT_ATTEMPTS}
        PROVE  DecideGenericAction(key, attempts, resolve, BOBI_DEFAULT_AGENT_CONFIG).tool
                 \in has \cup {None}
    <3>1. attempts \in Nat
      BY <2>3
    <3> QED  BY <2>1, <2>2, <3>1, GenericChoice
  <2> QED  BY <2>4, <2>5 DEF has
<1> QED  BY <1>1, StudioInductive, PTL DEF PromptNamesOffered, Spec

-----------------------------------------------------------------------------
(* The studio: what an update may change.                                  *)

\* A request that is answered ok in a step is the one that is served in it.
LEMMA ServedBy ==
  ASSUME Typed, Numbered, [Next]_vars, NEW r \in reqs, Served(r)
  PROVE  Serve(r) /\ r.stage # "ok"
<1> DEFINE ok == [r EXCEPT !.stage = "ok"]
<1>1. /\ ok \in reqs' /\ ok \notin reqs
      /\ \A q \in reqs : q.n < changes /\ (q.n = r.n => q = r)
      /\ changes \in Nat
  BY BoundAssumption DEF Served, Numbered, Typed
<1>2. /\ RequestFits(r) /\ r \in Requests
      /\ \A q \in reqs : RequestFits(q) /\ q \in Requests
  BY DEF Typed, RequestFits
<1>3. ok.n = r.n /\ ok.stage = "ok"
  BY <1>2 DEF Requests
<1>4. r.stage # "ok"
  <2>1. r.stage = "ok" => ok = r
    BY <1>2 DEF Requests
  <2> QED  BY <1>1, <2>1
<1>5. ASSUME NEW q \in reqs, ok = [q EXCEPT !.latest = FALSE] PROVE FALSE
  <2>1. [q EXCEPT !.latest = FALSE].n = q.n /\ [q EXCEPT !.latest = FALSE].stage = q.stage
    BY <1>2 DEF Requests
  <2> HIDE DEF ok
  <2>2. q = r /\ q.stage = "ok"
    BY <1>1, <1>3, <1>5, <2>1
  <2> QED  BY <1>4, <2>2
<1> HIDE DEF ok
<1>6. CASE reqs' \subseteq reqs
  BY <1>1, <1>6
<1>7. CASE reqs' = {[q EXCEPT !.latest = FALSE] : q \in reqs}
  BY <1>1, <1>5, <1>7
<1>8. ASSUME NEW new, new.n = changes, Mutate(new) PROVE FALSE
  <2>1. ok = new \/ ok \in reqs \/ \E q \in reqs : ok = [q EXCEPT !.latest = FALSE]
    BY <1>1, <1>8 DEF Mutate
  <2>2. ok # new
    BY <1>1, <1>2, <1>3, <1>8 DEF Requests
  <2> QED  BY <1>1, <1>5, <2>1, <2>2
<1>9. ASSUME NEW q \in reqs, Serve(q) PROVE q = r
  <2>1. \E stage \in Stages : Step(q, stage)
    BY <1>9, ServeDoes
  <2>2. PICK stage \in Stages : Step(q, stage)
    BY <2>1
  <2>3. ok = [q EXCEPT !.stage = stage] /\ [q EXCEPT !.stage = stage].n = q.n
    BY <1>1, <1>2, <2>2, StageTyped DEF Step
  <2> QED  BY <1>1, <1>3, <2>3
<1>10. CASE \E id \in Ids[page] : Toggle(id) \/ Delete(id)
  BY <1>8, <1>10, ToggleTyped, DeleteTyped
<1>11. CASE Save
  BY <1>8, <1>11, SaveTyped
<1>12. CASE Leave
  BY <1>7, <1>12 DEF Leave
<1>13. CASE \E q \in reqs : Serve(q)
  BY <1>4, <1>9, <1>13
<1>14. CASE \E q \in reqs : Answered(q)
  BY <1>6, <1>14 DEF Answered
<1>15. CASE UNCHANGED reqs
  BY <1>6, <1>15
<1> QED  BY <1>10, <1>11, <1>12, <1>13, <1>14, <1>15
  DEF Next, Studio, vars, ReadIntents, ReadTools, Refresh, StartNew, StartEdit, Cancel, Type, Elsewhere

\* An update answered ok found its row and merged its change into it.
LEMMA UpdateWrites ==
  ASSUME Typed, NEW r \in reqs, Serve(r), Served(r), r.op = "update"
  PROVE  /\ r.coll \in Collections /\ r.id \in Ids[r.coll]
         /\ db[r.coll][r.id] \in Rows[r.coll]
         /\ db'[r.coll][r.id] = Patched(db[r.coll][r.id], r.body)
<1>1. RequestFits(r) /\ r \in Requests /\ db \in Tables
  BY DEF Typed, RequestFits
<1>2. r.coll \in Collections /\ r.id \in Ids[r.coll] /\ r.body \in Bodies[r.coll]
  BY <1>1 DEF RequestFits, Requests
<1> DEFINE row == db[r.coll][r.id]
<1>3. row \in Rows[r.coll] \cup Missing
  BY <1>1, <1>2, EntryTyped
<1>4. ASSUME NEW stage \in Stages, Step(r, stage) PROVE stage = "ok"
  <2>1. [r EXCEPT !.stage = "ok"] = [r EXCEPT !.stage = stage]
    BY <1>4 DEF Step, Served
  <2>2. [r EXCEPT !.stage = "ok"].stage = "ok" /\ [r EXCEPT !.stage = stage].stage = stage
    BY <1>1 DEF Requests
  <2> QED  BY <2>1, <2>2
<1>5. ~ ServeFind(r)
  <2> SUFFICES ASSUME ServeFind(r) PROVE FALSE
    OBVIOUS
  <2>1. Step(r, "found") \/ Step(r, "failed")
    BY DEF ServeFind
  <2> QED  BY <1>4, <2>1 DEF Stages
<1>6. /\ Write(r.coll, r.id, Merged(r.body, row))
      /\ Step(r, IF row \in Missing THEN "failed" ELSE "ok")
  BY <1>5 DEF Serve, ServeCreate, ServeUpdate, ServeDelete
<1> HIDE DEF row
<1>7. row \notin Missing
  <2> SUFFICES ASSUME row \in Missing PROVE FALSE
    OBVIOUS
  <2>1. Step(r, "failed")
    BY <1>6
  <2> QED  BY <1>4, <2>1 DEF Stages
<1>8. Merged(r.body, row) = Patched(row, r.body)
  BY <1>7 DEF Merged
<1>9. row \in Rows[r.coll]
  BY <1>3, <1>7
<1>10. Patched(row, r.body) \in Rows[r.coll] \cup Missing
  BY <1>2, <1>9, PatchTyped
<1>11. db'[r.coll][r.id] = Patched(row, r.body)
  BY <1>2, <1>6, <1>8, <1>10, WriteKeeps
<1> QED  BY <1>2, <1>9, <1>11 DEF row

LEMMA UpdateKeepsToItsForm ==
  ASSUME Typed, Numbered, [Next]_vars, NEW r \in reqs, r.op = "update", Served(r),
         db[r.coll][r.id] = r.basis,
         NEW f \in DOMAIN r.basis, db'[r.coll][r.id][f] # r.basis[f]
  PROVE  f \in r.typed \cup {"secret"}
<1>1. RequestFits(r) /\ r.body \in Bodies[r.coll] /\ Faithful(r.body, r.basis, r.typed)
  BY DEF Typed, RequestFits
<1>2. Serve(r)
  BY ServedBy
<1>3. /\ r.coll \in Collections /\ r.basis \in Rows[r.coll]
      /\ db'[r.coll][r.id] = Patched(r.basis, r.body)
  BY <1>2, UpdateWrites
<1>4. Patched(r.basis, r.body)[f] = IF f \in DOMAIN r.body THEN r.body[f] ELSE r.basis[f]
  BY <1>1, <1>3, PatchTyped
<1>5. f \in DOMAIN r.body /\ r.body[f] # r.basis[f]
  BY <1>3, <1>4
<1> QED  BY <1>1, <1>5 DEF Faithful

\* A row comes back only by a create, and of intents only.
LEMMA NothingComesBack ==
  ASSUME Typed, Numbered, NEW r \in reqs, Serve(r), NEW c \in Collections, NEW id \in Ids[c],
         db[c][id] = Gone, db'[c][id] # Gone
  PROVE  c = "intents" /\ r.coll = c /\ r.op = "create" /\ r.id = id /\ Served(r)
<1>1. RequestFits(r) /\ r \in Requests /\ db \in Tables /\ r.coll \in Collections
  BY DEF Typed, RequestFits, Requests
<1>2. ASSUME NEW i \in Ids[r.coll], NEW row \in Rows[r.coll] \cup Missing, Write(r.coll, i, row)
      PROVE  c = r.coll /\ i = id /\ row # Gone
  BY <1>1, <1>2, WriteKeeps
<1>3. ~ NoWrite
  BY DEF NoWrite
<1>4. ~ ServeFind(r)
  BY <1>3 DEF ServeFind
<1>5. ~ ServeUpdate(r)
  <2> SUFFICES ASSUME ServeUpdate(r) PROVE FALSE
    OBVIOUS
  <2> DEFINE row == db[r.coll][r.id]
  <2>1. r.op = "update" /\ Write(r.coll, r.id, Merged(r.body, row))
    BY DEF ServeUpdate
  <2>2. r.id \in Ids[r.coll] /\ r.body \in Bodies[r.coll]
    BY <1>1, <2>1 DEF RequestFits
  <2>3. row \in Rows[r.coll] \cup Missing
    BY <1>1, <2>2, EntryTyped
  <2> HIDE DEF row
  <2>4. CASE row \in Missing
    <3>1. Merged(r.body, row) = row
      BY <2>4 DEF Merged
    <3>2. c = r.coll /\ r.id = id /\ row # Gone
      BY <1>2, <2>1, <2>2, <2>4, <3>1
    <3> QED  BY <3>2 DEF row
  <2>5. CASE row \notin Missing
    <3>1. Merged(r.body, row) = Patched(row, r.body)
      BY <2>5 DEF Merged
    <3>2. Patched(row, r.body) \in Rows[r.coll] \cup Missing
      BY <1>1, <2>2, <2>3, <2>5, PatchTyped
    <3>3. c = r.coll /\ r.id = id
      BY <1>2, <2>1, <2>2, <3>1, <3>2
    <3> QED  BY <2>5, <3>3 DEF row, Missing
  <2> QED  BY <2>4, <2>5
<1>6. ~ ServeDelete(r)
  <2> SUFFICES ASSUME ServeDelete(r) PROVE FALSE
    OBVIOUS
  <2>1. r.op = "delete" /\ Write(r.coll, r.id, Gone)
    BY <1>3 DEF ServeDelete
  <2>2. r.id \in Ids[r.coll] /\ Gone \in Missing
    BY <1>1, <2>1 DEF RequestFits, Missing
  <2> QED  BY <1>2, <2>1, <2>2
<1>7. ServeCreate(r)
  BY <1>4, <1>5, <1>6 DEF Serve
<1>8. PICK i \in IF r.coll = "intents" THEN {r.id} ELSE Ids[r.coll] :
        /\ Creatable(r.coll, i, r.body)
        /\ Write(r.coll, i, r.body)
        /\ Step(r, "ok")
  BY <1>3, <1>7 DEF ServeCreate
<1>9. r.op = "create" /\ r.stage = "sent"
  BY <1>7 DEF ServeCreate
<1>10. i \in Ids[r.coll] /\ r.body \in Rows[r.coll]
  BY <1>1, <1>8, <1>9 DEF RequestFits
<1>11. c = r.coll /\ i = id
  BY <1>2, <1>8, <1>10
<1>12. c = "intents" /\ r.id = id
  BY <1>8, <1>11, NoneAssumption DEF Creatable, Collections
<1>13. Served(r)
  <2> DEFINE ok == [r EXCEPT !.stage = "ok"]
  <2>1. ok \in reqs'
    BY <1>8 DEF Step
  <2>2. ok.n = r.n /\ ok # r
    <3>1. ok.n = r.n /\ ok.stage = "ok"
      BY <1>1 DEF Requests
    <3> QED  BY <1>9, <3>1
  <2> HIDE DEF ok
  <2>3. ok \notin reqs
    BY <2>2 DEF Numbered
  <2> QED  BY <2>1, <2>3 DEF Served, ok
<1> QED  BY <1>9, <1>11, <1>12, <1>13

LEMMA ElsewhereBringsNoneBack ==
  ASSUME Typed, Elsewhere, NEW c \in {"tools", "faq"}, NEW id \in Ids[c], db[c][id] = Gone
  PROVE  db'[c][id] = Gone
<1>1. PICK d \in Collections : \E i \in Ids[d] : \E row \in Rows[d] \cup Missing :
        /\ Write(d, i, row)
        /\ row = Gone \/ Creatable(d, i, row) \/ db[d][i] \notin Missing
  BY ElsewhereDoes
<1>2. PICK i \in Ids[d] : \E row \in Rows[d] \cup Missing :
        /\ Write(d, i, row)
        /\ row = Gone \/ Creatable(d, i, row) \/ db[d][i] \notin Missing
  BY <1>1
<1>3. PICK row \in Rows[d] \cup Missing :
        /\ Write(d, i, row)
        /\ row = Gone \/ Creatable(d, i, row) \/ db[d][i] \notin Missing
  BY <1>2
<1>4. c \in Collections
  BY DEF Collections
<1>5. db'[c][id] = IF c = d /\ id = i THEN row ELSE db[c][id]
  <2>1. \A e \in Collections : \A j \in Ids[e] :
          db'[e][j] = IF e = d /\ j = i THEN row ELSE db[e][j]
    BY <1>2, <1>3, WriteKeeps
  <2> QED  BY <1>4, <2>1
<1>6. CASE c = d /\ id = i
  BY <1>3, <1>5, <1>6, NoneAssumption DEF Creatable, Missing
<1> QED  BY <1>5, <1>6

LEMMA WritersOnly ==
  ASSUME [Next]_vars, db' # db
  PROVE  Elsewhere \/ \E r \in reqs : Serve(r)
BY DEF Next, Studio, vars, ReadIntents, ReadTools, Answered, Refresh, Leave, StartNew,
       StartEdit, Cancel, Type, Save, Toggle, Delete

(***************************************************************************)
(* Saving a form changes what was typed into it and nothing else, but for  *)
(* a tool's secret; and what was deleted stays deleted, whichever updates  *)
(* were on their way (IntentsPage.tsx:50-60, ToolsPage.tsx:58-70,          *)
(* tenant-prisma.ts:416-435).                                              *)
(***************************************************************************)
THEOREM SavesKeepToTheirForm == Spec => UpdatesKeepToTheForm
<1>1. ASSUME StudioInv, [Next]_vars
      PROVE  \A r \in reqs : r.op = "update" /\ Served(r) /\ db[r.coll][r.id] = r.basis =>
               \A f \in DOMAIN r.basis :
                 db'[r.coll][r.id][f] # r.basis[f] => f \in r.typed \cup {"secret"}
  BY <1>1, UpdateKeepsToItsForm DEF StudioInv
<1>2. ASSUME StudioInv, [Next]_vars
      PROVE  /\ \A c \in {"tools", "faq"} : \A id \in Ids[c] : db[c][id] = Gone => db'[c][id] = Gone
             /\ \A k \in IntentKeys :
                  (db.intents[k] = Gone /\ db'.intents[k] # Gone) =>
                     \/ changes' # changes
                     \/ \E r \in reqs : r.coll = "intents" /\ r.op = "create" /\ r.id = k /\ Served(r)
  <2>1. CASE db' = db
    BY <2>1
  <2>2. CASE Elsewhere
    <3>1. changes' # changes
      BY <1>2, <2>2, ElsewhereDoes, BoundAssumption DEF StudioInv, Typed
    <3> QED  BY <1>2, <2>2, <3>1, ElsewhereBringsNoneBack DEF StudioInv
  <2>3. ASSUME NEW r \in reqs, Serve(r)
        PROVE  \A c \in Collections : \A id \in Ids[c] : db[c][id] = Gone /\ db'[c][id] # Gone =>
                 c = "intents" /\ r.coll = c /\ r.op = "create" /\ r.id = id /\ Served(r)
    BY <1>2, <2>3, NothingComesBack DEF StudioInv
  <2>4. CASE \E r \in reqs : Serve(r)
    <3>1. {"tools", "faq"} \subseteq Collections /\ "intents" \in Collections
          /\ Ids["intents"] = IntentKeys
      BY DEF Collections, Ids
    <3> QED  BY <2>3, <2>4, <3>1
  <2> QED  BY <1>2, <2>1, <2>2, <2>4, WritersOnly
<1>3. Spec => OnlyTypedFieldsChange
  BY <1>1, StudioInductive, PTL DEF OnlyTypedFieldsChange, Spec
<1>4. Spec => DeletedStaysDeleted
  BY <1>2, StudioInductive, PTL DEF DeletedStaysDeleted, Spec
<1> QED  BY <1>3, <1>4 DEF UpdatesKeepToTheForm

-----------------------------------------------------------------------------
(* The dialogue: what a classification is.                                 *)

\* A set of numbers that is not empty has a least one.
LEMMA Least ==
  ASSUME NEW T \in SUBSET Nat, T # {}
  PROVE  \E x \in T : \A y \in T : x <= y
<1>1. PICK R : R = OpToRel(<, Nat)
  OBVIOUS
<1>2. IsWellFoundedOn(R, Nat)
  BY <1>1, NatLessThanWellFounded
<1>3. T \subseteq Nat /\ T # {}
  OBVIOUS
<1>4. \E x \in T : \A y \in T : ~ (<<y, x>> \in R)
  BY <1>2, <1>3, WFMin
<1>5. \A x, y \in Nat : y < x => <<y, x>> \in R
  BY <1>1 DEF OpToRel
<1>6. PICK x \in T : \A y \in T : ~ (<<y, x>> \in R)
  BY <1>4
<1>7. \A y \in T : ~ (y < x)
  BY <1>3, <1>5, <1>6
<1> HIDE DEF OpToRel
<1>8. \A y \in T : x <= y
  BY <1>3, <1>6, <1>7
<1> QED  BY <1>6, <1>8

LEMMA ScoreTyped ==
  ASSUME NEW keywords \in Seq(Words), NEW said
  PROVE  Score(keywords, said) \in Nat
<1> DEFINE heard == {n \in DOMAIN keywords : keywords[n] \in said}
<1>1. Len(keywords) \in Nat /\ DOMAIN keywords = 1 .. Len(keywords)
  BY LenProperties
<1>2. IsFiniteSet(1 .. Len(keywords))
  BY <1>1, FS_Interval
<1>3. heard \in SUBSET (1 .. Len(keywords))
  BY <1>1
<1>4. IsFiniteSet(heard)
  BY <1>2, <1>3, FS_Subset
<1>5. Cardinality(heard) \in Nat
  BY <1>4, FS_CardinalityType
<1> QED  BY <1>5 DEF Score

\* The loop of classifyIntent, unrolled.
LEMMA BestUnrolled ==
  ASSUME NEW defs, Len(defs) \in Nat, NEW said, NEW fallback
  PROVE  \E G : /\ Best(defs, said, fallback) = G[Len(defs)]
                /\ G[0] = [key |-> fallback, score |-> 0]
                /\ \A n \in 1 .. Len(defs) : G[n] = Better(G[n - 1], defs[n], said)
<1> DEFINE start == [key |-> fallback, score |-> 0]
           IsLoop(f, many) == f = [n \in 0 .. many |-> IF n = 0 THEN start ELSE Better(f[n - 1], defs[n], said)]
           G0 == CHOOSE f : IsLoop(f, Len(defs))
           bad == {k \in Nat : ~ \E f : IsLoop(f, k)}
<1>1. Best(defs, said, fallback) = G0[Len(defs)]
  BY DEF Best
<1> HIDE DEF start
<1>2. ASSUME NEW k \in Nat, NEW f, f = [n \in 0 .. k |-> f[n]],
             f[0] = start, \A n \in 1 .. k : f[n] = Better(f[n - 1], defs[n], said)
      PROVE  IsLoop(f, k)
  <2>1. \A n \in 0 .. k : f[n] = IF n = 0 THEN start ELSE Better(f[n - 1], defs[n], said)
    BY <1>2
  <2>2. [n \in 0 .. k |-> f[n]]
          = [n \in 0 .. k |-> IF n = 0 THEN start ELSE Better(f[n - 1], defs[n], said)]
    BY <2>1
  <2> QED  BY <1>2, <2>2
<1>3. ASSUME NEW k \in Nat, NEW f, IsLoop(f, k)
      PROVE  f[0] = start /\ \A n \in 1 .. k : f[n] = Better(f[n - 1], defs[n], said)
  <2>1. \A n \in 0 .. k : f[n] = IF n = 0 THEN start ELSE Better(f[n - 1], defs[n], said)
    BY <1>3
  <2> QED  BY <2>1
<1> HIDE DEF IsLoop
<1>4. bad = {}
  <2> SUFFICES ASSUME bad # {} PROVE FALSE
    OBVIOUS
  <2>1. PICK k \in bad : \A j \in bad : k <= j
    BY Least
  <2>2. k \in Nat /\ ~ \E f : IsLoop(f, k)
    BY <2>1
  <2>3. CASE k = 0
    <3> DEFINE f == [n \in 0 .. k |-> start]
    <3>1. f = [n \in 0 .. k |-> f[n]] /\ f[0] = start /\ 1 .. k = {}
      BY <2>3
    <3> HIDE DEF f
    <3>2. IsLoop(f, k)
      BY <1>2, <2>2, <3>1
    <3> QED  BY <2>2, <3>2
  <2>4. CASE k # 0
    <3>1. k - 1 \in Nat /\ k - 1 \notin bad
      BY <2>1, <2>2, <2>4
    <3>2. PICK g : IsLoop(g, k - 1)
      BY <3>1
    <3>3. g[0] = start /\ \A n \in 1 .. k - 1 : g[n] = Better(g[n - 1], defs[n], said)
      BY <1>3, <3>1, <3>2
    <3> DEFINE f == [n \in 0 .. k |-> IF n = k THEN Better(g[k - 1], defs[k], said) ELSE g[n]]
    <3>4. f = [n \in 0 .. k |-> f[n]] /\ f[0] = start
      BY <2>2, <2>4, <3>3
    <3>5. \A n \in 1 .. k : f[n] = Better(f[n - 1], defs[n], said)
      <4> SUFFICES ASSUME NEW n \in 1 .. k PROVE f[n] = Better(f[n - 1], defs[n], said)
        OBVIOUS
      <4>1. f[n - 1] = g[n - 1]
        BY <2>2
      <4>2. CASE n = k
        BY <2>2, <4>1, <4>2
      <4>3. CASE n # k
        <5>1. n \in 1 .. k - 1 /\ f[n] = g[n]
          BY <2>2, <4>3
        <5> QED  BY <3>3, <4>1, <5>1
      <4> QED  BY <4>2, <4>3
    <3> HIDE DEF f
    <3>6. IsLoop(f, k)
      BY <1>2, <2>2, <3>4, <3>5
    <3> QED  BY <2>2, <3>6
  <2> QED  BY <2>3, <2>4
<1>5. IsLoop(G0, Len(defs))
  <2>1. \E f : IsLoop(f, Len(defs))
    BY <1>4
  <2> QED  BY <2>1
<1> HIDE DEF G0
<1>6. G0[0] = start /\ \A n \in 1 .. Len(defs) : G0[n] = Better(G0[n - 1], defs[n], said)
  BY <1>3, <1>5
<1> QED  BY <1>1, <1>6 DEF start

\* The first of the intents seen whose score is highest; without a score, the fallback.
IsBestOf(best, many, defs, said, fallback) ==
  \/ /\ best = [key |-> fallback, score |-> 0]
     /\ \A m \in 1 .. many : Score(defs[m].keywords, said) = 0
  \/ \E n \in 1 .. many :
       /\ best = [key |-> defs[n].key, score |-> Score(defs[n].keywords, said)]
       /\ Score(defs[n].keywords, said) > 0
       /\ \A m \in 1 .. many :
            /\ Score(defs[m].keywords, said) <= Score(defs[n].keywords, said)
            /\ m < n => Score(defs[m].keywords, said) < Score(defs[n].keywords, said)

LEMMA BestIsFirst ==
  ASSUME NEW defs, Len(defs) \in Nat, NEW said, NEW fallback,
         \A n \in 1 .. Len(defs) : Score(defs[n].keywords, said) \in Nat
  PROVE  IsBestOf(Best(defs, said, fallback), Len(defs), defs, said, fallback)
<1>1. PICK G : /\ Best(defs, said, fallback) = G[Len(defs)]
               /\ G[0] = [key |-> fallback, score |-> 0]
               /\ \A n \in 1 .. Len(defs) : G[n] = Better(G[n - 1], defs[n], said)
  BY BestUnrolled
<1> DEFINE score(n) == Score(defs[n].keywords, said)
           bad == {k \in 0 .. Len(defs) : ~ IsBestOf(G[k], k, defs, said, fallback)}
<1>2. bad = {}
  <2> SUFFICES ASSUME bad # {} PROVE FALSE
    OBVIOUS
  <2>0. bad \in SUBSET Nat
    OBVIOUS
  <2>1. PICK k \in bad : \A j \in bad : k <= j
    BY <2>0, Least
  <2>2. k \in 0 .. Len(defs) /\ ~ IsBestOf(G[k], k, defs, said, fallback)
    BY <2>1
  <2>3. k # 0
    BY <1>1, <2>2 DEF IsBestOf
  <2>4. k - 1 \in 0 .. Len(defs) /\ k \in 1 .. Len(defs) /\ k - 1 \notin bad
    BY <2>1, <2>2, <2>3
  <2>5. IsBestOf(G[k - 1], k - 1, defs, said, fallback)
    BY <2>4
  <2>6. G[k] = IF score(k) > G[k - 1].score THEN [key |-> defs[k].key, score |-> score(k)]
               ELSE G[k - 1]
    BY <1>1, <2>4 DEF Better
  <2>7. \A m \in 1 .. k : score(m) \in Nat /\ (m = k \/ m \in 1 .. k - 1)
    BY <2>4
  <2>10. \A m \in 1 .. k - 1 : m \in 1 .. k
    BY <2>4
  <2> HIDE DEF score, bad
  <2>8. CASE /\ G[k - 1] = [key |-> fallback, score |-> 0]
             /\ \A m \in 1 .. k - 1 : score(m) = 0
    <3>1. CASE score(k) > 0
      <4>1. G[k] = [key |-> defs[k].key, score |-> score(k)]
        BY <2>6, <2>8, <3>1
      <4>2. \A m \in 1 .. k : score(m) <= score(k) /\ (m < k => score(m) < score(k))
        BY <2>4, <2>7, <2>8, <3>1
      <4>3. k \in 1 .. k
        BY <2>4
      <4>4. IsBestOf(G[k], k, defs, said, fallback)
        BY <3>1, <4>1, <4>2, <4>3 DEF IsBestOf, score
      <4> QED  BY <2>2, <4>4
    <3>2. CASE score(k) = 0
      <4>1. G[k] = [key |-> fallback, score |-> 0]
        BY <2>6, <2>8, <3>2
      <4>2. \A m \in 1 .. k : score(m) = 0
        BY <2>7, <2>8, <3>2
      <4>3. IsBestOf(G[k], k, defs, said, fallback)
        BY <4>1, <4>2 DEF IsBestOf, score
      <4> QED  BY <2>2, <4>3
    <3>3. score(k) \in Nat
      BY <2>4, <2>7
    <3> QED  BY <3>1, <3>2, <3>3
  <2>9. CASE \E n \in 1 .. k - 1 :
               /\ G[k - 1] = [key |-> defs[n].key, score |-> score(n)]
               /\ score(n) > 0
               /\ \A m \in 1 .. k - 1 : score(m) <= score(n) /\ (m < n => score(m) < score(n))
    <3>1. PICK n \in 1 .. k - 1 :
               /\ G[k - 1] = [key |-> defs[n].key, score |-> score(n)]
               /\ score(n) > 0
               /\ \A m \in 1 .. k - 1 : score(m) <= score(n) /\ (m < n => score(m) < score(n))
      BY <2>9
    <3>2. score(k) \in Nat /\ score(n) \in Nat /\ n < k /\ n \in 1 .. k /\ k \in 1 .. k
      BY <2>4, <2>7, <3>1
    <3>3. CASE score(k) > score(n)
      <4>1. G[k] = [key |-> defs[k].key, score |-> score(k)]
        BY <2>6, <3>1, <3>3
      <4>2. \A m \in 1 .. k : score(m) <= score(k) /\ (m < k => score(m) < score(k))
        BY <2>4, <2>7, <3>1, <3>2, <3>3
      <4>3. score(k) > 0
        BY <3>1, <3>2, <3>3
      <4>4. IsBestOf(G[k], k, defs, said, fallback)
        BY <3>2, <4>1, <4>2, <4>3 DEF IsBestOf, score
      <4> QED  BY <2>2, <4>4
    <3>4. CASE ~ (score(k) > score(n))
      <4>1. G[k] = [key |-> defs[n].key, score |-> score(n)]
        BY <2>6, <3>1, <3>4
      <4>2. \A m \in 1 .. k : score(m) <= score(n) /\ (m < n => score(m) < score(n))
        BY <2>4, <2>7, <3>1, <3>2, <3>4
      <4>3. IsBestOf(G[k], k, defs, said, fallback)
        BY <3>1, <3>2, <4>1, <4>2 DEF IsBestOf, score
      <4> QED  BY <2>2, <4>3
    <3> QED  BY <3>3, <3>4
  <2> QED  BY <2>5, <2>8, <2>9 DEF IsBestOf, score
<1>3. Len(defs) \in 0 .. Len(defs)
  OBVIOUS
<1> QED  BY <1>1, <1>2, <1>3

\* A catalogue, as far as its classification goes.
IsCatalogue(defs) ==
  /\ Len(defs) \in Nat /\ DOMAIN defs = 1 .. Len(defs)
  /\ \A n \in DOMAIN defs : defs[n].keywords \in Seq(Words) /\ defs[n].sortOrder \in Int

\* The order the enabled intents are sorted in is total, and sorting is by it.
LEMMA SortsApart ==
  ASSUME NEW defs, IsCatalogue(defs), NEW a \in DOMAIN defs, NEW b \in DOMAIN defs
  PROVE  /\ ~ SortsBefore(defs, a, a)
         /\ a # b => SortsBefore(defs, a, b) \/ SortsBefore(defs, b, a)
         /\ \A c \in DOMAIN defs :
              SortsBefore(defs, a, b) /\ SortsBefore(defs, b, c) => SortsBefore(defs, a, c)
BY DEF IsCatalogue, SortsBefore

LEMMA RankGrows ==
  ASSUME NEW defs, IsCatalogue(defs)
  PROVE  /\ IsFiniteSet(Enabled(defs)) /\ Cardinality(Enabled(defs)) \in Nat
         /\ \A n \in Enabled(defs) : Rank(defs, n) \in 1 .. Cardinality(Enabled(defs))
         /\ \A a, b \in Enabled(defs) : SortsBefore(defs, a, b) => Rank(defs, a) < Rank(defs, b)
<1> DEFINE enabled == Enabled(defs)
           below(n) == {m \in enabled : SortsBefore(defs, m, n)}
<1>1. IsFiniteSet(1 .. Len(defs)) /\ enabled \in SUBSET (1 .. Len(defs)) /\ enabled \subseteq DOMAIN defs
  BY FS_Interval DEF IsCatalogue, Enabled
<1>2. IsFiniteSet(enabled)
  BY <1>1, FS_Subset
<1>3. Cardinality(enabled) \in Nat
  BY <1>2, FS_CardinalityType
<1>4. \A n \in enabled : Rank(defs, n) = 1 + Cardinality(below(n))
  BY DEF Rank
<1>5. ASSUME NEW n \in enabled
      PROVE  /\ below(n) \in SUBSET enabled /\ IsFiniteSet(below(n)) /\ Cardinality(below(n)) \in Nat
             /\ Cardinality(below(n)) < Cardinality(enabled)
  <2>1. below(n) \in SUBSET enabled /\ n \notin below(n)
    BY <1>1, SortsApart
  <2> HIDE DEF below
  <2>2. /\ IsFiniteSet(below(n)) /\ Cardinality(below(n)) <= Cardinality(enabled)
        /\ Cardinality(enabled) = Cardinality(below(n)) => enabled = below(n)
    BY <1>2, <2>1, FS_Subset
  <2>3. Cardinality(below(n)) \in Nat
    BY <2>2, FS_CardinalityType
  <2> QED  BY <1>3, <2>1, <2>2, <2>3
<1>6. ASSUME NEW a \in enabled, NEW b \in enabled, SortsBefore(defs, a, b)
      PROVE  Cardinality(below(a)) < Cardinality(below(b))
  <2>1. below(a) \in SUBSET below(b)
    BY <1>1, <1>6, SortsApart
  <2>2. a \in below(b) /\ a \notin below(a)
    BY <1>1, <1>6, SortsApart
  <2>3. IsFiniteSet(below(b)) /\ Cardinality(below(a)) \in Nat /\ Cardinality(below(b)) \in Nat
    BY <1>5
  <2> HIDE DEF below
  <2>4. /\ Cardinality(below(a)) <= Cardinality(below(b))
        /\ Cardinality(below(b)) = Cardinality(below(a)) => below(b) = below(a)
    BY <2>1, <2>3, FS_Subset
  <2> QED  BY <2>2, <2>3, <2>4
<1> HIDE DEF below, enabled
<1>7. \A n \in enabled : Rank(defs, n) \in 1 .. Cardinality(enabled)
  BY <1>3, <1>4, <1>5
<1>8. \A a, b \in enabled : SortsBefore(defs, a, b) => Rank(defs, a) < Rank(defs, b)
  BY <1>4, <1>5, <1>6
<1> QED  BY <1>2, <1>3, <1>7, <1>8 DEF enabled

\* Sorted lists every enabled intent, each once, in that order.
LEMMA SortedLists ==
  ASSUME NEW defs, IsCatalogue(defs)
  PROVE  \E nth \in [1 .. Cardinality(Enabled(defs)) -> Enabled(defs)] :
           /\ Sorted(defs) = [r \in 1 .. Cardinality(Enabled(defs)) |-> defs[nth[r]]]
           /\ \A n \in Enabled(defs) : \E r \in 1 .. Cardinality(Enabled(defs)) : nth[r] = n
           /\ \A r, s \in 1 .. Cardinality(Enabled(defs)) :
                r < s => SortsBefore(defs, nth[r], nth[s])
<1> DEFINE enabled == Enabled(defs)
           many == Cardinality(enabled)
           rank == [n \in enabled |-> Rank(defs, n)]
           nth == [r \in 1 .. many |-> CHOOSE n \in enabled : Rank(defs, n) = r]
<1>1. /\ IsFiniteSet(enabled) /\ many \in Nat
      /\ \A n \in enabled : Rank(defs, n) \in 1 .. many
      /\ \A a, b \in enabled : SortsBefore(defs, a, b) => Rank(defs, a) < Rank(defs, b)
  BY RankGrows
<1>2. enabled \subseteq DOMAIN defs
  BY DEF Enabled
<1>3. Sorted(defs) = [r \in 1 .. many |-> defs[CHOOSE n \in enabled : Rank(defs, n) = r]]
  BY DEF Sorted
<1> HIDE DEF enabled, many
<1>4. \A a, b \in enabled : a # b => Rank(defs, a) # Rank(defs, b)
  BY <1>1, <1>2, SortsApart
<1>5. rank \in Injection(enabled, 1 .. many)
  <2>1. rank \in [enabled -> 1 .. many] /\ DOMAIN rank = enabled
    BY <1>1
  <2>2. \A a, b \in enabled : rank[a] = rank[b] => a = b
    BY <1>4
  <2> HIDE DEF rank
  <2> QED  BY <2>1, <2>2 DEF Injection, IsInjective
<1>6. IsFiniteSet(1 .. many) /\ Cardinality(1 .. many) = many
  BY <1>1, FS_Interval
<1>7. Cardinality(enabled) = Cardinality(1 .. many)
  BY <1>6 DEF many
<1>8. rank \in Surjection(enabled, 1 .. many)
  <2> HIDE DEF rank
  <2> QED  BY <1>5, <1>6, <1>7, FS_Injection
<1>9. \A r \in 1 .. many : \E n \in enabled : Rank(defs, n) = r
  BY <1>8 DEF Surjection
<1>10. \A r \in 1 .. many : nth[r] \in enabled /\ Rank(defs, nth[r]) = r
  BY <1>9
<1>11. nth \in [1 .. many -> enabled]
  BY <1>10
<1>12. Sorted(defs) = [r \in 1 .. many |-> defs[nth[r]]]
  BY <1>3
<1> HIDE DEF nth
<1>13. \A n \in enabled : \E r \in 1 .. many : nth[r] = n
  BY <1>1, <1>4, <1>10
<1>14. \A r, s \in 1 .. many : r < s => SortsBefore(defs, nth[r], nth[s])
  <2> SUFFICES ASSUME NEW r \in 1 .. many, NEW s \in 1 .. many, r < s
               PROVE  SortsBefore(defs, nth[r], nth[s])
    OBVIOUS
  <2>1. /\ nth[r] \in enabled /\ nth[s] \in enabled
        /\ Rank(defs, nth[r]) = r /\ Rank(defs, nth[s]) = s
    BY <1>10
  <2>2. nth[r] # nth[s]
    BY <2>1
  <2>3. SortsBefore(defs, nth[r], nth[s]) \/ SortsBefore(defs, nth[s], nth[r])
    BY <1>2, <2>1, <2>2, SortsApart
  <2>4. SortsBefore(defs, nth[s], nth[r]) => s < r
    BY <1>1, <2>1
  <2> QED  BY <2>3, <2>4
<1> QED  BY <1>11, <1>12, <1>13, <1>14 DEF enabled, many

\* classifyIntentWithCatalog computes the class of what was said.
LEMMA CatalogueClass ==
  ASSUME NEW D, NEW defs \in Seq(D), IsCatalogue(defs), NEW said
  PROVE  IsClassOf(defs, said, ClassifyWithCatalog(defs, said).key)
<1> DEFINE enabled == Enabled(defs)
           many == Cardinality(enabled)
           sorted == Sorted(defs)
           score(n) == Score(defs[n].keywords, said)
<1>1. PICK nth \in [1 .. many -> enabled] :
        /\ sorted = [r \in 1 .. many |-> defs[nth[r]]]
        /\ \A n \in enabled : \E r \in 1 .. many : nth[r] = n
        /\ \A r, s \in 1 .. many : r < s => SortsBefore(defs, nth[r], nth[s])
  BY SortedLists
<1>2. many \in Nat /\ IsFiniteSet(enabled) /\ enabled \subseteq DOMAIN defs
  BY RankGrows DEF Enabled
<1>3. \A n \in enabled : defs[n] \in D /\ score(n) \in Nat
  BY <1>2, ScoreTyped DEF IsCatalogue
<1> HIDE DEF enabled, many, sorted
<1>4. sorted \in Seq(D) /\ Len(sorted) = many
      /\ \A r \in 1 .. many : nth[r] \in enabled /\ sorted[r] = defs[nth[r]]
  <2>1. sorted \in [1 .. many -> D] /\ \A r \in 1 .. many : nth[r] \in enabled /\ sorted[r] = defs[nth[r]]
    BY <1>1, <1>3
  <2> QED  BY <1>2, <2>1
<1>5. CASE many = 0
  <2>1. sorted = << >>
    BY <1>4, <1>5, EmptySeq, SeqEqual
  <2>2. ClassifyWithCatalog(defs, said).key = None
    BY <2>1 DEF ClassifyWithCatalog, sorted
  <2>3. enabled = {}
    BY <1>2, <1>5, FS_EmptySet DEF many
  <2> QED  BY <2>2, <2>3 DEF IsClassOf, enabled
<1>6. CASE many # 0
  <2> DEFINE key == ClassifyWithCatalog(defs, said).key
             best == Best(sorted, said, Last(sorted).key)
  <2>1. sorted # << >>
    BY <1>4, <1>6, EmptySeq
  <2>2. key = best.key
    BY <2>1 DEF ClassifyWithCatalog, Classified, sorted
  <2>3. Last(sorted) = defs[nth[many]] /\ many \in 1 .. many
    BY <1>2, <1>4, <1>6 DEF Last
  <2>4. \A r \in 1 .. many : Score(sorted[r].keywords, said) = score(nth[r]) /\ score(nth[r]) \in Nat
    BY <1>3, <1>4
  <2>5. IsBestOf(best, many, sorted, said, Last(sorted).key)
    BY <1>2, <1>4, <2>4, BestIsFirst
  <2> HIDE DEF best, key, score
  <2>6. \/ best.key = defs[nth[many]].key /\ \A r \in 1 .. many : score(nth[r]) = 0
        \/ \E r \in 1 .. many :
             /\ best.key = defs[nth[r]].key /\ score(nth[r]) > 0
             /\ \A s \in 1 .. many : score(nth[s]) <= score(nth[r])
                                     /\ (s < r => score(nth[s]) < score(nth[r]))
    <3>1. CASE /\ best = [key |-> Last(sorted).key, score |-> 0]
               /\ \A m \in 1 .. many : Score(sorted[m].keywords, said) = 0
      BY <2>3, <2>4, <3>1
    <3>2. CASE \E n \in 1 .. many :
                 /\ best = [key |-> sorted[n].key, score |-> Score(sorted[n].keywords, said)]
                 /\ Score(sorted[n].keywords, said) > 0
                 /\ \A m \in 1 .. many :
                      /\ Score(sorted[m].keywords, said) <= Score(sorted[n].keywords, said)
                      /\ m < n => Score(sorted[m].keywords, said) < Score(sorted[n].keywords, said)
      <4>1. PICK n \in 1 .. many :
                 /\ best = [key |-> sorted[n].key, score |-> Score(sorted[n].keywords, said)]
                 /\ Score(sorted[n].keywords, said) > 0
                 /\ \A m \in 1 .. many :
                      /\ Score(sorted[m].keywords, said) <= Score(sorted[n].keywords, said)
                      /\ m < n => Score(sorted[m].keywords, said) < Score(sorted[n].keywords, said)
        BY <3>2
      <4>2. best.key = defs[nth[n]].key /\ score(nth[n]) > 0
        BY <1>4, <2>4, <4>1
      <4>3. \A s \in 1 .. many : score(nth[s]) <= score(nth[n])
                                     /\ (s < n => score(nth[s]) < score(nth[n]))
        BY <2>4, <4>1
      <4> QED  BY <4>2, <4>3
    <3> QED  BY <2>5, <3>1, <3>2 DEF IsBestOf
  <2>7. CASE best.key = defs[nth[many]].key /\ \A r \in 1 .. many : score(nth[r]) = 0
    <3>1. ASSUME NEW m \in enabled \ {nth[many]}
          PROVE  score(m) = 0 /\ score(nth[many]) = 0 /\ SortsBefore(defs, m, nth[many])
      <4>1. PICK r \in 1 .. many : nth[r] = m
        BY <1>1
      <4>2. r < many
        BY <1>2, <3>1, <4>1
      <4> QED  BY <1>1, <2>3, <2>7, <4>1, <4>2
    <3>2. nth[many] \in enabled /\ key = defs[nth[many]].key
      BY <1>4, <2>2, <2>3, <2>7
    <3> QED  BY <3>1, <3>2 DEF IsClassOf, enabled, score, key
  <2>8. CASE \E r \in 1 .. many :
               /\ best.key = defs[nth[r]].key /\ score(nth[r]) > 0
               /\ \A s \in 1 .. many : score(nth[s]) <= score(nth[r])
                                       /\ (s < r => score(nth[s]) < score(nth[r]))
    <3>1. PICK r \in 1 .. many :
               /\ best.key = defs[nth[r]].key /\ score(nth[r]) > 0
               /\ \A s \in 1 .. many : score(nth[s]) <= score(nth[r])
                                       /\ (s < r => score(nth[s]) < score(nth[r]))
      BY <2>8
    <3>2. ASSUME NEW m \in enabled \ {nth[r]}
          PROVE  \/ score(m) < score(nth[r])
                 \/ score(m) = score(nth[r]) /\ score(nth[r]) > 0 /\ SortsBefore(defs, nth[r], m)
      <4>1. PICK s \in 1 .. many : nth[s] = m
        BY <1>1
      <4>2. s # r /\ score(m) \in Nat /\ score(nth[r]) \in Nat
        BY <2>4, <3>2, <4>1
      <4>3. CASE s < r
        BY <3>1, <4>1, <4>3
      <4>4. CASE r < s
        <5>1. SortsBefore(defs, nth[r], m)
          BY <1>1, <4>1, <4>4
        <5>2. score(m) <= score(nth[r])
          BY <3>1, <4>1
        <5> QED  BY <3>1, <4>2, <5>1, <5>2
      <4> QED  BY <1>2, <4>2, <4>3, <4>4
    <3>3. nth[r] \in enabled /\ key = defs[nth[r]].key
      BY <1>4, <2>2, <3>1
    <3> QED  BY <3>2, <3>3 DEF IsClassOf, enabled, score, key
  <2> QED  BY <2>6, <2>7, <2>8
<1> QED  BY <1>5, <1>6

LEMMA DefinitionsClassified ==
  ASSUME NEW defs \in Seq(Definitions), NEW said
  PROVE  IsClassOf(defs, said, ClassifyWithCatalog(defs, said).key)
<1>1. Len(defs) \in Nat /\ DOMAIN defs = 1 .. Len(defs)
  BY LenProperties
<1>2. \A n \in DOMAIN defs : defs[n] \in Definitions
  BY <1>1, ElementOfSeq
<1>3. SortOrders \subseteq Int
  BY DEF SortOrders
<1>4. IsCatalogue(defs)
  BY <1>1, <1>2, <1>3 DEF IsCatalogue, Definitions
<1> QED  BY <1>4, CatalogueClass

-----------------------------------------------------------------------------
(* The dialogue: a conversation ends, and the newer rules agree.           *)

\* A caller is asked again in the first turn only, and what is missed in a row is made
\* up for in the turn after it.
TalkInv ==
  talk # None =>
    /\ talk.turns \in 0 .. MaxTurns /\ talk.asked \in {0, 1} /\ talk.missed \in {0, 1}
    /\ talk.turns = 0 => talk.asked = 0 /\ talk.missed = 0

\* decideAction asks again only before the attempts are used up, and never leaves an
\* unknown intent to itself after that.
LEMMA AsksInTime ==
  ASSUME NEW state
  PROVE  /\ DecideAction(state).action = "reask" => ~ TriedEnough(state.intentAttempts)
         /\ Unresolved(state.intent) /\ TriedEnough(state.intentAttempts) =>
              DecideAction(state).action \in {"request_callback", "escalate"}
<1> DEFINE unsure == \/ state.kbLowConfidence
                     \/ state.confidence # None /\ state.confidence < KB_CONFIDENCE_THRESHOLD
           prioritize == state.emotion \in {"angry", "urgent"}
           third ==
             CASE state.intent = None -> Decision("reask", None)
               [] state.intent \in {"upgrade", "churn", "new_signup"} ->
                    Decision("route_sales", "route_to_sales")
               [] state.intent = "tech_error" -> Decision("create_ticket", "create_ticket")
               [] state.intent = "billing" -> Decision("send_selfservice", "send_selfservice_link")
               [] state.intent = "usage" /\ unsure /\ prioritize ->
                    Decision("escalate", "escalate_to_human")
               [] state.intent \in {"usage", "other"} /\ unsure
                    /\ ~ (state.intent = "usage" /\ prioritize) ->
                    Decision("request_callback", "request_callback")
               [] OTHER -> Decision("answer_from_kb", "get_kb_answer")
           second ==
             CASE Unresolved(state.intent) /\ TriedEnough(state.intentAttempts) ->
                    Decision("request_callback", "request_callback")
               [] OTHER -> third
<1>1. DecideAction(state) =
        CASE state.insuranceAdviceRequested -> Decision("escalate", "escalate_to_human")
          [] OTHER -> second
  BY DEF DecideAction
<1>2. third.action = "reask" => state.intent = None
  <2>1. None \notin {"upgrade", "churn", "new_signup", "tech_error", "billing", "usage", "other"}
    BY NoneAssumption DEF ToSet, INTENTS
  <2> HIDE DEF unsure, prioritize
  <2>2. CASE state.intent = None
    BY <2>2
  <2>3. CASE state.intent \in {"upgrade", "churn", "new_signup"}
    BY <2>1, <2>3 DEF Decision
  <2>4. CASE state.intent = "tech_error"
    BY <2>1, <2>4 DEF Decision
  <2>5. CASE state.intent = "billing"
    BY <2>1, <2>5 DEF Decision
  <2>6. CASE state.intent = "usage"
    BY <2>1, <2>6 DEF Decision
  <2>7. CASE state.intent = "other"
    BY <2>1, <2>7 DEF Decision
  <2>8. CASE state.intent \notin {None, "upgrade", "churn", "new_signup", "tech_error", "billing",
                                  "usage", "other"}
    BY <2>8 DEF Decision
  <2> QED  BY <2>2, <2>3, <2>4, <2>5, <2>6, <2>7, <2>8
<1> HIDE DEF third
<1>3. second.action = "reask" => ~ TriedEnough(state.intentAttempts)
  <2>1. CASE Unresolved(state.intent) /\ TriedEnough(state.intentAttempts)
    BY <2>1 DEF Decision
  <2>2. CASE ~ (Unresolved(state.intent) /\ TriedEnough(state.intentAttempts))
    BY <1>2, <2>2 DEF Unresolved
  <2> QED  BY <2>1, <2>2
<1>4. Unresolved(state.intent) /\ TriedEnough(state.intentAttempts) =>
        second.action = "request_callback"
  BY DEF Decision
<1> HIDE DEF second
<1> QED  BY <1>1, <1>3, <1>4 DEF Decision

LEMMA TalkStep == TalkInv /\ [Next]_vars => TalkInv'
<1> SUFFICES ASSUME TalkInv, [Next]_vars PROVE TalkInv'
  OBVIOUS
<1>1. CASE talk' = talk
  BY <1>1 DEF TalkInv
<1>2. CASE talk # None /\ Turn
  <2>1. PICK said \in SUBSET Words : \E known, insurance, kbLow \in BOOLEAN,
               heard \in SUBSET (Emotions \ {"neutral"}) :
          LET state == StateOf(said, known, heard, insurance, kbLow)
              action == DecideAction(state).action
          IN talk' = [turns |-> talk.turns + 1, last |-> action,
                      asked |-> talk.asked + IF action = "reask" THEN 1 ELSE 0,
                      missed |-> IF Unresolved(state.intent)
                                      /\ action \notin {"request_callback", "escalate"}
                                 THEN talk.missed + 1 ELSE 0]
    BY <1>2 DEF Turn
  <2>2. PICK known \in BOOLEAN, insurance \in BOOLEAN, kbLow \in BOOLEAN,
               heard \in SUBSET (Emotions \ {"neutral"}) :
          LET state == StateOf(said, known, heard, insurance, kbLow)
              action == DecideAction(state).action
          IN talk' = [turns |-> talk.turns + 1, last |-> action,
                      asked |-> talk.asked + IF action = "reask" THEN 1 ELSE 0,
                      missed |-> IF Unresolved(state.intent)
                                      /\ action \notin {"request_callback", "escalate"}
                                 THEN talk.missed + 1 ELSE 0]
    BY <2>1
  <2> DEFINE state == StateOf(said, known, heard, insurance, kbLow)
             action == DecideAction(state).action
  <2>3. state.intentAttempts = talk.turns + 1
    BY DEF StateOf
  <2>4. /\ action = "reask" => ~ TriedEnough(state.intentAttempts)
        /\ Unresolved(state.intent) /\ TriedEnough(state.intentAttempts) =>
             action \in {"request_callback", "escalate"}
    BY AsksInTime
  <2> HIDE DEF state, action
  <2>5. talk' = [turns |-> talk.turns + 1, last |-> action,
                 asked |-> talk.asked + IF action = "reask" THEN 1 ELSE 0,
                 missed |-> IF Unresolved(state.intent)
                                 /\ action \notin {"request_callback", "escalate"}
                            THEN talk.missed + 1 ELSE 0]
    BY <2>2 DEF state, action
  <2>6. talk.turns \in 0 .. MaxTurns /\ talk.turns < MaxTurns /\ MaxTurns \in Nat
        /\ talk.asked \in {0, 1} /\ talk.missed \in {0, 1}
        /\ (talk.turns = 0 => talk.asked = 0 /\ talk.missed = 0)
    BY <1>2, BoundAssumption DEF TalkInv, Turn
  <2>7. talk.turns # 0 => TriedEnough(state.intentAttempts)
    BY <2>3, <2>6 DEF TriedEnough, MAX_INTENT_ATTEMPTS
  <2>8. talk'.turns = talk.turns + 1 /\ talk'.asked \in {0, 1} /\ talk'.missed \in {0, 1}
    BY <2>4, <2>5, <2>6, <2>7
  <2>9. talk'.turns \in 0 .. MaxTurns /\ talk'.turns # 0
    BY <2>6, <2>8
  <2> QED  BY <2>8, <2>9 DEF TalkInv
<1> QED  BY <1>1, <1>2 DEF Next, vars

-----------------------------------------------------------------------------
\* The keywords, and the score, of an intent of BoBi's.
KeywordsFor(intent) == IF intent = "other" THEN << >> ELSE BobiKeywords[intent]
BobiIntents == {"usage", "billing", "tech_error", "upgrade", "churn", "new_signup", "other"}

LEMMA BobiScores ==
  ASSUME NEW said, NEW k \in BobiIntents
  PROVE  /\ KeywordsFor(k) \in Seq(Words) /\ Score(KeywordsFor(k), said) \in Nat
         /\ k = "other" => Score(KeywordsFor(k), said) = 0
         /\ k # "other" => k \in DOMAIN BobiKeywords
<1>1. /\ DOMAIN BobiKeywords = BobiIntents \ {"other"}
      /\ \A i \in BobiIntents \ {"other"} : BobiKeywords[i] \in Seq(Words)
  BY BobiKeywordsAssumption DEF ToSet, INTENTS, BobiIntents
<1>2. KeywordsFor(k) \in Seq(Words)
  BY <1>1, EmptySeq DEF KeywordsFor
<1>3. Score(KeywordsFor(k), said) \in Nat
  BY <1>2, ScoreTyped
<1>4. ASSUME k = "other" PROVE Score(KeywordsFor(k), said) = 0
  <2>1. {n \in DOMAIN KeywordsFor(k) : KeywordsFor(k)[n] \in said} = {}
    BY <1>4 DEF KeywordsFor
  <2> QED  BY <2>1, FS_EmptySet DEF Score
<1> QED  BY <1>1, <1>2, <1>3, <1>4

LEMMA BobiOrders ==
  /\ DOMAIN INTENTS = 1 .. 7 /\ \A n \in 1 .. 7 : INTENTS[n] \in BobiIntents
  /\ \A k \in BobiIntents : \E n \in 1 .. 7 : INTENTS[n] = k
  /\ INTENTS[7] = "other" /\ \A n \in 1 .. 6 : INTENTS[n] # "other"
  /\ \A a, b \in 1 .. 7 : INTENTS[a] = INTENTS[b] => a = b
  /\ DOMAIN TIE_BREAK_ORDER = 1 .. 7 /\ \A n \in 1 .. 7 : TIE_BREAK_ORDER[n] \in BobiIntents
  /\ \A k \in BobiIntents : \E n \in 1 .. 7 : TIE_BREAK_ORDER[n] = k
<1>1. 1 .. 7 = {1, 2, 3, 4, 5, 6, 7} /\ 1 .. 6 = {1, 2, 3, 4, 5, 6}
  OBVIOUS
<1>2. DOMAIN INTENTS = 1 .. 7 /\ DOMAIN TIE_BREAK_ORDER = 1 .. 7
  BY DEF INTENTS, TIE_BREAK_ORDER
<1>3. /\ INTENTS[1] = "usage" /\ INTENTS[2] = "billing" /\ INTENTS[3] = "tech_error"
      /\ INTENTS[4] = "upgrade" /\ INTENTS[5] = "churn" /\ INTENTS[6] = "new_signup"
      /\ INTENTS[7] = "other"
  BY DEF INTENTS
<1>4. /\ TIE_BREAK_ORDER[1] = "churn" /\ TIE_BREAK_ORDER[2] = "upgrade"
      /\ TIE_BREAK_ORDER[3] = "new_signup" /\ TIE_BREAK_ORDER[4] = "tech_error"
      /\ TIE_BREAK_ORDER[5] = "billing" /\ TIE_BREAK_ORDER[6] = "usage"
      /\ TIE_BREAK_ORDER[7] = "other"
  BY DEF TIE_BREAK_ORDER
<1>5. \A n \in 1 .. 7 : INTENTS[n] \in BobiIntents /\ TIE_BREAK_ORDER[n] \in BobiIntents
  BY <1>1, <1>3, <1>4 DEF BobiIntents
<1>6. \A k \in BobiIntents : \E n \in 1 .. 7 : INTENTS[n] = k
  BY <1>1, <1>3 DEF BobiIntents
<1>7. \A k \in BobiIntents : \E n \in 1 .. 7 : TIE_BREAK_ORDER[n] = k
  BY <1>1, <1>4 DEF BobiIntents
<1>8. \A n \in 1 .. 6 : INTENTS[n] # "other"
  BY <1>1, <1>3
<1>9. \A a, b \in 1 .. 7 : INTENTS[a] = INTENTS[b] => a = b
  BY <1>1, <1>3
<1> QED  BY <1>2, <1>3, <1>5, <1>6, <1>7, <1>8, <1>9

\* The key of the class of what was said, by the rules written for BoBi: the intent with
\* the most keywords heard, or "other" when there is none.
LEMMA BobiClass ==
  ASSUME NEW said
  PROVE  LET key == ClassifyBobi(said).key
             score(k) == Score(KeywordsFor(k), said) IN
         /\ key \in BobiIntents
         /\ \/ key = "other" /\ \A k \in BobiIntents : score(k) = 0
            \/ score(key) > 0 /\ \A k \in BobiIntents : score(k) <= score(key)
<1> DEFINE order == [n \in DOMAIN TIE_BREAK_ORDER |->
                       [key |-> TIE_BREAK_ORDER[n], keywords |-> KeywordsFor(TIE_BREAK_ORDER[n])]]
           score(k) == Score(KeywordsFor(k), said)
           best == Best(order, said, "other")
<1>1. ClassifyBobi(said).key = best.key
  BY DEF ClassifyBobi, Classified, KeywordsFor
<1>2. order \in Seq([key : BobiIntents, keywords : Seq(Words)]) /\ Len(order) = 7
      /\ \A n \in 1 .. 7 : order[n].key = TIE_BREAK_ORDER[n]
                           /\ order[n].keywords = KeywordsFor(TIE_BREAK_ORDER[n])
  <2>1. \A n \in 1 .. 7 : TIE_BREAK_ORDER[n] \in BobiIntents
                          /\ KeywordsFor(TIE_BREAK_ORDER[n]) \in Seq(Words)
    BY BobiOrders, BobiScores
  <2>2. order = [n \in 1 .. 7 |-> [key |-> TIE_BREAK_ORDER[n], keywords |-> KeywordsFor(TIE_BREAK_ORDER[n])]]
    BY BobiOrders
  <2> DEFINE D == [key : BobiIntents, keywords : Seq(Words)]
  <2>3. order \in [1 .. 7 -> D]
    BY <2>1, <2>2
  <2>4. \A n \in 1 .. 7 : order[n].key = TIE_BREAK_ORDER[n]
                           /\ order[n].keywords = KeywordsFor(TIE_BREAK_ORDER[n])
    BY <2>2
  <2> HIDE DEF order, D
  <2>5. PICK seven \in Nat : seven = 7
    OBVIOUS
  <2>7. order \in [1 .. seven -> D]
    BY <2>3, <2>5
  <2>6. order \in Seq(D) /\ Len(order) = seven
    BY <2>7
  <2> QED  BY <2>4, <2>5, <2>6 DEF D
<1> HIDE DEF order
<1>3. \A n \in 1 .. 7 : Score(order[n].keywords, said) = score(TIE_BREAK_ORDER[n])
                        /\ score(TIE_BREAK_ORDER[n]) \in Nat
  BY <1>2, BobiOrders, BobiScores
<1>4. IsBestOf(best, 7, order, said, "other")
  <2>1. Len(order) \in Nat /\ Len(order) = 7
    BY <1>2
  <2> HIDE DEF score
  <2>2. \A n \in 1 .. Len(order) : Score(order[n].keywords, said) \in Nat
    BY <1>3, <2>1
  <2>3. IsBestOf(best, Len(order), order, said, "other")
    BY <2>1, <2>2, BestIsFirst
  <2> QED  BY <2>1, <2>3
<1> HIDE DEF best, score
<1>5. CASE /\ best = [key |-> "other", score |-> 0]
           /\ \A m \in 1 .. 7 : Score(order[m].keywords, said) = 0
  <2>1. \A k \in BobiIntents : score(k) = 0
    <3> SUFFICES ASSUME NEW k \in BobiIntents PROVE score(k) = 0
      OBVIOUS
    <3>1. PICK n \in 1 .. 7 : TIE_BREAK_ORDER[n] = k
      BY BobiOrders
    <3> QED  BY <1>3, <1>5, <3>1
  <2> QED  BY <1>1, <1>5, <2>1 DEF BobiIntents, score
<1>6. CASE \E n \in 1 .. 7 :
             /\ best = [key |-> order[n].key, score |-> Score(order[n].keywords, said)]
             /\ Score(order[n].keywords, said) > 0
             /\ \A m \in 1 .. 7 : Score(order[m].keywords, said) <= Score(order[n].keywords, said)
  <2>1. PICK n \in 1 .. 7 :
             /\ best = [key |-> order[n].key, score |-> Score(order[n].keywords, said)]
             /\ Score(order[n].keywords, said) > 0
             /\ \A m \in 1 .. 7 : Score(order[m].keywords, said) <= Score(order[n].keywords, said)
    BY <1>6
  <2>2. best.key = TIE_BREAK_ORDER[n] /\ score(best.key) > 0
    BY <1>2, <1>3, <2>1
  <2>3. \A k \in BobiIntents : score(k) <= score(best.key)
    <3> SUFFICES ASSUME NEW k \in BobiIntents PROVE score(k) <= score(best.key)
      OBVIOUS
    <3>1. PICK m \in 1 .. 7 : TIE_BREAK_ORDER[m] = k
      BY BobiOrders
    <3>2. Score(order[m].keywords, said) <= Score(order[n].keywords, said)
      BY <2>1, <3>1
    <3> QED  BY <1>3, <2>2, <3>1, <3>2
  <2>4. best.key \in BobiIntents
    BY <2>2, BobiOrders
  <2> QED  BY <1>1, <2>2, <2>3, <2>4 DEF score
<1> QED  BY <1>4, <1>5, <1>6 DEF IsBestOf

\* BoBi's own catalogue.
LEMMA BobiCatalogue ==
  LET cat == BOBI_DEFAULT_TENANT_INTENTS IN
  /\ \E D : cat \in Seq(D)
  /\ IsCatalogue(cat) /\ Enabled(cat) = 1 .. 7 /\ DOMAIN cat = 1 .. 7
  /\ \A n \in 1 .. 7 : /\ cat[n].key = INTENTS[n] /\ cat[n].keywords = KeywordsFor(INTENTS[n])
                       /\ cat[n].sortOrder = n - 1 /\ cat[n].enabled = TRUE
                       /\ cat[n].routingToolName = BOBI_ROUTING_TOOL(INTENTS[n])
<1> DEFINE cat == BOBI_DEFAULT_TENANT_INTENTS
           row(n) == [key |-> INTENTS[n], keywords |-> KeywordsFor(INTENTS[n]),
                      routingToolName |-> BOBI_ROUTING_TOOL(INTENTS[n]),
                      sortOrder |-> n - 1, enabled |-> TRUE]
           D == {row(n) : n \in 1 .. 7}
<1>1. cat = [n \in 1 .. 7 |-> row(n)]
  BY BobiOrders DEF BOBI_DEFAULT_TENANT_INTENTS, KeywordsFor
<1>2. \A n \in 1 .. 7 : /\ cat[n].key = INTENTS[n] /\ cat[n].keywords = KeywordsFor(INTENTS[n])
                        /\ cat[n].sortOrder = n - 1 /\ cat[n].enabled = TRUE
                        /\ cat[n].routingToolName = BOBI_ROUTING_TOOL(INTENTS[n])
  BY <1>1
<1>3. cat \in [1 .. 7 -> D]
  BY <1>1
<1> HIDE DEF cat, D
<1>4. cat \in Seq(D) /\ Len(cat) = 7 /\ DOMAIN cat = 1 .. 7
  <2>1. PICK seven \in Nat : seven = 7
    OBVIOUS
  <2>2. cat \in [1 .. seven -> D]
    BY <1>3, <2>1
  <2>3. cat \in Seq(D) /\ Len(cat) = seven /\ DOMAIN cat = 1 .. seven
    BY <2>2
  <2> QED  BY <2>1, <2>3
<1>5. \A n \in 1 .. 7 : KeywordsFor(INTENTS[n]) \in Seq(Words)
  BY BobiOrders, BobiScores
<1>6. IsCatalogue(cat)
  <2>1. \A n \in 1 .. 7 : cat[n].keywords \in Seq(Words)
    BY <1>2, <1>5
  <2>2. \A n \in 1 .. 7 : cat[n].sortOrder \in Int
    <3>1. \A n \in 1 .. 7 : n - 1 \in Int
      OBVIOUS
    <3> QED  BY <1>2, <3>1
  <2>3. Len(cat) \in Nat /\ DOMAIN cat = 1 .. Len(cat)
    BY <1>4
  <2> QED  BY <1>4, <2>1, <2>2, <2>3 DEF IsCatalogue
<1>7. Enabled(cat) = 1 .. 7
  BY <1>2, <1>4 DEF Enabled
<1> QED  BY <1>2, <1>4, <1>6, <1>7 DEF cat

\* Where no two intents tie, both rules put what was said in the same class.
LEMMA SameClass ==
  ASSUME NEW said, ~ Tied(said)
  PROVE  /\ ClassifyBobi(said).key \in BobiIntents
         /\ ClassifyWithCatalog(BOBI_DEFAULT_TENANT_INTENTS, said).key = ClassifyBobi(said).key
<1> DEFINE cat == BOBI_DEFAULT_TENANT_INTENTS
           key == ClassifyBobi(said).key
           class == ClassifyWithCatalog(cat, said).key
           score(k) == Score(KeywordsFor(k), said)
<1>1. /\ IsCatalogue(cat) /\ Enabled(cat) = 1 .. 7 /\ DOMAIN cat = 1 .. 7
      /\ \A n \in 1 .. 7 : /\ cat[n].key = INTENTS[n] /\ cat[n].keywords = KeywordsFor(INTENTS[n])
                           /\ cat[n].sortOrder = n - 1
  BY BobiCatalogue
<1>2. IsClassOf(cat, said, class)
  <2>1. PICK D : cat \in Seq(D)
    BY BobiCatalogue
  <2> QED  BY <1>1, <2>1, CatalogueClass
<1>3. /\ key \in BobiIntents
      /\ \/ key = "other" /\ \A k \in BobiIntents : score(k) = 0
         \/ score(key) > 0 /\ \A k \in BobiIntents : score(k) <= score(key)
  BY BobiClass
<1>4. \A k \in BobiIntents : score(k) \in Nat /\ (k = "other" => score(k) = 0)
  BY BobiScores
<1>5. \A a, b \in BobiIntents : a # b /\ score(a) > 0 => score(a) # score(b)
  <2> SUFFICES ASSUME NEW a \in BobiIntents, NEW b \in BobiIntents, a # b, score(a) > 0,
                      score(a) = score(b)
               PROVE  FALSE
    OBVIOUS
  <2>1. a # "other" /\ b # "other"
    BY <1>4
  <2>2. a \in DOMAIN BobiKeywords /\ b \in DOMAIN BobiKeywords
    BY <2>1, BobiScores
  <2>3. Score(BobiKeywords[a], said) = Score(BobiKeywords[b], said) /\ Score(BobiKeywords[a], said) > 0
    BY <2>1 DEF KeywordsFor
  <2> QED  BY <2>2, <2>3 DEF Tied
<1> HIDE DEF cat, key, class
<1>6. PICK n \in 1 .. 7 :
        /\ class = INTENTS[n]
        /\ \A m \in (1 .. 7) \ {n} :
             \/ score(INTENTS[m]) < score(INTENTS[n])
             \/ /\ score(INTENTS[m]) = score(INTENTS[n]) /\ score(INTENTS[n]) > 0
             \/ /\ score(INTENTS[m]) = 0 /\ score(INTENTS[n]) = 0 /\ SortsBefore(cat, m, n)
  <2>1. (1 .. 7) # {}
    OBVIOUS
  <2> QED  BY <1>1, <1>2, <2>1 DEF IsClassOf
<1> HIDE DEF score
<1>7. INTENTS[n] \in BobiIntents
  BY BobiOrders
<1>8. CASE key = "other" /\ \A k \in BobiIntents : score(k) = 0
  <2>1. n = 7
    <3> SUFFICES ASSUME n # 7 PROVE FALSE
      OBVIOUS
    <3>1. score(INTENTS[7]) = 0 /\ score(INTENTS[n]) = 0
      BY <1>7, <1>8, BobiOrders
    <3>2. SortsBefore(cat, 7, n)
      BY <1>6, <3>1
    <3> QED  BY <1>1, <3>2 DEF SortsBefore
  <2> QED  BY <1>6, <1>8, <2>1, BobiOrders DEF cat, class, key
<1>9. CASE score(key) > 0 /\ \A k \in BobiIntents : score(k) <= score(key)
  <2>1. PICK m \in 1 .. 7 : INTENTS[m] = key
    BY <1>3, BobiOrders
  <2>2. n = m
    <3> SUFFICES ASSUME n # m PROVE FALSE
      OBVIOUS
    <3>1. key # INTENTS[n]
      BY <2>1, BobiOrders
    <3>2. score(INTENTS[n]) <= score(key) /\ score(INTENTS[n]) # score(key)
      BY <1>3, <1>5, <1>7, <1>9, <3>1
    <3>3. score(INTENTS[n]) \in Nat /\ score(key) \in Nat
      BY <1>3, <1>4, <1>7
    <3> QED  BY <1>6, <1>9, <2>1, <3>2, <3>3
  <2> QED  BY <1>3, <1>6, <2>1, <2>2 DEF cat, class, key
<1> QED  BY <1>3, <1>8, <1>9 DEF cat, class, key

\* The tool of an intent of BoBi's that is known and of one that is not.
ToolFor(intent, tried) ==
  IF intent = None THEN IF tried THEN "request_callback" ELSE None
  ELSE IF intent \in {"usage", "other"} THEN "get_kb_answer"
  ELSE IF intent = "billing" THEN "send_selfservice_link"
  ELSE IF intent = "tech_error" THEN "create_ticket"
  ELSE "route_to_sales"

LEMMA BobiIsNamed == None \notin BobiIntents
BY NoneAssumption DEF ToSet, INTENTS, BobiIntents

LEMMA OldTool ==
  ASSUME NEW state, state.intent \in BobiIntents \cup {None},
         ~ state.insuranceAdviceRequested, ~ state.kbLowConfidence,
         ~ (state.confidence # None /\ state.confidence < KB_CONFIDENCE_THRESHOLD),
         state.intent = "other" => ~ TriedEnough(state.intentAttempts)
  PROVE  DecideAction(state).tool = ToolFor(state.intent, TriedEnough(state.intentAttempts))
<1> DEFINE unsure == \/ state.kbLowConfidence
                     \/ state.confidence # None /\ state.confidence < KB_CONFIDENCE_THRESHOLD
           prioritize == state.emotion \in {"angry", "urgent"}
           third ==
             CASE state.intent = None -> Decision("reask", None)
               [] state.intent \in {"upgrade", "churn", "new_signup"} ->
                    Decision("route_sales", "route_to_sales")
               [] state.intent = "tech_error" -> Decision("create_ticket", "create_ticket")
               [] state.intent = "billing" -> Decision("send_selfservice", "send_selfservice_link")
               [] state.intent = "usage" /\ unsure /\ prioritize ->
                    Decision("escalate", "escalate_to_human")
               [] state.intent \in {"usage", "other"} /\ unsure
                    /\ ~ (state.intent = "usage" /\ prioritize) ->
                    Decision("request_callback", "request_callback")
               [] OTHER -> Decision("answer_from_kb", "get_kb_answer")
           second ==
             CASE Unresolved(state.intent) /\ TriedEnough(state.intentAttempts) ->
                    Decision("request_callback", "request_callback")
               [] OTHER -> third
<1>1. DecideAction(state) =
        CASE state.insuranceAdviceRequested -> Decision("escalate", "escalate_to_human")
          [] OTHER -> second
  BY DEF DecideAction
<1>2. ~ unsure
  OBVIOUS
<1>3. third.tool = ToolFor(state.intent, FALSE)
  <2> HIDE DEF unsure, prioritize
  <2>1. None \notin BobiIntents
    BY BobiIsNamed
  <2>2. CASE state.intent = None
    BY <1>2, <2>1, <2>2 DEF BobiIntents, Decision, ToolFor
  <2>3. CASE state.intent = "usage"
    BY <1>2, <2>1, <2>3 DEF BobiIntents, Decision, ToolFor
  <2>4. CASE state.intent = "other"
    BY <1>2, <2>1, <2>4 DEF BobiIntents, Decision, ToolFor
  <2>5. CASE state.intent = "billing"
    BY <1>2, <2>1, <2>5 DEF BobiIntents, Decision, ToolFor
  <2>6. CASE state.intent = "tech_error"
    BY <1>2, <2>1, <2>6 DEF BobiIntents, Decision, ToolFor
  <2>7. CASE state.intent \in {"upgrade", "churn", "new_signup"}
    BY <1>2, <2>1, <2>7 DEF BobiIntents, Decision, ToolFor
  <2> QED  BY <2>2, <2>3, <2>4, <2>5, <2>6, <2>7 DEF BobiIntents
<1> HIDE DEF third
<1>4. second.tool = ToolFor(state.intent, TriedEnough(state.intentAttempts))
  <2>1. CASE Unresolved(state.intent) /\ TriedEnough(state.intentAttempts)
    <3>1. state.intent = None
      BY <2>1 DEF Unresolved
    <3> QED  BY <2>1, <3>1 DEF Decision, ToolFor
  <2>2. CASE ~ (Unresolved(state.intent) /\ TriedEnough(state.intentAttempts))
    <3>1. second = third
      BY <2>2
    <3> QED  BY <1>3, <2>2, <3>1 DEF Unresolved, ToolFor
  <2> QED  BY <2>1, <2>2
<1> HIDE DEF second
<1> QED  BY <1>1, <1>4

LEMMA NewTool ==
  ASSUME NEW key \in BobiIntents \cup {None}, NEW attempts \in Nat
  PROVE  DecideGenericAction(key, attempts, BOBI_DEFAULT_TENANT_INTENTS,
                             BOBI_DEFAULT_AGENT_CONFIG).tool = ToolFor(key, TriedEnough(attempts))
<1> DEFINE cat == BOBI_DEFAULT_TENANT_INTENTS
           config == BOBI_DEFAULT_AGENT_CONFIG
           found == FindIntent(key, cat)
           routed == {cat[n].routingToolName : n \in found} \ {None}
<1>1. config.maxIntentAttempts = 2 /\ config.intentUnresolvedFallbackTool = "request_callback"
  BY DEF BOBI_DEFAULT_AGENT_CONFIG
<1>2. /\ DOMAIN cat = 1 .. 7
      /\ \A n \in 1 .. 7 : /\ cat[n].key = INTENTS[n] /\ cat[n].enabled = TRUE
                           /\ cat[n].routingToolName = BOBI_ROUTING_TOOL(INTENTS[n])
  BY BobiCatalogue
<1>3. DecideGenericAction(key, attempts, cat, config) =
        CASE found = {} /\ (key # None \/ attempts >= config.maxIntentAttempts) ->
               Decision("unresolved_fallback", config.intentUnresolvedFallbackTool)
          [] found = {} /\ key = None /\ attempts < config.maxIntentAttempts ->
               Decision("reask", None)
          [] found # {} /\ routed # {} ->
               Decision("route_to_intent_tool", CHOOSE tool \in routed : TRUE)
          [] OTHER -> Decision("answer_from_kb", "get_kb_answer")
  BY DEF DecideGenericAction
<1> HIDE DEF cat, config
<1>4. TriedEnough(attempts) <=> attempts >= config.maxIntentAttempts
  BY <1>1 DEF TriedEnough, MAX_INTENT_ATTEMPTS
<1>5. CASE key = None
  <2>1. found = {}
    BY <1>2, <1>5, BobiOrders, BobiIsNamed DEF FindIntent
  <2> HIDE DEF found
  <2>2. CASE attempts >= config.maxIntentAttempts
    BY <1>1, <1>3, <1>4, <1>5, <2>1, <2>2 DEF Decision, ToolFor, cat, config
  <2>3. CASE ~ (attempts >= config.maxIntentAttempts)
    <3>1. attempts < config.maxIntentAttempts
      BY <1>1, <2>3
    <3> QED  BY <1>1, <1>3, <1>4, <1>5, <2>1, <2>3, <3>1 DEF Decision, ToolFor, cat, config
  <2> QED  BY <2>2, <2>3
<1>6. CASE key \in BobiIntents
  <2>1. PICK n \in 1 .. 7 : INTENTS[n] = key
    BY <1>6, BobiOrders
  <2>2. found = {n}
    BY <1>2, <2>1, BobiOrders DEF FindIntent
  <2>3. key # None
    BY <1>6, BobiIsNamed
  <2> HIDE DEF found
  <2>4. routed = {BOBI_ROUTING_TOOL(key)} \ {None}
    BY <1>2, <2>1, <2>2
  <2>5. None \notin SystemTools
    BY NoneAssumption
  <2> HIDE DEF routed
  <2>6. CASE key = "other"
    <3>1. BOBI_ROUTING_TOOL(key) = None
      BY <2>6 DEF BOBI_ROUTING_TOOL
    <3>2. routed = {}
      BY <2>4, <3>1
    <3> QED  BY <1>3, <2>2, <2>3, <2>6, <3>2 DEF Decision, ToolFor, cat, config
  <2>7. CASE key # "other"
    <3>1. BOBI_ROUTING_TOOL(key) = ToolFor(key, TriedEnough(attempts))
      BY <1>6, <2>3, <2>7 DEF BOBI_ROUTING_TOOL, ToolFor, BobiIntents
    <3>2. ToolFor(key, TriedEnough(attempts)) \in SystemTools
      BY <2>3 DEF ToolFor, SystemTools
    <3>3. routed = {ToolFor(key, TriedEnough(attempts))}
      BY <2>4, <2>5, <3>1, <3>2
    <3>4. (CHOOSE tool \in routed : TRUE) = ToolFor(key, TriedEnough(attempts))
      BY <3>3
    <3> QED  BY <1>3, <2>2, <2>3, <3>3, <3>4 DEF Decision, cat, config
  <2> QED  BY <2>6, <2>7
<1> QED  BY <1>5, <1>6

LEMMA RulesAgree == TalkInv => NewRulesAgree
<1> SUFFICES ASSUME TalkInv, talk # None, NEW said \in SUBSET Words, NEW known \in BOOLEAN
             PROVE  LET state == StateOf(said, known, {}, FALSE, FALSE)
                        class == ClassifyWithCatalog(BOBI_DEFAULT_TENANT_INTENTS, said)
                    IN \/ Tied(said)
                       \/ known /\ state.confidence < KB_CONFIDENCE_THRESHOLD
                       \/ state.intent = "other" /\ state.intentAttempts >= MAX_INTENT_ATTEMPTS
                       \/ DecideGenericAction(IF known THEN class.key ELSE None, state.intentAttempts,
                                BOBI_DEFAULT_TENANT_INTENTS, BOBI_DEFAULT_AGENT_CONFIG).tool
                            = DecideAction(state).tool
  BY DEF NewRulesAgree
<1> DEFINE state == StateOf(said, known, {}, FALSE, FALSE)
           class == ClassifyWithCatalog(BOBI_DEFAULT_TENANT_INTENTS, said)
           intent == IF known THEN class.key ELSE None
<1>1. SUFFICES ASSUME ~ Tied(said),
                      ~ (known /\ state.confidence < KB_CONFIDENCE_THRESHOLD),
                      ~ (state.intent = "other" /\ state.intentAttempts >= MAX_INTENT_ATTEMPTS)
               PROVE  DecideGenericAction(intent, state.intentAttempts,
                                BOBI_DEFAULT_TENANT_INTENTS, BOBI_DEFAULT_AGENT_CONFIG).tool
                            = DecideAction(state).tool
  OBVIOUS
<1>2. /\ state.intent = IF known THEN ClassifyBobi(said).key ELSE None
      /\ ~ known => state.confidence = None
      /\ state.intentAttempts = talk.turns + 1
      /\ ~ state.kbLowConfidence /\ ~ state.insuranceAdviceRequested
  BY DEF StateOf
<1>3. /\ ClassifyBobi(said).key \in BobiIntents /\ class.key = ClassifyBobi(said).key
  BY <1>1, SameClass
<1> HIDE DEF state, class
<1>4. state.intentAttempts \in Nat
  BY <1>2, BoundAssumption DEF TalkInv
<1>5. state.intent = intent /\ intent \in BobiIntents \cup {None}
  BY <1>2, <1>3
<1>6. state.intent = "other" => ~ TriedEnough(state.intentAttempts)
  BY <1>1 DEF TriedEnough
<1>7. ~ (state.confidence # None /\ state.confidence < KB_CONFIDENCE_THRESHOLD)
  BY <1>1, <1>2
<1> HIDE DEF intent
<1>8. DecideAction(state).tool = ToolFor(state.intent, TriedEnough(state.intentAttempts))
  BY <1>2, <1>5, <1>6, <1>7, OldTool
<1>9. DecideGenericAction(intent, state.intentAttempts, BOBI_DEFAULT_TENANT_INTENTS,
                          BOBI_DEFAULT_AGENT_CONFIG).tool
        = ToolFor(intent, TriedEnough(state.intentAttempts))
  BY <1>4, <1>5, NewTool
<1> QED  BY <1>5, <1>8, <1>9

(***************************************************************************)
(* Whatever catalogue a call reads, its intents are classified as the      *)
(* definition of a class says, ties and fallback included; on BoBi's own   *)
(* catalogue the rules every tenant gets choose what BoBi's chose, but for *)
(* the exceptions named; and no conversation goes round in circles         *)
(* (classify-intent.ts:146-230, decide-generic-action.ts:55-113,           *)
(* decide-action.ts:135-158).                                              *)
(***************************************************************************)
THEOREM TheDialogueKeepsItsRules == Spec => []DialogueKeepsItsRules
<1> DEFINE Inv == StudioInv /\ TalkInv
<1>1. Init => Inv
  <2>1. Init => TalkInv
    BY BoundAssumption DEF Init, TalkInv, NoTalk
  <2> QED  BY <2>1, TypedInit, NumberedInit, NamedInit DEF StudioInv
<1>2. Inv /\ [Next]_vars => Inv'
  BY TypedStep, NumberedStep, NamedStep, TalkStep DEF StudioInv
<1>3. Inv => DialogueKeepsItsRules
  <2> SUFFICES ASSUME Inv PROVE DialogueKeepsItsRules
    OBVIOUS
  <2>1. TypeOK
    <3>1. \A c \in Collections : \A id \in Ids[c] :
            db[c][id] \in Rows[c] \cup Missing /\ lists[c][id] \in Rows[c] \cup Missing
      BY EntryTyped DEF StudioInv, Typed
    <3>2. page \in Collections /\ changes \in 0 .. MaxChanges /\ gone \subseteq ToolNames
      BY DEF StudioInv, Typed
    <3>3. form # None => /\ form.id \in Ids[page] \cup {None}
                         /\ form.draft \in Rows[page]
                         /\ form.basis \in Rows[page] \cup {None}
      BY DEF StudioInv, Typed, FormFits
    <3>4. \A r \in reqs : /\ r.coll \in Collections /\ r.op \in {"create", "update", "delete"}
                          /\ r.stage \in {"sent", "found", "ok", "failed"}
      BY DEF StudioInv, Typed, RequestFits, Requests, Operations, Stages
    <3>5. talk # None => talk.turns \in 0 .. MaxTurns
      BY DEF TalkInv
    <3> QED  BY <3>1, <3>2, <3>3, <3>4, <3>5 DEF TypeOK
  <2>2. CatalogueClassified
    BY DefinitionsClassified DEF CatalogueClassified, StudioInv, Typed
  <2>3. NoEndlessReask
    BY DEF NoEndlessReask, TalkInv, MAX_INTENT_ATTEMPTS
  <2> QED  BY <2>1, <2>2, <2>3, RulesAgree DEF DialogueKeepsItsRules
<1> QED  BY <1>1, <1>2, <1>3, PTL DEF Spec

-----------------------------------------------------------------------------
(* The application of an industry template.                                *)

USE DEF P!Empty, P!Own

LEMMA TemplateInit == P!Init => P!IInv
<1> SUFFICES ASSUME P!Init PROVE P!IInv
    OBVIOUS
<1> USE PackAssumption DEF P!PacksAssumption, P!Init
<1>1. P!TypeOK
    <2>1. P!NoConfig \in P!Config /\ [P!NoConfig EXCEPT !.exists = TRUE] \in P!Config
        BY DEF P!NoConfig, P!Config, P!Values
    <2>2. (CHOOSE p \in Packs : TRUE) \in Packs
        OBVIOUS
    <2> HIDE DEF P!NoConfig
    <2> QED
        BY <2>1, <2>2 DEF P!TypeOK
<1>2. \A a \in Applies : at[a] = "idle"
    OBVIOUS
<1> QED
    BY <1>1, <1>2 DEF P!IInv, P!Current, P!ConfigCurrent, P!ConfigWritten, P!IntentsCurrent,
       P!KbCurrent, P!HasRead, P!InFlight

\* What the merge of a pack into a configuration leaves: every fillable field
\* filled, every rule there, nothing that was there gone.
LEMMA Merge ==
  ASSUME NEW c \in P!Config, NEW p \in Packs
  PROVE  /\ P!NextConfig(c, p) \in P!Config
         /\ P!NextConfig(c, p).exists
         /\ \A f \in Fillable : P!NextConfig(c, p).fields[f] # P!Empty
         /\ \A f \in Fields : c.fields[f] # P!Empty => P!NextConfig(c, p).fields[f] = c.fields[f]
         /\ c.rules \cup PackRules[p] \subseteq P!NextConfig(c, p).rules
<1> USE PackAssumption DEF P!PacksAssumption
<1>1. P!Filled(c.fields, p) \in [Fields -> P!Values]
    BY DEF P!Filled, P!Config, P!Values
<1>2. \A f \in Fields : P!Filled(c.fields, p)[f]
        = IF f \in Fillable /\ c.fields[f] = P!Empty THEN p ELSE c.fields[f]
    BY DEF P!Filled
<1>3. c.rules \cup PackRules[p] \in SUBSET Rules
    BY DEF P!Config
<1> QED
    BY <1>1, <1>2, <1>3 DEF P!NextConfig, P!Config

-----------------------------------------------------------------------------
(* Types.                                                                      *)

LEMMA ApplyTyped == ASSUME P!TypeOK, NEW a \in Applies, P!Apply(a), disturbed' \subseteq Applies
                    PROVE  P!TypeOK'
<1> USE PackAssumption DEF P!PacksAssumption, P!TypeOK, P!tenant, P!plan
<1>1. CASE P!Begin(a)
    BY <1>1 DEF P!Begin, P!Reads
<1>2. CASE P!ReadConfig(a) \/ P!ReadIntents(a) \/ P!ReadKb(a)
    BY <1>2 DEF P!ReadConfig, P!ReadIntents, P!ReadKb, P!Answered
<1>3. CASE P!WriteConfig(a)
    <2>1. readConfig[a] \in P!Config /\ pack[a] \in Packs
        OBVIOUS
    <2>2. P!NextConfig(readConfig[a], pack[a]) \in P!Config
        BY <2>1, Merge
    <2>3. agentConfig' \in P!Config
        BY <1>3, <2>2 DEF P!WriteConfig
    <2>4. P!NoConfig \in P!Config
        BY DEF P!NoConfig, P!Config, P!Values
    <2> QED
        BY <1>3, <2>3, <2>4 DEF P!WriteConfig
<1>4. ASSUME NEW k \in Intents, P!CreateIntent(a, k) PROVE P!TypeOK'
    BY <1>4 DEF P!CreateIntent
<1>5. ASSUME NEW q \in Questions, P!CreateKb(a, q) PROVE P!TypeOK'
    BY <1>5 DEF P!CreateKb
<1>6. CASE P!Over(a)
    <2>1. P!NoConfig \in P!Config
        BY DEF P!NoConfig, P!Config, P!Values
    <2> QED
        BY <1>6, <2>1 DEF P!Over
<1> QED
    BY <1>1, <1>2, <1>3, <1>4, <1>5, <1>6 DEF P!Apply, P!Finish, P!Fail, P!KeyTaken

LEMMA EditTyped == ASSUME P!TypeOK, P!Edit, disturbed' \subseteq Applies PROVE P!TypeOK'
<1>1. UNCHANGED <<at, pack, toRead, P!plan>>
    BY DEF P!Edit, P!PutAgentConfig, P!PostIntent, P!DeleteIntent, P!PostKb, P!DeleteKb, P!Aside
<1>2. agentConfig' \in P!Config
    <2>1. CASE P!PutAgentConfig
        <3>1. agentConfig \in P!Config
            BY DEF P!TypeOK
        <3>2. ASSUME NEW f \in Fields, NEW v \in {P!Empty, P!Own},
                     agentConfig' = [agentConfig EXCEPT !.exists = TRUE,
                                                        !.fields = [@ EXCEPT ![f] = v]]
              PROVE  agentConfig' \in P!Config
            <4>1. [agentConfig.fields EXCEPT ![f] = v] \in [Fields -> P!Values]
                BY <3>1 DEF P!Config, P!Values
            <4> QED
                BY <3>1, <3>2, <4>1 DEF P!Config
        <3>3. ASSUME NEW r \in Rules, NEW rs \in SUBSET Rules,
                     agentConfig' = [agentConfig EXCEPT !.exists = TRUE, !.rules = rs]
              PROVE  agentConfig' \in P!Config
            BY <3>1, <3>3 DEF P!Config
        <3>4. \A r \in Rules : /\ agentConfig.rules \cup {r} \in SUBSET Rules
                              /\ agentConfig.rules \ {r} \in SUBSET Rules
            BY <3>1 DEF P!Config
        <3> QED
            BY <2>1, <3>2, <3>3, <3>4 DEF P!PutAgentConfig
    <2>2. CASE P!PostIntent \/ P!DeleteIntent \/ P!PostKb \/ P!DeleteKb
        BY <2>2 DEF P!PostIntent, P!DeleteIntent, P!PostKb, P!DeleteKb, P!TypeOK
    <2> QED
        BY <2>1, <2>2 DEF P!Edit
<1>3. intents' \subseteq Intents /\ kb' \in [Questions -> Nat]
    <2>1. intents \subseteq Intents /\ kb \in [Questions -> Nat]
        BY DEF P!TypeOK
    <2>2. CASE P!PutAgentConfig \/ P!PostIntent \/ P!DeleteIntent
        BY <2>1, <2>2 DEF P!PutAgentConfig, P!PostIntent, P!DeleteIntent
    <2>3. CASE P!PostKb
        BY <2>1, <2>3 DEF P!PostKb
    <2>4. CASE P!DeleteKb
        BY <2>1, <2>4 DEF P!DeleteKb
    <2> QED
        BY <2>2, <2>3, <2>4 DEF P!Edit
<1> QED
    BY <1>1, <1>2, <1>3 DEF P!TypeOK, P!plan

-----------------------------------------------------------------------------
(* The plan of an application stays current.                                   *)

\* An undisturbed application keeps its plan current through its own steps.
LEMMA OwnStep == ASSUME P!IInv, NEW a \in Applies \ disturbed, P!Apply(a) PROVE P!Current(a)'
<1> USE PackAssumption DEF P!PacksAssumption, P!InFlight, P!HasRead
<1>1. P!TypeOK /\ P!Current(a)
    BY DEF P!IInv
<1>2. CASE P!Begin(a)
    BY <1>1, <1>2 DEF P!Begin, P!Reads, P!TypeOK, P!Current, P!ConfigCurrent, P!ConfigWritten,
       P!IntentsCurrent, P!KbCurrent
<1>3. CASE P!ReadConfig(a)
    <2>1. /\ at[a] = "reading" /\ readConfig'[a] = agentConfig
          /\ toRead'[a] = toRead[a] \ {"config"}
          /\ UNCHANGED <<P!tenant, at, pack, todoIntents, todoKb>>
        BY <1>1, <1>3 DEF P!ReadConfig, P!Answered, P!TypeOK
    <2> QED
        BY <1>1, <2>1 DEF P!Current, P!ConfigCurrent, P!ConfigWritten, P!IntentsCurrent, P!KbCurrent, P!tenant
<1>4. CASE P!ReadIntents(a)
    <2>1. /\ at[a] = "reading" /\ todoIntents'[a] = PackIntents[pack[a]] \ intents
          /\ toRead'[a] = toRead[a] \ {"intents"}
          /\ UNCHANGED <<P!tenant, at, pack, readConfig, todoKb>>
        BY <1>1, <1>4 DEF P!ReadIntents, P!Answered, P!TypeOK
    <2> QED
        BY <1>1, <2>1 DEF P!Current, P!ConfigCurrent, P!ConfigWritten, P!IntentsCurrent, P!KbCurrent, P!tenant
<1>5. CASE P!ReadKb(a)
    <2>1. /\ at[a] = "reading" /\ todoKb'[a] = {q \in PackQuestions[pack[a]] : kb[q] = 0}
          /\ toRead'[a] = toRead[a] \ {"kb"}
          /\ UNCHANGED <<P!tenant, at, pack, readConfig, todoIntents>>
        BY <1>1, <1>5 DEF P!ReadKb, P!Answered, P!TypeOK
    <2>2. \A q \in PackQuestions[pack[a]] : kb[q] \in Nat
        BY <1>1 DEF P!TypeOK
    <2>3. P!KbCurrent(a)'
        BY <2>1, <2>2 DEF P!KbCurrent, P!tenant
    <2> QED
        BY <1>1, <2>1, <2>3 DEF P!Current, P!ConfigCurrent, P!ConfigWritten, P!IntentsCurrent, P!tenant
<1>6. CASE P!WriteConfig(a)
    <2> DEFINE next == P!NextConfig(readConfig[a], pack[a])
    <2>1. /\ at[a] = "reading" /\ at'[a] = "writing" /\ toRead[a] = {}
          /\ UNCHANGED <<intents, kb, pack, toRead, todoIntents, todoKb>>
        BY <1>1, <1>6 DEF P!WriteConfig, P!TypeOK
    <2>2. readConfig[a] \in P!Config /\ pack[a] \in Packs
        BY <1>1 DEF P!TypeOK
    <2>3. agentConfig' = next
        BY <1>1, <1>6, <2>1 DEF P!WriteConfig, P!Current, P!ConfigCurrent
    <2>4. /\ next.exists /\ PackRules[pack[a]] \subseteq next.rules
          /\ \A f \in Fillable : next.fields[f] # P!Empty
        BY <2>2, Merge
    <2> HIDE DEF next
    <2>5. P!ConfigCurrent(a)' /\ P!ConfigWritten(a)'
        BY <2>1, <2>3, <2>4 DEF P!ConfigCurrent, P!ConfigWritten
    <2> QED
        BY <1>1, <2>1, <2>5 DEF P!Current, P!IntentsCurrent, P!KbCurrent
<1>7. ASSUME NEW k \in Intents, P!CreateIntent(a, k) PROVE P!Current(a)'
    <2>1. /\ intents' = intents \cup {k} /\ todoIntents'[a] = todoIntents[a] \ {k}
          /\ at[a] = "writing"
          /\ UNCHANGED <<agentConfig, kb, at, pack, toRead, readConfig, todoKb>>
        BY <1>1, <1>7 DEF P!CreateIntent, P!TypeOK
    <2> QED
        BY <1>1, <2>1 DEF P!Current, P!ConfigCurrent, P!ConfigWritten, P!IntentsCurrent, P!KbCurrent
<1>8. ASSUME NEW q \in Questions, P!CreateKb(a, q) PROVE P!Current(a)'
    <2>1. /\ at[a] = "writing" /\ todoKb'[a] = todoKb[a] \ {q}
          /\ kb[q] \in Nat /\ kb'[q] = kb[q] + 1
          /\ \A r \in Questions : r # q => kb'[r] = kb[r]
          /\ UNCHANGED <<agentConfig, intents, at, pack, toRead, readConfig, todoIntents>>
        BY <1>1, <1>8 DEF P!CreateKb, P!TypeOK
    <2>2. todoKb[a] \subseteq Questions /\ PackQuestions[pack[a]] \subseteq Questions
        BY <1>1 DEF P!TypeOK
    <2>3. P!KbCurrent(a)'
        BY <1>1, <2>1, <2>2 DEF P!Current, P!KbCurrent
    <2> QED
        BY <1>1, <2>1, <2>3 DEF P!Current, P!ConfigCurrent, P!ConfigWritten, P!IntentsCurrent
<1>9. CASE P!Over(a)
    BY <1>1, <1>9 DEF P!Over, P!TypeOK, P!Current, P!ConfigCurrent, P!ConfigWritten, P!IntentsCurrent, P!KbCurrent
<1> QED
    BY <1>2, <1>3, <1>4, <1>5, <1>6, <1>7, <1>8, <1>9 DEF P!Apply, P!Finish, P!Fail, P!KeyTaken

\* A step of another application leaves its progress alone.
Row(a) == <<at[a], pack[a], toRead[a], readConfig[a], todoIntents[a], todoKb[a]>>

LEMMA OthersRow ==
  ASSUME P!TypeOK, NEW a \in Applies, NEW b \in Applies, a # b, P!Apply(b)
  PROVE  UNCHANGED Row(a)
<1> USE DEF Row, P!TypeOK, P!plan, P!tenant
<1>1. CASE P!Begin(b)
    BY <1>1 DEF P!Begin
<1>2. CASE P!ReadConfig(b) \/ P!ReadIntents(b) \/ P!ReadKb(b)
    BY <1>2 DEF P!ReadConfig, P!ReadIntents, P!ReadKb, P!Answered
<1>3. CASE P!WriteConfig(b)
    BY <1>3 DEF P!WriteConfig
<1>4. CASE P!Over(b)
    BY <1>4 DEF P!Over
<1>5. CASE \/ \E k \in Intents : P!CreateIntent(b, k)
           \/ \E q \in Questions : P!CreateKb(b, q)
    BY <1>5 DEF P!CreateIntent, P!CreateKb
<1> QED
    BY <1>1, <1>2, <1>3, <1>4, <1>5 DEF P!Apply, P!Finish, P!Fail, P!KeyTaken

\* While the rows and its own progress are unchanged, its plan stays current.
LEMMA Unmoved ==
  ASSUME NEW a \in Applies, P!Current(a), UNCHANGED P!tenant, UNCHANGED Row(a)
  PROVE  P!Current(a)'
BY DEF Row, P!tenant, P!Current, P!ConfigCurrent, P!ConfigWritten, P!IntentsCurrent, P!KbCurrent,
   P!HasRead, P!InFlight

\* Whoever is not disturbed by a step of the others was not before, and is idle
\* or saw the rows unchanged.
LEMMA NotDisturbed ==
  ASSUME NEW S, S \subseteq Applies, P!Disturb(S), NEW a \in S, a \notin disturbed',
         \A b \in disturbed : P!InFlight(b), UNCHANGED Row(a)
  PROVE  a \notin disturbed /\ (at[a] = "idle" \/ UNCHANGED P!tenant)
BY DEF P!Disturb, P!InFlight, Row

\* An application that waits for nothing has its plan vacuously current.
LEMMA IdleCurrent == ASSUME NEW a, at[a] = "idle" PROVE P!Current(a)
BY DEF P!Current, P!ConfigCurrent, P!ConfigWritten, P!IntentsCurrent, P!KbCurrent, P!HasRead, P!InFlight

LEMMA IdleCurrentNext == ASSUME NEW a, at'[a] = "idle" PROVE P!Current(a)'
BY DEF P!Current, P!ConfigCurrent, P!ConfigWritten, P!IntentsCurrent, P!KbCurrent, P!HasRead, P!InFlight

\* A step that leaves the progress of an application alone leaves the plan
\* current, or counts the application as disturbed.
LEMMA OthersStep ==
  ASSUME P!IInv, NEW S, S \subseteq Applies, P!Disturb(S), NEW a \in S, a \notin disturbed',
         UNCHANGED Row(a)
  PROVE  P!Current(a)'
<1>1. a \notin disturbed /\ (at[a] = "idle" \/ UNCHANGED P!tenant)
    BY NotDisturbed DEF P!IInv
<1>2. at'[a] = at[a]
    BY DEF Row
<1>3. CASE at[a] = "idle"
    BY <1>2, <1>3, IdleCurrentNext
<1>4. CASE UNCHANGED P!tenant
    BY <1>1, <1>4, Unmoved DEF P!IInv
<1> QED
    BY <1>1, <1>3, <1>4

LEMMA ReadBeforeWriting ==
  ASSUME P!IInv, NEW a \in Applies, P!Apply(a)
  PROVE  \A b \in Applies : at'[b] = "writing" => toRead'[b] = {}
<1>1. \A b \in Applies : b # a => at'[b] = at[b] /\ toRead'[b] = toRead[b]
    BY OthersRow DEF P!IInv, Row
<1>2. at'[a] = "writing" => toRead'[a] = {}
    BY DEF P!Apply, P!Begin, P!ReadConfig, P!ReadIntents, P!ReadKb, P!Answered, P!WriteConfig, P!CreateIntent,
       P!KeyTaken, P!CreateKb, P!Finish, P!Fail, P!Over, P!IInv, P!TypeOK
<1> QED
    BY <1>1, <1>2 DEF P!IInv

\* IInv is inductive, whatever applications and edits interleave.
THEOREM TemplateInductive == P!Spec => []P!IInv
<1>1. P!IInv /\ [P!Next]_P!vars => P!IInv'
    <2> SUFFICES ASSUME P!IInv, [P!Next]_P!vars PROVE P!IInv'
        OBVIOUS
    <2>1. ASSUME NEW a \in Applies, P!Apply(a), P!Disturb(Applies \ {a}) PROVE P!IInv'
        <3>1. P!TypeOK'
            BY <2>1, ApplyTyped DEF P!IInv, P!Disturb
        <3>2. (\A b \in disturbed : P!InFlight(b))'
            BY <2>1 DEF P!Disturb, P!InFlight
        <3>3. ASSUME NEW b \in Applies, b \notin disturbed' PROVE P!Current(b)'
            <4>1. CASE b # a
                BY <2>1, <3>3, <4>1, OthersRow, OthersStep DEF P!IInv
            <4>2. CASE b = a
                <5>1. CASE a \notin disturbed
                    BY <2>1, <4>2, <5>1, OwnStep
                <5>2. CASE a \in disturbed
                    <6>1. at'[a] = "idle"
                        BY <2>1, <3>3, <4>2, <5>2 DEF P!Disturb
                    <6> QED
                        BY <4>2, <6>1, IdleCurrentNext
                <5> QED
                    BY <5>1, <5>2
            <4> QED
                BY <4>1, <4>2
        <3> QED
            BY <2>1, <3>1, <3>2, <3>3, ReadBeforeWriting DEF P!IInv
    <2>2. ASSUME P!Edit, P!Disturb(Applies) PROVE P!IInv'
        <3>1. UNCHANGED <<at, pack, toRead, P!plan>>
            BY <2>2 DEF P!Edit, P!PutAgentConfig, P!PostIntent, P!DeleteIntent, P!PostKb, P!DeleteKb, P!Aside
        <3>2. P!TypeOK'
            BY <2>2, EditTyped DEF P!IInv, P!Disturb
        <3>3. \A a \in Applies : UNCHANGED Row(a)
            BY <3>1 DEF Row, P!plan
        <3>4. \A a \in Applies \ disturbed' : P!Current(a)'
            BY <2>2, <3>3, OthersStep
        <3>5. (\A b \in disturbed : P!InFlight(b))'
            BY <2>2 DEF P!Disturb, P!InFlight
        <3> QED
            BY <3>1, <3>2, <3>4, <3>5 DEF P!IInv
    <2>3. CASE UNCHANGED P!vars
        <3>1. \A a \in Applies : UNCHANGED Row(a)
            BY <2>3 DEF P!vars, P!plan, Row
        <3> QED
            BY <2>3, <3>1, Unmoved DEF P!vars, P!tenant, P!plan, P!IInv, P!TypeOK, P!InFlight
    <2> QED
        BY <2>1, <2>2, <2>3 DEF P!Next
<1> QED
    BY <1>1, TemplateInit, PTL DEF P!Spec

-----------------------------------------------------------------------------
\* No undisturbed application overwrites a filled field or drops a list entry
\* (IndustryTemplateService.apply writes the configuration whole).
THEOREM NeverOverwrites == P!Spec => UndisturbedOverwritesNothing
<1>1. P!IInv /\ [P!Next]_P!vars => [\A a \in Applies \ disturbed : P!Apply(a) => P!Kept]_P!vars
    <2> SUFFICES ASSUME P!IInv, NEW a \in Applies \ disturbed, P!Apply(a) PROVE P!Kept
        OBVIOUS
    <2>1. CASE P!WriteConfig(a)
        <3>1. agentConfig' \in {agentConfig, P!NextConfig(agentConfig, pack[a])}
            BY <2>1 DEF P!WriteConfig, P!IInv, P!Current, P!ConfigCurrent, P!HasRead, P!InFlight
        <3>2. agentConfig \in P!Config /\ pack[a] \in Packs
            BY DEF P!IInv, P!TypeOK
        <3>3. /\ \A f \in Fields : agentConfig.fields[f] # P!Empty =>
                   P!NextConfig(agentConfig, pack[a]).fields[f] = agentConfig.fields[f]
              /\ agentConfig.rules \subseteq P!NextConfig(agentConfig, pack[a]).rules
            BY <3>2, Merge
        <3> QED
            BY <3>1, <3>3 DEF P!Kept
    <2>2. CASE ~P!WriteConfig(a)
        <3>1. agentConfig' = agentConfig
            BY <2>2 DEF P!Apply, P!Begin, P!ReadConfig, P!ReadIntents, P!ReadKb, P!CreateIntent, P!KeyTaken,
               P!CreateKb, P!Finish, P!Fail, P!Over, P!tenant
        <3> QED
            BY <3>1 DEF P!Kept
    <2> QED
        BY <2>1, <2>2
<1> QED
    BY <1>1, TemplateInductive, PTL DEF P!Spec, UndisturbedOverwritesNothing, P!UndisturbedOverwritesNothing

\* No undisturbed application asks a question the knowledge base already asks.
THEOREM NeverAsksTwice == P!Spec => UndisturbedAsksNothingTwice
<1>1. P!IInv /\ [P!Next]_P!vars => [\A a \in Applies \ disturbed : P!Apply(a) => P!NoneTwice]_P!vars
    <2> SUFFICES ASSUME P!IInv, NEW a \in Applies \ disturbed, P!Apply(a) PROVE P!NoneTwice
        OBVIOUS
    <2>0. kb \in [Questions -> Nat]
        BY DEF P!IInv, P!TypeOK
    <2>1. ASSUME NEW q \in Questions, P!CreateKb(a, q) PROVE P!NoneTwice
        <3>1. at[a] = "writing" /\ toRead[a] = {} /\ q \in todoKb[a]
            BY <2>1 DEF P!CreateKb, P!IInv
        <3>2. kb[q] = 0
            BY <3>1 DEF P!IInv, P!Current, P!KbCurrent, P!HasRead, P!InFlight
        <3> QED
            BY <2>0, <2>1, <3>2 DEF P!NoneTwice, P!CreateKb
    <2>2. CASE ~\E q \in Questions : P!CreateKb(a, q)
        <3>1. kb' = kb
            BY <2>2 DEF P!Apply, P!Begin, P!ReadConfig, P!ReadIntents, P!ReadKb, P!WriteConfig, P!CreateIntent,
               P!KeyTaken, P!Finish, P!Fail, P!Over, P!tenant
        <3> QED
            BY <2>0, <3>1 DEF P!NoneTwice
    <2> QED
        BY <2>1, <2>2
<1> QED
    BY <1>1, TemplateInductive, PTL DEF P!Spec, UndisturbedAsksNothingTwice, P!UndisturbedAsksNothingTwice

\* An undisturbed application answered ok leaves its whole pack in place.
THEOREM OkMeansWhole == P!Spec => OkIsWhole
<1>1. P!IInv => \A a \in Applies \ disturbed : P!Finish(a) => P!Whole(pack[a])
    <2> SUFFICES ASSUME P!IInv, NEW a \in Applies \ disturbed, P!Finish(a) PROVE P!Whole(pack[a])
        OBVIOUS
    <2>1. /\ at[a] = "writing" /\ todoIntents[a] = {} /\ todoKb[a] = {} /\ toRead[a] = {}
          /\ P!Current(a)
        BY DEF P!Finish, P!IInv
    <2>2. P!HasRead(a, "intents") /\ P!HasRead(a, "kb")
        BY <2>1 DEF P!HasRead, P!InFlight
    <2> QED
        BY <2>1, <2>2 DEF P!Whole, P!Current, P!ConfigWritten, P!IntentsCurrent, P!KbCurrent
<1> QED
    BY <1>1, TemplateInductive, PTL DEF P!Spec, OkIsWhole, P!OkIsWhole
=============================================================================
