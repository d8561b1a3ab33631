------------------------------- MODULE Stores -------------------------------
(* The three stores that answer the console's pages: the in-memory adapters     *)
(* (DATA_ADAPTER unset), the Prisma adapters (DATA_ADAPTER=prisma), both behind *)
(* the routes of TenantsController, and the demo fixture inside the console     *)
(* (VITE_DATA_SOURCE unset).  In-memory and demo calls run in one step; a route  *)
(* over Prisma that looks a row up and then writes it is two, and another call   *)
(* may come between.  RowStore says what all of them promise.                    *)
EXTENDS Integers, FiniteSets

CONSTANTS Clients, Tenants, Names, Texts, None,
          MaxMade      \* bound: rows ever created

ASSUME StoresAssumption ==
  /\ None \notin Names \cup Texts \cup Tenants /\ MaxMade \in Nat
  /\ Names \cap (1..MaxMade) = {}
  /\ IsFiniteSet(Clients) /\ IsFiniteSet(Tenants) /\ Cardinality(Tenants) =< MaxMade

VARIABLES
  backend,     \* "memory", "prisma" or "demo"
  table,       \* whose rows: "intents", "tools", "kb" or "config"
  rows,        \* the rows as the store keeps them
  secrets,     \* tools with a webhook secret: a map of its own, or the column
  made,        \* rows created so far
  calls        \* the last call of each client

vars == <<backend, table, rows, secrets, made, calls>>

Backends == {"memory", "prisma", "demo"}
Tables == {"intents", "tools", "kb", "config"}
Keys == Names \cup (1..MaxMade) \cup {None}

\* "flag" is hasWebhookSecret, or an optional field of a configuration being
\* set; Prisma has no such column for a tool and computes it from the secret.
StoredRow == [id : 1..MaxMade, tenant : Tenants, name : Names \cup {None}, text : Texts,
              flag : BOOLEAN]
Questions == [op : {"create", "update", "delete", "put"}, tenant : Tenants, key : Keys,
              name : Names \cup {None}, text : Texts \cup {None},
              extra : {"given", "null", "omitted"}]

Idle == [at |-> "idle", q |-> None, answer |-> None]

CallStates ==
  {Idle} \cup [at : {"asked", "checked"}, q : Questions, answer : {None}]
         \cup [at : {"answered"}, q : {None}, answer : {"ok", "none", "failed"}]

TypeOK ==
  /\ backend \in Backends /\ table \in Tables
  /\ rows \subseteq StoredRow /\ secrets \subseteq 1..MaxMade /\ made \in 0..MaxMade
  /\ calls \in [Clients -> CallStates]

Init ==
  /\ backend \in Backends /\ table \in Tables
  /\ rows = {} /\ secrets = {} /\ made = 0
  /\ calls = [c \in Clients |-> Idle]

fixed == <<backend, table>>
store == <<rows, secrets, made>>

-----------------------------------------------------------------------------
\* What is called for. The console sends whole drafts, an intent's key or a
\* tool's name in them, and a configuration is put, not created; another client of
\* the routes may leave fields out. The page cannot edit the key of an intent.
Extra == IF table \in {"tools", "config"}
         THEN {"given", "null"} \cup (IF backend = "demo" THEN {} ELSE {"omitted"})
         ELSE {"omitted"}

Targets == IF table = "intents" THEN Names ELSE 1..made

Labels == IF table = "kb" THEN {None} ELSE Names

\* What a route's update may leave out; a tool's name no server reads there.
Left(op) == IF backend = "demo" \/ op = "create" THEN {} ELSE {None}
Unread == IF backend # "demo" /\ table = "tools" THEN Labels ELSE {}

Bodies(op) ==
  [op : {op}, tenant : Tenants, key : IF op = "create" THEN {None} ELSE Targets, extra : Extra,
   name : (IF op = "create" THEN Labels ELSE Labels \ Unread) \cup Left(op),
   text : Texts \cup Left(op)]

Calls ==
  IF table = "config"
  THEN [op : {"put"}, tenant : Tenants, key : {None}, name : {None}, text : Texts, extra : Extra]
  ELSE Bodies("create")
       \cup {q \in Bodies("update") : backend = "demo" /\ table = "intents" => q.name = q.key}
       \cup [op : {"delete"}, tenant : Tenants, key : Targets, name : {None}, text : {None},
             extra : {"null"}]

Creating == {c \in Clients : calls[c].at = "asked" /\ calls[c].q.op = "create"}

Ask(c) == \E q \in Calls :
  /\ calls[c].at \in {"idle", "answered"}
  /\ q.op = "create" => made + Cardinality(Creating) < MaxMade
  /\ calls' = [calls EXCEPT ![c] = [at |-> "asked", q |-> q, answer |-> None]]
  /\ UNCHANGED <<fixed, store>>

Is(c, op) == calls[c].at = "asked" /\ calls[c].q.op = op
Answer(c, a) == calls' = [calls EXCEPT ![c] = [at |-> "answered", q |-> None, answer |-> a]]

-----------------------------------------------------------------------------
\* Lookups. An intent is found by its key; a tool and a question by their
\* identifier, and only under their own tenant's path - but the in-memory FAQ is
\* one repository for all tenants.
Owned(r, q) == r.tenant = q.tenant \/ (backend = "memory" /\ table = "kb")

Lookup(q) ==
  {r \in rows : Owned(r, q) /\ CASE table = "intents" -> r.name = q.key
                                 [] table = "config"  -> TRUE
                                 [] OTHER             -> r.id = q.key}

\* A key or a tool name the tenant already has: looked up in memory, a unique
\* index in the database; the demo does not look.
Taken(q) ==
  /\ backend # "demo" /\ table \in {"intents", "tools"}
  /\ \E r \in rows : r.tenant = q.tenant /\ r.name = q.name

\* Which updates write the name: the demo's copy it from the draft, and the body of
\* an intent goes to the database whole, where the index refuses another's key.
Renames == backend = "demo" \/ (backend = "prisma" /\ table = "intents")

KeyTaken(q) == Renames /\ q.name \notin {None, q.key} /\ Taken(q)

\* The optional field after a write: the demo keeps the secret of a tool whose
\* field was left blank; leaving it out keeps it, except that the in-memory and
\* demo configurations are replaced whole.
NewFlag(old, q) ==
  CASE q.extra = "given"   -> TRUE
    [] q.extra = "null"    -> IF backend = "demo" /\ table = "tools" THEN old ELSE FALSE
    [] q.extra = "omitted" -> IF table = "config" /\ backend # "prisma" THEN FALSE ELSE old

\* Mutant: leaving a secret out erases it.
Mut_NewSecrets(id, q) ==
  IF table # "tools" \/ backend = "demo" THEN secrets
  ELSE IF q.extra = "given" THEN secrets \cup {id} ELSE secrets \ {id}

NewSecrets(id, q) ==
  IF table # "tools" \/ backend = "demo" \/ q.extra = "omitted" THEN secrets
  ELSE IF q.extra = "given" THEN secrets \cup {id} ELSE secrets \ {id}

Written(r, q) == [r EXCEPT !.name = IF Renames /\ q.name # None THEN q.name ELSE @,
                           !.text = IF q.text = None THEN @ ELSE q.text,
                           !.flag = NewFlag(@, q)]

Insert(c) ==
  LET q == calls[c].q
      new == [id |-> made + 1, tenant |-> q.tenant, text |-> q.text, flag |-> NewFlag(FALSE, q),
              name |-> q.name]
  IN /\ rows' = rows \cup {new} /\ secrets' = NewSecrets(new.id, q)
     /\ made' = made + 1 /\ Answer(c, "ok")

Create(c) ==
  /\ Is(c, "create")
  /\ IF Taken(calls[c].q) THEN Answer(c, "failed") /\ UNCHANGED store ELSE Insert(c)
  /\ UNCHANGED fixed

\* upsert: one statement over the unique tenantId.
PutConfig(c) ==
  /\ Is(c, "put")
  /\ \/ Lookup(calls[c].q) = {} /\ Insert(c)
     \/ \E r \in Lookup(calls[c].q) :
          /\ rows' = (rows \ {r}) \cup {Written(r, calls[c].q)}
          /\ UNCHANGED <<secrets, made>> /\ Answer(c, "ok")
  /\ UNCHANGED fixed

-----------------------------------------------------------------------------
\* Which routes look first: tools in their adapter, questions in the
\* controller, both over Prisma.
LooksFirst == backend = "prisma" /\ table \in {"tools", "kb"}

Write(c, r) ==
  /\ rows' = (rows \ {r}) \cup {Written(r, calls[c].q)}
  /\ secrets' = NewSecrets(r.id, calls[c].q)
  /\ UNCHANGED made /\ Answer(c, "ok")

\* The in-memory and demo stores, and a single statement over Prisma: a missing
\* row is null, an error of the page's own, or an exception.
Update(c) ==
  /\ Is(c, "update") /\ ~LooksFirst
  /\ IF Lookup(calls[c].q) = {} \/ KeyTaken(calls[c].q)
     THEN Answer(c, "failed") /\ UNCHANGED store
     ELSE \E r \in Lookup(calls[c].q) : Write(c, r)
  /\ UNCHANGED fixed

Erase(c, gone) ==
  /\ rows' = rows \ gone /\ secrets' = secrets \ {r.id : r \in gone}
  /\ UNCHANGED made

\* What is said of a row that was not there.
Absent == CASE backend = "demo"                           -> "ok"
            [] backend = "prisma" /\ table = "intents"    -> "failed"
            [] OTHER                                      -> "none"

Delete(c) ==
  /\ Is(c, "delete") /\ ~LooksFirst
  /\ Erase(c, Lookup(calls[c].q))
  /\ Answer(c, IF Lookup(calls[c].q) = {} THEN Absent ELSE "ok")
  /\ UNCHANGED fixed

\* findUnique, and the tenant compared.
Look(c) ==
  /\ calls[c].at = "asked" /\ calls[c].q.op \in {"update", "delete"} /\ LooksFirst
  /\ IF Lookup(calls[c].q) # {} THEN calls' = [calls EXCEPT ![c].at = "checked"]
     ELSE Answer(c, IF calls[c].q.op = "update" THEN "failed" ELSE Absent)
  /\ UNCHANGED <<fixed, store>>

\* Mutant: a row that went meanwhile is written back.
Mut_Finish(c) ==
  /\ calls[c].at = "checked"
  /\ LET here == {r \in rows : r.id = calls[c].q.key}
         back == [id |-> calls[c].q.key, tenant |-> calls[c].q.tenant, name |-> calls[c].q.name,
                  text |-> calls[c].q.text, flag |-> FALSE] IN
     IF here = {} THEN IF calls[c].q.op = "delete" \/ calls[c].q.text = None
                       THEN Answer(c, "failed") /\ UNCHANGED store
                       ELSE rows' = rows \cup {back} /\ UNCHANGED <<secrets, made>> /\ Answer(c, "ok")
     ELSE IF calls[c].q.op = "delete" THEN Erase(c, here) /\ Answer(c, "ok")
     ELSE \E r \in here : Write(c, r)
  /\ UNCHANGED fixed

\* update or delete by the identifier alone: an exception if the row has gone.
Finish(c) ==
  /\ calls[c].at = "checked"
  /\ LET here == {r \in rows : r.id = calls[c].q.key} IN
     IF here = {} THEN Answer(c, "failed") /\ UNCHANGED store
     ELSE IF calls[c].q.op = "delete" THEN Erase(c, here) /\ Answer(c, "ok")
     ELSE \E r \in here : Write(c, r)
  /\ UNCHANGED fixed

Serve(c) == Create(c) \/ PutConfig(c) \/ Update(c) \/ Delete(c) \/ Look(c) \/ Finish(c)

Next == \E c \in Clients : Ask(c) \/ Serve(c)

Spec == Init /\ [][Next]_vars

-----------------------------------------------------------------------------
\* What the lists of the store show, the secret itself never.
HasSecret(r) == IF backend = "prisma" /\ table = "tools" THEN r.id \in secrets ELSE r.flag

Listing(r) == [id |-> r.id, tenant |-> r.tenant, name |-> r.name, text |-> r.text,
               extra |-> HasSecret(r)]
Listed == {Listing(r) : r \in rows}

Seen == [c \in Clients |-> IF calls[c].at = "checked" THEN [calls[c] EXCEPT !.at = "asked"]
                           ELSE calls[c]]

RS == INSTANCE RowStore WITH rows <- Listed, calls <- Seen

\* Every store does what RowStore says, whatever comes between the lookup and
\* the write of a Prisma route: each call takes effect at one moment or not at
\* all, on rows of its own tenant, and the answer tells which.
ImplementsRowStore == RS!Spec

\* The servers never hold two intents of one key, or two tools of one name, for
\* a tenant, even when an intent is renamed; calls route by them.
NamesAreUnique ==
  backend # "demo" /\ table \in {"intents", "tools"} =>
    \A r, s \in rows : r.tenant = s.tenant /\ r.name = s.name => r = s

\* The in-memory secret map and the flag the console shows tell the same, and
\* no secret outlives its tool.
SecretsMatchFlags ==
  /\ secrets \subseteq {r.id : r \in rows}
  /\ backend = "memory" /\ table = "tools" => \A r \in rows : r.flag = (r.id \in secrets)

\* The two together, with the types: whatever calls overlap, the rows stay as the
\* pages and the calls rely on them (tenant-in-memory.ts, tenant-prisma.ts).
StoresKeepTheirRows == TypeOK /\ NamesAreUnique /\ SecretsMatchFlags

-----------------------------------------------------------------------------
(* What makes it inductive. *)

\* Identifiers are given in the order of creation and belong to one row.
RowsAreNumbered ==
  /\ \A r \in rows : r.id =< made
  /\ \A r, s \in rows : r.id = s.id => r = s

\* Only a configuration is put, and only what is looked up first is looked up;
\* a row is created with its text.
CallsFitTheTable == \A c \in Clients :
  /\ calls[c].at = "asked" =>
       /\ calls[c].q.op = "put" <=> table = "config"
       /\ calls[c].q.op \in {"create", "put"} => calls[c].q.text \in Texts
  /\ calls[c].at = "checked" => LooksFirst /\ calls[c].q.op \in {"update", "delete"}

\* There is room for every row asked for; a tenant has one configuration.
Configured == {r.tenant : r \in rows}
RoomToCreate == IF table = "config" THEN made = Cardinality(Configured)
                                    ELSE made + Cardinality(Creating) =< MaxMade

\* Between the lookup and the write the row found may be deleted, but its number
\* will not be another tenant's row.
LookedUpIsOwned == \A c \in Clients : calls[c].at = "checked" =>
  /\ LooksFirst /\ calls[c].q.key \in 1..made
  /\ \A r \in rows : r.id = calls[c].q.key => r.tenant = calls[c].q.tenant

IInv == StoresKeepTheirRows /\ RowsAreNumbered /\ CallsFitTheTable /\ RoomToCreate
=============================================================================
