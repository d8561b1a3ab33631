------------------------------ MODULE RowStore ------------------------------
(* What the console may expect of the rows behind one of its pages, whichever  *)
(* of the three stores answers it (ConsoleApi in the console's client.ts, the   *)
(* repository interfaces of tenant.ports.ts): every call takes effect at one    *)
(* moment between its question and its answer, or not at all.  Stores has the   *)
(* stores themselves.                                                           *)
EXTENDS Integers, FiniteSets

CONSTANTS Clients, Tenants, Names, Texts, None,
          MaxMade      \* bound: rows ever created

RowsAssumption ==
  /\ None \notin Names \cup Texts \cup Tenants /\ MaxMade \in Nat
  /\ Names \cap (1..MaxMade) = {}

VARIABLES
  backend,     \* "memory", "prisma" or "demo"
  table,       \* which page's rows: "intents", "tools", "kb" or "config"
  rows,
  made,        \* rows created so far: identifiers are not used twice
  calls        \* the last call of each client

vars == <<backend, table, rows, made, calls>>

Backends == {"memory", "prisma", "demo"}
Tables == {"intents", "tools", "kb", "config"}

\* A row; "extra" is the webhook secret of a tool, an optional field of a
\* configuration: set or not.
Row == [id : 1..MaxMade, tenant : Tenants, name : Names \cup {None}, text : Texts, extra : BOOLEAN]

\* An intent is called by its key, a tool and a question by their identifier;
\* a tenant has one configuration.
Keys == Names \cup (1..MaxMade) \cup {None}
Questions == [op : {"create", "update", "delete", "put"}, tenant : Tenants, key : Keys,
              name : Names \cup {None}, text : Texts \cup {None},
              extra : {"given", "null", "omitted"}]
Answers == {"ok", "none", "failed"}

Means(r, q) ==
  /\ r.tenant = q.tenant \/ (backend = "memory" /\ table = "kb")
  /\ CASE table = "intents" -> r.name = q.key
       [] table = "config"  -> TRUE
       [] OTHER             -> r.id = q.key

Found(q) == {r \in rows : Means(r, q)}

\* The demo creates what it is told to; the servers keep keys and tool names
\* apart, FAQ questions are free everywhere.
Taken(q) == /\ backend # "demo" /\ table \in {"intents", "tools"}
            /\ \E r \in rows : r.tenant = q.tenant /\ r.name = q.name

\* An update may rename its row, to what is not taken: the demo does, and the
\* database an intent; elsewhere a name is for good. What would make two alike may
\* be refused.
NewNames(r, q) == {r.name} \cup (IF q.name = None \/ Taken(q) THEN {} ELSE {q.name})
Clash(q) == \E r \in Found(q) : q.name # r.name /\ Taken(q)

\* What may become of the optional field: erased by null (the demo keeps the
\* secret of a tool), kept when it is left out (a configuration may lose it).
Extras(old, q) ==
  CASE q.extra = "given"   -> {TRUE}
    [] q.extra = "null"    -> {FALSE} \cup (IF backend = "demo" THEN {old} ELSE {})
    [] q.extra = "omitted" -> {old} \cup (IF table = "config" THEN {FALSE} ELSE {})

Patched(r, q, e, n) == [id |-> r.id, tenant |-> r.tenant, name |-> n, extra |-> e,
                        text |-> IF q.text = None THEN r.text ELSE q.text]

New(q, e) == [id |-> made + 1, tenant |-> q.tenant, text |-> q.text, extra |-> e,
              name |-> q.name]

Outcome(c, answer) ==
  calls' = [calls EXCEPT ![c] = [at |-> "answered", q |-> None, answer |-> answer]]

Init ==
  /\ backend \in Backends /\ table \in Tables
  /\ rows = {} /\ made = 0
  /\ calls = [c \in Clients |-> [at |-> "idle", q |-> None, answer |-> None]]

Ask(c) ==
  /\ calls[c].at \in {"idle", "answered"}
  /\ calls'[c].q \in Questions
  /\ calls' = [calls EXCEPT ![c] = [at |-> "asked", q |-> calls'[c].q, answer |-> None]]
  /\ UNCHANGED <<backend, table, rows, made>>

Add(c) ==
  /\ \E e \in Extras(FALSE, calls[c].q) : rows' = rows \cup {New(calls[c].q, e)}
  /\ made' = made + 1 /\ Outcome(c, "ok")

Change(c) ==
  /\ \E r \in Found(calls[c].q) :
       \E e \in Extras(r.extra, calls[c].q), n \in NewNames(r, calls[c].q) :
         rows' = (rows \ {r}) \cup {Patched(r, calls[c].q, e, n)}
  /\ UNCHANGED made /\ Outcome(c, "ok")

Remove(c) ==
  /\ rows' = rows \ Found(calls[c].q)
  /\ UNCHANGED made
  /\ \/ (Found(calls[c].q) # {} \/ backend = "demo") /\ Outcome(c, "ok")
     \/ Found(calls[c].q) = {} /\ \E a \in {"none", "failed"} : Outcome(c, a)

Refuse(c) ==
  /\ \/ calls[c].q.op = "create" /\ Taken(calls[c].q)
     \/ calls[c].q.op = "update" /\ (Found(calls[c].q) = {} \/ Clash(calls[c].q))
  /\ Outcome(c, "failed") /\ UNCHANGED <<rows, made>>

Act(c) ==
  /\ calls[c].at = "asked"
  /\ \/ calls[c].q.op = "create" /\ ~Taken(calls[c].q) /\ Add(c)
     \/ calls[c].q.op = "put" /\ Found(calls[c].q) = {} /\ Add(c)
     \/ calls[c].q.op \in {"update", "put"} /\ Change(c)
     \/ calls[c].q.op = "delete" /\ Remove(c)
     \/ Refuse(c)
  /\ UNCHANGED <<backend, table>>

Next == \E c \in Clients : Ask(c) \/ Act(c)

Spec == Init /\ [][Next]_vars
=============================================================================
