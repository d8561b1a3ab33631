----------------------------- MODULE ReviewDesk -----------------------------
(* The platform administrator's page: the list of tenants, the modals that     *)
(* approve and reject an application, and the form that creates a tenant with  *)
(* its account.  Two applications have it, with the same code: AdminTenantsPage *)
(* in the console and TenantsAdminPage in the admin application.  The server's  *)
(* handlers are whole steps here; TenantReview has their interleavings, and    *)
(* another administrator reviews and creates through steps of their own.       *)
(* Either page may run on a demo instead, which plays the server in the page's  *)
(* own memory, by other rules.                                                 *)
EXTENDS Integers, FiniteSets

CONSTANTS Tenants, Numbers, AdminEmails, Filters, None,
          MaxAsked     \* bound: reviews of this page under way at once

VARIABLES
  source,      \* who answers: the server, or one of the two demos
  tenants,     \* [Tenants -> status and number], the rows of the source
  logins,      \* addresses with an account
  list,        \* the statuses last read, or None
  fetch,       \* the list query: "idle", "sent" or "served"
  read,        \* what a served query found, or None
  listFailed,  \* the list query's error is shown
  filter,
  modal,       \* the open modal, or None
  asked,       \* reviews sent and not answered yet
  toast,       \* the kind of review the toast speaks of, or None
  form,        \* what the creation form has: number and address
  creation,    \* its mutation
  created,     \* the address the success message names, or None
  reviewed,    \* history: tenants this page was told it has reviewed
  abandoned    \* history: a modal was closed while its review was pending

server == <<source, tenants, logins>>
query == <<list, fetch, read, listFailed>>
creating == <<form, creation, created>>
vars == <<server, query, filter, modal, asked, toast, creating, reviewed, abandoned>>

\* VITE_DATA_SOURCE, and the application the page is in.
Sources == {"server", "console demo", "admin demo"}
Statuses == {"absent", "pending", "active", "onboarding", "rejected"}
Lists == [Tenants -> Statuses]
Kinds == {"approve", "reject"}
\* What is typed: a number or a reason; None is one that does not pass.
Typed(k) == (IF k = "approve" THEN Numbers ELSE {"reason"}) \cup {None}
Modals == UNION {[kind : {k}, tenant : Tenants, typed : Typed(k), error : BOOLEAN,
                  pending : BOOLEAN] : k \in Kinds}
Reviews == UNION {[kind : {k}, tenant : Tenants, typed : Typed(k) \ {None}, heard : BOOLEAN,
                   answer : {None, "ok", "failed"}] : k \in Kinds}
Forms == [number : Numbers \cup {None}, email : AdminEmails \cup {None}]
EmptyForm == [number |-> None, email |-> None]

\* None stands for null: it is no name and no record.
DeskAssumption ==
  /\ None \notin Tenants \cup Numbers \cup AdminEmails \cup {"ok", "failed"}
  /\ None \notin Modals /\ "pending" \in Filters

TypeOK ==
  /\ source \in Sources
  /\ tenants \in [Tenants -> [status : Statuses, number : Numbers \cup {None}]]
  /\ logins \subseteq AdminEmails
  /\ list \in Lists \cup {None} /\ listFailed \in BOOLEAN
  /\ fetch \in {"idle", "sent", "served"} /\ read \in Lists \cup {None}
  /\ filter \in Filters
  /\ modal \in Modals \cup {None} /\ asked \subseteq Reviews
  /\ toast \in Kinds \cup {None}
  /\ form \in Forms /\ created \in AdminEmails \cup {None}
  /\ creation \in [at : {"idle", "sent", "ok", "refused", "failed"}, body : Forms]
  /\ reviewed \subseteq Tenants /\ abandoned \in BOOLEAN

\* A demo begins with applications to review.
DemoBegins == source # "server" => \E t \in Tenants : tenants[t].status = "pending"

Init ==
  /\ source \in Sources
  /\ tenants \in [Tenants -> {[status |-> s, number |-> None] : s \in {"absent", "pending"}}]
  /\ DemoBegins
  /\ logins = {}
  /\ list = None /\ fetch = "sent" /\ read = None /\ listFailed = FALSE
  /\ filter = "pending" /\ modal = None /\ asked = {} /\ toast = None
  /\ form = EmptyForm /\ creation = [at |-> "idle", body |-> EmptyForm] /\ created = None
  /\ reviewed = {} /\ abandoned = FALSE

Open == modal # None
Unheard(reviews) == {[r EXCEPT !.heard = FALSE] : r \in reviews}
Free(n) == \A t \in Tenants : tenants[t].number # n
Fetching == fetch # "idle"
Creating == creation.at \in {"sent", "ok", "refused"}

-----------------------------------------------------------------------------
\* The list: one query, begun again by invalidateQueries even while one runs.
\* Mutant: a query that runs is not begun again.
Mut_Invalidate == IF fetch = "idle" THEN fetch' = "sent" /\ UNCHANGED read ELSE UNCHANGED <<fetch, read>>

Invalidate == fetch' = "sent" /\ read' = None

ServeList ==
  /\ fetch = "sent" /\ fetch' = "served" /\ read' = [t \in Tenants |-> tenants[t].status]
  /\ UNCHANGED <<server, list, listFailed, filter, modal, asked, toast, creating, reviewed, abandoned>>

ListArrives ==
  /\ fetch = "served" /\ list' = read /\ fetch' = "idle" /\ read' = None /\ listFailed' = FALSE
  /\ UNCHANGED <<server, filter, modal, asked, toast, creating, reviewed, abandoned>>

\* Only after its retries; the rows read before stay, under the error.
ListFails ==
  /\ source = "server"
  /\ Fetching /\ fetch' = "idle" /\ read' = None /\ listFailed' = TRUE
  /\ UNCHANGED <<server, list, filter, modal, asked, toast, creating, reviewed, abandoned>>

\* The rows with the two buttons.
Offered == IF list = None \/ filter # "pending" THEN {}
           ELSE {t \in Tenants : list[t] = "pending"}

SetFilter ==
  /\ ~Open /\ filter' \in Filters
  /\ UNCHANGED <<server, query, modal, asked, toast, creating, reviewed, abandoned>>

\* A modal covers the page: its rows cannot be clicked.
OpenModal ==
  /\ ~Open
  /\ \E k \in Kinds, t \in Offered : modal' = [kind |-> k, tenant |-> t, typed |-> None,
                                               error |-> FALSE, pending |-> FALSE]
  /\ UNCHANGED <<server, query, filter, asked, toast, creating, reviewed, abandoned>>

TypeInModal ==
  /\ Open
  /\ \E v \in Typed(modal.kind) : modal' = [modal EXCEPT !.typed = v, !.error = FALSE]
  /\ UNCHANGED <<server, query, filter, asked, toast, creating, reviewed, abandoned>>

\* Cancel, or a click beside the dialogue: allowed while the review is pending,
\* which goes on; nobody is left to show its error.
CloseModal ==
  /\ Open /\ modal' = None
  /\ asked' = Unheard(asked)
  /\ abandoned' = (abandoned \/ modal.pending)
  /\ UNCHANGED <<server, query, filter, toast, creating, reviewed>>

Submit ==
  /\ Open /\ ~modal.pending
  /\ IF modal.typed = None
     THEN modal' = [modal EXCEPT !.error = TRUE] /\ UNCHANGED asked
     ELSE /\ Cardinality(asked) < MaxAsked
          /\ modal' = [modal EXCEPT !.error = FALSE, !.pending = TRUE]
          /\ asked' = asked \cup {[kind |-> modal.kind, tenant |-> modal.tenant,
                                   typed |-> modal.typed, heard |-> TRUE, answer |-> None]}
  /\ UNCHANGED <<server, query, filter, toast, creating, reviewed, abandoned>>

-----------------------------------------------------------------------------
\* approveTenant and rejectTenant.
Allowed(r) == tenants[r.tenant].status = "pending" /\ (r.kind = "approve" => Free(r.typed))

Reviewed(r) == [tenants EXCEPT ![r.tenant] =
  IF r.kind = "approve" THEN [status |-> "active", number |-> r.typed]
  ELSE [@ EXCEPT !.status = "rejected"]]

\* What http makes of the envelope: the data, or an error with its code.
Answered(r, allowed) == [r EXCEPT !.answer = IF allowed THEN "ok" ELSE "failed"]

Settle(r, allowed) ==
  /\ r.answer = None
  /\ asked' = (asked \ {r}) \cup {Answered(r, allowed)}
  /\ tenants' = IF allowed THEN Reviewed(r) ELSE tenants
  /\ UNCHANGED <<source, logins, query, filter, modal, toast, creating, reviewed, abandoned>>

ServeReview == source = "server" /\ \E r \in asked : Settle(r, Allowed(r))

\* A demo looks at nothing but whether another tenant has the number: what was
\* reviewed before may be reviewed again.
DemoAllows(r) ==
  r.kind = "approve" => \A t \in Tenants \ {r.tenant} : tenants[t].number # r.typed

DemoReviews == source # "server" /\ \E r \in asked : Settle(r, DemoAllows(r))

\* The mutation's own onSuccess runs although its modal is gone, and closes the
\* modal of its kind that is open now; onError only speaks to its own modal, and
\* reads no list.
AnswerArrives == \E r \in asked :
  /\ r.answer # None
  /\ IF r.answer = "ok"
     THEN /\ IF Open /\ modal.kind = r.kind
             THEN modal' = None /\ asked' = Unheard(asked \ {r})
             ELSE asked' = asked \ {r} /\ UNCHANGED modal
          /\ toast' = r.kind /\ reviewed' = reviewed \cup {r.tenant} /\ Invalidate
     ELSE /\ modal' = IF r.heard THEN [modal EXCEPT !.error = TRUE, !.pending = FALSE] ELSE modal
          /\ asked' = asked \ {r} /\ UNCHANGED <<toast, reviewed, fetch, read>>
  /\ UNCHANGED <<server, list, listFailed, filter, creating, abandoned>>

\* The review or its answer is lost; a review that was served stays served.
ReviewLost == \E r \in asked :
  /\ source = "server"
  /\ asked' = asked \ {r}
  /\ modal' = IF r.heard THEN [modal EXCEPT !.error = TRUE, !.pending = FALSE] ELSE modal
  /\ UNCHANGED <<server, query, filter, toast, creating, reviewed, abandoned>>

ToastGoes ==
  /\ toast # None /\ toast' = None
  /\ UNCHANGED <<server, query, filter, modal, asked, creating, reviewed, abandoned>>

-----------------------------------------------------------------------------
\* The creation form.  Its fields stay open while a creation is pending, and are
\* emptied by its success.
TypeInForm ==
  /\ ~Open
  /\ \/ \E n \in Numbers : form' = [form EXCEPT !.number = n]
     \/ \E e \in AdminEmails : form' = [form EXCEPT !.email = e]
  /\ UNCHANGED <<server, query, filter, modal, asked, toast, creation, created, reviewed, abandoned>>

Create ==
  /\ ~Open /\ ~Creating /\ form.number # None /\ form.email # None
  /\ creation' = [at |-> "sent", body |-> form] /\ created' = None
  /\ UNCHANGED <<server, query, filter, modal, asked, toast, form, reviewed, abandoned>>

\* createTenantAccount: the address is looked up, the number is unique in the table.
Creatable(b) == b.email \notin logins /\ Free(b.number)

\* The admin application's demo leaves a new tenant to be set up.
StatusOfNew == IF source = "admin demo" THEN "onboarding" ELSE "active"

Added(t, n) == [tenants EXCEPT ![t] = [status |-> StatusOfNew, number |-> n]]

Add(n) == \E t \in Tenants : tenants[t].status = "absent" /\ tenants' = Added(t, n)

ServeCreate ==
  /\ source = "server" /\ creation.at = "sent"
  /\ \/ /\ Creatable(creation.body) /\ Add(creation.body.number)
        /\ logins' = logins \cup {creation.body.email}
        /\ creation' = [creation EXCEPT !.at = "ok"] /\ UNCHANGED source
     \/ /\ ~Creatable(creation.body)
        /\ creation' = [creation EXCEPT !.at = "refused"] /\ UNCHANGED server
  /\ UNCHANGED <<query, filter, modal, asked, toast, form, created, reviewed, abandoned>>

\* A demo takes everything and keeps no accounts.
DemoCreates ==
  /\ source # "server" /\ creation.at = "sent" /\ Add(creation.body.number)
  /\ creation' = [creation EXCEPT !.at = "ok"]
  /\ UNCHANGED <<source, logins, query, filter, modal, asked, toast, form, created, reviewed, abandoned>>

CreateArrives ==
  /\ \/ /\ creation.at = "ok" /\ creation' = [at |-> "idle", body |-> EmptyForm]
        /\ created' = creation.body.email /\ form' = EmptyForm /\ Invalidate
     \/ /\ creation.at = "refused" /\ creation' = [at |-> "failed", body |-> EmptyForm]
        /\ UNCHANGED <<created, form, fetch, read>>
  /\ UNCHANGED <<server, list, listFailed, filter, modal, asked, toast, reviewed, abandoned>>

\* Another administrator, at the same server.
Elsewhere ==
  /\ source = "server"
  /\ \E t \in Tenants, n \in Numbers :
       /\ Free(n)
       /\ \/ /\ tenants[t].status = "pending"
             /\ \E k \in Kinds : tenants' = Reviewed([kind |-> k, tenant |-> t, typed |-> n])
          \/ tenants[t].status = "absent" /\ tenants' = Added(t, n)
  /\ UNCHANGED <<source, logins, query, filter, modal, asked, toast, creating, reviewed, abandoned>>

Next ==
  \/ ServeList \/ ListArrives \/ ListFails \/ SetFilter
  \/ OpenModal \/ TypeInModal \/ CloseModal \/ Submit
  \/ ServeReview \/ DemoReviews \/ AnswerArrives \/ ReviewLost \/ ToastGoes
  \/ TypeInForm \/ Create \/ ServeCreate \/ DemoCreates \/ CreateArrives
  \/ Elsewhere

Spec == Init /\ [][Next]_vars

-----------------------------------------------------------------------------
\* A row whose review this page was told of is not offered again, except while
\* the list is being read or under the message that it could not be: a reading
\* that began before the review does not bring the row back (invalidateQueries).
ReviewedRowsGo ==
  \A t \in reviewed : list # None /\ list[t] = "pending" => Fetching \/ listFailed

\* The toast names no tenant, so the reviewer takes it for the modal that closes:
\* as long as no modal was closed on a pending review, it is that review's.
ToastIsOfTheModal ==
  [][toast' # None /\ reviewed' # reviewed /\ ~abandoned =>
       Open /\ reviewed' = reviewed \cup {modal.tenant} /\ toast' = modal.kind]_vars

\* What the page was told it did is in the table: reviewed and no longer waiting.
ToldIsDone == \A t \in reviewed : tenants[t].status \in {"active", "rejected"}

\* The three together, with the types: the list, the toast and the table tell the
\* reviewer the same story (AdminTenantsPage, TenantsAdminPage).
ReviewersAreToldTrue ==
  [](TypeOK /\ ReviewedRowsGo /\ ToldIsDone) /\ ToastIsOfTheModal
=============================================================================
