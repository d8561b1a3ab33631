---------------------------- MODULE TenantReview ----------------------------
(* The life of a tenant (a business with its own 070 number) in apps/api:      *)
(* self-service signup, creation by an administrator, onboarding, review       *)
(* (approve with a number, reject with a reason), the free-form update, and    *)
(* the lookup that routes a call to the tenant holding the dialled number.     *)
(*                                                                             *)
(* Every handler is a sequence of awaited database queries; requests           *)
(* interleave between any two of them.  One action below is one query with     *)
(* the code that runs up to the next.  runInTransaction opens an interactive   *)
(* transaction but calls repositories that go through the global client, so    *)
(* each query commits alone: no action undoes an earlier one.                  *)
EXTENDS Integers

CONSTANTS Tenants,        \* rows of the tenant table, absent until created
          Numbers,        \* 070 numbers an administrator can assign
          Emails,         \* login addresses
          Requests,       \* requests in flight at once; a finished one is reused
          Ops,            \* the operations that arrive, a subset of Operations
          Given,          \* the statuses given to POST and PUT /tenants
          Pending,        \* the placeholder "pending-{slug}", in place of a number
          Nobody          \* no tenant

Operations == {"signup", "create", "onboard", "register", "approve", "reject",
               "update", "resolve"}

Statuses == {"onboarding", "active", "suspended", "pending_approval", "rejected"}

ASSUME Distinct == Pending \notin Numbers /\ Nobody \notin Tenants
ASSUME OpsKnown == Ops \subseteq Operations
ASSUME GivenKnown == Given \subseteq Statuses

Reviews == {"approve", "reject"}

\* Where a request waits: the query it will run next.
Labels == {"idle", "find account", "create tenant", "put config",
           "create account", "commit", "read tenant", "read holder",
           "write verdict", "apply template", "write patch", "find by phone",
           "find tenant", "get config", "done"}

VARIABLES
  status,      \* [Tenants -> Statuses \cup {"absent"}]
  phone,       \* Tenant.phoneNumber (unique): a number or the placeholder
  approved,    \* the tenants whose approvedAt is set
  rejected,    \* the tenants whose rejectedAt is set
  vetted,      \* tenants created active by an administrator or POST /tenants
  configured,  \* the tenants with a TenantAgentConfig row
  account,     \* [Emails -> tenant the account administers, or Nobody]
  op, at,      \* each request's operation and its next query
  of,          \* the tenant a request is about, once known
  num, mail,   \* the number and the email of a request
  reply,       \* "none", "ok", "refused" (a business error), "error"
  live,        \* history: tenants that were active with num[r] since r arrived
  steady,      \* history: those that were so, and configured, ever since
  patched,     \* history: tenants that PUT /tenants/:id changed
  crossed      \* history: tenants two reviews were past their check of at once

tables == <<status, phone, approved, rejected, vetted, configured, account>>
inputs == <<op, num, mail>>
history == <<live, steady, patched, crossed>>
vars == <<tables, inputs, at, of, reply, history>>

TypeOK ==
  /\ status \in [Tenants -> Statuses \cup {"absent"}]
  /\ phone \in [Tenants -> Numbers \cup {Pending}]
  /\ approved \subseteq Tenants /\ rejected \subseteq Tenants
  /\ vetted \subseteq Tenants /\ configured \subseteq Tenants
  /\ account \in [Emails -> Tenants \cup {Nobody}]
  /\ op \in [Requests -> Operations]
  /\ at \in [Requests -> Labels]
  /\ of \in [Requests -> Tenants \cup {Nobody}]
  /\ num \in [Requests -> Numbers]
  /\ mail \in [Requests -> Emails]
  /\ reply \in [Requests -> {"none", "ok", "refused", "error"}]
  /\ live \in [Requests -> SUBSET Tenants]
  /\ steady \in [Requests -> SUBSET Tenants]
  /\ patched \subseteq Tenants /\ crossed \subseteq Tenants

Init ==
  /\ status = [t \in Tenants |-> "absent"]
  /\ phone = [t \in Tenants |-> Pending]
  /\ approved = {} /\ rejected = {} /\ vetted = {} /\ configured = {}
  /\ account = [e \in Emails |-> Nobody]
  /\ op = [r \in Requests |-> "resolve"]
  /\ at = [r \in Requests |-> "idle"]
  /\ of = [r \in Requests |-> Nobody]
  /\ \E n \in Numbers : num = [r \in Requests |-> n]
  /\ \E e \in Emails : mail = [r \in Requests |-> e]
  /\ reply = [r \in Requests |-> "none"]
  /\ live = [r \in Requests |-> {}] /\ steady = [r \in Requests |-> {}]
  /\ patched = {} /\ crossed = {}

-----------------------------------------------------------------------------
\* The unique column Tenant.phoneNumber.  Placeholders carry the random slug and
\* never collide.
Taken(n, t) == \E u \in Tenants \ {t} : status[u] # "absent" /\ phone[u] = n

Exists(t) == status[t] # "absent"

Goto(r, l) == at' = [at EXCEPT ![r] = l] /\ UNCHANGED reply
Answer(r, a) == at' = [at EXCEPT ![r] = "done"] /\ reply' = [reply EXCEPT ![r] = a]

Idle(r) == at[r] \in {"idle", "done"}

\* The tenants a lookup may answer with, and those of them it can assemble a
\* context for.
Reached(r) == {t \in Tenants : status[t] = "active" /\ phone[t] = num[r]}
Answerable(r) == Reached(r) \cap configured

\* A review that found its tenant waiting and has not written its verdict.
Reviewing(r, t) == of[r] = t /\ at[r] \in {"read holder", "write verdict"}

\* History, kept by every step.  A lookup in flight gathers the tenants it may
\* answer with, and keeps those that were there all the time.
Lookup(r) == op[r] = "resolve" /\ ~Idle(r)
Gather ==
  /\ live' = [r \in Requests |->
       IF Lookup(r)' THEN Reached(r)' \cup (IF Idle(r) THEN {} ELSE live[r])
       ELSE IF op'[r] = "resolve" THEN live[r] ELSE {}]
  /\ steady' = [r \in Requests |->
       IF Lookup(r)' THEN Answerable(r)' \cap (IF Idle(r) THEN Tenants ELSE steady[r])
       ELSE IF op'[r] = "resolve" THEN steady[r] ELSE {}]
Observe ==
  /\ Gather
  /\ patched' = patched \cup {t \in Tenants : \E r \in Requests :
       /\ at[r] = "write patch" /\ of[r] = t /\ at'[r] = "done"
       /\ status'[t] # status[t] \/ phone'[t] # phone[t]}
  /\ crossed' = crossed \cup {t \in Tenants : \E r, q \in Requests :
       r # q /\ Reviewing(r, t)' /\ Reviewing(q, t)'}

\* A request arrives; a malformed one is answered before any query and is left
\* out.  Each operation starts with its first query.
First(o) == CASE o \in {"signup", "create"} -> "find account"
              [] o \in {"onboard", "register"} -> "create tenant"
              [] o \in Reviews -> "read tenant"
              [] o = "update" -> "write patch"
              [] OTHER -> "find by phone"

Arrive(r) ==
  /\ Idle(r)
  /\ \E o \in Ops, t \in Tenants, n \in Numbers, e \in Emails :
       /\ op' = [op EXCEPT ![r] = o]
       /\ of' = [of EXCEPT ![r] = IF o \in Reviews \cup {"update"} THEN t ELSE Nobody]
       /\ num' = [num EXCEPT ![r] = n]
       /\ mail' = [mail EXCEPT ![r] = e]
       /\ at' = [at EXCEPT ![r] = First(o)]
  /\ reply' = [reply EXCEPT ![r] = "none"]
  /\ UNCHANGED tables

\* signup, createTenantAccount: is the email registered already?
FindAccount(r) ==
  /\ at[r] = "find account"
  /\ IF account[mail[r]] = Nobody THEN Goto(r, "create tenant")
                                  ELSE Answer(r, "refused")
  /\ UNCHANGED <<tables, inputs, of>>

\* The status a new tenant gets: pending with a placeholder for a signup, active
\* when an administrator creates the account, onboarding from the form, any
\* status given to POST /tenants.
NewStatus(o) == CASE o = "signup" -> {"pending_approval"}
                  [] o = "create" -> {"active"}
                  [] o = "onboard" -> {"onboarding"}
                  [] o = "register" -> Given \cup {"onboarding"}

CreateTenant(r) ==
  /\ at[r] = "create tenant"
  /\ \E t \in Tenants, s \in NewStatus(op[r]) :
       /\ status[t] = "absent"
       /\ LET n == IF op[r] = "signup" THEN Pending ELSE num[r] IN
          IF n # Pending /\ Taken(n, t)
          THEN /\ Answer(r, "error")
               /\ UNCHANGED <<of, status, phone, vetted>>
          ELSE /\ status' = [status EXCEPT ![t] = s]
               /\ phone' = [phone EXCEPT ![t] = n]
               /\ vetted' = IF s = "active" /\ op[r] \in {"create", "register"}
                            THEN vetted \cup {t} ELSE vetted
               /\ of' = [of EXCEPT ![r] = t]
               /\ IF op[r] = "register" THEN Answer(r, "ok") ELSE Goto(r, "put config")
  /\ UNCHANGED <<inputs, approved, rejected, configured, account>>

PutConfig(r) ==
  /\ at[r] = "put config"
  /\ configured' = configured \cup {of[r]}
  /\ IF op[r] = "onboard" THEN Answer(r, "ok") ELSE Goto(r, "create account")
  /\ UNCHANGED <<inputs, of, status, phone, approved, rejected, vetted, account>>

\* Mutant: the account is written over the one its email has.
OverwriteAccount(r) ==
  /\ at[r] = "create account"
  /\ account' = [account EXCEPT ![mail[r]] = of[r]] /\ Goto(r, "commit")
  /\ UNCHANGED <<inputs, of, status, phone, approved, rejected, vetted, configured>>

\* AdminAccount.email is unique: of two requests that both passed FindAccount
\* the second fails here, its tenant and configuration already committed.
CreateAccount(r) ==
  /\ at[r] = "create account"
  /\ IF account[mail[r]] = Nobody
     THEN account' = [account EXCEPT ![mail[r]] = of[r]] /\ Goto(r, "commit")
     ELSE UNCHANGED account /\ Answer(r, "error")
  /\ UNCHANGED <<inputs, of, status, phone, approved, rejected, vetted, configured>>

\* $transaction commits a transaction no query ran in, and the handler answers.
Commit(r) ==
  /\ at[r] = "commit"
  /\ Answer(r, "ok")
  /\ UNCHANGED <<tables, inputs, of>>

\* Mutant: the handlers check that the tenant exists, not that it waits.
ReviewAnyStatus(r) ==
  /\ at[r] = "read tenant"
  /\ IF ~Exists(of[r]) THEN Answer(r, "refused")
     ELSE Goto(r, IF op[r] = "approve" THEN "read holder" ELSE "write verdict")
  /\ UNCHANGED <<tables, inputs, of>>

\* approveTenant, rejectTenant: the tenant must exist and be waiting.
ReadTenant(r) ==
  /\ at[r] = "read tenant"
  /\ IF status[of[r]] # "pending_approval" THEN Answer(r, "refused")
     ELSE Goto(r, IF op[r] = "approve" THEN "read holder" ELSE "write verdict")
  /\ UNCHANGED <<tables, inputs, of>>

\* approveTenant: the first defence against assigning a number twice.
ReadHolder(r) ==
  /\ at[r] = "read holder"
  /\ IF Taken(num[r], of[r]) THEN Answer(r, "refused") ELSE Goto(r, "write verdict")
  /\ UNCHANGED <<tables, inputs, of>>

\* Mutant: the number is assigned in a table whose phone column is not unique.
ApproveUnchecked(r) ==
  /\ at[r] = "write verdict" /\ op[r] = "approve"
  /\ status' = [status EXCEPT ![of[r]] = "active"]
  /\ phone' = [phone EXCEPT ![of[r]] = num[r]]
  /\ approved' = approved \cup {of[r]}
  /\ Goto(r, "apply template") \/ Answer(r, "ok")
  /\ UNCHANGED <<inputs, of, rejected, vetted, configured, account>>

\* The update is by id alone: it does not repeat the check of the status.  The
\* unique column is the second defence.  A tenant whose industry has a template
\* pack goes on to have it applied.
WriteApproval(r) ==
  /\ at[r] = "write verdict" /\ op[r] = "approve"
  /\ IF Taken(num[r], of[r])
     THEN Answer(r, "refused") /\ UNCHANGED <<status, phone, approved>>
     ELSE /\ status' = [status EXCEPT ![of[r]] = "active"]
          /\ phone' = [phone EXCEPT ![of[r]] = num[r]]
          /\ approved' = approved \cup {of[r]}
          /\ Goto(r, "apply template") \/ Answer(r, "ok")
  /\ UNCHANGED <<inputs, of, rejected, vetted, configured, account>>

WriteRejection(r) ==
  /\ at[r] = "write verdict" /\ op[r] = "reject"
  /\ status' = [status EXCEPT ![of[r]] = "rejected"]
  /\ rejected' = rejected \cup {of[r]}
  /\ Answer(r, "ok")
  /\ UNCHANGED <<inputs, of, phone, approved, vetted, configured, account>>

\* The pack's error, if any, goes into the answer; the approval stands.  A pack
\* applied to a tenant without configuration creates one.
ApplyTemplate(r) ==
  /\ at[r] = "apply template"
  /\ configured' \in {configured, configured \cup {of[r]}}
  /\ Answer(r, "ok")
  /\ UNCHANGED <<inputs, of, status, phone, approved, rejected, vetted, account>>

\* PUT /tenants/:id writes the fields it is given: a number, a status, or both.
\* Any status is accepted, active too, from an administrator of the platform or
\* of the tenant itself.
WritePatch(r) ==
  /\ at[r] = "write patch"
  /\ \E n \in {phone[of[r]], num[r]}, s \in Given \cup {status[of[r]]} :
       IF ~Exists(of[r]) \/ (n = num[r] /\ Taken(n, of[r]))
       THEN Answer(r, "error") /\ UNCHANGED <<status, phone>>
       ELSE /\ phone' = [phone EXCEPT ![of[r]] = n]
            /\ status' = [status EXCEPT ![of[r]] = s]
            /\ Answer(r, "ok")
  /\ UNCHANGED <<inputs, of, approved, rejected, vetted, configured, account>>

\* Mutant: the lookup matches a tenant by its number whatever its status.
FindAnyStatus(r) ==
  /\ at[r] = "find by phone"
  /\ \/ \E t \in Tenants : /\ Exists(t) /\ phone[t] = num[r]
                           /\ of' = [of EXCEPT ![r] = t] /\ Goto(r, "find tenant")
     \/ Reached(r) = {} /\ Answer(r, "refused") /\ UNCHANGED of
  /\ UNCHANGED <<tables, inputs>>

\* resolveByPhoneNumber: only an active tenant is matched ...
FindByPhone(r) ==
  /\ at[r] = "find by phone"
  /\ \/ \E t \in Reached(r) : of' = [of EXCEPT ![r] = t] /\ Goto(r, "find tenant")
     \/ Reached(r) = {} /\ Answer(r, "refused") /\ UNCHANGED of
  /\ UNCHANGED <<tables, inputs>>

\* ... and resolveByTenantId reads it again by id, without looking at its status,
FindTenant(r) ==
  /\ at[r] = "find tenant"
  /\ IF Exists(of[r]) THEN Goto(r, "get config") ELSE Answer(r, "refused")
  /\ UNCHANGED <<tables, inputs, of>>

\* then its configuration; the intents and tools that follow are only read.
GetConfig(r) ==
  /\ at[r] = "get config"
  /\ Answer(r, IF of[r] \in configured THEN "ok" ELSE "refused")
  /\ UNCHANGED <<tables, inputs, of>>

\* A query is rejected: the request is answered with an error and what its
\* earlier queries wrote stays.  (Template errors are caught: ApplyTemplate.)
QueryFails(r) ==
  /\ ~Idle(r) /\ at[r] # "apply template"
  /\ Answer(r, "error")
  /\ UNCHANGED <<tables, inputs, of>>

Step(r) ==
  \/ FindAccount(r) \/ CreateTenant(r) \/ PutConfig(r) \/ CreateAccount(r)
  \/ Commit(r) \/ ReadTenant(r) \/ ReadHolder(r) \/ WriteApproval(r)
  \/ WriteRejection(r) \/ ApplyTemplate(r) \/ WritePatch(r) \/ FindByPhone(r)
  \/ FindTenant(r) \/ GetConfig(r) \/ QueryFails(r)

Next == \E r \in Requests : (Arrive(r) \/ Step(r)) /\ Observe

Spec == Init /\ [][Next]_vars

-----------------------------------------------------------------------------
\* No number is assigned to two tenants (Tenant.phoneNumber, approveTenant's two
\* defences, PUT /tenants/:id); HolderIsReached rests on it.
NumberHeldOnce == \A t, u \in Tenants :
  Exists(t) /\ Exists(u) /\ phone[t] = phone[u] /\ phone[t] # Pending => t = u

\* The business a number belongs to is reached.  A tenant that is active with the
\* dialled number, and configured, from the arrival of a lookup to its answer is
\* the tenant that answer names; the caller is told "no such tenant" only if
\* there was none, whatever reviews, signups and updates look at the holder of
\* the number and assign it meanwhile (approveTenant, resolveByPhoneNumber).
HolderIsReached == \A r \in Requests : op[r] = "resolve" /\ at[r] = "done" =>
  /\ reply[r] = "refused" => steady[r] = {}
  /\ reply[r] = "ok" => steady[r] \subseteq {of[r]}

\* A signup or an account creation answered "ok" left a tenant its account can
\* administer and that can be routed: the rows are there however other requests
\* interleaved (signup, createTenantAccount).
SignupDelivers == \A r \in Requests :
  op[r] \in {"signup", "create"} /\ at[r] = "done" /\ reply[r] = "ok" =>
    /\ account[mail[r]] = of[r] /\ of[r] \in configured /\ Exists(of[r])

\* A tenant that no PUT /tenants/:id changed takes calls only by a review that
\* approved it or because it was created active, and then under a real number.
\* (That PUT takes any status and any number, from the tenant's own
\* administrator too.)
LiveIsReviewed == \A t \in Tenants \ patched :
  status[t] = "active" => t \in approved \cup vetted /\ phone[t] # Pending

\* A lookup that names a tenant names one that was active with that number at
\* some instant of the lookup, and that has a configuration to answer with
\* (resolveByPhoneNumber and resolveByTenantId, four reads without a snapshot).
RoutedWasLive == \A r \in Requests :
  op[r] = "resolve" /\ at[r] = "done" /\ reply[r] = "ok" =>
    of[r] \in live[r] \cap configured

\* What a reviewer was told.  A tenant whose reviewer was answered "ok" has left
\* the queue for good, however the reviews of it overlapped; and the verdict
\* stands, the approved tenant active under the number that reviewer gave, the
\* rejected one rejected, unless another review of that very tenant had also
\* passed its check of the status before either wrote: then the later write wins
\* and both were answered "ok".  Tenants changed by PUT are left out.
VerdictStands == \A r \in Requests :
  op[r] \in Reviews /\ at[r] = "done" /\ reply[r] = "ok" /\ of[r] \notin patched =>
    /\ status[of[r]] \in {"active", "rejected"}
    /\ of[r] \notin crossed =>
         IF op[r] = "approve" THEN status[of[r]] = "active" /\ phone[of[r]] = num[r]
                              ELSE status[of[r]] = "rejected"

\* Of the two verdicts a tenant gets one ("only in the state pending_approval",
\* messages of approveTenant and rejectTenant), with the same exception.
OneVerdict == approved \cap rejected \subseteq crossed \cup patched

-----------------------------------------------------------------------------
\* What a request that waits for its next query has established.
Knows(r) ==
  /\ at[r] # "idle" => op[r] \in Ops
  /\ at[r] \in {"find account", "create account", "commit"} =>
       op[r] \in {"signup", "create"}
  /\ at[r] = "create tenant" => op[r] \in {"signup", "create", "onboard", "register"}
  /\ at[r] = "put config" => op[r] \in {"signup", "create", "onboard"}
  /\ at[r] \in {"put config", "create account", "commit"} =>
       of[r] \in Tenants /\ Exists(of[r])
  /\ at[r] \in {"create account", "commit"} => of[r] \in configured
  /\ at[r] = "commit" => account[mail[r]] = of[r]
  /\ at[r] # "idle" /\ op[r] \in Reviews \cup {"update"} => of[r] \in Tenants
  /\ at[r] \in {"read tenant", "write verdict"} => op[r] \in Reviews
  /\ at[r] \in {"read holder", "apply template"} => op[r] = "approve"
  /\ at[r] \in {"read holder", "write verdict", "apply template"} => Exists(of[r])
  /\ at[r] = "write patch" => op[r] = "update"
  /\ at[r] \in {"find by phone", "find tenant", "get config"} => op[r] = "resolve"
  /\ at[r] \in {"find tenant", "get config"} => of[r] \in Tenants \cap live[r]
  /\ Lookup(r) => steady[r] \subseteq Answerable(r)
  /\ at[r] \in {"find tenant", "get config"} => /\ Exists(of[r])
                                               /\ steady[r] \subseteq {of[r]}
Established == \A r \in Requests : Knows(r)

\* The inductive invariant of Spec.
IInv == /\ TypeOK /\ Established
        /\ NumberHeldOnce /\ SignupDelivers /\ LiveIsReviewed /\ RoutedWasLive
        /\ HolderIsReached

\* What a review in flight relies on, tenant by tenant: of a tenant no two
\* reviews crossed and no PUT changed, the one past its check still finds it
\* waiting when it writes.
Unmixed(t) == t \notin crossed \cup patched
Believed(r) ==
  /\ of[r] \in Tenants /\ Unmixed(of[r]) =>
       /\ at[r] \in {"read holder", "write verdict"} => status[of[r]] = "pending_approval"
       /\ at[r] = "apply template" => status[of[r]] = "active" /\ phone[of[r]] = num[r]
       /\ op[r] \in Reviews /\ at[r] = "done" /\ reply[r] = "ok" =>
            IF op[r] = "approve" THEN status[of[r]] = "active" /\ phone[of[r]] = num[r]
                                 ELSE status[of[r]] = "rejected"
  /\ at[r] = "apply template" => of[r] \in approved
  /\ op[r] \in Reviews /\ at[r] = "done" /\ reply[r] = "ok" =>
       of[r] \in approved \cup rejected
ReviewInv ==
  /\ \A t \in Tenants \ crossed : \A r, q \in Requests :
       Reviewing(r, t) /\ Reviewing(q, t) => r = q
  /\ \A r \in Requests : Believed(r)
  /\ \A t \in Tenants :
       /\ t \in (approved \cup rejected) \ patched => status[t] \in {"active", "rejected"}
       /\ status[t] = "absent" => t \notin approved \cup rejected
       /\ Unmixed(t) => /\ t \in approved => status[t] = "active"
                        /\ t \in rejected => status[t] = "rejected"
=============================================================================
