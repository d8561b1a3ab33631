------------------------- MODULE TenantReviewProofs -------------------------
(* Theorems about TenantReview, for any number of tenants, numbers and         *)
(* concurrent requests: numbers are held once and their holders are reached,   *)
(* signups deliver, lookups answer with live tenants, verdicts stand.          *)
EXTENDS TenantReview, TLAPS

-----------------------------------------------------------------------------
(* What every step has in common: it belongs to one request, leaves the others *)
(* where they were, and never removes a row.                                   *)

Same(q) == /\ op'[q] = op[q] /\ at'[q] = at[q] /\ of'[q] = of[q]
           /\ num'[q] = num[q] /\ mail'[q] = mail[q] /\ reply'[q] = reply[q]
OthersSame(r) == \A q \in Requests : q # r => Same(q)

RowsStay ==
  /\ \A t \in Tenants : Exists(t) => status'[t] # "absent"
  /\ configured \subseteq configured'
  /\ \A e \in Emails : account[e] # Nobody => account'[e] = account[e]

\* A request moves to its next query, or answers: nobody else is affected.
LEMMA GotoMoves ==
  ASSUME TypeOK, NEW r \in Requests, NEW l \in Labels, Goto(r, l)
  PROVE  /\ at' \in [Requests -> Labels]
         /\ at'[r] = l /\ reply' = reply
         /\ \A q \in Requests : q # r => at'[q] = at[q]
BY DEF Goto, TypeOK

LEMMA AnswerMoves ==
  ASSUME TypeOK, NEW r \in Requests,
         NEW a \in {"none", "ok", "refused", "error"}, Answer(r, a)
  PROVE  /\ at' \in [Requests -> Labels]
         /\ reply' \in [Requests -> {"none", "ok", "refused", "error"}]
         /\ at'[r] = "done" /\ reply'[r] = a
         /\ \A q \in Requests : q # r => at'[q] = at[q] /\ reply'[q] = reply[q]
BY DEF Answer, TypeOK, Labels

\* What Observe adds to the history.
LEMMA HistoryGrows ==
  ASSUME TypeOK, Observe, NEW q \in Requests
  PROVE  /\ Lookup(q)' /\ ~Idle(q) => live'[q] = live[q] \cup Reached(q)'
         /\ Lookup(q)' /\ ~Idle(q) => steady'[q] \subseteq steady[q]
         /\ Lookup(q)' => steady'[q] \subseteq Answerable(q)'
         /\ op'[q] = "resolve" /\ ~Lookup(q)' => live'[q] = live[q] /\ steady'[q] = steady[q]
BY DEF Observe, Gather

LEMMA HistoryTyped ==
  ASSUME TypeOK, Observe
  PROVE  /\ live' \in [Requests -> SUBSET Tenants]
         /\ steady' \in [Requests -> SUBSET Tenants]
         /\ patched' \subseteq Tenants /\ crossed' \subseteq Tenants
         /\ patched \subseteq patched' /\ crossed \subseteq crossed'
<1>1. \A q \in Requests : Reached(q)' \subseteq Tenants /\ Answerable(q)' \subseteq Tenants
  BY DEF Reached, Answerable
<1>2. \A q \in Requests :
        (IF Lookup(q)' THEN Reached(q)' \cup (IF Idle(q) THEN {} ELSE live[q])
         ELSE IF op'[q] = "resolve" THEN live[q] ELSE {}) \in SUBSET Tenants
  BY <1>1 DEF TypeOK
<1>3. \A q \in Requests :
        (IF Lookup(q)' THEN Answerable(q)' \cap (IF Idle(q) THEN Tenants ELSE steady[q])
         ELSE IF op'[q] = "resolve" THEN steady[q] ELSE {}) \in SUBSET Tenants
  BY <1>1 DEF TypeOK
<1>4. live' \in [Requests -> SUBSET Tenants]
  BY <1>2 DEF Observe, Gather
<1>5. steady' \in [Requests -> SUBSET Tenants]
  BY <1>3 DEF Observe, Gather
<1> QED
  BY <1>4, <1>5 DEF Observe, TypeOK

\* Types and frame, action by action.
Framed(r) == /\ status' \in [Tenants -> Statuses \cup {"absent"}]
             /\ phone' \in [Tenants -> Numbers \cup {Pending}]
             /\ approved' \subseteq Tenants /\ rejected' \subseteq Tenants
             /\ vetted' \subseteq Tenants /\ configured' \subseteq Tenants
             /\ account' \in [Emails -> Tenants \cup {Nobody}]
             /\ op' \in [Requests -> Operations]
             /\ at' \in [Requests -> Labels]
             /\ of' \in [Requests -> Tenants \cup {Nobody}]
             /\ num' \in [Requests -> Numbers]
             /\ mail' \in [Requests -> Emails]
             /\ reply' \in [Requests -> {"none", "ok", "refused", "error"}]
             /\ OthersSame(r) /\ RowsStay

LEMMA Frame ==
  ASSUME TypeOK, Established, NEW r \in Requests, Arrive(r) \/ Step(r)
  PROVE  Framed(r)
<1> USE DEF Framed, OthersSame, Same, RowsStay, Exists
<1> DEFINE Moved ==
      /\ at' \in [Requests -> Labels]
      /\ reply' \in [Requests -> {"none", "ok", "refused", "error"}]
      /\ \A q \in Requests : q # r => at'[q] = at[q] /\ reply'[q] = reply[q]
<1>a. ASSUME NEW l \in Labels, Goto(r, l) PROVE Moved
  BY <1>a, GotoMoves DEF TypeOK
<1>b. ASSUME NEW a \in {"none", "ok", "refused", "error"}, Answer(r, a) PROVE Moved
  BY <1>b, AnswerMoves
<1> HIDE DEF Moved
<1>1. CASE Arrive(r)
  <2> PICK o \in Ops, t \in Tenants, n \in Numbers, e \in Emails :
        /\ op' = [op EXCEPT ![r] = o]
        /\ of' = [of EXCEPT ![r] = IF o \in Reviews \cup {"update"} THEN t ELSE Nobody]
        /\ num' = [num EXCEPT ![r] = n]
        /\ mail' = [mail EXCEPT ![r] = e]
        /\ at' = [at EXCEPT ![r] = First(o)]
    BY <1>1 DEF Arrive
  <2>1. First(o) \in Labels
    BY DEF First, Labels
  <2>2. reply' = [reply EXCEPT ![r] = "none"] /\ UNCHANGED tables
    BY <1>1 DEF Arrive
  <2> QED
    BY <2>1, <2>2, OpsKnown DEF TypeOK, tables
<1>2. CASE FindAccount(r)
  <2>1. Moved /\ UNCHANGED <<tables, inputs, of>>
    BY <1>2, <1>a, <1>b DEF FindAccount, Labels
  <2> QED
    BY <2>1 DEF TypeOK, tables, inputs, Moved
<1>3. CASE CreateTenant(r)
  <2>1. Moved
    BY <1>3, <1>a, <1>b DEF CreateTenant, Labels
  <2>2. PICK t \in Tenants, s \in NewStatus(op[r]) :
          /\ status[t] = "absent"
          /\ \/ UNCHANGED <<of, status, phone, vetted>>
             \/ /\ status' = [status EXCEPT ![t] = s]
                /\ phone' = [phone EXCEPT ![t] = IF op[r] = "signup" THEN Pending ELSE num[r]]
                /\ vetted' = IF s = "active" /\ op[r] \in {"create", "register"} THEN vetted \cup {t} ELSE vetted
                /\ of' = [of EXCEPT ![r] = t]
    BY <1>3 DEF CreateTenant
  <2>3. s \in Statuses
    BY <1>3, GivenKnown DEF CreateTenant, NewStatus, Established, Knows, Statuses
  <2>4. UNCHANGED <<op, num, mail, approved, rejected, configured, account>>
    BY <1>3 DEF CreateTenant, inputs
  <2>5. num[r] \in Numbers /\ "absent" \notin Statuses
    BY DEF TypeOK, Statuses
  <2>6. CASE UNCHANGED <<of, status, phone, vetted>>
    BY <2>1, <2>4, <2>6 DEF TypeOK, Moved
  <2>7. CASE /\ status' = [status EXCEPT ![t] = s]
             /\ phone' = [phone EXCEPT ![t] = IF op[r] = "signup" THEN Pending ELSE num[r]]
             /\ vetted' = IF s = "active" /\ op[r] \in {"create", "register"} THEN vetted \cup {t} ELSE vetted
             /\ of' = [of EXCEPT ![r] = t]
    BY <2>1, <2>2, <2>3, <2>4, <2>5, <2>7 DEF TypeOK, Moved
  <2> QED
    BY <2>2, <2>6, <2>7
<1>4. CASE PutConfig(r)
  <2>1. Moved /\ of[r] \in Tenants
    BY <1>4, <1>a, <1>b DEF PutConfig, Labels, Established, Knows
  <2>2. UNCHANGED <<op, num, mail, of, status, phone, approved, rejected, vetted, account>>
    BY <1>4 DEF PutConfig, inputs
  <2>3. configured' = configured \cup {of[r]}
    BY <1>4 DEF PutConfig
  <2> QED
    BY <2>1, <2>2, <2>3 DEF TypeOK, Moved
<1>5. CASE CreateAccount(r)
  <2>1. Moved /\ of[r] \in Tenants /\ mail[r] \in Emails
    BY <1>5, <1>a, <1>b DEF CreateAccount, Labels, Established, Knows, TypeOK
  <2>2. UNCHANGED <<op, num, mail, of, status, phone, approved, rejected, vetted, configured>>
    BY <1>5 DEF CreateAccount, inputs
  <2>3. UNCHANGED account \/ /\ account[mail[r]] = Nobody
                             /\ account' = [account EXCEPT ![mail[r]] = of[r]]
    BY <1>5 DEF CreateAccount
  <2> QED
    BY <2>1, <2>2, <2>3 DEF TypeOK, Moved
<1>6. CASE Commit(r)
  <2>1. Moved /\ UNCHANGED <<tables, inputs, of>>
    BY <1>6, <1>a, <1>b DEF Commit, Labels
  <2> QED
    BY <2>1 DEF TypeOK, tables, inputs, Moved
<1>7. CASE ReadTenant(r)
  <2>1. Moved /\ UNCHANGED <<tables, inputs, of>>
    BY <1>7, <1>a, <1>b DEF ReadTenant, Labels
  <2> QED
    BY <2>1 DEF TypeOK, tables, inputs, Moved
<1>8. CASE ReadHolder(r)
  <2>1. Moved /\ UNCHANGED <<tables, inputs, of>>
    BY <1>8, <1>a, <1>b DEF ReadHolder, Labels
  <2> QED
    BY <2>1 DEF TypeOK, tables, inputs, Moved
<1>9. CASE WriteApproval(r)
  <2>1. Moved /\ of[r] \in Tenants /\ num[r] \in Numbers /\ "active" # "absent"
    BY <1>9, <1>a, <1>b DEF WriteApproval, Labels, Established, Knows, Reviews, TypeOK
  <2>2. UNCHANGED <<op, num, mail, of, rejected, vetted, configured, account>>
    BY <1>9 DEF WriteApproval, inputs
  <2>3. CASE UNCHANGED <<status, phone, approved>>
    BY <2>1, <2>2, <2>3 DEF TypeOK, Moved
  <2>4. CASE /\ status' = [status EXCEPT ![of[r]] = "active"]
             /\ phone' = [phone EXCEPT ![of[r]] = num[r]]
             /\ approved' = approved \cup {of[r]}
    BY <2>1, <2>2, <2>4 DEF TypeOK, Moved, Statuses
  <2> QED
    BY <1>9, <2>3, <2>4 DEF WriteApproval
<1>10. CASE WriteRejection(r)
  <2>1. Moved /\ of[r] \in Tenants /\ "rejected" # "absent"
    BY <1>10, <1>b DEF WriteRejection, Established, Knows, Reviews
  <2>2. UNCHANGED <<op, num, mail, of, phone, approved, vetted, configured, account>>
    BY <1>10 DEF WriteRejection, inputs
  <2>3. status' = [status EXCEPT ![of[r]] = "rejected"] /\ rejected' = rejected \cup {of[r]}
    BY <1>10 DEF WriteRejection
  <2> QED
    BY <2>1, <2>2, <2>3 DEF TypeOK, Moved, Statuses
<1>11. CASE ApplyTemplate(r)
  <2>1. Moved /\ of[r] \in Tenants
    BY <1>11, <1>b DEF ApplyTemplate, Established, Knows, Reviews
  <2>2. UNCHANGED <<op, num, mail, of, status, phone, approved, rejected, vetted, account>>
    BY <1>11 DEF ApplyTemplate, inputs
  <2>3. configured' \in {configured, configured \cup {of[r]}}
    BY <1>11 DEF ApplyTemplate
  <2> QED
    BY <2>1, <2>2, <2>3 DEF TypeOK, Moved
<1>12. CASE WritePatch(r)
  <2>1. Moved /\ of[r] \in Tenants /\ num[r] \in Numbers
    BY <1>12, <1>b DEF WritePatch, Established, Knows, TypeOK
  <2>2. UNCHANGED <<op, num, mail, of, approved, rejected, vetted, configured, account>>
    BY <1>12 DEF WritePatch, inputs
  <2>3. PICK n \in {phone[of[r]], num[r]}, s \in Given \cup {status[of[r]]} :
          \/ UNCHANGED <<status, phone>>
          \/ /\ Exists(of[r])
             /\ phone' = [phone EXCEPT ![of[r]] = n]
             /\ status' = [status EXCEPT ![of[r]] = s]
    BY <1>12 DEF WritePatch
  <2>4. CASE UNCHANGED <<status, phone>>
    BY <2>1, <2>2, <2>4 DEF TypeOK, Moved
  <2>5. CASE /\ Exists(of[r])
             /\ phone' = [phone EXCEPT ![of[r]] = n]
             /\ status' = [status EXCEPT ![of[r]] = s]
    <3>1. s \in Statuses /\ s # "absent" /\ n \in Numbers \cup {Pending}
      BY <2>1, <2>3, <2>5, GivenKnown DEF TypeOK, Statuses
    <3>2. status' \in [Tenants -> Statuses \cup {"absent"}] /\ phone' \in [Tenants -> Numbers \cup {Pending}]
      BY <2>5, <3>1 DEF TypeOK
    <3>3. \A t \in Tenants : status[t] # "absent" => status'[t] # "absent"
      BY <2>1, <2>5, <3>1 DEF TypeOK
    <3> QED
      BY <2>1, <2>2, <3>2, <3>3 DEF TypeOK, Moved
  <2> QED
    BY <2>3, <2>4, <2>5
<1>13. CASE FindByPhone(r)
  <2>1. Moved /\ UNCHANGED <<tables, inputs>>
    BY <1>13, <1>a, <1>b DEF FindByPhone, Labels
  <2>2. UNCHANGED of \/ \E t \in Tenants : of' = [of EXCEPT ![r] = t]
    BY <1>13 DEF FindByPhone, Reached
  <2> QED
    BY <2>1, <2>2 DEF TypeOK, tables, inputs, Moved
<1>14. CASE FindTenant(r)
  <2>1. Moved /\ UNCHANGED <<tables, inputs, of>>
    BY <1>14, <1>a, <1>b DEF FindTenant, Labels
  <2> QED
    BY <2>1 DEF TypeOK, tables, inputs, Moved
<1>15. CASE GetConfig(r)
  <2>1. Moved /\ UNCHANGED <<tables, inputs, of>>
    BY <1>15, <1>a, <1>b DEF GetConfig, Labels
  <2> QED
    BY <2>1 DEF TypeOK, tables, inputs, Moved
<1>16. CASE QueryFails(r)
  <2>1. Moved /\ UNCHANGED <<tables, inputs, of>>
    BY <1>16, <1>a, <1>b DEF QueryFails, Labels
  <2> QED
    BY <2>1 DEF TypeOK, tables, inputs, Moved
<1> QED
  BY <1>1, <1>2, <1>3, <1>4, <1>5, <1>6, <1>7, <1>8, <1>9, <1>10, <1>11, <1>12, <1>13, <1>14, <1>15, <1>16 DEF Step

-----------------------------------------------------------------------------
(* What each request knows, and what its answer promised.                      *)

Promised(r) ==
  /\ op[r] \in {"signup", "create"} /\ at[r] = "done" /\ reply[r] = "ok" =>
       account[mail[r]] = of[r] /\ of[r] \in configured /\ Exists(of[r])
  /\ op[r] = "resolve" /\ at[r] = "done" /\ reply[r] = "ok" =>
       of[r] \in live[r] \cap configured
  /\ op[r] = "resolve" /\ at[r] = "done" =>
       /\ reply[r] = "refused" => steady[r] = {}
       /\ reply[r] = "ok" => steady[r] \subseteq {of[r]}

\* A request keeps what it knows while another one takes a step.
LEMMA OthersKeep ==
  ASSUME TypeOK, NEW r \in Requests, NEW q \in Requests, q # r,
         Knows(q), Promised(q), Framed(r), Observe
  PROVE  Knows(q)' /\ Promised(q)'
<1>1. Same(q) /\ RowsStay
  BY DEF Framed, OthersSame
<1>2. at[q] # "idle" /\ op[q] = "resolve" =>
        live[q] \subseteq live'[q] /\ steady'[q] \subseteq steady[q]
  BY <1>1, HistoryGrows DEF Same, Idle, Lookup
<1>l. Lookup(q)' => steady'[q] \subseteq Answerable(q)'
  BY HistoryGrows
<1>3. of[q] \in Tenants \cup {Nobody} /\ mail[q] \in Emails
  BY DEF TypeOK
<1>4. \A t \in Tenants : Exists(t) => Exists(t)'
  BY <1>1 DEF RowsStay, Exists
<1>5. of[q] \notin Tenants => of[q] = Nobody /\ Nobody \notin Tenants
  BY <1>3, Distinct
<1>6. Knows(q)'
  <2>1. at[q] \in {"put config", "create account", "commit"} =>
          of[q] \in Tenants /\ status'[of[q]] # "absent"
    BY <1>4 DEF Knows, Exists
  <2>2. at[q] \in {"create account", "commit"} => of[q] \in configured'
    BY <1>1 DEF Knows, RowsStay
  <2>3. at[q] = "commit" => account'[mail[q]] = of[q]
    BY <1>1, <1>3, <1>5, <2>1, Distinct DEF Knows, RowsStay
  <2>4. at[q] \in {"read holder", "write verdict", "apply template"} => status'[of[q]] # "absent"
    <3> SUFFICES ASSUME at[q] \in {"read holder", "write verdict", "apply template"}
                 PROVE  status'[of[q]] # "absent"
      OBVIOUS
    <3>1. op[q] \in Reviews
      BY DEF Knows, Reviews
    <3>2. of[q] \in Tenants /\ Exists(of[q])
      BY <3>1 DEF Knows
    <3> QED
      BY <1>4, <3>2 DEF Exists
  <2>5. at[q] \in {"find tenant", "get config"} =>
          /\ of[q] \in Tenants \cap live'[q] /\ status'[of[q]] # "absent"
          /\ steady'[q] \subseteq {of[q]}
    BY <1>2, <1>4 DEF Knows, Exists
  <2> QED
    BY <1>1, <1>l, <2>1, <2>2, <2>3, <2>4, <2>5 DEF Knows, Same, Exists
<1>7. op[q] \in {"signup", "create"} /\ at[q] = "done" /\ reply[q] = "ok" =>
        (account[mail[q]] = of[q] /\ of[q] \in configured /\ Exists(of[q]))'
  <2> SUFFICES ASSUME op[q] \in {"signup", "create"}, at[q] = "done", reply[q] = "ok"
               PROVE  (account[mail[q]] = of[q] /\ of[q] \in configured /\ Exists(of[q]))'
    OBVIOUS
  <2>1. of[q] \in Tenants /\ account[mail[q]] = of[q] /\ of[q] \in configured /\ Exists(of[q])
    BY DEF Promised, TypeOK
  <2> QED
    BY <1>1, <1>3, <1>4, <2>1, Distinct DEF Same, RowsStay
<1>8. Promised(q)'
  BY <1>1, <1>2, <1>7 DEF Promised, Same, RowsStay
<1> QED
  BY <1>6, <1>8

\* The request that takes the step knows what its next query relies on.
LEMMA SelfKeeps ==
  ASSUME TypeOK, NumberHeldOnce, NEW r \in Requests, Knows(r), Promised(r), Framed(r),
         Observe, Arrive(r) \/ Step(r)
  PROVE  Knows(r)' /\ Promised(r)'
<1>t. /\ r \in Requests /\ of[r] \in Tenants \cup {Nobody} /\ mail[r] \in Emails
      /\ num[r] \in Numbers /\ op[r] \in Operations
  BY DEF TypeOK
<1>l. /\ op'[r] = "resolve" /\ at'[r] # "idle" /\ ~Idle(r) =>
           live[r] \subseteq live'[r] /\ steady'[r] \subseteq steady[r]
      /\ op'[r] = "resolve" /\ at'[r] \notin {"idle", "done"} /\ ~Idle(r) =>
           Reached(r)' \subseteq live'[r]
      /\ op'[r] = "resolve" /\ at'[r] = "done" => live'[r] = live[r] /\ steady'[r] = steady[r]
      /\ Lookup(r)' => steady'[r] \subseteq Answerable(r)'
  BY HistoryGrows DEF Lookup, Idle
<1>k. op[r] = "resolve" /\ ~Idle(r) => steady[r] \subseteq Reached(r) \cap configured
  BY DEF Knows, Lookup, Answerable
<1>h. \A t, u \in Reached(r) : t = u
  BY <1>t, Distinct DEF Reached, NumberHeldOnce, Exists
<1>g. ASSUME NEW l \in Labels, Goto(r, l) PROVE at'[r] = l
  BY <1>g, GotoMoves
<1>d. ASSUME NEW a \in {"none", "ok", "refused", "error"}, Answer(r, a)
      PROVE  at'[r] = "done" /\ reply'[r] = a
  BY <1>d, AnswerMoves
<1>s. RowsStay /\ \A t \in Tenants : Exists(t) => Exists(t)'
  BY DEF Framed, RowsStay, Exists
<1>i. Idle(r) <=> at[r] = "idle" \/ at[r] = "done"
  BY DEF Idle
<1>1. CASE Arrive(r)
  <2> PICK o \in Ops, t \in Tenants :
        /\ op' = [op EXCEPT ![r] = o]
        /\ of' = [of EXCEPT ![r] = IF o \in Reviews \cup {"update"} THEN t ELSE Nobody]
        /\ at' = [at EXCEPT ![r] = First(o)]
    BY <1>1 DEF Arrive
  <2>1. op'[r] = o /\ at'[r] = First(o) /\ (o \in Reviews \cup {"update"} => of'[r] \in Tenants)
    BY DEF TypeOK
  <2>2. o \in Operations
    BY OpsKnown
  <2>3. \/ o \in {"signup", "create"} /\ at'[r] = "find account"
        \/ o \in {"onboard", "register"} /\ at'[r] = "create tenant"
        \/ o \in Reviews /\ at'[r] = "read tenant"
        \/ o = "update" /\ at'[r] = "write patch"
        \/ o = "resolve" /\ at'[r] = "find by phone"
    BY <2>1, <2>2 DEF First, Operations, Reviews
  <2> QED
    BY <1>l, <2>1, <2>3 DEF Knows, Promised, Reviews, Idle
<1>2. CASE FindAccount(r)
  BY <1>2, <1>t, <1>l, <1>g, <1>d, <1>s, <1>i DEF FindAccount, Knows, Promised, Labels, inputs, tables, Reviews, RowsStay
<1>3. CASE CreateTenant(r)
  <2>1. PICK t \in Tenants, s \in NewStatus(op[r]) :
          \/ Answer(r, "error") /\ UNCHANGED of
          \/ /\ status' = [status EXCEPT ![t] = s]
             /\ of' = [of EXCEPT ![r] = t]
             /\ IF op[r] = "register" THEN Answer(r, "ok") ELSE Goto(r, "put config")
    BY <1>3 DEF CreateTenant
  <2>2. s \in Statuses /\ op[r] \in {"signup", "create", "onboard", "register"} /\ op[r] \in Ops
    BY <1>3, GivenKnown DEF CreateTenant, NewStatus, Knows, Statuses
  <2>3. op'[r] = op[r] /\ mail'[r] = mail[r]
    BY <1>3 DEF CreateTenant, inputs
  <2>4. CASE Answer(r, "error") /\ UNCHANGED of
    BY <1>l, <1>d, <2>2, <2>3, <2>4 DEF Knows, Promised, Reviews
  <2>5. CASE /\ status' = [status EXCEPT ![t] = s]
             /\ of' = [of EXCEPT ![r] = t]
             /\ IF op[r] = "register" THEN Answer(r, "ok") ELSE Goto(r, "put config")
    <3>1. of'[r] = t /\ status'[t] = s /\ s # "absent"
      BY <2>2, <2>5 DEF TypeOK, Statuses
    <3>2. \/ op[r] = "register" /\ at'[r] = "done"
          \/ op[r] # "register" /\ at'[r] = "put config"
      BY <1>d, <1>g, <2>5 DEF Labels
    <3> QED
      BY <1>l, <2>2, <2>3, <3>1, <3>2 DEF Knows, Promised, Reviews, Exists
  <2> QED
    BY <2>1, <2>4, <2>5
<1>4. CASE PutConfig(r)
  <2>1. /\ op'[r] = op[r] /\ mail'[r] = mail[r] /\ of'[r] = of[r]
        /\ of[r] \in configured' /\ status' = status
    BY <1>4 DEF PutConfig, inputs
  <2>2. /\ of[r] \in Tenants /\ Exists(of[r]) /\ op[r] \in Ops
        /\ op[r] \in {"signup", "create", "onboard"}
    BY <1>4 DEF PutConfig, Knows
  <2>3. (op[r] = "onboard" /\ at'[r] = "done") \/ (op[r] # "onboard" /\ at'[r] = "create account")
    BY <1>4, <1>d, <1>g DEF PutConfig, Labels
  <2>4. CASE op[r] = "onboard" /\ at'[r] = "done"
    BY <1>l, <2>1, <2>2, <2>4 DEF Knows, Promised, Reviews, Exists
  <2>5. CASE op[r] # "onboard" /\ at'[r] = "create account"
    BY <1>l, <2>1, <2>2, <2>5 DEF Knows, Promised, Reviews, Exists
  <2> QED
    BY <2>3, <2>4, <2>5
<1>5. CASE CreateAccount(r)
  <2>1. /\ op'[r] = op[r] /\ mail'[r] = mail[r] /\ of'[r] = of[r]
        /\ configured' = configured /\ status' = status
    BY <1>5 DEF CreateAccount, inputs
  <2>2. /\ of[r] \in Tenants /\ Exists(of[r]) /\ op[r] \in Ops
        /\ of[r] \in configured /\ op[r] \in {"signup", "create"}
    BY <1>5 DEF CreateAccount, Knows
  <2>3. \/ at'[r] = "commit" /\ account'[mail[r]] = of[r]
        \/ at'[r] = "done" /\ reply'[r] = "error"
    <3>1. CASE account[mail[r]] = Nobody
      <4>1. account' = [account EXCEPT ![mail[r]] = of[r]] /\ Goto(r, "commit")
        BY <1>5, <3>1 DEF CreateAccount
      <4> QED
        BY <1>t, <1>g, <4>1 DEF TypeOK, Labels
    <3>2. CASE account[mail[r]] # Nobody
      BY <1>5, <1>d, <3>2 DEF CreateAccount
    <3> QED
      BY <3>1, <3>2
  <2> QED
    BY <1>l, <2>1, <2>2, <2>3 DEF Knows, Promised, Reviews, Exists
<1>6. CASE Commit(r)
  BY <1>6, <1>t, <1>l, <1>g, <1>d, <1>s, <1>i DEF Commit, Knows, Promised, Labels, inputs, tables, Reviews, RowsStay
<1>7. CASE ReadTenant(r)
  <2>1. op'[r] = op[r] /\ of'[r] = of[r] /\ status' = status
    BY <1>7 DEF ReadTenant, inputs, tables
  <2>2. op[r] \in Reviews /\ op[r] \in Ops /\ of[r] \in Tenants
    BY <1>7 DEF ReadTenant, Knows
  <2>3. \/ at'[r] = "done"
        \/ /\ status[of[r]] = "pending_approval"
           /\ (op[r] = "approve" /\ at'[r] = "read holder") \/ at'[r] = "write verdict"
    BY <1>7, <1>d, <1>g DEF ReadTenant, Labels
  <2> QED
    BY <1>l, <2>1, <2>2, <2>3 DEF Knows, Promised, Reviews, Exists
<1>8. CASE ReadHolder(r)
  BY <1>8, <1>t, <1>l, <1>g, <1>d, <1>s, <1>i DEF ReadHolder, Knows, Promised, Labels, inputs, tables, Reviews, RowsStay
<1>9. CASE WriteApproval(r)
  BY <1>9, <1>t, <1>l, <1>g, <1>d, <1>s, <1>i DEF WriteApproval, Knows, Promised, Labels, inputs, tables, Reviews, RowsStay
<1>10. CASE WriteRejection(r)
  BY <1>10, <1>t, <1>l, <1>g, <1>d, <1>s, <1>i DEF WriteRejection, Knows, Promised, Labels, inputs, tables, Reviews, RowsStay
<1>11. CASE ApplyTemplate(r)
  BY <1>11, <1>t, <1>l, <1>g, <1>d, <1>s, <1>i DEF ApplyTemplate, Knows, Promised, Labels, inputs, tables, Reviews, RowsStay
<1>12. CASE WritePatch(r)
  BY <1>12, <1>t, <1>l, <1>g, <1>d, <1>s, <1>i DEF WritePatch, Knows, Promised, Labels, inputs, tables, Reviews, RowsStay
<1>13. CASE FindByPhone(r)
  <2>1. /\ op'[r] = op[r] /\ op[r] = "resolve" /\ op[r] \in Ops
        /\ UNCHANGED <<status, phone, num, configured>>
    BY <1>13 DEF FindByPhone, Knows, inputs, tables
  <2>2. at[r] = "find by phone" /\ Reached(r)' = Reached(r)
    BY <1>13, <2>1 DEF FindByPhone, Reached
  <2>3. CASE at'[r] = "done" /\ reply'[r] = "refused" /\ Reached(r) = {}
    <3>1. steady'[r] = {}
      BY <1>l, <1>k, <1>i, <2>1, <2>2, <2>3
    <3> QED
      BY <1>l, <2>1, <2>3, <3>1 DEF Knows, Promised, Reviews
  <2>4. CASE at'[r] = "find tenant" /\ of'[r] \in Reached(r)
    <3>1. of'[r] \in Tenants \cap live'[r] /\ status'[of'[r]] = "active"
      BY <1>l, <1>i, <2>1, <2>2, <2>4 DEF Reached
    <3>2. steady'[r] \subseteq {of'[r]}
      BY <1>l, <1>k, <1>h, <1>i, <2>1, <2>2, <2>4
    <3> QED
      BY <1>l, <2>1, <2>4, <3>1, <3>2 DEF Knows, Promised, Reviews, Exists
  <2>5. \/ at'[r] = "done" /\ reply'[r] = "refused" /\ Reached(r) = {}
        \/ at'[r] = "find tenant" /\ of'[r] \in Reached(r)
    <3>1. CASE \E t \in Reached(r) : of' = [of EXCEPT ![r] = t] /\ Goto(r, "find tenant")
      <4> PICK t \in Reached(r) : of' = [of EXCEPT ![r] = t] /\ Goto(r, "find tenant")
        BY <3>1
      <4> QED
        BY <1>g DEF Labels, TypeOK
    <3>2. CASE Reached(r) = {} /\ Answer(r, "refused")
      BY <1>d, <3>2
    <3> QED
      BY <1>13, <3>1, <3>2 DEF FindByPhone
  <2> QED
    BY <2>3, <2>4, <2>5
<1>14. CASE FindTenant(r)
  <2>1. /\ op'[r] = op[r] /\ op[r] = "resolve" /\ op[r] \in Ops
        /\ UNCHANGED <<status, of>> /\ at[r] = "find tenant"
    BY <1>14 DEF FindTenant, Knows, inputs, tables
  <2>2. of[r] \in Tenants \cap live[r] /\ Exists(of[r]) /\ steady[r] \subseteq {of[r]}
    BY <2>1 DEF Knows
  <2>3. at'[r] = "get config"
    BY <1>14, <1>g, <2>2 DEF FindTenant, Labels
  <2>4. live[r] \subseteq live'[r] /\ steady'[r] \subseteq steady[r]
    BY <1>l, <1>i, <2>1, <2>3
  <2> QED
    BY <1>l, <2>1, <2>2, <2>3, <2>4 DEF Knows, Promised, Reviews, Exists
<1>15. CASE GetConfig(r)
  <2>1. /\ op'[r] = op[r] /\ op[r] = "resolve" /\ op[r] \in Ops
        /\ UNCHANGED <<status, of, configured>> /\ at[r] = "get config"
    BY <1>15 DEF GetConfig, Knows, inputs, tables
  <2>2. of[r] \in Tenants \cap live[r] /\ steady[r] \subseteq {of[r]}
    BY <2>1 DEF Knows
  <2>3. steady[r] \subseteq configured
    BY <1>k, <1>i, <2>1
  <2>4. at'[r] = "done" /\ reply'[r] = IF of[r] \in configured THEN "ok" ELSE "refused"
    BY <1>15, <1>d DEF GetConfig
  <2>5. live'[r] = live[r] /\ steady'[r] = steady[r]
    BY <1>l, <2>1, <2>4
  <2>6. /\ reply'[r] = "refused" => steady'[r] = {}
        /\ reply'[r] = "ok" => steady'[r] \subseteq {of[r]} /\ of[r] \in live'[r] \cap configured
    BY <2>2, <2>3, <2>4, <2>5
  <2> QED
    BY <1>l, <2>1, <2>4, <2>6 DEF Knows, Promised, Reviews
<1>16. CASE QueryFails(r)
  BY <1>16, <1>t, <1>l, <1>g, <1>d, <1>s, <1>i DEF QueryFails, Knows, Promised, Labels, inputs, tables, Reviews, RowsStay
<1> QED
  BY <1>1, <1>2, <1>3, <1>4, <1>5, <1>6, <1>7, <1>8, <1>9, <1>10, <1>11, <1>12, <1>13, <1>14, <1>15, <1>16 DEF Step

-----------------------------------------------------------------------------
(* The writes that touch a tenant's status or number.                          *)

Untouched == UNCHANGED <<status, phone, approved, vetted>>
Written(t, s, n) == /\ t \in Tenants /\ s \in Statuses
                    /\ status' = [status EXCEPT ![t] = s]
                    /\ phone' = [phone EXCEPT ![t] = n]
                    /\ n \in Numbers => ~Taken(n, t)
                    /\ n \in Numbers \cup {Pending, phone[t]}
                    /\ approved \subseteq approved' /\ vetted \subseteq vetted'
                    /\ s = "active" /\ t \notin patched' =>
                         t \in approved' \cup vetted' /\ n # Pending

LEMMA TableWrites ==
  ASSUME TypeOK, NumberHeldOnce, LiveIsReviewed, NEW r \in Requests, Knows(r), Observe,
         Arrive(r) \/ Step(r)
  PROVE  Untouched \/ \E t \in Tenants, s \in Statuses, n \in Numbers \cup {Pending} :
                        Written(t, s, n)
<1>t. num[r] \in Numbers /\ Pending \notin Numbers /\ op[r] \in Operations
  BY Distinct DEF TypeOK
<1>1. CASE Arrive(r)
  BY <1>1 DEF Arrive, tables, Untouched
<1>2. CASE FindAccount(r) \/ Commit(r) \/ ReadTenant(r) \/ ReadHolder(r) \/ FindByPhone(r)
           \/ FindTenant(r) \/ GetConfig(r) \/ QueryFails(r)
  BY <1>2 DEF FindAccount, Commit, ReadTenant, ReadHolder, FindByPhone, FindTenant,
              GetConfig, QueryFails, tables, Untouched
<1>3. CASE PutConfig(r) \/ CreateAccount(r) \/ ApplyTemplate(r)
  BY <1>3 DEF PutConfig, CreateAccount, ApplyTemplate, Untouched
<1>4. CASE CreateTenant(r)
  <2> DEFINE n == IF op[r] = "signup" THEN Pending ELSE num[r]
  <2>1. PICK t \in Tenants, s \in NewStatus(op[r]) :
          \/ UNCHANGED <<status, phone, vetted>>
          \/ /\ ~(n # Pending /\ Taken(n, t))
             /\ status' = [status EXCEPT ![t] = s]
             /\ phone' = [phone EXCEPT ![t] = n]
             /\ vetted' = IF s = "active" /\ op[r] \in {"create", "register"} THEN vetted \cup {t} ELSE vetted
    BY <1>4 DEF CreateTenant
  <2>2. approved' = approved
    BY <1>4 DEF CreateTenant
  <2>3. s \in Statuses /\ (s = "active" => op[r] \in {"create", "register"})
    BY <1>4, GivenKnown DEF CreateTenant, Knows, NewStatus, Statuses
  <2>4. CASE UNCHANGED <<status, phone, vetted>>
    BY <2>2, <2>4 DEF Untouched
  <2>5. CASE /\ ~(n # Pending /\ Taken(n, t))
             /\ status' = [status EXCEPT ![t] = s]
             /\ phone' = [phone EXCEPT ![t] = n]
             /\ vetted' = IF s = "active" /\ op[r] \in {"create", "register"} THEN vetted \cup {t} ELSE vetted
    <3>1. Written(t, s, n)
      BY <1>t, <2>2, <2>3, <2>5 DEF Written
    <3> QED
      BY <1>t, <2>3, <3>1
  <2> QED
    BY <2>1, <2>4, <2>5
<1>5. CASE WriteApproval(r)
  <2>1. of[r] \in Tenants /\ vetted' = vetted
    BY <1>5 DEF WriteApproval, Knows, Reviews
  <2>2. CASE Taken(num[r], of[r])
    BY <1>5, <2>1, <2>2 DEF WriteApproval, Untouched
  <2>3. CASE ~Taken(num[r], of[r])
    <3>1. Written(of[r], "active", num[r])
      BY <1>5, <1>t, <2>1, <2>3 DEF WriteApproval, Written, Statuses
    <3> QED
      BY <1>t, <2>1, <3>1 DEF Statuses
  <2> QED
    BY <2>2, <2>3
<1>6. CASE WriteRejection(r)
  <2>1. of[r] \in Tenants /\ vetted' = vetted /\ approved' = approved /\ Exists(of[r])
    BY <1>6 DEF WriteRejection, Knows, Reviews
  <2>2. phone' = [phone EXCEPT ![of[r]] = phone[of[r]]]
    BY <1>6 DEF WriteRejection, TypeOK
  <2>3. phone[of[r]] \in Numbers => ~Taken(phone[of[r]], of[r])
    BY <1>t, <2>1 DEF NumberHeldOnce, Taken, Exists
  <2>4. Written(of[r], "rejected", phone[of[r]])
    BY <1>6, <2>1, <2>2, <2>3 DEF WriteRejection, Written, Statuses
  <2> QED
    BY <2>1, <2>4 DEF TypeOK, Statuses
<1>7. CASE WritePatch(r)
  <2>1. of[r] \in Tenants /\ vetted' = vetted /\ approved' = approved
    BY <1>7 DEF WritePatch, Knows
  <2>2. PICK n \in {phone[of[r]], num[r]}, s \in Given \cup {status[of[r]]} :
          \/ UNCHANGED <<status, phone>>
          \/ /\ Exists(of[r]) /\ ~(n = num[r] /\ Taken(n, of[r]))
             /\ phone' = [phone EXCEPT ![of[r]] = n]
             /\ status' = [status EXCEPT ![of[r]] = s]
             /\ Answer(r, "ok")
    BY <1>7 DEF WritePatch
  <2>3. CASE UNCHANGED <<status, phone>>
    BY <2>1, <2>3 DEF Untouched
  <2>4. CASE /\ Exists(of[r]) /\ ~(n = num[r] /\ Taken(n, of[r]))
             /\ phone' = [phone EXCEPT ![of[r]] = n]
             /\ status' = [status EXCEPT ![of[r]] = s]
             /\ Answer(r, "ok")
    <3>1. s \in Statuses /\ n \in Numbers \cup {Pending}
      BY <1>t, <2>1, <2>2, <2>4, GivenKnown DEF TypeOK, Exists
    <3>2. n \in Numbers => ~Taken(n, of[r])
      BY <1>t, <2>1, <2>2, <2>4 DEF NumberHeldOnce, Taken, Exists
    <3>3. of[r] \notin patched' => status' = status /\ phone' = phone
      <4>1. at[r] = "write patch" /\ at'[r] = "done"
        BY <1>7, <2>4, AnswerMoves DEF WritePatch
      <4>2. of[r] \notin patched' => status'[of[r]] = status[of[r]] /\ phone'[of[r]] = phone[of[r]]
        BY <2>1, <4>1 DEF Observe
      <4> QED
        BY <2>1, <2>4, <4>2 DEF TypeOK
    <3>4. patched \subseteq patched'
      BY HistoryTyped
    <3>5. s = "active" /\ of[r] \notin patched' =>
            of[r] \in approved' \cup vetted' /\ n # Pending
      BY <2>1, <2>4, <3>3, <3>4 DEF LiveIsReviewed, TypeOK
    <3>6. Written(of[r], s, n)
      BY <2>1, <2>2, <2>4, <3>1, <3>2, <3>5 DEF Written
    <3> QED
      BY <2>1, <3>1, <3>6
  <2> QED
    BY <2>2, <2>3, <2>4
<1> QED
  BY <1>1, <1>2, <1>3, <1>4, <1>5, <1>6, <1>7 DEF Step

LEMMA NumberStaysOnce ==
  ASSUME TypeOK, NumberHeldOnce,
         Untouched \/ \E t \in Tenants, s \in Statuses, n \in Numbers \cup {Pending} :
                        Written(t, s, n)
  PROVE  NumberHeldOnce'
<1>1. CASE Untouched
  BY <1>1 DEF NumberHeldOnce, Untouched, Exists
<1>2. ASSUME NEW t \in Tenants, NEW s \in Statuses, NEW n \in Numbers \cup {Pending},
             Written(t, s, n)
      PROVE  NumberHeldOnce'
  <2>1. phone'[t] = n /\ \A u \in Tenants : u # t => phone'[u] = phone[u] /\ status'[u] = status[u]
    BY <1>2 DEF Written, TypeOK
  <2>2. \A u \in Tenants : u # t /\ status[u] # "absent" /\ phone[u] = n => n = Pending
    BY <1>2 DEF Written, Taken
  <2> QED
    BY <2>1, <2>2 DEF NumberHeldOnce, Exists
<1> QED
  BY <1>1, <1>2

LEMMA LiveStaysReviewed ==
  ASSUME TypeOK, LiveIsReviewed, patched \subseteq patched',
         Untouched \/ \E t \in Tenants, s \in Statuses, n \in Numbers \cup {Pending} :
                        Written(t, s, n)
  PROVE  LiveIsReviewed'
<1>1. CASE Untouched
  BY <1>1 DEF LiveIsReviewed, Untouched
<1>2. ASSUME NEW t \in Tenants, NEW s \in Statuses, NEW n \in Numbers \cup {Pending},
             Written(t, s, n)
      PROVE  LiveIsReviewed'
  <2>1. /\ phone'[t] = n /\ status'[t] = s
        /\ \A u \in Tenants : u # t => phone'[u] = phone[u] /\ status'[u] = status[u]
    BY <1>2 DEF Written, TypeOK
  <2>2. /\ approved \subseteq approved' /\ vetted \subseteq vetted'
        /\ s = "active" /\ t \notin patched' => t \in approved' \cup vetted' /\ n # Pending
    BY <1>2 DEF Written
  <2> QED
    BY <2>1, <2>2 DEF LiveIsReviewed
<1> QED
  BY <1>1, <1>2

-----------------------------------------------------------------------------
LEMMA InitHolds == Init => IInv
<1> SUFFICES ASSUME Init PROVE IInv
  OBVIOUS
<1> PICK n \in Numbers, e \in Emails :
      num = [r \in Requests |-> n] /\ mail = [r \in Requests |-> e]
  BY DEF Init
<1>1. TypeOK
  BY DEF Init, TypeOK, Operations, Labels, Statuses
<1>2. Established
  BY DEF Init, Established, Knows, Lookup, Idle
<1>3. NumberHeldOnce /\ SignupDelivers /\ LiveIsReviewed /\ RoutedWasLive
      /\ HolderIsReached
  BY DEF Init, NumberHeldOnce, SignupDelivers, LiveIsReviewed, RoutedWasLive, Exists,
         HolderIsReached
<1> QED
  BY <1>1, <1>2, <1>3 DEF IInv

LEMMA StepKeeps == IInv /\ Next => IInv' 
<1> SUFFICES ASSUME IInv, Next PROVE IInv'
  OBVIOUS
<1> PICK r \in Requests : (Arrive(r) \/ Step(r)) /\ Observe
  BY DEF Next
<1> USE DEF IInv
<1>1. Framed(r)
  BY Frame
<1>2. TypeOK'
  BY <1>1, HistoryTyped DEF TypeOK, Framed
<1>3. \A q \in Requests : Knows(q) /\ Promised(q)
  BY DEF Established, Promised, SignupDelivers, RoutedWasLive, HolderIsReached
<1>4. ASSUME NEW q \in Requests PROVE Knows(q)' /\ Promised(q)'
  BY <1>1, <1>3, OthersKeep, SelfKeeps
<1>5. Established'
  BY <1>4 DEF Established
<1>6. SignupDelivers' /\ RoutedWasLive' /\ HolderIsReached'
  BY <1>4 DEF Promised, SignupDelivers, RoutedWasLive, HolderIsReached
<1>7. Untouched \/ \E t \in Tenants, s \in Statuses, n \in Numbers \cup {Pending} :
                     Written(t, s, n)
  BY <1>3, TableWrites
<1>8. NumberHeldOnce' /\ LiveIsReviewed'
  BY <1>7, NumberStaysOnce, LiveStaysReviewed, HistoryTyped
<1> QED
  BY <1>2, <1>5, <1>6, <1>8

LEMMA StutterKeeps == IInv /\ UNCHANGED vars => IInv'
<1> SUFFICES ASSUME IInv, UNCHANGED vars PROVE IInv'
  OBVIOUS
<1> USE DEF vars, tables, inputs, history, IInv
<1>1. TypeOK'
  BY DEF TypeOK
<1>2. Established'
  BY DEF Established, Knows, Exists, Lookup, Idle, Answerable, Reached
<1>3. NumberHeldOnce' /\ SignupDelivers' /\ LiveIsReviewed' /\ RoutedWasLive'
  BY DEF NumberHeldOnce, SignupDelivers, LiveIsReviewed, RoutedWasLive, Exists
<1>4. HolderIsReached'
  BY DEF HolderIsReached
<1> QED
  BY <1>1, <1>2, <1>3, <1>4

\* The invariant of the tenant tables and of the requests that work on them.
THEOREM Invariance == Spec => []IInv
<1>1. IInv /\ [Next]_vars => IInv'
  BY StepKeeps, StutterKeeps
<1> QED
  BY InitHolds, <1>1, PTL DEF Spec

\* However many reviewers, signups and updates interleave, a number reaches at
\* most one tenant, and the tenant that is live and configured under it for the
\* whole of a lookup is the one the caller gets.
THEOREM OneHolder == Spec => [](NumberHeldOnce /\ HolderIsReached)
<1>1. IInv => NumberHeldOnce /\ HolderIsReached
  BY DEF IInv
<1> QED
  BY Invariance, <1>1, PTL

\* A call is only ever routed to a tenant that was live with the dialled number
\* during the lookup.
THEOREM RoutedToLive == Spec => []RoutedWasLive
<1>1. IInv => RoutedWasLive
  BY DEF IInv
<1> QED
  BY Invariance, <1>1, PTL

\* A signup answered "ok" stays administrable.
THEOREM SignedUp == Spec => []SignupDelivers
<1>1. IInv => SignupDelivers
  BY DEF IInv
<1> QED
  BY Invariance, <1>1, PTL

-----------------------------------------------------------------------------
(* Reviews, however they overlap with each other and with updates.             *)

\* One tenant's row is written, the others stay.
RowWritten(t) == /\ t \in Tenants /\ status'[t] # "absent"
                 /\ \A u \in Tenants : u # t => status'[u] = status[u] /\ phone'[u] = phone[u]
Verdicts == <<approved, rejected>>

LEMMA ReviewWrites ==
  ASSUME TypeOK, NEW r \in Requests, Knows(r), Observe, Arrive(r) \/ Step(r)
  PROVE  \/ UNCHANGED <<status, phone, Verdicts>>
         \/ \E t \in Tenants : status[t] = "absent" /\ RowWritten(t) /\ UNCHANGED Verdicts
         \/ RowWritten(of[r]) /\ of[r] \in patched' /\ UNCHANGED Verdicts
         \/ /\ WriteApproval(r) /\ RowWritten(of[r])
            /\ status'[of[r]] = "active" /\ phone'[of[r]] = num[r]
            /\ approved' = approved \cup {of[r]} /\ rejected' = rejected
         \/ /\ WriteRejection(r) /\ RowWritten(of[r])
            /\ status'[of[r]] = "rejected"
            /\ approved' = approved /\ rejected' = rejected \cup {of[r]}
<1> USE DEF Verdicts
<1>1. CASE Arrive(r)
  BY <1>1 DEF Arrive, tables
<1>2. CASE FindAccount(r) \/ Commit(r) \/ ReadTenant(r) \/ ReadHolder(r) \/ FindByPhone(r)
           \/ FindTenant(r) \/ GetConfig(r) \/ QueryFails(r)
  BY <1>2 DEF FindAccount, Commit, ReadTenant, ReadHolder, FindByPhone, FindTenant,
              GetConfig, QueryFails, tables
<1>3. CASE PutConfig(r) \/ CreateAccount(r) \/ ApplyTemplate(r)
  BY <1>3 DEF PutConfig, CreateAccount, ApplyTemplate
<1>4. CASE CreateTenant(r)
  <2>1. PICK t \in Tenants, s \in NewStatus(op[r]) :
          /\ status[t] = "absent"
          /\ \/ UNCHANGED <<status, phone>>
             \/ /\ status' = [status EXCEPT ![t] = s]
                /\ phone' = [phone EXCEPT ![t] = IF op[r] = "signup" THEN Pending ELSE num[r]]
    BY <1>4 DEF CreateTenant
  <2>2. UNCHANGED Verdicts /\ s # "absent"
    BY <1>4, GivenKnown DEF CreateTenant, Knows, NewStatus, Statuses
  <2>3. CASE /\ status' = [status EXCEPT ![t] = s]
             /\ phone' = [phone EXCEPT ![t] = IF op[r] = "signup" THEN Pending ELSE num[r]]
    BY <2>1, <2>2, <2>3 DEF RowWritten, TypeOK
  <2> QED
    BY <2>1, <2>2, <2>3
<1>5. CASE WriteApproval(r)
  <2>1. of[r] \in Tenants /\ rejected' = rejected
    BY <1>5 DEF WriteApproval, Knows, Reviews
  <2>2. CASE Taken(num[r], of[r])
    BY <1>5, <2>1, <2>2 DEF WriteApproval
  <2>3. CASE ~Taken(num[r], of[r])
    <3>1. /\ status' = [status EXCEPT ![of[r]] = "active"]
          /\ phone' = [phone EXCEPT ![of[r]] = num[r]]
          /\ approved' = approved \cup {of[r]}
      BY <1>5, <2>3 DEF WriteApproval
    <3>2. RowWritten(of[r]) /\ status'[of[r]] = "active" /\ phone'[of[r]] = num[r]
      BY <2>1, <3>1 DEF RowWritten, TypeOK
    <3> QED
      BY <1>5, <2>1, <3>1, <3>2
  <2> QED
    BY <2>2, <2>3
<1>6. CASE WriteRejection(r)
  <2>1. of[r] \in Tenants
    BY <1>6 DEF WriteRejection, Knows, Reviews
  <2>2. /\ status' = [status EXCEPT ![of[r]] = "rejected"] /\ phone' = phone
        /\ rejected' = rejected \cup {of[r]} /\ approved' = approved
    BY <1>6 DEF WriteRejection
  <2>3. RowWritten(of[r]) /\ status'[of[r]] = "rejected"
    BY <2>1, <2>2 DEF RowWritten, TypeOK
  <2> QED
    BY <1>6, <2>1, <2>2, <2>3
<1>7. CASE WritePatch(r)
  <2>1. of[r] \in Tenants /\ UNCHANGED Verdicts
    BY <1>7 DEF WritePatch, Knows
  <2>2. PICK n \in {phone[of[r]], num[r]}, s \in Given \cup {status[of[r]]} :
          \/ UNCHANGED <<status, phone>>
          \/ /\ Exists(of[r]) /\ Answer(r, "ok")
             /\ phone' = [phone EXCEPT ![of[r]] = n]
             /\ status' = [status EXCEPT ![of[r]] = s]
    BY <1>7 DEF WritePatch
  <2>3. CASE /\ Exists(of[r]) /\ Answer(r, "ok")
             /\ phone' = [phone EXCEPT ![of[r]] = n]
             /\ status' = [status EXCEPT ![of[r]] = s]
    <3>1. s # "absent"
      BY <2>2, <2>3, GivenKnown DEF Exists, Statuses
    <3>2. RowWritten(of[r])
      BY <2>1, <2>3, <3>1 DEF RowWritten, TypeOK
    <3>3. at[r] = "write patch" /\ at'[r] = "done"
      BY <1>7, <2>3, AnswerMoves DEF WritePatch
    <3>4. of[r] \notin patched' => status'[of[r]] = status[of[r]] /\ phone'[of[r]] = phone[of[r]]
      BY <2>1, <3>3 DEF Observe
    <3>5. CASE status'[of[r]] = status[of[r]] /\ phone'[of[r]] = phone[of[r]]
      <4>1. status' = status
        BY <2>1, <2>3, <3>5 DEF TypeOK
      <4>2. phone' = phone
        BY <2>1, <2>3, <3>5 DEF TypeOK
      <4> QED
        BY <2>1, <4>1, <4>2
    <3> QED
      BY <2>1, <3>2, <3>4, <3>5
  <2> QED
    BY <2>1, <2>2, <2>3
<1> QED
  BY <1>1, <1>2, <1>3, <1>4, <1>5, <1>6, <1>7 DEF Step

\* The verdict a review writes is the first, if the tenant is unmixed.
LEMMA WriterAlone ==
  ASSUME ReviewInv, NEW r \in Requests, Knows(r), WriteApproval(r) \/ WriteRejection(r)
  PROVE  /\ of[r] \in Tenants
         /\ Unmixed(of[r]) => /\ status[of[r]] = "pending_approval"
                              /\ of[r] \notin approved \cup rejected
                              /\ \A q \in Requests : Reviewing(q, of[r]) => q = r
<1>1. of[r] \in Tenants /\ at[r] = "write verdict"
  BY DEF WriteApproval, WriteRejection, Knows, Reviews
<1>2. Believed(r) /\ Reviewing(r, of[r])
  BY <1>1 DEF ReviewInv, Reviewing
<1>3. Unmixed(of[r]) => status[of[r]] = "pending_approval"
  BY <1>1, <1>2 DEF Believed
<1> QED
  BY <1>1, <1>2, <1>3 DEF ReviewInv, Unmixed

LEMMA OthersBelieved ==
  ASSUME TypeOK, ReviewInv, NEW r \in Requests, Knows(r), Observe,
         Arrive(r) \/ Step(r), Framed(r),
         NEW q \in Requests, q # r, Knows(q)
  PROVE  Believed(q)'
<1>1. Same(q)
  BY DEF Framed, OthersSame
<1>2. Believed(q)
  BY DEF ReviewInv
<1>3. \A t \in Tenants : Unmixed(t)' => Unmixed(t) /\ t \notin patched'
  BY HistoryTyped DEF Unmixed
<1>4. CASE UNCHANGED <<status, phone, Verdicts>>
  BY <1>1, <1>2, <1>3, <1>4 DEF Believed, Same, Verdicts
<1>5. approved \subseteq approved' /\ rejected \subseteq rejected'
  BY ReviewWrites DEF Verdicts
<1>6. (\/ at[q] \in {"read holder", "write verdict", "apply template"}
       \/ op[q] \in Reviews /\ at[q] = "done" /\ reply[q] = "ok")
        => of[q] \in Tenants /\ Exists(of[q])
  <2>1. at[q] \in {"read holder", "write verdict", "apply template"} =>
          of[q] \in Tenants /\ Exists(of[q])
    BY DEF Knows, Reviews
  <2>2. op[q] \in Reviews /\ at[q] = "done" /\ reply[q] = "ok" =>
          of[q] \in Tenants /\ Exists(of[q])
    BY <1>2 DEF Believed, Knows, ReviewInv, Exists
  <2> QED
    BY <2>1, <2>2
<1>7. ASSUME NEW t \in Tenants, RowWritten(t), status[t] = "absent" \/ t \in patched'
      PROVE  Believed(q)'
  <2>1. CASE of[q] = t /\ t \in patched'
    BY <1>1, <1>2, <1>3, <1>5, <2>1 DEF Believed, Same
  <2>2. CASE of[q] = t /\ status[t] = "absent"
    BY <1>1, <1>6, <2>2 DEF Believed, Same, Exists
  <2>3. CASE of[q] # t
    BY <1>1, <1>2, <1>3, <1>5, <1>7, <2>3 DEF Believed, Same, RowWritten
  <2> QED
    BY <1>7, <2>1, <2>2, <2>3
<1>8. CASE (WriteApproval(r) \/ WriteRejection(r)) /\ RowWritten(of[r])
  <2>1. CASE of[q] # of[r]
    BY <1>1, <1>2, <1>3, <1>5, <1>8, <2>1 DEF Believed, Same, RowWritten
  <2>2. CASE of[q] = of[r] /\ Unmixed(of[q])
    <3>1. status[of[q]] = "pending_approval"
      BY <1>8, <2>2, WriterAlone
    <3>2. ~Reviewing(q, of[r])
      BY <1>8, <2>2, WriterAlone
    <3> QED
      BY <1>1, <1>2, <1>5, <1>8, <2>2, <3>1, <3>2 DEF Believed, Same, Reviewing, RowWritten
  <2>3. CASE of[q] = of[r] /\ ~Unmixed(of[q])
    BY <1>1, <1>2, <1>3, <1>5, <2>3 DEF Believed, Same
  <2> QED
    BY <2>1, <2>2, <2>3
<1> QED
  BY <1>4, <1>7, <1>8, ReviewWrites DEF RowWritten

LEMMA SelfBelieved ==
  ASSUME TypeOK, NEW r \in Requests, Knows(r), Believed(r), Knows(r)', Framed(r), Observe,
         Arrive(r) \/ Step(r)
  PROVE  Believed(r)'
<1>t. r \in Requests /\ num[r] \in Numbers /\ of[r] \in Tenants \cup {Nobody}
  BY DEF TypeOK
<1>u. \A t \in Tenants : Unmixed(t)' => Unmixed(t)
  BY HistoryTyped DEF Unmixed
<1>g. ASSUME NEW l \in Labels, Goto(r, l) PROVE at'[r] = l
  BY <1>g, GotoMoves
<1>d. ASSUME NEW a \in {"none", "ok", "refused", "error"}, Answer(r, a)
      PROVE  at'[r] = "done" /\ reply'[r] = a
  BY <1>d, AnswerMoves
<1>1. CASE Arrive(r)
  <2> PICK o \in Ops : at' = [at EXCEPT ![r] = First(o)]
    BY <1>1 DEF Arrive
  <2>1. at'[r] = First(o) /\ o \in Operations
    BY OpsKnown DEF TypeOK
  <2>2. \/ at'[r] = "find account" \/ at'[r] = "create tenant" \/ at'[r] = "read tenant"
        \/ at'[r] = "write patch" \/ at'[r] = "find by phone"
    BY <2>1 DEF First, Operations, Reviews
  <2> QED
    BY <2>2 DEF Believed
<1>2. CASE op[r] \notin Reviews /\ Step(r)
  <2>1. op' = op
    BY <1>2 DEF Step, FindAccount, CreateTenant, PutConfig, CreateAccount, Commit, ReadTenant,
         ReadHolder, WriteApproval, WriteRejection, ApplyTemplate, WritePatch, FindByPhone,
         FindTenant, GetConfig, QueryFails, inputs
  <2>2. at'[r] \notin {"read holder", "write verdict", "apply template"}
    BY <1>2, <2>1 DEF Knows, Reviews
  <2> QED
    BY <1>2, <2>1, <2>2 DEF Believed
<1>3. CASE QueryFails(r)
  BY <1>3, <1>d DEF QueryFails, Believed
<1>4. CASE ReadTenant(r)
  <2>1. UNCHANGED <<status, of>>
    BY <1>4 DEF ReadTenant, tables
  <2>2. \/ at'[r] = "done" /\ reply'[r] = "refused"
        \/ status[of[r]] = "pending_approval" /\ at'[r] \in {"read holder", "write verdict"}
    BY <1>4, <1>d, <1>g DEF ReadTenant, Labels
  <2> QED
    BY <2>1, <2>2 DEF Believed
<1>5. CASE ReadHolder(r)
  <2>1. UNCHANGED <<status, of>> /\ at[r] = "read holder"
    BY <1>5 DEF ReadHolder, tables
  <2>2. \/ at'[r] = "done" /\ reply'[r] = "refused"
        \/ at'[r] = "write verdict"
    BY <1>5, <1>d, <1>g DEF ReadHolder, Labels
  <2> QED
    BY <1>u, <2>1, <2>2 DEF Believed
<1>6. CASE WriteApproval(r)
  <2>1. UNCHANGED <<of, op, num>> /\ op[r] = "approve" /\ of[r] \in Tenants
    BY <1>6 DEF WriteApproval, inputs, Knows, Reviews
  <2>2. CASE Taken(num[r], of[r])
    <3>1. at'[r] = "done" /\ reply'[r] = "refused"
      BY <1>6, <1>d, <2>2 DEF WriteApproval
    <3> QED
      BY <3>1 DEF Believed
  <2>3. CASE ~Taken(num[r], of[r])
    <3>1. /\ status' = [status EXCEPT ![of[r]] = "active"]
          /\ phone' = [phone EXCEPT ![of[r]] = num[r]]
          /\ approved' = approved \cup {of[r]}
      BY <1>6, <2>3 DEF WriteApproval
    <3>2. status'[of[r]] = "active" /\ phone'[of[r]] = num[r] /\ of[r] \in approved'
      BY <2>1, <3>1 DEF TypeOK
    <3>3. at'[r] \in {"apply template", "done"}
      BY <1>6, <1>d, <1>g, <2>3 DEF WriteApproval, Labels
    <3> QED
      BY <2>1, <3>2, <3>3 DEF Believed
  <2> QED
    BY <2>2, <2>3
<1>7. CASE WriteRejection(r)
  <2>1. UNCHANGED <<of, op>> /\ op[r] = "reject" /\ of[r] \in Tenants
    BY <1>7 DEF WriteRejection, inputs, Knows, Reviews
  <2>2. status'[of[r]] = "rejected" /\ of[r] \in rejected'
    BY <1>7, <2>1 DEF WriteRejection, TypeOK
  <2>3. at'[r] = "done"
    BY <1>7, <1>d DEF WriteRejection
  <2> QED
    BY <2>1, <2>2, <2>3 DEF Believed
<1>8. CASE ApplyTemplate(r)
  <2>1. UNCHANGED <<of, op, num, status, phone, approved>> /\ op[r] = "approve"
    BY <1>8 DEF ApplyTemplate, inputs, Knows
  <2>2. /\ of[r] \in Tenants /\ Unmixed(of[r]) => status[of[r]] = "active" /\ phone[of[r]] = num[r]
        /\ of[r] \in approved
    BY <1>8 DEF ApplyTemplate, Believed
  <2>3. at'[r] = "done"
    BY <1>8, <1>d DEF ApplyTemplate
  <2> QED
    BY <1>u, <2>1, <2>2, <2>3 DEF Believed
<1>9. CASE /\ op[r] \in Reviews
           /\ \/ FindAccount(r) \/ CreateTenant(r) \/ PutConfig(r) \/ CreateAccount(r)
              \/ Commit(r) \/ WritePatch(r) \/ FindByPhone(r) \/ FindTenant(r) \/ GetConfig(r)
  BY <1>9 DEF FindAccount, CreateTenant, PutConfig, CreateAccount, Commit, WritePatch,
              FindByPhone, FindTenant, GetConfig, Knows, Reviews
<1> QED
  BY <1>1, <1>2, <1>3, <1>4, <1>5, <1>6, <1>7, <1>8, <1>9 DEF Step

\* What the rows of reviewed tenants look like.
Settled(t) ==
  /\ t \in (approved \cup rejected) \ patched => status[t] \in {"active", "rejected"}
  /\ status[t] = "absent" => t \notin approved \cup rejected
  /\ Unmixed(t) => /\ t \in approved => status[t] = "active"
                   /\ t \in rejected => status[t] = "rejected"

LEMMA RowsSettled ==
  ASSUME TypeOK, ReviewInv, NEW r \in Requests, Knows(r), Observe, Arrive(r) \/ Step(r),
         NEW t \in Tenants
  PROVE  Settled(t)'
<1>1. Settled(t)
  BY DEF ReviewInv, Settled
<1>2. patched \subseteq patched' /\ (Unmixed(t)' => Unmixed(t) /\ t \notin patched')
  BY HistoryTyped DEF Unmixed
<1>3. CASE UNCHANGED <<status, phone, Verdicts>>
  BY <1>1, <1>2, <1>3 DEF Settled, Verdicts
<1>4. ASSUME NEW u \in Tenants, RowWritten(u), UNCHANGED Verdicts,
             status[u] = "absent" \/ u \in patched'
      PROVE  Settled(t)'
  <2>1. CASE t = u /\ status[u] = "absent"
    BY <1>1, <1>4, <2>1 DEF Settled, Verdicts, RowWritten
  <2>2. CASE t = u /\ u \in patched'
    BY <1>2, <1>4, <2>2 DEF Settled, RowWritten
  <2>3. CASE t # u
    BY <1>1, <1>2, <1>4, <2>3 DEF Settled, Verdicts, RowWritten
  <2> QED
    BY <1>4, <2>1, <2>2, <2>3
<1>5. ASSUME WriteApproval(r) \/ WriteRejection(r), RowWritten(of[r]),
             \/ /\ status'[of[r]] = "active" 
                /\ approved' = approved \cup {of[r]} /\ rejected' = rejected
             \/ /\ status'[of[r]] = "rejected"
                /\ approved' = approved /\ rejected' = rejected \cup {of[r]}
      PROVE  Settled(t)'
  <2>1. Unmixed(of[r]) => of[r] \notin approved \cup rejected
    BY <1>5, WriterAlone
  <2>2. CASE t = of[r]
    BY <1>2, <1>5, <2>1, <2>2 DEF Settled
  <2>3. CASE t # of[r]
    BY <1>1, <1>2, <1>5, <2>3 DEF Settled, RowWritten
  <2> QED
    BY <2>2, <2>3
<1> QED
  BY <1>3, <1>4, <1>5, ReviewWrites DEF RowWritten

LEMMA ReviewKept == IInv /\ IInv' /\ ReviewInv /\ Next => ReviewInv'
<1> SUFFICES ASSUME IInv, IInv', ReviewInv, Next PROVE ReviewInv'
  OBVIOUS
<1> PICK r \in Requests : (Arrive(r) \/ Step(r)) /\ Observe
  BY DEF Next
<1>1. TypeOK /\ \A q \in Requests : Knows(q) /\ Knows(q)' /\ Believed(q)
  BY DEF IInv, Established, ReviewInv
<1>2. Framed(r)
  BY Frame DEF IInv
<1>3. ASSUME NEW q \in Requests PROVE Believed(q)'
  <2>1. CASE q = r
    BY <1>1, <1>2, <2>1, SelfBelieved
  <2>2. CASE q # r
    BY <1>1, <1>2, <2>2, OthersBelieved
  <2> QED
    BY <2>1, <2>2
<1>4. \A t \in Tenants : Settled(t)'
  BY <1>1, RowsSettled
<1>5. \A t \in Tenants \ crossed' : \A p, q \in Requests :
        Reviewing(p, t)' /\ Reviewing(q, t)' => p = q
  BY DEF Observe
<1> QED
  BY <1>3, <1>4, <1>5 DEF ReviewInv, Settled

\* Whatever overlaps, a verdict told to a reviewer stands and a tenant has one,
\* unless two reviews of that very tenant had both passed their check before
\* either wrote, or a PUT changed it; and even crossed reviews leave no reviewed
\* tenant waiting.
THEOREM ReviewersBelieved == Spec => [](VerdictStands /\ OneVerdict)
<1>1. Init => ReviewInv
  BY DEF Init, ReviewInv, Believed, Reviewing, Unmixed
<1>2. IInv /\ IInv' /\ ReviewInv /\ [Next]_vars => ReviewInv'
  <2>1. ReviewInv /\ UNCHANGED vars => ReviewInv'
    <3> SUFFICES ASSUME ReviewInv, UNCHANGED vars PROVE ReviewInv'
      OBVIOUS
    <3> USE DEF vars, tables, inputs, history
    <3>1. \A q \in Requests : Believed(q)'
      BY DEF ReviewInv, Believed, Unmixed
    <3>2. \A t \in Tenants : Settled(t)'
      BY DEF ReviewInv, Settled, Unmixed
    <3>3. \A t \in Tenants \ crossed' : \A p, q \in Requests :
            Reviewing(p, t)' /\ Reviewing(q, t)' => p = q
      BY DEF ReviewInv, Reviewing
    <3> QED
      BY <3>1, <3>2, <3>3 DEF ReviewInv, Settled
  <2> QED
    BY <2>1, ReviewKept
<1>3. IInv /\ ReviewInv => VerdictStands /\ OneVerdict
  <2> SUFFICES ASSUME IInv, ReviewInv PROVE VerdictStands /\ OneVerdict
    OBVIOUS
  <2>1. ASSUME NEW r \in Requests, op[r] \in Reviews, at[r] = "done", reply[r] = "ok",
               of[r] \notin patched
        PROVE  /\ status[of[r]] \in {"active", "rejected"}
               /\ of[r] \notin crossed =>
                    IF op[r] = "approve" THEN status[of[r]] = "active" /\ phone[of[r]] = num[r]
                                         ELSE status[of[r]] = "rejected"
    <3>1. of[r] \in Tenants /\ Believed(r)
      BY <2>1 DEF IInv, Established, Knows, ReviewInv
    <3> QED
      BY <2>1, <3>1 DEF Believed, ReviewInv, Unmixed
  <2>2. VerdictStands
    BY <2>1 DEF VerdictStands
  <2>3. OneVerdict
    <3> SUFFICES ASSUME NEW t \in approved \cap rejected PROVE t \in crossed \cup patched
      BY DEF OneVerdict
    <3>1. t \in Tenants
      BY DEF IInv, TypeOK
    <3> QED
      BY <3>1 DEF ReviewInv, Unmixed
  <2> QED
    BY <2>2, <2>3
<1> QED
  BY Invariance, <1>1, <1>2, <1>3, PTL DEF Spec
=============================================================================
