--------------------------- MODULE SignupWizard ---------------------------
(* The sign-up wizard of the console (SignupWizardPage) and POST /signup       *)
(* behind it: three steps over one draft, the validation the page repeats from *)
(* the server's, one request at a time, and what becomes of its answer when it *)
(* is lost, or comes after the visitor has left the page.                      *)
(* The rows the server writes, and two signups at once, are in TenantReview.   *)
EXTENDS Integers, FiniteSets

CONSTANTS Addresses,     \* e-mail addresses, lower case
          Plans,
          None

WizardAssumption == Addresses # {} /\ Plans # {} /\ None \notin Addresses

VARIABLES
  page,        \* "wizard", or where the visitor went
  step,        \* 0 account, 1 business, 2 plan
  draft,       \* what is typed
  errs,        \* the steps whose fields have a message
  serverError, \* the message above the submit button
  request,     \* the page's signup mutation
  adrift,      \* addresses of signups still under way whose answer nobody awaits
  accounts,    \* addresses with an account
  session      \* the address signed in with, or None

vars == <<page, step, draft, errs, serverError, request, adrift, accounts, session>>

Emails == [who : Addresses, upper : BOOLEAN] \cup {None}   \* None: not an address
Drafts == [email : Emails, password : {"short", "long"}, confirm : {"same", "differs"},
           name : {"blank", "given"}, industry : {None, "cafe", "other"},
           custom : {"blank", "given"}, phone : {"bad", "digits", "padded"}, plan : Plans]
Bodies == [email : Addresses, industry : {"cafe", "other"}, custom : {"blank", "given"},
           phone : {"digits", "padded"}, plan : Plans]
Answers == {"ok", "email_already_exists", "invalid_params"}
Steps == {0, 1}     \* those with fields that are validated

EmptyDraft == [email |-> None, password |-> "short", confirm |-> "same", name |-> "blank",
               industry |-> None, custom |-> "blank", phone |-> "bad",
               plan |-> CHOOSE p \in Plans : TRUE]
Idle == [at |-> "idle"]
Pending == request.at \in {"sent", "answered"}

TypeOK ==
  /\ page \in {"wizard", "elsewhere", "pending"}
  /\ step \in 0..2 /\ draft \in Drafts /\ errs \subseteq Steps
  /\ serverError \in {None, "try again", "check the input"}
  /\ \/ request = Idle
     \/ request \in [at : {"sent"}, body : Bodies]
     \/ request \in [at : {"answered"}, body : Bodies, answer : Answers]
  /\ adrift \subseteq Addresses /\ accounts \subseteq Addresses
  /\ session \in Addresses \cup {None}

\* The wizard as it mounts.
Fresh == step' = 0 /\ draft' = EmptyDraft /\ errs' = {} /\ serverError' = None

Init ==
  /\ page = "wizard" /\ step = 0 /\ draft = EmptyDraft /\ errs = {} /\ serverError = None
  /\ request = Idle /\ adrift = {} /\ accounts \in SUBSET Addresses /\ session = None

-----------------------------------------------------------------------------
\* The validation of the two steps. In a phone number "padded" a blank at an end
\* makes up for a digit: the page counts it, the server trims it first.
AccountValid(d) == d.email # None /\ d.password = "long" /\ d.confirm = "same"

BusinessValid(d) ==
  /\ d.name = "given" /\ d.industry # None /\ d.phone # "bad"
  /\ d.industry = "other" => d.custom = "given"

Invalid(d) == {s \in Steps : ~ (IF s = 0 THEN AccountValid(d) ELSE BusinessValid(d))}

\* What a body carries: trimmed, the address in lower case, the label only of an
\* industry of one's own.
Body(d) == [email |-> d.email.who, industry |-> d.industry, phone |-> d.phone, plan |-> d.plan,
            custom |-> IF d.industry = "other" THEN d.custom ELSE "blank"]

Wizard(s) == page = "wizard" /\ step \in s

Change(d) == /\ draft' = d /\ serverError' = None
             /\ UNCHANGED <<page, step, errs, request, adrift, accounts, session>>

TypeAccount ==
  /\ Wizard({0})
  /\ \/ \E e \in Emails : Change([draft EXCEPT !.email = e])
     \/ \E p \in {"short", "long"}, c \in {"same", "differs"} :
          Change([draft EXCEPT !.password = p, !.confirm = c])

TypeBusiness ==
  /\ Wizard({1})
  /\ \/ \E n \in {"blank", "given"} : Change([draft EXCEPT !.name = n])
     \/ \E i \in {"cafe", "other"} : Change([draft EXCEPT !.industry = i])
     \/ \E c \in {"blank", "given"} : draft.industry = "other" /\ Change([draft EXCEPT !.custom = c])
     \/ \E p \in {"bad", "digits", "padded"} : Change([draft EXCEPT !.phone = p])

\* The plan can be chosen while a signup is pending: only the buttons below wait.
ChoosePlan == Wizard({2}) /\ \E p \in Plans : Change([draft EXCEPT !.plan = p])

GoNext ==
  /\ Wizard(Steps)
  /\ errs' = Invalid(draft) \cap {step}
  /\ step' = IF errs' = {} THEN step + 1 ELSE step
  /\ UNCHANGED <<page, draft, serverError, request, adrift, accounts, session>>

\* Mutant: Back works while a signup is pending.
Mut_GoBack ==
  /\ Wizard({1, 2})
  /\ errs' = {} /\ step' = step - 1
  /\ UNCHANGED <<page, draft, serverError, request, adrift, accounts, session>>

GoBack ==
  /\ Wizard({1, 2}) /\ (step = 2 => ~Pending)
  /\ errs' = {} /\ step' = step - 1
  /\ UNCHANGED <<page, draft, serverError, request, adrift, accounts, session>>

Submit ==
  /\ Wizard({2}) /\ ~Pending
  /\ IF Invalid(draft) # {}
     THEN /\ errs' = Invalid(draft)
          /\ step' = IF 0 \in errs' THEN 0 ELSE 1
          /\ UNCHANGED <<serverError, request>>
     ELSE /\ serverError' = None
          /\ request' = [at |-> "sent", body |-> Body(draft)]
          /\ UNCHANGED <<step, errs>>
  /\ UNCHANGED <<page, draft, adrift, accounts, session>>

-----------------------------------------------------------------------------
\* validateSignupRequest: the digits of the number are counted without trusting
\* the page.
Acceptable(b) == b.phone = "digits" /\ (b.industry = "other" => b.custom = "given")

Verdict(b) == IF ~Acceptable(b) THEN "invalid_params"
              ELSE IF b.email \in accounts THEN "email_already_exists" ELSE "ok"

Serve ==
  /\ request.at = "sent"
  /\ request' = [at |-> "answered", body |-> request.body, answer |-> Verdict(request.body)]
  /\ accounts' = IF Verdict(request.body) = "ok" THEN accounts \cup {request.body.email} ELSE accounts
  /\ UNCHANGED <<page, step, draft, errs, serverError, adrift, session>>

\* A signup whose page no longer listens runs to its end all the same.
ServeAdrift == \E a \in adrift :
  /\ adrift' = adrift \ {a} /\ accounts' = accounts \cup {a}
  /\ UNCHANGED <<page, step, draft, errs, serverError, request, session>>

Drift == IF request.at = "sent" /\ Acceptable(request.body)
         THEN adrift \cup {request.body.email} ELSE adrift

Receive ==
  /\ request.at = "answered" /\ page = "wizard"
  /\ request' = Idle
  /\ \/ /\ request.answer = "ok"
        /\ session' = request.body.email /\ page' = "pending"
        /\ UNCHANGED <<step, errs, serverError>>
     \/ /\ request.answer = "email_already_exists"
        /\ errs' = {0} /\ step' = 0 /\ UNCHANGED <<page, serverError, session>>
     \/ /\ request.answer = "invalid_params"
        /\ serverError' = "check the input" /\ step' = 0 /\ UNCHANGED <<page, errs, session>>
  /\ UNCHANGED <<draft, adrift, accounts>>

\* The request or its answer is lost: the server may have served it, may serve
\* it yet, or never sees it.
Lose ==
  /\ Pending /\ page = "wizard"
  /\ request' = Idle /\ serverError' = "try again"
  /\ adrift' \in {adrift, Drift}
  /\ UNCHANGED <<page, step, draft, errs, accounts, session>>

\* The links to the landing and login pages; the answer of a pending signup is
\* for a page that is gone.
Leave ==
  /\ page = "wizard" /\ page' = "elsewhere"
  /\ request' = Idle /\ adrift' \in {adrift, Drift}
  /\ Fresh
  /\ UNCHANGED <<accounts, session>>

\* Coming back mounts a new wizard; who is signed in is sent on to the console.
Return ==
  /\ page = "elsewhere" /\ session = None /\ page' = "wizard"
  /\ Fresh
  /\ UNCHANGED <<request, adrift, accounts, session>>

Next ==
  \/ TypeAccount \/ TypeBusiness \/ ChoosePlan \/ GoNext \/ GoBack \/ Submit
  \/ Serve \/ ServeAdrift \/ Receive \/ Lose \/ Leave \/ Return

Spec == Init /\ [][Next]_vars

-----------------------------------------------------------------------------
\* No step is reached over one whose fields do not pass, whatever was typed,
\* gone back to and answered in between (goNext, goBack, submit).
StepsBehindAreValid == page = "wizard" => \A s \in Steps : s < step => s \notin Invalid(draft)

\* While its signup is pending the wizard shows what was sent, the plan apart:
\* nobody is signed up with other details than the form's.
PendingIsWhatIsShown ==
  Pending /\ page = "wizard" =>
    \A f \in {"email", "industry", "custom", "phone"} : request.body[f] = Body(draft)[f]

\* The page and the server agree on what is valid, except for the count of a
\* phone number's digits: nothing else the page lets through is refused.
PageAndServerAgree ==
  request.at = "answered" /\ request.answer = "invalid_params" => request.body.phone = "padded"

\* Who is told that an address was signed up, now or before, is told so of an
\* account there is, and who is sent on to wait for approval has one. Not the other
\* way round: of a lost answer the page says to try again, though the account may
\* have been made or be made yet.
AnswersAreOfAccounts ==
  /\ request.at = "answered" /\ request.answer # "invalid_params" => request.body.email \in accounts
  /\ session # None => session \in accounts

\* The four together, with the types: what the wizard shows, what it sent and what
\* the server takes fit, whatever is typed, lost or served late (SignupWizardPage).
WizardKeepsItsWord ==
  TypeOK /\ StepsBehindAreValid /\ PendingIsWhatIsShown /\ PageAndServerAgree
         /\ AnswersAreOfAccounts
=============================================================================
