----------------------------- MODULE MCConsole -----------------------------
\* Three parts of the console that share no state, one in each behaviour: the
\* stores behind the pages (Stores), the sign-up wizard, and the administrator's
\* page.
EXTENDS Stores, TLC

CONSTANTS Addresses, Plans, Numbers, AdminEmails, Filters, MaxAsked

VARIABLES part,
  page, step, draft, errs, serverError, request, adrift, accounts, session,
  source, tenants, logins, list, fetch, read, listFailed, filter, modal, asked, toast,
  form, creation, created, reviewed, abandoned

S == INSTANCE SignupWizard
D == INSTANCE ReviewDesk

ASSUME PartsAssumption == S!WizardAssumption /\ D!DeskAssumption /\ RS!RowsAssumption

Alike == Permutations(Addresses) \cup Permutations(Tenants) \cup Permutations(Clients)
           \cup Permutations(Texts)

wizard == <<page, step, draft, errs, serverError, request, adrift, accounts, session>>
desk == <<source, tenants, logins, list, fetch, read, listFailed, filter, modal, asked, toast,
          form, creation, created, reviewed, abandoned>>
allVars == <<part, vars, wizard, desk>>

MCInit ==
  /\ Init /\ S!Init /\ D!Init
  /\ part \in {"stores", "signup", "desk"}
  /\ part # "stores" => backend = "memory" /\ table = "config"
  /\ part # "signup" => accounts = {}
  /\ part # "desk" => source = "server" /\ \A t \in Tenants : tenants[t].status = "absent"

MCNext ==
  \/ part = "stores" /\ Next /\ UNCHANGED <<part, wizard, desk>>
  \/ part = "signup" /\ S!Next /\ UNCHANGED <<part, vars, desk>>
  \/ part = "desk" /\ D!Next /\ UNCHANGED <<part, vars, wizard>>

MCSpec == MCInit /\ [][MCNext]_allVars

\* The parts' properties, by the names of their modules; the stores' own come with
\* Stores.
WizardKeepsItsWord == S!WizardKeepsItsWord
ReviewersAreToldTrue == D!ReviewersAreToldTrue
=============================================================================
