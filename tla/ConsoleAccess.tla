--------------------------- MODULE ConsoleAccess ---------------------------
(* How a browser tab finds its page: the session kept in localStorage, the      *)
(* copy of it that mounted pages hold (useSession), the guards and pages that   *)
(* answer with a redirect, the tenant query they share, the login form and the  *)
(* return from Kakao.  Every guard decides alone, from its own mixture of the   *)
(* three; where a visitor ends is what they make of it together.                *)
EXTENDS Integers, FiniteSets

CONSTANTS Tenants, None,
          MaxBegins    \* bound: Kakao logins begun

AccessAssumption ==
  /\ None \notin Tenants \cup {"pending_approval", "rejected", "active"}
  /\ None \notin 1..MaxBegins
  /\ "platform_admin" \notin Tenants \cup {None} /\ MaxBegins \in Nat

VARIABLES
  fixture,     \* the demo's tenant, or None when the console talks to the server
  status,      \* the tenants' rows at the server
  kept,        \* the session in localStorage: a tenant's account, the platform's, or None
  seen,        \* the session as the mounted guard or page holds it
  at,          \* where the router is
  info,        \* the tenant query of each tenant: its data, and whether it failed
  reading,     \* tenants being read
  entering,    \* form logins under way: of the page shown, or of one that was left
  loginError,  \* the login form shows an error
  begun,       \* Kakao logins begun: each has a state of its own
  kakaoState,  \* the state in sessionStorage, or None
  started,     \* the callback page has done what it does once
  failure,     \* the callback page shows an error
  exchanges,   \* states whose code is being exchanged
  exchanged    \* history: how often each state's code was sent

server == <<fixture, status>>
query == <<info, reading>>
form == <<entering, loginError>>
kakao == <<begun, kakaoState, started, failure, exchanges, exchanged>>
vars == <<server, kept, seen, at, query, form, kakao>>

Platform == "platform_admin"
Accounts == Tenants \cup {Platform}
Known == IF fixture = None THEN Accounts ELSE Tenants      \* the demo has no platform
Statuses == {"pending_approval", "rejected", "active"}
Unapproved == {"pending_approval", "rejected"}
Ids == 1..MaxBegins

\* A path: "console" stands for the pages of one tenant, "elsewhere" for a path
\* no route names, "kakao" for Kakao's own page; the callback has the state
\* Kakao returned, 0 for its error.
Url(p) == [page |-> p, of |-> None]
Console(t) == [page |-> "console", of |-> t]
Callback(n) == [page |-> "callback", of |-> n]
Public == {Url(p) : p \in {"landing", "login", "signup"}}
Urls == Public \cup {Url(p) : p \in {"pending", "admin", "elsewhere"}}
          \cup {Console(t) : t \in Tenants}
Returns == {Callback(n) : n \in 0..MaxBegins}

Fresh == [data |-> None, failed |-> FALSE]

TypeOK ==
  /\ fixture \in Tenants \cup {None} /\ status \in [Tenants -> Statuses]
  /\ kept \in Accounts \cup {None} /\ seen \in Accounts \cup {None}
  /\ at \in Urls \cup Returns \cup {Url("kakao")}
  /\ info \in [Tenants -> [data : Statuses \cup {None}, failed : BOOLEAN]]
  /\ reading \subseteq Tenants
  /\ entering \subseteq {"here", "left"} /\ loginError \in BOOLEAN
  /\ begun \in 0..MaxBegins /\ kakaoState \in Ids \cup {None}
  /\ started \in BOOLEAN /\ failure \in BOOLEAN
  /\ exchanges \subseteq Ids /\ exchanged \in [Ids -> 0..3]

Init ==
  /\ fixture \in Tenants \cup {None}
  /\ status \in [Tenants -> {"pending_approval", "active"}]
  /\ fixture # None => status[fixture] = "active"
  /\ kept = None /\ seen = None /\ at = Url("landing")
  /\ info = [t \in Tenants |-> Fresh] /\ reading = {}
  /\ entering = {} /\ loginError = FALSE
  /\ begun = 0 /\ kakaoState = None /\ started = FALSE /\ failure = FALSE
  /\ exchanges = {} /\ exchanged = [n \in Ids |-> 0]

-----------------------------------------------------------------------------
\* getCurrentTenantId reads localStorage, whatever the mounted pages hold.
CurrentOf(k) == IF k \in Tenants THEN k ELSE fixture
Current == CurrentOf(kept)

Loading(t) == t \in reading /\ info[t].data = None

\* The redirects. A place is a path and the session its page holds.
OfLanding(s) == IF s # None /\ Current # None THEN Console(Current) ELSE Url("landing")

OfLogin(s) == CASE s = None     -> Url("login")
                [] s = Platform -> Url("admin")
                [] OTHER        -> Console(s)

\* The route of unknown paths sends on to the tenant App last rendered with, or to
\* the landing page. Such a path is only ever loaded as a document: App and the
\* guard read the same session then, and neither hears of another tab.
OfUnknown(s) == IF CurrentOf(s) = None THEN Url("landing") ELSE Console(CurrentOf(s))

\* RequireAuth; the query's error does not keep anybody out.
OfConsole(u, s) ==
  IF (fixture = None /\ s = None) \/ Current = None THEN Url("login")
  ELSE IF Loading(Current) THEN u
  ELSE IF info[Current].data \in Unapproved THEN Url("pending")
  ELSE IF u = Url("elsewhere") THEN OfUnknown(s)
  ELSE u

\* Mutant: only an application still waiting stays.
Mut_OfPending(s) ==
  IF (fixture = None /\ s = None) \/ Current = None THEN Url("login")
  ELSE IF info[Current].data \in {"active", "rejected"} /\ ~info[Current].failed THEN Console(Current)
  ELSE Url("pending")

OfPending(s) ==
  IF (fixture = None /\ s = None) \/ Current = None THEN Url("login")
  ELSE IF info[Current].data = "active" /\ ~info[Current].failed THEN Console(Current)
  ELSE Url("pending")

\* RequirePlatformAdmin.
OfAdmin(s) == CASE fixture # None \/ s = Platform -> Url("admin")
                [] fixture = None /\ s = None   -> Url("login")
                [] OTHER                        -> Console(s)

Target(u, s) ==
  CASE u.page = "landing"                -> OfLanding(s)
    [] u.page = "login"                  -> OfLogin(s)
    [] u.page = "pending"                -> OfPending(s)
    [] u.page = "admin"                  -> OfAdmin(s)
    [] u.page \in {"console", "elsewhere"} -> OfConsole(u, s)
    [] u.page = "callback"               -> IF s = None THEN u ELSE Url("landing")
    [] OTHER                             -> u

\* A guard stays mounted among the paths under it and keeps what it holds; a
\* page that mounts reads localStorage.
Guard(u) == IF u.page \in {"console", "elsewhere"} THEN "RequireAuth" ELSE u.page
HeldAt(u, v, s) == IF Guard(u) = Guard(v) THEN s ELSE kept

Hop(place) == LET v == Target(place.url, place.session)
              IN [url |-> v, session |-> HeldAt(place.url, v, place.session)]
End(place) == Hop(Hop(Hop(place)))
Arrival(u) == End([url |-> u, session |-> kept])

-----------------------------------------------------------------------------
\* Mounting at u: the tenant query runs if there is no data, and may run again
\* if its data is older than staleTime.
Observes(u) == u.page \in {"console", "elsewhere", "pending"}

Began(q) == [t \in Tenants |-> IF t \in q /\ info[t].data = None THEN Fresh ELSE info[t]]

Mount(u, k) ==
  LET t == CurrentOf(k) IN
  IF ~Observes(u) \/ t = None THEN UNCHANGED query
  ELSE \/ reading' = reading \cup {t} /\ info' = Began({t})
       \/ info[t].data # None /\ UNCHANGED query

\* The form's callbacks go with its page (mutate of a component that unmounts).
Unmounted(v) == IF v = Url("login") THEN entering
                ELSE IF "here" \in entering THEN {"left"} ELSE entering

Go(v) ==
  /\ at' = v /\ Mount(v, kept')
  /\ entering' = Unmounted(v) /\ loginError' = (loginError /\ v = Url("login"))

\* One redirect is followed.
Follow ==
  /\ Target(at, seen) # at
  /\ kept' = kept /\ Go(Target(at, seen)) /\ seen' = HeldAt(at, Target(at, seen), seen)
  /\ UNCHANGED <<server, kakao>>

\* The links of the pages anyone may see.
Link(u) ==
  /\ at \in Public \cup Returns /\ u \in Public /\ u # at
  /\ kept' = kept /\ Go(u) /\ seen' = kept
  /\ UNCHANGED <<server, kakao>>

\* A document is loaded: typed, reloaded, or returned to by Kakao. What the tab
\* had in memory is gone; storage stays.
Load(u) ==
  /\ at' = u /\ seen' = kept /\ kept' = kept
  /\ LET t == Current IN
     /\ info' = [x \in Tenants |-> Fresh]
     /\ reading' = IF Observes(u) /\ t # None THEN {t} ELSE {}
  /\ entering' = {} /\ loginError' = FALSE
  /\ started' = FALSE /\ failure' = FALSE /\ exchanges' = {}
  /\ UNCHANGED <<server, begun, exchanged>>

Visit ==
  /\ at # Url("kakao")
  /\ \E u \in Urls \cup (IF at \in Returns THEN {at} ELSE {}) : Load(u)
  /\ UNCHANGED kakaoState

-----------------------------------------------------------------------------
\* The tenant query.
InfoArrives == \E t \in reading :
  /\ info' = [info EXCEPT ![t] = [data |-> status[t], failed |-> FALSE]]
  /\ reading' = reading \ {t}
  /\ UNCHANGED <<server, kept, seen, at, form, kakao>>

InfoFails == \E t \in reading :
  /\ info' = [info EXCEPT ![t].failed = TRUE]
  /\ reading' = reading \ {t}
  /\ UNCHANGED <<server, kept, seen, at, form, kakao>>

\* The guard let a failed query pass, the shell under it mounts and asks again:
\* the guard goes back to Loading and unmounts it.
ShellAsksAgain ==
  /\ Guard(at) = "RequireAuth" /\ Target(at, seen) = at
  /\ LET t == Current IN
     /\ t \notin reading /\ info[t].data = None
     /\ reading' = reading \cup {t} /\ info' = Began({t})
  /\ UNCHANGED <<server, kept, seen, at, form, kakao>>

\* The button of the pending page.
Refresh ==
  /\ at = Url("pending") /\ Target(at, seen) = at
  /\ info[Current].data = "pending_approval" /\ ~info[Current].failed
  /\ reading' = reading \cup {Current}
  /\ UNCHANGED <<server, kept, seen, at, info, form, kakao>>

\* approveTenant, rejectTenant; the demo's administrator reviews rows of its own.
Review == \E t \in Tenants :
  /\ fixture = None /\ status[t] = "pending_approval"
  /\ \E s \in {"active", "rejected"} : status' = [status EXCEPT ![t] = s]
  /\ UNCHANGED <<fixture, kept, seen, at, query, form, kakao>>

-----------------------------------------------------------------------------
\* loginSession, logoutSession: stored, and every mounted page is told.
SetSession(a) == kept' = a /\ seen' = a

SubmitLogin ==
  /\ at = Url("login") /\ seen = None /\ "here" \notin entering
  /\ entering' = entering \cup {"here"} /\ loginError' = FALSE
  /\ UNCHANGED <<server, kept, seen, at, query, kakao>>

\* An account, or an error: refused, lost, or an account without a tenant. The
\* demo knows one account.
LoginArrives == \E l \in entering :
  /\ IF l = "left" THEN UNCHANGED <<kept, seen, loginError>>
     ELSE \/ \E a \in (IF fixture = None THEN Accounts ELSE {fixture}) :
               SetSession(a) /\ UNCHANGED loginError
          \/ fixture = None /\ loginError' = TRUE /\ UNCHANGED <<kept, seen>>
  /\ entering' = entering \ {l}
  /\ UNCHANGED <<server, at, query, kakao>>

\* The wizard's success (SignupWizard has the rest of it).
SignUp == \E t \in Tenants :
  /\ at = Url("signup") /\ status[t] = "pending_approval"
  /\ SetSession(t) /\ Go(Url("pending"))
  /\ UNCHANGED <<server, kakao>>

\* The shell's, the pending page's and the administrator's button. The demo's
\* pending page leads to the demo's console.
LogOut ==
  /\ Target(at, seen) = at
  /\ SetSession(None)
  /\ \/ Guard(at) = "RequireAuth" /\ seen # None /\ ~Loading(Current) /\ Go(Url("login"))
     \/ at = Url("admin") /\ Go(Url("login"))
     \/ /\ at = Url("pending") /\ info[Current].data \in Unapproved /\ ~info[Current].failed
        /\ Go(IF fixture = None THEN Url("login") ELSE Console(fixture))
  /\ UNCHANGED <<server, kakao>>

\* Another tab of the same browser logs in or out; this one is not told.
OtherTab ==
  /\ kept' \in (Known \cup {None}) \ {kept}
  /\ UNCHANGED <<server, seen, at, query, form, kakao>>

-----------------------------------------------------------------------------
\* beginKakaoLogin: the state is saved and the tab leaves for Kakao.
BeginKakao ==
  /\ at = Url("login") /\ seen = None /\ fixture = None /\ begun < MaxBegins
  /\ begun' = begun + 1 /\ kakaoState' = begun + 1
  /\ at' = Url("kakao") /\ info' = [t \in Tenants |-> Fresh] /\ reading' = {}
  /\ entering' = {} /\ loginError' = FALSE
  /\ exchanges' = {} /\ started' = FALSE /\ failure' = FALSE
  /\ UNCHANGED <<server, kept, seen, exchanged>>

\* Kakao returns with a code for the state, or an error, or the visitor does.
KakaoReturns ==
  /\ at = Url("kakao")
  /\ \E u \in {Callback(begun), Callback(0), Url("login")} : Load(u)
  /\ UNCHANGED kakaoState

\* consumeKakaoLoginState.
Consumed == None

\* The page's effect, guarded by the ref "started"; it runs though there is a
\* session. An error from Kakao leaves the saved state where it is.
CallbackEffect ==
  /\ at \in Returns /\ ~started /\ started' = TRUE
  /\ IF at.of = 0 THEN failure' = TRUE /\ UNCHANGED <<kakaoState, exchanges, exchanged>>
     ELSE /\ kakaoState' = Consumed
          /\ IF kakaoState # at.of THEN failure' = TRUE /\ UNCHANGED <<exchanges, exchanged>>
             ELSE /\ exchanges' = exchanges \cup {at.of}
                  /\ exchanged' = [exchanged EXCEPT ![at.of] = @ + 1]
                  /\ UNCHANGED failure
  /\ UNCHANGED <<server, kept, seen, at, query, form, begun>>

\* loginSession and navigate("/"), wherever the tab is by now; a left page's
\* error is not shown.
KakaoArrives == \E n \in exchanges :
  /\ exchanges' = exchanges \ {n}
  /\ \E t \in Tenants : SetSession(t)
  /\ Go(Url("landing"))
  /\ UNCHANGED <<server, begun, kakaoState, started, failure, exchanged>>

\* Refused by the server, lost, or the platform's account.
KakaoFails == \E n \in exchanges :
  /\ exchanges' = exchanges \ {n}
  /\ failure' = (failure \/ at \in Returns)
  /\ UNCHANGED <<server, kept, seen, at, query, form, begun, kakaoState, started, exchanged>>

Next ==
  \/ Follow \/ Visit \/ \E u \in Public : Link(u)
  \/ InfoArrives \/ InfoFails \/ ShellAsksAgain \/ Refresh \/ Review
  \/ SubmitLogin \/ LoginArrives \/ SignUp \/ LogOut \/ OtherTab
  \/ BeginKakao \/ KakaoReturns \/ CallbackEffect \/ KakaoArrives \/ KakaoFails

Spec == Init /\ [][Next]_vars

-----------------------------------------------------------------------------
\* Whatever the tab holds and has read, the redirects come to an end, from the
\* path it is at and from any other: no two guards send a visitor to each other
\* (RequireAuth, RequirePlatformAdmin, and the pages that redirect).
NavigationSettles ==
  \A place \in {[url |-> at, session |-> seen]}
                 \cup {[url |-> u, session |-> kept] : u \in Urls \cup Returns} :
    Hop(End(place)) = End(place)

\* Where they end: a tenant that was read as unapproved at its pending page and
\* nowhere in the console, an active one at its own dashboard, the platform's
\* administrator, who has no tenant, never in a console of the server's.
Home == CASE kept = None /\ fixture = None -> Url("login")
          [] kept = Platform               -> Url("admin")
          [] OTHER                         -> Console(Current)

AtHome(u) ==
  IF Home.page = "console"
  THEN IF info[Current].data \in Unapproved /\ ~Loading(Current) THEN u = Url("pending") ELSE u = Home
  ELSE u = Home

RedirectsLeadHome ==
  /\ kept # None => AtHome(Arrival(Url("login")).url)
  /\ \A u \in Urls \ Public : LET v == Arrival(u).url IN
       /\ v.page = "console" => Current # None /\ info[Current].data \notin Unapproved
       /\ v.page = "pending" => Current # None
       /\ kept = Platform /\ fixture = None => v = Url("admin")

\* A code is sent to the server once, however often its page is loaded: Kakao
\* refuses the second exchange, and the visitor would read an error.
CodeSentOnce == \A n \in Ids : exchanged[n] =< 1

\* The callback page says that it is checking only while something is under way.
CallbackSpeaks ==
  at \in Returns /\ seen = None /\ started => failure \/ exchanges # {}
\* The four together, with the types: a tab finds its page, whatever other tabs and
\* the server do meanwhile (App's routes, KakaoCallbackPage).
TabFindsItsPage ==
  TypeOK /\ NavigationSettles /\ RedirectsLeadHome /\ CodeSentOnce /\ CallbackSpeaks
=============================================================================
