---------------------------- MODULE ConfigDraft ----------------------------
(***************************************************************************)
(* The settings pages of the owner's console (profile, policy, business     *)
(* hours, calls, text messages).  Each edits its own slice of one            *)
(* TenantAgentConfig: useAgentConfigDraft copies the whole config from the   *)
(* query cache into a draft, the page patches the draft, and Save PUTs the    *)
(* whole draft to /tenants/:id/agent-config.  After a successful PUT the      *)
(* query is invalidated and read again.                                      *)
(*                                                                          *)
(* A browser tab has one query cache and shows one page at a time; a PUT      *)
(* under way survives the page that sent it.  Requests are served and          *)
(* answered in any order, and any of them may fail before or after it was      *)
(* served.  A value of a slice is the number of the edit that wrote it.       *)
(***************************************************************************)
EXTENDS Naturals

CONSTANTS Tabs,
          Slices,      \* one per settings page
          Saves,       \* bound: PUTs under way at once
          MaxEdits,    \* bound: edits
          MaxWrites,   \* bound: writes of the table
          Blank,       \* a slice of emptyAgentConfigDraft
          None

ASSUME BoundAssumption == MaxEdits \in Nat /\ MaxWrites \in Nat
ASSUME BlankAssumption == Blank \notin 0..MaxEdits
ASSUME NoneAssumption == None \notin Slices

VARIABLES
  server,    \* the TenantAgentConfig row
  edits,     \* edits made so far
  writes,    \* history: writes of the table so far
  page,      \* the settings page a tab shows, or None
  cache,     \* the cached query data of a tab, or None
  cacheAt,   \* history: the value of writes when cache was read
  failed,    \* the query's error: the page shows ErrorBlock
  stale,     \* invalidated (isInvalidated) and not read successfully since
  fetch,     \* the query's request: "idle", "asked", "served"
  got,       \* what the served request read
  draft,     \* the draft of the page shown
  saved,     \* "Saved." is shown
  wrote,     \* history: the value of writes after the PUT "Saved." is about, 0 if there is none
  save       \* the PUTs under way

query == <<cache, cacheAt, failed, stale, fetch, got>>
form == <<page, draft, saved, wrote>>
vars == <<server, edits, writes, query, form, save>>

Value == 0..MaxEdits \cup {Blank}
Config == [Slices -> Value]
Count == 0..MaxWrites
emptyAgentConfigDraft == [s \in Slices |-> Blank]
Nothing == [data |-> emptyAgentConfigDraft, at |-> 0]

\* mine: the page that sent it is still shown; basis: cacheAt when it was sent;
\* at: the value of writes after it was served
Put == [tab : Tabs, page : Slices, body : Config, mine : BOOLEAN, basis : Count,
        stage : {"sent", "served", "refreshing"}, at : Count]

TypeOK ==
  /\ server \in Config
  /\ edits \in 0..MaxEdits
  /\ writes \in Count
  /\ page \in [Tabs -> Slices \cup {None}]
  /\ cache \in [Tabs -> Config \cup {None}]
  /\ cacheAt \in [Tabs -> Count]
  /\ failed \in [Tabs -> BOOLEAN] /\ stale \in [Tabs -> BOOLEAN]
  /\ fetch \in [Tabs -> {"idle", "asked", "served"}]
  /\ got \in [Tabs -> [data : Config, at : Count]]
  /\ draft \in [Tabs -> Config]
  /\ saved \in [Tabs -> BOOLEAN]
  /\ wrote \in [Tabs -> Count]
  /\ save \in [Saves -> Put \cup {None}]

Init ==
  /\ server = [s \in Slices |-> 0]
  /\ edits = 0 /\ writes = 0
  /\ page = [t \in Tabs |-> None]
  /\ cache = [t \in Tabs |-> None]
  /\ cacheAt = [t \in Tabs |-> 0]
  /\ failed = [t \in Tabs |-> FALSE]
  /\ stale = [t \in Tabs |-> FALSE]
  /\ fetch = [t \in Tabs |-> "idle"]
  /\ got = [t \in Tabs |-> Nothing]
  /\ draft = [t \in Tabs |-> emptyAgentConfigDraft]
  /\ saved = [t \in Tabs |-> FALSE]
  /\ wrote = [t \in Tabs |-> 0]
  /\ save = [k \in Saves |-> None]

-----------------------------------------------------------------------------
Of(k, t) == save[k] # None /\ save[k].tab = t

(* isPending of the page's own mutation: SaveBar is disabled.                *)
Saving(t) == \E k \in Saves : Of(k, t) /\ save[k].mine

(* The form is there: not Loading, not ErrorBlock.                           *)
Shown(t) == page[t] # None /\ cache[t] # None /\ ~failed[t]

(* "Saved." goes away.                                                       *)
Unsay(t) == saved' = [saved EXCEPT ![t] = FALSE] /\ wrote' = [wrote EXCEPT ![t] = 0]

(* The page mounts: the draft is taken from the cache, and the query is read  *)
(* again if it must be; a cache younger than staleTime is taken as it is.     *)
Open(t, s) ==
  /\ page[t] = None
  /\ page' = [page EXCEPT ![t] = s]
  /\ draft' = [draft EXCEPT ![t] = IF cache[t] = None THEN emptyAgentConfigDraft ELSE cache[t]]
  /\ Unsay(t)
  /\ fetch' \in IF fetch[t] # "idle" THEN {fetch}
                ELSE {[fetch EXCEPT ![t] = "asked"]}
                     \cup IF cache[t] = None \/ stale[t] THEN {} ELSE {fetch}
  /\ UNCHANGED <<server, edits, writes, cache, cacheAt, failed, stale, got, save>>

(* The page unmounts: its draft is gone, its PUT goes on without it.          *)
Leave(t) ==
  /\ page[t] # None
  /\ page' = [page EXCEPT ![t] = None]
  /\ Unsay(t)
  /\ draft' = [draft EXCEPT ![t] = emptyAgentConfigDraft]
  /\ save' = [k \in Saves |-> IF Of(k, t) THEN [save[k] EXCEPT !.mine = FALSE] ELSE save[k]]
  /\ UNCHANGED <<server, edits, writes, query>>

(* The network came back: the query is read again.                           *)
Refetch(t) ==
  /\ page[t] # None /\ fetch[t] = "idle"
  /\ fetch' = [fetch EXCEPT ![t] = "asked"]
  /\ UNCHANGED <<server, edits, writes, cache, cacheAt, failed, stale, got, form, save>>

(* getAgentConfig.                                                           *)
FetchServed(t) ==
  /\ fetch[t] = "asked"
  /\ fetch' = [fetch EXCEPT ![t] = "served"]
  /\ got' = [got EXCEPT ![t] = [data |-> server, at |-> writes]]
  /\ UNCHANGED <<server, edits, writes, cache, cacheAt, failed, stale, form, save>>

(* invalidateQueries returned: the PUTs of the tab that waited for the query  *)
(* are over, and the page that sent one says so.                             *)
Over(t, k) == Of(k, t) /\ save[k].stage = "refreshing"
Settled(t) == [k \in Saves |-> IF Over(t, k) THEN None ELSE save[k]]
Tell(t) ==
  IF \E k \in Saves : Over(t, k) /\ save[k].mine
    THEN /\ saved' = [saved EXCEPT ![t] = TRUE]
         /\ \E k \in Saves : /\ Over(t, k) /\ save[k].mine
                             /\ wrote' = [wrote EXCEPT ![t] = save[k].at]
    ELSE UNCHANGED <<saved, wrote>>

(* Data equal to the cached data keeps its reference, so the effect that      *)
(* copies it into the draft runs only when something changed.                *)
Mut_ResetOnce(t) == draft' = IF page[t] # None /\ cache[t] = None
                             THEN [draft EXCEPT ![t] = got[t].data] ELSE draft
Mut_Reset(t) == draft' = IF page[t] # None THEN [draft EXCEPT ![t] = got[t].data] ELSE draft
Reset(t) == draft' = IF page[t] # None /\ got[t].data # cache[t]
                     THEN [draft EXCEPT ![t] = got[t].data] ELSE draft

FetchAnswered(t) ==
  /\ fetch[t] = "served"
  /\ fetch' = [fetch EXCEPT ![t] = "idle"]
  /\ cache' = [cache EXCEPT ![t] = got[t].data]
  /\ cacheAt' = [cacheAt EXCEPT ![t] = got[t].at]
  /\ failed' = [failed EXCEPT ![t] = FALSE] /\ stale' = [stale EXCEPT ![t] = FALSE]
  /\ got' = [got EXCEPT ![t] = Nothing]
  /\ Reset(t)
  /\ save' = Settled(t) /\ Tell(t)
  /\ UNCHANGED <<server, edits, writes, page>>

Mut_FetchFails(t) ==
  /\ fetch[t] \in {"asked", "served"}
  /\ fetch' = [fetch EXCEPT ![t] = "idle"]
  /\ failed' = [failed EXCEPT ![t] = TRUE]
  /\ got' = [got EXCEPT ![t] = Nothing]
  /\ UNCHANGED <<server, edits, writes, cache, cacheAt, stale, page, draft, saved, wrote, save>>

FetchFails(t) ==
  /\ fetch[t] \in {"asked", "served"}
  /\ fetch' = [fetch EXCEPT ![t] = "idle"]
  /\ failed' = [failed EXCEPT ![t] = TRUE]
  /\ got' = [got EXCEPT ![t] = Nothing]
  /\ save' = Settled(t) /\ Tell(t)
  /\ UNCHANGED <<server, edits, writes, cache, cacheAt, stale, page, draft>>

-----------------------------------------------------------------------------
(* The owner types into the page's slice; "Saved." goes away.                *)
Patch(t) ==
  /\ Shown(t)
  /\ edits < MaxEdits
  /\ edits' = edits + 1
  /\ draft' = [draft EXCEPT ![t][page[t]] = edits']
  /\ Unsay(t)
  /\ UNCHANGED <<server, writes, query, page, save>>

Save(t, k) ==
  /\ Shown(t) /\ ~Saving(t)
  /\ save[k] = None
  /\ save' = [save EXCEPT ![k] = [tab |-> t, page |-> page[t], body |-> draft[t], mine |-> TRUE,
                                  basis |-> cacheAt[t], stage |-> "sent", at |-> 0]]
  /\ UNCHANGED <<server, edits, writes, query, form>>

(* putAgentConfig: the draft names every column, so the upsert replaces all.  *)
Upsert(body) == server' = body

PutServed(k) ==
  /\ save[k] # None
  /\ save[k].stage = "sent"
  /\ writes < MaxWrites
  /\ writes' = writes + 1
  /\ Upsert(save[k].body)
  /\ save' = [save EXCEPT ![k].stage = "served", ![k].at = writes',     \* what it carried
                            ![k].body = emptyAgentConfigDraft, ![k].basis = 0]   \* is in the row
  /\ UNCHANGED <<edits, query, form>>

(* onSuccess without cancelRefetch: a request under way is waited for.        *)
Mut_PutAnswered(k) ==
  /\ save[k] # None
  /\ save[k].stage = "served"
  /\ LET t == save[k].tab
     IN IF page[t] = None
          THEN /\ save' = [save EXCEPT ![k] = None]
               /\ UNCHANGED <<fetch, got, saved, wrote>>
          ELSE /\ fetch' = IF fetch[t] = "idle" THEN [fetch EXCEPT ![t] = "asked"] ELSE fetch
               /\ UNCHANGED got
               /\ save' = [Settled(t) EXCEPT ![k] = [save[k] EXCEPT !.stage = "refreshing"]]
               /\ Tell(t)
  /\ stale' = [stale EXCEPT ![save[k].tab] = TRUE]
  /\ UNCHANGED <<server, edits, writes, cache, cacheAt, failed, page, draft>>

(* onSuccess invalidates the query: a request under way is dropped and sent    *)
(* anew if a page is there, and those that waited for it are over.           *)
PutAnswered(k) ==
  /\ save[k] # None
  /\ save[k].stage = "served"
  /\ LET t == save[k].tab
     IN IF page[t] = None
          THEN /\ save' = [save EXCEPT ![k] = None]
               /\ UNCHANGED <<fetch, got, saved, wrote>>
          ELSE /\ fetch' = [fetch EXCEPT ![t] = "asked"]
               /\ got' = [got EXCEPT ![t] = Nothing]
               /\ save' = [Settled(t) EXCEPT ![k] = [save[k] EXCEPT !.stage = "refreshing"]]
               /\ Tell(t)
  /\ stale' = [stale EXCEPT ![save[k].tab] = TRUE]
  /\ UNCHANGED <<server, edits, writes, cache, cacheAt, failed, page, draft>>

(* The request failed, was refused, or its answer was lost: saveError.        *)
PutFails(k) ==
  /\ save[k] # None
  /\ save[k].stage \in {"sent", "served"}
  /\ save' = [save EXCEPT ![k] = None]
  /\ UNCHANGED <<server, edits, writes, query, form>>

(* The settings are written elsewhere: the industry template, another         *)
(* browser, an administrator.                                                *)
Elsewhere(s) ==
  /\ writes < MaxWrites /\ edits < MaxEdits
  /\ writes' = writes + 1
  /\ edits' = edits + 1
  /\ server' = [server EXCEPT ![s] = edits']
  /\ UNCHANGED <<query, form, save>>

Request(k) == PutServed(k) \/ PutAnswered(k) \/ PutFails(k)
Read(t) == FetchServed(t) \/ FetchAnswered(t) \/ FetchFails(t)
Owner(t) == \/ \E s \in Slices : Open(t, s)
            \/ Leave(t) \/ Refetch(t) \/ Patch(t)
            \/ \E k \in Saves : Save(t, k)

Next == \/ \E t \in Tabs : Owner(t) \/ Read(t)
        \/ \E k \in Saves : Request(k)
        \/ \E s \in Slices : Elsewhere(s)

Spec == Init /\ [][Next]_vars

\* The browser ends every request it sends, with an answer or an error.
FairSpec == Spec /\ (\A t \in Tabs : WF_vars(Read(t)))
                 /\ (\A k \in Saves : WF_vars(Request(k)))

-----------------------------------------------------------------------------
(* What a page shows and would send outside its own slice is what it last     *)
(* read: agent-config-draft.ts keeps the whole config in the draft so that    *)
(* the other pages' fields are carried along.                                *)
DraftOnData ==
  \A t \in Tabs : page[t] # None /\ cache[t] # None =>
    \A s \in Slices \ {page[t]} : draft[t][s] = cache[t][s]

(* The empty draft a page starts with never reaches the table, however early  *)
(* Save is pressed (the isLoading and error returns of the pages).           *)
NeverBlank == \A s \in Slices : server[s] # Blank

(* While "Saved." is shown and the query is at rest, the page shows settings   *)
(* read after that PUT was stored: a request sent before it never answers     *)
(* last (cancelRefetch of invalidateQueries).                                *)
ReadYourWrites ==
  \A t \in Tabs : saved[t] /\ ~failed[t] /\ fetch[t] = "idle" => cacheAt[t] >= wrote[t]

(* A page's Save changes nothing but the page's slice, unless the settings     *)
(* were written since the page read them: then the Save writes the old ones   *)
(* back, in every slice, though agent-config-draft.ts:4-7 keeps the whole     *)
(* config so that the other pages' fields are not lost.                       *)
OnlyTheSliceIsWritten ==
  [][\A k \in Saves : PutServed(k) /\ save[k].basis = writes =>
       \A s \in Slices \ {save[k].page} : server'[s] = server[s]]_vars

(* A read discards what the owner is typing only if the settings were written  *)
(* since the page read them, by somebody else or by the page's own Save.      *)
RefetchKeepsTyping ==
  [][\A t \in Tabs : FetchAnswered(t) /\ cache[t] # None /\ cacheAt[t] = writes
                      => draft'[t] = draft[t]]_vars

(* A Save under way ends, whatever fails: SaveBar does not stay disabled.     *)
SaveSettles == \A k \in Saves : save[k] # None ~> save[k] = None

-----------------------------------------------------------------------------
(* Why these hold. Whatever was read at the present count of writes is what    *)
(* the table holds, in the cache, in an answer under way and, off its own      *)
(* page's slice, in a PUT that was sent.                                      *)
CacheAsRead ==
  \A t \in Tabs : /\ cacheAt[t] =< writes
                  /\ cache[t] # None /\ cacheAt[t] = writes => cache[t] = server

AnswerAsRead ==
  \A t \in Tabs : fetch[t] = "served" =>
    /\ cacheAt[t] =< got[t].at /\ got[t].at =< writes
    /\ got[t].at = writes => got[t].data = server

Sent(k) == save[k] # None /\ save[k].stage = "sent"

SentAsRead ==
  \A k \in Saves : Sent(k) =>
    /\ save[k].basis =< writes
    /\ save[k].basis = writes =>
         \A s \in Slices \ {save[k].page} : save[k].body[s] = server[s]

(* No blank slice is anywhere it could reach the table from.                 *)
NotBlank(c) == \A s \in Slices : c[s] # Blank

Filled ==
  /\ NotBlank(server)
  /\ \A t \in Tabs : /\ cache[t] # None => NotBlank(cache[t])
                     /\ fetch[t] = "served" => NotBlank(got[t].data)
                     /\ page[t] # None /\ cache[t] # None => NotBlank(draft[t])
  /\ \A k \in Saves : Sent(k) => NotBlank(save[k].body)

(* A PUT that waits for the query waits for a request served after it, and    *)
(* what "Saved." speaks of is read, or will be by the request under way.      *)
WaitsForNews ==
  \A k \in Saves : save[k] # None =>
    /\ save[k].at =< writes
    /\ save[k].stage = "refreshing" =>
         /\ fetch[save[k].tab] # "idle"
         /\ fetch[save[k].tab] = "served" => save[k].at =< got[save[k].tab].at

ToldIsRead ==
  \A t \in Tabs : saved[t] =>
    /\ wrote[t] =< writes
    /\ fetch[t] = "served" => wrote[t] =< got[t].at
    /\ fetch[t] = "idle" /\ ~failed[t] => wrote[t] =< cacheAt[t]

IInv == /\ TypeOK /\ DraftOnData /\ CacheAsRead /\ AnswerAsRead /\ SentAsRead
        /\ Filled /\ WaitsForNews /\ ToldIsRead
=============================================================================
