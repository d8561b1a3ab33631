# CallBee: specification and verification

CallBee (the repository calls the product Colli / BoBi) answers business calls
with a voice agent. ClawOps, an external telephony service, reports every call by
webhook; a voice process drives the agent; a Nest API executes the agent's tools
and keeps tenants, calls and their records; a Python gateway connects the same API
to a realtime voice service; owners and the platform's administrators work through
two React applications.

This directory holds TLA+ models of the parts whose correctness depends on the
order in which things happen, the TLC runs that check them on small instances and
TLAPS proofs of the main results for every value of the parameters.

Contents: 1 inventory, 2 how the project is laid out, 3 modules and the code they
model, 4 runs, bounds and fairness, 5 proofs, 6 what the code does that its
documents or readers would not expect, 7 what is not modelled.

## 1. Inventory

| component | state | operations | hard behaviour |
|---|---|---|---|
| call session handler (`apps/voice/src/session`) | `live`, `unknownTenantCalls`, `lastToolCall`; stored sessions, consents, transcripts, tool traces, recordings | one async handler per webhook: initiated, answered (runs the whole agent loop), ended, recording | handlers of one call interleave at every await; repeated and overtaking webhooks; rejected adapter calls |
| voice adapters and HTTP ports (`apps/voice/src/adapters`, `ports`) | none | answer, hang up, record, transfer; tool calls; tenant lookup | any of them may reject, in the middle of a handler |
| voice gateway (`services/voice-gateway`) | the tenant's configuration, the prompt of the process, the calls in progress, registration tasks | boot, call start, transcript, call end, configuration refresh | handlers of a finished call run into the next one; end during start; requests that time out and are served all the same |
| call ingest API (`ingest.controller.ts`) | call sessions, transcript segments | create (idempotent), append, complete | find-then-create races, repeated posts |
| tools (`tools.service.ts`, `custom-tool-executor.service.ts`) | session states, tickets, callbacks, messages, traces | eight tools, some behind a gate; webhook tools | a gate read before an await, traces that fail after the effect, a definition and its secret read apart |
| tenant lifecycle (`signup`, `auth`, `onboarding`, `tenants` controllers) | tenants, accounts, agent configurations, numbers | signup, approve, reject, update, resolve by number | concurrent reviewers, number uniqueness, partly failed signup |
| industry templates (`industry-template.service.ts`) | agent configuration, intents, knowledge items | plan and apply a pack | concurrent edits, partial failure and re-apply |
| notifications (`services/notifications`) | notifications and their status, attempts | enqueue with retries, delivery receipts | receipts that overtake the sender, repeated sends, attempts at the limit |
| dialogue (`packages/dialogue`) | none | classify, choose the next action, emotion, prompt, opening hours | precedence of rules, boundaries, endless re-asking, midnight |
| settings pages (`useAgentConfigDraft` and five pages) | the draft, the query's cache, PUTs under way | open, type, Save, refetch | every Save writes the whole configuration; answers out of order |
| agent studio (`IntentsPage`, `ToolsPage`, `KnowledgeBasePage`, resolver) | three tables, lists, a form, mutations | create, update, toggle, delete, resolve a call | stale forms, look-then-write, two reads of one answer |
| sign-up wizard (`SignupWizardPage`) | step, draft, one request | type, next, back, submit | fields changed under a pending request, lost answers |
| administrator's tenants page (`AdminTenantsPage`, `TenantsAdminPage`) | list, modals, creation form; the tenants of two demos | review, create | a list read before a review and answered after it; answers to closed modals; two demos that play the server |
| ways into the console (`App`, guards, `session`, `kakao-login`) | stored session, its copies, tenant query, Kakao state | navigate, load, log in and out | three guards and three pages redirect, each on its own data |
| stores (`tenant-in-memory`, `tenant-prisma`, the demo in `client.ts`) | rows of four tables | create, update, delete, put | three implementations of one interface, one of them in two steps |
| compliance, masking, console authentication, other pages, database schema | | | not modelled (section 7) |

How they interact:

- ClawOps posts webhooks to the voice router, which runs one `SessionHandler`
  handler for each post and replies when the handler returns. Handlers call back
  into ClawOps (answer, record, transfer, hang up), drive a voice-agent session
  (an async iterator), call the API's tools over HTTP, ask the API which tenant
  owns the dialled number, and write to the call repository.
- The Python gateway is a second way to answer calls. Its SDK emits call_start,
  transcript and call_end in one asyncio loop; every HTTP request runs in a thread
  under a timeout. It resolves the tenant around each call and posts the call's
  start, segments and end to the ingest API.
- The API's controllers share the database and, in memory, the session states of
  the tools. They run in one event loop (or several processes), so requests
  interleave between any two queries. `$transaction` does not enclose the queries
  it is meant to (section 6).
- An approval applies the tenant's industry template in the same request; the
  owner edits the same rows from the console.
- The console's pages go through one query cache per browser tab and one
  `localStorage` for all of them. A mutation outlives the page that sent it.
- `NotificationsService` is called by tools, calls the Kakao provider with retries
  and is called back through delivery receipts.

What makes each component correct:

| component | correctness |
|---|---|
| call session handler | nothing is recorded and the agent does nothing before the disclosure and both consents are stored; an answered call is found by its answered handler; the end of a call is filed; after it nothing of the call remains in memory; what is filed stays; the stored outcome is the one the agent reached. (Where the code falls short of one of these, section 6 says so and the property names the exception.) |
| voice gateway, ingest | one record per call however often it is posted, under one tenant for good; a call gets the prompt of its own refresh; what was heard is filed; overlapping calls keep apart; a call that ended is forgotten |
| tools | a ticket is for a subscriber whom a lookup of that call found; answer, effect and trace of a request tell the same; a webhook is signed with the secret of the definition it was made from |
| tenant lifecycle | a number reaches one business; only reviewed or administrator-made tenants are live; a verdict stands; a signup is whole; a lookup names a tenant that was live during it, and the one that was live all along |
| industry templates | an application only adds: no overwritten field, no doubled question; "ok" means the whole pack |
| notifications | the status moves forward only and tells the truth about the provider; a failed message used up its attempts; a queued message leaves the queue |
| opening hours | calls, preview and prompt tell what the week of hours means |
| dialogue | a caller is not asked in circles; the classifier computes what it documents; the general rules choose what BoBi's do; a prompt names no tool that the call lacks |
| settings, studio | a Save changes what its page shows and nothing else; under "Saved." one sees what was saved; typing is not lost to a refetch; Save ends |
| wizard, administrator, access | what the page shows was sent, and what it was told happened; redirects end, and at the right page |
| stores | the three behave as one interface, renames included; keys and names stay unique |

PROJECT.json lists every hazard at its line, with the properties that cover it.

## 2. How the project is laid out

| area | specification | abstract specification | TLC instance | proofs |
|---|---|---|---|---|
| voice worker | `VoiceSession`, `VoiceSessionProps` | `CallLedger` | `MCVoiceSession` | `VoiceSessionProofs` |
| Python gateway and call record | `VoiceGateway` extends `CallIngest` | `CallRecord` | `MCVoiceGateway` | `VoiceGatewayProofs` |
| tools | `ToolExecution` | | `MCServices` | `ServiceProofs` |
| notifications | `Notifications` | `DeliveryStatus` | `MCServices` | `ServiceProofs` |
| tenants | `TenantReview` | | `MCTenantReview` | `TenantReviewProofs` |
| templates | `TemplateApply` | | `MCAgent` | `AgentProofs` |
| opening hours | `BusinessHours`, `HoursEditor` | `IsOpen` in `BusinessHours` | `MCPages` | `PagesProofs` |
| ways into the console | `ConsoleAccess` | | `MCPages` | `PagesProofs` |
| settings pages | `ConfigDraft` | | `MCConfigDraft` | `ConfigDraftProofs` |
| dialogue and studio | `Studio` extends `Dialogue` | `IsClassOf` in `Studio` | `MCAgent` | `AgentProofs` |
| stores | `Stores` | `RowStore` | `MCConsole` | `ConsoleProofs` |
| wizard, administrator's page | `SignupWizard`, `ReviewDesk` | | `MCConsole` | `ConsoleProofs` |

`CallIngest` and `VoiceGateway` are composed: the gateway's requests are the rows
that the API's handlers serve. `Studio` composes pages, routes and resolver with
the decision functions of `Dialogue`. `HoursEditor` takes both readings of the hours
from `BusinessHours`. `MCPages`, `MCConsole`, `MCServices` and `MCAgent` put
specifications that share no state side by side, so that one module of proofs may
speak of all of them. In the first two every behaviour is a behaviour of one of the
specifications, all in one run (`hours` for MCPages); the other two have a
configuration for each.

What a next step could be: the store of calls behind the console's lists, and the
server's handlers inside `ReviewDesk` (as `TenantReview` has them) rather than as
whole steps.

## 3. Modules and the code they model

`PROJECT.json` maps every definition to its lines. Common conventions:

- An async handler is a process with a program counter. A step runs from the
  return of one await to the next one; the label names the await.
- A repository write takes effect in the step that issues it. The in-memory
  repositories apply an update before they return the promise. A query of the
  Prisma repositories is a step of its own.
- A rejected adapter call may have taken effect before it was rejected; a request
  that timed out may be served later.
- In the browser, a click, an answer and a redirect are steps; React Query's rules
  (which answer is dropped, which callback runs after an unmount) are part of them.
- Variables marked "history" are read by properties and by no guard.
- Texts, prompts, phone digits, timestamps and log lines are left out.

### VoiceSession, VoiceSessionProps, CallLedger

`SessionHandler` of `apps/voice/src/session/session-handler.ts`, with the webhook
router that runs it and `call-repository-mock.ts`. A post is a webhook of one type
for one call, with a copy number; `pc[p]` is the await its handler is at, `at[p]`
the session in hand, `turn[p]` the guard of `driveAgent`'s loop, `tool[p]` the tool
it runs. `live`, `unknown`, `lastTool` are the handler's maps; `outcome` and `agent`
are the fields of the LiveCall objects; the remaining variables are the tables.
The telephone side (`line`, `recording`, `transferred`, `posts`) is the
environment: it rings, connects, hangs up and posts webhooks in any order, each up
to `MaxCopies` times for the types in `Redelivered`: nothing in the code makes ClawOps
wait for one reply before the next post. `late` is a history variable: the calls that
onInitiated registered after call.ended had looked for them.

| code | actions |
|---|---|
| `onInitiated` | `OnInitiated`, `ResolveUnknown`, `AnswerUnknown`, `ResolveKnown`, `Replied` |
| `onAnswered` | `OnAnsweredUnknown`, `Drop`, `Dropped`, `OnAnsweredMissing`, `OnAnswered`, `ConsentToAI`, `ConsentToRecording`, `NoteDisclosure`, `StartRecording`, `StartAgent` |
| `driveAgent`, `runTool`, `finalize` | `AgentDone`, `Converse`, `BargeIn`, `InvokeTool`, `TraceTool`, `IdentifySubscriber`, `ToolSucceeded`, `ToolErred`, `FinalHangUp`, `FinalTransfer`, `Transferred` |
| `onEnded` | `OnEndedMissing`, `OnEnded`, `CloseAgent`, `Forget` |
| `onRecordingCompleted` | `OnRecording`, `SaveRecording`, `SaveTranscript` |
| `voice-router.ts` | `Throw`: a rejected handler is answered with 500 |

The in-memory repository keeps no `endedAt` and no `failureReason`: `ended` and
`failed` stand for the updates the handler issues. The agent loop ends at a final
event. `CallLedger` is the abstract record: opened once, worked on and captured
only when consented, closed for good; `ImplementsLedger` maps the tables to it.

### CallIngest, VoiceGateway, CallRecord

`CallIngest` is the three routes of `ingest.controller.ts` over `CallSession` and
`Transcript`; request `<<c, n>>` is the n-th POST /ingest/calls with the ClawOps id of
call `c`. `VoiceGateway` is the Python process in front of it. `ctx`, `current` and
`known` are `GatewayState`; `prompt` is the prompt of the one agent object, which the
next session takes whatever call it belongs to; `start`, `ending`, `say` and `task`
are the handlers of a call.

| code | actions |
|---|---|
| `ingest.controller.ts` createCall | `FindSessionOrTenant`, `CreateSession` |
| appendTranscript, completeCall | `AppendTranscript`, `CompleteCall` |
| `refresh_context` | `ResolveTenant`, `Refreshed`, `NotRefreshed`, `PostCallRefresh` |
| `on_call_start`, `_register_call` | `Ring`, `OnCallStart`, `SessionStart`, `Registered`, `NotRegistered`, `Repeat` |
| `on_transcript`, `_await_registration` | `OnTranscript`, `PostTranscript`, `TranscriptPosted`, `TranscriptLost` |
| `on_call_end` | `HangUp`, `OnCallEnd`, `Complete`, `Completed`, `NotCompleted` |
| `get_kb_answer` | `LookupHeaders` |

The line carries one call at a time, but the end of one may be handled while the next
rings. `Edit` is the owner's change of the configuration, or an operator moving the
number. `CallRecord` is what the console reads: filed under one tenant for good, lines
only added, closed once. Two history variables name what section 6 says of overlapping
handlers: `early`, the calls that ended while their call_start awaited its refetch, and
`overlapped`, those that rang while an earlier call_start did.

### ToolExecution

POST /tools/:name: the eight tools of `ToolsService`, the webhook tools of
`CustomToolExecutor` and `HttpToolClient.invoke` at the other end. A request goes
through its gate, its effect and its trace, with an await at each, and `StepFails`
rejects whichever it waits for - gate, effect, definition or secret; `store` is the
in-memory `SessionStore` that all requests of a call share. `Unguarded` is the code's
own exception: without a header, or before the call has a session state, the gate
checks nothing. `Stored` is DATA_ADAPTER=prisma, where a trace is a row with a foreign
key and may be refused. `EditTool` is the owner, between the two reads of a webhook
tool. One webhook tool stands for those of a tenant; requests name it or a system tool.

### Notifications, DeliveryStatus

`NotificationsService.sendAlimtalk`, `runWithRetry` and `markDelivered`. Each
sendAlimtalk call has its own record (`status`, `attempts`, `lastError`, `msgId`).
The provider either takes a message over (`Accept`) and answers, takes it over and
its answer is lost, or refuses; an attempt that is answered with an error may
therefore have been accepted. `Throw` is a promise that rejects. `MarkDelivered` looks
at nothing, as in the code; that a receipt names a message the provider took over
(`ReceiptIsKnown`) is an assumption on the provider, the comment's at service.ts:134-137.
`DeliveryStatus` is the life of a record that `KakaoDeliveryStatus` promises its readers.

### TenantReview

The controllers `signup`, `auth` (createTenantAccount, approveTenant, rejectTenant),
`onboarding`, `tenants` (POST, PUT) and `tenant-resolver.service.ts`. A request is a
process; `at[r]` is the query it runs next, `of[r]` the tenant it is about. The
unique columns (`Tenant.phoneNumber`, `AdminAccount.email`) reject a write in the
query itself. History variables: `live[r]`, the tenants that were active with the
dialled number at some instant of a lookup; `steady[r]`, those that were so, and
configured, from its arrival on; `crossed`, the tenants of which two reviews were past
their check of the status at once; `patched`, those that PUT /tenants/:id changed.

Choices: a query that fails wrote nothing, and what earlier queries of the request
wrote stays. Malformed requests are answered before any query and left out. A
finished request slot is reused, so `Requests` bounds how many run at once, never
how many run. PUT /tenants/:id writes a number, a status or both, any status, `active`
too, and is open to the tenant's own administrator (tenants.controller.ts:196-211 and
271-292); `Given` is the statuses a run gives to POST and PUT, and the proofs hold for
all of them. The placeholder number of a signup carries a random slug and never collides.

### TemplateApply

`IndustryTemplateService.apply` with `planIndustryTemplateApply`, against the
owner's PUT, POST and DELETE of the same rows. An application reads configuration,
intents and knowledge base (one `Promise.all`, three queries in any order), writes
the merged configuration, then one query for each intent and for each question. A
query that is rejected ends it (`Fail`); a key created meanwhile is a unique
violation (`KeyTaken`). Rewording a question is a deletion and a creation. The
history variable `disturbed` holds the applications during which another request
changed the tenant's rows; everything the code can promise is about the others.

### BusinessHours, HoursEditor

`BusinessHours` holds the server's reading (`IsWithinBusinessHours`, read by
`TenantResolverService` when a call is resolved), the console's preview
(`IsWithinPreview`), the summary that goes into the prompt, and a reference that
shares nothing with either: `IsOpen` tells a week by its events - the place opens at
every opening time, closes at the next closing time on the clock, a break begins and
ends likewise. `RulesMeet` says where the preview and the server give one answer: in the
small hours, when the night that began yesterday and today's hours say the same of the
minute (`NightOf`), and no holiday is involved. The machine is a clock over chosen
instants with calls and looks at the preview in between. `HoursEditor` is the page that edits them: the week, the rows
of breaks opened by a button, the chips of closing dates, Save.

### ConsoleAccess

How a browser tab finds its page. `kept` is `localStorage`, `seen` the copy that a
mounted page holds (`useSession`), `info` the tenant query. `Target` is what the
route at hand answers with (`OfLanding`, `OfLogin`, `OfConsole`, `OfPending`,
`OfAdmin`; `OfUnknown`, the route of unknown paths, goes by the session App last
rendered with), `Follow` one redirect. `Load` is a document load: memory is gone, storage
stays. `BeginKakao`, `KakaoReturns`, `CallbackEffect`, `KakaoArrives`, `KakaoFails` are
`kakao-login.ts` and the callback page, whose effect runs twice under StrictMode.
`OtherTab` changes the storage under this tab.

### ConfigDraft

`useAgentConfigDraft` and the five settings pages as slices of one configuration.
`cache`, `fetch`, `got`, `failed`, `stale` are the React Query entry; `draft` the
page's copy; `save` the PUTs under way. `PutAnswered` is the mutation's onSuccess:
it marks the entry stale, until a read succeeds, and if a page is mounted drops a read
under way and starts another (`cancelRefetch`). `Settled` ends the PUTs that waited for the read.
`Elsewhere` is another browser, an administrator or the industry template. A value is
the number of the edit that made it, so an overwritten edit can be told from a kept one.

### Dialogue, Studio

`Dialogue` holds the pure functions: `ClassifyBobi`, `ClassifyWithCatalog`,
`DecideAction`, `DecideGenericAction`, `TagEmotion`, the sections of the prompt with
the tools they name. What is said is the set of keywords heard in it. The loop that
looks for the best score is a recursive function whose step is `Better`; the order of
a catalogue is told by how many enabled intents sort before one (`Rank`), equal
numbers in the order the database gave (Array.sort is stable). `Studio` is
where their inputs come from: three pages with one form each, mutations whose answer
closes the form only if they are the latest of their observer, the routes (tools and
questions are looked up and then written, intents in one statement), and the resolver
that reads intents and tools by two queries. A conversation (`talk`) is a behaviour of
its own: BoBi's rules read none of the tables.

### SignupWizard, ReviewDesk

`SignupWizard` has the three steps, what is typed as the cases validation tells apart,
the request and its fates: `Serve`, `Receive`, `Lose` (before or after it was served),
`Leave`, and `ServeAdrift` for a signup whose page is gone. `ReviewDesk` has the list
and its one query, the approve and reject modals, reviews under way (a closed modal's
review goes on, and its onSuccess closes whichever modal of its kind is open), the
toast and the creation form; the server's handlers are whole steps, their
interleavings being TenantReview's. `source` is who answers: the server, or the demo
of one of the two applications, which looks at nothing but who holds the number
(`DemoAllows`), keeps no accounts and leaves what it creates active or, in the admin
application, to be set up (`StatusOfNew`).

### Stores, RowStore

`Stores` has one behaviour per store and table: in-memory and demo calls run in one
step, the Prisma routes of tools and questions look first (`Look`) and then write by
the identifier alone (`Finish`). `RowStore` is what the console may expect of all
three: each call takes effect at one moment between question and answer, on rows it
names, or not at all, and the answer says which. An update may carry another key or
name: the demo writes it over a tool's or an intent's, the database takes an intent's
whole body, its key included, under the unique index; the in-memory store and Prisma's
tools leave the name alone (`Renames`, `KeyTaken`, `Unread`). The refinement mapping
hides the lookup and shows a tool's secret only as a flag. No form or declared body of a
route carries a row's tenantId, so no call moves a row to another tenant.

## 4. Runs, bounds, fairness

Every run but `preview_rules` passes; each of its properties is listed with it in
PROJECT.json, and each has a mutant there: a plausible bug in a definition under which
TLC finds the property violated. `preview_rules` checks what a comment of the code says
and finds it violated; PROJECT.json has it as a finding.

| run | instance | shows |
|---|---|---|
| `voice_webhooks` | 1 call, call.initiated twice, any order, 1 agent event, 2 tools, adapters may reject | consents before recording and filed with it, answered calls are found, the stored outcome, the refinement of `CallLedger`; under fairness, the end is filed, nothing stays in memory, a caller of an unknown number is released |
| `notify_calls` | 2 messages, 3 attempts, rejections | the refinement of `DeliveryStatus`, `AnsweredLeavesQueue` under fairness |
| `review_serial` | 2 tenants, numbers, requests; 1 email; signup, create, onboard, approve, reject, in any overlap | whole signups, verdicts that stand |
| `review_routing` | same sizes; register, approve, update, resolve, statuses `active` and `pending_approval` | lookups name tenants that were live, and the one that was so all along |
| `template_applies` | 2 packs, 2 applications at once, 1 field, rule, intent, question | what undisturbed applications keep |
| `gateway_record` | 2 calls, 2 copies of a post, 1 utterance, 1 edit or repeat or utterance | calls keep apart, fresh prompts, nothing lost, the refinement of `CallRecord`, ends settle |
| `tools` | 2 requests, 2 session ids of which 1 has a row, 2 subscribers of whom 1 is known, 1 edit | gate, answers and traces, signatures |
| `hours` | 10 kinds of day, 4 lists of holidays, 19 instants; 2 tenants, 1 Kakao login; 2 changes of the hours | opening hours told alike, redirects, the editor's screen |
| `preview_rules` | as `hours` | the preview does not answer as calls are for overnight hours, which its header says it does (a finding) |
| `config_draft` | 1 tab, 2 pages, 2 PUTs under way, 2 edits, 2 writes | the four properties of the settings pages |
| `studio` | 2 intents, 2 tool ids, 1 tool name, 2 questions, 2 changes; 3 turns | rules of the dialogue, prompts, updates |
| `console` | 2 clients, tenants, keys, texts, rows; 2 addresses and plans; 2 reviews at once | stores, wizard, administrator's page |

Bounds. No two calls share state in `SessionHandler` (its maps are keyed by the
call), so one call shows every interleaving that matters; one agent event lets the
loop run a tool, fail at one, end, or reach its guard (32 in the code) without a final
event. Only call.initiated is repeated in the run, which is what opens a second session;
copies of the others as well multiply the states beyond a short run, and the proofs
cover every number of copies of every webhook. Three attempts are the code's
default and reach first, middle and last. Two tenants, numbers and requests are the
least for which a number can be contended, and one email the least for which it can. Two
applications are the least that disturb each other; `MaxItems` bounds what the
owner posts, and the applications add at most one item each to it.

The gateway's calls do share state, its prompt and its reference to the call under
way, so there are two of them, the least that overlap, and two requests that carry one
ClawOps id, the least that race; `MaxEvents` lets one thing happen besides - an edit, a
repeated request or an utterance. Two requests are the least where a gate is read
while another lookup changes what it reads. The kinds of day are day hours, overnight
hours, round the clock, breaks over and after midnight, before the opening time and
written backwards, with every combination on Monday, Tuesday and Sunday; the instants
are the minutes at and next to their boundaries. Two pages of one tab with two PUTs
and two writes are the least where a Save, a write from elsewhere and a read overtake
one another. Two changes in the studio let a stale form meet a row changed elsewhere,
three turns pass the limit of two attempts. Two rows and two clients let a row go
between another client's lookup and its write. Symmetry sets permute model values that
no definition tells apart, and no run with a liveness property uses one. The deadlock
check is off where the system may stop for good: a finite number of calls, messages,
edits or requests.

Fairness. `VoiceSessionProps!FairSpec` has weak fairness for each handler: node's
event loop runs a continuation whose promise has settled, and a webhook that was
posted is delivered. The caller and the line owe nothing. `Throw` carries no
fairness. `Notifications!FairSpec` has weak fairness for the steps of each
sendAlimtalk call: timers fire, and the provider answers or its client gives up with
an error. Receipts are not assumed. `VoiceGateway!Fairness` is weak fairness for the
handlers of each call: asyncio runs them and every await has a timeout (`wait_for`,
`urlopen`); nothing makes a caller hang up or the API answer. `ConfigDraft!FairSpec`
is weak fairness for the browser's requests: each ends with an answer or an error. The
owner owes nothing.

## 5. Proofs

Each `...Proofs` module proves its results for every value of the constants under
the named assumptions of the component's module; TLC evaluates those assumptions.

- `VoiceSessionProofs`: `Invariance` proves `IInv`, for any number of calls, copies
  and turns, with or without rejections, in whatever order webhooks come. It is built
  in three layers, each proved to be preserved with the ones below. The first is `TypeOK` and
  `HandlersOK`: which kind of post stands at which await, on which session. The
  second is `DisclosureProgress`: how far the consents are stored at each await of
  the answered handler, which yields `NothingBeforeDisclosure` and
  `RecordingAfterConsent`. The third is `AnsweredIsFindable`: from the moment the
  answer is ordered a call is live, unknown, ended or taken up, which yields
  `AnswerNotDropped`. The properties alone are not inductive: a handler about to
  start the recording has to be known to have stored the consents.
  Three more invariants rest on `IInv`, none with a further assumption. `OutcomeInv` says
  whose sessions the handlers have in hand (`SessionsApart`): a session that is being
  resolved is in no other handler's hands, so what runTool puts in memory and what
  onEnded files cannot cross; a session in memory without an outcome is told apart from
  one whose end was filed (`BlankUntilTold`), which leaves the transfer as the one lag
  (`OutcomeNotLost`). `FilingInv` says that a recording is of a call whose caller agreed
  in one of its sessions (`RecordedCalls`); from it `FiledWithConsent` and the refinement
  of `CallLedger` (`Refinement`) follow, each handler's step being one step of the ledger
  or none. `TearDownInv` says that, unless the call is in `late`, no handler registers it
  once its end was looked up, and that an open agent session is the live one or was
  replaced by it (`NothingLeftBehind`).
- `VoiceGatewayProofs`: `IInv` has a part for each thing the handlers share. `LineInv`:
  of the calls on the line the one not `overlapped` is `current` once its start is
  done. `PromptInv`: the version a call has been given, or will be, is not older than
  the one of its ring; a ringing call lets no other start handler write the prompt.
  `RequestsInv` and `AnswersInv`: a row's id names its call, and what was answered "ok"
  is in the tables. `SessionHeld`, `EndHeld`, `SayHeld`: the id a call's handlers hold
  is the one of its session, unless a request was lost. `QuietInv`: of a call in `early`,
  or one whose start is not done, nothing was heard. From these `KeptApart`,
  `PromptIsFresh`, `RecordIsComplete` - the first and the last with the exceptions of
  section 6, `early` and `overlapped` - and, row by row, the refinement of `CallRecord`.
- `ServiceProofs`: of the tools, `IInv` says what a request has done at each await.
  Before its trace it has left nothing anybody could see (`EarlyIsClean`); at and after
  it, what it will answer, what it did and what is traced agree (`OkHasItsEffect`,
  `FailureHasNone`, `TraceSaysOutcome`, `AnsweredIsTraced`), which is `ToldIsTrue`
  carried back to the await where the effect happens. `TicketAfterLookup` needs two
  more parts: whoever a session holds as verified was matched in it, and so was whoever
  a ticket that is past its gate is for. `SealedAsDefined` needs that the definition a
  webhook was read from is still the stored one until somebody edits it. Of the
  messages, `Progress` ties the place of a call to `attempts`, `sends`, `status` and
  `msgId`; from it `SentIsAccepted`, `FailedIsExhausted` and the step-by-step
  refinement of `DeliveryStatus` (`StatusIsDelivery`), for any number of attempts and
  receipts of messages the provider took over.
- `TenantReviewProofs`: `Established` says what a request that waits for its next
  query has already made true (its tenant exists, is configured, has its account),
  and that no other request can undo it; of a lookup under way, that the tenants that
  were live all along still are, and that what it found so far is the only one. From it:
  `NumberHeldOnce`, `HolderIsReached`, `SignupDelivers`, `RoutedWasLive`, and
  `LiveIsReviewed` (a live tenant was approved, made live by an administrator or patched),
  under any interleaving and any statuses given to PUT. `ReviewInv` is the second layer:
  of a tenant that no two reviews crossed and no PUT changed at most one review is past
  its check, and it finds the tenant waiting when it writes (`ReviewersBelieved`, for
  `VerdictStands`). It too assumes nothing about which requests overlap.
- `AgentProofs`: the studio's invariant has three parts. `Typed` gives every row, list,
  form and request its shape, and says that a change under way is one that was typed
  into its form. `Numbered` tells requests apart. `Named` says that every tool name kept
  anywhere - in the table, a list read earlier, a form, a request, the intents a call
  has read - is the name of a tool on offer or of one that was withdrawn before; only
  with the names on their way is it inductive, and it yields `PromptNamesOffered`.
  `UpdatesKeepToTheForm` compares the row an update writes with its form's basis.
  `DialogueKeepsItsRules` is about pure functions. `BestUnrolled` gives the loop of the
  classifier by its steps, and `BestIsFirst` what it finds, each by a least
  counterexample in place of an induction. `SortedLists` proves that the sorted
  catalogue lists every enabled intent once and in order, because a rank is an injection
  of a finite set into one of its size. From these every catalogue is classified as
  `IsClassOf` says; on BoBi's own catalogue both classifiers name one intent unless two
  tie (`SameClass`) and both sets of rules choose one tool (`RulesAgree`); and the count
  of attempts bounds the turns (`TalkStep`).
  Of the template: for each undisturbed application, what it read is still so and what
  its plan no longer lists is in place (`Current`). A step of another request leaves its
  progress alone and either leaves the rows alone or makes it disturbed, so the three
  results hold with no assumption on who runs when.
- `PagesProofs`: `AlwaysAnsweredAsOpen` proves the two windows of
  `isWithinBusinessHours` equal to the events of the week, for every week, every list
  of holidays and every minute. The argument is arithmetic of one window: for the
  business day that starts at a date, being before the moved closing time is the same
  as no closing time having passed, and likewise for a break; windows of dates other
  than today and yesterday are over or have not begun. `AlwaysTheSame`: the groups of
  the summary tell, after each turn of its loop, the days it has seen (`ExtendTells`,
  seven turns by `SummaryUnrolled`), and the preview reads as the server does wherever
  the rules meet (`PreviewAgrees`), the small hours of overnight weeks included. `ThePageTellsTheHours` rests on `EditorInv`:
  half a break is never in the draft; until something is typed the draft is the body of
  the Save under way; under "saved" it is what is stored. `EveryTabFindsItsPage` rests
  on `AccessInv`: the guards' answers are tabulated (`Targets`), two hops lead from any
  path to one that stays (`TwoHops`), three from what a stale copy of the session chose,
  and a Kakao code is sent once because the saved state is of a login whose code was
  not (`CodesInv`).
- `ConfigDraftProofs`: whatever was read at the present count of writes is what the
  table holds - in the cache, in an answer under way and, off its page's slice, in a
  PUT that was sent (`CacheAsRead`, `AnswerAsRead`, `SentAsRead`) - and a PUT that waits
  for the query waits for a request served after it. From these `ReadYourWrites`,
  `OnlyTheSliceIsWritten`, `RefetchKeepsTyping` and `NeverBlank`, for any tabs, pages
  and PUTs.
- `ConsoleProofs`: `RowsAreKept` proves `StoresKeepTheirRows`, and `Refinement` that every
  store implements `RowStore`, for any clients, tenants and rows. The invariant says
  that numbers are given in order, that there is room for every row asked for (two
  clients may be creating at once: `RoomToCreate` counts both) and that a row found by
  a lookup can only have gone, never have become another tenant's (`LookedUpIsOwned`),
  which is why a write by the identifier alone is safe. That names stay free of each other
  through renames is `NameIsFree`, with `UpdateIsFree` and `FinishIsFree` for the two ways
  an update is written.
  `TheWizardKeepsItsWord`: a signup is pending only at the wizard's last step, where
  nothing but the plan can be chosen, what was sent had passed every step, and an account
  the page speaks of or signed in to was made (`AnswersAreOfAccounts`).
  `ReviewersAreTold`, at the server and in both demos: a review answered ok is in the
  table before the page hears of it, a reading of the list that was served is later
  than every review the page was told of, and the review that is heard is the one of
  the open modal, unless a modal was closed on a pending one.

With these every invariant, action property and refinement that a passing run checks is
a theorem. What a run shows besides is that the assumptions are satisfiable, that the
cases happen, and liveness.

Only model-checked: `EndIsFiled`, `UnknownTenantIsReleased`, `AnsweredLeavesQueue`,
`EndSettles` and `SaveSettles`, which need fairness and are out of the prover's reach.
No property is about the value of the classifier's confidence (`Confidence`, `Total`)
beyond the threshold under which an answer is unsure.

## 6. What the code does that its readers would not expect

Found while modelling; the definitions follow the code in each case, and a property
that excepts one of them says so.

Calls and messages

- `session-handler.ts:143`: onInitiated registers the LiveCall after an awaited tenant
  lookup; a call.ended handled in between finds nothing, and the LiveCall stays for good,
  its end never filed. `TornDown` and `EndIsFiled` except these calls (`late`) and hold for
  all others.
- `:337`: a call.ended handled while warmTransfer is awaited files the call as
  "other", and the transfer is then noted in memory alone, the one exception of
  `StoredOutcomeCurrent`. `:388`: an entry of `lastToolCall` is never cleared. A repeated
  call.initiated opens a second session and orphans the first; the recording is then filed
  with the first session of the call (`:368`), whichever of the two holds the consents,
  and `RecordingFiledWithConsent` asks for no more than that one of them does. An
  `agentSession.close()` that rejects leaves its call live.
- `service.ts:82`: the payload carries no idempotency key, so a retry after a lost
  answer is delivered twice; a provider call that rejects, rather than answering with
  an error, leaves its record queued, neither retried nor failed.
- `gateway.py:239`: a call that ends while its call_start awaits the refetch of the
  configuration is entered and registered afterwards (lines 243 to 246): its record stays
  open and `GatewayState` keeps it. `NothingLost` and `CallsForgotten` except such calls
  (`early`), of which nothing was heard. A call that rings during that wait has its place
  taken by the earlier one's call_start: its lookups carry the other's id
  (`overlapped`, excepted by `LookupOfOwnCall`).
- `gateway.py`: a registration that timed out at the client and was served leaves a
  session nobody completes. `get_kb_answer` sends the ClawOps id as x-call-session-id,
  which names no row: under Prisma its trace breaks the foreign key.

Tools

- `tools.service.ts:361`: a trace that fails turns a ticket that exists into an error.
- The gate of create_ticket is open until the call has a session state, and the voice
  worker sends no x-call-session-id (`tool-client-http.ts:52`). The comment at
  `tools.service.ts:197` has links sent to verified subscribers only; the code asks
  whether the subscriber exists, not whether this call verified them.
- `custom-tool-executor.service.ts:62`: definition and secret are two reads. All tools
  of the API run for DEFAULT_TENANT_ID (`tools.module.ts:80`).

Tenants and templates

- `signup.controller.ts:7` and `auth.controller.ts:479` claim one transaction.
  runInTransaction is `prisma.$transaction(async () => fn())`, whose queries run outside
  it: a signup is three commits, and one that breaks off, or loses the race for an
  email, leaves a tenant without configuration or account.
- `auth.controller.ts:323`: of two overlapping reviews of one tenant both are answered ok
  and the later write wins. `VerdictStands` says of those (`crossed`) only that the tenant
  left the queue, and `OneVerdict` leaves them out.
- PUT /tenants/:id takes any status and any number from the tenant's own administrator, a
  waiting or rejected tenant's included: a tenant may be live without a review.
  `LiveIsReviewed` and `VerdictStands` leave out what PUT changed (`patched`).
- A template's application writes the configuration it computed from an earlier read
  over an edit saved since.
- A signup stores its address in lower case; login compares what was typed.

Opening hours

- The console's library says that it follows "the same rules" as the server
  (`business-hours.ts:5-8`). It parts from them, and run `preview_rules` shows it: overnight hours of today are taken to hold in the early morning of
  the same day too, a holiday cuts off the night before, a break is not moved past
  midnight. A break that begins before the opening time and ends before it begins is
  read as no break, and nothing validates one.
- The panel "what if a call came now" reads the draft. A cleared time is midnight; a
  break's row that was opened and not typed in shows 15 to 17 and saves nothing; a
  date typed and not added is not saved, and what is no date is dropped silently.

Settings and studio

- Every Save writes the whole configuration as its page last read it, although
  `agent-config-draft.ts:4-7` has the other pages' fields kept: what was stored since is
  overwritten. What is typed while a Save is under way is discarded by the read that
  follows, and "saved" is shown.
- A tool that is switched off or deleted, before a call is resolved or between the
  resolver's two queries, is named in the prompt all the same, since no intent is rerouted;
  `PromptNamesOffered` excepts the names withdrawn and holds of all others, whatever is
  created and routed between the queries.
- Every edit of a tool in the console erases its signing secret (the demo keeps it);
  renaming a tool is silently ignored by the server. Saving a question's form opened
  before its toggle reverts the toggle. A Save's late answer closes whichever form is
  open. After a deletion a new intent may get a sort order that is taken.
- `decideGenericAction`'s fallback for an unresolved intent is not reached through
  `classifyIntent`, which names an intent whenever the tenant has an enabled one.

Console

- While GET of a tenant failed, `RequireAuth` lets its console render; the shell then
  asks again, the guard goes back to Loading and unmounts it, and so on.
- The wizard's message for refused input is not visible on the step it returns to;
  page and server count a phone number's digits differently; the plan can be changed
  while the signup is pending. Of an answer that was lost the wizard says to try again,
  although the account may exist. A review's toast names no tenant, and its answer closes
  whichever modal of its kind is open.
- A Kakao answer after its page was left logs in and navigates to "/" all the same; an
  error from Kakao leaves its saved state; two tabs share one stored session and are
  not told of each other's changes.

Stores

- The in-memory FAQ is one repository for all tenants. Prisma throws where the
  in-memory adapters return null or false for a missing intent; a configuration's
  optional field left out is lost in memory and in the demo and kept by Prisma; the
  demo creates a second intent of one key. An update that carries another name renames a
  tool and an intent in the demo, whose name and key may then be taken; the database takes
  an intent's whole body, its key with it (`tenant-prisma.ts:335-338`), and refuses a taken
  one; Prisma's tools and the in-memory store keep the old name. Numbers are normalised before a lookup in
  memory and compared exactly in Prisma. A new intent's default sort order is the
  length of the list in memory and 0 in Prisma.

## 7. Not modelled

- Prompt wording, masking, encryption and payment patterns are functions on strings
  without state; keywords are modelled as sets of words heard.
- Console authentication and the gateway's guard are stateless token checking.
- The helpers of `services/compliance` other than maskPII and safeEqual: no process of
  the repository calls them. The voice worker stores its consents itself.
- The pages of calls, dashboards, tickets, callbacks and business information show what
  a query answered. The database schema is declarative; its unique constraints appear
  where the code relies on them.
- Within modelled components: message templates, the length of back-offs, the texts of
  industry packs and their sort orders, the JSON schema of tool parameters, the
  command-line modes of the gateway, and times other than opening hours.
