----------------------------- MODULE CallIngest -----------------------------
(***************************************************************************)
(* The three /ingest/* routes of apps/api (ingest.controller.ts) over the   *)
(* CallSession and Transcript tables.  createCall awaits the database three *)
(* times, so a request is between queries while others run; the other two   *)
(* routes look the session up and write, and sessions are never deleted.    *)
(*                                                                          *)
(* A row keeps the request that created it as its id.  What a request sends *)
(* is fixed by its name: request <<c, n>> is the n-th POST /ingest/calls    *)
(* that carries the ClawOps id of call c.                                   *)
(***************************************************************************)
EXTENDS Naturals, FiniteSets

CONSTANTS Calls,       \* calls, one clawopsCallId each
          Copies,      \* how often POST /ingest/calls may arrive for one call
          Utterances,
          Tenants,
          None,
          MaxVersion,  \* bound: edits of the configuration
          Holder       \* version -> the tenant holding the number, or None

ASSUME VersionAssumption == MaxVersion \in Nat
ASSUME HolderAssumption == Holder \in [0..MaxVersion -> Tenants \cup {None}]
ASSUME NoneAssumption == /\ None \notin Tenants /\ None \notin 0..MaxVersion
                         /\ None \notin Calls /\ None \notin Calls \X Copies
ASSUME CopyAssumption == 1 \in Copies

VARIABLES version,      \* version of the tenants' configuration in the database
          sessions,     \* CallSession rows
          transcripts,  \* Transcript rows: <<session id, utterance>>
          completed,    \* ids of the sessions with endedAt and durationSec
          post,         \* POST /ingest/calls requests
          append,       \* POST .../transcripts: the session addressed, or where it is
          finish        \* POST .../complete

apiVars == <<version, sessions, transcripts, completed, post, append, finish>>
tables == <<sessions, transcripts, completed>>

Requests == Calls \X Copies
Row == [id : Requests, call : Calls, tenant : Tenants]
Stage == {"idle", "find", "create", "ok", "refused"}
Job == [at : {"idle", "sent", "ok", "refused"}, session : Requests \cup {None}]

SessionsOf(c) == {s \in sessions : s.call = c}
Exists(id) == \E s \in sessions : s.id = id

ApiTypeOK == /\ version \in 0..MaxVersion
             /\ sessions \subseteq Row
             /\ transcripts \subseteq Requests \X Utterances
             /\ completed \subseteq Requests
             /\ post \in [Requests -> [at : Stage, tenant : Tenants \cup {None},
                                       id : Requests \cup {None}]]
             /\ append \in [Calls \X Utterances -> Job]
             /\ finish \in [Calls -> Job]

ApiInit == /\ version = 0
           /\ sessions = {}
           /\ transcripts = {}
           /\ completed = {}
           /\ post = [r \in Requests |-> [at |-> "idle", tenant |-> None, id |-> None]]
           /\ append = [q \in Calls \X Utterances |-> [at |-> "idle", session |-> None]]
           /\ finish = [c \in Calls |-> [at |-> "idle", session |-> None]]

(* The owner edits the configuration, or an operator moves the number.      *)
Edit == /\ version < MaxVersion
        /\ version' = version + 1
        /\ UNCHANGED <<tables, post, append, finish>>

(* createCall, before its first query.                                      *)
Arrive(r) == post' = [post EXCEPT ![r].at = "find"]

Found(r, id) == post' = [post EXCEPT ![r].at = "ok", ![r].id = id]

(* findByClawopsCallId: a session of the call is the answer.  Otherwise       *)
(* findByPhoneNumber: the tenant is the number's holder at this moment.  (The *)
(* two queries read different tables, so nothing can tell a write between    *)
(* them from one before or after both.)                                      *)
FindSessionOrTenant(r) ==
  /\ post[r].at = "find"
  /\ \/ \E s \in SessionsOf(r[1]) : Found(r, s.id)
     \/ /\ SessionsOf(r[1]) = {}
        /\ post' = IF Holder[version] = None
                     THEN [post EXCEPT ![r].at = "refused"]
                     ELSE [post EXCEPT ![r].at = "create", ![r].tenant = Holder[version]]
  /\ UNCHANGED <<version, tables, append, finish>>

(* The insert without the unique clawopsCallId and its catch.               *)
Mut_CreateSession(r) ==
  /\ post[r].at = "create"
  /\ sessions' = sessions \cup {[id |-> r, call |-> r[1], tenant |-> post[r].tenant]}
  /\ Found(r, r)
  /\ UNCHANGED <<version, transcripts, completed, append, finish>>

(* create: the insert, or on the unique conflict the row that won.          *)
CreateSession(r) ==
  /\ post[r].at = "create"
  /\ IF SessionsOf(r[1]) = {}
       THEN /\ sessions' = sessions \cup {[id |-> r, call |-> r[1], tenant |-> post[r].tenant]}
            /\ Found(r, r)
       ELSE /\ UNCHANGED sessions
            /\ \E s \in SessionsOf(r[1]) : Found(r, s.id)
  /\ UNCHANGED <<version, transcripts, completed, append, finish>>

Served(job) == [job EXCEPT !.at = IF Exists(job.session) THEN "ok" ELSE "refused"]

AppendTranscript(c, u) ==
  LET job == append[<<c, u>>] IN
  /\ job.at = "sent"
  /\ append' = [append EXCEPT ![<<c, u>>] = Served(job)]
  /\ transcripts' = IF Exists(job.session) THEN transcripts \cup {<<job.session, u>>}
                                           ELSE transcripts
  /\ UNCHANGED <<version, sessions, completed, post, finish>>

(* The completion resolves the tenant again and files the session under it.  *)
Mut_CompleteCall(c) ==
  /\ finish[c].at = "sent"
  /\ Holder[version] # None
  /\ finish' = [finish EXCEPT ![c] = Served(finish[c])]
  /\ completed' = completed \cup {finish[c].session}
  /\ sessions' = {[s EXCEPT !.tenant = IF s.id = finish[c].session THEN Holder[version] ELSE @]
                    : s \in sessions}
  /\ UNCHANGED <<version, transcripts, post, append>>

CompleteCall(c) ==
  /\ finish[c].at = "sent"
  /\ finish' = [finish EXCEPT ![c] = Served(finish[c])]
  /\ completed' = IF Exists(finish[c].session) THEN completed \cup {finish[c].session}
                                               ELSE completed
  /\ UNCHANGED <<version, sessions, transcripts, post, append>>

Api == \/ \E r \in Requests : FindSessionOrTenant(r) \/ CreateSession(r)
       \/ \E c \in Calls : CompleteCall(c) \/ \E u \in Utterances : AppendTranscript(c, u)
=============================================================================
