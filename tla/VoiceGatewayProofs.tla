-------------------------- MODULE VoiceGatewayProofs --------------------------
(***************************************************************************)
(* The gateway over the ingest routes, for any calls, copies of a           *)
(* registration, utterances, tenants and edits.  One lemma per part of the   *)
(* invariant: the types; the rows of the API; a call on the line; the prompt *)
(* it will be answered with; what its handlers hold of its session.          *)
(***************************************************************************)
EXTENDS VoiceGateway, TLAPS

-----------------------------------------------------------------------------
(* Types.                                                                    *)

LEMMA Ids == /\ \A r \in Requests : r[1] \in Calls /\ r \in Calls \X Copies
             /\ \A c \in Calls : <<c, 1>> \in Requests
             /\ None \notin Requests
  BY CopyAssumption, NoneAssumption DEF Requests

PostRecord == [at : Stage, tenant : Tenants \cup {None}, id : Requests \cup {None}]
PostType == [Requests -> PostRecord]
RefreshType == [Calls \X Reasons -> [at : {"idle", "asked", "answered", "done"}, got : Version]]

\* Every update of a request or of a refresh keeps its type.
LEMMA PostKeepsType ==
  ASSUME post \in PostType, NEW r \in Requests
  PROVE  /\ Arrive(r) => post' \in PostType
         /\ \A id \in Requests : Found(r, id) => post' \in PostType
         /\ [post EXCEPT ![r].at = "refused"] \in PostType
         /\ \A t \in Tenants : [post EXCEPT ![r].at = "create", ![r].tenant = t] \in PostType
<1>1. ASSUME NEW st \in Stage
      PROVE  [post EXCEPT ![r].at = st] \in PostType
  BY DEF PostType, PostRecord
<1>2. ASSUME NEW t \in Tenants, NEW st \in Stage
      PROVE  [post EXCEPT ![r].at = st, ![r].tenant = t] \in PostType
  <2>1. [post[r] EXCEPT !.at = st, !.tenant = t] \in PostRecord
    BY DEF PostType, PostRecord
  <2>2. [post EXCEPT ![r].at = st, ![r].tenant = t]
          = [post EXCEPT ![r] = [post[r] EXCEPT !.at = st, !.tenant = t]]
    BY DEF PostType
  <2>. QED  BY <2>1, <2>2 DEF PostType
<1>3. ASSUME NEW id \in Requests, NEW st \in Stage
      PROVE  [post EXCEPT ![r].at = st, ![r].id = id] \in PostType
  <2>1. [post[r] EXCEPT !.at = st, !.id = id] \in PostRecord
    BY DEF PostType, PostRecord
  <2>2. [post EXCEPT ![r].at = st, ![r].id = id]
          = [post EXCEPT ![r] = [post[r] EXCEPT !.at = st, !.id = id]]
    BY DEF PostType
  <2>. QED  BY <2>1, <2>2 DEF PostType
<1>4. {"find", "create", "ok", "refused"} \subseteq Stage
  BY DEF Stage
<1>. QED  BY <1>1, <1>2, <1>3, <1>4 DEF Arrive, Found

LEMMA RefreshKeepsType ==
  ASSUME refresh \in RefreshType, NEW c \in Calls, NEW why \in Reasons
  PROVE  /\ Ask(c, why) => refresh' \in RefreshType
         /\ Refreshed(<<c, why>>) => refresh' \in RefreshType /\ ctx' \in Version
         /\ NotRefreshed(<<c, why>>) => refresh' \in RefreshType /\ ctx' = ctx
<1>1. /\ [refresh EXCEPT ![<<c, why>>].at = "asked"] \in RefreshType
      /\ [refresh EXCEPT ![<<c, why>>].at = "done"] \in RefreshType
      /\ [refresh EXCEPT ![<<c, why>>] = [at |-> "done", got |-> None]] \in RefreshType
      /\ refresh[<<c, why>>].got \in Version
  BY DEF RefreshType, Version
<1>. QED  BY <1>1 DEF Ask, Refreshed, NotRefreshed

LEMMA ServedIsJob ==
  ASSUME NEW job \in Job
  PROVE  Served(job) \in Job /\ Served(job).session = job.session
  BY DEF Job, Served

LEMMA SentIsJob ==
  ASSUME NEW id \in Requests
  PROVE  [at |-> "sent", session |-> id] \in Job
  BY DEF Job

\* Every step keeps the types.
LEMMA NextTypeOK ==
  ASSUME TypeOK, RequestsInv, [Next]_vars
  PROVE  TypeOK'
<1>. USE Ids DEF TypeOK, ApiTypeOK, apiVars, tables, bookVars, callVars, histVars, gwVars,
                 PostType, PostRecord, RefreshType
<1>0. {"call_start", "post_call"} \subseteq Reasons
  BY DEF Reasons
<1>a. \A s \in sessions : s.id \in Requests
  BY DEF Row
<1>b. \A id \in Requests \cup {None} : Exists(id) => id \in Requests
  BY <1>a DEF Exists
<1>1. ASSUME NEW c \in Calls, Ring(c)
      PROVE  TypeOK'
  <2>1. line' \in [Calls -> {"idle", "ringing", "talking", "over"}]
    BY <1>1 DEF Ring
  <2>2. start' \in [Calls -> {"idle", "refreshing", "done"}]
    BY <1>1 DEF Ring
  <2>3. rang' \in [Calls -> Version]
    BY <1>1 DEF Ring, Version
  <2>4. overlapped' \subseteq Calls
    BY <1>1 DEF Ring
  <2>5. refresh' \in RefreshType
    BY <1>1, <1>0, RefreshKeepsType DEF Ring
  <2>. QED  BY <1>1, <2>1, <2>2, <2>3, <2>4, <2>5 DEF Ring
<1>2. ASSUME NEW k \in Calls \X Reasons, ResolveTenant(k)
      PROVE  TypeOK'
  <2>1. version \in Version
    BY <1>2 DEF ResolveTenant, Version
  <2>2. refresh' \in RefreshType
    BY <1>2, <2>1 DEF ResolveTenant
  <2>. QED  BY <1>2, <2>1, <2>2 DEF ResolveTenant
<1>3. ASSUME NEW c \in Calls, PostCallRefresh(c)
      PROVE  TypeOK'
  BY <1>3, <1>0, RefreshKeepsType DEF PostCallRefresh
<1>4. ASSUME NEW c \in Calls, OnCallStart(c)
      PROVE  TypeOK'
  <2>1. refresh' \in RefreshType /\ ctx' \in Version
    BY <1>4, <1>0, RefreshKeepsType DEF OnCallStart
  <2>2. rang' \in [Calls -> Version]
    BY <1>4 DEF OnCallStart, Version, Refreshed, NotRefreshed
  <2>3. prompt' \in Version
    BY <1>4, <2>1 DEF OnCallStart
  <2>4. known' \subseteq Calls
    BY <1>4 DEF OnCallStart
  <2>5. task' \in [Calls -> {"none", "running", "done"}]
    BY <1>4 DEF OnCallStart
  <2>6. post' \in PostType
    BY <1>4, PostKeepsType DEF OnCallStart
  <2>7. start' \in [Calls -> {"idle", "refreshing", "done"}]
    BY <1>4 DEF OnCallStart
  <2>. QED  BY <1>4, <2>1, <2>2, <2>3, <2>4, <2>5, <2>6, <2>7 DEF OnCallStart
<1>5. ASSUME NEW c \in Calls, SessionStart(c)
      PROVE  TypeOK'
  BY <1>5 DEF SessionStart
<1>6. ASSUME NEW c \in Calls, HangUp(c)
      PROVE  TypeOK'
  <2>1. line' \in [Calls -> {"idle", "ringing", "talking", "over"}]
    BY <1>6 DEF HangUp
  <2>2. answered' \in [Calls -> Version]
    BY <1>6 DEF HangUp, Version
  <2>3. rang' \in [Calls -> Version]
    BY <1>6 DEF HangUp, Version
  <2>4. overlapped' \subseteq Calls
    BY <1>6 DEF HangUp
  <2>. QED  BY <1>6, <2>1, <2>2, <2>3, <2>4 DEF HangUp
<1>7. ASSUME NEW c \in Calls, Registered(c)
      PROVE  TypeOK'
  BY <1>7 DEF Registered
<1>8. ASSUME NEW c \in Calls, NotRegistered(c)
      PROVE  TypeOK'
  BY <1>8 DEF NotRegistered
<1>9. ASSUME NEW r \in Requests, Repeat(r)
      PROVE  TypeOK'
  BY <1>9, PostKeepsType DEF Repeat
<1>10. ASSUME NEW c \in Calls, NEW u \in Utterances, OnTranscript(c, u)
      PROVE  TypeOK'
  BY <1>10 DEF OnTranscript
<1>11. ASSUME NEW c \in Calls, NEW u \in Utterances, PostTranscript(c, u)
      PROVE  TypeOK'
  <2>1. \/ say' = [say EXCEPT ![<<c, u>>] = "done"]
        \/ say' = [say EXCEPT ![<<c, u>>] = "posting"]
    BY <1>11 DEF PostTranscript
  <2>2. say' \in [Calls \X Utterances -> {"unsaid", "joining", "posting", "done"}]
    BY <2>1
  <2>3. ingestId[c] # None => [at |-> "sent", session |-> ingestId[c]] \in Job
    BY SentIsJob
  <2>4. append' \in [Calls \X Utterances -> Job]
    BY <1>11, <2>3 DEF PostTranscript
  <2>. QED  BY <1>11, <2>2, <2>4 DEF PostTranscript
<1>12. ASSUME NEW c \in Calls, NEW u \in Utterances, TranscriptPosted(c, u)
      PROVE  TypeOK'
  BY <1>12 DEF TranscriptPosted
<1>13. ASSUME NEW c \in Calls, NEW u \in Utterances, TranscriptLost(c, u)
      PROVE  TypeOK'
  BY <1>13 DEF TranscriptLost
<1>14. ASSUME NEW c \in Calls, OnCallEnd(c)
      PROVE  TypeOK'
  BY <1>14, <1>0, RefreshKeepsType DEF OnCallEnd
<1>15. ASSUME NEW c \in Calls, Complete(c)
      PROVE  TypeOK'
  <2>1. ending' \in [Calls -> {"idle", "joining", "completing", "done"}]
    BY <1>15 DEF Complete
  <2>2. refresh' \in RefreshType
    BY <1>15, <1>0, RefreshKeepsType DEF Complete
  <2>3. finish' \in [Calls -> Job]
    BY <1>15, SentIsJob DEF Complete
  <2>. QED  BY <1>15, <2>1, <2>2, <2>3 DEF Complete
<1>16. ASSUME NEW c \in Calls, Completed(c)
      PROVE  TypeOK'
  BY <1>16, <1>0, RefreshKeepsType DEF Completed
<1>17. ASSUME NEW c \in Calls, NotCompleted(c)
      PROVE  TypeOK'
  BY <1>17, <1>0, RefreshKeepsType DEF NotCompleted
<1>18. CASE Edit /\ UNCHANGED gwVars
  BY <1>18, VersionAssumption DEF Edit
<1>19. ASSUME NEW r \in Requests, FindSessionOrTenant(r) /\ UNCHANGED gwVars
      PROVE  TypeOK'
  <2>1. CASE \E s \in SessionsOf(r[1]) : Found(r, s.id)
    <3>1. post' \in PostType
      BY <2>1, <1>a, PostKeepsType DEF SessionsOf
    <3>. QED  BY <1>19, <3>1 DEF FindSessionOrTenant
  <2>2. CASE ~ \E s \in SessionsOf(r[1]) : Found(r, s.id)
    <3>1. Holder[version] = None \/ Holder[version] \in Tenants
      BY HolderAssumption
    <3>2. post' = IF Holder[version] = None
                    THEN [post EXCEPT ![r].at = "refused"]
                    ELSE [post EXCEPT ![r].at = "create", ![r].tenant = Holder[version]]
      BY <1>19, <2>2 DEF FindSessionOrTenant
    <3>3. post' \in PostType
      BY <3>1, <3>2, PostKeepsType
    <3>. QED  BY <1>19, <3>3 DEF FindSessionOrTenant
  <2>. QED  BY <2>1, <2>2
<1>20. ASSUME NEW r \in Requests, CreateSession(r) /\ UNCHANGED gwVars
      PROVE  TypeOK'
  <2>1. post' \in PostType
    BY <1>20, <1>a, PostKeepsType DEF CreateSession, SessionsOf
  <2>2. sessions' \subseteq Row
    <3>1. post[r].tenant \in Tenants
      BY <1>20 DEF CreateSession, RequestsInv
    <3>2. [id |-> r, call |-> r[1], tenant |-> post[r].tenant] \in Row
      BY <3>1 DEF Row
    <3>. QED  BY <1>20, <3>2 DEF CreateSession
  <2>. QED  BY <1>20, <2>1, <2>2 DEF CreateSession
<1>21. ASSUME NEW c \in Calls, NEW u \in Utterances, AppendTranscript(c, u) /\ UNCHANGED gwVars
      PROVE  TypeOK'
  <2>0. append[<<c, u>>] \in Job /\ append[<<c, u>>].session \in Requests \cup {None}
    BY DEF Job
  <2>1. append' \in [Calls \X Utterances -> Job]
    BY <1>21, <2>0, ServedIsJob DEF AppendTranscript
  <2>2. Exists(append[<<c, u>>].session) => <<append[<<c, u>>].session, u>> \in Requests \X Utterances
    BY <2>0, <1>b
  <2>3. transcripts' \subseteq Requests \X Utterances
    BY <1>21, <2>2 DEF AppendTranscript
  <2>. QED  BY <1>21, <2>1, <2>3 DEF AppendTranscript
<1>22. ASSUME NEW c \in Calls, CompleteCall(c) /\ UNCHANGED gwVars
      PROVE  TypeOK'
  <2>0. finish[c] \in Job /\ finish[c].session \in Requests \cup {None}
    BY DEF Job
  <2>1. finish' \in [Calls -> Job]
    BY <1>22, <2>0, ServedIsJob DEF CompleteCall
  <2>2. completed' \subseteq Requests
    BY <1>22, <2>0, <1>b DEF CompleteCall
  <2>. QED  BY <1>22, <2>1, <2>2 DEF CompleteCall
<1>23. CASE UNCHANGED vars
  BY <1>23 DEF vars
<1>. QED
  BY <1>1, <1>2, <1>3, <1>4, <1>5, <1>6, <1>7, <1>8, <1>9, <1>10, <1>11, <1>12,
     <1>13, <1>14, <1>15, <1>16, <1>17, <1>18, <1>19, <1>20, <1>21, <1>22, <1>23
     DEF Next, Api, Handlers


-----------------------------------------------------------------------------
(* The rows of the API and its requests.                                     *)

\* What an update of one request leaves in post.
LEMMA PostUpdates ==
  ASSUME post \in PostType, NEW r \in Requests
  PROVE  /\ Arrive(r) =>
              /\ post'[r].at = "find"
              /\ \A q \in Requests : q # r => post'[q] = post[q]
         /\ \A id : Found(r, id) =>
              /\ post'[r].at = "ok" /\ post'[r].id = id
              /\ \A q \in Requests : q # r => post'[q] = post[q]
         /\ post' = [post EXCEPT ![r].at = "refused"] =>
              /\ post'[r].at = "refused"
              /\ \A q \in Requests : q # r => post'[q] = post[q]
         /\ \A t : post' = [post EXCEPT ![r].at = "create", ![r].tenant = t] =>
              /\ post'[r].at = "create" /\ post'[r].tenant = t
              /\ \A q \in Requests : q # r => post'[q] = post[q]
  BY DEF PostType, PostRecord, Arrive, Found

\* A request is answered with the session of its call, and no call gets a second one.
LEMMA NextOneSession ==
  ASSUME TypeOK, OneSession, [Next]_vars
  PROVE  OneSession'
<1>. USE Ids DEF OneSession, SessionsOf, apiVars, tables, bookVars, callVars, histVars, gwVars
<1>0. post \in PostType
  BY DEF TypeOK, ApiTypeOK, PostType, PostRecord
<1>1. ASSUME NEW c \in Calls, Ring(c)
      PROVE  OneSession'
  BY <1>1 DEF Ring
<1>2. ASSUME NEW k \in Calls \X Reasons, ResolveTenant(k)
      PROVE  OneSession'
  BY <1>2 DEF ResolveTenant
<1>3. ASSUME NEW c \in Calls, PostCallRefresh(c)
      PROVE  OneSession'
  BY <1>3 DEF PostCallRefresh
<1>4. ASSUME NEW c \in Calls, OnCallStart(c)
      PROVE  OneSession'
  <2>1. Arrive(<<c, 1>>)
    BY <1>4 DEF OnCallStart
  <2>2. post'[<<c, 1>>].at = "find" /\ \A q \in Requests : q # <<c, 1>> => post'[q] = post[q]
    BY <1>0, <2>1, PostUpdates
  <2>. QED  BY <1>4, <2>2 DEF OnCallStart
<1>5. ASSUME NEW c \in Calls, SessionStart(c)
      PROVE  OneSession'
  BY <1>5 DEF SessionStart
<1>6. ASSUME NEW c \in Calls, HangUp(c)
      PROVE  OneSession'
  BY <1>6 DEF HangUp
<1>7. ASSUME NEW c \in Calls, Registered(c)
      PROVE  OneSession'
  BY <1>7 DEF Registered
<1>8. ASSUME NEW c \in Calls, NotRegistered(c)
      PROVE  OneSession'
  BY <1>8 DEF NotRegistered
<1>9. ASSUME NEW r \in Requests, Repeat(r)
      PROVE  OneSession'
  <2>1. Arrive(r)
    BY <1>9 DEF Repeat
  <2>2. post'[r].at = "find" /\ \A q \in Requests : q # r => post'[q] = post[q]
    BY <1>0, <2>1, PostUpdates
  <2>. QED  BY <1>9, <2>2 DEF Repeat
<1>10. ASSUME NEW c \in Calls, NEW u \in Utterances, OnTranscript(c, u)
      PROVE  OneSession'
  BY <1>10 DEF OnTranscript
<1>11. ASSUME NEW c \in Calls, NEW u \in Utterances, PostTranscript(c, u)
      PROVE  OneSession'
  BY <1>11 DEF PostTranscript
<1>12. ASSUME NEW c \in Calls, NEW u \in Utterances, TranscriptPosted(c, u)
      PROVE  OneSession'
  BY <1>12 DEF TranscriptPosted
<1>13. ASSUME NEW c \in Calls, NEW u \in Utterances, TranscriptLost(c, u)
      PROVE  OneSession'
  BY <1>13 DEF TranscriptLost
<1>14. ASSUME NEW c \in Calls, OnCallEnd(c)
      PROVE  OneSession'
  BY <1>14 DEF OnCallEnd
<1>15. ASSUME NEW c \in Calls, Complete(c)
      PROVE  OneSession'
  BY <1>15 DEF Complete
<1>16. ASSUME NEW c \in Calls, Completed(c)
      PROVE  OneSession'
  BY <1>16 DEF Completed
<1>17. ASSUME NEW c \in Calls, NotCompleted(c)
      PROVE  OneSession'
  BY <1>17 DEF NotCompleted
<1>18. CASE Edit /\ UNCHANGED gwVars
  BY <1>18 DEF Edit
<1>19. ASSUME NEW r \in Requests, FindSessionOrTenant(r) /\ UNCHANGED gwVars
      PROVE  OneSession'
  <2>1. CASE \E s \in sessions : s.call = r[1] /\ Found(r, s.id)
    <3>1. PICK s \in sessions : s.call = r[1] /\ Found(r, s.id)
      BY <2>1
    <3>2. /\ post'[r].at = "ok" /\ post'[r].id = s.id
          /\ \A q \in Requests : q # r => post'[q] = post[q]
      BY <1>0, <3>1, PostUpdates
    <3>. QED  BY <1>19, <3>1, <3>2 DEF FindSessionOrTenant
  <2>2. CASE ~ \E s \in sessions : s.call = r[1] /\ Found(r, s.id)
    <3>1. post'[r].at \in {"refused", "create"} /\ \A q \in Requests : q # r => post'[q] = post[q]
      BY <1>19, <2>2, <1>0, PostUpdates DEF FindSessionOrTenant
    <3>. QED  BY <1>19, <3>1 DEF FindSessionOrTenant
  <2>. QED  BY <2>1, <2>2
<1>20. ASSUME NEW r \in Requests, CreateSession(r) /\ UNCHANGED gwVars
      PROVE  OneSession'
  <2>1. CASE SessionsOf(r[1]) = {}
    <3> DEFINE new == [id |-> r, call |-> r[1], tenant |-> post[r].tenant]
    <3>1. sessions' = sessions \cup {new} /\ Found(r, r)
      BY <1>20, <2>1 DEF CreateSession
    <3>2. new.call = r[1] /\ new.id = r
      OBVIOUS
    <3>3. post'[r].at = "ok" /\ post'[r].id = r /\ \A q \in Requests : q # r => post'[q] = post[q]
      BY <1>0, <3>1, PostUpdates
    <3> HIDE DEF new
    <3>4. \A s, t \in sessions' : s.call = t.call => s = t
      BY <2>1, <3>1, <3>2
    <3>5. \A q \in Requests : post'[q].at = "ok" =>
            \E s \in sessions' : s.call = q[1] /\ s.id = post'[q].id
      BY <3>1, <3>2, <3>3
    <3>. QED  BY <3>4, <3>5
  <2>2. CASE SessionsOf(r[1]) # {}
    <3>1. sessions' = sessions /\ \E s \in sessions : s.call = r[1] /\ Found(r, s.id)
      BY <1>20, <2>2 DEF CreateSession
    <3>2. PICK s \in sessions : s.call = r[1] /\ Found(r, s.id)
      BY <3>1
    <3>3. /\ post'[r].at = "ok" /\ post'[r].id = s.id
          /\ \A q \in Requests : q # r => post'[q] = post[q]
      BY <1>0, <3>2, PostUpdates
    <3>. QED  BY <3>1, <3>2, <3>3
  <2>. QED  BY <2>1, <2>2
<1>21. ASSUME NEW c \in Calls, NEW u \in Utterances, AppendTranscript(c, u) /\ UNCHANGED gwVars
      PROVE  OneSession'
  BY <1>21 DEF AppendTranscript
<1>22. ASSUME NEW c \in Calls, CompleteCall(c) /\ UNCHANGED gwVars
      PROVE  OneSession'
  BY <1>22 DEF CompleteCall
<1>23. CASE UNCHANGED vars
  BY <1>23 DEF vars
<1>. QED
  BY <1>1, <1>2, <1>3, <1>4, <1>5, <1>6, <1>7, <1>8, <1>9, <1>10, <1>11, <1>12,
     <1>13, <1>14, <1>15, <1>16, <1>17, <1>18, <1>19, <1>20, <1>21, <1>22, <1>23
     DEF Next, Api, Handlers


\* No step takes a row away.
RowsKept == /\ sessions \subseteq sessions'
            /\ transcripts \subseteq transcripts'
            /\ completed \subseteq completed'

LEMMA RowsStay ==
  ASSUME TypeOK, [Next]_vars
  PROVE  RowsKept
<1>. USE Ids DEF RowsKept, apiVars, tables, bookVars, callVars, histVars, gwVars
<1>1. ASSUME NEW c \in Calls, Ring(c)
      PROVE  RowsKept
  BY <1>1 DEF Ring
<1>2. ASSUME NEW k \in Calls \X Reasons, ResolveTenant(k)
      PROVE  RowsKept
  BY <1>2 DEF ResolveTenant
<1>3. ASSUME NEW c \in Calls, PostCallRefresh(c)
      PROVE  RowsKept
  BY <1>3 DEF PostCallRefresh
<1>4. ASSUME NEW c \in Calls, OnCallStart(c)
      PROVE  RowsKept
  BY <1>4 DEF OnCallStart
<1>5. ASSUME NEW c \in Calls, SessionStart(c)
      PROVE  RowsKept
  BY <1>5 DEF SessionStart
<1>6. ASSUME NEW c \in Calls, HangUp(c)
      PROVE  RowsKept
  BY <1>6 DEF HangUp
<1>7. ASSUME NEW c \in Calls, Registered(c)
      PROVE  RowsKept
  BY <1>7 DEF Registered
<1>8. ASSUME NEW c \in Calls, NotRegistered(c)
      PROVE  RowsKept
  BY <1>8 DEF NotRegistered
<1>9. ASSUME NEW r \in Requests, Repeat(r)
      PROVE  RowsKept
  BY <1>9 DEF Repeat
<1>10. ASSUME NEW c \in Calls, NEW u \in Utterances, OnTranscript(c, u)
      PROVE  RowsKept
  BY <1>10 DEF OnTranscript
<1>11. ASSUME NEW c \in Calls, NEW u \in Utterances, PostTranscript(c, u)
      PROVE  RowsKept
  BY <1>11 DEF PostTranscript
<1>12. ASSUME NEW c \in Calls, NEW u \in Utterances, TranscriptPosted(c, u)
      PROVE  RowsKept
  BY <1>12 DEF TranscriptPosted
<1>13. ASSUME NEW c \in Calls, NEW u \in Utterances, TranscriptLost(c, u)
      PROVE  RowsKept
  BY <1>13 DEF TranscriptLost
<1>14. ASSUME NEW c \in Calls, OnCallEnd(c)
      PROVE  RowsKept
  BY <1>14 DEF OnCallEnd
<1>15. ASSUME NEW c \in Calls, Complete(c)
      PROVE  RowsKept
  BY <1>15 DEF Complete
<1>16. ASSUME NEW c \in Calls, Completed(c)
      PROVE  RowsKept
  BY <1>16 DEF Completed
<1>17. ASSUME NEW c \in Calls, NotCompleted(c)
      PROVE  RowsKept
  BY <1>17 DEF NotCompleted
<1>18. CASE Edit /\ UNCHANGED gwVars
  BY <1>18 DEF Edit
<1>19. ASSUME NEW r \in Requests, FindSessionOrTenant(r) /\ UNCHANGED gwVars
      PROVE  RowsKept
  BY <1>19 DEF FindSessionOrTenant
<1>20. ASSUME NEW r \in Requests, CreateSession(r) /\ UNCHANGED gwVars
      PROVE  RowsKept
  BY <1>20 DEF CreateSession
<1>21. ASSUME NEW c \in Calls, NEW u \in Utterances, AppendTranscript(c, u) /\ UNCHANGED gwVars
      PROVE  RowsKept
  BY <1>21 DEF AppendTranscript
<1>22. ASSUME NEW c \in Calls, CompleteCall(c) /\ UNCHANGED gwVars
      PROVE  RowsKept
  BY <1>22 DEF CompleteCall
<1>23. CASE UNCHANGED vars
  BY <1>23 DEF vars
<1>. QED
  BY <1>1, <1>2, <1>3, <1>4, <1>5, <1>6, <1>7, <1>8, <1>9, <1>10, <1>11, <1>12,
     <1>13, <1>14, <1>15, <1>16, <1>17, <1>18, <1>19, <1>20, <1>21, <1>22, <1>23
     DEF Next, Api, Handlers


\* A session's id names its call; a request that creates one has its tenant.
LEMMA NextRequests ==
  ASSUME TypeOK, RequestsInv, [Next]_vars
  PROVE  RequestsInv'
<1>. USE Ids DEF RequestsInv, apiVars, tables, bookVars, callVars, histVars, gwVars
<1>0. post \in PostType
  BY DEF TypeOK, ApiTypeOK, PostType, PostRecord
<1>1. ASSUME NEW c \in Calls, Ring(c)
      PROVE  RequestsInv'
  BY <1>1 DEF Ring
<1>2. ASSUME NEW k \in Calls \X Reasons, ResolveTenant(k)
      PROVE  RequestsInv'
  BY <1>2 DEF ResolveTenant
<1>3. ASSUME NEW c \in Calls, PostCallRefresh(c)
      PROVE  RequestsInv'
  BY <1>3 DEF PostCallRefresh
<1>4. ASSUME NEW c \in Calls, OnCallStart(c)
      PROVE  RequestsInv'
  <2>1. Arrive(<<c, 1>>)
    BY <1>4 DEF OnCallStart
  <2>2. post'[<<c, 1>>].at = "find" /\ \A q \in Requests : q # <<c, 1>> => post'[q] = post[q]
    BY <1>0, <2>1, PostUpdates
  <2>. QED  BY <1>4, <2>2 DEF OnCallStart
<1>5. ASSUME NEW c \in Calls, SessionStart(c)
      PROVE  RequestsInv'
  BY <1>5 DEF SessionStart
<1>6. ASSUME NEW c \in Calls, HangUp(c)
      PROVE  RequestsInv'
  BY <1>6 DEF HangUp
<1>7. ASSUME NEW c \in Calls, Registered(c)
      PROVE  RequestsInv'
  BY <1>7 DEF Registered
<1>8. ASSUME NEW c \in Calls, NotRegistered(c)
      PROVE  RequestsInv'
  BY <1>8 DEF NotRegistered
<1>9. ASSUME NEW r \in Requests, Repeat(r)
      PROVE  RequestsInv'
  <2>1. Arrive(r)
    BY <1>9 DEF Repeat
  <2>2. post'[r].at = "find" /\ \A q \in Requests : q # r => post'[q] = post[q]
    BY <1>0, <2>1, PostUpdates
  <2>. QED  BY <1>9, <2>2 DEF Repeat
<1>10. ASSUME NEW c \in Calls, NEW u \in Utterances, OnTranscript(c, u)
      PROVE  RequestsInv'
  BY <1>10 DEF OnTranscript
<1>11. ASSUME NEW c \in Calls, NEW u \in Utterances, PostTranscript(c, u)
      PROVE  RequestsInv'
  BY <1>11 DEF PostTranscript
<1>12. ASSUME NEW c \in Calls, NEW u \in Utterances, TranscriptPosted(c, u)
      PROVE  RequestsInv'
  BY <1>12 DEF TranscriptPosted
<1>13. ASSUME NEW c \in Calls, NEW u \in Utterances, TranscriptLost(c, u)
      PROVE  RequestsInv'
  BY <1>13 DEF TranscriptLost
<1>14. ASSUME NEW c \in Calls, OnCallEnd(c)
      PROVE  RequestsInv'
  BY <1>14 DEF OnCallEnd
<1>15. ASSUME NEW c \in Calls, Complete(c)
      PROVE  RequestsInv'
  BY <1>15 DEF Complete
<1>16. ASSUME NEW c \in Calls, Completed(c)
      PROVE  RequestsInv'
  BY <1>16 DEF Completed
<1>17. ASSUME NEW c \in Calls, NotCompleted(c)
      PROVE  RequestsInv'
  BY <1>17 DEF NotCompleted
<1>18. CASE Edit /\ UNCHANGED gwVars
  BY <1>18 DEF Edit
<1>19. ASSUME NEW r \in Requests, FindSessionOrTenant(r) /\ UNCHANGED gwVars
      PROVE  RequestsInv'
  <2>1. CASE \E s \in SessionsOf(r[1]) : Found(r, s.id)
    <3>1. PICK s \in SessionsOf(r[1]) : Found(r, s.id)
      BY <2>1
    <3>2. post'[r].at = "ok" /\ \A q \in Requests : q # r => post'[q] = post[q]
      BY <1>0, <3>1, PostUpdates
    <3>. QED  BY <1>19, <3>2 DEF FindSessionOrTenant
  <2>2. CASE ~ \E s \in SessionsOf(r[1]) : Found(r, s.id)
    <3>1. CASE Holder[version] = None
      <4>1. post'[r].at = "refused" /\ \A q \in Requests : q # r => post'[q] = post[q]
        BY <1>19, <1>0, <2>2, <3>1, PostUpdates DEF FindSessionOrTenant
      <4>. QED  BY <1>19, <4>1 DEF FindSessionOrTenant
    <3>2. CASE Holder[version] # None
      <4>1. post'[r].tenant # None /\ \A q \in Requests : q # r => post'[q] = post[q]
        BY <1>19, <1>0, <2>2, <3>2, PostUpdates DEF FindSessionOrTenant
      <4>. QED  BY <1>19, <4>1 DEF FindSessionOrTenant
    <3>. QED  BY <3>1, <3>2
  <2>. QED  BY <2>1, <2>2
<1>20. ASSUME NEW r \in Requests, CreateSession(r) /\ UNCHANGED gwVars
      PROVE  RequestsInv'
  <2>1. /\ post'[r].at = "ok" /\ \A q \in Requests : q # r => post'[q] = post[q]
        /\ sessions' \subseteq sessions \cup {[id |-> r, call |-> r[1], tenant |-> post[r].tenant]}
    <3>1. \E id : Found(r, id)
      BY <1>20 DEF CreateSession
    <3>2. post'[r].at = "ok" /\ \A q \in Requests : q # r => post'[q] = post[q]
      BY <1>0, <3>1, PostUpdates
    <3>. QED  BY <1>20, <3>2 DEF CreateSession
  <2>. QED  BY <2>1
<1>21. ASSUME NEW c \in Calls, NEW u \in Utterances, AppendTranscript(c, u) /\ UNCHANGED gwVars
      PROVE  RequestsInv'
  BY <1>21 DEF AppendTranscript
<1>22. ASSUME NEW c \in Calls, CompleteCall(c) /\ UNCHANGED gwVars
      PROVE  RequestsInv'
  BY <1>22 DEF CompleteCall
<1>23. CASE UNCHANGED vars
  BY <1>23 DEF vars
<1>. QED
  BY <1>1, <1>2, <1>3, <1>4, <1>5, <1>6, <1>7, <1>8, <1>9, <1>10, <1>11, <1>12,
     <1>13, <1>14, <1>15, <1>16, <1>17, <1>18, <1>19, <1>20, <1>21, <1>22, <1>23
     DEF Next, Api, Handlers


\* What was answered "ok" is in the tables.
LEMMA NextAnswers ==
  ASSUME TypeOK, AnswersInv, [Next]_vars
  PROVE  AnswersInv'
<1>. USE Ids DEF AnswersInv, Exists, apiVars, tables, bookVars, callVars, histVars, gwVars
<1>j. /\ append \in [Calls \X Utterances -> Job] /\ finish \in [Calls -> Job]
      /\ transcripts \subseteq Requests \X Utterances /\ completed \subseteq Requests
  BY DEF TypeOK, ApiTypeOK
<1>1. ASSUME NEW c \in Calls, Ring(c)
      PROVE  AnswersInv'
  BY <1>1 DEF Ring
<1>2. ASSUME NEW k \in Calls \X Reasons, ResolveTenant(k)
      PROVE  AnswersInv'
  BY <1>2 DEF ResolveTenant
<1>3. ASSUME NEW c \in Calls, PostCallRefresh(c)
      PROVE  AnswersInv'
  BY <1>3 DEF PostCallRefresh
<1>4. ASSUME NEW c \in Calls, OnCallStart(c)
      PROVE  AnswersInv'
  BY <1>4 DEF OnCallStart
<1>5. ASSUME NEW c \in Calls, SessionStart(c)
      PROVE  AnswersInv'
  BY <1>5 DEF SessionStart
<1>6. ASSUME NEW c \in Calls, HangUp(c)
      PROVE  AnswersInv'
  BY <1>6 DEF HangUp
<1>7. ASSUME NEW c \in Calls, Registered(c)
      PROVE  AnswersInv'
  BY <1>7 DEF Registered
<1>8. ASSUME NEW c \in Calls, NotRegistered(c)
      PROVE  AnswersInv'
  BY <1>8 DEF NotRegistered
<1>9. ASSUME NEW r \in Requests, Repeat(r)
      PROVE  AnswersInv'
  BY <1>9 DEF Repeat
<1>10. ASSUME NEW c \in Calls, NEW u \in Utterances, OnTranscript(c, u)
      PROVE  AnswersInv'
  BY <1>10 DEF OnTranscript
<1>11. ASSUME NEW c \in Calls, NEW u \in Utterances, PostTranscript(c, u)
      PROVE  AnswersInv'
  <2>0. \/ append' = append
        \/ append' = [append EXCEPT ![<<c, u>>] = [at |-> "sent", session |-> ingestId[c]]]
    BY <1>11 DEF PostTranscript
  <2>1. \A q \in Calls \X Utterances : append'[q] = append[q] \/ append'[q].at = "sent"
    BY <2>0, <1>j
  <2>2. \A d \in Calls, v \in Utterances :
          append'[<<d, v>>] = append[<<d, v>>] \/ append'[<<d, v>>].at = "sent"
    BY <2>1
  <2>. QED  BY <1>11, <2>2 DEF PostTranscript
<1>12. ASSUME NEW c \in Calls, NEW u \in Utterances, TranscriptPosted(c, u)
      PROVE  AnswersInv'
  BY <1>12 DEF TranscriptPosted
<1>13. ASSUME NEW c \in Calls, NEW u \in Utterances, TranscriptLost(c, u)
      PROVE  AnswersInv'
  BY <1>13 DEF TranscriptLost
<1>14. ASSUME NEW c \in Calls, OnCallEnd(c)
      PROVE  AnswersInv'
  BY <1>14 DEF OnCallEnd
<1>15. ASSUME NEW c \in Calls, Complete(c)
      PROVE  AnswersInv'
  <2>1. \A d \in Calls : finish'[d] = finish[d] \/ finish'[d].at = "sent"
    BY <1>15, <1>j DEF Complete
  <2>. QED  BY <1>15, <2>1 DEF Complete
<1>16. ASSUME NEW c \in Calls, Completed(c)
      PROVE  AnswersInv'
  BY <1>16 DEF Completed
<1>17. ASSUME NEW c \in Calls, NotCompleted(c)
      PROVE  AnswersInv'
  BY <1>17 DEF NotCompleted
<1>18. CASE Edit /\ UNCHANGED gwVars
  BY <1>18 DEF Edit
<1>19. ASSUME NEW r \in Requests, FindSessionOrTenant(r) /\ UNCHANGED gwVars
      PROVE  AnswersInv'
  BY <1>19 DEF FindSessionOrTenant
<1>20. ASSUME NEW r \in Requests, CreateSession(r) /\ UNCHANGED gwVars
      PROVE  AnswersInv'
  <2>1. sessions \subseteq sessions'
    BY <1>20 DEF CreateSession
  <2>. QED  BY <1>20, <2>1 DEF CreateSession
<1>21. ASSUME NEW c \in Calls, NEW u \in Utterances, AppendTranscript(c, u) /\ UNCHANGED gwVars
      PROVE  AnswersInv'
  <2> DEFINE job == append[<<c, u>>]
  <2>1. /\ append'[<<c, u>>].session = job.session
        /\ append'[<<c, u>>].at = "ok" => Exists(job.session)
        /\ \A d \in Calls, v \in Utterances :
             <<d, v>> # <<c, u>> => append'[<<d, v>>] = append[<<d, v>>]
    <3>1. append' = [append EXCEPT ![<<c, u>>] = Served(job)]
      BY <1>21 DEF AppendTranscript
    <3>2. append'[<<c, u>>] = Served(job) /\ job \in Job
      BY <3>1, <1>j
    <3>3. Served(job).session = job.session /\ (Served(job).at = "ok" => Exists(job.session))
      BY <3>2 DEF Served, Job, Exists
    <3>4. \A q \in Calls \X Utterances : q # <<c, u>> => append'[q] = append[q]
      BY <3>1, <1>j
    <3>. QED  BY <3>2, <3>3, <3>4
  <2>2. transcripts' = IF Exists(job.session) THEN transcripts \cup {<<job.session, u>>}
                                              ELSE transcripts
    BY <1>21 DEF AppendTranscript
  <2>3. UNCHANGED <<sessions, completed, finish>>
    BY <1>21 DEF AppendTranscript
  <2> HIDE DEF job
  <2>4. \A id \in Requests, v \in Utterances : <<id, v>> \in transcripts' => Exists(id)
    BY <2>2
  <2>5. \A d \in Calls, v \in Utterances :
          append'[<<d, v>>].at = "ok" => <<append'[<<d, v>>].session, v>> \in transcripts'
    <3>1. TAKE d \in Calls, v \in Utterances
    <3>2. CASE <<d, v>> = <<c, u>>
      BY <3>2, <2>1, <2>2
    <3>3. CASE <<d, v>> # <<c, u>>
      BY <3>3, <2>1, <2>2
    <3>. QED  BY <3>2, <3>3
  <2>. QED  BY <2>3, <2>4, <2>5
<1>22. ASSUME NEW c \in Calls, CompleteCall(c) /\ UNCHANGED gwVars
      PROVE  AnswersInv'
  <2> DEFINE job == finish[c]
  <2>1. /\ finish'[c].session = job.session
        /\ finish'[c].at = "ok" => Exists(job.session)
        /\ \A d \in Calls : d # c => finish'[d] = finish[d]
    <3>1. finish' = [finish EXCEPT ![c] = Served(job)] /\ job \in Job
      BY <1>22, <1>j DEF CompleteCall
    <3>2. finish'[c] = Served(job)
      BY <3>1, <1>j
    <3>3. Served(job).session = job.session /\ (Served(job).at = "ok" => Exists(job.session))
      BY <3>1 DEF Served, Job, Exists
    <3>4. \A d \in Calls : d # c => finish'[d] = finish[d]
      BY <3>1, <1>j
    <3>. QED  BY <3>2, <3>3, <3>4
  <2>2. completed' = IF Exists(job.session) THEN completed \cup {job.session} ELSE completed
    BY <1>22 DEF CompleteCall
  <2>3. UNCHANGED <<sessions, transcripts, append>>
    BY <1>22 DEF CompleteCall
  <2> HIDE DEF job
  <2>. QED  BY <2>1, <2>2, <2>3
<1>23. CASE UNCHANGED vars
  BY <1>23 DEF vars
<1>. QED
  BY <1>1, <1>2, <1>3, <1>4, <1>5, <1>6, <1>7, <1>8, <1>9, <1>10, <1>11, <1>12,
     <1>13, <1>14, <1>15, <1>16, <1>17, <1>18, <1>19, <1>20, <1>21, <1>22, <1>23
     DEF Next, Api, Handlers



-----------------------------------------------------------------------------
(* A call on the line.                                                       *)

LEMMA NextLine ==
  ASSUME TypeOK, LineInv, [Next]_vars
  PROVE  LineInv'
<1>. USE DEF LineInv, OnLine, apiVars, tables, bookVars, callVars, histVars, gwVars
<1>0. /\ line \in [Calls -> {"idle", "ringing", "talking", "over"}]
      /\ start \in [Calls -> {"idle", "refreshing", "done"}]
      /\ ending \in [Calls -> {"idle", "joining", "completing", "done"}]
      /\ None \notin Calls
  BY NoneAssumption DEF TypeOK
<1>1. ASSUME NEW c \in Calls, Ring(c)
      PROVE  LineInv'
  BY <1>1, <1>0 DEF Ring
<1>2. ASSUME NEW k \in Calls \X Reasons, ResolveTenant(k)
      PROVE  LineInv'
  BY <1>2 DEF ResolveTenant
<1>3. ASSUME NEW c \in Calls, PostCallRefresh(c)
      PROVE  LineInv'
  BY <1>3 DEF PostCallRefresh
<1>4. ASSUME NEW c \in Calls, OnCallStart(c)
      PROVE  LineInv'
  BY <1>4 DEF OnCallStart
<1>5. ASSUME NEW c \in Calls, SessionStart(c)
      PROVE  LineInv'
  BY <1>5 DEF SessionStart
<1>6. ASSUME NEW c \in Calls, HangUp(c)
      PROVE  LineInv'
  BY <1>6, <1>0 DEF HangUp
<1>7. ASSUME NEW c \in Calls, Registered(c)
      PROVE  LineInv'
  BY <1>7 DEF Registered
<1>8. ASSUME NEW c \in Calls, NotRegistered(c)
      PROVE  LineInv'
  BY <1>8 DEF NotRegistered
<1>9. ASSUME NEW r \in Requests, Repeat(r)
      PROVE  LineInv'
  BY <1>9 DEF Repeat
<1>10. ASSUME NEW c \in Calls, NEW u \in Utterances, OnTranscript(c, u)
      PROVE  LineInv'
  BY <1>10 DEF OnTranscript
<1>11. ASSUME NEW c \in Calls, NEW u \in Utterances, PostTranscript(c, u)
      PROVE  LineInv'
  BY <1>11 DEF PostTranscript
<1>12. ASSUME NEW c \in Calls, NEW u \in Utterances, TranscriptPosted(c, u)
      PROVE  LineInv'
  BY <1>12 DEF TranscriptPosted
<1>13. ASSUME NEW c \in Calls, NEW u \in Utterances, TranscriptLost(c, u)
      PROVE  LineInv'
  BY <1>13 DEF TranscriptLost
<1>14. ASSUME NEW c \in Calls, OnCallEnd(c)
      PROVE  LineInv'
  BY <1>14, <1>0 DEF OnCallEnd
<1>15. ASSUME NEW c \in Calls, Complete(c)
      PROVE  LineInv'
  BY <1>15, <1>0 DEF Complete
<1>16. ASSUME NEW c \in Calls, Completed(c)
      PROVE  LineInv'
  BY <1>16 DEF Completed
<1>17. ASSUME NEW c \in Calls, NotCompleted(c)
      PROVE  LineInv'
  BY <1>17 DEF NotCompleted
<1>18. CASE Edit /\ UNCHANGED gwVars
  BY <1>18 DEF Edit
<1>19. ASSUME NEW r \in Requests, FindSessionOrTenant(r) /\ UNCHANGED gwVars
      PROVE  LineInv'
  BY <1>19 DEF FindSessionOrTenant
<1>20. ASSUME NEW r \in Requests, CreateSession(r) /\ UNCHANGED gwVars
      PROVE  LineInv'
  BY <1>20 DEF CreateSession
<1>21. ASSUME NEW c \in Calls, NEW u \in Utterances, AppendTranscript(c, u) /\ UNCHANGED gwVars
      PROVE  LineInv'
  BY <1>21 DEF AppendTranscript
<1>22. ASSUME NEW c \in Calls, CompleteCall(c) /\ UNCHANGED gwVars
      PROVE  LineInv'
  BY <1>22 DEF CompleteCall
<1>23. CASE UNCHANGED vars
  BY <1>23 DEF vars
<1>. QED
  BY <1>1, <1>2, <1>3, <1>4, <1>5, <1>6, <1>7, <1>8, <1>9, <1>10, <1>11, <1>12,
     <1>13, <1>14, <1>15, <1>16, <1>17, <1>18, <1>19, <1>20, <1>21, <1>22, <1>23
     DEF Next, Api, Handlers


LEMMA NextForgotten ==
  ASSUME TypeOK, LineInv, CallsForgotten, [Next]_vars
  PROVE  CallsForgotten'
<1>. USE DEF LineInv, CallsForgotten, apiVars, tables, bookVars, callVars, histVars, gwVars
<1>0. /\ line \in [Calls -> {"idle", "ringing", "talking", "over"}]
      /\ start \in [Calls -> {"idle", "refreshing", "done"}]
      /\ ending \in [Calls -> {"idle", "joining", "completing", "done"}]
      /\ None \notin Calls
  BY NoneAssumption DEF TypeOK
<1>1. ASSUME NEW c \in Calls, Ring(c)
      PROVE  CallsForgotten'
  BY <1>1 DEF Ring
<1>2. ASSUME NEW k \in Calls \X Reasons, ResolveTenant(k)
      PROVE  CallsForgotten'
  BY <1>2 DEF ResolveTenant
<1>3. ASSUME NEW c \in Calls, PostCallRefresh(c)
      PROVE  CallsForgotten'
  BY <1>3 DEF PostCallRefresh
<1>4. ASSUME NEW c \in Calls, OnCallStart(c)
      PROVE  CallsForgotten'
  <2>1. /\ known' = known \cup {c} /\ current' = c /\ start[c] = "refreshing"
        /\ start' = [start EXCEPT ![c] = "done"] /\ UNCHANGED <<ending, early>>
    BY <1>4 DEF OnCallStart
  <2>2. ending[c] # "idle" => c \in early
    BY <2>1
  <2>3. \A d \in Calls : d # c => start'[d] = start[d]
    BY <2>1, <1>0
  <2>4. start'[c] = "done"
    BY <2>1, <1>0
  <2>. QED  BY <2>1, <2>2, <2>3, <2>4
<1>5. ASSUME NEW c \in Calls, SessionStart(c)
      PROVE  CallsForgotten'
  BY <1>5 DEF SessionStart
<1>6. ASSUME NEW c \in Calls, HangUp(c)
      PROVE  CallsForgotten'
  BY <1>6 DEF HangUp
<1>7. ASSUME NEW c \in Calls, Registered(c)
      PROVE  CallsForgotten'
  BY <1>7 DEF Registered
<1>8. ASSUME NEW c \in Calls, NotRegistered(c)
      PROVE  CallsForgotten'
  BY <1>8 DEF NotRegistered
<1>9. ASSUME NEW r \in Requests, Repeat(r)
      PROVE  CallsForgotten'
  BY <1>9 DEF Repeat
<1>10. ASSUME NEW c \in Calls, NEW u \in Utterances, OnTranscript(c, u)
      PROVE  CallsForgotten'
  BY <1>10 DEF OnTranscript
<1>11. ASSUME NEW c \in Calls, NEW u \in Utterances, PostTranscript(c, u)
      PROVE  CallsForgotten'
  BY <1>11 DEF PostTranscript
<1>12. ASSUME NEW c \in Calls, NEW u \in Utterances, TranscriptPosted(c, u)
      PROVE  CallsForgotten'
  BY <1>12 DEF TranscriptPosted
<1>13. ASSUME NEW c \in Calls, NEW u \in Utterances, TranscriptLost(c, u)
      PROVE  CallsForgotten'
  BY <1>13 DEF TranscriptLost
<1>14. ASSUME NEW c \in Calls, OnCallEnd(c)
      PROVE  CallsForgotten'
  BY <1>14, <1>0 DEF OnCallEnd
<1>15. ASSUME NEW c \in Calls, Complete(c)
      PROVE  CallsForgotten'
  BY <1>15, <1>0 DEF Complete
<1>16. ASSUME NEW c \in Calls, Completed(c)
      PROVE  CallsForgotten'
  BY <1>16 DEF Completed
<1>17. ASSUME NEW c \in Calls, NotCompleted(c)
      PROVE  CallsForgotten'
  BY <1>17 DEF NotCompleted
<1>18. CASE Edit /\ UNCHANGED gwVars
  BY <1>18 DEF Edit
<1>19. ASSUME NEW r \in Requests, FindSessionOrTenant(r) /\ UNCHANGED gwVars
      PROVE  CallsForgotten'
  BY <1>19 DEF FindSessionOrTenant
<1>20. ASSUME NEW r \in Requests, CreateSession(r) /\ UNCHANGED gwVars
      PROVE  CallsForgotten'
  BY <1>20 DEF CreateSession
<1>21. ASSUME NEW c \in Calls, NEW u \in Utterances, AppendTranscript(c, u) /\ UNCHANGED gwVars
      PROVE  CallsForgotten'
  BY <1>21 DEF AppendTranscript
<1>22. ASSUME NEW c \in Calls, CompleteCall(c) /\ UNCHANGED gwVars
      PROVE  CallsForgotten'
  BY <1>22 DEF CompleteCall
<1>23. CASE UNCHANGED vars
  BY <1>23 DEF vars
<1>. QED
  BY <1>1, <1>2, <1>3, <1>4, <1>5, <1>6, <1>7, <1>8, <1>9, <1>10, <1>11, <1>12,
     <1>13, <1>14, <1>15, <1>16, <1>17, <1>18, <1>19, <1>20, <1>21, <1>22, <1>23
     DEF Next, Api, Handlers


(* Nothing is said in a call before its start, or in one that ended early.   *)

LEMMA NextQuiet ==
  ASSUME TypeOK, LineInv, QuietInv, [Next]_vars
  PROVE  QuietInv'
<1>. USE DEF LineInv, QuietInv, Silent, apiVars, tables, bookVars, callVars, histVars, gwVars
<1>0. /\ line \in [Calls -> {"idle", "ringing", "talking", "over"}]
      /\ start \in [Calls -> {"idle", "refreshing", "done"}]
      /\ ending \in [Calls -> {"idle", "joining", "completing", "done"}]
      /\ say \in [Calls \X Utterances -> {"unsaid", "joining", "posting", "done"}]
      /\ None \notin Calls
  BY NoneAssumption DEF TypeOK
<1>1. ASSUME NEW c \in Calls, Ring(c)
      PROVE  QuietInv'
  BY <1>1, <1>0 DEF Ring
<1>2. ASSUME NEW k \in Calls \X Reasons, ResolveTenant(k)
      PROVE  QuietInv'
  BY <1>2 DEF ResolveTenant
<1>3. ASSUME NEW c \in Calls, PostCallRefresh(c)
      PROVE  QuietInv'
  BY <1>3 DEF PostCallRefresh
<1>4. ASSUME NEW c \in Calls, OnCallStart(c)
      PROVE  QuietInv'
  BY <1>4, <1>0 DEF OnCallStart
<1>5. ASSUME NEW c \in Calls, SessionStart(c)
      PROVE  QuietInv'
  BY <1>5, <1>0 DEF SessionStart
<1>6. ASSUME NEW c \in Calls, HangUp(c)
      PROVE  QuietInv'
  BY <1>6, <1>0 DEF HangUp
<1>7. ASSUME NEW c \in Calls, Registered(c)
      PROVE  QuietInv'
  BY <1>7 DEF Registered
<1>8. ASSUME NEW c \in Calls, NotRegistered(c)
      PROVE  QuietInv'
  BY <1>8 DEF NotRegistered
<1>9. ASSUME NEW r \in Requests, Repeat(r)
      PROVE  QuietInv'
  BY <1>9 DEF Repeat
<1>10. ASSUME NEW c \in Calls, NEW u \in Utterances, OnTranscript(c, u)
      PROVE  QuietInv'
  <2>1. start[c] = "done" /\ c \notin early
    BY <1>10, <1>0 DEF OnTranscript
  <2>2. \A d \in Calls, v \in Utterances : d # c => say'[<<d, v>>] = say[<<d, v>>]
    BY <1>10, <1>0 DEF OnTranscript
  <2>3. UNCHANGED <<line, start, early>>
    BY <1>10 DEF OnTranscript
  <2>. QED  BY <2>1, <2>2, <2>3
<1>11. ASSUME NEW c \in Calls, NEW u \in Utterances, PostTranscript(c, u)
      PROVE  QuietInv'
  <2>1. say[<<c, u>>] # "unsaid"
    BY <1>11 DEF PostTranscript
  <2>1a. start[c] = "done" /\ c \notin early
    BY <2>1
  <2>2. \A d \in Calls, v \in Utterances : d # c => say'[<<d, v>>] = say[<<d, v>>]
    BY <1>11, <1>0 DEF PostTranscript
  <2>3. UNCHANGED <<line, start, early>>
    BY <1>11 DEF PostTranscript
  <2>. QED  BY <2>1a, <2>2, <2>3
<1>12. ASSUME NEW c \in Calls, NEW u \in Utterances, TranscriptPosted(c, u)
      PROVE  QuietInv'
  <2>1. say[<<c, u>>] # "unsaid"
    BY <1>12 DEF TranscriptPosted
  <2>1a. start[c] = "done" /\ c \notin early
    BY <2>1
  <2>2. \A d \in Calls, v \in Utterances : d # c => say'[<<d, v>>] = say[<<d, v>>]
    BY <1>12, <1>0 DEF TranscriptPosted
  <2>3. UNCHANGED <<line, start, early>>
    BY <1>12 DEF TranscriptPosted
  <2>. QED  BY <2>1a, <2>2, <2>3
<1>13. ASSUME NEW c \in Calls, NEW u \in Utterances, TranscriptLost(c, u)
      PROVE  QuietInv'
  <2>1. say[<<c, u>>] # "unsaid"
    BY <1>13 DEF TranscriptLost
  <2>1a. start[c] = "done" /\ c \notin early
    BY <2>1
  <2>2. \A d \in Calls, v \in Utterances : d # c => say'[<<d, v>>] = say[<<d, v>>]
    BY <1>13, <1>0 DEF TranscriptLost
  <2>3. UNCHANGED <<line, start, early>>
    BY <1>13 DEF TranscriptLost
  <2>. QED  BY <2>1a, <2>2, <2>3
<1>14. ASSUME NEW c \in Calls, OnCallEnd(c)
      PROVE  QuietInv'
  BY <1>14, <1>0 DEF OnCallEnd
<1>15. ASSUME NEW c \in Calls, Complete(c)
      PROVE  QuietInv'
  BY <1>15, <1>0 DEF Complete
<1>16. ASSUME NEW c \in Calls, Completed(c)
      PROVE  QuietInv'
  BY <1>16 DEF Completed
<1>17. ASSUME NEW c \in Calls, NotCompleted(c)
      PROVE  QuietInv'
  BY <1>17 DEF NotCompleted
<1>18. CASE Edit /\ UNCHANGED gwVars
  BY <1>18 DEF Edit
<1>19. ASSUME NEW r \in Requests, FindSessionOrTenant(r) /\ UNCHANGED gwVars
      PROVE  QuietInv'
  BY <1>19 DEF FindSessionOrTenant
<1>20. ASSUME NEW r \in Requests, CreateSession(r) /\ UNCHANGED gwVars
      PROVE  QuietInv'
  BY <1>20 DEF CreateSession
<1>21. ASSUME NEW c \in Calls, NEW u \in Utterances, AppendTranscript(c, u) /\ UNCHANGED gwVars
      PROVE  QuietInv'
  BY <1>21 DEF AppendTranscript
<1>22. ASSUME NEW c \in Calls, CompleteCall(c) /\ UNCHANGED gwVars
      PROVE  QuietInv'
  BY <1>22 DEF CompleteCall
<1>23. CASE UNCHANGED vars
  BY <1>23 DEF vars
<1>. QED
  BY <1>1, <1>2, <1>3, <1>4, <1>5, <1>6, <1>7, <1>8, <1>9, <1>10, <1>11, <1>12,
     <1>13, <1>14, <1>15, <1>16, <1>17, <1>18, <1>19, <1>20, <1>21, <1>22, <1>23
     DEF Next, Api, Handlers



-----------------------------------------------------------------------------
(* The prompt a call will be answered with.                                  *)

\* What a request for the configuration leaves in refresh.
LEMMA RefreshUpdates ==
  ASSUME refresh \in RefreshType, NEW c \in Calls
  PROVE  /\ Ask(c, "call_start") =>
              /\ refresh'[<<c, "call_start">>].at = "asked"
              /\ \A d \in Calls : d # c => refresh'[<<d, "call_start">>] = refresh[<<d, "call_start">>]
         /\ Refreshed(<<c, "call_start">>) \/ NotRefreshed(<<c, "call_start">>) =>
              \A d \in Calls : d # c => refresh'[<<d, "call_start">>] = refresh[<<d, "call_start">>]
         /\ Ask(c, "post_call") \/ Refreshed(<<c, "post_call">>) \/ NotRefreshed(<<c, "post_call">>) =>
              \A d \in Calls : refresh'[<<d, "call_start">>] = refresh[<<d, "call_start">>]
<1>1. \A d \in Calls : <<d, "call_start">> \in Calls \X Reasons /\ <<d, "post_call">> \in Calls \X Reasons
  BY DEF Reasons
<1>2. ASSUME NEW k \in Calls \X Reasons, NEW st, refresh' = [refresh EXCEPT ![k].at = st]
      PROVE  refresh'[k].at = st /\ \A j \in Calls \X Reasons : j # k => refresh'[j] = refresh[j]
  BY <1>2 DEF RefreshType
<1>3. ASSUME NEW k \in Calls \X Reasons, NEW x, refresh' = [refresh EXCEPT ![k] = x]
      PROVE  \A j \in Calls \X Reasons : j # k => refresh'[j] = refresh[j]
  BY <1>3 DEF RefreshType
<1>4. \A d \in Calls : <<d, "call_start">> # <<c, "post_call">>
  OBVIOUS
<1>5. \A d \in Calls : d # c => <<d, "call_start">> # <<c, "call_start">>
  OBVIOUS
<1>6. ASSUME Ask(c, "call_start")
      PROVE  /\ refresh'[<<c, "call_start">>].at = "asked"
             /\ \A d \in Calls : d # c => refresh'[<<d, "call_start">>] = refresh[<<d, "call_start">>]
  <2>1. refresh' = [refresh EXCEPT ![<<c, "call_start">>].at = "asked"]
    BY <1>6 DEF Ask
  <2>2. /\ refresh'[<<c, "call_start">>].at = "asked"
        /\ \A j \in Calls \X Reasons : j # <<c, "call_start">> => refresh'[j] = refresh[j]
    BY <2>1, <1>1, <1>2
  <2>. QED  BY <2>2, <1>1, <1>5
<1>7. ASSUME Refreshed(<<c, "call_start">>) \/ NotRefreshed(<<c, "call_start">>)
      PROVE  \A d \in Calls : d # c => refresh'[<<d, "call_start">>] = refresh[<<d, "call_start">>]
  <2>1. \A j \in Calls \X Reasons : j # <<c, "call_start">> => refresh'[j] = refresh[j]
    <3>1. CASE Refreshed(<<c, "call_start">>)
      BY <3>1, <1>1, <1>3 DEF Refreshed
    <3>2. CASE NotRefreshed(<<c, "call_start">>)
      BY <3>2, <1>1, <1>2 DEF NotRefreshed
    <3>. QED  BY <1>7, <3>1, <3>2
  <2>. QED  BY <2>1, <1>1, <1>5
<1>8. ASSUME Ask(c, "post_call") \/ Refreshed(<<c, "post_call">>) \/ NotRefreshed(<<c, "post_call">>)
      PROVE  \A d \in Calls : refresh'[<<d, "call_start">>] = refresh[<<d, "call_start">>]
  <2>1. \A j \in Calls \X Reasons : j # <<c, "post_call">> => refresh'[j] = refresh[j]
    <3>1. CASE Refreshed(<<c, "post_call">>)
      BY <3>1, <1>1, <1>3 DEF Refreshed
    <3>2. CASE NotRefreshed(<<c, "post_call">>)
      BY <3>2, <1>1, <1>2 DEF NotRefreshed
    <3>3. CASE Ask(c, "post_call")
      BY <3>3, <1>1, <1>2 DEF Ask
    <3>. QED  BY <1>8, <3>1, <3>2, <3>3
  <2>. QED  BY <2>1, <1>1, <1>4
<1>. QED  BY <1>6, <1>7, <1>8

LEMMA NextPrompt ==
  ASSUME TypeOK, LineInv, PromptInv, [Next]_vars
  PROVE  PromptInv'
<1>. USE DEF PromptInv, AtLeast, apiVars, tables, bookVars, callVars, histVars, gwVars
<1>0. /\ line \in [Calls -> {"idle", "ringing", "talking", "over"}]
      /\ start \in [Calls -> {"idle", "refreshing", "done"}]
      /\ rang \in [Calls -> Version] /\ answered \in [Calls -> Version]
      /\ refresh \in RefreshType /\ version \in Nat /\ version \in Version /\ version # None
  BY VersionAssumption, NoneAssumption DEF TypeOK, ApiTypeOK, RefreshType, Version
<1>n. \A v \in Version : v = None \/ v \in Nat
  BY VersionAssumption DEF Version
<1>1. ASSUME NEW c \in Calls, Ring(c)
      PROVE  PromptInv'
  <2>1. Ask(c, "call_start")
    BY <1>1 DEF Ring
  <2>2. /\ refresh'[<<c, "call_start">>].at = "asked"
        /\ \A d \in Calls : d # c => refresh'[<<d, "call_start">>] = refresh[<<d, "call_start">>]
    BY <1>0, <2>1, RefreshUpdates
  <2>3. /\ rang'[c] = version /\ start'[c] = "refreshing"
        /\ \A d \in Calls : d # c => rang'[d] = rang[d] /\ start'[d] = start[d] /\ line'[d] = line[d]
    BY <1>1, <1>0 DEF Ring
  <2>4. \A d \in Calls : line[d] # "ringing"
    BY <1>1 DEF Ring
  <2>5. UNCHANGED <<version, prompt>>
    BY <1>1 DEF Ring
  <2>6. \A d \in Calls : line'[d] = "ringing" => d = c
    BY <2>3, <2>4
  <2>7. \A d \in Calls : rang'[d] # None => rang'[d] <= version'
    <3>1. \A d \in Calls : d # c /\ rang[d] # None => rang[d] <= version
      OBVIOUS
    <3>2. version <= version
      BY <1>0
    <3>. QED  BY <2>3, <2>5, <3>1, <3>2
  <2>. QED  BY <2>2, <2>3, <2>6, <2>7
<1>2. ASSUME NEW k \in Calls \X Reasons, ResolveTenant(k)
      PROVE  PromptInv'
  <2>1. refresh' = [refresh EXCEPT ![k] = [at |-> "answered", got |-> version]]
    BY <1>2 DEF ResolveTenant
  <2>2. \A d \in Calls : \/ refresh'[<<d, "call_start">>] = refresh[<<d, "call_start">>]
                         \/ refresh'[<<d, "call_start">>].got = version
    <3>1. \A j \in Calls \X Reasons : refresh'[j] = refresh[j] \/ refresh'[j].got = version
      BY <1>0, <2>1 DEF RefreshType
    <3>. QED  BY <3>1 DEF Reasons
  <2>3. UNCHANGED <<version, prompt, line, start, rang, overlapped>>
    BY <1>2 DEF ResolveTenant
  <2>. QED  BY <1>0, <1>n, <2>2, <2>3
<1>3. ASSUME NEW c \in Calls, PostCallRefresh(c)
      PROVE  PromptInv'
  <2>1. \A d \in Calls : refresh'[<<d, "call_start">>] = refresh[<<d, "call_start">>]
    BY <1>3, <1>0, RefreshUpdates DEF PostCallRefresh
  <2>. QED  BY <1>3, <2>1 DEF PostCallRefresh
<1>4. ASSUME NEW c \in Calls, OnCallStart(c)
      PROVE  PromptInv'
  <2>1. \A d \in Calls : d # c => refresh'[<<d, "call_start">>] = refresh[<<d, "call_start">>]
    BY <1>4, <1>0, RefreshUpdates DEF OnCallStart
  <2>2. /\ start'[c] = "done" /\ prompt' = ctx'
        /\ \A d \in Calls : d # c => start'[d] = start[d]
    BY <1>4, <1>0 DEF OnCallStart
  <2>3. UNCHANGED <<version, line, overlapped>> /\ \A d \in Calls : d # c => rang'[d] = rang[d]
    BY <1>4, <1>0 DEF OnCallStart
  <2>4. \A d \in Calls : d # c /\ line[d] = "ringing" => d \in overlapped
    BY <1>4 DEF OnCallStart, LineInv, OnLine
  <2>5. \/ rang'[c] = None
        \/ /\ rang'[c] = rang[c] /\ ctx' = refresh[<<c, "call_start">>].got
           /\ refresh[<<c, "call_start">>].at = "answered"
    BY <1>4, <1>0 DEF OnCallStart, Refreshed
  <2>6. start[c] = "refreshing"
    BY <1>4 DEF OnCallStart
  <2>. QED  BY <1>0, <1>n, <2>1, <2>2, <2>3, <2>4, <2>5, <2>6
<1>5. ASSUME NEW c \in Calls, SessionStart(c)
      PROVE  PromptInv'
  BY <1>5, <1>0 DEF SessionStart
<1>6. ASSUME NEW c \in Calls, HangUp(c)
      PROVE  PromptInv'
  BY <1>6, <1>0 DEF HangUp
<1>7. ASSUME NEW c \in Calls, Registered(c)
      PROVE  PromptInv'
  BY <1>7 DEF Registered
<1>8. ASSUME NEW c \in Calls, NotRegistered(c)
      PROVE  PromptInv'
  BY <1>8 DEF NotRegistered
<1>9. ASSUME NEW r \in Requests, Repeat(r)
      PROVE  PromptInv'
  BY <1>9 DEF Repeat
<1>10. ASSUME NEW c \in Calls, NEW u \in Utterances, OnTranscript(c, u)
      PROVE  PromptInv'
  BY <1>10 DEF OnTranscript
<1>11. ASSUME NEW c \in Calls, NEW u \in Utterances, PostTranscript(c, u)
      PROVE  PromptInv'
  BY <1>11 DEF PostTranscript
<1>12. ASSUME NEW c \in Calls, NEW u \in Utterances, TranscriptPosted(c, u)
      PROVE  PromptInv'
  BY <1>12 DEF TranscriptPosted
<1>13. ASSUME NEW c \in Calls, NEW u \in Utterances, TranscriptLost(c, u)
      PROVE  PromptInv'
  BY <1>13 DEF TranscriptLost
<1>14. ASSUME NEW c \in Calls, OnCallEnd(c)
      PROVE  PromptInv'
  <2>1. \A d \in Calls : refresh'[<<d, "call_start">>] = refresh[<<d, "call_start">>]
    BY <1>14, <1>0, RefreshUpdates DEF OnCallEnd
  <2>. QED  BY <1>14, <2>1 DEF OnCallEnd
<1>15. ASSUME NEW c \in Calls, Complete(c)
      PROVE  PromptInv'
  <2>1. \A d \in Calls : refresh'[<<d, "call_start">>] = refresh[<<d, "call_start">>]
    BY <1>15, <1>0, RefreshUpdates DEF Complete
  <2>. QED  BY <1>15, <2>1 DEF Complete
<1>16. ASSUME NEW c \in Calls, Completed(c)
      PROVE  PromptInv'
  <2>1. \A d \in Calls : refresh'[<<d, "call_start">>] = refresh[<<d, "call_start">>]
    BY <1>16, <1>0, RefreshUpdates DEF Completed
  <2>. QED  BY <1>16, <2>1 DEF Completed
<1>17. ASSUME NEW c \in Calls, NotCompleted(c)
      PROVE  PromptInv'
  <2>1. \A d \in Calls : refresh'[<<d, "call_start">>] = refresh[<<d, "call_start">>]
    BY <1>17, <1>0, RefreshUpdates DEF NotCompleted
  <2>. QED  BY <1>17, <2>1 DEF NotCompleted
<1>18. CASE Edit /\ UNCHANGED gwVars
  <2>1. version' = version + 1
    BY <1>18 DEF Edit
  <2>2. UNCHANGED <<prompt, line, start, rang, overlapped, refresh>>
    BY <1>18
  <2>3. \A d \in Calls : rang[d] # None => rang[d] \in Nat /\ rang[d] <= version
    BY <1>0, <1>n
  <2>4. \A d \in Calls : rang'[d] # None => rang'[d] <= version'
    BY <1>0, <2>1, <2>2, <2>3
  <2>. QED  BY <2>2, <2>4
<1>19. ASSUME NEW r \in Requests, FindSessionOrTenant(r) /\ UNCHANGED gwVars
      PROVE  PromptInv'
  BY <1>19 DEF FindSessionOrTenant
<1>20. ASSUME NEW r \in Requests, CreateSession(r) /\ UNCHANGED gwVars
      PROVE  PromptInv'
  BY <1>20 DEF CreateSession
<1>21. ASSUME NEW c \in Calls, NEW u \in Utterances, AppendTranscript(c, u) /\ UNCHANGED gwVars
      PROVE  PromptInv'
  BY <1>21 DEF AppendTranscript
<1>22. ASSUME NEW c \in Calls, CompleteCall(c) /\ UNCHANGED gwVars
      PROVE  PromptInv'
  BY <1>22 DEF CompleteCall
<1>23. CASE UNCHANGED vars
  BY <1>23 DEF vars
<1>. QED
  BY <1>1, <1>2, <1>3, <1>4, <1>5, <1>6, <1>7, <1>8, <1>9, <1>10, <1>11, <1>12,
     <1>13, <1>14, <1>15, <1>16, <1>17, <1>18, <1>19, <1>20, <1>21, <1>22, <1>23
     DEF Next, Api, Handlers


LEMMA NextFresh ==
  ASSUME TypeOK, PromptInv, FreshPrompt, [Next]_vars
  PROVE  FreshPrompt'
<1>. USE DEF FreshPrompt, apiVars, tables, bookVars, callVars, histVars, gwVars
<1>0. /\ line \in [Calls -> {"idle", "ringing", "talking", "over"}]
      /\ start \in [Calls -> {"idle", "refreshing", "done"}]
      /\ rang \in [Calls -> Version] /\ answered \in [Calls -> Version]
      /\ refresh \in RefreshType /\ version \in Nat /\ version \in Version /\ version # None
  BY VersionAssumption, NoneAssumption DEF TypeOK, ApiTypeOK, RefreshType, Version
<1>1. ASSUME NEW c \in Calls, Ring(c)
      PROVE  FreshPrompt'
  BY <1>1 DEF Ring
<1>2. ASSUME NEW k \in Calls \X Reasons, ResolveTenant(k)
      PROVE  FreshPrompt'
  BY <1>2 DEF ResolveTenant
<1>3. ASSUME NEW c \in Calls, PostCallRefresh(c)
      PROVE  FreshPrompt'
  BY <1>3 DEF PostCallRefresh
<1>4. ASSUME NEW c \in Calls, OnCallStart(c)
      PROVE  FreshPrompt'
  <2>1. UNCHANGED <<line, answered, overlapped>> /\ \A d \in Calls : rang'[d] \in {None, rang[d]}
    BY <1>4, <1>0 DEF OnCallStart
  <2>. QED  BY <2>1
<1>5. ASSUME NEW c \in Calls, SessionStart(c)
      PROVE  FreshPrompt'
  <2>1. UNCHANGED <<rang, overlapped>> /\ line[c] = "ringing" /\ start[c] = "done"
    BY <1>5 DEF SessionStart
  <2>2. /\ answered'[c] = prompt
        /\ \A d \in Calls : d # c => answered'[d] = answered[d] /\ line'[d] = line[d]
    BY <1>5, <1>0 DEF SessionStart
  <2>. QED  BY <2>1, <2>2 DEF PromptInv, AtLeast
<1>6. ASSUME NEW c \in Calls, HangUp(c)
      PROVE  FreshPrompt'
  BY <1>6, <1>0 DEF HangUp
<1>7. ASSUME NEW c \in Calls, Registered(c)
      PROVE  FreshPrompt'
  BY <1>7 DEF Registered
<1>8. ASSUME NEW c \in Calls, NotRegistered(c)
      PROVE  FreshPrompt'
  BY <1>8 DEF NotRegistered
<1>9. ASSUME NEW r \in Requests, Repeat(r)
      PROVE  FreshPrompt'
  BY <1>9 DEF Repeat
<1>10. ASSUME NEW c \in Calls, NEW u \in Utterances, OnTranscript(c, u)
      PROVE  FreshPrompt'
  BY <1>10 DEF OnTranscript
<1>11. ASSUME NEW c \in Calls, NEW u \in Utterances, PostTranscript(c, u)
      PROVE  FreshPrompt'
  BY <1>11 DEF PostTranscript
<1>12. ASSUME NEW c \in Calls, NEW u \in Utterances, TranscriptPosted(c, u)
      PROVE  FreshPrompt'
  BY <1>12 DEF TranscriptPosted
<1>13. ASSUME NEW c \in Calls, NEW u \in Utterances, TranscriptLost(c, u)
      PROVE  FreshPrompt'
  BY <1>13 DEF TranscriptLost
<1>14. ASSUME NEW c \in Calls, OnCallEnd(c)
      PROVE  FreshPrompt'
  BY <1>14 DEF OnCallEnd
<1>15. ASSUME NEW c \in Calls, Complete(c)
      PROVE  FreshPrompt'
  BY <1>15 DEF Complete
<1>16. ASSUME NEW c \in Calls, Completed(c)
      PROVE  FreshPrompt'
  BY <1>16 DEF Completed
<1>17. ASSUME NEW c \in Calls, NotCompleted(c)
      PROVE  FreshPrompt'
  BY <1>17 DEF NotCompleted
<1>18. CASE Edit /\ UNCHANGED gwVars
  BY <1>18 DEF Edit
<1>19. ASSUME NEW r \in Requests, FindSessionOrTenant(r) /\ UNCHANGED gwVars
      PROVE  FreshPrompt'
  BY <1>19 DEF FindSessionOrTenant
<1>20. ASSUME NEW r \in Requests, CreateSession(r) /\ UNCHANGED gwVars
      PROVE  FreshPrompt'
  BY <1>20 DEF CreateSession
<1>21. ASSUME NEW c \in Calls, NEW u \in Utterances, AppendTranscript(c, u) /\ UNCHANGED gwVars
      PROVE  FreshPrompt'
  BY <1>21 DEF AppendTranscript
<1>22. ASSUME NEW c \in Calls, CompleteCall(c) /\ UNCHANGED gwVars
      PROVE  FreshPrompt'
  BY <1>22 DEF CompleteCall
<1>23. CASE UNCHANGED vars
  BY <1>23 DEF vars
<1>. QED
  BY <1>1, <1>2, <1>3, <1>4, <1>5, <1>6, <1>7, <1>8, <1>9, <1>10, <1>11, <1>12,
     <1>13, <1>14, <1>15, <1>16, <1>17, <1>18, <1>19, <1>20, <1>21, <1>22, <1>23
     DEF Next, Api, Handlers


-----------------------------------------------------------------------------
(* What the handlers of a call hold of its session.                          *)

LEMMA NextSessionHeld ==
  ASSUME TypeOK, LineInv, OneSession, SessionHeld, [Next]_vars
  PROVE  SessionHeld'
<1>. USE DEF SessionHeld, SessionsOf, apiVars, tables, bookVars, callVars, histVars, gwVars
<1>0. /\ start \in [Calls -> {"idle", "refreshing", "done"}]
      /\ task \in [Calls -> {"none", "running", "done"}]
      /\ ending \in [Calls -> {"idle", "joining", "completing", "done"}]
      /\ say \in [Calls \X Utterances -> {"unsaid", "joining", "posting", "done"}]
      /\ ingestId \in [Calls -> Requests \cup {None}]
      /\ append \in [Calls \X Utterances -> Job] /\ finish \in [Calls -> Job]
  BY DEF TypeOK, ApiTypeOK
<1>r. sessions \subseteq sessions' /\ transcripts \subseteq transcripts' /\ completed \subseteq completed'
  BY RowsStay DEF RowsKept
<1>1. ASSUME NEW c \in Calls, Ring(c)
      PROVE  SessionHeld'
  BY <1>1 DEF Ring, Ask, LineInv
<1>2. ASSUME NEW k \in Calls \X Reasons, ResolveTenant(k)
      PROVE  SessionHeld'
  BY <1>2 DEF ResolveTenant
<1>3. ASSUME NEW c \in Calls, PostCallRefresh(c)
      PROVE  SessionHeld'
  BY <1>3 DEF PostCallRefresh
<1>4. ASSUME NEW c \in Calls, OnCallStart(c)
      PROVE  SessionHeld'
  BY <1>4, <1>0 DEF OnCallStart
<1>5. ASSUME NEW c \in Calls, SessionStart(c)
      PROVE  SessionHeld'
  BY <1>5 DEF SessionStart
<1>6. ASSUME NEW c \in Calls, HangUp(c)
      PROVE  SessionHeld'
  BY <1>6 DEF HangUp
<1>7. ASSUME NEW c \in Calls, Registered(c)
      PROVE  SessionHeld'
  <2>1. /\ \E s \in sessions : s.call = c /\ s.id = post[<<c, 1>>].id
        /\ ingestId'[c] = post[<<c, 1>>].id /\ task'[c] = "done" /\ start[c] = "done"
        /\ \A d \in Calls : d # c => ingestId'[d] = ingestId[d] /\ task'[d] = task[d]
    <3>1. post[<<c, 1>>].at = "ok" /\ <<c, 1>> \in Requests /\ <<c, 1>>[1] = c
      BY <1>7, Ids DEF Registered
    <3>2. \E s \in SessionsOf(c) : s.id = post[<<c, 1>>].id
      BY <3>1 DEF OneSession
    <3>. QED  BY <1>7, <1>0, <3>2 DEF Registered
  <2>2. UNCHANGED <<start, failed>>
    BY <1>7 DEF Registered
  <2>. QED  BY <1>r, <2>1, <2>2
<1>8. ASSUME NEW c \in Calls, NotRegistered(c)
      PROVE  SessionHeld'
  BY <1>8 DEF NotRegistered
<1>9. ASSUME NEW r \in Requests, Repeat(r)
      PROVE  SessionHeld'
  BY <1>9 DEF Repeat
<1>10. ASSUME NEW c \in Calls, NEW u \in Utterances, OnTranscript(c, u)
      PROVE  SessionHeld'
  BY <1>10 DEF OnTranscript
<1>11. ASSUME NEW c \in Calls, NEW u \in Utterances, PostTranscript(c, u)
      PROVE  SessionHeld'
  BY <1>11 DEF PostTranscript
<1>12. ASSUME NEW c \in Calls, NEW u \in Utterances, TranscriptPosted(c, u)
      PROVE  SessionHeld'
  BY <1>12 DEF TranscriptPosted
<1>13. ASSUME NEW c \in Calls, NEW u \in Utterances, TranscriptLost(c, u)
      PROVE  SessionHeld'
  BY <1>13 DEF TranscriptLost
<1>14. ASSUME NEW c \in Calls, OnCallEnd(c)
      PROVE  SessionHeld'
  BY <1>14 DEF OnCallEnd
<1>15. ASSUME NEW c \in Calls, Complete(c)
      PROVE  SessionHeld'
  BY <1>15 DEF Complete
<1>16. ASSUME NEW c \in Calls, Completed(c)
      PROVE  SessionHeld'
  BY <1>16 DEF Completed
<1>17. ASSUME NEW c \in Calls, NotCompleted(c)
      PROVE  SessionHeld'
  BY <1>17 DEF NotCompleted
<1>18. CASE Edit /\ UNCHANGED gwVars
  BY <1>18 DEF Edit
<1>19. ASSUME NEW r \in Requests, FindSessionOrTenant(r) /\ UNCHANGED gwVars
      PROVE  SessionHeld'
  BY <1>19 DEF FindSessionOrTenant
<1>20. ASSUME NEW r \in Requests, CreateSession(r) /\ UNCHANGED gwVars
      PROVE  SessionHeld'
  BY <1>20 DEF CreateSession
<1>21. ASSUME NEW c \in Calls, NEW u \in Utterances, AppendTranscript(c, u) /\ UNCHANGED gwVars
      PROVE  SessionHeld'
  BY <1>21 DEF AppendTranscript
<1>22. ASSUME NEW c \in Calls, CompleteCall(c) /\ UNCHANGED gwVars
      PROVE  SessionHeld'
  BY <1>22 DEF CompleteCall
<1>23. CASE UNCHANGED vars
  BY <1>23 DEF vars
<1>. QED
  BY <1>1, <1>2, <1>3, <1>4, <1>5, <1>6, <1>7, <1>8, <1>9, <1>10, <1>11, <1>12,
     <1>13, <1>14, <1>15, <1>16, <1>17, <1>18, <1>19, <1>20, <1>21, <1>22, <1>23
     DEF Next, Api, Handlers


\* A registration that left no id was lost.
LEMMA NoIngestId ==
  ASSUME TypeOK, SessionHeld, NEW c \in Calls, task[c] = "done", ingestId[c] = None
  PROVE  c \in failed
<1>1. \A s \in sessions : s.id \in Requests
  BY DEF TypeOK, ApiTypeOK, Row
<1>. QED  BY <1>1, Ids DEF SessionHeld, SessionsOf


\* An update of one utterance leaves the others alone.
LEMMA SayUpdates ==
  ASSUME NEW c \in Calls, NEW u \in Utterances, NEW st \in {"joining", "posting", "done"},
         \A q \in Calls \X Utterances : say'[q] = IF q = <<c, u>> THEN st ELSE say[q]
  PROVE  \A d \in Calls, v \in Utterances :
           say'[<<d, v>>] = say[<<d, v>>] \/ (say'[<<d, v>>] = st /\ d = c /\ v = u)
<1>3. ASSUME NEW d \in Calls, NEW v \in Utterances
      PROVE  say'[<<d, v>>] = say[<<d, v>>] \/ (say'[<<d, v>>] = st /\ d = c /\ v = u)
  <2>1. CASE <<d, v>> = <<c, u>>
    <3>1. d = c /\ v = u
      BY <2>1
    <3>. QED  BY <3>1
  <2>2. CASE <<d, v>> # <<c, u>>
    <3>1. <<d, v>> \in Calls \X Utterances
      OBVIOUS
    <3>. QED  BY <2>2, <3>1
  <2>. QED  BY <2>1, <2>2
<1>. QED  BY <1>3

LEMMA NextEndHeld ==
  ASSUME TypeOK, LineInv, AnswersInv, SessionHeld, EndHeld, [Next]_vars
  PROVE  EndHeld'
<1>. USE DEF EndHeld, apiVars, tables, bookVars, callVars, histVars, gwVars
<1>0. /\ start \in [Calls -> {"idle", "refreshing", "done"}]
      /\ task \in [Calls -> {"none", "running", "done"}]
      /\ ending \in [Calls -> {"idle", "joining", "completing", "done"}]
      /\ say \in [Calls \X Utterances -> {"unsaid", "joining", "posting", "done"}]
      /\ ingestId \in [Calls -> Requests \cup {None}]
      /\ append \in [Calls \X Utterances -> Job] /\ finish \in [Calls -> Job]
  BY DEF TypeOK, ApiTypeOK
<1>r. sessions \subseteq sessions' /\ transcripts \subseteq transcripts' /\ completed \subseteq completed'
  BY RowsStay DEF RowsKept
<1>1. ASSUME NEW c \in Calls, Ring(c)
      PROVE  EndHeld'
  BY <1>1 DEF Ring
<1>2. ASSUME NEW k \in Calls \X Reasons, ResolveTenant(k)
      PROVE  EndHeld'
  BY <1>2 DEF ResolveTenant
<1>3. ASSUME NEW c \in Calls, PostCallRefresh(c)
      PROVE  EndHeld'
  BY <1>3 DEF PostCallRefresh
<1>4. ASSUME NEW c \in Calls, OnCallStart(c)
      PROVE  EndHeld'
  <2>1. task[c] # "done" /\ UNCHANGED <<ending, finish, early, completed>>
    BY <1>4 DEF OnCallStart, SessionHeld
  <2>2. /\ \A d \in Calls : d # c => task'[d] = task[d] /\ ingestId'[d] = ingestId[d]
        /\ failed \subseteq failed'
    BY <1>4 DEF OnCallStart
  <2>3. ending[c] # "completing" /\ (ending[c] = "done" => c \in failed \cup early)
    BY <2>1
  <2>. QED  BY <2>1, <2>2, <2>3
<1>5. ASSUME NEW c \in Calls, SessionStart(c)
      PROVE  EndHeld'
  BY <1>5 DEF SessionStart
<1>6. ASSUME NEW c \in Calls, HangUp(c)
      PROVE  EndHeld'
  BY <1>6 DEF HangUp
<1>7. ASSUME NEW c \in Calls, Registered(c)
      PROVE  EndHeld'
  <2>1. task[c] # "done" /\ UNCHANGED <<ending, finish, early, completed>>
    BY <1>7 DEF Registered
  <2>2. /\ \A d \in Calls : d # c => task'[d] = task[d] /\ ingestId'[d] = ingestId[d]
        /\ failed \subseteq failed'
    BY <1>7 DEF Registered
  <2>3. ending[c] # "completing" /\ (ending[c] = "done" => c \in failed \cup early)
    BY <2>1
  <2>. QED  BY <2>1, <2>2, <2>3
<1>8. ASSUME NEW c \in Calls, NotRegistered(c)
      PROVE  EndHeld'
  <2>1. task[c] # "done" /\ UNCHANGED <<ending, finish, early, completed>>
    BY <1>8 DEF NotRegistered
  <2>2. /\ \A d \in Calls : d # c => task'[d] = task[d] /\ ingestId'[d] = ingestId[d]
        /\ failed \subseteq failed'
    BY <1>8 DEF NotRegistered
  <2>3. ending[c] # "completing" /\ (ending[c] = "done" => c \in failed \cup early)
    BY <2>1
  <2>. QED  BY <2>1, <2>2, <2>3
<1>9. ASSUME NEW r \in Requests, Repeat(r)
      PROVE  EndHeld'
  BY <1>9 DEF Repeat
<1>10. ASSUME NEW c \in Calls, NEW u \in Utterances, OnTranscript(c, u)
      PROVE  EndHeld'
  BY <1>10 DEF OnTranscript
<1>11. ASSUME NEW c \in Calls, NEW u \in Utterances, PostTranscript(c, u)
      PROVE  EndHeld'
  BY <1>11 DEF PostTranscript
<1>12. ASSUME NEW c \in Calls, NEW u \in Utterances, TranscriptPosted(c, u)
      PROVE  EndHeld'
  BY <1>12 DEF TranscriptPosted
<1>13. ASSUME NEW c \in Calls, NEW u \in Utterances, TranscriptLost(c, u)
      PROVE  EndHeld'
  BY <1>13 DEF TranscriptLost
<1>14. ASSUME NEW c \in Calls, OnCallEnd(c)
      PROVE  EndHeld'
  <2>1. c \notin known => start[c] = "refreshing"
    BY <1>14, <1>0 DEF OnCallEnd, LineInv
  <2>2. \/ ending' = [ending EXCEPT ![c] = "joining"]
        \/ ending' = [ending EXCEPT ![c] = "done"] /\ c \in early'
    BY <1>14, <2>1 DEF OnCallEnd
  <2>3. early \subseteq early' /\ UNCHANGED <<finish, task, failed, ingestId, completed>>
    BY <1>14 DEF OnCallEnd
  <2>. QED  BY <1>0, <2>2, <2>3
<1>15. ASSUME NEW c \in Calls, Complete(c)
      PROVE  EndHeld'
  <2>1. CASE ingestId[c] = None
    <3>1. c \in failed
      BY <1>15, <2>1, NoIngestId DEF Complete
    <3>2. /\ ending' = [ending EXCEPT ![c] = "done"]
          /\ UNCHANGED <<finish, task, failed, early, ingestId, completed>>
      BY <1>15, <2>1 DEF Complete
    <3>. QED  BY <1>0, <3>1, <3>2
  <2>2. CASE ingestId[c] # None
    <3>1. /\ ending' = [ending EXCEPT ![c] = "completing"]
          /\ finish' = [finish EXCEPT ![c] = [at |-> "sent", session |-> ingestId[c]]]
          /\ task[c] = "done" /\ UNCHANGED <<task, failed, early, ingestId, completed>>
      BY <1>15, <2>2 DEF Complete
    <3>2. finish'[c].session = ingestId[c] /\ \A d \in Calls : d # c => finish'[d] = finish[d]
      BY <1>0, <3>1
    <3>. QED  BY <1>0, <3>1, <3>2
  <2>. QED  BY <2>1, <2>2
<1>16. ASSUME NEW c \in Calls, Completed(c)
      PROVE  EndHeld'
  <2>1. finish[c].session \in completed /\ finish[c].session = ingestId[c] /\ task[c] = "done"
    BY <1>16 DEF Completed, AnswersInv
  <2>. QED  BY <1>16, <1>0, <2>1 DEF Completed
<1>17. ASSUME NEW c \in Calls, NotCompleted(c)
      PROVE  EndHeld'
  BY <1>17 DEF NotCompleted
<1>18. CASE Edit /\ UNCHANGED gwVars
  BY <1>18 DEF Edit
<1>19. ASSUME NEW r \in Requests, FindSessionOrTenant(r) /\ UNCHANGED gwVars
      PROVE  EndHeld'
  BY <1>19 DEF FindSessionOrTenant
<1>20. ASSUME NEW r \in Requests, CreateSession(r) /\ UNCHANGED gwVars
      PROVE  EndHeld'
  BY <1>20 DEF CreateSession
<1>21. ASSUME NEW c \in Calls, NEW u \in Utterances, AppendTranscript(c, u) /\ UNCHANGED gwVars
      PROVE  EndHeld'
  BY <1>21 DEF AppendTranscript
<1>22. ASSUME NEW c \in Calls, CompleteCall(c) /\ UNCHANGED gwVars
      PROVE  EndHeld'
  <2>1. finish'[c].session = finish[c].session /\ \A d \in Calls : d # c => finish'[d] = finish[d]
    <3>1. finish' = [finish EXCEPT ![c] = Served(finish[c])] /\ finish[c] \in Job
      BY <1>22, <1>0 DEF CompleteCall
    <3>. QED  BY <1>0, <3>1, ServedIsJob
  <2>. QED  BY <1>22, <1>r, <2>1 DEF CompleteCall
<1>23. CASE UNCHANGED vars
  BY <1>23 DEF vars
<1>. QED
  BY <1>1, <1>2, <1>3, <1>4, <1>5, <1>6, <1>7, <1>8, <1>9, <1>10, <1>11, <1>12,
     <1>13, <1>14, <1>15, <1>16, <1>17, <1>18, <1>19, <1>20, <1>21, <1>22, <1>23
     DEF Next, Api, Handlers


LEMMA NextSayHeld ==
  ASSUME TypeOK, LineInv, AnswersInv, SessionHeld, SayHeld, [Next]_vars
  PROVE  SayHeld'
<1>. USE DEF SayHeld, apiVars, tables, bookVars, callVars, histVars, gwVars
<1>0. /\ start \in [Calls -> {"idle", "refreshing", "done"}]
      /\ task \in [Calls -> {"none", "running", "done"}]
      /\ ending \in [Calls -> {"idle", "joining", "completing", "done"}]
      /\ say \in [Calls \X Utterances -> {"unsaid", "joining", "posting", "done"}]
      /\ ingestId \in [Calls -> Requests \cup {None}]
      /\ append \in [Calls \X Utterances -> Job] /\ finish \in [Calls -> Job]
  BY DEF TypeOK, ApiTypeOK
<1>r. sessions \subseteq sessions' /\ transcripts \subseteq transcripts' /\ completed \subseteq completed'
  BY RowsStay DEF RowsKept
<1>1. ASSUME NEW c \in Calls, Ring(c)
      PROVE  SayHeld'
  BY <1>1 DEF Ring
<1>2. ASSUME NEW k \in Calls \X Reasons, ResolveTenant(k)
      PROVE  SayHeld'
  BY <1>2 DEF ResolveTenant
<1>3. ASSUME NEW c \in Calls, PostCallRefresh(c)
      PROVE  SayHeld'
  BY <1>3 DEF PostCallRefresh
<1>4. ASSUME NEW c \in Calls, OnCallStart(c)
      PROVE  SayHeld'
  <2>1. task[c] # "done" /\ UNCHANGED <<say, append, transcripts>>
    BY <1>4 DEF OnCallStart, SessionHeld
  <2>2. /\ \A d \in Calls : d # c => task'[d] = task[d] /\ ingestId'[d] = ingestId[d]
        /\ failed \subseteq failed'
    BY <1>4 DEF OnCallStart
  <2>3. \A u \in Utterances : say[<<c, u>>] # "posting" /\ (say[<<c, u>>] = "done" => c \in failed)
    BY <2>1
  <2>. QED  BY <2>1, <2>2, <2>3
<1>5. ASSUME NEW c \in Calls, SessionStart(c)
      PROVE  SayHeld'
  BY <1>5 DEF SessionStart
<1>6. ASSUME NEW c \in Calls, HangUp(c)
      PROVE  SayHeld'
  BY <1>6 DEF HangUp
<1>7. ASSUME NEW c \in Calls, Registered(c)
      PROVE  SayHeld'
  <2>1. task[c] # "done" /\ UNCHANGED <<say, append, transcripts>>
    BY <1>7 DEF Registered
  <2>2. /\ \A d \in Calls : d # c => task'[d] = task[d] /\ ingestId'[d] = ingestId[d]
        /\ failed \subseteq failed'
    BY <1>7 DEF Registered
  <2>3. \A u \in Utterances : say[<<c, u>>] # "posting" /\ (say[<<c, u>>] = "done" => c \in failed)
    BY <2>1
  <2>. QED  BY <2>1, <2>2, <2>3
<1>8. ASSUME NEW c \in Calls, NotRegistered(c)
      PROVE  SayHeld'
  <2>1. task[c] # "done" /\ UNCHANGED <<say, append, transcripts>>
    BY <1>8 DEF NotRegistered
  <2>2. /\ \A d \in Calls : d # c => task'[d] = task[d] /\ ingestId'[d] = ingestId[d]
        /\ failed \subseteq failed'
    BY <1>8 DEF NotRegistered
  <2>3. \A u \in Utterances : say[<<c, u>>] # "posting" /\ (say[<<c, u>>] = "done" => c \in failed)
    BY <2>1
  <2>. QED  BY <2>1, <2>2, <2>3
<1>9. ASSUME NEW r \in Requests, Repeat(r)
      PROVE  SayHeld'
  BY <1>9 DEF Repeat
<1>10. ASSUME NEW c \in Calls, NEW u \in Utterances, OnTranscript(c, u)
      PROVE  SayHeld'
  <2>1. \A d \in Calls, v \in Utterances : say'[<<d, v>>] = say[<<d, v>>] \/ say'[<<d, v>>] = "joining"
    BY <1>10, <1>0 DEF OnTranscript
  <2>. QED  BY <1>10, <2>1 DEF OnTranscript
<1>11. ASSUME NEW c \in Calls, NEW u \in Utterances, PostTranscript(c, u)
      PROVE  SayHeld'
  <2>0. task[c] = "done" /\ UNCHANGED <<task, ingestId, transcripts, failed>>
    BY <1>11 DEF PostTranscript
  <2>1. CASE ingestId[c] = None
    <3>1. c \in failed
      BY <2>0, <2>1, NoIngestId
    <3>2. say' = [say EXCEPT ![<<c, u>>] = "done"] /\ append' = append
      BY <1>11, <2>1 DEF PostTranscript
    <3>3. \A d \in Calls, v \in Utterances :
            say'[<<d, v>>] = say[<<d, v>>] \/ (say'[<<d, v>>] = "done" /\ d = c /\ v = u)
      <4>1. \A q \in Calls \X Utterances : say'[q] = IF q = <<c, u>> THEN "done" ELSE say[q]
        BY <1>0, <3>2
      <4>. QED  BY <4>1, SayUpdates
    <3>4. ASSUME NEW d \in Calls, NEW v \in Utterances
          PROVE  /\ say'[<<d, v>>] = "posting" =>
                      task[d] = "done" /\ append[<<d, v>>].session = ingestId[d]
                 /\ say'[<<d, v>>] = "done" /\ d \notin failed =>
                      task[d] = "done" /\ <<ingestId[d], v>> \in transcripts
      <4>1. CASE say'[<<d, v>>] = say[<<d, v>>]
        BY <4>1
      <4>2. CASE say'[<<d, v>>] = "done" /\ d = c
        BY <3>1, <4>2
      <4>. QED  BY <3>3, <4>1, <4>2
    <3>. QED  BY <2>0, <3>2, <3>4
  <2>2. CASE ingestId[c] # None
    <3>1. /\ say' = [say EXCEPT ![<<c, u>>] = "posting"]
          /\ append' = [append EXCEPT ![<<c, u>>] = [at |-> "sent", session |-> ingestId[c]]]
      BY <1>11, <2>2 DEF PostTranscript
    <3>2. \A d \in Calls, v \in Utterances : <<d, v>> # <<c, u>> =>
            say'[<<d, v>>] = say[<<d, v>>] /\ append'[<<d, v>>] = append[<<d, v>>]
      BY <1>0, <3>1
    <3>3. say'[<<c, u>>] = "posting" /\ append'[<<c, u>>].session = ingestId[c]
      BY <1>0, <3>1
    <3>4. ASSUME NEW d \in Calls, NEW v \in Utterances
          PROVE  /\ say'[<<d, v>>] = "posting" =>
                      task[d] = "done" /\ append'[<<d, v>>].session = ingestId[d]
                 /\ say'[<<d, v>>] = "done" /\ d \notin failed =>
                      task[d] = "done" /\ <<ingestId[d], v>> \in transcripts
      <4>1. CASE <<d, v>> = <<c, u>>
        BY <2>0, <3>3, <4>1
      <4>2. CASE <<d, v>> # <<c, u>>
        BY <3>2, <4>2
      <4>. QED  BY <4>1, <4>2
    <3>. QED  BY <2>0, <3>4
  <2>. QED  BY <2>1, <2>2
<1>12. ASSUME NEW c \in Calls, NEW u \in Utterances, TranscriptPosted(c, u)
      PROVE  SayHeld'
  <2>1. task[c] = "done" /\ <<ingestId[c], u>> \in transcripts
    BY <1>12 DEF TranscriptPosted, AnswersInv
  <2>2. \A d \in Calls, v \in Utterances :
          say'[<<d, v>>] = say[<<d, v>>] \/ (say'[<<d, v>>] = "done" /\ d = c /\ v = u)
    <3>1. say' = [say EXCEPT ![<<c, u>>] = "done"]
      BY <1>12 DEF TranscriptPosted
    <3>2. \A q \in Calls \X Utterances : say'[q] = IF q = <<c, u>> THEN "done" ELSE say[q]
      BY <1>0, <3>1
    <3>. QED  BY <3>2, SayUpdates
  <2>3. UNCHANGED <<task, ingestId, append, transcripts, failed>>
    BY <1>12 DEF TranscriptPosted
  <2>. QED  BY <2>1, <2>2, <2>3
<1>13. ASSUME NEW c \in Calls, NEW u \in Utterances, TranscriptLost(c, u)
      PROVE  SayHeld'
  <2>1. \A d \in Calls, v \in Utterances :
          say'[<<d, v>>] = say[<<d, v>>] \/ (say'[<<d, v>>] = "done" /\ d = c /\ v = u)
    <3>1. say' = [say EXCEPT ![<<c, u>>] = "done"]
      BY <1>13 DEF TranscriptLost
    <3>2. \A q \in Calls \X Utterances : say'[q] = IF q = <<c, u>> THEN "done" ELSE say[q]
      BY <1>0, <3>1
    <3>. QED  BY <3>2, SayUpdates
  <2>2. UNCHANGED <<task, ingestId, append, transcripts>> /\ failed' = failed \cup {c}
    BY <1>13 DEF TranscriptLost
  <2>. QED  BY <2>1, <2>2
<1>14. ASSUME NEW c \in Calls, OnCallEnd(c)
      PROVE  SayHeld'
  BY <1>14 DEF OnCallEnd
<1>15. ASSUME NEW c \in Calls, Complete(c)
      PROVE  SayHeld'
  BY <1>15 DEF Complete
<1>16. ASSUME NEW c \in Calls, Completed(c)
      PROVE  SayHeld'
  BY <1>16 DEF Completed
<1>17. ASSUME NEW c \in Calls, NotCompleted(c)
      PROVE  SayHeld'
  BY <1>17 DEF NotCompleted
<1>18. CASE Edit /\ UNCHANGED gwVars
  BY <1>18 DEF Edit
<1>19. ASSUME NEW r \in Requests, FindSessionOrTenant(r) /\ UNCHANGED gwVars
      PROVE  SayHeld'
  BY <1>19 DEF FindSessionOrTenant
<1>20. ASSUME NEW r \in Requests, CreateSession(r) /\ UNCHANGED gwVars
      PROVE  SayHeld'
  BY <1>20 DEF CreateSession
<1>21. ASSUME NEW c \in Calls, NEW u \in Utterances, AppendTranscript(c, u) /\ UNCHANGED gwVars
      PROVE  SayHeld'
  <2>1. \A d \in Calls, v \in Utterances : append'[<<d, v>>].session = append[<<d, v>>].session
    <3>1. append' = [append EXCEPT ![<<c, u>>] = Served(append[<<c, u>>])] /\ append[<<c, u>>] \in Job
      BY <1>21, <1>0 DEF AppendTranscript
    <3>2. Served(append[<<c, u>>]).session = append[<<c, u>>].session
      BY <3>1, ServedIsJob
    <3>3. \A q \in Calls \X Utterances : append'[q] = IF q = <<c, u>> THEN Served(append[q]) ELSE append[q]
      BY <1>0, <3>1
    <3>. QED  BY <3>2, <3>3
  <2>. QED  BY <1>21, <1>r, <2>1 DEF AppendTranscript
<1>22. ASSUME NEW c \in Calls, CompleteCall(c) /\ UNCHANGED gwVars
      PROVE  SayHeld'
  BY <1>22 DEF CompleteCall
<1>23. CASE UNCHANGED vars
  BY <1>23 DEF vars
<1>. QED
  BY <1>1, <1>2, <1>3, <1>4, <1>5, <1>6, <1>7, <1>8, <1>9, <1>10, <1>11, <1>12,
     <1>13, <1>14, <1>15, <1>16, <1>17, <1>18, <1>19, <1>20, <1>21, <1>22, <1>23
     DEF Next, Api, Handlers

-----------------------------------------------------------------------------
(* The invariant and what follows from it.                                   *)

LEMMA InitIInv ==
  ASSUME Init
  PROVE  IInv
<1>. USE Ids DEF Init, ApiInit
<1>1. ApiTypeOK
  BY VersionAssumption, CopyAssumption DEF ApiTypeOK, Job, Stage
<1>2. TypeOK
  <2>1. ctx \in Version /\ prompt \in Version
    BY VersionAssumption DEF Version
  <2>2. /\ answered \in [Calls -> Version] /\ rang \in [Calls -> Version]
        /\ refresh \in [Calls \X Reasons -> [at : {"idle", "asked", "answered", "done"}, got : Version]]
    BY DEF Version
  <2>. QED  BY <1>1, <2>1, <2>2 DEF TypeOK
<1>3. OneSession
  BY DEF OneSession
<1>4. RequestsInv
  BY DEF RequestsInv
<1>5. AnswersInv
  BY DEF AnswersInv
<1>6. LineInv /\ CallsForgotten
  BY DEF LineInv, OnLine, CallsForgotten
<1>7. PromptInv /\ FreshPrompt
  BY DEF PromptInv, FreshPrompt
<1>8. SessionHeld /\ EndHeld /\ SayHeld /\ QuietInv
  BY DEF SessionHeld, EndHeld, SayHeld, QuietInv, Silent
<1>. QED  BY <1>2, <1>3, <1>4, <1>5, <1>6, <1>7, <1>8 DEF IInv

LEMMA NextIInv ==
  ASSUME IInv, [Next]_vars
  PROVE  IInv'
<1>. USE DEF IInv
<1>1. TypeOK' /\ OneSession' /\ RequestsInv' /\ AnswersInv'
  BY NextTypeOK, NextOneSession, NextRequests, NextAnswers
<1>2. LineInv' /\ CallsForgotten'
  BY NextLine, NextForgotten
<1>3. PromptInv' /\ FreshPrompt'
  BY NextPrompt, NextFresh
<1>4. SessionHeld' /\ EndHeld' /\ SayHeld' /\ QuietInv'
  BY NextSessionHeld, NextEndHeld, NextSayHeld, NextQuiet
<1>. QED  BY <1>1, <1>2, <1>3, <1>4

\* The invariant of the gateway and the ingest routes, for any calls, copies of a
\* registration, utterances and edits, whichever requests are lost or served late.
THEOREM Invariance == Spec => []IInv
  BY InitIInv, NextIInv, PTL DEF Spec

\* Calls that overlap in the gateway share its state and keep apart: one session each,
\* nothing left behind but by calls that ended during the refetch of their call_start
\* (early), and the lookups of a call under its own id unless it rang during the refetch
\* of an earlier one (overlapped).
THEOREM KeptApart == Spec => []CallsKeepApart
<1>1. IInv => CallsKeepApart
  BY DEF IInv, CallsKeepApart, LookupOfOwnCall, LookupHeaders, LineInv, OnLine
<1>. QED  BY <1>1, Invariance, PTL

\* A call whose refetch came back is answered with a configuration no older than the
\* one in force when it rang, whatever refreshes of other calls run meanwhile.
THEOREM PromptIsFresh == Spec => []FreshPrompt
<1>1. IInv => FreshPrompt
  BY DEF IInv
<1>. QED  BY <1>1, Invariance, PTL

\* A call that lost no request is closed in the database and holds all that was said;
\* only a call in which nothing was heard, because it ended during the refetch of its
\* call_start, may stay open.
THEOREM RecordIsComplete == Spec => []NothingLost
<1>1. ASSUME IInv
      PROVE  NothingLost
  <2>1. SUFFICES ASSUME NEW c \in Calls, Settled(c), c \notin failed
                 PROVE  RecordComplete(c) \/ (c \in early /\ Silent(c))
    BY DEF NothingLost
  <2>2. CASE c \in early
    BY <1>1, <2>1, <2>2 DEF IInv, QuietInv
  <2>3. CASE c \notin early
    <3>1. task[c] = "done" /\ ingestId[c] \in completed
      BY <1>1, <2>1, <2>3 DEF IInv, EndHeld, Settled
    <3>2. PICK s \in SessionsOf(c) : s.id = ingestId[c]
      BY <1>1, <2>1, <3>1 DEF IInv, SessionHeld
    <3>3. \A u \in Utterances : say[<<c, u>>] = "done" => <<ingestId[c], u>> \in transcripts
      BY <1>1, <2>1 DEF IInv, SayHeld
    <3>. QED  BY <3>1, <3>2, <3>3 DEF RecordComplete
  <2>. QED  BY <2>2, <2>3
<1>. QED  BY <1>1, Invariance, PTL

-----------------------------------------------------------------------------
(* The tables implement CallRecord.                                          *)

\* With one session per call, the owner is that session's tenant.
LEMMA OnlyRow ==
  ASSUME NEW S, NEW s \in S, \A t \in S : t = s
  PROVE  (CHOOSE t \in S : TRUE) = s
<1>1. (CHOOSE t \in S : TRUE) \in S
  OBVIOUS
<1>. QED  BY <1>1

LEMMA OwnerOfRow ==
  ASSUME TypeOK, OneSession, NEW s \in sessions
  PROVE  s.call \in Calls /\ Owner(s.call) = s.tenant /\ s.tenant \in Tenants /\ Owner(s.call) # None
<1>1. s.call \in Calls /\ s.tenant \in Tenants /\ s.tenant # None
  BY NoneAssumption DEF TypeOK, ApiTypeOK, Row
<1>2. s \in SessionsOf(s.call) /\ \A t \in SessionsOf(s.call) : t = s
  BY DEF SessionsOf, OneSession
<1>3. (CHOOSE t \in SessionsOf(s.call) : TRUE) = s
  BY <1>2, OnlyRow
<1>. QED  BY <1>1, <1>2, <1>3 DEF Owner

RecordVars == <<[c \in Calls |-> Owner(c)], [c \in Calls |-> Stored(c)], Closed>>

\* A line, a completion and a new row change the record of their own call alone.
LEMMA AppendRefines ==
  ASSUME IInv, NEW c \in Calls, NEW u \in Utterances, AppendTranscript(c, u)
  PROVE  Record!Next \/ UNCHANGED RecordVars
<1> DEFINE id == append[<<c, u>>].session
<1>1. UNCHANGED <<sessions, completed>>
  BY DEF AppendTranscript
<1>2. /\ \A d \in Calls : SessionsOf(d)' = SessionsOf(d) /\ Owner(d)' = Owner(d)
      /\ Closed' = Closed
  BY <1>1 DEF SessionsOf, Owner, Closed
<1>3. CASE ~ Exists(id)
  <2>1. transcripts' = transcripts
    BY <1>3 DEF AppendTranscript
  <2>2. \A d \in Calls : Stored(d)' = Stored(d)
    BY <1>2, <2>1 DEF Stored
  <2>. QED  BY <1>2, <2>2 DEF RecordVars
<1>4. CASE Exists(id)
  <2>1. transcripts' = transcripts \cup {<<id, u>>}
    BY <1>4 DEF AppendTranscript
  <2>2. PICK s \in sessions : s.id = id
    BY <1>4 DEF Exists
  <2> HIDE DEF id
  <2>3. s.call \in Calls /\ Owner(s.call) # None /\ s \in SessionsOf(s.call)
    BY OwnerOfRow DEF IInv, SessionsOf
  <2>4. \A t \in sessions : t.id = id => t.call = s.call
    BY <2>2 DEF IInv, RequestsInv
  <2>5. \A d \in Calls : Stored(d)' = IF d = s.call THEN Stored(d) \cup {u} ELSE Stored(d)
    <3>1. TAKE d \in Calls
    <3>2. CASE d = s.call
      BY <1>2, <2>1, <2>2, <2>3, <3>2 DEF Stored
    <3>3. CASE d # s.call
      <4>1. \A t \in SessionsOf(d) : t.id # id
        BY <2>4, <3>3 DEF SessionsOf
      <4>. QED  BY <1>2, <2>1, <3>3, <4>1 DEF Stored
    <3>. QED  BY <3>2, <3>3
  <2>6. Record!Append(s.call, u)
    BY <1>2, <2>3, <2>5 DEF Record!Append
  <2>. QED  BY <2>3, <2>6 DEF Record!Next
<1>. QED  BY <1>3, <1>4

LEMMA CompleteRefines ==
  ASSUME IInv, NEW c \in Calls, CompleteCall(c)
  PROVE  Record!Next \/ UNCHANGED RecordVars
<1> DEFINE id == finish[c].session
<1>1. UNCHANGED <<sessions, transcripts>>
  BY DEF CompleteCall
<1>2. \A d \in Calls : SessionsOf(d)' = SessionsOf(d) /\ Owner(d)' = Owner(d) /\ Stored(d)' = Stored(d)
  BY <1>1 DEF SessionsOf, Owner, Stored
<1>3. CASE ~ Exists(id)
  <2>1. completed' = completed
    BY <1>3 DEF CompleteCall
  <2>2. Closed' = Closed
    BY <1>2, <2>1 DEF Closed
  <2>. QED  BY <1>2, <2>2 DEF RecordVars
<1>4. CASE Exists(id)
  <2>1. completed' = completed \cup {id}
    BY <1>4 DEF CompleteCall
  <2>2. PICK s \in sessions : s.id = id
    BY <1>4 DEF Exists
  <2> HIDE DEF id
  <2>3. s.call \in Calls /\ Owner(s.call) # None /\ s \in SessionsOf(s.call)
    BY OwnerOfRow DEF IInv, SessionsOf
  <2>4. \A t \in sessions : t.id = id => t.call = s.call
    BY <2>2 DEF IInv, RequestsInv
  <2>5. Closed' = Closed \cup {s.call}
    BY <1>2, <2>1, <2>2, <2>3, <2>4 DEF Closed, SessionsOf
  <2>6. CASE s.call \in Closed
    BY <1>2, <2>5, <2>6 DEF RecordVars
  <2>7. CASE s.call \notin Closed
    <3>1. Record!Close(s.call)
      BY <1>2, <2>3, <2>5, <2>7 DEF Record!Close
    <3>. QED  BY <2>3, <3>1 DEF Record!Next
  <2>. QED  BY <2>6, <2>7
<1>. QED  BY <1>3, <1>4

LEMMA CreateRefines ==
  ASSUME IInv, NEW r \in Requests, CreateSession(r)
  PROVE  Record!Next \/ UNCHANGED RecordVars
<1>1. UNCHANGED <<transcripts, completed>>
  BY DEF CreateSession
<1>2. CASE SessionsOf(r[1]) # {}
  <2>1. UNCHANGED <<sessions, transcripts, completed>>
    BY <1>1, <1>2 DEF CreateSession
  <2>. QED  BY <2>1 DEF RecordVars, Owner, Stored, Closed, SessionsOf
<1>3. CASE SessionsOf(r[1]) = {}
  <2> DEFINE new == [id |-> r, call |-> r[1], tenant |-> post[r].tenant]
  <2>1. sessions' = sessions \cup {new}
    BY <1>3 DEF CreateSession
  <2>2. new.id = r /\ new.call = r[1] /\ r[1] \in Calls
    BY Ids
  <2>3. new.tenant \in Tenants
    BY DEF IInv, TypeOK, ApiTypeOK, RequestsInv, CreateSession
  <2> HIDE DEF new
  <2>4. \A d \in Calls : SessionsOf(d)' = IF d = r[1] THEN {new} ELSE SessionsOf(d)
    BY <1>3, <2>1, <2>2 DEF SessionsOf
  <2>5. ~ Exists(r)
    BY <1>3, <2>2 DEF IInv, RequestsInv, Exists, SessionsOf
  <2>6. r \notin completed /\ \A u \in Utterances : <<r, u>> \notin transcripts
    BY <2>5 DEF IInv, AnswersInv
  <2>7. \A d \in Calls : Owner(d)' = IF d = r[1] THEN new.tenant ELSE Owner(d)
    <3>1. (CHOOSE s \in {new} : TRUE) = new
      BY OnlyRow
    <3>2. SessionsOf(r[1])' = {new} /\ \A d \in Calls : d # r[1] => SessionsOf(d)' = SessionsOf(d)
      BY <2>2, <2>4
    <3>3. Owner(r[1])' = new.tenant
      BY <3>1, <3>2 DEF Owner
    <3>4. ASSUME NEW d \in Calls, d # r[1]
          PROVE  Owner(d)' = Owner(d)
      <4>1. SessionsOf(d)' = SessionsOf(d)
        BY <3>2, <3>4
      <4>2. CASE SessionsOf(d) = {}
        BY <4>1, <4>2 DEF Owner
      <4>3. ASSUME NEW s \in SessionsOf(d)
            PROVE  Owner(d)' = Owner(d)
        <5>1. \A t \in SessionsOf(d) : t = s
          BY DEF IInv, OneSession, SessionsOf
        <5>2. (CHOOSE t \in SessionsOf(d) : TRUE) = s
          BY <5>1, OnlyRow
        <5>3. (CHOOSE t \in SessionsOf(d)' : TRUE) = s
          BY <4>1, <5>1, OnlyRow
        <5>. QED  BY <4>1, <5>2, <5>3 DEF Owner
      <4>. QED  BY <4>2, <4>3
    <3>. QED  BY <3>3, <3>4
  <2>8. \A d \in Calls : Stored(d)' = Stored(d)
    <3>1. Stored(r[1]) = {} /\ Stored(r[1])' = {}
      BY <1>1, <1>3, <2>2, <2>4, <2>6 DEF Stored
    <3>2. \A d \in Calls : d # r[1] => Stored(d)' = Stored(d)
      BY <1>1, <2>4 DEF Stored
    <3>. QED  BY <3>1, <3>2
  <2>9. Closed' = Closed
    <3>1. \A d \in Calls : (\E s \in SessionsOf(d)' : s.id \in completed')
                            <=> (\E s \in SessionsOf(d) : s.id \in completed)
      BY <1>1, <1>3, <2>2, <2>4, <2>6
    <3>. QED  BY <3>1 DEF Closed
  <2>10. Owner(r[1]) = None
    BY <1>3 DEF Owner
  <2>11. Record!Open(r[1], new.tenant)
    BY <2>2, <2>7, <2>8, <2>9, <2>10 DEF Record!Open
  <2>. QED  BY <2>2, <2>3, <2>11 DEF Record!Next
<1>. QED  BY <1>2, <1>3


LEMMA NextRefines ==
  ASSUME IInv, [Next]_vars
  PROVE  Record!Next \/ UNCHANGED RecordVars
<1>0. UNCHANGED tables => UNCHANGED RecordVars
  BY DEF tables, RecordVars, Owner, Stored, Closed, SessionsOf
<1>. USE DEF apiVars, tables, bookVars, callVars, histVars, gwVars
<1>1. ASSUME NEW c \in Calls, Ring(c)
      PROVE  Record!Next \/ UNCHANGED RecordVars
  BY <1>1, <1>0 DEF Ring
<1>2. ASSUME NEW k \in Calls \X Reasons, ResolveTenant(k)
      PROVE  Record!Next \/ UNCHANGED RecordVars
  BY <1>2, <1>0 DEF ResolveTenant
<1>3. ASSUME NEW c \in Calls, PostCallRefresh(c)
      PROVE  Record!Next \/ UNCHANGED RecordVars
  BY <1>3, <1>0 DEF PostCallRefresh
<1>4. ASSUME NEW c \in Calls, OnCallStart(c)
      PROVE  Record!Next \/ UNCHANGED RecordVars
  BY <1>4, <1>0 DEF OnCallStart
<1>5. ASSUME NEW c \in Calls, SessionStart(c)
      PROVE  Record!Next \/ UNCHANGED RecordVars
  BY <1>5, <1>0 DEF SessionStart
<1>6. ASSUME NEW c \in Calls, HangUp(c)
      PROVE  Record!Next \/ UNCHANGED RecordVars
  BY <1>6, <1>0 DEF HangUp
<1>7. ASSUME NEW c \in Calls, Registered(c)
      PROVE  Record!Next \/ UNCHANGED RecordVars
  BY <1>7, <1>0 DEF Registered
<1>8. ASSUME NEW c \in Calls, NotRegistered(c)
      PROVE  Record!Next \/ UNCHANGED RecordVars
  BY <1>8, <1>0 DEF NotRegistered
<1>9. ASSUME NEW r \in Requests, Repeat(r)
      PROVE  Record!Next \/ UNCHANGED RecordVars
  BY <1>9, <1>0 DEF Repeat
<1>10. ASSUME NEW c \in Calls, NEW u \in Utterances, OnTranscript(c, u)
      PROVE  Record!Next \/ UNCHANGED RecordVars
  BY <1>10, <1>0 DEF OnTranscript
<1>11. ASSUME NEW c \in Calls, NEW u \in Utterances, PostTranscript(c, u)
      PROVE  Record!Next \/ UNCHANGED RecordVars
  BY <1>11, <1>0 DEF PostTranscript
<1>12. ASSUME NEW c \in Calls, NEW u \in Utterances, TranscriptPosted(c, u)
      PROVE  Record!Next \/ UNCHANGED RecordVars
  BY <1>12, <1>0 DEF TranscriptPosted
<1>13. ASSUME NEW c \in Calls, NEW u \in Utterances, TranscriptLost(c, u)
      PROVE  Record!Next \/ UNCHANGED RecordVars
  BY <1>13, <1>0 DEF TranscriptLost
<1>14. ASSUME NEW c \in Calls, OnCallEnd(c)
      PROVE  Record!Next \/ UNCHANGED RecordVars
  BY <1>14, <1>0 DEF OnCallEnd
<1>15. ASSUME NEW c \in Calls, Complete(c)
      PROVE  Record!Next \/ UNCHANGED RecordVars
  BY <1>15, <1>0 DEF Complete
<1>16. ASSUME NEW c \in Calls, Completed(c)
      PROVE  Record!Next \/ UNCHANGED RecordVars
  BY <1>16, <1>0 DEF Completed
<1>17. ASSUME NEW c \in Calls, NotCompleted(c)
      PROVE  Record!Next \/ UNCHANGED RecordVars
  BY <1>17, <1>0 DEF NotCompleted
<1>18. CASE Edit /\ UNCHANGED gwVars
  BY <1>18, <1>0 DEF Edit
<1>19. ASSUME NEW r \in Requests, FindSessionOrTenant(r) /\ UNCHANGED gwVars
      PROVE  Record!Next \/ UNCHANGED RecordVars
  BY <1>19, <1>0 DEF FindSessionOrTenant
<1>20. ASSUME NEW r \in Requests, CreateSession(r) /\ UNCHANGED gwVars
      PROVE  Record!Next \/ UNCHANGED RecordVars
  BY <1>20, CreateRefines
<1>21. ASSUME NEW c \in Calls, NEW u \in Utterances, AppendTranscript(c, u) /\ UNCHANGED gwVars
      PROVE  Record!Next \/ UNCHANGED RecordVars
  BY <1>21, AppendRefines
<1>22. ASSUME NEW c \in Calls, CompleteCall(c) /\ UNCHANGED gwVars
      PROVE  Record!Next \/ UNCHANGED RecordVars
  BY <1>22, CompleteRefines
<1>23. CASE UNCHANGED vars
  BY <1>23, <1>0 DEF vars
<1>. QED
  BY <1>1, <1>2, <1>3, <1>4, <1>5, <1>6, <1>7, <1>8, <1>9, <1>10, <1>11, <1>12,
     <1>13, <1>14, <1>15, <1>16, <1>17, <1>18, <1>19, <1>20, <1>21, <1>22, <1>23
     DEF Next, Api, Handlers

\* Every step of the gateway and the routes is a step of the call records the console
\* reads, or leaves them alone: a call is filed once and what is stored of it only grows.
THEOREM Refinement == Spec => ImplementsCallRecord
<1>1. Init => Record!Init
  BY DEF Init, ApiInit, Record!Init, Owner, Stored, Closed, SessionsOf
<1>2. IInv /\ [Next]_vars => [Record!Next]_(Record!vars)
  BY NextRefines DEF RecordVars, Record!vars
<1>. QED  BY <1>1, <1>2, Invariance, PTL DEF Spec, ImplementsCallRecord, Record!Spec
=============================================================================
