------------------------- MODULE ConfigDraftProofs -------------------------
(***************************************************************************)
(* The settings pages, for any tabs, pages, PUTs under way and writes of    *)
(* the table.                                                              *)
(***************************************************************************)
EXTENDS ConfigDraft, TLAPS

\* The PUTs of a tab that are over leave the others as they were.
LEMMA SettledType ==
  ASSUME TypeOK, NEW t \in Tabs
  PROVE  Settled(t) \in [Saves -> Put \cup {None}]
BY DEF TypeOK, Settled

LEMMA TellType ==
  ASSUME TypeOK, NEW t \in Tabs, Tell(t)
  PROVE  saved' \in [Tabs -> BOOLEAN] /\ wrote' \in [Tabs -> Count]
<1>1. CASE \E k \in Saves : Over(t, k) /\ save[k].mine
  <2>1. PICK k \in Saves : /\ Over(t, k) /\ save[k].mine
                           /\ wrote' = [wrote EXCEPT ![t] = save[k].at]
    BY <1>1 DEF Tell
  <2>2. save[k] \in Put
    BY <2>1 DEF TypeOK, Over, Of
  <2>3. save[k].at \in Count
    BY <2>2 DEF Put
  <2>. QED  BY <1>1, <2>1, <2>3 DEF Tell, TypeOK
<1>2. CASE ~ \E k \in Saves : Over(t, k) /\ save[k].mine
  BY <1>2 DEF Tell, TypeOK
<1>. QED  BY <1>1, <1>2

LEMMA TypeStep ==
  ASSUME TypeOK, [Next]_vars
  PROVE  TypeOK'
<1>. USE BoundAssumption DEF TypeOK, Config, Value, Count, Nothing, emptyAgentConfigDraft, Put, query, form
<1>1. ASSUME NEW t \in Tabs, NEW s \in Slices, Open(t, s)
      PROVE  TypeOK'
  BY <1>1 DEF Open, Unsay
<1>2. ASSUME NEW t \in Tabs, Leave(t)
      PROVE  TypeOK'
  <2>1. ASSUME NEW k \in Saves PROVE save'[k] \in Put \cup {None}
    <3>1. save[k] \in Put \cup {None} /\ (Of(k, t) => save[k] \in Put)
      BY DEF Of
    <3>. QED  BY <1>2, <3>1 DEF Leave
  <2>2. save' \in [Saves -> Put \cup {None}]
    BY <1>2, <2>1 DEF Leave
  <2>3. page' \in [Tabs -> Slices \cup {None}] /\ draft' \in [Tabs -> Config]
    BY <1>2 DEF Leave
  <2>4. saved' \in [Tabs -> BOOLEAN] /\ wrote' \in [Tabs -> Count]
    BY <1>2 DEF Leave, Unsay
  <2>. QED  BY <1>2, <2>2, <2>3, <2>4 DEF Leave
<1>3. ASSUME NEW t \in Tabs, Refetch(t)
      PROVE  TypeOK'
  BY <1>3 DEF Refetch
<1>4. ASSUME NEW t \in Tabs, Patch(t)
      PROVE  TypeOK'
  BY <1>4 DEF Patch, Unsay, Shown
<1>5. ASSUME NEW t \in Tabs, NEW k \in Saves, Save(t, k)
      PROVE  TypeOK'
  BY <1>5 DEF Save, Shown
<1>6. ASSUME NEW t \in Tabs, FetchServed(t)
      PROVE  TypeOK'
  BY <1>6 DEF FetchServed
<1>7. ASSUME NEW t \in Tabs, FetchAnswered(t)
      PROVE  TypeOK'
  <2>1. draft' \in [Tabs -> Config]
    BY <1>7 DEF FetchAnswered, Reset
  <2>2. saved' \in [Tabs -> BOOLEAN] /\ wrote' \in [Tabs -> Count]
    BY <1>7, TellType DEF FetchAnswered
  <2>3. save' \in [Saves -> Put \cup {None}]
    BY <1>7, SettledType DEF FetchAnswered
  <2>4. cache' \in [Tabs -> Config \cup {None}] /\ cacheAt' \in [Tabs -> Count]
    BY <1>7 DEF FetchAnswered
  <2>5. got' \in [Tabs -> [data : Config, at : Count]]
    BY <1>7 DEF FetchAnswered
  <2>6. fetch' \in [Tabs -> {"idle", "asked", "served"}] /\ failed' \in [Tabs -> BOOLEAN]
    BY <1>7 DEF FetchAnswered
  <2>. QED  BY <1>7, <2>1, <2>2, <2>3, <2>4, <2>5, <2>6 DEF FetchAnswered
<1>8. ASSUME NEW t \in Tabs, FetchFails(t)
      PROVE  TypeOK'
  BY <1>8, SettledType, TellType DEF FetchFails
<1>9. ASSUME NEW k \in Saves, PutServed(k)
      PROVE  TypeOK'
  <2>1. save[k] \in Put /\ writes' \in Count
    BY <1>9 DEF PutServed
  <2>. DEFINE put == [save[k] EXCEPT !.stage = "served", !.at = writes',
                                     !.body = emptyAgentConfigDraft, !.basis = 0]
  <2>2. put \in Put
    <3>1. emptyAgentConfigDraft \in Config /\ 0 \in Count
      OBVIOUS
    <3>2. [save[k] EXCEPT !.stage = "served", !.at = writes'] \in Put
      BY <2>1
    <3>. QED  BY <3>1, <3>2, <2>1
  <2>3. save' = [save EXCEPT ![k] = put]
    BY <1>9 DEF PutServed
  <2>4. save' \in [Saves -> Put \cup {None}]
    BY <2>2, <2>3
  <2>. QED  BY <1>9, <2>1, <2>4 DEF PutServed, Upsert
<1>10. ASSUME NEW k \in Saves, PutAnswered(k)
      PROVE  TypeOK'
  <2>1. save[k] \in Put /\ save[k].tab \in Tabs
    BY <1>10 DEF PutAnswered
  <2>2. [save[k] EXCEPT !.stage = "refreshing"] \in Put
    BY <2>1
  <2>3. CASE page[save[k].tab] = None
    BY <1>10, <2>1, <2>3 DEF PutAnswered
  <2>4. CASE page[save[k].tab] # None
    <3>1. save' = [Settled(save[k].tab) EXCEPT ![k] = [save[k] EXCEPT !.stage = "refreshing"]]
      BY <1>10, <2>4 DEF PutAnswered
    <3>2. save' \in [Saves -> Put \cup {None}]
      BY <2>1, <2>2, <3>1, SettledType
    <3>3. saved' \in [Tabs -> BOOLEAN] /\ wrote' \in [Tabs -> Count]
      BY <1>10, <2>1, <2>4, TellType DEF PutAnswered
    <3>4. fetch' \in [Tabs -> {"idle", "asked", "served"}]
      BY <1>10, <2>1, <2>4 DEF PutAnswered
    <3>5. got' = [got EXCEPT ![save[k].tab] = Nothing]
      BY <1>10, <2>4 DEF PutAnswered
    <3>6. got' \in [Tabs -> [data : Config, at : Count]]
      BY <2>1, <3>5
    <3>. QED  BY <1>10, <2>1, <2>4, <3>2, <3>3, <3>4, <3>6 DEF PutAnswered
  <2>. QED  BY <2>3, <2>4
<1>11. ASSUME NEW k \in Saves, PutFails(k)
      PROVE  TypeOK'
  BY <1>11 DEF PutFails
<1>12. ASSUME NEW s \in Slices, Elsewhere(s)
      PROVE  TypeOK'
  BY <1>12 DEF Elsewhere
<1>13. CASE UNCHANGED vars
  BY <1>13 DEF vars, query, form
<1>. QED
  BY <1>1, <1>2, <1>3, <1>4, <1>5, <1>6, <1>7, <1>8, <1>9, <1>10, <1>11, <1>12, <1>13 DEF Next, Owner, Read, Request

LEMMA CacheStep ==
  ASSUME TypeOK, CacheAsRead, AnswerAsRead, [Next]_vars
  PROVE  CacheAsRead'
<1>. USE BoundAssumption, BlankAssumption, NoneAssumption DEF TypeOK, Config, Value, Count, Nothing, emptyAgentConfigDraft, Put, query, form, CacheAsRead, AnswerAsRead
<1>1. ASSUME NEW t \in Tabs, NEW s \in Slices, Open(t, s)
      PROVE  CacheAsRead'
  BY <1>1 DEF Open, Unsay
<1>2. ASSUME NEW t \in Tabs, Leave(t)
      PROVE  CacheAsRead'
  BY <1>2 DEF Leave, Unsay, Of
<1>3. ASSUME NEW t \in Tabs, Refetch(t)
      PROVE  CacheAsRead'
  BY <1>3 DEF Refetch
<1>4. ASSUME NEW t \in Tabs, Patch(t)
      PROVE  CacheAsRead'
  BY <1>4 DEF Patch, Unsay, Shown
<1>5. ASSUME NEW t \in Tabs, NEW k \in Saves, Save(t, k)
      PROVE  CacheAsRead'
  BY <1>5 DEF Save, Shown
<1>6. ASSUME NEW t \in Tabs, FetchServed(t)
      PROVE  CacheAsRead'
  BY <1>6 DEF FetchServed
<1>7. ASSUME NEW t \in Tabs, FetchAnswered(t)
      PROVE  CacheAsRead'
  BY <1>7 DEF FetchAnswered, Reset, Settled, Tell, Over, Of
<1>8. ASSUME NEW t \in Tabs, FetchFails(t)
      PROVE  CacheAsRead'
  BY <1>8 DEF FetchFails, Settled, Tell, Over, Of
<1>9. ASSUME NEW k \in Saves, PutServed(k)
      PROVE  CacheAsRead'
  BY <1>9 DEF PutServed, Upsert
<1>10. ASSUME NEW k \in Saves, PutAnswered(k)
      PROVE  CacheAsRead'
  BY <1>10 DEF PutAnswered, Settled, Tell, Over, Of
<1>11. ASSUME NEW k \in Saves, PutFails(k)
      PROVE  CacheAsRead'
  BY <1>11 DEF PutFails
<1>12. ASSUME NEW s \in Slices, Elsewhere(s)
      PROVE  CacheAsRead'
  BY <1>12 DEF Elsewhere
<1>13. CASE UNCHANGED vars
  BY <1>13 DEF vars, query, form
<1>. QED
  BY <1>1, <1>2, <1>3, <1>4, <1>5, <1>6, <1>7, <1>8, <1>9, <1>10, <1>11, <1>12, <1>13 DEF Next, Owner, Read, Request

LEMMA AnswerStep ==
  ASSUME TypeOK, CacheAsRead, AnswerAsRead, [Next]_vars
  PROVE  AnswerAsRead'
<1>. USE BoundAssumption, BlankAssumption, NoneAssumption DEF TypeOK, Config, Value, Count, Nothing, emptyAgentConfigDraft, Put, query, form, CacheAsRead, AnswerAsRead
<1>1. ASSUME NEW t \in Tabs, NEW s \in Slices, Open(t, s)
      PROVE  AnswerAsRead'
  BY <1>1 DEF Open, Unsay
<1>2. ASSUME NEW t \in Tabs, Leave(t)
      PROVE  AnswerAsRead'
  BY <1>2 DEF Leave, Unsay, Of
<1>3. ASSUME NEW t \in Tabs, Refetch(t)
      PROVE  AnswerAsRead'
  BY <1>3 DEF Refetch
<1>4. ASSUME NEW t \in Tabs, Patch(t)
      PROVE  AnswerAsRead'
  BY <1>4 DEF Patch, Unsay, Shown
<1>5. ASSUME NEW t \in Tabs, NEW k \in Saves, Save(t, k)
      PROVE  AnswerAsRead'
  BY <1>5 DEF Save, Shown
<1>6. ASSUME NEW t \in Tabs, FetchServed(t)
      PROVE  AnswerAsRead'
  BY <1>6 DEF FetchServed
<1>7. ASSUME NEW t \in Tabs, FetchAnswered(t)
      PROVE  AnswerAsRead'
  BY <1>7 DEF FetchAnswered, Reset, Settled, Tell, Over, Of
<1>8. ASSUME NEW t \in Tabs, FetchFails(t)
      PROVE  AnswerAsRead'
  BY <1>8 DEF FetchFails, Settled, Tell, Over, Of
<1>9. ASSUME NEW k \in Saves, PutServed(k)
      PROVE  AnswerAsRead'
  BY <1>9 DEF PutServed, Upsert
<1>10. ASSUME NEW k \in Saves, PutAnswered(k)
      PROVE  AnswerAsRead'
  BY <1>10 DEF PutAnswered, Settled, Tell, Over, Of
<1>11. ASSUME NEW k \in Saves, PutFails(k)
      PROVE  AnswerAsRead'
  BY <1>11 DEF PutFails
<1>12. ASSUME NEW s \in Slices, Elsewhere(s)
      PROVE  AnswerAsRead'
  BY <1>12 DEF Elsewhere
<1>13. CASE UNCHANGED vars
  BY <1>13 DEF vars, query, form
<1>. QED
  BY <1>1, <1>2, <1>3, <1>4, <1>5, <1>6, <1>7, <1>8, <1>9, <1>10, <1>11, <1>12, <1>13 DEF Next, Owner, Read, Request

LEMMA DraftStep ==
  ASSUME TypeOK, DraftOnData, [Next]_vars
  PROVE  DraftOnData'
<1>. USE BoundAssumption, BlankAssumption, NoneAssumption DEF TypeOK, Config, Value, Count, Nothing, emptyAgentConfigDraft, Put, query, form, DraftOnData
<1>1. ASSUME NEW t \in Tabs, NEW s \in Slices, Open(t, s)
      PROVE  DraftOnData'
  BY <1>1 DEF Open, Unsay
<1>2. ASSUME NEW t \in Tabs, Leave(t)
      PROVE  DraftOnData'
  BY <1>2 DEF Leave, Unsay, Of
<1>3. ASSUME NEW t \in Tabs, Refetch(t)
      PROVE  DraftOnData'
  BY <1>3 DEF Refetch
<1>4. ASSUME NEW t \in Tabs, Patch(t)
      PROVE  DraftOnData'
  BY <1>4 DEF Patch, Unsay, Shown
<1>5. ASSUME NEW t \in Tabs, NEW k \in Saves, Save(t, k)
      PROVE  DraftOnData'
  BY <1>5 DEF Save, Shown
<1>6. ASSUME NEW t \in Tabs, FetchServed(t)
      PROVE  DraftOnData'
  BY <1>6 DEF FetchServed
<1>7. ASSUME NEW t \in Tabs, FetchAnswered(t)
      PROVE  DraftOnData'
  BY <1>7 DEF FetchAnswered, Reset, Settled, Tell, Over, Of
<1>8. ASSUME NEW t \in Tabs, FetchFails(t)
      PROVE  DraftOnData'
  BY <1>8 DEF FetchFails, Settled, Tell, Over, Of
<1>9. ASSUME NEW k \in Saves, PutServed(k)
      PROVE  DraftOnData'
  BY <1>9 DEF PutServed, Upsert
<1>10. ASSUME NEW k \in Saves, PutAnswered(k)
      PROVE  DraftOnData'
  BY <1>10 DEF PutAnswered, Settled, Tell, Over, Of
<1>11. ASSUME NEW k \in Saves, PutFails(k)
      PROVE  DraftOnData'
  BY <1>11 DEF PutFails
<1>12. ASSUME NEW s \in Slices, Elsewhere(s)
      PROVE  DraftOnData'
  BY <1>12 DEF Elsewhere
<1>13. CASE UNCHANGED vars
  BY <1>13 DEF vars, query, form
<1>. QED
  BY <1>1, <1>2, <1>3, <1>4, <1>5, <1>6, <1>7, <1>8, <1>9, <1>10, <1>11, <1>12, <1>13 DEF Next, Owner, Read, Request

\* An answered PUT waits for the query or is over; of the others, those that waited
\* for it in that tab are over and the rest stay as they were.
LEMMA PutAnsweredSaves ==
  ASSUME TypeOK, NEW k \in Saves, PutAnswered(k)
  PROVE  /\ save[k] \in Put
         /\ \A j \in Saves \ {k} : save'[j] # None => save'[j] = save[j] /\ save[j] # None
         /\ save'[k] # None => save'[k] = [save[k] EXCEPT !.stage = "refreshing"]
         /\ page[save[k].tab] # None =>
              \A j \in Saves \ {k} : save[j] # None /\ save[j].tab = save[k].tab
                /\ save[j].stage = "refreshing" => save'[j] = None
<1>1. save[k] \in Put
  BY DEF PutAnswered, TypeOK
<1>2. CASE page[save[k].tab] = None
  <2>1. save' = [save EXCEPT ![k] = None]
    BY <1>2 DEF PutAnswered
  <2>. QED  BY <1>1, <1>2, <2>1 DEF TypeOK
<1>3. CASE page[save[k].tab] # None
  <2>1. save' = [Settled(save[k].tab) EXCEPT ![k] = [save[k] EXCEPT !.stage = "refreshing"]]
    BY <1>3 DEF PutAnswered
  <2>2. \A j \in Saves \ {k} : save'[j] = IF Over(save[k].tab, j) THEN None ELSE save[j]
    BY <2>1 DEF Settled
  <2>3. save'[k] = [save[k] EXCEPT !.stage = "refreshing"]
    BY <2>1 DEF Settled
  <2>. QED  BY <1>1, <2>2, <2>3 DEF Over, Of
<1>. QED  BY <1>2, <1>3

LEMMA SentStep ==
  ASSUME TypeOK, DraftOnData, CacheAsRead, SentAsRead, [Next]_vars
  PROVE  SentAsRead'
<1>. USE BoundAssumption, BlankAssumption, NoneAssumption DEF TypeOK, Config, Value, Count, Nothing, emptyAgentConfigDraft, Put, query, form, Sent, CacheAsRead, DraftOnData, SentAsRead
<1>1. ASSUME NEW t \in Tabs, NEW s \in Slices, Open(t, s)
      PROVE  SentAsRead'
  BY <1>1 DEF Open, Unsay
<1>2. ASSUME NEW t \in Tabs, Leave(t)
      PROVE  SentAsRead'
  BY <1>2 DEF Leave, Unsay, Of
<1>3. ASSUME NEW t \in Tabs, Refetch(t)
      PROVE  SentAsRead'
  BY <1>3 DEF Refetch
<1>4. ASSUME NEW t \in Tabs, Patch(t)
      PROVE  SentAsRead'
  BY <1>4 DEF Patch, Unsay, Shown
<1>5. ASSUME NEW t \in Tabs, NEW k \in Saves, Save(t, k)
      PROVE  SentAsRead'
  BY <1>5 DEF Save, Shown
<1>6. ASSUME NEW t \in Tabs, FetchServed(t)
      PROVE  SentAsRead'
  BY <1>6 DEF FetchServed
<1>7. ASSUME NEW t \in Tabs, FetchAnswered(t)
      PROVE  SentAsRead'
  BY <1>7 DEF FetchAnswered, Reset, Settled, Tell, Over, Of
<1>8. ASSUME NEW t \in Tabs, FetchFails(t)
      PROVE  SentAsRead'
  BY <1>8 DEF FetchFails, Settled, Tell, Over, Of
<1>9. ASSUME NEW k \in Saves, PutServed(k)
      PROVE  SentAsRead'
  BY <1>9 DEF PutServed, Upsert
<1>10. ASSUME NEW k \in Saves, PutAnswered(k)
      PROVE  SentAsRead'
  <2>1. \A j \in Saves : Sent(j)' => Sent(j) /\ save'[j] = save[j]
    BY <1>10, PutAnsweredSaves DEF Sent
  <2>. QED  BY <1>10, <2>1 DEF PutAnswered
<1>11. ASSUME NEW k \in Saves, PutFails(k)
      PROVE  SentAsRead'
  BY <1>11 DEF PutFails
<1>12. ASSUME NEW s \in Slices, Elsewhere(s)
      PROVE  SentAsRead'
  BY <1>12 DEF Elsewhere
<1>13. CASE UNCHANGED vars
  BY <1>13 DEF vars, query, form
<1>. QED
  BY <1>1, <1>2, <1>3, <1>4, <1>5, <1>6, <1>7, <1>8, <1>9, <1>10, <1>11, <1>12, <1>13 DEF Next, Owner, Read, Request

LEMMA FilledStep ==
  ASSUME TypeOK, Filled, [Next]_vars
  PROVE  Filled'
<1>. USE BoundAssumption, BlankAssumption, NoneAssumption DEF TypeOK, Config, Value, Count, Nothing, emptyAgentConfigDraft, Put, query, form, Filled, NotBlank, Sent
<1>1. ASSUME NEW t \in Tabs, NEW s \in Slices, Open(t, s)
      PROVE  Filled'
  BY <1>1 DEF Open, Unsay
<1>2. ASSUME NEW t \in Tabs, Leave(t)
      PROVE  Filled'
  BY <1>2 DEF Leave, Unsay, Of
<1>3. ASSUME NEW t \in Tabs, Refetch(t)
      PROVE  Filled'
  BY <1>3 DEF Refetch
<1>4. ASSUME NEW t \in Tabs, Patch(t)
      PROVE  Filled'
  BY <1>4 DEF Patch, Unsay, Shown
<1>5. ASSUME NEW t \in Tabs, NEW k \in Saves, Save(t, k)
      PROVE  Filled'
  BY <1>5 DEF Save, Shown
<1>6. ASSUME NEW t \in Tabs, FetchServed(t)
      PROVE  Filled'
  BY <1>6 DEF FetchServed
<1>7. ASSUME NEW t \in Tabs, FetchAnswered(t)
      PROVE  Filled'
  BY <1>7 DEF FetchAnswered, Reset, Settled, Tell, Over, Of
<1>8. ASSUME NEW t \in Tabs, FetchFails(t)
      PROVE  Filled'
  BY <1>8 DEF FetchFails, Settled, Tell, Over, Of
<1>9. ASSUME NEW k \in Saves, PutServed(k)
      PROVE  Filled'
  BY <1>9 DEF PutServed, Upsert
<1>10. ASSUME NEW k \in Saves, PutAnswered(k)
      PROVE  Filled'
  <2>1. \A j \in Saves : Sent(j)' => Sent(j) /\ save'[j].body = save[j].body
    BY <1>10, PutAnsweredSaves DEF Sent
  <2>2. \A t \in Tabs : fetch'[t] = "served" => fetch[t] = "served" /\ got'[t] = got[t]
    BY <1>10 DEF PutAnswered
  <2>. QED  BY <1>10, <2>1, <2>2 DEF PutAnswered
<1>11. ASSUME NEW k \in Saves, PutFails(k)
      PROVE  Filled'
  BY <1>11 DEF PutFails
<1>12. ASSUME NEW s \in Slices, Elsewhere(s)
      PROVE  Filled'
  BY <1>12 DEF Elsewhere
<1>13. CASE UNCHANGED vars
  BY <1>13 DEF vars, query, form
<1>. QED
  BY <1>1, <1>2, <1>3, <1>4, <1>5, <1>6, <1>7, <1>8, <1>9, <1>10, <1>11, <1>12, <1>13 DEF Next, Owner, Read, Request

LEMMA WaitStep ==
  ASSUME TypeOK, WaitsForNews, [Next]_vars
  PROVE  WaitsForNews'
<1>. USE BoundAssumption, BlankAssumption, NoneAssumption DEF TypeOK, Config, Value, Count, Nothing, emptyAgentConfigDraft, Put, query, form, WaitsForNews
<1>1. ASSUME NEW t \in Tabs, NEW s \in Slices, Open(t, s)
      PROVE  WaitsForNews'
  BY <1>1 DEF Open, Unsay
<1>2. ASSUME NEW t \in Tabs, Leave(t)
      PROVE  WaitsForNews'
  BY <1>2 DEF Leave, Unsay, Of
<1>3. ASSUME NEW t \in Tabs, Refetch(t)
      PROVE  WaitsForNews'
  BY <1>3 DEF Refetch
<1>4. ASSUME NEW t \in Tabs, Patch(t)
      PROVE  WaitsForNews'
  BY <1>4 DEF Patch, Unsay, Shown
<1>5. ASSUME NEW t \in Tabs, NEW k \in Saves, Save(t, k)
      PROVE  WaitsForNews'
  BY <1>5 DEF Save, Shown
<1>6. ASSUME NEW t \in Tabs, FetchServed(t)
      PROVE  WaitsForNews'
  BY <1>6 DEF FetchServed
<1>7. ASSUME NEW t \in Tabs, FetchAnswered(t)
      PROVE  WaitsForNews'
  BY <1>7 DEF FetchAnswered, Reset, Settled, Tell, Over, Of
<1>8. ASSUME NEW t \in Tabs, FetchFails(t)
      PROVE  WaitsForNews'
  BY <1>8 DEF FetchFails, Settled, Tell, Over, Of
<1>9. ASSUME NEW k \in Saves, PutServed(k)
      PROVE  WaitsForNews'
  BY <1>9 DEF PutServed, Upsert
<1>10. ASSUME NEW k \in Saves, PutAnswered(k)
      PROVE  WaitsForNews'
  <2>0. \A j \in Saves \ {k} : save'[j] # None => save'[j] = save[j] /\ save[j] # None
    BY <1>10, PutAnsweredSaves
  <2>1. save[k] \in Put /\ save[k].tab \in Tabs
    BY <1>10, PutAnsweredSaves
  <2>2. ASSUME NEW j \in Saves, save'[j] # None
        PROVE  /\ save[j] # None /\ save'[j].at = save[j].at /\ save'[j].tab = save[j].tab
               /\ j # k => save'[j].stage = save[j].stage
    <3>1. CASE j # k
      <4>1. save'[j] = save[j] /\ save[j] # None
        BY <2>0, <2>2, <3>1
      <4>. QED  BY <3>1, <4>1
    <3>2. CASE j = k
      <4>1. save'[k] = [save[k] EXCEPT !.stage = "refreshing"] /\ save[k] # None
        BY <1>10, <2>2, <3>2, PutAnsweredSaves DEF PutAnswered
      <4>2. save'[k].at = save[k].at /\ save'[k].tab = save[k].tab
        BY <2>1, <4>1
      <4>. QED  BY <3>2, <4>1, <4>2
    <3>. QED  BY <3>1, <3>2
  <2>3. \A j \in Saves : save'[j] # None => save'[j].at =< writes'
    BY <1>10, <2>2 DEF PutAnswered
  <2>4. CASE page[save[k].tab] = None
    <3>1. save' = [save EXCEPT ![k] = None] /\ fetch' = fetch /\ got' = got
      BY <1>10, <2>4 DEF PutAnswered
    <3>. QED  BY <2>3, <3>1
  <2>5. CASE page[save[k].tab] # None
    <3>1. fetch' = [fetch EXCEPT ![save[k].tab] = "asked"] /\ got' = [got EXCEPT ![save[k].tab] = Nothing]
      BY <1>10, <2>5 DEF PutAnswered
    <3>2. ASSUME NEW j \in Saves, save'[j] # None, save'[j].stage = "refreshing"
          PROVE  /\ fetch'[save'[j].tab] # "idle"
                 /\ fetch'[save'[j].tab] = "served" => save'[j].at =< got'[save'[j].tab].at
      <4>1. CASE save[j].tab = save[k].tab
        BY <2>1, <2>2, <3>1, <3>2, <4>1
      <4>2. CASE save[j].tab # save[k].tab
        BY <2>1, <2>2, <3>1, <3>2, <4>2
      <4>. QED  BY <4>1, <4>2
    <3>. QED  BY <2>3, <3>2
  <2>. QED  BY <2>4, <2>5
<1>11. ASSUME NEW k \in Saves, PutFails(k)
      PROVE  WaitsForNews'
  BY <1>11 DEF PutFails
<1>12. ASSUME NEW s \in Slices, Elsewhere(s)
      PROVE  WaitsForNews'
  BY <1>12 DEF Elsewhere
<1>13. CASE UNCHANGED vars
  BY <1>13 DEF vars, query, form
<1>. QED
  BY <1>1, <1>2, <1>3, <1>4, <1>5, <1>6, <1>7, <1>8, <1>9, <1>10, <1>11, <1>12, <1>13 DEF Next, Owner, Read, Request

LEMMA ToldStep ==
  ASSUME TypeOK, WaitsForNews, ToldIsRead, [Next]_vars
  PROVE  ToldIsRead'
<1>. USE BoundAssumption, BlankAssumption, NoneAssumption DEF TypeOK, Config, Value, Count, Nothing, emptyAgentConfigDraft, Put, query, form, WaitsForNews, ToldIsRead
<1>1. ASSUME NEW t \in Tabs, NEW s \in Slices, Open(t, s)
      PROVE  ToldIsRead'
  BY <1>1 DEF Open, Unsay
<1>2. ASSUME NEW t \in Tabs, Leave(t)
      PROVE  ToldIsRead'
  BY <1>2 DEF Leave, Unsay, Of
<1>3. ASSUME NEW t \in Tabs, Refetch(t)
      PROVE  ToldIsRead'
  BY <1>3 DEF Refetch
<1>4. ASSUME NEW t \in Tabs, Patch(t)
      PROVE  ToldIsRead'
  BY <1>4 DEF Patch, Unsay, Shown
<1>5. ASSUME NEW t \in Tabs, NEW k \in Saves, Save(t, k)
      PROVE  ToldIsRead'
  BY <1>5 DEF Save, Shown
<1>6. ASSUME NEW t \in Tabs, FetchServed(t)
      PROVE  ToldIsRead'
  BY <1>6 DEF FetchServed
<1>7. ASSUME NEW t \in Tabs, FetchAnswered(t)
      PROVE  ToldIsRead'
  BY <1>7 DEF FetchAnswered, Reset, Settled, Tell, Over, Of
<1>8. ASSUME NEW t \in Tabs, FetchFails(t)
      PROVE  ToldIsRead'
  BY <1>8 DEF FetchFails, Settled, Tell, Over, Of
<1>9. ASSUME NEW k \in Saves, PutServed(k)
      PROVE  ToldIsRead'
  BY <1>9 DEF PutServed, Upsert
<1>10. ASSUME NEW k \in Saves, PutAnswered(k)
      PROVE  ToldIsRead'
  <2>1. save[k] \in Put /\ save[k].tab \in Tabs
    BY <1>10, PutAnsweredSaves
  <2>2. CASE page[save[k].tab] = None
    BY <1>10, <2>1, <2>2 DEF PutAnswered
  <2>3. CASE page[save[k].tab] # None
    <3>1. /\ fetch' = [fetch EXCEPT ![save[k].tab] = "asked"] /\ got' = [got EXCEPT ![save[k].tab] = Nothing]
          /\ writes' = writes /\ failed' = failed /\ cacheAt' = cacheAt
      BY <1>10, <2>3 DEF PutAnswered
    <3>2. Tell(save[k].tab)
      BY <1>10, <2>3 DEF PutAnswered
    <3>3. \A t \in Tabs \ {save[k].tab} : saved'[t] = saved[t] /\ wrote'[t] = wrote[t]
      BY <3>2 DEF Tell
    <3>4. saved'[save[k].tab] => wrote'[save[k].tab] =< writes
      <4>1. CASE \E j \in Saves : Over(save[k].tab, j) /\ save[j].mine
        <5>1. PICK j \in Saves : /\ Over(save[k].tab, j)
                                 /\ wrote' = [wrote EXCEPT ![save[k].tab] = save[j].at]
          BY <3>2, <4>1 DEF Tell
        <5>2. save[j] # None /\ save[j].at =< writes
          BY <5>1 DEF Over, Of
        <5>. QED  BY <2>1, <5>1, <5>2
      <4>2. CASE ~ \E j \in Saves : Over(save[k].tab, j) /\ save[j].mine
        BY <2>1, <3>2, <4>2 DEF Tell
      <4>. QED  BY <4>1, <4>2
    <3>. QED  BY <2>1, <3>1, <3>3, <3>4
  <2>. QED  BY <2>2, <2>3
<1>11. ASSUME NEW k \in Saves, PutFails(k)
      PROVE  ToldIsRead'
  BY <1>11 DEF PutFails
<1>12. ASSUME NEW s \in Slices, Elsewhere(s)
      PROVE  ToldIsRead'
  BY <1>12 DEF Elsewhere
<1>13. CASE UNCHANGED vars
  BY <1>13 DEF vars, query, form
<1>. QED
  BY <1>1, <1>2, <1>3, <1>4, <1>5, <1>6, <1>7, <1>8, <1>9, <1>10, <1>11, <1>12, <1>13 DEF Next, Owner, Read, Request

-----------------------------------------------------------------------------
(* The settings pages keep their invariant, whatever the tabs, pages and       *)
(* requests, and however many of each.                                       *)
THEOREM Invariance == Spec => []IInv
<1>1. Init => IInv
  BY BoundAssumption, BlankAssumption, NoneAssumption
     DEF Init, IInv, TypeOK, DraftOnData, CacheAsRead, AnswerAsRead, SentAsRead, Filled,
         WaitsForNews, ToldIsRead, Sent, NotBlank, Config, Value, Count, Nothing,
         emptyAgentConfigDraft
<1>2. IInv /\ [Next]_vars => IInv'
  BY TypeStep, DraftStep, CacheStep, AnswerStep, SentStep, FilledStep, WaitStep, ToldStep
     DEF IInv
<1>. QED  BY <1>1, <1>2, PTL DEF Spec

(* Drafts, caches, requests and the row keep their types.                     *)
THEOREM TypeCorrect == Spec => []TypeOK
BY Invariance, PTL DEF IInv

(* The empty draft never reaches the table.                                  *)
THEOREM TableNeverBlank == Spec => []NeverBlank
<1>1. IInv => NeverBlank
  BY DEF IInv, Filled, NotBlank, NeverBlank
<1>. QED  BY <1>1, Invariance, PTL

(* Under "Saved." and with the query at rest, what is shown was read after the *)
(* PUT that "Saved." is about was stored.                                    *)
THEOREM SavedIsRead == Spec => []ReadYourWrites
<1>1. IInv => ReadYourWrites
  BY DEF IInv, TypeOK, Count, ToldIsRead, ReadYourWrites
<1>. QED  BY <1>1, Invariance, PTL

(* A Save based on the latest settings changes its page's slice only.         *)
THEOREM SliceOnly == Spec => OnlyTheSliceIsWritten
<1>1. IInv /\ [Next]_vars =>
        [\A k \in Saves : PutServed(k) /\ save[k].basis = writes =>
           \A s \in Slices \ {save[k].page} : server'[s] = server[s]]_vars
  BY DEF IInv, SentAsRead, Sent, PutServed, Upsert
<1>. QED  BY <1>1, Invariance, PTL DEF Spec, OnlyTheSliceIsWritten

(* A refetch resets the draft only if another PUT was stored meanwhile.       *)
THEOREM TypingIsKept == Spec => RefetchKeepsTyping
<1>1. IInv /\ [Next]_vars =>
        [\A t \in Tabs : FetchAnswered(t) /\ cache[t] # None /\ cacheAt[t] = writes
                           => draft'[t] = draft[t]]_vars
  <2>. SUFFICES ASSUME IInv, NEW t \in Tabs, FetchAnswered(t), cache[t] # None, cacheAt[t] = writes
                PROVE  draft'[t] = draft[t]
    OBVIOUS
  <2>1. got[t].at = writes
    BY BoundAssumption DEF FetchAnswered, IInv, TypeOK, Count, AnswerAsRead, CacheAsRead
  <2>2. got[t].data = cache[t]
    BY <2>1 DEF FetchAnswered, IInv, AnswerAsRead, CacheAsRead
  <2>. QED  BY <2>2 DEF FetchAnswered, Reset
<1>. QED  BY <1>1, Invariance, PTL DEF Spec, RefetchKeepsTyping
=============================================================================
