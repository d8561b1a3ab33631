---------------------------- MODULE ConsoleProofs ----------------------------
(***************************************************************************)
(* Three parts of the console, each for any values of its constants: the   *)
(* three stores, whose rows and secrets stay apart whatever calls overlap; *)
(* the sign-up wizard (S); and the administrator's page (D), at the server *)
(* and in both demos.                                                      *)
(***************************************************************************)
EXTENDS MCConsole, FiniteSetTheorems, TLAPS

-----------------------------------------------------------------------------
(* The stores.                                                             *)


\* A call that was asked has a question.
LEMMA AskedQuestion ==
  ASSUME TypeOK, NEW c \in Clients, calls[c].at \in {"asked", "checked"}
  PROVE  /\ calls[c].q \in Questions
         /\ calls[c] \in [at : {"asked", "checked"}, q : Questions, answer : {None}]
BY DEF TypeOK, CallStates, Idle

LEMMA CreatingIsFinite ==
  /\ IsFiniteSet(Creating) /\ Cardinality(Creating) \in Nat
  /\ Cardinality(Creating') \in Nat
<1>1. Creating \subseteq Clients /\ Creating' \subseteq Clients
  BY DEF Creating
<1>2. IsFiniteSet(Creating) /\ IsFiniteSet(Creating')
  BY <1>1, FS_Subset, StoresAssumption
<1>. QED  BY <1>2, FS_CardinalityType

LEMMA ConfiguredIsFinite ==
  ASSUME TypeOK
  PROVE  /\ Configured \subseteq Tenants
         /\ IsFiniteSet(Configured) /\ Cardinality(Configured) \in Nat
<1>1. Configured \subseteq Tenants
  BY DEF TypeOK, Configured, StoredRow
<1>2. IsFiniteSet(Configured)
  BY <1>1, FS_Subset, StoresAssumption
<1>. QED  BY <1>1, <1>2, FS_CardinalityType

\* An answer takes the call away and nothing else.
LEMMA AnswerKeeps ==
  ASSUME TypeOK, CallsFitTheTable, NEW c \in Clients, NEW a \in {"ok", "none", "failed"},
         Answer(c, a), UNCHANGED fixed
  PROVE  /\ calls' \in [Clients -> CallStates]
         /\ CallsFitTheTable'
         /\ Creating' = Creating \ {c}
         /\ Cardinality(Creating') =< Cardinality(Creating)
         /\ c \in Creating => Cardinality(Creating') = Cardinality(Creating) - 1
<1>1. calls' \in [Clients -> CallStates]
  BY DEF Answer, TypeOK, CallStates
<1>2. \A k \in Clients : k # c => calls'[k] = calls[k]
  BY DEF Answer, TypeOK
<1>3. calls'[c].at = "answered"
  BY DEF Answer, TypeOK
<1>4. CallsFitTheTable'
  BY <1>2, <1>3 DEF CallsFitTheTable, LooksFirst, fixed
<1>5. Creating' = Creating \ {c}
  BY <1>2, <1>3 DEF Creating
<1>6. Cardinality(Creating') =< Cardinality(Creating)
  BY <1>5, CreatingIsFinite, FS_Subset
<1>7. c \in Creating => Cardinality(Creating') = Cardinality(Creating) - 1
  BY <1>5, CreatingIsFinite, FS_RemoveElement
<1>. QED  BY <1>1, <1>4, <1>5, <1>6, <1>7

\* The optional field of a row is a Boolean, whatever was asked.
LEMMA FlagType ==
  ASSUME NEW old \in BOOLEAN, NEW q \in Questions
  PROVE  NewFlag(old, q) \in BOOLEAN
<1>1. q.extra \in {"given", "null", "omitted"}
  BY DEF Questions
<1>. QED  BY <1>1 DEF NewFlag

LEMMA SecretsType ==
  ASSUME NEW id, NEW q \in Questions
  PROVE  /\ NewSecrets(id, q) \subseteq secrets \cup {id}
         /\ \A i \in secrets : i # id => i \in NewSecrets(id, q)
BY DEF NewSecrets

\* In memory the map of secrets and the flag are written alike.
LEMMA FlagIsSecret ==
  ASSUME NEW id, NEW old \in BOOLEAN, NEW q \in Questions,
         backend = "memory", table = "tools", old = (id \in secrets)
  PROVE  NewFlag(old, q) = (id \in NewSecrets(id, q))
<1>1. CASE q.extra = "given"
  <2>1. NewFlag(old, q) = TRUE
    BY <1>1 DEF NewFlag
  <2>2. NewSecrets(id, q) = secrets \cup {id}
    BY <1>1 DEF NewSecrets
  <2>. QED  BY <2>1, <2>2
<1>2. CASE q.extra = "null"
  <2>1. NewFlag(old, q) = FALSE
    BY <1>2 DEF NewFlag
  <2>2. NewSecrets(id, q) = secrets \ {id}
    BY <1>2 DEF NewSecrets
  <2>3. (id \in NewSecrets(id, q)) = FALSE
    BY <2>2
  <2>. QED  BY <2>1, <2>3
<1>3. CASE q.extra = "omitted"
  <2>1. NewFlag(old, q) = old
    BY <1>3 DEF NewFlag
  <2>2. NewSecrets(id, q) = secrets
    BY <1>3 DEF NewSecrets
  <2>. QED  BY <2>1, <2>2
<1>. QED  BY <1>1, <1>2, <1>3 DEF Questions

\* A row that is written keeps its identifier and its tenant.
LEMMA WrittenRow ==
  ASSUME TypeOK, NEW r \in rows, NEW q \in Questions
  PROVE  /\ Written(r, q) \in StoredRow
         /\ Written(r, q).id = r.id /\ Written(r, q).tenant = r.tenant
         /\ Written(r, q).name = (IF Renames /\ q.name # None THEN q.name ELSE r.name)
         /\ Written(r, q).flag = NewFlag(r.flag, q)
<1>1. r \in StoredRow
  BY DEF TypeOK
<1>2. NewFlag(r.flag, q) \in BOOLEAN
  BY <1>1, FlagType DEF StoredRow
<1>3. q.text \in Texts \cup {None} /\ q.name \in Names \cup {None}
  BY DEF Questions
<1>. QED  BY <1>1, <1>2, <1>3 DEF StoredRow, Written

\* A row keeps its name when it is written, or takes one that is free in its tenant.
NameIsFree(r, q) ==
  \/ Written(r, q).name = r.name
  \/ /\ q.name # None /\ Written(r, q).name = q.name /\ ~ Taken(q)
     /\ backend = "demo" \/ r.tenant = q.tenant

LEMMA FinishIsFree ==
  ASSUME TypeOK, NEW c \in Clients, calls[c].at = "checked", LooksFirst, NEW r \in rows
  PROVE  NameIsFree(r, calls[c].q)
<1>1. calls[c].q \in Questions
  BY AskedQuestion
<1>. QED  BY <1>1, WrittenRow DEF NameIsFree, Renames, LooksFirst

LEMMA UpdateIsFree ==
  ASSUME TypeOK, NEW q \in Questions, NEW r \in Lookup(q), ~ KeyTaken(q)
  PROVE  NameIsFree(r, q)
<1>1. r \in rows /\ Owned(r, q) /\ (table = "intents" => r.name = q.key)
  BY DEF Lookup
<1>2. Written(r, q).name = (IF Renames /\ q.name # None THEN q.name ELSE r.name)
  BY <1>1, WrittenRow
<1>3. CASE backend = "demo"
  BY <1>2, <1>3 DEF NameIsFree, Taken
<1>4. CASE backend = "prisma" /\ table = "intents"
  <2>1. r.tenant = q.tenant /\ r.name = q.key
    BY <1>1, <1>4 DEF Owned
  <2>. QED  BY <1>2, <1>4, <2>1 DEF NameIsFree, KeyTaken, Renames
<1>5. CASE ~ Renames
  BY <1>2, <1>5 DEF NameIsFree
<1>. QED  BY <1>3, <1>4, <1>5 DEF Renames

LEMMA WriteKeeps ==
  ASSUME IInv, NEW c \in Clients, calls[c].at \in {"asked", "checked"},
         NEW r \in rows, NameIsFree(r, calls[c].q), Write(c, r), UNCHANGED fixed
  PROVE  IInv'
<1>. DEFINE q == calls[c].q
            w == Written(r, q)
<1>0. TypeOK /\ CallsFitTheTable
  BY DEF IInv, StoresKeepTheirRows
<1>1. q \in Questions
  BY <1>0, AskedQuestion
<1>2. /\ w \in StoredRow /\ w.id = r.id /\ w.tenant = r.tenant
      /\ w.flag = NewFlag(r.flag, q)
  BY <1>0, <1>1, WrittenRow
<1>a. \/ w.name = r.name
      \/ w.name = q.name /\ ~ Taken(q) /\ (backend = "demo" \/ r.tenant = q.tenant)
  BY DEF NameIsFree
<1>3. /\ rows' = (rows \ {r}) \cup {w} /\ secrets' = NewSecrets(r.id, q)
      /\ made' = made /\ Answer(c, "ok") /\ backend' = backend /\ table' = table
  BY DEF Write, fixed
<1>4. /\ calls' \in [Clients -> CallStates] /\ CallsFitTheTable'
      /\ Cardinality(Creating') =< Cardinality(Creating)
  BY <1>0, <1>3, AnswerKeeps
<1>. HIDE DEF q, w
<1>5. /\ secrets' \subseteq secrets \cup {r.id}
      /\ \A i \in secrets : i # r.id => i \in secrets'
  BY <1>1, <1>3, SecretsType
<1>6. r \in StoredRow
  BY <1>0 DEF TypeOK
<1>7. TypeOK'
  BY <1>0, <1>2, <1>3, <1>4, <1>5, <1>6 DEF TypeOK, StoredRow
<1>8. RowsAreNumbered'
  BY <1>0, <1>2, <1>3 DEF IInv, RowsAreNumbered
<1>9. NamesAreUnique'
  <2>. SUFFICES ASSUME backend # "demo", table \in {"intents", "tools"}
                PROVE  \A s, t \in rows' : s.tenant = t.tenant /\ s.name = t.name => s = t
    BY <1>3 DEF NamesAreUnique
  <2>1. \A s, t \in rows : s.tenant = t.tenant /\ s.name = t.name => s = t
    BY DEF IInv, StoresKeepTheirRows, NamesAreUnique
  <2>2. \A s \in rows : s # r => ~ (s.tenant = w.tenant /\ s.name = w.name)
    BY <1>2, <1>a, <2>1 DEF Taken
  <2>. QED  BY <1>3, <2>1, <2>2
<1>10. (secrets \subseteq {s.id : s \in rows})'
  <2>1. \A i \in secrets : \E s \in rows : s.id = i
    BY DEF IInv, StoresKeepTheirRows, SecretsMatchFlags
  <2>2. \A i \in secrets' : \E s \in rows' : s.id = i
    BY <1>2, <1>3, <1>5, <2>1
  <2>. QED  BY <2>2
<1>11. backend = "memory" /\ table = "tools" => \A s \in rows' : s.flag = (s.id \in secrets')
  <2>. SUFFICES ASSUME backend = "memory", table = "tools", NEW s \in rows'
                PROVE  s.flag = (s.id \in secrets')
    OBVIOUS
  <2>0. \A k \in rows : k.flag = (k.id \in secrets)
    BY DEF IInv, StoresKeepTheirRows, SecretsMatchFlags
  <2>1. CASE s = w
    <3>1. r.flag \in BOOLEAN
      BY <1>6 DEF StoredRow
    <3>2. NewFlag(r.flag, q) = (r.id \in NewSecrets(r.id, q))
      BY <1>1, <2>0, <3>1, FlagIsSecret
    <3>. QED  BY <1>2, <1>3, <2>1, <3>2
  <2>2. CASE s \in rows /\ s # r
    <3>1. s.id # r.id
      BY <2>2 DEF IInv, RowsAreNumbered
    <3>2. (s.id \in secrets') = (s.id \in secrets)
      BY <1>5, <3>1
    <3>. QED  BY <2>0, <2>2, <3>2
  <2>. QED  BY <1>3, <2>1, <2>2
<1>12. SecretsMatchFlags'
  BY <1>3, <1>10, <1>11 DEF SecretsMatchFlags
<1>13. RoomToCreate'
  <2>1. Configured' = Configured
    BY <1>2, <1>3 DEF Configured
  <2>2. made \in Nat
    BY <1>0 DEF TypeOK
  <2>3. Cardinality(Creating') \in Nat
    BY <1>4, CreatingIsFinite
  <2>. QED  BY <1>3, <1>4, <2>1, <2>2, <2>3, CreatingIsFinite, StoresAssumption
            DEF IInv, RoomToCreate
<1>. QED  BY <1>4, <1>7, <1>8, <1>9, <1>12, <1>13 DEF IInv, StoresKeepTheirRows

\* Rows taken away, with their secrets.
LEMMA EraseKeeps ==
  ASSUME IInv, NEW c \in Clients, NEW a \in {"ok", "none", "failed"}, table # "config",
         NEW gone \in SUBSET rows, Erase(c, gone), Answer(c, a), UNCHANGED fixed
  PROVE  IInv'
<1>0. TypeOK /\ CallsFitTheTable
  BY DEF IInv, StoresKeepTheirRows
<1>1. /\ rows' = rows \ gone /\ secrets' = secrets \ {r.id : r \in gone}
      /\ made' = made /\ backend' = backend /\ table' = table
  BY DEF Erase, fixed
<1>2. /\ calls' \in [Clients -> CallStates] /\ CallsFitTheTable'
      /\ Cardinality(Creating') =< Cardinality(Creating)
  BY <1>0, AnswerKeeps
<1>3. TypeOK'
  BY <1>0, <1>1, <1>2 DEF TypeOK
<1>4. RowsAreNumbered'
  BY <1>1 DEF IInv, RowsAreNumbered
<1>5. NamesAreUnique'
  BY <1>1 DEF IInv, StoresKeepTheirRows, NamesAreUnique
<1>6. \A s \in rows' : s.id \notin {r.id : r \in gone}
  BY <1>1 DEF IInv, RowsAreNumbered
<1>7. SecretsMatchFlags'
  <2>1. \A i \in secrets : \E s \in rows : s.id = i
    BY DEF IInv, StoresKeepTheirRows, SecretsMatchFlags
  <2>2. \A i \in secrets' : \E s \in rows' : s.id = i
    BY <1>1, <2>1
  <2>3. backend = "memory" /\ table = "tools" => \A s \in rows' : s.flag = (s.id \in secrets')
    <3>. SUFFICES ASSUME backend = "memory", table = "tools", NEW s \in rows'
                  PROVE  s.flag = (s.id \in secrets')
      OBVIOUS
    <3>1. s.flag = (s.id \in secrets)
      BY <1>1 DEF IInv, StoresKeepTheirRows, SecretsMatchFlags
    <3>2. (s.id \in secrets') = (s.id \in secrets)
      BY <1>1, <1>6
    <3>. QED  BY <3>1, <3>2
  <2>. QED  BY <1>1, <2>2, <2>3 DEF SecretsMatchFlags
<1>8. RoomToCreate'
  BY <1>0, <1>1, <1>2, CreatingIsFinite, StoresAssumption DEF IInv, RoomToCreate, TypeOK
<1>. QED  BY <1>2, <1>3, <1>4, <1>5, <1>7, <1>8 DEF IInv, StoresKeepTheirRows

\* The calls that change no row.
LEMMA AnswerOnly ==
  ASSUME IInv, NEW c \in Clients, NEW a \in {"ok", "none", "failed"}, Answer(c, a),
         UNCHANGED store, UNCHANGED fixed
  PROVE  IInv'
<1>0. TypeOK /\ CallsFitTheTable
  BY DEF IInv, StoresKeepTheirRows
<1>1. /\ rows' = rows /\ secrets' = secrets /\ made' = made
      /\ backend' = backend /\ table' = table
  BY DEF store, fixed
<1>2. /\ calls' \in [Clients -> CallStates] /\ CallsFitTheTable'
      /\ Cardinality(Creating') =< Cardinality(Creating)
  BY <1>0, AnswerKeeps
<1>3. StoresKeepTheirRows' /\ RowsAreNumbered'
  BY <1>1, <1>2 DEF IInv, StoresKeepTheirRows, TypeOK, NamesAreUnique, SecretsMatchFlags,
     RowsAreNumbered
<1>4. RoomToCreate'
  BY <1>0, <1>1, <1>2, CreatingIsFinite, StoresAssumption
     DEF IInv, RoomToCreate, TypeOK, Configured
<1>. QED  BY <1>2, <1>3, <1>4 DEF IInv

\* A new row: its number is the next, its key is free, and there is room.
LEMMA InsertKeeps ==
  ASSUME IInv, NEW c \in Clients, calls[c].at = "asked", calls[c].q.op \in {"create", "put"},
         ~ Taken(calls[c].q), calls[c].q.op = "put" => Lookup(calls[c].q) = {},
         Insert(c), UNCHANGED fixed
  PROVE  IInv'
<1>. DEFINE q == calls[c].q
            new == [id |-> made + 1, tenant |-> q.tenant, text |-> q.text,
                    flag |-> NewFlag(FALSE, q),
                    name |-> q.name]
<1>0. TypeOK /\ CallsFitTheTable /\ RoomToCreate
  BY DEF IInv, StoresKeepTheirRows
<1>1. /\ q \in Questions /\ q.text \in Texts
      /\ q.op = "put" <=> table = "config"
  BY <1>0, AskedQuestion DEF CallsFitTheTable
<1>2. /\ rows' = rows \cup {new} /\ secrets' = NewSecrets(made + 1, q)
      /\ made' = made + 1 /\ Answer(c, "ok") /\ backend' = backend /\ table' = table
  BY DEF Insert, fixed
<1>3. /\ calls' \in [Clients -> CallStates] /\ CallsFitTheTable'
      /\ c \in Creating => Cardinality(Creating') = Cardinality(Creating) - 1
  BY <1>0, <1>2, AnswerKeeps
<1>4. made \in Nat /\ MaxMade \in Nat /\ Cardinality(Creating) \in Nat /\ Cardinality(Creating') \in Nat
  BY <1>0, StoresAssumption, CreatingIsFinite DEF TypeOK
<1>5. RoomToCreate' /\ made + 1 =< MaxMade
  <2>1. CASE q.op = "create"
    <3>1. c \in Creating
      BY <2>1 DEF Creating
    <3>2. made + Cardinality(Creating) =< MaxMade /\ table # "config"
      BY <1>0, <1>1, <2>1 DEF RoomToCreate
    <3>. QED  BY <1>2, <1>3, <1>4, <3>1, <3>2 DEF RoomToCreate
  <2>2. CASE q.op = "put"
    <3>1. table = "config" /\ made = Cardinality(Configured)
      BY <1>0, <1>1, <2>2 DEF RoomToCreate
    <3>2. q.tenant \notin Configured
      BY <2>2, <3>1 DEF Configured, Lookup, Owned
    <3>3. Configured' = Configured \cup {q.tenant}
      <4>1. new.tenant = q.tenant
        OBVIOUS
      <4>. HIDE DEF new
      <4>. QED  BY <1>2, <4>1 DEF Configured
    <3>4. q.tenant \in Tenants
      BY <1>1 DEF Questions
    <3>5. Cardinality(Configured') = Cardinality(Configured) + 1
      BY <1>0, <3>2, <3>3, ConfiguredIsFinite, FS_AddElement
    <3>6. Configured' \subseteq Tenants
      BY <1>0, <3>3, <3>4, ConfiguredIsFinite
    <3>7. /\ Cardinality(Configured') =< Cardinality(Tenants)
          /\ Cardinality(Tenants) \in Nat /\ Cardinality(Configured') \in Nat
      BY <3>6, StoresAssumption, FS_Subset, FS_CardinalityType
    <3>. QED  BY <1>2, <1>4, <3>1, <3>5, <3>7, StoresAssumption DEF RoomToCreate
  <2>. QED  BY <2>1, <2>2
<1>6. new \in StoredRow /\ new.flag = NewFlag(FALSE, q)
  <2>1. NewFlag(FALSE, q) \in BOOLEAN
    BY <1>1, FlagType
  <2>2. made + 1 \in 1..MaxMade
    BY <1>4, <1>5
  <2>3. q.tenant \in Tenants /\ q.name \in Names \cup {None}
    BY <1>1 DEF Questions
  <2>. QED  BY <1>1, <2>1, <2>2, <2>3 DEF StoredRow
<1>7. new.id = made + 1 /\ new.tenant = q.tenant /\ new.name = q.name
  OBVIOUS
<1>. HIDE DEF q, new
<1>8. /\ secrets' \subseteq secrets \cup {made + 1}
      /\ \A i \in secrets : i # made + 1 => i \in secrets'
  BY <1>1, <1>2, SecretsType
<1>9. TypeOK'
  <2>1. made' \in 0..MaxMade /\ made + 1 \in 1..MaxMade
    BY <1>2, <1>4, <1>5
  <2>2. rows' \subseteq StoredRow
    BY <1>0, <1>2, <1>6 DEF TypeOK
  <2>3. secrets' \subseteq 1..MaxMade
    BY <1>0, <1>8, <2>1 DEF TypeOK
  <2>. QED  BY <1>0, <1>2, <1>3, <2>1, <2>2, <2>3 DEF TypeOK
<1>10. \A r \in rows : r.id \in Nat /\ r.id < made + 1
  BY <1>0, <1>4 DEF IInv, RowsAreNumbered, TypeOK, StoredRow
<1>11. RowsAreNumbered'
  BY <1>2, <1>4, <1>7, <1>10 DEF IInv, RowsAreNumbered
<1>12. NamesAreUnique'
  <2>. SUFFICES ASSUME backend # "demo", table \in {"intents", "tools"}
                PROVE  \A r, s \in rows' : r.tenant = s.tenant /\ r.name = s.name => r = s
    BY <1>2 DEF NamesAreUnique
  <2>1. \A r, s \in rows : r.tenant = s.tenant /\ r.name = s.name => r = s
    BY DEF IInv, StoresKeepTheirRows, NamesAreUnique
  <2>3. \A r \in rows : ~ (r.tenant = new.tenant /\ r.name = new.name)
    BY <1>7 DEF Taken, q
  <2>. QED  BY <1>2, <2>1, <2>3
<1>13. made + 1 \notin secrets
  BY <1>10 DEF IInv, StoresKeepTheirRows, SecretsMatchFlags
<1>14. SecretsMatchFlags'
  <2>1. \A i \in secrets : \E s \in rows : s.id = i
    BY DEF IInv, StoresKeepTheirRows, SecretsMatchFlags
  <2>2. \A i \in secrets' : \E s \in rows' : s.id = i
    BY <1>2, <1>7, <1>8, <2>1
  <2>3. backend = "memory" /\ table = "tools" => \A s \in rows' : s.flag = (s.id \in secrets')
    <3>. SUFFICES ASSUME backend = "memory", table = "tools", NEW s \in rows'
                  PROVE  s.flag = (s.id \in secrets')
      OBVIOUS
    <3>1. CASE s = new
      <4>1. FALSE = (made + 1 \in secrets)
        BY <1>13
      <4>2. NewFlag(FALSE, q) = (made + 1 \in NewSecrets(made + 1, q))
        BY <1>1, <4>1, FlagIsSecret
      <4>. QED  BY <1>2, <1>6, <1>7, <3>1, <4>2
    <3>2. CASE s \in rows
      <4>1. s.flag = (s.id \in secrets)
        BY <3>2 DEF IInv, StoresKeepTheirRows, SecretsMatchFlags
      <4>2. s.id # made + 1
        BY <1>4, <1>10, <3>2
      <4>3. (s.id \in secrets') = (s.id \in secrets)
        BY <1>8, <4>2
      <4>. QED  BY <4>1, <4>3
    <3>. QED  BY <1>2, <3>1, <3>2
  <2>. QED  BY <1>2, <2>2, <2>3 DEF SecretsMatchFlags
<1>. QED  BY <1>3, <1>5, <1>9, <1>11, <1>12, <1>14 DEF IInv, StoresKeepTheirRows

LEMMA LookupInRows == ASSUME NEW q  PROVE Lookup(q) \in SUBSET rows
BY DEF Lookup

\* A new question: a row is asked for only while there is room for it.
LEMMA AskKeeps ==
  ASSUME IInv, NEW c \in Clients, Ask(c)
  PROVE  IInv'
<1>0. TypeOK /\ CallsFitTheTable /\ RoomToCreate
  BY DEF IInv, StoresKeepTheirRows
<1>1. PICK q \in Calls :
        /\ q.op = "create" => made + Cardinality(Creating) < MaxMade
        /\ calls' = [calls EXCEPT ![c] = [at |-> "asked", q |-> q, answer |-> None]]
  BY DEF Ask
<1>2. /\ calls[c].at \in {"idle", "answered"}
      /\ rows' = rows /\ secrets' = secrets /\ made' = made /\ backend' = backend /\ table' = table
  BY DEF Ask, fixed, store
<1>3. made \in Nat /\ MaxMade \in Nat /\ made =< MaxMade
  BY <1>0, StoresAssumption DEF TypeOK
<1>4. /\ q \in Questions
      /\ q.op = "put" <=> table = "config"
      /\ q.op \in {"create", "put"} => q.text \in Texts
  <2>1. Extra \subseteq {"given", "null", "omitted"}
    BY DEF Extra
  <2>2. Targets \subseteq Keys
    BY <1>3 DEF Targets, Keys
  <2>3. CASE table = "config"
    BY <2>1, <2>3 DEF Calls, Questions, Keys
  <2>4. CASE table # "config"
    <3>0. /\ Labels \subseteq Names \cup {None} /\ None \in Keys
          /\ \A op : Left(op) \subseteq {None}
      BY DEF Labels, Left, Keys
    <3>1. CASE q \in Bodies("create")
      <4>1. q.op = "create" /\ q.text \in Texts /\ q.key = None
        BY <3>1 DEF Bodies, Left
      <4>. QED  BY <2>1, <2>4, <3>0, <3>1, <4>1 DEF Questions, Bodies
    <3>2. CASE q \in Bodies("update")
      <4>1. q.op = "update" /\ q.key \in Keys
        BY <2>2, <3>2 DEF Bodies
      <4>. QED  BY <2>1, <2>4, <3>0, <3>2, <4>1 DEF Questions, Bodies
    <3>3. CASE q \in [op : {"delete"}, tenant : Tenants, key : Targets, name : {None},
                      text : {None}, extra : {"null"}]
      BY <2>2, <2>4, <3>3 DEF Questions
    <3>. QED  BY <2>4, <3>1, <3>2, <3>3 DEF Calls
  <2>. QED  BY <2>3, <2>4
<1>5. calls'[c] = [at |-> "asked", q |-> q, answer |-> None]
  BY <1>0, <1>1 DEF TypeOK
<1>6. \A k \in Clients : k # c => calls'[k] = calls[k]
  BY <1>0, <1>1 DEF TypeOK
<1>7. calls' \in [Clients -> CallStates]
  BY <1>0, <1>1, <1>4 DEF TypeOK, CallStates
<1>8. CallsFitTheTable'
  BY <1>0, <1>2, <1>4, <1>5, <1>6 DEF CallsFitTheTable, LooksFirst
<1>9. RoomToCreate'
  <2>1. CASE table = "config"
    BY <1>0, <1>2, <2>1 DEF RoomToCreate, Configured
  <2>2. CASE table # "config" /\ q.op = "create"
    <3>1. Creating' = Creating \cup {c} /\ c \notin Creating
      BY <1>2, <1>5, <1>6, <2>2 DEF Creating
    <3>2. Cardinality(Creating') = Cardinality(Creating) + 1
      BY <3>1, CreatingIsFinite, FS_AddElement
    <3>3. made + Cardinality(Creating) < MaxMade
      BY <1>1, <2>2
    <3>. QED  BY <1>2, <1>3, <2>2, <3>2, <3>3, CreatingIsFinite DEF RoomToCreate
  <2>3. CASE table # "config" /\ q.op # "create"
    <3>1. Creating' = Creating
      BY <1>2, <1>5, <1>6, <2>3 DEF Creating
    <3>. QED  BY <1>0, <1>2, <2>3, <3>1 DEF RoomToCreate
  <2>. QED  BY <2>1, <2>2, <2>3
<1>10. StoresKeepTheirRows' /\ RowsAreNumbered'
  BY <1>2, <1>7 DEF IInv, StoresKeepTheirRows, TypeOK, NamesAreUnique, SecretsMatchFlags,
     RowsAreNumbered
<1>. QED  BY <1>8, <1>9, <1>10 DEF IInv

\* The first half of a Prisma route.
LEMMA LookKeeps ==
  ASSUME IInv, NEW c \in Clients, Look(c)
  PROVE  IInv'
<1>0. TypeOK /\ CallsFitTheTable /\ RoomToCreate
  BY DEF IInv, StoresKeepTheirRows
<1>1. /\ calls[c].at = "asked" /\ calls[c].q.op \in {"update", "delete"}
      /\ LooksFirst /\ table # "config" /\ UNCHANGED store /\ UNCHANGED fixed
  BY DEF Look, LooksFirst
<1>2. CASE calls' = [calls EXCEPT ![c].at = "checked"]
  <2>1. calls[c] \in [at : {"asked", "checked"}, q : Questions, answer : {None}]
    BY <1>0, <1>1, AskedQuestion
  <2>2. /\ [calls[c] EXCEPT !.at = "checked"] \in CallStates
        /\ calls' = [calls EXCEPT ![c] = [calls[c] EXCEPT !.at = "checked"]]
    BY <1>2, <2>1 DEF CallStates
  <2>3. calls' \in [Clients -> CallStates]
    BY <1>0, <2>2 DEF TypeOK
  <2>4. calls'[c].at = "checked" /\ calls'[c].q = calls[c].q
    BY <1>0, <1>2, <2>1 DEF TypeOK
  <2>5. \A k \in Clients : k # c => calls'[k] = calls[k]
    BY <1>0, <1>2 DEF TypeOK
  <2>6. CallsFitTheTable'
    BY <1>0, <1>1, <2>4, <2>5 DEF CallsFitTheTable, LooksFirst, fixed
  <2>7. Creating' = Creating
    BY <1>1, <2>4, <2>5 DEF Creating
  <2>8. RoomToCreate'
    BY <1>0, <1>1, <2>7 DEF RoomToCreate, fixed, store
  <2>9. StoresKeepTheirRows' /\ RowsAreNumbered'
    BY <1>1, <2>3 DEF IInv, StoresKeepTheirRows, TypeOK, NamesAreUnique, SecretsMatchFlags,
       RowsAreNumbered, store, fixed
  <2>. QED  BY <2>6, <2>8, <2>9 DEF IInv
<1>3. CASE \E a \in {"ok", "none", "failed"} : Answer(c, a)
  BY <1>1, <1>3, AnswerOnly
<1>4. Absent \in {"ok", "none", "failed"}
  BY DEF Absent
<1>. QED  BY <1>2, <1>3, <1>4 DEF Look

LEMMA ServeKeeps ==
  ASSUME IInv, NEW c \in Clients, Serve(c)
  PROVE  IInv'
<1>0. TypeOK /\ CallsFitTheTable
  BY DEF IInv, StoresKeepTheirRows
<1>1. CASE Create(c)
  <2>1. /\ calls[c].at = "asked" /\ calls[c].q.op = "create" /\ UNCHANGED fixed
    BY <1>1 DEF Create, Is
  <2>2. CASE Taken(calls[c].q)
    BY <1>1, <2>1, <2>2, AnswerOnly DEF Create
  <2>3. CASE ~ Taken(calls[c].q)
    BY <1>1, <2>1, <2>3, InsertKeeps DEF Create
  <2>. QED  BY <2>2, <2>3
<1>2. CASE PutConfig(c)
  <2>1. /\ calls[c].at = "asked" /\ calls[c].q.op = "put" /\ UNCHANGED fixed
    BY <1>2 DEF PutConfig, Is
  <2>2. table = "config"
    BY <1>0, <2>1 DEF CallsFitTheTable
  <2>3. CASE Lookup(calls[c].q) = {} /\ Insert(c)
    BY <2>1, <2>2, <2>3, InsertKeeps DEF Taken
  <2>4. ASSUME NEW r \in Lookup(calls[c].q),
               rows' = (rows \ {r}) \cup {Written(r, calls[c].q)},
               UNCHANGED <<secrets, made>>, Answer(c, "ok")
        PROVE  IInv'
    <3>1. r \in rows
      BY LookupInRows
    <3>2. Write(c, r)
      BY <2>2, <2>4 DEF Write, NewSecrets
    <3>3. calls[c].q \in Questions /\ ~ KeyTaken(calls[c].q)
      BY <1>0, <2>1, <2>2, AskedQuestion DEF KeyTaken, Taken
    <3>4. NameIsFree(r, calls[c].q)
      BY <1>0, <3>3, UpdateIsFree
    <3>. QED  BY <2>1, <3>1, <3>2, <3>4, WriteKeeps
  <2>. QED  BY <1>2, <2>3, <2>4 DEF PutConfig
<1>3. CASE Update(c)
  <2>1. /\ calls[c].at = "asked" /\ UNCHANGED fixed
    BY <1>3 DEF Update, Is
  <2>2. CASE Lookup(calls[c].q) = {} \/ KeyTaken(calls[c].q)
    BY <1>3, <2>1, <2>2, AnswerOnly DEF Update
  <2>3. ASSUME NEW r \in Lookup(calls[c].q), ~ KeyTaken(calls[c].q), Write(c, r)
        PROVE  IInv'
    <3>1. r \in rows /\ calls[c].q \in Questions
      BY <1>0, <2>1, LookupInRows, AskedQuestion
    <3>2. NameIsFree(r, calls[c].q)
      BY <1>0, <2>3, <3>1, UpdateIsFree
    <3>. QED  BY <2>1, <2>3, <3>1, <3>2, WriteKeeps
  <2>. QED  BY <1>3, <2>2, <2>3 DEF Update
<1>4. CASE Delete(c)
  <2>1. /\ calls[c].at = "asked" /\ calls[c].q.op = "delete" /\ UNCHANGED fixed
        /\ Erase(c, Lookup(calls[c].q))
        /\ Answer(c, IF Lookup(calls[c].q) = {} THEN Absent ELSE "ok")
    BY <1>4 DEF Delete, Is
  <2>2. table # "config"
    BY <1>0, <2>1 DEF CallsFitTheTable
  <2>3. (IF Lookup(calls[c].q) = {} THEN Absent ELSE "ok") \in {"ok", "none", "failed"}
    BY DEF Absent
  <2>. QED  BY <2>1, <2>2, <2>3, LookupInRows, EraseKeeps
<1>5. CASE Look(c)
  BY <1>5, LookKeeps
<1>6. CASE Finish(c)
  <2>. DEFINE here == {r \in rows : r.id = calls[c].q.key}
  <2>1. /\ calls[c].at = "checked" /\ UNCHANGED fixed
    BY <1>6 DEF Finish
  <2>2. LooksFirst /\ table # "config"
    BY <1>0, <2>1 DEF CallsFitTheTable, LooksFirst
  <2>3. CASE here = {}
    BY <1>6, <2>1, <2>3, AnswerOnly DEF Finish
  <2>4. CASE Erase(c, here) /\ Answer(c, "ok")
    BY <2>1, <2>2, <2>4, EraseKeeps
  <2>5. ASSUME NEW r \in here, Write(c, r)
        PROVE  IInv'
    <3>1. NameIsFree(r, calls[c].q)
      BY <1>0, <2>1, <2>2, FinishIsFree
    <3>. QED  BY <2>1, <2>5, <3>1, WriteKeeps
  <2>. QED  BY <1>6, <2>3, <2>4, <2>5 DEF Finish
<1>. QED  BY <1>1, <1>2, <1>3, <1>4, <1>5, <1>6 DEF Serve

LEMMA InitKeeps == Init => IInv
<1>. SUFFICES ASSUME Init  PROVE IInv
  OBVIOUS
<1>1. calls \in [Clients -> CallStates] /\ \A c \in Clients : calls[c].at = "idle"
  BY DEF Init, Idle, CallStates
<1>2. StoresKeepTheirRows /\ RowsAreNumbered /\ CallsFitTheTable
  BY <1>1, StoresAssumption DEF Init, StoresKeepTheirRows, TypeOK, NamesAreUnique,
     SecretsMatchFlags, RowsAreNumbered, CallsFitTheTable
<1>3. Creating = {} /\ Configured = {}
  BY <1>1 DEF Init, Creating, Configured
<1>4. RoomToCreate
  BY <1>3, FS_EmptySet, StoresAssumption DEF Init, RoomToCreate
<1>. QED  BY <1>2, <1>4 DEF IInv

\* The strengthened invariant holds throughout.
THEOREM Invariance == Spec => []IInv
<1>1. IInv /\ [Next]_vars => IInv'
  <2>. SUFFICES ASSUME IInv, [Next]_vars  PROVE IInv'
    OBVIOUS
  <2>1. CASE UNCHANGED vars
    BY <2>1 DEF vars, IInv, StoresKeepTheirRows, TypeOK, NamesAreUnique, SecretsMatchFlags,
       RowsAreNumbered, CallsFitTheTable, LooksFirst, RoomToCreate, Configured, Creating
  <2>. QED  BY <2>1, AskKeeps, ServeKeeps DEF Next
<1>. QED  BY <1>1, InitKeeps, PTL DEF Spec

\* Two intents of a tenant never share a key on the servers, nor two tools a name,
\* and the map of secrets tells the same as the flags the console shows, for any
\* number of clients, tenants and rows (tenant-in-memory.ts, tenant-prisma.ts).
THEOREM RowsAreKept == Spec => []StoresKeepTheirRows
<1>1. IInv => StoresKeepTheirRows
  BY DEF IInv
<1>. QED  BY <1>1, Invariance, PTL

-----------------------------------------------------------------------------
(* Refinement: what a route does between lookup and write happens at one     *)
(* moment, on a row of the caller's tenant.                                  *)

LEMMA OwnedStep ==
  ASSUME IInv, LookedUpIsOwned, [Next]_vars
  PROVE  LookedUpIsOwned'
<1>0. TypeOK /\ CallsFitTheTable
  BY DEF IInv, StoresKeepTheirRows
<1>1. CASE UNCHANGED vars
  BY <1>1 DEF vars, LookedUpIsOwned, LooksFirst
<1>2. ASSUME NEW c \in Clients, Ask(c) \/ Serve(c)
      PROVE  LookedUpIsOwned'
  <2>1. backend' = backend /\ table' = table
    BY <1>2 DEF Ask, Serve, Create, PutConfig, Update, Delete, Look, Finish, fixed
  <2>2. \A k \in Clients : k # c => calls'[k] = calls[k]
    BY <1>0, <1>2 DEF Ask, Serve, Create, PutConfig, Update, Delete, Look, Finish, Insert, Write,
       Answer, TypeOK
  <2>3. made \in Nat /\ \A r \in rows : r.id \in Nat
    BY <1>0 DEF TypeOK, StoredRow
  <2>4. \A r \in rows : Written(r, calls[c].q).id = r.id /\ Written(r, calls[c].q).tenant = r.tenant
    <3>. TAKE r \in rows
    <3>1. r \in StoredRow
      BY <1>0 DEF TypeOK
    <3>. QED  BY <3>1 DEF Written, StoredRow
  <2>5. /\ made' \in {made, made + 1}
        /\ \A r \in rows' : \/ r.id = made + 1
                            \/ \E s \in rows : s.id = r.id /\ s.tenant = r.tenant
    <3>1. CASE UNCHANGED store
      BY <3>1 DEF store
    <3>2. CASE Insert(c)
      <4>. DEFINE q == calls[c].q
                  new == [id |-> made + 1, tenant |-> q.tenant, text |-> q.text,
                          flag |-> NewFlag(FALSE, q),
                          name |-> q.name]
      <4>1. rows' = rows \cup {new} /\ made' = made + 1
        BY <3>2 DEF Insert
      <4>2. new.id = made + 1
        OBVIOUS
      <4>. HIDE DEF new
      <4>. QED  BY <4>1, <4>2
    <3>3. ASSUME NEW r \in rows, rows' = (rows \ {r}) \cup {Written(r, calls[c].q)}, made' = made
          PROVE  \A n \in rows' : \E s \in rows : s.id = n.id /\ s.tenant = n.tenant
      BY <2>4, <3>3
    <3>4. CASE rows' \subseteq rows /\ made' = made
      BY <3>4
    <3>5. CASE Ask(c) \/ Look(c)
      BY <3>1, <3>5 DEF Ask, Look
    <3>6. CASE Create(c)
      BY <3>1, <3>2, <3>6 DEF Create
    <3>7. CASE PutConfig(c)
      BY <3>2, <3>3, <3>7 DEF PutConfig, Lookup
    <3>8. CASE Update(c)
      BY <3>1, <3>3, <3>8 DEF Update, Lookup, Write
    <3>9. CASE Delete(c)
      BY <3>4, <3>9 DEF Delete, Erase
    <3>10. CASE Finish(c)
      BY <3>1, <3>3, <3>4, <3>10 DEF Finish, Erase, Write
    <3>. QED  BY <1>2, <3>5, <3>6, <3>7, <3>8, <3>9, <3>10 DEF Serve
  <2>6. ASSUME NEW k \in Clients, calls'[k].at = "checked",
               LooksFirst, calls'[k].q.key \in 1..made,
               \A r \in rows : r.id = calls'[k].q.key => r.tenant = calls'[k].q.tenant
        PROVE  /\ LooksFirst' /\ calls'[k].q.key \in 1..made'
               /\ \A r \in rows' : r.id = calls'[k].q.key => r.tenant = calls'[k].q.tenant
    <3>1. LooksFirst' /\ calls'[k].q.key \in 1..made'
      BY <2>1, <2>3, <2>5, <2>6 DEF LooksFirst
    <3>2. calls'[k].q.key # made + 1
      BY <2>3, <2>6
    <3>. QED  BY <2>5, <2>6, <3>1, <3>2
  <2>7. ASSUME calls'[c].at = "checked"
        PROVE  /\ LooksFirst /\ calls'[c].q.key \in 1..made
               /\ \A r \in rows : r.id = calls'[c].q.key => r.tenant = calls'[c].q.tenant
    <3>1. (\A a : ~ Answer(c, a)) /\ ~ Ask(c)
      BY <1>0, <2>7 DEF Answer, Ask, TypeOK
    <3>2. Look(c)
      BY <1>2, <3>1 DEF Serve, Create, PutConfig, Update, Delete, Finish, Insert, Write
    <3>3. LooksFirst /\ Lookup(calls[c].q) # {} /\ calls' = [calls EXCEPT ![c].at = "checked"]
      BY <3>1, <3>2 DEF Look
    <3>4. calls[c] \in [at : {"asked", "checked"}, q : Questions, answer : {None}]
      BY <1>0, <3>2, AskedQuestion DEF Look
    <3>5. calls'[c].q = calls[c].q
      BY <1>0, <3>3, <3>4 DEF TypeOK
    <3>6. PICK r \in rows : r.tenant = calls[c].q.tenant /\ r.id = calls[c].q.key
      BY <3>3 DEF LooksFirst, Lookup, Owned
    <3>7. r.id =< made /\ r.id \in 1..MaxMade /\ made \in Nat
      BY <1>0, <3>6 DEF IInv, RowsAreNumbered, TypeOK, StoredRow
    <3>8. r.id \in 1..made
      BY <3>7, StoresAssumption
    <3>9. \A s \in rows : s.id = r.id => s = r
      BY <3>6 DEF IInv, RowsAreNumbered
    <3>. QED  BY <3>3, <3>5, <3>6, <3>8, <3>9
  <2>8. ASSUME NEW k \in Clients, calls'[k].at = "checked", k # c
        PROVE  /\ LooksFirst /\ calls'[k].q.key \in 1..made
               /\ \A r \in rows : r.id = calls'[k].q.key => r.tenant = calls'[k].q.tenant
    BY <2>2, <2>8 DEF LookedUpIsOwned
  <2>. QED  BY <2>6, <2>7, <2>8 DEF LookedUpIsOwned
<1>. QED  BY <1>1, <1>2 DEF Next

\* A call that was asked is one to RowStore too; its answer is the same.
LEMMA SeenAsked ==
  ASSUME TypeOK, NEW c \in Clients, calls[c].at \in {"asked", "checked"}
  PROVE  Seen[c].at = "asked" /\ Seen[c].q = calls[c].q
<1>1. calls[c] \in [at : {"asked", "checked"}, q : Questions, answer : {None}]
  BY AskedQuestion
<1>. QED  BY <1>1 DEF Seen

LEMMA SeenAnswer ==
  ASSUME TypeOK, NEW c \in Clients, NEW a \in {"ok", "none", "failed"}, Answer(c, a)
  PROVE  RS!Outcome(c, a)
<1>1. \A k \in Clients : k # c => calls'[k] = calls[k]
  BY DEF Answer, TypeOK
<1>2. calls'[c] = [at |-> "answered", q |-> None, answer |-> a]
  BY DEF Answer, TypeOK
<1>3. \A k \in Clients : k # c => Seen'[k] = Seen[k]
  BY <1>1 DEF Seen
<1>4. Seen'[c] = [at |-> "answered", q |-> None, answer |-> a]
  BY <1>2 DEF Seen
<1>5. Seen' \in [Clients -> {Seen'[k] : k \in Clients}] /\ Seen \in [Clients -> {Seen[k] : k \in Clients}]
  BY DEF Seen
<1>. QED  BY <1>3, <1>4, <1>5 DEF RS!Outcome

LEMMA ListingKeys ==
  ASSUME NEW r
  PROVE  /\ Listing(r).id = r.id /\ Listing(r).tenant = r.tenant /\ Listing(r).name = r.name
         /\ Listing(r).text = r.text /\ Listing(r).extra = HasSecret(r)
BY DEF Listing

LEMMA FoundIsLookup ==
  ASSUME NEW q
  PROVE  /\ RS!Found(q) = {Listing(r) : r \in Lookup(q)}
         /\ RS!Taken(q) <=> Taken(q)
<1>1. \A r : RS!Means(Listing(r), q) <=>
               Owned(r, q) /\ CASE table = "intents" -> r.name = q.key
                                [] table = "config"  -> TRUE
                                [] OTHER             -> r.id = q.key
  BY ListingKeys DEF RS!Means, Owned
<1>2. RS!Found(q) = {Listing(r) : r \in Lookup(q)}
  BY <1>1 DEF RS!Found, Lookup, Listed
<1>3. RS!Taken(q) <=> Taken(q)
  BY ListingKeys DEF RS!Taken, Taken, Listed
<1>. QED  BY <1>2, <1>3

\* The optional field after a write is one that RowStore allows.
LEMMA ExtraAllowed ==
  ASSUME NEW old \in BOOLEAN, NEW q \in Questions
  PROVE  NewFlag(old, q) \in RS!Extras(old, q)
<1>1. q.extra \in {"given", "null", "omitted"}
  BY DEF Questions
<1>. QED  BY <1>1 DEF NewFlag, RS!Extras

LEMMA SecretAllowed ==
  ASSUME NEW id, NEW q \in Questions, backend = "prisma", table = "tools"
  PROVE  (id \in NewSecrets(id, q)) \in RS!Extras(id \in secrets, q)
<1>1. q.extra \in {"given", "null", "omitted"}
  BY DEF Questions
<1>2. CASE q.extra = "given"
  <2>1. (id \in NewSecrets(id, q)) = TRUE
    BY <1>2 DEF NewSecrets
  <2>. QED  BY <1>2, <2>1 DEF RS!Extras
<1>3. CASE q.extra = "null"
  <2>1. (id \in NewSecrets(id, q)) = FALSE
    BY <1>3 DEF NewSecrets
  <2>. QED  BY <1>3, <2>1 DEF RS!Extras
<1>4. CASE q.extra = "omitted"
  <2>1. NewSecrets(id, q) = secrets
    BY <1>4 DEF NewSecrets
  <2>. QED  BY <1>4, <2>1 DEF RS!Extras
<1>. QED  BY <1>1, <1>2, <1>3, <1>4

\* The list after a write: one row of it, patched.
LEMMA ListedWrite ==
  ASSUME IInv, NEW r \in rows, NEW q \in Questions, NEW w, w = Written(r, q), NameIsFree(r, q),
         rows' = (rows \ {r}) \cup {w}, secrets' = NewSecrets(r.id, q), UNCHANGED fixed
  PROVE  \E e \in RS!Extras(HasSecret(r), q), n \in RS!NewNames(Listing(r), q) :
           Listed' = (Listed \ {Listing(r)}) \cup {RS!Patched(Listing(r), q, e, n)}
<1>0. TypeOK /\ backend' = backend /\ table' = table
  BY DEF IInv, StoresKeepTheirRows, fixed
<1>1. r \in StoredRow
  BY <1>0 DEF TypeOK
<1>2. /\ w.id = r.id /\ w.tenant = r.tenant
      /\ w.text = (IF q.text = None THEN r.text ELSE q.text)
      /\ w.flag = NewFlag(r.flag, q)
  BY <1>1 DEF Written, StoredRow
<1>3. \A s \in rows : s # r => s.id # r.id
  BY DEF IInv, RowsAreNumbered
<1>4. /\ secrets' \subseteq secrets \cup {r.id}
      /\ \A i \in secrets : i # r.id => i \in secrets'
  BY SecretsType
<1>. DEFINE H(s) == IF backend = "prisma" /\ table = "tools" THEN s.id \in secrets' ELSE s.flag
            L(s) == [id |-> s.id, tenant |-> s.tenant, name |-> s.name, text |-> s.text,
                     extra |-> H(s)]
<1>5. Listed' = {L(s) : s \in rows'}
  BY <1>0 DEF Listed, Listing, HasSecret
<1>6. \A s \in rows : s # r => L(s) = Listing(s)
  <2>. TAKE s \in rows
  <2>. HAVE s # r
  <2>1. (s.id \in secrets') = (s.id \in secrets)
    BY <1>3, <1>4
  <2>. QED  BY <2>1 DEF Listing, HasSecret
<1>7. H(w) \in RS!Extras(HasSecret(r), q)
  <2>1. CASE backend = "prisma" /\ table = "tools"
    <3>1. (r.id \in NewSecrets(r.id, q)) \in RS!Extras(r.id \in secrets, q)
      BY <2>1, SecretAllowed
    <3>. QED  BY <1>2, <2>1, <3>1 DEF HasSecret
  <2>2. CASE ~ (backend = "prisma" /\ table = "tools")
    <3>1. r.flag \in BOOLEAN
      BY <1>1 DEF StoredRow
    <3>2. NewFlag(r.flag, q) \in RS!Extras(r.flag, q)
      BY <3>1, ExtraAllowed
    <3>. QED  BY <1>2, <2>2, <3>2 DEF HasSecret
  <2>. QED  BY <2>1, <2>2
<1>. HIDE DEF H
<1>a. w.name \in RS!NewNames(Listing(r), q)
  BY ListingKeys, FoundIsLookup DEF NameIsFree, RS!NewNames
<1>8. L(w) = RS!Patched(Listing(r), q, H(w), w.name)
  BY <1>2, ListingKeys DEF RS!Patched
<1>9. \A s \in rows : s # r => Listing(s) # Listing(r)
  BY <1>3, ListingKeys
<1>10. Listed = {Listing(s) : s \in rows}
  BY DEF Listed
<1>. HIDE DEF L
<1>11. Listed' = (Listed \ {Listing(r)}) \cup {L(w)}
  <2>1. \A s \in rows : s # r => L(s) \in Listed /\ L(s) # Listing(r) /\ s \in rows'
    BY <1>6, <1>9, <1>10
  <2>2. {L(s) : s \in rows'} \subseteq (Listed \ {Listing(r)}) \cup {L(w)}
    BY <2>1
  <2>3. (Listed \ {Listing(r)}) \cup {L(w)} \subseteq {L(s) : s \in rows'}
    <3>1. L(w) \in {L(s) : s \in rows'}
      OBVIOUS
    <3>2. ASSUME NEW x \in Listed \ {Listing(r)}  PROVE x \in {L(s) : s \in rows'}
      <4>1. PICK s \in rows : x = Listing(s)
        BY <1>10, <3>2
      <4>. QED  BY <1>6, <2>1, <4>1
    <3>. QED  BY <3>1, <3>2
  <2>. QED  BY <1>5, <2>2, <2>3
<1>. QED  BY <1>7, <1>a, <1>8, <1>11

\* The list after rows were taken away.
LEMMA ListedErase ==
  ASSUME IInv, NEW c \in Clients, NEW q, Erase(c, Lookup(q)), UNCHANGED fixed
  PROVE  Listed' = Listed \ RS!Found(q) /\ made' = made
<1>1. /\ rows' = rows \ Lookup(q) /\ secrets' = secrets \ {r.id : r \in Lookup(q)}
      /\ made' = made /\ backend' = backend /\ table' = table
  BY DEF Erase, fixed
<1>2. RS!Found(q) = {Listing(r) : r \in Lookup(q)} /\ Lookup(q) \in SUBSET rows
  BY FoundIsLookup, LookupInRows
<1>3. \A s \in rows, r \in Lookup(q) : s \notin Lookup(q) => s.id # r.id
  BY <1>2 DEF IInv, RowsAreNumbered
<1>. DEFINE L(s) == [id |-> s.id, tenant |-> s.tenant, name |-> s.name, text |-> s.text,
              extra |-> IF backend = "prisma" /\ table = "tools" THEN s.id \in secrets' ELSE s.flag]
<1>4. Listed' = {L(s) : s \in rows'}
  BY <1>1 DEF Listed, Listing, HasSecret
<1>5. \A s \in rows' : L(s) = Listing(s)
  <2>. TAKE s \in rows'
  <2>1. (s.id \in secrets') = (s.id \in secrets)
    BY <1>1, <1>2, <1>3
  <2>. QED  BY <2>1 DEF Listing, HasSecret
<1>6. \A s \in rows' : Listing(s) \in Listed \ RS!Found(q)
  <2>. TAKE s \in rows'
  <2>1. \A r \in Lookup(q) : Listing(s) # Listing(r)
    BY <1>1, <1>2, <1>3, ListingKeys
  <2>. QED  BY <1>1, <1>2, <2>1 DEF Listed
<1>7. \A x \in Listed \ RS!Found(q) : \E s \in rows' : x = Listing(s)
  BY <1>1, <1>2 DEF Listed
<1>. HIDE DEF L
<1>. QED  BY <1>1, <1>4, <1>5, <1>6, <1>7

\* The list after a row was added.
LEMMA ListedInsert ==
  ASSUME IInv, NEW c \in Clients, calls[c].at = "asked", Insert(c), UNCHANGED fixed
  PROVE  \E e \in RS!Extras(FALSE, calls[c].q) : Listed' = Listed \cup {RS!New(calls[c].q, e)}
<1>. DEFINE q == calls[c].q
            new == [id |-> made + 1, tenant |-> q.tenant, text |-> q.text,
                    flag |-> NewFlag(FALSE, q),
                    name |-> q.name]
            L(s) == [id |-> s.id, tenant |-> s.tenant, name |-> s.name, text |-> s.text,
              extra |-> IF backend = "prisma" /\ table = "tools" THEN s.id \in secrets' ELSE s.flag]
<1>0. TypeOK /\ q \in Questions
  BY AskedQuestion DEF IInv, StoresKeepTheirRows
<1>1. /\ rows' = rows \cup {new} /\ secrets' = NewSecrets(made + 1, q)
      /\ backend' = backend /\ table' = table
  BY DEF Insert, fixed
<1>2. /\ new.id = made + 1 /\ new.tenant = q.tenant /\ new.text = q.text
      /\ new.flag = NewFlag(FALSE, q)
      /\ new.name = q.name
  OBVIOUS
<1>. HIDE DEF q, new
<1>3. made \in Nat /\ \A r \in rows : r.id \in Nat /\ r.id < made + 1
  BY <1>0, StoresAssumption DEF IInv, RowsAreNumbered, TypeOK, StoredRow
<1>4. made + 1 \notin secrets
  BY <1>3 DEF IInv, StoresKeepTheirRows, SecretsMatchFlags
<1>5. /\ secrets' \subseteq secrets \cup {made + 1}
      /\ \A i \in secrets : i # made + 1 => i \in secrets'
  BY <1>0, <1>1, SecretsType
<1>6. Listed' = {L(s) : s \in rows'}
  BY <1>1 DEF Listed, Listing, HasSecret
<1>7. \A s \in rows : L(s) = Listing(s)
  <2>. TAKE s \in rows
  <2>1. s.id # made + 1
    BY <1>3
  <2>2. (s.id \in secrets') = (s.id \in secrets)
    BY <1>5, <2>1
  <2>. QED  BY <2>2 DEF Listing, HasSecret
<1>8. L(new).extra \in RS!Extras(FALSE, q)
  <2>1. CASE backend = "prisma" /\ table = "tools"
    <3>1. (made + 1 \in secrets) = FALSE
      BY <1>4
    <3>2. (made + 1 \in NewSecrets(made + 1, q)) \in RS!Extras(made + 1 \in secrets, q)
      BY <1>0, <2>1, SecretAllowed
    <3>. QED  BY <1>1, <1>2, <2>1, <3>1, <3>2
  <2>2. CASE ~ (backend = "prisma" /\ table = "tools")
    <3>1. NewFlag(FALSE, q) \in RS!Extras(FALSE, q)
      BY <1>0, ExtraAllowed
    <3>. QED  BY <1>2, <2>2, <3>1
  <2>. QED  BY <2>1, <2>2
<1>9. L(new) = RS!New(q, L(new).extra)
  BY <1>2 DEF RS!New
<1>. HIDE DEF L
<1>10. Listed' = Listed \cup {L(new)}
  BY <1>1, <1>6, <1>7 DEF Listed
<1>. QED  BY <1>8, <1>9, <1>10 DEF q

\* Every step of a store is a step of RowStore, or shows nothing.
LEMMA ServeRefines ==
  ASSUME IInv, LookedUpIsOwned, NEW c \in Clients, Serve(c)
  PROVE  RS!Act(c) \/ UNCHANGED <<backend, table, Listed, made, Seen>>
<1>0. TypeOK /\ CallsFitTheTable
  BY DEF IInv, StoresKeepTheirRows
<1>. DEFINE q == calls[c].q
<1>1. /\ calls[c].at \in {"asked", "checked"} /\ backend' = backend /\ table' = table
      /\ UNCHANGED fixed
  BY DEF Serve, Create, PutConfig, Update, Delete, Look, Finish, Is, fixed
<1>2. /\ Seen[c].at = "asked" /\ Seen[c].q = q /\ q \in Questions
  BY <1>0, <1>1, SeenAsked, AskedQuestion
<1>3. \A a \in {"ok", "none", "failed"} : Answer(c, a) => RS!Outcome(c, a)
  BY <1>0, SeenAnswer
<1>4. RS!Found(q) = {Listing(r) : r \in Lookup(q)} /\ (RS!Taken(q) <=> Taken(q))
  BY FoundIsLookup
<1>5. Absent \in {"ok", "none", "failed"} /\ (Absent = "ok" => backend = "demo")
  BY DEF Absent
<1>6. ASSUME UNCHANGED store  PROVE Listed' = Listed /\ made' = made
  BY <1>1, <1>6 DEF store, Listed, Listing, HasSecret
<1>. HIDE DEF q
\* Nothing found: refused, or nothing taken away.
<1>7. ASSUME UNCHANGED store, Answer(c, "failed"),
             \/ q.op = "create" /\ Taken(q)
             \/ q.op = "update" /\ (Lookup(q) = {} \/ KeyTaken(q))
      PROVE  RS!Act(c)
  <2>1. KeyTaken(q) /\ Lookup(q) # {} => RS!Clash(q)
    <3>. SUFFICES ASSUME KeyTaken(q), NEW r \in Lookup(q)  PROVE RS!Clash(q)
      BY <1>4
    <3>1. table = "intents" /\ q.name # q.key /\ RS!Taken(q)
      BY <1>4 DEF KeyTaken, Taken, Renames
    <3>2. Listing(r) \in RS!Found(q) /\ Listing(r).name = q.key
      BY <1>4, <3>1, ListingKeys DEF Lookup
    <3>. QED  BY <3>1, <3>2 DEF RS!Clash
  <2>. QED  BY <1>1, <1>2, <1>3, <1>4, <1>6, <1>7, <2>1 DEF RS!Act, RS!Refuse
<1>8. ASSUME q.op = "delete", NEW a \in {"ok", "none", "failed"}, Answer(c, a),
             Listed' = Listed \ RS!Found(q), made' = made,
             \/ a = "ok" /\ (Lookup(q) # {} \/ backend = "demo")
             \/ a # "ok" /\ Lookup(q) = {}
      PROVE  RS!Act(c)
  BY <1>1, <1>2, <1>3, <1>4, <1>8 DEF RS!Act, RS!Remove
<1>9. ASSUME NEW r \in Lookup(q), rows' = (rows \ {r}) \cup {Written(r, q)},
             secrets' = NewSecrets(r.id, q), made' = made, Answer(c, "ok"),
             q.op \in {"update", "put"}, NameIsFree(r, q)
      PROVE  RS!Act(c)
  <2>1. r \in rows
    BY LookupInRows
  <2>2. PICK w : w = Written(r, q)
    OBVIOUS
  <2>3. \E e \in RS!Extras(HasSecret(r), q), n \in RS!NewNames(Listing(r), q) :
          Listed' = (Listed \ {Listing(r)}) \cup {RS!Patched(Listing(r), q, e, n)}
    BY <1>1, <1>2, <1>9, <2>1, <2>2, ListedWrite
  <2>4. Listing(r) \in RS!Found(q) /\ Listing(r).extra = HasSecret(r)
    BY <1>4, ListingKeys
  <2>5. RS!Change(c)
    BY <1>2, <1>3, <1>9, <2>3, <2>4 DEF RS!Change
  <2>. QED  BY <1>1, <1>2, <1>9, <2>5 DEF RS!Act
<1>10. ASSUME Insert(c), calls[c].at = "asked",
              (q.op = "create" /\ ~ Taken(q)) \/ (q.op = "put" /\ Lookup(q) = {})
       PROVE  RS!Act(c)
  <2>1. \E e \in RS!Extras(FALSE, q) : Listed' = Listed \cup {RS!New(q, e)}
    BY <1>1, <1>10, ListedInsert DEF q
  <2>2. made' = made + 1 /\ Answer(c, "ok")
    BY <1>10 DEF Insert
  <2>3. RS!Add(c)
    BY <1>2, <1>3, <2>1, <2>2 DEF RS!Add
  <2>. QED  BY <1>1, <1>2, <1>4, <1>10, <2>3 DEF RS!Act
<1>11. CASE Create(c)
  <2>1. calls[c].at = "asked" /\ q.op = "create"
    BY <1>11 DEF Create, Is, q
  <2>2. CASE Taken(q)
    <3>1. UNCHANGED store /\ Answer(c, "failed")
      BY <1>11, <2>2 DEF Create, q
    <3>. QED  BY <1>7, <2>1, <2>2, <3>1
  <2>3. CASE ~ Taken(q)
    <3>1. Insert(c)
      BY <1>11, <2>3 DEF Create, q
    <3>. QED  BY <1>10, <2>1, <2>3, <3>1
  <2>. QED  BY <2>2, <2>3
<1>12. CASE PutConfig(c)
  <2>1. calls[c].at = "asked" /\ q.op = "put"
    BY <1>12 DEF PutConfig, Is, q
  <2>2. table = "config"
    BY <1>0, <2>1 DEF CallsFitTheTable, q
  <2>3. \A r : NewSecrets(r.id, q) = secrets
    BY <2>2 DEF NewSecrets
  <2>4. ~ KeyTaken(q)
    BY <2>2 DEF KeyTaken, Taken
  <2>5. \A r \in Lookup(q) : NameIsFree(r, q)
    BY <1>0, <1>2, <2>4, UpdateIsFree
  <2>. QED  BY <1>9, <1>10, <1>12, <2>1, <2>3, <2>5 DEF PutConfig, q
<1>13. CASE Update(c)
  <2>1. ~ KeyTaken(q) => \A r \in Lookup(q) : NameIsFree(r, q)
    BY <1>0, <1>2, UpdateIsFree
  <2>2. q.op = "update"
    BY <1>13 DEF Update, Is, q
  <2>3. CASE Lookup(q) = {} \/ KeyTaken(q)
    BY <1>7, <1>13, <2>2, <2>3 DEF Update, q
  <2>4. CASE ~ (Lookup(q) = {} \/ KeyTaken(q))
    BY <1>9, <1>13, <2>1, <2>2, <2>4 DEF Update, Write, q
  <2>. QED  BY <2>3, <2>4
<1>14. CASE Delete(c)
  <2>1. /\ q.op = "delete" /\ Erase(c, Lookup(q))
        /\ Answer(c, IF Lookup(q) = {} THEN Absent ELSE "ok")
    BY <1>14 DEF Delete, Is, q
  <2>2. Listed' = Listed \ RS!Found(q) /\ made' = made
    BY <1>1, <2>1, ListedErase
  <2>3. CASE Lookup(q) = {}
    BY <1>5, <1>8, <2>1, <2>2, <2>3
  <2>4. CASE Lookup(q) # {}
    BY <1>8, <2>1, <2>2, <2>4
  <2>. QED  BY <2>3, <2>4
<1>15. CASE Look(c)
  <2>1. UNCHANGED store /\ q.op \in {"update", "delete"} /\ calls[c].at = "asked"
    BY <1>15 DEF Look, q
  <2>2. CASE Lookup(q) # {}
    <3>1. calls' = [calls EXCEPT ![c].at = "checked"]
      BY <1>15, <2>2 DEF Look, q
    <3>2. calls[c] \in [at : {"asked", "checked"}, q : Questions, answer : {None}]
      BY <1>0, <2>1, AskedQuestion
    <3>3. \A k \in Clients : k # c => calls'[k] = calls[k]
      BY <1>0, <3>1 DEF TypeOK
    <3>4. calls'[c] = [calls[c] EXCEPT !.at = "checked"]
      BY <1>0, <3>1 DEF TypeOK
    <3>5. calls'[c].at = "checked" /\ [calls'[c] EXCEPT !.at = "asked"] = calls[c]
      BY <2>1, <3>2, <3>4
    <3>6. \A k \in Clients : (IF calls'[k].at = "checked" THEN [calls'[k] EXCEPT !.at = "asked"]
                                                          ELSE calls'[k]) = Seen[k]
      BY <2>1, <3>3, <3>5 DEF Seen
    <3>7. Seen' = Seen
      BY <3>6 DEF Seen
    <3>. QED  BY <1>1, <1>6, <2>1, <3>7
  <2>3. CASE Lookup(q) = {}
    <3>1. RS!Found(q) = {}
      BY <1>4, <2>3
    <3>2. Listed' = Listed \ RS!Found(q) /\ made' = made
      BY <1>6, <2>1, <3>1
    <3>3. Answer(c, IF q.op = "update" THEN "failed" ELSE Absent)
      BY <1>15, <2>3 DEF Look, q
    <3>4. Absent = "ok" => backend = "demo"
      BY <1>5
    <3>5. CASE q.op = "update"
      BY <1>7, <2>1, <2>3, <3>3, <3>5
    <3>6. CASE q.op = "delete"
      BY <1>5, <1>8, <2>3, <3>2, <3>3, <3>6
    <3>. QED  BY <2>1, <3>5, <3>6
  <2>. QED  BY <2>2, <2>3
<1>16. CASE Finish(c)
  <2>. DEFINE here == {r \in rows : r.id = q.key}
  <2>1. calls[c].at = "checked" /\ q.op \in {"update", "delete"}
    BY <1>0, <1>16 DEF Finish, CallsFitTheTable, q
  <2>2. LooksFirst /\ \A r \in rows : r.id = q.key => r.tenant = q.tenant
    BY <2>1 DEF LookedUpIsOwned, q
  <2>3. Lookup(q) = here
    BY <2>2 DEF Lookup, Owned, LooksFirst
  <2>4. CASE here = {}
    <3>1. UNCHANGED store /\ Answer(c, "failed")
      BY <1>16, <2>4 DEF Finish, q
    <3>2. Listed' = Listed \ RS!Found(q) /\ made' = made
      BY <1>4, <1>6, <2>3, <2>4, <3>1
    <3>3. CASE q.op = "update"
      BY <1>7, <2>3, <2>4, <3>1, <3>3
    <3>4. CASE q.op = "delete"
      BY <1>8, <2>3, <2>4, <3>1, <3>2, <3>4
    <3>. QED  BY <2>1, <3>3, <3>4
  <2>5. CASE here # {} /\ q.op = "delete"
    <3>1. Erase(c, Lookup(q)) /\ Answer(c, "ok")
      BY <1>16, <2>3, <2>5 DEF Finish, q
    <3>2. Listed' = Listed \ RS!Found(q) /\ made' = made
      BY <1>1, <3>1, ListedErase
    <3>. QED  BY <1>8, <2>3, <2>5, <3>1, <3>2
  <2>6. CASE here # {} /\ q.op = "update"
    <3>1. PICK r \in Lookup(q) : Write(c, r)
      BY <1>16, <2>3, <2>6 DEF Finish, q
    <3>2. NameIsFree(r, q)
      BY <1>0, <2>1, <2>2, <3>1, FinishIsFree, LookupInRows DEF q
    <3>. QED  BY <1>9, <2>6, <3>1, <3>2 DEF Write, q
  <2>. QED  BY <2>1, <2>4, <2>5, <2>6
<1>. QED  BY <1>11, <1>12, <1>13, <1>14, <1>15, <1>16 DEF Serve

LEMMA AskRefines ==
  ASSUME IInv, NEW c \in Clients, Ask(c)
  PROVE  RS!Ask(c)
<1>0. TypeOK
  BY DEF IInv, StoresKeepTheirRows
<1>1. /\ calls[c].at \in {"idle", "answered"} /\ backend' = backend /\ table' = table
      /\ UNCHANGED store
  BY DEF Ask, fixed
<1>2. PICK q : calls' = [calls EXCEPT ![c] = [at |-> "asked", q |-> q, answer |-> None]]
  BY DEF Ask
<1>3. calls'[c] = [at |-> "asked", q |-> q, answer |-> None]
  BY <1>0, <1>2 DEF TypeOK
<1>4. \A k \in Clients : k # c => calls'[k] = calls[k]
  BY <1>0, <1>2 DEF TypeOK
<1>5. q \in Questions
  <2>1. TypeOK'
    BY AskKeeps DEF IInv, StoresKeepTheirRows
  <2>. QED  BY <1>3, <2>1, AskedQuestion DEF TypeOK, CallStates, Idle
<1>6. Seen'[c] = [at |-> "asked", q |-> q, answer |-> None] /\ Seen[c] = calls[c]
  BY <1>1, <1>3 DEF Seen
<1>7. \A k \in Clients : k # c => Seen'[k] = Seen[k]
  BY <1>4 DEF Seen
<1>8. Seen' = [Seen EXCEPT ![c] = [at |-> "asked", q |-> q, answer |-> None]]
  BY <1>6, <1>7 DEF Seen
<1>9. Listed' = Listed /\ made' = made
  BY <1>1 DEF store, Listed, Listing, HasSecret
<1>10. q \in RS!Questions
  BY <1>5 DEF Questions, Keys, RS!Questions, RS!Keys
<1>. QED  BY <1>1, <1>6, <1>8, <1>9, <1>10 DEF RS!Ask

\* Whatever comes between the lookup and the write of a Prisma route, and however
\* the three stores keep their rows, a page sees each of its calls take effect at
\* one moment, on rows of its own tenant, or be refused (client.ts, tenant.ports.ts).
THEOREM Refinement == Spec => ImplementsRowStore
<1>1. Init => RS!Init
  <2>. SUFFICES ASSUME Init  PROVE RS!Init
    OBVIOUS
  <2>1. Listed = {}
    BY DEF Init, Listed
  <2>2. Seen = [c \in Clients |-> [at |-> "idle", q |-> None, answer |-> None]]
    BY DEF Init, Seen, Idle
  <2>. QED  BY <2>1, <2>2 DEF Init, RS!Init, Backends, Tables, RS!Backends, RS!Tables
<1>2. Init => LookedUpIsOwned
  BY DEF Init, Idle, LookedUpIsOwned
<1>3. IInv /\ LookedUpIsOwned /\ [Next]_vars => [RS!Next]_(RS!vars)
  <2>. SUFFICES ASSUME IInv, LookedUpIsOwned, [Next]_vars
                PROVE  RS!Next \/ UNCHANGED <<backend, table, Listed, made, Seen>>
    BY DEF RS!vars
  <2>1. CASE UNCHANGED vars
    BY <2>1 DEF vars, Listed, Listing, HasSecret, Seen
  <2>. QED  BY <2>1, AskRefines, ServeRefines DEF Next, RS!Next
<1>4. IInv /\ LookedUpIsOwned /\ [Next]_vars => LookedUpIsOwned'
  BY OwnedStep
<1>. QED  BY <1>1, <1>2, <1>3, <1>4, Invariance, PTL DEF Spec, ImplementsRowStore, RS!Spec

-----------------------------------------------------------------------------
(* The sign-up wizard.                                                     *)

\* The two steps pass when no step is invalid.
LEMMA NothingInvalid ==
  ASSUME NEW d, S!Invalid(d) = {}
  PROVE  S!AccountValid(d) /\ S!BusinessValid(d)
<1>1. 0 \in S!Steps /\ 1 \in S!Steps /\ 0 \notin S!Invalid(d) /\ 1 \notin S!Invalid(d)
  BY DEF S!Steps
<1>2. S!AccountValid(d)
  BY <1>1 DEF S!Invalid
<1>3. S!BusinessValid(d)
  BY <1>1 DEF S!Invalid
<1>. QED  BY <1>2, <1>3

\* A draft whose steps both pass makes a body the server knows how to read.
LEMMA BodyIsSent ==
  ASSUME NEW d \in S!Drafts, S!Invalid(d) = {}
  PROVE  S!Body(d) \in S!Bodies
<1>1. S!AccountValid(d) /\ S!BusinessValid(d)
  BY NothingInvalid
<1>2. d.email.who \in Addresses
  BY <1>1 DEF S!AccountValid, S!Drafts, S!Emails
<1>3. d.industry \in {"cafe", "other"} /\ d.phone \in {"digits", "padded"}
  BY <1>1 DEF S!BusinessValid, S!Drafts
<1>4. d.custom \in {"blank", "given"} /\ d.plan \in Plans
  BY DEF S!Drafts
<1>. QED  BY <1>2, <1>3, <1>4 DEF S!Body, S!Bodies

\* What a draft that passes sends is refused for nothing but its phone number.
LEMMA BodyIsAcceptable ==
  ASSUME NEW d \in S!Drafts, S!Invalid(d) = {}, ~ S!Acceptable(S!Body(d))
  PROVE  S!Body(d).phone = "padded"
<1>1. S!BusinessValid(d)
  BY NothingInvalid
<1>. QED  BY <1>1 DEF S!BusinessValid, S!Drafts, S!Acceptable, S!Body

(***************************************************************************)
(* What makes the wizard's word inductive: a signup is pending only on the *)
(* wizard's own page and at its last step, where nothing but the plan can  *)
(* be chosen, and what was sent had passed.                                *)
(***************************************************************************)
PendingAtTheEnd == S!Pending => page = "wizard" /\ step = 2

SentPassed ==
  S!Pending => (S!Acceptable(request.body) \/ request.body.phone = "padded")

WizardIInv == WizardKeepsItsWord /\ PendingAtTheEnd /\ SentPassed

\* The body of a request under way is one the server reads.
LEMMA PendingRequest ==
  ASSUME S!TypeOK, S!Pending
  PROVE  /\ request.body \in S!Bodies
         /\ request.at = "answered" => request.answer \in S!Answers
<1>1. request # S!Idle
  BY DEF S!Pending, S!Idle
<1>2. CASE request \in [at : {"sent"}, body : S!Bodies]
  BY <1>2
<1>3. CASE request \in [at : {"answered"}, body : S!Bodies, answer : S!Answers]
  BY <1>3
<1>. QED  BY <1>1, <1>2, <1>3 DEF S!TypeOK

\* A wizard as it mounts.
LEMMA FreshWizard ==
  S!EmptyDraft \in S!Drafts
<1>1. (CHOOSE p \in Plans : TRUE) \in Plans
  BY PartsAssumption DEF S!WizardAssumption
<1>. QED  BY <1>1 DEF S!EmptyDraft, S!Drafts, S!Emails

LEMMA WizardTypeOK ==
  ASSUME WizardIInv, S!Next
  PROVE  S!TypeOK'
<1>. USE DEF WizardIInv, WizardKeepsItsWord, S!WizardKeepsItsWord
<1>1. CASE S!TypeAccount
  <2>1. draft' \in S!Drafts
    BY <1>1 DEF S!TypeAccount, S!Change, S!TypeOK, S!Drafts
  <2>. QED  BY <1>1, <2>1 DEF S!TypeAccount, S!Change, S!TypeOK
<1>2. CASE S!TypeBusiness
  <2>1. draft' \in S!Drafts
    BY <1>2 DEF S!TypeBusiness, S!Change, S!TypeOK, S!Drafts
  <2>. QED  BY <1>2, <2>1 DEF S!TypeBusiness, S!Change, S!TypeOK
<1>3. CASE S!ChoosePlan
  <2>1. draft' \in S!Drafts
    BY <1>3 DEF S!ChoosePlan, S!Change, S!TypeOK, S!Drafts
  <2>. QED  BY <1>3, <2>1 DEF S!ChoosePlan, S!Change, S!TypeOK
<1>4. CASE S!GoNext
  <2>1. step' \in 0..2
    BY <1>4 DEF S!GoNext, S!Wizard, S!Steps
  <2>2. errs' \subseteq S!Steps
    BY <1>4 DEF S!GoNext, S!Invalid
  <2>. QED  BY <1>4, <2>1, <2>2 DEF S!GoNext, S!TypeOK
<1>5. CASE S!GoBack
  <2>1. step' \in 0..2
    BY <1>5 DEF S!GoBack, S!Wizard
  <2>. QED  BY <1>5, <2>1 DEF S!GoBack, S!TypeOK
<1>6. CASE S!Submit
  <2>1. CASE S!Invalid(draft) # {}
    <3>1. errs' \subseteq S!Steps
      BY <1>6, <2>1 DEF S!Submit, S!Invalid
    <3>2. step' \in 0..2
      BY <1>6, <2>1 DEF S!Submit
    <3>. QED  BY <1>6, <2>1, <3>1, <3>2 DEF S!Submit, S!TypeOK
  <2>2. CASE S!Invalid(draft) = {}
    <3>1. S!Body(draft) \in S!Bodies
      BY <2>2, BodyIsSent DEF S!TypeOK
    <3>2. request' \in [at : {"sent"}, body : S!Bodies]
      BY <1>6, <2>2, <3>1 DEF S!Submit
    <3>3. /\ serverError' = None
          /\ UNCHANGED <<page, step, draft, errs, adrift, accounts, session>>
      BY <1>6, <2>2 DEF S!Submit
    <3>. QED  BY <3>2, <3>3 DEF S!TypeOK
  <2>. QED  BY <2>1, <2>2
<1>7. CASE S!Serve
  <2>1. request.body \in S!Bodies
    BY <1>7, PendingRequest DEF S!Serve, S!Pending
  <2>2. S!Verdict(request.body) \in S!Answers
    BY DEF S!Verdict, S!Answers
  <2>3. request' \in [at : {"answered"}, body : S!Bodies, answer : S!Answers]
    BY <1>7, <2>1, <2>2 DEF S!Serve
  <2>4. accounts' \subseteq Addresses
    BY <1>7, <2>1 DEF S!Serve, S!Bodies, S!TypeOK
  <2>. QED  BY <1>7, <2>3, <2>4 DEF S!Serve, S!TypeOK
<1>8. CASE S!ServeAdrift
  BY <1>8 DEF S!ServeAdrift, S!TypeOK
<1>9. CASE S!Receive
  <2>1. request.body.email \in Addresses
    BY <1>9, PendingRequest DEF S!Receive, S!Pending, S!Bodies
  <2>2. page' \in {"wizard", "elsewhere", "pending"} /\ session' \in Addresses \cup {None}
    BY <1>9, <2>1 DEF S!Receive, S!TypeOK
  <2>3. step' \in 0..2
    <3>1. step' = step \/ step' = 0
      BY <1>9 DEF S!Receive
    <3>2. step \in 0..2
      BY DEF S!TypeOK
    <3>. QED  BY <3>1, <3>2
  <2>6. errs' \subseteq S!Steps
    <3>1. errs' = errs \/ errs' = {0}
      BY <1>9 DEF S!Receive
    <3>. QED  BY <3>1 DEF S!TypeOK, S!Steps
  <2>4. serverError' \in {None, "try again", "check the input"}
    BY <1>9 DEF S!Receive, S!TypeOK
  <2>5. request' = S!Idle /\ UNCHANGED <<draft, adrift, accounts>>
    BY <1>9 DEF S!Receive
  <2>. QED  BY <2>2, <2>3, <2>4, <2>5, <2>6 DEF S!TypeOK
<1>10. S!Drift \subseteq Addresses
  <2>1. CASE request.at = "sent"
    BY <2>1, PendingRequest DEF S!Pending, S!Bodies, S!Drift, S!TypeOK
  <2>2. CASE request.at # "sent"
    BY <2>2 DEF S!Drift, S!TypeOK
  <2>. QED  BY <2>1, <2>2
<1>11. CASE S!Lose
  BY <1>10, <1>11 DEF S!Lose, S!TypeOK
<1>12. CASE S!Leave
  <2>1. /\ step' \in 0..2 /\ draft' \in S!Drafts
        /\ errs' \subseteq S!Steps /\ serverError' = None
    BY <1>12, FreshWizard DEF S!Leave, S!Fresh
  <2>2. adrift' \subseteq Addresses /\ request' = S!Idle
    BY <1>10, <1>12 DEF S!Leave, S!TypeOK
  <2>. QED  BY <1>12, <2>1, <2>2 DEF S!Leave, S!TypeOK
<1>13. CASE S!Return
  <2>1. /\ step' \in 0..2 /\ draft' \in S!Drafts
        /\ errs' \subseteq S!Steps /\ serverError' = None
    BY <1>13, FreshWizard DEF S!Return, S!Fresh
  <2>. QED  BY <1>13, <2>1 DEF S!Return, S!TypeOK
<1>. QED
  BY <1>1, <1>2, <1>3, <1>4, <1>5, <1>6, <1>7, <1>8, <1>9, <1>11, <1>12, <1>13 DEF S!Next

\* Nobody changes a step once it is behind.
LEMMA WizardStepsBehind ==
  ASSUME WizardIInv, S!Next
  PROVE  S!StepsBehindAreValid'
<1>. USE DEF WizardIInv, WizardKeepsItsWord, S!WizardKeepsItsWord
<1>0. step \in 0..2
  BY DEF S!TypeOK
<1>1. CASE S!TypeAccount
  BY <1>1 DEF S!TypeAccount, S!Change, S!Wizard, S!StepsBehindAreValid, S!Steps
<1>2. CASE S!TypeBusiness
  <2>1. step' = 1 /\ page' = page /\ page = "wizard" /\ step = 1
    BY <1>2 DEF S!TypeBusiness, S!Change, S!Wizard
  <2>2. S!AccountValid(draft)
    <3>1. 0 \in S!Steps /\ 0 \notin S!Invalid(draft)
      BY <2>1 DEF S!StepsBehindAreValid, S!Steps
    <3>. QED  BY <3>1 DEF S!Invalid
  <2>3. /\ draft'.email = draft.email /\ draft'.password = draft.password
        /\ draft'.confirm = draft.confirm
    BY <1>2 DEF S!TypeBusiness, S!Change, S!TypeOK, S!Drafts
  <2>4. S!AccountValid(draft')
    BY <2>2, <2>3 DEF S!AccountValid
  <2>. QED  BY <2>1, <2>4 DEF S!StepsBehindAreValid, S!Steps, S!Invalid
<1>3. CASE S!ChoosePlan
  <2>1. PICK p \in Plans : draft' = [draft EXCEPT !.plan = p]
    BY <1>3 DEF S!ChoosePlan, S!Change
  <2>2. S!AccountValid(draft') <=> S!AccountValid(draft)
    BY <2>1 DEF S!AccountValid, S!TypeOK, S!Drafts
  <2>3. S!BusinessValid(draft') <=> S!BusinessValid(draft)
    BY <2>1 DEF S!BusinessValid, S!TypeOK, S!Drafts
  <2>4. \A s \in S!Steps : s \in S!Invalid(draft') <=> s \in S!Invalid(draft)
    BY <2>2, <2>3 DEF S!Invalid
  <2>5. step' = step /\ page' = page
    BY <1>3 DEF S!ChoosePlan, S!Change
  <2>. QED  BY <2>4, <2>5 DEF S!StepsBehindAreValid
<1>4. CASE S!GoNext
  <2>1. step \in {0, 1} /\ page' = page /\ draft' = draft /\ page = "wizard"
    BY <1>4 DEF S!GoNext, S!Wizard, S!Steps
  <2>2. CASE step \in S!Invalid(draft)
    BY <1>4, <2>1, <2>2 DEF S!GoNext, S!StepsBehindAreValid
  <2>3. CASE step \notin S!Invalid(draft)
    <3>1. step' = step + 1
      BY <1>4, <2>3 DEF S!GoNext
    <3>2. \A s \in S!Steps : s < step' => s < step \/ s = step
      BY <2>1, <3>1 DEF S!Steps
    <3>. QED  BY <2>1, <2>3, <3>2 DEF S!StepsBehindAreValid
  <2>. QED  BY <2>2, <2>3
<1>5. CASE S!GoBack
  <2>1. step' = step - 1 /\ page' = page /\ draft' = draft
    BY <1>5 DEF S!GoBack
  <2>2. \A s \in S!Steps : s < step' => s < step
    BY <1>0, <2>1 DEF S!Steps
  <2>. QED  BY <2>1, <2>2 DEF S!StepsBehindAreValid
<1>6. CASE S!Submit
  <2>1. step = 2 /\ page' = page /\ draft' = draft /\ page = "wizard"
    BY <1>6 DEF S!Submit, S!Wizard
  <2>2. \A s \in S!Steps : s < step
    BY <2>1 DEF S!Steps
  <2>3. S!Invalid(draft) = {}
    BY <2>1, <2>2 DEF S!StepsBehindAreValid, S!Invalid
  <2>. QED  BY <1>6, <2>1, <2>3 DEF S!Submit, S!StepsBehindAreValid
<1>7. CASE S!Serve
  BY <1>7 DEF S!Serve, S!StepsBehindAreValid
<1>8. CASE S!ServeAdrift
  BY <1>8 DEF S!ServeAdrift, S!StepsBehindAreValid
<1>9. CASE S!Receive
  <2>1. request.answer \in S!Answers
    BY <1>9, PendingRequest DEF S!Receive, S!Pending
  <2>2. CASE request.answer = "ok"
    BY <1>9, <2>2 DEF S!Receive, S!StepsBehindAreValid
  <2>3. CASE request.answer # "ok"
    <3>1. step' = 0
      BY <1>9, <2>3 DEF S!Receive
    <3>. QED  BY <3>1 DEF S!StepsBehindAreValid, S!Steps
  <2>. QED  BY <2>2, <2>3
<1>10. CASE S!Lose
  BY <1>10 DEF S!Lose, S!StepsBehindAreValid
<1>11. CASE S!Leave
  BY <1>11 DEF S!Leave, S!Fresh, S!StepsBehindAreValid, S!Steps
<1>12. CASE S!Return
  BY <1>12 DEF S!Return, S!Fresh, S!StepsBehindAreValid, S!Steps
<1>. QED
  BY <1>1, <1>2, <1>3, <1>4, <1>5, <1>6, <1>7, <1>8, <1>9, <1>10, <1>11, <1>12 DEF S!Next

\* While a signup is pending only the plan can be chosen.
LEMMA WizardPending ==
  ASSUME WizardIInv, S!Next
  PROVE  S!PendingIsWhatIsShown' /\ PendingAtTheEnd' /\ SentPassed'
<1>. USE DEF WizardIInv, WizardKeepsItsWord, S!WizardKeepsItsWord
<1>1. CASE S!TypeAccount
  BY <1>1 DEF S!TypeAccount, S!Change, S!Wizard, PendingAtTheEnd, SentPassed, S!Pending,
              S!PendingIsWhatIsShown
<1>2. CASE S!TypeBusiness
  BY <1>2 DEF S!TypeBusiness, S!Change, S!Wizard, PendingAtTheEnd, SentPassed, S!Pending,
              S!PendingIsWhatIsShown
<1>3. CASE S!ChoosePlan
  <2>1. PICK p \in Plans : draft' = [draft EXCEPT !.plan = p]
    BY <1>3 DEF S!ChoosePlan, S!Change
  <2>2. /\ draft'.email = draft.email /\ draft'.industry = draft.industry
        /\ draft'.phone = draft.phone /\ draft'.custom = draft.custom
    BY <2>1 DEF S!TypeOK, S!Drafts
  <2>4. /\ S!Body(draft').email = S!Body(draft).email
        /\ S!Body(draft').industry = S!Body(draft).industry
        /\ S!Body(draft').phone = S!Body(draft).phone
        /\ S!Body(draft').custom = S!Body(draft).custom
    BY <2>2 DEF S!Body
  <2>3. request' = request /\ page' = page /\ step' = step
    BY <1>3 DEF S!ChoosePlan, S!Change
  <2>. QED  BY <2>4, <2>3 DEF PendingAtTheEnd, SentPassed, S!Pending, S!PendingIsWhatIsShown
<1>4. CASE S!GoNext
  BY <1>4 DEF S!GoNext, S!Wizard, S!Steps, PendingAtTheEnd, SentPassed, S!Pending,
              S!PendingIsWhatIsShown
<1>5. CASE S!GoBack
  BY <1>5 DEF S!GoBack, S!Wizard, PendingAtTheEnd, SentPassed, S!Pending,
              S!PendingIsWhatIsShown
<1>6. CASE S!Submit
  <2>1. CASE S!Invalid(draft) # {}
    BY <1>6, <2>1 DEF S!Submit, PendingAtTheEnd, SentPassed, S!Pending, S!PendingIsWhatIsShown
  <2>2. CASE S!Invalid(draft) = {}
    <3>1. /\ request'.body = S!Body(draft) /\ draft' = draft
          /\ page' = "wizard" /\ step' = 2
      BY <1>6, <2>2 DEF S!Submit, S!Wizard
    <3>2. S!Acceptable(S!Body(draft)) \/ S!Body(draft).phone = "padded"
      BY <2>2, BodyIsAcceptable DEF S!TypeOK
    <3>3. S!PendingIsWhatIsShown'
      BY <3>1 DEF S!PendingIsWhatIsShown
    <3>4. PendingAtTheEnd'
      BY <3>1 DEF PendingAtTheEnd
    <3>5. SentPassed'
      BY <3>1, <3>2 DEF SentPassed
    <3>. QED  BY <3>3, <3>4, <3>5
  <2>. QED  BY <2>1, <2>2
<1>7. CASE S!Serve
  <2>1. S!Pending /\ request'.body = request.body
    BY <1>7 DEF S!Serve, S!Pending
  <2>2. page' = page /\ step' = step /\ draft' = draft
    BY <1>7 DEF S!Serve
  <2>. QED  BY <2>1, <2>2 DEF PendingAtTheEnd, SentPassed, S!PendingIsWhatIsShown
<1>8. CASE S!ServeAdrift
  BY <1>8 DEF S!ServeAdrift, PendingAtTheEnd, SentPassed, S!Pending, S!PendingIsWhatIsShown
<1>9. CASE request' = S!Idle
  BY <1>9 DEF PendingAtTheEnd, SentPassed, S!Pending, S!PendingIsWhatIsShown, S!Idle
<1>10. CASE S!Return
  <2>1. ~ S!Pending /\ request' = request
    BY <1>10 DEF S!Return, PendingAtTheEnd
  <2>. QED  BY <2>1 DEF PendingAtTheEnd, SentPassed, S!Pending, S!PendingIsWhatIsShown
<1>11. S!Receive \/ S!Lose \/ S!Leave => request' = S!Idle
  BY DEF S!Receive, S!Lose, S!Leave
<1>. QED
  BY <1>1, <1>2, <1>3, <1>4, <1>5, <1>6, <1>7, <1>8, <1>9, <1>10, <1>11 DEF S!Next

\* Only a number the server counts otherwise is refused.
LEMMA WizardAgrees ==
  ASSUME WizardIInv, S!Next
  PROVE  S!PageAndServerAgree'
<1>. USE DEF WizardIInv, WizardKeepsItsWord, S!WizardKeepsItsWord
<1>1. CASE S!Serve
  <2>1. request'.body = request.body /\ request'.answer = S!Verdict(request.body)
    BY <1>1 DEF S!Serve
  <2>2. S!Acceptable(request.body) \/ request.body.phone = "padded"
    BY <1>1 DEF S!Serve, SentPassed, S!Pending
  <2>. QED  BY <2>1, <2>2 DEF S!Verdict, S!PageAndServerAgree
<1>2. CASE request' = request
  BY <1>2 DEF S!PageAndServerAgree
<1>3. CASE request'.at \in {"idle", "sent"}
  BY <1>3 DEF S!PageAndServerAgree
<1>4. S!Receive \/ S!Lose \/ S!Leave => request'.at = "idle"
  <2>1. S!Receive \/ S!Lose \/ S!Leave => request' = S!Idle
    BY DEF S!Receive, S!Lose, S!Leave
  <2>. QED  BY <2>1 DEF S!Idle
<1>7. CASE S!Submit
  <2>1. CASE S!Invalid(draft) # {}
    BY <1>2, <1>7, <2>1 DEF S!Submit
  <2>2. CASE S!Invalid(draft) = {}
    BY <1>3, <1>7, <2>2 DEF S!Submit
  <2>. QED  BY <2>1, <2>2
<1>5. S!TypeAccount \/ S!TypeBusiness \/ S!ChoosePlan => request' = request
  BY DEF S!TypeAccount, S!TypeBusiness, S!ChoosePlan, S!Change
<1>6. S!GoNext \/ S!GoBack \/ S!ServeAdrift \/ S!Return => request' = request
  BY DEF S!GoNext, S!GoBack, S!ServeAdrift, S!Return
<1>. QED  BY <1>1, <1>2, <1>3, <1>4, <1>5, <1>6, <1>7 DEF S!Next

\* An answer that speaks of an account is given when there is one, and none goes.
LEMMA WizardAnswers ==
  ASSUME WizardIInv, S!Next
  PROVE  S!AnswersAreOfAccounts'
<1>. USE DEF WizardIInv, WizardKeepsItsWord, S!WizardKeepsItsWord
<1>1. CASE S!Serve
  <2>1. /\ request'.body = request.body /\ request'.answer = S!Verdict(request.body)
        /\ session' = session
        /\ accounts' = IF S!Verdict(request.body) = "ok" THEN accounts \cup {request.body.email}
                                                          ELSE accounts
    BY <1>1 DEF S!Serve
  <2>. QED  BY <2>1 DEF S!Verdict, S!AnswersAreOfAccounts
<1>2. CASE S!ServeAdrift
  BY <1>2 DEF S!ServeAdrift, S!AnswersAreOfAccounts
<1>3. CASE S!Receive
  <2>1. /\ request' = S!Idle /\ accounts' = accounts /\ request.at = "answered"
        /\ \/ session' = session
           \/ request.answer = "ok" /\ session' = request.body.email
    BY <1>3 DEF S!Receive
  <2>. QED  BY <2>1 DEF S!Idle, S!AnswersAreOfAccounts
<1>4. CASE S!Lose \/ S!Leave
  <2>1. request' = S!Idle /\ accounts' = accounts /\ session' = session
    BY <1>4 DEF S!Lose, S!Leave
  <2>. QED  BY <2>1 DEF S!Idle, S!AnswersAreOfAccounts
<1>5. CASE S!Submit
  BY <1>5 DEF S!Submit, S!AnswersAreOfAccounts
<1>6. CASE S!TypeAccount \/ S!TypeBusiness \/ S!ChoosePlan
  BY <1>6 DEF S!TypeAccount, S!TypeBusiness, S!ChoosePlan, S!Change, S!AnswersAreOfAccounts
<1>7. CASE S!GoNext \/ S!GoBack \/ S!Return
  BY <1>7 DEF S!GoNext, S!GoBack, S!Return, S!AnswersAreOfAccounts
<1>. QED  BY <1>1, <1>2, <1>3, <1>4, <1>5, <1>6, <1>7 DEF S!Next

(***************************************************************************)
(* What the wizard shows, what it sent and what the server takes fit,      *)
(* whatever is typed, gone back to, lost or served late, and an account    *)
(* the applicant is told of is there (SignupWizardPage,                    *)
(* validateSignupRequest).  What a lost answer hides is not told: the page *)
(* says to try again although the account may have been made.              *)
(***************************************************************************)
THEOREM TheWizardKeepsItsWord == S!Spec => []WizardKeepsItsWord
<1>1. S!Init => WizardIInv
  BY FreshWizard
     DEF S!Init, WizardIInv, WizardKeepsItsWord, S!WizardKeepsItsWord, S!TypeOK, S!Idle,
         S!Pending, S!StepsBehindAreValid, S!Steps, S!PendingIsWhatIsShown,
         S!PageAndServerAgree, S!AnswersAreOfAccounts, PendingAtTheEnd, SentPassed
<1>2. WizardIInv /\ [S!Next]_S!vars => WizardIInv'
  <2>1. ASSUME WizardIInv, S!Next PROVE WizardIInv'
    BY <2>1, WizardTypeOK, WizardStepsBehind, WizardPending, WizardAgrees, WizardAnswers
       DEF WizardIInv, WizardKeepsItsWord, S!WizardKeepsItsWord
  <2>2. ASSUME WizardIInv, UNCHANGED S!vars PROVE WizardIInv'
    BY <2>2
       DEF S!vars, WizardIInv, WizardKeepsItsWord, S!WizardKeepsItsWord, S!TypeOK, S!Idle,
         S!Pending, S!StepsBehindAreValid, S!PendingIsWhatIsShown,
         S!PageAndServerAgree, S!AnswersAreOfAccounts, PendingAtTheEnd, SentPassed
  <2>. QED  BY <2>1, <2>2
<1>3. WizardIInv => WizardKeepsItsWord
  BY DEF WizardIInv
<1>. QED  BY <1>1, <1>2, <1>3, PTL DEF S!Spec

-----------------------------------------------------------------------------
(* The administrator's page.                                               *)

(***************************************************************************)
(* What makes the reviewer's story inductive.  A review answered with ok   *)
(* is in the table before the page hears of it; a reading of the list that *)
(* was served is later than every review the page was told of; a review    *)
(* that is heard is the one review of the open modal; and one that is not  *)
(* heard was left alone by closing its modal.                              *)
(***************************************************************************)
Done(t) == tenants[t].status \in {"active", "rejected"}

OkIsDone == \A r \in asked : r.answer = "ok" => Done(r.tenant)

ReadIsLater == fetch = "served" => read \in D!Lists /\ \A t \in reviewed : read[t] # "pending"

HeardIsOpen ==
  \A r \in asked : r.heard => /\ D!Open /\ modal.pending
                              /\ modal.kind = r.kind /\ modal.tenant = r.tenant

OneIsHeard == \A r, s \in asked : r.heard /\ s.heard => r = s

UnheardIsAbandoned == ~ abandoned => \A r \in asked : r.heard

CreationIsWhole == creation.at = "sent" => creation.body.email # None

DeskIInv ==
  /\ D!TypeOK /\ D!ReviewedRowsGo /\ D!ToldIsDone
  /\ OkIsDone /\ ReadIsLater /\ CreationIsWhole
  /\ HeardIsOpen /\ OneIsHeard /\ UnheardIsAbandoned

-----------------------------------------------------------------------------
\* Reviews and modals, and the records made from them.
LEMMA ReviewFields ==
  ASSUME NEW r \in D!Reviews
  PROVE  /\ r.kind \in {"approve", "reject"} /\ r.tenant \in Tenants
         /\ r.heard \in BOOLEAN /\ r.answer \in {None, "ok", "failed"}
         /\ r.typed \in D!Typed(r.kind) \ {None}
<1>1. PICK k \in D!Kinds :
        r \in [kind : {k}, tenant : Tenants, typed : D!Typed(k) \ {None}, heard : BOOLEAN,
               answer : {None, "ok", "failed"}]
  BY DEF D!Reviews
<1>2. r.kind = k
  BY <1>1
<1>. QED  BY <1>1, <1>2 DEF D!Kinds

LEMMA ReviewMade ==
  ASSUME NEW k \in {"approve", "reject"}, NEW t \in Tenants, NEW v \in D!Typed(k) \ {None},
         NEW h \in BOOLEAN, NEW a \in {None, "ok", "failed"}
  PROVE  [kind |-> k, tenant |-> t, typed |-> v, heard |-> h, answer |-> a] \in D!Reviews
<1>1. [kind |-> k, tenant |-> t, typed |-> v, heard |-> h, answer |-> a]
        \in [kind : {k}, tenant : Tenants, typed : D!Typed(k) \ {None}, heard : BOOLEAN,
             answer : {None, "ok", "failed"}]
  OBVIOUS
<1>2. k \in D!Kinds
  BY DEF D!Kinds
<1>. QED  BY <1>1, <1>2 DEF D!Reviews

LEMMA ReviewChanged ==
  ASSUME NEW r \in D!Reviews, NEW b \in BOOLEAN
  PROVE  /\ D!Answered(r, b) \in D!Reviews
         /\ D!Answered(r, b).kind = r.kind /\ D!Answered(r, b).tenant = r.tenant
         /\ D!Answered(r, b).heard = r.heard
         /\ D!Answered(r, b).answer = IF b THEN "ok" ELSE "failed"
<1>1. PICK k \in D!Kinds :
        r \in [kind : {k}, tenant : Tenants, typed : D!Typed(k) \ {None}, heard : BOOLEAN,
               answer : {None, "ok", "failed"}]
  BY DEF D!Reviews
<1>2. D!Answered(r, b) \in
        [kind : {k}, tenant : Tenants, typed : D!Typed(k) \ {None}, heard : BOOLEAN,
         answer : {None, "ok", "failed"}]
  BY <1>1 DEF D!Answered
<1>3. D!Answered(r, b) \in D!Reviews
  BY <1>2 DEF D!Reviews
<1>. QED  BY <1>1, <1>3 DEF D!Answered

LEMMA ReviewUnheard ==
  ASSUME NEW r \in D!Reviews
  PROVE  /\ [r EXCEPT !.heard = FALSE] \in D!Reviews
         /\ [r EXCEPT !.heard = FALSE].tenant = r.tenant
         /\ [r EXCEPT !.heard = FALSE].answer = r.answer
         /\ [r EXCEPT !.heard = FALSE].heard = FALSE
<1>1. PICK k \in D!Kinds :
        r \in [kind : {k}, tenant : Tenants, typed : D!Typed(k) \ {None}, heard : BOOLEAN,
               answer : {None, "ok", "failed"}]
  BY DEF D!Reviews
<1>2. [r EXCEPT !.heard = FALSE] \in
        [kind : {k}, tenant : Tenants, typed : D!Typed(k) \ {None}, heard : BOOLEAN,
         answer : {None, "ok", "failed"}]
  BY <1>1
<1>3. [r EXCEPT !.heard = FALSE] \in D!Reviews
  BY <1>2 DEF D!Reviews
<1>. QED  BY <1>1, <1>3

LEMMA ModalFields ==
  ASSUME D!TypeOK, D!Open
  PROVE  /\ modal.kind \in {"approve", "reject"} /\ modal.tenant \in Tenants
         /\ modal.typed \in D!Typed(modal.kind)
         /\ modal.error \in BOOLEAN /\ modal.pending \in BOOLEAN
<1>1. modal \in D!Modals
  BY DEF D!TypeOK, D!Open
<1>2. PICK k \in D!Kinds : modal \in [kind : {k}, tenant : Tenants, typed : D!Typed(k),
                                      error : BOOLEAN, pending : BOOLEAN]
  BY <1>1 DEF D!Modals
<1>3. modal.kind = k
  BY <1>2
<1>. QED  BY <1>2, <1>3 DEF D!Kinds

LEMMA ModalMade ==
  ASSUME NEW k \in {"approve", "reject"}, NEW t \in Tenants, NEW v \in D!Typed(k),
         NEW e \in BOOLEAN, NEW p \in BOOLEAN
  PROVE  [kind |-> k, tenant |-> t, typed |-> v, error |-> e, pending |-> p] \in D!Modals
<1>1. [kind |-> k, tenant |-> t, typed |-> v, error |-> e, pending |-> p]
        \in [kind : {k}, tenant : Tenants, typed : D!Typed(k), error : BOOLEAN, pending : BOOLEAN]
  OBVIOUS
<1>2. k \in D!Kinds
  BY DEF D!Kinds
<1>. QED  BY <1>1, <1>2 DEF D!Modals

\* A modal stays one when something is typed into it, and with or without its two marks.
LEMMA ModalChanged ==
  ASSUME D!TypeOK, D!Open, NEW v \in D!Typed(modal.kind)
  PROVE  /\ [modal EXCEPT !.typed = v, !.error = FALSE] \in D!Modals
         /\ [modal EXCEPT !.error = TRUE] \in D!Modals
         /\ [modal EXCEPT !.error = TRUE, !.pending = FALSE] \in D!Modals
         /\ [modal EXCEPT !.error = FALSE, !.pending = TRUE] \in D!Modals
<1>1. modal \in D!Modals
  BY DEF D!TypeOK, D!Open
<1>2. PICK k \in D!Kinds : modal \in [kind : {k}, tenant : Tenants, typed : D!Typed(k),
                                      error : BOOLEAN, pending : BOOLEAN]
  BY <1>1 DEF D!Modals
<1>. DEFINE one == [kind : {k}, tenant : Tenants, typed : D!Typed(k), error : BOOLEAN,
                    pending : BOOLEAN]
<1>3. one \subseteq D!Modals
  BY DEF D!Modals
<1>4. v \in D!Typed(k)
  BY <1>2
<1>5. [modal EXCEPT !.typed = v, !.error = FALSE] \in one
  BY <1>2, <1>4
<1>6. [modal EXCEPT !.error = TRUE] \in one
  BY <1>2, <1>4
<1>7. [modal EXCEPT !.error = TRUE, !.pending = FALSE] \in one
  BY <1>2, <1>4
<1>8. [modal EXCEPT !.error = FALSE, !.pending = TRUE] \in one
  BY <1>2, <1>4
<1>. HIDE DEF one
<1>. QED  BY <1>3, <1>5, <1>6, <1>7, <1>8

-----------------------------------------------------------------------------
\* A review in the table: its tenant is active or rejected then, and no other row changes.
LEMMA ReviewedRow ==
  ASSUME D!TypeOK, NEW r, r.kind \in {"approve", "reject"}, NEW x \in Tenants, r.tenant = x,
         r.kind = "approve" => r.typed \in Numbers
  PROVE  /\ D!Reviewed(r) \in [Tenants -> [status : D!Statuses, number : Numbers \cup {None}]]
         /\ D!Reviewed(r)[x].status \in {"active", "rejected"}
         /\ \A t \in Tenants : t # x => D!Reviewed(r)[t] = tenants[t]
<1>. DEFINE row == IF r.kind = "approve" THEN [status |-> "active", number |-> r.typed]
                   ELSE [tenants[x] EXCEPT !.status = "rejected"]
<1>1. tenants \in [Tenants -> [status : D!Statuses, number : Numbers \cup {None}]]
  BY DEF D!TypeOK
<1>2. D!Reviewed(r) = [tenants EXCEPT ![x] = row]
  BY DEF D!Reviewed
<1>3. row \in [status : D!Statuses, number : Numbers \cup {None}]
  BY <1>1 DEF D!Statuses
<1>4. row.status \in {"active", "rejected"}
  BY <1>1
<1>. HIDE DEF row
<1>. QED  BY <1>1, <1>2, <1>3, <1>4

LEMMA AddedRow ==
  ASSUME D!TypeOK, NEW x \in Tenants, NEW n \in Numbers \cup {None}
  PROVE  /\ D!Added(x, n) \in [Tenants -> [status : D!Statuses, number : Numbers \cup {None}]]
         /\ \A t \in Tenants : t # x => D!Added(x, n)[t] = tenants[t]
<1>. DEFINE row == [status |-> D!StatusOfNew, number |-> n]
<1>1. tenants \in [Tenants -> [status : D!Statuses, number : Numbers \cup {None}]]
  BY DEF D!TypeOK
<1>2. D!Added(x, n) = [tenants EXCEPT ![x] = row]
  BY DEF D!Added
<1>3. row \in [status : D!Statuses, number : Numbers \cup {None}]
  BY DEF D!Statuses, D!StatusOfNew
<1>. HIDE DEF row
<1>. QED  BY <1>1, <1>2, <1>3

\* The review of this page that a step settles, if it settles one.
LEMMA SettledReview ==
  ASSUME D!TypeOK, NEW r \in asked, NEW allowed \in BOOLEAN, D!Settle(r, allowed)
  PROVE  /\ r \in D!Reviews /\ r.answer = None
         /\ asked' = (asked \ {r}) \cup {D!Answered(r, allowed)}
         /\ asked' \subseteq D!Reviews
         /\ tenants' \in [Tenants -> [status : D!Statuses, number : Numbers \cup {None}]]
         /\ allowed => Done(r.tenant)'
         /\ \A t \in Tenants : Done(t) => Done(t)'
<1>1. r \in D!Reviews /\ asked \subseteq D!Reviews
  BY DEF D!TypeOK
<1>2. r.answer = None /\ asked' = (asked \ {r}) \cup {D!Answered(r, allowed)}
  BY DEF D!Settle
<1>3. r.tenant \in Tenants /\ r.kind \in {"approve", "reject"}
  BY <1>1, ReviewFields
<1>4. r.kind = "approve" => r.typed \in Numbers
  BY <1>1, ReviewFields DEF D!Typed
<1>5. /\ D!Reviewed(r) \in [Tenants -> [status : D!Statuses, number : Numbers \cup {None}]]
      /\ D!Reviewed(r)[r.tenant].status \in {"active", "rejected"}
      /\ \A t \in Tenants : t # r.tenant => D!Reviewed(r)[t] = tenants[t]
  BY <1>3, <1>4, ReviewedRow
<1>6. CASE allowed
  <2>1. tenants' = D!Reviewed(r)
    BY <1>6 DEF D!Settle
  <2>. QED  BY <1>1, <1>2, <1>5, <2>1, ReviewChanged DEF Done
<1>7. CASE ~ allowed
  <2>1. tenants' = tenants
    BY <1>7 DEF D!Settle
  <2>. QED  BY <1>1, <1>2, <1>7, <2>1, ReviewChanged DEF Done, D!TypeOK
<1>. QED  BY <1>6, <1>7

\* Nobody takes a review back, here or elsewhere, at the server or in a demo.
LEMMA DoneStays ==
  ASSUME DeskIInv, D!Next
  PROVE  /\ \A t \in Tenants : Done(t) => Done(t)'
         /\ tenants' \in [Tenants -> [status : D!Statuses, number : Numbers \cup {None}]]
<1>0. D!TypeOK
  BY DEF DeskIInv
<1>1. CASE D!ServeReview
  <2>1. PICK r \in asked : D!Settle(r, D!Allowed(r))
    BY <1>1 DEF D!ServeReview
  <2>2. D!Allowed(r) \in BOOLEAN
    BY DEF D!Allowed
  <2>. QED  BY <1>0, <2>1, <2>2, SettledReview
<1>2. CASE D!DemoReviews
  <2>1. PICK r \in asked : D!Settle(r, D!DemoAllows(r))
    BY <1>2 DEF D!DemoReviews
  <2>2. D!DemoAllows(r) \in BOOLEAN
    BY DEF D!DemoAllows
  <2>. QED  BY <1>0, <2>1, <2>2, SettledReview
<1>3. ASSUME NEW x \in Tenants, NEW n \in Numbers \cup {None},
             tenants[x].status = "absent", tenants' = D!Added(x, n)
      PROVE  /\ \A t \in Tenants : Done(t) => Done(t)'
             /\ tenants' \in [Tenants -> [status : D!Statuses, number : Numbers \cup {None}]]
  BY <1>0, <1>3, AddedRow DEF Done
<1>4. creation.body.number \in Numbers \cup {None}
  BY <1>0 DEF D!TypeOK, D!Forms
<1>5. CASE D!ServeCreate
  <2>1. CASE D!Add(creation.body.number)
    BY <1>3, <1>4, <2>1 DEF D!Add
  <2>2. CASE tenants' = tenants
    BY <1>0, <2>2 DEF Done, D!TypeOK
  <2>. QED  BY <1>5, <2>1, <2>2 DEF D!ServeCreate, D!server
<1>6. CASE D!DemoCreates
  BY <1>3, <1>4, <1>6 DEF D!DemoCreates, D!Add
<1>7. CASE D!Elsewhere
  <2>1. PICK x \in Tenants, n \in Numbers :
          \/ /\ tenants[x].status = "pending"
             /\ \E k \in D!Kinds : tenants' = D!Reviewed([kind |-> k, tenant |-> x, typed |-> n])
          \/ tenants[x].status = "absent" /\ tenants' = D!Added(x, n)
    BY <1>7 DEF D!Elsewhere
  <2>2. ASSUME NEW k \in D!Kinds, tenants' = D!Reviewed([kind |-> k, tenant |-> x, typed |-> n])
        PROVE  /\ \A t \in Tenants : Done(t) => Done(t)'
               /\ tenants' \in [Tenants -> [status : D!Statuses, number : Numbers \cup {None}]]
    <3>. DEFINE r == [kind |-> k, tenant |-> x, typed |-> n]
    <3>1. r.kind \in {"approve", "reject"} /\ r.tenant = x /\ r.typed \in Numbers
      BY DEF D!Kinds
    <3>. HIDE DEF r
    <3>2. /\ D!Reviewed(r) \in [Tenants -> [status : D!Statuses, number : Numbers \cup {None}]]
          /\ D!Reviewed(r)[x].status \in {"active", "rejected"}
          /\ \A t \in Tenants : t # x => D!Reviewed(r)[t] = tenants[t]
      BY <1>0, <3>1, ReviewedRow
    <3>3. tenants' = D!Reviewed(r)
      BY <2>2 DEF r
    <3>. QED  BY <3>2, <3>3 DEF Done
  <2>. QED  BY <1>3, <2>1, <2>2
<1>8. CASE tenants' = tenants
  BY <1>0, <1>8 DEF Done, D!TypeOK
<1>9. D!ServeList \/ D!ListArrives \/ D!ListFails \/ D!SetFilter => tenants' = tenants
  BY DEF D!ServeList, D!ListArrives, D!ListFails, D!SetFilter, D!server
<1>10. D!OpenModal \/ D!TypeInModal \/ D!CloseModal \/ D!Submit => tenants' = tenants
  BY DEF D!OpenModal, D!TypeInModal, D!CloseModal, D!Submit, D!server
<1>11. D!AnswerArrives \/ D!ReviewLost \/ D!ToastGoes => tenants' = tenants
  BY DEF D!AnswerArrives, D!ReviewLost, D!ToastGoes, D!server
<1>12. D!TypeInForm \/ D!Create \/ D!CreateArrives => tenants' = tenants
  BY DEF D!TypeInForm, D!Create, D!CreateArrives, D!server
<1>. QED
  BY <1>1, <1>2, <1>5, <1>6, <1>7, <1>8, <1>9, <1>10, <1>11, <1>12 DEF D!Next

-----------------------------------------------------------------------------
\* What a step makes of a review that was asked: it is the same, settled or no longer heard.
LEMMA UnheardReviews ==
  ASSUME NEW q \in SUBSET D!Reviews
  PROVE  /\ D!Unheard(q) \subseteq D!Reviews
         /\ \A s \in D!Unheard(q) : /\ s.heard = FALSE
                                    /\ \E r \in q : s.tenant = r.tenant /\ s.answer = r.answer
<1>1. ASSUME NEW s \in D!Unheard(q)
      PROVE  /\ s \in D!Reviews /\ s.heard = FALSE
             /\ \E r \in q : s.tenant = r.tenant /\ s.answer = r.answer
  <2>1. PICK r \in q : s = [r EXCEPT !.heard = FALSE]
    BY <1>1 DEF D!Unheard
  <2>2. r \in D!Reviews
    OBVIOUS
  <2>. QED  BY <2>1, <2>2, ReviewUnheard
<1>. QED  BY <1>1

\* The answer to a review: which modal it closes, and which reviews are heard after it.
LEMMA AnswerToPage ==
  ASSUME DeskIInv, NEW r \in asked, r.answer = "ok",
         IF D!Open /\ modal.kind = r.kind
         THEN modal' = None /\ asked' = D!Unheard(asked \ {r})
         ELSE asked' = asked \ {r} /\ UNCHANGED modal
  PROVE  /\ asked' \subseteq D!Reviews
         /\ \A s \in asked' : \E p \in asked : s.tenant = p.tenant /\ s.answer = p.answer
         /\ \A s \in asked' : s.heard => s \in asked \ {r} /\ modal' = modal
         /\ modal' \in {modal, None}
<1>1. asked \subseteq D!Reviews
  BY DEF DeskIInv, D!TypeOK
<1>2. CASE D!Open /\ modal.kind = r.kind
  <2>1. asked \ {r} \in SUBSET D!Reviews
    BY <1>1
  <2>2. asked' = D!Unheard(asked \ {r}) /\ modal' = None
    BY <1>2
  <2>. QED  BY <2>1, <2>2, UnheardReviews
<1>3. CASE ~ (D!Open /\ modal.kind = r.kind)
  BY <1>1, <1>3
<1>. QED  BY <1>2, <1>3

LEMMA DeskTypeOK ==
  ASSUME DeskIInv, D!Next
  PROVE  D!TypeOK'
<1>0. D!TypeOK /\ asked \subseteq D!Reviews
  BY DEF DeskIInv, D!TypeOK
<1>. USE DEF D!server, D!query, D!creating
<1>1. CASE D!ServeList
  <2>1. read' \in D!Lists
    BY <1>0, <1>1 DEF D!ServeList, D!TypeOK, D!Lists
  <2>. QED  BY <1>0, <1>1, <2>1 DEF D!ServeList, D!TypeOK
<1>2. CASE D!ListArrives
  BY <1>0, <1>2 DEF D!ListArrives, D!TypeOK
<1>3. CASE D!ListFails
  BY <1>0, <1>3 DEF D!ListFails, D!TypeOK
<1>4. CASE D!SetFilter
  BY <1>0, <1>4 DEF D!SetFilter, D!TypeOK
<1>5. CASE D!OpenModal
  <2>1. PICK k \in D!Kinds, t \in D!Offered :
          modal' = [kind |-> k, tenant |-> t, typed |-> None, error |-> FALSE, pending |-> FALSE]
    BY <1>5 DEF D!OpenModal
  <2>2. k \in {"approve", "reject"} /\ t \in Tenants /\ None \in D!Typed(k)
    BY DEF D!Kinds, D!Offered, D!Typed
  <2>3. modal' \in D!Modals
    BY <2>1, <2>2, ModalMade
  <2>. QED  BY <1>0, <1>5, <2>3 DEF D!OpenModal, D!TypeOK
<1>6. CASE D!TypeInModal
  <2>1. modal' \in D!Modals
    BY <1>0, <1>6, ModalChanged DEF D!TypeInModal
  <2>. QED  BY <1>0, <1>6, <2>1 DEF D!TypeInModal, D!TypeOK
<1>7. CASE D!CloseModal
  <2>1. asked' \subseteq D!Reviews
    BY <1>0, <1>7, UnheardReviews DEF D!CloseModal
  <2>2. abandoned' \in BOOLEAN
    BY <1>7 DEF D!CloseModal
  <2>. QED  BY <1>0, <1>7, <2>1, <2>2 DEF D!CloseModal, D!TypeOK
<1>8. CASE D!Submit
  <2>1. modal' \in D!Modals /\ asked' \subseteq D!Reviews
    <3>1. modal.typed \in D!Typed(modal.kind)
      BY <1>0, <1>8, ModalFields DEF D!Submit
    <3>2. CASE modal.typed = None
      BY <1>0, <1>8, <3>1, <3>2, ModalChanged DEF D!Submit
    <3>3. CASE modal.typed # None
      <4>1. [kind |-> modal.kind, tenant |-> modal.tenant, typed |-> modal.typed,
             heard |-> TRUE, answer |-> None] \in D!Reviews
        BY <1>0, <1>8, <3>3, ModalFields, ReviewMade DEF D!Submit
      <4>2. modal' \in D!Modals
        BY <1>0, <1>8, <3>1, <3>3, ModalChanged DEF D!Submit
      <4>. QED  BY <1>0, <1>8, <3>3, <4>1, <4>2 DEF D!Submit
    <3>. QED  BY <3>2, <3>3
  <2>. QED  BY <1>0, <1>8, <2>1 DEF D!Submit, D!TypeOK
<1>9. ASSUME NEW r \in asked, NEW allowed \in BOOLEAN, D!Settle(r, allowed) PROVE D!TypeOK'
  <2>1. asked' \subseteq D!Reviews
    BY <1>0, <1>9, SettledReview
  <2>2. tenants' \in [Tenants -> [status : D!Statuses, number : Numbers \cup {None}]]
    BY <1>0, <1>9, SettledReview
  <2>. QED  BY <1>0, <1>9, <2>1, <2>2 DEF D!Settle, D!TypeOK
<1>10. CASE D!ServeReview
  BY <1>9, <1>10 DEF D!ServeReview, D!Allowed
<1>11. CASE D!DemoReviews
  BY <1>9, <1>11 DEF D!DemoReviews, D!DemoAllows
<1>12. ASSUME NEW r \in asked
       PROVE  (IF r.heard THEN [modal EXCEPT !.error = TRUE, !.pending = FALSE] ELSE modal)
                \in D!Modals \cup {None}
  <2>1. CASE r.heard
    <3>1. D!Open /\ modal.typed \in D!Typed(modal.kind)
      BY <1>0, <2>1, ModalFields DEF DeskIInv, HeardIsOpen
    <3>. QED  BY <1>0, <2>1, <3>1, ModalChanged
  <2>2. CASE ~ r.heard
    BY <1>0, <2>2 DEF D!TypeOK
  <2>. QED  BY <2>1, <2>2
<1>13. CASE D!AnswerArrives
  <2>1. PICK r \in asked :
          /\ r.answer # None
          /\ IF r.answer = "ok"
             THEN /\ IF D!Open /\ modal.kind = r.kind
                     THEN modal' = None /\ asked' = D!Unheard(asked \ {r})
                     ELSE asked' = asked \ {r} /\ UNCHANGED modal
                  /\ toast' = r.kind /\ reviewed' = reviewed \cup {r.tenant} /\ D!Invalidate
             ELSE /\ modal' = IF r.heard THEN [modal EXCEPT !.error = TRUE, !.pending = FALSE]
                              ELSE modal
                  /\ asked' = asked \ {r} /\ UNCHANGED <<toast, reviewed, fetch, read>>
    BY <1>13 DEF D!AnswerArrives
  <2>2. /\ UNCHANGED <<source, tenants, logins, list, listFailed, filter, form, creation,
                       created, abandoned>>
    BY <1>13 DEF D!AnswerArrives
  <2>3. r.kind \in D!Kinds /\ r.tenant \in Tenants
    BY <1>0, ReviewFields DEF D!Kinds
  <2>4. CASE r.answer = "ok"
    <3>1. asked' \subseteq D!Reviews /\ modal' \in {modal, None}
      BY <2>1, <2>4, AnswerToPage
    <3>2. /\ toast' \in D!Kinds /\ reviewed' \subseteq Tenants
          /\ fetch' = "sent" /\ read' = None
      BY <1>0, <2>1, <2>3, <2>4 DEF D!Invalidate, D!TypeOK
    <3>. QED  BY <1>0, <2>2, <3>1, <3>2 DEF D!TypeOK
  <2>5. CASE r.answer # "ok"
    <3>1. modal' \in D!Modals \cup {None} /\ asked' \subseteq D!Reviews
      BY <1>0, <1>12, <2>1, <2>5
    <3>. QED  BY <1>0, <2>1, <2>2, <2>5, <3>1 DEF D!TypeOK
  <2>. QED  BY <2>4, <2>5
<1>14. CASE D!ReviewLost
  <2>1. modal' \in D!Modals \cup {None} /\ asked' \subseteq D!Reviews
    BY <1>0, <1>12, <1>14 DEF D!ReviewLost
  <2>. QED  BY <1>0, <1>14, <2>1 DEF D!ReviewLost, D!TypeOK
<1>15. CASE D!ToastGoes
  BY <1>0, <1>15 DEF D!ToastGoes, D!TypeOK
<1>16. CASE D!TypeInForm
  <2>1. form' \in D!Forms
    BY <1>0, <1>16 DEF D!TypeInForm, D!TypeOK, D!Forms
  <2>. QED  BY <1>0, <1>16, <2>1 DEF D!TypeInForm, D!TypeOK
<1>17. CASE D!Create
  BY <1>0, <1>17 DEF D!Create, D!TypeOK
<1>18. tenants' \in [Tenants -> [status : D!Statuses, number : Numbers \cup {None}]]
  BY DoneStays
<1>19. CASE D!ServeCreate
  <2>1. logins' \subseteq AdminEmails
    BY <1>0, <1>19 DEF D!ServeCreate, D!TypeOK, D!Forms, DeskIInv, CreationIsWhole
  <2>2. creation' \in [at : {"idle", "sent", "ok", "refused", "failed"}, body : D!Forms]
    BY <1>0, <1>19 DEF D!ServeCreate, D!TypeOK
  <2>3. source' = source
    BY <1>19 DEF D!ServeCreate
  <2>. QED  BY <1>0, <1>18, <1>19, <2>1, <2>2, <2>3 DEF D!ServeCreate, D!TypeOK
<1>20. CASE D!DemoCreates
  <2>2. creation' \in [at : {"idle", "sent", "ok", "refused", "failed"}, body : D!Forms]
    BY <1>0, <1>20 DEF D!DemoCreates, D!TypeOK
  <2>. QED  BY <1>0, <1>18, <1>20, <2>2 DEF D!DemoCreates, D!TypeOK
<1>21. CASE D!CreateArrives
  <2>1. D!EmptyForm \in D!Forms
    BY DEF D!EmptyForm, D!Forms
  <2>2. created' \in AdminEmails \cup {None}
    BY <1>0, <1>21 DEF D!CreateArrives, D!TypeOK, D!Forms
  <2>3. fetch' \in {"idle", "sent", "served"} /\ read' \in D!Lists \cup {None}
    BY <1>0, <1>21 DEF D!CreateArrives, D!Invalidate, D!TypeOK
  <2>4. creation' \in [at : {"idle", "sent", "ok", "refused", "failed"}, body : D!Forms]
    BY <1>0, <1>21, <2>1 DEF D!CreateArrives, D!TypeOK
  <2>5. form' \in D!Forms
    BY <1>0, <1>21, <2>1 DEF D!CreateArrives, D!TypeOK
  <2>. QED  BY <1>0, <1>21, <2>2, <2>3, <2>4, <2>5 DEF D!CreateArrives, D!TypeOK
<1>22. CASE D!Elsewhere
  BY <1>0, <1>18, <1>22 DEF D!Elsewhere, D!TypeOK
<1>. QED
  BY <1>1, <1>2, <1>3, <1>4, <1>5, <1>6, <1>7, <1>8, <1>10, <1>11, <1>13, <1>14, <1>15,
     <1>16, <1>17, <1>19, <1>20, <1>21, <1>22 DEF D!Next

\* An answer is in the table before the page hears it.
LEMMA DeskOkIsDone ==
  ASSUME DeskIInv, D!Next
  PROVE  OkIsDone'
<1>0. D!TypeOK /\ OkIsDone /\ asked \subseteq D!Reviews
  BY DEF DeskIInv, D!TypeOK
<1>1. \A t \in Tenants : Done(t) => Done(t)'
  BY DoneStays
<1>2. ASSUME NEW s, \E r \in asked : s.tenant = r.tenant /\ s.answer = r.answer, s.answer = "ok"
      PROVE  Done(s.tenant)'
  <2>1. PICK r \in asked : s.tenant = r.tenant /\ r.answer = "ok"
    BY <1>2
  <2>2. r.tenant \in Tenants /\ Done(r.tenant)
    BY <1>0, <2>1, ReviewFields DEF OkIsDone
  <2>. QED  BY <1>1, <2>1, <2>2
<1>3. CASE asked' \subseteq asked
  BY <1>2, <1>3 DEF OkIsDone
<1>4. ASSUME NEW r \in asked, NEW allowed \in BOOLEAN, D!Settle(r, allowed) PROVE OkIsDone'
  <2>1. asked' = (asked \ {r}) \cup {D!Answered(r, allowed)} /\ (allowed => Done(r.tenant)')
    BY <1>0, <1>4, SettledReview
  <2>2. ASSUME D!Answered(r, allowed).answer = "ok" PROVE Done(D!Answered(r, allowed).tenant)'
    BY <1>0, <2>1, <2>2, ReviewChanged
  <2>3. ASSUME NEW s \in asked \ {r}, s.answer = "ok" PROVE Done(s.tenant)'
    BY <1>2, <2>3
  <2>. QED  BY <2>1, <2>2, <2>3 DEF OkIsDone
<1>5. CASE D!ServeReview
  BY <1>4, <1>5 DEF D!ServeReview, D!Allowed
<1>6. CASE D!DemoReviews
  BY <1>4, <1>6 DEF D!DemoReviews, D!DemoAllows
<1>7. CASE D!CloseModal
  <2>1. asked' = D!Unheard(asked)
    BY <1>7 DEF D!CloseModal
  <2>. QED  BY <1>0, <1>2, <2>1, UnheardReviews DEF OkIsDone
<1>8. CASE D!Submit
  <2>1. \A s \in asked' : s \in asked \/ s.answer = None
    BY <1>8 DEF D!Submit
  <2>2. None # "ok"
    BY PartsAssumption DEF D!DeskAssumption
  <2>. QED  BY <1>0, <1>2, <2>1, <2>2 DEF OkIsDone
<1>9. CASE D!AnswerArrives
  <2>1. PICK r \in asked :
          IF r.answer = "ok"
          THEN IF D!Open /\ modal.kind = r.kind
               THEN modal' = None /\ asked' = D!Unheard(asked \ {r})
               ELSE asked' = asked \ {r} /\ UNCHANGED modal
          ELSE asked' = asked \ {r}
    BY <1>9 DEF D!AnswerArrives
  <2>2. CASE r.answer = "ok"
    <3>1. \A s \in asked' : \E p \in asked : s.tenant = p.tenant /\ s.answer = p.answer
      BY <2>1, <2>2, AnswerToPage
    <3>. QED  BY <1>2, <3>1 DEF OkIsDone
  <2>3. CASE r.answer # "ok"
    BY <1>3, <2>1, <2>3
  <2>. QED  BY <2>2, <2>3
<1>10. CASE D!ReviewLost
  BY <1>3, <1>10 DEF D!ReviewLost
<1>11. D!ServeList \/ D!ListArrives \/ D!ListFails \/ D!SetFilter => asked' \subseteq asked
  BY DEF D!ServeList, D!ListArrives, D!ListFails, D!SetFilter
<1>12. D!OpenModal \/ D!TypeInModal \/ D!ToastGoes \/ D!TypeInForm => asked' \subseteq asked
  BY DEF D!OpenModal, D!TypeInModal, D!ToastGoes, D!TypeInForm
<1>13. D!Create \/ D!ServeCreate \/ D!DemoCreates \/ D!CreateArrives \/ D!Elsewhere
         => asked' \subseteq asked
  BY DEF D!Create, D!ServeCreate, D!DemoCreates, D!CreateArrives, D!Elsewhere
<1>. QED
  BY <1>3, <1>5, <1>6, <1>7, <1>8, <1>9, <1>10, <1>11, <1>12, <1>13 DEF D!Next

\* The reviews the page was told of: the list begins again with each of them.
LEMMA ReviewedGrows ==
  ASSUME DeskIInv, D!Next
  PROVE  \/ reviewed' = reviewed
         \/ /\ fetch' = "sent" /\ list' = list /\ listFailed' = listFailed
            /\ \E r \in asked : r.answer = "ok" /\ reviewed' = reviewed \cup {r.tenant}
<1>1. CASE D!AnswerArrives
  BY <1>1 DEF D!AnswerArrives, D!Invalidate
<1>2. D!ServeList \/ D!ListArrives \/ D!ListFails \/ D!SetFilter => reviewed' = reviewed
  BY DEF D!ServeList, D!ListArrives, D!ListFails, D!SetFilter
<1>3. D!OpenModal \/ D!TypeInModal \/ D!CloseModal \/ D!Submit => reviewed' = reviewed
  BY DEF D!OpenModal, D!TypeInModal, D!CloseModal, D!Submit
<1>4. D!ServeReview \/ D!DemoReviews => reviewed' = reviewed
  BY DEF D!ServeReview, D!DemoReviews, D!Settle
<1>5. D!ReviewLost \/ D!ToastGoes \/ D!TypeInForm \/ D!Create => reviewed' = reviewed
  BY DEF D!ReviewLost, D!ToastGoes, D!TypeInForm, D!Create
<1>6. D!ServeCreate \/ D!DemoCreates \/ D!CreateArrives \/ D!Elsewhere => reviewed' = reviewed
  BY DEF D!ServeCreate, D!DemoCreates, D!CreateArrives, D!Elsewhere
<1>. QED  BY <1>1, <1>2, <1>3, <1>4, <1>5, <1>6 DEF D!Next

LEMMA DeskToldIsDone ==
  ASSUME DeskIInv, D!Next
  PROVE  D!ToldIsDone'
<1>1. D!ToldIsDone /\ OkIsDone /\ reviewed \subseteq Tenants /\ asked \subseteq D!Reviews
  BY DEF DeskIInv, D!TypeOK
<1>2. \A t \in Tenants : Done(t) => Done(t)'
  BY DoneStays
<1>3. ASSUME NEW t \in reviewed PROVE Done(t)'
  BY <1>1, <1>2, <1>3 DEF D!ToldIsDone, Done
<1>4. ASSUME NEW r \in asked, r.answer = "ok" PROVE Done(r.tenant)'
  BY <1>1, <1>2, <1>4, ReviewFields DEF OkIsDone
<1>5. \A t \in reviewed' : Done(t)'
  BY <1>3, <1>4, ReviewedGrows
<1>. QED  BY <1>5 DEF D!ToldIsDone, Done

\* A reading that was served is later than every review the page was told of.
LEMMA DeskReadIsLater ==
  ASSUME DeskIInv, D!Next
  PROVE  ReadIsLater'
<1>0. D!TypeOK /\ ReadIsLater /\ D!ToldIsDone
  BY DEF DeskIInv
<1>1. CASE D!ServeList
  <2>1. \A t \in Tenants : read'[t] = tenants[t].status
    BY <1>1 DEF D!ServeList
  <2>2. read' \in D!Lists
    BY <1>0, <1>1 DEF D!ServeList, D!TypeOK, D!Lists
  <2>3. reviewed' = reviewed /\ reviewed \subseteq Tenants
    BY <1>0, <1>1 DEF D!ServeList, D!TypeOK
  <2>4. \A t \in reviewed : tenants[t].status \in {"active", "rejected"}
    BY <1>0 DEF D!ToldIsDone
  <2>. QED  BY <2>1, <2>2, <2>3, <2>4 DEF ReadIsLater
<1>2. CASE fetch' \in {"sent", "idle"}
  BY <1>2 DEF ReadIsLater
<1>3. CASE fetch' = fetch /\ read' = read /\ reviewed' = reviewed
  BY <1>0, <1>3 DEF ReadIsLater
<1>. DEFINE rest == fetch' = fetch /\ read' = read /\ reviewed' = reviewed
<1>. USE DEF D!query
<1>4. D!ListArrives \/ D!ListFails => fetch' \in {"sent", "idle"}
  BY DEF D!ListArrives, D!ListFails
<1>5. D!SetFilter \/ D!OpenModal \/ D!TypeInModal \/ D!CloseModal \/ D!Submit => rest
  BY DEF D!SetFilter, D!OpenModal, D!TypeInModal, D!CloseModal, D!Submit
<1>6. D!ServeReview \/ D!DemoReviews => rest
  BY DEF D!ServeReview, D!DemoReviews, D!Settle
<1>7. D!AnswerArrives => fetch' \in {"sent", "idle"} \/ rest
  BY DEF D!AnswerArrives, D!Invalidate
<1>8. D!ReviewLost \/ D!ToastGoes \/ D!TypeInForm \/ D!Create => rest
  BY DEF D!ReviewLost, D!ToastGoes, D!TypeInForm, D!Create
<1>9. D!CreateArrives => fetch' \in {"sent", "idle"} \/ rest
  BY DEF D!CreateArrives, D!Invalidate
<1>10. D!ServeCreate \/ D!DemoCreates \/ D!Elsewhere => rest
  BY DEF D!ServeCreate, D!DemoCreates, D!Elsewhere
<1>. QED
  BY <1>1, <1>2, <1>3, <1>4, <1>5, <1>6, <1>7, <1>8, <1>9, <1>10 DEF D!Next

\* The list changes when a reading arrives and never otherwise.
LEMMA DeskReviewedRowsGo ==
  ASSUME DeskIInv, D!Next
  PROVE  D!ReviewedRowsGo'
<1>0. D!TypeOK /\ ReadIsLater /\ D!ReviewedRowsGo
  BY DEF DeskIInv
<1>1. CASE D!ListArrives
  <2>1. fetch = "served" /\ list' = read /\ reviewed' = reviewed
    BY <1>1 DEF D!ListArrives
  <2>. QED  BY <1>0, <2>1 DEF ReadIsLater, D!ReviewedRowsGo
<1>2. CASE D!ListFails
  BY <1>2 DEF D!ListFails, D!ReviewedRowsGo
<1>3. CASE D!Fetching'
  BY <1>3 DEF D!ReviewedRowsGo
<1>4. CASE list' = list /\ listFailed' = listFailed /\ fetch' = fetch /\ reviewed' = reviewed
  BY <1>0, <1>4 DEF D!ReviewedRowsGo, D!Fetching
<1>. DEFINE rest == list' = list /\ listFailed' = listFailed /\ fetch' = fetch
                    /\ reviewed' = reviewed
<1>. USE DEF D!query
<1>5. D!ServeList => D!Fetching'
  BY DEF D!ServeList, D!Fetching
<1>6. D!SetFilter \/ D!OpenModal \/ D!TypeInModal \/ D!CloseModal \/ D!Submit => rest
  BY DEF D!SetFilter, D!OpenModal, D!TypeInModal, D!CloseModal, D!Submit
<1>7. D!ServeReview \/ D!DemoReviews => rest
  BY DEF D!ServeReview, D!DemoReviews, D!Settle
<1>8. D!AnswerArrives => D!Fetching' \/ rest
  BY DEF D!AnswerArrives, D!Invalidate, D!Fetching
<1>9. D!ReviewLost \/ D!ToastGoes \/ D!TypeInForm \/ D!Create => rest
  BY DEF D!ReviewLost, D!ToastGoes, D!TypeInForm, D!Create
<1>10. D!CreateArrives => D!Fetching' \/ rest
  BY DEF D!CreateArrives, D!Invalidate, D!Fetching
<1>11. D!ServeCreate \/ D!DemoCreates \/ D!Elsewhere => rest
  BY DEF D!ServeCreate, D!DemoCreates, D!Elsewhere
<1>. QED
  BY <1>1, <1>2, <1>3, <1>4, <1>5, <1>6, <1>7, <1>8, <1>9, <1>10, <1>11 DEF D!Next

\* A creation is sent with an address.
LEMMA DeskCreationIsWhole ==
  ASSUME DeskIInv, D!Next
  PROVE  CreationIsWhole'
<1>0. D!TypeOK /\ CreationIsWhole
  BY DEF DeskIInv
<1>1. CASE D!Create
  BY <1>1 DEF D!Create, CreationIsWhole
<1>2. CASE creation' = creation
  BY <1>0, <1>2 DEF CreationIsWhole
<1>3. CASE creation'.at # "sent"
  BY <1>3 DEF CreationIsWhole
<1>. USE DEF D!creating
<1>4. D!ServeList \/ D!ListArrives \/ D!ListFails \/ D!SetFilter => creation' = creation
  BY DEF D!ServeList, D!ListArrives, D!ListFails, D!SetFilter
<1>5. D!OpenModal \/ D!TypeInModal \/ D!CloseModal \/ D!Submit => creation' = creation
  BY DEF D!OpenModal, D!TypeInModal, D!CloseModal, D!Submit
<1>6. D!ServeReview \/ D!DemoReviews => creation' = creation
  BY DEF D!ServeReview, D!DemoReviews, D!Settle
<1>7. D!AnswerArrives \/ D!ReviewLost \/ D!ToastGoes \/ D!TypeInForm \/ D!Elsewhere
        => creation' = creation
  BY DEF D!AnswerArrives, D!ReviewLost, D!ToastGoes, D!TypeInForm, D!Elsewhere
<1>8. D!ServeCreate \/ D!DemoCreates \/ D!CreateArrives => creation'.at # "sent"
  BY <1>0 DEF D!ServeCreate, D!DemoCreates, D!CreateArrives, D!TypeOK
<1>. QED
  BY <1>1, <1>2, <1>3, <1>4, <1>5, <1>6, <1>7, <1>8 DEF D!Next

\* Which reviews are heard, and by which modal.
Heard == HeardIsOpen /\ OneIsHeard /\ UnheardIsAbandoned

LEMMA DeskHeard ==
  ASSUME DeskIInv, D!Next
  PROVE  Heard'
<1>0. /\ D!TypeOK /\ HeardIsOpen /\ OneIsHeard /\ UnheardIsAbandoned
      /\ asked \subseteq D!Reviews
  BY DEF DeskIInv, D!TypeOK
<1>1. CASE asked' = asked /\ modal' = modal /\ abandoned' = abandoned
  BY <1>0, <1>1 DEF Heard, HeardIsOpen, OneIsHeard, UnheardIsAbandoned, D!Open
<1>2. CASE D!OpenModal
  <2>1. asked' = asked /\ abandoned' = abandoned /\ \A s \in asked : ~ s.heard
    BY <1>0, <1>2 DEF D!OpenModal, HeardIsOpen
  <2>. QED  BY <1>0, <2>1 DEF Heard, HeardIsOpen, OneIsHeard, UnheardIsAbandoned
<1>3. CASE D!TypeInModal
  <2>1. PICK v \in D!Typed(modal.kind) : modal' = [modal EXCEPT !.typed = v, !.error = FALSE]
    BY <1>3 DEF D!TypeInModal
  <2>2. D!Open'
    <3>1. modal' \in D!Modals
      BY <1>0, <1>3, <2>1, ModalChanged DEF D!TypeInModal
    <3>. QED  BY <3>1, PartsAssumption DEF D!DeskAssumption, D!Open
  <2>3. modal'.kind = modal.kind /\ modal'.tenant = modal.tenant /\ modal'.pending = modal.pending
    <3>1. modal \in D!Modals
      BY <1>0, <1>3 DEF D!TypeInModal, D!TypeOK, D!Open
    <3>. QED  BY <2>1, <3>1 DEF D!Modals
  <2>4. asked' = asked /\ abandoned' = abandoned
    BY <1>3 DEF D!TypeInModal
  <2>. QED  BY <1>0, <2>2, <2>3, <2>4 DEF Heard, HeardIsOpen, OneIsHeard, UnheardIsAbandoned
<1>4. ASSUME NEW q \in SUBSET asked, asked' = D!Unheard(q), abandoned' \/ q = {}
      PROVE  Heard'
  <2>1. q \in SUBSET D!Reviews
    BY <1>0
  <2>2. \A s \in asked' : s.heard = FALSE
    BY <1>4, <2>1, UnheardReviews
  <2>3. abandoned' \/ asked' = {}
    BY <1>4 DEF D!Unheard
  <2>. QED  BY <2>2, <2>3 DEF Heard, HeardIsOpen, OneIsHeard, UnheardIsAbandoned
<1>5. CASE D!CloseModal
  <2>1. asked' = D!Unheard(asked) /\ abandoned' = (abandoned \/ modal.pending)
    BY <1>5 DEF D!CloseModal
  <2>2. ~ abandoned' => asked = {}
    BY <1>0, <2>1 DEF HeardIsOpen, UnheardIsAbandoned
  <2>. QED  BY <1>4, <2>1, <2>2
<1>6. CASE D!Submit
  <2>1. \A s \in asked : ~ s.heard
    BY <1>0, <1>6 DEF D!Submit, HeardIsOpen
  <2>2. CASE asked' = asked
    <3>1. abandoned' = abandoned
      BY <1>6 DEF D!Submit
    <3>. QED  BY <1>0, <2>1, <2>2, <3>1 DEF Heard, HeardIsOpen, OneIsHeard, UnheardIsAbandoned
  <2>3. CASE modal.typed # None
    <3>. DEFINE new == [kind |-> modal.kind, tenant |-> modal.tenant, typed |-> modal.typed,
                        heard |-> TRUE, answer |-> None]
    <3>1. /\ asked' = asked \cup {new} /\ abandoned' = abandoned
          /\ modal' = [modal EXCEPT !.error = FALSE, !.pending = TRUE]
      BY <1>6, <2>3 DEF D!Submit
    <3>2. D!Open'
      <4>1. modal.typed \in D!Typed(modal.kind) /\ D!Open
        BY <1>0, <1>6, ModalFields DEF D!Submit
      <4>2. modal' \in D!Modals
        BY <1>0, <3>1, <4>1, ModalChanged
      <4>. QED  BY <4>2, PartsAssumption DEF D!DeskAssumption, D!Open
    <3>3. modal'.kind = new.kind /\ modal'.tenant = new.tenant /\ modal'.pending
      <4>1. modal \in D!Modals
        BY <1>0, <1>6 DEF D!Submit, D!TypeOK, D!Open
      <4>. QED  BY <3>1, <4>1 DEF D!Modals
    <3>4. new.heard
      OBVIOUS
    <3>. HIDE DEF new
    <3>5. ~ abandoned' => asked = {}
      BY <1>0, <2>1, <3>1 DEF UnheardIsAbandoned
    <3>. QED
      BY <2>1, <3>1, <3>2, <3>3, <3>4, <3>5
         DEF Heard, HeardIsOpen, OneIsHeard, UnheardIsAbandoned
  <2>. QED  BY <1>6, <2>2, <2>3 DEF D!Submit
<1>7. ASSUME NEW r \in asked, NEW allowed \in BOOLEAN, D!Settle(r, allowed) PROVE Heard'
  <2>. DEFINE new == D!Answered(r, allowed)
  <2>1. /\ asked' = (asked \ {r}) \cup {new}
        /\ modal' = modal /\ abandoned' = abandoned
    BY <1>7 DEF D!Settle
  <2>2. new.kind = r.kind /\ new.tenant = r.tenant /\ new.heard = r.heard
    BY <1>0, ReviewChanged
  <2>. HIDE DEF new
  <2>3. HeardIsOpen'
    BY <1>0, <2>1, <2>2 DEF HeardIsOpen, D!Open
  <2>4. OneIsHeard'
    BY <1>0, <2>1, <2>2 DEF OneIsHeard
  <2>5. UnheardIsAbandoned'
    BY <1>0, <2>1, <2>2 DEF UnheardIsAbandoned
  <2>. QED  BY <2>3, <2>4, <2>5 DEF Heard
<1>8. CASE D!ServeReview
  BY <1>7, <1>8 DEF D!ServeReview, D!Allowed
<1>9. CASE D!DemoReviews
  BY <1>7, <1>9 DEF D!DemoReviews, D!DemoAllows
<1>10. ASSUME NEW r \in asked, asked' = asked \ {r}, abandoned' = abandoned,
              modal' = modal \/ r.heard
       PROVE  Heard'
  <2>1. HeardIsOpen'
    BY <1>0, <1>10 DEF HeardIsOpen, OneIsHeard, D!Open
  <2>2. OneIsHeard'
    BY <1>0, <1>10 DEF OneIsHeard
  <2>3. UnheardIsAbandoned'
    BY <1>0, <1>10 DEF UnheardIsAbandoned
  <2>. QED  BY <2>1, <2>2, <2>3 DEF Heard
<1>11. CASE D!AnswerArrives
  <2>1. PICK r \in asked :
          IF r.answer = "ok"
          THEN IF D!Open /\ modal.kind = r.kind
               THEN modal' = None /\ asked' = D!Unheard(asked \ {r})
               ELSE asked' = asked \ {r} /\ UNCHANGED modal
          ELSE /\ modal' = IF r.heard THEN [modal EXCEPT !.error = TRUE, !.pending = FALSE] ELSE modal
               /\ asked' = asked \ {r}
    BY <1>11 DEF D!AnswerArrives
  <2>2. abandoned' = abandoned
    BY <1>11 DEF D!AnswerArrives
  <2>3. CASE r.answer = "ok" /\ D!Open /\ modal.kind = r.kind
    <3>1. asked' = D!Unheard(asked \ {r})
      BY <2>1, <2>3
    <3>2. abandoned' \/ asked \ {r} = {}
      BY <1>0, <2>2 DEF OneIsHeard, UnheardIsAbandoned
    <3>. QED  BY <1>4, <3>1, <3>2
  <2>4. CASE ~ (r.answer = "ok" /\ D!Open /\ modal.kind = r.kind)
    <3>1. asked' = asked \ {r} /\ (modal' = modal \/ r.heard)
      BY <2>1, <2>4
    <3>. QED  BY <1>10, <2>2, <3>1
  <2>. QED  BY <2>3, <2>4
<1>12. CASE D!ReviewLost
  <2>1. PICK r \in asked : asked' = asked \ {r} /\ (modal' = modal \/ r.heard)
    BY <1>12 DEF D!ReviewLost
  <2>2. abandoned' = abandoned
    BY <1>12 DEF D!ReviewLost
  <2>. QED  BY <1>10, <2>1, <2>2
<1>. DEFINE rest == asked' = asked /\ modal' = modal /\ abandoned' = abandoned
<1>13. D!ServeList \/ D!ListArrives \/ D!ListFails \/ D!SetFilter => rest
  BY DEF D!ServeList, D!ListArrives, D!ListFails, D!SetFilter
<1>14. D!ToastGoes \/ D!TypeInForm \/ D!Create => rest
  BY DEF D!ToastGoes, D!TypeInForm, D!Create
<1>15. D!ServeCreate \/ D!DemoCreates \/ D!CreateArrives \/ D!Elsewhere => rest
  BY DEF D!ServeCreate, D!DemoCreates, D!CreateArrives, D!Elsewhere
<1>. QED
  BY <1>1, <1>2, <1>3, <1>5, <1>6, <1>8, <1>9, <1>11, <1>12, <1>13, <1>14, <1>15 DEF D!Next

\* A toast comes with a review the page is told of, and that is the open modal's unless a
\* modal was closed on a pending one.
LEMMA ToastStep ==
  ASSUME DeskIInv, D!Next, toast' # None, reviewed' # reviewed, ~ abandoned
  PROVE  D!Open /\ reviewed' = reviewed \cup {modal.tenant} /\ toast' = modal.kind
<1>1. D!AnswerArrives
  <2>1. D!ServeList \/ D!ListArrives \/ D!ListFails \/ D!SetFilter => reviewed' = reviewed
    BY DEF D!ServeList, D!ListArrives, D!ListFails, D!SetFilter
  <2>2. D!OpenModal \/ D!TypeInModal \/ D!CloseModal \/ D!Submit => reviewed' = reviewed
    BY DEF D!OpenModal, D!TypeInModal, D!CloseModal, D!Submit
  <2>3. D!ServeReview \/ D!DemoReviews => reviewed' = reviewed
    BY DEF D!ServeReview, D!DemoReviews, D!Settle
  <2>4. D!ReviewLost \/ D!ToastGoes \/ D!TypeInForm \/ D!Create => reviewed' = reviewed
    BY DEF D!ReviewLost, D!ToastGoes, D!TypeInForm, D!Create
  <2>5. D!ServeCreate \/ D!DemoCreates \/ D!CreateArrives \/ D!Elsewhere => reviewed' = reviewed
    BY DEF D!ServeCreate, D!DemoCreates, D!CreateArrives, D!Elsewhere
  <2>. QED  BY <2>1, <2>2, <2>3, <2>4, <2>5 DEF D!Next
<1>2. PICK r \in asked : /\ r.answer = "ok"
                         /\ toast' = r.kind /\ reviewed' = reviewed \cup {r.tenant}
  BY <1>1 DEF D!AnswerArrives
<1>3. r.heard
  BY DEF DeskIInv, UnheardIsAbandoned
<1>4. D!Open /\ modal.kind = r.kind /\ modal.tenant = r.tenant
  BY <1>3 DEF DeskIInv, HeardIsOpen
<1>. QED  BY <1>2, <1>4

LEMMA DeskInit == D!Init => DeskIInv
<1>. SUFFICES ASSUME D!Init PROVE DeskIInv
  OBVIOUS
<1>1. D!TypeOK
  <2>1. tenants \in [Tenants -> [status : D!Statuses, number : Numbers \cup {None}]]
    BY DEF D!Init, D!Statuses
  <2>2. creation \in [at : {"idle", "sent", "ok", "refused", "failed"}, body : D!Forms]
    BY DEF D!Init, D!EmptyForm, D!Forms
  <2>3. "pending" \in Filters
    BY PartsAssumption DEF D!DeskAssumption
  <2>4. form \in D!Forms
    BY DEF D!Init, D!EmptyForm, D!Forms
  <2>. QED  BY <2>1, <2>2, <2>3, <2>4 DEF D!Init, D!TypeOK
<1>. QED
  BY <1>1 DEF D!Init, DeskIInv, D!ReviewedRowsGo, D!ToldIsDone, OkIsDone, ReadIsLater,
              CreationIsWhole, HeardIsOpen, OneIsHeard, UnheardIsAbandoned

LEMMA DeskNext ==
  ASSUME DeskIInv, [D!Next]_D!vars
  PROVE  DeskIInv'
<1>1. CASE D!Next
  BY <1>1, DeskTypeOK, DeskReviewedRowsGo, DeskToldIsDone, DeskOkIsDone, DeskReadIsLater,
     DeskCreationIsWhole, DeskHeard DEF DeskIInv, Heard
<1>2. CASE UNCHANGED D!vars
  BY <1>2
     DEF D!vars, D!server, D!query, D!creating, DeskIInv, D!TypeOK, D!ReviewedRowsGo,
         D!ToldIsDone, OkIsDone, Done, ReadIsLater, CreationIsWhole, HeardIsOpen, OneIsHeard,
         UnheardIsAbandoned, D!Open, D!Fetching
<1>. QED  BY <1>1, <1>2

(***************************************************************************)
(* The list, the toast and the table tell the reviewer the same story, at  *)
(* the server and in both demos: a row reviewed here does not come back,   *)
(* what the page says was done is done, and the toast speaks of the modal  *)
(* that closes (AdminTenantsPage, TenantsAdminPage, the fixtures of        *)
(* adminApi.ts and authApi.ts).                                            *)
(***************************************************************************)
THEOREM ReviewersAreTold == D!Spec => ReviewersAreToldTrue
<1>1. DeskIInv /\ [D!Next]_D!vars => DeskIInv'
  BY DeskNext
<1>2. DeskIInv => D!TypeOK /\ D!ReviewedRowsGo /\ D!ToldIsDone
  BY DEF DeskIInv
<1>3. DeskIInv /\ [D!Next]_D!vars =>
        [toast' # None /\ reviewed' # reviewed /\ ~abandoned =>
           D!Open /\ reviewed' = reviewed \cup {modal.tenant} /\ toast' = modal.kind]_D!vars
  BY ToastStep
<1>4. D!Spec => []DeskIInv
  BY <1>1, DeskInit, PTL DEF D!Spec
<1>. QED
  BY <1>2, <1>3, <1>4, PTL
     DEF D!Spec, ReviewersAreToldTrue, D!ReviewersAreToldTrue, D!ToastIsOfTheModal
=============================================================================
