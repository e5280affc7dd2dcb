--------------------------- MODULE DocsPageProofs ---------------------------
(***************************************************************************)
(* Theorems about the content of a docs page, for any number of updates    *)
(* and requests.                                                           *)
(*                                                                         *)
(* Why an update that no writer overlapped survives: every version that    *)
(* started after it holds it (Covered), and as long as there is no such    *)
(* version its log row is there (Log) and past the boundary of every load. *)
(* Then what autosaves and saves hold of the versions before them.         *)
(***************************************************************************)
EXTENDS DocsPage, TLAPS

RowOf(u) == [update |-> u, at |-> edit[u].at]

\* Transaction starts are in the past, and an update shares its with nobody.
Stamps ==
    /\ \A u \in Update : edit[u].stage # "new" => edit[u].at <= clock
    /\ \A v \in versions : v.at <= clock
    /\ collab.pc \in {"committing", "pruning"} => collab.at <= clock
    /\ \A r \in Request : request[r].pc # "new" => request[r].at <= clock

Distinct ==
    \A u \in Update : edit[u].stage # "new" =>
        /\ \A v \in versions : v.at # edit[u].at
        /\ collab.pc = "committing" => collab.at # edit[u].at
        /\ \A r \in Request : Saving(r) => request[r].at # edit[u].at

\* A row is pruned only behind a version that started after it.
Log ==
    /\ \A w \in wal : edit[w.update].stage # "new" /\ w.at = edit[w.update].at
    /\ \A u \in Update : edit[u].stage \in {"logged", "acked"} =>
           RowOf(u) \in wal \/ \E v \in versions : v.at > edit[u].at
    /\ collab.pc \in {"encoding", "writing"} => \A w \in collab.rows : w.at <= clock
    /\ collab.pc \in {"committing", "pruning"} => \A w \in collab.rows : w.at < collab.at
    /\ collab.pc = "pruning" => \E v \in versions : v.at = collab.at

\* What the history records of the present state.
History ==
    /\ \A u \in Update : Writing /\ InFlight(u) => u \in exposed
    /\ \A u \in Update : TwoWriting /\ edit[u].stage # "new" => u \in exposed

\* No message is under way to a page that is not in memory.
Quiet == ~Loaded => \A u \in Update : ~InFlight(u)

\* The server's document, and the state it is about to store.
Memory ==
    \A u \in Update \ exposed : edit[u].stage = "acked" =>
        /\ collab.pc = "loading" =>
               \/ <<u, "insert">> \in live
               \/ RowOf(u) \in wal /\ edit[u].at > collab.since
        /\ Loaded => <<u, "insert">> \in live
        /\ collab.pc \in {"writing", "committing"} => <<u, "insert">> \in collab.draft

Saves ==
    /\ \A r \in Request :
        /\ request[r].pc \in {"snapshot", "tail"} => request[r].op = "save"
        /\ request[r].pc = "insert" => request[r].op \in {"save", "restore"}
    /\ \A r \in Request, u \in Update \ exposed :
        request[r].op = "save" /\ edit[u].stage = "acked"
          /\ edit[u].at < request[r].at =>
            /\ request[r].pc = "tail" =>
                   \/ <<u, "insert">> \in request[r].doc
                   \/ RowOf(u) \in wal /\ \A v \in versions : v.at < edit[u].at
            /\ request[r].pc = "insert" => <<u, "insert">> \in request[r].doc

Covered ==
    \A v \in versions, u \in Update \ exposed :
        edit[u].stage # "new" /\ edit[u].at < v.at =>
            /\ edit[u].stage \in {"acked", "dropped"}
            /\ edit[u].stage = "acked" => <<u, "insert">> \in v.doc

Latest == latestVersion # {}

Inv ==
    /\ TypeOK /\ Stamps /\ Distinct /\ Log /\ History /\ Quiet
    /\ Memory /\ Saves /\ Covered /\ Latest

-----------------------------------------------------------------------------
\* Every step writes the history.
LEMMA StepObserves ==
  ASSUME Next
  PROVE  Observe
BY DEF Next, LoadSnapshot, LoadTail, Unload, Crash, BeginAppend, CommitAppend,
       Apply, AppendFails, ReadLatest, ReadRows, Encode, BeginVersion,
       CommitVersion, Prune, CompactionFails, BeginSave, SaveSnapshot,
       SaveTail, BeginRestore, InsertVersion

\* The documents a load reads are made of operations.
LEMMA ReadsAreOps ==
  ASSUME TypeOK
  PROVE  /\ \A rows \in SUBSET wal : Content(rows) \subseteq Op
         /\ \A t \in Time : readUpdatesSince(t) \in SUBSET wal
         /\ walRowsSinceLatestSnapshot \in SUBSET wal
         /\ materializeCurrentState \subseteq Op
<1>1. \A rows \in SUBSET wal : Content(rows) \subseteq Op
  BY DEF TypeOK, Row, Content, Insert, Op
<1>2. /\ \A t \in Time : readUpdatesSince(t) \in SUBSET wal
      /\ walRowsSinceLatestSnapshot \in SUBSET wal
  BY DEF readUpdatesSince, walRowsSinceLatestSnapshot
<1>3. materializeCurrentState \subseteq Op
  <2>1. ASSUME NEW op \in UNION {v.doc : v \in latestVersion}
        PROVE  op \in Op
    BY <2>1 DEF latestVersion, TypeOK, Version
  <2>. QED
    BY <1>1, <1>2, <2>1 DEF materializeCurrentState
<1>. QED
  BY <1>1, <1>2, <1>3

\* The guard only adds strips of updates.
LEMMA GuardAdds ==
  ASSUME NEW doc \in SUBSET Op
  PROVE  /\ enforceContentWhitelist(doc) \in SUBSET Op
         /\ doc \subseteq enforceContentWhitelist(doc)
<1>1. ASSUME NEW u \in {d \in Disallowed : <<d, "insert">> \in doc}
      PROVE  <<u, "strip">> \in Op
  BY DocsAssumption DEF Op
<1>. QED
  BY <1>1 DEF enforceContentWhitelist

LEMMA HistoryTyped ==
  ASSUME TypeOK, Observe
  PROVE  /\ exposed' \subseteq Update
         /\ owed' \in [Request -> SUBSET Op]
         /\ disturbed' \subseteq Request
<1>1. exposed' \subseteq Update
  BY DEF TypeOK, Observe, Superseded
<1>2. owed' \in [Request -> SUBSET Op]
  BY ReadsAreOps DEF TypeOK, Observe
<1>3. disturbed' \subseteq Request
  BY DEF TypeOK, Observe
<1>. QED
  BY <1>1, <1>2, <1>3

LEMMA InitTypeOK == Init => TypeOK
BY DocsAssumption DEF Init, TypeOK, Time, Version, Blank, Idle, Task, Fresh

LEMMA NextTypeOK ==
  ASSUME TypeOK, Quiet, [Next]_vars
  PROVE  TypeOK'
<1>. USE DEF Time, Idle, Ready, Task
<1>1. CASE UNCHANGED vars
  BY <1>1 DEF TypeOK, vars
<1>2. CASE Next
  <2>. /\ exposed' \subseteq Update
       /\ owed' \in [Request -> SUBSET Op]
       /\ disturbed' \subseteq Request
    BY <1>2, StepObserves, HistoryTyped
  <2>1. CASE LoadSnapshot
    <3>. PICK v \in latestVersion :
           /\ collab' = Task("loading", v.at, {}, {}, 0)
           /\ live' = v.doc
      BY <2>1 DEF LoadSnapshot
    <3>1. v.at \in Nat /\ v.doc \in SUBSET Op
      BY DEF latestVersion, TypeOK, Version
    <3>. QED
      BY <2>1, <3>1 DEF LoadSnapshot, TypeOK
  <2>2. CASE LoadTail
    <3>1. Content(readUpdatesSince(collab.since)) \subseteq Op
      BY ReadsAreOps DEF TypeOK
    <3>. QED
      BY <2>2, <3>1 DEF LoadTail, TypeOK
  <2>3. CASE Unload
    BY <2>3 DEF Unload, TypeOK
  <2>4. CASE Crash
    BY <2>4, DocsAssumption DEF Crash, TypeOK
  <2>5. ASSUME NEW u \in Update, BeginAppend(u)
        PROVE  TypeOK'
    BY <2>5 DEF BeginAppend, Loaded, TypeOK
  <2>6. ASSUME NEW u \in Update, CommitAppend(u)
        PROVE  TypeOK'
    BY <2>6 DEF CommitAppend, TypeOK, Row
  <2>7. ASSUME NEW u \in Update, Apply(u)
        PROVE  TypeOK'
    <3>1. Loaded
      BY <2>7 DEF Apply, Quiet, InFlight
    <3>. QED
      BY <2>7, <3>1 DEF Apply, TypeOK, Insert, Op, Loaded
  <2>8. ASSUME NEW u \in Update, AppendFails(u)
        PROVE  TypeOK'
    BY <2>8, DocsAssumption DEF AppendFails, TypeOK
  <2>9. CASE ReadLatest
    <3>. PICK v \in latestVersion :
           collab' = Task("reading", v.at, {}, {}, 0)
      BY <2>9 DEF ReadLatest
    <3>1. v.at \in Nat
      BY DEF latestVersion, TypeOK, Version
    <3>. QED
      BY <2>9, <3>1 DEF ReadLatest, TypeOK
  <2>10. CASE ReadRows
    <3>1. readUpdatesSince(collab.since) \in SUBSET Row
      BY ReadsAreOps DEF TypeOK
    <3>. QED
      BY <2>10, <3>1 DEF ReadRows, TypeOK
  <2>11. CASE Encode
    BY <2>11, GuardAdds DEF Encode, TypeOK
  <2>12. CASE BeginVersion
    <3>1. clock' = clock + 1 /\ clock' \in Nat
      BY <2>12 DEF BeginVersion, TypeOK
    <3>2. collab' = Task("committing", 0, collab.rows, collab.draft, clock')
      BY <2>12 DEF BeginVersion
    <3>3. collab.pc = "writing"
      BY <2>12 DEF BeginVersion
    <3>. QED
      BY <2>12, <3>1, <3>2, <3>3 DEF BeginVersion, TypeOK
  <2>13. CASE CommitVersion
    BY <2>13 DEF CommitVersion, TypeOK, Version
  <2>14. CASE Prune
    BY <2>14 DEF Prune, TypeOK
  <2>15. CASE CompactionFails
    BY <2>15, DocsAssumption DEF CompactionFails, TypeOK
  <2>16. ASSUME NEW r \in Request, BeginSave(r)
         PROVE  TypeOK'
    BY <2>16 DEF BeginSave, TypeOK
  <2>17. ASSUME NEW r \in Request, SaveSnapshot(r)
         PROVE  TypeOK'
    BY <2>17 DEF SaveSnapshot, latestVersion, TypeOK, Version
  <2>18. ASSUME NEW r \in Request, SaveTail(r)
         PROVE  TypeOK'
    <3>1. Content(walRowsSinceLatestSnapshot) \subseteq Op
      BY ReadsAreOps
    <3>. QED
      BY <2>18, <3>1 DEF SaveTail, TypeOK
  <2>19. ASSUME NEW r \in Request, BeginRestore(r)
         PROVE  TypeOK'
    BY <2>19 DEF BeginRestore, TypeOK, Version
  <2>20. ASSUME NEW r \in Request, InsertVersion(r)
         PROVE  TypeOK'
    BY <2>20 DEF InsertVersion, TypeOK, Version
  <2>. QED
    BY <1>2, <2>1, <2>2, <2>3, <2>4, <2>5, <2>6, <2>7, <2>8, <2>9, <2>10,
       <2>11, <2>12, <2>13, <2>14, <2>15, <2>16, <2>17, <2>18, <2>19, <2>20
       DEF Next
<1>. QED
  BY <1>1, <1>2

-----------------------------------------------------------------------------
\* What a step may do to the history.
LEMMA HistoryGrows ==
  ASSUME TypeOK, [Next]_vars
  PROVE  exposed \subseteq exposed'
<1>1. CASE UNCHANGED vars
  BY <1>1 DEF vars
<1>2. CASE Next
  BY <1>2, StepObserves DEF Observe
<1>. QED
  BY <1>1, <1>2

LEMMA NextHistory ==
  ASSUME History, [Next]_vars
  PROVE  History'
<1>1. CASE UNCHANGED vars
  BY <1>1 DEF vars, History, Writing, TwoWriting, Compacting, Saving, InFlight
<1>2. CASE Next
  <2>1. ASSUME NEW u \in Update, Writing', InFlight(u)'
        PROVE  u \in exposed'
    BY <1>2, <2>1, StepObserves DEF Observe
  <2>2. ASSUME NEW u \in Update, TwoWriting', edit'[u].stage # "new"
        PROVE  u \in exposed'
    BY <1>2, <2>2, StepObserves DEF Observe
  <2>. QED
    BY <2>1, <2>2 DEF History
<1>. QED
  BY <1>1, <1>2

LEMMA NextQuiet ==
  ASSUME TypeOK, Quiet, [Next]_vars
  PROVE  Quiet'
<1>. USE DEF Quiet, Loaded, InFlight, TypeOK, Idle, Ready, Task
<1>1. CASE UNCHANGED vars
  BY <1>1 DEF vars
<1>2. CASE Next
  <2>1. CASE LoadSnapshot \/ LoadTail \/ Unload
    BY <2>1 DEF LoadSnapshot, LoadTail, Unload
  <2>2. CASE Crash
    BY <2>2 DEF Crash
  <2>3. ASSUME NEW u \in Update, BeginAppend(u) \/ CommitAppend(u) \/ Apply(u) \/ AppendFails(u)
        PROVE  Quiet'
    BY <2>3 DEF BeginAppend, CommitAppend, Apply, AppendFails
  <2>4. CASE ReadLatest \/ ReadRows \/ Encode \/ BeginVersion
    BY <2>4 DEF ReadLatest, ReadRows, Encode, BeginVersion
  <2>5. CASE CommitVersion \/ Prune \/ CompactionFails
    BY <2>5 DEF CommitVersion, Prune, CompactionFails
  <2>6. ASSUME NEW r \in Request, BeginSave(r) \/ SaveSnapshot(r) \/ SaveTail(r)
                                   \/ BeginRestore(r) \/ InsertVersion(r)
        PROVE  Quiet'
    BY <2>6 DEF BeginSave, SaveSnapshot, SaveTail, BeginRestore, InsertVersion
  <2>. QED
    BY <1>2, <2>1, <2>2, <2>3, <2>4, <2>5, <2>6 DEF Next
<1>. QED
  BY <1>1, <1>2

LEMMA NextLatest ==
  ASSUME TypeOK, Latest, [Next]_vars
  PROVE  Latest'
<1>. USE DEF Latest, latestVersion
<1>1. ASSUME NEW new \in Version, versions' = versions \cup {new}
      PROVE  Latest'
  <2>. PICK v \in versions : \A w \in versions : w.at <= v.at
    OBVIOUS
  <2>1. \A w \in versions' : w.at \in Nat
    BY <1>1 DEF TypeOK, Version, Time
  <2>2. CASE new.at <= v.at
    BY <1>1, <2>1, <2>2
  <2>3. CASE v.at < new.at
    BY <1>1, <2>1, <2>3
  <2>. QED
    BY <1>1, <2>1, <2>2, <2>3
<1>2. CASE versions' = versions
  BY <1>2
<1>3. CASE CommitVersion
  BY <1>1, <1>3 DEF CommitVersion, TypeOK, Version
<1>4. ASSUME NEW r \in Request, InsertVersion(r)
      PROVE  Latest'
  BY <1>1, <1>4 DEF InsertVersion, TypeOK, Version
<1>5. versions' = versions \/ CommitVersion \/ \E r \in Request : InsertVersion(r)
  BY DEF Next, vars, LoadSnapshot, LoadTail, Unload, Crash, BeginAppend,
         CommitAppend, Apply, AppendFails, ReadLatest, ReadRows, Encode,
         BeginVersion, Prune, CompactionFails, BeginSave, SaveSnapshot,
         SaveTail, BeginRestore
<1>. QED
  BY <1>2, <1>3, <1>4, <1>5

LEMMA NextStamps ==
  ASSUME TypeOK, Stamps, [Next]_vars
  PROVE  Stamps'
<1>. USE DEF Stamps, TypeOK, Time, Idle, Ready, Task
<1>1. CASE UNCHANGED vars
  BY <1>1 DEF vars
<1>2. CASE Next
  <2>1. CASE LoadSnapshot \/ LoadTail \/ Unload
    <3>1. UNCHANGED <<clock, versions, edit, request>>
      BY <2>1 DEF LoadSnapshot, LoadTail, Unload
    <3>2. collab'.pc \notin {"committing", "pruning"}
      BY <2>1 DEF LoadSnapshot, LoadTail, Unload
    <3>. QED
      BY <3>1, <3>2
  <2>2. CASE Crash
    <3>1. \A u \in Update : edit'[u].at = edit[u].at
      BY <2>2 DEF Crash, InFlight
    <3>2. \A u \in Update : edit'[u].stage # "new" => edit[u].stage # "new"
      BY <2>2 DEF Crash, InFlight
    <3>3. clock' = clock /\ versions' = versions /\ request' = request
      BY <2>2 DEF Crash
    <3>4. collab'.pc = "closed"
      BY <2>2 DEF Crash
    <3>. QED
      BY <3>1, <3>2, <3>3, <3>4
  <2>3. ASSUME NEW u \in Update, BeginAppend(u)
        PROVE  Stamps'
    BY <2>3 DEF BeginAppend, Version
  <2>4. ASSUME NEW u \in Update, CommitAppend(u) \/ Apply(u) \/ AppendFails(u)
        PROVE  Stamps'
    BY <2>4 DEF CommitAppend, Apply, AppendFails
  <2>5. CASE ReadLatest \/ ReadRows \/ Encode \/ Prune \/ CompactionFails
    <3>1. UNCHANGED <<clock, versions, edit, request>>
      BY <2>5 DEF ReadLatest, ReadRows, Encode, Prune, CompactionFails
    <3>2. collab'.pc \notin {"committing", "pruning"}
      BY <2>5 DEF ReadLatest, ReadRows, Encode, Prune, CompactionFails
    <3>. QED
      BY <3>1, <3>2
  <2>6. CASE BeginVersion
    BY <2>6 DEF BeginVersion, Version
  <2>7. CASE CommitVersion
    BY <2>7 DEF CommitVersion, Version
  <2>8. ASSUME NEW r \in Request, BeginSave(r) \/ BeginRestore(r)
        PROVE  Stamps'
    BY <2>8 DEF BeginSave, BeginRestore, Version
  <2>9. ASSUME NEW r \in Request, SaveSnapshot(r) \/ SaveTail(r)
        PROVE  Stamps'
    <3>1. clock' = clock /\ versions' = versions /\ edit' = edit /\ collab' = collab
      BY <2>9 DEF SaveSnapshot, SaveTail
    <3>2. request[r].pc \in {"snapshot", "tail"}
      BY <2>9 DEF SaveSnapshot, SaveTail
    <3>3. \A q \in Request : request'[q].at = request[q].at
      BY <2>9 DEF SaveSnapshot, SaveTail
    <3>4. \A q \in Request \ {r} : request'[q].pc = request[q].pc
      BY <2>9 DEF SaveSnapshot, SaveTail
    <3>. QED
      BY <3>1, <3>2, <3>3, <3>4
  <2>10. ASSUME NEW r \in Request, InsertVersion(r)
         PROVE  Stamps'
    BY <2>10 DEF InsertVersion, Version
  <2>. QED
    BY <1>2, <2>1, <2>2, <2>3, <2>4, <2>5, <2>6, <2>7, <2>8, <2>9, <2>10 DEF Next
<1>. QED
  BY <1>1, <1>2

LEMMA NextDistinct ==
  ASSUME TypeOK, Stamps, Distinct, [Next]_vars
  PROVE  Distinct'
<1>. USE DEF Distinct, TypeOK, Time, Idle, Ready, Task, Saving
<1>1. CASE UNCHANGED vars
  BY <1>1 DEF vars
<1>2. CASE Next
  <2>1. CASE LoadSnapshot \/ LoadTail \/ Unload
    <3>1. UNCHANGED <<clock, versions, edit, request>>
      BY <2>1 DEF LoadSnapshot, LoadTail, Unload
    <3>2. collab'.pc \notin {"committing", "pruning"}
      BY <2>1 DEF LoadSnapshot, LoadTail, Unload
    <3>. QED
      BY <3>1, <3>2
  <2>2. CASE Crash
    <3>1. \A u \in Update : edit'[u].at = edit[u].at
      BY <2>2 DEF Crash, InFlight
    <3>2. \A u \in Update : edit'[u].stage # "new" => edit[u].stage # "new"
      BY <2>2 DEF Crash, InFlight
    <3>3. clock' = clock /\ versions' = versions /\ request' = request
      BY <2>2 DEF Crash
    <3>4. collab'.pc = "closed"
      BY <2>2 DEF Crash
    <3>. QED
      BY <3>1, <3>2, <3>3, <3>4
  <2>3. ASSUME NEW u \in Update, BeginAppend(u)
        PROVE  Distinct'
    BY <2>3 DEF BeginAppend, Version, Stamps
  <2>4. ASSUME NEW u \in Update, CommitAppend(u) \/ Apply(u) \/ AppendFails(u)
        PROVE  Distinct'
    BY <2>4 DEF CommitAppend, Apply, AppendFails
  <2>5. CASE ReadLatest \/ ReadRows \/ Encode \/ Prune \/ CompactionFails
    <3>1. UNCHANGED <<clock, versions, edit, request>>
      BY <2>5 DEF ReadLatest, ReadRows, Encode, Prune, CompactionFails
    <3>2. collab'.pc \notin {"committing", "pruning"}
      BY <2>5 DEF ReadLatest, ReadRows, Encode, Prune, CompactionFails
    <3>. QED
      BY <3>1, <3>2
  <2>6. CASE BeginVersion
    BY <2>6 DEF BeginVersion, Version, Stamps
  <2>7. CASE CommitVersion
    BY <2>7 DEF CommitVersion, Version
  <2>8. ASSUME NEW r \in Request, BeginSave(r) \/ BeginRestore(r)
        PROVE  Distinct'
    BY <2>8 DEF BeginSave, BeginRestore, Version, Stamps
  <2>9. ASSUME NEW r \in Request, SaveSnapshot(r) \/ SaveTail(r)
        PROVE  Distinct'
    <3>1. clock' = clock /\ versions' = versions /\ edit' = edit /\ collab' = collab
      BY <2>9 DEF SaveSnapshot, SaveTail
    <3>2. request[r].pc \in {"snapshot", "tail"}
      BY <2>9 DEF SaveSnapshot, SaveTail
    <3>3. \A q \in Request : request'[q].at = request[q].at
      BY <2>9 DEF SaveSnapshot, SaveTail
    <3>4. \A q \in Request \ {r} : request'[q].pc = request[q].pc
      BY <2>9 DEF SaveSnapshot, SaveTail
    <3>5. \A q \in Request : Saving(q)' => Saving(q)
      BY <3>2, <3>4
    <3>. HIDE DEF Saving
    <3>. QED
      BY <3>1, <3>3, <3>5
  <2>10. ASSUME NEW r \in Request, InsertVersion(r)
         PROVE  Distinct'
    BY <2>10 DEF InsertVersion, Version
  <2>. QED
    BY <1>2, <2>1, <2>2, <2>3, <2>4, <2>5, <2>6, <2>7, <2>8, <2>9, <2>10 DEF Next
<1>. QED
  BY <1>1, <1>2

LEMMA NextLog ==
  ASSUME TypeOK, Stamps, Log, [Next]_vars
  PROVE  Log'
<1>. USE DEF Log, TypeOK, Time, Idle, Ready, Task, RowOf
<1>1. CASE UNCHANGED vars
  BY <1>1 DEF vars
<1>2. CASE Next
  <2>1. CASE LoadSnapshot \/ LoadTail \/ Unload
    <3>1. wal' = wal /\ versions' = versions /\ edit' = edit
      BY <2>1 DEF LoadSnapshot, LoadTail, Unload
    <3>2. collab'.pc \in {"loading", "open", "closed"}
      BY <2>1 DEF LoadSnapshot, LoadTail, Unload
    <3>. QED
      BY <3>1, <3>2
  <2>2. CASE Crash
    <3>1. \A u \in Update : edit'[u].at = edit[u].at
      BY <2>2 DEF Crash, InFlight
    <3>2. \A u \in Update : edit'[u].stage = edit[u].stage \/ edit'[u].stage = "dropped"
      BY <2>2 DEF Crash, InFlight
    <3>3. wal' = wal /\ versions' = versions /\ collab'.pc = "closed"
      BY <2>2 DEF Crash
    <3>4. \A w \in wal : w.update \in Update
      BY DEF Row
    <3>. QED
      BY <3>1, <3>2, <3>3, <3>4
  <2>3. ASSUME NEW u \in Update, BeginAppend(u)
        PROVE  Log'
    <3>1. wal' = wal /\ versions' = versions /\ collab' = collab /\ clock' = clock + 1
      BY <2>3 DEF BeginAppend
    <3>2. edit[u].stage = "new" /\ edit'[u].stage = "begun"
      BY <2>3 DEF BeginAppend
    <3>3. \A q \in Update \ {u} : edit'[q] = edit[q]
      BY <2>3 DEF BeginAppend
    <3>4. \A w \in wal : w.update \in Update \ {u}
      BY <3>2 DEF Row
    <3>5. \A w \in collab.rows : w.at \in Nat
      BY DEF Row
    <3>. QED
      BY <3>1, <3>2, <3>3, <3>4, <3>5
  <2>4. ASSUME NEW u \in Update, CommitAppend(u)
        PROVE  Log'
    <3>1. wal' = wal \cup {RowOf(u)} /\ versions' = versions /\ collab' = collab
          /\ clock' = clock
      BY <2>4 DEF CommitAppend
    <3>2. edit[u].stage = "begun" /\ edit'[u].stage = "logged"
      BY <2>4 DEF CommitAppend
    <3>3. \A q \in Update \ {u} : edit'[q] = edit[q]
      BY <2>4 DEF CommitAppend
    <3>4. edit'[u].at = edit[u].at
      BY <2>4 DEF CommitAppend
    <3>5. \A w \in wal : w.update \in Update
      BY DEF Row
    <3>. QED
      BY <3>1, <3>2, <3>3, <3>4, <3>5
  <2>5. ASSUME NEW u \in Update, Apply(u) \/ AppendFails(u)
        PROVE  Log'
    <3>1. wal' = wal /\ versions' = versions /\ collab' = collab /\ clock' = clock
      BY <2>5 DEF Apply, AppendFails
    <3>2. \/ edit[u].stage = "logged" /\ edit'[u].stage = "acked"
          \/ edit'[u].stage = "dropped"
      BY <2>5 DEF Apply, AppendFails
    <3>3. \A q \in Update \ {u} : edit'[q] = edit[q]
      BY <2>5 DEF Apply, AppendFails
    <3>4. edit'[u].at = edit[u].at
      BY <2>5 DEF Apply, AppendFails
    <3>5. \A w \in wal : w.update \in Update
      BY DEF Row
    <3>. QED
      BY <3>1, <3>2, <3>3, <3>4, <3>5
  <2>6. CASE ReadLatest \/ CompactionFails
    <3>1. wal' = wal /\ versions' = versions /\ edit' = edit
      BY <2>6 DEF ReadLatest, CompactionFails
    <3>2. collab'.pc \in {"reading", "open"}
      BY <2>6 DEF ReadLatest, CompactionFails
    <3>. QED
      BY <3>1, <3>2
  <2>7. CASE ReadRows
    <3>1. wal' = wal /\ versions' = versions /\ edit' = edit /\ clock' = clock
      BY <2>7 DEF ReadRows
    <3>2. collab'.pc \in {"encoding", "open"}
      BY <2>7 DEF ReadRows
    <3>3. \A w \in wal : w.at <= clock
      BY DEF Stamps, Row
    <3>4. collab'.rows \subseteq wal
      BY <2>7 DEF ReadRows, readUpdatesSince
    <3>. QED
      BY <3>1, <3>2, <3>3, <3>4
  <2>8. CASE Encode
    BY <2>8 DEF Encode
  <2>9. CASE BeginVersion
    <3>1. wal' = wal /\ versions' = versions /\ edit' = edit
      BY <2>9 DEF BeginVersion
    <3>2. collab'.pc = "committing" /\ collab'.at = clock + 1 /\ collab'.rows = collab.rows
      BY <2>9 DEF BeginVersion
    <3>3. \A w \in collab.rows : w.at < clock + 1
      BY <2>9 DEF BeginVersion, Row
    <3>. QED
      BY <3>1, <3>2, <3>3
  <2>10. CASE CommitVersion
    <3>1. wal' = wal /\ edit' = edit
      BY <2>10 DEF CommitVersion
    <3>2. versions' = versions \cup {[at |-> collab.at, doc |-> collab.draft]}
      BY <2>10 DEF CommitVersion
    <3>3. /\ collab.pc = "committing" /\ collab'.pc = "pruning"
          /\ collab'.rows = collab.rows /\ collab'.at = collab.at
      BY <2>10 DEF CommitVersion
    <3>4. [at |-> collab.at, doc |-> collab.draft].at = collab.at
      OBVIOUS
    <3>5. \E v \in versions' : v.at = collab.at
      BY <3>2, <3>4
    <3>6. versions \subseteq versions'
      BY <3>2
    <3>. QED
      BY <3>1, <3>3, <3>5, <3>6
  <2>11. CASE Prune
    <3>1. /\ wal' = wal \ collab.rows /\ versions' = versions /\ edit' = edit
          /\ collab.pc = "pruning" /\ collab'.pc = "open"
      BY <2>11 DEF Prune
    <3>2. PICK v \in versions : v.at = collab.at
      BY <3>1
    <3>3. ASSUME NEW u \in Update, edit[u].stage \in {"logged", "acked"},
                 RowOf(u) \in collab.rows
          PROVE  v.at > edit[u].at
      BY <3>1, <3>2, <3>3 DEF Row
    <3>4. \A u \in Update : edit[u].stage \in {"logged", "acked"} =>
              RowOf(u) \in wal' \/ \E x \in versions' : x.at > edit[u].at
      BY <3>1, <3>3
    <3>. QED
      BY <3>1, <3>4
  <2>12. ASSUME NEW r \in Request, BeginSave(r) \/ BeginRestore(r)
         PROVE  Log'
    <3>1. wal' = wal /\ versions' = versions /\ edit' = edit /\ collab' = collab
          /\ clock' = clock + 1
      BY <2>12 DEF BeginSave, BeginRestore
    <3>2. \A w \in collab.rows : w.at \in Nat
      BY DEF Row
    <3>. QED
      BY <3>1, <3>2
  <2>13. ASSUME NEW r \in Request, SaveSnapshot(r) \/ SaveTail(r)
         PROVE  Log'
    <3>1. wal' = wal /\ versions' = versions /\ edit' = edit /\ collab' = collab
          /\ clock' = clock
      BY <2>13 DEF SaveSnapshot, SaveTail
    <3>. QED
      BY <3>1
  <2>14. ASSUME NEW r \in Request, InsertVersion(r)
         PROVE  Log'
    <3>1. wal' = wal /\ versions \subseteq versions' /\ edit' = edit /\ collab' = collab
          /\ clock' = clock
      BY <2>14 DEF InsertVersion
    <3>. QED
      BY <3>1
  <2>. QED
    BY <1>2, <2>1, <2>2, <2>3, <2>4, <2>5, <2>6, <2>7, <2>8, <2>9, <2>10,
       <2>11, <2>12, <2>13, <2>14 DEF Next
<1>. QED
  BY <1>1, <1>2

\* A JS Date never lies after the time it stands for.
LEMMA TruncateBelow == \A t \in Nat : Truncate(t) <= t
<1>1. \A t \in Nat : t % TicksPerMs >= 0
  BY DocsAssumption
<1>. QED
  BY <1>1, DocsAssumption DEF Truncate

\* A row past a boundary is read by a load with that boundary.
LEMMA RowIsRead ==
  ASSUME TypeOK, NEW u \in Update, NEW t \in Nat, RowOf(u) \in wal, edit[u].at > t
  PROVE  <<u, "insert">> \in Content(readUpdatesSince(t))
<1>1. Truncate(t) <= t /\ Truncate(t) \in Int
  BY TruncateBelow, DocsAssumption DEF Truncate
<1>2. edit[u].at \in Nat
  BY DEF TypeOK, Time
<1>3. RowOf(u) \in readUpdatesSince(t)
  BY <1>1, <1>2 DEF readUpdatesSince, RowOf
<1>. QED
  BY <1>3 DEF Content, Insert, RowOf

\* The snapshot a reader takes first: it holds the update, or the log does.
LEMMA SnapshotOrRow ==
  ASSUME TypeOK, Distinct, Log, Covered, NEW v \in latestVersion,
         NEW u \in Update \ exposed, edit[u].stage = "acked"
  PROVE  \/ <<u, "insert">> \in v.doc
         \/ /\ RowOf(u) \in wal
            /\ edit[u].at > v.at
            /\ \A w \in versions : w.at < edit[u].at
<1>1. v \in versions /\ \A w \in versions : w.at <= v.at
  BY DEF latestVersion
<1>2. /\ \A w \in versions : w.at \in Nat
      /\ edit[u].at \in Nat
  BY DEF TypeOK, Version, Time
<1>3. edit[u].at # v.at
  BY <1>1 DEF Distinct
<1>4. CASE edit[u].at < v.at
  BY <1>1, <1>4 DEF Covered
<1>5. CASE edit[u].at > v.at
  <2>1. \A w \in versions : w.at < edit[u].at
    BY <1>1, <1>2, <1>5
  <2>2. RowOf(u) \in wal
    BY <1>2, <2>1 DEF Log
  <2>. QED
    BY <1>5, <2>1, <2>2
<1>. QED
  BY <1>1, <1>2, <1>3, <1>4, <1>5

LEMMA InvSurvives ==
  ASSUME Inv
  PROVE  LossNeedsOverlap
<1>. SUFFICES ASSUME NEW u \in Update \ exposed, edit[u].stage = "acked"
              PROVE  <<u, "insert">> \in replayPage
  BY DEF LossNeedsOverlap
<1>. PICK v \in latestVersion : TRUE
  BY DEF Inv, Latest
<1>1. \/ <<u, "insert">> \in v.doc
      \/ RowOf(u) \in wal /\ edit[u].at > v.at
  BY SnapshotOrRow DEF Inv
<1>2. v.at \in Nat
  BY DEF Inv, TypeOK, latestVersion, Version, Time
<1>3. <<u, "insert">> \in v.doc \cup Content(readUpdatesSince(v.at))
  BY <1>1, <1>2, RowIsRead DEF Inv
<1>. QED
  BY <1>3 DEF replayPage

-----------------------------------------------------------------------------
\* An unexposed update that is acked after a step was acked before it, or was
\* applied by it while nobody wrote a version.
LEMMA AckedBefore ==
  ASSUME TypeOK, History, [Next]_vars, NEW u \in Update \ exposed',
         edit'[u].stage = "acked", ~Apply(u)
  PROVE  u \in Update \ exposed /\ edit[u] = edit'[u]
<1>1. u \notin exposed
  BY HistoryGrows
<1>2. CASE UNCHANGED vars
  BY <1>1, <1>2 DEF vars
<1>3. CASE Next
  <2>1. CASE LoadSnapshot \/ LoadTail \/ Unload \/ ReadLatest \/ ReadRows \/ Encode
    BY <1>1, <2>1 DEF LoadSnapshot, LoadTail, Unload, ReadLatest, ReadRows, Encode
  <2>2. CASE BeginVersion \/ CommitVersion \/ Prune \/ CompactionFails
    BY <1>1, <2>2 DEF BeginVersion, CommitVersion, Prune, CompactionFails
  <2>3. CASE Crash
    BY <1>1, <2>3 DEF Crash, TypeOK
  <2>4. ASSUME NEW q \in Update, BeginAppend(q) \/ CommitAppend(q) \/ Apply(q) \/ AppendFails(q)
        PROVE  edit[u] = edit'[u]
    <3>1. q # u
      BY <2>4 DEF BeginAppend, CommitAppend, AppendFails, TypeOK
    <3>. QED
      BY <2>4, <3>1 DEF BeginAppend, CommitAppend, Apply, AppendFails, TypeOK
  <2>5. ASSUME NEW r \in Request, BeginSave(r) \/ SaveSnapshot(r) \/ SaveTail(r)
                                   \/ BeginRestore(r) \/ InsertVersion(r)
        PROVE  edit[u] = edit'[u]
    BY <2>5 DEF BeginSave, SaveSnapshot, SaveTail, BeginRestore, InsertVersion
  <2>. QED
    BY <1>1, <1>3, <2>1, <2>2, <2>3, <2>4, <2>5 DEF Next
<1>. QED
  BY <1>2, <1>3

\* An unexposed update is applied only while nobody writes a version.
LEMMA AppliedInPeace ==
  ASSUME TypeOK, History, NEW u \in Update, u \notin exposed, Apply(u)
  PROVE  ~Writing
BY DEF Apply, History, InFlight

LEMMA NextMemory ==
  ASSUME TypeOK, Distinct, Log, History, Quiet, Covered, Memory, [Next]_vars
  PROVE  Memory'
<1>. DEFINE Kept(u) ==
        /\ collab.pc = "loading" =>
               \/ <<u, "insert">> \in live
               \/ RowOf(u) \in wal /\ edit[u].at > collab.since
        /\ Loaded => <<u, "insert">> \in live
        /\ collab.pc \in {"writing", "committing"} => <<u, "insert">> \in collab.draft
<1>. SUFFICES ASSUME NEW u \in Update \ exposed', edit'[u].stage = "acked"
              PROVE  Kept(u)'
  BY DEF Memory
<1>. USE DEF Idle, Ready, Task, Loaded
<1>1. CASE Apply(u)
  <2>1. u \notin exposed
    BY HistoryGrows
  <2>2. Loaded /\ collab.pc \notin {"writing", "committing"}
    BY <1>1, <2>1, AppliedInPeace DEF Quiet, InFlight, Apply, Writing, Compacting
  <2>3. collab' = collab /\ <<u, "insert">> \in live'
    BY <1>1 DEF Apply, Insert
  <2>. QED
    BY <2>2, <2>3
<1>2. CASE ~Apply(u)
  <2>1. u \in Update \ exposed /\ edit[u] = edit'[u]
    BY <1>2, AckedBefore
  <2>2. Kept(u)
    BY <2>1 DEF Memory
  <2>3. RowOf(u)' = RowOf(u)
    BY <2>1 DEF RowOf
  <2>4. CASE LoadSnapshot
    <3>1. PICK v \in latestVersion :
            collab' = Task("loading", v.at, {}, {}, 0) /\ live' = v.doc
      BY <2>4 DEF LoadSnapshot
    <3>2. <<u, "insert">> \in v.doc \/ (RowOf(u) \in wal /\ edit[u].at > v.at)
      BY <2>1, SnapshotOrRow
    <3>. QED
      BY <2>1, <2>3, <2>4, <3>1, <3>2 DEF LoadSnapshot
  <2>5. CASE LoadTail
    <3>1. collab.since \in Nat
      BY DEF TypeOK, Time
    <3>2. <<u, "insert">> \in live \cup Content(readUpdatesSince(collab.since))
      BY <2>1, <2>2, <2>5, <3>1, RowIsRead DEF LoadTail
    <3>. QED
      BY <2>5, <3>2 DEF LoadTail
  <2>6. CASE Unload \/ Crash
    BY <2>6 DEF Unload, Crash
  <2>7. ASSUME NEW q \in Update, BeginAppend(q) \/ CommitAppend(q) \/ Apply(q) \/ AppendFails(q)
        PROVE  Kept(u)'
    <3>1. live \subseteq live' /\ wal \subseteq wal' /\ collab' = collab
      BY <2>7 DEF BeginAppend, CommitAppend, Apply, AppendFails
    <3>. QED
      BY <2>1, <2>2, <2>3, <3>1
  <2>8. CASE ReadLatest \/ ReadRows \/ CommitVersion \/ Prune \/ CompactionFails
    <3>1. Loaded /\ live' = live
      BY <2>8 DEF ReadLatest, ReadRows, CommitVersion, Prune, CompactionFails
    <3>2. collab'.pc \in {"reading", "encoding", "open", "pruning"}
      BY <2>8 DEF ReadLatest, ReadRows, CommitVersion, Prune, CompactionFails
    <3>. QED
      BY <2>2, <3>1, <3>2
  <2>9. CASE Encode
    <3>1. live \subseteq live'
      BY <2>9, GuardAdds DEF Encode, TypeOK
    <3>2. Loaded /\ collab'.pc = "writing" /\ collab'.draft = live'
      BY <2>9 DEF Encode
    <3>. QED
      BY <2>2, <3>1, <3>2
  <2>10. CASE BeginVersion
    BY <2>2, <2>10 DEF BeginVersion
  <2>11. ASSUME NEW r \in Request, BeginSave(r) \/ SaveSnapshot(r) \/ SaveTail(r)
                                    \/ BeginRestore(r) \/ InsertVersion(r)
         PROVE  Kept(u)'
    <3>1. live' = live /\ wal' = wal /\ collab' = collab
      BY <2>11 DEF BeginSave, SaveSnapshot, SaveTail, BeginRestore, InsertVersion
    <3>. QED
      BY <2>1, <2>2, <2>3, <3>1
  <2>12. CASE UNCHANGED vars
    BY <2>2, <2>12 DEF vars, RowOf
  <2>. QED
    BY <2>4, <2>5, <2>6, <2>7, <2>8, <2>9, <2>10, <2>11, <2>12 DEF Next
<1>. QED
  BY <1>1, <1>2

LEMMA NextCovered ==
  ASSUME TypeOK, Stamps, History, Memory, Saves, Covered, [Next]_vars
  PROVE  Covered'
<1>. DEFINE Holds(v, u) ==
        edit[u].stage # "new" /\ edit[u].at < v.at =>
            /\ edit[u].stage \in {"acked", "dropped"}
            /\ edit[u].stage = "acked" => <<u, "insert">> \in v.doc
<1>. SUFFICES ASSUME NEW v \in versions', NEW u \in Update \ exposed'
              PROVE  Holds(v, u)'
  BY DEF Covered
<1>0. u \in Update \ exposed
  BY HistoryGrows
<1>1. ASSUME v \in versions, edit'[u] = edit[u]
      PROVE  Holds(v, u)'
  BY <1>0, <1>1 DEF Covered
<1>2. ASSUME NEW q \in Update, BeginAppend(q)
      PROVE  Holds(v, u)'
  <2>1. v \in versions /\ clock' = clock + 1
    BY <1>2 DEF BeginAppend
  <2>2. v.at <= clock /\ v.at \in Nat /\ clock \in Nat
    BY <2>1 DEF Stamps, TypeOK, Version, Time
  <2>3. CASE q = u
    <3>1. edit'[u].at = clock + 1
      BY <1>2, <2>1, <2>3 DEF BeginAppend, TypeOK
    <3>. QED
      BY <2>2, <3>1
  <2>4. CASE q # u
    BY <1>1, <1>2, <2>1, <2>4 DEF BeginAppend, TypeOK
  <2>. QED
    BY <2>3, <2>4
<1>3. ASSUME NEW q \in Update, CommitAppend(q) \/ Apply(q) \/ AppendFails(q)
      PROVE  Holds(v, u)'
  <2>1. v \in versions
    BY <1>3 DEF CommitAppend, Apply, AppendFails
  <2>2. CASE q = u
    <3>1. edit[u].stage \in {"begun", "logged"} /\ edit'[u].at = edit[u].at
      BY <1>3, <2>2 DEF CommitAppend, Apply, AppendFails, TypeOK
    <3>. QED
      BY <1>0, <2>1, <3>1 DEF Covered
  <2>3. CASE q # u
    BY <1>1, <1>3, <2>1, <2>3 DEF CommitAppend, Apply, AppendFails, TypeOK
  <2>. QED
    BY <2>2, <2>3
<1>4. CASE Crash
  <2>1. v \in versions
    BY <1>4 DEF Crash
  <2>2. CASE InFlight(u)
    <3>1. edit'[u].stage = "dropped"
      BY <1>4, <2>2 DEF Crash
    <3>. QED
      BY <3>1
  <2>3. CASE ~InFlight(u)
    BY <1>1, <1>4, <2>1, <2>3 DEF Crash
  <2>. QED
    BY <2>2, <2>3
<1>5. CASE LoadSnapshot \/ LoadTail \/ Unload \/ ReadLatest \/ ReadRows \/ Encode
  BY <1>1, <1>5 DEF LoadSnapshot, LoadTail, Unload, ReadLatest, ReadRows, Encode
<1>6. CASE BeginVersion \/ Prune \/ CompactionFails
  BY <1>1, <1>6 DEF BeginVersion, Prune, CompactionFails
<1>7. CASE CommitVersion
  <2>1. edit' = edit /\ collab.pc = "committing"
    BY <1>7 DEF CommitVersion
  <2>2. v \in versions \/ v = [at |-> collab.at, doc |-> collab.draft]
    BY <1>7 DEF CommitVersion
  <2>3. ~InFlight(u)
    BY <1>0, <2>1 DEF History, Writing, Compacting
  <2>4. edit[u].stage \in {"new", "acked", "dropped"}
    BY <2>3 DEF InFlight, TypeOK
  <2>5. edit[u].stage = "acked" => <<u, "insert">> \in collab.draft
    BY <1>0, <2>1 DEF Memory
  <2>. QED
    BY <1>1, <2>1, <2>2, <2>4, <2>5
<1>8. ASSUME NEW r \in Request, BeginSave(r) \/ SaveSnapshot(r) \/ SaveTail(r) \/ BeginRestore(r)
      PROVE  Holds(v, u)'
  BY <1>1, <1>8 DEF BeginSave, SaveSnapshot, SaveTail, BeginRestore
<1>9. ASSUME NEW r \in Request, InsertVersion(r)
      PROVE  Holds(v, u)'
  <2>1. edit' = edit /\ request[r].pc = "insert"
    BY <1>9 DEF InsertVersion
  <2>2. v \in versions \/ v = [at |-> request[r].at, doc |-> request[r].doc]
    BY <1>9 DEF InsertVersion
  <2>3. ~InFlight(u)
    BY <1>0, <2>1 DEF History, Writing, Saving
  <2>4. edit[u].stage \in {"new", "acked", "dropped"}
    BY <2>3 DEF InFlight, TypeOK
  <2>5. CASE request[r].op = "save"
    <3>1. edit[u].stage = "acked" /\ edit[u].at < request[r].at
              => <<u, "insert">> \in request[r].doc
      BY <1>0, <2>1, <2>5 DEF Saves
    <3>. QED
      BY <1>1, <2>1, <2>2, <2>4, <3>1
  <2>6. CASE request[r].op = "restore"
    <3>1. /\ request'[r].op = "restore" /\ request'[r].pc = "done"
          /\ request'[r].at = request[r].at /\ request'[r].doc = request[r].doc
      BY <1>9, <2>6 DEF InsertVersion, TypeOK
    <3>2. u \notin Superseded'
      BY <1>9 DEF InsertVersion, Observe
    <3>3. edit'[u].at < request[r].at => <<u, "insert">> \in request[r].doc
      BY <3>1, <3>2 DEF Superseded
    <3>. QED
      BY <1>1, <2>1, <2>2, <2>4, <3>3
  <2>. QED
    BY <2>1, <2>5, <2>6 DEF Saves
<1>10. CASE UNCHANGED vars
  BY <1>1, <1>10 DEF vars
<1>. QED
  BY <1>2, <1>3, <1>4, <1>5, <1>6, <1>7, <1>8, <1>9, <1>10 DEF Next

\* The two reads of a save: an acked update is in its draft, or its log row is
\* still to be read.
LEMMA NextSaves ==
  ASSUME TypeOK, Distinct, Log, History, Covered, Saves, [Next]_vars
  PROVE  Saves'
<1>. DEFINE Named(r) ==
        /\ request[r].pc \in {"snapshot", "tail"} => request[r].op = "save"
        /\ request[r].pc = "insert" => request[r].op \in {"save", "restore"}
     Held(r, u) ==
        request[r].op = "save" /\ edit[u].stage = "acked"
          /\ edit[u].at < request[r].at =>
            /\ request[r].pc = "tail" =>
                   \/ <<u, "insert">> \in request[r].doc
                   \/ RowOf(u) \in wal /\ \A v \in versions : v.at < edit[u].at
            /\ request[r].pc = "insert" => <<u, "insert">> \in request[r].doc
<1>0. request' = request
      \/ \E r \in Request : BeginSave(r) \/ SaveSnapshot(r) \/ SaveTail(r)
                             \/ BeginRestore(r) \/ InsertVersion(r)
  BY DEF Next, vars, LoadSnapshot, LoadTail, Unload, Crash, BeginAppend,
         CommitAppend, Apply, AppendFails, ReadLatest, ReadRows, Encode,
         BeginVersion, CommitVersion, Prune, CompactionFails
<1>1. ASSUME NEW r \in Request
      PROVE  Named(r)'
  <2>1. CASE request' = request
    BY <2>1 DEF Saves
  <2>2. ASSUME NEW q \in Request, BeginSave(q) \/ SaveSnapshot(q) \/ SaveTail(q)
                                   \/ BeginRestore(q)
        PROVE  Named(r)'
    BY <2>2 DEF BeginSave, SaveSnapshot, SaveTail, BeginRestore, Saves, TypeOK
  <2>3. ASSUME NEW q \in Request, InsertVersion(q)
        PROVE  Named(r)'
    BY <2>3 DEF InsertVersion, Saves, TypeOK
  <2>. QED
    BY <1>0, <2>1, <2>2, <2>3
<1>2. ASSUME NEW r \in Request, NEW u \in Update \ exposed', edit'[u].stage = "acked"
      PROVE  Held(r, u)'
  <2>1. CASE Apply(u)
    <3>1. u \notin exposed
      BY HistoryGrows
    <3>2. ~Saving(r)
      BY <2>1, <3>1, AppliedInPeace DEF Writing
    <3>3. request' = request
      BY <2>1 DEF Apply
    <3>. QED
      BY <3>2, <3>3 DEF Saving
  <2>2. CASE ~Apply(u)
    <3>1. u \in Update \ exposed /\ edit[u] = edit'[u]
      BY <1>2, <2>2, AckedBefore
    <3>2. edit[u].stage = "acked" /\ Held(r, u)
      BY <1>2, <3>1 DEF Saves
    <3>3. RowOf(u)' = RowOf(u)
      BY <3>1 DEF RowOf
    <3>4. ~TwoWriting
      BY <3>1, <3>2 DEF History
    <3>5. ASSUME request'[r] = request[r], wal \subseteq wal', versions' = versions
          PROVE  Held(r, u)'
      BY <3>1, <3>2, <3>3, <3>5
    <3>6. CASE CommitVersion
      <4>1. ~Saving(r) /\ request' = request
        BY <3>4, <3>6 DEF CommitVersion, TwoWriting, Compacting
      <4>. QED
        BY <4>1 DEF Saving
    <3>7. CASE Prune
      <4>1. /\ wal' = wal \ collab.rows /\ versions' = versions /\ request' = request
            /\ collab.pc = "pruning"
        BY <3>7 DEF Prune
      <4>2. PICK v \in versions : v.at = collab.at
        BY <4>1 DEF Log
      <4>3. /\ edit[u].at \in Nat /\ v.at \in Nat
        BY <3>1 DEF TypeOK, Version, Time
      <4>4. RowOf(u) \in collab.rows => edit[u].at < v.at
        BY <4>1, <4>2 DEF Log, RowOf
      <4>5. (\A x \in versions : x.at < edit[u].at) => RowOf(u) \notin collab.rows
        BY <4>3, <4>4
      <4>. QED
        BY <3>1, <3>2, <3>3, <4>1, <4>5
    <3>8. ASSUME NEW q \in Request, BeginSave(q) \/ BeginRestore(q)
          PROVE  Held(r, u)'
      <4>1. wal' = wal /\ versions' = versions
        BY <3>8 DEF BeginSave, BeginRestore
      <4>2. CASE q = r
        <5>1. request'[r].pc = "snapshot" \/ request'[r].op = "restore"
          BY <3>8, <4>2 DEF BeginSave, BeginRestore, TypeOK
        <5>. QED
          BY <5>1
      <4>3. CASE q # r
        BY <3>5, <3>8, <4>1, <4>3 DEF BeginSave, BeginRestore, TypeOK
      <4>. QED
        BY <4>2, <4>3
    <3>9. ASSUME NEW q \in Request, SaveSnapshot(q)
          PROVE  Held(r, u)'
      <4>1. wal' = wal /\ versions' = versions
        BY <3>9 DEF SaveSnapshot
      <4>2. CASE q = r
        <5>1. PICK v \in latestVersion :
                request'[r] = [op |-> "save", pc |-> "tail",
                               at |-> request[r].at, doc |-> v.doc]
          BY <3>9, <4>2 DEF SaveSnapshot, TypeOK
        <5>2. \/ <<u, "insert">> \in v.doc
              \/ RowOf(u) \in wal /\ \A x \in versions : x.at < edit[u].at
          BY <3>1, <3>2, SnapshotOrRow
        <5>. QED
          BY <3>1, <3>3, <4>1, <5>1, <5>2
      <4>3. CASE q # r
        BY <3>5, <3>9, <4>1, <4>3 DEF SaveSnapshot, TypeOK
      <4>. QED
        BY <4>2, <4>3
    <3>10. ASSUME NEW q \in Request, SaveTail(q)
           PROVE  Held(r, u)'
      <4>1. wal' = wal /\ versions' = versions
        BY <3>10 DEF SaveTail
      <4>2. CASE q = r
        <5>1. request[r].pc = "tail" /\ request[r].op = "save"
          BY <3>10, <4>2 DEF SaveTail, Saves
        <5>2. request'[r] = [op |-> "save", pc |-> "insert", at |-> request[r].at,
                             doc |-> request[r].doc \cup Content(walRowsSinceLatestSnapshot)]
          BY <3>10, <4>2 DEF SaveTail, TypeOK
        <5>3. ASSUME RowOf(u) \in wal, \A x \in versions : x.at < edit[u].at
              PROVE  <<u, "insert">> \in Content(walRowsSinceLatestSnapshot)
          <6>1. RowOf(u) \in walRowsSinceLatestSnapshot
            BY <5>3 DEF walRowsSinceLatestSnapshot, latestVersion, RowOf
          <6>. QED
            BY <6>1 DEF Content, Insert, RowOf
        <5>4. edit[u].at < request[r].at =>
                <<u, "insert">> \in request[r].doc \cup Content(walRowsSinceLatestSnapshot)
          BY <3>2, <5>1, <5>3
        <5>. QED
          BY <3>1, <5>2, <5>4
      <4>3. CASE q # r
        BY <3>5, <3>10, <4>1, <4>3 DEF SaveTail, TypeOK
      <4>. QED
        BY <4>2, <4>3
    <3>11. ASSUME NEW q \in Request, InsertVersion(q)
           PROVE  Held(r, u)'
      <4>1. CASE q = r
        <5>1. request'[r].pc = "done"
          BY <3>11, <4>1 DEF InsertVersion, TypeOK
        <5>. QED
          BY <5>1
      <4>2. CASE q # r
        <5>1. ~Saving(r)
          BY <3>4, <3>11, <4>2 DEF TwoWriting, Saving, InsertVersion
        <5>2. request'[r] = request[r]
          BY <3>11, <4>2 DEF InsertVersion, TypeOK
        <5>. QED
          BY <5>1, <5>2 DEF Saving
      <4>. QED
        BY <4>1, <4>2
    <3>12. CASE LoadSnapshot \/ LoadTail \/ Unload \/ Crash \/ ReadLatest \/ ReadRows
                 \/ Encode \/ BeginVersion \/ CompactionFails
      BY <3>5, <3>12 DEF LoadSnapshot, LoadTail, Unload, Crash, ReadLatest,
         ReadRows, Encode, BeginVersion, CompactionFails
    <3>13. ASSUME NEW q \in Update, BeginAppend(q) \/ CommitAppend(q) \/ Apply(q) \/ AppendFails(q)
           PROVE  Held(r, u)'
      BY <3>5, <3>13 DEF BeginAppend, CommitAppend, Apply, AppendFails
    <3>14. CASE UNCHANGED vars
      BY <3>5, <3>14 DEF vars
    <3>. QED
      BY <3>6, <3>7, <3>8, <3>9, <3>10, <3>11, <3>12, <3>13, <3>14 DEF Next
  <2>. QED
    BY <2>1, <2>2
<1>3. ASSUME NEW r \in Request, NEW u \in Update \ exposed'
      PROVE  Held(r, u)'
  BY <1>2, <1>3
<1>. QED
  BY <1>1, <1>3 DEF Saves

-----------------------------------------------------------------------------
LEMMA InitInv == Init => Inv
<1>. SUFFICES ASSUME Init PROVE Inv
  OBVIOUS
<1>1. TypeOK
  BY InitTypeOK
<1>2. Stamps /\ Distinct /\ Log /\ Quiet
  BY <1>1, DocsAssumption
     DEF Init, Stamps, Distinct, Log, Quiet, Blank, Idle, Task, Fresh, InFlight, TypeOK, Time
<1>3. History /\ Memory /\ Saves /\ Covered
  BY DEF Init, History, Memory, Saves, Covered, Blank, Idle, Task, Fresh,
         InFlight, Writing, TwoWriting, Compacting, Saving
<1>4. Latest
  <2>1. Blank \in latestVersion
    BY DEF Init, latestVersion, Blank
  <2>. QED
    BY <2>1 DEF Latest
<1>. QED
  BY <1>1, <1>2, <1>3, <1>4 DEF Inv

LEMMA NextInv == Inv /\ [Next]_vars => Inv'
BY NextTypeOK, NextStamps, NextDistinct, NextLog, NextHistory, NextQuiet,
   NextMemory, NextSaves, NextCovered, NextLatest DEF Inv

-----------------------------------------------------------------------------
\* Autosaves: without requests the collab server is the only writer, its
\* document holds every version, and the state it is about to store holds
\* every version too.
NoRequests == \A r \in Request : request[r].pc = "new"

Grown ==
    /\ \A v, w \in versions : v.at <= w.at => v.doc \subseteq w.doc
    /\ collab.pc # "closed" => \A v \in versions : v.doc \subseteq live
    /\ collab.pc \in {"writing", "committing"} =>
           /\ collab.draft \subseteq live
           /\ \A v \in versions : v.doc \subseteq collab.draft
    /\ collab.pc = "committing" => \A v \in versions : v.at < collab.at

GrowInv == Inv /\ (NoRequests => Grown)

LEMMA NextGrowInv ==
  ASSUME GrowInv, [Next]_vars
  PROVE  GrowInv'
<1>1. Inv /\ Inv' /\ TypeOK
  BY NextInv DEF GrowInv, Inv
<1>. SUFFICES ASSUME NoRequests' PROVE Grown'
  BY <1>1 DEF GrowInv
<1>2. NoRequests
  <2>1. UNCHANGED request \/ \E r \in Request : SaveSnapshot(r) \/ SaveTail(r) \/ InsertVersion(r)
                          \/ BeginSave(r) \/ BeginRestore(r)
    BY DEF Next, vars, LoadSnapshot, LoadTail, Unload, Crash, BeginAppend,
           CommitAppend, Apply, AppendFails, ReadLatest, ReadRows, Encode,
           BeginVersion, CommitVersion, Prune, CompactionFails
  <2>2. ASSUME NEW r \in Request, SaveSnapshot(r) \/ SaveTail(r) \/ InsertVersion(r)
                                   \/ BeginSave(r) \/ BeginRestore(r)
        PROVE  request'[r].pc # "new"
    BY <1>1, <2>2 DEF SaveSnapshot, SaveTail, InsertVersion, BeginSave, BeginRestore, TypeOK
  <2>. QED
    BY <2>1, <2>2 DEF NoRequests
<1>. Grown
  BY <1>2 DEF GrowInv
<1>. USE DEF Idle, Ready, Task
<1>3. CASE LoadSnapshot
  <2>1. PICK v \in latestVersion : /\ collab' = Task("loading", v.at, {}, {}, 0)
                                   /\ live' = v.doc
    BY <1>3 DEF LoadSnapshot
  <2>2. versions' = versions /\ \A w \in versions : w.doc \subseteq v.doc
    BY <1>3, <2>1 DEF LoadSnapshot, latestVersion, Grown
  <2>. QED
    BY <2>1, <2>2 DEF Grown
<1>4. CASE LoadTail
  <2>1. versions' = versions /\ live \subseteq live' /\ collab.pc = "loading" /\ collab'.pc = "open"
    BY <1>4 DEF LoadTail
  <2>. QED
    BY <2>1 DEF Grown
<1>5. CASE Unload \/ Crash
  <2>1. versions' = versions /\ collab'.pc = "closed"
    BY <1>5 DEF Unload, Crash
  <2>. QED
    BY <2>1 DEF Grown
<1>6. CASE (\E u \in Update : BeginAppend(u) \/ CommitAppend(u) \/ Apply(u) \/ AppendFails(u))
           \/ UNCHANGED vars
  <2>1. versions' = versions /\ live \subseteq live' /\ collab' = collab
    BY <1>6 DEF BeginAppend, CommitAppend, Apply, AppendFails, vars
  <2>. QED
    BY <2>1 DEF Grown
<1>7. CASE ReadLatest \/ ReadRows \/ Prune \/ CompactionFails
  <2>1. versions' = versions /\ live' = live /\ collab.pc # "closed"
        /\ collab'.pc \in {"open", "reading", "encoding"}
    BY <1>7 DEF ReadLatest, ReadRows, Prune, CompactionFails
  <2>. QED
    BY <2>1 DEF Grown
<1>8. CASE Encode
  <2>1. live \subseteq live'
    BY <1>1, <1>8, GuardAdds DEF Encode, TypeOK
  <2>2. versions' = versions /\ collab.pc = "encoding" /\ collab'.pc = "writing" /\ collab'.draft = live'
    BY <1>8 DEF Encode
  <2>. QED
    BY <2>1, <2>2 DEF Grown
<1>9. CASE BeginVersion
  <2>1. /\ versions' = versions /\ live' = live /\ collab.pc = "writing"
        /\ collab'.pc = "committing" /\ collab'.draft = collab.draft /\ collab'.at = clock + 1
    BY <1>9 DEF BeginVersion
  <2>2. \A v \in versions : v.at < clock + 1
    BY <1>1 DEF Inv, Stamps, TypeOK, Version, Time
  <2>. QED
    BY <2>1, <2>2 DEF Grown
<1>10. CASE CommitVersion
  <2>1. /\ versions' = versions \cup {[at |-> collab.at, doc |-> collab.draft]}
        /\ live' = live /\ collab.pc = "committing" /\ collab'.pc = "pruning"
    BY <1>10 DEF CommitVersion
  <2>2. /\ \A v \in versions : v.at < collab.at /\ v.doc \subseteq collab.draft
        /\ collab.draft \subseteq live
    BY <2>1 DEF Grown
  <2>3. /\ collab.at \in Nat /\ \A v \in versions : v.at \in Nat
    BY <1>1 DEF TypeOK, Version, Time
  <2>4. \A v, w \in versions' : v.at <= w.at => v.doc \subseteq w.doc
    BY <2>1, <2>2, <2>3 DEF Grown
  <2>. QED
    BY <2>1, <2>2, <2>4 DEF Grown
<1>11. ASSUME NEW r \in Request, \/ BeginSave(r) \/ SaveSnapshot(r) \/ SaveTail(r)
                                 \/ BeginRestore(r) \/ InsertVersion(r)
       PROVE  FALSE
  BY <1>1, <1>11 DEF NoRequests, TypeOK, BeginSave, SaveSnapshot, SaveTail, BeginRestore, InsertVersion
<1>. QED
  BY <1>3, <1>4, <1>5, <1>6, <1>7, <1>8, <1>9, <1>10, <1>11 DEF Next

-----------------------------------------------------------------------------
\* Saves: no two transactions that write a version start at one time, so there
\* is one latest version, and what a save owes is in what it read and in what
\* it has still to read.
OneStart ==
    /\ \A v, w \in versions : v.at = w.at => v = w
    /\ collab.pc = "committing" => \A v \in versions : v.at # collab.at
    /\ \A r \in Request : Saving(r) =>
        /\ \A v \in versions : v.at # request[r].at
        /\ collab.pc = "committing" => request[r].at # collab.at
        /\ \A q \in Request \ {r} : Saving(q) => request[r].at # request[q].at

Faithful(r) ==
    request[r].op = "save" =>
        /\ request[r].pc = "snapshot" => owed[r] \subseteq materializeCurrentState
        /\ request[r].pc = "tail" =>
               owed[r] \subseteq request[r].doc \cup Content(walRowsSinceLatestSnapshot)
        /\ request[r].pc \in {"insert", "done"} => owed[r] \subseteq request[r].doc

SaveInv == Inv /\ OneStart /\ \A r \in Request \ disturbed : Faithful(r)

LEMMA NextOneStart ==
  ASSUME TypeOK, Stamps, OneStart, [Next]_vars
  PROVE  OneStart'
<1>. USE DEF OneStart, TypeOK, Time, Saving, Idle, Ready, Task
<1>1. CASE \/ LoadSnapshot \/ LoadTail \/ Unload \/ Crash \/ ReadLatest \/ ReadRows
           \/ Encode \/ Prune \/ CompactionFails
  <2>1. versions' = versions /\ request' = request
    BY <1>1 DEF LoadSnapshot, LoadTail, Unload, Crash, ReadLatest, ReadRows,
                Encode, Prune, CompactionFails
  <2>2. collab'.pc # "committing"
    BY <1>1 DEF LoadSnapshot, LoadTail, Unload, Crash, ReadLatest, ReadRows,
                Encode, Prune, CompactionFails
  <2>. QED
    BY <2>1, <2>2
<1>2. CASE \/ \E u \in Update : BeginAppend(u) \/ CommitAppend(u) \/ Apply(u) \/ AppendFails(u)
           \/ UNCHANGED vars
  <2>1. UNCHANGED <<versions, request, collab>>
    BY <1>2 DEF BeginAppend, CommitAppend, Apply, AppendFails, vars
  <2>. QED
    BY <2>1
<1>3. CASE BeginVersion
  <2>1. UNCHANGED <<versions, request>> /\ collab'.at = clock + 1
    BY <1>3 DEF BeginVersion
  <2>2. /\ \A v \in versions : v.at # clock + 1
        /\ \A r \in Request : Saving(r) => request[r].at # clock + 1
    BY DEF Stamps, Version
  <2>. QED
    BY <2>1, <2>2
<1>4. CASE CommitVersion
  <2>1. /\ versions' = versions \cup {[at |-> collab.at, doc |-> collab.draft]}
        /\ request' = request /\ collab.pc = "committing" /\ collab'.pc = "pruning"
    BY <1>4 DEF CommitVersion
  <2>. QED
    BY <2>1
<1>5. ASSUME NEW r \in Request, BeginSave(r) \/ BeginRestore(r)
      PROVE  OneStart'
  <2>1. /\ UNCHANGED <<versions, collab>> /\ request'[r].at = clock + 1
        /\ \A q \in Request \ {r} : request'[q] = request[q]
    BY <1>5 DEF BeginSave, BeginRestore
  <2>2. /\ \A v \in versions : v.at # clock + 1
        /\ collab.pc = "committing" => collab.at # clock + 1
        /\ \A q \in Request : Saving(q) => request[q].at # clock + 1
    BY DEF Stamps, Version
  <2>. QED
    BY <2>1, <2>2
<1>6. ASSUME NEW r \in Request, SaveSnapshot(r) \/ SaveTail(r)
      PROVE  OneStart'
  <2>1. UNCHANGED <<versions, collab>> /\ Saving(r)
    BY <1>6 DEF SaveSnapshot, SaveTail
  <2>2. request'[r].at = request[r].at
    BY <1>6 DEF SaveSnapshot, SaveTail
  <2>3. \A q \in Request \ {r} : request'[q] = request[q]
    BY <1>6 DEF SaveSnapshot, SaveTail
  <2>4. \A q \in Request : Saving(q)' => Saving(q)
    BY <2>1, <2>3
  <2>. QED
    BY <2>1, <2>2, <2>3, <2>4
<1>7. ASSUME NEW r \in Request, InsertVersion(r)
      PROVE  OneStart'
  <2>1. /\ versions' = versions \cup {[at |-> request[r].at, doc |-> request[r].doc]}
        /\ collab' = collab /\ Saving(r) /\ request'[r].pc = "done"
        /\ \A q \in Request \ {r} : request'[q] = request[q]
    BY <1>7 DEF InsertVersion
  <2>. QED
    BY <2>1
<1>. QED
  BY <1>1, <1>2, <1>3, <1>4, <1>5, <1>6, <1>7 DEF Next

\* While no version is committed, what the page holds past its latest version
\* only grows: what is pruned is older than a version that is there.
LEMMA SinceGrows ==
  ASSUME TypeOK, Log, Latest, [Next]_vars, versions' = versions
  PROVE  /\ Content(walRowsSinceLatestSnapshot) \subseteq Content(walRowsSinceLatestSnapshot)'
         /\ materializeCurrentState \subseteq materializeCurrentState'
<1>1. latestVersion' = latestVersion
  BY DEF latestVersion
<1>2. walRowsSinceLatestSnapshot \subseteq walRowsSinceLatestSnapshot'
  <2>1. CASE Prune
    <3>1. wal' = wal \ collab.rows /\ collab.pc = "pruning"
      BY <2>1 DEF Prune
    <3>2. PICK v \in versions : v.at = collab.at
      BY <3>1 DEF Log
    <3>3. \A w \in collab.rows : w.at < v.at
      BY <3>1, <3>2 DEF Log
    <3>4. ASSUME NEW w \in walRowsSinceLatestSnapshot, w \in collab.rows, NEW x \in latestVersion
          PROVE  FALSE
      <4>1. w.at > x.at /\ v.at <= x.at /\ w.at < v.at
        BY <3>3, <3>4 DEF walRowsSinceLatestSnapshot, latestVersion
      <4>2. w.at \in Nat /\ x.at \in Nat /\ v.at \in Nat
        BY DEF walRowsSinceLatestSnapshot, latestVersion, TypeOK, Row, Version, Time
      <4>. QED
        BY <4>1, <4>2
    <3>. QED
      BY <1>1, <3>1, <3>4 DEF walRowsSinceLatestSnapshot, Latest
  <2>2. CASE ~Prune
    <3>1. wal \subseteq wal'
      BY <2>2 DEF Next, vars, LoadSnapshot, LoadTail, Unload, Crash, BeginAppend,
         CommitAppend, Apply, AppendFails, ReadLatest, ReadRows, Encode,
         BeginVersion, CommitVersion, CompactionFails, BeginSave, SaveSnapshot,
         SaveTail, BeginRestore, InsertVersion
    <3>. QED
      BY <1>1, <3>1 DEF walRowsSinceLatestSnapshot
  <2>. QED
    BY <2>1, <2>2
<1>3. Content(walRowsSinceLatestSnapshot) \subseteq Content(walRowsSinceLatestSnapshot)'
  BY <1>2 DEF Content, Insert
<1>. QED
  BY <1>1, <1>3 DEF materializeCurrentState

LEMMA NextSaveInv ==
  ASSUME SaveInv, [Next]_vars
  PROVE  SaveInv'
<1>1. Inv' /\ OneStart' /\ TypeOK /\ Log /\ Latest
  BY NextInv, NextOneStart DEF SaveInv, Inv
<1>2. CASE UNCHANGED vars
  BY <1>1, <1>2 DEF SaveInv, Faithful, vars, materializeCurrentState, latestVersion,
                    walRowsSinceLatestSnapshot
<1>3. CASE Next
  <2>. SUFFICES ASSUME NEW r \in Request \ disturbed' PROVE Faithful(r)'
    BY <1>1 DEF SaveInv
  <2>0. Observe
    BY <1>3, StepObserves
  <2>1. r \notin disturbed /\ Faithful(r)
    BY <2>0 DEF Observe, SaveInv
  <2>2. CASE request'[r] = request[r]
    <3>1. owed'[r] = owed[r]
      BY <2>0, <2>2 DEF Observe, Saving
    <3>2. CASE Saving(r)
      <4>1. versions' = versions
        BY <2>0, <2>2, <3>2 DEF Observe, Saving
      <4>. QED
        BY <1>1, <1>3, <2>1, <2>2, <3>1, <4>1, SinceGrows DEF Faithful
    <3>3. CASE ~Saving(r)
      BY <2>1, <2>2, <3>1, <3>3 DEF Faithful, Saving
    <3>. QED
      BY <3>2, <3>3
  <2>3. CASE BeginSave(r)
    <3>1. /\ request'[r].pc = "snapshot" /\ request[r].pc = "new"
          /\ wal' = wal /\ versions' = versions
      BY <1>1, <2>3 DEF BeginSave, TypeOK
    <3>2. owed'[r] = materializeCurrentState
      BY <2>0, <3>1 DEF Observe, Saving
    <3>3. materializeCurrentState' = materializeCurrentState
      BY <3>1 DEF materializeCurrentState, latestVersion, walRowsSinceLatestSnapshot
    <3>. QED
      BY <3>1, <3>2, <3>3 DEF Faithful
  <2>4. CASE SaveSnapshot(r) \/ SaveTail(r) \/ InsertVersion(r)
    <3>1. owed'[r] = owed[r] /\ Saving(r)
      BY <2>0, <2>4 DEF Observe, Saving, SaveSnapshot, SaveTail, InsertVersion
    <3>2. CASE SaveSnapshot(r)
      <4>1. PICK v \in latestVersion :
              request'[r] = [op |-> "save", pc |-> "tail",
                             at |-> request[r].at, doc |-> v.doc]
        BY <1>1, <3>2 DEF SaveSnapshot, TypeOK
      <4>2. \A w \in latestVersion : w = v
        <5>1. \A w \in latestVersion : w.at <= v.at /\ v.at <= w.at
          BY DEF latestVersion
        <5>2. \A w \in latestVersion : w.at \in Nat /\ w \in versions
          BY <1>1 DEF latestVersion, TypeOK, Version, Time
        <5>. QED
          BY <5>1, <5>2 DEF SaveInv, OneStart
      <4>3. materializeCurrentState = v.doc \cup Content(walRowsSinceLatestSnapshot)
        BY <4>2 DEF materializeCurrentState
      <4>4. request[r].op = "save" /\ request[r].pc = "snapshot"
        BY <1>1, <3>2 DEF SaveSnapshot, SaveInv, Inv, Saves
      <4>5. Content(walRowsSinceLatestSnapshot)' = Content(walRowsSinceLatestSnapshot)
        BY <3>2 DEF SaveSnapshot, walRowsSinceLatestSnapshot, latestVersion
      <4>. QED
        BY <2>1, <3>1, <4>1, <4>3, <4>4, <4>5 DEF Faithful
    <3>3. CASE SaveTail(r)
      <4>1. /\ request'[r] = [op |-> "save", pc |-> "insert", at |-> request[r].at,
                  doc |-> request[r].doc \cup Content(walRowsSinceLatestSnapshot)]
            /\ request[r].op = "save" /\ request[r].pc = "tail"
        BY <1>1, <3>3 DEF SaveTail, TypeOK, SaveInv, Inv, Saves
      <4>. QED
        BY <2>1, <3>1, <4>1 DEF Faithful
    <3>4. CASE InsertVersion(r)
      <4>1. /\ request'[r].op = request[r].op /\ request'[r].pc = "done"
            /\ request'[r].doc = request[r].doc /\ request[r].pc = "insert"
        BY <1>1, <3>4 DEF InsertVersion, TypeOK
      <4>. QED
        BY <2>1, <3>1, <4>1 DEF Faithful
    <3>. QED
      BY <2>4, <3>2, <3>3, <3>4
  <2>5. CASE BeginRestore(r)
    <3>1. request'[r].op = "restore"
      BY <1>1, <2>5 DEF BeginRestore, TypeOK
    <3>. QED
      BY <3>1 DEF Faithful
  <2>6. ASSUME NEW q \in Request, q # r, \/ BeginSave(q) \/ SaveSnapshot(q) \/ SaveTail(q)
                                         \/ BeginRestore(q) \/ InsertVersion(q)
        PROVE  request'[r] = request[r]
    BY <1>1, <2>6 DEF BeginSave, SaveSnapshot, SaveTail, BeginRestore, InsertVersion, TypeOK
  <2>7. request' = request
        \/ \E q \in Request : \/ BeginSave(q) \/ SaveSnapshot(q) \/ SaveTail(q)
                              \/ BeginRestore(q) \/ InsertVersion(q)
    BY <1>3 DEF Next, LoadSnapshot, LoadTail, Unload, Crash, BeginAppend,
         CommitAppend, Apply, AppendFails, ReadLatest, ReadRows, Encode,
         BeginVersion, CommitVersion, Prune, CompactionFails
  <2>. QED
    BY <2>2, <2>3, <2>4, <2>5, <2>6, <2>7
<1>. QED
  BY <1>2, <1>3

\* Every state of the page is well typed: in particular nothing is in memory
\* while the page is unloaded.
THEOREM PageTypeCorrect == Spec => []TypeOK
<1>1. Inv => TypeOK
  BY DEF Inv
<1>. QED
  BY InitInv, NextInv, <1>1, PTL DEF Spec

\* An acked update is in what the next load reads, through unloads, crashes,
\* half-done compactions and truncated boundaries, unless it was on its way
\* while a version was written, two versions were written at once, or a
\* restore left it behind (gateway.ts, compaction.ts, page-version.service.ts).
THEOREM LossIsOverlap == Spec => []LossNeedsOverlap
BY InitInv, NextInv, InvSurvives, PTL DEF Spec

\* Without saves and restores an autosave holds all that the ones before it
\* held, through unloads, crashes and half-done compactions (replayPage).
THEOREM AutosavesKeepContent == Spec => []AutosavesGrow
<1>1. Init => GrowInv
  BY InitInv DEF Init, GrowInv, Grown, Blank, Idle, Task
<1>2. GrowInv /\ [Next]_vars => GrowInv'
  BY NextGrowInv
<1>3. GrowInv => AutosavesGrow
  <2> SUFFICES ASSUME GrowInv, NoRequests, NEW v \in versions, NEW w \in versions, v.at < w.at
               PROVE  v.doc \subseteq w.doc
    BY DEF AutosavesGrow, NoRequests
  <2>1. v.at \in Nat /\ w.at \in Nat
    BY DEF GrowInv, Inv, TypeOK, Version, Time
  <2>. QED
    BY <2>1 DEF GrowInv, Grown
<1>. QED
  BY <1>1, <1>2, <1>3, PTL DEF Spec

\* A saved version holds all that the page held when the save began, whatever
\* is appended, pruned or lost meanwhile, if no other version was committed
\* (savePageVersion reads the snapshot and the log rows in two statements).
THEOREM SavesAreFaithful == Spec => []SaveIsFaithful
<1>1. Init => SaveInv
  BY InitInv DEF Init, SaveInv, OneStart, Faithful, Saving, Fresh, Idle, Task
<1>2. SaveInv /\ [Next]_vars => SaveInv'
  BY NextSaveInv
<1>3. SaveInv => SaveIsFaithful
  BY DEF SaveInv, Faithful, SaveIsFaithful
<1>. QED
  BY <1>1, <1>2, <1>3, PTL DEF Spec
=============================================================================
