------------------------------ MODULE DocsPage ------------------------------
(***************************************************************************)
(* The content of one docs page: the live Y.Doc of the collab server, the  *)
(* write-ahead log docs.yjs_updates and the snapshots docs.page_versions   *)
(* that compaction, "save a version" and "restore" write.                  *)
(*                                                                         *)
(* created_at is DEFAULT now(): the time a transaction STARTED.  The model *)
(* therefore splits each writing transaction into its start, which takes   *)
(* the time, and its commit, which shows the row.                          *)
(*                                                                         *)
(* A document is a set of operations, for a Yjs update only ever adds.     *)
(* Messages of a read-only connection stop at the first line of            *)
(* beforeHandleMessage and are not updates here.  Publishing a page saves  *)
(* a version too; the kind of a version is left out, no read looks at it.  *)
(***************************************************************************)
EXTENDS Integers

CONSTANTS
    Update,        \* content deltas sent by editors
    Disallowed,    \* those that insert content off the whitelist
    Request,       \* HTTP requests to save or restore a version
    TicksPerMs,    \* clock ticks that a JS Date cannot tell apart
    FaultBound     \* bound: crashes and failed statements

ASSUME DocsAssumption ==
    /\ Disallowed \subseteq Update
    /\ TicksPerMs \in Nat \ {0}
    /\ FaultBound \in Nat

VARIABLES
    clock,       \* the last transaction start
    wal,         \* docs.yjs_updates, committed rows
    versions,    \* docs.page_versions, committed rows
    live,        \* the Y.Doc in the collab server's memory
    collab,      \* what the collab server is doing with this document
    edit,        \* how far each update's message got
    request,     \* how far each HTTP request got
    faults,
    exposed,     \* history: updates with no promise left, see Observe
    owed,        \* history: the content when a save began
    disturbed    \* history: saves during which a version was committed

vars == <<clock, wal, versions, live, collab, edit, request, faults,
          exposed, owed, disturbed>>

Op == Update \X {"insert", "strip"}
Insert(U) == U \X {"insert"}
Time == Nat
Row == [update : Update, at : Time]
Version == [at : Time, doc : SUBSET Op]

\* A page nobody saved: no snapshot, and every log row counts.
Blank == [at |-> 0, doc |-> {}]

\* One await of the collab server, with what it still needs afterwards.
Task(pc, since, rows, draft, at) ==
    [pc |-> pc, since |-> since, rows |-> rows, draft |-> draft, at |-> at]
Idle == Task("closed", 0, {}, {}, 0)
Ready == Task("open", 0, {}, {}, 0)

Fresh == [op |-> "none", pc |-> "new", at |-> 0, doc |-> {}]

TypeOK ==
    /\ clock \in Time
    /\ wal \subseteq Row
    /\ versions \subseteq Version
    /\ live \subseteq Op
    /\ collab \in [pc : {"closed", "loading", "open", "reading", "encoding",
                         "writing", "committing", "pruning"},
                   since : Time, rows : SUBSET Row, draft : SUBSET Op, at : Time]
    /\ edit \in [Update -> [stage : {"new", "begun", "logged", "acked", "dropped"},
                            at : Time]]
    /\ request \in [Request -> [op : {"none", "save", "restore"},
                                pc : {"new", "snapshot", "tail", "insert", "done"},
                                at : Time, doc : SUBSET Op]]
    /\ faults \in 0..FaultBound
    /\ exposed \subseteq Update
    /\ owed \in [Request -> SUBSET Op]
    /\ disturbed \subseteq Request
    /\ collab.pc = "closed" => live = {}

Init ==
    /\ clock \in 0..TicksPerMs - 1
    /\ wal = {}
    /\ versions = {Blank}
    /\ live = {}
    /\ collab = Idle
    /\ edit = [u \in Update |-> [stage |-> "new", at |-> 0]]
    /\ request = [r \in Request |-> Fresh]
    /\ faults = 0
    /\ exposed = {}
    /\ owed = [r \in Request |-> {}]
    /\ disturbed = {}

-----------------------------------------------------------------------------
\* ORDER BY created_at DESC LIMIT 1
latestVersion == {v \in versions : \A w \in versions : w.at <= v.at}

Truncate(t) == t - (t % TicksPerMs)

\* The boundary of the collab server went through a JS Date.
readUpdatesSince(t) == {w \in wal : w.at > Truncate(t)}

\* The boundary of the api stays inside the statement.
walRowsSinceLatestSnapshot ==
    {w \in wal : \A v \in latestVersion : w.at > v.at}

Content(rows) == Insert({w.update : w \in rows})

\* What replayPage would read if the server loaded the page now.
replayPage == UNION {v.doc \cup Content(readUpdatesSince(v.at)) : v \in latestVersion}

\* What materializeCurrentState would read in one look.
materializeCurrentState ==
    (UNION {v.doc : v \in latestVersion}) \cup Content(walRowsSinceLatestSnapshot)

enforceContentWhitelist(doc) ==
    doc \cup {<<u, "strip">> : u \in {d \in Disallowed : <<d, "insert">> \in doc}}

Loaded == collab.pc \notin {"closed", "loading"}
InFlight(u) == edit[u].stage \in {"begun", "logged"}

-----------------------------------------------------------------------------
\* History, written next to every step.

Saving(r) == request[r].pc \in {"snapshot", "tail", "insert"}

\* Between reading the content of a version and showing the version.
Compacting == collab.pc \in {"encoding", "writing", "committing"}
Writing == Compacting \/ \E r \in Request : Saving(r)
TwoWriting ==
    \/ Compacting /\ \E r \in Request : Saving(r)
    \/ \E r, q \in Request : r # q /\ Saving(r) /\ Saving(q)

Superseded ==
    {u \in Update : \E r \in Request :
        /\ request[r].op = "restore"
        /\ request[r].pc = "done"
        /\ edit[u].at < request[r].at
        /\ \/ <<u, "insert">> \notin request[r].doc
           \/ u \in Disallowed /\ <<u, "strip">> \notin request[r].doc}

\* An update that was on its way while a version was written, that was there
\* while two versions were written, or that a restore left behind.
Observe ==
    /\ exposed' = exposed
           \cup {u \in Update : Writing' /\ InFlight(u)'}
           \cup {u \in Update : TwoWriting' /\ edit'[u].stage # "new"}
           \cup Superseded'
    /\ owed' = [r \in Request |->
           IF ~Saving(r) /\ Saving(r)' THEN materializeCurrentState ELSE owed[r]]
    /\ disturbed' = disturbed \cup
           {r \in Request : Saving(r) /\ Saving(r)' /\ versions' # versions}

-----------------------------------------------------------------------------
\* The collab server: loading a page, and the messages of its editors.

LoadWithoutSnapshot ==
    /\ collab.pc = "closed"
    /\ \E v \in latestVersion :
           collab' = Task("loading", v.at, {}, {}, 0)
    /\ UNCHANGED <<clock, wal, versions, live, edit, request, faults>>
    /\ Observe

\* The first connection to a page that is not in memory.
LoadSnapshot ==
    /\ collab.pc = "closed"
    /\ \E v \in latestVersion :
           /\ collab' = Task("loading", v.at, {}, {}, 0)
           /\ live' = v.doc
    /\ UNCHANGED <<clock, wal, versions, edit, request, faults>>
    /\ Observe

LoadTail ==
    /\ collab.pc = "loading"
    /\ live' = live \cup Content(readUpdatesSince(collab.since))
    /\ collab' = Ready
    /\ UNCHANGED <<clock, wal, versions, edit, request, faults>>
    /\ Observe

\* beforeHandleMessage starts the transaction of appendUpdate.
BeginAppend(u) ==
    /\ Loaded
    /\ edit[u].stage = "new"
    /\ clock' = clock + 1
    /\ edit' = [edit EXCEPT ![u] = [stage |-> "begun", at |-> clock']]
    /\ UNCHANGED <<wal, versions, live, collab, request, faults>>
    /\ Observe

CommitAppend(u) ==
    /\ edit[u].stage = "begun"
    /\ wal' = wal \cup {[update |-> u, at |-> edit[u].at]}
    /\ edit' = [edit EXCEPT ![u] = [stage |-> "logged", at |-> edit[u].at]]
    /\ UNCHANGED <<clock, versions, live, collab, request, faults>>
    /\ Observe

\* The awaited hook returned: the server applies the update and acks it.
Apply(u) ==
    /\ edit[u].stage = "logged"
    /\ live' = live \cup Insert({u})
    /\ edit' = [edit EXCEPT ![u] = [stage |-> "acked", at |-> edit[u].at]]
    /\ UNCHANGED <<clock, wal, versions, collab, request, faults>>
    /\ Observe

\* The hook threw: the update is neither applied nor acked.
AppendFails(u) ==
    /\ edit[u].stage = "begun"
    /\ faults < FaultBound
    /\ faults' = faults + 1
    /\ edit' = [edit EXCEPT ![u] = [stage |-> "dropped", at |-> edit[u].at]]
    /\ UNCHANGED <<clock, wal, versions, live, collab, request>>
    /\ Observe

\* The last editor left; the server stored the document before.
Unload ==
    /\ collab.pc = "open"
    /\ \A u \in Update : ~InFlight(u)
    /\ collab' = Idle
    /\ live' = {}
    /\ UNCHANGED <<clock, wal, versions, edit, request, faults>>
    /\ Observe

Crash ==
    /\ collab.pc # "closed"
    /\ faults < FaultBound
    /\ faults' = faults + 1
    /\ collab' = Idle
    /\ live' = {}
    /\ edit' = [u \in Update |->
                    IF InFlight(u) THEN [stage |-> "dropped", at |-> edit[u].at]
                                   ELSE edit[u]]
    /\ UNCHANGED <<clock, wal, versions, request>>
    /\ Observe

-----------------------------------------------------------------------------
\* Compaction (onStoreDocument), one await after the other.

ReadLatest ==
    /\ collab.pc = "open"
    /\ \E v \in latestVersion :
           collab' = Task("reading", v.at, {}, {}, 0)
    /\ UNCHANGED <<clock, wal, versions, live, edit, request, faults>>
    /\ Observe

ReadRows ==
    /\ collab.pc = "reading"
    /\ LET rows == readUpdatesSince(collab.since)
       IN  collab' = IF rows = {} THEN Ready
                     ELSE Task("encoding", 0, rows, {}, 0)
    /\ UNCHANGED <<clock, wal, versions, live, edit, request, faults>>
    /\ Observe

Encode ==
    /\ collab.pc = "encoding"
    /\ live' = enforceContentWhitelist(live)
    /\ collab' = Task("writing", 0, collab.rows, live', 0)
    /\ UNCHANGED <<clock, wal, versions, edit, request, faults>>
    /\ Observe

BeginVersion ==
    /\ collab.pc = "writing"
    /\ clock' = clock + 1
    /\ collab' = Task("committing", 0, collab.rows, collab.draft, clock')
    /\ UNCHANGED <<wal, versions, live, edit, request, faults>>
    /\ Observe

CommitVersion ==
    /\ collab.pc = "committing"
    /\ versions' = versions \cup
           {[at |-> collab.at, doc |-> collab.draft]}
    /\ collab' = Task("pruning", 0, collab.rows, {}, collab.at)
    /\ UNCHANGED <<clock, wal, live, edit, request, faults>>
    /\ Observe

PrunePage ==
    /\ collab.pc = "pruning"
    /\ wal' = {}
    /\ collab' = Ready
    /\ UNCHANGED <<clock, versions, live, edit, request, faults>>
    /\ Observe

Prune ==
    /\ collab.pc = "pruning"
    /\ wal' = wal \ collab.rows
    /\ collab' = Ready
    /\ UNCHANGED <<clock, versions, live, edit, request, faults>>
    /\ Observe

\* One of the three transactions failed; what the earlier ones did stays.
CompactionFails ==
    /\ collab.pc \in {"reading", "encoding", "writing", "committing", "pruning"}
    /\ faults < FaultBound
    /\ faults' = faults + 1
    /\ collab' = Ready
    /\ UNCHANGED <<clock, wal, versions, live, edit, request>>
    /\ Observe

-----------------------------------------------------------------------------
\* Saving and restoring a version through the api, one transaction each.

BeginSave(r) ==
    /\ request[r].pc = "new"
    /\ clock' = clock + 1
    /\ request' = [request EXCEPT ![r] =
           [op |-> "save", pc |-> "snapshot", at |-> clock', doc |-> {}]]
    /\ UNCHANGED <<wal, versions, live, collab, edit, faults>>
    /\ Observe

SaveSnapshot(r) ==
    /\ request[r].pc = "snapshot"
    /\ \E v \in latestVersion :
           request' = [request EXCEPT ![r] =
               [op |-> "save", pc |-> "tail", at |-> request[r].at, doc |-> v.doc]]
    /\ UNCHANGED <<clock, wal, versions, live, collab, edit, faults>>
    /\ Observe

SaveSnapshotOnly(r) ==
    /\ request[r].pc = "tail"
    /\ request' = [request EXCEPT ![r].pc = "insert"]
    /\ UNCHANGED <<clock, wal, versions, live, collab, edit, faults>>
    /\ Observe

SaveTail(r) ==
    /\ request[r].pc = "tail"
    /\ request' = [request EXCEPT ![r] =
           [op |-> "save", pc |-> "insert", at |-> request[r].at,
            doc |-> request[r].doc \cup Content(walRowsSinceLatestSnapshot)]]
    /\ UNCHANGED <<clock, wal, versions, live, collab, edit, faults>>
    /\ Observe

BeginRestore(r) ==
    /\ request[r].pc = "new"
    /\ clock' = clock + 1
    /\ \E v \in versions \ {Blank} :
           request' = [request EXCEPT ![r] =
               [op |-> "restore", pc |-> "insert", at |-> clock', doc |-> v.doc]]
    /\ UNCHANGED <<wal, versions, live, collab, edit, faults>>
    /\ Observe

InsertVersion(r) ==
    /\ request[r].pc = "insert"
    /\ versions' = versions \cup
           {[at |-> request[r].at, doc |-> request[r].doc]}
    /\ request' = [request EXCEPT ![r] =
           [op |-> request[r].op, pc |-> "done", at |-> request[r].at,
            doc |-> request[r].doc]]
    /\ UNCHANGED <<clock, wal, live, collab, edit, faults>>
    /\ Observe

-----------------------------------------------------------------------------
Next ==
    \/ LoadSnapshot \/ LoadTail \/ Unload \/ Crash
    \/ \E u \in Update : BeginAppend(u) \/ CommitAppend(u) \/ Apply(u) \/ AppendFails(u)
    \/ ReadLatest \/ ReadRows \/ Encode \/ BeginVersion \/ CommitVersion
    \/ Prune \/ CompactionFails
    \/ \E r \in Request : \/ BeginSave(r) \/ SaveSnapshot(r) \/ SaveTail(r)
                          \/ BeginRestore(r) \/ InsertVersion(r)

Spec == Init /\ [][Next]_vars

-----------------------------------------------------------------------------
\* What the code gives: an acked update is lost only if it was on its way
\* while a version was written, if two versions were written at once, or if a
\* restore left it behind (persist.ts, compaction.ts, page-version.service.ts).
LossNeedsOverlap ==
    \A u \in Update \ exposed :
        edit[u].stage = "acked" => <<u, "insert">> \in replayPage

\* A saved version holds all that the page held when the save began, if no
\* other version was committed meanwhile (savePageVersion).
SaveIsFaithful ==
    \A r \in Request \ disturbed :
        request[r].op = "save" /\ request[r].pc = "done"
            => owed[r] \subseteq request[r].doc

\* Without saves and restores an autosave holds all that the ones before it
\* held, through unloads, crashes and half-done compactions (replayPage).
AutosavesGrow ==
    (\A r \in Request : request[r].pc = "new")
        => \A v, w \in versions : v.at < w.at => v.doc \subseteq w.doc
=============================================================================
