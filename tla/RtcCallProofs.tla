---------------------------- MODULE RtcCallProofs ----------------------------
(***************************************************************************)
(* Theorems about in-app calls, for any set of people, any number of       *)
(* requests in flight and any cap: type correctness and the five           *)
(* properties the run checks.                                              *)
(***************************************************************************)
EXTENDS RtcCall, FiniteSetTheorems, TLAPS

USE DEF vars, rosterVars, consentVars, history

\* The counters beside the rows.
CountersCount ==
    /\ SeatsAreCounted
    /\ consentCount = Cardinality(consented)

\* Before the call there is nothing a request could have read.
NothingBefore ==
    status = "absent" =>
        /\ state = [u \in User |-> "none"]
        /\ consented = {}
        /\ recording = "none"
        /\ answers = 0
        /\ \A r \in Request : request[r].op \in {"idle", "removeMember"}

\* A call has the person who started it and somebody they called.
CallHasRows ==
    status # "absent" =>
        /\ initiatedBy \in Rows
        /\ Rows # {initiatedBy}

Declining(r) == request[r].op \in {"declined", "counted"}

\* The rows of uncommitted declines are still invitations, each locked once.
DeclinesHoldRows ==
    /\ \A r \in Request : Declining(r) => state[request[r].user] = "invited"
    /\ \A r, q \in Request :
          Declining(r) /\ Declining(q) /\ request[r].user = request[q].user => r = q

\* A call that rings has never been anything else.
RingingWasRead ==
    status = "ringing" =>
        \A r \in Request : request[r].op \in {"decline", "declined"} =>
            request[r].status = "ringing"

\* While no two declines overlapped, the one that counted an invitation was
\* right, and stays right until it commits.
CountIsTrue ==
    ~crossed =>
        /\ \A r, q \in Request : Declining(r) /\ Declining(q) => r = q
        /\ status = "ringing" =>
              \A r \in Request : request[r].op = "counted" =>
                  \E v \in User \ {request[r].user} : state[v] = "invited"

IInv ==
    /\ TypeOK
    /\ CountersCount
    /\ NothingBefore
    /\ CallHasRows
    /\ OneAnswer
    /\ NoDeadCall
    /\ RecordingHasConsents
    /\ DeclinesHoldRows
    /\ RingingWasRead
    /\ CountIsTrue
    /\ RingingHasInvitee

-----------------------------------------------------------------------------
LEMMA FiniteSets == IInv => /\ IsFiniteSet(Joined) /\ Cardinality(Joined) \in Nat
                            /\ IsFiniteSet(consented)
                            /\ IsFiniteSet(Rows) /\ Cardinality(Rows) \in Nat
BY RtcAssumption, FS_Subset, FS_CardinalityType DEF IInv, TypeOK, Joined, Rows

\* Two people make a set of two.
LEMMA TwoRows ==
  ASSUME NEW S, IsFiniteSet(S), Cardinality(S) = 2, NEW a \in S, NEW b \in S, a # b
  PROVE  S = {a, b}
<1>1. IsFiniteSet(S \ {a}) /\ Cardinality(S \ {a}) = 1
  BY FS_RemoveElement
<1>2. IsFiniteSet((S \ {a}) \ {b}) /\ Cardinality((S \ {a}) \ {b}) = 0
  BY <1>1, FS_RemoveElement
<1>3. (S \ {a}) \ {b} = {}
  BY <1>2, FS_EmptySet
<1>. QED
  BY <1>3

RequestType ==
    [Request -> {Idle} \cup
        [op : Op, user : User, status : Status, recording : Recording]]

\* A request that is over leaves the others as they were.
LEMMA RequestEnds ==
  ASSUME IInv, NEW r \in Request, request' = [request EXCEPT ![r] = Idle]
  PROVE  /\ request' \in RequestType
         /\ request'[r].op = "idle"
         /\ \A q \in Request \ {r} : request'[q] = request[q]
         /\ \A q \in Request : Declining(q)' => Declining(q) /\ q # r
BY DEF IInv, TypeOK, RequestType, Idle, Declining

\* What the others hold and have read stays true when r commits, provided it
\* leaves their rows alone and, while the call still rings, takes no
\* invitation away unless it is a decline itself.
LEMMA CommitKeepsReads ==
  ASSUME IInv, NEW r \in Request, request' = [request EXCEPT ![r] = Idle],
         \A q \in Request \ {r} : Declining(q) =>
            state'[request[q].user] = "invited",
         status' = "ringing" => status = "ringing",
         status' = "ringing" /\ ~Declining(r) =>
            \A v \in User : state[v] = "invited" => state'[v] = "invited",
         crossed' = crossed
  PROVE  DeclinesHoldRows' /\ RingingWasRead' /\ CountIsTrue'
<1>1. /\ request' \in RequestType
      /\ request'[r].op = "idle"
      /\ \A q \in Request \ {r} : request'[q] = request[q]
      /\ \A q \in Request : Declining(q)' => Declining(q) /\ q # r
  BY RequestEnds
<1>2. DeclinesHoldRows'
  BY <1>1 DEF IInv, DeclinesHoldRows
<1>3. RingingWasRead'
  BY <1>1 DEF IInv, RingingWasRead
<1>4. ASSUME ~crossed, status' = "ringing", NEW q \in Request,
             request'[q].op = "counted"
      PROVE  \E v \in User \ {request'[q].user} : state'[v] = "invited"
  <2>1. q # r /\ request'[q] = request[q] /\ Declining(q)
    BY <1>1, <1>4 DEF Declining
  <2>2. ~Declining(r)
    BY <1>4, <2>1 DEF IInv, CountIsTrue
  <2>3. PICK v \in User \ {request[q].user} : state[v] = "invited"
    BY <1>4, <2>1 DEF IInv, CountIsTrue
  <2>. QED
    BY <1>4, <2>1, <2>2, <2>3
<1>5. CountIsTrue'
  BY <1>1, <1>4 DEF IInv, CountIsTrue
<1>. QED
  BY <1>2, <1>3, <1>5

\* The CHECK on the session row bounds the room while a recording runs.
LEMMA CheckedConsents ==
  ASSUME CheckConstraints, CountersCount'
  PROVE  RecordingHasConsents'
BY DEF CheckConstraints, CountersCount, SeatsAreCounted, RecordingHasConsents

-----------------------------------------------------------------------------
(* Steps that leave the roster and the counters alone. *)

LEMMA StillThere ==
  ASSUME IInv, UNCHANGED <<member, rosterVars, consentVars, initiatedBy, answers>>,
         request' \in RequestType, crossed' \in BOOLEAN,
         status = "absent" =>
            \A r \in Request : request'[r].op \in {"idle", "removeMember"},
         crossed => crossed'
  PROVE  /\ TypeOK' /\ CountersCount' /\ NothingBefore' /\ CallHasRows'
         /\ OneAnswer' /\ NoDeadCall' /\ RecordingHasConsents'
         /\ RingingHasInvitee'
<1>1. Joined' = Joined /\ Rows' = Rows
  BY DEF Joined, Rows
<1>2. TypeOK'
  BY <1>1 DEF IInv, TypeOK, RequestType
<1>3. CountersCount' /\ NothingBefore' /\ CallHasRows' /\ OneAnswer' /\ NoDeadCall'
  BY <1>1 DEF IInv, CountersCount, SeatsAreCounted, NothingBefore, CallHasRows,
              OneAnswer, NoDeadCall, Live
<1>4. RecordingHasConsents' /\ RingingHasInvitee'
  BY <1>1 DEF IInv, RecordingHasConsents, RingingHasInvitee
<1>. QED
  BY <1>2, <1>3, <1>4

LEMMA LoadKeepsInv ==
  ASSUME IInv, NEW r \in Request, NEW op \in Op, NEW u \in User,
         loadSession(r, op, u)
  PROVE  IInv'
<1>. DEFINE seen == [op |-> op, user |-> u, recording |-> recording,
                     status |-> IF op = "removeMember" /\ u \notin Joined
                                THEN "absent" ELSE status]
<1>1. request' = [request EXCEPT ![r] = seen] /\ Proceeds(op, u)
  BY DEF loadSession
<1>2. seen \in [op : Op, user : User, status : Status, recording : Recording]
  BY DEF IInv, TypeOK, Status
<1>3. request' \in RequestType
  BY <1>1, <1>2 DEF IInv, TypeOK, RequestType
<1>4. /\ request'[r].op = op /\ op # "declined" /\ op # "counted"
      /\ op = "decline" => request'[r].status = status
      /\ \A q \in Request \ {r} : request'[q] = request[q]
  BY <1>1 DEF IInv, TypeOK, Proceeds
<1>5. status = "absent" =>
         \A q \in Request : request'[q].op \in {"idle", "removeMember"}
  BY <1>1, <1>4 DEF IInv, NothingBefore, Proceeds, Live, Op
<1>6. \A q \in Request : Declining(q)' => Declining(q) /\ q # r
  BY <1>4 DEF Declining
<1>7. DeclinesHoldRows' /\ RingingWasRead' /\ CountIsTrue'
  BY <1>4, <1>6 DEF IInv, DeclinesHoldRows, RingingWasRead, CountIsTrue,
                    Declining, loadSession
<1>. QED
  BY <1>3, <1>5, <1>7, StillThere DEF IInv, TypeOK, loadSession

LEMMA FailKeepsInv ==
  ASSUME IInv, NEW r \in Request, Fail(r)
  PROVE  IInv'
<1>1. /\ request' \in RequestType
      /\ \A q \in Request : request'[q].op \in {"idle", request[q].op}
  BY RequestEnds DEF Fail
<1>2. DeclinesHoldRows' /\ RingingWasRead' /\ CountIsTrue'
  BY CommitKeepsReads DEF Fail, IInv, DeclinesHoldRows
<1>. QED
  BY <1>1, <1>2, StillThere DEF IInv, TypeOK, NothingBefore, Fail

LEMMA DeclineKeepsInv ==
  ASSUME IInv, NEW r \in Request, NEW u \in User, declineInvitation(r, u)
  PROVE  IInv'
<1>0. request[r] \in [op : Op, user : User, status : Status, recording : Recording]
      /\ request[r].op = "decline" /\ request[r].user = u /\ ~Declining(r)
  BY DEF IInv, TypeOK, Idle, declineInvitation, Declining
<1>1. CASE state[u] # "invited"
  <2>1. request' = [request EXCEPT ![r] = Idle] /\ crossed' = crossed
    BY <1>1 DEF declineInvitation, IInv, TypeOK
  <2>2. /\ request' \in RequestType
        /\ \A q \in Request : request'[q].op \in {"idle", request[q].op}
    BY <2>1, RequestEnds
  <2>3. DeclinesHoldRows' /\ RingingWasRead' /\ CountIsTrue'
    BY <2>1, CommitKeepsReads DEF declineInvitation, IInv, DeclinesHoldRows
  <2>. QED
    BY <2>1, <2>2, <2>3, StillThere DEF IInv, TypeOK, NothingBefore, declineInvitation
<1>2. CASE state[u] = "invited"
  <2>1. /\ request' = [request EXCEPT ![r].op = "declined"]
        /\ crossed' = (crossed \/ \E v \in User : Locked(v))
    BY <1>2 DEF declineInvitation
  <2>2. /\ request' \in RequestType
        /\ request'[r].op = "declined" /\ request'[r].user = u
        /\ request'[r].status = request[r].status
        /\ \A q \in Request \ {r} : request'[q] = request[q]
    BY <1>0, <2>1 DEF IInv, TypeOK, RequestType, Op
  <2>3. \A q \in Request \ {r} : Declining(q)' <=> Declining(q)
    BY <2>2 DEF Declining
  <2>4. \A q \in Request : Declining(q) => Locked(request[q].user) /\ request[q].user \in User
    BY DEF Locked, Declining, IInv, TypeOK, Idle
  <2>5. status # "absent"
    BY <1>0 DEF IInv, NothingBefore
  <2>6. DeclinesHoldRows'
    BY <1>2, <2>2, <2>3, <2>4 DEF declineInvitation, IInv, DeclinesHoldRows
  <2>7. RingingWasRead'
    BY <1>0, <2>2 DEF declineInvitation, IInv, RingingWasRead
  <2>8. CountIsTrue'
    BY <2>1, <2>2, <2>3, <2>4 DEF declineInvitation, IInv, CountIsTrue, Declining
  <2>9. crossed' \in BOOLEAN /\ (crossed => crossed')
    BY <2>1 DEF IInv, TypeOK
  <2>. QED
    BY <2>2, <2>5, <2>6, <2>7, <2>8, <2>9, StillThere DEF IInv, declineInvitation
<1>. QED
  BY <1>1, <1>2

LEMMA CountKeepsInv ==
  ASSUME IInv, NEW r \in Request, NEW u \in User, countInvited(r, u)
  PROVE  IInv'
<1>1. /\ request[r] \in [op : Op, user : User, status : Status, recording : Recording]
      /\ request[r].op = "declined" /\ request[r].user = u
  BY DEF IInv, TypeOK, Idle, countInvited
<1>2. /\ request' \in RequestType
      /\ request'[r].op = "counted" /\ request'[r].user = u
      /\ \A q \in Request \ {r} : request'[q] = request[q]
  BY <1>1 DEF countInvited, IInv, TypeOK, RequestType, Op
<1>3. \A q \in Request : (Declining(q)' <=> Declining(q)) /\ request'[q].user = request[q].user
  BY <1>1, <1>2 DEF Declining
<1>4. status # "absent"
  BY <1>1 DEF IInv, NothingBefore
<1>5. DeclinesHoldRows' /\ RingingWasRead'
  BY <1>2, <1>3 DEF countInvited, IInv, DeclinesHoldRows, RingingWasRead
<1>6. status = "ringing" => \E v \in User \ {u} : state[v] = "invited"
  BY <1>1 DEF countInvited, DeclineEnds, NobodyToAnswer, AfterDecline, IInv,
              TypeOK, RingingWasRead
<1>7. CountIsTrue'
  BY <1>2, <1>3, <1>6 DEF countInvited, IInv, CountIsTrue
<1>. QED
  BY <1>2, <1>4, <1>5, <1>7, StillThere DEF IInv, TypeOK, countInvited

-----------------------------------------------------------------------------
(* Steps that change the roster. *)

LEMMA StartKeepsInv ==
  ASSUME IInv, NEW u \in User, NEW invited \in SUBSET User, startSession(u, invited)
  PROVE  IInv'
<1>0. PICK v \in invited : v # u
  BY DEF startSession
<1>1. state' = [w \in User |-> IF w = u THEN "joined"
                               ELSE IF w \in invited THEN "invited" ELSE "none"]
  BY DEF startSession
<1>2. Joined' = {u} /\ u \in Rows' /\ v \in Rows' /\ state'[v] = "invited"
  BY <1>0, <1>1 DEF Joined, Rows
<1>3. Cardinality({u}) = 1
  BY FS_Singleton
<1>4. /\ consented = {} /\ recording = "none" /\ answers = 0
      /\ \A q \in Request : request[q].op \in {"idle", "removeMember"}
  BY DEF startSession, IInv, NothingBefore
<1>5. TypeOK'
  <2>1. 1 \in 0..MESH_PARTICIPANT_CAP
    BY RtcAssumption
  <2>2. state' \in [User -> State]
    BY <1>1 DEF State
  <2>. QED
    BY <1>4, <2>1, <2>2 DEF startSession, IInv, TypeOK, Status
<1>6. CountersCount'
  BY <1>2, <1>3, <1>4 DEF startSession, IInv, CountersCount, SeatsAreCounted
<1>7. NothingBefore' /\ CallHasRows' /\ OneAnswer' /\ RecordingHasConsents'
  BY <1>0, <1>2, <1>4 DEF startSession, NothingBefore, CallHasRows, OneAnswer,
                          RecordingHasConsents
<1>8. NoDeadCall' /\ RingingHasInvitee'
  BY <1>0, <1>2 DEF startSession, NoDeadCall, RingingHasInvitee
<1>9. DeclinesHoldRows' /\ RingingWasRead' /\ CountIsTrue'
  BY <1>4 DEF startSession, DeclinesHoldRows, RingingWasRead, CountIsTrue, Declining
<1>. QED
  BY <1>5, <1>6, <1>7, <1>8, <1>9 DEF IInv

\* A call that ends: nobody is in it or waiting, and no uncommitted decline
\* held a row it needed.
LEMMA EndsAll ==
  ASSUME IInv, NEW rows \in [User -> State], endSessionRow(rows)
  PROVE  /\ state' \in [User -> State] /\ Joined' = {} /\ Cardinality(Joined') = 0
         /\ \A v \in User : state'[v] = "none" <=> rows[v] = "none"
         /\ \A v \in User : rows[v] = "invited" => ~Locked(v)
BY FS_EmptySet DEF endSessionRow, State, Joined

\* What a leg that goes leaves: a call that is over, or one with people in it
\* that is not a call of two.
LEMMA LegGoes ==
  ASSUME IInv, NEW u \in Joined, legOut(u), CheckConstraints
  PROVE  /\ state' \in [User -> State]
         /\ joinedCount' = Cardinality(Joined')
         /\ Rows' = Rows
         /\ status' \in {status, "ended"}
         /\ status' = "ended" \/
              /\ Joined' # {} /\ Cardinality(Rows) # 2
              /\ Joined' = Joined \ {u} /\ status' # "ringing"
         /\ \A v \in User : Locked(v) => state'[v] = state[v]
<1>. DEFINE rows == [state EXCEPT ![u] = "left"]
            count == joinedCount - 1
<1>1. /\ u \in User /\ state[u] = "joined" /\ state \in [User -> State]
      /\ joinedCount = Cardinality(Joined) /\ IsFiniteSet(Joined)
      /\ Cardinality(Joined) \in Nat /\ Cardinality(Rows) \in Nat
  BY FiniteSets DEF IInv, TypeOK, CountersCount, SeatsAreCounted, Joined
<1>2. rows \in [User -> State]
  BY <1>1 DEF State
<1>3. \A v \in User : Locked(v) => state[v] = "invited" /\ v # u
  BY <1>1 DEF Locked, IInv, DeclinesHoldRows, Declining
<1>4. CASE isLastLegOut(count)
  <2>1. endSessionRow(rows)
    BY <1>4 DEF legOut
  <2>2. /\ state' \in [User -> State] /\ Joined' = {} /\ Cardinality(Joined') = 0
        /\ \A v \in User : state'[v] = "none" <=> rows[v] = "none"
        /\ \A v \in User : rows[v] = "invited" => ~Locked(v)
    BY <1>2, <2>1, EndsAll
  <2>3. Rows' = Rows
    BY <1>1, <2>2 DEF Rows
  <2>4. \A v \in User : ~Locked(v)
    BY <1>1, <1>3, <2>2
  <2>. QED
    BY <2>1, <2>2, <2>3, <2>4 DEF endSessionRow
<1>5. CASE ~isLastLegOut(count)
  <2>1. state' = rows /\ joinedCount' = count /\ status' = status
    BY <1>5 DEF legOut
  <2>2. Joined' = Joined \ {u} /\ Rows' = Rows
    BY <1>1, <2>1 DEF Joined, Rows
  <2>3. IsFiniteSet(Joined') /\ Cardinality(Joined') = count
    BY <1>1, <2>2, FS_RemoveElement
  <2>4. count > 0 /\ ~(count = 1 /\ Cardinality(Rows) = 2)
    BY <1>1, <1>5 DEF isLastLegOut
  <2>5. Joined' # {}
    BY <2>3, <2>4, FS_EmptySet
  <2>6. status # "ringing"
    <3>1. status = "ringing" => Joined = {initiatedBy} /\ Joined' = {}
      BY <1>1, <2>2 DEF IInv, OneAnswer
    <3>. QED
      BY <2>5, <3>1
  <2>7. status = "active" => Cardinality(Rows) # 2
    <3>1. status = "active" /\ Cardinality(Rows) = 2 => joinedCount = 2
      BY <1>1 DEF IInv, NoDeadCall
    <3>. QED
      BY <2>4, <3>1
  <2>8. status \in {"active", "ended"}
    <3>1. status \in Status /\ status # "absent"
      BY <1>1 DEF IInv, TypeOK, NothingBefore
    <3>. QED
      BY <2>6, <3>1 DEF Status
  <2>9. \A v \in User : Locked(v) => state'[v] = state[v]
    BY <1>1, <1>3, <2>1
  <2>. QED
    BY <1>2, <2>1, <2>2, <2>3, <2>5, <2>6, <2>7, <2>8, <2>9
<1>. QED
  BY <1>4, <1>5

LEMMA LegKeepsInv ==
  ASSUME IInv, NEW r \in Request, NEW op \in Op, NEW u \in Joined,
         Writes(r, op, u), legOut(u), CheckConstraints,
         UNCHANGED <<consentVars, history>>, member' \subseteq User
  PROVE  IInv'
<1>1. /\ state' \in [User -> State]
      /\ joinedCount' = Cardinality(Joined')
      /\ Rows' = Rows
      /\ status' \in {status, "ended"}
      /\ status' = "ended" \/
           /\ Joined' # {} /\ Cardinality(Rows) # 2
           /\ Joined' = Joined \ {u} /\ status' # "ringing"
      /\ \A v \in User : Locked(v) => state'[v] = state[v]
  BY LegGoes
<1>2. request' = [request EXCEPT ![r] = Idle] /\ initiatedBy' = initiatedBy
  BY DEF Writes
<1>3. u \in User /\ state[u] = "joined" /\ status # "absent"
  BY DEF Joined, IInv, NothingBefore
<1>4. status' \in {"active", "ended"} /\ (status' = "active" => status = "active")
  BY <1>1, <1>3 DEF IInv, TypeOK, Status
<1>5. TypeOK'
  <2>1. request' \in RequestType
    BY <1>2, RequestEnds
  <2>. QED
    BY <1>1, <1>2, <1>4, <2>1 DEF IInv, TypeOK, RequestType, Status, CheckConstraints
<1>6. CountersCount' /\ RecordingHasConsents'
  <2>1. CountersCount'
    BY <1>1 DEF IInv, CountersCount, SeatsAreCounted
  <2>. QED
    BY <2>1, CheckedConsents
<1>7. NothingBefore' /\ CallHasRows'
  BY <1>1, <1>2, <1>3, <1>4 DEF IInv, NothingBefore, CallHasRows
<1>8. OneAnswer' /\ NoDeadCall' /\ RingingHasInvitee'
  BY <1>1, <1>2, <1>4 DEF IInv, OneAnswer, NoDeadCall, RingingHasInvitee, Live
<1>9. DeclinesHoldRows' /\ RingingWasRead' /\ CountIsTrue'
  <2>1. \A q \in Request \ {r} : Declining(q) => state'[request[q].user] = "invited"
    BY <1>1 DEF IInv, TypeOK, DeclinesHoldRows, Declining, Locked, Idle
  <2>. QED
    BY <1>2, <1>4, <2>1, CommitKeepsReads
<1>. QED
  BY <1>5, <1>6, <1>7, <1>8, <1>9 DEF IInv

\* A commit that leaves the roster alone: a recording's, or that of somebody
\* who has no leg to end.
LEMMA NothingToWrite ==
  ASSUME IInv, NEW r \in Request, NEW op \in Op, NEW u \in User,
         Writes(r, op, u), UNCHANGED <<rosterVars, history>>,
         member' \subseteq User, recording' \in Recording,
         consented' \subseteq Rows, consentCount' = Cardinality(consented'),
         CheckConstraints,
         status = "absent" => consented' = {} /\ recording' = "none"
  PROVE  IInv'
<1>1. Joined' = Joined /\ Rows' = Rows
  BY DEF Joined, Rows
<1>2. request' = [request EXCEPT ![r] = Idle] /\ initiatedBy' = initiatedBy
  BY DEF Writes
<1>3. request' \in RequestType
      /\ \A q \in Request : request'[q].op \in {"idle", request[q].op}
  BY <1>2, RequestEnds
<1>4. consentCount' \in 0..Cardinality(User)
  <2>1. consented' \in SUBSET User
    BY DEF Rows
  <2>. QED
    BY <2>1, RtcAssumption, FS_Subset, FS_CardinalityType
<1>5. TypeOK'
  BY <1>1, <1>2, <1>3, <1>4 DEF IInv, TypeOK, RequestType
<1>6. CountersCount' /\ RecordingHasConsents'
  <2>1. CountersCount'
    BY <1>1 DEF IInv, CountersCount, SeatsAreCounted
  <2>. QED
    BY <2>1, CheckedConsents
<1>7. NothingBefore' /\ CallHasRows'
  BY <1>1, <1>2, <1>3 DEF IInv, NothingBefore, CallHasRows
<1>8. OneAnswer' /\ NoDeadCall' /\ RingingHasInvitee'
  BY <1>1, <1>2 DEF IInv, OneAnswer, NoDeadCall, RingingHasInvitee, Live
<1>9. DeclinesHoldRows' /\ RingingWasRead' /\ CountIsTrue'
  BY <1>2, CommitKeepsReads DEF IInv, DeclinesHoldRows
<1>. QED
  BY <1>5, <1>6, <1>7, <1>8, <1>9 DEF IInv

LEMMA EndKeepsInv ==
  ASSUME IInv, NEW r \in Request, NEW op \in Op, NEW u \in User,
         Writes(r, op, u), op # "removeMember", CheckConstraints,
         NEW rows \in [User -> State], endSessionRow(rows),
         \A v \in User : rows[v] = "none" <=> state[v] = "none",
         \A v \in User : state[v] = "invited" /\ rows[v] # "invited" =>
            v = u /\ Declining(r),
         UNCHANGED <<member, consentVars, history>>
  PROVE  IInv'
<1>1. /\ state' \in [User -> State] /\ Joined' = {} /\ Cardinality(Joined') = 0
      /\ \A v \in User : state'[v] = "none" <=> rows[v] = "none"
      /\ \A v \in User : rows[v] = "invited" => ~Locked(v)
  BY EndsAll
<1>2. Rows' = Rows /\ status' = "ended" /\ joinedCount' = 0
  BY <1>1 DEF Rows, endSessionRow
<1>3. /\ request' = [request EXCEPT ![r] = Idle] /\ initiatedBy' = initiatedBy
      /\ request[r].op = op /\ request[r].user = u
  BY DEF Writes
<1>4. status # "absent"
  BY <1>3 DEF IInv, NothingBefore, Op
<1>5. TypeOK'
  <2>1. request' \in RequestType
    BY <1>3, RequestEnds
  <2>2. 0 \in 0..MESH_PARTICIPANT_CAP
    BY RtcAssumption
  <2>3. status' \in Status /\ joinedCount' \in 0..MESH_PARTICIPANT_CAP
        /\ consented' \subseteq Rows'
    BY <1>2, <2>2 DEF IInv, TypeOK, Status
  <2>. QED
    BY <1>1, <1>3, <2>1, <2>3 DEF IInv, TypeOK, RequestType
<1>6. CountersCount' /\ RecordingHasConsents'
  <2>1. CountersCount'
    BY <1>1, <1>2 DEF IInv, CountersCount, SeatsAreCounted
  <2>. QED
    BY <2>1, CheckedConsents
<1>7. NothingBefore' /\ CallHasRows' /\ OneAnswer' /\ NoDeadCall' /\ RingingHasInvitee'
  BY <1>2, <1>3, <1>4 DEF IInv, NothingBefore, CallHasRows, OneAnswer, NoDeadCall,
                          RingingHasInvitee, Live
<1>8. DeclinesHoldRows' /\ RingingWasRead' /\ CountIsTrue'
  <2>1. \A q \in Request \ {r} : ~Declining(q)
    <3> SUFFICES ASSUME NEW q \in Request \ {r}, Declining(q) PROVE FALSE
      OBVIOUS
    <3>1. /\ request[q].user \in User /\ state[request[q].user] = "invited"
          /\ Locked(request[q].user)
      BY DEF IInv, TypeOK, DeclinesHoldRows, Declining, Locked, Idle
    <3>2. rows[request[q].user] # "invited"
      BY <1>1, <3>1
    <3>3. request[q].user = request[r].user /\ Declining(r)
      BY <1>3, <3>1, <3>2
    <3>. QED
      BY <3>3 DEF IInv, DeclinesHoldRows
  <2>. QED
    BY <1>2, <1>3, <2>1, CommitKeepsReads
<1>. QED
  BY <1>5, <1>6, <1>7, <1>8 DEF IInv

LEMMA JoinKeepsInv ==
  ASSUME IInv, NEW r \in Request, NEW u \in User, joinSession(r, u), CheckConstraints
  PROVE  IInv'
<1>1. /\ request' = [request EXCEPT ![r] = Idle] /\ initiatedBy' = initiatedBy
      /\ request[r].op = "join"
  BY DEF joinSession, Writes
<1>2. state \in [User -> State] /\ state' = [state EXCEPT ![u] = "joined"]
  BY DEF joinSession, IInv, TypeOK
<1>3. state' \in [User -> State] /\ Joined' = Joined \cup {u} /\ Rows' = Rows \cup {u}
  BY <1>2 DEF State, Joined, Rows
<1>4. status # "absent"
  BY <1>1 DEF IInv, NothingBefore
<1>5. joinedCount' = Cardinality(Joined')
  <2>1. IsFiniteSet(Joined) /\ joinedCount = Cardinality(Joined)
    BY FiniteSets DEF IInv, CountersCount, SeatsAreCounted
  <2>2. Cardinality(Joined \cup {u}) = IF u \in Joined THEN Cardinality(Joined)
                                        ELSE Cardinality(Joined) + 1
    BY <2>1, FS_AddElement
  <2>. QED
    BY <1>3, <2>1, <2>2 DEF joinSession, Transitions, Joined
<1>6. \/ status' = "active" /\ answers' = answers + 1 /\ status = "ringing"
                            /\ u # initiatedBy
      \/ status' = status /\ answers' = answers /\ (status = "ringing" => u = initiatedBy)
  BY DEF joinSession, WinsTheRace
<1>7. TypeOK'
  <2>1. request' \in RequestType
    BY <1>1, RequestEnds
  <2>2. status' \in Status /\ answers' \in Nat
    BY <1>6 DEF IInv, TypeOK, Status
  <2>3. recording' \in Recording
    BY DEF joinSession, IInv, TypeOK, Recording
  <2>4. consented' = consented /\ consentCount' = consentCount /\ member' = member
        /\ crossed' = crossed
    BY DEF joinSession
  <2>5. consented \subseteq Rows'
    BY <1>3 DEF IInv, TypeOK
  <2>. QED
    BY <1>1, <1>3, <2>1, <2>2, <2>3, <2>4, <2>5
    DEF IInv, TypeOK, RequestType, CheckConstraints
<1>8. CountersCount' /\ RecordingHasConsents'
  <2>1. CountersCount'
    BY <1>5 DEF joinSession, IInv, CountersCount, SeatsAreCounted
  <2>. QED
    BY <2>1, CheckedConsents
<1>9. NothingBefore' /\ CallHasRows'
  BY <1>1, <1>3, <1>4, <1>6 DEF IInv, NothingBefore, CallHasRows
<1>10. OneAnswer'
  BY <1>1, <1>3, <1>6 DEF IInv, OneAnswer, TypeOK
<1>11. NoDeadCall'
  <2>1. Joined' # {}
    BY <1>3
  <2>2. ASSUME status' = "active", Cardinality(Rows') = 2 PROVE Joined' = Rows'
    <3>1. IsFiniteSet(Rows') /\ IsFiniteSet(Rows)
      BY <1>3, FiniteSets, FS_AddElement
    <3>2. CASE status = "ringing"
      <4>1. initiatedBy \in Rows' /\ u \in Rows' /\ u # initiatedBy
        BY <1>3, <1>4, <1>6, <2>2, <3>2 DEF IInv, CallHasRows
      <4>2. Rows' = {initiatedBy, u}
        BY <2>2, <3>1, <4>1, TwoRows
      <4>3. initiatedBy \in Joined
        BY <3>2 DEF IInv, OneAnswer
      <4>. QED
        BY <1>3, <4>2, <4>3 DEF Joined, Rows
    <3>3. CASE status = "active"
      <4>1. CASE u \in Rows
        BY <1>3, <2>2, <3>3, <4>1 DEF IInv, NoDeadCall
      <4>2. CASE u \notin Rows
        <5>1. Cardinality(Rows) = 1
          BY <1>3, <2>2, <3>1, <4>2, FS_AddElement, FiniteSets
        <5>2. PICK x : Rows = {x}
          BY <5>1, <3>1, FS_Singleton
        <5>. QED
          BY <1>4, <5>2 DEF IInv, CallHasRows
      <4>. QED
        BY <4>1, <4>2
    <3>. QED
      BY <1>6, <2>2, <3>2, <3>3
  <2>. QED
    BY <2>1, <2>2 DEF NoDeadCall
<1>12. RingingHasInvitee'
  <2>1. ASSUME status' = "ringing", NEW v \in User, state[v] = "invited"
        PROVE  state'[v] = "invited"
    BY <1>2, <1>6, <2>1 DEF IInv, OneAnswer, Joined
  <2>. QED
    BY <1>6, <2>1 DEF joinSession, IInv, RingingHasInvitee
<1>13. DeclinesHoldRows' /\ RingingWasRead' /\ CountIsTrue'
  <2>1. \A q \in Request \ {r} : Declining(q) => state'[request[q].user] = "invited"
    BY <1>2 DEF joinSession, IInv, TypeOK, DeclinesHoldRows, Declining, Locked, Idle
  <2>2. ASSUME status' = "ringing", NEW v \in User, state[v] = "invited"
        PROVE  state'[v] = "invited"
    BY <1>2, <1>6, <2>2 DEF IInv, OneAnswer, Joined
  <2>. QED
    BY <1>1, <1>6, <2>1, <2>2, CommitKeepsReads DEF joinSession
<1>. QED
  BY <1>7, <1>8, <1>9, <1>10, <1>11, <1>12, <1>13 DEF IInv

-----------------------------------------------------------------------------
(* The remaining operations, in the order of Commit. *)

LEMMA LeaveKeepsInv ==
  ASSUME IInv, NEW r \in Request, NEW u \in User, CheckConstraints,
         leaveSession(r, u) \/ removeMember(r, u)
  PROVE  IInv'
<1>1. PICK op \in {"leave", "removeMember"} : Writes(r, op, u)
  BY DEF leaveSession, removeMember
<1>2. op \in Op /\ member' \subseteq User /\ UNCHANGED <<consentVars, history>>
  BY DEF leaveSession, removeMember, Op, IInv, TypeOK
<1>3. CASE u \in Joined /\ legOut(u)
  BY <1>1, <1>2, <1>3, LegKeepsInv
<1>4. CASE UNCHANGED rosterVars
  BY <1>1, <1>2, <1>4, NothingToWrite DEF IInv, TypeOK, CountersCount, NothingBefore
<1>. QED
  BY <1>3, <1>4 DEF leaveSession, removeMember

\* The consents and their counter move together.
LEMMA ConsentsCount ==
  ASSUME IInv, NEW u \in User,
         \/ answerRecordingConsent(u)
         \/ resetRecordingConsent
         \/ UNCHANGED <<consented, consentCount>>
  PROVE  consented' \subseteq Rows /\ consentCount' = Cardinality(consented')
<1>1. /\ IsFiniteSet(consented) /\ consented \subseteq Rows
      /\ consentCount = Cardinality(consented)
  BY FiniteSets DEF IInv, TypeOK, CountersCount
<1>2. CASE answerRecordingConsent(u) /\ CanAnswer(u)
  <2>1. u \notin consented /\ u \in Rows
    BY <1>2 DEF CanAnswer, Joined, Rows
  <2>. QED
    BY <1>1, <1>2, <2>1, FS_AddElement DEF answerRecordingConsent
<1>3. CASE answerRecordingConsent(u) /\ ~CanAnswer(u)
  BY <1>1, <1>3 DEF answerRecordingConsent
<1>4. CASE resetRecordingConsent
  BY <1>4, FS_EmptySet DEF resetRecordingConsent
<1>. QED
  BY <1>1, <1>2, <1>3, <1>4

LEMMA RecordingKeepsInv ==
  ASSUME IInv, NEW r \in Request, NEW u \in User, CheckConstraints,
         \/ requestRecording(r, u)
         \/ \E agreed \in BOOLEAN : answerRecording(r, u, agreed)
         \/ startRecording(r, u)
         \/ stopRecording(r, u)
  PROVE  IInv'
<1>1. PICK op \in {"requestRecording", "answerRecording", "startRecording", "stopRecording"} :
          Writes(r, op, u)
  BY DEF requestRecording, answerRecording, startRecording, stopRecording
<1>2. op \in Op /\ request[r].op = op /\ member' \subseteq User
  BY <1>1 DEF Writes, Op, requestRecording, answerRecording, startRecording,
              stopRecording, IInv, TypeOK
<1>3. status # "absent"
  BY <1>2 DEF IInv, NothingBefore
<1>4. UNCHANGED <<rosterVars, history>>
  BY DEF requestRecording, answerRecording, startRecording, stopRecording
<1>5. consented' \subseteq Rows /\ consentCount' = Cardinality(consented')
  <2>1. \/ answerRecordingConsent(u)
        \/ resetRecordingConsent
        \/ UNCHANGED <<consented, consentCount>>
    BY DEF requestRecording, answerRecording, startRecording, stopRecording
  <2>. QED
    BY <2>1, ConsentsCount
<1>6. recording' \in Recording
  BY DEF requestRecording, answerRecording, startRecording, stopRecording,
         IInv, TypeOK, Recording
<1>. QED
  BY <1>1, <1>2, <1>3, <1>4, <1>5, <1>6, NothingToWrite

LEMMA CountedKeepsInv ==
  ASSUME IInv, NEW r \in Request, NEW u \in User, Writes(r, "counted", u),
         state' = AfterDecline(u), CheckConstraints,
         UNCHANGED <<status, joinedCount, member, consentVars, history>>
  PROVE  IInv'
<1>1. /\ request' = [request EXCEPT ![r] = Idle] /\ initiatedBy' = initiatedBy
      /\ request[r].op = "counted" /\ request[r].user = u /\ Declining(r)
  BY DEF Writes, Declining
<1>2. state[u] = "invited" /\ state \in [User -> State]
      /\ state' = [state EXCEPT ![u] = "declined"]
  BY <1>1 DEF IInv, TypeOK, DeclinesHoldRows, AfterDecline
<1>3. state' \in [User -> State] /\ Joined' = Joined /\ Rows' = Rows
  BY <1>2 DEF State, Joined, Rows
<1>4. status # "absent"
  BY <1>1 DEF IInv, NothingBefore
<1>5. TypeOK'
  <2>1. request' \in RequestType
    BY <1>1, RequestEnds
  <2>. QED
    BY <1>1, <1>3, <2>1 DEF IInv, TypeOK, RequestType
<1>6. CountersCount' /\ NothingBefore' /\ CallHasRows' /\ OneAnswer' /\ NoDeadCall'
      /\ RecordingHasConsents'
  BY <1>1, <1>3, <1>4 DEF IInv, CountersCount, SeatsAreCounted, NothingBefore,
       CallHasRows, OneAnswer, NoDeadCall, RecordingHasConsents, Live
<1>7. RingingHasInvitee'
  BY <1>1, <1>2 DEF IInv, RingingHasInvitee, CountIsTrue
<1>8. DeclinesHoldRows' /\ RingingWasRead' /\ CountIsTrue'
  <2>1. \A q \in Request \ {r} : Declining(q) => state'[request[q].user] = "invited"
    BY <1>1, <1>2 DEF IInv, DeclinesHoldRows
  <2>. QED
    BY <1>1, <2>1, CommitKeepsReads
<1>. QED
  BY <1>5, <1>6, <1>7, <1>8 DEF IInv

LEMMA DeclineSessionKeepsInv ==
  ASSUME IInv, NEW r \in Request, NEW u \in User, declineSession(r, u), CheckConstraints
  PROVE  IInv'
<1>1. CASE Writes(r, "counted", u) /\ state' = AfterDecline(u)
           /\ UNCHANGED <<status, joinedCount>>
  BY <1>1, CountedKeepsInv DEF declineSession
<1>2. CASE Writes(r, "declined", u) /\ endSessionRow(AfterDecline(u))
  <2>1. PICK rows \in [User -> State] : rows = AfterDecline(u)
    BY DEF IInv, TypeOK, AfterDecline, State
  <2>2. Declining(r) /\ state[u] = "invited"
    BY <1>2 DEF Writes, Declining, IInv, DeclinesHoldRows
  <2>3. \A v \in User : (rows[v] = "none" <=> state[v] = "none")
                        /\ (state[v] = "invited" /\ rows[v] # "invited" => v = u)
    BY <2>1, <2>2 DEF IInv, TypeOK, AfterDecline
  <2>4. endSessionRow(rows)
    BY <1>2, <2>1
  <2>5. "declined" \in Op /\ UNCHANGED <<member, consentVars, history>>
    BY DEF Op, declineSession
  <2>. QED
    BY <1>2, <2>2, <2>3, <2>4, <2>5, EndKeepsInv
<1>. QED
  BY <1>1, <1>2 DEF declineSession

LEMMA CancelKeepsInv ==
  ASSUME IInv, NEW r \in Request, NEW u \in User, cancelSession(r, u), CheckConstraints
  PROVE  IInv'
<1>1. PICK rows \in [User -> State] : rows = state
  BY DEF IInv, TypeOK
<1>2. endSessionRow(rows) /\ Writes(r, "cancel", u) /\ "cancel" \in Op
      /\ UNCHANGED <<member, consentVars, history>>
  BY <1>1 DEF cancelSession, Op
<1>. QED
  BY <1>1, <1>2, EndKeepsInv

LEMMA CommitKeepsInv ==
  ASSUME IInv, NEW r \in Request, NEW u \in User, Commit(r, u)
  PROVE  IInv'
BY JoinKeepsInv, LeaveKeepsInv, DeclineSessionKeepsInv, CancelKeepsInv,
   RecordingKeepsInv
DEF Commit

-----------------------------------------------------------------------------

LEMMA InitInv == Init => IInv
<1> SUFFICES ASSUME Init PROVE IInv
  OBVIOUS
<1>1. Joined = {} /\ Rows = {} /\ Cardinality({}) = 0
  BY FS_EmptySet DEF Init, Joined, Rows
<1>2. TypeOK
  <2>1. 0 \in 0..MESH_PARTICIPANT_CAP /\ 0 \in 0..Cardinality(User)
    BY RtcAssumption, FS_CardinalityType
  <2>. QED
    BY <2>1 DEF Init, TypeOK, Status, State, Recording
<1>3. CountersCount /\ NothingBefore /\ CallHasRows /\ OneAnswer /\ NoDeadCall
      /\ RecordingHasConsents
  BY <1>1 DEF Init, CountersCount, SeatsAreCounted, NothingBefore, CallHasRows,
              OneAnswer, NoDeadCall, RecordingHasConsents, Live, Idle
<1>4. DeclinesHoldRows /\ RingingWasRead /\ CountIsTrue /\ RingingHasInvitee
  BY DEF Init, DeclinesHoldRows, RingingWasRead, CountIsTrue, RingingHasInvitee,
         Declining, Idle
<1>. QED
  BY <1>2, <1>3, <1>4 DEF IInv

LEMMA StutterKeepsInv ==
  ASSUME IInv, UNCHANGED vars
  PROVE  IInv'
<1>1. DeclinesHoldRows' /\ RingingWasRead' /\ CountIsTrue'
  BY DEF IInv, DeclinesHoldRows, RingingWasRead, CountIsTrue, Declining
<1>. QED
  BY <1>1, StillThere DEF IInv, TypeOK, RequestType, NothingBefore

LEMMA NextKeepsInv == IInv /\ [Next]_vars => IInv'
<1> SUFFICES ASSUME IInv, [Next]_vars PROVE IInv'
  OBVIOUS
<1>1. CASE \E u \in User, invited \in SUBSET User : startSession(u, invited)
  BY <1>1, StartKeepsInv
<1>2. CASE \E r \in Request, u \in User, op \in Op : loadSession(r, op, u)
  BY <1>2, LoadKeepsInv
<1>3. CASE \E r \in Request, u \in User : declineInvitation(r, u)
  BY <1>3, DeclineKeepsInv
<1>4. CASE \E r \in Request, u \in User : countInvited(r, u)
  BY <1>4, CountKeepsInv
<1>5. CASE \E r \in Request, u \in User : Commit(r, u)
  BY <1>5, CommitKeepsInv
<1>6. CASE \E r \in Request : Fail(r)
  BY <1>6, FailKeepsInv
<1>7. CASE UNCHANGED vars
  BY <1>7, StutterKeepsInv
<1>. QED
  BY <1>1, <1>2, <1>3, <1>4, <1>5, <1>6, <1>7 DEF Next

LEMMA InvHolds == Spec => []IInv
BY InitInv, NextKeepsInv, PTL DEF Spec

-----------------------------------------------------------------------------

\* Rows, counters and requests stay of their types; in particular a consent
\* belongs to somebody with a participant row and joined_count stays within
\* the cap (migrations 0041 and 0042).
THEOREM TypeCorrect == Spec => []TypeOK
BY InvHolds, PTL DEF IInv

\* joined_count is the number of joined participants after every operation,
\* whatever the requests overtake (participants.ts:33): each moves it exactly
\* when its own UPDATE made the transition.
THEOREM SeatsCounted == Spec => []SeatsAreCounted
<1>1. IInv => SeatsAreCounted
  BY DEF IInv, CountersCount
<1>. QED
  BY <1>1, InvHolds, PTL

\* However many people accept at the same instant, one join answers the call,
\* and until then its initiator is alone in it (session.service.ts:239, 293).
THEOREM AnsweredOnce == Spec => []OneAnswer
BY InvHolds, PTL DEF IInv

\* The last decline ends the call; only two declines that overlapped can both
\* count the other's invitation and leave it ringing for nobody
\* (session.service.ts:485).
THEOREM SomebodyCanAnswer == Spec => []RingingHasInvitee
BY InvHolds, PTL DEF IInv

\* A live call has somebody in it, and a call of two has both: the last leg
\* out ends it (participants.ts:254, session.service.ts:425).
THEOREM LastLegEnds == Spec => []NoDeadCall
BY InvHolds, PTL DEF IInv

\* A recording runs only with as many consents as people in the room, however
\* joins, leaves and answers interleave (migration 0042).
THEOREM RecordingIsConsented == Spec => []RecordingHasConsents
BY InvHolds, PTL DEF IInv
=============================================================================
