------------------------------- MODULE RtcCall -------------------------------
(***************************************************************************)
(* One in-app call: its session row, its participants and the consent to   *)
(* record it (apps/api/src/rtc/, migrations 0041 and 0042).                *)
(*                                                                         *)
(* Every operation is an API request.  It reads the session row without a  *)
(* lock and, some time later, writes on the strength of what it read; the  *)
(* writes of one transaction become visible together, since the statement  *)
(* that updates the session row keeps it locked to the end.  The exception *)
(* is declineSession, which writes its own participant row and then counts *)
(* the others while another decline does the same: its uncommitted write   *)
(* and its count are steps of their own.  A request may fail at any point  *)
(* before its commit (lost connection, deadlock victim, failed CHECK).     *)
(*                                                                         *)
(* The initiator's channel roster is chosen when the call starts; anyone   *)
(* else in User can read the channel later and join in progress.           *)
(***************************************************************************)
EXTENDS Integers, FiniteSets

CONSTANTS
    User,
    Request,              \* bound: requests in flight at once
    MESH_PARTICIPANT_CAP,
    NoUser

ASSUME RtcAssumption ==
    /\ IsFiniteSet(User)
    /\ NoUser \notin User
    /\ MESH_PARTICIPANT_CAP \in Nat \ {0, 1}

VARIABLES
    member,        \* users who belong to the org
    status,        \* sessions.status, "absent" before the call
    initiatedBy,
    joinedCount,   \* sessions.joined_count
    state,         \* participants.state, "none" where there is no row
    recording,     \* sessions.recording_state
    consented,     \* users with recording_consent_at
    consentCount,  \* sessions.consent_count
    request,       \* what a request in flight is doing and what it has read
    answers,       \* history: rtc_session.answered events
    crossed        \* history: a decline ran beside another one

rosterVars == <<status, joinedCount, state>>
consentVars == <<recording, consented, consentCount>>
history == <<answers, crossed>>
vars == <<member, status, initiatedBy, joinedCount, state, recording,
          consented, consentCount, request, answers, crossed>>

Status == {"absent", "ringing", "active", "ended"}
State == {"none", "invited", "joined", "left", "declined", "missed"}
Recording == {"none", "pending", "active", "stopped"}
Op == {"join", "leave", "decline", "declined", "counted", "cancel",
       "requestRecording", "answerRecording", "startRecording", "stopRecording", "removeMember"}

Idle == [op |-> "idle", user |-> NoUser, status |-> "absent",
         recording |-> "none"]

Live == status \in {"ringing", "active"}
Joined == {u \in User : state[u] = "joined"}
Rows == {u \in User : state[u] # "none"}

TypeOK ==
    /\ member \subseteq User
    /\ status \in Status
    /\ initiatedBy \in User \cup {NoUser}
    /\ joinedCount \in 0..MESH_PARTICIPANT_CAP
    /\ state \in [User -> State]
    /\ recording \in Recording
    /\ consented \subseteq Rows
    /\ consentCount \in 0..Cardinality(User)
    /\ request \in [Request -> {Idle} \cup
            [op : Op, user : User, status : Status, recording : Recording]]
    /\ answers \in Nat
    /\ crossed \in BOOLEAN

Init ==
    /\ member = User
    /\ status = "absent"
    /\ initiatedBy = NoUser
    /\ joinedCount = 0
    /\ state = [u \in User |-> "none"]
    /\ recording = "none"
    /\ consented = {}
    /\ consentCount = 0
    /\ request = [r \in Request |-> Idle]
    /\ answers = 0
    /\ crossed = FALSE

-----------------------------------------------------------------------------
(* Row locks, constraints and the helpers of participants.ts. *)

\* An uncommitted decline holds its participant row; everyone else still
\* sees the row as invited.
Locked(u) ==
    \E r \in Request : request[r].op \in {"declined", "counted"} /\ request[r].user = u

\* Mutant: the schema without sessions_recording_needs_consent.
CheckConstraintsSeatsOnly ==
    /\ joinedCount' \in 0..MESH_PARTICIPANT_CAP
    /\ consentCount' <= MESH_PARTICIPANT_CAP

\* The CHECKs on rtc.sessions; a transaction that breaks one rolls back.
CheckConstraints ==
    /\ joinedCount' \in 0..MESH_PARTICIPANT_CAP
    /\ consentCount' <= MESH_PARTICIPANT_CAP
    /\ recording' = "active" => consentCount' >= joinedCount'

\* Mutant: every join call takes a seat.
TransitionsAlways(u) == TRUE

\* joinParticipant reports whether this call made the transition.
Transitions(u) == state[u] # "joined"

\* Mutant: the room that empties is missed.
isLastLegOutTooLate(count) == count = 1 /\ Cardinality(Rows) = 2

isLastLegOut(count) == count <= 0 \/ (count = 1 /\ Cardinality(Rows) = 2)

\* The participants as the transaction already changed them are `rows`.
endSessionRow(rows) ==
    /\ \A u \in User : rows[u] = "invited" => ~Locked(u)
    /\ status' = "ended"
    /\ joinedCount' = 0
    /\ state' = [u \in User |-> CASE rows[u] = "invited" -> "missed"
                                  [] rows[u] = "joined" -> "left"
                                  [] OTHER -> rows[u]]

\* A joined leg goes; the last one takes the call with it.
legOut(u) ==
    LET rows == [state EXCEPT ![u] = "left"]
        count == joinedCount - 1
    IN  IF isLastLegOut(count)
        THEN endSessionRow(rows)
        ELSE /\ state' = rows
             /\ joinedCount' = count
             /\ UNCHANGED status

\* The caller's own answer, once.
CanAnswer(u) == u \in Joined \ consented

answerRecordingConsent(u) ==
    /\ consented' = IF CanAnswer(u) THEN consented \cup {u} ELSE consented
    /\ consentCount' = IF CanAnswer(u) THEN consentCount + 1 ELSE consentCount

resetRecordingConsent ==
    /\ \A u \in User : ~Locked(u)
    /\ consented' = {}
    /\ consentCount' = 0

-----------------------------------------------------------------------------
(* Starting a call and reading its row. *)

startSession(u, invited) ==
    /\ status = "absent"
    /\ u \in member
    /\ invited # {} /\ invited \subseteq member \ {u}
    /\ Cardinality(invited) + 1 <= MESH_PARTICIPANT_CAP
    /\ status' = "ringing"
    /\ initiatedBy' = u
    /\ joinedCount' = 1
    /\ state' = [v \in User |-> IF v = u THEN "joined"
                                ELSE IF v \in invited THEN "invited" ELSE "none"]
    /\ UNCHANGED <<member, consentVars, request, history>>

\* What a request returns or throws on before it writes anything.
Proceeds(op, u) ==
    CASE op \in {"join", "leave", "decline"} -> Live
      [] op = "cancel" -> Live /\ u = initiatedBy
      [] op = "requestRecording" ->
            status = "active" /\ recording \notin {"active", "pending"}
      [] op \in {"answerRecording", "startRecording"} -> recording = "pending"
      [] op = "stopRecording" -> recording \in {"active", "pending"}
      [] op = "removeMember" -> TRUE
      [] OTHER -> FALSE

\* loadSession, or the join on participants of leaveAllActiveSessionsFor,
\* which finds no row for a user who is not in the call.
loadSession(r, op, u) ==
    /\ request[r] = Idle
    /\ u \in member
    /\ Proceeds(op, u)
    /\ request' = [request EXCEPT ![r] =
            [op |-> op, user |-> u, recording |-> recording,
             status |-> IF op = "removeMember" /\ u \notin Joined
                        THEN "absent" ELSE status]]
    /\ UNCHANGED <<member, rosterVars, consentVars, initiatedBy, history>>

\* r is about to run the writes of `op` for user u.
Writes(r, op, u) ==
    /\ request[r].op = op
    /\ request[r].user = u
    /\ request' = [request EXCEPT ![r] = Idle]
    /\ UNCHANGED initiatedBy

Fail(r) ==
    /\ request[r] # Idle
    /\ request' = [request EXCEPT ![r] = Idle]
    /\ UNCHANGED <<member, rosterVars, consentVars, initiatedBy, history>>

-----------------------------------------------------------------------------
(* The writes of each operation. *)

\* Mutant: check-then-write.
WinsTheRaceByRead(r, u) == u # initiatedBy /\ request[r].status = "ringing"

\* First answer wins: the status is part of the UPDATE's WHERE clause.
WinsTheRace(r, u) == u # initiatedBy /\ status = "ringing"

joinSession(r, u) ==
    /\ ~Locked(u)
    /\ status' = IF WinsTheRace(r, u) THEN "active" ELSE status
    /\ answers' = IF WinsTheRace(r, u) THEN answers + 1 ELSE answers
    /\ state' = [state EXCEPT ![u] = "joined"]
    /\ joinedCount' = IF Transitions(u) THEN joinedCount + 1 ELSE joinedCount
    /\ recording' = IF Transitions(u) /\ request[r].recording = "active"
                    THEN "pending" ELSE recording
    /\ Writes(r, "join", u)
    /\ UNCHANGED <<member, consented, consentCount, crossed>>

leaveSession(r, u) ==
    /\ IF u \in Joined THEN legOut(u) ELSE UNCHANGED rosterVars
    /\ Writes(r, "leave", u)
    /\ UNCHANGED <<member, consentVars, history>>

\* The decline of an invitation, not yet committed ...
declineInvitation(r, u) ==
    /\ request[r].op = "decline"
    /\ request[r].user = u
    /\ ~Locked(u)
    /\ request' = IF state[u] = "invited"
                  THEN [request EXCEPT ![r].op = "declined"]
                  ELSE [request EXCEPT ![r] = Idle]
    /\ crossed' = (crossed \/ (state[u] = "invited" /\ \E v \in User : Locked(v)))
    /\ UNCHANGED <<member, rosterVars, consentVars, initiatedBy, answers>>

\* Mutant: the caller counts as somebody who may answer.
NobodyOutstanding(rows) ==
    {v \in User : rows[v] \in {"invited", "joined"}} = {}

\* Who is left to answer once `rows` is committed.
NobodyToAnswer(rows) == {v \in User : rows[v] = "invited"} = {}

AfterDecline(u) == [state EXCEPT ![u] = "declined"]

DeclineEnds(r, u) == NobodyToAnswer(AfterDecline(u)) /\ request[r].status = "ringing"

\* ... the count, which finds the call answered or somebody else invited ...
countInvited(r, u) ==
    /\ request[r].op = "declined"
    /\ request[r].user = u
    /\ ~DeclineEnds(r, u)
    /\ request' = [request EXCEPT ![r].op = "counted"]
    /\ UNCHANGED <<member, rosterVars, consentVars, initiatedBy, history>>

\* ... and the commit of that, or of what follows when nobody is left.
declineSession(r, u) ==
    /\ \/ /\ Writes(r, "counted", u)
          /\ state' = AfterDecline(u)
          /\ UNCHANGED <<status, joinedCount>>
       \/ /\ Writes(r, "declined", u)
          /\ DeclineEnds(r, u)
          /\ endSessionRow(AfterDecline(u))
    /\ UNCHANGED <<member, consentVars, history>>

cancelSession(r, u) ==
    /\ endSessionRow(state)
    /\ Writes(r, "cancel", u)
    /\ UNCHANGED <<member, consentVars, history>>

requestRecording(r, u) ==
    /\ recording' = "pending"
    /\ answerRecordingConsent(u)
    /\ Writes(r, "requestRecording", u)
    /\ UNCHANGED <<member, rosterVars, history>>

answerRecording(r, u, agreed) ==
    /\ IF agreed
       THEN answerRecordingConsent(u) /\ UNCHANGED recording
       ELSE IF CanAnswer(u)
            THEN recording' = "none" /\ resetRecordingConsent
            ELSE UNCHANGED consentVars
    /\ Writes(r, "answerRecording", u)
    /\ UNCHANGED <<member, rosterVars, history>>

\* The counters are read again; the rest of what was read is not.
startRecording(r, u) ==
    /\ consentCount >= joinedCount
    /\ recording' = IF recording = "pending" THEN "active" ELSE recording
    /\ Writes(r, "startRecording", u)
    /\ UNCHANGED <<member, rosterVars, consented, consentCount, history>>

stopRecording(r, u) ==
    /\ recording' = IF request[r].recording = "active" THEN "stopped" ELSE "none"
    /\ resetRecordingConsent
    /\ Writes(r, "stopRecording", u)
    /\ UNCHANGED <<member, rosterVars, history>>

removeMember(r, u) ==
    /\ member' = member \ {u}
    /\ IF u \in Joined /\ request[r].status \in {"ringing", "active"}
       THEN legOut(u) ELSE UNCHANGED rosterVars
    /\ Writes(r, "removeMember", u)
    /\ UNCHANGED <<consentVars, history>>

-----------------------------------------------------------------------------

Commit(r, u) ==
    /\ \/ joinSession(r, u)
       \/ leaveSession(r, u)
       \/ declineSession(r, u)
       \/ cancelSession(r, u)
       \/ requestRecording(r, u)
       \/ \E agreed \in BOOLEAN : answerRecording(r, u, agreed)
       \/ startRecording(r, u)
       \/ stopRecording(r, u)
       \/ removeMember(r, u)
    /\ CheckConstraints

Next ==
    \/ \E u \in User, invited \in SUBSET User : startSession(u, invited)
    \/ \E r \in Request, u \in User :
        \/ \E op \in Op : loadSession(r, op, u)
        \/ declineInvitation(r, u)
        \/ countInvited(r, u)
        \/ Commit(r, u)
    \/ \E r \in Request : Fail(r)

Spec == Init /\ [][Next]_vars

-----------------------------------------------------------------------------
(* Properties. *)

\* joined_count is the number of people in the call: second tabs, retries and
\* requests that overtake each other neither add nor lose a seat, so the cap
\* CHECK bounds the room itself (participants.ts:33, migration 0041).
SeatsAreCounted == joinedCount = Cardinality(Joined)

\* A call is answered once, by whoever joins first, however many accept at the
\* same instant; until then its initiator is alone in it (session.service.ts:239
\* and 293).
OneAnswer ==
    /\ status = "ringing" => answers = 0 /\ Joined = {initiatedBy}
    /\ status = "active" => answers = 1
    /\ answers <= 1

\* A ringing call still has somebody to answer it: the last decline ends it,
\* unless it ran beside another one and neither saw the other (declineSession).
RingingHasInvitee ==
    status = "ringing" => crossed \/ \E u \in User : state[u] = "invited"

\* A live call has somebody in it, and one between two people has both once it
\* is answered: the last leg out ends it, so a dead call never holds the
\* channel's one live session (session.service.ts:425, participants.ts:254).
NoDeadCall ==
    /\ Live => Joined # {}
    /\ status = "active" /\ Cardinality(Rows) = 2 => Joined = Rows

\* A recording runs only while there are at least as many consents on record
\* as people in the call (migration 0042, sessions_recording_needs_consent).
\* They need not be the same people: a consent outlives its giver's leaving.
RecordingHasConsents ==
    recording = "active" => Cardinality(Joined) <= Cardinality(consented)
=============================================================================
