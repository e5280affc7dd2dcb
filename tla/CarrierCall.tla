------------------------------ MODULE CarrierCall ------------------------------
(***************************************************************************)
(* Outbound telephone calls (apps/api/src/telephony): a request passes the *)
(* spend gate, books the call and its price, asks the carrier to dial and  *)
(* attaches the carrier's id, each in a step of its own; the carrier       *)
(* reports progress by webhooks that arrive when they like; and a sweep    *)
(* fetches the recording (recording-ingest.ts).                            *)
(*                                                                         *)
(* A webhook's effect and the nonce that marks it as seen are separate     *)
(* transactions, so the carrier may deliver it again in between.  A        *)
(* delivery checked before the nonce and applied after it is a delivery    *)
(* whose nonce came later, and is not modelled separately.                 *)
(***************************************************************************)
EXTENDS Outbound

CONSTANTS
    Recorded,         \* calls placed with `record`
    MustAnnounce,     \* those whose consent rule demands an announcement
    Sweeper,          \* processes running the recording sweep
    BATCH,
    MAX_ATTEMPTS

Call == Action

ASSUME CallAssumption ==
    /\ Call \subseteq Nat
    /\ MustAnnounce \subseteq Recorded /\ Recorded \subseteq Call
    /\ BATCH \in Nat \ {0} /\ MAX_ATTEMPTS \in Nat \ {0}

VARIABLES
    hasSid,      \* provider_sid is attached
    played,      \* calls with announcement_played_at
    recording,   \* recordings.status, "none" without a row
    attempts,    \* recordings.attempts
    pass,        \* recordings a sweep has claimed and still has to handle
    fetched,     \* how the fetch of the recording in hand went
    \* History, for the properties.
    unreleased,  \* refused, and the compensation failed
    shared,      \* recordings two sweeps held at once
    dropped      \* recordings a sweep held when it died

requestVars == <<phase, row, hasSid>>
sweepVars == <<recording, attempts, pass, fetched, shared, dropped>>
vars == <<spendVars, phase, row, hasSid, played, carrier, sent, applied,
          nonces, recording, attempts, pass, fetched, crashes, lost,
          unreleased, astray, shared, dropped>>

Terminal == {"completed", "no_answer"}
CarrierStatus == {"queued", "ringing", "in_progress"} \cup Terminal

\* The order in which a call passes through its statuses.
Rank(s) ==
    CASE s = "queued" -> 0
      [] s = "ringing" -> 1
      [] s = "in_progress" -> 2
      [] s \in Terminal -> 3

TypeOK ==
    /\ SpendTypeOK
    /\ phase \in [Call -> {"idle", "gated", "booked", "accepted", "refused",
                           "done", "dead"}]
    /\ row \in [Call -> CarrierStatus \cup {"none", "failed"}]
    /\ hasSid \in [Call -> BOOLEAN]
    /\ played \subseteq MustAnnounce
    /\ carrier \in [Call -> CarrierStatus \cup {"none"}]
    /\ sent \in [Call -> SUBSET CarrierStatus]
    /\ applied \in [Call -> SUBSET CarrierStatus]
    /\ nonces \in [Call -> SUBSET CarrierStatus]
    /\ recording \in [Recorded -> {"none", "pending", "stored", "failed"}]
    /\ attempts \in [Recorded -> 0..MAX_ATTEMPTS]
    /\ pass \in [Sweeper -> SUBSET Recorded]
    /\ fetched \in [Sweeper -> {"none", "stored", "failed"}]
    /\ crashes \in 0..CrashBound
    /\ lost \subseteq Call /\ unreleased \subseteq Call /\ astray \subseteq Call
    /\ shared \subseteq Recorded /\ dropped \subseteq Recorded

Init ==
    /\ SpendInit
    /\ OutboundInit(Call)
    /\ hasSid = [c \in Call |-> FALSE]
    /\ played = {}
    /\ recording = [c \in Recorded |-> "none"]
    /\ attempts = [c \in Recorded |-> 0]
    /\ pass = [w \in Sweeper |-> {}]
    /\ fetched = [w \in Sweeper |-> "none"]
    /\ unreleased = {} /\ shared = {} /\ dropped = {}

-----------------------------------------------------------------------------
(* placeCall. *)

PassGate(c) ==
    /\ phase[c] = "idle"
    /\ checkOutboundAllowed(c)
    /\ Goto(c, "gated")
    /\ UNCHANGED <<active, prior, ledger, warned, overtaken, row, hasSid,
                   played, carrier, hookVars, sweepVars, crashes, lost,
                   unreleased>>

\* "the charge lands before the carrier is told anything".
BookCall(c) ==
    /\ phase[c] = "gated"
    /\ recordSpend(c)
    /\ row' = [row EXCEPT ![c] = "queued"]
    /\ Goto(c, "booked")
    /\ UNCHANGED <<active, prior, hasSid, played, carrier, hookVars,
                   sweepVars, crashes, lost, unreleased>>

\* The carrier takes the call or refuses it; an answer that does not come back
\* looks like a refusal.
Dial(c) ==
    /\ phase[c] = "booked"
    /\ \/ /\ carrier' = [carrier EXCEPT ![c] = "queued"]
          /\ \/ Goto(c, "accepted") /\ UNCHANGED lost
             \/ Goto(c, "refused") /\ lost' = lost \cup {c}
       \/ Goto(c, "refused") /\ UNCHANGED <<carrier, lost>>
    /\ UNCHANGED <<spendVars, row, hasSid, played, hookVars, sweepVars,
                   crashes, unreleased>>

AttachStatusOnly(c) ==
    /\ phase[c] = "accepted"
    /\ row' = [row EXCEPT ![c] = "queued"]
    /\ Goto(c, "done")
    /\ UNCHANGED <<spendVars, hasSid, played, carrier, hookVars, sweepVars,
                   crashes, lost, unreleased>>

\* The status the carrier answered with, and its id.
AttachSid(c) ==
    /\ phase[c] = "accepted"
    /\ row' = [row EXCEPT ![c] = "queued"]
    /\ hasSid' = [hasSid EXCEPT ![c] = TRUE]
    /\ Goto(c, "done")
    /\ UNCHANGED <<spendVars, played, carrier, hookVars, sweepVars, crashes,
                   lost, unreleased>>

releaseCallOnly(c) ==
    /\ phase[c] = "refused"
    /\ Goto(c, "done")
    /\ \/ row' = [row EXCEPT ![c] = "failed"] /\ UNCHANGED unreleased
       \/ unreleased' = unreleased \cup {c} /\ UNCHANGED row
    /\ UNCHANGED <<spendVars, hasSid, played, carrier, hookVars, sweepVars,
                   crashes, lost>>

\* Best effort: where the transaction fails, the error is swallowed.
releaseUnplacedCall(c) ==
    /\ phase[c] = "refused"
    /\ Goto(c, "done")
    /\ \/ /\ row' = [row EXCEPT ![c] = "failed"]
          /\ ledger' = [ledger EXCEPT ![c] = "released"]
          /\ UNCHANGED unreleased
       \/ /\ unreleased' = unreleased \cup {c}
          /\ UNCHANGED <<row, ledger>>
    /\ UNCHANGED <<active, prior, warned, saw, overtaken, hasSid, played,
                   carrier, hookVars, sweepVars, crashes, lost>>

RequestDies(c) ==
    /\ phase[c] \in {"gated", "booked", "accepted", "refused"}
    /\ crashes < CrashBound
    /\ crashes' = crashes + 1
    /\ Goto(c, "dead")
    /\ UNCHANGED <<spendVars, row, hasSid, played, carrier, hookVars,
                   sweepVars, lost, unreleased>>

Freeze ==
    /\ syncSubaccountStatus
    /\ UNCHANGED <<requestVars, played, carrier, hookVars, sweepVars, crashes,
                   lost, unreleased>>

-----------------------------------------------------------------------------
(* The carrier and its webhooks. *)

Moves == {<<"queued", "ringing">>, <<"ringing", "in_progress">>,
          <<"in_progress", "completed">>, <<"queued", "no_answer">>,
          <<"ringing", "no_answer">>}

\* A call moves on at the carrier, which reports it.
Progress(c) ==
    /\ \E s \in CarrierStatus :
          /\ <<carrier[c], s>> \in Moves
          /\ Report(c, s)
    /\ UNCHANGED <<spendVars, requestVars, played, applied, nonces, astray,
                   sweepVars, crashes, lost, unreleased>>

Overtaken(c, s) == \E t \in applied[c] : Rank(t) > Rank(s)

\* An unknown sid changes nothing and is answered like any other.
applyCallStatus(c, s) ==
    /\ s \in sent[c] \ nonces[c]
    /\ row' = IF hasSid[c] THEN [row EXCEPT ![c] = s] ELSE row
    /\ applied' = [applied EXCEPT ![c] = @ \cup {s}]
    /\ astray' = IF phase[c] # "done" \/ Overtaken(c, s) THEN astray \cup {c}
                                                         ELSE astray
    /\ UNCHANGED <<spendVars, phase, hasSid, played, carrier, sent, nonces,
                   sweepVars, crashes, lost, unreleased>>

commitWebhookNonce(c, s) ==
    /\ MarkSeen(c, s)
    /\ UNCHANGED <<spendVars, requestVars, played, carrier, sent, applied,
                   astray, sweepVars, crashes, lost, unreleased>>

\* Once recording has begun, a later timestamp would break the constraint.
markAnnouncementPlayed(c) ==
    /\ carrier[c] \in {"in_progress", "completed"}
    /\ recording[c] = "none"
    /\ played' = played \cup {c}
    /\ UNCHANGED <<spendVars, requestVars, carrier, hookVars, sweepVars,
                   crashes, lost, unreleased>>

\* calls_recording_after_announcement refuses it where an announcement was
\* required and none is known to have played.
registerRecording(c) ==
    /\ carrier[c] = "completed"
    /\ recording[c] = "none"
    /\ c \in MustAnnounce => c \in played
    /\ recording' = [recording EXCEPT ![c] = "pending"]
    /\ UNCHANGED <<spendVars, requestVars, played, carrier, hookVars, attempts,
                   pass, fetched, crashes, lost, unreleased, shared, dropped>>

-----------------------------------------------------------------------------
(* ingestPendingRecordings. *)

UnclaimedAny ==
    {c \in Recorded : recording[c] # "none" /\ attempts[c] < MAX_ATTEMPTS}

Unclaimed == {c \in Recorded : recording[c] = "pending" /\ attempts[c] < MAX_ATTEMPTS}

Candidates ==
    {c \in Unclaimed : Cardinality({d \in Unclaimed : d < c}) < BATCH}

\* One transaction; the overlap guard keeps a process to one pass at a time.
claimPending(w) ==
    /\ pass[w] = {}
    /\ Candidates # {}
    /\ attempts' = [c \in Recorded |-> IF c \in Candidates THEN attempts[c] + 1
                                                           ELSE attempts[c]]
    /\ pass' = [pass EXCEPT ![w] = Candidates]
    /\ shared' = shared \cup {c \in Candidates :
                                 \E v \in Sweeper \ {w} : c \in pass[v]}
    /\ UNCHANGED <<spendVars, requestVars, played, carrier, hookVars,
                   recording, fetched, crashes, lost, unreleased, dropped>>

\* The download and the write to object storage.
FetchAudio(w) ==
    /\ pass[w] # {}
    /\ fetched[w] = "none"
    /\ \E result \in {"stored", "failed"} : fetched' = [fetched EXCEPT ![w] = result]
    /\ UNCHANGED <<spendVars, requestVars, played, carrier, hookVars,
                   recording, attempts, pass, crashes, lost, unreleased,
                   shared, dropped>>

MarkedLate(c, result) ==
    CASE result = "stored" -> "stored"
      [] result = "failed" /\ attempts[c] > MAX_ATTEMPTS -> "failed"
      [] OTHER -> recording[c]

\* markStored, or markFailed: it gives up by the attempts the row has now.
\* Neither looks at the status.
Marked(c, result) ==
    CASE result = "stored" -> "stored"
      [] result = "failed" /\ attempts[c] >= MAX_ATTEMPTS -> "failed"
      [] OTHER -> recording[c]

markRecording(w) ==
    /\ fetched[w] # "none"
    /\ \E c \in pass[w] :
          /\ \A d \in pass[w] : c <= d
          /\ recording' = [recording EXCEPT ![c] = Marked(c, fetched[w])]
          /\ pass' = [pass EXCEPT ![w] = @ \ {c}]
    /\ fetched' = [fetched EXCEPT ![w] = "none"]
    /\ UNCHANGED <<spendVars, requestVars, played, carrier, hookVars, attempts,
                   crashes, lost, unreleased, shared, dropped>>

SweeperDies(w) ==
    /\ pass[w] # {}
    /\ crashes < CrashBound
    /\ crashes' = crashes + 1
    /\ dropped' = dropped \cup pass[w]
    /\ pass' = [pass EXCEPT ![w] = {}]
    /\ fetched' = [fetched EXCEPT ![w] = "none"]
    /\ UNCHANGED <<spendVars, requestVars, played, carrier, hookVars,
                   recording, attempts, lost, unreleased, shared>>

-----------------------------------------------------------------------------
PlaceStep(c) ==
    \/ PassGate(c)
    \/ BookCall(c)
    \/ Dial(c)
    \/ AttachSid(c)
    \/ releaseUnplacedCall(c)

SweepStep(w) == claimPending(w) \/ FetchAudio(w) \/ markRecording(w)

Next ==
    \/ Freeze
    \/ \E c \in Call : PlaceStep(c)
    \/ \E c \in Call : RequestDies(c)
    \/ \E c \in Call : Progress(c)
    \/ \E c \in Call, s \in CarrierStatus : applyCallStatus(c, s)
    \/ \E c \in Call, s \in CarrierStatus : commitWebhookNonce(c, s)
    \/ \E c \in MustAnnounce : markAnnouncementPlayed(c)
    \/ \E c \in Recorded : registerRecording(c)
    \/ \E w \in Sweeper : SweepStep(w)
    \/ \E w \in Sweeper : SweeperDies(w)

Spec == Init /\ [][Next]_vars

-----------------------------------------------------------------------------
(* Properties. *)

\* "a crash mid-flight can never leave a placed call unbilled" (placeCall),
\* nor does a call that was never placed keep the org's money, but where the
\* carrier's answer was lost, or the release failed or died.
LedgerFollowsCarrier ==
    \A c \in Call \ lost :
        /\ carrier[c] # "none" => ledger[c] = "held"
        /\ phase[c] = "done" /\ carrier[c] = "none" =>
              ledger[c] = "released" \/ c \in unreleased

\* The request is over and every callback the carrier sent has been seen.
Quiet(c) == phase[c] = "done" /\ sent[c] \subseteq nonces[c]

\* A call's row ends as the carrier has it, unless a callback came out of
\* order or before the sid it is matched by (applyCallStatus), or the row was
\* written off with the answer.
RowFollowsCarrier ==
    \A c \in Call \ (lost \cup astray) :
        Quiet(c) /\ carrier[c] # "none" => row[c] = carrier[c]

\* A recording that is stored stays so, unless two sweeps held it at once:
\* the claim does not outlast its own transaction (claimPending).
StoredIsKept ==
    [][\A c \in Recorded \ shared :
          recording[c] = "stored" => recording'[c] = "stored"]_vars

\* A pending recording nobody will fetch again is one a sweep died with:
\* `failed` is "a terminal state a human can query for, not a silent drop".
StrandedNeedsDeath ==
    \A c \in Recorded \ dropped :
        recording[c] = "pending" /\ attempts[c] = MAX_ATTEMPTS =>
            \E w \in Sweeper : c \in pass[w]
=============================================================================
