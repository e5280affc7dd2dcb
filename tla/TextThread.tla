------------------------------ MODULE TextThread ------------------------------
(***************************************************************************)
(* Text messages between an org and one person                             *)
(* (apps/api/src/telephony/message.service.ts, suppression.ts).            *)
(*                                                                         *)
(* sendSms looks at the opt-out list, passes the spend gate, asks the      *)
(* carrier to send and then writes message and ledger row.  What the       *)
(* person texts arrives by webhook: the message, the unread count and an   *)
(* opt-out (STOP) or opt-back-in (START) commit together, the nonce that   *)
(* marks the webhook as seen commits afterwards.                           *)
(*                                                                         *)
(* The person's texts are numbered in the order they were sent.            *)
(***************************************************************************)
EXTENDS Outbound

CONSTANTS
    Inbound,          \* texts of the person
    Says              \* classifyOptOut of each: stop, start or none

Text == Action

ASSUME TextAssumption ==
    /\ Inbound \subseteq Nat
    /\ Says \in [Inbound -> {"stop", "start", "none"}]

VARIABLES
    texted,      \* what the person has sent
    thread,      \* the thread row exists
    rows,        \* inbound messages stored
    unread,      \* message_threads.unread_count
    suppressed,  \* a live row of comms.suppressions
    counting,    \* what an open receiveSms counted, 0 where none is open
    seen,        \* nonces of inbound texts
    \* History, for the properties.
    stale,       \* the last keyword applied was not the latest one stored
    overlapped   \* two inbound texts were being received at once

inboundVars == <<texted, rows, unread, suppressed, counting, seen, stale,
                 overlapped>>
textVars == <<spendVars, thread, texted, rows, unread, suppressed, counting, seen,
          phase, row, carrier, sent, applied, nonces, crashes, stale,
          overlapped, lost, astray>>

Reported == {"sent", "delivered", "undelivered"}
TextRank(s) == IF s = "sent" THEN 1 ELSE 2

TextTypeOK ==
    /\ SpendTypeOK
    /\ texted \subseteq Inbound
    /\ thread \in BOOLEAN
    /\ rows \subseteq texted
    /\ unread \in Nat
    /\ suppressed \in BOOLEAN
    /\ counting \in [Inbound -> Nat]
    /\ seen \subseteq rows
    /\ phase \in [Text -> {"idle", "cleared", "gated", "accepted", "done", "dead"}]
    /\ row \in [Text -> Reported \cup {"none", "queued"}]
    /\ carrier \in [Text -> Reported \cup {"none", "queued"}]
    /\ sent \in [Text -> SUBSET Reported]
    /\ applied \in [Text -> SUBSET Reported]
    /\ nonces \in [Text -> SUBSET Reported]
    /\ crashes \in 0..CrashBound
    /\ stale \in BOOLEAN /\ overlapped \in BOOLEAN
    /\ lost \subseteq Text /\ astray \subseteq Text

TextInit ==
    /\ SpendInit
    /\ OutboundInit(Text)
    /\ texted = {} /\ thread = FALSE /\ rows = {} /\ unread = 0
    /\ suppressed = FALSE
    /\ counting = [m \in Inbound |-> 0]
    /\ seen = {}
    /\ stale = FALSE /\ overlapped = FALSE

-----------------------------------------------------------------------------
(* sendSms. *)

CheckOptOut(t) ==
    /\ phase[t] = "idle"
    /\ ~suppressed
    /\ Goto(t, "cleared")
    /\ UNCHANGED <<spendVars, thread, inboundVars, row, carrier, hookVars,
                   crashes, lost>>

PassTextGate(t) ==
    /\ phase[t] = "cleared"
    /\ checkOutboundAllowed(t)
    /\ Goto(t, "gated")
    /\ UNCHANGED <<active, prior, ledger, warned, overtaken, thread,
                   inboundVars, row, carrier, hookVars, crashes, lost>>

\* A refusal, and an answer that does not come back, end the request.
SendText(t) ==
    /\ phase[t] = "gated"
    /\ \/ /\ carrier' = [carrier EXCEPT ![t] = "queued"]
          /\ \/ Goto(t, "accepted") /\ UNCHANGED lost
             \/ Goto(t, "done") /\ lost' = lost \cup {t}
       \/ Goto(t, "done") /\ UNCHANGED <<carrier, lost>>
    /\ UNCHANGED <<spendVars, thread, inboundVars, row, hookVars, crashes>>

\* Whoever stores the first message holds the thread's key until it commits.
ThreadIsFree == thread \/ \A m \in Inbound : counting[m] = 0

RecordUnpriced(t) ==
    /\ phase[t] = "accepted"
    /\ ThreadIsFree
    /\ thread' = TRUE
    /\ row' = [row EXCEPT ![t] = "queued"]
    /\ Goto(t, "done")
    /\ UNCHANGED <<spendVars, inboundVars, carrier, hookVars, crashes, lost>>

\* Thread, message and ledger row; the price is the carrier's, per segment.
RecordText(t) ==
    /\ phase[t] = "accepted"
    /\ ThreadIsFree
    /\ thread' = TRUE
    /\ row' = [row EXCEPT ![t] = "queued"]
    /\ recordSpend(t)
    /\ Goto(t, "done")
    /\ UNCHANGED <<active, prior, inboundVars, carrier, hookVars, crashes,
                   lost>>

TextRequestDies(t) ==
    /\ phase[t] \in {"cleared", "gated", "accepted"}
    /\ crashes < CrashBound
    /\ crashes' = crashes + 1
    /\ Goto(t, "dead")
    /\ UNCHANGED <<spendVars, thread, inboundVars, row, carrier, hookVars,
                   lost>>

FreezeTexts ==
    /\ syncSubaccountStatus
    /\ UNCHANGED <<thread, inboundVars, phase, row, carrier, hookVars,
                   crashes, lost>>

-----------------------------------------------------------------------------
(* The carrier reports on outbound texts. *)

TextProgress(t) ==
    /\ \E s \in Reported :
          /\ <<carrier[t], s>> \in
                {<<"queued", "sent">>, <<"sent", "delivered">>,
                 <<"sent", "undelivered">>}
          /\ Report(t, s)
    /\ UNCHANGED <<spendVars, thread, inboundVars, phase, row, applied, nonces,
                   astray, crashes, lost>>

\* An unknown sid changes nothing and is answered like any other.
applyMessageStatus(t, s) ==
    /\ s \in sent[t] \ nonces[t]
    /\ row' = IF row[t] # "none" THEN [row EXCEPT ![t] = s] ELSE row
    /\ applied' = [applied EXCEPT ![t] = @ \cup {s}]
    /\ astray' = IF row[t] = "none" \/ \E r \in applied[t] : TextRank(r) > TextRank(s)
                 THEN astray \cup {t} ELSE astray
    /\ UNCHANGED <<spendVars, thread, inboundVars, phase, carrier, sent,
                   nonces, crashes, lost>>

commitStatusNonce(t, s) ==
    /\ MarkSeen(t, s)
    /\ UNCHANGED <<spendVars, thread, inboundVars, phase, row, carrier, sent,
                   applied, astray, crashes, lost>>

-----------------------------------------------------------------------------
(* receiveSms. *)

outboundVars == <<spendVars, phase, row, carrier, hookVars, crashes, lost>>

PersonTexts(m) ==
    /\ m \notin texted
    /\ \A n \in Inbound : n < m => n \in texted
    /\ texted' = texted \cup {m}
    /\ UNCHANGED <<outboundVars, thread, rows, unread, suppressed, counting,
                   seen, stale, overlapped>>

\* The transaction inserts the message and counts what it can see: not what
\* another one has not committed.
StoreAndCount(m) ==
    /\ m \in texted \ seen
    /\ counting[m] = 0
    /\ ThreadIsFree
    /\ counting' = [counting EXCEPT ![m] = Cardinality(rows \cup {m})]
    /\ overlapped' = (overlapped \/ \E n \in Inbound : counting[n] # 0)
    /\ UNCHANGED <<outboundVars, thread, texted, rows, unread, suppressed,
                   seen, stale>>

Keywords(S) == {m \in S : Says[m] # "none"}

OptOutForever(m) == suppressed \/ Says[m] = "stop"

\* A text without a keyword leaves the list alone.
OptOut(m) ==
    CASE Says[m] = "stop" -> TRUE
      [] Says[m] = "start" -> FALSE
      [] Says[m] = "none" -> suppressed

CountLate(m) == counting[m] - 1

Count(m) == counting[m]

\* ... then it updates the thread, whose row lock it holds to the end, and the
\* opt-out list.  A text stored before is a no-op; what follows it is not.
CommitText(m) ==
    /\ counting[m] # 0
    /\ thread' = TRUE
    /\ rows' = rows \cup {m}
    /\ unread' = Count(m)
    /\ suppressed' = OptOut(m)
    /\ stale' = IF Says[m] = "none" THEN stale
                ELSE \E n \in Keywords(rows) : n > m
    /\ counting' = [counting EXCEPT ![m] = 0]
    /\ UNCHANGED <<outboundVars, texted, seen, overlapped>>

commitTextNonce(m) ==
    /\ m \in rows \ seen
    /\ seen' = seen \cup {m}
    /\ UNCHANGED <<outboundVars, thread, texted, rows, unread, suppressed,
                   counting, stale, overlapped>>

-----------------------------------------------------------------------------
SendStep(t) ==
    \/ CheckOptOut(t)
    \/ PassTextGate(t)
    \/ SendText(t)
    \/ RecordText(t)

ReceiveStep(m) == StoreAndCount(m) \/ CommitText(m) \/ commitTextNonce(m)

TextNext ==
    \/ FreezeTexts
    \/ \E t \in Text : SendStep(t)
    \/ \E t \in Text : TextRequestDies(t)
    \/ \E t \in Text : TextProgress(t)
    \/ \E t \in Text, s \in Reported : applyMessageStatus(t, s)
    \/ \E t \in Text, s \in Reported : commitStatusNonce(t, s)
    \/ \E m \in Inbound : PersonTexts(m)
    \/ \E m \in Inbound : ReceiveStep(m)

TextSpec == TextInit /\ [][TextNext]_textVars

-----------------------------------------------------------------------------
(* Properties. *)

\* Once every text has been stored, the person is opted out exactly if STOP was
\* their last word ("honored automatically and permanently", migration 0034),
\* unless that word was followed by an older one, delivered late or again.
OptOutStands ==
    Keywords(texted) \subseteq rows /\ ~stale =>
        suppressed = \E m \in Keywords(texted) :
                        Says[m] = "stop" /\ \A n \in Keywords(texted) : n <= m

\* "a replay lands as a no-op" (receiveSms): the opt-out list changes only when
\* a text is stored for the first time.
ReplayIsNoOp == [][suppressed' # suppressed => rows' # rows]_textVars

\* "Recomputed, not incremented": the unread count is the number of inbound
\* messages, unless two of them were received at once and neither transaction
\* saw the other's.
UnreadNeedsOverlap == unread = Cardinality(rows) \/ overlapped

\* Every text the carrier took is in the thread and in the ledger, and nothing
\* else is, unless the request did not live to write it down; once the
\* carrier's reports are in, its status is the carrier's, unless one of them
\* came out of order or before the row it is matched by.
ThreadFollowsCarrier ==
    \A t \in Text \ lost :
        /\ row[t] # "none" <=> ledger[t] = "held"
        /\ phase[t] = "done" => (row[t] # "none" <=> carrier[t] # "none")
        /\ phase[t] = "done" /\ sent[t] \subseteq nonces[t] /\ t \notin astray
              => row[t] = carrier[t]
=============================================================================
