--------------------------- MODULE WebhookDelivery ---------------------------
(***************************************************************************)
(* Outbound webhooks: the endpoints an org registers                       *)
(* (apps/api/src/automation/webhook.service.ts), the delivery queue        *)
(* (migration 0049) and the loop that drains it                            *)
(* (apps/worker/src/webhooks/delivery.ts).                                 *)
(*                                                                         *)
(* A tick claims due rows with a compare-and-set on `attempts`, then works *)
(* them one by one: load the endpoint, make the request, mark the outcome, *)
(* and count a delivery that died against the endpoint.  These are         *)
(* separate transactions, so everything else may happen between them; the  *)
(* row stays `pending` and due all the while.                              *)
(*                                                                         *)
(* A delivery stands for one (webhook, event) pair, the unique key of the  *)
(* queue.  Time is the set of rows whose next_attempt_at has passed.       *)
(***************************************************************************)
EXTENDS Integers, FiniteSets

CONSTANTS
    Webhook,
    Delivery,              \* queue rows, numbered by created_at
    HookOf,                \* the endpoint of a row
    Worker,                \* processes running the delivery loop
    MAX_ATTEMPTS,
    DISABLE_AFTER_FAILURES,
    Batch,
    CrashBound             \* bound: worker deaths

ASSUME WebhookAssumption ==
    /\ Delivery \subseteq Nat
    /\ HookOf \in [Delivery -> Webhook]
    /\ IsFiniteSet(Worker)
    /\ MAX_ATTEMPTS \in Nat \ {0}
    /\ DISABLE_AFTER_FAILURES \in Nat \ {0}
    /\ Batch \in Nat \ {0}
    /\ CrashBound \in Nat

VARIABLES
    hook,        \* unborn, enabled, disabled or deleted
    failures,    \* webhooks.failure_count
    checked,     \* deliveries an enqueue has seen an enabled endpoint for
    status,      \* status of a row, "none" where there is no row
    attempts,
    due,         \* rows whose next_attempt_at has passed
    phase,       \* where a worker is in its tick
    batch,       \* rows the worker still has to handle
    token,       \* the attempt number its claim of a row gave it
    outcome,     \* outcome of the row in hand
    counted,     \* failure_count as registerFailureAndMaybeDisable read it
    crashes,
    \* History, for the properties.
    sent,        \* requests made for a delivery
    exhausted,   \* deliveries whose last attempt failed
    refused,     \* deliveries attempted at a missing or disabled endpoint
    toll         \* deliveries of an endpoint that died since it was enabled

apiVars == <<hook, failures, checked>>
rowVars == <<status, attempts, due>>
workerVars == <<phase, batch, token, outcome, counted>>
history == <<sent, exhausted, refused, toll>>
vars == <<hook, failures, checked, status, attempts, due, phase, batch, token,
          outcome, counted, crashes, sent, exhausted, refused, toll>>

Status == {"none", "pending", "succeeded", "dead"}
Phase == {"idle", "claim", "load", "request", "mark", "count", "disable"}
Outcome == {"none", "succeeded", "failed", "endpoint_disabled"}

TypeOK ==
    /\ hook \in [Webhook -> {"unborn", "enabled", "disabled", "deleted"}]
    /\ failures \in [Webhook -> Nat]
    /\ checked \subseteq Delivery
    /\ status \in [Delivery -> Status]
    /\ attempts \in [Delivery -> 0..MAX_ATTEMPTS]
    /\ due \subseteq Delivery
    /\ phase \in [Worker -> Phase]
    /\ batch \in [Worker -> SUBSET Delivery]
    /\ token \in [Worker -> [Delivery -> 0..MAX_ATTEMPTS]]
    /\ outcome \in [Worker -> Outcome]
    /\ counted \in [Worker -> Nat]
    /\ crashes \in Nat
    /\ sent \in [Delivery -> Nat]
    /\ exhausted \subseteq Delivery
    /\ refused \subseteq Delivery
    /\ toll \in [Webhook -> Nat]
    /\ \A w \in Worker : phase[w] = "idle" <=> batch[w] = {}

Init ==
    /\ hook = [h \in Webhook |-> "unborn"]
    /\ failures = [h \in Webhook |-> 0]
    /\ checked = {}
    /\ status = [d \in Delivery |-> "none"]
    /\ attempts = [d \in Delivery |-> 0]
    /\ due = {}
    /\ phase = [w \in Worker |-> "idle"]
    /\ batch = [w \in Worker |-> {}]
    /\ token = [w \in Worker |-> [d \in Delivery |-> 0]]
    /\ outcome = [w \in Worker |-> "none"]
    /\ counted = [w \in Worker |-> 0]
    /\ crashes = 0
    /\ sent = [d \in Delivery |-> 0]
    /\ exhausted = {}
    /\ refused = {}
    /\ toll = [h \in Webhook |-> 0]

-----------------------------------------------------------------------------
(* The API. *)

createWebhook(h) ==
    /\ hook[h] = "unborn"
    /\ hook' = [hook EXCEPT ![h] = "enabled"]
    /\ UNCHANGED <<failures, checked, rowVars, workerVars, crashes, history>>

Exists(h) == hook[h] \in {"enabled", "disabled"}

\* Enabling also forgives: failure_count goes back to 0.
setWebhookEnabled(h, enabled) ==
    /\ Exists(h)
    /\ hook' = [hook EXCEPT ![h] = IF enabled THEN "enabled" ELSE "disabled"]
    /\ failures' = [failures EXCEPT ![h] = IF enabled THEN 0 ELSE @]
    /\ toll' = [toll EXCEPT ![h] = IF enabled THEN 0 ELSE @]
    /\ UNCHANGED <<checked, rowVars, workerVars, crashes, sent, exhausted,
                   refused>>

\* ON DELETE CASCADE takes the queued rows with it.
deleteWebhook(h) ==
    /\ Exists(h)
    /\ hook' = [hook EXCEPT ![h] = "deleted"]
    /\ status' = [d \in Delivery |-> IF HookOf[d] = h THEN "none" ELSE status[d]]
    /\ due' = {d \in due : HookOf[d] # h}
    /\ UNCHANGED <<failures, checked, attempts, workerVars, crashes, history>>

\* enqueueWebhookDelivery refuses a disabled endpoint; the row is inserted by
\* a later statement.
CheckEndpoint(d) ==
    /\ hook[HookOf[d]] = "enabled"
    /\ checked' = checked \cup {d}
    /\ d \notin checked
    /\ UNCHANGED <<hook, failures, rowVars, workerVars, crashes, history>>

\* The insert: a no-op where the row exists (dedupe key), refused by the
\* foreign key where the endpoint is gone.
InsertDelivery(d) ==
    /\ d \in checked
    /\ checked' = checked \ {d}
    /\ IF status[d] = "none" /\ Exists(HookOf[d])
       THEN /\ status' = [status EXCEPT ![d] = "pending"]
            /\ due' = due \cup {d}
       ELSE UNCHANGED <<status, due>>
    /\ UNCHANGED <<hook, failures, attempts, workerVars, crashes, history>>

-----------------------------------------------------------------------------
(* The delivery loop. *)

DueLastAttemptLost ==
    {d \in due : status[d] = "pending" /\ attempts[d] < MAX_ATTEMPTS - 1}

Due == {d \in due : status[d] = "pending" /\ attempts[d] < MAX_ATTEMPTS}

\* The candidates: `ORDER BY created_at LIMIT batch`.
Candidates ==
    {d \in Due : Cardinality({c \in Due : c < d}) < Batch}

InHand(w, d) == d \in batch[w] /\ \A c \in batch[w] : d <= c

selectDue(w) ==
    /\ phase[w] = "idle"
    /\ Due # {}
    /\ phase' = [phase EXCEPT ![w] = "claim"]
    /\ batch' = [batch EXCEPT ![w] = Candidates]
    /\ token' = [token EXCEPT ![w] = attempts]
    /\ UNCHANGED <<apiVars, rowVars, outcome, counted, crashes, history>>

WonUnchecked(w) == {d \in batch[w] : status[d] = "pending"}

\* The compare-and-set: nobody claimed or settled the row since the select.
Won(w) == {d \in batch[w] : attempts[d] = token[w][d] /\ status[d] = "pending"}

\* The conditional updates commit together.  A row's update is decided under
\* its row lock, held to the commit.
claimDue(w) ==
    /\ phase[w] = "claim"
    /\ attempts' = [d \in Delivery |-> IF d \in Won(w) THEN token[w][d] + 1
                                                       ELSE attempts[d]]
    /\ token' = [token EXCEPT ![w] =
                    [d \in Delivery |-> IF d \in Won(w) THEN token[w][d] + 1
                                                        ELSE token[w][d]]]
    /\ batch' = [batch EXCEPT ![w] = Won(w)]
    /\ phase' = [phase EXCEPT ![w] = IF Won(w) = {} THEN "idle" ELSE "load"]
    /\ UNCHANGED <<apiVars, status, due, outcome, counted, crashes, history>>

\* deliverOne reads the endpoint and the row; either may be gone.
LoadEndpoint(w) ==
    /\ phase[w] = "load"
    /\ \E d \in Delivery :
          /\ InHand(w, d)
          /\ IF hook[HookOf[d]] = "enabled" /\ status[d] # "none"
             THEN /\ phase' = [phase EXCEPT ![w] = "request"]
                  /\ UNCHANGED <<outcome, refused>>
             ELSE /\ phase' = [phase EXCEPT ![w] = "mark"]
                  /\ outcome' = [outcome EXCEPT ![w] = "endpoint_disabled"]
                  /\ refused' = refused \cup {d}
    /\ UNCHANGED <<apiVars, rowVars, batch, token, counted, crashes, sent,
                   exhausted, toll>>

\* A failure may come before the request (a key that does not decrypt, an
\* address that is refused), or after it was delivered (a timeout).
MakeRequest(w) ==
    /\ phase[w] = "request"
    /\ \E d \in Delivery, reached \in BOOLEAN, result \in {"succeeded", "failed"} :
          /\ InHand(w, d)
          /\ result = "succeeded" => reached
          /\ sent' = [sent EXCEPT ![d] = IF reached THEN @ + 1 ELSE @]
          /\ outcome' = [outcome EXCEPT ![w] = result]
    /\ phase' = [phase EXCEPT ![w] = "mark"]
    /\ UNCHANGED <<apiVars, rowVars, batch, token, counted, crashes, exhausted,
                   refused, toll>>

\* The row in hand is done with.
NextRow(w, d) ==
    /\ batch' = [batch EXCEPT ![w] = @ \ {d}]
    /\ phase' = [phase EXCEPT ![w] = IF batch[w] = {d} THEN "idle" ELSE "load"]

LastAttemptEarly(w, d) == token[w][d] >= MAX_ATTEMPTS - 1

LastAttempt(w, d) == token[w][d] >= MAX_ATTEMPTS

\* The status update is `WHERE id = ...` and nothing else.
Settle(w, d) ==
    CASE outcome[w] = "succeeded" -> "succeeded"
      [] outcome[w] = "endpoint_disabled" \/ LastAttempt(w, d) -> "dead"
      [] OTHER -> "pending"

markOutcomeCountingAll(w) ==
    /\ phase[w] = "mark"
    /\ \E d \in Delivery :
          /\ InHand(w, d)
          /\ status' = [status EXCEPT ![d] = IF @ = "none" THEN @
                                                           ELSE Settle(w, d)]
          /\ due' = IF Settle(w, d) = "pending" THEN due \ {d} ELSE due
          /\ IF outcome[w] = "failed"
             THEN /\ phase' = [phase EXCEPT ![w] = "count"]
                  /\ UNCHANGED batch
             ELSE NextRow(w, d)
          /\ exhausted' = IF outcome[w] = "failed" /\ LastAttempt(w, d)
                          THEN exhausted \cup {d} ELSE exhausted
    /\ outcome' = [outcome EXCEPT ![w] = "none"]
    /\ UNCHANGED <<apiVars, attempts, token, counted, crashes, sent, refused,
                   toll>>

\* A failed attempt leaves the row pending until its backoff has passed; only
\* the last one is counted against the endpoint.
markOutcome(w) ==
    /\ phase[w] = "mark"
    /\ \E d \in Delivery :
          LET died == outcome[w] = "failed" /\ LastAttempt(w, d)
              h == HookOf[d]
          IN  /\ InHand(w, d)
              /\ status' = [status EXCEPT ![d] = IF @ = "none" THEN @
                                                               ELSE Settle(w, d)]
              /\ due' = IF Settle(w, d) = "pending" THEN due \ {d} ELSE due
              /\ IF died
                 THEN /\ phase' = [phase EXCEPT ![w] = "count"]
                      /\ UNCHANGED batch
                 ELSE NextRow(w, d)
              /\ exhausted' = IF died THEN exhausted \cup {d} ELSE exhausted
              /\ toll' = [toll EXCEPT ![h] = IF died THEN @ + 1 ELSE @]
    /\ outcome' = [outcome EXCEPT ![w] = "none"]
    /\ UNCHANGED <<apiVars, attempts, token, counted, crashes, sent, refused>>

\* registerFailureAndMaybeDisable reads failure_count...
ReadFailures(w) ==
    /\ phase[w] = "count"
    /\ \E d \in Delivery :
          /\ InHand(w, d)
          /\ IF hook[HookOf[d]] = "enabled"
             THEN /\ phase' = [phase EXCEPT ![w] = "disable"]
                  /\ counted' = [counted EXCEPT ![w] = failures[HookOf[d]]]
                  /\ UNCHANGED batch
             ELSE NextRow(w, d) /\ UNCHANGED counted
    /\ UNCHANGED <<apiVars, rowVars, token, outcome, crashes, history>>

ThresholdMissed(n) == n > DISABLE_AFTER_FAILURES

Threshold(n) == n >= DISABLE_AFTER_FAILURES

\* ... and writes it back incremented.  At the threshold it disables the
\* endpoint where it is still enabled.
registerFailureAndMaybeDisable(w) ==
    /\ phase[w] = "disable"
    /\ \E d \in Delivery :
          LET h == HookOf[d]
              n == counted[w] + 1
              trips == Threshold(n) /\ hook[h] = "enabled"
          IN  /\ InHand(w, d)
              /\ NextRow(w, d)
              /\ failures' = [failures EXCEPT ![h] = IF Exists(h) THEN n ELSE @]
              /\ hook' = [hook EXCEPT ![h] = IF trips THEN "disabled" ELSE @]
    /\ counted' = [counted EXCEPT ![w] = 0]
    /\ UNCHANGED <<checked, rowVars, token, outcome, crashes, sent, exhausted,
                   refused, toll>>

\* The process dies; a claim that did not commit is undone.
Crash(w) ==
    /\ crashes < CrashBound
    /\ phase[w] # "idle"
    /\ crashes' = crashes + 1
    /\ phase' = [phase EXCEPT ![w] = "idle"]
    /\ batch' = [batch EXCEPT ![w] = {}]
    /\ outcome' = [outcome EXCEPT ![w] = "none"]
    /\ counted' = [counted EXCEPT ![w] = 0]
    /\ UNCHANGED <<apiVars, rowVars, token, history>>

BackoffElapses(d) ==
    /\ status[d] = "pending"
    /\ d \notin due
    /\ due' = due \cup {d}
    /\ UNCHANGED <<apiVars, status, attempts, workerVars, crashes, history>>

WorkerStep(w) ==
    \/ selectDue(w)
    \/ claimDue(w)
    \/ LoadEndpoint(w)
    \/ MakeRequest(w)
    \/ markOutcome(w)
    \/ ReadFailures(w)
    \/ registerFailureAndMaybeDisable(w)

Next ==
    \/ \E h \in Webhook : createWebhook(h)
    \/ \E h \in Webhook, enabled \in BOOLEAN : setWebhookEnabled(h, enabled)
    \/ \E h \in Webhook : deleteWebhook(h)
    \/ \E d \in Delivery : CheckEndpoint(d)
    \/ \E d \in Delivery : InsertDelivery(d)
    \/ \E d \in Delivery : BackoffElapses(d)
    \/ \E w \in Worker : WorkerStep(w)
    \/ \E w \in Worker : Crash(w)

Spec == Init /\ [][Next]_vars

\* The interval timer ticks in every worker, and a request ends by TIMEOUT_MS.
FairSpec ==
    /\ Spec
    /\ \A w \in Worker : WF_vars(WorkerStep(w))
    /\ \A d \in Delivery : WF_vars(BackoffElapses(d))

-----------------------------------------------------------------------------
(* Properties. *)

Holds(w, d) == phase[w] # "claim" /\ d \in batch[w]

\* An attempt of a delivery is made by one worker and requests it at most once,
\* so never more than MAX_ATTEMPTS times, whatever the crashes and the
\* concurrent loops: a claim is a compare-and-set on `attempts` (claimDue).
AttemptsAreMadeOnce ==
    \A d \in Delivery :
        /\ sent[d] <= attempts[d]
        /\ \A w, v \in Worker :
              w # v /\ Holds(w, d) /\ Holds(v, d) => token[w][d] # token[v][d]

\* An endpoint is charged at most once for each delivery that died
\* (drainWebhookDeliveries: "only the last attempt carries it").
ChargedOnce ==
    \A h \in Webhook :
        failures[h] <= Cardinality({d \in exhausted : HookOf[d] = h})

\* A delivery dies only of a used-up budget or at an endpoint that was missing
\* or disabled (markOutcome).
NoEarlyDeath ==
    \A d \in Delivery :
        status[d] = "dead" => d \in refused \/ attempts[d] = MAX_ATTEMPTS

\* A worker died while it made the row's last attempt: the claim had counted
\* it, and no select takes the row again.
Stranded(d) ==
    /\ crashes > 0
    /\ status[d] = "pending"
    /\ attempts[d] = MAX_ATTEMPTS
    /\ \A w \in Worker : d \notin batch[w]

\* A queued delivery is in the end settled (a worker that dies leaves the row
\* pending "so the next tick retries", delivery.ts), unless it is stranded.
EventuallySettled ==
    \A d \in Delivery :
        status[d] = "pending" ~> status[d] # "pending" \/ Stranded(d)

\* Each worker that died may have taken one uncounted failure with it.
Unreachable(h) ==
    hook[h] = "enabled" /\ toll[h] >= DISABLE_AFTER_FAILURES + crashes

\* An endpoint whose deliveries keep dying does not stay enabled ("a queue
\* that costs money and delivers nothing", DISABLE_AFTER_FAILURES).
EventuallyDisabled == \A h \in Webhook : Unreachable(h) ~> ~Unreachable(h)
=============================================================================
