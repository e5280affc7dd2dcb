------------------------ MODULE WebhookDeliveryProofs ------------------------
(***************************************************************************)
(* Theorems about the webhook queue, for any endpoints, rows, batch size   *)
(* and attempt budget, and any finite number of workers: type correctness  *)
(* and the three safety properties the run checks.                         *)
(***************************************************************************)
EXTENDS WebhookDelivery, FiniteSetTheorems, WellFoundedInduction,
        TLAPS

USE DEF vars, apiVars, rowVars, workerVars, history

\* What a worker knows of the rows of its batch: when it claims, their last
\* attempt is not taken; later, each was claimed once by somebody.
Claims ==
    \A w \in Worker, d \in Delivery :
        /\ phase[w] = "claim" /\ d \in batch[w] => token[w][d] < MAX_ATTEMPTS
        /\ Holds(w, d) => token[w][d] \in 1..attempts[d]

OneHolder ==
    \A d \in Delivery, w, v \in Worker :
        w # v /\ Holds(w, d) /\ Holds(v, d) => token[w][d] # token[v][d]

\* The workers past the request of the row in hand.
Past(w, d) == InHand(w, d) /\ phase[w] \in {"mark", "count", "disable"}

\* The claimed attempts of a row that may still be requested.
Unrequested(d) == {w \in Worker : Holds(w, d) /\ ~Past(w, d)}

\* The sends and the attempts that may become one are all claimed.
SendsClaimed == \A d \in Delivery : sent[d] + Cardinality(Unrequested(d)) <= attempts[d]

RefusedMarked ==
    \A w \in Worker, d \in Delivery :
        phase[w] = "mark" /\ outcome[w] = "endpoint_disabled" /\ InHand(w, d) => d \in refused

\* A row is exhausted once: its last attempt was one worker's, who is past it.
ExhaustedOnce ==
    /\ IsFiniteSet(exhausted)
    /\ \A d \in exhausted :
        /\ attempts[d] = MAX_ATTEMPTS
        /\ \A w \in Worker :
              Holds(w, d) /\ token[w][d] = MAX_ATTEMPTS =>
                  InHand(w, d) /\ phase[w] \in {"count", "disable"}

Exhausted(h) == {d \in exhausted : HookOf[d] = h}

\* The workers about to charge endpoint h.
Charging(h) ==
    {w \in Worker : phase[w] \in {"count", "disable"} /\
                    \E d \in Delivery : InHand(w, d) /\ HookOf[d] = h}

\* Charges made and charges to come belong to different deliveries, in the
\* column and in what a worker has read of it.
ChargesOwed ==
    \A h \in Webhook :
        /\ failures[h] + Cardinality(Charging(h)) <= Cardinality(Exhausted(h))
        /\ \A w \in Charging(h) :
              phase[w] = "disable" =>
                  counted[w] + Cardinality(Charging(h)) <= Cardinality(Exhausted(h))

IInv ==
    /\ TypeOK
    /\ Claims
    /\ OneHolder
    /\ SendsClaimed
    /\ RefusedMarked
    /\ NoEarlyDeath
    /\ ExhaustedOnce
    /\ ChargesOwed

-----------------------------------------------------------------------------

LEMMA OneInHand ==
  ASSUME IInv, NEW w \in Worker, NEW d \in Delivery, NEW e \in Delivery,
         InHand(w, d), InHand(w, e)
  PROVE  d = e
<1>1. d \in Nat /\ e \in Nat /\ d <= e /\ e <= d
  BY WebhookAssumption DEF InHand
<1>. QED
  BY <1>1

LEMMA FiniteSets ==
  ASSUME IsFiniteSet(exhausted)
  PROVE  /\ \A d : IsFiniteSet(Unrequested(d)) /\ Cardinality(Unrequested(d)) \in Nat
         /\ \A h : IsFiniteSet(Charging(h)) /\ Cardinality(Charging(h)) \in Nat
         /\ \A h : IsFiniteSet(Exhausted(h)) /\ Cardinality(Exhausted(h)) \in Nat
<1>1. \A d : Unrequested(d) \subseteq Worker
  BY DEF Unrequested
<1>2. \A h : Charging(h) \subseteq Worker /\ Exhausted(h) \subseteq exhausted
  BY DEF Charging, Exhausted
<1>. QED
  BY <1>1, <1>2, WebhookAssumption, FS_Subset, FS_CardinalityType

\* Steps that touch no worker, no attempt and no history, and charge nobody.
LEMMA ApiKeepsInv ==
  ASSUME IInv, UNCHANGED <<workerVars, attempts, crashes, sent, exhausted, refused>>,
         hook' \in [Webhook -> {"unborn", "enabled", "disabled", "deleted"}],
         failures' \in [Webhook -> Nat], toll' \in [Webhook -> Nat],
         \A h \in Webhook : failures'[h] <= failures[h],
         status' \in [Delivery -> Status],
         \A d \in Delivery : status'[d] = "dead" => status[d] = "dead",
         checked' \subseteq Delivery, due' \subseteq Delivery
  PROVE  IInv'
<1>1. TypeOK'
  BY DEF IInv, TypeOK
<1>2. Claims' /\ OneHolder' /\ RefusedMarked' /\ ExhaustedOnce'
  BY DEF IInv, Claims, OneHolder, RefusedMarked, ExhaustedOnce, Holds, InHand
<1>3. SendsClaimed'
  <2>1. \A d \in Delivery : Unrequested(d)' = Unrequested(d)
    BY DEF Unrequested, Holds, Past, InHand
  <2>. QED
    BY <2>1 DEF IInv, SendsClaimed
<1>4. NoEarlyDeath'
  BY DEF IInv, NoEarlyDeath
<1>5. ChargesOwed'
  <2>1. \A h \in Webhook : Charging(h)' = Charging(h) /\ Exhausted(h)' = Exhausted(h)
    BY DEF Charging, Exhausted, InHand
  <2>2. \A h \in Webhook : Cardinality(Charging(h)) \in Nat /\ Cardinality(Exhausted(h)) \in Nat
    BY FiniteSets DEF IInv, ExhaustedOnce
  <2>3. \A h \in Webhook : failures[h] \in Nat /\ failures'[h] \in Nat
    BY DEF IInv, TypeOK
  <2>. QED
    BY <2>1, <2>2, <2>3 DEF IInv, ChargesOwed
<1>. QED
  BY <1>1, <1>2, <1>3, <1>4, <1>5 DEF IInv

LEMMA ApiStepsKeepInv ==
  ASSUME IInv,
         \/ \E h \in Webhook : createWebhook(h)
         \/ \E h \in Webhook, on \in BOOLEAN : setWebhookEnabled(h, on)
         \/ \E h \in Webhook : deleteWebhook(h)
         \/ \E d \in Delivery : CheckEndpoint(d)
         \/ \E d \in Delivery : InsertDelivery(d)
         \/ \E d \in Delivery : BackoffElapses(d)
         \/ UNCHANGED vars
  PROVE  IInv'
<1>0. TypeOK /\ \A h \in Webhook : failures[h] \in Nat /\ failures[h] <= failures[h]
  BY DEF IInv, TypeOK
<1>1. ASSUME NEW h \in Webhook, createWebhook(h) PROVE IInv'
  BY <1>0, <1>1, ApiKeepsInv DEF createWebhook, TypeOK
<1>2. ASSUME NEW h \in Webhook, NEW on \in BOOLEAN, setWebhookEnabled(h, on)
      PROVE  IInv'
  <2>1. /\ failures' \in [Webhook -> Nat] /\ toll' \in [Webhook -> Nat]
        /\ \A g \in Webhook : failures'[g] <= failures[g]
    BY <1>0, <1>2 DEF setWebhookEnabled, TypeOK
  <2>. QED
    BY <1>0, <1>2, <2>1, ApiKeepsInv DEF setWebhookEnabled, TypeOK
<1>3. ASSUME NEW h \in Webhook, deleteWebhook(h) PROVE IInv'
  BY <1>0, <1>3, ApiKeepsInv DEF deleteWebhook, TypeOK, Status
<1>4. ASSUME NEW d \in Delivery, CheckEndpoint(d) PROVE IInv'
  BY <1>0, <1>4, ApiKeepsInv DEF CheckEndpoint, TypeOK
<1>5. ASSUME NEW d \in Delivery, InsertDelivery(d) PROVE IInv'
  BY <1>0, <1>5, ApiKeepsInv DEF InsertDelivery, TypeOK, Status
<1>6. ASSUME NEW d \in Delivery, BackoffElapses(d) PROVE IInv'
  BY <1>0, <1>6, ApiKeepsInv DEF BackoffElapses, TypeOK
<1>7. CASE UNCHANGED vars
  BY <1>0, <1>7, ApiKeepsInv DEF TypeOK
<1>. QED
  BY <1>1, <1>2, <1>3, <1>4, <1>5, <1>6, <1>7

-----------------------------------------------------------------------------
(* One worker moves; what the others hold and owe stays. *)

OthersStay(w) ==
    \A v \in Worker \ {w} :
        /\ phase'[v] = phase[v] /\ batch'[v] = batch[v] /\ token'[v] = token[v]
        /\ outcome'[v] = outcome[v] /\ counted'[v] = counted[v]

LEMMA OthersHold ==
  ASSUME NEW w \in Worker, OthersStay(w), NEW v \in Worker \ {w}
  PROVE  /\ \A d \in Delivery :
               /\ Holds(v, d)' <=> Holds(v, d)
               /\ InHand(v, d)' <=> InHand(v, d)
               /\ v \in Unrequested(d)' <=> v \in Unrequested(d)
         /\ \A h \in Webhook : v \in Charging(h)' <=> v \in Charging(h)
BY DEF OthersStay, Holds, InHand, Past, Unrequested, Charging

\* Nobody sends, and w has no more to request than before.
LEMMA NoneSent ==
  ASSUME IInv, NEW w \in Worker, OthersStay(w), sent' = sent, attempts' = attempts,
         \A d \in Delivery : w \in Unrequested(d)' => w \in Unrequested(d)
  PROVE  SendsClaimed'
<1> SUFFICES ASSUME NEW d \in Delivery
             PROVE  sent[d] + Cardinality(Unrequested(d)') <= attempts[d]
  BY DEF SendsClaimed
<1>1. Unrequested(d)' \subseteq Unrequested(d)
  BY OthersHold DEF Unrequested
<1>2. /\ Cardinality(Unrequested(d)') \in Nat /\ Cardinality(Unrequested(d)) \in Nat
      /\ Cardinality(Unrequested(d)') <= Cardinality(Unrequested(d))
  BY <1>1, FiniteSets, FS_Subset, FS_CardinalityType DEF IInv, ExhaustedOnce
<1>3. sent[d] \in Nat /\ attempts[d] \in Nat
  BY DEF IInv, TypeOK
<1>. QED
  BY <1>2, <1>3 DEF IInv, SendsClaimed

\* A step of w on rows it already holds.
LEMMA KeepsClaims ==
  ASSUME IInv, NEW w \in Worker, OthersStay(w), token' = token, attempts' = attempts,
         \A d \in Delivery : Holds(w, d)' => Holds(w, d),
         phase'[w] # "claim"
  PROVE  Claims' /\ OneHolder'
<1>1. \A v \in Worker, d \in Delivery : Holds(v, d)' => Holds(v, d)
  BY OthersHold
<1>2. \A v \in Worker, d \in Delivery :
         phase'[v] = "claim" /\ d \in batch'[v] => phase[v] = "claim" /\ d \in batch[v]
  BY DEF OthersStay
<1>. QED
  BY <1>1, <1>2 DEF IInv, Claims, OneHolder

\* Nobody charges: the endpoint's counter and its dead deliveries stay.
LEMMA NoneCharged ==
  ASSUME IInv, NEW w \in Worker, OthersStay(w), failures' = failures, exhausted' = exhausted,
         \A h \in Webhook : w \in Charging(h)' => w \in Charging(h),
         \A h \in Webhook : w \in Charging(h)' /\ phase'[w] = "disable" =>
            counted'[w] = failures[h] \/ (phase[w] = "disable" /\ counted'[w] = counted[w])
  PROVE  ChargesOwed'
<1> SUFFICES ASSUME NEW h \in Webhook
             PROVE  /\ failures[h] + Cardinality(Charging(h)') <= Cardinality(Exhausted(h))
                    /\ \A v \in Charging(h)' : phase'[v] = "disable" =>
                          counted'[v] + Cardinality(Charging(h)') <= Cardinality(Exhausted(h))
  <2>1. \A h \in Webhook : Exhausted(h)' = Exhausted(h)
    BY DEF Exhausted
  <2>. QED
    BY <2>1 DEF ChargesOwed
<1>1. Charging(h)' \subseteq Charging(h)
  BY OthersHold DEF Charging
<1>2. /\ Cardinality(Charging(h)') \in Nat /\ Cardinality(Charging(h)) \in Nat
      /\ Cardinality(Charging(h)') <= Cardinality(Charging(h))
      /\ Cardinality(Exhausted(h)) \in Nat
  BY <1>1, FiniteSets, FS_Subset, FS_CardinalityType DEF IInv, ExhaustedOnce
<1>3. failures[h] \in Nat /\ \A v \in Worker : counted[v] \in Nat
  BY DEF IInv, TypeOK
<1>4. failures[h] + Cardinality(Charging(h)') <= Cardinality(Exhausted(h))
  BY <1>2, <1>3 DEF IInv, ChargesOwed
<1>5. ASSUME NEW v \in Charging(h)', phase'[v] = "disable"
      PROVE  counted'[v] + Cardinality(Charging(h)') <= Cardinality(Exhausted(h))
  <2>1. v \in Worker /\ v \in Charging(h)
    BY <1>1 DEF Charging
  <2>2. CASE counted'[v] = failures[h]
    BY <1>4, <2>2
  <2>3. CASE phase[v] = "disable" /\ counted'[v] = counted[v]
    BY <1>2, <1>3, <2>1, <2>3 DEF IInv, ChargesOwed
  <2>. QED
    BY <1>5, <2>1, <2>2, <2>3 DEF OthersStay
<1>. QED
  BY <1>4, <1>5

\* The oldest due row is a candidate, so a tick that selects claims something.
LEMMA SomeCandidate ==
  ASSUME IInv, Due # {}
  PROVE  Candidates # {}
<1>1. Due \subseteq Nat
  BY WebhookAssumption DEF Due, IInv, TypeOK
<1>2. PICK d \in Due : \A c \in Due : <<c, d>> \notin OpToRel(<, Nat)
  BY <1>1, NatLessThanWellFounded, WFMin
<1>3. {c \in Due : c < d} = {}
  BY <1>1, <1>2 DEF OpToRel
<1>4. Cardinality({c \in Due : c < d}) < Batch
  BY <1>3, FS_EmptySet, WebhookAssumption
<1>. QED
  BY <1>4 DEF Candidates

LEMMA SelectKeepsInv ==
  ASSUME IInv, NEW w \in Worker, selectDue(w)
  PROVE  IInv'
<1>1. Due \subseteq Delivery /\ Candidates \subseteq Due /\ Candidates # {}
  BY SomeCandidate DEF selectDue, Due, Candidates, IInv, TypeOK
<1>2. OthersStay(w)
  BY DEF selectDue, OthersStay, IInv, TypeOK
<1>3. /\ phase[w] = "idle" /\ phase'[w] = "claim" /\ batch[w] = {}
      /\ batch'[w] = Candidates /\ token'[w] = attempts
  BY DEF selectDue, IInv, TypeOK
<1>4. TypeOK'
  BY <1>1, <1>3 DEF selectDue, IInv, TypeOK, Phase
<1>5. Claims' /\ OneHolder'
  <2>1. \A d \in Candidates : attempts[d] < MAX_ATTEMPTS
    BY <1>1 DEF Due
  <2>2. \A v \in Worker, d \in Delivery : Holds(v, d)' => v # w /\ Holds(v, d)
    BY <1>2, <1>3, OthersHold DEF Holds
  <2>. QED
    BY <1>2, <1>3, <2>1, <2>2 DEF selectDue, IInv, Claims, OneHolder, OthersStay
<1>6. SendsClaimed'
  BY <1>2, <1>3, NoneSent DEF selectDue, Unrequested, Holds
<1>7. RefusedMarked' /\ NoEarlyDeath' /\ ExhaustedOnce'
  BY <1>2, <1>3, OthersHold DEF selectDue, IInv, RefusedMarked, NoEarlyDeath,
                                ExhaustedOnce, OthersStay, TypeOK, Holds
<1>8. ChargesOwed'
  BY <1>2, <1>3, NoneCharged DEF selectDue, Charging
<1>. QED
  BY <1>4, <1>5, <1>6, <1>7, <1>8 DEF IInv

LEMMA ClaimKeepsInv ==
  ASSUME IInv, NEW w \in Worker, claimDue(w)
  PROVE  IInv'
<1>. DEFINE won == Won(w)
<1>1. OthersStay(w)
  BY DEF claimDue, OthersStay, IInv, TypeOK
<1>2. /\ phase[w] = "claim" /\ batch'[w] = won
      /\ phase'[w] = IF won = {} THEN "idle" ELSE "load"
      /\ won \subseteq batch[w] /\ won \subseteq Delivery
  BY DEF claimDue, Won, IInv, TypeOK
<1>3. \A d \in Delivery : attempts[d] \in Nat /\ token[w][d] \in Nat
  BY DEF IInv, TypeOK
<1>4. \A d \in won : token[w][d] = attempts[d] /\ attempts[d] < MAX_ATTEMPTS
  BY <1>2 DEF Won, IInv, Claims
<1>5. \A d \in Delivery :
         /\ attempts'[d] = IF d \in won THEN attempts[d] + 1 ELSE attempts[d]
         /\ token'[w][d] = IF d \in won THEN attempts[d] + 1 ELSE token[w][d]
  BY <1>2, <1>4 DEF claimDue, IInv, TypeOK
<1>6. TypeOK'
  <2>1. ASSUME NEW d \in won PROVE token[w][d] + 1 \in 0..MAX_ATTEMPTS
    <3>1. d \in Delivery /\ MAX_ATTEMPTS \in Nat
      BY <1>2, WebhookAssumption
    <3>2. token[w][d] \in Nat /\ token[w][d] < MAX_ATTEMPTS
      BY <1>3, <1>4, <3>1
    <3>. QED
      BY <3>1, <3>2
  <2>2. attempts' \in [Delivery -> 0..MAX_ATTEMPTS]
    BY <2>1 DEF claimDue, IInv, TypeOK
  <2>3. token' \in [Worker -> [Delivery -> 0..MAX_ATTEMPTS]]
    BY <2>1 DEF claimDue, IInv, TypeOK
  <2>4. batch' \in [Worker -> SUBSET Delivery] /\ phase' \in [Worker -> Phase]
        /\ \A v \in Worker : phase'[v] = "idle" <=> batch'[v] = {}
    BY <1>2 DEF claimDue, IInv, TypeOK, Phase
  <2>. QED
    BY <2>2, <2>3, <2>4 DEF claimDue, IInv, TypeOK
<1>7. \A d \in Delivery : ~Holds(w, d) /\ (Holds(w, d)' <=> d \in won)
  BY <1>2 DEF Holds
<1>8. Claims'
  <2>1. \A d \in Delivery : token'[w][d] \in 1..attempts'[d] \/ d \notin won
    BY <1>3, <1>5
  <2>2. ASSUME NEW v \in Worker \ {w}, NEW d \in Delivery
        PROVE  /\ phase'[v] = "claim" /\ d \in batch'[v] => token'[v][d] < MAX_ATTEMPTS
               /\ Holds(v, d)' => token'[v][d] \in 1..attempts'[d]
    <3>1. Holds(v, d)' => token'[v][d] \in 1..attempts[d]
      BY <1>1, OthersHold DEF IInv, Claims, OthersStay
    <3>. QED
      BY <1>1, <1>3, <1>5, <3>1 DEF IInv, Claims, OthersStay
  <2>. QED
    BY <1>2, <1>7, <2>1, <2>2 DEF Claims
<1>9. OneHolder'
  <2>1. ASSUME NEW v \in Worker \ {w}, NEW d \in Delivery, Holds(v, d)', Holds(w, d)'
        PROVE  token'[v][d] < token'[w][d]
    <3>1. token'[v][d] \in 1..attempts[d]
      BY <1>1, <2>1, OthersHold DEF IInv, Claims, OthersStay
    <3>. QED
      BY <1>3, <1>5, <1>7, <2>1, <3>1
  <2>2. \A v, u \in Worker \ {w}, d \in Delivery :
           v # u /\ Holds(v, d)' /\ Holds(u, d)' => token'[v][d] # token'[u][d]
    BY <1>1, OthersHold DEF IInv, OneHolder, OthersStay
  <2>3. \A v \in Worker, d \in Delivery : token'[v][d] \in Nat
    BY <1>6 DEF TypeOK
  <2>. QED
    BY <2>1, <2>2, <2>3 DEF OneHolder
<1>10. SendsClaimed'
  <2> SUFFICES ASSUME NEW d \in Delivery
               PROVE  sent[d] + Cardinality(Unrequested(d)') <= attempts'[d]
    BY DEF SendsClaimed, claimDue
  <2>1. IsFiniteSet(Unrequested(d)) /\ Cardinality(Unrequested(d)) \in Nat /\ sent[d] \in Nat
    BY FiniteSets DEF IInv, ExhaustedOnce, TypeOK
  <2>2. w \notin Unrequested(d)
    BY <1>7 DEF Unrequested
  <2>3. Unrequested(d)' = IF d \in won THEN Unrequested(d) \cup {w} ELSE Unrequested(d)
    BY <1>1, <1>2, <1>7, <2>2, OthersHold DEF Unrequested, Past
  <2>4. Cardinality(Unrequested(d) \cup {w}) = Cardinality(Unrequested(d)) + 1
    BY <2>1, <2>2, FS_AddElement
  <2>. QED
    BY <1>3, <1>5, <2>1, <2>3, <2>4 DEF IInv, SendsClaimed
<1>11. RefusedMarked' /\ NoEarlyDeath'
  <2>1. \A d \in won : status[d] = "pending"
    BY DEF Won
  <2>. QED
    BY <1>1, <1>2, <1>5, <2>1, OthersHold DEF claimDue, IInv, RefusedMarked, NoEarlyDeath, OthersStay
<1>12. ExhaustedOnce'
  <2>1. \A d \in exhausted : d \in Delivery /\ d \notin won
    BY <1>4, WebhookAssumption DEF IInv, TypeOK, ExhaustedOnce
  <2>. QED
    BY <1>1, <1>5, <1>7, <2>1, OthersHold DEF claimDue, IInv, ExhaustedOnce, OthersStay
<1>13. ChargesOwed'
  BY <1>1, <1>2, NoneCharged DEF claimDue, Charging
<1>. QED
  BY <1>6, <1>8, <1>9, <1>10, <1>11, <1>12, <1>13 DEF IInv

LEMMA LoadKeepsInv ==
  ASSUME IInv, NEW w \in Worker, LoadEndpoint(w)
  PROVE  IInv'
<1>1. PICK d \in Delivery :
          /\ InHand(w, d)
          /\ \/ /\ phase' = [phase EXCEPT ![w] = "request"]
                /\ UNCHANGED <<outcome, refused>>
             \/ /\ phase' = [phase EXCEPT ![w] = "mark"]
                /\ outcome' = [outcome EXCEPT ![w] = "endpoint_disabled"]
                /\ refused' = refused \cup {d}
  BY DEF LoadEndpoint
<1>2. OthersStay(w) /\ phase[w] = "load" /\ phase'[w] \in {"request", "mark"}
  BY <1>1 DEF LoadEndpoint, OthersStay, IInv, TypeOK
<1>3. TypeOK'
  <2>1. /\ phase' \in [Worker -> Phase] /\ outcome' \in [Worker -> Outcome]
        /\ refused' \subseteq Delivery
    BY <1>1 DEF IInv, TypeOK, Phase, Outcome
  <2>. QED
    BY <2>1 DEF LoadEndpoint, IInv, TypeOK
<1>4. \A e \in Delivery : Holds(w, e)' <=> Holds(w, e)
  BY <1>2 DEF LoadEndpoint, Holds
<1>5. Claims' /\ OneHolder'
  BY <1>2, <1>4, KeepsClaims DEF LoadEndpoint
<1>6. SendsClaimed'
  BY <1>2, <1>4, NoneSent DEF LoadEndpoint, Unrequested, Past
<1>7. RefusedMarked'
  <2>1. ASSUME NEW e \in Delivery, phase'[w] = "mark", InHand(w, e)' PROVE e \in refused'
    BY <1>1, <1>2, <2>1, OneInHand DEF LoadEndpoint, InHand, IInv, TypeOK
  <2>2. refused \subseteq refused'
    BY <1>1
  <2>. QED
    BY <1>2, <2>1, <2>2, OthersHold DEF IInv, RefusedMarked, OthersStay
<1>8. NoEarlyDeath'
  BY <1>1 DEF LoadEndpoint, IInv, NoEarlyDeath
<1>9. ExhaustedOnce'
  <2>1. ExhaustedOnce /\ exhausted' = exhausted /\ attempts' = attempts /\ token' = token
    BY DEF LoadEndpoint, IInv
  <2>2. \A e \in exhausted : e \in Delivery /\ ~(Holds(w, e) /\ token[w][e] = MAX_ATTEMPTS)
    BY <1>2, <2>1 DEF ExhaustedOnce, IInv, TypeOK
  <2>3. ASSUME NEW e \in exhausted, NEW v \in Worker,
               Holds(v, e)', token'[v][e] = MAX_ATTEMPTS
        PROVE  InHand(v, e)' /\ phase'[v] \in {"count", "disable"}
    <3>1. v # w
      BY <1>4, <2>1, <2>2, <2>3
    <3>2. Holds(v, e) /\ phase'[v] = phase[v] /\ (InHand(v, e)' <=> InHand(v, e))
      BY <1>2, <2>2, <2>3, <3>1, OthersHold DEF OthersStay
    <3>. QED
      BY <2>1, <2>3, <3>2 DEF ExhaustedOnce
  <2>. QED
    BY <2>1, <2>3 DEF ExhaustedOnce
<1>10. ChargesOwed'
  BY <1>2, NoneCharged DEF LoadEndpoint, Charging
<1>. QED
  BY <1>3, <1>5, <1>6, <1>7, <1>8, <1>9, <1>10 DEF IInv

LEMMA RequestKeepsInv ==
  ASSUME IInv, NEW w \in Worker, MakeRequest(w)
  PROVE  IInv'
<1>1. PICK d \in Delivery, reached \in BOOLEAN, result \in {"succeeded", "failed"} :
          /\ InHand(w, d)
          /\ sent' = [sent EXCEPT ![d] = IF reached THEN @ + 1 ELSE @]
          /\ outcome' = [outcome EXCEPT ![w] = result]
  BY DEF MakeRequest
<1>2. OthersStay(w) /\ phase[w] = "request" /\ phase'[w] = "mark" /\ outcome'[w] = result
  BY <1>1 DEF MakeRequest, OthersStay, IInv, TypeOK
<1>3. TypeOK'
  BY <1>1 DEF MakeRequest, IInv, TypeOK, Phase, Outcome
<1>4. \A e \in Delivery : Holds(w, e)' <=> Holds(w, e)
  BY <1>2 DEF MakeRequest, Holds
<1>5. Claims' /\ OneHolder'
  BY <1>2, <1>4, KeepsClaims DEF MakeRequest
<1>6. SendsClaimed'
  <2> SUFFICES ASSUME NEW e \in Delivery
               PROVE  sent'[e] + Cardinality(Unrequested(e)') <= attempts[e]
    BY DEF SendsClaimed, MakeRequest
  <2>1. /\ IsFiniteSet(Unrequested(e)) /\ Cardinality(Unrequested(e)) \in Nat
        /\ sent[e] \in Nat /\ attempts[e] \in Nat
    BY FiniteSets DEF IInv, ExhaustedOnce, TypeOK
  <2>2. CASE e = d
    <3>1. w \in Unrequested(d) /\ w \notin Unrequested(d)'
      BY <1>1, <1>2, <1>4 DEF Unrequested, Past, Holds, InHand, MakeRequest
    <3>2. Unrequested(d)' = Unrequested(d) \ {w}
      BY <1>2, <3>1, OthersHold DEF Unrequested
    <3>3. Cardinality(Unrequested(d)') = Cardinality(Unrequested(d)) - 1
      BY <2>1, <2>2, <3>1, <3>2, FS_RemoveElement
    <3>. QED
      BY <1>1, <2>1, <2>2, <3>3 DEF IInv, SendsClaimed, TypeOK
  <2>3. CASE e # d
    <3>1. ~InHand(w, e)
      BY <1>1, <2>3, OneInHand
    <3>2. Unrequested(e)' = Unrequested(e)
      BY <1>2, <1>4, <3>1, OthersHold DEF Unrequested, Past, MakeRequest, InHand
    <3>. QED
      BY <1>1, <2>1, <2>3, <3>2 DEF IInv, SendsClaimed, TypeOK
  <2>. QED
    BY <2>2, <2>3
<1>7. RefusedMarked'
  BY <1>1, <1>2, OthersHold DEF MakeRequest, IInv, RefusedMarked, OthersStay
<1>8. NoEarlyDeath'
  BY DEF MakeRequest, IInv, NoEarlyDeath
<1>9. ExhaustedOnce'
  BY <1>2, <1>4, OthersHold DEF MakeRequest, IInv, ExhaustedOnce, OthersStay, TypeOK
<1>10. ChargesOwed'
  BY <1>2, NoneCharged DEF MakeRequest, Charging
<1>. QED
  BY <1>3, <1>5, <1>6, <1>7, <1>8, <1>9, <1>10 DEF IInv

\* The row in hand is done with, and nothing else is held or owed.
LEMMA RowDone ==
  ASSUME IInv, NEW w \in Worker, NEW d \in Delivery, InHand(w, d), NextRow(w, d),
         phase[w] # "claim"
  PROVE  /\ phase' \in [Worker -> Phase] /\ batch' \in [Worker -> SUBSET Delivery]
         /\ \A v \in Worker : phase'[v] = "idle" <=> batch'[v] = {}
         /\ phase'[w] \in {"idle", "load"}
         /\ \A v \in Worker \ {w} : phase'[v] = phase[v] /\ batch'[v] = batch[v]
         /\ \A e \in Delivery :
               /\ Holds(w, e)' => Holds(w, e) /\ ~InHand(w, e)
               /\ w \in Unrequested(e)' => w \in Unrequested(e)
         /\ \A h \in Webhook : w \notin Charging(h)'
<1>1. /\ phase' \in [Worker -> Phase] /\ batch' \in [Worker -> SUBSET Delivery]
      /\ \A v \in Worker : phase'[v] = "idle" <=> batch'[v] = {}
  BY DEF NextRow, InHand, IInv, TypeOK, Phase
<1>2. /\ phase'[w] \in {"idle", "load"}
      /\ batch'[w] = batch[w] \ {d}
      /\ \A v \in Worker \ {w} : phase'[v] = phase[v] /\ batch'[v] = batch[v]
  BY DEF NextRow, IInv, TypeOK
<1>3. \A e \in Delivery : Holds(w, e)' => Holds(w, e) /\ ~InHand(w, e)
  BY <1>2, OneInHand DEF Holds
<1>4. \A e \in Delivery : w \in Unrequested(e)' => w \in Unrequested(e)
  BY <1>3 DEF Unrequested, Past
<1>5. \A h \in Webhook : w \notin Charging(h)'
  BY <1>2 DEF Charging
<1>. QED
  BY <1>1, <1>2, <1>3, <1>4, <1>5

\* A row that died of its last attempt: it is exhausted for the first time,
\* and one more worker owes one more charge.
LEMMA DeathKeepsCharges ==
  ASSUME IInv, NEW w \in Worker, NEW d \in Delivery, OthersStay(w),
         InHand(w, d)', phase[w] = "mark", phase'[w] = "count",
         d \notin exhausted, exhausted' = exhausted \cup {d}, failures' = failures,
         batch'[w] = batch[w]
  PROVE  ChargesOwed'
<1> SUFFICES ASSUME NEW h \in Webhook
             PROVE  /\ failures[h] + Cardinality(Charging(h)') <= Cardinality(Exhausted(h)')
                    /\ \A v \in Charging(h)' : phase'[v] = "disable" =>
                          counted'[v] + Cardinality(Charging(h)') <= Cardinality(Exhausted(h)')
  BY DEF ChargesOwed
<1>1. /\ IsFiniteSet(Charging(h)) /\ Cardinality(Charging(h)) \in Nat
      /\ IsFiniteSet(Exhausted(h)) /\ Cardinality(Exhausted(h)) \in Nat
  BY FiniteSets DEF IInv, ExhaustedOnce
<1>2. failures[h] \in Nat /\ \A v \in Worker : counted[v] \in Nat
  BY DEF IInv, TypeOK
<1>3. InHand(w, d) /\ w \notin Charging(h)
  BY DEF InHand, Charging
<1>4. \A v \in Charging(h)' : phase'[v] = "disable" =>
         v \in Charging(h) /\ phase[v] = "disable" /\ counted'[v] = counted[v]
  BY OthersHold DEF Charging, OthersStay
<1>5. Exhausted(h)' = IF HookOf[d] = h THEN Exhausted(h) \cup {d} ELSE Exhausted(h)
  BY DEF Exhausted
<1>6. Charging(h)' = IF HookOf[d] = h THEN Charging(h) \cup {w} ELSE Charging(h)
  <2>1. w \in Charging(h)' <=> HookOf[d] = h
    <3>1. \A e \in Delivery : InHand(w, e)' => e = d
      BY <1>3, OneInHand DEF InHand
    <3>. QED
      BY <3>1 DEF Charging
  <2>. QED
    BY <1>3, <2>1, OthersHold DEF Charging
<1>7. /\ Cardinality(Exhausted(h) \cup {d}) = Cardinality(Exhausted(h)) + 1
      /\ Cardinality(Charging(h) \cup {w}) = Cardinality(Charging(h)) + 1
  BY <1>1, <1>3, FS_AddElement DEF Exhausted
<1>8. /\ failures[h] + Cardinality(Charging(h)) <= Cardinality(Exhausted(h))
      /\ \A v \in Charging(h) : phase[v] = "disable" =>
            counted[v] + Cardinality(Charging(h)) <= Cardinality(Exhausted(h))
      /\ Charging(h) \subseteq Worker
  BY DEF IInv, ChargesOwed, Charging
<1>9. Cardinality(Exhausted(h)') - Cardinality(Charging(h)') =
         Cardinality(Exhausted(h)) - Cardinality(Charging(h))
      /\ Cardinality(Exhausted(h)') \in Nat /\ Cardinality(Charging(h)') \in Nat
  <2>1. CASE HookOf[d] = h
    BY <1>1, <1>5, <1>6, <1>7, <2>1
  <2>2. CASE HookOf[d] # h
    BY <1>1, <1>5, <1>6, <2>2
  <2>. QED
    BY <2>1, <2>2
<1>10. failures[h] + Cardinality(Charging(h)') <= Cardinality(Exhausted(h)')
  BY <1>1, <1>2, <1>8, <1>9
<1>11. ASSUME NEW v \in Charging(h)', phase'[v] = "disable"
       PROVE  counted'[v] + Cardinality(Charging(h)') <= Cardinality(Exhausted(h)')
  <2>1. v \in Charging(h) /\ v \in Worker /\ phase[v] = "disable" /\ counted'[v] = counted[v]
    BY <1>4, <1>8, <1>11
  <2>2. counted[v] + Cardinality(Charging(h)) <= Cardinality(Exhausted(h)) /\ counted[v] \in Nat
    BY <1>2, <1>8, <2>1
  <2>. QED
    BY <1>1, <1>9, <2>1, <2>2
<1>. QED
  BY <1>10, <1>11

LEMMA MarkKeepsInv ==
  ASSUME IInv, NEW w \in Worker, markOutcome(w)
  PROVE  IInv'
<1>1. PICK d \in Delivery :
          LET died == outcome[w] = "failed" /\ LastAttempt(w, d)
              h == HookOf[d]
          IN  /\ InHand(w, d)
              /\ status' = [status EXCEPT ![d] = IF @ = "none" THEN @ ELSE Settle(w, d)]
              /\ due' = IF Settle(w, d) = "pending" THEN due \ {d} ELSE due
              /\ IF died
                 THEN /\ phase' = [phase EXCEPT ![w] = "count"]
                      /\ UNCHANGED batch
                 ELSE NextRow(w, d)
              /\ exhausted' = IF died THEN exhausted \cup {d} ELSE exhausted
              /\ toll' = [toll EXCEPT ![h] = IF died THEN @ + 1 ELSE @]
  BY DEF markOutcome
<1>. DEFINE died == outcome[w] = "failed" /\ LastAttempt(w, d)
<1>2. /\ phase[w] = "mark" /\ InHand(w, d) /\ Holds(w, d)
      /\ outcome' = [outcome EXCEPT ![w] = "none"]
      /\ UNCHANGED <<apiVars, attempts, token, counted, crashes, sent, refused>>
  BY <1>1 DEF markOutcome, Holds, InHand
<1>3. /\ token[w][d] \in 1..attempts[d] /\ token[w][d] \in 0..MAX_ATTEMPTS
      /\ attempts[d] \in 0..MAX_ATTEMPTS /\ MAX_ATTEMPTS \in Nat
  BY <1>2, WebhookAssumption DEF IInv, Claims, TypeOK
<1>4. LastAttempt(w, d) => token[w][d] = MAX_ATTEMPTS /\ attempts[d] = MAX_ATTEMPTS
  BY <1>3 DEF LastAttempt
<1>5. /\ phase' \in [Worker -> Phase] /\ batch' \in [Worker -> SUBSET Delivery]
      /\ \A v \in Worker : phase'[v] = "idle" <=> batch'[v] = {}
      /\ phase'[w] # "claim" /\ phase'[w] # "mark"
      /\ \A v \in Worker \ {w} : phase'[v] = phase[v] /\ batch'[v] = batch[v]
      /\ \A e \in Delivery :
            /\ Holds(w, e)' => Holds(w, e)
            /\ w \in Unrequested(e)' => w \in Unrequested(e)
  <2>1. CASE died
    <3>1. phase' = [phase EXCEPT ![w] = "count"] /\ batch' = batch
      BY <1>1, <2>1
    <3>. QED
      BY <1>2, <3>1 DEF IInv, TypeOK, Phase, Holds, Unrequested, Past, InHand
  <2>2. CASE ~died
    BY <1>1, <1>2, <2>2, RowDone
  <2>. QED
    BY <2>1, <2>2
<1>6. OthersStay(w)
  BY <1>2, <1>5 DEF OthersStay, IInv, TypeOK
<1>7. TypeOK'
  <2>1. Settle(w, d) \in Status
    BY DEF Settle, Status
  <2>2. status' \in [Delivery -> Status] /\ due' \subseteq Delivery
        /\ exhausted' \subseteq Delivery
    BY <1>1, <2>1 DEF IInv, TypeOK
  <2>3. toll' \in [Webhook -> Nat]
    <3>1. CASE died
      <4>1. toll' = [toll EXCEPT ![HookOf[d]] = @ + 1]
        BY <1>1, <3>1
      <4>. QED
        BY <4>1, WebhookAssumption DEF IInv, TypeOK
    <3>2. CASE ~died
      <4>1. toll' = [toll EXCEPT ![HookOf[d]] = @]
        BY <1>1, <3>2
      <4>. QED
        BY <4>1 DEF IInv, TypeOK
    <3>. QED
      BY <3>1, <3>2
  <2>4. outcome' \in [Worker -> Outcome]
    BY <1>2 DEF IInv, TypeOK, Outcome
  <2>. QED
    BY <1>2, <1>5, <2>2, <2>3, <2>4 DEF IInv, TypeOK
<1>8. Claims' /\ OneHolder'
  BY <1>2, <1>5, <1>6, KeepsClaims
<1>9. SendsClaimed'
  BY <1>2, <1>5, <1>6, NoneSent
<1>10. RefusedMarked'
  BY <1>2, <1>5, <1>6, OthersHold DEF IInv, RefusedMarked, OthersStay
<1>11. NoEarlyDeath'
  <2>1. Settle(w, d) = "dead" => d \in refused \/ attempts[d] = MAX_ATTEMPTS
    BY <1>2, <1>4 DEF Settle, IInv, RefusedMarked
  <2>. QED
    BY <1>1, <1>2, <2>1 DEF IInv, NoEarlyDeath, TypeOK
<1>12. ASSUME NEW e \in exhausted, NEW v \in Worker, Holds(v, e)', token[v][e] = MAX_ATTEMPTS
       PROVE  v # w /\ InHand(v, e)' /\ phase'[v] \in {"count", "disable"}
  <2>1. e \in Delivery /\ Holds(v, e)
    BY <1>5, <1>6, <1>12, OthersHold DEF IInv, TypeOK
  <2>2. InHand(v, e) /\ phase[v] \in {"count", "disable"}
    BY <1>12, <2>1 DEF IInv, ExhaustedOnce
  <2>. QED
    BY <1>2, <1>6, <2>1, <2>2, OthersHold DEF OthersStay
<1>13. CASE died
  <2>1. /\ exhausted' = exhausted \cup {d} /\ batch' = batch /\ phase'[w] = "count"
        /\ token[w][d] = MAX_ATTEMPTS /\ attempts[d] = MAX_ATTEMPTS
    BY <1>1, <1>4, <1>13 DEF IInv, TypeOK
  <2>2. d \notin exhausted
    BY <1>2, <2>1 DEF IInv, ExhaustedOnce
  <2>3. InHand(w, d)' /\ batch'[w] = batch[w]
    BY <1>2, <2>1 DEF InHand
  <2>4. ASSUME NEW v \in Worker, Holds(v, d)', token[v][d] = MAX_ATTEMPTS PROVE v = w
    BY <1>2, <1>6, <2>1, <2>4, OthersHold DEF IInv, OneHolder
  <2>5. ExhaustedOnce'
    <3>1. IsFiniteSet(exhausted')
      BY <2>1, FS_AddElement DEF IInv, ExhaustedOnce
    <3>. QED
      BY <1>2, <1>12, <2>1, <2>3, <2>4, <3>1 DEF IInv, ExhaustedOnce
  <2>6. ChargesOwed'
    BY <1>2, <1>6, <2>1, <2>2, <2>3, DeathKeepsCharges
  <2>. QED
    BY <1>7, <1>8, <1>9, <1>10, <1>11, <2>5, <2>6 DEF IInv
<1>14. CASE ~died
  <2>1. exhausted' = exhausted /\ \A h \in Webhook : w \notin Charging(h)'
    BY <1>1, <1>2, <1>14, RowDone
  <2>2. ExhaustedOnce'
    BY <1>2, <1>12, <2>1 DEF IInv, ExhaustedOnce
  <2>3. ChargesOwed'
    BY <1>2, <1>6, <2>1, NoneCharged
  <2>. QED
    BY <1>7, <1>8, <1>9, <1>10, <1>11, <2>2, <2>3 DEF IInv
<1>. QED
  BY <1>13, <1>14

\* A step of w after the outcome of its row was marked.
LEMMA KeepsOutcomes ==
  ASSUME IInv, NEW w \in Worker, OthersStay(w),
         UNCHANGED <<status, attempts, token, exhausted, refused>>,
         phase'[w] # "mark",
         \A e \in Delivery : Holds(w, e)' =>
            /\ Holds(w, e)
            /\ InHand(w, e) => InHand(w, e)' /\ phase'[w] \in {"count", "disable"}
  PROVE  RefusedMarked' /\ NoEarlyDeath' /\ ExhaustedOnce'
<1>1. RefusedMarked'
  BY OthersHold DEF IInv, RefusedMarked, OthersStay
<1>2. NoEarlyDeath'
  BY DEF IInv, NoEarlyDeath
<1>3. ASSUME NEW e \in exhausted, NEW v \in Worker, Holds(v, e)', token[v][e] = MAX_ATTEMPTS
      PROVE  InHand(v, e)' /\ phase'[v] \in {"count", "disable"}
  <2>1. e \in Delivery /\ Holds(v, e)
    BY <1>3, OthersHold DEF IInv, TypeOK
  <2>2. InHand(v, e) /\ phase[v] \in {"count", "disable"}
    BY <1>3, <2>1 DEF IInv, ExhaustedOnce
  <2>. QED
    BY <1>3, <2>1, <2>2, OthersHold DEF OthersStay
<1>4. ExhaustedOnce'
  BY <1>3 DEF IInv, ExhaustedOnce
<1>. QED
  BY <1>1, <1>2, <1>4

LEMMA ReadKeepsInv ==
  ASSUME IInv, NEW w \in Worker, ReadFailures(w)
  PROVE  IInv'
<1>1. PICK d \in Delivery :
          /\ InHand(w, d)
          /\ \/ /\ phase' = [phase EXCEPT ![w] = "disable"]
                /\ counted' = [counted EXCEPT ![w] = failures[HookOf[d]]]
                /\ UNCHANGED batch
             \/ NextRow(w, d) /\ UNCHANGED counted
  BY DEF ReadFailures
<1>2. /\ phase[w] = "count" /\ HookOf[d] \in Webhook
      /\ UNCHANGED <<apiVars, rowVars, token, outcome, crashes, history>>
  BY WebhookAssumption DEF ReadFailures
<1>3. CASE /\ phase' = [phase EXCEPT ![w] = "disable"]
           /\ counted' = [counted EXCEPT ![w] = failures[HookOf[d]]]
           /\ UNCHANGED batch
  <2>1. OthersStay(w) /\ phase'[w] = "disable" /\ counted'[w] = failures[HookOf[d]]
    BY <1>2, <1>3 DEF OthersStay, IInv, TypeOK
  <2>2. \A e \in Delivery : (Holds(w, e)' <=> Holds(w, e)) /\ (InHand(w, e)' <=> InHand(w, e))
    BY <1>2, <1>3, <2>1 DEF Holds, InHand
  <2>3. TypeOK'
    BY <1>2, <1>3 DEF IInv, TypeOK, Phase
  <2>4. Claims' /\ OneHolder'
    BY <1>2, <2>1, <2>2, KeepsClaims
  <2>5. SendsClaimed'
    BY <1>2, <2>1, <2>2, NoneSent DEF Unrequested, Past
  <2>6. RefusedMarked' /\ NoEarlyDeath' /\ ExhaustedOnce'
    BY <1>2, <2>1, <2>2, KeepsOutcomes
  <2>7. ChargesOwed'
    <3>1. \A h \in Webhook : w \in Charging(h)' => w \in Charging(h) /\ HookOf[d] = h
      BY <1>1, <1>2, <2>2, OneInHand DEF Charging
    <3>. QED
      BY <1>2, <2>1, <3>1, NoneCharged
  <2>. QED
    BY <2>3, <2>4, <2>5, <2>6, <2>7 DEF IInv
<1>4. CASE NextRow(w, d) /\ UNCHANGED counted
  <2>1. /\ phase' \in [Worker -> Phase] /\ batch' \in [Worker -> SUBSET Delivery]
        /\ \A v \in Worker : phase'[v] = "idle" <=> batch'[v] = {}
        /\ phase'[w] \in {"idle", "load"}
        /\ \A v \in Worker \ {w} : phase'[v] = phase[v] /\ batch'[v] = batch[v]
        /\ \A e \in Delivery :
              /\ Holds(w, e)' => Holds(w, e) /\ ~InHand(w, e)
              /\ w \in Unrequested(e)' => w \in Unrequested(e)
        /\ \A h \in Webhook : w \notin Charging(h)'
    BY <1>1, <1>2, <1>4, RowDone
  <2>2. OthersStay(w)
    BY <1>2, <1>4, <2>1 DEF OthersStay
  <2>3. TypeOK'
    BY <1>2, <1>4, <2>1 DEF IInv, TypeOK
  <2>4. Claims' /\ OneHolder'
    BY <1>2, <2>1, <2>2, KeepsClaims
  <2>5. SendsClaimed'
    BY <1>2, <2>1, <2>2, NoneSent
  <2>6. RefusedMarked' /\ NoEarlyDeath' /\ ExhaustedOnce'
    BY <1>2, <2>1, <2>2, KeepsOutcomes
  <2>7. ChargesOwed'
    BY <1>2, <2>1, <2>2, NoneCharged
  <2>. QED
    BY <2>3, <2>4, <2>5, <2>6, <2>7 DEF IInv
<1>. QED
  BY <1>1, <1>3, <1>4

LEMMA ChargeKeepsInv ==
  ASSUME IInv, NEW w \in Worker, registerFailureAndMaybeDisable(w)
  PROVE  IInv'
<1>1. PICK d \in Delivery :
          LET h == HookOf[d]
              n == counted[w] + 1
              trips == Threshold(n) /\ hook[h] = "enabled"
          IN  /\ InHand(w, d)
              /\ NextRow(w, d)
              /\ failures' = [failures EXCEPT ![h] = IF Exists(h) THEN n ELSE @]
              /\ hook' = [hook EXCEPT ![h] = IF trips THEN "disabled" ELSE @]
  BY DEF registerFailureAndMaybeDisable
<1>2. /\ phase[w] = "disable" /\ HookOf[d] \in Webhook
      /\ counted' = [counted EXCEPT ![w] = 0]
      /\ UNCHANGED <<checked, rowVars, token, outcome, crashes, sent, exhausted,
                     refused, toll>>
  BY WebhookAssumption DEF registerFailureAndMaybeDisable
<1>3. /\ phase' \in [Worker -> Phase] /\ batch' \in [Worker -> SUBSET Delivery]
      /\ \A v \in Worker : phase'[v] = "idle" <=> batch'[v] = {}
      /\ phase'[w] \in {"idle", "load"}
      /\ \A v \in Worker \ {w} : phase'[v] = phase[v] /\ batch'[v] = batch[v]
      /\ \A e \in Delivery :
            /\ Holds(w, e)' => Holds(w, e) /\ ~InHand(w, e)
            /\ w \in Unrequested(e)' => w \in Unrequested(e)
      /\ \A h \in Webhook : w \notin Charging(h)'
  BY <1>1, <1>2, RowDone
<1>4. OthersStay(w)
  BY <1>2, <1>3 DEF OthersStay, IInv, TypeOK
<1>5. TypeOK'
  <2>1. failures' \in [Webhook -> Nat]
    BY <1>1, <1>2 DEF IInv, TypeOK
  <2>2. hook' \in [Webhook -> {"unborn", "enabled", "disabled", "deleted"}]
    BY <1>1, <1>2 DEF IInv, TypeOK
  <2>. QED
    BY <1>2, <1>3, <2>1, <2>2 DEF IInv, TypeOK
<1>6. Claims' /\ OneHolder'
  BY <1>2, <1>3, <1>4, KeepsClaims
<1>7. SendsClaimed'
  BY <1>2, <1>3, <1>4, NoneSent
<1>8. RefusedMarked' /\ NoEarlyDeath' /\ ExhaustedOnce'
  BY <1>2, <1>3, <1>4, KeepsOutcomes
<1>9. ChargesOwed'
  <2> SUFFICES ASSUME NEW h \in Webhook
               PROVE  /\ failures'[h] + Cardinality(Charging(h)') <= Cardinality(Exhausted(h))
                      /\ \A v \in Charging(h)' : phase'[v] = "disable" =>
                            counted'[v] + Cardinality(Charging(h)') <= Cardinality(Exhausted(h))
    <3>1. \A h \in Webhook : Exhausted(h)' = Exhausted(h)
      BY <1>2 DEF Exhausted
    <3>. QED
      BY <3>1 DEF ChargesOwed
  <2>1. /\ IsFiniteSet(Charging(h)) /\ Cardinality(Charging(h)) \in Nat
        /\ Cardinality(Exhausted(h)) \in Nat
    BY FiniteSets DEF IInv, ExhaustedOnce
  <2>2. failures[h] \in Nat /\ \A v \in Worker : counted[v] \in Nat
    BY DEF IInv, TypeOK
  <2>3. w \in Charging(h) <=> HookOf[d] = h
    BY <1>1, <1>2, OneInHand DEF Charging
  <2>4. Charging(h)' = Charging(h) \ {w}
    BY <1>3, <1>4, OthersHold DEF Charging
  <2>5. \A v \in Charging(h)' : phase'[v] = "disable" =>
           v \in Charging(h) /\ phase[v] = "disable" /\ counted'[v] = counted[v]
    BY <1>4, <2>4 DEF Charging, OthersStay
  <2>6. /\ failures[h] + Cardinality(Charging(h)) <= Cardinality(Exhausted(h))
        /\ \A v \in Charging(h) : phase[v] = "disable" =>
              counted[v] + Cardinality(Charging(h)) <= Cardinality(Exhausted(h))
        /\ Charging(h) \subseteq Worker
    BY DEF IInv, ChargesOwed, Charging
  <2>7. CASE HookOf[d] = h
    <3>1. Cardinality(Charging(h)') = Cardinality(Charging(h)) - 1
      <4>1. w \in Charging(h) /\ IsFiniteSet(Charging(h))
        BY <2>1, <2>3, <2>7
      <4>2. Cardinality(Charging(h) \ {w}) = Cardinality(Charging(h)) - 1
        BY <4>1, FS_RemoveElement
      <4>. QED
        BY <2>4, <4>2
    <3>2. failures'[h] \in {failures[h], counted[w] + 1}
      BY <1>1, <1>2, <2>7 DEF IInv, TypeOK
    <3>3. counted[w] + Cardinality(Charging(h)) <= Cardinality(Exhausted(h))
      BY <1>2, <2>3, <2>6, <2>7
    <3>. QED
      BY <2>1, <2>2, <2>5, <2>6, <3>1, <3>2, <3>3
  <2>8. CASE HookOf[d] # h
    <3>1. Charging(h)' = Charging(h) /\ failures'[h] = failures[h]
      BY <1>1, <2>3, <2>4, <2>8 DEF IInv, TypeOK
    <3>. QED
      BY <2>5, <2>6, <3>1
  <2>. QED
    BY <2>7, <2>8
<1>. QED
  BY <1>5, <1>6, <1>7, <1>8, <1>9 DEF IInv

LEMMA CrashKeepsInv ==
  ASSUME IInv, NEW w \in Worker, Crash(w)
  PROVE  IInv'
<1>1. /\ OthersStay(w) /\ phase'[w] = "idle" /\ batch'[w] = {}
      /\ UNCHANGED <<apiVars, rowVars, token, history>>
  BY DEF Crash, OthersStay, IInv, TypeOK
<1>2. TypeOK'
  BY DEF Crash, IInv, TypeOK, Phase, Outcome
<1>3. /\ \A e \in Delivery : ~Holds(w, e)' /\ w \notin Unrequested(e)'
      /\ \A h \in Webhook : w \notin Charging(h)'
  BY <1>1 DEF Holds, Unrequested, Charging
<1>4. Claims' /\ OneHolder'
  BY <1>1, <1>3, KeepsClaims
<1>5. SendsClaimed'
  BY <1>1, <1>3, NoneSent
<1>6. RefusedMarked' /\ NoEarlyDeath' /\ ExhaustedOnce'
  BY <1>1, <1>3, KeepsOutcomes
<1>7. ChargesOwed'
  BY <1>1, <1>3, NoneCharged
<1>. QED
  BY <1>2, <1>4, <1>5, <1>6, <1>7 DEF IInv

-----------------------------------------------------------------------------

LEMMA InitInv == Init => IInv
<1> SUFFICES ASSUME Init PROVE IInv
  OBVIOUS
<1>1. TypeOK
  BY WebhookAssumption DEF Init, TypeOK, Status, Phase, Outcome
<1>2. Claims /\ OneHolder /\ RefusedMarked /\ NoEarlyDeath
  BY DEF Init, Claims, OneHolder, RefusedMarked, NoEarlyDeath, Holds
<1>3. ExhaustedOnce
  BY FS_EmptySet DEF Init, ExhaustedOnce
<1>4. SendsClaimed
  <2>1. \A d \in Delivery : Unrequested(d) = {}
    BY DEF Init, Unrequested, Holds
  <2>. QED
    BY <2>1, FS_EmptySet DEF Init, SendsClaimed
<1>5. ChargesOwed
  <2>1. \A h \in Webhook : Charging(h) = {} /\ Exhausted(h) = {}
    BY DEF Init, Charging, Exhausted
  <2>. QED
    BY <2>1, FS_EmptySet DEF Init, ChargesOwed
<1>. QED
  BY <1>1, <1>2, <1>3, <1>4, <1>5 DEF IInv

LEMMA NextKeepsInv == IInv /\ [Next]_vars => IInv'
<1> SUFFICES ASSUME IInv, [Next]_vars PROVE IInv'
  OBVIOUS
<1>1. CASE \E w \in Worker : WorkerStep(w)
  BY <1>1, SelectKeepsInv, ClaimKeepsInv, LoadKeepsInv, RequestKeepsInv,
     MarkKeepsInv, ReadKeepsInv, ChargeKeepsInv DEF WorkerStep
<1>2. CASE \E w \in Worker : Crash(w)
  BY <1>2, CrashKeepsInv
<1>. QED
  BY <1>1, <1>2, ApiStepsKeepInv DEF Next

LEMMA InvHolds == Spec => []IInv
BY InitInv, NextKeepsInv, PTL DEF Spec

-----------------------------------------------------------------------------

\* The queue, the endpoints and the workers keep their types: in particular a
\* claim never counts a row past MAX_ATTEMPTS, and a tick that selects has
\* something to claim (claimDue, delivery.ts).
THEOREM TypeCorrect == Spec => []TypeOK
BY InvHolds, PTL DEF IInv

\* Each attempt of a row is one worker's and is requested at most once,
\* whatever the crashes and the concurrent loops (the compare-and-set of
\* claimDue).
THEOREM AttemptsOnce == Spec => []AttemptsAreMadeOnce
<1>1. IInv => AttemptsAreMadeOnce
  <2> SUFFICES ASSUME IInv, NEW d \in Delivery
               PROVE  /\ sent[d] <= attempts[d]
                      /\ \A w, v \in Worker :
                            w # v /\ Holds(w, d) /\ Holds(v, d) => token[w][d] # token[v][d]
    BY DEF AttemptsAreMadeOnce
  <2>1. sent[d] \in Nat /\ attempts[d] \in Nat /\ Cardinality(Unrequested(d)) \in Nat
    BY FiniteSets DEF IInv, TypeOK, ExhaustedOnce
  <2>. QED
    BY <2>1 DEF IInv, OneHolder, SendsClaimed
<1>. QED
  BY <1>1, InvHolds, PTL

\* failure_count never exceeds the deliveries of the endpoint whose last
\* attempt failed, however workers overwrite each other's count
\* (registerFailureAndMaybeDisable).
THEOREM ChargesOnce == Spec => []ChargedOnce
<1>1. IInv => ChargedOnce
  <2> SUFFICES ASSUME IInv, NEW h \in Webhook
               PROVE  failures[h] <= Cardinality(Exhausted(h))
    BY DEF ChargedOnce, Exhausted
  <2>1. failures[h] \in Nat /\ Cardinality(Charging(h)) \in Nat /\ Cardinality(Exhausted(h)) \in Nat
    BY FiniteSets DEF IInv, TypeOK, ExhaustedOnce
  <2>. QED
    BY <2>1 DEF IInv, ChargesOwed
<1>. QED
  BY <1>1, InvHolds, PTL

\* A delivery dies only of a used-up budget or at an endpoint that was missing
\* or disabled, also when its claim had been taken over (markOutcome).
THEOREM DeathIsEarned == Spec => []NoEarlyDeath
BY InvHolds, PTL DEF IInv
=============================================================================
