-------------------------- MODULE OrgBillingProofs --------------------------
(***************************************************************************)
(* Theorems about the billing state of an org, for any plans, prices,      *)
(* subscriptions, callers and bounds: type correctness, that nothing is    *)
(* invented, that a grace period and past_due come and go together, and    *)
(* that the row agrees with the processor once its events were applied.    *)
(***************************************************************************)
EXTENDS OrgBilling, SequenceTheorems, TLAPS

USE DEF vars, orgVars, hookVars, sweepVars, history, processorOnly, callerOnly,
        rowOnly

\* A subscription somebody paid for.
Started(s) == sub[s].state \in {"active", "past_due", "ended"}

\* What the org's row says.
RowIsFounded ==
    /\ planId \in Paid => planId \in bought
    /\ pending # None => pending \in bought
    /\ pendingAt # "none" => pending # None
    /\ subscription # None => Started(subscription)

SalesAreBought ==
    \A s \in Sub :
        /\ sub[s].state # "none" => sub[s].plan \in Paid
        /\ Started(s) => sub[s].plan \in bought

EventsAreFounded ==
    /\ \A i \in 1..Len(event) :
          /\ Started(event[i].sub)
          /\ event[i].plan # None => event[i].plan \in bought
    /\ \A h \in Handler : handling[h] <= Len(event)

\* What an owner's request read from the row, the processor or the owner.
CallsAreFounded ==
    \A c \in Caller :
        /\ call[c].op \in {"checkout", "change", "reconcile"} =>
              call[c].plan \in Paid
        /\ call[c].op \in {"change", "schedule", "reconcile"} =>
              call[c].sub \in Sub /\ Started(call[c].sub)
        /\ call[c].op = "reconcile" \/ (call[c].op = "change" /\ call[c].step = "write")
              => call[c].plan \in bought

IInv ==
    /\ TypeOK
    /\ RowIsFounded
    /\ SalesAreBought
    /\ EventsAreFounded
    /\ CallsAreFounded

-----------------------------------------------------------------------------
\* What a step needs to leave the events alone, or the calls.
Growing ==
    /\ \A s \in Sub : Started(s) => Started(s)'
    /\ bought \subseteq bought'

LEMMA EventAt ==
  ASSUME TypeOK, NEW i \in 1..Len(event)
  PROVE  event[i] \in Event /\ event[i].sub \in Sub /\ event[i].kind \in Kind
         /\ event[i].plan \in Paid \cup {None}
<1>1. event[i] \in Event
  BY ElementOfSeq, LenProperties DEF TypeOK
<1>. QED
  BY <1>1 DEF Event

\* The processor changes one field of a subscription at a time.
SubType == [Sub -> [state : SubState, plan : Paid \cup {None}, ends : BOOLEAN]]

LEMMA SubChanges ==
  ASSUME TypeOK, NEW s \in Sub
  PROVE  /\ \A st \in SubState : [sub EXCEPT ![s].state = st] \in SubType
         /\ \A p \in Paid : [sub EXCEPT ![s].plan = p] \in SubType
         /\ \A b \in BOOLEAN : [sub EXCEPT ![s].ends = b] \in SubType
<1>1. sub \in SubType
  BY DEF TypeOK, SubType
<1>. QED
  BY <1>1 DEF SubType

LEMMA EventsStay ==
  ASSUME TypeOK, EventsAreFounded, Growing, event' = event, handling' = handling
  PROVE  EventsAreFounded'
BY EventAt DEF EventsAreFounded, Growing

LEMMA CallsStay ==
  ASSUME TypeOK, CallsAreFounded, Growing, call' = call
  PROVE  CallsAreFounded'
BY DEF CallsAreFounded, Growing

LEMMA Emitting ==
  ASSUME TypeOK, EventsAreFounded, Growing, handling' = handling,
         NEW k \in Kind, NEW s \in Sub, NEW p \in Paid \cup {None}, Emit(k, s, p),
         Started(s)', p # None => p \in bought'
  PROVE  /\ event' \in Seq(Event)
         /\ Len(event') <= EventBound
         /\ EventsAreFounded'
<1>. DEFINE e == [kind |-> k, sub |-> s, plan |-> p]
<1>1. event \in Seq(Event) /\ e \in Event /\ event' = Append(event, e)
      /\ Len(event) < EventBound /\ EventBound \in Nat
  BY BillingAssumption DEF TypeOK, Emit, Event
<1>2. /\ event' \in Seq(Event)
      /\ Len(event') = Len(event) + 1
      /\ \A i \in 1..Len(event) : event'[i] = event[i]
      /\ event'[Len(event) + 1] = e
  BY <1>1, AppendProperties
<1>3. Len(event) \in Nat
  BY <1>1, LenProperties
<1>4. ASSUME NEW i \in 1..Len(event')
      PROVE  (/\ Started(event[i].sub)
              /\ event[i].plan # None => event[i].plan \in bought)'
  <2>1. CASE i = Len(event) + 1
    BY <1>2, <2>1 DEF Started
  <2>2. CASE i \in 1..Len(event)
    <3>1. event'[i] = event[i] /\ event[i].sub \in Sub
      BY <1>2, <2>2, EventAt
    <3>2. Started(event[i].sub) /\ (event[i].plan # None => event[i].plan \in bought)
      BY <2>2 DEF EventsAreFounded
    <3>. QED
      BY <3>1, <3>2 DEF Growing, Started
  <2>. QED
    BY <1>2, <1>3, <2>1, <2>2
<1>5. ASSUME NEW h \in Handler PROVE handling'[h] <= Len(event')
  <2>1. handling[h] \in 0..EventBound /\ handling[h] <= Len(event)
    BY DEF TypeOK, EventsAreFounded
  <2>. QED
    BY <2>1, <1>2, <1>3, BillingAssumption
<1>. QED
  BY <1>1, <1>2, <1>3, <1>4, <1>5 DEF EventsAreFounded

-----------------------------------------------------------------------------
LEMMA ProcessorKeepsInv ==
  ASSUME IInv, NEW s \in Sub, Processor(s)
  PROVE  IInv'
<1>. USE DEF IInv
<1>1. CASE CompleteCheckout(s)
  <2>1. Growing /\ handling' = handling /\ call' = call /\ Started(s)'
    BY <1>1 DEF TypeOK, CompleteCheckout, Growing, Started
  <2>2. event' \in Seq(Event) /\ Len(event') <= EventBound /\ EventsAreFounded'
    BY <1>1, <2>1, Emitting DEF CompleteCheckout, Kind
  <2>3. TypeOK'
    <3>1. sub' \in SubType
      BY <1>1, SubChanges DEF CompleteCheckout, SubState
    <3>2. bought' \subseteq Plan
      BY <1>1 DEF TypeOK, CompleteCheckout, SalesAreBought, Plan
    <3>. QED
      BY <1>1, <2>2, <3>1, <3>2 DEF TypeOK, CompleteCheckout, SubType
  <2>4. RowIsFounded' /\ SalesAreBought'
    BY <1>1 DEF TypeOK, CompleteCheckout, RowIsFounded, SalesAreBought, Started
  <2>. QED
    BY <2>1, <2>2, <2>3, <2>4, CallsStay
<1>2. CASE AnnounceUpdate(s)
  <2>1. Growing /\ handling' = handling /\ call' = call /\ Started(s)'
    BY <1>2 DEF TypeOK, AnnounceUpdate, Live, Growing, Started
  <2>2. sub[s].plan \in Paid \cup {None} /\ sub[s].plan \in bought'
    BY <1>2 DEF TypeOK, AnnounceUpdate, SalesAreBought, Live, Started
  <2>3. event' \in Seq(Event) /\ Len(event') <= EventBound /\ EventsAreFounded'
    BY <1>2, <2>1, <2>2, Emitting DEF AnnounceUpdate, Kind
  <2>4. TypeOK'
    BY <1>2, <2>3 DEF TypeOK, AnnounceUpdate
  <2>5. RowIsFounded' /\ SalesAreBought'
    BY <1>2 DEF AnnounceUpdate, RowIsFounded, SalesAreBought, Started
  <2>. QED
    BY <2>1, <2>3, <2>4, <2>5, CallsStay
<1>3. CASE ChargeFails(s)
  <2>1. Growing /\ handling' = handling /\ call' = call /\ Started(s)'
    BY <1>3 DEF TypeOK, ChargeFails, Growing, Started
  <2>2. event' \in Seq(Event) /\ Len(event') <= EventBound /\ EventsAreFounded'
    BY <1>3, <2>1, Emitting DEF ChargeFails, Kind
  <2>3. sub' \in SubType
    BY <1>3, SubChanges DEF ChargeFails, SubState
  <2>4. TypeOK'
    BY <1>3, <2>2, <2>3 DEF TypeOK, ChargeFails, SubType
  <2>5. RowIsFounded' /\ SalesAreBought'
    BY <1>3 DEF TypeOK, ChargeFails, RowIsFounded, SalesAreBought, Started
  <2>. QED
    BY <2>1, <2>2, <2>4, <2>5, CallsStay
<1>4. CASE ChargeSucceeds(s)
  <2>1. Growing /\ handling' = handling /\ call' = call /\ Started(s)'
    BY <1>4 DEF TypeOK, ChargeSucceeds, Live, Growing, Started
  <2>2. event' \in Seq(Event) /\ Len(event') <= EventBound /\ EventsAreFounded'
    BY <1>4, <2>1, Emitting DEF ChargeSucceeds, Kind
  <2>3. sub' \in SubType
    BY <1>4, SubChanges DEF ChargeSucceeds, SubState
  <2>4. TypeOK'
    BY <1>4, <2>2, <2>3 DEF TypeOK, ChargeSucceeds, SubType
  <2>5. RowIsFounded' /\ SalesAreBought'
    BY <1>4 DEF TypeOK, ChargeSucceeds, Live, RowIsFounded, SalesAreBought, Started
  <2>. QED
    BY <2>1, <2>2, <2>4, <2>5, CallsStay
<1>5. CASE EndSubscription(s)
  <2>1. Growing /\ handling' = handling /\ call' = call /\ Started(s)'
    BY <1>5 DEF TypeOK, EndSubscription, Live, Growing, Started
  <2>2. event' \in Seq(Event) /\ Len(event') <= EventBound /\ EventsAreFounded'
    BY <1>5, <2>1, Emitting DEF EndSubscription, Kind
  <2>3. sub' \in SubType
    BY <1>5, SubChanges DEF EndSubscription, SubState
  <2>4. TypeOK'
    BY <1>5, <2>2, <2>3 DEF TypeOK, EndSubscription, SubType
  <2>5. RowIsFounded' /\ SalesAreBought'
    BY <1>5 DEF TypeOK, EndSubscription, Live, RowIsFounded, SalesAreBought, Started
  <2>. QED
    BY <2>1, <2>2, <2>4, <2>5, CallsStay
<1>6. CASE PortalSchedules(s)
  <2>1. Growing /\ event' = event /\ handling' = handling /\ call' = call
    BY <1>6 DEF TypeOK, PortalSchedules, Growing, Started
  <2>2. TypeOK'
    <3>1. sub' \in SubType
      <4>1. sub[s].ends \in BOOLEAN
        BY DEF TypeOK
      <4>. QED
        BY <4>1, <1>6, SubChanges DEF PortalSchedules
    <3>2. requests' \in 0..RequestBound
      BY <1>6, BillingAssumption DEF TypeOK, PortalSchedules, Request
    <3>. QED
      BY <1>6, <3>1, <3>2 DEF TypeOK, PortalSchedules, SubType
  <2>3. RowIsFounded' /\ SalesAreBought'
    BY <1>6 DEF TypeOK, PortalSchedules, RowIsFounded, SalesAreBought, Started
  <2>. QED
    BY <2>1, <2>2, <2>3, EventsStay, CallsStay
<1>. QED
  BY <1>1, <1>2, <1>3, <1>4, <1>5, <1>6 DEF Processor

LEMMA DeliveryKeepsInv ==
  ASSUME IInv, NEW h \in Handler, NEW e \in EventId, AcceptDelivery(h, e)
  PROVE  IInv'
<1>. USE DEF IInv
<1>1. Growing /\ event' = event /\ call' = call
  BY DEF AcceptDelivery, Growing, Started
<1>2. TypeOK'
  BY DEF TypeOK, AcceptDelivery, EventId
<1>3. EventsAreFounded'
  <2>1. \A g \in Handler : handling'[g] <= Len(event)
    BY DEF TypeOK, AcceptDelivery, EventsAreFounded
  <2>. QED
    BY <2>1, <1>1, EventAt DEF EventsAreFounded, Growing
<1>4. RowIsFounded' /\ SalesAreBought'
  BY DEF AcceptDelivery, RowIsFounded, SalesAreBought, Started
<1>. QED
  BY <1>1, <1>2, <1>3, <1>4, CallsStay

LEMMA WebhookKeepsInv ==
  ASSUME IInv, NEW h \in Handler, NEW e \in EventId,
         applyBillingWebhookEvent(h, e)
  PROVE  IInv'
<1>. USE DEF IInv
<1>1. Growing /\ event' = event /\ call' = call /\ sub' = sub /\ bought' = bought
  BY DEF applyBillingWebhookEvent, Growing, Started
<1>2. e \in 1..Len(event) /\ Len(event) \in Nat
  BY LenProperties DEF TypeOK, applyBillingWebhookEvent, EventsAreFounded, EventId
<1>3. /\ event[e].sub \in Sub /\ Started(event[e].sub)
      /\ event[e].plan \in Paid \cup {None}
      /\ event[e].plan # None => event[e].plan \in bought
  BY <1>2, EventAt DEF EventsAreFounded
<1>4. EventsAreFounded'
  <2>1. \A g \in Handler : handling'[g] = 0 \/ handling'[g] = handling[g]
    BY DEF TypeOK, applyBillingWebhookEvent
  <2>2. \A g \in Handler : handling'[g] <= Len(event)
    BY <2>1, <1>2 DEF EventsAreFounded
  <2>. QED
    BY <2>2, <1>1, EventAt DEF EventsAreFounded, Growing
<1>5. CallsAreFounded' /\ SalesAreBought'
  BY <1>1, CallsStay DEF SalesAreBought, Started
<1>6. /\ handling' \in [Handler -> 0..EventBound]
      /\ seen' \subseteq EventId
      /\ orderly' \in BOOLEAN
      /\ applied' \in 0..EventBound
  <2>1. applied' = e \/ applied' = 0
    BY DEF applyBillingWebhookEvent
  <2>2. 0 \in 0..EventBound /\ e \in 0..EventBound
    BY BillingAssumption DEF EventId
  <2>3. orderly' \in BOOLEAN
    BY DEF applyBillingWebhookEvent
  <2>. QED
    BY <2>1, <2>2, <2>3 DEF TypeOK, applyBillingWebhookEvent
<1>7. CASE Activate(e)
  <2>1. PlanOf(e) \in Plan /\ (PlanOf(e) \in Paid => PlanOf(e) \in bought)
    BY <1>3 DEF PlanOf, TypeOK, Plan, RowIsFounded
  <2>2. TypeOK'
    BY <1>1, <1>3, <1>6, <1>7, <2>1
    DEF TypeOK, Activate, applyBillingWebhookEvent, Date
  <2>3. RowIsFounded'
    BY <1>1, <1>3, <1>7, <2>1 DEF RowIsFounded, Activate, Started
  <2>. QED
    BY <1>4, <1>5, <2>2, <2>3
<1>8. ASSUME FailPayment \/ RecoverPayment \/ CancelSubscription
      PROVE  IInv'
  <2>1. /\ status' \in {"trialing", "active", "past_due", "canceled"}
        /\ grace' \in Date /\ cancelAtPeriodEnd' \in BOOLEAN
        /\ renewedGrace' \in BOOLEAN
    BY <1>8 DEF TypeOK, Date, FailPayment, RecoverPayment, CancelSubscription
  <2>2. UNCHANGED <<planId, subscription, trialOver, periodEnd, paying, pending,
                    pendingAt>>
    BY <1>8 DEF FailPayment, RecoverPayment, CancelSubscription
  <2>3. TypeOK'
    BY <1>1, <1>6, <2>1, <2>2 DEF TypeOK, applyBillingWebhookEvent
  <2>4. RowIsFounded'
    BY <1>1, <2>2 DEF RowIsFounded, Started
  <2>. QED
    BY <1>4, <1>5, <2>3, <2>4
<1>. QED
  BY <1>7, <1>8 DEF applyBillingWebhookEvent

-----------------------------------------------------------------------------
\* What a request holds at every step of its way.
Founded(r) ==
    /\ r.op \in {"checkout", "change", "reconcile"} => r.plan \in Paid
    /\ r.op \in {"change", "schedule", "reconcile"} =>
          r.sub \in Sub /\ Started(r.sub)
    /\ r.op = "reconcile" \/ (r.op = "change" /\ r.step = "write")
          => r.plan \in bought

LEMMA IdleIsFounded == Idle \in Call /\ Founded(Idle)
BY DEF Idle, Call, Date, Founded

\* A request that goes where its new record says leaves the others alone.
LEMMA OneCallMoves ==
  ASSUME TypeOK, CallsAreFounded, Growing, NEW c \in Caller, NEW r \in Call,
         call' = [call EXCEPT ![c] = r], Founded(r)'
  PROVE  call' \in [Caller -> Call] /\ CallsAreFounded'
<1>1. call' \in [Caller -> Call]
  BY DEF TypeOK
<1>2. ASSUME NEW d \in Caller PROVE Founded(call[d])'
  <2>1. CASE d = c
    <3>1. call'[d] = r
      BY <2>1 DEF TypeOK
    <3>. QED
      BY <3>1 DEF Founded, Started
  <2>2. CASE d # c
    <3>1. call'[d] = call[d] /\ Founded(call[d])
      BY <2>2 DEF TypeOK, CallsAreFounded, Founded
    <3>. QED
      BY <3>1 DEF Founded, Growing, Started
  <2>. QED
    BY <2>1, <2>2
<1>. QED
  BY <1>1, <1>2 DEF CallsAreFounded, Founded

\* Each call begins by reading the row, or the processor.
LEMMA BeginKeepsInv ==
  ASSUME IInv, NEW c \in Caller, NEW r \in Call, Founded(r), Begin(c, r), Request
  PROVE  IInv'
<1>. USE DEF IInv
<1>1. Growing /\ event' = event /\ handling' = handling
  BY DEF Begin, Growing, Started
<1>2. Founded(r)'
  BY <1>1 DEF Founded, Growing, Started, Begin
<1>3. call' \in [Caller -> Call] /\ CallsAreFounded'
  BY <1>1, <1>2, OneCallMoves DEF Begin
<1>4. requests' \in 0..RequestBound
  BY BillingAssumption DEF TypeOK, Request
<1>5. TypeOK'
  BY <1>3, <1>4 DEF TypeOK, Begin
<1>6. RowIsFounded' /\ SalesAreBought'
  BY DEF Begin, RowIsFounded, SalesAreBought, Started
<1>. QED
  BY <1>1, <1>3, <1>5, <1>6, EventsStay

LEMMA CallerBegins ==
  ASSUME IInv, NEW c \in Caller,
         \/ \E p \in Paid : createCheckoutSession(c, p)
         \/ \E p \in Paid : changePlan(c, p)
         \/ \E ends \in BOOLEAN : schedulePlan(c, ends)
         \/ ReadProcessor(c)
  PROVE  IInv'
<1>. USE DEF IInv
<1>1. ASSUME NEW p \in Paid, createCheckoutSession(c, p) PROVE IInv'
  <2>. DEFINE r == [Idle EXCEPT !.op = "checkout", !.step = "call", !.plan = p]
  <2>1. r \in Call /\ Founded(r)
    BY DEF Idle, Call, Date, Founded
  <2>. QED
    BY <1>1, <2>1, BeginKeepsInv DEF createCheckoutSession
<1>2. ASSUME NEW p \in Paid, changePlan(c, p) PROVE IInv'
  <2>. DEFINE r == [op |-> "change", step |-> "call", plan |-> p,
                    sub |-> subscription, paying |-> paying, at |-> periodEnd,
                    ends |-> FALSE]
  <2>1. r \in Call /\ Founded(r)
    BY <1>2 DEF changePlan, TypeOK, RowIsFounded, Call, Founded
  <2>. QED
    BY <1>2, <2>1, BeginKeepsInv DEF changePlan
<1>3. ASSUME NEW ends \in BOOLEAN, schedulePlan(c, ends) PROVE IInv'
  <2>. DEFINE r == [Idle EXCEPT !.op = "schedule", !.step = "call",
                                !.sub = subscription, !.ends = ends]
  <2>1. r \in Call /\ Founded(r)
    BY <1>3 DEF schedulePlan, TypeOK, RowIsFounded, Idle, Call, Date, Founded
  <2>. QED
    BY <1>3, <2>1, BeginKeepsInv DEF schedulePlan
<1>4. ASSUME ReadProcessor(c) PROVE IInv'
  <2>1. PICK s \in Live :
          Begin(c, [Idle EXCEPT !.op = "reconcile", !.step = "write",
                                !.plan = sub[s].plan, !.sub = s,
                                !.ends = sub[s].ends])
    BY <1>4 DEF ReadProcessor
  <2>. DEFINE r == [Idle EXCEPT !.op = "reconcile", !.step = "write",
                                !.plan = sub[s].plan, !.sub = s,
                                !.ends = sub[s].ends]
  <2>2. /\ s \in Sub /\ Started(s)
        /\ sub[s].plan \in Paid /\ sub[s].plan \in bought
        /\ sub[s].ends \in BOOLEAN
    BY DEF Live, Started, SalesAreBought, TypeOK
  <2>3. r \in Call /\ Founded(r)
    BY <2>2 DEF Idle, Call, Date, Founded
  <2>. QED
    BY <1>4, <2>1, <2>3, BeginKeepsInv DEF ReadProcessor
<1>. QED
  BY <1>1, <1>2, <1>3, <1>4

\* The request ends, here or in failure.
LEMMA ForgettingKeepsCalls ==
  ASSUME IInv, NEW c \in Caller, ForgetCall(c), Growing
  PROVE  call' \in [Caller -> Call] /\ CallsAreFounded'
<1>1. Founded(Idle)'
  BY DEF Idle, Founded
<1>. QED
  BY <1>1, IdleIsFounded, OneCallMoves DEF IInv, ForgetCall

\* The request has the processor's answer and has its row to write.
LEMMA AwaitingKeepsCalls ==
  ASSUME IInv, NEW c \in Caller, AwaitWrite(c), Growing,
         call[c].op \in {"change", "schedule"},
         call[c].op = "change" => call[c].plan \in bought'
  PROVE  call' \in [Caller -> Call] /\ CallsAreFounded'
<1>1. call[c] \in Call /\ Founded(call[c])
  BY DEF IInv, TypeOK, CallsAreFounded, Founded
<1>2. PICK r \in Call : r = [call[c] EXCEPT !.step = "write"]
  BY <1>1 DEF Call
<1>3. r.op = call[c].op /\ r.plan = call[c].plan /\ r.sub = call[c].sub
  BY <1>1, <1>2 DEF Call
<1>4. /\ r.plan \in Paid \/ r.op = "schedule"
      /\ r.sub \in Sub /\ Started(r.sub)'
      /\ r.op = "change" => r.plan \in bought'
  BY <1>1, <1>3 DEF Founded, Growing
<1>5. Founded(r)'
  BY <1>3, <1>4 DEF Founded, Started
<1>6. call' = [call EXCEPT ![c] = r]
  BY <1>2 DEF AwaitWrite
<1>. QED
  BY <1>5, <1>6, OneCallMoves DEF IInv

LEMMA CallerContinues ==
  ASSUME IInv, NEW c \in Caller,
         \/ OpenSession(c) \/ Reprice(c) \/ ScheduleEnd(c)
         \/ WriteChange(c) \/ WriteSchedule(c) \/ WriteReconciled(c)
         \/ Abandon(c)
  PROVE  IInv'
<1>. USE DEF IInv
<1>0. call[c] \in Call /\ Founded(call[c])
  BY DEF TypeOK, CallsAreFounded, Founded
<1>1. CASE OpenSession(c)
  <2>1. PICK s \in Sub :
          /\ sub[s].state = "none"
          /\ sub' = [sub EXCEPT ![s] = [state |-> "offered",
                                        plan |-> call[c].plan, ends |-> FALSE]]
    BY <1>1 DEF OpenSession
  <2>2. call[c].plan \in Paid
    BY <1>0, <1>1 DEF OpenSession, Founded
  <2>3. Growing /\ event' = event /\ handling' = handling
    BY <1>1, <2>1 DEF OpenSession, TypeOK, Growing, Started
  <2>4. call' \in [Caller -> Call] /\ CallsAreFounded'
    BY <1>1, <2>3, ForgettingKeepsCalls DEF OpenSession
  <2>5. sub' \in SubType
    BY <2>1, <2>2 DEF TypeOK, SubType, SubState
  <2>6. TypeOK'
    BY <1>1, <2>4, <2>5 DEF TypeOK, OpenSession, SubType
  <2>7. RowIsFounded' /\ SalesAreBought'
    BY <1>1, <2>1, <2>2 DEF TypeOK, OpenSession, RowIsFounded, SalesAreBought, Started
  <2>. QED
    BY <2>3, <2>4, <2>6, <2>7, EventsStay
<1>2. CASE Reprice(c)
  <2>1. call[c].sub \in Sub /\ call[c].plan \in Paid
    BY <1>0, <1>2 DEF Reprice, Live, Founded
  <2>2. Growing /\ event' = event /\ handling' = handling
    BY <1>2, <2>1 DEF Reprice, TypeOK, Growing, Started
  <2>3. call' \in [Caller -> Call] /\ CallsAreFounded'
    BY <1>2, <2>2, AwaitingKeepsCalls DEF Reprice
  <2>4. sub' \in SubType
    BY <1>2, <2>1, SubChanges DEF Reprice
  <2>5. bought' \subseteq Plan
    BY <1>2, <2>1 DEF Reprice, TypeOK, Plan
  <2>6. TypeOK'
    BY <1>2, <2>3, <2>4, <2>5 DEF TypeOK, Reprice, SubType
  <2>7. RowIsFounded' /\ SalesAreBought'
    BY <1>2, <2>1 DEF TypeOK, Reprice, RowIsFounded, SalesAreBought, Started
  <2>. QED
    BY <2>2, <2>3, <2>6, <2>7, EventsStay
<1>3. CASE ScheduleEnd(c)
  <2>1. call[c].sub \in Sub /\ call[c].ends \in BOOLEAN
    BY <1>0, <1>3 DEF ScheduleEnd, Live, Call
  <2>2. Growing /\ event' = event /\ handling' = handling
    BY <1>3, <2>1 DEF ScheduleEnd, TypeOK, Growing, Started
  <2>3. call' \in [Caller -> Call] /\ CallsAreFounded'
    BY <1>3, <2>2, AwaitingKeepsCalls DEF ScheduleEnd
  <2>4. sub' \in SubType
    BY <1>3, <2>1, SubChanges DEF ScheduleEnd
  <2>5. TypeOK'
    BY <1>3, <2>3, <2>4 DEF TypeOK, ScheduleEnd, SubType
  <2>6. RowIsFounded' /\ SalesAreBought'
    BY <1>3, <2>1 DEF TypeOK, ScheduleEnd, RowIsFounded, SalesAreBought, Started
  <2>. QED
    BY <2>2, <2>3, <2>5, <2>6, EventsStay
<1>4. ASSUME ForgetCall(c), UNCHANGED <<sub, event, bought, callerOnly>>,
             status' \in {"trialing", "active", "past_due", "canceled"},
             planId' \in Plan, subscription' \in Sub \cup {None},
             trialOver' = trialOver, grace' \in Date, periodEnd' \in Date,
             pendingAt' \in Date, paying' \in Paid \cup {None},
             pending' \in Paid \cup {None}, cancelAtPeriodEnd' \in BOOLEAN,
             RowIsFounded'
      PROVE  IInv'
  <2>1. Growing /\ event' = event /\ handling' = handling
    BY <1>4 DEF Growing, Started
  <2>2. call' \in [Caller -> Call] /\ CallsAreFounded'
    BY <1>4, <2>1, ForgettingKeepsCalls
  <2>3. TypeOK'
    BY <1>4, <2>2 DEF TypeOK
  <2>4. SalesAreBought'
    BY <1>4 DEF SalesAreBought, Started
  <2>. QED
    BY <1>4, <2>1, <2>2, <2>3, <2>4, EventsStay
<1>5. CASE WriteChange(c)
  <2>1. call[c].plan \in Paid /\ call[c].plan \in bought /\ call[c].plan # None
        /\ call[c].at \in Date
    BY <1>0, <1>5, BillingAssumption DEF WriteChange, Founded, Call, Plan
  <2>2. RowIsFounded'
    BY <1>5, <2>1 DEF WriteChange, RowIsFounded, Started
  <2>. QED
    BY <1>4, <1>5, <2>1, <2>2 DEF WriteChange, TypeOK, Plan, Date
<1>6. CASE WriteSchedule(c)
  <2>1. RowIsFounded' /\ call[c].ends \in BOOLEAN
    BY <1>0, <1>6 DEF WriteSchedule, RowIsFounded, Started, Call
  <2>. QED
    BY <1>4, <1>6, <2>1 DEF WriteSchedule, TypeOK
<1>7. CASE WriteReconciled(c)
  <2>1. /\ call[c].plan \in Paid /\ call[c].plan \in bought
        /\ call[c].sub \in Sub /\ Started(call[c].sub)
        /\ call[c].ends \in BOOLEAN
    BY <1>0, <1>7 DEF WriteReconciled, Founded, Call
  <2>2. RowIsFounded'
    BY <1>7, <2>1 DEF WriteReconciled, RowIsFounded, Started
  <2>. QED
    BY <1>4, <1>7, <2>1, <2>2 DEF WriteReconciled, TypeOK, Plan, Date
<1>8. CASE Abandon(c)
  <2>1. RowIsFounded'
    BY <1>8 DEF Abandon, RowIsFounded, Started
  <2>. QED
    BY <1>4, <1>8, <2>1 DEF Abandon, TypeOK
<1>. QED
  BY <1>1, <1>2, <1>3, <1>5, <1>6, <1>7, <1>8

-----------------------------------------------------------------------------
\* The sweep and the clock write the row and the tick, and nothing else.
LEMMA RowWriteKeepsInv ==
  ASSUME IInv, UNCHANGED rowOnly, subscription' = subscription,
         status' \in {"trialing", "active", "past_due", "canceled"},
         planId' \in Plan, trialOver' \in BOOLEAN, grace' \in Date,
         periodEnd' \in Date, pendingAt' \in Date, paying' = paying,
         pending' \in Paid \cup {None}, cancelAtPeriodEnd' = cancelAtPeriodEnd,
         tick' \in {"idle", "plan", "trial", "grace"}, trialDue' \in BOOLEAN,
         graceDue' \in BOOLEAN, renewedGrace' \in BOOLEAN,
         planId' \in Paid => planId' \in bought,
         pending' # None => pending' \in bought,
         pendingAt' # "none" => pending' # None
  PROVE  IInv'
<1>. USE DEF IInv
<1>1. Growing /\ event' = event /\ handling' = handling /\ call' = call
  BY DEF Growing, Started
<1>2. TypeOK'
  BY DEF TypeOK
<1>3. RowIsFounded' /\ SalesAreBought'
  BY DEF RowIsFounded, SalesAreBought, Started
<1>. QED
  BY <1>1, <1>2, <1>3, EventsStay, CallsStay

LEMMA SweepKeepsInv ==
  ASSUME IInv, SweepStep \/ TrialRunsOut \/ GraceRunsOut \/ PeriodEnds
  PROVE  IInv'
<1>. USE DEF IInv, TypeOK, RowIsFounded, Plan, Date
<1>1. CASE ScanExpired
  <2>1. /\ tick' \in {"idle", "plan", "trial", "grace"} /\ trialDue' \in BOOLEAN
        /\ graceDue' \in BOOLEAN /\ renewedGrace' \in BOOLEAN
    BY <1>1 DEF ScanExpired, TrialExpired, GraceExpired
  <2>. QED
    BY <1>1, <2>1, RowWriteKeepsInv DEF ScanExpired
<1>2. CASE applyPendingPlanChange
  <2>1. CASE pendingAt = "passed"
    BY <1>2, <2>1, RowWriteKeepsInv DEF applyPendingPlanChange
  <2>2. CASE pendingAt # "passed"
    BY <1>2, <2>2, RowWriteKeepsInv DEF applyPendingPlanChange
  <2>. QED
    BY <2>1, <2>2
<1>3. CASE expireTrial
  <2>1. Default \notin Paid
    BY BillingAssumption
  <2>2. tick' \in {"idle", "grace"}
    BY <1>3 DEF expireTrial
  <2>3. CASE status = "trialing"
    BY <1>3, <2>1, <2>2, <2>3, RowWriteKeepsInv DEF expireTrial
  <2>4. CASE status # "trialing"
    BY <1>3, <2>2, <2>4, RowWriteKeepsInv DEF expireTrial
  <2>. QED
    BY <2>3, <2>4
<1>4. CASE expireGracePeriod
  <2>1. Default \notin Paid
    BY BillingAssumption
  <2>. QED
    BY <1>4, <2>1, RowWriteKeepsInv DEF expireGracePeriod
<1>5. CASE TrialRunsOut
  BY <1>5, RowWriteKeepsInv DEF TrialRunsOut
<1>6. CASE GraceRunsOut
  BY <1>6, RowWriteKeepsInv DEF GraceRunsOut
<1>7. CASE PeriodEnds
  BY <1>7, RowWriteKeepsInv DEF PeriodEnds, Pass
<1>. QED
  BY <1>1, <1>2, <1>3, <1>4, <1>5, <1>6, <1>7 DEF SweepStep

LEMMA OperatorKeepsInv ==
  ASSUME IInv, NEW p \in Paid \cup {Default}, setOrgPlan(p)
  PROVE  IInv'
<1>. USE DEF IInv
<1>1. Growing /\ event' = event /\ handling' = handling /\ call' = call
  BY DEF setOrgPlan, Growing, Started
<1>2. TypeOK'
  <2>1. requests' \in 0..RequestBound
    BY BillingAssumption DEF setOrgPlan, TypeOK, Request
  <2>2. planId' \in Plan /\ bought' \subseteq Plan
    BY DEF setOrgPlan, TypeOK, Plan
  <2>. QED
    BY <2>1, <2>2 DEF setOrgPlan, TypeOK
<1>3. RowIsFounded' /\ SalesAreBought'
  BY DEF setOrgPlan, RowIsFounded, SalesAreBought, Started
<1>. QED
  BY <1>1, <1>2, <1>3, EventsStay, CallsStay

-----------------------------------------------------------------------------
LEMMA InitFounded == Init => IInv
<1>. SUFFICES ASSUME Init PROVE IInv
  OBVIOUS
<1>1. TypeOK
  <2>1. event \in Seq(Event) /\ Len(event) <= EventBound
    BY BillingAssumption, EmptySeq DEF Init
  <2>2. call \in [Caller -> Call]
    BY IdleIsFounded DEF Init
  <2>3. handling \in [Handler -> 0..EventBound] /\ applied \in 0..EventBound
        /\ requests \in 0..RequestBound
    BY BillingAssumption DEF Init
  <2>4. sub \in SubType
    BY DEF Init, SubType, SubState
  <2>. QED
    BY <2>1, <2>2, <2>3, <2>4 DEF Init, TypeOK, Plan, Date, SubType
<1>2. RowIsFounded /\ SalesAreBought
  BY BillingAssumption DEF Init, RowIsFounded, SalesAreBought, Started
<1>3. Len(event) = 0
  BY EmptySeq DEF Init
<1>4. EventsAreFounded
  BY <1>3 DEF Init, EventsAreFounded
<1>5. CallsAreFounded
  BY DEF Init, CallsAreFounded, Idle
<1>. QED
  BY <1>1, <1>2, <1>4, <1>5 DEF IInv

LEMMA NextKeepsInv == IInv /\ [Next]_vars => IInv'
<1>. SUFFICES ASSUME IInv, [Next]_vars PROVE IInv'
  OBVIOUS
<1>1. CASE \E s \in Sub : Processor(s)
  BY <1>1, ProcessorKeepsInv
<1>2. CASE \E h \in Handler, e \in EventId :
             AcceptDelivery(h, e) \/ applyBillingWebhookEvent(h, e)
  BY <1>2, DeliveryKeepsInv, WebhookKeepsInv
<1>3. CASE \E c \in Caller : CallerStep(c)
  BY <1>3, CallerBegins, CallerContinues DEF CallerStep
<1>4. CASE SweepStep \/ TrialRunsOut \/ GraceRunsOut \/ PeriodEnds
  BY <1>4, SweepKeepsInv
<1>5. CASE \E p \in Paid \cup {Default} : setOrgPlan(p)
  BY <1>5, OperatorKeepsInv
<1>6. CASE UNCHANGED vars
  BY <1>6 DEF IInv, TypeOK, RowIsFounded, SalesAreBought, EventsAreFounded,
              CallsAreFounded, Started
<1>. QED
  BY <1>1, <1>2, <1>3, <1>4, <1>5, <1>6 DEF Next

LEMMA InvHolds == Spec => []IInv
BY InitFounded, NextKeepsInv, PTL DEF Spec

-----------------------------------------------------------------------------
(* What follows from the row alone, or from the row and the tick. *)

\* Nothing makes a trial of an org that has a subscription, and a parked
\* change has its plan.
RowIsCoherent ==
    /\ GraceIffPastDue
    /\ status = "trialing" => subscription = None

\* Past the scan, a deadline that is not reached was set after the scan.
TickIsCoherent ==
    /\ tick = "grace" => graceDue
    /\ tick # "idle" /\ graceDue /\ grace = "ahead" => renewedGrace

\* The steps that write the status, the deadline, the subscription or the tick.
LEMMA CoherentNext ==
  ASSUME IInv, RowIsCoherent, TickIsCoherent, [Next]_vars
  PROVE  RowIsCoherent' /\ TickIsCoherent'
<1>. USE DEF RowIsCoherent, TickIsCoherent, GraceIffPastDue
<1>1. CASE UNCHANGED <<status, subscription, grace, tick, graceDue, renewedGrace>>
  BY <1>1
<1>2. ASSUME NEW h \in Handler, NEW e \in EventId, applyBillingWebhookEvent(h, e)
      PROVE  RowIsCoherent' /\ TickIsCoherent'
  <2>1. tick' = tick /\ graceDue' = graceDue
    BY <1>2 DEF applyBillingWebhookEvent
  <2>2. CASE Activate(e)
    BY <2>1, <2>2 DEF Activate
  <2>3. CASE FailPayment
    BY <2>1, <2>3 DEF FailPayment
  <2>4. CASE RecoverPayment
    BY <2>1, <2>4 DEF RecoverPayment
  <2>5. CASE CancelSubscription
    BY <2>1, <2>5 DEF CancelSubscription
  <2>. QED
    BY <1>2, <2>2, <2>3, <2>4, <2>5 DEF applyBillingWebhookEvent
<1>3. ASSUME NEW c \in Caller, WriteReconciled(c)
      PROVE  RowIsCoherent' /\ TickIsCoherent'
  BY <1>3 DEF WriteReconciled
<1>4. CASE ScanExpired
  BY <1>4 DEF ScanExpired, TrialExpired, GraceExpired
<1>5. CASE applyPendingPlanChange
  BY <1>5 DEF applyPendingPlanChange
<1>6. CASE expireTrial
  BY <1>6 DEF expireTrial
<1>7. CASE expireGracePeriod
  BY <1>7 DEF expireGracePeriod
<1>8. CASE GraceRunsOut
  BY <1>8 DEF GraceRunsOut
<1>9. ASSUME NEW s \in Sub, Processor(s)
      PROVE  UNCHANGED <<status, subscription, grace, tick, graceDue, renewedGrace>>
  BY <1>9 DEF Processor, CompleteCheckout, AnnounceUpdate, ChargeFails,
              ChargeSucceeds, EndSubscription, PortalSchedules
<1>10. ASSUME NEW c \in Caller, CallerStep(c), ~WriteReconciled(c)
       PROVE  UNCHANGED <<status, subscription, grace, tick, graceDue, renewedGrace>>
  BY <1>10 DEF CallerStep, createCheckoutSession, changePlan, schedulePlan,
               ReadProcessor, Begin, OpenSession, Reprice, ScheduleEnd,
               WriteChange, WriteSchedule, Abandon
<1>11. ASSUME NEW h \in Handler, NEW e \in EventId, AcceptDelivery(h, e)
       PROVE  UNCHANGED <<status, subscription, grace, tick, graceDue, renewedGrace>>
  BY <1>11 DEF AcceptDelivery
<1>12. ASSUME TrialRunsOut \/ PeriodEnds \/ \E p \in Paid \cup {Default} : setOrgPlan(p)
       PROVE  UNCHANGED <<status, subscription, grace, tick, graceDue, renewedGrace>>
  BY <1>12 DEF TrialRunsOut, PeriodEnds, setOrgPlan
<1>13. CASE UNCHANGED vars
  BY <1>13, <1>1
<1>. QED
  BY <1>1, <1>2, <1>3, <1>4, <1>5, <1>6, <1>7, <1>8, <1>9, <1>10, <1>11,
     <1>12, <1>13 DEF Next, SweepStep

LEMMA CoherenceHolds == Spec => [](RowIsCoherent /\ TickIsCoherent)
<1>1. Init => RowIsCoherent /\ TickIsCoherent
  BY DEF Init, RowIsCoherent, TickIsCoherent, GraceIffPastDue
<1>2. IInv /\ (RowIsCoherent /\ TickIsCoherent) /\ [Next]_vars
        => (RowIsCoherent /\ TickIsCoherent)'
  BY CoherentNext
<1>. QED
  BY <1>1, <1>2, InvHolds, PTL DEF Spec

\* Only three kinds of step take a plan on sale away.
LEMMA PurchaseStep ==
  ASSUME IInv, RowIsCoherent, [Next]_vars,
         subscription # None, planId \in Paid, planId' \notin Paid
  PROVE  status = "past_due" \/ \E p \in Plan : setOrgPlan(p)
<1>. USE DEF IInv
<1>1. planId' # planId
  OBVIOUS
<1>2. ASSUME NEW h \in Handler, NEW e \in EventId, applyBillingWebhookEvent(h, e)
      PROVE  FALSE
  <2>1. e \in 1..Len(event)
    BY <1>2, LenProperties
    DEF TypeOK, applyBillingWebhookEvent, EventsAreFounded, EventId
  <2>2. planId' = planId \/ planId' = PlanOf(e)
    BY <1>2 DEF applyBillingWebhookEvent, Activate, FailPayment, RecoverPayment,
                CancelSubscription
  <2>3. PlanOf(e) \in Paid
    BY <2>1, EventAt DEF PlanOf
  <2>. QED
    BY <1>1, <2>2, <2>3
<1>3. ASSUME NEW c \in Caller, CallerStep(c) PROVE FALSE
  <2>1. planId' = planId \/ (call[c].op \in {"change", "reconcile"}
                             /\ planId' = call[c].plan)
    BY <1>3 DEF CallerStep, createCheckoutSession, changePlan, schedulePlan,
                ReadProcessor, Begin, OpenSession, Reprice, ScheduleEnd, Abandon,
                WriteChange, WriteSchedule, WriteReconciled
  <2>. QED
    BY <1>1, <2>1 DEF CallsAreFounded
<1>4. CASE applyPendingPlanChange
  BY <1>1, <1>4 DEF applyPendingPlanChange, RowIsFounded, TypeOK
<1>5. CASE expireTrial
  BY <1>1, <1>5 DEF expireTrial, RowIsCoherent
<1>6. CASE expireGracePeriod
  BY <1>1, <1>6 DEF expireGracePeriod
<1>7. ASSUME NEW p \in Paid \cup {Default}, setOrgPlan(p)
      PROVE  \E q \in Plan : setOrgPlan(q)
  BY <1>7 DEF Plan
<1>8. ASSUME NEW s \in Sub, Processor(s) PROVE planId' = planId
  BY <1>8 DEF Processor, CompleteCheckout, AnnounceUpdate, ChargeFails,
              ChargeSucceeds, EndSubscription, PortalSchedules
<1>9. ASSUME NEW h \in Handler, NEW e \in EventId, AcceptDelivery(h, e)
      PROVE  planId' = planId
  BY <1>9 DEF AcceptDelivery
<1>10. ASSUME ScanExpired \/ TrialRunsOut \/ GraceRunsOut \/ PeriodEnds
              \/ UNCHANGED vars
       PROVE  planId' = planId
  BY <1>10 DEF ScanExpired, TrialRunsOut, GraceRunsOut, PeriodEnds
<1>. QED
  BY <1>1, <1>2, <1>3, <1>4, <1>5, <1>6, <1>7, <1>8, <1>9, <1>10
  DEF Next, SweepStep

-----------------------------------------------------------------------------
(* Why the row agrees with the processor once the events have been applied. *)

Failed == "payment_failed"
Canceled == "subscription_canceled"

\* What the events say of the processor's subscriptions: a cancellation is the
\* last event of its subscription, and every change of state is announced.
EventsTell ==
    /\ \A i \in 1..Len(event) : event[i].kind = Canceled =>
          /\ sub[event[i].sub].state = "ended"
          /\ \A j \in i+1..Len(event) : event[j].sub # event[i].sub
    /\ \A s \in Sub : sub[s].state = "ended" =>
          \E i \in 1..Len(event) : event[i].kind = Canceled /\ event[i].sub = s
    /\ Len(event) > 0 /\ event[Len(event)].kind = Failed =>
          sub[event[Len(event)].sub].state = "past_due"

\* What the row has taken from the events that were applied in order, and what
\* a reconcile under way can put back.
AppliedInOrder ==
    /\ applied <= Len(event)
    /\ seen = 1..applied
    /\ status = "past_due" => applied > 0 /\ event[applied].kind = Failed
    /\ \A i \in 1..applied : event[i].kind = Canceled =>
          /\ subscription = event[i].sub => status = "canceled"
          /\ \A c \in Caller :
                call[c].op = "reconcile" /\ call[c].step = "write" => call[c].sub # event[i].sub

AgreeInv == IInv /\ EventsTell /\ (orderly => AppliedInOrder)

\* The processor appends an event: the others stay where they are.
LEMMA Appended ==
  ASSUME TypeOK, NEW k \in Kind, NEW s \in Sub, NEW p \in Paid \cup {None}, Emit(k, s, p)
  PROVE  /\ Len(event) \in Nat /\ Len(event') = Len(event) + 1
         /\ \A i \in 1..Len(event) : event'[i] = event[i]
         /\ event'[Len(event) + 1].kind = k /\ event'[Len(event) + 1].sub = s
<1>. DEFINE e == [kind |-> k, sub |-> s, plan |-> p]
<1>1. event \in Seq(Event) /\ e \in Event /\ event' = Append(event, e)
  BY DEF TypeOK, Emit, Event
<1>2. /\ Len(event') = Len(event) + 1
      /\ \A i \in 1..Len(event) : event'[i] = event[i]
      /\ event'[Len(event) + 1] = e
  BY <1>1, AppendProperties
<1>. QED
  BY <1>1, <1>2, LenProperties

\* An event of a subscription that had not ended, which then is as the event
\* says.
LEMMA EmitTells ==
  ASSUME TypeOK, EventsTell,
         NEW k \in Kind, NEW s \in Sub, NEW p \in Paid \cup {None}, Emit(k, s, p),
         sub[s].state # "ended", \A t \in Sub \ {s} : sub'[t] = sub[t],
         sub'[s].state = "ended" <=> k = Canceled,
         k = Failed => sub'[s].state = "past_due"
  PROVE  EventsTell'
<1>. PICK n \in Nat : n = Len(event)
  BY Appended
<1>1. /\ Len(event') = n + 1
      /\ \A i \in 1..n : event'[i] = event[i] /\ event[i].sub \in Sub
      /\ event'[n + 1].kind = k /\ event'[n + 1].sub = s
  BY Appended, EventAt
<1>2. \A i \in 1..n : event[i].kind = Canceled => event[i].sub # s
  BY DEF EventsTell
<1>3. ASSUME NEW i \in 1..n + 1, event'[i].kind = Canceled
      PROVE  /\ sub'[event'[i].sub].state = "ended"
             /\ \A j \in i+1..n + 1 : event'[j].sub # event'[i].sub
  <2>1. CASE i = n + 1
    BY <1>1, <1>3, <2>1
  <2>2. CASE i \in 1..n
    <3>1. /\ event'[i] = event[i] /\ event[i].sub \in Sub \ {s}
          /\ sub[event[i].sub].state = "ended"
          /\ \A j \in i+1..n : event[j].sub # event[i].sub
      BY <1>1, <1>2, <1>3, <2>2 DEF EventsTell
    <3>2. ASSUME NEW j \in i+1..n + 1 PROVE event'[j].sub # event'[i].sub
      <4>1. CASE j = n + 1
        BY <1>1, <3>1, <4>1
      <4>2. CASE j \in 1..n
        BY <1>1, <2>2, <3>1, <4>2
      <4>. QED
        BY <2>2, <4>1, <4>2
    <3>. QED
      BY <3>1, <3>2
  <2>. QED
    BY <2>1, <2>2
<1>4. ASSUME NEW t \in Sub, sub'[t].state = "ended"
      PROVE  \E i \in 1..n + 1 : event'[i].kind = Canceled /\ event'[i].sub = t
  <2>1. CASE t = s
    BY <1>1, <1>4, <2>1
  <2>2. CASE t # s
    <3>1. PICK i \in 1..n : event[i].kind = Canceled /\ event[i].sub = t
      BY <1>4, <2>2 DEF EventsTell
    <3>. QED
      BY <1>1, <3>1
  <2>. QED
    BY <2>1, <2>2
<1>. QED
  BY <1>1, <1>3, <1>4 DEF EventsTell

\* A step that neither emits an event nor ends or revives a subscription.
LEMMA StillTells ==
  ASSUME TypeOK, EventsTell, event' = event,
         \A s \in Sub : (sub[s].state = "ended" <=> sub'[s].state = "ended")
                        /\ (sub[s].state = "past_due" => sub'[s].state = "past_due")
  PROVE  EventsTell'
<1>1. \A i \in 1..Len(event) : event[i].sub \in Sub
  BY EventAt
<1>2. Len(event) \in Nat
  BY LenProperties DEF TypeOK
<1>. QED
  BY <1>1, <1>2 DEF EventsTell

LEMMA NextEventsTell ==
  ASSUME IInv, EventsTell, [Next]_vars
  PROVE  EventsTell'
<1>. TypeOK
  BY DEF IInv
<1>1. ASSUME NEW s \in Sub, Processor(s) PROVE EventsTell'
  <2>1. CASE CompleteCheckout(s)
    BY <2>1, EmitTells DEF CompleteCheckout, Kind, TypeOK, Failed, Canceled
  <2>2. CASE AnnounceUpdate(s)
    <3>1. sub[s].plan \in Paid \cup {None}
      BY DEF TypeOK
    <3>. QED
      BY <2>2, <3>1, EmitTells DEF AnnounceUpdate, Live, Kind, Failed, Canceled
  <2>3. CASE ChargeFails(s)
    BY <2>3, EmitTells DEF ChargeFails, Kind, TypeOK, Failed, Canceled
  <2>4. CASE ChargeSucceeds(s)
    BY <2>4, EmitTells DEF ChargeSucceeds, Live, Kind, TypeOK, Failed, Canceled
  <2>5. CASE EndSubscription(s)
    BY <2>5, EmitTells DEF EndSubscription, Live, Kind, TypeOK, Failed, Canceled
  <2>6. CASE PortalSchedules(s)
    BY <2>6, StillTells DEF PortalSchedules, TypeOK
  <2>. QED
    BY <1>1, <2>1, <2>2, <2>3, <2>4, <2>5, <2>6 DEF Processor
<1>2. ASSUME NEW c \in Caller, OpenSession(c) \/ Reprice(c) \/ ScheduleEnd(c)
      PROVE  EventsTell'
  <2>1. event' = event
    BY <1>2 DEF OpenSession, Reprice, ScheduleEnd
  <2>2. \A s \in Sub : (sub[s].state = "ended" <=> sub'[s].state = "ended")
                       /\ (sub[s].state = "past_due" => sub'[s].state = "past_due")
    BY <1>2 DEF OpenSession, Reprice, ScheduleEnd, TypeOK
  <2>. QED
    BY <2>1, <2>2, StillTells
<1>3. CASE UNCHANGED <<sub, event>>
  BY <1>3, StillTells
<1>4. \/ UNCHANGED <<sub, event>>
      \/ \E s \in Sub : Processor(s)
      \/ \E c \in Caller : OpenSession(c) \/ Reprice(c) \/ ScheduleEnd(c)
  BY DEF Next, AcceptDelivery, applyBillingWebhookEvent, CallerStep,
         createCheckoutSession, changePlan, schedulePlan, ReadProcessor, Begin,
         WriteChange, WriteSchedule, WriteReconciled, Abandon, SweepStep,
         ScanExpired, applyPendingPlanChange, expireTrial, expireGracePeriod,
         TrialRunsOut, GraceRunsOut, PeriodEnds, setOrgPlan
<1>. QED
  BY <1>1, <1>2, <1>3, <1>4

-----------------------------------------------------------------------------
\* The events that were applied stay what they are.
LEMMA AppliedStays ==
  ASSUME IInv, applied <= Len(event), [Next]_vars
  PROVE  /\ applied <= Len(event') /\ applied \in Nat
         /\ \A i \in 1..applied : event'[i] = event[i] /\ event[i].sub \in Sub
<1>. TypeOK
  BY DEF IInv
<1>1. applied \in Nat /\ Len(event) \in Nat
  BY BillingAssumption, LenProperties DEF TypeOK
<1>2. \A i \in 1..applied : event[i].sub \in Sub
  BY <1>1, EventAt
<1>3. CASE event' = event
  BY <1>1, <1>2, <1>3
<1>4. ASSUME NEW k \in Kind, NEW s \in Sub, NEW p \in Paid \cup {None}, Emit(k, s, p)
      PROVE  applied <= Len(event') /\ \A i \in 1..applied : event'[i] = event[i]
  BY <1>1, <1>4, Appended
<1>5. ASSUME NEW s \in Sub, Processor(s), event' # event
      PROVE  \E k \in Kind, p \in Paid \cup {None} : Emit(k, s, p)
  <2>1. sub[s].plan \in Paid \cup {None}
    BY DEF TypeOK
  <2>. QED
    BY <1>5, <2>1 DEF Processor, CompleteCheckout, AnnounceUpdate, ChargeFails,
       ChargeSucceeds, EndSubscription, PortalSchedules, Kind
<1>6. event' = event \/ \E s \in Sub : Processor(s)
  BY DEF Next, AcceptDelivery, applyBillingWebhookEvent, CallerStep,
         createCheckoutSession, changePlan, schedulePlan, ReadProcessor, Begin,
         OpenSession, Reprice, ScheduleEnd,
         WriteChange, WriteSchedule, WriteReconciled, Abandon, SweepStep,
         ScanExpired, applyPendingPlanChange, expireTrial, expireGracePeriod,
         TrialRunsOut, GraceRunsOut, PeriodEnds, setOrgPlan
<1>. QED
  BY <1>1, <1>2, <1>3, <1>4, <1>5, <1>6

\* The next event in order, with no reconcile under way.
LEMMA ApplyInOrder ==
  ASSUME IInv, EventsTell, AppliedInOrder, NEW h \in Handler, NEW e \in EventId,
         applyBillingWebhookEvent(h, e), orderly'
  PROVE  AppliedInOrder'
<1>. TypeOK
  BY DEF IInv
<1>1. /\ e = applied + 1 /\ applied' = e /\ ~ReconcilePending
      /\ seen' = seen \cup {e} /\ event' = event /\ call' = call
  BY DEF applyBillingWebhookEvent
<1>2. applied \in Nat /\ Len(event) \in Nat /\ e <= Len(event)
  BY BillingAssumption, LenProperties
     DEF TypeOK, applyBillingWebhookEvent, IInv, EventsAreFounded, EventId
<1>3. applied' <= Len(event') /\ seen' = 1..applied'
  BY <1>1, <1>2 DEF AppliedInOrder
<1>4. \A i \in 1..applied : event[i].kind = Canceled =>
          event[e].sub # event[i].sub
  BY <1>1, <1>2 DEF EventsTell
<1>. USE DEF Failed, Canceled
<1>5. status' = "past_due" => event[e].kind = Failed
  BY DEF applyBillingWebhookEvent, Activate, FailPayment, RecoverPayment, CancelSubscription
<1>6. ASSUME NEW i \in 1..applied', event[i].kind = Canceled, subscription' = event[i].sub
      PROVE  status' = "canceled"
  <2>1. CASE i = e
    BY <1>6, <2>1 DEF applyBillingWebhookEvent, CancelSubscription
  <2>2. CASE i \in 1..applied
    <3>1. CASE Activate(e)
      BY <1>4, <1>6, <2>2, <3>1 DEF Activate
    <3>2. CASE FailPayment \/ RecoverPayment \/ CancelSubscription
      <4>1. subscription' = subscription
        BY <3>2 DEF FailPayment, RecoverPayment, CancelSubscription
      <4>2. status = "canceled"
        BY <1>6, <2>2, <4>1 DEF AppliedInOrder
      <4>. QED
        BY <3>2, <4>2 DEF FailPayment, RecoverPayment, CancelSubscription
    <3>. QED
      BY <3>1, <3>2 DEF applyBillingWebhookEvent
  <2>. QED
    BY <1>1, <1>2, <2>1, <2>2
<1>7. \A c \in Caller : ~(call[c].op = "reconcile" /\ call[c].step = "write")
  BY <1>1 DEF ReconcilePending
<1>. QED
  BY <1>1, <1>2, <1>3, <1>5, <1>6, <1>7 DEF AppliedInOrder

\* The steps that apply no event.
LEMMA OthersKeepOrder ==
  ASSUME IInv, EventsTell, AppliedInOrder, [Next]_vars, orderly',
         \A h \in Handler, e \in EventId : ~applyBillingWebhookEvent(h, e)
  PROVE  AppliedInOrder'
<1>. TypeOK
  BY DEF IInv
<1>1. /\ applied <= Len(event') /\ applied \in Nat
      /\ \A i \in 1..applied : event'[i] = event[i] /\ event[i].sub \in Sub
  BY AppliedStays DEF AppliedInOrder
<1>2. UNCHANGED <<applied, seen>>
  BY DEF Next, Processor, CompleteCheckout, AnnounceUpdate, ChargeFails,
         ChargeSucceeds, EndSubscription, PortalSchedules, AcceptDelivery, CallerStep,
         createCheckoutSession, changePlan, schedulePlan, ReadProcessor, Begin,
         OpenSession, Reprice, ScheduleEnd,
         WriteChange, WriteSchedule, WriteReconciled, Abandon, SweepStep,
         ScanExpired, applyPendingPlanChange, expireTrial, expireGracePeriod,
         TrialRunsOut, GraceRunsOut, PeriodEnds, setOrgPlan
<1>3. status' # status =>
        /\ status' = "active"
        /\ \/ status \in {"past_due", "trialing"} /\ subscription' = subscription
           \/ \E c \in Caller : WriteReconciled(c)
  <2>1. CASE expireTrial \/ expireGracePeriod
    BY <2>1 DEF expireTrial, expireGracePeriod
  <2>2. ASSUME NEW c \in Caller, WriteReconciled(c) PROVE status' = "active"
    BY <2>2 DEF WriteReconciled
  <2>3. \/ status' = status \/ expireTrial \/ expireGracePeriod
        \/ \E c \in Caller : WriteReconciled(c)
    BY DEF Next, Processor, CompleteCheckout, AnnounceUpdate, ChargeFails,
         ChargeSucceeds, EndSubscription, PortalSchedules, AcceptDelivery, CallerStep,
         createCheckoutSession, changePlan, schedulePlan, ReadProcessor, Begin,
         OpenSession, Reprice, ScheduleEnd,
         WriteChange, WriteSchedule, Abandon, SweepStep,
         ScanExpired, applyPendingPlanChange, TrialRunsOut, GraceRunsOut, PeriodEnds, setOrgPlan
  <2>. QED
    BY <2>1, <2>2, <2>3
<1>4. subscription' # subscription => \E c \in Caller : WriteReconciled(c)
  BY DEF Next, Processor, CompleteCheckout, AnnounceUpdate, ChargeFails,
         ChargeSucceeds, EndSubscription, PortalSchedules, AcceptDelivery, CallerStep,
         createCheckoutSession, changePlan, schedulePlan, ReadProcessor, Begin,
         OpenSession, Reprice, ScheduleEnd,
         WriteChange, WriteSchedule, Abandon, SweepStep,
         ScanExpired, applyPendingPlanChange, expireTrial, expireGracePeriod,
         TrialRunsOut, GraceRunsOut, PeriodEnds, setOrgPlan
<1>5. ASSUME NEW i \in 1..applied, event[i].kind = Canceled, subscription' = event[i].sub
      PROVE  status' = "canceled"
  <2>1. ASSUME NEW c \in Caller, WriteReconciled(c) PROVE FALSE
    BY <1>5, <2>1 DEF WriteReconciled, AppliedInOrder
  <2>2. subscription' = subscription /\ status = "canceled"
    BY <1>4, <1>5, <2>1 DEF AppliedInOrder
  <2>. QED
    BY <1>3, <2>1, <2>2
<1>6. ASSUME NEW i \in 1..applied, event[i].kind = Canceled, NEW c \in Caller,
             call'[c].op = "reconcile", call'[c].step = "write"
      PROVE  call'[c].sub # event[i].sub
  <2>1. CASE call'[c] = call[c]
    BY <1>5, <1>6, <2>1 DEF AppliedInOrder
  <2>2. CASE ReadProcessor(c)
    <3>1. call'[c].sub \in Live
      BY <2>2 DEF ReadProcessor, Begin, TypeOK, Idle
    <3>2. sub[event[i].sub].state = "ended"
      BY <1>1, <1>2, <1>6 DEF EventsTell, AppliedInOrder
    <3>. QED
      BY <3>1, <3>2 DEF Live
  <2>3. ASSUME NEW d \in Caller, CallerStep(d), d # c PROVE call'[c] = call[c]
    BY <2>3 DEF CallerStep, createCheckoutSession, changePlan, schedulePlan,
         ReadProcessor, Begin, ForgetCall, AwaitWrite, OpenSession, Reprice, ScheduleEnd,
         WriteChange, WriteSchedule, WriteReconciled, Abandon, TypeOK
  <2>4. ASSUME CallerStep(c), ~ReadProcessor(c) PROVE FALSE
    <3>1. \/ \E p \in Paid : createCheckoutSession(c, p) \/ changePlan(c, p)
          \/ \E ends \in BOOLEAN : schedulePlan(c, ends)
          \/ Reprice(c) \/ ScheduleEnd(c)
          \/ OpenSession(c) \/ WriteChange(c) \/ WriteSchedule(c) \/ WriteReconciled(c) \/ Abandon(c)
      BY <2>4 DEF CallerStep
    <3>2. ASSUME NEW r \in Call, call' = [call EXCEPT ![c] = r], r.op # "reconcile" PROVE FALSE
      BY <1>6, <3>2 DEF TypeOK
    <3>3. Idle \in Call /\ Idle.op # "reconcile"
      BY IdleIsFounded DEF Idle
    <3>4. CASE OpenSession(c) \/ WriteChange(c) \/ WriteSchedule(c) \/ WriteReconciled(c) \/ Abandon(c)
      BY <3>2, <3>3, <3>4 DEF OpenSession, WriteChange, WriteSchedule, WriteReconciled,
         Abandon, ForgetCall
    <3>5. CASE Reprice(c) \/ ScheduleEnd(c)
      BY <1>6, <3>5 DEF Reprice, ScheduleEnd, AwaitWrite, TypeOK, Call
    <3>6. ASSUME NEW r, Begin(c, r), r.op # "reconcile" PROVE FALSE
      BY <1>6, <3>6 DEF Begin, TypeOK
    <3>7. ASSUME NEW p \in Paid, createCheckoutSession(c, p) PROVE FALSE
      BY <3>6, <3>7 DEF createCheckoutSession, Idle
    <3>8. ASSUME NEW p \in Paid, changePlan(c, p) PROVE FALSE
      BY <3>6, <3>8 DEF changePlan
    <3>9. ASSUME NEW ends \in BOOLEAN, schedulePlan(c, ends) PROVE FALSE
      BY <3>6, <3>9 DEF schedulePlan, Idle
    <3>. QED
      BY <3>1, <3>4, <3>5, <3>7, <3>8, <3>9
  <2>5. call' = call \/ \E d \in Caller : CallerStep(d)
    BY DEF Next, Processor, CompleteCheckout, AnnounceUpdate, ChargeFails,
         ChargeSucceeds, EndSubscription, PortalSchedules, AcceptDelivery, SweepStep,
         ScanExpired, applyPendingPlanChange, expireTrial, expireGracePeriod,
         TrialRunsOut, GraceRunsOut, PeriodEnds, setOrgPlan
  <2>. QED
    BY <2>1, <2>2, <2>3, <2>4, <2>5
<1>7. status' = "past_due" => applied > 0 /\ event[applied].kind = Failed
  BY <1>3 DEF AppliedInOrder
<1>. QED
  BY <1>1, <1>2, <1>5, <1>6, <1>7 DEF AppliedInOrder

-----------------------------------------------------------------------------
\* Every variable of the billing model keeps its type: the row, the
\* processor's subscriptions and events, and what each request holds.
THEOREM TypeCorrect == Spec => []TypeOK
<1>1. IInv => TypeOK
  BY DEF IInv
<1>. QED
  BY <1>1, InvHolds, PTL

\* However the webhooks, the owner's calls, the sweep and the operator
\* interleave, a plan on sale in the row was sold or granted, and the
\* subscription the row tracks is one a customer paid for
\* (reconcileSubscription, applyBillingWebhookEvent).
THEOREM InventsNothing == Spec => []NothingIsInvented
<1>1. IInv => NothingIsInvented
  BY DEF IInv, RowIsFounded, NothingIsInvented, Started
<1>. QED
  BY <1>1, InvHolds, PTL

\* The deadline and the past_due status are written together by the webhook,
\* the reconcile and the sweep, so an org is in a grace period exactly while
\* it is past due.
THEOREM GraceFollowsStatus == Spec => []GraceIffPastDue
<1>1. RowIsCoherent /\ TickIsCoherent => GraceIffPastDue
  BY DEF RowIsCoherent
<1>. QED
  BY <1>1, CoherenceHolds, PTL

\* A subscribed org loses a plan on sale only past due, to the sweep
\* (expireGracePeriod), or to the operator (setOrgPlan).
THEOREM KeepsPurchases == Spec => PurchaseIsKept
<1>1. IInv /\ (RowIsCoherent /\ TickIsCoherent) /\ [Next]_vars
        => [subscription # None /\ planId \in Paid /\ planId' \notin Paid
              => status = "past_due" \/ \E p \in Plan : setOrgPlan(p)]_vars
  BY PurchaseStep
<1>. QED
  BY <1>1, InvHolds, CoherenceHolds, PTL DEF Spec, PurchaseIsKept

\* expireGracePeriod ends a grace period that has not run out only if it
\* began after the scan of the same tick.
THEOREM HonoursGrace == Spec => GraceIsHonoured
<1>1. (RowIsCoherent /\ TickIsCoherent) /\ [Next]_vars
        => [status = "past_due" /\ grace = "ahead" /\ expireGracePeriod
              => renewedGrace]_vars
  BY DEF TickIsCoherent, expireGracePeriod
<1>. QED
  BY <1>1, CoherenceHolds, PTL DEF Spec, GraceIsHonoured

\* Once the events have been applied, each once, in order and none during a
\* reconcile, an org whose subscription ended is canceled, and one is past due
\* only over an unpaid subscription (applyBillingWebhookEvent,
\* reconcileSubscription, the sweep).
THEOREM RowAgrees == Spec => []AgreesWithProcessor
<1>1. Init => AgreeInv
  <2> SUFFICES ASSUME Init PROVE AgreeInv
    OBVIOUS
  <2>1. IInv /\ Len(event) = 0
    BY InitFounded, EmptySeq DEF Init
  <2>2. EventsTell /\ AppliedInOrder
    BY <2>1 DEF Init, EventsTell, AppliedInOrder
  <2>. QED
    BY <2>1, <2>2 DEF AgreeInv
<1>2. AgreeInv /\ [Next]_vars => AgreeInv'
  <2> SUFFICES ASSUME AgreeInv, [Next]_vars PROVE AgreeInv'
    OBVIOUS
  <2>1. IInv' /\ EventsTell'
    BY NextKeepsInv, NextEventsTell DEF AgreeInv
  <2>2. ASSUME orderly' PROVE orderly
    BY <2>2 DEF Next, Processor, CompleteCheckout, AnnounceUpdate, ChargeFails,
         ChargeSucceeds, EndSubscription, PortalSchedules, AcceptDelivery,
         applyBillingWebhookEvent, CallerStep,
         createCheckoutSession, changePlan, schedulePlan, ReadProcessor, Begin,
         OpenSession, Reprice, ScheduleEnd,
         WriteChange, WriteSchedule, WriteReconciled, Abandon, SweepStep,
         ScanExpired, applyPendingPlanChange, expireTrial, expireGracePeriod,
         TrialRunsOut, GraceRunsOut, PeriodEnds, setOrgPlan
  <2>3. ASSUME orderly' PROVE AppliedInOrder'
    BY <2>2, <2>3, ApplyInOrder, OthersKeepOrder DEF AgreeInv
  <2>. QED
    BY <2>1, <2>3 DEF AgreeInv
<1>3. AgreeInv => AgreesWithProcessor
  <2> SUFFICES ASSUME AgreeInv, Settled, orderly
               PROVE  /\ subscription # None /\ sub[subscription].state = "ended"
                            => status = "canceled"
                      /\ status = "past_due" => \E s \in Sub : sub[s].state = "past_due"
    BY DEF AgreesWithProcessor
  <2>. TypeOK /\ EventsTell /\ AppliedInOrder
    BY DEF AgreeInv, IInv
  <2>1. applied = Len(event) /\ Len(event) \in Nat
    <3>1. applied \in Nat /\ Len(event) \in Nat /\ applied <= Len(event)
      BY BillingAssumption, LenProperties DEF TypeOK, AppliedInOrder
    <3>2. 1..applied = 1..Len(event)
      BY DEF Settled, AppliedInOrder
    <3>3. Len(event) > 0 => Len(event) \in 1..applied
      BY <3>1, <3>2
    <3>. QED
      BY <3>1, <3>3
  <2>2. ASSUME subscription # None, sub[subscription].state = "ended"
        PROVE  status = "canceled"
    BY <2>1, <2>2 DEF EventsTell, AppliedInOrder, TypeOK
  <2>3. ASSUME status = "past_due" PROVE \E s \in Sub : sub[s].state = "past_due"
    <3>1. Len(event) > 0 /\ event[Len(event)].kind = Failed
      BY <2>1, <2>3 DEF AppliedInOrder
    <3>2. event[Len(event)].sub \in Sub
      BY <2>1, <3>1, EventAt
    <3>. QED
      BY <3>1, <3>2 DEF EventsTell
  <2>. QED
    BY <2>2, <2>3
<1>. QED
  BY <1>1, <1>2, <1>3, PTL DEF Spec
=============================================================================
