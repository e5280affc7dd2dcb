------------------------ MODULE MCAutomationEngine ------------------------
(***************************************************************************)
(* Instances of AutomationEngine for TLC.                                  *)
(***************************************************************************)
EXTENDS AutomationEngine, TLC

MCEvent12 == 1..12
MCConsumerOf == [g \in Relay |-> AUTOMATION_CONSUMER]

\* A moved card gets a comment and a webhook call, a comment moves the card
\* back, a queued delivery creates a card - the event of call_webhook starts at
\* depth zero -, and a created card would create the next.
ChainAction == {"card.add_comment", "call_webhook", "card.move", "card.create"}
ChainName == {"card.moved", "comment.created", "webhook.delivery_queued", "card.created"}
ChainHuman == {"card.moved", "comment.created", "card.created"}
ChainRule == {"onMove", "onComment", "onQueued", "onCreated"}
ChainTrigger ==
    [r \in ChainRule |-> CASE r = "onMove" -> "card.moved"
                           [] r = "onComment" -> "comment.created"
                           [] r = "onQueued" -> "webhook.delivery_queued"
                           [] r = "onCreated" -> "card.created"]
ChainActions ==
    [r \in ChainRule |-> CASE r = "onMove" -> <<"card.add_comment", "call_webhook">>
                           [] r = "onComment" -> <<"card.move">>
                           [] r = "onQueued" -> <<"card.create">>
                           [] r = "onCreated" -> <<"card.create">>]
ChainEmits ==
    [a \in ChainAction |-> CASE a = "card.add_comment" -> {"comment.created"}
                             [] a = "call_webhook" -> {"webhook.delivery_queued"}
                             [] a = "card.move" -> {"card.moved"}
                             [] a = "card.create" -> {"card.created"}]
ChainCarries == ChainAction \ {"call_webhook"}
===========================================================================
