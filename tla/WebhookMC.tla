----------------------------- MODULE WebhookMC -----------------------------
(***************************************************************************)
(* Instances of Webhook.  m1 and m2 are two messages of one customer in    *)
(* one conversation, echo is the event Chatwoot sends back about a private *)
(* note.  i1 is their inbox; where there are two, the environment names i2 *)
(* and i1 is open only while an administrator has it attached.             *)
(***************************************************************************)
EXTENDS Webhook, TLC

CONSTANTS h1, h2, m1, m2, echo, ann, i1, i2, plan, city, stage, trial, lost

HandlersMC == {h1, h2}
MsgsMC == {m1, m2, echo}
ContactsMC == {ann}
InboxesOne == {i1}
InboxesTwo == {i1, i2}
KeysOne == {plan}
KeysThree == {plan, city, stage}
LabelsNone == {}
LabelsTwo == {trial, lost}

(* The price book: one tariff, a phone number, and an address in which     *)
(* somebody left a "{{".                                                   *)
WordsMC == STRING
TariffsMC == "growth" :> [PriceTenge |-> "19900", CashierLimit |-> "5"]
PlaceholdersMC ==
  (<<"support", "phone">> :> [ValueRU |-> "700", ValueKK |-> "701"])
  @@ (<<"support", "address">> :> [ValueRU |-> "{{", ValueKK |-> "{{"])
CatalogueMC == {"video", "guide", "photo", "scheme"}

Token(ns, key) == [ns |-> ns, key |-> key]
Reply(text) == [reply_text |-> text, reply_language |-> "kk", escalate |-> FALSE]
Sell == Reply(<<Plain("costs"), Token("price", "growth"), Token("limit", "growth")>>)
Call == Reply(<<Token("support", "phone")>>)
Invented == Reply(<<Token("price", "gold")>>)
Addressed == Reply(<<Token("support", "address")>>)
Malformed == Reply(<<Brace>>)
Patch(p) == [profile_patch |-> p]
Status(l) == [suggested_status |-> l]
Refs(s) == [asset_refs |-> s]

(* Two patches that share no attribute, one with the stage and a null, a   *)
(* patch that empties what another one sets, an escalation with everything *)
(* an escalation must not do, the replies that do not render, and the      *)
(* object without any field.                                               *)
AnswersMany ==
  { Sell @@ Patch(plan :> "value") @@ Status(trial)
      @@ Refs(<<"video", "ghost", "guide", "photo", "scheme">>),
    Call @@ Patch(city :> "value" @@ plan :> "null" @@ stage :> "value") @@ Status(lost),
    Sell @@ Patch(city :> "null"), Call @@ Patch(plan :> "blank"),
    [Sell EXCEPT !.escalate = TRUE] @@ Patch(plan :> "value") @@ Status(lost) @@ Refs(<<"video">>),
    Invented @@ Patch(plan :> "value"), Addressed @@ Refs(<<"video">>), Malformed,
    <<>> }
AnswersFew == {Sell @@ Patch(plan :> "value") @@ Refs(<<"video">>), Malformed,
               [Sell EXCEPT !.escalate = TRUE] @@ Patch(plan :> "value")}
AnswersBlank == {Sell @@ Patch(plan :> "value"), Call @@ Patch(plan :> "blank")}

Incoming == [event |-> "message_created", type |-> "incoming", private |-> FALSE,
             contact |-> ann, conv |-> ann, inbox |-> i1]
Echo == [Incoming EXCEPT !.type = "outgoing", !.private = TRUE]
EventMC == (m1 :> Incoming) @@ (m2 :> Incoming) @@ (echo :> Echo)

Symmetry == Permutations(HandlersMC)
=============================================================================
