------------------------------ MODULE Drafting ------------------------------
(***************************************************************************)
(* What becomes of the answer of the LLM: ParseRawDraft                    *)
(* (internal/infrastructure/llm/openrouter.go), postProcess                *)
(* (internal/usecase/assistant/brain.go) with Render and ResolveAssets     *)
(* (internal/domain), and renderNote (internal/ports/http/webhook.go).     *)
(*                                                                         *)
(* A text is a sequence of pieces.  A token {{price.growth}} is the piece  *)
(* [ns |-> "price", key |-> "growth"]; everything else has no namespace,   *)
(* and Brace stands for each text with a "{{" that is no token.  How an    *)
(* amount is formatted is left out: a piece shows the amount.              *)
(***************************************************************************)
EXTENDS Naturals, Sequences, FiniteSets

CONSTANTS
  Words,        \* namespaces, keys, amounts and phrases
  Answers,      \* the objects the LLM may give emit_draft as arguments
  Tariffs,      \* PriceBook.Tariffs: key -> [PriceTenge, CashierLimit]
  Placeholders, \* PriceBook.Placeholders: <<ns, key>> -> [ValueRU, ValueKK]
  Catalogue,    \* the refs of Snapshot.Assets
  Keys,         \* custom attributes of a contact
  Labels,       \* labels of a conversation
  Stage,        \* the attribute "stage", which a patch must not set
  None

Pieces == [ns : Words, key : Words]
Texts == Seq(Pieces)
Plain(word) == [ns |-> "", key |-> word]
Brace == Plain("{{")
Says(word) == <<Plain(word)>>

(* What a patch does to an attribute: a value, JSON null, or "".           *)
PatchValues == {"value", "null", "blank"}
Patches == UNION {[S -> PatchValues] : S \in SUBSET Keys}
NoPatch == [k \in {} |-> "null"]

ASSUME WordsAssumption ==
  {"", "{{", "check the price", "holding reply", "no draft"} \subseteq Words
ASSUME AnswersAssumption ==
  \A a \in Answers :
     /\ "reply_text" \in DOMAIN a => a.reply_text \in Texts
     /\ "asset_refs" \in DOMAIN a => a.asset_refs \in Seq(Words)
     /\ "profile_patch" \in DOMAIN a => a.profile_patch \in Patches
     /\ "callback_note" \in DOMAIN a => a.callback_note \in Texts
     /\ "suggested_status" \in DOMAIN a => a.suggested_status \in Labels
     /\ "escalate" \in DOMAIN a => a.escalate \in BOOLEAN
ASSUME BookAssumption ==
  /\ \A k \in DOMAIN Tariffs : Tariffs[k] \in [PriceTenge : Words, CashierLimit : Words]
  /\ \A t \in DOMAIN Placeholders : Placeholders[t] \in [ValueRU : Words, ValueKK : Words]

----------------------------------------------------------------------------
(* A field that is missing has its zero value, and nothing else is asked   *)
(* of the object: null and {} are drafts too.                              *)
Field(a, f, zero) == IF f \in DOMAIN a THEN a[f] ELSE zero

(* Mutant: a status that is missing is the label "".                       *)
StatusAlways(a) == Field(a, "suggested_status", "")

(* suggested_status, flattened: no object or no stage in it is no label.   *)
SuggestedStatus(a) == Field(a, "suggested_status", None)

(* ParseRawDraft, with suggested_status as the Draft has it.               *)
Parse(a) == [reply_text       |-> Field(a, "reply_text", <<>>),
             reply_language   |-> Field(a, "reply_language", ""),
             asset_refs       |-> Field(a, "asset_refs", <<>>),
             profile_patch    |-> Field(a, "profile_patch", NoPatch),
             callback_note    |-> Field(a, "callback_note", <<>>),
             suggested_status |-> SuggestedStatus(a),
             escalate         |-> Field(a, "escalate", FALSE)]

(* PriceBook.Render.  A token that resolves to nothing stays as it is.     *)
IsTariff(p) == p.ns \in {"price", "limit"}
IsKnown(p) == IF IsTariff(p) THEN p.key \in DOMAIN Tariffs
              ELSE <<p.ns, p.key>> \in DOMAIN Placeholders
Value(p, lang) ==
  IF p.ns = "price" THEN Tariffs[p.key].PriceTenge
  ELSE IF p.ns = "limit" THEN Tariffs[p.key].CashierLimit
  ELSE IF lang = "kk" THEN Placeholders[<<p.ns, p.key>>].ValueKK
  ELSE Placeholders[<<p.ns, p.key>>].ValueRU
Replaced(p, lang) == IF p.ns # "" /\ IsKnown(p) THEN Plain(Value(p, lang)) ELSE p

(* Mutant: the check of the tokens alone, without the one for "{{".        *)
RenderUnchecked(text, lang) ==
  LET out == [i \in DOMAIN text |-> Replaced(text[i], lang)]
  IN [text |-> out, failed |-> \E i \in DOMAIN text : text[i].ns # "" /\ ~IsKnown(text[i])]

(* The caller ships nothing of a text with an unknown token, or with a     *)
(* "{{" that is left over or came in with a placeholder's value.           *)
Render(text, lang) ==
  LET out == [i \in DOMAIN text |-> Replaced(text[i], lang)]
  IN [text |-> out,
      failed |-> \/ \E i \in DOMAIN text : text[i].ns # "" /\ ~IsKnown(text[i])
                 \/ \E i \in DOMAIN out : out[i] = Brace]

(* ResolveAssets: the refs the catalogue has with fewer than three such    *)
(* refs before them, each with its place in the model's list.              *)
Resolves(refs, i) == refs[i] \in Catalogue
Places(refs) == {i \in DOMAIN refs :
                   /\ Resolves(refs, i)
                   /\ Cardinality({j \in 1 .. i - 1 : Resolves(refs, j)}) < 3}
ResolveAssets(refs) == {<<i, refs[i]>> : i \in Places(refs)}

(* cleanProfilePatch: the stage is a label, not an attribute.              *)
CleanProfilePatch(patch) == [k \in DOMAIN patch \ {Stage} |-> patch[k]]

(* A draft as the webhook handler gets it.                                 *)
Drafts == [text : Texts, remind : Texts, media : SUBSET (Nat \X Catalogue), patch : Patches,
           status : Labels \cup {None}, escalate : BOOLEAN]
Escalation(text) == [text |-> text, remind |-> <<>>, media |-> {}, patch |-> NoPatch,
                     status |-> None, escalate |-> TRUE]

(* The steps after the escalate gate.  A price that does not render leaves *)
(* the manual note, without media, patch and status but with the reminder, *)
(* which nobody renders.                                                   *)
Offer(raw) ==
  LET rendered == Render(raw.reply_text, raw.reply_language)
      said == [Escalation(rendered.text) EXCEPT !.escalate = FALSE, !.remind = raw.callback_note]
  IN IF rendered.failed THEN [said EXCEPT !.text = Says("check the price")]
     ELSE [said EXCEPT !.media = ResolveAssets(raw.asset_refs),
                       !.patch = CleanProfilePatch(raw.profile_patch),
                       !.status = raw.suggested_status]

(* Mutant: the escalate gate flags the draft but does not return.          *)
PostProcessUngated(raw) == [Offer(raw) EXCEPT !.escalate = raw.escalate]

(* postProcess: an escalation is returned as the model wrote it.           *)
PostProcess(raw) == IF raw.escalate THEN Escalation(raw.reply_text) ELSE Offer(raw)

(* The drafts that HandleMessage returns for an answer of the LLM, and the *)
(* one it returns when the call fails or its answer is no JSON object.     *)
Drafted == {PostProcess(Parse(a)) : a \in Answers}
Holding == Escalation(Says("holding reply"))

(* The handler's own note for an error of HandleMessage.                   *)
Failure == Escalation(Says("no draft"))

(* renderNote: what the human agent reads, and the files attached to it.   *)
Notes == [text : Texts, remind : Texts, media : SUBSET (Nat \X Catalogue), escalate : BOOLEAN]
RenderNote(d) == [text |-> d.text, remind |-> d.remind, media |-> d.media,
                  escalate |-> d.escalate]
=============================================================================
