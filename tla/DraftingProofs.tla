--------------------------- MODULE DraftingProofs ---------------------------
(***************************************************************************)
(* What Drafting's operators return, for every answer of the LLM, every    *)
(* price book and every catalogue.                                         *)
(***************************************************************************)
EXTENDS Drafting, FiniteSetTheorems, TLAPS

(* A field of the object, or its zero value, has the field's type.         *)
LEMMA ParseType ==
  ASSUME NEW a \in Answers
  PROVE  /\ Parse(a).reply_text \in Texts /\ Parse(a).callback_note \in Texts
         /\ Parse(a).asset_refs \in Seq(Words)
         /\ Parse(a).profile_patch \in Patches
         /\ Parse(a).suggested_status \in Labels \cup {None}
         /\ Parse(a).escalate \in BOOLEAN
<1>1. <<>> \in Texts /\ <<>> \in Seq(Words)
  BY DEF Texts
<1>2. NoPatch \in Patches
  BY DEF NoPatch, Patches, PatchValues
<1> QED
  BY <1>1, <1>2, AnswersAssumption DEF Parse, SuggestedStatus, Field

LEMMA SaysType == ASSUME NEW word \in Words PROVE Says(word) \in Texts
<1>1. "" \in Words
  BY WordsAssumption
<1>2. Plain(word) \in Pieces
  BY <1>1 DEF Plain, Pieces
<1> HIDE DEF Plain
<1> QED
  BY <1>2 DEF Says, Texts

LEMMA NoPatchType == NoPatch \in Patches
  BY DEF NoPatch, Patches, PatchValues

LEMMA DraftType ==
  ASSUME NEW text \in Texts, NEW remind \in Texts, NEW media \in SUBSET (Nat \X Catalogue),
         NEW patch \in Patches, NEW status \in Labels \cup {None}, NEW escalate \in BOOLEAN
  PROVE  [text |-> text, remind |-> remind, media |-> media, patch |-> patch,
          status |-> status, escalate |-> escalate] \in Drafts
  BY DEF Drafts

LEMMA EscalationType == ASSUME NEW text \in Texts PROVE Escalation(text) \in Drafts
<1>1. <<>> \in Texts
  BY DEF Texts
<1> QED
  BY <1>1, NoPatchType, DraftType DEF Escalation

(* Rendering replaces pieces by pieces.                                    *)
LEMMA RenderType ==
  ASSUME NEW text \in Texts, NEW lang
  PROVE  /\ Render(text, lang).text \in Texts
         /\ DOMAIN Render(text, lang).text = DOMAIN text
<1> DEFINE out == [i \in DOMAIN text |-> Replaced(text[i], lang)]
<1>1. ASSUME NEW i \in DOMAIN text PROVE Replaced(text[i], lang) \in Pieces
  <2>1. text[i] \in Pieces
    BY DEF Texts
  <2>2. CASE text[i].ns = "" \/ ~IsKnown(text[i])
    BY <2>1, <2>2 DEF Replaced
  <2>3. CASE text[i].ns # "" /\ IsKnown(text[i])
    <3>1. Value(text[i], lang) \in Words
      BY <2>3, BookAssumption DEF Value, IsKnown, IsTariff
    <3> QED
      BY <2>3, <3>1, WordsAssumption DEF Replaced, Plain, Pieces
  <2> QED
    BY <2>2, <2>3
<1>2. out \in Texts
  <2>1. Len(text) \in Nat /\ DOMAIN text = 1 .. Len(text)
    BY DEF Texts
  <2>2. out \in [1 .. Len(text) -> Pieces]
    BY <1>1, <2>1
  <2> HIDE DEF out
  <2> QED
    BY <2>1, <2>2 DEF Texts
<1> QED
  BY <1>2 DEF Render

(* Render: what is not refused has no token and no "{{" left, also where a *)
(* placeholder's value brings one in.                                      *)
THEOREM RenderIsComplete ==
  ASSUME NEW text \in Texts, NEW lang, ~Render(text, lang).failed,
         NEW i \in DOMAIN Render(text, lang).text
  PROVE  Render(text, lang).text[i].ns = "" /\ Render(text, lang).text[i] # Brace
<1>1. i \in DOMAIN text /\ Render(text, lang).text[i] = Replaced(text[i], lang)
  BY DEF Render
<1>2. Replaced(text[i], lang) # Brace /\ (text[i].ns = "" \/ IsKnown(text[i]))
  BY <1>1 DEF Render
<1>3. Replaced(text[i], lang).ns = ""
  BY <1>2 DEF Replaced, Plain
<1> QED
  BY <1>1, <1>2, <1>3

(* ResolveAssets: at most three files, each a ref of the catalogue.  A     *)
(* resolved ref is told by the number of known refs before it, which is    *)
(* 0, 1 or 2: the places of the files inject into 0 .. 2.                  *)
THEOREM AtMostThreeFiles ==
  ASSUME NEW refs \in Seq(Words)
  PROVE  /\ ResolveAssets(refs) \in SUBSET (Nat \X Catalogue)
         /\ Cardinality(ResolveAssets(refs)) <= 3
<1> DEFINE Before(i) == {j \in 1 .. i - 1 : Resolves(refs, j)}
           Rank(i) == Cardinality(Before(i))
           P == Places(refs)
           rank == [i \in P |-> Rank(i)]
<1>1. P \subseteq Nat /\ \A i \in P : Resolves(refs, i) /\ Rank(i) < 3
  BY DEF Places
<1>2. ASSUME NEW i \in Nat PROVE IsFiniteSet(Before(i)) /\ Rank(i) \in Nat
  <2>1. 1 \in Int /\ i - 1 \in Int
    OBVIOUS
  <2>2. IsFiniteSet(1 .. i - 1)
    BY <2>1, FS_Interval, Zenon
  <2>3. Before(i) \in SUBSET (1 .. i - 1)
    OBVIOUS
  <2> HIDE DEF Before
  <2> QED
    BY <2>2, <2>3, FS_Subset, FS_CardinalityType
<1>3. ASSUME NEW i \in P, NEW k \in P, i < k PROVE Rank(i) < Rank(k)
  <2>1. i \in Nat /\ k \in Nat /\ Resolves(refs, i)
    BY <1>1
  <2>2. i >= 1
    BY DEF Places
  <2>3. i \in Before(k) /\ Before(i) \in SUBSET Before(k) /\ i \notin Before(i)
    BY <1>3, <2>1, <2>2
  <2> HIDE DEF Before
  <2>4. Cardinality(Before(i) \cup {i}) = Cardinality(Before(i)) + 1
    BY <1>2, <2>1, <2>3, FS_AddElement
  <2>5. Before(i) \cup {i} \in SUBSET Before(k)
    BY <2>3
  <2>6. Cardinality(Before(i) \cup {i}) <= Cardinality(Before(k))
    BY <1>2, <2>1, <2>5, FS_Subset
  <2> QED
    BY <1>2, <2>1, <2>4, <2>6
<1>4. rank \in Injection(P, 0 .. 2)
  <2> HIDE DEF Rank, P
  <2>1. ASSUME NEW i \in P PROVE Rank(i) \in 0 .. 2
    <3>1. i \in Nat /\ Rank(i) < 3
      BY <1>1
    <3>2. Rank(i) \in Nat
      BY <1>2, <3>1
    <3> QED
      BY <3>1, <3>2
  <2>2. ASSUME NEW i \in P, NEW k \in P, Rank(i) = Rank(k) PROVE i = k
    <3>1. i \in Nat /\ k \in Nat /\ Rank(i) \in 0 .. 2 /\ Rank(k) \in 0 .. 2
      BY <1>1, <2>1
    <3>2. ~(i < k) /\ ~(k < i)
      BY <1>3, <2>2, <3>1
    <3> QED
      BY <3>1, <3>2
  <2> QED
    BY <2>1, <2>2 DEF Injection, IsInjective
<1>5. IsFiniteSet(0 .. 2) /\ Cardinality(0 .. 2) <= 3
  <2>1. 0 .. 2 \in SUBSET Nat /\ 2 \in Nat /\ \A n \in 0 .. 2 : n <= 2
    OBVIOUS
  <2>2. IsFiniteSet(0 .. 2) /\ Cardinality(0 .. 2) <= 2 + 1
    BY <2>1, FS_BoundedSetOfNaturals
  <2> QED
    BY <2>2
<1>6. IsFiniteSet(P) /\ Cardinality(P) <= 3
  <2> HIDE DEF rank, P
  <2>1. IsFiniteSet(P) /\ Cardinality(P) <= Cardinality(0 .. 2)
    BY <1>4, <1>5, FS_Injection
  <2> QED
    BY <1>5, <2>1, FS_CardinalityType
<1>7. IsFiniteSet(ResolveAssets(refs)) /\ Cardinality(ResolveAssets(refs)) <= Cardinality(P)
  <2> DEFINE file == [i \in P |-> <<i, refs[i]>>]
  <2>1. file \in Surjection(P, ResolveAssets(refs))
    BY DEF Surjection, ResolveAssets
  <2> HIDE DEF file, P
  <2> QED
    BY <1>6, <2>1, FS_Surjection
<1>8. ResolveAssets(refs) \in SUBSET (Nat \X Catalogue)
  <2> SUFFICES ASSUME NEW i \in P PROVE <<i, refs[i]>> \in Nat \X Catalogue
    BY DEF ResolveAssets
  <2> QED
    BY <1>1 DEF Resolves
<1> QED
  BY <1>6, <1>7, <1>8, FS_CardinalityType

----------------------------------------------------------------------------
(* What a draft promises to the agent who reads its note: what it offers   *)
(* is rendered and has three files at most; an escalation has no side      *)
(* effect to offer.                                                        *)
Offered(d) == ~d.escalate =>
  /\ \A i \in DOMAIN d.text : d.text[i].ns = "" /\ d.text[i] # Brace
  /\ Cardinality(d.media) <= 3
Stopped(d) == d.escalate => d.media = {} /\ d.patch = NoPatch /\ d.status = None

LEMMA EscalationStops ==
  ASSUME NEW text \in Texts
  PROVE  Offered(Escalation(text)) /\ Stopped(Escalation(text))
  BY DEF Escalation, Offered, Stopped

LEMMA CleanType == ASSUME NEW patch \in Patches PROVE CleanProfilePatch(patch) \in Patches
<1>1. PICK S \in SUBSET Keys : patch \in [S -> PatchValues]
  BY DEF Patches
<1>2. CleanProfilePatch(patch) \in [S \ {Stage} -> PatchValues]
  BY <1>1 DEF CleanProfilePatch
<1>3. S \ {Stage} \in SUBSET Keys
  OBVIOUS
<1> QED
  BY <1>2, <1>3 DEF Patches

(* postProcess, one case for each of its returns.                          *)
LEMMA PostProcessKeeps ==
  ASSUME NEW raw, raw.reply_text \in Texts, raw.callback_note \in Texts,
         raw.asset_refs \in Seq(Words), raw.profile_patch \in Patches,
         raw.suggested_status \in Labels \cup {None}, raw.escalate \in BOOLEAN
  PROVE  /\ PostProcess(raw) \in Drafts
         /\ Offered(PostProcess(raw)) /\ Stopped(PostProcess(raw))
<1> DEFINE rendered == Render(raw.reply_text, raw.reply_language)
<1>1. CASE raw.escalate
  BY <1>1, EscalationType, EscalationStops DEF PostProcess
<1>2. CASE ~raw.escalate /\ rendered.failed
  <2> DEFINE said == Says("check the price")
  <2>1. PostProcess(raw) = [text |-> said, remind |-> raw.callback_note, media |-> {},
                            patch |-> NoPatch, status |-> None, escalate |-> FALSE]
    BY <1>2 DEF PostProcess, Offer, Escalation
  <2>2. said \in Texts
    BY SaysType, WordsAssumption
  <2>3. \A i \in DOMAIN said : said[i] = Plain("check the price")
    <3>1. \A p, i : i \in DOMAIN <<p>> => <<p>>[i] = p
      OBVIOUS
    <3> QED
      BY <3>1 DEF Says
  <2>6. Plain("check the price").ns = "" /\ Plain("check the price") # Brace
    BY DEF Plain, Brace
  <2>4. Cardinality({}) <= 3
    BY FS_EmptySet
  <2> HIDE DEF said
  <2>5. PostProcess(raw) \in Drafts
    <3>1. NoPatch \in Patches /\ {} \in SUBSET (Nat \X Catalogue) /\ FALSE \in BOOLEAN
          /\ None \in Labels \cup {None}
      BY NoPatchType
    <3>2. [text |-> said, remind |-> raw.callback_note, media |-> {},
           patch |-> NoPatch, status |-> None, escalate |-> FALSE] \in Drafts
      BY <2>2, <3>1, DraftType, Zenon
    <3> QED
      BY <2>1, <3>2
  <2>7. /\ PostProcess(raw).text = said /\ PostProcess(raw).media = {}
        /\ PostProcess(raw).escalate = FALSE
    BY <2>1
  <2> QED
    BY <2>3, <2>4, <2>5, <2>6, <2>7 DEF Offered, Stopped
<1>3. CASE ~raw.escalate /\ ~rendered.failed
  <2> DEFINE files == ResolveAssets(raw.asset_refs)
             patch == CleanProfilePatch(raw.profile_patch)
  <2>1. PostProcess(raw) = [text |-> rendered.text, remind |-> raw.callback_note,
                            media |-> files, patch |-> patch,
                            status |-> raw.suggested_status, escalate |-> FALSE]
    BY <1>3 DEF PostProcess, Offer, Escalation
  <2>2. rendered.text \in Texts
    BY RenderType
  <2>3. \A i \in DOMAIN rendered.text : rendered.text[i].ns = "" /\ rendered.text[i] # Brace
    BY <1>3, RenderIsComplete
  <2>4. files \in SUBSET (Nat \X Catalogue) /\ Cardinality(files) <= 3 /\ patch \in Patches
    BY AtMostThreeFiles, CleanType
  <2> HIDE DEF rendered, files, patch
  <2>5. PostProcess(raw) \in Drafts
    <3>1. [text |-> rendered.text, remind |-> raw.callback_note, media |-> files,
           patch |-> patch, status |-> raw.suggested_status, escalate |-> FALSE] \in Drafts
      BY <2>2, <2>4, DraftType, Zenon
    <3> QED
      BY <2>1, <3>1
  <2>6. /\ PostProcess(raw).text = rendered.text /\ PostProcess(raw).media = files
        /\ PostProcess(raw).escalate = FALSE
    BY <2>1
  <2> QED
    BY <2>3, <2>4, <2>5, <2>6 DEF Offered, Stopped
<1> QED
  BY <1>1, <1>2, <1>3

(* Whatever the model answers, the handler gets a draft that keeps these   *)
(* promises, and so are the holding reply and its own failure note.        *)
THEOREM DraftsKeepPromises ==
  ASSUME NEW d \in Drafted \cup {Holding, Failure}
  PROVE  d \in Drafts /\ Offered(d) /\ Stopped(d)
<1>1. CASE d \in Drafted
  <2>1. PICK a \in Answers : d = PostProcess(Parse(a))
    BY <1>1 DEF Drafted
  <2> QED
    BY <2>1, ParseType, PostProcessKeeps
<1>2. CASE d \in {Holding, Failure}
  <2>1. Says("holding reply") \in Texts /\ Says("no draft") \in Texts
    BY WordsAssumption, SaysType
  <2> QED
    BY <1>2, <2>1, EscalationType, EscalationStops DEF Holding, Failure
<1> QED
  BY <1>1, <1>2

(* A patch sets no stage, and empties an attribute only if the model's did.*)
NoBlanks == \A a \in Answers : "profile_patch" \in DOMAIN a =>
               \A k \in DOMAIN a.profile_patch : a.profile_patch[k] # "blank"
Cleaned(d) == \A k \in DOMAIN d.patch : k # Stage /\ (NoBlanks => d.patch[k] # "blank")

LEMMA DraftsAreCleaned ==
  ASSUME NEW d \in Drafted \cup {Holding, Failure}
  PROVE  Cleaned(d)
<1>1. CASE d \in Drafted
  <2>1. PICK a \in Answers : d = PostProcess(Parse(a))
    BY <1>1 DEF Drafted
  <2> DEFINE patch == Parse(a).profile_patch
  <2>2. NoBlanks => \A k \in DOMAIN patch : patch[k] # "blank"
    BY DEF NoBlanks, Parse, Field, NoPatch
  <2>3. \A k \in DOMAIN CleanProfilePatch(patch) :
           k # Stage /\ (NoBlanks => CleanProfilePatch(patch)[k] # "blank")
    BY <2>2 DEF CleanProfilePatch
  <2>4. d.patch = NoPatch \/ d.patch = CleanProfilePatch(patch)
    BY <2>1 DEF PostProcess, Offer, Escalation
  <2> HIDE DEF patch
  <2> QED
    BY <2>3, <2>4 DEF Cleaned, NoPatch
<1>2. CASE d \in {Holding, Failure}
  <2>1. \A text : Escalation(text).patch = NoPatch
    BY DEF Escalation
  <2>2. d.patch = NoPatch
    BY <1>2, <2>1 DEF Holding, Failure
  <2> QED
    BY <2>2 DEF Cleaned, NoPatch
<1> QED
  BY <1>1, <1>2
=============================================================================
