----------------------------- MODULE ContentMC -----------------------------
(* Instances of Content: one or two administrators over one topic that     *)
(* uses one token, or over no knowledge base at all.                       *)
EXTENDS Content, TLC
CONSTANTS ada, bo, old, new, price, phone, faq, photo
OneAdmin == {ada}
TwoAdmins == {ada, bo}
TextsMC == {old, new}
Symmetry == Permutations(TwoAdmins) \cup Permutations(TextsMC)
=============================================================================
