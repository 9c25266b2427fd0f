----------------------------- MODULE DraftOnce -----------------------------
(***************************************************************************)
(* What the webhook receiver promises the people who read its notes,       *)
(* whatever is redelivered, lost, late or killed: a customer message is    *)
(* taken up at most once, an event that is not a public customer message   *)
(* never is, and each message taken up ends with one private note or with  *)
(* none (and then for good).  Webhook implements this specification.       *)
(***************************************************************************)
EXTENDS Naturals

CONSTANTS Msgs,      \* Chatwoot message ids
          Eligible   \* those of public customer messages

VARIABLES seen,      \* messages taken up so far
          open,      \* taken up, and a note may still appear
          notes      \* notes[m]: private notes posted for m

vars == <<seen, open, notes>>

Init == seen = {} /\ open = {} /\ notes = [m \in Msgs |-> 0]

TakeUp(m) == /\ m \in Eligible \ seen
             /\ seen' = seen \cup {m}
             /\ open' = open \cup {m}
             /\ UNCHANGED notes

Post(m) == /\ m \in open
           /\ notes' = [notes EXCEPT ![m] = @ + 1]
           /\ open' = open \ {m}
           /\ UNCHANGED seen

(* Several messages are given up at once when the process is killed.       *)
GiveUp(S) == /\ S \subseteq open
             /\ open' = open \ S
             /\ UNCHANGED <<seen, notes>>

Next == \/ \E m \in Msgs : TakeUp(m) \/ Post(m)
        \/ \E S \in SUBSET Msgs : GiveUp(S)

Spec == Init /\ [][Next]_vars
=============================================================================
