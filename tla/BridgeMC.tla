------------------------------ MODULE BridgeMC ------------------------------
(***************************************************************************)
(* Instances of Bridge: two WhatsApp numbers and two values of the         *)
(* settings, a Chatwoot account that has the inbox of one number or none,  *)
(* an Evolution server that knows the numbers and was told nothing.        *)
(* Inbox 9 of the environment is no WhatsApp inbox.                        *)
(***************************************************************************)
EXTENDS Bridge, TLC

CONSTANTS r1, r2, shop, help, old, new

RequestsOne == {r1}
RequestsTwo == {r1, r2}
InstancesOne == {shop}
InstancesTwo == {shop, help}
ConfsOne == {old}
ConfsTwo == {old, new}
AccountsEmpty == {[inboxes |-> {}, made |-> 0, hooks |-> 0]}
AccountsShop == {[inboxes |-> {[id |-> 1, name |-> shop, hook |-> None]}, made |-> 1, hooks |-> 0]}
ServersNew == {[chatwoot |-> [i \in Instances |-> None], events |-> [i \in Instances |-> None]]}

Symmetry == Permutations(RequestsTwo) \cup Permutations(InstancesTwo)
              \cup Permutations(ConfsTwo)
=============================================================================
