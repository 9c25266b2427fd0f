---------------------------- MODULE ContactLock ----------------------------
(***************************************************************************)
(* What the webhook handler asks of its per-contact lock: a goroutine that *)
(* wants a contact waits, at most one goroutine has it, and whoever has it *)
(* gives it back.  KeyedMutex implements this specification; Webhook uses  *)
(* a lock of exactly this kind for its critical section.                   *)
(***************************************************************************)
CONSTANTS Procs,    \* goroutines of the HTTP server
          Keys      \* contact ids

VARIABLES wanted,   \* wanted[p]: the keys p has asked for and not been given
          held      \* held[p]: the keys p has

vars == <<wanted, held>>

Init == /\ wanted = [p \in Procs |-> {}]
        /\ held = [p \in Procs |-> {}]

Ask(p, k) == /\ wanted[p] = {} /\ held[p] = {}
             /\ wanted' = [wanted EXCEPT ![p] = {k}]
             /\ UNCHANGED held

Grant(p, k) == /\ k \in wanted[p]
               /\ \A q \in Procs : k \notin held[q]
               /\ wanted' = [wanted EXCEPT ![p] = {}]
               /\ held' = [held EXCEPT ![p] = {k}]

Release(p, k) == /\ k \in held[p]
                 /\ held' = [held EXCEPT ![p] = {}]
                 /\ UNCHANGED wanted

Next == \E p \in Procs, k \in Keys : Ask(p, k) \/ Grant(p, k) \/ Release(p, k)

(* sync.Mutex hands a mutex over in FIFO order once a goroutine has waited *)
(* a millisecond, so a waiter is not overtaken for ever (SF on Grant).     *)
Spec == /\ Init /\ [][Next]_vars
        /\ \A p \in Procs, k \in Keys : SF_vars(Grant(p, k)) /\ WF_vars(Release(p, k))
=============================================================================
