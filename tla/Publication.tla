---------------------------- MODULE Publication ----------------------------
(***************************************************************************)
(* What publishing promises, without a table or a statement: configs are   *)
(* announced one after the other and each once, the bot serves one that    *)
(* was announced, never a draft, and a restart serves the one announced    *)
(* last.  That the bot serves the last one at once is not promised.        *)
(***************************************************************************)
CONSTANT Configs

VARIABLES current,  \* the published config
          ever,     \* configs that are or were published
          served,   \* the config the bot works from
          up        \* the bot is running

vars == <<current, ever, served, up>>

Init == /\ current \in Configs
        /\ ever = {current}
        /\ served = current
        /\ up = TRUE

(* An administrator publishes or rolls back.                               *)
Announce == /\ up
            /\ current' \in Configs \ ever
            /\ ever' = ever \cup {current'}
            /\ UNCHANGED <<served, up>>

(* The content is exchanged while the bot is running.                      *)
Install == /\ up
           /\ served' \in ever
           /\ UNCHANGED <<current, ever, up>>

Stop == /\ up
        /\ up' = FALSE
        /\ UNCHANGED <<current, ever, served>>

Restart == /\ ~up
           /\ up' = TRUE
           /\ served' = current
           /\ UNCHANGED <<current, ever>>

Next == Announce \/ Install \/ Stop \/ Restart

Spec == Init /\ [][Next]_vars
=============================================================================
