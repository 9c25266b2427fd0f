---------------------------- MODULE KeyedMutexMC ----------------------------
(* Three goroutines and two contacts: with three, one can hold the mutex   *)
(* while another waits on it and a third looks it up.                      *)
EXTENDS KeyedMutex
CONSTANTS g1, g2, g3, alice, bob
ProcsMC == {g1, g2, g3}
KeysMC == {alice, bob}
=============================================================================
