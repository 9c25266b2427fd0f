---------------------------- MODULE BridgeCrewMC ----------------------------
(***************************************************************************)
(* Three plays on the stage of BridgeMC, which together stay small enough: *)
(* two requests at two instances, with one account and one server, where   *)
(* inboxes are deleted; one request at two instances, with settings that   *)
(* move to other accounts and servers and nothing deleted; two requests at *)
(* one instance, with all of that, and with deleted account webhooks, late *)
(* calls and second inboxes.                                               *)
(***************************************************************************)
EXTENDS BridgeMC

VARIABLE crew  \* the requests and the instances of the play

Single(S) == {{x} : x \in S}
Moving == Cardinality(crew.requests) = 1
Small == Cardinality(crew.instances) = 1

CrewInit ==
  /\ Init
  /\ crew \in [requests : {Requests}, instances : {Instances}]
             \cup [requests : Single(Requests), instances : {Instances}]
             \cup [requests : {Requests}, instances : Single(Instances)]

Play ==
  \/ \E r \in crew.requests : \/ \E o \in Ops, i \in crew.instances : Start(r, o, i)
                              \/ Serve(r)
  \/ /\ ~Moving /\ ~Small => UNCHANGED <<remote, rows>>
     /\ Moving => conf' = conf
     /\ SetConfig
  \/ Crash
  \/ \E i \in crew.instances : \/ EvolutionMakesInbox(i)
                               \/ Small /\ (MakeInbox(i) \/ LateCall(i))
  \/ ~Moving /\ \E b \in inboxes : DeleteInbox(b)
  \/ Small /\ DeleteHooks

CrewNext == Play /\ UNCHANGED crew
CrewSpec == CrewInit /\ [][CrewNext]_<<vars, crew>>
=============================================================================
