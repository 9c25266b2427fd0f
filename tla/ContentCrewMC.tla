--------------------------- MODULE ContentCrewMC ---------------------------
(***************************************************************************)
(* Content where the start chooses who is there: two administrators at the *)
(* same time, whose queries may fail, or one alone, whose queries are      *)
(* answered (but for the rows that priceBook misses without noticing) and  *)
(* who is promised more.                                                   *)
(***************************************************************************)
EXTENDS ContentMC

VARIABLE crew    \* the administrators that are there
crewVars == <<vars, crew>>

Alone == \A a, b \in crew : a = b

(* A maximum that could not be read gives the new row version 1.           *)
MaximumRead == \A i \in DOMAIN rows' : rows'[i].version = 1 => i = 1

CrewInit == Init /\ crew \in SUBSET Admins \ {{}}
CrewNext == /\ \/ \E a \in crew : \/ Step(a) \/ Request(a)
                                  \/ ~Alone /\ QueryFails(a)
               \/ Crash \/ Boot
            /\ Alone => MaximumRead
            /\ UNCHANGED crew
CrewSpec == CrewInit /\ [][CrewNext]_crewVars

(* SaveDraftConfig "upserts the single working draft", with a version of   *)
(* its own, for one administrator at a time, wherever the process died.    *)
SingleDraftAlone == Alone => SingleDraft

(* One administrator's hot reload installs what is published.              *)
ReloadIsCurrentAlone == [][Alone => InstallsPublished]_crewVars

(* One administrator's publish: "If validation fails, nothing is promoted" *)
(* (docs/08), so that the reload behind it is not refused.                 *)
PublishRefusesFirstAlone == [][Alone => PromotesValid]_crewVars
=============================================================================
