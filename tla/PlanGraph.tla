------------------------------ MODULE PlanGraph ------------------------------
(***************************************************************************)
(* What executing a plan means, whatever runs it: artifacts are done one   *)
(* at a time and never undone, each after its dependencies, and the plan   *)
(* is reported finished only when nothing is left.  A later call may take  *)
(* the report back, and has to execute the plan to give it again.          *)
(***************************************************************************)
CONSTANTS Artifacts, Deps

VARIABLES
  done,      \* artifacts that have been executed successfully
  finished   \* 1 when the plan has been reported complete

Init == done = {} /\ finished = 0

Do(a) ==
  /\ Deps[a] \subseteq done
  /\ done' = done \cup {a}
  /\ UNCHANGED finished

Finish ==
  /\ done = Artifacts
  /\ finished' = 1
  /\ UNCHANGED done

Withdraw == finished' = 0 /\ UNCHANGED done

Next == (\E a \in Artifacts : Do(a)) \/ Finish \/ Withdraw

Spec == Init /\ [][Next]_<<done, finished>>
=============================================================================
