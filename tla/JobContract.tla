----------------------------- MODULE JobContract ------------------------------
(***************************************************************************)
(* What the job queue (server/src/job-queue.js) promises its producers     *)
(* when one worker serves it.  An accepted job is open until it is closed  *)
(* for good: on the list completed on the strength of a handler run that   *)
(* returned, on the list failed, or on neither, which takes a fault.  It   *)
(* is on a list and open at once, and so perhaps on both in the end, only  *)
(* if the command that put it there took effect and was reported failed.   *)
(***************************************************************************)
CONSTANTS Jobs

VARIABLES
  standing,    \* job -> {} or "accepted", with "open", "completed", "failed"
  returned,    \* jobs whose handler has returned a result
  doubted,     \* jobs listed by a command that was reported failed
  broken       \* whether anything has failed

contractVars == <<standing, returned, doubted, broken>>

Lists == {"completed", "failed"}

ContractInit ==
  /\ standing = [j \in Jobs |-> {}]
  /\ returned = {} /\ doubted = {} /\ broken = FALSE

Accept(j) ==
  /\ standing[j] = {}
  /\ standing' = [standing EXCEPT ![j] = {"accepted", "open"}]
  /\ UNCHANGED <<returned, doubted, broken>>

Return(j) ==
  /\ "open" \in standing[j]
  /\ returned' = returned \cup {j}
  /\ UNCHANGED <<standing, doubted, broken>>

MayList(j, s) == "open" \in standing[j] /\ (s = "completed" => j \in returned)

Close(j) ==
  /\ \E s \in Lists :
       /\ MayList(j, s) /\ (standing[j] \cap Lists # {} => j \in doubted)
       /\ standing' = [standing EXCEPT ![j] = (@ \ {"open"}) \cup {s}]
  /\ UNCHANGED <<returned, doubted, broken>>

Doubt(j) ==
  /\ \E s \in Lists : /\ MayList(j, s)
                        /\ standing' = [standing EXCEPT ![j] = @ \cup {s}]
  /\ doubted' = doubted \cup {j} /\ broken' = TRUE
  /\ UNCHANGED returned

\* A fault, with or without the end of a job that was open
Fault(j) ==
  /\ standing' \in {standing, [standing EXCEPT ![j] = @ \ {"open"}]}
  /\ broken' = TRUE
  /\ UNCHANGED <<returned, doubted>>

ContractNext ==
  \E j \in Jobs : Accept(j) \/ Return(j) \/ Close(j) \/ Doubt(j) \/ Fault(j)

\* No step opens a closed job or lists it again (job-queue.js:188-242, 293-311).
JobContractSpec == ContractInit /\ [][ContractNext]_contractVars
=============================================================================
