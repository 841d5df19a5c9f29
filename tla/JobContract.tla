----------------------------- MODULE JobContract -----------------------------
(***************************************************************************)
(* What the job queue promises to the rest of the application, without the *)
(* steps, runs, leases and worker cycles that keep the promise: a job is   *)
(* asked for on an open lot, waits, is held by one worker at a time within *)
(* the slots, and ends once; a lot closes in one direction and takes its   *)
(* jobs with it.  JobQueue implements it.                                  *)
(***************************************************************************)
EXTENDS Naturals, FiniteSets

CONSTANTS Lots, Jobs, None, Slots

VARIABLES
  lot,    \* lot[l]: "open", "canceled", "deleted" or "purged"
  job,    \* job[j]: "absent", "waiting", "held", an outcome or "purged"
  owner   \* owner[j]: the lot of a job that exists

contractVars == <<lot, job, owner>>

ContractInit ==
  /\ lot = [l \in Lots |-> "open"]
  /\ job = [j \in Jobs |-> "absent"]
  /\ owner = [j \in Jobs |-> None]

Absent == {j \in Jobs : job[j] = "absent"}
Held == {j \in Jobs : job[j] = "held"}
Waiting(l) == {j \in Jobs : owner[j] = l /\ job[j] = "waiting"}
Pending(l) == {j \in Jobs : owner[j] = l /\ job[j] \in {"waiting", "held"}}

\* A decision, a retry or a request: the jobs it replaces are canceled.
Ask(l, new, replaced) ==
  /\ lot[l] = "open"
  /\ job' = [j \in Jobs |-> IF j = new THEN "waiting"
                            ELSE IF j \in replaced THEN "canceled" ELSE job[j]]
  /\ owner' = [owner EXCEPT ![new] = l]
  /\ UNCHANGED lot

\* A decision that asks for nothing yet.
Replace(l, replaced) ==
  /\ lot[l] = "open"
  /\ job' = [j \in Jobs |-> IF j \in replaced THEN "canceled" ELSE job[j]]
  /\ UNCHANGED <<lot, owner>>

\* Jobs whose workers were lost wait again.
Release(lost) ==
  /\ job' = [j \in Jobs |-> IF j \in lost THEN "waiting" ELSE job[j]]
  /\ UNCHANGED <<lot, owner>>

\* A job of an open lot is taken while a slot is free, once the jobs of lost
\* workers are released.
Take(j, lost) ==
  /\ j \in lost \/ job[j] = "waiting"
  /\ owner[j] \in Lots /\ lot[owner[j]] = "open"
  /\ Cardinality({i \in Held \ lost : lot[owner[i]] = "open"}) < Slots
  /\ job' = [i \in Jobs |-> IF i = j THEN "held"
                            ELSE IF i \in lost THEN "waiting" ELSE job[i]]
  /\ UNCHANGED <<lot, owner>>

\* A job of an open lot ends; a success asks for the jobs that follow.
Settle(j, outcome, next) ==
  /\ owner[j] \in Lots /\ lot[owner[j]] = "open"
  /\ job' = [i \in Jobs |-> IF i = j THEN outcome
                            ELSE IF i \in next THEN "waiting" ELSE job[i]]
  /\ owner' = [i \in Jobs |-> IF i \in next THEN owner[j] ELSE owner[i]]
  /\ UNCHANGED lot

\* A worker confirms the cancellation of its job, and of the lot unless that
\* one is deleted already.
Confirm(j) ==
  /\ owner[j] \in Lots
  /\ job' = [job EXCEPT ![j] = "canceled"]
  /\ IF lot[owner[j]] \in {"deleted", "purged"} THEN UNCHANGED lot
     ELSE lot' = [lot EXCEPT ![owner[j]] = "canceled"]
  /\ UNCHANGED owner

\* A lot is deleted, or waits for its purge: its waiting jobs are canceled.
Delete(l, dropped, lost) ==
  /\ lot[l] # "purged"
  /\ job' = [j \in Jobs |-> IF j \in dropped THEN "canceled"
                            ELSE IF j \in lost THEN "waiting" ELSE job[j]]
  /\ lot' = [lot EXCEPT ![l] = "deleted"]
  /\ UNCHANGED owner

\* A lot is purged with its jobs, none of which a worker still holds.
Purge(l, lost) ==
  /\ lot[l] # "purged"
  /\ \A j \in Held \ lost : owner[j] # l
  /\ job' = [j \in Jobs |-> IF owner[j] = l THEN "purged"
                            ELSE IF j \in lost THEN "waiting" ELSE job[j]]
  /\ owner' = [j \in Jobs |-> IF owner[j] = l THEN None ELSE owner[j]]
  /\ lot' = [lot EXCEPT ![l] = "purged"]

ContractNext ==
  \/ \E l \in Lots : \E J \in SUBSET Pending(l) :
       Replace(l, J) \/ \E j \in Absent : Ask(l, j, J)
  \/ \E lost \in SUBSET Held :
       \/ Release(lost)
       \/ \E j \in Jobs : Take(j, lost)
       \/ \E l \in Lots : Purge(l, lost) \/ \E D \in SUBSET Waiting(l) : Delete(l, D, lost)
  \/ \E j \in Held :
       Confirm(j) \/ Settle(j, "failed", {})
         \/ \E J \in SUBSET Absent : Settle(j, "succeeded", J)

ContractSpec == ContractInit /\ [][ContractNext]_contractVars
=============================================================================
