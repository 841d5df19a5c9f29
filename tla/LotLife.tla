------------------------------ MODULE LotLife ------------------------------
(***************************************************************************)
(* The life of a lot, as every part of the application must keep it: only  *)
(* an open lot takes work, a deleted one gains nothing, it is purged when  *)
(* no lease is left on it, and a purged lot stays empty.  JobQueue and     *)
(* LotStorage, which look at the same lots from the rows of their jobs and *)
(* from their files, both implement it.                                    *)
(***************************************************************************)
CONSTANT Lots

VARIABLES
  status,   \* status[l]: "open", "canceled", "deleted" or "purged"
  held,     \* held[l]: a worker holds a lease on the lot
  exposed   \* exposed[l]: the lot has a committed artefact

lifeVars == <<status, held, exposed>>

LifeInit ==
  /\ status = [l \in Lots |-> "open"]
  /\ held = [l \in Lots |-> FALSE]
  /\ exposed = [l \in Lots |-> FALSE]

\* Of these lots, fewer have what they had.
Fewer(new, old) == new \in [Lots -> BOOLEAN] /\ \A l \in Lots : new[l] => old[l]

\* An acquisition: the worker takes a lease on a lot that is open.
Take(l) ==
  /\ status[l] = "open"
  /\ held' = [held EXCEPT ![l] = TRUE]
  /\ UNCHANGED <<status, exposed>>

\* A commit, which may end the lease.
Expose(l) ==
  /\ status[l] \in {"open", "canceled"}
  /\ exposed' = [exposed EXCEPT ![l] = TRUE]
  /\ Fewer(held', held)
  /\ UNCHANGED status

\* Leases end, artefacts become obsolete.
Lose ==
  /\ Fewer(held', held)
  /\ Fewer(exposed', exposed)
  /\ UNCHANGED status

\* A worker confirms a cancellation, on a lot that is not deleted.
Cancel(l) ==
  /\ status[l] \in {"open", "canceled"}
  /\ status' = [status EXCEPT ![l] = "canceled"]
  /\ Fewer(held', held)
  /\ UNCHANGED exposed

Delete(l) ==
  /\ status[l] # "purged"
  /\ status' = [status EXCEPT ![l] = "deleted"]
  /\ UNCHANGED <<held, exposed>>

\* Nothing is taken from under a worker that holds its lease.
Purge(l) ==
  /\ status[l] # "purged"
  /\ ~held[l]
  /\ status' = [status EXCEPT ![l] = "purged"]
  /\ exposed' = [exposed EXCEPT ![l] = FALSE]
  /\ UNCHANGED held

LifeNext ==
  \/ Lose
  \/ \E l \in Lots : Take(l) \/ Expose(l) \/ Cancel(l) \/ Delete(l) \/ Purge(l)

LifeSpec == LifeInit /\ [][LifeNext]_lifeVars
=============================================================================
