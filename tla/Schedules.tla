----------------------------- MODULE Schedules -----------------------------
(***************************************************************************)
(* The schedules of one processor that a policy is compared to: at every   *)
(* unit of time any job that has arrived and is not finished may run for   *)
(* that unit, or none.  arrival and length are functions of the job.       *)
(***************************************************************************)
EXTENDS Integers, FiniteSets

\* The sum of f over S: the number of pairs of a member and a number up to its value.
SumOver(f, S) == Cardinality(UNION {{j} \X (1..f[j]) : j \in S})

\* The jobs that wait or run in the unit that begins at t.
Present(arrival, left, t) == {j \in DOMAIN arrival : arrival[j] <= t /\ left[j] > 0}

\* Where a schedule may be one unit after t: left is what the jobs have still to
\* run, total the time the jobs have been present, all together.
Moves(arrival, r, t) ==
  LET present == Present(arrival, r.left, t)
  IN {[left |-> left, total |-> r.total + Cardinality(present)] :
        left \in {r.left} \cup {[r.left EXCEPT ![j] = @ - 1] : j \in present}}

\* Where the schedules may be at time n.
Reach(arrival, length, n) ==
  LET reach[t \in 0..n] == IF t = 0 THEN {[left |-> length, total |-> 0]}
                           ELSE UNION {Moves(arrival, r, t - 1) : r \in reach[t - 1]}
  IN reach[n]
=============================================================================
