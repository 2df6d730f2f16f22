------------------------------ MODULE Scheduler ------------------------------
(***************************************************************************)
(* lab04-Group12/scheduler.c: reads a workload into a list of jobs and     *)
(* runs one of five scheduling policies on it, printing every slice of     *)
(* processor time.  One step per turn of a policy's loop; the scans of the *)
(* list inside a turn are operators.                                       *)
(*                                                                         *)
(* Jobs come in the order of arrival (the comment at scheduler.c:20) and   *)
(* last at least one unit, and the slice is at least one unit: with a job  *)
(* or a slice of length 0 the loops of STCF, RR and LT may not end.        *)
(***************************************************************************)
EXTENDS Integers, Sequences, FiniteSets, Schedules

CONSTANTS
  POLICIES,     \* policies run, some of the five
  SLICES,       \* values of argv[3]
  TICKETS,      \* 100 in the code: job k of the list gets (k + 1) * TICKETS
  MAX_JOBS,     \* bound: jobs of a workload
  MAX_ARRIVAL,  \* bound: latest arrival
  MAX_LENGTH    \* bound: longest job

ASSUME PoliciesAssumption == POLICIES \subseteq {"FIFO", "SJF", "STCF", "RR", "LT"}
ASSUME SlicesAssumption == SLICES \subseteq Nat \ {0}
ASSUME TicketsAssumption == TICKETS \in Nat \ {0}
ASSUME BoundsAssumption == MAX_JOBS \in Nat /\ MAX_ARRIVAL \in Nat /\ MAX_LENGTH \in Nat

VARIABLES
  pc,           \* "read", "policy", "done", or "failed" for an empty file
  pname, slice,
  numofjobs,
  jobs,         \* the list: id -> job
  time,
  completed,    \* number of jobs completed; FIFO does not count
  temp,         \* FIFO, RR: the job the loop is at; numofjobs stands for NULL
  progress,     \* RR: whether this pass has run a job
  current_job,  \* STCF: the job whose slice is not printed yet
  run_start,    \* STCF: when that slice began
  trace         \* the slices printed, records [t, id, ran]

args == <<pname, slice>>
table == <<numofjobs, jobs>>
loop == <<temp, progress>>
running == <<current_job, run_start>>
vars == <<pc, args, table, time, completed, loop, running, trace>>

NULL == -1
Ids == 0..(numofjobs - 1)

\* append_to leaves the three measures uninitialised; nothing reads them before
\* a policy has set them.
NewJob(id, arrival, length) ==
  [arrival |-> arrival, length |-> length, tickets |-> (id + 1) * TICKETS,
   is_completed |-> FALSE, time_left |-> length, startTime |-> -1,
   responseTime |-> NULL, turnaroundTime |-> NULL, waitTime |-> NULL]

Init ==
  /\ pc = "read"
  /\ pname \in POLICIES /\ slice \in SLICES
  /\ numofjobs = 0 /\ jobs = <<>>
  /\ time = 0 /\ completed = 0
  /\ temp = 0 /\ progress = FALSE
  /\ current_job = NULL /\ run_start = 0
  /\ trace = <<>>

ReadJob(arrival, length) ==
  /\ pc = "read" /\ numofjobs < MAX_JOBS
  /\ \A k \in Ids : jobs[k].arrival <= arrival
  /\ jobs' = [k \in 0..numofjobs |-> IF k = numofjobs THEN NewJob(k, arrival, length) ELSE jobs[k]]
  /\ numofjobs' = numofjobs + 1
  /\ UNCHANGED <<pc, args, time, completed, loop, running, trace>>

EmptyFile ==
  /\ pc = "read" /\ numofjobs = 0
  /\ pc' = "failed"
  /\ UNCHANGED <<args, table, time, completed, loop, running, trace>>

StartPolicy ==
  /\ pc = "read" /\ numofjobs > 0
  /\ pc' = "policy"
  /\ time' = IF pname = "FIFO" THEN jobs[0].arrival ELSE 0
  /\ UNCHANGED <<args, table, completed, loop, running, trace>>

-----------------------------------------------------------------------------
(* What the policies share. *)

Turn(policy) == pc = "policy" /\ pname = policy
Unfinished == completed < numofjobs
\* Mutant of Ready: a job is seen one unit after its arrival.
ReadyLate == {j \in Ids : ~jobs[j].is_completed /\ jobs[j].arrival < time}
Ready == {j \in Ids : ~jobs[j].is_completed /\ jobs[j].arrival <= time}

\* Mutants of Least: the first job ready; the last of several equal jobs.
LeastFirst(f) == CHOOSE j \in Ready : \A k \in Ready : j <= k
LeastLast(f) == CHOOSE j \in Ready : \A k \in Ready : f[j] < f[k] \/ (f[j] = f[k] /\ j >= k)
\* The scans keep the first job of the list that has the least value.
Least(f) == CHOOSE j \in Ready : \A k \in Ready : f[j] < f[k] \/ (f[j] = f[k] /\ j <= k)

Slice(t, id, ran) == [t |-> t, id |-> id, ran |-> ran]
Printf(slices) == trace' = trace \o slices

\* Mutant of Started: every slice counts as the first.
StartedAlways(job) == [job EXCEPT !.startTime = time, !.responseTime = time - job.arrival]
\* A job once it has begun to run now, and once it has ended at time end.
Started(job) ==
  IF job.startTime = -1
  THEN [job EXCEPT !.startTime = time, !.responseTime = time - job.arrival]
  ELSE job
Measured(job, end) ==
  [job EXCEPT !.turnaroundTime = end - job.arrival,
              !.waitTime = end - job.arrival - job.length]
Ended(job, end) == [Measured(job, end) EXCEPT !.is_completed = TRUE]

\* No job has arrived: SJF and STCF let one unit pass.
Idle ==
  /\ Turn("SJF") \/ Turn("STCF")
  /\ Unfinished /\ Ready = {}
  /\ time' = time + 1
  /\ UNCHANGED <<pc, args, table, completed, loop, running, trace>>

-----------------------------------------------------------------------------
(* The policies. *)

\* When the job after j starts, if there is one.
FifoNext(j) ==
  LET end == time + jobs[j].length
  IN IF j + 1 < numofjobs /\ jobs[j + 1].arrival > end THEN jobs[j + 1].arrival ELSE end

FifoRun ==
  /\ Turn("FIFO")
  /\ temp < numofjobs
  /\ Printf(<<Slice(time, temp, jobs[temp].length)>>)
  /\ jobs' = [jobs EXCEPT ![temp] = Measured(Started(@), time + jobs[temp].length)]
  /\ time' = FifoNext(temp)
  /\ temp' = temp + 1
  /\ UNCHANGED <<pc, args, numofjobs, completed, progress, running>>

SjfRun ==
  /\ Turn("SJF")
  /\ Unfinished /\ Ready # {}
  /\ LET j == Least([k \in Ids |-> jobs[k].length])
         end == time + jobs[j].length
     IN /\ Printf(<<Slice(time, j, jobs[j].length)>>)
        /\ jobs' = [jobs EXCEPT ![j] = Ended(Started(@), end)]
        /\ time' = end
  /\ completed' = completed + 1
  /\ UNCHANGED <<pc, args, numofjobs, loop, running>>

\* The slice of a preempted job is printed when another one takes over.
Preempted(j) ==
  IF current_job # j /\ current_job # NULL
  THEN <<Slice(run_start, current_job, time - run_start)>>
  ELSE <<>>

\* Mutant of SliceStart: a job that takes over keeps the start of the other.
SliceStartStale(j) == run_start
SliceStart(j) == IF current_job # j THEN time ELSE run_start

StcfRun ==
  /\ Turn("STCF")
  /\ Unfinished /\ Ready # {}
  /\ LET j == Least([k \in Ids |-> jobs[k].time_left])
         job == [Started(jobs[j]) EXCEPT !.time_left = @ - 1]
         ends == job.time_left = 0
         last == IF ends THEN <<Slice(SliceStart(j), j, time + 1 - SliceStart(j))>> ELSE <<>>
     IN /\ Printf(Preempted(j) \o last)
        /\ jobs' = [jobs EXCEPT ![j] = IF ends THEN Ended(job, time + 1) ELSE job]
        /\ completed' = IF ends THEN completed + 1 ELSE completed
        /\ current_job' = IF ends THEN NULL ELSE j
        /\ run_start' = SliceStart(j)
  /\ time' = time + 1
  /\ UNCHANGED <<pc, args, numofjobs, loop>>

Eligible(j) == j \in Ready /\ jobs[j].time_left > 0

\* Mutants of RrAfter: the pass starts again after every slice; two jobs on.
RrAfterRestart(j) == 0
RrAfterTwo(j) == j + 2
RrAfter(j) == j + 1

RrRun ==
  /\ Turn("RR")
  /\ temp < numofjobs /\ Eligible(temp)
  /\ LET left == jobs[temp].time_left
         runtime == IF slice < left THEN slice ELSE left
         job == [Started(jobs[temp]) EXCEPT !.time_left = left - runtime]
     IN /\ Printf(<<Slice(time, temp, runtime)>>)
        /\ jobs' = [jobs EXCEPT ![temp] =
                      IF job.time_left = 0 THEN Ended(job, time + runtime) ELSE job]
        /\ completed' = IF job.time_left = 0 THEN completed + 1 ELSE completed
        /\ time' = time + runtime
  /\ progress' = TRUE
  /\ temp' = RrAfter(temp)
  /\ UNCHANGED <<pc, args, numofjobs, running>>

RrSkip ==
  /\ Turn("RR")
  /\ temp < numofjobs /\ ~Eligible(temp)
  /\ temp' = temp + 1
  /\ UNCHANGED <<pc, args, table, time, completed, progress, running, trace>>

\* A pass is over; one that ran no job lets one unit pass.
RrPass ==
  /\ Turn("RR")
  /\ temp = numofjobs /\ Unfinished
  /\ time' = IF progress THEN time ELSE time + 1
  /\ temp' = 0 /\ progress' = FALSE
  /\ UNCHANGED <<pc, args, table, completed, running, trace>>

\* The tickets the jobs of S hold together, each a pair of a job and a number.
Tickets(S) == Cardinality(UNION {{j} \X (1..jobs[j].tickets) : j \in S})

\* Mutant of Wins: the first ticket of a job counts for the job before it.
WinsLate(j, ticket) ==
  /\ j \in Ready /\ Tickets({k \in Ready : k <= j}) >= ticket
  /\ \A k \in Ready : k < j => Tickets({l \in Ready : l <= k}) < ticket
\* The first job whose tickets, added to those before it, exceed the number drawn.
Wins(j, ticket) ==
  /\ j \in Ready /\ Tickets({k \in Ready : k <= j}) > ticket
  /\ \A k \in Ready : k < j => Tickets({l \in Ready : l <= k}) <= ticket

\* The winner runs a whole slice, also past its end.
LtRun(ticket) ==
  /\ Turn("LT")
  /\ Unfinished /\ Ready # {}
  /\ ticket < Tickets(Ready)
  /\ \E j \in Ids :
       LET job == [Started(jobs[j]) EXCEPT !.time_left = @ - slice]
       IN /\ Wins(j, ticket)
          /\ Printf(<<Slice(time, j, slice)>>)
          /\ jobs' = [jobs EXCEPT ![j] =
                        IF job.time_left <= 0 THEN Ended(job, time + slice) ELSE job]
          /\ completed' = IF job.time_left <= 0 THEN completed + 1 ELSE completed
  /\ time' = time + slice
  /\ UNCHANGED <<pc, args, numofjobs, loop, running>>

\* No job is ready: the clock jumps to the first job of the list still to come.
\* There is one, as long as a job is unfinished.
LtJump ==
  /\ Turn("LT")
  /\ Unfinished /\ Ready = {}
  /\ \E j \in Ids :
       /\ ~jobs[j].is_completed /\ jobs[j].arrival > time
       /\ \A k \in 0..(j - 1) : jobs[k].is_completed \/ jobs[k].arrival <= time
       /\ time' = jobs[j].arrival
  /\ UNCHANGED <<pc, args, table, completed, loop, running, trace>>

\* The policy returns, and analyze_policy computes the waiting times again.
EndPolicy ==
  /\ pc = "policy"
  /\ IF pname = "FIFO" THEN temp = numofjobs
     ELSE ~Unfinished /\ (pname = "RR" => temp = numofjobs)
  /\ pc' = "done"
  /\ jobs' = [j \in Ids |-> [jobs[j] EXCEPT !.waitTime = jobs[j].turnaroundTime - jobs[j].length]]
  /\ UNCHANGED <<args, numofjobs, time, completed, loop, running, trace>>

\* The program has exited.
Exited == pc \in {"done", "failed"} /\ UNCHANGED vars

Next ==
  \/ \E arrival \in 0..MAX_ARRIVAL, length \in 1..MAX_LENGTH : ReadJob(arrival, length)
  \/ EmptyFile \/ StartPolicy \/ EndPolicy \/ Exited
  \/ Idle \/ FifoRun \/ SjfRun \/ StcfRun
  \/ RrRun \/ RrSkip \/ RrPass
  \/ LtJump \/ \E ticket \in 0..(MAX_JOBS * (MAX_JOBS + 1) * TICKETS) : LtRun(ticket)

Spec == Init /\ [][Next]_vars

\* One thread, and a finite workload.
FairSpec == Spec /\ WF_vars(Next)

-----------------------------------------------------------------------------
(* Properties. *)

Slices == 1..Len(trace)
\* The slices of the trace and the one STCF has not printed yet.
Held == IF current_job = NULL THEN <<>> ELSE <<Slice(run_start, current_job, time - run_start)>>
History == trace \o Held
EndOf(s) == s.t + s.ran
\* The units of time in which the slices of s run job j.
Units(s, j) == UNION {s[k].t..(EndOf(s[k]) - 1) : k \in {k \in DOMAIN s : s[k].id = j}}
Executed(s, j) == Cardinality(Units(s, j))

\* The shapes of the scheduler's variables.
TypeOK ==
  /\ pc \in {"read", "policy", "done", "failed"}
  /\ numofjobs \in 0..MAX_JOBS /\ DOMAIN jobs = Ids
  /\ \A j \in Ids : jobs[j].time_left <= jobs[j].length /\ jobs[j].is_completed \in BOOLEAN
  /\ time \in Nat /\ completed \in 0..numofjobs
  /\ temp \in 0..numofjobs /\ progress \in BOOLEAN
  /\ current_job \in Ids \cup {NULL} /\ run_start \in 0..time
  /\ trace \in Seq([t : Nat, id : Ids, ran : Nat \ {0}])

\* Slices follow each other, and no job runs before it arrives.
SlicesInOrder ==
  /\ \A k \in 1..(Len(History) - 1) : EndOf(History[k]) <= History[k + 1].t
  /\ \A k \in DOMAIN History : History[k].t >= jobs[History[k].id].arrival

\* The trace is one processor's history: slices are in order, and a policy that
\* counts down time_left has printed, or still holds back, exactly the time it
\* took off.
TraceExact ==
  /\ SlicesInOrder
  /\ \A j \in Ids : pname \in {"STCF", "RR", "LT"} =>
       Executed(History, j) = jobs[j].length - jobs[j].time_left
  /\ \A j \in Ids : pc = "done" /\ pname # "LT" => Executed(trace, j) = jobs[j].length

\* The processor is never idle while a job that has arrived is unfinished: at
\* every such moment a printed slice runs.  The slice of LT is busy to its end,
\* also when its job needs less; that time is charged to it all the same.
WorkConserving ==
  pc = "done" =>
    \A u \in 0..(time - 1), j \in Ids :
      \/ u < jobs[j].arrival \/ u >= jobs[j].arrival + jobs[j].turnaroundTime
      \/ \E k \in Slices : trace[k].t <= u /\ u < EndOf(trace[k])

\* The analysis agrees with the trace: response to the first slice, turnaround
\* to the end of the last, and waiting is the time others ran or LT overran.
AnalysisExact ==
  pc = "done" =>
    \A j \in Ids :
      LET mine == {k \in Slices : trace[k].id = j}
      IN \E first, last \in mine :
           /\ \A k \in mine : first <= k /\ k <= last
           /\ jobs[j].responseTime = trace[first].t - jobs[j].arrival
           /\ jobs[j].turnaroundTime = EndOf(trace[last]) - jobs[j].arrival
           /\ jobs[j].waitTime = jobs[j].turnaroundTime - jobs[j].length
           /\ jobs[j].waitTime >= jobs[j].responseTime

\* SJF: a job that starts is not longer than any that has arrived and starts
\* later, and the list order breaks ties.
ShortestNext ==
  pname = "SJF" =>
    \A a, b \in Slices :
      LET j == trace[a].id  k == trace[b].id
      IN a < b /\ jobs[k].arrival <= trace[a].t =>
           jobs[j].length < jobs[k].length \/ (jobs[j].length = jobs[k].length /\ j < k)

\* RR: between two slices of a job every other that had arrived by the end of
\* the first, and still has work, gets one.
NoOvertaking ==
  pname = "RR" =>
    \A a, b \in Slices, k \in Ids :
      /\ a < b /\ trace[a].id = trace[b].id /\ k # trace[a].id
      /\ jobs[k].arrival <= EndOf(trace[a])
      /\ Executed(SubSeq(trace, 1, a), k) < jobs[k].length
      => \E c \in (a + 1)..(b - 1) : trace[c].id = k

\* With a slice no job exceeds, RR prints what FIFO prints.
LongSliceIsFifo ==
  pc = "done" /\ pname = "RR" /\ (\A j \in Ids : jobs[j].length <= slice) =>
    \A k \in Slices :
      /\ trace[k].id = k - 1
      /\ trace[k].t = IF k = 1 \/ EndOf(trace[k - 1]) < jobs[k - 1].arrival
                      THEN jobs[k - 1].arrival ELSE EndOf(trace[k - 1])

\* LT: every ready job wins with exactly as many draws as it has tickets.
LotteryFair ==
  Turn("LT") =>
    \A j \in Ready :
      Cardinality({d \in 0..(Tickets(Ready) - 1) : Wins(j, d)}) = jobs[j].tickets

\* STCF reaches the least total turnaround of all schedules, preemptive ones and
\* those that let the processor idle included, and so does SJF when all jobs
\* arrive together: when it is done no schedule has less behind it, finished or
\* not, and there is one that has finished with as much.
Optimal ==
  pc = "done" /\ (pname = "STCF" \/ (pname = "SJF" /\ \A j, k \in Ids : jobs[j].arrival = jobs[k].arrival)) =>
    LET reached == Reach([j \in Ids |-> jobs[j].arrival], [j \in Ids |-> jobs[j].length], time)
        total == SumOver([j \in Ids |-> jobs[j].turnaroundTime], Ids)
    IN /\ \A r \in reached : total <= r.total
       /\ [left |-> [j \in Ids |-> 0], total |-> total] \in reached

\* Every policy ends, whatever the draws of LT are.
Finishes == <>(pc \in {"done", "failed"})
=============================================================================
