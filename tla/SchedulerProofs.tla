-------------------------- MODULE SchedulerProofs --------------------------
(***************************************************************************)
(* What Scheduler guarantees of every policy, for any number of jobs, any  *)
(* arrivals and lengths and any slice: the trace accounts for all time     *)
(* that jobs run, the processor is never idle with work to do, and the     *)
(* analysis says what the trace shows; what SJF, RR and LT promise; and    *)
(* that no schedule beats STCF, nor SJF when all jobs arrive together.     *)
(***************************************************************************)
EXTENDS Scheduler, FiniteSetTheorems, SequenceTheorems, TLAPS

JobType ==
  [arrival : Nat, length : Nat \ {0}, tickets : Nat, is_completed : BOOLEAN, time_left : Int,
   startTime : Nat \cup {-1}, responseTime : Int, turnaroundTime : Int, waitTime : Int]
SliceOf(I) == [t : Nat, id : I, ran : Nat \ {0}]

(* The history h of the processor up to now, for a table J of jobs of which  *)
(* those in D are done.                                                      *)

\* Slices do not overlap, and no job runs before it arrives.
InOrder(h, J, now) ==
  /\ \A k, l \in DOMAIN h : k < l => EndOf(h[k]) <= h[l].t
  /\ \A k \in DOMAIN h : EndOf(h[k]) <= now /\ h[k].t >= J[h[k].id].arrival

Covered(h, u) == \E k \in DOMAIN h : h[k].t <= u /\ u < EndOf(h[k])

\* Whenever a job is there to run, some job runs.
NeverIdle(h, J, D, now) ==
  \A u \in 0..(now - 1), j \in DOMAIN J :
    J[j].arrival <= u /\ (j \in D => u < J[j].arrival + J[j].turnaroundTime) => Covered(h, u)

\* What is recorded of a job's first slice, and of its last.
FirstSlice(h, J) ==
  \A j \in DOMAIN J :
    IF J[j].startTime = -1 THEN \A k \in DOMAIN h : h[k].id # j
    ELSE /\ J[j].responseTime = J[j].startTime - J[j].arrival
         /\ \E k \in DOMAIN h : /\ h[k].id = j /\ h[k].t = J[j].startTime
                                /\ \A l \in DOMAIN h : h[l].id = j => k <= l

LastSlice(h, J, D, now) ==
  \A j \in D :
    /\ J[j].startTime # -1
    /\ J[j].arrival + J[j].turnaroundTime <= now
    /\ J[j].turnaroundTime - J[j].length >= J[j].responseTime
    /\ \E k \in DOMAIN h : /\ h[k].id = j /\ EndOf(h[k]) = J[j].arrival + J[j].turnaroundTime
                           /\ \A l \in DOMAIN h : h[l].id = j => l <= k

\* A job that is not done has work left, and has run no longer than since it began.
WorkLeft(J, D, now) ==
  \A j \in DOMAIN J \ D :
    /\ J[j].time_left > 0
    /\ IF J[j].startTime = -1 THEN J[j].time_left = J[j].length
       ELSE J[j].length - J[j].time_left <= now - J[j].startTime

Good(h, J, D, now) ==
  /\ InOrder(h, J, now) /\ NeverIdle(h, J, D, now)
  /\ FirstSlice(h, J) /\ LastSlice(h, J, D, now) /\ WorkLeft(J, D, now)

-----------------------------------------------------------------------------
(* What a turn does to a history and to a job. *)

\* From h to g job j has run until then: in one more slice m from now, or by
\* making the last slice m longer.
Extended(h, g, m, j, now, then) ==
  /\ m \in Nat \ {0} /\ DOMAIN g = 1..m
  /\ DOMAIN h \in {1..m, 1..(m - 1)}
  /\ \A k \in 1..(m - 1) : g[k] = h[k]
  /\ g[m].id = j /\ EndOf(g[m]) = then
  /\ IF DOMAIN h = 1..m THEN h[m].id = j /\ h[m].t = g[m].t /\ EndOf(h[m]) = now
                        ELSE g[m].t = now

\* r is what job becomes when it runs from now on.
HasRun(r, job, now) ==
  /\ r \in JobType
  /\ r.arrival = job.arrival /\ r.length = job.length /\ r.time_left <= job.time_left
  /\ r.startTime = (IF job.startTime = -1 THEN now ELSE job.startTime)
  /\ r.responseTime = (IF job.startTime = -1 THEN now - job.arrival ELSE job.responseTime)

\* It is done then, or it is not.
IsDone(r, job, now, then) ==
  /\ r.turnaroundTime = then - r.arrival
  /\ job.time_left <= then - now
HasMore(r, job, now, then) ==
  /\ r.time_left > 0
  /\ job.time_left - r.time_left <= then - now

LEMMA SliceFacts ==
  ASSUME NEW I, NEW h \in Seq(SliceOf(I)), NEW k \in DOMAIN h
  PROVE  /\ h[k].t \in Nat /\ h[k].id \in I
         /\ EndOf(h[k]) \in Nat /\ h[k].t < EndOf(h[k])
<1>1. h[k] \in SliceOf(I)
  OBVIOUS
<1>2. h[k].t \in Nat /\ h[k].id \in I /\ h[k].ran \in Nat \ {0}
  BY <1>1 DEF SliceOf
<1> QED
  BY <1>2 DEF EndOf

\* Nothing runs while no job that is not done has arrived.
LEMMA ClockMoves ==
  ASSUME NEW I, NEW h \in Seq(SliceOf(I)), NEW J \in [I -> JobType], NEW D \in SUBSET I,
         NEW now \in Nat, NEW then \in Nat, now <= then,
         Good(h, J, D, now),
         \A k \in I \ D : J[k].arrival >= then
  PROVE  Good(h, J, D, then)
<1> DOMAIN J = I
  OBVIOUS
<1>1. InOrder(h, J, then)
  <2>1. \A k \in DOMAIN h : EndOf(h[k]) \in Nat
    BY SliceFacts
  <2> QED
    BY <2>1 DEF Good, InOrder
<1>2. NeverIdle(h, J, D, then)
  <2> SUFFICES ASSUME NEW u \in 0..(then - 1), NEW j \in I, J[j].arrival <= u,
                      j \in D => u < J[j].arrival + J[j].turnaroundTime
               PROVE  Covered(h, u)
    BY DEF NeverIdle
  <2>1. J[j].arrival \in Int /\ J[j].turnaroundTime \in Int
    BY DEF JobType
  <2>2. j \in D
    BY <2>1
  <2>3. u \in 0..(now - 1)
    BY <2>1, <2>2 DEF Good, LastSlice
  <2> QED
    BY <2>2, <2>3 DEF Good, NeverIdle
<1>3. FirstSlice(h, J)
  BY DEF Good
<1>4. LastSlice(h, J, D, then)
  <2>1. \A j \in D : J[j].arrival \in Int /\ J[j].turnaroundTime \in Int
    BY DEF JobType
  <2> QED
    BY <2>1 DEF Good, LastSlice
<1>5. WorkLeft(J, D, then)
  <2>1. \A j \in I : J[j].startTime \in Int /\ J[j].length \in Int /\ J[j].time_left \in Int
    BY DEF JobType
  <2> QED
    BY <2>1 DEF Good, WorkLeft
<1> QED
  BY <1>1, <1>2, <1>3, <1>4, <1>5 DEF Good

LEMMA TableFacts ==
  ASSUME NEW I, NEW J \in [I -> JobType]
  PROVE  \A k \in I : /\ J[k].arrival \in Int /\ J[k].length \in Int /\ J[k].turnaroundTime \in Int
                      /\ J[k].time_left \in Int /\ J[k].startTime \in Int /\ J[k].startTime >= -1
                      /\ J[k].responseTime \in Int
<1> SUFFICES ASSUME NEW k \in I
    PROVE /\ J[k].arrival \in Int /\ J[k].length \in Int /\ J[k].turnaroundTime \in Int
          /\ J[k].time_left \in Int /\ J[k].startTime \in Int /\ J[k].startTime >= -1
          /\ J[k].responseTime \in Int
  OBVIOUS
<1>1. PICK row \in JobType : row = J[k]
  OBVIOUS
<1>2. /\ row.arrival \in Int /\ row.length \in Int /\ row.turnaroundTime \in Int
      /\ row.time_left \in Int /\ row.startTime \in Int /\ row.startTime >= -1
      /\ row.responseTime \in Int
  BY DEF JobType
<1> QED
  BY <1>1, <1>2

\* The history stays good when a job that has arrived and is not done runs.
LEMMA JobRuns ==
  ASSUME NEW I, NEW h \in Seq(SliceOf(I)), NEW g \in Seq(SliceOf(I)),
         NEW J \in [I -> JobType], NEW D \in SUBSET I, NEW now \in Nat, NEW then \in Nat,
         now < then, Good(h, J, D, now),
         NEW m, NEW j \in I \ D, J[j].arrival <= now, Extended(h, g, m, j, now, then),
         NEW r, HasRun(r, J[j], now), NEW E,
         \/ E = D /\ HasMore(r, J[j], now, then)
         \/ E = D \union {j} /\ IsDone(r, J[j], now, then)
  PROVE  Good(g, [J EXCEPT ![j] = r], E, then)
<1> DEFINE K == [J EXCEPT ![j] = r]
<1>1. /\ DOMAIN J = I /\ DOMAIN K = I /\ K[j] = r
      /\ \A k \in I : k # j => K[k] = J[k]
      /\ \A k \in I : K[k].arrival = J[k].arrival /\ K[k].length = J[k].length
  BY DEF HasRun
<1>2. /\ m \in Nat \ {0} /\ m \in DOMAIN g /\ DOMAIN g = 1..m /\ DOMAIN h \subseteq DOMAIN g
      /\ \A k \in DOMAIN h : k < m => g[k] = h[k]
      /\ \A k \in DOMAIN g : k < m => k \in DOMAIN h /\ g[k] = h[k]
      /\ \A k \in DOMAIN g : k \in Nat /\ k <= m
      /\ g[m].id = j /\ EndOf(g[m]) = then
      /\ \/ m \in DOMAIN h /\ h[m].id = j /\ h[m].t = g[m].t /\ EndOf(h[m]) = now
         \/ m \notin DOMAIN h /\ g[m].t = now
  BY DEF Extended
<1>3. /\ \A k \in DOMAIN h : h[k].t \in Nat /\ EndOf(h[k]) \in Nat /\ h[k].t < EndOf(h[k]) /\ h[k].id \in I
      /\ \A k \in DOMAIN g : g[k].t \in Nat /\ EndOf(g[k]) \in Nat /\ g[k].t < EndOf(g[k]) /\ g[k].id \in I
  BY SliceFacts
<1>4. \A k \in DOMAIN h : g[k].t = h[k].t /\ g[k].id = h[k].id /\ EndOf(g[k]) >= EndOf(h[k])
  <2> SUFFICES ASSUME NEW k \in DOMAIN h
               PROVE  g[k].t = h[k].t /\ g[k].id = h[k].id /\ EndOf(g[k]) >= EndOf(h[k])
    OBVIOUS
  <2>1. EndOf(h[k]) \in Nat
    BY <1>3
  <2>2. CASE k < m
    <3>1. g[k] = h[k]
      BY <1>2, <2>2
    <3> QED
      BY <2>1, <3>1
  <2>3. CASE k = m
    <3>1. h[m].id = j /\ h[m].t = g[m].t /\ EndOf(h[m]) = now /\ g[m].id = j /\ EndOf(g[m]) = then
      BY <1>2, <2>3
    <3> QED
      BY <2>3, <3>1
  <2> QED
    BY <1>2, <2>2, <2>3
<1>5. g[m].t <= now /\ g[m].t >= J[j].arrival
  BY <1>2, <1>3 DEF Good, InOrder
<1>6. \A k \in I : /\ J[k].arrival \in Int /\ J[k].length \in Int /\ J[k].turnaroundTime \in Int
                   /\ J[k].time_left \in Int /\ J[k].startTime \in Int /\ J[k].startTime >= -1
                   /\ J[k].responseTime \in Int
  BY TableFacts
<1>7. /\ r.arrival \in Int /\ r.length \in Int /\ r.turnaroundTime \in Int
      /\ r.time_left \in Int /\ r.startTime \in Int /\ r.responseTime \in Int
  <2>1. r \in JobType
    BY DEF HasRun
  <2> QED
    BY ONLY <2>1 DEF JobType
<1> HIDE DEF K
<1>8. InOrder(g, K, then)
  <2>1. ASSUME NEW k \in DOMAIN g, NEW l \in DOMAIN g, k < l
        PROVE  EndOf(g[k]) <= g[l].t
    <3>1. k < m /\ k \in DOMAIN h /\ g[k] = h[k]
      BY <1>2, <2>1
    <3>2. CASE l \in DOMAIN h
      BY <1>4, <2>1, <3>1, <3>2 DEF Good, InOrder
    <3>3. CASE l \notin DOMAIN h
      <4>1. l = m /\ g[m].t = now
        BY <1>2, <3>3
      <4> QED
        BY <3>1, <4>1 DEF Good, InOrder
    <3> QED
      BY <3>2, <3>3
  <2>2. ASSUME NEW k \in DOMAIN g
        PROVE  EndOf(g[k]) <= then /\ g[k].t >= K[g[k].id].arrival
    <3>1. CASE k = m
      BY <1>1, <1>2, <1>3, <1>5, <3>1
    <3>2. CASE k # m
      <4>1. k \in DOMAIN h /\ g[k] = h[k]
        BY <1>2, <3>2
      <4>2. EndOf(h[k]) <= now /\ h[k].t >= J[h[k].id].arrival
        BY <4>1 DEF Good, InOrder
      <4> QED
        BY <1>1, <1>3, <4>1, <4>2
    <3> QED
      BY <3>1, <3>2
  <2> QED
    BY <2>1, <2>2 DEF InOrder
<1>9. NeverIdle(g, K, E, then)
  <2> SUFFICES ASSUME NEW u \in 0..(then - 1), NEW k \in I, K[k].arrival <= u,
                      k \in E => u < K[k].arrival + K[k].turnaroundTime
               PROVE  Covered(g, u)
    BY <1>1 DEF NeverIdle
  <2>1. CASE u >= now
    BY <1>2, <1>5, <1>3, <2>1 DEF Covered
  <2>2. CASE u < now
    <3>1. J[k].arrival <= u /\ (k \in D => u < J[k].arrival + J[k].turnaroundTime)
      BY <1>1
    <3>2. Covered(h, u)
      BY <1>1, <2>2, <3>1 DEF Good, NeverIdle
    <3> QED
      BY <1>2, <1>3, <1>4, <3>2 DEF Covered
  <2> QED
    BY <2>1, <2>2
<1>10. FirstSlice(g, K)
  <2> SUFFICES ASSUME NEW i \in I
               PROVE  IF K[i].startTime = -1 THEN \A k \in DOMAIN g : g[k].id # i
                      ELSE /\ K[i].responseTime = K[i].startTime - K[i].arrival
                           /\ \E k \in DOMAIN g : /\ g[k].id = i /\ g[k].t = K[i].startTime
                                                  /\ \A l \in DOMAIN g : g[l].id = i => k <= l
    BY <1>1 DEF FirstSlice
  <2>0. IF J[i].startTime = -1 THEN \A k \in DOMAIN h : h[k].id # i
        ELSE /\ J[i].responseTime = J[i].startTime - J[i].arrival
             /\ \E k \in DOMAIN h : /\ h[k].id = i /\ h[k].t = J[i].startTime
                                    /\ \A l \in DOMAIN h : h[l].id = i => k <= l
    BY <1>1 DEF Good, FirstSlice
  <2>1. CASE J[i].startTime = -1 /\ i # j
    <3>1. \A k \in DOMAIN g : g[k].id # i
      BY <1>2, <2>0, <2>1
    <3> QED
      BY <1>1, <2>1, <3>1
  <2>2. CASE J[i].startTime = -1 /\ i = j
    <3>1. m \notin DOMAIN h /\ g[m].t = now
      BY <1>2, <2>0, <2>2
    <3>2. \A l \in DOMAIN g : g[l].id = i => m <= l
      BY <1>2, <2>0, <2>2
    <3>3. K[i].startTime = now /\ K[i].responseTime = now - K[i].arrival
      BY <1>1, <2>2 DEF HasRun
    <3> QED
      BY <1>2, <2>2, <3>1, <3>2, <3>3
  <2>3. CASE J[i].startTime # -1
    <3>1. K[i].startTime = J[i].startTime /\ K[i].responseTime = J[i].responseTime
      BY <1>1, <2>3 DEF HasRun
    <3>2. PICK k \in DOMAIN h : /\ h[k].id = i /\ h[k].t = J[i].startTime
                                /\ \A l \in DOMAIN h : h[l].id = i => k <= l
      BY <2>0, <2>3
    <3>3. k \in DOMAIN g /\ g[k].id = i /\ g[k].t = K[i].startTime
      BY <1>2, <1>4, <3>1, <3>2
    <3>4. \A l \in DOMAIN g : g[l].id = i => k <= l
      BY <1>2, <1>4, <3>2
    <3> QED
      BY <1>1, <2>0, <2>3, <3>1, <3>3, <3>4
  <2> QED
    BY <2>1, <2>2, <2>3
<1>11. LastSlice(g, K, E, then)
  <2> SUFFICES ASSUME NEW i \in E
               PROVE  /\ K[i].startTime # -1
                      /\ K[i].arrival + K[i].turnaroundTime <= then
                      /\ K[i].turnaroundTime - K[i].length >= K[i].responseTime
                      /\ \E k \in DOMAIN g :
                           /\ g[k].id = i /\ EndOf(g[k]) = K[i].arrival + K[i].turnaroundTime
                           /\ \A l \in DOMAIN g : g[l].id = i => l <= k
    BY DEF LastSlice
  <2>1. CASE i \in D
    <3>1. i # j /\ i \in I /\ K[i] = J[i]
      BY <1>1, <2>1
    <3>2. /\ J[i].startTime # -1
          /\ J[i].arrival + J[i].turnaroundTime <= now
          /\ J[i].turnaroundTime - J[i].length >= J[i].responseTime
      BY <2>1 DEF Good, LastSlice
    <3>3. PICK k \in DOMAIN h :
            /\ h[k].id = i /\ EndOf(h[k]) = J[i].arrival + J[i].turnaroundTime
            /\ \A l \in DOMAIN h : h[l].id = i => l <= k
      BY <2>1 DEF Good, LastSlice
    <3>4. k # m /\ k \in DOMAIN g /\ g[k] = h[k]
      BY <1>2, <3>1, <3>3
    <3>5. \A l \in DOMAIN g : g[l].id = i => l <= k
      BY <1>2, <3>1, <3>3
    <3> QED
      BY <1>6, <3>1, <3>2, <3>3, <3>4, <3>5
  <2>2. CASE i \notin D
    <3>1. i = j /\ K[i] = r /\ IsDone(r, J[j], now, then)
      BY <1>1, <2>2
    <3>2. r.arrival + r.turnaroundTime = then
      BY <1>6, <1>7, <3>1 DEF IsDone
    <3>3. r.startTime # -1 /\ r.responseTime = r.startTime - r.arrival
      <4>1. J[j].startTime # -1 => J[j].responseTime = J[j].startTime - J[j].arrival
        BY <1>1 DEF Good, FirstSlice
      <4> QED
        BY <4>1, <1>6 DEF HasRun
    <3>4. r.length <= then - r.startTime
      <4>1. IF J[j].startTime = -1 THEN J[j].time_left = J[j].length
            ELSE J[j].length - J[j].time_left <= now - J[j].startTime
        BY <1>1 DEF Good, WorkLeft
      <4>2. J[j].time_left <= then - now
        BY <3>1 DEF IsDone
      <4> QED
        BY <1>6, <1>7, <4>1, <4>2 DEF HasRun
    <3>5. r.turnaroundTime - r.length >= r.responseTime
      BY <1>7, <3>2, <3>3, <3>4
    <3> QED
      BY <1>2, <3>1, <3>2, <3>3, <3>5
  <2> QED
    BY <2>1, <2>2
<1>12. WorkLeft(K, E, then)
  <2> SUFFICES ASSUME NEW i \in I \ E
               PROVE  /\ K[i].time_left > 0
                      /\ IF K[i].startTime = -1 THEN K[i].time_left = K[i].length
                         ELSE K[i].length - K[i].time_left <= then - K[i].startTime
    BY <1>1 DEF WorkLeft
  <2>0. i \notin D
    OBVIOUS
  <2>1. /\ J[i].time_left > 0
        /\ IF J[i].startTime = -1 THEN J[i].time_left = J[i].length
           ELSE J[i].length - J[i].time_left <= now - J[i].startTime
    BY <1>1, <2>0 DEF Good, WorkLeft
  <2>2. CASE i # j
    BY <1>1, <1>6, <2>1, <2>2
  <2>3. CASE i = j
    <3>1. HasMore(r, J[j], now, then)
      BY <2>3
    <3> QED
      <4>1. /\ r.time_left > 0 /\ J[j].time_left - r.time_left <= then - now
            /\ r.startTime = (IF J[j].startTime = -1 THEN now ELSE J[j].startTime)
            /\ r.length = J[j].length
        BY <3>1 DEF HasMore, HasRun
      <4>2. IF J[j].startTime = -1 THEN J[j].time_left = J[j].length
            ELSE J[j].length - J[j].time_left <= now - J[j].startTime
        BY <2>1, <2>3
      <4>3. r.startTime # -1 /\ r.length - r.time_left <= then - r.startTime
        <5>1. /\ J[j].length \in Int /\ J[j].time_left \in Int
              /\ J[j].startTime \in Int
          BY <1>6
        <5>2. CASE J[j].startTime = -1
          BY <1>7, <4>1, <4>2, <5>1, <5>2
        <5>3. CASE J[j].startTime # -1
          <6>1. /\ J[j].length - J[j].time_left <= now - J[j].startTime
                /\ r.startTime = J[j].startTime /\ r.length = J[j].length
                /\ J[j].time_left - r.time_left <= then - now
            BY <4>1, <4>2, <5>3
          <6>2. \A b, c, d \in Int : c - b <= now - d => \A a \in Int :
                   b - a <= then - now => c - a <= then - d
            OBVIOUS
          <6>3. J[j].length - r.time_left <= then - J[j].startTime
            BY ONLY <1>7, <5>1, <6>1, <6>2
          <6> QED
            BY ONLY <5>3, <6>1, <6>3
        <5> QED
          BY <5>2, <5>3
      <4> QED
        BY <1>1, <2>3, <4>1, <4>3
  <2> QED
    BY <2>2, <2>3
<1>13. Good(g, K, E, then)
  BY <1>8, <1>9, <1>10, <1>11, <1>12 DEF Good
<1> QED
  BY <1>13 DEF K

LEMMA AppendFacts ==
  ASSUME NEW I, NEW s \in Seq(SliceOf(I)), NEW e \in SliceOf(I), NEW g, g = s \o <<e>>
  PROVE  /\ g \in Seq(SliceOf(I)) /\ Len(s) \in Nat
         /\ DOMAIN s = 1..Len(s) /\ DOMAIN g = 1..(Len(s) + 1)
         /\ g[Len(s) + 1] = e
         /\ \A k \in 1..Len(s) : g[k] = s[k]
<1>1. g = Append(s, e)
  BY AppendIsConcat
<1> QED
  BY <1>1, AppendProperties

\* One more slice.
LEMMA OneMore ==
  ASSUME NEW I, NEW h \in Seq(SliceOf(I)), NEW j \in I,
         NEW now \in Nat, NEW then \in Nat, now < then,
         NEW g, g = h \o <<Slice(now, j, then - now)>>
  PROVE  g \in Seq(SliceOf(I)) /\ Extended(h, g, Len(h) + 1, j, now, then)
<1> DEFINE e == Slice(now, j, then - now)
<1>1. e \in SliceOf(I) /\ e.t = now /\ e.id = j /\ EndOf(e) = then
  BY DEF Slice, SliceOf, EndOf
<1> HIDE DEF e
<1>2. g = h \o <<e>>
  BY DEF e
<1>3. /\ g \in Seq(SliceOf(I)) /\ Len(h) \in Nat
      /\ DOMAIN h = 1..Len(h) /\ DOMAIN g = 1..(Len(h) + 1)
      /\ g[Len(h) + 1] = e
      /\ \A k \in 1..Len(h) : g[k] = h[k]
  BY <1>1, <1>2, AppendFacts
<1>4. PICK n \in Nat : n = Len(h)
  BY <1>3
<1>5. \A m \in Nat : m = n + 1 => /\ m \in Nat \ {0} /\ m - 1 = n
                                /\ m \in 1..m /\ m \notin 1..n
  OBVIOUS
<1>6. PICK m \in Nat : m = n + 1
  OBVIOUS
<1>7. DOMAIN h = 1..(m - 1) /\ DOMAIN h # 1..m
  <2>1. DOMAIN h = 1..n
    BY <1>3, <1>4
  <2> QED
    BY ONLY <1>5, <1>6, <2>1
<1>8. DOMAIN g = 1..m /\ g[m] = e /\ \A k \in 1..(m - 1) : g[k] = h[k]
  BY <1>3, <1>4, <1>5, <1>6
<1>9. Extended(h, g, m, j, now, then)
  BY <1>1, <1>5, <1>6, <1>7, <1>8 DEF Extended
<1> QED
  BY <1>3, <1>4, <1>6, <1>9

\* The last slice made longer.
LEMMA Longer ==
  ASSUME NEW I, NEW s \in Seq(SliceOf(I)), NEW j \in I, NEW from \in Nat,
         NEW now \in Nat, NEW then \in Nat, from < now, now < then,
         NEW h, h = s \o <<Slice(from, j, now - from)>>,
         NEW g, g = s \o <<Slice(from, j, then - from)>>
  PROVE  g \in Seq(SliceOf(I)) /\ Extended(h, g, Len(s) + 1, j, now, then)
<1> DEFINE d == Slice(from, j, now - from)
           e == Slice(from, j, then - from)
<1>1. /\ d \in SliceOf(I) /\ d.t = from /\ d.id = j /\ EndOf(d) = now
      /\ e \in SliceOf(I) /\ e.t = from /\ e.id = j /\ EndOf(e) = then
  BY DEF Slice, SliceOf, EndOf
<1> HIDE DEF d, e
<1>2. h = s \o <<d>> /\ g = s \o <<e>>
  BY DEF d, e
<1>3. /\ Len(s) \in Nat /\ DOMAIN h = 1..(Len(s) + 1) /\ h[Len(s) + 1] = d
      /\ \A k \in 1..Len(s) : h[k] = s[k]
  <2>1. d \in SliceOf(I) /\ h = s \o <<d>>
    BY <1>1, <1>2
  <2> QED
    BY <2>1, AppendFacts
<1>4. /\ g \in Seq(SliceOf(I)) /\ DOMAIN g = 1..(Len(s) + 1) /\ g[Len(s) + 1] = e
      /\ \A k \in 1..Len(s) : g[k] = s[k]
  BY <1>1, <1>2, AppendFacts
<1> QED
  BY <1>1, <1>3, <1>4 DEF Extended

LEMMA StartedFacts ==
  ASSUME NEW job \in JobType, time \in Nat
  PROVE  /\ HasRun(Started(job), job, time)
         /\ Started(job).time_left = job.time_left
         /\ Started(job).is_completed = job.is_completed
<1>1. CASE job.startTime = -1
  <2>1. PICK a : a = [job EXCEPT !.startTime = time]
    OBVIOUS
  <2>2. PICK b : b = [a EXCEPT !.responseTime = time - job.arrival]
    OBVIOUS
  <2>3. /\ a \in JobType /\ a.arrival = job.arrival /\ a.length = job.length
        /\ a.time_left = job.time_left /\ a.is_completed = job.is_completed
        /\ a.startTime = time
    BY <2>1 DEF JobType
  <2>4. /\ b \in JobType /\ b.arrival = a.arrival /\ b.length = a.length
        /\ b.time_left = a.time_left /\ b.is_completed = a.is_completed
        /\ b.startTime = a.startTime /\ b.responseTime = time - job.arrival
    BY <2>2, <2>3 DEF JobType
  <2>5. Started(job) = b
    BY <1>1, <2>1, <2>2 DEF Started
  <2>6. job.time_left \in Int
    BY DEF JobType
  <2> QED
    BY <1>1, <2>3, <2>4, <2>5, <2>6 DEF HasRun
<1>2. CASE job.startTime # -1
  <2>1. job.time_left \in Int
    BY DEF JobType
  <2> QED
    BY <1>2, <2>1 DEF Started, HasRun
<1> QED
  BY <1>1, <1>2

\* A job keeps what it is, apart from its measures.
SameJob(r, job) ==
  /\ r \in JobType
  /\ r.arrival = job.arrival /\ r.length = job.length /\ r.time_left = job.time_left
  /\ r.startTime = job.startTime /\ r.responseTime = job.responseTime

LEMMA MeasuredFacts ==
  ASSUME NEW job \in JobType, NEW end \in Nat
  PROVE  /\ SameJob(Measured(job, end), job)
         /\ Measured(job, end).is_completed = job.is_completed
         /\ Measured(job, end).turnaroundTime = end - job.arrival
         /\ SameJob(Ended(job, end), job)
         /\ Ended(job, end).is_completed
         /\ Ended(job, end).turnaroundTime = end - job.arrival
<1>1. PICK a : a = [job EXCEPT !.turnaroundTime = end - job.arrival]
  OBVIOUS
<1>2. PICK b : b = [a EXCEPT !.waitTime = end - job.arrival - job.length]
  OBVIOUS
<1>3. PICK c : c = [b EXCEPT !.is_completed = TRUE]
  OBVIOUS
<1>4. /\ SameJob(a, job) /\ a.is_completed = job.is_completed
      /\ a.turnaroundTime = end - job.arrival
  BY <1>1 DEF JobType, SameJob
<1>5. /\ SameJob(b, job) /\ b.is_completed = job.is_completed
      /\ b.turnaroundTime = end - job.arrival
  <2>1. job.arrival \in Nat /\ job.length \in Nat
    BY DEF JobType
  <2>2. end - job.arrival - job.length \in Int
    BY <2>1
  <2> QED
    BY <1>2, <1>4, <2>2 DEF JobType, SameJob
<1>6. SameJob(c, job) /\ c.is_completed /\ c.turnaroundTime = end - job.arrival
  BY <1>3, <1>5 DEF JobType, SameJob
<1>7. Measured(job, end) = b
  BY <1>1, <1>2 DEF Measured
<1>8. Ended(job, end) = c
  BY <1>3, <1>7 DEF Ended
<1> QED
  BY <1>5, <1>6, <1>7, <1>8

\* What counts down time_left.
LEMMA LessFacts ==
  ASSUME NEW job \in JobType, NEW left \in Int
  PROVE  LET r == [job EXCEPT !.time_left = left]
         IN /\ r \in JobType /\ r.time_left = left
            /\ r.arrival = job.arrival /\ r.length = job.length
            /\ r.startTime = job.startTime /\ r.responseTime = job.responseTime
            /\ r.is_completed = job.is_completed
  BY DEF JobType

-----------------------------------------------------------------------------
(* The inductive invariant. *)

\* FIFO does not mark the jobs it has run, it is past them.
Done == IF pname = "FIFO" THEN 0..(temp - 1) ELSE {j \in Ids : jobs[j].is_completed}

Shapes ==
  /\ pc \in {"read", "policy", "done", "failed"}
  /\ pname \in {"FIFO", "SJF", "STCF", "RR", "LT"} /\ slice \in Nat \ {0}
  /\ numofjobs \in 0..MAX_JOBS /\ jobs \in [Ids -> JobType]
  /\ time \in Nat /\ completed \in Nat
  /\ temp \in 0..numofjobs /\ progress \in BOOLEAN
  /\ current_job \in Ids \cup {NULL} /\ run_start \in 0..time
  /\ trace \in Seq(SliceOf(Ids))

JobsInv ==
  /\ \A j, k \in Ids : j < k => jobs[j].arrival <= jobs[k].arrival
  /\ \A j \in Ids : /\ jobs[j].time_left <= jobs[j].length
                    /\ pname = "FIFO" => ~jobs[j].is_completed

ReadInv ==
  pc \in {"read", "failed"} =>
    /\ time = 0 /\ temp = 0 /\ ~progress /\ current_job = NULL /\ run_start = 0 /\ trace = <<>>
    /\ \A j \in Ids : /\ ~jobs[j].is_completed /\ jobs[j].startTime = -1
                      /\ jobs[j].time_left = jobs[j].length

\* completed counts the jobs that are done, except that FIFO does not count.
CountInv ==
  /\ pname = "FIFO" => completed = 0
  /\ pname # "FIFO" => completed = Cardinality(Done)
  /\ pc = "done" => /\ Done = Ids
                    /\ \A j \in Ids : jobs[j].waitTime = jobs[j].turnaroundTime - jobs[j].length

\* FIFO waits for the job it is at.
FifoInv ==
  pname = "FIFO" /\ pc = "policy" /\ temp < numofjobs => jobs[temp].arrival <= time

\* The job whose slice STCF holds back has arrived and is not done.
HeldInv ==
  current_job # NULL =>
    /\ pname = "STCF" /\ current_job \notin Done
    /\ jobs[current_job].arrival <= run_start /\ run_start < time

\* RR: as long as a pass has run no job, the jobs behind it are not ready.
PassInv == pname = "RR" /\ ~progress => \A k \in Ids : k < temp => k \notin Ready

Shorter(J, j, k) == J[j].length < J[k].length \/ (J[j].length = J[k].length /\ j < k)
ShortestInv ==
  pname = "SJF" =>
    \A a \in Slices :
      /\ trace[a].id \in Done
      /\ \A k \in Ids \ Done : jobs[k].arrival <= trace[a].t => Shorter(jobs, trace[a].id, k)
      /\ \A b \in Slices : a < b /\ jobs[trace[b].id].arrival <= trace[a].t =>
                             Shorter(jobs, trace[a].id, trace[b].id)

GoodInv == Good(History, jobs, Done, time)

IInv ==
  /\ Shapes /\ JobsInv /\ ReadInv /\ CountInv /\ FifoInv /\ HeldInv
  /\ PassInv /\ ShortestInv /\ GoodInv

(* What a step does to the history. *)

\* No job runs.
Quiet ==
  /\ History' = History /\ Done' = Done /\ Ids' = Ids /\ pname' = pname
  /\ \A k \in Ids : /\ jobs'[k].arrival = jobs[k].arrival /\ jobs'[k].length = jobs[k].length
                    /\ jobs'[k].time_left = jobs[k].time_left

\* Job j runs until then; SJF and FIFO finish it, the others count down what is left.
Ran(j, then) ==
  /\ j \in Ids \ Done /\ then \in Nat /\ time < then
  /\ Ids' = Ids /\ pname' = pname /\ Done' \in {Done, Done \cup {j}}
  /\ History' \in Seq(SliceOf(Ids)) /\ \E m : Extended(History, History', m, j, time, then)
  /\ \A k \in Ids : /\ jobs'[k].arrival = jobs[k].arrival /\ jobs'[k].length = jobs[k].length
                    /\ k # j => jobs'[k].time_left = jobs[k].time_left
  /\ IF pname \in {"FIFO", "SJF"} THEN j \in Done' /\ then - time = jobs[j].length
     ELSE /\ jobs'[j].time_left = jobs[j].time_left - (then - time)
          /\ pname # "LT" /\ j \in Done' => jobs'[j].time_left = 0

-----------------------------------------------------------------------------
LEMMA JobFacts ==
  ASSUME Shapes, NEW j \in Ids
  PROVE  /\ jobs[j] \in JobType
         /\ jobs[j].arrival \in Nat /\ jobs[j].length \in Nat \ {0}
         /\ jobs[j].time_left \in Int /\ jobs[j].is_completed \in BOOLEAN
         /\ jobs[j].turnaroundTime \in Int
<1>1. jobs[j] \in JobType
  BY DEF Shapes
<1> QED
  BY <1>1 DEF JobType

LEMMA DoneFacts ==
  ASSUME Shapes
  PROVE  /\ Done \subseteq Ids
         /\ pname # "FIFO" => \A j \in Ready : j \in Ids /\ j \notin Done /\ jobs[j].arrival <= time
         /\ pname # "FIFO" => \A j \in Ids \ Done : jobs[j].arrival <= time => j \in Ready
  BY DEF Shapes, Done, Ids, Ready

LEMMA HistoryFacts ==
  ASSUME Shapes, HeldInv
  PROVE  /\ History \in Seq(SliceOf(Ids))
         /\ current_job = NULL => History = trace
         /\ pname # "STCF" => current_job = NULL
<1>1. CASE current_job = NULL
  <2>1. History = trace
    BY <1>1, ConcatEmptySeq DEF History, Held, Shapes
  <2> QED
    BY <1>1, <2>1 DEF Shapes
<1>2. CASE current_job # NULL
  <2>1. current_job \in Ids /\ run_start \in Nat /\ time \in Nat /\ run_start < time /\ pname = "STCF"
    BY <1>2 DEF Shapes, HeldInv
  <2>2. History = trace \o <<Slice(run_start, current_job, time - run_start)>>
    BY <1>2 DEF History, Held
  <2>3. trace \in Seq(SliceOf(Ids))
    BY DEF Shapes
  <2>4. History \in Seq(SliceOf(Ids))
    BY <2>1, <2>2, <2>3, OneMore
  <2> QED
    BY <1>2, <2>1, <2>4
<1> QED
  BY <1>1, <1>2

LEMMA IdsFinite ==
  ASSUME Shapes
  PROVE  IsFiniteSet(Ids) /\ Cardinality(Ids) = numofjobs
<1>1. numofjobs \in Nat
  BY DEF Shapes
<1>2. /\ IsFiniteSet(0..(numofjobs - 1))
      /\ Cardinality(0..(numofjobs - 1)) = IF 0 > numofjobs - 1 THEN 0 ELSE (numofjobs - 1) - 0 + 1
  <2>1. 0 \in Int /\ numofjobs - 1 \in Int
    BY <1>1
  <2> QED
    BY <2>1, FS_Interval
<1> QED
  BY <1>1, <1>2 DEF Ids

LEMMA DoneFinite ==
  ASSUME Shapes
  PROVE  /\ IsFiniteSet(Done) /\ Cardinality(Done) \in 0..numofjobs
         /\ Cardinality(Done) = numofjobs => Done = Ids
<1>1. Done \in SUBSET Ids
  BY DoneFacts
<1>2. IsFiniteSet(Done) /\ Cardinality(Done) <= Cardinality(Ids)
      /\ (Cardinality(Ids) = Cardinality(Done) => Ids = Done)
  BY <1>1, IdsFinite, FS_Subset
<1>3. Cardinality(Done) \in Nat
  BY <1>2, FS_CardinalityType
<1>4. numofjobs \in Nat
  BY DEF Shapes
<1> QED
  BY <1>2, <1>3, <1>4, IdsFinite

LEMMA LeastNat ==
  ASSUME NEW T \in SUBSET Nat, T # {}
  PROVE  \E x \in T : \A y \in T : x <= y
<1> DEFINE Less == OpToRel(<, Nat)
<1>1. IsWellFoundedOn(Less, Nat)
  BY NatLessThanWellFounded
<1>2. PICK x \in T : \A y \in T : ~(<<y, x>> \in Less)
  <2> HIDE DEF Less
  <2> QED
    BY <1>1, WFMin
<1>3. \A y \in T : ~(y < x)
  BY <1>2 DEF OpToRel
<1> QED
  BY <1>3

\* What the scans of the list find.
LEMMA LeastFacts ==
  ASSUME Shapes, Ready # {}, NEW f, \A k \in Ready : f[k] \in Nat
  PROVE  /\ Least(f) \in Ready
         /\ \A k \in Ready : f[Least(f)] < f[k] \/ (f[Least(f)] = f[k] /\ Least(f) <= k)
<1> DEFINE V == {f[k] : k \in Ready}
<1>0. Ready \subseteq Nat
  BY DEF Shapes, Ready, Ids
<1>1. V \subseteq Nat /\ V # {}
  OBVIOUS
<1>4. PICK v \in V : \A y \in V : v <= y
  BY <1>1, LeastNat
<1>5. PICK j \in {k \in Ready : f[k] = v} : \A y \in {k \in Ready : f[k] = v} : j <= y
  <2>1. {k \in Ready : f[k] = v} # {} /\ {k \in Ready : f[k] = v} \in SUBSET Nat
    BY <1>0
  <2> QED
    BY <2>1, LeastNat
<1>6. \A k \in Ready : f[j] < f[k] \/ (f[j] = f[k] /\ j <= k)
  <2> SUFFICES ASSUME NEW k \in Ready PROVE f[j] < f[k] \/ (f[j] = f[k] /\ j <= k)
    OBVIOUS
  <2>1. f[j] = v /\ v <= f[k] /\ v \in Nat /\ f[k] \in Nat
    BY <1>1, <1>4, <1>5
  <2>2. f[k] = v => j <= k
    BY <1>5
  <2> QED
    BY <2>1, <2>2
<1> QED
  BY <1>5, <1>6 DEF Least

\* A turn in which job j runs: the jobs stay jobs, and the history good.
LEMMA TurnFacts ==
  ASSUME IInv, UNCHANGED <<pname, numofjobs>>,
         NEW j \in Ids, j \notin Done, jobs[j].arrival <= time,
         NEW r, HasRun(r, jobs[j], time), jobs' = [jobs EXCEPT ![j] = r],
         NEW then \in Nat, time < then,
         \/ Done' = Done /\ HasMore(r, jobs[j], time, then)
         \/ Done' = Done \cup {j} /\ IsDone(r, jobs[j], time, then),
         r.is_completed => pname # "FIFO",
         History' \in Seq(SliceOf(Ids)),
         NEW m, Extended(History, History', m, j, time, then)
  PROVE  /\ jobs' \in [Ids -> JobType] /\ Ids' = Ids
         /\ \A k \in Ids : jobs'[k].arrival = jobs[k].arrival /\ jobs'[k].length = jobs[k].length
         /\ JobsInv' /\ Good(History', jobs', Done', then)
<1>1. jobs \in [Ids -> JobType] /\ r \in JobType /\ Ids' = Ids
  BY DEF IInv, Shapes, HasRun, Ids
<1>2. jobs' \in [Ids -> JobType]
  BY <1>1
<1>3. \A k \in Ids : jobs'[k].arrival = jobs[k].arrival /\ jobs'[k].length = jobs[k].length
  BY <1>1 DEF HasRun
<1>4. JobsInv'
  <2>1. ASSUME NEW k \in Ids
        PROVE  jobs'[k].time_left <= jobs'[k].length /\ (pname = "FIFO" => ~jobs'[k].is_completed)
    <3>1. CASE k = j
      <4>1. jobs'[k] = r
        BY <1>1, <3>1
      <4>2. jobs[j].time_left <= jobs[j].length
        BY DEF IInv, JobsInv
      <4>3. r.time_left <= jobs[j].time_left /\ r.length = jobs[j].length
        BY DEF HasRun
      <4>4. r.time_left \in Int /\ jobs[j].time_left \in Int /\ jobs[j].length \in Int
        BY <1>1, JobFacts DEF JobType, IInv
      <4>5. r.time_left <= r.length
        BY <4>2, <4>3, <4>4
      <4> QED
        BY <4>1, <4>5
    <3>2. CASE k # j
      BY <1>1, <3>2 DEF IInv, JobsInv
    <3> QED
      BY <3>1, <3>2
  <2> QED
    BY <1>1, <1>3, <2>1 DEF IInv, JobsInv
<1>5. Good(History', jobs', Done', then)
  <2>1. History \in Seq(SliceOf(Ids)) /\ Done \in SUBSET Ids /\ time \in Nat
    BY HistoryFacts, DoneFacts DEF IInv, Shapes
  <2>2. Good(History, jobs, Done, time)
    BY DEF IInv, GoodInv
  <2>3. PICK g : g = History'
    OBVIOUS
  <2>4. PICK E : E = Done'
    OBVIOUS
  <2>5. j \in Ids \ Done
    OBVIOUS
  <2>6. Good(g, [jobs EXCEPT ![j] = r], E, then)
    BY <1>1, <2>1, <2>2, <2>3, <2>4, <2>5, JobRuns
  <2> QED
    BY <2>3, <2>4, <2>6
<1> QED
  BY <1>1, <1>2, <1>3, <1>4, <1>5

\* completed is raised when a job is done.
LEMMA CountStep ==
  ASSUME Shapes, completed = Cardinality(Done), NEW j \in Ids, j \notin Done,
         \/ Done' = Done /\ completed' = completed
         \/ Done' = Done \cup {j} /\ completed' = completed + 1
  PROVE  completed' = Cardinality(Done')
<1>1. Cardinality(Done \cup {j}) = Cardinality(Done) + 1
  BY DoneFinite, FS_AddElement
<1> QED
  BY <1>1

\* Every policy but FIFO marks the jobs that are done.
LEMMA MarkFacts ==
  ASSUME Shapes, pname # "FIFO", UNCHANGED <<pname, numofjobs>>, NEW j \in Ids,
         NEW r, jobs' = [jobs EXCEPT ![j] = r]
  PROVE  /\ r.is_completed => Done' = Done \cup {j}
         /\ r.is_completed = jobs[j].is_completed => Done' = Done
<1>1. Ids' = Ids /\ DOMAIN jobs = Ids /\ Done' = {k \in Ids : jobs'[k].is_completed}
      /\ Done = {k \in Ids : jobs[k].is_completed}
  BY DEF Shapes, Ids, Done
<1>2. jobs'[j] = r /\ \A k \in Ids : k # j => jobs'[k] = jobs[k]
  BY <1>1
<1> QED
  BY <1>1, <1>2

LEMMA MarkTurn ==
  ASSUME Shapes, pname # "FIFO", UNCHANGED <<pname, numofjobs>>, NEW j \in Ids, j \notin Done,
         NEW r, jobs' = [jobs EXCEPT ![j] = r], NEW left \in Int,
         left <= 0 => r.is_completed,
         left > 0 => r.is_completed = jobs[j].is_completed
  PROVE  Done' \in {Done, Done \cup {j}} /\ (j \in Done' => left <= 0)
<1>1. CASE left <= 0
  BY <1>1, MarkFacts
<1>2. CASE left > 0
  <2>1. r.is_completed = jobs[j].is_completed
    BY <1>2
  <2>2. Done' = Done
    BY <2>1, MarkFacts
  <2> QED
    BY <2>2
<1> QED
  BY <1>1, <1>2

-----------------------------------------------------------------------------
(* How the policies account for a turn. *)

LEMMA SameRun ==
  ASSUME NEW job \in JobType, NEW now, NEW s, HasRun(s, job, now), NEW r, SameJob(r, s)
  PROVE  HasRun(r, job, now)
  BY DEF HasRun, SameJob

\* SJF and FIFO: a job runs to its end.
LEMMA RunsThrough ==
  ASSUME NEW job \in JobType, job.time_left <= job.length,
         time \in Nat, NEW then \in Nat, then = time + job.length,
         NEW r, r \in {Ended(Started(job), then), Measured(Started(job), then)}
  PROVE  /\ HasRun(r, job, time) /\ IsDone(r, job, time, then) /\ time < then
         /\ r = Ended(Started(job), then) => r.is_completed
         /\ r = Measured(Started(job), then) => r.is_completed = job.is_completed
<1>1. PICK s : s = Started(job)
  OBVIOUS
<1>2. s \in JobType /\ HasRun(s, job, time) /\ s.is_completed = job.is_completed
  BY <1>1, StartedFacts DEF HasRun
<1>3. r = Ended(s, then) \/ r = Measured(s, then)
  BY <1>1
<1>4. SameJob(r, s) /\ r.turnaroundTime = then - s.arrival
  BY <1>2, <1>3, MeasuredFacts
<1>5. HasRun(r, job, time)
  BY <1>2, <1>4, SameRun
<1>6. job.time_left \in Int /\ job.length \in Nat \ {0}
  BY DEF JobType
<1>7. IsDone(r, job, time, then) /\ time < then
  BY <1>4, <1>6 DEF IsDone, SameJob
<1> QED
  BY <1>1, <1>2, <1>5, <1>7, MeasuredFacts

CountedDown(a, job, left) ==
  HasRun(a, job, time) /\ a.time_left = left /\ a.is_completed = job.is_completed

LEMMA CountDown ==
  ASSUME NEW job \in JobType, time \in Nat, NEW left \in Int, left <= job.time_left
  PROVE  CountedDown([Started(job) EXCEPT !.time_left = left], job, left)
<1>1. PICK s : s = Started(job)
  OBVIOUS
<1>2. /\ s \in JobType /\ HasRun(s, job, time) /\ s.is_completed = job.is_completed
  BY <1>1, StartedFacts DEF HasRun
<1>3. PICK a : a = [s EXCEPT !.time_left = left]
  OBVIOUS
<1>4. /\ a \in JobType /\ a.time_left = left /\ a.arrival = s.arrival /\ a.length = s.length
      /\ a.startTime = s.startTime /\ a.responseTime = s.responseTime
      /\ a.is_completed = s.is_completed
  BY <1>2, <1>3, LessFacts
<1>5. CountedDown(a, job, left)
  BY <1>2, <1>4 DEF HasRun, CountedDown
<1> QED
  BY <1>1, <1>3, <1>5

\* The others count down time_left, and end the job when nothing is left.
LEMMA RunsFor ==
  ASSUME NEW job \in JobType, time \in Nat, NEW then \in Nat, time < then,
         NEW left \in Int, left <= job.time_left, job.time_left - left <= then - time,
         NEW a, CountedDown(a, job, left),
         NEW r, r = IF left <= 0 THEN Ended(a, then) ELSE a
  PROVE  /\ HasRun(r, job, time) /\ r.time_left = left
         /\ left <= 0 => r.is_completed /\ IsDone(r, job, time, then)
         /\ left > 0 => r.is_completed = job.is_completed /\ HasMore(r, job, time, then)
<1>3. a \in JobType /\ a.time_left = left /\ a.is_completed = job.is_completed
  BY DEF CountedDown, HasRun
<1>4. HasRun(a, job, time)
  BY DEF CountedDown
<1>5. job.time_left \in Int
  BY DEF JobType
<1>6. CASE left <= 0
  <2>1. r = Ended(a, then)
    BY <1>6
  <2>2. SameJob(r, a) /\ r.is_completed /\ r.turnaroundTime = then - a.arrival
    BY <1>3, <2>1, MeasuredFacts
  <2>3. HasRun(r, job, time)
    BY <1>4, <2>2, SameRun
  <2>4. IsDone(r, job, time, then)
    BY <1>5, <1>6, <2>2 DEF IsDone, SameJob
  <2> QED
    BY <1>3, <1>6, <2>2, <2>3, <2>4 DEF SameJob
<1>7. CASE left > 0
  BY <1>3, <1>4, <1>7 DEF HasMore
<1> QED
  BY <1>6, <1>7

\* What a turn of a policy that marks its jobs leaves to prove.
LEMMA MarkedTurn ==
  ASSUME IInv, pc = "policy", UNCHANGED <<pc, args, numofjobs>>, pname # "FIFO",
         NEW j \in Ready, NEW r, HasRun(r, jobs[j], time), jobs' = [jobs EXCEPT ![j] = r],
         time' \in Nat, time < time',
         \/ r.is_completed /\ IsDone(r, jobs[j], time, time') /\ completed' = completed + 1
         \/ r.is_completed = jobs[j].is_completed /\ HasMore(r, jobs[j], time, time')
            /\ completed' = completed,
         History' \in Seq(SliceOf(Ids)),
         NEW m, Extended(History, History', m, j, time, time'),
         trace' \in Seq(SliceOf(Ids)), temp' \in 0..numofjobs, progress' \in BOOLEAN,
         current_job' \in Ids \cup {NULL}, run_start' \in 0..time'
  PROVE  /\ Shapes' /\ JobsInv' /\ ReadInv' /\ CountInv' /\ FifoInv' /\ GoodInv'
         /\ Ids' = Ids /\ j \in Ids /\ j \notin Done /\ jobs[j].arrival <= time
         /\ \A k \in Ids : jobs'[k].arrival = jobs[k].arrival /\ jobs'[k].length = jobs[k].length
         /\ r.is_completed => Done' = Done \cup {j}
         /\ r.is_completed \/ Done' = Done
<1>1. Shapes /\ UNCHANGED <<pname, slice, numofjobs>>
  BY DEF IInv, args
<1>2. j \in Ids /\ j \notin Done /\ jobs[j].arrival <= time /\ ~jobs[j].is_completed
  BY <1>1, DoneFacts DEF Ready
<1>3. /\ r.is_completed => Done' = Done \cup {j}
      /\ r.is_completed = jobs[j].is_completed => Done' = Done
  BY <1>1, <1>2, MarkFacts
<1>4. \/ Done' = Done /\ HasMore(r, jobs[j], time, time') /\ completed' = completed
      \/ Done' = Done \cup {j} /\ IsDone(r, jobs[j], time, time') /\ completed' = completed + 1
  BY <1>3
<1>5. PICK then \in Nat : then = time'
  OBVIOUS
<1>6. /\ jobs' \in [Ids -> JobType] /\ Ids' = Ids
      /\ \A k \in Ids : jobs'[k].arrival = jobs[k].arrival /\ jobs'[k].length = jobs[k].length
      /\ JobsInv' /\ Good(History', jobs', Done', then)
  <2>1. \/ Done' = Done /\ HasMore(r, jobs[j], time, then)
        \/ Done' = Done \cup {j} /\ IsDone(r, jobs[j], time, then)
    BY <1>4, <1>5
  <2>2. Extended(History, History', m, j, time, then) /\ time < then
    BY <1>5
  <2> QED
    BY <1>1, <1>2, <2>1, <2>2, TurnFacts
<1>7. completed' = Cardinality(Done') /\ completed' \in Nat
  <2>1. completed = Cardinality(Done) /\ completed \in Nat
    BY <1>1 DEF IInv, CountInv, Shapes
  <2>2. completed' = Cardinality(Done')
    BY <1>1, <1>2, <1>4, <2>1, CountStep
  <2> QED
    BY <1>4, <2>1, <2>2
<1>8. Shapes'
  BY <1>1, <1>6, <1>7 DEF Shapes
<1>9. CountInv' /\ ReadInv' /\ FifoInv'
  BY <1>1, <1>7 DEF CountInv, ReadInv, FifoInv
<1>10. GoodInv'
  BY <1>5, <1>6 DEF GoodInv
<1> QED
  BY <1>2, <1>3, <1>6, <1>8, <1>9, <1>10

\* No job runs, and if the clock moves, then to a time before which none arrives.
LEMMA Waits ==
  ASSUME IInv, pc \in {"read", "policy"}, pc' = "policy",
         UNCHANGED <<args, table, completed, running, trace>>,
         time' \in Nat, time <= time', temp' \in 0..numofjobs, progress' \in BOOLEAN,
         Done' = Done, time' = time \/ \A k \in Ids \ Done : jobs[k].arrival >= time'
  PROVE  /\ Shapes' /\ JobsInv' /\ ReadInv' /\ CountInv' /\ HeldInv' /\ ShortestInv' /\ GoodInv'
         /\ Quiet
<1>1. /\ Shapes /\ UNCHANGED <<pname, slice, numofjobs, jobs, completed, current_job, run_start, trace>>
      /\ Ids' = Ids
  BY DEF IInv, args, table, running, Ids
<1>2. Shapes'
  <2>1. run_start' \in 0..time'
    BY <1>1 DEF Shapes
  <2> QED
    BY <1>1, <2>1 DEF Shapes
<1>3. JobsInv' /\ ReadInv' /\ CountInv'
  BY <1>1 DEF IInv, JobsInv, ReadInv, CountInv
<1>4. HeldInv'
  BY <1>1 DEF IInv, HeldInv, Shapes
<1>5. ShortestInv'
  BY <1>1 DEF IInv, ShortestInv, Shorter, Slices
<1>6. GoodInv' /\ Quiet
  <2>1. current_job = NULL \/ time' = time
    <3> SUFFICES ASSUME current_job # NULL, \A k \in Ids \ Done : jobs[k].arrival >= time'
                 PROVE  FALSE
      OBVIOUS
    <3>1. /\ current_job \in Ids \ Done /\ run_start \in Int /\ time \in Int
          /\ jobs[current_job].arrival <= run_start /\ run_start < time
      BY DEF IInv, Shapes, HeldInv
    <3>2. jobs[current_job].arrival \in Int
      BY <1>1, <3>1, JobFacts
    <3> QED
      BY <3>1, <3>2
  <2>2. History' = History
    BY <1>1, <2>1 DEF History, Held
  <2>3. History \in Seq(SliceOf(Ids)) /\ Done \in SUBSET Ids /\ jobs \in [Ids -> JobType] /\ time \in Nat
    BY HistoryFacts, DoneFacts DEF IInv, Shapes
  <2>4. Good(History, jobs, Done, time)
    BY DEF IInv, GoodInv
  <2>5. PICK then \in Nat : then = time'
    OBVIOUS
  <2>6. Good(History, jobs, Done, then)
    <3>1. CASE time' = time
      BY <2>4, <2>5, <3>1
    <3>2. CASE \A k \in Ids \ Done : jobs[k].arrival >= time'
      BY <2>3, <2>4, <2>5, <3>2, ClockMoves
    <3> QED
      BY <3>1, <3>2
  <2>7. Quiet
    BY <1>1, <2>2 DEF Quiet
  <2> QED
    BY <1>1, <2>2, <2>5, <2>6, <2>7 DEF GoodInv
<1> QED
  BY <1>2, <1>3, <1>4, <1>5, <1>6

-----------------------------------------------------------------------------
(* The steps in which no job runs. *)

\* Before the policy starts nothing has run.
LEMMA NothingRun ==
  ASSUME NEW I, NEW J \in [I -> JobType],
         \A j \in I : J[j].startTime = -1 /\ J[j].time_left = J[j].length
  PROVE  Good(<<>>, J, {}, 0)
<1>1. \A j \in I : J[j].length \in Nat \ {0}
  BY DEF JobType
<1>2. DOMAIN <<>> = {}
  OBVIOUS
<1> QED
  BY <1>1, <1>2 DEF Good, InOrder, NeverIdle, FirstSlice, LastSlice, WorkLeft

LEMMA InitInv == Init => IInv
<1> SUFFICES ASSUME Init PROVE IInv
  OBVIOUS
<1>1. Ids = {} /\ Done = {} /\ Ready = {} /\ jobs \in [Ids -> JobType]
  BY DEF Init, Ids, Done, Ready
<1>2. Shapes
  <2>1. pname \in {"FIFO", "SJF", "STCF", "RR", "LT"} /\ slice \in Nat \ {0}
    BY PoliciesAssumption, SlicesAssumption DEF Init
  <2>2. trace \in Seq(SliceOf(Ids))
    BY DEF Init
  <2>3. /\ pc = "read" /\ numofjobs \in 0..MAX_JOBS /\ time \in Nat /\ completed \in Nat
        /\ temp \in 0..numofjobs /\ progress \in BOOLEAN /\ current_job = NULL
        /\ run_start \in 0..time
    <3>1. numofjobs = 0 /\ time = 0 /\ completed = 0 /\ temp = 0 /\ run_start = 0
          /\ current_job = NULL /\ pc = "read"
      BY DEF Init
    <3>2. progress \in BOOLEAN
      BY DEF Init
    <3>3. 0 \in 0..MAX_JOBS
      BY BoundsAssumption
    <3>4. /\ numofjobs \in 0..MAX_JOBS /\ time \in Nat /\ completed \in Nat
          /\ temp \in 0..numofjobs /\ run_start \in 0..time
      BY <3>1, <3>3
    <3> QED
      BY <3>1, <3>2, <3>4
  <2> QED
    BY <1>1, <2>1, <2>2, <2>3 DEF Shapes
<1>3. JobsInv /\ ReadInv /\ FifoInv /\ HeldInv /\ PassInv
  BY <1>1 DEF Init, JobsInv, ReadInv, FifoInv, HeldInv, PassInv, NULL
<1>4. CountInv
  BY <1>1, FS_EmptySet DEF Init, CountInv
<1>5. ShortestInv
  BY DEF Init, ShortestInv, Slices
<1>6. GoodInv
  <2>1. History = <<>>
    BY DEF Init, History, Held, NULL
  <2>2. Good(<<>>, jobs, {}, 0)
    BY <1>1, NothingRun
  <2> QED
    BY <1>1, <2>1, <2>2 DEF Init, GoodInv
<1> QED
  BY <1>2, <1>3, <1>4, <1>5, <1>6 DEF IInv

LEMMA ReadJobInv ==
  ASSUME IInv, NEW arrival \in Nat, NEW length \in Nat \ {0}, ReadJob(arrival, length)
  PROVE  IInv'
<1>1. /\ pc = "read" /\ numofjobs < MAX_JOBS /\ numofjobs' = numofjobs + 1
      /\ \A k \in Ids : jobs[k].arrival <= arrival
      /\ jobs' = [k \in 0..numofjobs |-> IF k = numofjobs THEN NewJob(k, arrival, length) ELSE jobs[k]]
      /\ UNCHANGED <<pc, pname, slice, time, completed, temp, progress, current_job, run_start, trace>>
  BY DEF ReadJob, args, loop, running
<1>2. /\ time = 0 /\ temp = 0 /\ ~progress /\ current_job = NULL /\ run_start = 0 /\ trace = <<>>
      /\ \A j \in Ids : /\ ~jobs[j].is_completed /\ jobs[j].startTime = -1
                        /\ jobs[j].time_left = jobs[j].length
  BY <1>1 DEF IInv, ReadInv
<1>3. /\ numofjobs \in Nat /\ Ids = 0..(numofjobs - 1) /\ Ids' = 0..numofjobs
      /\ Ids \subseteq Ids' /\ \A k \in Ids' : k \notin Ids => k = numofjobs
      /\ \A k \in Ids : k # numofjobs
  BY <1>1 DEF IInv, Shapes, Ids
<1>4. PICK new : new = NewJob(numofjobs, arrival, length)
  OBVIOUS
<1>5. /\ new \in JobType /\ new.arrival = arrival /\ new.length = length /\ ~new.is_completed
      /\ new.startTime = -1 /\ new.time_left = length
  <2>1. (numofjobs + 1) * TICKETS \in Nat
    BY <1>3, TicketsAssumption
  <2> QED
    BY <1>4, <2>1 DEF NewJob, JobType, NULL
<1>6. \A k \in Ids' : jobs'[k] = IF k \in Ids THEN jobs[k] ELSE new
  BY <1>1, <1>3, <1>4
<1>7. jobs' \in [Ids' -> JobType]
  <2>1. \A k \in Ids' : jobs'[k] \in JobType
    BY <1>5, <1>6 DEF IInv, Shapes
  <2> QED
    BY <1>1, <1>3, <2>1
<1>8. Shapes'
  <2>1. numofjobs' \in 0..MAX_JOBS
    BY <1>1, <1>3, BoundsAssumption
  <2>2. trace' \in Seq(SliceOf(Ids'))
    BY <1>1, <1>2
  <2>3. /\ temp' \in 0..numofjobs' /\ current_job' \in Ids' \cup {NULL}
        /\ run_start' \in 0..time' /\ time' \in Nat
    BY <1>1, <1>2, <1>3
  <2> QED
    BY <1>1, <1>7, <2>1, <2>2, <2>3 DEF IInv, Shapes
<1>9. \A j \in Ids' : /\ ~jobs'[j].is_completed /\ jobs'[j].startTime = -1
                      /\ jobs'[j].time_left = jobs'[j].length
  BY <1>2, <1>5, <1>6
<1>10. JobsInv'
  <2>1. \A j, k \in Ids' : j < k => jobs'[j].arrival <= jobs'[k].arrival
    <3> SUFFICES ASSUME NEW j \in Ids', NEW k \in Ids', j < k
                 PROVE  jobs'[j].arrival <= jobs'[k].arrival
      OBVIOUS
    <3>1. j \in Ids
      BY <1>3
    <3>2. CASE k \in Ids
      BY <1>6, <3>1, <3>2 DEF IInv, JobsInv
    <3>3. CASE k \notin Ids
      BY <1>1, <1>5, <1>6, <3>1, <3>3
    <3> QED
      BY <3>2, <3>3
  <2>2. \A j \in Ids' : jobs'[j].time_left <= jobs'[j].length
    <3> SUFFICES ASSUME NEW j \in Ids' PROVE jobs'[j].time_left <= jobs'[j].length
      OBVIOUS
    <3>1. jobs'[j].length \in Nat
      BY <1>7 DEF JobType
    <3> QED
      BY <1>9, <3>1
  <2> QED
    BY <1>9, <2>1, <2>2 DEF JobsInv
<1>11. ReadInv' /\ FifoInv' /\ HeldInv' /\ PassInv'
  <2>1. \A k \in Ids' : ~(k < 0)
    BY <1>3
  <2> QED
    BY <1>1, <1>2, <1>9, <2>1 DEF ReadInv, FifoInv, HeldInv, PassInv
<1>12. Done' = {} /\ Done = {}
  <2>1. CASE pname = "FIFO"
    BY <1>1, <1>2, <2>1 DEF Done
  <2>2. CASE pname # "FIFO"
    <3>1. Done' = {k \in Ids' : jobs'[k].is_completed} /\ Done = {k \in Ids : jobs[k].is_completed}
      BY <1>1, <2>2 DEF Done
    <3>2. \A k \in Ids : ~jobs[k].is_completed
      BY <1>2
    <3> QED
      BY <1>9, <3>1, <3>2
  <2> QED
    BY <2>1, <2>2
<1>13. CountInv' /\ ShortestInv'
  BY <1>1, <1>2, <1>12 DEF IInv, CountInv, ShortestInv, Slices
<1>14. GoodInv'
  <2>1. History' = <<>>
    BY <1>1, <1>2 DEF History, Held
  <2>2. PICK J : J = jobs'
    OBVIOUS
  <2>3. PICK I : I = Ids'
    OBVIOUS
  <2>4. Good(<<>>, J, {}, 0)
    BY <1>7, <1>9, <2>2, <2>3, NothingRun
  <2> QED
    BY <1>1, <1>2, <1>12, <2>1, <2>2, <2>4 DEF GoodInv
<1> QED
  BY <1>8, <1>10, <1>11, <1>13, <1>14 DEF IInv

LEMMA StartPolicyInv == ASSUME IInv, StartPolicy PROVE IInv' /\ Quiet
<1>1. /\ pc = "read" /\ pc' = "policy" /\ numofjobs > 0
      /\ time' = IF pname = "FIFO" THEN jobs[0].arrival ELSE 0
      /\ UNCHANGED <<args, table, completed, running, trace, temp, progress>>
      /\ UNCHANGED <<pname, numofjobs, jobs>>
  BY DEF StartPolicy, args, table, loop
<1>2. Shapes /\ time = 0 /\ temp = 0 /\ numofjobs \in Nat /\ Ids = 0..(numofjobs - 1) /\ 0 \in Ids
  BY <1>1 DEF IInv, ReadInv, Shapes, Ids
<1>3. time' \in Nat /\ time <= time'
  BY <1>1, <1>2, JobFacts
<1>4. Done' = Done /\ Ids' = Ids
  BY <1>1 DEF Done, Ids
<1>5. \A k \in Ids : jobs[k].arrival >= time'
  <2> SUFFICES ASSUME NEW k \in Ids PROVE jobs[k].arrival >= time'
    OBVIOUS
  <2>1. jobs[k].arrival \in Nat /\ jobs[0].arrival \in Nat
    BY <1>2, JobFacts
  <2>2. k = 0 \/ 0 < k
    BY <1>2
  <2>3. 0 < k => jobs[0].arrival <= jobs[k].arrival
    BY <1>2 DEF IInv, JobsInv
  <2> QED
    BY <1>1, <2>1, <2>2, <2>3
<1>6. Shapes' /\ JobsInv' /\ ReadInv' /\ CountInv' /\ HeldInv' /\ ShortestInv' /\ GoodInv' /\ Quiet
  <2>1. temp' \in 0..numofjobs /\ progress' \in BOOLEAN
    BY <1>1, <1>2 DEF Shapes
  <2> QED
    BY <1>1, <1>3, <1>4, <1>5, <2>1, Waits
<1>7. FifoInv' /\ PassInv'
  <2>1. jobs[0].arrival \in Nat /\ \A k \in Ids : ~(k < 0)
    BY <1>2, JobFacts
  <2> QED
    BY <1>1, <1>2, <1>4, <2>1 DEF FifoInv, PassInv
<1> QED
  BY <1>6, <1>7 DEF IInv

LEMMA IdleInv == ASSUME IInv, Idle \/ LtJump PROVE IInv' /\ Quiet
<1>1. /\ pc = "policy" /\ pc' = "policy" /\ pname \in {"SJF", "STCF", "LT"} /\ Ready = {}
      /\ UNCHANGED <<args, table, completed, running, trace, temp, progress>>
      /\ UNCHANGED <<pname, numofjobs, jobs>>
  BY DEF Idle, LtJump, Turn, args, table, loop
<1>2. Shapes /\ time \in Nat
  BY DEF IInv, Shapes
<1>3. Done' = Done
  BY <1>1 DEF Done, Ids
<1>4. \A k \in Ids \ Done : jobs[k].arrival \in Nat /\ jobs[k].arrival > time
  <2> SUFFICES ASSUME NEW k \in Ids \ Done
               PROVE  jobs[k].arrival \in Nat /\ jobs[k].arrival > time
    OBVIOUS
  <2>1. jobs[k].arrival \in Nat
    BY <1>2, JobFacts
  <2>2. ~(jobs[k].arrival <= time)
    BY <1>1, <1>2, DoneFacts
  <2> QED
    BY <1>2, <2>1, <2>2
<1>5. time' \in Nat /\ time <= time' /\ \A k \in Ids \ Done : jobs[k].arrival >= time'
  <2>1. CASE Idle
    <3>1. time' = time + 1
      BY <2>1 DEF Idle
    <3> QED
      BY <1>2, <1>4, <3>1
  <2>2. CASE LtJump
    <3>1. PICK j \in Ids :
            /\ ~jobs[j].is_completed /\ jobs[j].arrival > time
            /\ \A k \in 0..(j - 1) : jobs[k].is_completed \/ jobs[k].arrival <= time
            /\ time' = jobs[j].arrival
      BY <2>2 DEF LtJump
    <3>2. jobs[j].arrival \in Nat
      BY <1>2, JobFacts
    <3>3. ASSUME NEW k \in Ids \ Done PROVE jobs[k].arrival >= jobs[j].arrival
      <4>1. j \in Int /\ k \in Int /\ 0 <= k
        BY <1>2 DEF Shapes, Ids
      <4>2. CASE k < j
        <5>1. k \in 0..(j - 1)
          BY <4>1, <4>2
        <5>2. ~jobs[k].is_completed
          BY <1>1 DEF Done
        <5> QED
          BY <1>2, <1>4, <3>1, <5>1, <5>2
      <4>3. CASE j < k
        BY <4>3, <3>2, <1>4 DEF IInv, JobsInv
      <4>4. CASE j = k
        BY <4>4, <3>2
      <4> QED
        BY <4>1, <4>2, <4>3, <4>4
    <3> QED
      BY <1>2, <3>1, <3>2, <3>3
  <2> QED
    BY <2>1, <2>2
<1>6. Shapes' /\ JobsInv' /\ ReadInv' /\ CountInv' /\ HeldInv' /\ ShortestInv' /\ GoodInv' /\ Quiet
  <2>1. temp' \in 0..numofjobs /\ progress' \in BOOLEAN
    BY <1>1, <1>2 DEF Shapes
  <2> QED
    BY <1>1, <1>3, <1>5, <2>1, Waits
<1> QED
  BY <1>1, <1>6 DEF IInv, FifoInv, PassInv

\* RR passes by a job, or starts its next pass.
LEMMA RrMoveInv == ASSUME IInv, RrSkip \/ RrPass PROVE IInv' /\ Quiet
<1>1. /\ pc = "policy" /\ pc' = "policy" /\ pname = "RR"
      /\ UNCHANGED <<args, table, completed, running, trace>>
      /\ UNCHANGED <<pname, numofjobs, jobs>>
  BY DEF RrSkip, RrPass, Turn, args, table
<1>2. Shapes /\ time \in Nat /\ numofjobs \in Nat /\ temp \in 0..numofjobs
  BY DEF IInv, Shapes
<1>3. Done' = Done /\ Ids' = Ids
  BY <1>1 DEF Done, Ids
<1>4. \/ /\ time' = time /\ temp < numofjobs /\ temp \notin Ready /\ temp' = temp + 1
         /\ progress' = progress
      \/ time' = time /\ temp' = 0 /\ progress' = FALSE
      \/ /\ time' = time + 1 /\ temp' = 0 /\ progress' = FALSE
         /\ \A k \in Ids \ Done : jobs[k].arrival >= time'
  <2>1. CASE RrSkip
    <3>1. time' = time /\ temp < numofjobs /\ temp' = temp + 1 /\ progress' = progress /\ ~Eligible(temp)
      BY <2>1 DEF RrSkip
    <3>2. temp \in Ready => jobs[temp].time_left > 0
      BY <1>1, <1>2, DoneFacts DEF IInv, GoodInv, Good, WorkLeft, Shapes
    <3> QED
      BY <3>1, <3>2 DEF Eligible
  <2>2. CASE RrPass /\ progress
    BY <2>2 DEF RrPass
  <2>3. CASE RrPass /\ ~progress
    <3>1. temp = numofjobs /\ time' = time + 1 /\ temp' = 0 /\ progress' = FALSE
      BY <2>3 DEF RrPass
    <3>2. \A k \in Ids : k \notin Ready
      BY <1>1, <1>2, <2>3, <3>1 DEF IInv, PassInv, Ids
    <3>3. ASSUME NEW k \in Ids \ Done PROVE jobs[k].arrival >= time + 1
      <4>1. jobs[k].arrival \in Nat
        BY <1>2, JobFacts
      <4>2. ~(jobs[k].arrival <= time)
        BY <1>1, <1>2, <3>2, DoneFacts
      <4> QED
        BY <1>2, <4>1, <4>2
    <3> QED
      BY <3>1, <3>3
  <2> QED
    BY <2>1, <2>2, <2>3
<1>5. /\ time' \in Nat /\ time <= time' /\ temp' \in 0..numofjobs
      /\ time' = time \/ \A k \in Ids \ Done : jobs[k].arrival >= time'
  BY <1>2, <1>4
<1>6. progress' \in BOOLEAN
  BY <1>2, <1>4 DEF Shapes
<1>7. Shapes' /\ JobsInv' /\ ReadInv' /\ CountInv' /\ HeldInv' /\ ShortestInv' /\ GoodInv' /\ Quiet
  BY <1>1, <1>3, <1>5, <1>6, Waits
<1>8. PassInv'
  <2>1. CASE time' = time /\ temp < numofjobs /\ temp \notin Ready /\ temp' = temp + 1
             /\ progress' = progress
    <3>1. Ready' = Ready
      BY <1>1, <1>3, <2>1 DEF Ready
    <3>2. \A k \in Ids : k < temp + 1 => k < temp \/ k = temp
      BY <1>2 DEF Ids
    <3> QED
      BY <1>1, <1>3, <2>1, <3>1, <3>2 DEF IInv, PassInv
  <2>2. CASE temp' = 0
    <3>1. \A k \in Ids : ~(k < 0)
      BY <1>2 DEF Ids
    <3> QED
      BY <1>3, <2>2, <3>1 DEF PassInv
  <2> QED
    BY <1>4, <2>1, <2>2
<1> QED
  BY <1>1, <1>7, <1>8 DEF IInv, FifoInv

-----------------------------------------------------------------------------
(* The steps in which a job runs. *)

\* One more slice is printed.
LEMMA TraceGrows ==
  ASSUME Shapes, NEW e \in SliceOf(Ids), trace' = trace \o <<e>>, NEW n, n = Len(trace)
  PROVE  /\ n \in Nat /\ Slices = 1..n /\ Slices' = 1..(n + 1) /\ trace'[n + 1] = e
         /\ \A a \in Slices : trace'[a] = trace[a] /\ trace[a].id \in Ids
                              /\ SubSeq(trace', 1, a) = SubSeq(trace, 1, a)
<1>1. trace \in Seq(SliceOf(Ids))
  BY DEF Shapes
<1>2. PICK g : g = trace'
  OBVIOUS
<1>3. /\ g \in Seq(SliceOf(Ids)) /\ n \in Nat
      /\ DOMAIN trace = 1..n /\ DOMAIN g = 1..(n + 1) /\ g[n + 1] = e
      /\ \A k \in 1..n : g[k] = trace[k]
  BY <1>1, <1>2, AppendFacts
<1>4. \A k \in 1..n : trace[k].id \in Ids
  BY <1>1, <1>3, SliceFacts
<1>5. Len(g) = n + 1
  BY <1>3
<1>6. ASSUME NEW a \in 1..n PROVE SubSeq(g, 1, a) = SubSeq(trace, 1, a)
  <2>1. SubSeq(g, 1, a) = [i \in 1..a |-> g[i]] /\ SubSeq(trace, 1, a) = [i \in 1..a |-> trace[i]]
    BY <1>1, <1>3, <1>5, SubSeqRestrict
  <2>2. \A i \in 1..a : g[i] = trace[i]
    BY <1>3
  <2> QED
    BY <2>1, <2>2
<1> QED
  BY <1>2, <1>3, <1>4, <1>5, <1>6 DEF Slices

\* The histories of a policy that prints every slice at once.
LEMMA PrintedTurn ==
  ASSUME IInv, pname # "STCF", UNCHANGED <<pname, numofjobs, running>>, NEW j \in Ids,
         NEW then \in Nat, time < then, trace' = trace \o <<Slice(time, j, then - time)>>
  PROVE  /\ History = trace /\ History' = trace' /\ current_job' = NULL
         /\ trace' \in Seq(SliceOf(Ids)) /\ run_start' \in 0..then
         /\ Extended(History, History', Len(trace) + 1, j, time, then)
<1>1. History = trace /\ current_job = NULL /\ trace \in Seq(SliceOf(Ids)) /\ time \in Nat
      /\ run_start \in 0..time
  BY HistoryFacts DEF IInv, Shapes
<1>2. current_job' = NULL /\ run_start' = run_start
  BY <1>1 DEF running
<1>3. PICK g : g = trace'
  OBVIOUS
<1>4. g \in Seq(SliceOf(Ids)) /\ Extended(trace, g, Len(trace) + 1, j, time, then)
  <2>1. g = trace \o <<Slice(time, j, then - time)>>
    BY <1>3
  <2> QED
    BY <1>1, <2>1, OneMore
<1>5. History' = trace'
  <2>1. g \o <<>> = g
    BY <1>4, ConcatEmptySeq
  <2> QED
    BY <1>2, <1>3, <2>1 DEF History, Held
<1> QED
  BY <1>1, <1>2, <1>3, <1>4, <1>5

LEMMA RanFacts ==
  ASSUME Shapes, UNCHANGED <<pname, numofjobs>>, NEW j \in Ids, j \notin Done,
         NEW r, HasRun(r, jobs[j], time), jobs' = [jobs EXCEPT ![j] = r],
         NEW then \in Nat, time < then, NEW m, Extended(History, History', m, j, time, then),
         History' \in Seq(SliceOf(Ids)), Done' \in {Done, Done \cup {j}},
         IF pname \in {"FIFO", "SJF"} THEN j \in Done' /\ then - time = jobs[j].length
         ELSE /\ r.time_left = jobs[j].time_left - (then - time)
              /\ pname # "LT" /\ j \in Done' => r.time_left = 0
  PROVE  Ran(j, then)
<1>1. DOMAIN jobs = Ids /\ Ids' = Ids
  BY DEF Shapes, Ids
<1>2. jobs'[j] = r /\ \A k \in Ids : k # j => jobs'[k] = jobs[k]
  BY <1>1
<1>3. \A k \in Ids : /\ jobs'[k].arrival = jobs[k].arrival /\ jobs'[k].length = jobs[k].length
                     /\ k # j => jobs'[k].time_left = jobs[k].time_left
  BY <1>2 DEF HasRun
<1> QED
  BY <1>1, <1>2, <1>3 DEF Ran

LEMMA FifoRunInv == ASSUME IInv, FifoRun PROVE IInv' /\ \E j, then : Ran(j, then)
<1> DEFINE job == jobs[temp]
           end == time + job.length
           r == Measured(Started(job), end)
<1>1. /\ pc = "policy" /\ pname = "FIFO" /\ temp < numofjobs
      /\ trace' = trace \o <<Slice(time, temp, job.length)>>
      /\ jobs' = [jobs EXCEPT ![temp] = r]
      /\ time' = FifoNext(temp) /\ temp' = temp + 1
      /\ UNCHANGED <<pc, pname, slice, numofjobs, completed, progress, running, current_job, run_start>>
  BY DEF FifoRun, Turn, Printf, args, running
<1>2. Shapes /\ time \in Nat /\ numofjobs \in Nat /\ Ids = 0..(numofjobs - 1) /\ temp \in Ids
  BY <1>1 DEF IInv, Shapes, Ids
<1>3. /\ job \in JobType /\ job.length \in Nat \ {0} /\ job.arrival <= time
      /\ job.time_left <= job.length /\ ~job.is_completed /\ end \in Nat /\ end - time = job.length
  BY <1>1, <1>2, JobFacts DEF IInv, FifoInv, JobsInv
<1>4. HasRun(r, job, time) /\ IsDone(r, job, time, end) /\ time < end /\ ~r.is_completed
  BY <1>2, <1>3, RunsThrough
<1> HIDE DEF r
<1>5. Done = 0..(temp - 1) /\ Done' = 0..temp /\ Done' = Done \cup {temp} /\ temp \notin Done
  <2>1. Done = 0..(temp - 1) /\ Done' = 0..((temp + 1) - 1)
    BY <1>1 DEF Done
  <2> QED
    BY <1>2, <2>1
<1>6. /\ History = trace /\ History' = trace' /\ current_job' = NULL
      /\ trace' \in Seq(SliceOf(Ids)) /\ run_start' \in 0..end
      /\ Extended(History, History', Len(trace) + 1, temp, time, end)
  BY <1>1, <1>2, <1>3, <1>4, PrintedTurn
<1>7. /\ jobs' \in [Ids -> JobType] /\ Ids' = Ids
      /\ \A k \in Ids : jobs'[k].arrival = jobs[k].arrival /\ jobs'[k].length = jobs[k].length
      /\ JobsInv' /\ Good(History', jobs', Done', end)
  BY <1>1, <1>2, <1>3, <1>4, <1>5, <1>6, TurnFacts
<1>8. /\ time' \in Nat /\ end <= time'
      /\ time' = end \/ \A k \in Ids \ Done' : jobs'[k].arrival >= time'
      /\ temp + 1 < numofjobs => jobs'[temp + 1].arrival <= time'
  <2>1. CASE temp + 1 < numofjobs
    <3>1. temp + 1 \in Ids /\ jobs[temp + 1].arrival \in Nat
      BY <1>2, <2>1, JobFacts
    <3>2. \A k \in Ids \ Done' : k = temp + 1 \/ temp + 1 < k
      BY <1>2, <1>5
    <3>3. \A k \in Ids \ Done' : jobs[k].arrival >= jobs[temp + 1].arrival
      BY <3>1, <3>2 DEF IInv, JobsInv
    <3>4. time' = IF jobs[temp + 1].arrival > end THEN jobs[temp + 1].arrival ELSE end
      BY <1>1, <2>1 DEF FifoNext
    <3> QED
      BY <1>3, <1>7, <3>1, <3>3, <3>4
  <2>2. CASE ~(temp + 1 < numofjobs)
    <3>1. time' = end
      BY <1>1, <2>2 DEF FifoNext
    <3> QED
      BY <1>3, <2>2, <3>1
  <2> QED
    BY <2>1, <2>2
<1>9. GoodInv'
  <2>1. PICK g : g = History'
    OBVIOUS
  <2>2. PICK J : J = jobs'
    OBVIOUS
  <2>3. PICK E : E = Done'
    OBVIOUS
  <2>4. PICK now : now = time'
    OBVIOUS
  <2>5. g \in Seq(SliceOf(Ids)) /\ J \in [Ids -> JobType] /\ E \in SUBSET Ids /\ now \in Nat
    BY <1>2, <1>5, <1>6, <1>7, <1>8, <2>1, <2>2, <2>3, <2>4
  <2>6. Good(g, J, E, end) /\ end <= now
        /\ (now = end \/ \A k \in Ids \ E : J[k].arrival >= now)
    BY <1>7, <1>8, <2>1, <2>2, <2>3, <2>4
  <2>7. Good(g, J, E, now)
    <3>1. CASE now = end
      BY <2>6, <3>1
    <3>2. CASE \A k \in Ids \ E : J[k].arrival >= now
      BY <1>3, <2>5, <2>6, <3>2, ClockMoves
    <3> QED
      BY <2>6, <3>1, <3>2
  <2> QED
    BY <2>1, <2>2, <2>3, <2>4, <2>7 DEF GoodInv
<1>10. Shapes'
  <2>1. temp' \in 0..numofjobs /\ run_start' \in 0..time'
    BY <1>1, <1>2, <1>3, <1>6, <1>8
  <2> QED
    BY <1>1, <1>6, <1>7, <1>8, <2>1 DEF IInv, Shapes
<1>11. ReadInv' /\ CountInv' /\ FifoInv' /\ HeldInv' /\ PassInv' /\ ShortestInv'
  BY <1>1, <1>6, <1>8
     DEF IInv, ReadInv, CountInv, FifoInv, HeldInv, PassInv, ShortestInv
<1>12. Ran(temp, end)
  BY <1>1, <1>2, <1>3, <1>4, <1>5, <1>6, RanFacts
<1> QED
  BY <1>7, <1>9, <1>10, <1>11, <1>12 DEF IInv

LEMMA SjfRunInv == ASSUME IInv, SjfRun PROVE IInv' /\ \E j, then : Ran(j, then)
<1>1. PICK j : j = Least([k \in Ids |-> jobs[k].length])
  OBVIOUS
<1> DEFINE job == jobs[j]
           end == time + job.length
           r == Ended(Started(job), end)
<1>2. /\ pc = "policy" /\ pname = "SJF" /\ Ready # {}
      /\ trace' = trace \o <<Slice(time, j, job.length)>>
      /\ jobs' = [jobs EXCEPT ![j] = r]
      /\ time' = end /\ completed' = completed + 1
      /\ UNCHANGED <<pc, args, pname, numofjobs, temp, progress, running>>
  BY <1>1 DEF SjfRun, Turn, Printf, args, loop
<1>3. Shapes /\ time \in Nat
  BY DEF IInv, Shapes
<1>4. /\ j \in Ready
      /\ \A k \in Ready : jobs[j].length < jobs[k].length \/ (jobs[j].length = jobs[k].length /\ j <= k)
  <2>1. PICK f : f = [k \in Ids |-> jobs[k].length]
    OBVIOUS
  <2>2. \A k \in Ready : k \in Ids /\ f[k] = jobs[k].length /\ f[k] \in Nat
    BY <1>3, <2>1, JobFacts DEF Ready
  <2>3. j \in Ready /\ \A k \in Ready : f[j] < f[k] \/ (f[j] = f[k] /\ j <= k)
    BY <1>1, <1>2, <1>3, <2>1, <2>2, LeastFacts
  <2> QED
    BY <2>2, <2>3
<1>5. j \in Ids /\ j \notin Done /\ job \in JobType /\ job.length \in Nat \ {0} /\ job.time_left <= job.length
      /\ end \in Nat /\ end - time = job.length
  BY <1>2, <1>3, <1>4, DoneFacts, JobFacts DEF IInv, JobsInv
<1>6. HasRun(r, job, time) /\ IsDone(r, job, time, end) /\ time < end /\ r.is_completed
  BY <1>3, <1>5, RunsThrough
<1> HIDE DEF r
<1>7. /\ History = trace /\ History' = trace' /\ current_job' = NULL
      /\ trace' \in Seq(SliceOf(Ids)) /\ run_start' \in 0..end
      /\ Extended(History, History', Len(trace) + 1, j, time, end)
  BY <1>2, <1>3, <1>5, <1>6, PrintedTurn
<1>8. /\ Shapes' /\ JobsInv' /\ ReadInv' /\ CountInv' /\ FifoInv' /\ GoodInv'
      /\ Ids' = Ids /\ Done' = Done \cup {j}
      /\ \A k \in Ids : jobs'[k].arrival = jobs[k].arrival /\ jobs'[k].length = jobs[k].length
  <2>1. temp' \in 0..numofjobs /\ progress' \in BOOLEAN /\ current_job' \in Ids \cup {NULL}
    BY <1>2, <1>3, <1>7 DEF Shapes
  <2> HIDE DEF end
  <2> QED
    BY <1>2, <1>4, <1>5, <1>6, <1>7, <2>1, MarkedTurn
<1>9. ShortestInv'
  <2> DEFINE n == Len(trace)
             Before(a, k) == jobs[k].arrival <= trace'[a].t => Shorter(jobs, trace'[a].id, k)
  <2>1. /\ n \in Nat /\ Slices = 1..n /\ Slices' = 1..(n + 1)
        /\ trace'[n + 1].t = time /\ trace'[n + 1].id = j
        /\ \A a \in Slices : trace'[a] = trace[a] /\ trace[a].id \in Ids
    <3>1. PICK e : e = Slice(time, j, job.length)
      OBVIOUS
    <3>2. e \in SliceOf(Ids) /\ e.t = time /\ e.id = j
      BY <1>3, <1>5, <3>1 DEF Slice, SliceOf
    <3> QED
      BY <1>2, <1>3, <3>1, <3>2, TraceGrows
  <2>2. \A a \in Slices' : a \in Slices \/ a = n + 1
    BY <2>1
  <2>3. \A a \in Slices' : trace'[a].id \in Done'
    BY <1>2, <1>8, <2>1, <2>2 DEF IInv, ShortestInv
  <2>4. ASSUME NEW a \in Slices, NEW k \in Ids \ Done PROVE Before(a, k)
    BY <1>2, <2>1, <2>4 DEF IInv, ShortestInv
  <2>5. ASSUME NEW k \in Ids \ Done, k # j PROVE Before(n + 1, k)
    <3>1. SUFFICES ASSUME jobs[k].arrival <= time PROVE Shorter(jobs, j, k)
      BY <2>1
    <3>2. k \in Ready
      BY <1>2, <1>3, <2>5, <3>1, DoneFacts
    <3>3. j \in Nat /\ k \in Nat
      BY <1>3, <1>5, <2>5 DEF Ids, Shapes
    <3> QED
      BY <1>4, <2>5, <3>2, <3>3 DEF Shorter
  <2>6. \A a \in Slices', k \in Ids \ Done' : Before(a, k)
    BY <1>8, <2>2, <2>4, <2>5
  <2>7. ASSUME NEW a \in Slices', NEW b \in Slices', a < b PROVE Before(a, trace'[b].id)
    <3>1. a \in Slices
      BY <2>1, <2>7
    <3>2. CASE b \in Slices
      BY <1>2, <2>1, <2>7, <3>1, <3>2 DEF IInv, ShortestInv
    <3>3. CASE b = n + 1
      BY <1>5, <2>1, <2>4, <3>1, <3>3
    <3> QED
      BY <2>2, <3>2, <3>3
  <2>8. \A a \in Slices' : trace'[a].id \in Ids
    BY <1>5, <2>1, <2>2
  <2>9. \A i \in Ids, k \in Ids : Shorter(jobs', i, k) <=> Shorter(jobs, i, k)
    BY <1>8 DEF Shorter
  <2>10. SUFFICES ASSUME NEW a \in Slices'
                  PROVE  /\ trace'[a].id \in Done'
                         /\ \A k \in Ids' \ Done' : jobs'[k].arrival <= trace'[a].t => Shorter(jobs', trace'[a].id, k)
                         /\ \A b \in Slices' : a < b /\ jobs'[trace'[b].id].arrival <= trace'[a].t =>
                                                 Shorter(jobs', trace'[a].id, trace'[b].id)
    BY DEF ShortestInv
  <2> QED
    BY <1>8, <2>3, <2>6, <2>7, <2>8, <2>9
<1>10. HeldInv' /\ PassInv'
  BY <1>2, <1>7 DEF HeldInv, PassInv
<1>11. Ran(j, end)
  BY <1>2, <1>3, <1>5, <1>6, <1>7, <1>8, RanFacts
<1> QED
  BY <1>8, <1>9, <1>10, <1>11 DEF IInv

\* What RunsFor needs to know of the job that runs.
LEMMA ReadyFacts ==
  ASSUME IInv, pname # "FIFO", NEW j \in Ready
  PROVE  /\ j \in Ids /\ j \notin Done /\ ~jobs[j].is_completed
         /\ jobs[j] \in JobType /\ jobs[j].time_left \in Nat \ {0}
         /\ jobs[j].arrival \in Nat /\ jobs[j].arrival <= time
<1>1. j \in Ids /\ j \notin Done /\ jobs[j].arrival <= time /\ ~jobs[j].is_completed
  BY DoneFacts DEF IInv, Ready
<1>2. jobs[j] \in JobType /\ jobs[j].time_left \in Int /\ jobs[j].arrival \in Nat
  BY <1>1, JobFacts DEF IInv
<1>3. jobs[j].time_left > 0
  BY <1>1 DEF IInv, GoodInv, Good, WorkLeft, Shapes
<1> QED
  BY <1>1, <1>2, <1>3

LEMMA RrRunInv == ASSUME IInv, RrRun PROVE IInv' /\ Ran(temp, time')
<1> DEFINE job == jobs[temp]
<1>1. PICK runtime : runtime = IF slice < job.time_left THEN slice ELSE job.time_left
  OBVIOUS
<1>2. PICK a : a = [Started(job) EXCEPT !.time_left = job.time_left - runtime]
  OBVIOUS
<1>3. PICK r : r = IF a.time_left = 0 THEN Ended(a, time + runtime) ELSE a
  OBVIOUS
<1>4. /\ pc = "policy" /\ pname = "RR" /\ temp \in Ready /\ temp < numofjobs
      /\ trace' = trace \o <<Slice(time, temp, runtime)>>
      /\ jobs' = [jobs EXCEPT ![temp] = r]
      /\ completed' = IF a.time_left = 0 THEN completed + 1 ELSE completed
      /\ time' = time + runtime /\ progress' = TRUE /\ temp' = temp + 1
      /\ UNCHANGED <<pc, args, pname, numofjobs, running>>
  BY <1>1, <1>2, <1>3 DEF RrRun, Turn, Eligible, Printf, RrAfter, args
<1>5. /\ Shapes /\ time \in Nat /\ slice \in Nat \ {0} /\ temp \in Nat /\ numofjobs \in Nat
  BY DEF IInv, Shapes
<1>6. temp \in Ids /\ job \in JobType /\ job.time_left \in Nat \ {0}
  BY <1>4, ReadyFacts
<1>7. PICK left \in Int : left = job.time_left - runtime
  BY <1>1, <1>5, <1>6
<1>8. runtime \in Nat \ {0} /\ left >= 0 /\ left <= job.time_left /\ job.time_left - left <= runtime
  BY <1>1, <1>5, <1>6, <1>7
<1>9. PICK then \in Nat : then = time + runtime
  BY <1>5, <1>8
<1>10. time < then /\ job.time_left - left <= then - time /\ then - time = runtime
  BY <1>5, <1>8, <1>9
<1>11. CountedDown(a, job, left) /\ a.time_left = left
  <2>1. CountedDown([Started(job) EXCEPT !.time_left = left], job, left)
    BY <1>5, <1>6, <1>8, CountDown
  <2> QED
    BY <1>2, <1>7, <2>1 DEF CountedDown
<1>12. r = IF left <= 0 THEN Ended(a, then) ELSE a
  BY <1>3, <1>8, <1>9, <1>11
<1>13. /\ HasRun(r, job, time) /\ r.time_left = left
       /\ left <= 0 => r.is_completed /\ IsDone(r, job, time, then)
       /\ left > 0 => r.is_completed = job.is_completed /\ HasMore(r, job, time, then)
  BY <1>5, <1>6, <1>8, <1>10, <1>11, <1>12, RunsFor
<1>14. \/ r.is_completed /\ IsDone(r, job, time, time') /\ completed' = completed + 1
       \/ r.is_completed = job.is_completed /\ HasMore(r, job, time, time')
          /\ completed' = completed
  BY <1>4, <1>8, <1>9, <1>11, <1>13
<1>15. /\ History = trace /\ History' = trace' /\ current_job' = NULL
       /\ trace' \in Seq(SliceOf(Ids)) /\ run_start' \in 0..then
       /\ Extended(History, History', Len(trace) + 1, temp, time, then)
  BY <1>4, <1>6, <1>10, PrintedTurn
<1>16. /\ time' \in Nat /\ time < time' /\ temp' \in 0..numofjobs /\ progress' \in BOOLEAN
       /\ current_job' \in Ids \cup {NULL} /\ run_start' \in 0..time'
       /\ History' \in Seq(SliceOf(Ids))
       /\ Extended(History, History', Len(trace) + 1, temp, time, time')
  BY <1>4, <1>5, <1>9, <1>10, <1>15
<1>17. Shapes' /\ JobsInv' /\ ReadInv' /\ CountInv' /\ FifoInv' /\ GoodInv'
  BY <1>4, <1>13, <1>14, <1>15, <1>16, MarkedTurn
<1>18. HeldInv' /\ PassInv' /\ ShortestInv'
  BY <1>4, <1>15 DEF HeldInv, PassInv, ShortestInv
<1>19. Ran(temp, then)
  <2>1. temp \notin Done /\ ~job.is_completed
    BY <1>4, ReadyFacts
  <2>2. Done' \in {Done, Done \cup {temp}} /\ (temp \in Done' => left = 0)
    <3>1. Done' \in {Done, Done \cup {temp}} /\ (temp \in Done' => left <= 0)
      BY <1>4, <1>5, <1>6, <1>13, <2>1, MarkTurn
    <3> QED
      BY <1>8, <3>1
  <2>3. left = job.time_left - (then - time)
    BY <1>7, <1>10
  <2> QED
    BY <1>4, <1>5, <1>6, <1>10, <1>13, <1>15, <2>1, <2>2, <2>3, RanFacts
<1> QED
  BY <1>4, <1>9, <1>17, <1>18, <1>19 DEF IInv

LEMMA LtRunInv ==
  ASSUME IInv, NEW ticket, LtRun(ticket) PROVE IInv' /\ \E j, then : Ran(j, then)
<1>1. PICK j \in Ready :
        LET job == [Started(jobs[j]) EXCEPT !.time_left = @ - slice]
        IN /\ trace' = trace \o <<Slice(time, j, slice)>>
           /\ jobs' = [jobs EXCEPT ![j] =
                         IF job.time_left <= 0 THEN Ended(job, time + slice) ELSE job]
           /\ completed' = IF job.time_left <= 0 THEN completed + 1 ELSE completed
  BY DEF LtRun, Wins, Printf
<1>2. /\ pc = "policy" /\ pname = "LT" /\ time' = time + slice
      /\ UNCHANGED <<pc, args, pname, numofjobs, temp, progress, running>>
  BY DEF LtRun, Turn, args, loop
<1>3. Shapes /\ time \in Nat /\ slice \in Nat \ {0}
  BY DEF IInv, Shapes
<1> DEFINE job == jobs[j]
<1>4. j \in Ids /\ job \in JobType /\ job.time_left \in Nat \ {0}
  BY <1>2, ReadyFacts
<1>5. PICK left \in Int : left = job.time_left - slice
  BY <1>3, <1>4
<1>6. PICK a : a = [Started(job) EXCEPT !.time_left = left]
  OBVIOUS
<1>7. PICK then \in Nat : then = time + slice
  BY <1>3
<1>8. PICK r : r = IF left <= 0 THEN Ended(a, then) ELSE a
  OBVIOUS
<1>9. time < then /\ then - time = slice /\ left <= job.time_left /\ job.time_left - left <= then - time
  BY <1>3, <1>4, <1>5, <1>7
<1>10. /\ CountedDown(a, job, left) /\ a.time_left = left
       /\ a = [Started(job) EXCEPT !.time_left = @ - slice]
  <2>1. Started(job) \in JobType /\ Started(job).time_left = job.time_left
    BY <1>3, <1>4, StartedFacts DEF HasRun
  <2>2. CountedDown([Started(job) EXCEPT !.time_left = left], job, left)
    BY <1>3, <1>4, <1>9, CountDown
  <2> QED
    BY <1>5, <1>6, <2>1, <2>2 DEF CountedDown
<1>11. /\ jobs' = [jobs EXCEPT ![j] = r]
       /\ completed' = IF left <= 0 THEN completed + 1 ELSE completed
       /\ trace' = trace \o <<Slice(time, j, then - time)>>
  BY <1>1, <1>7, <1>8, <1>9, <1>10
<1>12. /\ HasRun(r, job, time) /\ r.time_left = left
       /\ left <= 0 => r.is_completed /\ IsDone(r, job, time, then)
       /\ left > 0 => r.is_completed = job.is_completed /\ HasMore(r, job, time, then)
  <2>1. job \in JobType /\ time \in Nat /\ time < then /\ left <= job.time_left
        /\ job.time_left - left <= then - time
    BY <1>3, <1>4, <1>9
  <2>2. CountedDown(a, job, left)
    BY <1>10
  <2> QED
    BY <1>8, <2>1, <2>2, RunsFor
<1>13. \/ r.is_completed /\ IsDone(r, job, time, time') /\ completed' = completed + 1
       \/ r.is_completed = job.is_completed /\ HasMore(r, job, time, time')
          /\ completed' = completed
  BY <1>2, <1>7, <1>11, <1>12
<1>14. /\ History = trace /\ History' = trace' /\ current_job' = NULL
       /\ trace' \in Seq(SliceOf(Ids)) /\ run_start' \in 0..then
       /\ Extended(History, History', Len(trace) + 1, j, time, then)
  BY <1>2, <1>4, <1>9, <1>11, PrintedTurn
<1>15. /\ time' \in Nat /\ time < time' /\ temp' \in 0..numofjobs /\ progress' \in BOOLEAN
       /\ current_job' \in Ids \cup {NULL} /\ run_start' \in 0..time'
       /\ History' \in Seq(SliceOf(Ids))
       /\ Extended(History, History', Len(trace) + 1, j, time, time')
  BY <1>2, <1>3, <1>7, <1>9, <1>14 DEF Shapes
<1>16. Shapes' /\ JobsInv' /\ ReadInv' /\ CountInv' /\ FifoInv' /\ GoodInv'
  BY <1>2, <1>11, <1>12, <1>13, <1>14, <1>15, MarkedTurn
<1>17. HeldInv' /\ PassInv' /\ ShortestInv'
  BY <1>2, <1>14 DEF HeldInv, PassInv, ShortestInv
<1>18. Ran(j, then)
  <2>1. j \notin Done /\ ~job.is_completed
    BY <1>2, ReadyFacts
  <2>2. Done' \in {Done, Done \cup {j}}
    BY <1>2, <1>3, <1>4, <1>11, <1>12, <2>1, MarkTurn
  <2>3. left = job.time_left - (then - time)
    BY <1>5, <1>9
  <2> QED
    BY <1>2, <1>3, <1>4, <1>9, <1>11, <1>12, <1>14, <2>1, <2>2, <2>3, RanFacts
<1> QED
  BY <1>16, <1>17, <1>18 DEF IInv

\* The history of STCF: the slice of the job that goes on is one unit longer,
\* or the one of the job before it is over and a new one begins.
LEMMA HeldTurn ==
  ASSUME IInv, pname = "STCF", NEW j \in Ids, NEW ends \in BOOLEAN,
         trace' = trace \o (Preempted(j) \o
           (IF ends THEN <<Slice(SliceStart(j), j, time + 1 - SliceStart(j))>> ELSE <<>>)),
         current_job' = (IF ends THEN NULL ELSE j),
         run_start' = SliceStart(j), time' = time + 1
  PROVE  /\ trace' \in Seq(SliceOf(Ids)) /\ History' \in Seq(SliceOf(Ids))
         /\ run_start' \in 0..time
         /\ \E m : Extended(History, History', m, j, time, time + 1)
<1>1. /\ time \in Nat /\ run_start \in 0..time /\ trace \in Seq(SliceOf(Ids))
      /\ current_job # NULL => run_start < time
  BY DEF IInv, Shapes, HeldInv
<1>2. History \in Seq(SliceOf(Ids)) /\ (current_job = NULL => History = trace)
  BY HistoryFacts DEF IInv
<1>3. j # NULL
  BY DEF IInv, Shapes, Ids, NULL
<1> DEFINE base == IF current_job = j THEN trace ELSE History
           e == Slice(SliceStart(j), j, time + 1 - SliceStart(j))
<1>4. base \in Seq(SliceOf(Ids)) /\ base = trace \o Preempted(j)
  <2>1. CASE current_job = j \/ current_job = NULL
    <3>1. Preempted(j) = <<>> /\ base = trace
      BY <1>2, <2>1 DEF Preempted
    <3> QED
      BY <1>1, <3>1, ConcatEmptySeq
  <2>2. CASE current_job # j /\ current_job # NULL
    <3>1. base = History /\ History = trace \o Preempted(j)
      BY <2>2 DEF Preempted, History, Held
    <3> QED
      BY <1>2, <3>1
  <2> QED
    BY <2>1, <2>2
<1>5. PICK from : from = SliceStart(j)
  OBVIOUS
<1>6. from \in Nat /\ from <= time /\ from < time + 1 /\ (current_job # j => from = time)
  BY <1>1, <1>5 DEF SliceStart
<1>7. PICK g : g = base \o <<e>>
  OBVIOUS
<1>8. g \in Seq(SliceOf(Ids)) /\ \E m : Extended(History, g, m, j, time, time + 1)
  <2>1. CASE current_job = j
    <3>1. History = trace \o <<Slice(from, j, time - from)>> /\ from = run_start /\ from < time
      BY <1>1, <1>3, <1>5, <2>1 DEF History, Held, SliceStart
    <3>2. PICK then \in Nat : then = time + 1 /\ time < then
      BY <1>1
    <3>3. g = trace \o <<Slice(from, j, then - from)>>
      <4>1. time + 1 - from = then - from
        BY <1>1, <1>6, <3>2
      <4> QED
        BY <1>5, <1>7, <2>1, <4>1
    <3>4. g \in Seq(SliceOf(Ids)) /\ Extended(History, g, Len(trace) + 1, j, time, then)
      BY <1>1, <1>6, <3>1, <3>2, <3>3, Longer
    <3> QED
      BY <3>2, <3>4
  <2>2. CASE current_job # j
    <3>1. PICK then \in Nat : then = time + 1 /\ time < then
      BY <1>1
    <3>2. g = History \o <<Slice(time, j, then - time)>>
      <4>1. from = time /\ time + 1 - from = then - time
        BY <1>1, <1>6, <2>2, <3>1
      <4> QED
        BY <1>5, <1>7, <2>2, <4>1
    <3>3. g \in Seq(SliceOf(Ids)) /\ Extended(History, g, Len(History) + 1, j, time, then)
      BY <1>1, <1>2, <3>1, <3>2, OneMore
    <3> QED
      BY <3>1, <3>3
  <2> QED
    BY <2>1, <2>2
<1>9. e \in SliceOf(Ids)
  BY <1>1, <1>5, <1>6 DEF Slice, SliceOf
<1>10. trace' \in Seq(SliceOf(Ids)) /\ History' = g
  <2> HIDE DEF e
  <2>1. CASE ends
    <3>1. Preempted(j) \in Seq(SliceOf(Ids))
      <4>1. CASE Preempted(j) = <<>>
        BY <4>1
      <4>2. CASE Preempted(j) # <<>>
        <5>1. current_job \in Ids /\ run_start \in Nat /\ run_start < time
              /\ Preempted(j) = <<Slice(run_start, current_job, time - run_start)>>
          BY <1>1, <4>2 DEF Preempted, IInv, Shapes
        <5>2. Slice(run_start, current_job, time - run_start) \in SliceOf(Ids)
          BY <1>1, <5>1 DEF Slice, SliceOf
        <5> QED
          BY <5>1, <5>2
      <4> QED
        BY <4>1, <4>2
    <3>2. trace' = trace \o (Preempted(j) \o <<e>>)
      BY <2>1 DEF e
    <3>3. <<e>> \in Seq(SliceOf(Ids))
      BY <1>9
    <3>4. trace' = (trace \o Preempted(j)) \o <<e>>
      BY <1>1, <3>1, <3>2, <3>3, ConcatAssociative
    <3>5. trace' = g
      BY <1>4, <1>7, <3>4
    <3>6. g \o <<>> = g
      BY <1>8, ConcatEmptySeq
    <3>7. History' = trace' \o <<>>
      BY <2>1 DEF History, Held
    <3> QED
      BY <1>8, <3>5, <3>6, <3>7
  <2>2. CASE ~ends
    <3>1. Preempted(j) \o <<>> = Preempted(j)
      <4>1. CASE Preempted(j) = <<>>
        BY <4>1
      <4>2. CASE Preempted(j) # <<>>
        <5>1. PICK x : Preempted(j) = <<x>>
          BY <4>2 DEF Preempted
        <5> QED
          BY <5>1
      <4> QED
        BY <4>1, <4>2
    <3>2. trace' = base
      BY <1>4, <2>2, <3>1
    <3>3. Held' = <<e>>
      <4>1. current_job' = j /\ time' = time + 1 /\ run_start' = SliceStart(j)
        BY <2>2
      <4>2. Held' = <<Slice(SliceStart(j), j, time + 1 - SliceStart(j))>>
        <5>1. (time + 1) - SliceStart(j) = time + 1 - SliceStart(j)
          BY <1>1, <1>5, <1>6
        <5> QED
          BY <1>3, <4>1, <5>1 DEF Held
      <4> QED
        BY <4>2 DEF e
    <3> QED
      BY <1>4, <1>7, <3>2, <3>3 DEF History
  <2> QED
    BY <2>1, <2>2
<1> QED
  BY <1>1, <1>5, <1>6, <1>8, <1>10

LEMMA StcfRunInv == ASSUME IInv, StcfRun PROVE IInv' /\ \E j, then : Ran(j, then)
<1>1. PICK j : j = Least([k \in Ids |-> jobs[k].time_left])
  OBVIOUS
<1> DEFINE job == jobs[j]
<1>2. PICK a : a = [Started(job) EXCEPT !.time_left = @ - 1]
  OBVIOUS
<1>3. PICK ends \in BOOLEAN : ends <=> a.time_left = 0
  OBVIOUS
<1>4. PICK r : r = IF a.time_left = 0 THEN Ended(a, time + 1) ELSE a
  OBVIOUS
<1>5. /\ pc = "policy" /\ pname = "STCF" /\ Ready # {}
      /\ trace' = trace \o (Preempted(j) \o
           (IF ends THEN <<Slice(SliceStart(j), j, time + 1 - SliceStart(j))>> ELSE <<>>))
      /\ jobs' = [jobs EXCEPT ![j] = r]
      /\ completed' = (IF ends THEN completed + 1 ELSE completed)
      /\ current_job' = (IF ends THEN NULL ELSE j)
      /\ run_start' = SliceStart(j) /\ time' = time + 1
      /\ UNCHANGED <<pc, args, pname, numofjobs, temp, progress>>
  BY <1>1, <1>2, <1>3, <1>4 DEF StcfRun, Turn, Printf, args, loop
<1>6. Shapes /\ time \in Nat
  BY DEF IInv, Shapes
<1>7. j \in Ready
  <2>1. PICK f : f = [k \in Ids |-> jobs[k].time_left]
    OBVIOUS
  <2>2. \A k \in Ready : f[k] \in Nat
    BY <1>5, <2>1, ReadyFacts
  <2> QED
    BY <1>1, <1>5, <1>6, <2>1, <2>2, LeastFacts
<1>8. /\ j \in Ids /\ j \notin Done /\ job \in JobType /\ job.time_left \in Nat \ {0}
      /\ job.arrival \in Nat /\ job.arrival <= time /\ ~job.is_completed
  BY <1>5, <1>7, ReadyFacts
<1>9. PICK left \in Int : left = job.time_left - 1
  BY <1>8
<1>10. CountedDown(a, job, left) /\ a.time_left = left
  <2>1. Started(job) \in JobType /\ Started(job).time_left = job.time_left
    BY <1>6, <1>8, StartedFacts DEF HasRun
  <2>2. a = [Started(job) EXCEPT !.time_left = left]
    BY <1>2, <1>9, <2>1
  <2>3. CountedDown([Started(job) EXCEPT !.time_left = left], job, left)
    BY <1>6, <1>8, <1>9, CountDown
  <2> QED
    BY <2>2, <2>3 DEF CountedDown
<1>11. PICK then \in Nat : then = time + 1
  BY <1>6
<1>12. /\ left >= 0 /\ left <= job.time_left /\ time < then
       /\ job.time_left - left <= then - time
  BY <1>6, <1>8, <1>9, <1>11
<1>13. /\ HasRun(r, job, time) /\ r.time_left = left
       /\ left <= 0 => r.is_completed /\ IsDone(r, job, time, then)
       /\ left > 0 => r.is_completed = job.is_completed /\ HasMore(r, job, time, then)
  <2>1. r = IF left <= 0 THEN Ended(a, then) ELSE a
    BY <1>4, <1>10, <1>11, <1>12
  <2> QED
    BY <1>6, <1>8, <1>10, <1>12, <2>1, RunsFor
<1>14. /\ trace' \in Seq(SliceOf(Ids)) /\ History' \in Seq(SliceOf(Ids))
       /\ run_start' \in 0..time
       /\ \E m : Extended(History, History', m, j, time, time + 1)
  BY <1>5, <1>8, HeldTurn
<1>15. PICK m : Extended(History, History', m, j, time, time')
  BY <1>5, <1>14
<1>16. \/ r.is_completed /\ IsDone(r, job, time, time') /\ completed' = completed + 1
       \/ r.is_completed = job.is_completed /\ HasMore(r, job, time, time')
          /\ completed' = completed
  BY <1>3, <1>5, <1>10, <1>11, <1>12, <1>13
<1>17. /\ time' \in Nat /\ time < time' /\ temp' \in 0..numofjobs /\ progress' \in BOOLEAN
       /\ current_job' \in Ids \cup {NULL} /\ run_start' \in 0..time'
  BY <1>5, <1>6, <1>8, <1>14 DEF Shapes
<1>18. /\ Shapes' /\ JobsInv' /\ ReadInv' /\ CountInv' /\ FifoInv' /\ GoodInv'
       /\ Ids' = Ids /\ jobs'[j].arrival = job.arrival
       /\ r.is_completed \/ Done' = Done
  BY <1>5, <1>7, <1>8, <1>13, <1>14, <1>15, <1>16, <1>17, MarkedTurn
<1>19. HeldInv'
  <2> SUFFICES ASSUME ~ends
               PROVE  /\ j \notin Done' /\ jobs'[j].arrival <= run_start' /\ run_start' < time'
    BY <1>5 DEF HeldInv
  <2>1. left > 0 /\ ~r.is_completed
    BY <1>3, <1>8, <1>10, <1>12, <1>13
  <2>2. job.arrival <= run_start'
    <3>1. j # NULL
      BY <1>6, <1>8 DEF Shapes, Ids, NULL
    <3>2. CASE current_job = j
      BY <1>5, <3>1, <3>2 DEF SliceStart, IInv, HeldInv
    <3>3. CASE current_job # j
      BY <1>5, <1>8, <3>3 DEF SliceStart
    <3> QED
      BY <3>2, <3>3
  <2> QED
    BY <1>5, <1>6, <1>8, <1>14, <1>18, <2>1, <2>2
<1>20. PassInv' /\ ShortestInv'
  BY <1>5 DEF PassInv, ShortestInv
<1>21. Ran(j, then)
  <2>1. Done' \in {Done, Done \cup {j}} /\ (j \in Done' => left = 0)
    <3>1. Done' \in {Done, Done \cup {j}} /\ (j \in Done' => left <= 0)
      BY <1>5, <1>6, <1>8, <1>13, MarkTurn
    <3> QED
      BY <1>12, <3>1
  <2>2. left = job.time_left - (then - time)
    BY <1>6, <1>8, <1>9, <1>11
  <2>3. Extended(History, History', m, j, time, then)
    BY <1>5, <1>11, <1>15
  <2> QED
    BY <1>5, <1>6, <1>8, <1>12, <1>13, <1>14, <2>1, <2>2, <2>3, RanFacts
<1> QED
  BY <1>18, <1>19, <1>20, <1>21 DEF IInv

-----------------------------------------------------------------------------
(* The end of the run, and the theorems. *)

LEMMA EndPolicyInv == ASSUME IInv, EndPolicy PROVE IInv' /\ Quiet
<1>1. /\ pc = "policy" /\ pc' = "done"
      /\ IF pname = "FIFO" THEN temp = numofjobs ELSE ~(completed < numofjobs)
      /\ jobs' = [j \in Ids |-> [jobs[j] EXCEPT !.waitTime = jobs[j].turnaroundTime - jobs[j].length]]
      /\ UNCHANGED <<pname, slice, numofjobs, time, completed, temp, progress, current_job, run_start, trace>>
  BY DEF EndPolicy, Unfinished, args, loop, running
<1>2. Shapes /\ numofjobs \in Nat /\ Ids = 0..(numofjobs - 1) /\ Ids' = Ids
  BY <1>1 DEF IInv, Shapes, Ids
<1>3. Done = Ids
  <2>1. CASE pname = "FIFO"
    BY <1>1, <1>2, <2>1 DEF Done
  <2>2. CASE pname # "FIFO"
    <3>1. Cardinality(Done) = numofjobs
      BY <1>1, <1>2, <2>2, DoneFinite DEF IInv, CountInv
    <3> QED
      BY <1>2, <3>1, DoneFinite
  <2> QED
    BY <2>1, <2>2
<1>4. ASSUME NEW j \in Ids
      PROVE  /\ jobs'[j] \in JobType
             /\ jobs'[j].waitTime = jobs'[j].turnaroundTime - jobs'[j].length
             /\ jobs'[j].arrival = jobs[j].arrival /\ jobs'[j].length = jobs[j].length
             /\ jobs'[j].time_left = jobs[j].time_left /\ jobs'[j].is_completed = jobs[j].is_completed
             /\ jobs'[j].startTime = jobs[j].startTime
             /\ jobs'[j].responseTime = jobs[j].responseTime
             /\ jobs'[j].turnaroundTime = jobs[j].turnaroundTime
  <2>1. PICK job : job = jobs[j]
    OBVIOUS
  <2>2. PICK wait : wait = job.turnaroundTime - job.length
    OBVIOUS
  <2>3. PICK r : r = [job EXCEPT !.waitTime = wait]
    OBVIOUS
  <2>4. job \in JobType /\ wait \in Int
    BY <1>2, <2>1, <2>2, JobFacts
  <2>5. /\ r \in JobType /\ r.waitTime = wait /\ r.arrival = job.arrival /\ r.length = job.length
        /\ r.time_left = job.time_left /\ r.is_completed = job.is_completed
        /\ r.startTime = job.startTime /\ r.responseTime = job.responseTime
        /\ r.turnaroundTime = job.turnaroundTime
    BY <2>3, <2>4 DEF JobType
  <2>6. jobs'[j] = r
    BY <1>1, <2>1, <2>2, <2>3
  <2> QED
    BY <2>1, <2>2, <2>5, <2>6
<1>5. jobs' \in [Ids -> JobType]
  BY <1>1, <1>4
<1>6. Shapes'
  BY <1>1, <1>2, <1>5 DEF Shapes
<1>7. Done' = Ids
  <2>1. Done' = Done
    <3>1. CASE pname = "FIFO"
      BY <1>1, <3>1 DEF Done
    <3>2. CASE pname # "FIFO"
      <4>1. Done = {j \in Ids : jobs[j].is_completed} /\ Done' = {j \in Ids : jobs'[j].is_completed}
        BY <1>1, <1>2, <3>2 DEF Done
      <4>2. \A j \in Ids : jobs'[j].is_completed = jobs[j].is_completed
        BY <1>4
      <4> QED
        BY <4>1, <4>2
    <3> QED
      BY <3>1, <3>2
  <2> QED
    BY <1>3, <2>1
<1>8. current_job = NULL /\ current_job' = NULL
  BY <1>1, <1>2, <1>3 DEF IInv, HeldInv, Shapes
<1>9. JobsInv' /\ CountInv' /\ HeldInv'
  <2>1. JobsInv'
    <3>1. \A j, k \in Ids : j < k => jobs'[j].arrival <= jobs'[k].arrival
      BY <1>4 DEF IInv, JobsInv
    <3>2. \A j \in Ids : jobs'[j].time_left <= jobs'[j].length
      BY <1>4 DEF IInv, JobsInv
    <3>3. pname = "FIFO" => \A j \in Ids : ~jobs'[j].is_completed
      <4>1. \A j \in Ids : jobs'[j].is_completed = jobs[j].is_completed
        BY <1>4
      <4> QED
        BY <4>1 DEF IInv, JobsInv
    <3> QED
      BY <1>1, <1>2, <3>1, <3>2, <3>3 DEF JobsInv
  <2>2. CountInv'
    BY <1>1, <1>2, <1>3, <1>4, <1>7 DEF IInv, CountInv
  <2> QED
    BY <1>8, <2>1, <2>2 DEF HeldInv
<1>10. ReadInv' /\ FifoInv'
  BY <1>1 DEF ReadInv, FifoInv
<1>11. PassInv'
  <2>1. Ready' = Ready
    BY <1>1, <1>2, <1>4 DEF Ready
  <2> QED
    BY <1>1, <1>2, <2>1 DEF IInv, PassInv
<1>12. ShortestInv'
  <2>1. CASE pname = "SJF"
    <3>1. \A a \in Slices : trace[a].id \in Ids
      BY <1>3, <2>1 DEF IInv, ShortestInv
    <3>2. \A j, k \in Ids : Shorter(jobs', j, k) <=> Shorter(jobs, j, k)
      BY <1>4 DEF Shorter
    <3>3. Slices' = Slices
      BY <1>1 DEF Slices
    <3> QED
      BY <1>1, <1>2, <1>3, <1>4, <1>7, <2>1, <3>1, <3>2, <3>3 DEF IInv, ShortestInv
  <2>2. CASE pname # "SJF"
    BY <1>1, <2>2 DEF ShortestInv
  <2> QED
    BY <2>1, <2>2
<1>13. GoodInv' /\ Quiet
  <2>1. History' = History /\ DOMAIN jobs = Ids /\ DOMAIN jobs' = Ids
    BY <1>1, <1>2, <1>5, <1>8 DEF History, Held, Shapes
  <2>2. \A k \in DOMAIN History : History[k].id \in Ids
    <3>1. History \in Seq(SliceOf(Ids))
      BY HistoryFacts DEF IInv
    <3> QED
      BY <3>1, SliceFacts
  <2>3. Good(History, jobs, Ids, time)
    BY <1>3 DEF IInv, GoodInv
  <2>4. PICK J : J = jobs'
    OBVIOUS
  <2>5. DOMAIN J = Ids /\ \A j \in Ids :
          /\ J[j].arrival = jobs[j].arrival /\ J[j].length = jobs[j].length
          /\ J[j].startTime = jobs[j].startTime /\ J[j].responseTime = jobs[j].responseTime
          /\ J[j].turnaroundTime = jobs[j].turnaroundTime
    BY <1>4, <2>1, <2>4
  <2>6. InOrder(History, J, time)
    BY <2>2, <2>3, <2>5 DEF Good, InOrder
  <2>7. NeverIdle(History, J, Ids, time)
    BY <2>1, <2>3, <2>5 DEF Good, NeverIdle
  <2>8. FirstSlice(History, J)
    BY <2>1, <2>3, <2>5 DEF Good, FirstSlice
  <2>9. LastSlice(History, J, Ids, time)
    BY <2>3, <2>5 DEF Good, LastSlice
  <2>10. WorkLeft(J, Ids, time)
    BY <2>5 DEF WorkLeft
  <2>11. Good(History, J, Ids, time)
    BY <2>6, <2>7, <2>8, <2>9, <2>10 DEF Good
  <2>12. Quiet
    BY <1>1, <1>2, <1>3, <1>4, <1>7, <2>1 DEF Quiet
  <2> QED
    BY <1>1, <1>7, <2>1, <2>4, <2>11, <2>12 DEF GoodInv
<1> QED
  BY <1>6, <1>9, <1>10, <1>11, <1>12, <1>13 DEF IInv

LEMMA SameState ==
  ASSUME IInv, UNCHANGED <<pname, slice, numofjobs, jobs, time, completed, temp, progress,
                           current_job, run_start, trace>>,
         \/ pc' = pc
         \/ pc = "read" /\ pc' = "failed"
  PROVE  IInv' /\ Quiet
<1>1. Ids' = Ids /\ Done' = Done /\ Ready' = Ready /\ History' = History /\ Slices' = Slices
  BY DEF Ids, Done, Ready, History, Held, Slices
<1>2. Shapes' /\ JobsInv' /\ ReadInv' /\ CountInv' /\ FifoInv' /\ HeldInv' /\ PassInv'
  BY <1>1 DEF IInv, Shapes, JobsInv, ReadInv, CountInv, FifoInv, HeldInv, PassInv
<1>3. ShortestInv' /\ GoodInv'
  BY <1>1 DEF IInv, ShortestInv, GoodInv
<1>4. Quiet
  BY <1>1 DEF Quiet
<1> QED
  BY <1>2, <1>3, <1>4 DEF IInv

LEMMA NextInv == IInv /\ [Next]_vars => IInv'
<1> SUFFICES ASSUME IInv, [Next]_vars PROVE IInv'
  OBVIOUS
<1>1. ASSUME NEW arrival \in 0..MAX_ARRIVAL, NEW length \in 1..MAX_LENGTH, ReadJob(arrival, length)
      PROVE  IInv'
  <2>1. arrival \in Nat /\ length \in Nat \ {0}
    BY BoundsAssumption
  <2> QED
    BY <1>1, <2>1, ReadJobInv
<1>2. CASE EmptyFile
  BY <1>2, SameState DEF EmptyFile, args, table, loop, running
<1>3. CASE StartPolicy
  BY <1>3, StartPolicyInv
<1>4. CASE EndPolicy
  BY <1>4, EndPolicyInv
<1>5. CASE UNCHANGED vars
  BY <1>5, SameState DEF vars, args, table, loop, running
<1>6. CASE Idle \/ LtJump
  BY <1>6, IdleInv
<1>7. CASE FifoRun
  BY <1>7, FifoRunInv
<1>8. CASE SjfRun
  BY <1>8, SjfRunInv
<1>9. CASE StcfRun
  BY <1>9, StcfRunInv
<1>10. CASE RrRun
  BY <1>10, RrRunInv
<1>11. CASE RrSkip \/ RrPass
  BY <1>11, RrMoveInv
<1>12. ASSUME NEW ticket \in 0..(MAX_JOBS * (MAX_JOBS + 1) * TICKETS), LtRun(ticket) PROVE IInv'
  BY <1>12, LtRunInv
<1> QED
  BY <1>1, <1>2, <1>3, <1>4, <1>5, <1>6, <1>7, <1>8, <1>9, <1>10, <1>11, <1>12 DEF Next, Exited

\* The invariant holds in every state.
THEOREM Invariant == Spec => []IInv
<1>1. Init => IInv
  BY InitInv
<1>2. IInv /\ [Next]_vars => IInv'
  BY NextInv
<1> QED
  BY <1>1, <1>2, PTL DEF Spec

\* The variables keep their shapes: the jobs counted are never more than those
\* read, and the loops of FIFO and RR (scheduler.c:432-466, 282-326) stay in the list.
THEOREM TypeCorrect == Spec => []TypeOK
<1>1. IInv => TypeOK
  <2> SUFFICES ASSUME IInv PROVE TypeOK
    OBVIOUS
  <2>1. Shapes /\ JobsInv
    BY DEF IInv
  <2>2. completed \in 0..numofjobs
    <3>1. numofjobs \in Nat
      BY <2>1 DEF Shapes
    <3>2. completed = 0 \/ completed = Cardinality(Done)
      BY DEF IInv, CountInv
    <3> QED
      BY <2>1, <3>1, <3>2, DoneFinite
  <2>3. \A j \in Ids : jobs[j].time_left <= jobs[j].length /\ jobs[j].is_completed \in BOOLEAN
    BY <2>1, JobFacts DEF JobsInv
  <2>4. trace \in Seq([t : Nat, id : Ids, ran : Nat \ {0}])
    BY <2>1 DEF Shapes, SliceOf
  <2> QED
    BY <2>1, <2>2, <2>3, <2>4 DEF Shapes, TypeOK
<1> QED
  BY <1>1, Invariant, PTL

\* One processor: a slice begins after the one before it has ended, and after its
\* job has arrived.
THEOREM OneAtATime == Spec => []SlicesInOrder
<1>1. IInv => SlicesInOrder
  <2> SUFFICES ASSUME IInv PROVE SlicesInOrder
    OBVIOUS
  <2>1. PICK h : h = History
    OBVIOUS
  <2>2. h \in Seq(SliceOf(Ids)) /\ InOrder(h, jobs, time)
    BY <2>1, HistoryFacts DEF IInv, GoodInv, Good
  <2>3. DOMAIN h = 1..Len(h) /\ Len(h) \in Nat
    BY <2>2
  <2>4. ASSUME NEW k \in 1..(Len(h) - 1) PROVE EndOf(h[k]) <= h[k + 1].t
    <3>1. k \in DOMAIN h /\ k + 1 \in DOMAIN h /\ k < k + 1
      BY <2>3
    <3> QED
      BY <2>2, <3>1 DEF InOrder
  <2> QED
    BY <2>1, <2>2, <2>4 DEF SlicesInOrder, InOrder
<1> QED
  BY <1>1, Invariant, PTL

\* The loops of all five policies leave the processor idle only while no job
\* that has arrived is unfinished.  A slice LT charges in full is busy throughout.
THEOREM NeverIdles == Spec => []WorkConserving
<1>1. IInv => WorkConserving
  <2> SUFFICES ASSUME IInv, pc = "done", NEW u \in 0..(time - 1), NEW j \in Ids,
                      ~(u < jobs[j].arrival), ~(u >= jobs[j].arrival + jobs[j].turnaroundTime)
               PROVE  \E k \in Slices : trace[k].t <= u /\ u < EndOf(trace[k])
    BY DEF WorkConserving
  <2>1. Shapes /\ Done = Ids
    BY DEF IInv, CountInv
  <2>2. History = trace
    BY <2>1, HistoryFacts DEF IInv, HeldInv, Shapes
  <2>3. jobs[j].arrival \in Nat /\ jobs[j].turnaroundTime \in Int /\ u \in Int
    BY <2>1, JobFacts
  <2>4. Covered(trace, u)
    <3>1. j \in DOMAIN jobs /\ jobs[j].arrival <= u /\ u < jobs[j].arrival + jobs[j].turnaroundTime
      BY <2>1, <2>3 DEF Shapes
    <3> QED
      BY <2>2, <3>1 DEF IInv, GoodInv, Good, NeverIdle
  <2> QED
    BY <2>1, <2>4 DEF Covered, Slices, Shapes
<1> QED
  BY <1>1, Invariant, PTL

\* analyze_policy (scheduler.c:472-504) reports of every job what its slices show.
THEOREM AnalysisTrue == Spec => []AnalysisExact
<1>1. IInv => AnalysisExact
  <2> SUFFICES ASSUME IInv, pc = "done", NEW j \in Ids
               PROVE  LET mine == {k \in Slices : trace[k].id = j}
                      IN \E first, last \in mine :
                           /\ \A k \in mine : first <= k /\ k <= last
                           /\ jobs[j].responseTime = trace[first].t - jobs[j].arrival
                           /\ jobs[j].turnaroundTime = EndOf(trace[last]) - jobs[j].arrival
                           /\ jobs[j].waitTime = jobs[j].turnaroundTime - jobs[j].length
                           /\ jobs[j].waitTime >= jobs[j].responseTime
    BY DEF AnalysisExact
  <2>1. Shapes /\ Done = Ids /\ jobs[j].waitTime = jobs[j].turnaroundTime - jobs[j].length
    BY DEF IInv, CountInv
  <2>2. History = trace /\ DOMAIN jobs = Ids /\ DOMAIN trace = Slices
    BY <2>1, HistoryFacts DEF IInv, HeldInv, Shapes, Slices
  <2>3. /\ jobs[j].startTime # -1
        /\ jobs[j].turnaroundTime - jobs[j].length >= jobs[j].responseTime
    BY <2>1, <2>2 DEF IInv, GoodInv, Good, LastSlice
  <2>4. PICK last \in Slices :
          /\ trace[last].id = j /\ EndOf(trace[last]) = jobs[j].arrival + jobs[j].turnaroundTime
          /\ \A l \in Slices : trace[l].id = j => l <= last
    BY <2>1, <2>2 DEF IInv, GoodInv, Good, LastSlice
  <2>5. jobs[j].responseTime = jobs[j].startTime - jobs[j].arrival
    BY <2>2, <2>3 DEF IInv, GoodInv, Good, FirstSlice
  <2>6. PICK first \in Slices :
          /\ trace[first].id = j /\ trace[first].t = jobs[j].startTime
          /\ \A l \in Slices : trace[l].id = j => first <= l
    BY <2>2, <2>3 DEF IInv, GoodInv, Good, FirstSlice
  <2>7. jobs[j].turnaroundTime = EndOf(trace[last]) - jobs[j].arrival
    BY <2>1, <2>4, JobFacts
  <2> QED
    BY <2>1, <2>3, <2>4, <2>5, <2>6, <2>7
<1> QED
  BY <1>1, Invariant, PTL

\* SJF (scheduler.c:128-194) never starts a job while a shorter one waits.
THEOREM ShortestFirst == Spec => []ShortestNext
<1>1. IInv => ShortestNext
  BY DEF IInv, ShortestInv, Shorter, ShortestNext
<1> QED
  BY <1>1, Invariant, PTL

-----------------------------------------------------------------------------
(* The time every job has run. *)

LEMMA UnitFacts ==
  ASSUME NEW I, NEW h \in Seq(SliceOf(I)), NEW i, NEW u
  PROVE  u \in Units(h, i) <=>
           u \in Nat /\ \E k \in DOMAIN h : h[k].id = i /\ h[k].t <= u /\ u < EndOf(h[k])
<1>1. \A k \in DOMAIN h : h[k].t \in Nat /\ EndOf(h[k]) \in Nat
  BY SliceFacts
<1>2. \A k \in DOMAIN h :
        u \in h[k].t..(EndOf(h[k]) - 1) <=> u \in Nat /\ h[k].t <= u /\ u < EndOf(h[k])
  BY <1>1
<1>3. u \in Units(h, i) <=> \E k \in DOMAIN h : h[k].id = i /\ u \in h[k].t..(EndOf(h[k]) - 1)
  BY DEF Units
<1> QED
  BY <1>2, <1>3

LEMMA UnitsFinite ==
  ASSUME NEW I, NEW h \in Seq(SliceOf(I)), NEW now \in Nat,
         \A k \in DOMAIN h : EndOf(h[k]) <= now, NEW i
  PROVE  /\ \A u \in Units(h, i) : u \in Nat /\ u < now
         /\ IsFiniteSet(Units(h, i)) /\ Executed(h, i) \in Nat
<1>1. \A k \in DOMAIN h : EndOf(h[k]) \in Nat
  BY SliceFacts
<1>2. \A u \in Units(h, i) : u \in Nat /\ u < now
  BY <1>1, UnitFacts
<1>3. IsFiniteSet(0..now)
  <2>1. 0 \in Int /\ now \in Int
    OBVIOUS
  <2> QED
    BY <2>1, FS_Interval
<1>4. Units(h, i) \subseteq 0..now
  BY <1>2
<1>5. IsFiniteSet(Units(h, i))
  BY <1>3, <1>4, FS_Subset
<1> QED
  BY <1>2, <1>5, FS_CardinalityType DEF Executed

\* The job that runs gets the time, the others none.
LEMMA ExtendedUnits ==
  ASSUME NEW I, NEW h \in Seq(SliceOf(I)), NEW g \in Seq(SliceOf(I)), NEW m, NEW j,
         NEW now \in Nat, NEW then \in Nat, now < then,
         \A k \in DOMAIN h : EndOf(h[k]) <= now, Extended(h, g, m, j, now, then)
  PROVE  /\ Executed(g, j) = Executed(h, j) + (then - now)
         /\ \A i : i # j => Executed(g, i) = Executed(h, i)
<1>1. /\ m \in Nat \ {0} /\ m \in DOMAIN g /\ DOMAIN g = 1..m /\ DOMAIN h \subseteq DOMAIN g
      /\ \A k \in DOMAIN h : k < m => g[k] = h[k]
      /\ \A k \in DOMAIN g : k < m => k \in DOMAIN h /\ g[k] = h[k]
      /\ \A k \in DOMAIN g : k \in Nat /\ k <= m
      /\ g[m].id = j /\ EndOf(g[m]) = then
      /\ \/ m \in DOMAIN h /\ h[m].id = j /\ h[m].t = g[m].t /\ EndOf(h[m]) = now
         \/ m \notin DOMAIN h /\ g[m].t = now
  <2>1. /\ m \in Nat \ {0} /\ DOMAIN g = 1..m /\ DOMAIN h \in {1..m, 1..(m - 1)}
        /\ \A k \in 1..(m - 1) : g[k] = h[k]
        /\ g[m].id = j /\ EndOf(g[m]) = then
        /\ IF DOMAIN h = 1..m THEN h[m].id = j /\ h[m].t = g[m].t /\ EndOf(h[m]) = now
                              ELSE g[m].t = now
    BY DEF Extended
  <2>2. \A k \in 1..m : k < m => k \in 1..(m - 1)
    BY <2>1
  <2>3. m \in 1..m /\ m \notin 1..(m - 1) /\ 1..(m - 1) \subseteq 1..m /\ \A k \in 1..m : k \in Nat /\ k <= m
    BY <2>1
  <2> QED
    BY <2>1, <2>2, <2>3
<1>2. /\ \A k \in DOMAIN h : h[k].t \in Nat /\ EndOf(h[k]) \in Nat /\ h[k].t < EndOf(h[k])
      /\ \A k \in DOMAIN g : g[k].t \in Nat /\ EndOf(g[k]) \in Nat /\ g[k].t < EndOf(g[k])
  BY SliceFacts
<1>3. ASSUME NEW i, i # j PROVE Units(g, i) = Units(h, i)
  <2>1. \A k \in DOMAIN g : g[k].id = i => k \in DOMAIN h /\ g[k] = h[k]
    BY <1>1, <1>3
  <2>2. \A k \in DOMAIN h : h[k].id = i => k \in DOMAIN g /\ g[k] = h[k]
    BY <1>1, <1>3
  <2>3. \A u : u \in Units(g, i) <=> u \in Units(h, i)
    BY <2>1, <2>2, UnitFacts
  <2> QED
    BY <2>3
<1>4. Units(g, j) = Units(h, j) \cup now..(then - 1)
  <2>1. ASSUME NEW u \in Units(g, j) PROVE u \in Units(h, j) \/ u \in now..(then - 1)
    <3>1. PICK k \in DOMAIN g : g[k].id = j /\ g[k].t <= u /\ u < EndOf(g[k])
      BY UnitFacts
    <3>2. u \in Nat
      BY UnitFacts
    <3>3. CASE k < m
      BY <1>1, <3>1, <3>2, <3>3, UnitFacts
    <3>4. CASE k = m /\ u >= now
      BY <1>1, <3>1, <3>2, <3>4
    <3>5. CASE k = m /\ u < now
      <4>1. m \in DOMAIN h /\ h[m].id = j /\ h[m].t <= u /\ u < EndOf(h[m])
        BY <1>1, <3>1, <3>2, <3>5
      <4> QED
        BY <3>2, <4>1, UnitFacts
    <3> QED
      BY <1>1, <3>2, <3>3, <3>4, <3>5
  <2>2. ASSUME NEW u \in now..(then - 1) PROVE u \in Units(g, j)
    <3>1. g[m].t <= now
      BY <1>1, <1>2
    <3>2. u \in Nat /\ g[m].t <= u /\ u < EndOf(g[m])
      BY <1>1, <1>2, <3>1
    <3> QED
      BY <1>1, <3>2, UnitFacts
  <2>3. ASSUME NEW u \in Units(h, j) PROVE u \in Units(g, j)
    <3>1. PICK k \in DOMAIN h : h[k].id = j /\ h[k].t <= u /\ u < EndOf(h[k])
      BY UnitFacts
    <3>2. u \in Nat
      BY UnitFacts
    <3>3. CASE k < m
      BY <1>1, <3>1, <3>2, <3>3, UnitFacts
    <3>4. CASE k = m
      <4>1. g[m].id = j /\ g[m].t <= u /\ u < EndOf(g[m])
        BY <1>1, <1>2, <3>1, <3>2, <3>4
      <4> QED
        BY <1>1, <3>2, <4>1, UnitFacts
    <3> QED
      BY <1>1, <3>3, <3>4
  <2> QED
    BY <2>1, <2>2, <2>3
<1>5. IsFiniteSet(now..(then - 1)) /\ Cardinality(now..(then - 1)) = then - now
  <2>1. now \in Int /\ then - 1 \in Int /\ (then - 1) - now + 1 = then - now /\ ~(now > then - 1)
    OBVIOUS
  <2> QED
    BY <2>1, FS_Interval
<1>6. Units(h, j) \cap (now..(then - 1)) = {}
  BY UnitsFinite
<1>7. IsFiniteSet(Units(h, j)) /\ Cardinality(Units(h, j)) \in Nat
  BY UnitsFinite DEF Executed
<1>8. Cardinality(Units(g, j)) = Cardinality(Units(h, j)) + (then - now)
  <2>1. Cardinality(Units(g, j)) =
          Cardinality(Units(h, j)) + Cardinality(now..(then - 1)) - Cardinality({})
    BY <1>4, <1>5, <1>6, <1>7, FS_Union
  <2>2. Cardinality({}) = 0
    BY FS_EmptySet
  <2> QED
    BY <1>5, <1>7, <2>1, <2>2
<1> QED
  BY <1>3, <1>8 DEF Executed

\* How long a job has run: FIFO and SJF run a job as a whole, the others count.
Spent(j) ==
  IF pname \in {"FIFO", "SJF"} THEN IF j \in Done THEN jobs[j].length ELSE 0
  ELSE jobs[j].length - jobs[j].time_left
SumInv == \A j \in Ids : Executed(History, j) = Spent(j)
\* LT lets a job run past its end.
NoneLeft == pname \in {"STCF", "RR"} => \A j \in Done : jobs[j].time_left = 0

LEMMA StepKinds ==
  ASSUME IInv, [Next]_vars
  PROVE  \/ Quiet
         \/ \E j, then : Ran(j, then)
         \/ \E arrival \in Nat, length \in Nat \ {0} : ReadJob(arrival, length)
<1>1. ASSUME NEW arrival \in 0..MAX_ARRIVAL, NEW length \in 1..MAX_LENGTH, ReadJob(arrival, length)
      PROVE  \E x \in Nat, y \in Nat \ {0} : ReadJob(x, y)
  <2>1. arrival \in Nat /\ length \in Nat \ {0}
    BY BoundsAssumption
  <2> QED
    BY <1>1, <2>1
<1>2. CASE EmptyFile
  BY <1>2, SameState DEF EmptyFile, args, table, loop, running
<1>3. CASE UNCHANGED vars
  BY <1>3, SameState DEF vars, args, table, loop, running
<1>4. CASE StartPolicy \/ EndPolicy \/ Idle \/ LtJump \/ RrSkip \/ RrPass
  BY <1>4, StartPolicyInv, EndPolicyInv, IdleInv, RrMoveInv
<1>5. CASE FifoRun \/ SjfRun \/ StcfRun \/ RrRun
  BY <1>5, FifoRunInv, SjfRunInv, StcfRunInv, RrRunInv
<1>6. ASSUME NEW ticket \in 0..(MAX_JOBS * (MAX_JOBS + 1) * TICKETS), LtRun(ticket)
      PROVE  \E j, then : Ran(j, then)
  BY <1>6, LtRunInv
<1> QED
  BY <1>1, <1>2, <1>3, <1>4, <1>5, <1>6 DEF Next, Exited

LEMMA GoodHistory ==
  ASSUME IInv
  PROVE  /\ History \in Seq(SliceOf(Ids)) /\ time \in Nat
         /\ \A k \in DOMAIN History : EndOf(History[k]) <= time
         /\ \A j \in Ids : Executed(History, j) \in Nat
<1>1. /\ History \in Seq(SliceOf(Ids)) /\ time \in Nat
      /\ \A k \in DOMAIN History : EndOf(History[k]) <= time
  BY HistoryFacts DEF IInv, Shapes, GoodInv, Good, InOrder
<1> QED
  BY <1>1, UnitsFinite

LEMMA NothingExecuted ==
  ASSUME NEW j PROVE Executed(<<>>, j) = 0
<1>1. Units(<<>>, j) = {}
  BY DEF Units
<1> QED
  BY <1>1, FS_EmptySet DEF Executed

LEMMA SumStep ==
  ASSUME IInv, IInv', SumInv, NoneLeft, [Next]_vars
  PROVE  SumInv' /\ NoneLeft'
<1>1. CASE Quiet
  <2>1. /\ Ids' = Ids /\ Done' = Done /\ History' = History /\ pname' = pname /\ Done \subseteq Ids
        /\ \A k \in Ids : jobs'[k].length = jobs[k].length /\ jobs'[k].time_left = jobs[k].time_left
    BY <1>1, DoneFacts DEF Quiet, IInv
  <2>2. \A k \in Ids : Spent(k)' = Spent(k)
    BY <2>1 DEF Spent
  <2>3. \A k \in Ids : Executed(History', k) = Executed(History, k)
    BY <2>1
  <2> QED
    BY <2>1, <2>2, <2>3 DEF SumInv, NoneLeft
<1>2. ASSUME NEW j, NEW then, Ran(j, then) PROVE SumInv' /\ NoneLeft'
  <2>1. /\ j \in Ids \ Done /\ then \in Nat /\ time < then
        /\ Ids' = Ids /\ pname' = pname /\ Done' \in {Done, Done \cup {j}}
        /\ \A k \in Ids : /\ jobs'[k].length = jobs[k].length
                          /\ k # j => jobs'[k].time_left = jobs[k].time_left
        /\ IF pname \in {"FIFO", "SJF"} THEN j \in Done' /\ then - time = jobs[j].length
           ELSE /\ jobs'[j].time_left = jobs[j].time_left - (then - time)
                /\ pname # "LT" /\ j \in Done' => jobs'[j].time_left = 0
    BY <1>2 DEF Ran
  <2>2. PICK m : Extended(History, History', m, j, time, then)
    BY <1>2 DEF Ran
  <2>3. PICK g : g = History'
    OBVIOUS
  <2>4. g \in Seq(SliceOf(Ids))
    BY <1>2, <2>3 DEF Ran
  <2>5. /\ Executed(g, j) = Executed(History, j) + (then - time)
        /\ \A i : i # j => Executed(g, i) = Executed(History, i)
    <3>1. Extended(History, g, m, j, time, then)
      BY <2>2, <2>3
    <3> QED
      BY <2>1, <2>4, <3>1, GoodHistory, ExtendedUnits
  <2>6. /\ jobs[j].length \in Nat /\ jobs[j].time_left \in Int /\ time \in Nat
        /\ jobs'[j].length = jobs[j].length
    BY <2>1, JobFacts DEF IInv, Shapes
  <2>7. Spent(j)' = Spent(j) + (then - time)
    <3>1. CASE pname \in {"FIFO", "SJF"}
      <4>1. Spent(j) = 0 /\ Spent(j)' = jobs[j].length
        BY <2>1, <2>6, <3>1 DEF Spent
      <4> QED
        BY <2>1, <2>6, <3>1, <4>1
    <3>2. CASE pname \notin {"FIFO", "SJF"}
      <4>1. /\ Spent(j) = jobs[j].length - jobs[j].time_left
            /\ Spent(j)' = jobs[j].length - (jobs[j].time_left - (then - time))
        BY <2>1, <2>6, <3>2 DEF Spent
      <4> QED
        BY <2>1, <2>6, <4>1
    <3> QED
      BY <3>1, <3>2
  <2>8. \A i \in Ids : i # j => Spent(i)' = Spent(i)
    BY <2>1 DEF Spent
  <2>9. SumInv'
    BY <2>1, <2>3, <2>5, <2>7, <2>8 DEF SumInv
  <2>10. NoneLeft'
    <3>1. Done \subseteq Ids
      BY DoneFacts DEF IInv
    <3> QED
      BY <2>1, <3>1 DEF NoneLeft
  <2> QED
    BY <2>9, <2>10
<1>3. ASSUME NEW arrival \in Nat, NEW length \in Nat \ {0}, ReadJob(arrival, length)
      PROVE  SumInv' /\ NoneLeft'
  <2>1. pc' = "read"
    BY <1>3 DEF ReadJob
  <2>2. /\ Shapes' /\ time' = 0 /\ temp' = 0 /\ current_job' = NULL /\ trace' = <<>>
        /\ \A j \in Ids' : ~jobs'[j].is_completed /\ jobs'[j].time_left = jobs'[j].length
    BY <2>1 DEF IInv, ReadInv
  <2>3. History' = <<>>
    BY <2>2 DEF History, Held
  <2>4. Done' = {}
    BY <2>2 DEF Done
  <2>5. \A j \in Ids' : jobs'[j].length \in Nat
    <3>1. \A j \in Ids' : jobs'[j] \in JobType
      BY <2>2 DEF Shapes
    <3> QED
      BY <3>1 DEF JobType
  <2>6. \A j \in Ids' : Spent(j)' = 0
    BY <2>2, <2>4, <2>5 DEF Spent
  <2> QED
    BY <2>3, <2>4, <2>6, NothingExecuted DEF SumInv, NoneLeft
<1> QED
  BY <1>1, <1>2, <1>3, StepKinds

\* The time every job has run is accounted for, in every state.
LEMMA SumInvariant == Spec => [](IInv /\ SumInv /\ NoneLeft)
<1>1. Init => IInv /\ SumInv /\ NoneLeft
  <2> SUFFICES ASSUME Init PROVE IInv /\ SumInv /\ NoneLeft
    OBVIOUS
  <2>1. Ids = {} /\ Done = {}
    BY DEF Init, Ids, Done
  <2> QED
    BY <2>1, InitInv DEF SumInv, NoneLeft
<1>2. IInv /\ SumInv /\ NoneLeft /\ [Next]_vars => (IInv /\ SumInv /\ NoneLeft)'
  BY NextInv, SumStep
<1> QED
  BY <1>1, <1>2, PTL DEF Spec

\* The slices printed, and the one STCF still holds back, are all the time every
\* job has run: the accounts of the policies (scheduler.c:128-426) and the trace agree.
THEOREM TraceIsExact == Spec => []TraceExact
<1>1. IInv /\ SumInv /\ NoneLeft /\ SlicesInOrder => TraceExact
  <2> SUFFICES ASSUME IInv, SumInv, NoneLeft, SlicesInOrder PROVE TraceExact
    OBVIOUS
  <2>1. ASSUME NEW j \in Ids, pname \in {"STCF", "RR", "LT"}
        PROVE  Executed(History, j) = jobs[j].length - jobs[j].time_left
    BY <2>1 DEF SumInv, Spent
  <2>2. ASSUME NEW j \in Ids, pc = "done", pname # "LT"
        PROVE  Executed(trace, j) = jobs[j].length
    <3>1. Shapes /\ Done = Ids /\ jobs[j].length \in Nat
      BY <2>2, JobFacts DEF IInv, CountInv
    <3>2. History = trace
      BY <3>1, HistoryFacts DEF IInv, HeldInv, Shapes
    <3>3. pname \in {"FIFO", "SJF"} \/ pname \in {"STCF", "RR"}
      BY <2>2, <3>1 DEF Shapes
    <3>4. pname \in {"STCF", "RR"} => jobs[j].time_left = 0
      BY <3>1 DEF NoneLeft
    <3>5. Spent(j) = jobs[j].length
      BY <3>1, <3>3, <3>4 DEF Spent
    <3> QED
      BY <3>2, <3>5 DEF SumInv
  <2> QED
    BY <2>1, <2>2 DEF TraceExact
<1> QED
  BY <1>1, SumInvariant, OneAtATime, PTL

-----------------------------------------------------------------------------
(* RR: the cursor, and who is ahead of it. *)

\* The cursor, behind job j, meets job k before it is at j again.
Ahead(cursor, j, k) ==
  IF j < k THEN j < cursor /\ cursor <= k ELSE j < cursor \/ cursor <= k

\* A job that had arrived by the end of a slice, is not done and has not run since
\* is ahead of the cursor.
AheadInv ==
  pname = "RR" =>
    \A a \in Slices, k \in Ids \ Done :
      /\ k # trace[a].id /\ jobs[k].arrival <= EndOf(trace[a])
      /\ \A c \in Slices : a < c => trace[c].id # k
      => Ahead(temp, trace[a].id, k)

LEMMA RrTurn ==
  ASSUME IInv, RrRun, NEW n, n = Len(trace)
  PROVE  /\ pname = "RR" /\ pname' = "RR" /\ Ids' = Ids /\ temp' = temp + 1
         /\ temp \in Ready /\ temp \in Ids \ Done /\ Done' \in {Done, Done \cup {temp}}
         /\ jobs[temp].length <= slice => temp \in Done'
         /\ \A k \in Ids : jobs'[k].arrival = jobs[k].arrival /\ jobs'[k].length = jobs[k].length
         /\ n \in Nat /\ Slices = 1..n /\ Slices' = 1..(n + 1)
         /\ \A a \in Slices : trace'[a] = trace[a] /\ trace[a].id \in Ids
                              /\ SubSeq(trace', 1, a) = SubSeq(trace, 1, a)
         /\ trace'[n + 1].id = temp /\ trace'[n + 1].t = time /\ EndOf(trace'[n + 1]) = time'
<1>1. PICK runtime : runtime = IF slice < jobs[temp].time_left THEN slice ELSE jobs[temp].time_left
  OBVIOUS
<1>2. PICK e : e = Slice(time, temp, runtime)
  OBVIOUS
<1>3. /\ pname = "RR" /\ UNCHANGED <<pname, slice, numofjobs>> /\ temp \in Ready
      /\ temp' = temp + 1 /\ time' = time + runtime /\ trace' = trace \o <<e>>
  BY <1>1, <1>2 DEF RrRun, Turn, Eligible, RrAfter, Printf, args
<1>4. temp \in Ids /\ temp \notin Done /\ jobs[temp].time_left \in Nat \ {0}
  BY <1>3, ReadyFacts
<1>5. Shapes /\ JobsInv /\ time \in Nat /\ slice \in Nat \ {0} /\ jobs[temp].length \in Nat
  BY <1>4, JobFacts DEF IInv, Shapes
<1>6. runtime \in Nat \ {0}
  BY <1>1, <1>4, <1>5
<1>7. e \in SliceOf(Ids) /\ e.id = temp /\ e.t = time /\ EndOf(e) = time + runtime
  BY <1>2, <1>4, <1>5, <1>6 DEF Slice, SliceOf, EndOf
<1>8. /\ n \in Nat /\ Slices = 1..n /\ Slices' = 1..(n + 1) /\ trace'[n + 1] = e
      /\ \A a \in Slices : trace'[a] = trace[a] /\ trace[a].id \in Ids
                           /\ SubSeq(trace', 1, a) = SubSeq(trace, 1, a)
  BY <1>3, <1>5, <1>7, TraceGrows
<1>9. /\ Ids' = Ids /\ Done' \in {Done, Done \cup {temp}}
      /\ \A k \in Ids : jobs'[k].arrival = jobs[k].arrival /\ jobs'[k].length = jobs[k].length
      /\ jobs'[temp].time_left = jobs[temp].time_left - (time' - time)
  BY <1>3, RrRunInv DEF Ran
<1>10. ASSUME jobs[temp].length <= slice PROVE temp \in Done'
  <2>1. jobs[temp].time_left <= jobs[temp].length
    BY <1>4, <1>5 DEF JobsInv
  <2>2. time' - time = jobs[temp].time_left
    BY <1>1, <1>3, <1>4, <1>5, <1>10, <2>1
  <2>3. jobs'[temp].time_left = 0
    BY <1>4, <1>9, <2>2
  <2>4. WorkLeft(jobs', Done', time')
    BY RrRunInv DEF IInv, GoodInv, Good
  <2>5. DOMAIN jobs' = Ids
    BY <1>9, RrRunInv DEF IInv, Shapes
  <2> QED
    BY <1>4, <2>3, <2>4, <2>5 DEF WorkLeft
<1> QED
  BY <1>3, <1>4, <1>7, <1>8, <1>9, <1>10

\* Before job temp runs or is passed by, whoever waits is still ahead.
LEMMA AheadMoves ==
  ASSUME NEW i \in Nat, NEW j \in Nat, NEW k \in Nat, j # k, k # i, Ahead(i, j, k)
  PROVE  Ahead(i + 1, j, k) /\ j # i
<1>1. CASE j < k
  BY <1>1 DEF Ahead
<1>2. CASE ~(j < k)
  BY <1>2 DEF Ahead
<1> QED
  BY <1>1, <1>2

LEMMA NoSliceLeftOut ==
  ASSUME IInv, pname = "RR", NEW a \in Slices
  PROVE  EndOf(trace[a]) <= time /\ EndOf(trace[a]) \in Nat /\ trace[a].id \in Ids /\ a \in Nat
<1>1. History = trace /\ trace \in Seq(SliceOf(Ids))
  BY HistoryFacts DEF IInv, Shapes
<1>2. a \in DOMAIN trace /\ a \in Nat
  BY <1>1 DEF Slices
<1>3. EndOf(trace[a]) \in Nat /\ trace[a].id \in Ids
  BY <1>1, <1>2, SliceFacts
<1> QED
  BY <1>1, <1>2, <1>3, GoodHistory

LEMMA RrKinds ==
  ASSUME IInv, [Next]_vars, pname' = "RR"
  PROVE  \/ RrRun
         \/ RrSkip \/ RrPass
         \/ Quiet /\ UNCHANGED <<trace, temp, time, numofjobs>>
         \/ pc' = "read" /\ trace' = <<>>
<1>1. CASE \E arrival \in 0..MAX_ARRIVAL, length \in 1..MAX_LENGTH : ReadJob(arrival, length)
  <2>1. pc = "read" /\ pc' = "read" /\ trace' = trace
    BY <1>1 DEF ReadJob
  <2> QED
    BY <2>1 DEF IInv, ReadInv
<1>2. CASE EmptyFile \/ StartPolicy \/ EndPolicy \/ Exited \/ UNCHANGED vars
  <2>1. UNCHANGED <<pname, trace, temp, numofjobs>>
    BY <1>2 DEF EmptyFile, StartPolicy, EndPolicy, Exited, args, table, loop, vars
  <2>3. time' = time
    <3>1. CASE StartPolicy
      BY <2>1, <3>1 DEF StartPolicy, IInv, ReadInv
    <3>2. CASE ~StartPolicy
      BY <1>2, <3>2 DEF EmptyFile, EndPolicy, Exited, vars
    <3> QED
      BY <3>1, <3>2
  <2>2. Quiet
    <3>1. CASE EmptyFile
      BY <3>1, SameState DEF EmptyFile, args, table, loop, running
    <3>2. CASE Exited \/ UNCHANGED vars
      BY <3>2, SameState DEF Exited, vars, args, table, loop, running
    <3> QED
      BY <1>2, <3>1, <3>2, StartPolicyInv, EndPolicyInv
  <2> QED
    BY <2>1, <2>2, <2>3
<1>3. CASE Idle \/ FifoRun \/ SjfRun \/ StcfRun \/ LtJump
  BY <1>3 DEF Idle, FifoRun, SjfRun, StcfRun, LtJump, Turn, args
<1>4. CASE \E ticket \in 0..(MAX_JOBS * (MAX_JOBS + 1) * TICKETS) : LtRun(ticket)
  BY <1>4 DEF LtRun, Turn, args
<1> QED
  BY <1>1, <1>2, <1>3, <1>4 DEF Next

LEMMA AheadStep == ASSUME IInv, AheadInv, [Next]_vars PROVE AheadInv'
<1> SUFFICES ASSUME pname' = "RR"
             PROVE  AheadInv'
  BY DEF AheadInv
<1>0. Shapes /\ Ids \subseteq Nat /\ temp \in Nat /\ numofjobs \in Nat /\ Ids = 0..(numofjobs - 1)
  BY DEF IInv, Shapes, Ids
<1>1. CASE RrRun
  <2> DEFINE n == Len(trace)
  <2>1. /\ pname = "RR" /\ Ids' = Ids /\ temp' = temp + 1 /\ temp \in Ids
        /\ Done' \in {Done, Done \cup {temp}}
        /\ \A k \in Ids : jobs'[k].arrival = jobs[k].arrival
        /\ n \in Nat /\ Slices = 1..n /\ Slices' = 1..(n + 1)
        /\ \A a \in Slices : trace'[a] = trace[a] /\ trace[a].id \in Ids
        /\ trace'[n + 1].id = temp
    BY <1>1, RrTurn
  <2> SUFFICES ASSUME NEW a \in Slices', NEW k \in Ids \ Done', k # trace'[a].id,
                      jobs[k].arrival <= EndOf(trace'[a]),
                      \A c \in Slices' : a < c => trace'[c].id # k
               PROVE  Ahead(temp', trace'[a].id, k)
    BY <2>1 DEF AheadInv
  <2>2. CASE a \in Slices
    <3>1. /\ trace'[a] = trace[a] /\ k \in Ids \ Done /\ n + 1 \in Slices' /\ a < n + 1
          /\ \A c \in Slices : a < c => trace[c].id # k
      BY <2>1, <2>2
    <3>2. k # temp
      BY <2>1, <3>1
    <3>3. Ahead(temp, trace[a].id, k)
      BY <2>1, <2>2, <3>1 DEF AheadInv
    <3>4. PICK j \in Ids : j = trace[a].id
      BY <2>1, <2>2
    <3>5. j # k /\ j \in Nat /\ k \in Nat /\ Ahead(temp, j, k)
      BY <1>0, <3>1, <3>3, <3>4
    <3>6. Ahead(temp', j, k)
      BY <1>0, <2>1, <3>2, <3>5, AheadMoves
    <3>7. trace'[a].id = j
      BY <3>1, <3>4
    <3> QED
      BY ONLY <3>6, <3>7
  <2>3. CASE a \notin Slices
    <3>2. a = n + 1
      BY <2>1, <2>3
    <3>1. a = n + 1 /\ trace'[a].id = temp /\ k \in Nat /\ k # temp
      <4>1. trace'[a].id = temp
        BY ONLY <2>1, <3>2, Zenon
      <4>2. k \in Nat
        BY <1>0, <2>1
      <4> QED
        BY <3>2, <4>1, <4>2
    <3> QED
      BY <1>0, <2>1, <3>1 DEF Ahead
  <2> QED
    BY <2>2, <2>3
<1>2. CASE RrSkip \/ RrPass
  <2>1. /\ pname = "RR" /\ Ids' = Ids /\ Done' = Done /\ trace' = trace /\ Slices' = Slices
        /\ jobs' = jobs
    BY <1>2, RrMoveInv DEF RrSkip, RrPass, Turn, table, Quiet, Slices
  <2> SUFFICES ASSUME NEW a \in Slices, NEW k \in Ids \ Done, k # trace[a].id,
                      jobs[k].arrival <= EndOf(trace[a]),
                      \A c \in Slices : a < c => trace[c].id # k
               PROVE  Ahead(temp', trace[a].id, k)
    BY <2>1 DEF AheadInv
  <2>2. Ahead(temp, trace[a].id, k)
    BY <2>1 DEF AheadInv
  <2>3. trace[a].id \in Nat /\ k \in Nat
    BY <1>0, <2>1, NoSliceLeftOut
  <2>4. k \in Ready
    <3>1. /\ EndOf(trace[a]) <= time /\ EndOf(trace[a]) \in Nat /\ time \in Nat
          /\ jobs[k].arrival \in Nat
      BY <1>0, <2>1, NoSliceLeftOut, JobFacts DEF Shapes
    <3>2. jobs[k].arrival <= time
      BY <3>1
    <3> QED
      BY <1>0, <2>1, <3>2, DoneFacts
  <2>5. CASE RrSkip
    <3>1. temp' = temp + 1 /\ ~Eligible(temp)
      BY <2>5 DEF RrSkip
    <3>2. k # temp
      <4>1. jobs[k].time_left > 0
        BY <2>1, <2>4, ReadyFacts
      <4> QED
        BY <2>4, <3>1, <4>1 DEF Eligible
    <3>3. PICK j \in Nat : j = trace[a].id
      BY <2>3
    <3>4. Ahead(temp', j, k)
      BY <1>0, <2>2, <2>3, <3>1, <3>2, <3>3, AheadMoves
    <3> QED
      BY <2>1, <3>3, <3>4 DEF Ahead
  <2>6. CASE RrPass
    <3>1. temp = numofjobs /\ temp' = 0
      BY <2>6 DEF RrPass
    <3>2. ~(trace[a].id < k)
      BY <1>0, <2>2, <2>3, <3>1 DEF Ahead
    <3> QED
      BY <2>1, <2>3, <3>1, <3>2 DEF Ahead
  <2> QED
    BY <1>2, <2>5, <2>6
<1>3. CASE trace' = <<>>
  BY <1>3 DEF AheadInv, Slices
<1>4. CASE Quiet /\ UNCHANGED <<trace, temp>>
  BY <1>4 DEF Quiet, AheadInv, Slices
<1> QED
  BY <1>1, <1>2, <1>3, <1>4, RrKinds

\* What a job has run is what it had run by slice a, if it has no later one.
LEMMA NoLaterSlice ==
  ASSUME Shapes, NEW a \in Slices, NEW k, \A c \in Slices : a < c => trace[c].id # k
  PROVE  Executed(SubSeq(trace, 1, a), k) = Executed(trace, k)
<1>1. PICK s : s = SubSeq(trace, 1, a)
  OBVIOUS
<1>2. trace \in Seq(SliceOf(Ids)) /\ DOMAIN trace = Slices /\ Slices = 1..Len(trace) /\ Len(trace) \in Nat
  BY DEF Shapes, Slices
<1>3. s = [i \in 1..a |-> trace[i]]
  BY <1>1, <1>2, SubSeqRestrict
<1>4. /\ DOMAIN s = 1..a /\ DOMAIN s \subseteq DOMAIN trace /\ \A i \in DOMAIN s : s[i] = trace[i]
      /\ \A i \in DOMAIN trace : i \notin DOMAIN s => a < i
  BY <1>2, <1>3
<1>5. Units(s, k) = Units(trace, k)
  <2>1. \A i \in DOMAIN trace : trace[i].id = k => i \in DOMAIN s
    BY <1>2, <1>4
  <2>2. ASSUME NEW u
        PROVE  (\E i \in DOMAIN s : s[i].id = k /\ u \in s[i].t..(EndOf(s[i]) - 1)) <=>
               (\E i \in DOMAIN trace : trace[i].id = k /\ u \in trace[i].t..(EndOf(trace[i]) - 1))
    BY <1>4, <2>1
  <2>3. ASSUME NEW h, NEW u
        PROVE  u \in Units(h, k) <=> \E i \in DOMAIN h : h[i].id = k /\ u \in h[i].t..(EndOf(h[i]) - 1)
    BY DEF Units
  <2>4. \A u : u \in Units(s, k) <=> u \in Units(trace, k)
    BY <2>2, <2>3
  <2> QED
    BY <2>4
<1> QED
  BY <1>1, <1>5 DEF Executed

LEMMA OvertakingStep ==
  ASSUME IInv, SumInv, NoneLeft, AheadInv, NoOvertaking, [Next]_vars
  PROVE  NoOvertaking'
<1> SUFFICES ASSUME pname' = "RR" PROVE NoOvertaking'
  BY DEF NoOvertaking
<1>1. CASE RrRun
  <2> DEFINE n == Len(trace)
  <2>1. /\ pname = "RR" /\ Ids' = Ids /\ temp \in Ids
        /\ \A k \in Ids : jobs'[k].arrival = jobs[k].arrival /\ jobs'[k].length = jobs[k].length
        /\ n \in Nat /\ Slices = 1..n /\ Slices' = 1..(n + 1)
        /\ \A a \in Slices : trace'[a] = trace[a] /\ trace[a].id \in Ids
                             /\ SubSeq(trace', 1, a) = SubSeq(trace, 1, a)
        /\ trace'[n + 1].id = temp
    BY <1>1, RrTurn
  <2> HIDE DEF n
  <2>2. SUFFICES ASSUME NEW a \in Slices', NEW b \in Slices', NEW k \in Ids,
                        a < b, trace'[a].id = trace'[b].id, k # trace'[a].id,
                        jobs[k].arrival <= EndOf(trace'[a]),
                        Executed(SubSeq(trace', 1, a), k) < jobs[k].length,
                        \A c \in (a + 1)..(b - 1) : trace'[c].id # k
                 PROVE  FALSE
    BY <2>1 DEF NoOvertaking
  <2>3. a \in Slices /\ trace'[a] = trace[a] /\ SubSeq(trace', 1, a) = SubSeq(trace, 1, a)
    BY <2>1, <2>2
  <2>4. CASE b \in Slices
    <3>1. \A c \in (a + 1)..(b - 1) : c \in Slices /\ trace[c].id # k
      BY <2>1, <2>2, <2>4
    <3>2. trace'[b] = trace[b]
      BY <2>1, <2>4
    <3>3. /\ a < b /\ trace[a].id = trace[b].id /\ k # trace[a].id
          /\ jobs[k].arrival <= EndOf(trace[a])
          /\ Executed(SubSeq(trace, 1, a), k) < jobs[k].length
      BY <2>2, <2>3, <3>2
    <3>4. \E c \in (a + 1)..(b - 1) : trace[c].id = k
      BY <2>1, <2>3, <2>4, <3>3 DEF NoOvertaking
    <3> QED
      BY <3>1, <3>4
  <2>5. CASE b \notin Slices
    <3>1. b = n + 1 /\ trace[a].id = temp /\ k # temp
      BY <2>1, <2>2, <2>3, <2>5
    <3>2. \A c \in Slices : a < c => trace[c].id # k
      <4>1. ASSUME NEW c \in Slices, a < c PROVE c \in (a + 1)..(b - 1)
        BY <2>1, <2>3, <3>1, <4>1
      <4> QED
        BY <2>1, <2>2, <4>1
    <3>3. Shapes /\ History = trace
      BY <2>1, HistoryFacts DEF IInv
    <3>4. Executed(trace, k) < jobs[k].length
      BY <2>2, <2>3, <3>2, <3>3, NoLaterSlice
    <3>5. k \notin Done
      <4>1. jobs[k].length \in Nat
        BY <3>3, JobFacts
      <4>2. Executed(trace, k) = jobs[k].length - jobs[k].time_left
        BY <2>1, <3>3 DEF SumInv, Spent
      <4> QED
        BY <2>1, <3>4, <4>1, <4>2 DEF NoneLeft
    <3>6. Ahead(temp, temp, k)
      BY <2>1, <2>2, <2>3, <3>1, <3>2, <3>5 DEF AheadInv
    <3>7. temp \in Nat /\ k \in Nat
      BY <2>1, <3>3 DEF Shapes, Ids
    <3> QED
      BY <3>1, <3>6, <3>7 DEF Ahead
  <2> QED
    BY <2>4, <2>5
<1>2. CASE trace' = <<>>
  BY <1>2 DEF NoOvertaking, Slices
<1>3. CASE Quiet /\ trace' = trace
  BY <1>3 DEF Quiet, NoOvertaking, Slices
<1>4. CASE RrSkip \/ RrPass
  BY <1>3, <1>4, RrMoveInv DEF RrSkip, RrPass
<1> QED
  BY <1>1, <1>2, <1>3, <1>4, RrKinds

\* RR (scheduler.c:282-326) is a round robin although jobs arrive in the middle of a
\* pass: no job has two slices while another that is ready has none.
THEOREM RoundRobin == Spec => []NoOvertaking
<1> DEFINE Inv == IInv /\ SumInv /\ NoneLeft /\ AheadInv /\ NoOvertaking
<1>1. Init => AheadInv /\ NoOvertaking
  BY DEF Init, AheadInv, NoOvertaking, Slices
<1>2. IInv /\ SumInv /\ NoneLeft /\ AheadInv /\ NoOvertaking /\ [Next]_vars
        => AheadInv' /\ NoOvertaking'
  BY AheadStep, OvertakingStep
<1> QED
  BY <1>1, <1>2, SumInvariant, PTL DEF Spec

-----------------------------------------------------------------------------
(* RR with a long slice. *)

LEMMA ArgsFixed == ASSUME [Next]_vars PROVE UNCHANGED <<pname, slice>>
<1>1. UNCHANGED args
  BY DEF Next, Exited, vars, ReadJob, EmptyFile, StartPolicy, EndPolicy, Idle, FifoRun, SjfRun,
         StcfRun, RrRun, RrSkip, RrPass, LtJump, LtRun
<1> QED
  BY <1>1 DEF args

\* Slice k of the trace is the one FIFO prints.
FifoSlice(k) ==
  /\ trace[k].id = k - 1
  /\ trace[k].t = IF k = 1 \/ EndOf(trace[k - 1]) < jobs[k - 1].arrival
                  THEN jobs[k - 1].arrival ELSE EndOf(trace[k - 1])

\* The jobs done are the first ones; the next one has not arrived, or it is where
\* the slice before it ended, and if the cursor is past it, it came too late.
NextInLine ==
  LET n == Len(trace)
  IN /\ Done = 0..(n - 1)
     /\ \A k \in Slices : FifoSlice(k)
     /\ n < numofjobs => /\ n < temp => time < jobs[n].arrival
                         /\ time <= jobs[n].arrival \/ (n > 0 /\ time = EndOf(trace[n]))
NoneLonger == \A j \in Ids : jobs[j].length <= slice
LineInv == pname = "RR" /\ NoneLonger => NextInLine

LEMMA LineStep == ASSUME IInv, IInv', LineInv, [Next]_vars PROVE LineInv'
<1> SUFFICES ASSUME pname' = "RR", NoneLonger' PROVE NextInLine'
  BY DEF LineInv
<1>0. /\ Shapes /\ numofjobs \in Nat /\ temp \in 0..numofjobs /\ time \in Nat
      /\ Ids = 0..(numofjobs - 1) /\ trace \in Seq(SliceOf(Ids)) /\ Len(trace) \in Nat
      /\ Slices = 1..Len(trace) /\ pname = "RR" /\ slice' = slice
  BY ArgsFixed DEF IInv, Shapes, Ids, Slices
<1>5. PICK n \in Nat : n = Len(trace)
  BY <1>0
<1>1. CASE RrRun
  <2>1. /\ Ids' = Ids /\ temp' = temp + 1 /\ numofjobs' = numofjobs
        /\ temp \in Ready /\ temp \in Ids \ Done /\ Done' \in {Done, Done \cup {temp}}
        /\ jobs[temp].length <= slice => temp \in Done'
        /\ \A k \in Ids : jobs'[k].arrival = jobs[k].arrival /\ jobs'[k].length = jobs[k].length
        /\ Slices' = 1..(n + 1)
        /\ \A a \in Slices : trace'[a] = trace[a]
        /\ trace'[n + 1].id = temp /\ trace'[n + 1].t = time /\ EndOf(trace'[n + 1]) = time'
    BY <1>1, <1>5, RrTurn DEF RrRun
  <2>2. NoneLonger
    BY <1>0, <1>5, <2>1 DEF NoneLonger
  <2>3. NextInLine
    BY <1>0, <1>5, <2>2 DEF LineInv
  <2>4. temp = n /\ n \in Ids /\ jobs[n].arrival <= time
    <3>1. Done = 0..(n - 1) /\ (n < numofjobs /\ n < temp => time < jobs[n].arrival)
      BY <1>5, <2>3 DEF NextInLine
    <3>2. jobs[temp].arrival <= time /\ temp \in Nat /\ temp < numofjobs /\ ~(temp < n)
      BY <1>0, <1>5, <2>1, <3>1 DEF Ready
    <3>3. ~(n < temp)
      <4>1. SUFFICES ASSUME n < temp PROVE FALSE
        OBVIOUS
      <4>2. n \in Ids /\ jobs[n].arrival <= jobs[temp].arrival /\ time < jobs[n].arrival
        BY <1>0, <1>5, <2>1, <3>1, <3>2, <4>1 DEF IInv, JobsInv
      <4>3. jobs[n].arrival \in Nat /\ jobs[temp].arrival \in Nat
        BY <1>0, <1>5, <2>1, <4>2, JobFacts
      <4> QED
        BY <1>0, <1>5, <3>2, <4>2, <4>3
    <3> QED
      BY <1>0, <1>5, <2>1, <3>2, <3>3
  <2>5. Len(trace') = n + 1
    BY <1>0, <1>5, <2>1, <1>1, RrRunInv DEF IInv, Shapes, Slices
  <2>6. Done' = 0..n
    <3>1. temp \in Done'
      BY <2>1, <2>2 DEF NoneLonger
    <3>2. Done' = Done \cup {n}
      BY <2>1, <2>4, <3>1
    <3> QED
      BY <1>0, <1>5, <2>3, <3>2 DEF NextInLine
  <2>7. ASSUME NEW k \in Slices PROVE FifoSlice(k)'
    <3>1. FifoSlice(k) /\ k \in 1..n
      BY <1>0, <1>5, <2>3 DEF NextInLine
    <3>2. k - 1 \in Ids
      BY <1>0, <1>5, <2>4, <3>1
    <3>3. k = 1 \/ k - 1 \in Slices
      BY <1>0, <1>5, <3>1
    <3>4. trace'[k] = trace[k] /\ (k = 1 \/ trace'[k - 1] = trace[k - 1])
          /\ jobs'[k - 1].arrival = jobs[k - 1].arrival
      BY <2>1, <3>2, <3>3
    <3> QED
      BY <3>1, <3>4 DEF FifoSlice
  <2>8. FifoSlice(n + 1)'
    <3>1. jobs[n].arrival \in Nat /\ jobs'[n].arrival = jobs[n].arrival
      BY <1>0, <1>5, <2>1, <2>4, JobFacts
    <3>2. time <= jobs[n].arrival \/ (n > 0 /\ time = EndOf(trace[n]))
      BY <1>0, <1>5, <2>3, <2>4 DEF NextInLine
    <3>3. n # 0 => n \in Slices /\ trace'[n] = trace[n]
      BY <1>0, <1>5, <2>1
    <3>4. n # 0 => EndOf(trace[n]) <= time /\ EndOf(trace[n]) \in Nat
      BY <1>0, <1>5, <3>3, NoSliceLeftOut
    <3>5. time = IF n = 0 \/ EndOf(trace[n]) < jobs[n].arrival THEN jobs[n].arrival
                 ELSE EndOf(trace[n])
      BY <1>0, <1>5, <2>4, <3>1, <3>2, <3>4
    <3>6. (n + 1) - 1 = n /\ (n + 1 = 1 <=> n = 0)
      BY <1>0, <1>5
    <3> QED
      BY <2>1, <2>4, <3>1, <3>3, <3>5, <3>6 DEF FifoSlice
  <2>9. \A k \in Slices' : FifoSlice(k)'
    <3>1. \A k \in Slices' : k \in Slices \/ k = n + 1
      BY <1>0, <1>5, <2>1
    <3> QED
      BY <2>7, <2>8, <3>1
  <2>10. (n + 1) - 1 = n /\ n + 1 > 0 /\ ~(n + 1 < temp')
    BY <1>0, <1>5, <2>1, <2>4
  <2> QED
    BY <1>5, <2>1, <2>5, <2>6, <2>9, <2>10 DEF NextInLine
<1>2. CASE RrSkip \/ RrPass
  <2>1. /\ UNCHANGED <<numofjobs, jobs, trace>> /\ Done' = Done /\ Ids' = Ids
        /\ NoneLonger /\ Slices' = Slices
    BY <1>0, <1>5, <1>2, RrMoveInv DEF RrSkip, RrPass, table, Quiet, NoneLonger, Slices
  <2>2. NextInLine
    BY <1>0, <1>5, <2>1 DEF LineInv
  <2>3. SUFFICES ASSUME n < numofjobs
                 PROVE  /\ n < temp' => time' < jobs[n].arrival
                        /\ time' <= jobs[n].arrival \/ (n > 0 /\ time' = EndOf(trace[n]))
    BY <1>5, <2>1, <2>2 DEF NextInLine, FifoSlice
  <2>4. /\ n < temp => time < jobs[n].arrival
        /\ time <= jobs[n].arrival \/ (n > 0 /\ time = EndOf(trace[n]))
        /\ n \in Ids /\ n \notin Done
    BY <1>0, <1>5, <2>2, <2>3 DEF NextInLine
  <2>5. jobs[n].arrival \in Nat
    BY <1>0, <1>5, <2>4, JobFacts
  <2>6. CASE RrSkip
    <3>1. time' = time /\ temp' = temp + 1 /\ ~Eligible(temp)
      BY <2>6 DEF RrSkip
    <3>2. temp = n => time < jobs[n].arrival
      <4>1. SUFFICES ASSUME temp = n, jobs[n].arrival <= time PROVE FALSE
        BY <1>0, <1>5, <2>5
      <4>2. n \in Ready
        BY <1>0, <1>5, <2>4, <4>1, DoneFacts
      <4>3. jobs[n].time_left > 0
        BY <1>0, <1>5, <4>2, ReadyFacts
      <4> QED
        BY <3>1, <4>1, <4>2, <4>3 DEF Eligible
    <3> QED
      BY <1>0, <1>5, <2>4, <3>1, <3>2
  <2>7. CASE RrPass
    <3>1. temp = numofjobs /\ temp' = 0 /\ time' \in {time, time + 1}
      BY <2>7 DEF RrPass
    <3>2. time < jobs[n].arrival
      BY <2>3, <2>4, <3>1
    <3> QED
      BY <1>0, <1>5, <2>4, <2>5, <3>1, <3>2
  <2> QED
    BY <1>2, <2>6, <2>7
<1>3. CASE Quiet /\ UNCHANGED <<trace, temp, time, numofjobs>>
  <2>1. /\ Ids' = Ids /\ Done' = Done /\ Slices' = Slices
        /\ \A k \in Ids : jobs'[k].arrival = jobs[k].arrival /\ jobs'[k].length = jobs[k].length
    BY <1>3 DEF Quiet, Slices
  <2>2. NoneLonger
    BY <1>0, <1>5, <2>1 DEF NoneLonger
  <2>3. NextInLine
    BY <1>0, <1>5, <2>2 DEF LineInv
  <2>4. ASSUME NEW k \in Slices PROVE FifoSlice(k)' /\ FifoSlice(k)
    <3>1. FifoSlice(k) /\ k \in 1..n
      BY <1>0, <1>5, <2>3 DEF NextInLine
    <3>2. k - 1 \in Ids
      <4>1. k - 1 \in Done
        BY <1>0, <1>5, <2>3, <3>1 DEF NextInLine
      <4> QED
        BY <1>0, <1>5, <4>1, DoneFacts
    <3> QED
      BY <1>3, <2>1, <3>1, <3>2 DEF FifoSlice
  <2>5. n < numofjobs => n \in Ids
    BY <1>0, <1>5
  <2> QED
    BY <1>3, <1>5, <2>1, <2>3, <2>4, <2>5 DEF NextInLine
<1>4. CASE pc' = "read" /\ trace' = <<>>
  <2>1. Shapes' /\ time' = 0 /\ temp' = 0 /\ \A j \in Ids' : ~jobs'[j].is_completed
    BY <1>4 DEF IInv, ReadInv
  <2>2. Done' = {} /\ Len(trace') = 0 /\ Slices' = {}
    BY <1>4, <2>1 DEF Done, Slices
  <2>3. numofjobs' \in Nat /\ Ids' = 0..(numofjobs' - 1) /\ \A j \in Ids' : jobs'[j] \in JobType
    <3>1. numofjobs' \in Nat /\ jobs' \in [Ids' -> JobType]
      BY <2>1 DEF Shapes
    <3> QED
      BY <3>1 DEF Ids
  <2>4. 0 < numofjobs' => jobs'[0].arrival \in Nat
    <3>1. 0 < numofjobs' => jobs'[0] \in JobType
      <4>1. PICK N \in Nat : N = numofjobs'
        BY <2>3
      <4>2. 0 < N => 0 \in 0..(N - 1)
        OBVIOUS
      <4> QED
        BY <2>3, <4>1, <4>2
    <3> QED
      BY <3>1 DEF JobType
  <2> QED
    BY <2>1, <2>2, <2>4 DEF NextInLine
<1> QED
  BY <1>1, <1>2, <1>3, <1>4, RrKinds

\* With a slice that no job exceeds, RR (scheduler.c:282-326) is FIFO (432-466), idle
\* time and arrivals in the middle of a pass included.
THEOREM LongSlicesMakeFifo == Spec => []LongSliceIsFifo
<1>1. Init => LineInv
  <2> SUFFICES ASSUME Init PROVE NextInLine
    BY DEF LineInv
  <2>1. Done = {} /\ Len(trace) = 0 /\ Slices = {} /\ numofjobs = 0
    BY DEF Init, Done, Ids, Slices
  <2> QED
    BY <2>1 DEF NextInLine
<1>2. IInv /\ IInv' /\ LineInv /\ [Next]_vars => LineInv'
  BY LineStep
<1>3. LineInv => LongSliceIsFifo
  BY DEF LineInv, NoneLonger, NextInLine, FifoSlice, LongSliceIsFifo
<1> QED
  BY <1>1, <1>2, <1>3, Invariant, PTL DEF Spec

-----------------------------------------------------------------------------
(* LT: the draw. *)

\* The tickets of one job, and of the jobs of S.
TicketsOf(j) == {j} \X (1..jobs[j].tickets)
Pool(S) == UNION {TicketsOf(j) : j \in S}

LEMMA TicketFacts ==
  ASSUME Shapes, NEW S \in SUBSET Ids
  PROVE  IsFiniteSet(Pool(S)) /\ Tickets(S) \in Nat /\ Tickets(S) = Cardinality(Pool(S))
<1>1. \A j \in Ids : jobs[j].tickets \in Nat
  <2>1. \A j \in Ids : jobs[j] \in JobType
    BY DEF Shapes
  <2> QED
    BY <2>1 DEF JobType
<1>2. ASSUME NEW j \in Ids PROVE IsFiniteSet(TicketsOf(j))
  <2>1. IsFiniteSet({j}) /\ IsFiniteSet(1..jobs[j].tickets)
    <3>1. 1 \in Int /\ jobs[j].tickets \in Int
      BY <1>1
    <3> QED
      BY <3>1, FS_Singleton, FS_Interval
  <2> QED
    BY <2>1, FS_Product DEF TicketsOf
<1>3. IsFiniteSet(S)
  BY IdsFinite, FS_Subset
<1> DEFINE T == {TicketsOf(j) : j \in S}
           f == [j \in S |-> TicketsOf(j)]
<1>4. f \in Surjection(S, T)
  BY DEF Surjection
<1>5. IsFiniteSet(T)
  BY <1>3, <1>4, FS_Surjection
<1>6. \A t \in T : IsFiniteSet(t)
  BY <1>2
<1>7. IsFiniteSet(UNION T)
  <2> HIDE DEF T
  <2> QED
    BY <1>5, <1>6, FS_UNION
<1>8. Tickets(S) = Cardinality(Pool(S))
  BY DEF Tickets, Pool, TicketsOf
<1> QED
  BY <1>7, <1>8, FS_CardinalityType DEF Pool

LEMMA MoreTickets ==
  ASSUME Shapes, NEW S \in SUBSET Ids, NEW R \in SUBSET S
  PROVE  Tickets(R) <= Tickets(S)
<1>1. Pool(R) \in SUBSET Pool(S)
  BY DEF Pool
<1>2. R \in SUBSET Ids
  OBVIOUS
<1> QED
  BY <1>1, <1>2, TicketFacts, FS_Subset

LEMMA OneMoreJob ==
  ASSUME Shapes, NEW S \in SUBSET Ids, NEW j \in Ids, j \notin S
  PROVE  Tickets(S \cup {j}) = Tickets(S) + jobs[j].tickets /\ jobs[j].tickets \in Nat
<1>1. PICK t \in Nat : t = jobs[j].tickets
  <2>1. jobs[j] \in JobType
    BY DEF Shapes
  <2> QED
    BY <2>1 DEF JobType
<1>2. IsFiniteSet(TicketsOf(j)) /\ Cardinality(TicketsOf(j)) = t
  <2>1. IsFiniteSet({j}) /\ Cardinality({j}) = 1
    BY FS_Singleton
  <2>2. IsFiniteSet(1..t) /\ Cardinality(1..t) = t
    <3>1. 1 \in Int /\ t \in Int /\ (IF 1 > t THEN 0 ELSE t - 1 + 1) = t
      OBVIOUS
    <3> QED
      BY ONLY <3>1, FS_Interval
  <2>3. Cardinality({j} \X (1..t)) = 1 * t /\ IsFiniteSet({j} \X (1..t))
    <3>1. PICK S1, T1 : S1 = {j} /\ T1 = 1..t
      OBVIOUS
    <3>2. IsFiniteSet(S1) /\ IsFiniteSet(T1)
      BY <2>1, <2>2, <3>1
    <3>3. Cardinality(S1 \X T1) = Cardinality(S1) * Cardinality(T1) /\ IsFiniteSet(S1 \X T1)
      BY ONLY <3>2, FS_Product
    <3> QED
      BY <2>1, <2>2, <3>1, <3>3
  <2>4. TicketsOf(j) = {j} \X (1..t)
    BY ONLY <1>1, Zenon DEF TicketsOf
  <2>5. 1 * t = t
    OBVIOUS
  <2> QED
    BY ONLY <2>3, <2>4, <2>5
<1>3. Pool(S) \cap TicketsOf(j) = {}
  BY DEF Pool, TicketsOf
<1>4. Pool(S \cup {j}) = Pool(S) \cup TicketsOf(j)
  BY DEF Pool
<1>5. IsFiniteSet(Pool(S)) /\ Cardinality(Pool(S)) = Tickets(S) /\ Tickets(S) \in Nat
  BY TicketFacts
<1>6. Tickets(S \cup {j}) = Cardinality(Pool(S \cup {j}))
  BY TicketFacts
<1>7. Cardinality(Pool(S) \cup TicketsOf(j)) = Tickets(S) + t - Cardinality({})
  BY <1>2, <1>3, <1>5, FS_Union
<1>8. Cardinality({}) = 0
  BY FS_EmptySet
<1>9. Tickets(S \cup {j}) = Tickets(S) + t
  <2>1. Tickets(S \cup {j}) = Tickets(S) + t - Cardinality({})
    BY <1>4, <1>6, <1>7
  <2>2. Tickets(S) + t - 0 = Tickets(S) + t
    BY <1>1, <1>5
  <2> QED
    BY <1>8, <2>1, <2>2
<1> QED
  BY <1>1, <1>9

\* A job wins from the tickets of those before it up to where its own end.
LEMMA WinsFacts ==
  ASSUME Shapes, NEW j \in Ready, NEW d \in Nat, NEW B, B = {k \in Ready : k < j}
  PROVE  Wins(j, d) <=> Tickets(B) <= d /\ d < Tickets(B \cup {j})
<1>1. Ready \subseteq Ids /\ Ready \subseteq Nat /\ Ids \subseteq Nat /\ B \subseteq Ids
  BY DEF Shapes, Ready, Ids
<1>2. {k \in Ready : k <= j} = B \cup {j}
  <2>1. \A k \in Ready : k <= j <=> k < j \/ k = j
    BY <1>1
  <2>2. \A k : k \in {l \in Ready : l <= j} <=> k \in B \cup {j}
    BY <2>1
  <2> QED
    BY <2>2
<1>3. Tickets(B) \in Nat /\ Tickets(B \cup {j}) \in Nat
  BY <1>1, TicketFacts
<1>4. ASSUME NEW k \in Ready, k < j
      PROVE  Tickets({l \in Ready : l <= k}) \in Nat /\ Tickets({l \in Ready : l <= k}) <= Tickets(B)
  <2>0. \A l \in Ready : l <= k => l < j
    BY <1>1, <1>4
  <2>1. {l \in Ready : l <= k} \in SUBSET B
    BY <2>0
  <2> QED
    BY <1>1, <2>1, TicketFacts, MoreTickets
<1>5. ASSUME \A k \in Ready : k < j => Tickets({l \in Ready : l <= k}) <= d
      PROVE  Tickets(B) <= d
  <2>1. CASE B = {}
    <3>1. Pool(B) = {}
      BY <2>1 DEF Pool
    <3>2. Tickets(B) = 0
      BY <1>1, <3>1, TicketFacts, FS_EmptySet
    <3> QED
      BY <3>2
  <2>2. CASE B # {}
    <3> DEFINE T == {j - k : k \in B}
    <3>1. T \in SUBSET Nat /\ T # {}
      <4>1. \A k \in B : k \in Nat /\ k < j
        BY <1>1
      <4>2. \A k \in B : j - k \in Nat
        BY <1>1, <4>1
      <4> QED
        BY <2>2, <4>2
    <3>2. PICK x \in T : \A y \in T : x <= y
      BY <3>1, LeastNat
    <3>3. PICK k \in B : x = j - k
      BY <3>2
    <3>4. \A l \in B : l <= k
      <4> SUFFICES ASSUME NEW l \in B PROVE l <= k
        OBVIOUS
      <4>1. j - k <= j - l
        BY <3>2, <3>3
      <4> QED
        BY <1>1, <4>1
    <3>5. {l \in Ready : l <= k} = B
      <4>1. k \in Nat /\ k < j
        BY <1>1
      <4>2. \A l \in Ready : l <= k <=> l \in B
        BY <1>1, <3>4, <4>1
      <4>3. B \subseteq Ready
        OBVIOUS
      <4> QED
        BY <4>2, <4>3
    <3> QED
      BY <1>5, <3>5
  <2> QED
    BY <2>1, <2>2
<1>6. Tickets(B) <= d => \A k \in Ready : k < j => Tickets({l \in Ready : l <= k}) <= d
  BY <1>3, <1>4
<1>7. Wins(j, d) <=> /\ Tickets(B \cup {j}) > d
                     /\ \A k \in Ready : k < j => Tickets({l \in Ready : l <= k}) <= d
  BY <1>2 DEF Wins
<1> QED
  BY <1>3, <1>5, <1>6, <1>7

\* The lottery of LT (scheduler.c:380-396) is fair: the draws a job wins are as many
\* as its tickets, whichever jobs are ready.
THEOREM LotteryIsFair == Spec => []LotteryFair
<1>1. IInv => LotteryFair
  <2> SUFFICES ASSUME IInv, NEW j \in Ready
               PROVE  Cardinality({d \in 0..(Tickets(Ready) - 1) : Wins(j, d)}) = jobs[j].tickets
    BY DEF LotteryFair
  <2>1. Shapes /\ Ready \subseteq Ids /\ Ids \subseteq Nat
    BY DEF IInv, Shapes, Ready, Ids
  <2>2. PICK B : B = {k \in Ready : k < j}
    OBVIOUS
  <2>3. B \in SUBSET Ids /\ B \cup {j} \in SUBSET Ready /\ j \notin B /\ j \in Ids
    <3>1. j \in Nat /\ ~(j < j)
      BY <2>1
    <3> QED
      BY <2>1, <2>2, <3>1
  <2>4. PICK t \in Nat : t = jobs[j].tickets /\ Tickets(B \cup {j}) = Tickets(B) + t
    BY <2>1, <2>3, OneMoreJob
  <2>5. PICK low \in Nat : low = Tickets(B)
    BY <2>1, <2>3, TicketFacts
  <2>6. PICK all \in Nat : all = Tickets(Ready)
    BY <2>1, TicketFacts
  <2>7. low + t <= all
    BY <2>1, <2>3, <2>4, <2>5, <2>6, MoreTickets
  <2>8. {d \in 0..(all - 1) : Wins(j, d)} = low..(low + t - 1)
    <3>1. \A d \in Nat : Wins(j, d) <=> low <= d /\ d < low + t
      BY <2>1, <2>2, <2>4, <2>5, WinsFacts
    <3> QED
      BY <2>7, <3>1
  <2>9. Cardinality(low..(low + t - 1)) = t
    <3>1. low \in Int /\ low + t - 1 \in Int
          /\ (IF low > low + t - 1 THEN 0 ELSE (low + t - 1) - low + 1) = t
      OBVIOUS
    <3> QED
      BY <3>1, FS_Interval
  <2> QED
    BY <2>4, <2>6, <2>8, <2>9
<1> QED
  BY <1>1, Invariant, PTL

-----------------------------------------------------------------------------
(* Sums over jobs. *)

Column(f, j) == {j} \X (1..f[j])
Columns(f, S) == UNION {Column(f, j) : j \in S}

\* A job's part of the sum is as large as its value.
LEMMA ColumnFacts ==
  ASSUME NEW I, NEW f \in [I -> Nat], NEW j \in I
  PROVE  IsFiniteSet(Column(f, j)) /\ Cardinality(Column(f, j)) = f[j]
<1>1. PICK t \in Nat : t = f[j]
  OBVIOUS
<1>2. IsFiniteSet({j}) /\ Cardinality({j}) = 1
  BY FS_Singleton
<1>3. IsFiniteSet(1..t) /\ Cardinality(1..t) = t
  <2>1. 1 \in Int /\ t \in Int /\ (IF 1 > t THEN 0 ELSE t - 1 + 1) = t
    OBVIOUS
  <2> QED
    BY <2>1, FS_Interval
<1>4. Cardinality({j} \X (1..t)) = 1 * t /\ IsFiniteSet({j} \X (1..t))
  BY <1>2, <1>3, FS_Product
<1>5. Column(f, j) = {j} \X (1..t)
  BY ONLY <1>1, Zenon DEF Column
<1>6. 1 * t = t
  OBVIOUS
<1> QED
  BY ONLY <1>1, <1>4, <1>5, <1>6

\* Sums over finite sets are natural numbers.
LEMMA SumFacts ==
  ASSUME NEW I, IsFiniteSet(I), NEW f \in [I -> Nat], NEW S \in SUBSET I
  PROVE  /\ IsFiniteSet(Columns(f, S)) /\ SumOver(f, S) = Cardinality(Columns(f, S))
         /\ SumOver(f, S) \in Nat
<1>1. IsFiniteSet(S)
  BY FS_Subset
<1> DEFINE T == {Column(f, j) : j \in S}
           c == [j \in S |-> Column(f, j)]
<1>2. c \in Surjection(S, T)
  BY DEF Surjection
<1>3. IsFiniteSet(T)
  BY <1>1, <1>2, FS_Surjection
<1>4. \A t \in T : IsFiniteSet(t)
  BY ColumnFacts
<1>5. IsFiniteSet(UNION T)
  <2> HIDE DEF T
  <2> QED
    BY <1>3, <1>4, FS_UNION
<1>6. SumOver(f, S) = Cardinality(Columns(f, S))
  BY DEF SumOver, Columns, Column
<1> QED
  BY <1>5, <1>6, FS_CardinalityType DEF Columns

\* Sums of disjoint sets add up.
LEMMA SumSplit ==
  ASSUME NEW I, IsFiniteSet(I), NEW f \in [I -> Nat],
         NEW S \in SUBSET I, NEW R \in SUBSET I, S \cap R = {}
  PROVE  SumOver(f, S \cup R) = SumOver(f, S) + SumOver(f, R)
<1>1. Columns(f, S \cup R) = Columns(f, S) \cup Columns(f, R)
  BY DEF Columns
<1>2. Columns(f, S) \cap Columns(f, R) = {}
  BY DEF Columns, Column
<1>3. /\ IsFiniteSet(Columns(f, S)) /\ IsFiniteSet(Columns(f, R))
      /\ SumOver(f, S) = Cardinality(Columns(f, S)) /\ SumOver(f, R) = Cardinality(Columns(f, R))
      /\ SumOver(f, S) \in Nat /\ SumOver(f, R) \in Nat
      /\ SumOver(f, S \cup R) = Cardinality(Columns(f, S \cup R))
  <2>1. S \cup R \in SUBSET I
    OBVIOUS
  <2> QED
    BY <2>1, SumFacts
<1>4. Cardinality(Columns(f, S) \cup Columns(f, R))
        = Cardinality(Columns(f, S)) + Cardinality(Columns(f, R)) - Cardinality(Columns(f, S) \cap Columns(f, R))
  BY <1>3, FS_Union
<1>5. Cardinality(Columns(f, S) \cap Columns(f, R)) = 0
  BY <1>2, FS_EmptySet
<1>6. PICK s \in Nat, r \in Nat : s = SumOver(f, S) /\ r = SumOver(f, R)
  BY <1>3
<1>7. SumOver(f, S \cup R) = s + r - 0
  BY <1>1, <1>3, <1>4, <1>5, <1>6
<1> QED
  BY <1>6, <1>7

\* The sum over one job is its value.
LEMMA SumOne ==
  ASSUME NEW I, NEW f \in [I -> Nat], NEW j \in I
  PROVE  SumOver(f, {j}) = f[j]
<1>1. SumOver(f, {j}) = Cardinality(Column(f, j))
  <2>1. UNION {{k} \X (1..f[k]) : k \in {j}} = {j} \X (1..f[j])
    OBVIOUS
  <2> QED
    BY <2>1 DEF SumOver, Column
<1> QED
  BY <1>1, ColumnFacts

\* A sum depends on the values of its set alone.
LEMMA SumSame ==
  ASSUME NEW f, NEW g, NEW S, \A j \in S : f[j] = g[j]
  PROVE  SumOver(f, S) = SumOver(g, S)
<1>1. Columns(f, S) = Columns(g, S)
  BY Zenon DEF Columns, Column
<1> QED
  BY <1>1 DEF SumOver, Columns, Column

\* A sum is zero when all of its values are.
LEMMA SumZero ==
  ASSUME NEW I, IsFiniteSet(I), NEW f \in [I -> Nat], NEW S \in SUBSET I
  PROVE  SumOver(f, S) = 0 <=> \A j \in S : f[j] = 0
<1>1. SumOver(f, S) = 0 <=> Columns(f, S) = {}
  BY SumFacts, FS_EmptySet
<1>2. ASSUME NEW j \in S, f[j] # 0 PROVE Columns(f, S) # {}
  <2>1. f[j] \in Nat /\ 1 \in 1..f[j]
    BY <1>2
  <2>2. <<j, 1>> \in Column(f, j)
    BY <2>1 DEF Column
  <2> QED
    BY <2>2 DEF Columns
<1>3. ASSUME \A j \in S : f[j] = 0 PROVE Columns(f, S) = {}
  <2>1. \A j \in S : Column(f, j) = {}
    BY <1>3 DEF Column
  <2> QED
    BY <2>1 DEF Columns
<1> QED
  BY <1>1, <1>2, <1>3

\* The sum grows with the number of values that grow by one.
LEMMA SumRaised ==
  ASSUME NEW I, IsFiniteSet(I), NEW f \in [I -> Nat], NEW g \in [I -> Nat],
         NEW S \in SUBSET I, NEW W \in SUBSET S,
         \A j \in S : g[j] = IF j \in W THEN f[j] + 1 ELSE f[j]
  PROVE  SumOver(g, S) = SumOver(f, S) + Cardinality(W) /\ Cardinality(W) \in Nat
<1> DEFINE tops == [j \in W |-> <<j, g[j]>>]
           Top == {<<j, g[j]>> : j \in W}
<1>1. IsFiniteSet(W) /\ Cardinality(W) \in Nat
  <2>1. W \in SUBSET I
    OBVIOUS
  <2> QED
    BY <2>1, FS_Subset, FS_CardinalityType
<1>2. IsFiniteSet(Top) /\ Cardinality(Top) = Cardinality(W)
  <2>1. tops \in Bijection(W, Top)
    BY DEF Bijection, Injection, Surjection, IsInjective
  <2> HIDE DEF tops, Top
  <2>2. ExistsBijection(W, Top)
    BY <2>1 DEF ExistsBijection
  <2> QED
    BY <1>1, <2>2, FS_Bijection
<1>3. Columns(g, S) = Columns(f, S) \cup Top
  <2>1. ASSUME NEW j \in S PROVE Column(g, j) = Column(f, j) \cup (IF j \in W THEN {<<j, g[j]>>} ELSE {})
    <3>1. CASE j \in W
      <4>1. f[j] \in Nat /\ g[j] = f[j] + 1
        BY <3>1
      <4>2. 1..g[j] = 1..f[j] \cup {g[j]}
        BY <4>1
      <4> QED
        BY <3>1, <4>2 DEF Column
    <3>2. CASE j \notin W
      BY <3>2 DEF Column
    <3> QED
      BY <3>1, <3>2
  <2> QED
    BY <2>1 DEF Columns
<1>4. Columns(f, S) \cap Top = {}
  <2> SUFFICES ASSUME NEW j \in W, <<j, g[j]>> \in Columns(f, S) PROVE FALSE
    BY DEF Columns
  <2>1. g[j] \in 1..f[j]
    BY DEF Columns, Column
  <2>2. f[j] \in Nat /\ g[j] = f[j] + 1
    OBVIOUS
  <2> QED
    BY <2>1, <2>2
<1>5. /\ IsFiniteSet(Columns(f, S)) /\ SumOver(f, S) = Cardinality(Columns(f, S)) /\ SumOver(f, S) \in Nat
      /\ SumOver(g, S) = Cardinality(Columns(g, S))
  BY SumFacts
<1>6. Cardinality(Columns(f, S) \cup Top)
        = Cardinality(Columns(f, S)) + Cardinality(Top) - Cardinality(Columns(f, S) \cap Top)
  <2> HIDE DEF Top
  <2> QED
    BY <1>2, <1>5, FS_Union
<1>7. Cardinality(Columns(f, S) \cap Top) = 0
  BY <1>4, FS_EmptySet
<1> HIDE DEF Top
<1> QED
  BY <1>1, <1>2, <1>3, <1>5, <1>6, <1>7

-----------------------------------------------------------------------------
(* Whoever runs the job with the least left is ahead of everybody else. *)

\* Of the jobs A the schedule that has a left of each is ahead of the one that
\* has b left: of as many jobs it has as little left.
AheadOf(a, b, A) ==
  \A Q \in SUBSET A : \E P \in SUBSET A :
    Cardinality(P) = Cardinality(Q) /\ SumOver(a, P) <= SumOver(b, Q)

\* From a to c the job with the least left runs for a unit, from b to d any job or none.
RunsShortest(a, c, A) ==
  \E j \in A : /\ a[j] > 0 /\ \A k \in A : a[k] > 0 => a[j] <= a[k]
              /\ c = [a EXCEPT ![j] = @ - 1]
RunsAny(b, d, A) ==
  \E W \in SUBSET A : /\ Cardinality(W) <= 1
                      /\ \A k \in DOMAIN b : b[k] = IF k \in W THEN d[k] + 1 ELSE d[k]

\* It stays ahead when it runs the job with the least left, whatever the other one does.
LEMMA AheadRuns ==
  ASSUME NEW I, IsFiniteSet(I), NEW a \in [I -> Nat], NEW b \in [I -> Nat], NEW A \in SUBSET I,
         AheadOf(a, b, A),
         NEW c \in [I -> Nat], RunsShortest(a, c, A),
         NEW d \in [I -> Nat], RunsAny(b, d, A)
  PROVE  AheadOf(c, d, A)
<1>8. PICK j \in A : /\ a[j] > 0 /\ \A k \in A : a[k] > 0 => a[j] <= a[k]
                    /\ c = [a EXCEPT ![j] = @ - 1]
  BY DEF RunsShortest
<1>9. PICK W \in SUBSET A : /\ Cardinality(W) <= 1
                           /\ \A k \in I : b[k] = IF k \in W THEN d[k] + 1 ELSE d[k]
  BY DEF RunsAny
<1> SUFFICES ASSUME NEW Q \in SUBSET A
             PROVE  \E P \in SUBSET A : Cardinality(P) = Cardinality(Q) /\ SumOver(c, P) <= SumOver(d, Q)
  BY DEF AheadOf
<1>1. PICK P \in SUBSET A : Cardinality(P) = Cardinality(Q) /\ SumOver(a, P) <= SumOver(b, Q)
  BY DEF AheadOf
<1>2. P \in SUBSET I /\ Q \in SUBSET I /\ IsFiniteSet(P) /\ j \in I
  <2>1. P \in SUBSET I
    OBVIOUS
  <2> QED
    BY <2>1, FS_Subset
<1>3. PICK p \in Nat, q \in Nat, z \in Nat : p = SumOver(a, P) /\ q = SumOver(b, Q) /\ z = SumOver(d, Q)
  BY <1>2, SumFacts
<1>4. q <= z + 1
  <2>1. W \cap Q \in SUBSET Q /\ \A k \in Q : b[k] = IF k \in W \cap Q THEN d[k] + 1 ELSE d[k]
    BY <1>9
  <2>2. SumOver(b, Q) = SumOver(d, Q) + Cardinality(W \cap Q) /\ Cardinality(W \cap Q) \in Nat
    <3> DEFINE V == W \cap Q
    <3>1. V \in SUBSET Q /\ \A k \in Q : b[k] = IF k \in V THEN d[k] + 1 ELSE d[k]
      BY <2>1
    <3> HIDE DEF V
    <3>2. \A k \in Q : b[k] = IF k \in V THEN d[k] + 1 ELSE d[k]
      BY <3>1
    <3>3. SumOver(b, Q) = SumOver(d, Q) + Cardinality(V) /\ Cardinality(V) \in Nat
      <4>1. Q \in SUBSET I /\ V \in SUBSET Q
        BY <1>2, <3>1
      <4> QED
        BY ONLY IsFiniteSet(I), b \in [I -> Nat], d \in [I -> Nat], <4>1, <3>2, SumRaised
    <3> QED
      BY <3>3 DEF V
  <2>3. IsFiniteSet(W) /\ Cardinality(W \cap Q) <= Cardinality(W) /\ Cardinality(W) \in Nat
    <3>1. W \in SUBSET I /\ W \cap Q \in SUBSET W
      OBVIOUS
    <3>2. IsFiniteSet(W)
      BY <3>1, FS_Subset
    <3> QED
      BY <3>1, <3>2, FS_Subset, FS_CardinalityType
  <2> QED
    BY <1>3, <1>9, <2>2, <2>3
<1>5. p <= z + 1
  BY <1>1, <1>3, <1>4
<1>6. CASE p = 0
  <2>1. \A k \in P : a[k] = 0
    <3>1. P \in SUBSET I /\ SumOver(a, P) = 0
      BY <1>2, <1>3, <1>6
    <3> QED
      BY ONLY IsFiniteSet(I), a \in [I -> Nat], <3>1, SumZero
  <2>2. \A k \in P : c[k] = 0
    BY <1>8, <2>1
  <2>3. SumOver(c, P) = 0
    <3>1. P \in SUBSET I
      BY <1>2
    <3> QED
      BY ONLY IsFiniteSet(I), c \in [I -> Nat], <3>1, <2>2, SumZero
  <2> QED
    BY <1>1, <1>3, <2>3
<1>7. CASE p # 0
  <2>1. PICK k \in P : a[k] > 0 /\ (j \in P => k = j)
    <3>1. PICK i \in P : a[i] # 0
      BY <1>2, <1>3, <1>7, SumZero
    <3>2. a[i] \in Nat /\ a[i] > 0
      BY <1>2, <3>1
    <3>3. CASE j \in P
      BY <1>8, <3>3
    <3> QED
      BY <3>1, <3>2, <3>3
  <2> DEFINE R == P \ {k}
             O == R \cup {j}
  <2>2. R \in SUBSET I /\ {k} \in SUBSET I /\ {j} \in SUBSET I /\ R \cap {k} = {} /\ R \cap {j} = {}
        /\ P = R \cup {k} /\ IsFiniteSet(R) /\ k \in I /\ O \in SUBSET A
    <3>1. R \in SUBSET P
      OBVIOUS
    <3>2. IsFiniteSet(R)
      BY <1>2, <3>1, FS_Subset
    <3>3. j \notin R
      BY <2>1
    <3> QED
      BY <1>2, <2>1, <3>2, <3>3
  <2>3. Cardinality(O) = Cardinality(P)
    <3>1. k \notin R /\ j \notin R
      BY <2>2
    <3> HIDE DEF R
    <3>2. Cardinality(R \cup {k}) = Cardinality(R) + 1 /\ Cardinality(R \cup {j}) = Cardinality(R) + 1
      BY <2>2, <3>1, FS_AddElement
    <3> QED
      BY <2>2, <3>2
  <2>4. PICK s \in Nat : s = SumOver(a, R)
    BY <2>2, SumFacts
  <2>5. p = s + a[k]
    <3> HIDE DEF R
    <3>1. SumOver(a, R \cup {k}) = SumOver(a, R) + SumOver(a, {k})
      BY <2>2, SumSplit
    <3> QED
      BY <1>3, <2>2, <2>4, <3>1, SumOne
  <2>6. SumOver(c, O) = s + c[j]
    <3>1. \A i \in R : c[i] = a[i]
      <4>1. j \notin R
        BY <2>2
      <4> QED
        BY <1>8, <2>2, <4>1
    <3> HIDE DEF R
    <3>2. SumOver(c, R \cup {j}) = SumOver(c, R) + SumOver(c, {j})
      BY ONLY IsFiniteSet(I), c \in [I -> Nat], <2>2, SumSplit
    <3>3. SumOver(c, R) = SumOver(a, R)
      BY ONLY <3>1, SumSame
    <3>4. SumOver(c, {j}) = c[j]
      BY ONLY c \in [I -> Nat], <1>2, SumOne
    <3> QED
      BY <2>4, <3>2, <3>3, <3>4
  <2>7. c[j] = a[j] - 1 /\ a[j] <= a[k] /\ a[j] \in Nat /\ a[k] \in Nat
    BY <1>2, <1>8, <2>1, <2>2
  <2>8. s + c[j] <= z
    BY <1>5, <2>4, <2>5, <2>7
  <2> HIDE DEF O
  <2>9. O \in SUBSET A /\ Cardinality(O) = Cardinality(Q) /\ SumOver(c, O) <= SumOver(d, Q)
    BY <1>1, <1>3, <2>2, <2>3, <2>6, <2>8
  <2> QED
    BY <2>9
<1> QED
  BY <1>6, <1>7

\* Nobody is ahead of one that has finished all of its jobs.
LEMMA AheadIdles ==
  ASSUME NEW I, IsFiniteSet(I), NEW a \in [I -> Nat], NEW b \in [I -> Nat], NEW A \in SUBSET I,
         \A k \in A : a[k] = 0
  PROVE  AheadOf(a, b, A)
<1> SUFFICES ASSUME NEW Q \in SUBSET A PROVE SumOver(a, Q) <= SumOver(b, Q)
  BY DEF AheadOf
<1>1. Q \in SUBSET I /\ \A k \in Q : a[k] = 0
  OBVIOUS
<1>2. SumOver(a, Q) = 0 /\ SumOver(b, Q) \in Nat
  BY <1>1, SumZero, SumFacts
<1> QED
  BY <1>2

\* It stays ahead when jobs arrive of which they have as much left.
LEMMA AheadGrows ==
  ASSUME NEW I, IsFiniteSet(I), NEW a \in [I -> Nat], NEW b \in [I -> Nat],
         NEW A \in SUBSET I, NEW B \in SUBSET I, A \subseteq B,
         AheadOf(a, b, A), \A k \in B \ A : a[k] = b[k]
  PROVE  AheadOf(a, b, B)
<1> SUFFICES ASSUME NEW Q \in SUBSET B
             PROVE  \E P \in SUBSET B : Cardinality(P) = Cardinality(Q) /\ SumOver(a, P) <= SumOver(b, Q)
  BY DEF AheadOf
<1>1. PICK O, N : O = Q \cap A /\ N = Q \ A
  OBVIOUS
<1>2. O \in SUBSET A /\ O \in SUBSET I /\ N \in SUBSET I /\ O \cap N = {} /\ Q = O \cup N
  BY <1>1
<1>3. PICK P \in SUBSET A : Cardinality(P) = Cardinality(O) /\ SumOver(a, P) <= SumOver(b, O)
  BY <1>2 DEF AheadOf
<1>4. P \in SUBSET I /\ P \cap N = {} /\ P \cup N \in SUBSET B
  BY <1>1, <1>3
<1>5. SumOver(a, P \cup N) = SumOver(a, P) + SumOver(a, N) /\ SumOver(b, O \cup N) = SumOver(b, O) + SumOver(b, N)
  BY <1>2, <1>4, SumSplit
<1>6. SumOver(a, N) = SumOver(b, N)
  <2>1. \A k \in N : a[k] = b[k]
    BY <1>1
  <2> QED
    BY <2>1, SumSame
<1>7. SumOver(a, P) \in Nat /\ SumOver(b, O) \in Nat /\ SumOver(b, N) \in Nat
  BY <1>2, <1>4, SumFacts
<1>8. Cardinality(P \cup N) = Cardinality(O \cup N)
  <2>1. IsFiniteSet(P) /\ IsFiniteSet(N) /\ IsFiniteSet(O)
    BY <1>2, <1>4, FS_Subset
  <2>2. /\ Cardinality(P \cup N) = Cardinality(P) + Cardinality(N) - Cardinality(P \cap N)
        /\ Cardinality(O \cup N) = Cardinality(O) + Cardinality(N) - Cardinality(O \cap N)
    BY <2>1, FS_Union
  <2>3. P \cap N = O \cap N
    BY <1>2, <1>4
  <2> QED
    BY <1>3, <2>2, <2>3
<1>9. SumOver(a, P \cup N) <= SumOver(b, O \cup N)
  BY <1>3, <1>5, <1>6, <1>7
<1> QED
  BY <1>2, <1>4, <1>8, <1>9

\* One that is ahead has no more unfinished jobs.
LEMMA AheadCounts ==
  ASSUME NEW I, IsFiniteSet(I), NEW a \in [I -> Nat], NEW b \in [I -> Nat], NEW A \in SUBSET I,
         AheadOf(a, b, A)
  PROVE  Cardinality({k \in A : a[k] > 0}) <= Cardinality({k \in A : b[k] > 0})
<1>1. PICK X, Y, Q, R : X = {k \in A : a[k] > 0} /\ Y = {k \in A : b[k] > 0}
                        /\ Q = {k \in A : b[k] = 0} /\ R = {k \in A : a[k] = 0}
  OBVIOUS
<1>2. Q \in SUBSET A /\ R \in SUBSET A /\ X \in SUBSET A /\ Y \in SUBSET A /\ Q \in SUBSET I
  BY <1>1
<1>3. PICK P \in SUBSET A : Cardinality(P) = Cardinality(Q) /\ SumOver(a, P) <= SumOver(b, Q)
  BY <1>2 DEF AheadOf
<1>4. SumOver(a, P) = 0
  <2>1. SumOver(b, Q) = 0
    <3>1. \A k \in Q : b[k] = 0
      BY <1>1
    <3> QED
      BY <1>2, <3>1, SumZero
  <2>2. P \in SUBSET I
    OBVIOUS
  <2>3. SumOver(a, P) \in Nat
    BY <2>2, SumFacts
  <2> QED
    BY <1>3, <2>1, <2>3
<1>5. P \in SUBSET R
  <2>1. P \in SUBSET I
    OBVIOUS
  <2>2. \A k \in P : a[k] = 0
    BY <1>4, <2>1, SumZero
  <2> QED
    BY <1>1, <2>2
<1>6. IsFiniteSet(A) /\ IsFiniteSet(X) /\ IsFiniteSet(Y) /\ IsFiniteSet(Q) /\ IsFiniteSet(R)
  <2>1. IsFiniteSet(A)
    BY FS_Subset
  <2> QED
    BY <1>2, <2>1, FS_Subset
<1>7. PICK x \in Nat, y \in Nat, q \in Nat, r \in Nat :
        x = Cardinality(X) /\ y = Cardinality(Y) /\ q = Cardinality(Q) /\ r = Cardinality(R)
  BY <1>6, FS_CardinalityType
<1>8. q <= r
  BY <1>3, <1>5, <1>6, <1>7, FS_Subset
<1>9. A = X \cup R /\ X \cap R = {} /\ A = Y \cup Q /\ Y \cap Q = {}
  <2>1. \A k \in A : a[k] \in Nat /\ b[k] \in Nat
    OBVIOUS
  <2> QED
    BY <1>1, <2>1
<1>10. Cardinality(A) = x + r /\ Cardinality(A) = y + q
  <2>1. /\ Cardinality(X \cup R) = Cardinality(X) + Cardinality(R) - Cardinality(X \cap R)
        /\ Cardinality(Y \cup Q) = Cardinality(Y) + Cardinality(Q) - Cardinality(Y \cap Q)
    BY <1>6, FS_Union
  <2>2. Cardinality(X \cap R) = 0 /\ Cardinality(Y \cap Q) = 0
    BY <1>9, FS_EmptySet
  <2>3. Cardinality(A) = x + r - 0 /\ Cardinality(A) = y + q - 0
    <3>1. Cardinality(X \cup R) = x + r - 0
      BY ONLY <1>7, <2>1, <2>2
    <3>2. Cardinality(Y \cup Q) = y + q - 0
      BY ONLY <1>7, <2>1, <2>2
    <3> QED
      BY ONLY <1>9, <3>1, <3>2
  <2> QED
    BY ONLY <2>3, x \in Nat, y \in Nat, r \in Nat, q \in Nat
<1> QED
  BY <1>1, <1>7, <1>8, <1>10

-----------------------------------------------------------------------------
(* Where the schedules may be, unit by unit. *)

ReachFrom(f, arrival, length, t) ==
  IF t = 0 THEN {[left |-> length, total |-> 0]}
  ELSE UNION {Moves(arrival, r, t - 1) : r \in f[t - 1]}
IsReach(f, arrival, length, n) == f = [t \in 0..n |-> ReachFrom(f, arrival, length, t)]
ReachTable(arrival, length, n) == CHOOSE f : IsReach(f, arrival, length, n)

\* A table of the schedules up to n can be made one up to n + 1.
LEMMA ReachMore ==
  ASSUME NEW arrival, NEW length, NEW n \in Nat, NEW f, IsReach(f, arrival, length, n)
  PROVE  \E g : IsReach(g, arrival, length, n + 1)
<1>1. PICK x : x = UNION {Moves(arrival, r, n) : r \in f[n]}
  OBVIOUS
<1>2. PICK g : g = [t \in 0..(n + 1) |-> IF t = n + 1 THEN x ELSE f[t]]
  OBVIOUS
<1>3. DOMAIN f = 0..n
  BY Zenon DEF IsReach
<1>4. ASSUME NEW t \in 0..(n + 1) PROVE g[t] = ReachFrom(g, arrival, length, t)
  <2>1. CASE t = n + 1
    <3>1. g[t] = x /\ t # 0 /\ t - 1 = n /\ n \in 0..(n + 1) /\ g[n] = f[n]
      BY <1>2, <2>1
    <3> QED
      BY <1>1, <3>1 DEF ReachFrom
  <2>2. CASE t # n + 1
    <3>1. t \in 0..n /\ g[t] = f[t]
      BY <1>2, <2>2
    <3>2. f[t] = ReachFrom(f, arrival, length, t)
      BY <3>1, Zenon DEF IsReach
    <3>3. t # 0 => g[t - 1] = f[t - 1]
      BY <1>2, <3>1
    <3> QED
      BY <3>1, <3>2, <3>3 DEF ReachFrom
  <2> QED
    BY <2>1, <2>2
<1>5. g = [t \in 0..(n + 1) |-> g[t]]
  BY <1>2
<1>6. IsReach(g, arrival, length, n + 1)
  BY <1>4, <1>5, Zenon DEF IsReach
<1> QED
  BY <1>6

\* So there is a table for every n, by its least exception.
LEMMA ReachExists ==
  ASSUME NEW arrival, NEW length
  PROVE  \A n \in Nat : \E f : IsReach(f, arrival, length, n)
<1> DEFINE Missing == {n \in Nat : ~\E f : IsReach(f, arrival, length, n)}
<1> SUFFICES ASSUME Missing # {} PROVE FALSE
  OBVIOUS
<1>1. PICK n \in Missing : \A k \in Missing : n <= k
  BY LeastNat
<1>2. n # 0
  <2>1. PICK x : x = {[left |-> length, total |-> 0]}
    OBVIOUS
  <2>2. PICK f : f = [t \in 0..0 |-> x]
    OBVIOUS
  <2>3. \A t \in 0..0 : f[t] = ReachFrom(f, arrival, length, t)
    BY <2>1, <2>2 DEF ReachFrom
  <2>4. IsReach(f, arrival, length, 0)
    BY <2>2, <2>3, Zenon DEF IsReach
  <2> QED
    BY <2>4
<1>3. n - 1 \in Nat /\ (n - 1) + 1 = n /\ ~(n <= n - 1)
  BY <1>2
<1>4. n - 1 \notin Missing
  BY <1>1, <1>3
<1>5. PICK f : IsReach(f, arrival, length, n - 1)
  BY <1>3, <1>4
<1>6. \E g : IsReach(g, arrival, length, n)
  BY <1>3, <1>5, ReachMore
<1> QED
  BY <1>6

\* A longer table goes on where a shorter one ends.
LEMMA ReachAgrees ==
  ASSUME NEW arrival, NEW length, NEW n \in Nat,
         NEW f, IsReach(f, arrival, length, n), NEW g, IsReach(g, arrival, length, n + 1)
  PROVE  \A t \in 0..n : f[t] = g[t]
<1> DEFINE Differ == {t \in 0..n : f[t] # g[t]}
<1> SUFFICES ASSUME Differ # {} PROVE FALSE
  OBVIOUS
<1>1. Differ \in SUBSET Nat
  OBVIOUS
<1>2. PICK t \in Differ : \A k \in Differ : t <= k
  <2> HIDE DEF Differ
  <2> QED
    BY <1>1, LeastNat
<1>3. t \in 0..n /\ t \in 0..(n + 1) /\ f[t] # g[t]
  BY <1>2
<1>4. f[t] = ReachFrom(f, arrival, length, t) /\ g[t] = ReachFrom(g, arrival, length, t)
  BY <1>3, Zenon DEF IsReach
<1>5. t # 0
  BY <1>3, <1>4 DEF ReachFrom
<1>6. t - 1 \in 0..n /\ ~(t <= t - 1)
  BY <1>3, <1>5
<1>7. f[t - 1] = g[t - 1]
  BY <1>2, <1>6
<1> QED
  BY <1>3, <1>4, <1>5, <1>7 DEF ReachFrom

\* Reach satisfies the equations of its recursive function.
LEMMA ReachUnfold ==
  ASSUME NEW arrival, NEW length
  PROVE  /\ Reach(arrival, length, 0) = {[left |-> length, total |-> 0]}
         /\ \A n \in Nat : Reach(arrival, length, n + 1)
                             = UNION {Moves(arrival, r, n) : r \in Reach(arrival, length, n)}
<1>1. \A n \in Nat : IsReach(ReachTable(arrival, length, n), arrival, length, n)
  BY ReachExists, Zenon DEF ReachTable
<1>2. \A n \in Nat : Reach(arrival, length, n) = ReachTable(arrival, length, n)[n]
  BY Zenon DEF Reach, ReachTable, IsReach, ReachFrom
<1>3. Reach(arrival, length, 0) = {[left |-> length, total |-> 0]}
  <2>1. PICK f : f = ReachTable(arrival, length, 0)
    OBVIOUS
  <2>2. 0 \in Nat /\ 0 \in 0..0
    OBVIOUS
  <2>3. IsReach(f, arrival, length, 0)
    BY <1>1, <2>1, <2>2
  <2>4. f[0] = ReachFrom(f, arrival, length, 0)
    BY <2>2, <2>3, Zenon DEF IsReach
  <2> QED
    BY <1>2, <2>1, <2>2, <2>4 DEF ReachFrom
<1>4. ASSUME NEW n \in Nat
      PROVE  Reach(arrival, length, n + 1) = UNION {Moves(arrival, r, n) : r \in Reach(arrival, length, n)}
  <2>1. PICK f, g : f = ReachTable(arrival, length, n) /\ g = ReachTable(arrival, length, n + 1)
    OBVIOUS
  <2>2. n + 1 \in Nat /\ n + 1 \in 0..(n + 1) /\ n \in 0..n /\ (n + 1) - 1 = n /\ n + 1 # 0
    OBVIOUS
  <2>3. IsReach(f, arrival, length, n) /\ IsReach(g, arrival, length, n + 1)
    BY <1>1, <2>1, <2>2
  <2>4. f[n] = g[n]
    BY <2>2, <2>3, ReachAgrees
  <2>5. g[n + 1] = ReachFrom(g, arrival, length, n + 1)
    BY <2>2, <2>3, Zenon DEF IsReach
  <2>6. g[n + 1] = UNION {Moves(arrival, r, n) : r \in g[n]}
    BY <2>2, <2>5 DEF ReachFrom
  <2> QED
    BY <1>2, <2>1, <2>2, <2>4, <2>6
<1> QED
  BY <1>3, <1>4

-----------------------------------------------------------------------------
(* The schedule that no other one beats. *)

Arrived(arrival, n) == {k \in DOMAIN arrival : arrival[k] <= n}
\* A schedule at r is behind one that has left to run after total.
Behind(arrival, length, n, left, total, r) ==
  /\ r.left \in [DOMAIN arrival -> Nat] /\ r.total \in Nat /\ total <= r.total
  /\ AheadOf(left, r.left, Arrived(arrival, n))
  /\ \A k \in DOMAIN arrival \ Arrived(arrival, n) : r.left[k] = length[k]
\* Some schedule is there, and the others are behind it.
Leads(arrival, length, n, left, total) ==
  /\ [left |-> left, total |-> total] \in Reach(arrival, length, n)
  /\ \A r \in Reach(arrival, length, n) : Behind(arrival, length, n, left, total, r)

\* One unit of the schedule that runs the job with the least left.
ShortestUnit(arrival, left, n, next) ==
  LET present == Present(arrival, left, n)
  IN \/ present = {} /\ next = left
     \/ \E j \in present : /\ \A k \in present : left[j] <= left[k]
                           /\ next = [left EXCEPT ![j] = @ - 1]

\* One unit of any schedule: a job runs or none, and those present wait.
LEMMA MoveFacts ==
  ASSUME NEW I, NEW arrival \in [I -> Nat], NEW n \in Nat, NEW r, r.left \in [I -> Nat],
         NEW m \in Moves(arrival, r, n)
  PROVE  /\ m.total = r.total + Cardinality(Present(arrival, r.left, n))
         /\ m.left \in [I -> Nat]
         /\ RunsAny(r.left, m.left, Arrived(arrival, n))
<1>0. DOMAIN r.left = I
  OBVIOUS
<1>1. PICK Y : Y = Present(arrival, r.left, n)
  OBVIOUS
<1>2. PICK l \in {r.left} \cup {[r.left EXCEPT ![j] = @ - 1] : j \in Y} :
        m = [left |-> l, total |-> r.total + Cardinality(Y)]
  BY <1>1, Zenon DEF Moves
<1>3. m.left = l /\ m.total = r.total + Cardinality(Y)
  BY <1>2
<1>4. CASE l = r.left
  <2>1. {} \in SUBSET Arrived(arrival, n) /\ Cardinality({}) <= 1
    BY FS_EmptySet
  <2>2. \A k \in I : r.left[k] = IF k \in {} THEN m.left[k] + 1 ELSE m.left[k]
    BY <1>3, <1>4
  <2> QED
    BY <1>0, <1>1, <1>3, <1>4, <2>1, <2>2 DEF RunsAny
<1>5. ASSUME NEW j \in Y, l = [r.left EXCEPT ![j] = @ - 1]
      PROVE  /\ m.left \in [I -> Nat]
             /\ {j} \in SUBSET Arrived(arrival, n) /\ Cardinality({j}) <= 1
             /\ \A k \in I : r.left[k] = IF k \in {j} THEN m.left[k] + 1 ELSE m.left[k]
  <2>1. j \in I /\ arrival[j] <= n /\ r.left[j] > 0 /\ r.left[j] \in Nat
    BY <1>1 DEF Present
  <2>2. PICK f \in [I -> Nat] : f = r.left
    OBVIOUS
  <2>3. m.left = [f EXCEPT ![j] = f[j] - 1] /\ f[j] > 0
    BY <1>3, <1>5, <2>1, <2>2
  <2>4. m.left \in [I -> Nat] /\ \A k \in I : f[k] = IF k \in {j} THEN m.left[k] + 1 ELSE m.left[k]
    BY <2>1, <2>3
  <2>5. {j} \in SUBSET Arrived(arrival, n) /\ Cardinality({j}) <= 1
    <3>1. Cardinality({j}) = 1
      BY FS_Singleton
    <3> QED
      BY <2>1, <3>1 DEF Arrived
  <2> QED
    BY <2>2, <2>4, <2>5
<1>6. ASSUME NEW j \in Y, l = [r.left EXCEPT ![j] = @ - 1]
      PROVE  m.left \in [I -> Nat] /\ RunsAny(r.left, m.left, Arrived(arrival, n))
  BY <1>0, <1>5, <1>6 DEF RunsAny
<1> QED
  BY <1>1, <1>2, <1>3, <1>4, <1>6

\* A schedule behind one that runs the shortest stays behind it.
LEMMA StaysBehind ==
  ASSUME NEW I, IsFiniteSet(I), NEW arrival \in [I -> Nat], NEW length \in [I -> Nat], NEW n \in Nat,
         NEW left \in [I -> Nat], NEW total \in Nat,
         \A k \in I \ Arrived(arrival, n) : left[k] = length[k],
         NEW next, ShortestUnit(arrival, left, n, next),
         NEW r, Behind(arrival, length, n, left, total, r), NEW m \in Moves(arrival, r, n)
  PROVE  Behind(arrival, length, n + 1, next, total + Cardinality(Present(arrival, left, n)), m)
<1>1. PICK A, B, X, Y : /\ A = Arrived(arrival, n) /\ B = Arrived(arrival, n + 1)
                        /\ X = Present(arrival, left, n) /\ Y = Present(arrival, r.left, n)
  OBVIOUS
<1>2. /\ DOMAIN arrival = I /\ A \in SUBSET I /\ B \in SUBSET I /\ A \subseteq B
      /\ X = {k \in A : left[k] > 0} /\ Y = {k \in A : r.left[k] > 0}
  <2>1. \A k \in I : arrival[k] \in Nat /\ (arrival[k] <= n => arrival[k] <= n + 1)
    OBVIOUS
  <2> QED
    BY <1>1, <2>1 DEF Arrived, Present
<1>3. /\ r.left \in [I -> Nat] /\ r.total \in Nat /\ total <= r.total /\ AheadOf(left, r.left, A)
      /\ \A k \in I \ A : r.left[k] = length[k]
  BY <1>1, <1>2 DEF Behind
<1>4. PICK b \in [I -> Nat], d \in [I -> Nat] : b = r.left /\ d = m.left /\ RunsAny(b, d, A)
  BY <1>1, <1>3, MoveFacts
<1>5. m.total = r.total + Cardinality(Y)
  BY <1>1, <1>3, MoveFacts
<1>6. PICK x \in Nat, y \in Nat : x = Cardinality(X) /\ y = Cardinality(Y) /\ x <= y
  <2>1. Cardinality({k \in A : left[k] > 0}) <= Cardinality({k \in A : b[k] > 0})
    BY <1>2, <1>3, <1>4, AheadCounts
  <2>2. IsFiniteSet(X) /\ IsFiniteSet(Y)
    <3>1. X \in SUBSET I /\ Y \in SUBSET I
      BY <1>2
    <3> QED
      BY <3>1, FS_Subset
  <2> QED
    BY <1>2, <1>4, <2>1, <2>2, FS_CardinalityType
<1>7. m.total \in Nat /\ total + x <= m.total
  BY <1>3, <1>5, <1>6
<1>8. AheadOf(left, b, A)
  BY <1>3, <1>4
<1>9. next \in [I -> Nat] /\ (\A k \in I \ A : next[k] = left[k]) /\ AheadOf(next, d, A)
  <2>1. CASE X = {} /\ next = left
    <3>1. \A k \in A : left[k] = 0
      BY <1>2, <2>1
    <3>2. AheadOf(left, d, A)
      BY <1>2, <3>1, AheadIdles
    <3> QED
      BY <2>1, <3>2
  <2>2. ASSUME NEW j \in X, \A k \in X : left[j] <= left[k], next = [left EXCEPT ![j] = @ - 1]
        PROVE  next \in [I -> Nat] /\ (\A k \in I \ A : next[k] = left[k]) /\ AheadOf(next, d, A)
    <3>1. j \in A /\ j \in I /\ left[j] > 0 /\ \A k \in A : left[k] > 0 => left[j] <= left[k]
      BY <1>2, <2>2
    <3>2. next \in [I -> Nat] /\ \A k \in I \ A : next[k] = left[k]
      BY <2>2, <3>1
    <3>3. PICK c \in [I -> Nat] : c = next
      BY <3>2
    <3>4. RunsShortest(left, c, A)
      BY <2>2, <3>1, <3>3 DEF RunsShortest
    <3>5. AheadOf(c, d, A)
      BY <1>2, <1>4, <1>8, <3>4, AheadRuns
    <3> QED
      BY <3>2, <3>3, <3>5
  <2>3. (X = {} /\ next = left) \/ \E j \in X : (\A k \in X : left[j] <= left[k]) /\ next = [left EXCEPT ![j] = @ - 1]
    BY <1>1 DEF ShortestUnit
  <2> QED
    BY <2>1, <2>2, <2>3
<1>10. \A k \in I \ A : d[k] = length[k] /\ next[k] = length[k]
  <2>1. \A k \in I \ A : left[k] = length[k]
    BY <1>1
  <2>2. \A k \in I \ A : d[k] = b[k]
    BY <1>4 DEF RunsAny
  <2>3. \A k \in I \ A : b[k] = length[k]
    BY <1>3, <1>4
  <2> QED
    BY <1>9, <2>1, <2>2, <2>3
<1>11. AheadOf(next, d, B)
  <2>1. \A k \in B \ A : next[k] = d[k]
    BY <1>2, <1>10
  <2>2. PICK c \in [I -> Nat] : c = next
    BY <1>9
  <2>3. AheadOf(c, d, A) /\ \A k \in B \ A : c[k] = d[k]
    BY <1>9, <2>1, <2>2
  <2>4. AheadOf(c, d, B)
    BY <1>2, <2>3, AheadGrows
  <2> QED
    BY <2>2, <2>4
<1> QED
  BY <1>1, <1>2, <1>4, <1>6, <1>7, <1>10, <1>11 DEF Behind

\* At time 0 all schedules are the same.
LEMMA LeadsStart ==
  ASSUME NEW I, IsFiniteSet(I), NEW arrival \in [I -> Nat], NEW length \in [I -> Nat]
  PROVE  Leads(arrival, length, 0, length, 0)
<1>1. Reach(arrival, length, 0) = {[left |-> length, total |-> 0]}
  BY ReachUnfold
<1>2. AheadOf(length, length, Arrived(arrival, 0))
  <2>1. Arrived(arrival, 0) \in SUBSET I
    BY DEF Arrived
  <2> SUFFICES ASSUME NEW Q \in SUBSET Arrived(arrival, 0) PROVE SumOver(length, Q) <= SumOver(length, Q)
    BY DEF AheadOf
  <2>2. SumOver(length, Q) \in Nat
    <3>1. Q \in SUBSET I
      BY <2>1
    <3> QED
      BY <3>1, SumFacts
  <2> QED
    BY <2>2
<1> QED
  BY <1>1, <1>2 DEF Leads, Behind

\* It leads on when it runs the job with the least left.
LEMMA LeadsOn ==
  ASSUME NEW I, IsFiniteSet(I), NEW arrival \in [I -> Nat], NEW length \in [I -> Nat], NEW n \in Nat,
         NEW left \in [I -> Nat], NEW total \in Nat, Leads(arrival, length, n, left, total),
         NEW next, ShortestUnit(arrival, left, n, next)
  PROVE  Leads(arrival, length, n + 1, next, total + Cardinality(Present(arrival, left, n)))
<1>1. Reach(arrival, length, n + 1) = UNION {Moves(arrival, r, n) : r \in Reach(arrival, length, n)}
  BY ReachUnfold
<1>2. PICK own : own = [left |-> left, total |-> total]
  OBVIOUS
<1>3. own \in Reach(arrival, length, n) /\ own.left = left /\ own.total = total
  BY <1>2 DEF Leads
<1>4. \A k \in I \ Arrived(arrival, n) : left[k] = length[k]
  <2>1. Behind(arrival, length, n, left, total, own)
    BY <1>3 DEF Leads
  <2> QED
    BY <1>3, <2>1 DEF Behind
<1>5. PICK X : X = Present(arrival, left, n)
  OBVIOUS
<1>6. [left |-> next, total |-> total + Cardinality(X)] \in Moves(arrival, own, n)
  <2>1. next = left \/ \E j \in X : next = [left EXCEPT ![j] = @ - 1]
    BY <1>5 DEF ShortestUnit
  <2>2. next \in {left} \cup {[left EXCEPT ![j] = @ - 1] : j \in X}
    BY <2>1
  <2> QED
    BY <1>3, <1>5, <2>2 DEF Moves
<1>7. [left |-> next, total |-> total + Cardinality(X)] \in Reach(arrival, length, n + 1)
  BY <1>1, <1>3, <1>6
<1>8. ASSUME NEW m \in Reach(arrival, length, n + 1)
      PROVE  Behind(arrival, length, n + 1, next, total + Cardinality(X), m)
  <2>1. PICK r \in Reach(arrival, length, n) : m \in Moves(arrival, r, n)
    BY <1>1
  <2>2. Behind(arrival, length, n, left, total, r)
    BY DEF Leads
  <2> QED
    BY <1>4, <1>5, <2>1, <2>2, StaysBehind
<1> QED
  BY <1>5, <1>7, <1>8 DEF Leads

\* The same with the total as the sum of what each job has been present.
LeadsWith(arrival, length, n, left, D) ==
  /\ left \in [DOMAIN arrival -> Nat] /\ D \in [DOMAIN arrival -> Nat]
  /\ Leads(arrival, length, n, left, SumOver(D, DOMAIN arrival))
UnitPasses(arrival, left, n, D, E) ==
  E = [k \in DOMAIN arrival |-> IF k \in Present(arrival, left, n) THEN D[k] + 1 ELSE D[k]]

\* A unit of the shortest, with the total kept job by job.
LEMMA LeadsUnit ==
  ASSUME NEW I, IsFiniteSet(I), NEW arrival \in [I -> Nat], NEW length \in [I -> Nat], NEW n \in Nat,
         NEW left, NEW D, LeadsWith(arrival, length, n, left, D),
         NEW next, ShortestUnit(arrival, left, n, next), NEW E, UnitPasses(arrival, left, n, D, E)
  PROVE  LeadsWith(arrival, length, n + 1, next, E)
<1>1. PICK X : X = Present(arrival, left, n)
  OBVIOUS
<1>2. /\ left \in [I -> Nat] /\ D \in [I -> Nat] /\ Leads(arrival, length, n, left, SumOver(D, I))
  BY DEF LeadsWith
<1>3. /\ I \in SUBSET I /\ X \in SUBSET I /\ E \in [I -> Nat]
      /\ \A k \in I : E[k] = IF k \in X THEN D[k] + 1 ELSE D[k]
  <2>1. X \in SUBSET I
    BY <1>1 DEF Present
  <2>2. E = [k \in I |-> IF k \in X THEN D[k] + 1 ELSE D[k]]
    BY <1>1 DEF UnitPasses
  <2> QED
    BY <1>2, <2>1, <2>2
<1>4. SumOver(E, I) = SumOver(D, I) + Cardinality(X)
  BY ONLY IsFiniteSet(I), <1>2, <1>3, SumRaised
<1>5. PICK total \in Nat : total = SumOver(D, I)
  BY <1>2, <1>3, SumFacts
<1>6. Leads(arrival, length, n + 1, next, total + Cardinality(X))
  BY <1>1, <1>2, <1>5, LeadsOn
<1>7. next \in [I -> Nat]
  <2>1. ASSUME NEW j \in X, next = [left EXCEPT ![j] = @ - 1] PROVE next \in [I -> Nat]
    <3>1. j \in I /\ left[j] \in Nat /\ left[j] > 0
      BY <1>1, <1>2 DEF Present
    <3> QED
      BY <1>2, <2>1, <3>1
  <2> QED
    BY <1>1, <1>2, <2>1 DEF ShortestUnit
<1> QED
  BY <1>3, <1>4, <1>5, <1>6, <1>7 DEF LeadsWith

\* A job that has the least left may run to its end, if all jobs have arrived.
Remaining(left, j, u) == [left EXCEPT ![j] = @ - u]
Later(D, X, u) == [k \in DOMAIN D |-> IF k \in X THEN D[k] + u ELSE D[k]]

\* When all jobs have arrived the shortest may run to its end: it stays the shortest.
LEMMA LeadsThrough ==
  ASSUME NEW I, IsFiniteSet(I), NEW arrival \in [I -> Nat], NEW length \in [I -> Nat], NEW n \in Nat,
         NEW left, NEW D, LeadsWith(arrival, length, n, left, D),
         \A k \in I : arrival[k] <= n,
         NEW X, X = Present(arrival, left, n),
         NEW j \in X, \A k \in X : left[j] <= left[k]
  PROVE  LeadsWith(arrival, length, n + left[j], Remaining(left, j, left[j]), Later(D, X, left[j]))
<1> DEFINE Holds(u) == LeadsWith(arrival, length, n + u, Remaining(left, j, u), Later(D, X, u))
           Missing == {u \in 0..left[j] : ~Holds(u)}
<1>0. left \in [I -> Nat] /\ D \in [I -> Nat]
  BY DEF LeadsWith
<1>1. j \in I /\ left[j] \in Nat /\ X \in SUBSET I /\ \A k \in X : left[k] > 0
  BY <1>0 DEF Present
<1>2. Holds(0)
  <2>1. Remaining(left, j, 0) = left
    BY <1>0, <1>1 DEF Remaining
  <2>2. Later(D, X, 0) = D
    BY <1>0 DEF Later
  <2> QED
    BY <2>1, <2>2
<1>3. ASSUME NEW u \in 0..left[j], u < left[j], Holds(u) PROVE Holds(u + 1)
  <2>1. u \in Nat /\ n + u \in Nat /\ (n + u) + 1 = n + (u + 1) /\ u + 1 \in Nat
    BY <1>1
  <2>2. PICK a, c : a = Remaining(left, j, u) /\ c = Remaining(left, j, u + 1)
    OBVIOUS
  <2>3. /\ a \in [I -> Nat] /\ a[j] = left[j] - u /\ \A k \in I : k # j => a[k] = left[k]
        /\ c = [a EXCEPT ![j] = @ - 1]
    <3>1. a = [left EXCEPT ![j] = left[j] - u] /\ c = [left EXCEPT ![j] = left[j] - (u + 1)]
      BY <2>2 DEF Remaining
    <3>2. left[j] - u \in Nat /\ left[j] - (u + 1) = (left[j] - u) - 1
      BY <1>1, <1>3, <2>1
    <3>3. a \in [I -> Nat] /\ a[j] = left[j] - u /\ \A k \in I : k # j => a[k] = left[k]
      BY <1>0, <1>1, <3>1, <3>2
    <3>4. c = [a EXCEPT ![j] = a[j] - 1]
      BY <1>0, <1>1, <3>1, <3>2, <3>3
    <3> QED
      BY <3>3, <3>4
  <2>4. Present(arrival, a, n + u) = X
    <3>1. \A k \in I : arrival[k] <= n + u /\ (a[k] > 0 <=> left[k] > 0)
      <4>1. \A k \in I : arrival[k] \in Nat /\ arrival[k] <= n + u
        BY <2>1
      <4>2. left[j] > 0 /\ a[j] > 0
        BY <1>1, <1>3, <2>1, <2>3
      <4> QED
        BY <2>3, <4>1, <4>2
    <3> QED
      BY <3>1 DEF Present
  <2>5. ShortestUnit(arrival, a, n + u, c)
    <3>1. \A k \in X : a[j] <= a[k]
      <4> TAKE k \in X
      <4>1. left[j] <= left[k] /\ left[k] \in Nat /\ k \in I
        BY <1>0, <1>1
      <4> QED
        BY <1>1, <2>1, <2>3, <4>1
    <3> QED
      BY <2>3, <2>4, <3>1 DEF ShortestUnit
  <2>6. PICK F, G : F = Later(D, X, u) /\ G = Later(D, X, u + 1)
    OBVIOUS
  <2>7. UnitPasses(arrival, a, n + u, F, G)
    <3>1. /\ F = [k \in I |-> IF k \in X THEN D[k] + u ELSE D[k]]
          /\ G = [k \in I |-> IF k \in X THEN D[k] + (u + 1) ELSE D[k]]
      BY <1>0, <2>6 DEF Later
    <3>2. \A k \in I : D[k] \in Nat /\ D[k] + (u + 1) = (D[k] + u) + 1
      BY <1>0, <2>1
    <3>3. G = [k \in I |-> IF k \in X THEN F[k] + 1 ELSE F[k]]
      BY <3>1, <3>2
    <3> QED
      BY <2>4, <3>3 DEF UnitPasses
  <2>8. LeadsWith(arrival, length, n + u, a, F)
    BY <1>3, <2>2, <2>6
  <2>9. LeadsWith(arrival, length, (n + u) + 1, c, G)
    BY <2>1, <2>5, <2>7, <2>8, LeadsUnit
  <2> QED
    BY <2>1, <2>2, <2>6, <2>9
<1>4. Missing = {}
  <2> SUFFICES ASSUME Missing # {} PROVE FALSE
    OBVIOUS
  <2> HIDE DEF Holds
  <2>1. Missing \in SUBSET Nat
    OBVIOUS
  <2>2. PICK u \in Missing : \A k \in Missing : u <= k
    <3> HIDE DEF Missing
    <3> QED
      BY <2>1, LeastNat
  <2>3. u \in 0..left[j] /\ u # 0
    BY <1>2, <2>2
  <2>4. u - 1 \in 0..left[j] /\ u - 1 < left[j] /\ (u - 1) + 1 = u /\ ~(u <= u - 1)
    BY <1>1, <2>3
  <2>5. Holds(u - 1)
    BY <2>2, <2>4
  <2>6. Holds((u - 1) + 1)
    BY <1>3, <2>4, <2>5
  <2> QED
    BY <2>2, <2>4, <2>6
<1>5. left[j] \in 0..left[j]
  BY <1>1
<1> HIDE DEF Holds
<1>6. Holds(left[j])
  BY <1>4, <1>5
<1> QED
  BY <1>6 DEF Holds

-----------------------------------------------------------------------------
(* STCF and SJF are schedules that no other one beats. *)

Arrivals == [j \in Ids |-> jobs[j].arrival]
Lengths == [j \in Ids |-> jobs[j].length]
\* What the policy has still to run, and how long each job has been present.
Left == [j \in Ids |-> IF j \in Done THEN 0 ELSE IF pname = "SJF" THEN jobs[j].length ELSE jobs[j].time_left]
Delay == [j \in Ids |-> IF j \in Done THEN jobs[j].turnaroundTime
                        ELSE IF jobs[j].arrival <= time THEN time - jobs[j].arrival ELSE 0]

Together == \A j, k \in Ids : jobs[j].arrival = jobs[k].arrival
Contest == pname = "STCF" \/ (pname = "SJF" /\ Together)

OptInv ==
  pc \in {"policy", "done"} /\ Contest =>
    /\ \A j \in Done : jobs[j].turnaroundTime \in Nat
    /\ LeadsWith(Arrivals, Lengths, time, Left, Delay)

\* The policy's variables as a schedule: those present are those ready.
LEMMA OwnFacts ==
  ASSUME IInv, pname \in {"SJF", "STCF"}
  PROVE  /\ IsFiniteSet(Ids) /\ time \in Nat /\ Done \subseteq Ids /\ Ready \subseteq Ids
         /\ Arrivals \in [Ids -> Nat] /\ Lengths \in [Ids -> Nat] /\ Left \in [Ids -> Nat]
         /\ (\A j \in Done : jobs[j].turnaroundTime \in Nat) => Delay \in [Ids -> Nat]
         /\ Present(Arrivals, Left, time) = Ready
         /\ Ready = {k \in Ids \ Done : jobs[k].arrival <= time}
<1>1. Shapes /\ IsFiniteSet(Ids) /\ time \in Nat /\ Done \subseteq Ids /\ Ready \subseteq Ids
  BY IdsFinite, DoneFacts DEF IInv, Shapes, Ready
<1>2. \A j \in Ids : /\ jobs[j].arrival \in Nat /\ jobs[j].length \in Nat \ {0}
                     /\ j \notin Done => jobs[j].time_left \in Nat \ {0}
  <2> TAKE j \in Ids
  <2>1. jobs[j].arrival \in Nat /\ jobs[j].length \in Nat \ {0} /\ jobs[j].time_left \in Int
    BY <1>1, JobFacts
  <2>2. j \notin Done => jobs[j].time_left > 0
    BY <1>1 DEF IInv, GoodInv, Good, WorkLeft, Shapes
  <2> QED
    BY <2>1, <2>2
<1>3. Ready = {k \in Ids \ Done : jobs[k].arrival <= time}
  BY <1>1, DoneFacts
<1>4. /\ Arrivals \in [Ids -> Nat] /\ Lengths \in [Ids -> Nat] /\ Left \in [Ids -> Nat]
      /\ \A j \in Ids : Left[j] > 0 <=> j \notin Done
  BY <1>2 DEF Arrivals, Lengths, Left
<1>5. ASSUME \A j \in Done : jobs[j].turnaroundTime \in Nat PROVE Delay \in [Ids -> Nat]
  <2>1. \A j \in Ids : jobs[j].arrival <= time => time - jobs[j].arrival \in Nat
    BY <1>1, <1>2
  <2> QED
    BY <1>5, <2>1 DEF Delay
<1>6. Present(Arrivals, Left, time) = Ready
  <2>1. DOMAIN Arrivals = Ids /\ \A k \in Ids : Arrivals[k] = jobs[k].arrival
    BY DEF Arrivals
  <2> QED
    BY <1>3, <1>4, <2>1 DEF Present
<1> QED
  BY <1>1, <1>3, <1>4, <1>5, <1>6

\* What a turn of SJF does to its job.
LEMMA SjfTurn ==
  ASSUME IInv, SjfRun
  PROVE  \E j \in Ready :
           /\ \A k \in Ready : jobs[j].length <= jobs[k].length
           /\ pname' = pname /\ Ids' = Ids /\ time' = time + jobs[j].length /\ Done' = Done \cup {j}
           /\ \A k \in Ids : /\ jobs'[k].arrival = jobs[k].arrival /\ jobs'[k].length = jobs[k].length
                             /\ k # j => jobs'[k] = jobs[k]
           /\ jobs'[j].turnaroundTime = time' - jobs[j].arrival
<1>1. PICK j : j = Least([k \in Ids |-> jobs[k].length])
  OBVIOUS
<1> DEFINE job == jobs[j]
           end == time + job.length
<1>2. PICK r : r = Ended(Started(job), end)
  OBVIOUS
<1>3. /\ pname = "SJF" /\ Ready # {} /\ jobs' = [jobs EXCEPT ![j] = r] /\ time' = end
      /\ UNCHANGED <<pname, numofjobs>>
  BY <1>1, <1>2 DEF SjfRun, Turn, args
<1>4. Shapes /\ time \in Nat /\ Ids' = Ids /\ DOMAIN jobs = Ids
  BY <1>3 DEF IInv, Shapes, Ids
<1>5. j \in Ready /\ \A k \in Ready : jobs[j].length <= jobs[k].length
  <2>1. PICK f : f = [k \in Ids |-> jobs[k].length]
    OBVIOUS
  <2>2. \A k \in Ready : k \in Ids /\ f[k] = jobs[k].length /\ f[k] \in Nat
    BY <1>4, <2>1, JobFacts DEF Ready
  <2>3. j \in Ready /\ \A k \in Ready : f[j] < f[k] \/ (f[j] = f[k] /\ j <= k)
    BY <1>1, <1>3, <1>4, <2>1, <2>2, LeastFacts
  <2> QED
    BY <2>2, <2>3
<1>6. j \in Ids /\ job \in JobType /\ end \in Nat
  BY <1>3, <1>4, <1>5, DoneFacts, JobFacts
<1>7. PICK s : s = Started(job)
  OBVIOUS
<1>8. s \in JobType /\ s.arrival = job.arrival /\ s.length = job.length
  BY <1>4, <1>6, <1>7, StartedFacts DEF HasRun
<1>9. /\ r.arrival = job.arrival /\ r.length = job.length /\ r.is_completed
      /\ r.turnaroundTime = end - job.arrival
  <2>1. r = Ended(s, end)
    BY <1>2, <1>7
  <2>2. SameJob(r, s) /\ r.is_completed /\ r.turnaroundTime = end - s.arrival
    BY <1>6, <1>8, <2>1, MeasuredFacts
  <2> QED
    BY <1>8, <2>2 DEF SameJob
<1>10. Done' = Done \cup {j}
  BY <1>3, <1>4, <1>6, <1>9, MarkFacts
<1> QED
  BY <1>3, <1>4, <1>5, <1>6, <1>9, <1>10

\* What a turn of STCF does to its job.
LEMMA StcfTurn ==
  ASSUME IInv, StcfRun
  PROVE  \E j \in Ready :
           /\ \A k \in Ready : jobs[j].time_left <= jobs[k].time_left
           /\ pname' = pname /\ Ids' = Ids /\ time' = time + 1
           /\ Done' = IF jobs[j].time_left = 1 THEN Done \cup {j} ELSE Done
           /\ \A k \in Ids : /\ jobs'[k].arrival = jobs[k].arrival /\ jobs'[k].length = jobs[k].length
                             /\ k # j => jobs'[k] = jobs[k]
           /\ jobs'[j].time_left = jobs[j].time_left - 1
           /\ jobs[j].time_left = 1 => jobs'[j].turnaroundTime = time' - jobs[j].arrival
<1>1. PICK j : j = Least([k \in Ids |-> jobs[k].time_left])
  OBVIOUS
<1> DEFINE job == jobs[j]
<1>2. PICK a : a = [Started(job) EXCEPT !.time_left = @ - 1]
  OBVIOUS
<1>3. PICK r : r = IF a.time_left = 0 THEN Ended(a, time + 1) ELSE a
  OBVIOUS
<1>4. /\ pname = "STCF" /\ Ready # {} /\ jobs' = [jobs EXCEPT ![j] = r] /\ time' = time + 1
      /\ UNCHANGED <<pname, numofjobs>>
  BY <1>1, <1>2, <1>3 DEF StcfRun, Turn, args
<1>5. Shapes /\ time \in Nat /\ time + 1 \in Nat /\ Ids' = Ids /\ DOMAIN jobs = Ids
  BY <1>4 DEF IInv, Shapes, Ids
<1>6. j \in Ready /\ \A k \in Ready : jobs[j].time_left <= jobs[k].time_left
  <2>1. PICK f : f = [k \in Ids |-> jobs[k].time_left]
    OBVIOUS
  <2>2. \A k \in Ready : k \in Ids /\ f[k] = jobs[k].time_left /\ f[k] \in Nat
    BY <1>4, <2>1, ReadyFacts
  <2>3. j \in Ready /\ \A k \in Ready : f[j] < f[k] \/ (f[j] = f[k] /\ j <= k)
    BY <1>1, <1>4, <1>5, <2>1, <2>2, LeastFacts
  <2> QED
    BY <2>2, <2>3
<1>7. j \in Ids /\ job \in JobType /\ job.time_left \in Nat \ {0} /\ ~job.is_completed
  BY <1>4, <1>6, ReadyFacts
<1>8. PICK s : s = Started(job)
  OBVIOUS
<1>9. /\ s \in JobType /\ s.arrival = job.arrival /\ s.length = job.length
      /\ s.time_left = job.time_left /\ s.is_completed = job.is_completed
  BY <1>5, <1>7, <1>8, StartedFacts DEF HasRun
<1>10. /\ a \in JobType /\ a.arrival = job.arrival /\ a.length = job.length
       /\ a.time_left = job.time_left - 1 /\ a.is_completed = job.is_completed
  <2>1. PICK left \in Int : left = job.time_left - 1
    BY <1>7
  <2>2. a = [s EXCEPT !.time_left = left]
    BY <1>2, <1>8, <1>9, <2>1
  <2> QED
    BY <1>9, <2>1, <2>2, LessFacts
<1>11. CASE job.time_left = 1
  <2>1. r = Ended(a, time + 1)
    BY <1>3, <1>10, <1>11
  <2>2. /\ r.arrival = job.arrival /\ r.length = job.length /\ r.is_completed
        /\ r.time_left = job.time_left - 1 /\ r.turnaroundTime = (time + 1) - job.arrival
    BY <1>5, <1>10, <2>1, MeasuredFacts DEF SameJob
  <2>3. Done' = Done \cup {j}
    BY <1>4, <1>5, <1>7, <2>2, MarkFacts
  <2> QED
    BY <1>4, <1>5, <1>6, <1>7, <1>11, <2>2, <2>3
<1>12. CASE job.time_left # 1
  <2>1. r = a
    BY <1>3, <1>7, <1>10, <1>12
  <2>2. Done' = Done
    BY <1>4, <1>5, <1>7, <1>10, <2>1, MarkFacts
  <2> QED
    BY <1>4, <1>5, <1>6, <1>7, <1>10, <1>12, <2>1, <2>2
<1> QED
  BY <1>11, <1>12

\* Delay after a step that keeps the list.
LEMMA DelayIs ==
  ASSUME Ids' = Ids
  PROVE  /\ Delay' = [k \in Ids |-> Delay'[k]]
         /\ \A k \in Ids : Delay'[k] = IF k \in Done' THEN jobs'[k].turnaroundTime
                                     ELSE IF jobs'[k].arrival <= time' THEN time' - jobs'[k].arrival ELSE 0
  BY Zenon DEF Delay

\* The same where the clock and the arrival are known.
LEMMA DelayAt ==
  ASSUME Ids' = Ids, NEW now, time' = now, NEW k \in Ids, jobs'[k].arrival = jobs[k].arrival
  PROVE  Delay'[k] = IF k \in Done' THEN jobs'[k].turnaroundTime
                     ELSE IF jobs[k].arrival <= now THEN now - jobs[k].arrival ELSE 0
<1>1. Delay'[k] = IF k \in Done' THEN jobs'[k].turnaroundTime
                  ELSE IF jobs'[k].arrival <= time' THEN time' - jobs'[k].arrival ELSE 0
  BY DelayIs
<1> QED
  BY <1>1, Zenon

\* A step that leaves the jobs and the clock alone, and one to another state of the run.
LEMMA OptSame ==
  ASSUME IInv, OptInv, pc = "policy" \/ pc = "done", UNCHANGED <<pname, time>>, Ids' = Ids, Done' = Done,
         \A k \in Ids : /\ jobs'[k].arrival = jobs[k].arrival /\ jobs'[k].length = jobs[k].length
                        /\ jobs'[k].time_left = jobs[k].time_left
                        /\ jobs'[k].turnaroundTime = jobs[k].turnaroundTime
  PROVE  OptInv'
<1>1. Done \subseteq Ids
  BY DoneFacts DEF IInv
<1>2. /\ Arrivals' = Arrivals /\ Lengths' = Lengths /\ Left' = Left /\ Delay' = Delay
      /\ Contest' => Contest
  BY <1>1 DEF Arrivals, Lengths, Left, Delay, Contest, Together
<1> SUFFICES ASSUME Contest'
             PROVE  /\ \A j \in Done' : jobs'[j].turnaroundTime \in Nat
                    /\ LeadsWith(Arrivals', Lengths', time', Left', Delay')
  BY DEF OptInv
<1>3. /\ \A j \in Done : jobs[j].turnaroundTime \in Nat
      /\ LeadsWith(Arrivals, Lengths, time, Left, Delay)
  BY <1>2 DEF OptInv
<1> QED
  BY <1>1, <1>2, <1>3

\* The policies start where every schedule does.
LEMMA OptStart == ASSUME IInv, IInv', StartPolicy PROVE OptInv'
<1> SUFFICES ASSUME Contest'
             PROVE  /\ \A j \in Done' : jobs'[j].turnaroundTime \in Nat
                    /\ LeadsWith(Arrivals', Lengths', time', Left', Delay')
  BY DEF OptInv
<1>1. /\ pc = "read" /\ pname' \in {"SJF", "STCF"} /\ time' = 0
      /\ UNCHANGED <<pname, numofjobs, jobs>>
  BY DEF StartPolicy, args, table, Contest
<1>2. \A j \in Ids' : ~jobs'[j].is_completed /\ jobs'[j].time_left = jobs'[j].length
  BY <1>1 DEF IInv, ReadInv, Ids
<1>3. Done' = {}
  BY <1>1, <1>2 DEF Done
<1>4. /\ Ids' = Ids /\ Done = {} /\ Arrivals' = Arrivals /\ Lengths' = Lengths
      /\ \A k \in Ids : jobs[k].arrival \in Nat
  <2>1. Ids' = Ids /\ Done' = Done
    BY <1>1 DEF Ids, Done
  <2>2. \A k \in Ids : jobs[k].arrival \in Nat
    BY JobFacts DEF IInv
  <2> QED
    BY <1>1, <1>3, <2>1, <2>2 DEF Arrivals, Lengths
<1>5. PICK I, A, L : I = Ids /\ A = Arrivals /\ L = Lengths
  OBVIOUS
<1>12. IsFiniteSet(I) /\ A \in [I -> Nat] /\ L \in [I -> Nat]
  BY <1>1, <1>5, OwnFacts
<1>6. Left' = L
  <2>1. Left' = [k \in Ids |-> jobs'[k].length]
    BY <1>2, <1>3, <1>4 DEF Left
  <2> QED
    BY <1>1, <1>5, <2>1 DEF Lengths
<1>7. \A k \in I : Delay'[k] = 0
  <2> SUFFICES ASSUME NEW k \in Ids PROVE Delay'[k] = 0
    BY <1>5
  <2>1. Delay'[k] = IF jobs[k].arrival <= 0 THEN 0 - jobs[k].arrival ELSE 0
    BY <1>1, <1>3, <1>4, DelayIs
  <2> QED
    BY <1>4, <2>1
<1>8. PICK D \in [I -> Nat] : D = Delay'
  <2>1. Delay' = [k \in Ids |-> Delay'[k]]
    BY <1>4, DelayIs
  <2> QED
    BY <1>5, <1>7, <2>1
<1>9. SumOver(D, I) = 0
  <2>1. I \in SUBSET I /\ \A k \in I : D[k] = 0
    BY <1>7, <1>8
  <2> QED
    BY <1>12, <2>1, SumZero
<1>10. Leads(A, L, 0, L, 0)
  BY <1>12, LeadsStart
<1>11. LeadsWith(A, L, 0, L, D)
  BY <1>9, <1>10, <1>12 DEF LeadsWith
<1> QED
  BY <1>1, <1>3, <1>4, <1>5, <1>6, <1>8, <1>11

\* With nobody ready all schedules idle.
LEMMA OptIdle == ASSUME IInv, OptInv, Idle PROVE OptInv'
<1>1. /\ pc = "policy" /\ pname \in {"SJF", "STCF"} /\ Ready = {} /\ time' = time + 1
      /\ UNCHANGED <<pname, numofjobs, jobs>>
  BY DEF Idle, Turn, args, table
<1>2. /\ IsFiniteSet(Ids) /\ time \in Nat /\ Done \subseteq Ids
      /\ Arrivals \in [Ids -> Nat] /\ Lengths \in [Ids -> Nat] /\ Left \in [Ids -> Nat]
      /\ Present(Arrivals, Left, time) = {}
      /\ {k \in Ids \ Done : jobs[k].arrival <= time} = {}
  BY <1>1, OwnFacts
<1>3. /\ Ids' = Ids /\ Done' = Done /\ Arrivals' = Arrivals /\ Lengths' = Lengths /\ Left' = Left
      /\ Contest' => Contest
  BY <1>1, Zenon DEF Ids, Done, Arrivals, Lengths, Left, Contest, Together
<1>4. Delay' = Delay
  <2>1. \A k \in Ids \ Done : jobs[k].arrival \in Nat
    BY <1>2 DEF Arrivals
  <2>2. ASSUME NEW k \in Ids \ Done
        PROVE  (IF jobs[k].arrival <= time + 1 THEN (time + 1) - jobs[k].arrival ELSE 0)
                 = (IF jobs[k].arrival <= time THEN time - jobs[k].arrival ELSE 0)
    <3>1. ~(jobs[k].arrival <= time) /\ jobs[k].arrival \in Nat
      BY <1>2, <2>1, <2>2
    <3> QED
      BY <1>2, <3>1
  <2>3. Delay' = [k \in Ids |-> Delay'[k]] /\ Delay = [k \in Ids |-> Delay[k]]
    BY <1>3, DelayIs DEF Delay
  <2>4. ASSUME NEW k \in Ids PROVE Delay'[k] = Delay[k]
    <3>1. Delay'[k] = IF k \in Done THEN jobs[k].turnaroundTime
                      ELSE IF jobs[k].arrival <= time + 1 THEN (time + 1) - jobs[k].arrival ELSE 0
      <4>1. Ids' = Ids /\ time' = time + 1 /\ jobs'[k].arrival = jobs[k].arrival
        BY <1>1, <1>3, Zenon
      <4>2. Delay'[k] = IF k \in Done' THEN jobs'[k].turnaroundTime
                        ELSE IF jobs[k].arrival <= time + 1 THEN (time + 1) - jobs[k].arrival ELSE 0
        BY <2>4, <4>1, DelayAt, Zenon
      <4> QED
        BY <1>1, <1>3, <4>2, Zenon
    <3>2. Delay[k] = IF k \in Done THEN jobs[k].turnaroundTime
                     ELSE IF jobs[k].arrival <= time THEN time - jobs[k].arrival ELSE 0
      BY DEF Delay
    <3> QED
      BY <2>2, <3>1, <3>2
  <2> QED
    BY <2>3, <2>4
<1> SUFFICES ASSUME Contest'
             PROVE  /\ \A j \in Done' : jobs'[j].turnaroundTime \in Nat
                    /\ LeadsWith(Arrivals', Lengths', time', Left', Delay')
  BY DEF OptInv
<1>5. /\ \A j \in Done : jobs[j].turnaroundTime \in Nat
      /\ LeadsWith(Arrivals, Lengths, time, Left, Delay)
  BY <1>1, <1>3 DEF OptInv
<1>6. ShortestUnit(Arrivals, Left, time, Left)
  BY <1>2 DEF ShortestUnit
<1>7. UnitPasses(Arrivals, Left, time, Delay, Delay)
  <2>1. Delay \in [Ids -> Nat] /\ DOMAIN Arrivals = Ids
    BY <1>2, <1>5 DEF LeadsWith
  <2>2. Delay = [k \in Ids |-> Delay[k]]
    BY <2>1
  <2> QED
    BY <1>2, <2>1, <2>2 DEF UnitPasses
<1>8. LeadsWith(Arrivals, Lengths, time + 1, Left, Delay)
  BY <1>2, <1>5, <1>6, <1>7, LeadsUnit
<1> QED
  BY <1>1, <1>3, <1>4, <1>5, <1>8

\* A turn of STCF is a unit of the shortest job.
LEMMA OptStcf == ASSUME IInv, OptInv, StcfRun PROVE OptInv'
<1>1. pc = "policy" /\ pname = "STCF"
  BY DEF StcfRun, Turn
<1>2. PICK j \in Ready :
        /\ \A k \in Ready : jobs[j].time_left <= jobs[k].time_left
        /\ pname' = pname /\ Ids' = Ids /\ time' = time + 1
        /\ Done' = IF jobs[j].time_left = 1 THEN Done \cup {j} ELSE Done
        /\ \A k \in Ids : /\ jobs'[k].arrival = jobs[k].arrival /\ jobs'[k].length = jobs[k].length
                          /\ k # j => jobs'[k] = jobs[k]
        /\ jobs'[j].time_left = jobs[j].time_left - 1
        /\ jobs[j].time_left = 1 => jobs'[j].turnaroundTime = time' - jobs[j].arrival
  BY StcfTurn
<1>3. /\ IsFiniteSet(Ids) /\ time \in Nat /\ Done \subseteq Ids /\ Ready \subseteq Ids
      /\ Arrivals \in [Ids -> Nat] /\ Lengths \in [Ids -> Nat] /\ Left \in [Ids -> Nat]
      /\ Present(Arrivals, Left, time) = Ready
      /\ Ready = {k \in Ids \ Done : jobs[k].arrival <= time}
  BY <1>1, OwnFacts
<1>4. \A k \in Ready : /\ jobs[k].time_left \in Nat \ {0} /\ jobs[k].arrival \in Nat
                       /\ jobs[k].arrival <= time /\ k \in Ids /\ k \notin Done
  BY <1>1, ReadyFacts
<1>5. /\ \A i \in Done : jobs[i].turnaroundTime \in Nat
      /\ LeadsWith(Arrivals, Lengths, time, Left, Delay)
  BY <1>1 DEF OptInv, Contest
<1>6. Arrivals' = Arrivals /\ Lengths' = Lengths
  BY <1>2 DEF Arrivals, Lengths
<1>7. ShortestUnit(Arrivals, Left, time, Left')
  <2>1. \A k \in Ready : Left[k] = jobs[k].time_left
    BY <1>1, <1>4 DEF Left
  <2>2. Left' = [Left EXCEPT ![j] = Left[j] - 1]
    <3>1. Left' = [k \in Ids |-> IF k \in Done' THEN 0 ELSE jobs'[k].time_left]
      BY <1>1, <1>2 DEF Left
    <3>2. Left = [k \in Ids |-> IF k \in Done THEN 0 ELSE jobs[k].time_left]
      BY <1>1 DEF Left
    <3>3. (IF j \in Done' THEN 0 ELSE jobs'[j].time_left) = Left[j] - 1
      BY <1>2, <1>4, <2>1
    <3>4. \A k \in Ids : k # j => (IF k \in Done' THEN 0 ELSE jobs'[k].time_left) = Left[k]
      BY <1>2, <3>2
    <3> QED
      BY <1>4, <3>1, <3>2, <3>3, <3>4
  <2>3. \A k \in Ready : Left[j] <= Left[k]
    BY <1>2, <2>1
  <2> QED
    BY <1>3, <2>2, <2>3 DEF ShortestUnit
<1>8. UnitPasses(Arrivals, Left, time, Delay, Delay')
  <2>2. ASSUME NEW k \in Ids
        PROVE  Delay'[k] = IF k \in Ready THEN Delay[k] + 1 ELSE Delay[k]
    <3>0. jobs[k].arrival \in Nat
      BY <1>3 DEF Arrivals
    <3>4. Delay'[k] = IF k \in Done' THEN jobs'[k].turnaroundTime
                      ELSE IF jobs[k].arrival <= time + 1 THEN (time + 1) - jobs[k].arrival ELSE 0
      <4>1. Ids' = Ids /\ time' = time + 1 /\ jobs'[k].arrival = jobs[k].arrival
        BY <1>2
      <4> QED
        BY <2>2, <4>1, DelayAt, Zenon
    <3>1. CASE k \in Ready
      <4>1. Delay[k] = time - jobs[k].arrival /\ (time - jobs[k].arrival) + 1 = (time + 1) - jobs[k].arrival
            /\ jobs[k].arrival <= time + 1
        BY <1>3, <1>4, <3>0, <3>1 DEF Delay
      <4>2. k \in Done' => jobs'[k].turnaroundTime = (time + 1) - jobs[k].arrival
        <5>1. k \in Done' => k = j /\ jobs[j].time_left = 1
          BY <1>2, <1>4, <3>1
        <5>2. ASSUME k \in Done' PROVE jobs'[k].turnaroundTime = (time + 1) - jobs[k].arrival
          <6>1. jobs'[j].turnaroundTime = time' - jobs[j].arrival /\ time' = time + 1 /\ k = j
            BY <1>2, <5>1, <5>2
          <6> QED
            BY <6>1, Zenon
        <5> QED
          BY <5>2
      <4> QED
        BY <3>1, <3>4, <4>1, <4>2
    <3>2. CASE k \in Done
      <4>1. k \notin Ready /\ k # j /\ k \in Done' /\ Delay[k] = jobs[k].turnaroundTime
        BY <1>2, <1>3, <3>2 DEF Delay
      <4>2. jobs'[k] = jobs[k]
        BY <1>2, <4>1
      <4> QED
        BY <3>4, <4>1, <4>2
    <3>3. CASE k \notin Ready /\ k \notin Done
      <4>1. ~(jobs[k].arrival <= time) /\ k \notin Done' /\ Delay[k] = 0
        BY <1>2, <1>3, <3>3 DEF Delay
      <4> QED
        BY <1>3, <3>0, <3>3, <3>4, <4>1
    <3> QED
      BY <3>1, <3>2, <3>3
  <2>1. Delay' = [k \in Ids |-> Delay'[k]]
    BY <1>2, DelayIs
  <2>3. DOMAIN Arrivals = Ids
    BY <1>3
  <2>4. Delay' = [k \in Ids |-> IF k \in Ready THEN Delay[k] + 1 ELSE Delay[k]]
    BY <2>1, <2>2
  <2> QED
    BY <1>3, <2>3, <2>4 DEF UnitPasses
<1>9. PICK next, E : next = Left' /\ E = Delay'
  OBVIOUS
<1>10. LeadsWith(Arrivals, Lengths, time + 1, next, E)
  <2>1. ShortestUnit(Arrivals, Left, time, next) /\ UnitPasses(Arrivals, Left, time, Delay, E)
    BY <1>7, <1>8, <1>9
  <2> QED
    BY <1>3, <1>5, <2>1, LeadsUnit
<1>11. \A i \in Done' : jobs'[i].turnaroundTime \in Nat
  <2> TAKE i \in Done'
  <2>1. CASE i = j
    BY <1>2, <1>3, <1>4, <2>1
  <2>2. CASE i # j
    BY <1>2, <1>3, <1>5, <2>2
  <2> QED
    BY <2>1, <2>2
<1> QED
  BY <1>2, <1>6, <1>9, <1>10, <1>11 DEF OptInv

\* A turn of SJF is its job run through, all jobs having arrived.
LEMMA OptSjf == ASSUME IInv, OptInv, SjfRun PROVE OptInv'
<1>1. pc = "policy" /\ pname = "SJF"
  BY DEF SjfRun, Turn
<1>2. PICK j \in Ready :
        /\ \A k \in Ready : jobs[j].length <= jobs[k].length
        /\ pname' = pname /\ Ids' = Ids /\ time' = time + jobs[j].length /\ Done' = Done \cup {j}
        /\ \A k \in Ids : /\ jobs'[k].arrival = jobs[k].arrival /\ jobs'[k].length = jobs[k].length
                          /\ k # j => jobs'[k] = jobs[k]
        /\ jobs'[j].turnaroundTime = time' - jobs[j].arrival
  BY SjfTurn
<1>3. /\ IsFiniteSet(Ids) /\ time \in Nat /\ Done \subseteq Ids /\ Ready \subseteq Ids
      /\ Arrivals \in [Ids -> Nat] /\ Lengths \in [Ids -> Nat] /\ Left \in [Ids -> Nat]
      /\ Present(Arrivals, Left, time) = Ready
      /\ Ready = {k \in Ids \ Done : jobs[k].arrival <= time}
  BY <1>1, OwnFacts
<1> SUFFICES ASSUME Contest'
             PROVE  /\ \A i \in Done' : jobs'[i].turnaroundTime \in Nat
                    /\ LeadsWith(Arrivals', Lengths', time', Left', Delay')
  BY DEF OptInv
<1>4. Together
  BY <1>1, <1>2 DEF Contest, Together
<1>5. /\ \A i \in Done : jobs[i].turnaroundTime \in Nat
      /\ LeadsWith(Arrivals, Lengths, time, Left, Delay)
  BY <1>1, <1>4 DEF OptInv, Contest
<1>6. Arrivals' = Arrivals /\ Lengths' = Lengths
  BY <1>2 DEF Arrivals, Lengths
<1>7. PICK len \in Nat : len = jobs[j].length
  BY <1>3 DEF Lengths
<1>8. \A k \in Ids : jobs[k].arrival \in Nat /\ jobs[k].arrival <= time
  <2>1. \A k \in Ids : jobs[k].arrival \in Nat
    BY <1>3 DEF Arrivals
  <2>2. jobs[j].arrival <= time /\ j \in Ids
    BY <1>3
  <2> QED
    BY <1>4, <2>1, <2>2 DEF Together
<1>9. \A k \in Ready : Left[k] = jobs[k].length
  BY <1>1, <1>3 DEF Left
<1>10. LeadsWith(Arrivals, Lengths, time + Left[j], Remaining(Left, j, Left[j]), Later(Delay, Ready, Left[j]))
  <2>1. \A k \in Ids : Arrivals[k] <= time
    BY <1>8 DEF Arrivals
  <2>2. \A k \in Ready : Left[j] <= Left[k]
    BY <1>2, <1>9
  <2>3. PICK X : X = Ready
    OBVIOUS
  <2>4. X = Present(Arrivals, Left, time) /\ j \in X /\ \A k \in X : Left[j] <= Left[k]
    BY <1>3, <2>2, <2>3
  <2>5. LeadsWith(Arrivals, Lengths, time + Left[j], Remaining(Left, j, Left[j]), Later(Delay, X, Left[j]))
    BY <1>3, <1>5, <2>1, <2>4, LeadsThrough
  <2> QED
    BY <2>3, <2>5
<1>11. Left' = Remaining(Left, j, Left[j])
  <2>1. Left' = [k \in Ids |-> IF k \in Done' THEN 0 ELSE jobs'[k].length]
    BY <1>1, <1>2 DEF Left
  <2>2. Left = [k \in Ids |-> IF k \in Done THEN 0 ELSE jobs[k].length]
    BY <1>1 DEF Left
  <2>3. Remaining(Left, j, Left[j]) = [Left EXCEPT ![j] = 0]
    <3>1. j \in Ids /\ Left[j] - Left[j] = 0
      BY <1>3
    <3> QED
      BY <1>3, <3>1 DEF Remaining
  <2>4. \A k \in Ids : (IF k \in Done' THEN 0 ELSE jobs'[k].length) = IF k = j THEN 0 ELSE Left[k]
    BY <1>2, <2>2
  <2> QED
    BY <1>3, <2>1, <2>3, <2>4
<1>12. Delay' = Later(Delay, Ready, len)
  <2>2. ASSUME NEW k \in Ids
        PROVE  Delay'[k] = IF k \in Ready THEN Delay[k] + len ELSE Delay[k]
    <3>0. jobs[k].arrival \in Nat /\ jobs[k].arrival <= time
      BY <1>8
    <3>3. Delay'[k] = IF k \in Done' THEN jobs'[k].turnaroundTime
                      ELSE IF jobs[k].arrival <= time + len THEN (time + len) - jobs[k].arrival ELSE 0
      <4>1. Ids' = Ids /\ time' = time + len /\ jobs'[k].arrival = jobs[k].arrival
        BY <1>2, <1>7, Zenon
      <4> QED
        BY <2>2, <4>1, DelayAt, Zenon
    <3>1. CASE k \in Ready
      <4>1. /\ Delay[k] = time - jobs[k].arrival
            /\ (time - jobs[k].arrival) + len = (time + len) - jobs[k].arrival
            /\ jobs[k].arrival <= time + len
        BY <1>3, <3>0, <3>1 DEF Delay
      <4>2. k \in Done' => jobs'[k].turnaroundTime = (time + len) - jobs[k].arrival
        <5>1. k \in Done' => k = j
          BY <1>2, <1>3, <3>1
        <5>2. jobs'[j].turnaroundTime = (time + len) - jobs[j].arrival
          BY <1>2, <1>7, Zenon
        <5> QED
          BY <5>1, <5>2
      <4> QED
        BY <3>1, <3>3, <4>1, <4>2
    <3>2. CASE k \notin Ready
      <4>1. k \in Done
        BY <1>3, <3>0, <3>2
      <4>2. k # j /\ k \in Done' /\ Delay[k] = jobs[k].turnaroundTime
        BY <1>2, <1>3, <3>2, <4>1 DEF Delay
      <4>3. jobs'[k] = jobs[k]
        BY <1>2, <4>2
      <4> QED
        BY <3>2, <3>3, <4>2, <4>3
    <3> QED
      BY <3>1, <3>2
  <2>1. Delay' = [k \in Ids |-> Delay'[k]]
    BY <1>2, DelayIs
  <2>3. DOMAIN Delay = Ids
    BY DEF Delay
  <2>4. Later(Delay, Ready, len) = [k \in Ids |-> IF k \in Ready THEN Delay[k] + len ELSE Delay[k]]
    BY <2>3 DEF Later
  <2> QED
    BY <2>1, <2>2, <2>4
<1>13. \A i \in Done' : jobs'[i].turnaroundTime \in Nat
  <2> TAKE i \in Done'
  <2>1. CASE i = j
    <3>1. j \in Ids /\ (time + len) - jobs[j].arrival \in Nat
      BY <1>3, <1>7, <1>8
    <3>2. jobs'[j].turnaroundTime = (time + len) - jobs[j].arrival
      BY <1>2, <1>7, Zenon
    <3> QED
      BY <2>1, <3>1, <3>2
  <2>2. CASE i # j
    BY <1>2, <1>3, <1>5, <2>2
  <2> QED
    BY <2>1, <2>2
<1>14. time' = time + Left[j] /\ Left[j] = len
  BY <1>2, <1>7, <1>9
<1> QED
  BY <1>6, <1>10, <1>11, <1>12, <1>13, <1>14

\* The analysis changes none of it.
LEMMA OptEnd == ASSUME IInv, IInv', OptInv, EndPolicy PROVE OptInv'
<1>1. /\ pc = "policy" /\ UNCHANGED <<pname, numofjobs, time>>
      /\ jobs' = [j \in Ids |-> [jobs[j] EXCEPT !.waitTime = jobs[j].turnaroundTime - jobs[j].length]]
  BY DEF EndPolicy, args
<1>2. Ids' = Ids /\ Done' = Done
  BY EndPolicyInv DEF Quiet
<1>3. ASSUME NEW k \in Ids
      PROVE  /\ jobs'[k].arrival = jobs[k].arrival /\ jobs'[k].length = jobs[k].length
             /\ jobs'[k].time_left = jobs[k].time_left
             /\ jobs'[k].turnaroundTime = jobs[k].turnaroundTime
  <2>1. PICK job : job = jobs[k]
    OBVIOUS
  <2>2. PICK wait : wait = job.turnaroundTime - job.length
    OBVIOUS
  <2>3. job \in JobType /\ jobs'[k] = [job EXCEPT !.waitTime = wait]
    BY <1>1, <2>1, <2>2, JobFacts DEF IInv
  <2> QED
    BY <2>1, <2>3 DEF JobType
<1> QED
  BY <1>1, <1>2, <1>3, OptSame

\* No step lets another schedule past STCF or SJF.
LEMMA OptStep == ASSUME IInv, IInv', OptInv, [Next]_vars PROVE OptInv'
<1>1. CASE UNCHANGED vars
  <2>1. /\ UNCHANGED <<pc, pname, numofjobs, jobs, time, temp>>
    BY <1>1 DEF vars, args, table, loop
  <2> QED
    BY <2>1 DEF OptInv, Contest, Together, LeadsWith, Arrivals, Lengths, Left, Delay, Done, Ids
<1>2. CASE \E arrival \in 0..MAX_ARRIVAL, length \in 1..MAX_LENGTH : ReadJob(arrival, length)
  BY <1>2 DEF ReadJob, OptInv
<1>3. CASE EmptyFile
  BY <1>3 DEF EmptyFile, OptInv
<1>4. CASE StartPolicy
  BY <1>4, OptStart
<1>5. CASE Idle
  BY <1>5, OptIdle
<1>6. CASE SjfRun
  BY <1>6, OptSjf
<1>7. CASE StcfRun
  BY <1>7, OptStcf
<1>8. CASE EndPolicy
  BY <1>8, OptEnd
<1>9. CASE FifoRun \/ RrRun \/ RrSkip \/ RrPass \/ LtJump
           \/ \E ticket \in 0..(MAX_JOBS * (MAX_JOBS + 1) * TICKETS) : LtRun(ticket)
  <2>1. pname' = pname /\ pname \in {"FIFO", "RR", "LT"}
    BY <1>9 DEF FifoRun, RrRun, RrSkip, RrPass, LtJump, LtRun, Turn, args
  <2> QED
    BY <2>1 DEF OptInv, Contest
<1> QED
  BY <1>1, <1>2, <1>3, <1>4, <1>5, <1>6, <1>7, <1>8, <1>9 DEF Next, Exited

\* STCF (scheduler.c:198-278) ends with the least total turnaround of all schedules,
\* preemptive and idling ones included, and SJF (scheduler.c:128-194) does when all
\* jobs arrive together.
THEOREM LeastTurnaround == Spec => []Optimal
<1>1. Init => OptInv
  BY DEF Init, OptInv
<1>2. IInv /\ IInv' /\ OptInv /\ [Next]_vars => OptInv'
  BY OptStep
<1>3. IInv /\ OptInv => Optimal
  <2> SUFFICES ASSUME IInv, OptInv, pc = "done", Contest PROVE Optimal
    BY DEF Optimal, Contest, Together
  <2>1. Done = Ids /\ pname \in {"SJF", "STCF"}
    BY DEF IInv, CountInv, Contest
  <2>2. /\ Arrivals \in [Ids -> Nat] /\ LeadsWith(Arrivals, Lengths, time, Left, Delay)
    BY <2>1, OwnFacts DEF OptInv
  <2>3. Left = [j \in Ids |-> 0] /\ Delay = [j \in Ids |-> jobs[j].turnaroundTime]
    BY <2>1 DEF Left, Delay
  <2>4. PICK total : total = SumOver(Delay, Ids)
    OBVIOUS
  <2>5. PICK reached : reached = Reach(Arrivals, Lengths, time)
    OBVIOUS
  <2>6. Leads(Arrivals, Lengths, time, Left, total)
    <3>1. DOMAIN Arrivals = Ids
      BY <2>2
    <3> QED
      BY <2>2, <2>4, <3>1 DEF LeadsWith
  <2>7. [left |-> Left, total |-> total] \in reached /\ \A r \in reached : total <= r.total
    BY <2>5, <2>6 DEF Leads, Behind
  <2> QED
    BY <2>3, <2>4, <2>5, <2>7, Zenon DEF Optimal, Arrivals, Lengths
<1> QED
  BY <1>1, <1>2, <1>3, Invariant, PTL DEF Spec
=============================================================================
