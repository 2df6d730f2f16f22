--------------------------- MODULE DmtxPoolProofs ---------------------------
(***************************************************************************)
(* What DmtxPool guarantees for any folder, any number of workers, any     *)
(* crashes, failing forks and kills.                                       *)
(***************************************************************************)
EXTENDS DmtxPool, FiniteSetTheorems, TLAPS

Reaped == {w \in Workers : child[w] = "reaped"}

\* How far the parent is tells which workers there are.
StageInv ==
  /\ parent = "start" => \A w \in Workers : child[w] = "absent"
  /\ parent = "fork" =>
       /\ p <= numprocesses
       /\ \A w \in Workers : child[w] # "reaped" /\ (child[w] # "absent" => w < p)
  /\ parent = "wait" => p = Cardinality(Reaped)
  /\ parent = "seq" => numprocesses = 0
  /\ parent \in {"fork", "wait"} => numprocesses > 0
  /\ parent \in {"output", "finished"} =>
       \A w \in Workers : child[w] \in {"absent", "reaped"}
  /\ \A w \in Workers : child[w] # "absent" => w < numprocesses

\* The semaphore is there as long as a worker may use it, and no longer.
SemInv ==
  /\ parent \in {"fork", "wait"} => sem # Unlinked
  /\ parent \in {"output", "finished"} /\ numprocesses > 0 => sem = Unlinked
  /\ \A w \in Workers : child[w] \notin {"absent", "reaped"} => sem # Unlinked

\* One worker at a time is between sem_wait and sem_post, and then the
\* semaphore is down.
MutexInv ==
  /\ \A v, w \in Workers : Critical(v) /\ Critical(w) => v = w
  /\ \A w \in Workers : Critical(w) => sem = 0

\* A worker that took an index and has not come back for another one.
Took(w) == child[w] \in {"store", "sem_post", "decode", "exited", "reaped"}

\* The counter is above every index that was taken, and they are distinct.
IndexInv ==
  \A w \in Workers :
    /\ child[w] = "store" => idx[w] = next_index
    /\ Took(w) /\ child[w] # "store" => idx[w] < next_index
    /\ child[w] = "decode" => idx[w] < numfiles

TookInv == \A v, w \in Workers : v # w /\ Took(v) /\ Took(w) => idx[v] # idx[w]

\* What is decoded was taken, and nobody is still at it or died at it.
MessageInv ==
  parent \in {"fork", "wait"} =>
    \A f \in Files : message[f] = Decoded(f) =>
      /\ f < next_index
      /\ \A w \in Workers : Took(w) => idx[w] # f

\* The messages lack what the crashed workers held, and nothing else.
Complete(m) ==
  \/ {f \in Files : m[f] # Decoded(f)} = {idx[w] : w \in Crashed}
  \/ numprocesses > 0 /\ Cardinality(Crashed) = numprocesses

OutputInv ==
  /\ parent = "seq" => \A f \in Files : f < p => message[f] = Decoded(f)
  /\ parent = "output" => Complete(message)
  /\ parent = "finished" => Complete(output)

IInv ==
  /\ TypeOK /\ StageInv /\ SemInv /\ MutexInv /\ IndexInv /\ TookInv
  /\ NothingSkipped /\ MessageInv /\ OutputInv

LEMMA WorkersAreNaturals == Workers \subseteq Nat
BY NumProcessesAssumption DEF Workers

-----------------------------------------------------------------------------

LEMMA InitIInv == Init => IInv
<1> SUFFICES ASSUME Init PROVE IInv
  OBVIOUS
<1> USE DEF Init
<1>1. TypeOK
  BY DEF TypeOK, Unlinked, Files, NoMessages
<1>2. StageInv /\ SemInv /\ MutexInv /\ IndexInv
  BY DEF StageInv, SemInv, MutexInv, IndexInv, Critical, Took
<1>3. TookInv /\ NothingSkipped /\ MessageInv /\ OutputInv
  BY DEF TookInv, NothingSkipped, MessageInv, OutputInv, Took
<1> QED
  BY <1>1, <1>2, <1>3 DEF IInv

\* The globals keep their types; sem_post finds the semaphore down.
LEMMA TypeStep == IInv /\ [Next]_vars => TypeOK'
<1> SUFFICES ASSUME IInv, [Next]_vars PROVE TypeOK'
  OBVIOUS
<1> USE NumFilesAssumption, NumProcessesAssumption DEF IInv, TypeOK, Unlinked, Files
<1>1. ASSUME NEW files \in NUM_FILES, NEW processes \in NUM_PROCESSES, Start(files, processes)
      PROVE TypeOK'
  BY <1>1 DEF Start, OpenedSem
<1>2. ASSUME NEW processes \in NUM_PROCESSES, ListFails(processes) PROVE TypeOK'
  BY <1>2 DEF ListFails
<1>3. CASE DecodeSeq
  BY <1>3 DEF DecodeSeq, args
<1>4. CASE Fork
  <2>1. child' \in [Workers -> {"absent", "open", "sem_wait", "load", "store", "sem_post",
                               "decode", "exited", "reaped"}]
    BY <1>4 DEF Fork
  <2>2. p' \in Nat /\ UNCHANGED <<args, sem, shared, parent, idx>>
    BY <1>4 DEF Fork
  <2> QED
    BY <2>1, <2>2 DEF args, shared
<1>5. CASE ForkFails \/ SeqCrash \/ AllForked \/ WriteOutput \/ UnlinkSem
  BY <1>5 DEF ForkFails, SeqCrash, AllForked, WriteOutput, UnlinkSem, args, shared
<1>6. ASSUME NEW w \in Workers, Wait(w) PROVE TypeOK'
  BY <1>6 DEF Wait, args, shared
<1>7. CASE KillAndRerun
  BY <1>7 DEF KillAndRerun
<1>8. ASSUME NEW w \in Workers, Worker(w) PROVE TypeOK'
  <2>1. CASE OpenSem(w) \/ SemWait(w) \/ LoadIndex(w) \/ DecoderCrash(w)
    BY <1>8, <2>1 DEF OpenSem, SemWait, LoadIndex, DecoderCrash, Move, Own, args, shared, Down
  <2>2. CASE StoreIndex(w)
    BY <1>8, <2>2 DEF StoreIndex, Move, Own, args, shared, Taken
  <2>4. CASE Decode(w)
    <3>1. DOMAIN message' = Files
      BY <2>4 DEF Decode
    <3> QED
      BY <1>8, <2>4, <3>1 DEF Decode, Move, Own, args
  <2>3. CASE SemPost(w)
    BY <1>8, <2>3 DEF SemPost, Move, Own, args, shared, Up, MutexInv, Critical
  <2> QED
    BY <1>8, <2>1, <2>2, <2>3, <2>4 DEF Worker
<1>9. CASE UNCHANGED vars
  BY <1>9 DEF vars, args, shared
<1> QED
  BY <1>1, <1>2, <1>3, <1>4, <1>5, <1>6, <1>7, <1>8, <1>9 DEF Next, Parent, Ended
-----------------------------------------------------------------------------

\* The workers that were reaped are among those that were forked.
LEMMA ReapedFinite ==
  ASSUME TypeOK, StageInv
  PROVE  /\ Reaped \subseteq 0..(numprocesses - 1)
         /\ IsFiniteSet(Reaped)
<1>1. Reaped \subseteq 0..(numprocesses - 1)
  <2> SUFFICES ASSUME NEW w \in Reaped PROVE w \in 0..(numprocesses - 1)
    OBVIOUS
  <2>1. w \in Nat /\ w < numprocesses
    BY WorkersAreNaturals DEF Reaped, StageInv
  <2> QED
    BY <2>1 DEF TypeOK
<1>2. IsFiniteSet(0..(numprocesses - 1))
  BY FS_Interval DEF TypeOK
<1> QED
  BY <1>1, <1>2, FS_Subset

\* When the parent has waited often enough, every worker was reaped.
LEMMA AllReapedMeansNoWorker ==
  ASSUME TypeOK, StageInv, parent = "wait", AllReaped
  PROVE  /\ \A w \in Workers : child[w] \in {"absent", "reaped"}
         /\ Cardinality(Reaped) = numprocesses
<1>1. Cardinality(Reaped) = numprocesses
  BY DEF StageInv, AllReaped
<1>2. IsFiniteSet(0..(numprocesses - 1)) /\ Cardinality(0..(numprocesses - 1)) = numprocesses
  BY FS_Interval DEF TypeOK
<1>3. Reaped = 0..(numprocesses - 1)
  BY <1>1, <1>2, ReapedFinite, FS_Subset
<1> QED
  BY <1>1, <1>3, WorkersAreNaturals DEF Reaped, StageInv, TypeOK

\* A worker's own step leaves the parent alone and neither makes the worker
\* appear nor reaps it.
LEMMA WorkerMoves ==
  ASSUME TypeOK, NEW w \in Workers, Worker(w)
  PROVE  /\ UNCHANGED <<args, parent, p>>
         /\ child[w] \notin {"absent", "exited", "reaped"}
         /\ child'[w] \notin {"absent", "reaped"}
         /\ \A v \in Workers \ {w} : child'[v] = child[v]
<1>1. CASE OpenSem(w) \/ SemWait(w) \/ LoadIndex(w) \/ DecoderCrash(w)
  BY <1>1 DEF OpenSem, SemWait, LoadIndex, DecoderCrash, Move, Own, TypeOK
<1>2. CASE StoreIndex(w) \/ SemPost(w) \/ Decode(w)
  BY <1>2 DEF StoreIndex, SemPost, Decode, Move, Own, TypeOK
<1> QED
  BY <1>1, <1>2 DEF Worker

LEMMA StageStep == IInv /\ [Next]_vars => StageInv'
<1> SUFFICES ASSUME IInv, [Next]_vars PROVE StageInv'
  OBVIOUS
<1> USE DEF IInv
<1>1. ASSUME NEW files \in NUM_FILES, NEW processes \in NUM_PROCESSES, Start(files, processes)
      PROVE StageInv'
  <2>1. \A w \in Workers : child'[w] = "absent"
    BY <1>1 DEF Start, StageInv
  <2>2. parent' = (IF processes = 0 THEN "seq" ELSE "fork") /\ p' = 0 /\ numprocesses' = processes
    BY <1>1 DEF Start
  <2>3. processes \in Nat
    BY NumProcessesAssumption
  <2> QED
    BY <2>1, <2>2, <2>3 DEF StageInv
<1>2. ASSUME NEW processes \in NUM_PROCESSES, ListFails(processes) PROVE StageInv'
  BY <1>2 DEF ListFails, StageInv
<1>3. CASE DecodeSeq
  <2>1. \A w \in Workers : child[w] = "absent"
    BY <1>3, WorkersAreNaturals DEF DecodeSeq, StageInv, TypeOK
  <2>2. parent' \in {"seq", "output"} /\ parent = "seq" /\ UNCHANGED <<numprocesses, child>>
    BY <1>3 DEF DecodeSeq, args
  <2> QED
    BY <2>1, <2>2 DEF StageInv
<1>10. CASE ForkFails \/ SeqCrash \/ WriteOutput
  BY <1>10 DEF ForkFails, SeqCrash, WriteOutput, args, StageInv
<1>11. CASE UnlinkSem
  BY <1>11, AllReapedMeansNoWorker DEF UnlinkSem, args, StageInv
<1>4. CASE Fork
  <2>1. \A w \in Workers : child'[w] = IF w = p THEN "open" ELSE child[w]
    BY <1>4 DEF Fork, TypeOK
  <2>2. /\ parent = "fork" /\ p < numprocesses /\ p \in Nat /\ numprocesses \in Nat
        /\ p' = p + 1 /\ parent' = parent /\ numprocesses' = numprocesses
    BY <1>4 DEF Fork, TypeOK, args
  <2> QED
    BY <2>1, <2>2, WorkersAreNaturals DEF StageInv
<1>5. CASE AllForked
  <2>1. Reaped' = {}
    BY <1>5 DEF AllForked, StageInv, Reaped
  <2>2. Cardinality(Reaped') = 0
    BY <2>1, FS_EmptySet
  <2> QED
    BY <1>5, <2>2 DEF AllForked, args, StageInv
<1>6. ASSUME NEW w \in Workers, Wait(w) PROVE StageInv'
  <2>1. \A v \in Workers : child'[v] = IF v = w THEN "reaped" ELSE child[v]
    BY <1>6 DEF Wait, TypeOK
  <2>2. w \notin Reaped /\ Reaped' = Reaped \cup {w}
    BY <1>6, <2>1 DEF Wait, Reaped
  <2>3. Cardinality(Reaped') = Cardinality(Reaped) + 1
    BY <2>2, ReapedFinite, FS_AddElement
  <2>4. p' = Cardinality(Reaped')
    BY <1>6, <2>3 DEF Wait, StageInv
  <2> QED
    BY <1>6, <2>1, <2>4 DEF Wait, args, StageInv
<1>7. CASE KillAndRerun
  BY <1>7 DEF KillAndRerun, StageInv
<1>8. ASSUME NEW w \in Workers, Worker(w) PROVE StageInv'
  <2>1. Reaped' = Reaped
    BY <1>8, WorkerMoves DEF Reaped
  <2>2. \A v \in Workers : /\ child'[v] = "absent" <=> child[v] = "absent"
                           /\ child'[v] = "reaped" <=> child[v] = "reaped"
    BY <1>8, WorkerMoves
  <2>3. UNCHANGED <<numprocesses, parent, p>>
    BY <1>8, WorkerMoves DEF args
  <2>4. parent \in {"fork", "wait", "failed"}
    BY <1>8, WorkerMoves, WorkersAreNaturals DEF StageInv, TypeOK
  <2> QED
    BY <2>1, <2>2, <2>3, <2>4 DEF StageInv
<1>9. CASE UNCHANGED vars
  BY <1>9 DEF vars, args, StageInv, Reaped
<1> QED
  BY <1>1, <1>2, <1>3, <1>4, <1>5, <1>6, <1>7, <1>8, <1>9, <1>10, <1>11 DEF Next, Parent, Ended

-----------------------------------------------------------------------------
(* While there are workers, nobody else touches what they rely on.           *)

NotWorker == Parent \/ ForkFails \/ SeqCrash \/ KillAndRerun \/ Ended \/ UNCHANGED vars

\* What a step that is not the worker's leaves of it.
Undisturbed(w) ==
  /\ \/ child'[w] = child[w]
     \/ child[w] = "exited" /\ child'[w] = "reaped"
  /\ idx'[w] = idx[w]
  /\ UNCHANGED <<next_index, message, numfiles, numprocesses>>
  /\ child'[w] # "reaped" => sem' = sem

LEMMA WorkersUndisturbed ==
  ASSUME IInv, NotWorker, NEW w \in Workers, child'[w] \notin {"absent", "open"}
  PROVE  Undisturbed(w)
<1> USE DEF IInv, Undisturbed
<1>1. ASSUME NEW files \in NUM_FILES, NEW processes \in NUM_PROCESSES, Start(files, processes)
      PROVE FALSE
  BY <1>1 DEF Start, StageInv
<1>2. ASSUME NEW processes \in NUM_PROCESSES, ListFails(processes) PROVE FALSE
  BY <1>2 DEF ListFails, StageInv
<1>3. CASE DecodeSeq
  <2>1. child[w] = "absent"
    BY <1>3, WorkersAreNaturals DEF DecodeSeq, StageInv, TypeOK
  <2> QED
    BY <1>3, <2>1 DEF DecodeSeq, args
<1>4. CASE ForkFails \/ SeqCrash \/ AllForked \/ WriteOutput
  BY <1>4 DEF ForkFails, SeqCrash, AllForked, WriteOutput, args, shared
<1>5. CASE Fork
  <2>1. child' = [child EXCEPT ![p] = "open"] /\ UNCHANGED <<args, sem, shared, idx>>
    BY <1>5 DEF Fork
  <2>2. child'[w] = IF w = p THEN "open" ELSE child[w]
    BY <2>1 DEF TypeOK
  <2> QED
    BY <2>1, <2>2 DEF args, shared
<1>6. ASSUME NEW v \in Workers, Wait(v) PROVE Undisturbed(w)
  <2>1. /\ child' = [child EXCEPT ![v] = "reaped"] /\ child[v] = "exited"
        /\ UNCHANGED <<args, sem, shared, idx>>
    BY <1>6 DEF Wait
  <2>2. child'[w] = IF w = v THEN "reaped" ELSE child[w]
    BY <2>1 DEF TypeOK
  <2> QED
    BY <2>1, <2>2 DEF args, shared
<1>7. CASE UnlinkSem
  BY <1>7, AllReapedMeansNoWorker DEF UnlinkSem, args, shared
<1>8. CASE KillAndRerun
  BY <1>8 DEF KillAndRerun
<1>9. CASE UNCHANGED vars
  BY <1>9 DEF vars, args, shared
<1> QED
  BY <1>1, <1>2, <1>3, <1>4, <1>5, <1>6, <1>7, <1>8, <1>9 DEF NotWorker, Parent, Ended

LEMMA NextSplit == [Next]_vars => NotWorker \/ \E w \in Workers : Worker(w)
BY DEF Next, NotWorker

-----------------------------------------------------------------------------

\* The parent unlinks the semaphore when every worker was reaped.
LEMMA SemStep == IInv /\ [Next]_vars => SemInv'
<1> SUFFICES ASSUME IInv, [Next]_vars PROVE SemInv'
  OBVIOUS
<1> USE DEF IInv, SemInv
<1>1. ASSUME NEW files \in NUM_FILES, NEW processes \in NUM_PROCESSES, Start(files, processes)
      PROVE SemInv'
  <2>1. \A w \in Workers : child'[w] = "absent"
    BY <1>1 DEF Start, StageInv
  <2>2. parent' \in {"seq", "fork"} /\ (parent' = "fork" => sem' = OpenedSem)
    BY <1>1 DEF Start
  <2> QED
    BY <2>1, <2>2 DEF OpenedSem, Unlinked
<1>2. ASSUME NEW processes \in NUM_PROCESSES, ListFails(processes) PROVE SemInv'
  BY <1>2, NumProcessesAssumption DEF ListFails, StageInv
<1>3. CASE DecodeSeq \/ ForkFails \/ SeqCrash \/ AllForked \/ WriteOutput
  <2>1. DecodeSeq => numprocesses = 0
    BY DEF DecodeSeq, StageInv
  <2> QED
    BY <1>3, <2>1 DEF DecodeSeq, ForkFails, SeqCrash, AllForked, WriteOutput, args
<1>4. CASE Fork
  BY <1>4 DEF Fork
<1>5. ASSUME NEW w \in Workers, Wait(w) PROVE SemInv'
  BY <1>5 DEF Wait
<1>6. CASE UnlinkSem
  BY <1>6, AllReapedMeansNoWorker DEF UnlinkSem
<1>7. CASE KillAndRerun
  BY <1>7 DEF KillAndRerun
<1>8. ASSUME NEW w \in Workers, Worker(w) PROVE SemInv'
  <2>1. sem \in {0, 1} /\ parent \notin {"output", "finished"}
    BY <1>8, WorkerMoves DEF StageInv, TypeOK
  <2>2. sem' # Unlinked
    <3>1. CASE OpenSem(w) \/ LoadIndex(w) \/ StoreIndex(w) \/ Decode(w) \/ DecoderCrash(w)
      BY <2>1, <3>1 DEF OpenSem, LoadIndex, StoreIndex, Decode, DecoderCrash, Unlinked
    <3>2. CASE SemWait(w) \/ SemPost(w)
      BY <2>1, <3>2 DEF SemWait, SemPost, Down, Up, Unlinked
    <3> QED
      BY <1>8, <3>1, <3>2 DEF Worker
  <2> QED
    BY <1>8, <2>1, <2>2, WorkerMoves
<1>9. CASE UNCHANGED vars
  BY <1>9 DEF vars, args
<1> QED
  BY <1>1, <1>2, <1>3, <1>4, <1>5, <1>6, <1>7, <1>8, <1>9 DEF Next, Parent, Ended

\* sem_wait lets a worker in only when nobody is inside.
LEMMA MutexStep == IInv /\ [Next]_vars => MutexInv'
<1> SUFFICES ASSUME IInv, [Next]_vars PROVE MutexInv'
  OBVIOUS
<1> USE DEF IInv, MutexInv, Critical
<1>1. CASE NotWorker
  BY <1>1, WorkersUndisturbed DEF Undisturbed
<1>2. ASSUME NEW w \in Workers, Worker(w) PROVE MutexInv'
  <2>1. \A v \in Workers \ {w} : child'[v] = child[v]
    BY <1>2, WorkerMoves
  <2>2. CASE OpenSem(w) \/ Decode(w) \/ DecoderCrash(w)
    <3>1. ~Critical(w)' /\ sem' = sem
      BY <2>2 DEF OpenSem, Decode, DecoderCrash, Move, TypeOK
    <3> QED
      BY <2>1, <3>1
  <2>3. CASE SemWait(w)
    <3>1. sem = 1 /\ sem' = 0
      BY <2>3 DEF SemWait, Down, TypeOK, Unlinked
    <3>2. \A v \in Workers : ~Critical(v)
      BY <3>1
    <3> QED
      BY <2>1, <3>1, <3>2
  <2>4. CASE LoadIndex(w) \/ StoreIndex(w)
    <3>1. Critical(w) /\ sem' = sem
      BY <2>4 DEF LoadIndex, StoreIndex, Move
    <3> QED
      BY <2>1, <3>1
  <2>5. CASE SemPost(w)
    <3>1. Critical(w) /\ ~Critical(w)'
      BY <2>5 DEF SemPost, Move, TypeOK
    <3> QED
      BY <2>1, <3>1
  <2> QED
    BY <1>2, <2>2, <2>3, <2>4, <2>5 DEF Worker
<1> QED
  BY <1>1, <1>2, NextSplit

\* Apart from LoadIndex, a worker keeps the index it has, and none of its steps
\* makes it look as if it had taken one.
LEMMA WorkerTakes ==
  ASSUME IInv, NEW w \in Workers, Worker(w)
  PROVE  /\ \A v \in Workers \ {w} : idx'[v] = idx[v]
         /\ ~LoadIndex(w) => idx'[w] = idx[w] /\ (Took(w)' => Took(w))
<1> USE DEF IInv, Took
<1>1. CASE OpenSem(w)
  <2>1. sem # Unlinked
    BY <1>1 DEF OpenSem, Move, SemInv
  <2> QED
    BY <1>1, <2>1 DEF OpenSem, Move, TypeOK
<1>2. CASE SemWait(w) \/ Decode(w)
  BY <1>2 DEF SemWait, Decode, Move, TypeOK
<1>3. CASE StoreIndex(w) \/ SemPost(w) \/ DecoderCrash(w)
  BY <1>3 DEF StoreIndex, SemPost, DecoderCrash, Move, TypeOK
<1>4. CASE LoadIndex(w)
  BY <1>4 DEF LoadIndex, TypeOK
<1> QED
  BY <1>1, <1>2, <1>3, <1>4 DEF Worker

\* The counter moves only under the semaphore, by the worker that read it.
LEMMA IndexStep == IInv /\ [Next]_vars => IndexInv'
<1> SUFFICES ASSUME IInv, [Next]_vars PROVE IndexInv'
  OBVIOUS
<1> USE DEF IInv, IndexInv, Took
<1>1. CASE NotWorker
  BY <1>1, WorkersUndisturbed DEF Undisturbed
<1>2. ASSUME NEW w \in Workers, Worker(w) PROVE IndexInv'
  <2>0. /\ \A v \in Workers \ {w} : child'[v] = child[v] /\ idx'[v] = idx[v]
        /\ numfiles' = numfiles
        /\ next_index \in Nat /\ idx \in [Workers -> Nat] /\ numfiles \in Nat
    BY <1>2, WorkerMoves, WorkerTakes DEF args, TypeOK
  <2>1. CASE OpenSem(w)
    <3>1. sem # Unlinked
      BY <2>1 DEF OpenSem, Move, SemInv
    <3>2. child'[w] = "sem_wait" /\ next_index' = next_index
      BY <2>1, <3>1 DEF OpenSem, Move, TypeOK, shared
    <3> QED
      BY <2>0, <3>2
  <2>2. CASE SemWait(w) \/ Decode(w)
    <3>1. child'[w] \in {"load", "sem_wait"} /\ next_index' = next_index
      BY <2>2 DEF SemWait, Decode, Move, TypeOK, shared
    <3> QED
      BY <2>0, <3>1
  <2>3. CASE DecoderCrash(w)
    <3>1. child[w] = "decode" /\ child'[w] = "exited" /\ UNCHANGED <<next_index, idx>>
      BY <2>3 DEF DecoderCrash, Move, TypeOK, shared
    <3> QED
      BY <2>0, <3>1
  <2>4. CASE LoadIndex(w)
    <3>1. child'[w] = "store" /\ idx'[w] = next_index /\ next_index' = next_index
      BY <2>4 DEF LoadIndex, Move, TypeOK, shared
    <3> QED
      BY <2>0, <3>1
  <2>5. CASE StoreIndex(w)
    <3>1. /\ Critical(w) /\ child[w] = "store" /\ child'[w] = "sem_post"
          /\ idx' = idx /\ next_index' = idx[w] + 1
      BY <2>5 DEF StoreIndex, Move, TypeOK, Taken, Critical
    <3>2. \A v \in Workers \ {w} : ~Critical(v)
      BY <3>1 DEF MutexInv
    <3>3. next_index' = next_index + 1
      BY <3>1
    <3>4. \A v \in Workers \ {w} : child'[v] # "store"
      BY <2>0, <3>2 DEF Critical
    <3>5. \A v \in Workers \ {w} : Took(v)' => idx'[v] < next_index'
      BY <2>0, <3>1, <3>3, <3>4
    <3>6. \A v \in Workers \ {w} : child'[v] = "decode" => idx'[v] < numfiles'
      BY <2>0
    <3> QED
      BY <2>0, <3>1, <3>4, <3>5, <3>6
  <2>6. CASE SemPost(w)
    <3>1. /\ child[w] = "sem_post" /\ child'[w] = IF NoMoreFiles(w) THEN "exited" ELSE "decode"
          /\ UNCHANGED <<next_index, idx>>
      BY <2>6 DEF SemPost, Move, TypeOK, shared
    <3> QED
      BY <2>0, <3>1 DEF NoMoreFiles
  <2> QED
    BY <1>2, <2>1, <2>2, <2>3, <2>4, <2>5, <2>6 DEF Worker
<1> QED
  BY <1>1, <1>2, NextSplit

\* Whoever reads the counter under the semaphore reads an index above all that
\* were taken.
LEMMA TookStep == IInv /\ [Next]_vars => TookInv'
<1> SUFFICES ASSUME IInv, [Next]_vars PROVE TookInv'
  OBVIOUS
<1> USE DEF IInv, TookInv
<1>1. CASE NotWorker
  BY <1>1, WorkersUndisturbed DEF Undisturbed, Took
<1>2. ASSUME NEW w \in Workers, Worker(w) PROVE TookInv'
  <2>0. \A v \in Workers \ {w} : (Took(v)' <=> Took(v)) /\ idx'[v] = idx[v]
    BY <1>2, WorkerMoves, WorkerTakes DEF Took
  <2>1. CASE LoadIndex(w)
    <3>1. Critical(w) /\ idx'[w] = next_index
      BY <2>1 DEF LoadIndex, Move, TypeOK, Critical
    <3>2. \A v \in Workers \ {w} : child[v] # "store"
      BY <3>1 DEF MutexInv, Critical
    <3>3. \A v \in Workers \ {w} : Took(v) => idx[v] < next_index
      BY <3>2 DEF IndexInv
    <3>4. next_index \in Nat /\ idx \in [Workers -> Nat]
      BY DEF TypeOK
    <3>5. \A v \in Workers \ {w} : Took(v)' => idx'[v] # idx'[w]
      BY <2>0, <3>1, <3>3, <3>4
    <3>6. \A u, v \in Workers \ {w} : u # v /\ Took(u)' /\ Took(v)' => idx'[u] # idx'[v]
      BY <2>0
    <3> QED
      BY <3>5, <3>6
  <2>2. CASE ~LoadIndex(w)
    <3>1. (Took(w)' => Took(w)) /\ idx'[w] = idx[w]
      BY <1>2, <2>2, WorkerTakes
    <3>2. \A v \in Workers : (Took(v)' => Took(v)) /\ idx'[v] = idx[v]
      BY <2>0, <3>1
    <3> QED
      BY <3>2
  <2> QED
    BY <2>1, <2>2
<1> QED
  BY <1>1, <1>2, NextSplit

-----------------------------------------------------------------------------

\* A step of the parent that leaves it forking or waiting begins the run or
\* leaves alone all that was taken and decoded.
LEMMA RunGoesOn ==
  ASSUME IInv, NotWorker, parent' \in {"fork", "wait"}
  PROVE  \/ \E files \in NUM_FILES, processes \in NUM_PROCESSES : Start(files, processes)
         \/ /\ parent \in {"fork", "wait"}
            /\ UNCHANGED <<next_index, message, numfiles>>
            /\ \A w \in Workers : Took(w) => Took(w)' /\ idx'[w] = idx[w]
<1> USE DEF IInv, Took
<1>1. ASSUME NEW processes \in NUM_PROCESSES, ListFails(processes) PROVE FALSE
  BY <1>1 DEF ListFails
<1>2. CASE DecodeSeq \/ ForkFails \/ SeqCrash \/ WriteOutput \/ UnlinkSem \/ KillAndRerun
  BY <1>2 DEF DecodeSeq, ForkFails, SeqCrash, WriteOutput, UnlinkSem, KillAndRerun
<1>3. CASE Fork
  <2>1. /\ parent = "fork" /\ child' = [child EXCEPT ![p] = "open"]
        /\ UNCHANGED <<args, shared, idx>>
    BY <1>3 DEF Fork
  <2>2. \A w \in Workers : Took(w) => child'[w] = child[w]
    <3> SUFFICES ASSUME NEW w \in Workers, Took(w) PROVE child'[w] = child[w]
      OBVIOUS
    <3>1. w \in Nat /\ w < p /\ p \in Nat
      BY <2>1, WorkersAreNaturals DEF StageInv, TypeOK
    <3> QED
      BY <2>1, <3>1 DEF TypeOK
  <2> QED
    BY <2>1, <2>2 DEF args, shared
<1>4. ASSUME NEW v \in Workers, Wait(v)
      PROVE  /\ parent \in {"fork", "wait"}
             /\ UNCHANGED <<next_index, message, numfiles>>
             /\ \A w \in Workers : Took(w) => Took(w)' /\ idx'[w] = idx[w]
  <2>1. /\ parent = "wait" /\ child' = [child EXCEPT ![v] = "reaped"]
        /\ UNCHANGED <<args, shared, idx>>
    BY <1>4 DEF Wait
  <2>2. \A w \in Workers : child'[w] = IF w = v THEN "reaped" ELSE child[w]
    BY <2>1 DEF TypeOK
  <2> QED
    BY <2>1, <2>2 DEF args, shared
<1>5. CASE AllForked \/ UNCHANGED vars
  BY <1>5 DEF AllForked, vars, args, shared
<1> QED
  BY <1>1, <1>2, <1>3, <1>4, <1>5 DEF NotWorker, Parent, Ended

\* NothingSkipped in terms of Took.
LEMMA SkippedByTook ==
  ASSUME IInv, parent \in {"fork", "wait"}, NEW f \in Files, f < next_index
  PROVE  message[f] = Decoded(f) \/ \E w \in Workers : idx[w] = f /\ Took(w)
BY DEF IInv, NothingSkipped, Holds, Took

\* A worker that took an index holds it until its message is there or it is
\* gone.
LEMMA SkipStep == IInv /\ [Next]_vars => NothingSkipped'
<1> SUFFICES ASSUME IInv, [Next]_vars, parent' \in {"fork", "wait"},
                    NEW f \in Files', f < next_index'
             PROVE  message'[f] = Decoded(f) \/ \E w \in Workers : idx'[w] = f /\ Took(w)'
  BY DEF NothingSkipped, Holds, Took, Decoded
<1>1. CASE NotWorker
  <2>1. ASSUME NEW files \in NUM_FILES, NEW processes \in NUM_PROCESSES, Start(files, processes)
        PROVE FALSE
    <3>1. next_index' = 0 /\ numfiles' = files /\ files \in Nat
      BY <2>1, NumFilesAssumption DEF Start
    <3> QED
      BY <3>1 DEF Files
  <2>2. CASE /\ parent \in {"fork", "wait"}
             /\ UNCHANGED <<next_index, message, numfiles>>
             /\ \A w \in Workers : Took(w) => Took(w)' /\ idx'[w] = idx[w]
    <3>1. f \in Files /\ f < next_index
      BY <2>2 DEF Files
    <3> QED
      BY <2>2, <3>1, SkippedByTook
  <2> QED
    BY <1>1, <2>1, <2>2, RunGoesOn
<1>2. ASSUME NEW w \in Workers, Worker(w)
      PROVE  message'[f] = Decoded(f) \/ \E v \in Workers : idx'[v] = f /\ Took(v)'
  <2>1. f \in Files /\ parent \in {"fork", "wait"}
    BY <1>2, WorkerMoves DEF args, Files, IInv
  <2>2. \A v \in Workers \ {w} : (Took(v) => Took(v)') /\ idx'[v] = idx[v]
    BY <1>2, WorkerMoves, WorkerTakes DEF Took, IInv
  <2>3. CASE OpenSem(w) \/ SemWait(w) \/ LoadIndex(w)
    <3>1. ~Took(w) /\ UNCHANGED <<next_index, message>>
      BY <2>3 DEF OpenSem, SemWait, LoadIndex, Move, shared, Took
    <3> QED
      BY <2>1, <2>2, <3>1, SkippedByTook
  <2>4. CASE StoreIndex(w)
    <3>1. Took(w)' /\ idx'[w] = idx[w] /\ message' = message /\ idx[w] = next_index /\ next_index' = idx[w] + 1
      BY <2>4 DEF StoreIndex, Move, TypeOK, Took, Taken, IInv, IndexInv
    <3>2. f = next_index \/ f < next_index
      BY <2>1, <3>1 DEF Files, IInv, TypeOK
    <3> QED
      BY <2>1, <2>2, <3>1, <3>2, SkippedByTook
  <2>5. CASE SemPost(w) \/ DecoderCrash(w)
    <3>1. Took(w)' /\ UNCHANGED <<next_index, message, idx>>
      BY <2>5 DEF SemPost, DecoderCrash, Move, TypeOK, shared, Took, IInv
    <3> QED
      BY <2>1, <2>2, <3>1, SkippedByTook
  <2>6. CASE Decode(w)
    <3>1. /\ message' = [message EXCEPT ![idx[w]] = Decoded(idx[w])]
          /\ UNCHANGED <<next_index, idx>> /\ DOMAIN message = Files
      BY <2>6 DEF Decode, IInv, TypeOK
    <3>2. f = idx[w] => message'[f] = Decoded(f)
      BY <2>1, <3>1
    <3>3. f # idx[w] => message'[f] = message[f]
      BY <2>1, <3>1
    <3> QED
      BY <2>1, <2>2, <3>1, <3>2, <3>3, SkippedByTook
  <2> QED
    BY <1>2, <2>3, <2>4, <2>5, <2>6 DEF Worker
<1> QED
  BY <1>1, <1>2, NextSplit

\* A message is written by the only worker that has its index.
LEMMA MessageStep == IInv /\ [Next]_vars => MessageInv'
<1> SUFFICES ASSUME IInv, [Next]_vars, parent' \in {"fork", "wait"},
                    NEW f \in Files', message'[f] = Decoded(f)
             PROVE  f < next_index' /\ \A v \in Workers : Took(v)' => idx'[v] # f
  BY DEF MessageInv, Decoded
<1>1. CASE NotWorker
  <2>1. ASSUME NEW files \in NUM_FILES, NEW processes \in NUM_PROCESSES, Start(files, processes)
        PROVE FALSE
    <3>1. message' = [g \in 0..(files - 1) |-> ""] /\ numfiles' = files
      BY <2>1 DEF Start
    <3>2. message'[f] = ""
      BY <3>1 DEF Files
    <3> QED
      BY <3>2 DEF Decoded
  <2>2. CASE /\ parent \in {"fork", "wait"}
             /\ UNCHANGED <<next_index, message, numfiles>>
    <3>1. f \in Files /\ message[f] = Decoded(f)
      BY <2>2 DEF Files
    <3>2. \A v \in Workers : Took(v)' => Took(v) /\ idx'[v] = idx[v]
      BY <1>1, WorkersUndisturbed DEF Undisturbed, Took
    <3> QED
      BY <2>2, <3>1, <3>2 DEF IInv, MessageInv
  <2> QED
    BY <1>1, <2>1, <2>2, RunGoesOn
<1>2. ASSUME NEW w \in Workers, Worker(w)
      PROVE  f < next_index' /\ \A v \in Workers : Took(v)' => idx'[v] # f
  <2>1. f \in Files /\ parent \in {"fork", "wait"}
    BY <1>2, WorkerMoves DEF args, Files, IInv
  <2>2. \A v \in Workers \ {w} : (Took(v) <=> Took(v)') /\ idx'[v] = idx[v]
    BY <1>2, WorkerMoves, WorkerTakes DEF Took, IInv
  <2>3. f \in Int /\ next_index \in Nat
    BY <2>1 DEF Files, IInv, TypeOK
  <2>4. CASE OpenSem(w) \/ SemWait(w) \/ SemPost(w) \/ DecoderCrash(w)
    <3>1. ~LoadIndex(w)
      BY <2>4 DEF OpenSem, SemWait, SemPost, DecoderCrash, LoadIndex, Move
    <3>2. (Took(w)' => Took(w)) /\ idx'[w] = idx[w]
      BY <1>2, <3>1, WorkerTakes
    <3>3. UNCHANGED <<next_index, message>>
      BY <2>4 DEF OpenSem, SemWait, SemPost, DecoderCrash, shared
    <3> QED
      BY <2>1, <2>2, <3>2, <3>3 DEF IInv, MessageInv
  <2>5. CASE LoadIndex(w)
    <3>1. idx'[w] = next_index /\ UNCHANGED <<next_index, message>>
      BY <2>5 DEF LoadIndex, IInv, TypeOK, shared
    <3>2. f < next_index /\ \A v \in Workers : Took(v) => idx[v] # f
      BY <2>1, <3>1 DEF IInv, MessageInv
    <3> QED
      BY <2>2, <2>3, <3>1, <3>2
  <2>6. CASE StoreIndex(w)
    <3>1. Took(w) /\ UNCHANGED <<message, idx>> /\ idx[w] = next_index /\ next_index' = idx[w] + 1
      BY <2>6 DEF StoreIndex, Move, Took, Taken, IInv, IndexInv
    <3>2. f < next_index /\ \A v \in Workers : Took(v) => idx[v] # f
      BY <2>1, <3>1 DEF IInv, MessageInv
    <3> QED
      BY <2>2, <2>3, <3>1, <3>2
  <2>7. CASE Decode(w)
    <3>1. /\ message' = [message EXCEPT ![idx[w]] = Decoded(idx[w])]
          /\ UNCHANGED <<next_index, idx>> /\ DOMAIN message = Files
          /\ child[w] = "decode" /\ ~Took(w)'
      BY <2>7 DEF Decode, Move, IInv, TypeOK, Took
    <3>2. CASE f = idx[w]
      <4>1. Took(w) /\ idx[w] < next_index
        BY <3>1 DEF Took, IInv, IndexInv
      <4>2. \A v \in Workers \ {w} : Took(v) => idx[v] # f
        BY <3>2, <4>1 DEF IInv, TookInv
      <4> QED
        BY <2>2, <3>1, <3>2, <4>1, <4>2
    <3>3. CASE f # idx[w]
      <4>1. message[f] = Decoded(f)
        BY <2>1, <3>1, <3>3
      <4>2. f < next_index /\ \A v \in Workers : Took(v) => idx[v] # f
        BY <2>1, <4>1 DEF IInv, MessageInv
      <4> QED
        BY <2>2, <3>1, <4>2
    <3> QED
      BY <3>2, <3>3
  <2> QED
    BY <1>2, <2>4, <2>5, <2>6, <2>7 DEF Worker
<1> QED
  BY <1>1, <1>2, NextSplit

-----------------------------------------------------------------------------

\* When the last worker was reaped the messages lack only what crashed workers
\* held, unless all of them crashed: one that did not crash saw the counter at
\* the end of the list.
LEMMA CompleteAtUnlink ==
  ASSUME IInv, parent = "wait", AllReaped
  PROVE  Complete(message)
<1> USE DEF IInv
<1>1. /\ \A w \in Workers : child[w] \in {"absent", "reaped"}
      /\ Cardinality(Reaped) = numprocesses /\ numprocesses > 0
  BY AllReapedMeansNoWorker DEF StageInv
<1>2. CASE Crashed = Reaped
  BY <1>1, <1>2 DEF Complete
<1>3. CASE Crashed # Reaped
  <2>1. PICK u \in Workers : child[u] = "reaped" /\ ~(idx[u] < numfiles)
    BY <1>3 DEF Crashed, Reaped
  <2>2. idx[u] < next_index
    BY <2>1 DEF IndexInv, Took
  <2>3. \A f \in Files : f < next_index
    BY <2>1, <2>2 DEF TypeOK, Files
  <2>4. ASSUME NEW f \in Files, message[f] # Decoded(f) PROVE f \in {idx[w] : w \in Crashed}
    <3>1. PICK w \in Workers : idx[w] = f /\ Took(w)
      BY <2>3, <2>4, SkippedByTook
    <3>2. child[w] = "reaped" /\ idx[w] < numfiles
      BY <1>1, <3>1 DEF Took, Files, TypeOK
    <3> QED
      BY <3>1, <3>2 DEF Crashed
  <2>5. ASSUME NEW w \in Crashed PROVE idx[w] \in Files /\ message[idx[w]] # Decoded(idx[w])
    <3>1. w \in Workers /\ Took(w) /\ idx[w] < numfiles
      BY DEF Crashed, Took
    <3>2. idx[w] \in Files
      BY <3>1 DEF Files, TypeOK
    <3> QED
      BY <3>1, <3>2 DEF MessageInv
  <2> QED
    BY <2>4, <2>5 DEF Complete
<1> QED
  BY <1>2, <1>3

LEMMA OutputStep == IInv /\ [Next]_vars => OutputInv'
<1> SUFFICES ASSUME IInv, [Next]_vars PROVE OutputInv'
  OBVIOUS
<1> USE DEF IInv
<1>1. ASSUME NEW files \in NUM_FILES, NEW processes \in NUM_PROCESSES, Start(files, processes)
      PROVE OutputInv'
  <2>1. p' = 0 /\ parent' \in {"seq", "fork"}
    BY <1>1 DEF Start
  <2>2. \A f \in Files' : ~(f < p')
    <3>1. numfiles' \in Nat
      BY <1>1, NumFilesAssumption DEF Start
    <3> QED
      BY <2>1, <3>1 DEF Files
  <2> QED
    BY <2>1, <2>2 DEF OutputInv
<1>2. ASSUME NEW processes \in NUM_PROCESSES, ListFails(processes) PROVE OutputInv'
  <2>1. numfiles' = 0 /\ parent' \in {"output", "failed"} /\ \A w \in Workers : child'[w] = "absent"
    BY <1>2 DEF ListFails, StageInv
  <2>2. Files' = {} /\ Crashed' = {}
    BY <2>1 DEF Files, Crashed
  <2>3. Complete(message)'
    BY <2>2 DEF Complete
  <2> QED
    BY <2>1, <2>3 DEF OutputInv
<1>3. CASE DecodeSeq
  <2>1. \A w \in Workers : child'[w] = "absent"
    BY <1>3, WorkersAreNaturals DEF DecodeSeq, StageInv, TypeOK
  <2>2. UNCHANGED <<numfiles, numprocesses>> /\ parent = "seq" /\ DOMAIN message = Files
    BY <1>3 DEF DecodeSeq, args, TypeOK
  <2>3. Files' = Files /\ Crashed' = {}
    BY <2>1, <2>2 DEF Files, Crashed
  <2>4. CASE p < numfiles
    <3>1. message' = [message EXCEPT ![p] = Decoded(p)] /\ p' = p + 1 /\ parent' = "seq"
      BY <1>3, <2>4 DEF DecodeSeq
    <3>2. ASSUME NEW f \in Files, f < p' PROVE message'[f] = Decoded(f)
      <4>1. f = p \/ f < p
        BY <3>1, <3>2 DEF Files, TypeOK
      <4>2. f < p => message[f] = Decoded(f)
        BY <2>2 DEF OutputInv
      <4> QED
        BY <2>2, <3>1, <4>1, <4>2
    <3> QED
      BY <2>3, <3>1, <3>2 DEF OutputInv, Decoded
  <2>5. CASE ~(p < numfiles)
    <3>1. parent' = "output" /\ message' = message
      BY <1>3, <2>5 DEF DecodeSeq
    <3>2. \A f \in Files : message[f] = Decoded(f)
      BY <2>2, <2>5 DEF OutputInv, Files, TypeOK
    <3>3. Complete(message)'
      BY <2>3, <3>1, <3>2 DEF Complete, Decoded
    <3> QED
      BY <3>1, <3>3 DEF OutputInv
  <2> QED
    BY <2>4, <2>5
<1>4. CASE Fork \/ ForkFails \/ SeqCrash \/ AllForked \/ KillAndRerun
  BY <1>4 DEF Fork, ForkFails, SeqCrash, AllForked, KillAndRerun, OutputInv
<1>5. ASSUME NEW w \in Workers, Wait(w) PROVE OutputInv'
  BY <1>5 DEF Wait, OutputInv
<1>6. CASE UnlinkSem
  <2>1. parent = "wait" /\ AllReaped /\ parent' = "output" /\ UNCHANGED <<args, shared, child, idx>>
    BY <1>6 DEF UnlinkSem
  <2>2. Complete(message)
    BY <2>1, CompleteAtUnlink
  <2>3. Files' = Files /\ Crashed' = Crashed
    BY <2>1 DEF Files, Crashed, args
  <2>4. Complete(message)'
    BY <2>1, <2>2, <2>3 DEF Complete, Decoded, args, shared
  <2> QED
    BY <2>1, <2>4 DEF OutputInv
<1>7. CASE WriteOutput
  <2>1. /\ parent = "output" /\ parent' = "finished" /\ output' = message
        /\ UNCHANGED <<args, child, idx>>
    BY <1>7 DEF WriteOutput
  <2>2. Complete(message)
    BY <2>1 DEF OutputInv
  <2>3. Files' = Files /\ Crashed' = Crashed
    BY <2>1 DEF Files, Crashed, args
  <2>4. Complete(output)'
    BY <2>1, <2>2, <2>3 DEF Complete, Decoded, args
  <2> QED
    BY <2>1, <2>4 DEF OutputInv
<1>8. ASSUME NEW w \in Workers, Worker(w) PROVE OutputInv'
  <2>1. parent' = parent /\ child[w] \notin {"absent", "reaped"}
    BY <1>8, WorkerMoves
  <2>2. parent \notin {"seq", "output", "finished"}
    BY <2>1, WorkersAreNaturals DEF StageInv, TypeOK
  <2> QED
    BY <2>1, <2>2 DEF OutputInv
<1>9. CASE UNCHANGED vars
  BY <1>9 DEF vars, args, shared, OutputInv, Complete, Crashed, Files, Decoded
<1> QED
  BY <1>1, <1>2, <1>3, <1>4, <1>5, <1>6, <1>7, <1>8, <1>9 DEF Next, Parent, Ended

-----------------------------------------------------------------------------

LEMMA Inductive == Spec => []IInv
<1>1. IInv /\ [Next]_vars => IInv'
  BY TypeStep, StageStep, SemStep, MutexStep, IndexStep, TookStep, SkipStep, MessageStep,
     OutputStep DEF IInv
<1> QED
  BY InitIInv, <1>1, PTL DEF Spec

\* The globals, the shared memory and the processes keep their types; the
\* semaphore never exceeds 1, so sem_post is only called by a worker inside.
THEOREM TypeCorrect == Spec => []TypeOK
<1>1. IInv => TypeOK
  BY DEF IInv
<1> QED
  BY Inductive, <1>1, PTL

\* However many workers there are and whenever the run is killed, no two hold
\* the same file of the list, and none one that is not in it.
THEOREM DistinctTaken == Spec => []DistinctIndices
<1>1. IInv => DistinctIndices
  <2> SUFFICES ASSUME IInv PROVE DistinctIndices
    OBVIOUS
  <2>1. \A w \in Workers : Holds(w) => Took(w)
    BY DEF Holds, Took
  <2>2. \A w \in Workers : child[w] = "decode" => idx[w] \in Files
    BY DEF IInv, IndexInv, TypeOK, Files
  <2> QED
    BY <2>1, <2>2 DEF IInv, TookInv, DistinctIndices
<1> QED
  BY Inductive, <1>1, PTL

\* The counter passes no file without a worker having taken it.
THEOREM NoneSkipped == Spec => []NothingSkipped
<1>1. IInv => NothingSkipped
  BY DEF IInv
<1> QED
  BY Inductive, <1>1, PTL

\* A run that writes an output, sequential or parallel, first or after a kill,
\* lacks exactly the files whose decoder crashed, unless every worker did.
THEOREM OutputIsComplete == Spec => []OutputComplete
<1>1. IInv => OutputComplete
  BY DEF IInv, OutputInv, StageInv, SemInv, Complete, OutputComplete
<1> QED
  BY Inductive, <1>1, PTL

=============================================================================
