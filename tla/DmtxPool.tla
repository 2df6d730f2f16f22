------------------------------ MODULE DmtxPool ------------------------------
(***************************************************************************)
(* lab08-Group12/analyzedmtx.c: a parent forks workers that share a file   *)
(* list and a counter in shared memory, protected by a named semaphore;    *)
(* each worker takes the next index and decodes that file, until the       *)
(* indices run out.  With no workers the parent decodes the files itself.  *)
(*                                                                         *)
(* The semaphore lives in the kernel: it survives the processes, and a run *)
(* that finds one opens it with the value it has.                          *)
(***************************************************************************)
EXTENDS Integers, FiniteSets

CONSTANTS
  NUM_FILES,        \* numbers of images a folder may hold
  NUM_PROCESSES,    \* values of argv[1]
  UNREADABLE,       \* indices of images that cannot be decoded
  DECODER_CRASHES,  \* whether the decoder may crash its process
  FORK_FAILS,       \* whether fork may fail
  MAX_KILLS         \* bound: how often the process group is killed and rerun

ASSUME NumFilesAssumption == NUM_FILES \subseteq Nat
ASSUME NumProcessesAssumption == NUM_PROCESSES \subseteq Nat

VARIABLES
  numfiles, numprocesses,
  sem,          \* value of "/dmtx_sem", Unlinked when there is none
  next_index,   \* info->next_index, in shared memory
  message,      \* index -> filelist[index].message, in shared memory
  parent,       \* where the parent is
  p,            \* the parent's loop index
  child,        \* worker -> where it is
  idx,          \* worker -> the index it took
  output,       \* the messages written to the output file
  kills

shared == <<next_index, message>>
args == <<numfiles, numprocesses>>
vars == <<args, sem, shared, parent, p, child, idx, output, kills>>

Unlinked == -1
Workers == UNION {0..(n - 1) : n \in NUM_PROCESSES}
Files == 0..(numfiles - 1)

NoMessages == [f \in Files |-> ""]
Decoded(f) == IF f \in UNREADABLE THEN "error" ELSE "text"

Init ==
  /\ numfiles = 0 /\ numprocesses = 0
  /\ sem = Unlinked
  /\ next_index = 0 /\ message = NoMessages
  /\ parent = "start" /\ p = 0
  /\ child = [w \in Workers |-> "absent"]
  /\ idx = [w \in Workers |-> 0]
  /\ output = <<>>
  /\ kills = 0

-----------------------------------------------------------------------------
(* The parent. *)

\* Mutant of OpenedSem: the semaphore is created with room for two.
OpenedSemTwo == IF sem = Unlinked THEN 2 ELSE sem
\* sem_open with O_CREAT: the initial value counts only if it is created here.
OpenedSem == IF sem = Unlinked THEN 1 ELSE sem

\* generate_file_list, and the head of generate_dmtx_par.
Start(files, processes) ==
  /\ parent = "start"
  /\ numfiles' = files /\ numprocesses' = processes
  /\ message' = [f \in 0..(files - 1) |-> ""]
  /\ next_index' = 0 /\ p' = 0
  /\ IF processes = 0
     THEN parent' = "seq" /\ UNCHANGED sem
     ELSE parent' = "fork" /\ sem' = OpenedSem
  /\ UNCHANGED <<child, idx, output, kills>>

\* The folder cannot be opened; main ignores the result, so without workers it
\* writes an empty output, with workers it dereferences a NULL sharedmem.
ListFails(processes) ==
  /\ parent = "start"
  /\ numfiles' = 0 /\ numprocesses' = processes
  /\ message' = <<>>
  /\ parent' = IF processes = 0 THEN "output" ELSE "failed"
  /\ UNCHANGED <<sem, next_index, p, child, idx, output, kills>>

DecodeSeq ==
  /\ parent = "seq"
  /\ IF p < numfiles
     THEN /\ message' = [message EXCEPT ![p] = Decoded(p)]
          /\ p' = p + 1
          /\ UNCHANGED parent
     ELSE parent' = "output" /\ UNCHANGED <<message, p>>
  /\ UNCHANGED <<args, sem, next_index, child, idx, output, kills>>

\* The decoding library brings the only process down.
SeqCrash ==
  /\ DECODER_CRASHES
  /\ parent = "seq" /\ p < numfiles
  /\ parent' = "failed"
  /\ UNCHANGED <<args, sem, shared, p, child, idx, output, kills>>

Fork ==
  /\ parent = "fork"
  /\ p < numprocesses
  /\ child' = [child EXCEPT ![p] = "open"]
  /\ p' = p + 1
  /\ UNCHANGED <<args, sem, shared, parent, idx, output, kills>>

\* exit(1) without a wait: the workers forked so far are left alone.
ForkFails ==
  /\ FORK_FAILS
  /\ parent = "fork"
  /\ p < numprocesses
  /\ parent' = "failed"
  /\ UNCHANGED <<args, sem, shared, p, child, idx, output, kills>>

AllForked ==
  /\ parent = "fork"
  /\ p = numprocesses
  /\ parent' = "wait" /\ p' = 0
  /\ UNCHANGED <<args, sem, shared, child, idx, output, kills>>

\* wait(NULL) takes whichever child has exited.
Wait(w) ==
  /\ parent = "wait" /\ p < numprocesses
  /\ child[w] = "exited"
  /\ child' = [child EXCEPT ![w] = "reaped"]
  /\ p' = p + 1
  /\ UNCHANGED <<args, sem, shared, parent, idx, output, kills>>

\* Mutant of AllReaped: the parent does not wait for the last worker.
AllReapedButOne == p >= numprocesses - 1
AllReaped == p = numprocesses

UnlinkSem ==
  /\ parent = "wait" /\ AllReaped
  /\ sem' = Unlinked
  /\ parent' = "output"
  /\ UNCHANGED <<args, shared, p, child, idx, output, kills>>

WriteOutput ==
  /\ parent = "output"
  /\ output' = message
  /\ parent' = "finished"
  /\ UNCHANGED <<args, sem, shared, p, child, idx, kills>>

-----------------------------------------------------------------------------
(* The workers. *)

Move(w, from, to) == child[w] = from /\ child' = [child EXCEPT ![w] = to]
Own == <<args, parent, p, output, kills>>

OpenSem(w) ==
  /\ Move(w, "open", IF sem = Unlinked THEN "exited" ELSE "sem_wait")
  /\ UNCHANGED <<Own, sem, shared, idx>>

\* Mutants: of Down, sem_wait does not take the semaphore; of Up, sem_post
\* does not give it back; of Taken, the counter skips an index.
DownNever == sem
Down == sem - 1
UpNever == sem
Up == sem + 1
TakenTwice(w) == idx[w] + 2
Taken(w) == idx[w] + 1
NoMoreFiles(w) == idx[w] >= numfiles

SemWait(w) ==
  /\ sem > 0
  /\ sem' = Down
  /\ Move(w, "sem_wait", "load")
  /\ UNCHANGED <<Own, shared, idx>>

\* int idx = info->next_index++ reads the counter and then writes it.
LoadIndex(w) ==
  /\ Move(w, "load", "store")
  /\ idx' = [idx EXCEPT ![w] = next_index]
  /\ UNCHANGED <<Own, sem, shared>>

StoreIndex(w) ==
  /\ Move(w, "store", "sem_post")
  /\ next_index' = Taken(w)
  /\ UNCHANGED <<Own, sem, message, idx>>

SemPost(w) ==
  /\ Move(w, "sem_post", IF NoMoreFiles(w) THEN "exited" ELSE "decode")
  /\ sem' = Up
  /\ UNCHANGED <<Own, shared, idx>>

Decode(w) ==
  /\ Move(w, "decode", "sem_wait")
  /\ message' = [message EXCEPT ![idx[w]] = Decoded(idx[w])]
  /\ UNCHANGED <<Own, sem, next_index, idx>>

\* The decoding library brings its process down.
DecoderCrash(w) ==
  /\ DECODER_CRASHES
  /\ Move(w, "decode", "exited")
  /\ UNCHANGED <<Own, sem, shared, idx>>

Worker(w) ==
  \/ OpenSem(w) \/ SemWait(w) \/ LoadIndex(w) \/ StoreIndex(w) \/ SemPost(w)
  \/ Decode(w) \/ DecoderCrash(w)

-----------------------------------------------------------------------------
\* The whole process group is killed and the program started again: the shared
\* memory is unlinked and made anew (analyzedmtx.c:120), the semaphore is not.
KillAndRerun ==
  /\ parent \in {"seq", "fork", "wait", "output"}
  /\ kills < MAX_KILLS
  /\ kills' = kills + 1
  /\ parent' = "start" /\ p' = 0
  /\ numfiles' = 0 /\ numprocesses' = 0
  /\ next_index' = 0 /\ message' = <<>>
  /\ child' = [w \in Workers |-> "absent"]
  /\ idx' = [w \in Workers |-> 0]
  /\ UNCHANGED <<sem, output>>

Parent ==
  \/ \E files \in NUM_FILES, processes \in NUM_PROCESSES : Start(files, processes)
  \/ \E processes \in NUM_PROCESSES : ListFails(processes)
  \/ DecodeSeq \/ Fork \/ AllForked \/ UnlinkSem \/ WriteOutput
  \/ \E w \in Workers : Wait(w)

Ended ==
  /\ parent \in {"finished", "failed"}
  /\ \A w \in Workers : child[w] \in {"absent", "exited", "reaped"}
  /\ UNCHANGED vars

Next ==
  \/ Parent \/ ForkFails \/ SeqCrash \/ KillAndRerun \/ Ended
  \/ \E w \in Workers : Worker(w)

Spec == Init /\ [][Next]_vars

\* The kernel runs every process that can run; sem_wait is served in time
\* because a worker takes it once per file.
FairSpec == Spec /\ WF_vars(Parent) /\ \A w \in Workers : WF_vars(Worker(w))

-----------------------------------------------------------------------------
(* Properties. *)

Critical(w) == child[w] \in {"load", "store", "sem_post"}
Holds(w) == child[w] \in {"store", "sem_post", "decode"}

TypeOK ==
  /\ numfiles \in Nat /\ numprocesses \in Nat
  /\ sem \in {Unlinked, 0, 1}
  /\ next_index \in Nat
  /\ DOMAIN message = Files
  /\ parent \in {"start", "seq", "fork", "wait", "output", "finished", "failed"}
  /\ p \in Nat
  /\ child \in [Workers -> {"absent", "open", "sem_wait", "load", "store", "sem_post",
                            "decode", "exited", "reaped"}]
  /\ idx \in [Workers -> Nat]

\* No two workers ever hold the same index, so no file is decoded twice and no
\* two processes write the same entry of the shared list; and none writes past
\* its end.
DistinctIndices ==
  /\ \A v, w \in Workers : v # w /\ Holds(v) /\ Holds(w) => idx[v] # idx[w]
  /\ \A w \in Workers : child[w] = "decode" => idx[w] \in Files

\* Every index below the counter is accounted for: its message is there, or a
\* worker holds it, or one that the decoder brought down did.  None is skipped.
NothingSkipped ==
  parent \in {"fork", "wait"} =>
    \A f \in Files : f < next_index =>
      \/ message[f] = Decoded(f)
      \/ \E w \in Workers : idx[w] = f /\ (Holds(w) \/ child[w] \in {"exited", "reaped"})

\* A worker that the decoder brought down has not seen the end of the list.
Crashed == {w \in Workers : child[w] = "reaped" /\ idx[w] < numfiles}

\* The output of a run that finished, with workers or without, first or rerun,
\* holds the result of every file, and no worker is left.  Decoders that crash
\* lose the file they held and no other, unless they bring every worker down.
OutputComplete ==
  parent = "finished" =>
    /\ \/ {f \in Files : output[f] # Decoded(f)} = {idx[w] : w \in Crashed}
       \/ numprocesses > 0 /\ Cardinality(Crashed) = numprocesses
    /\ \A w \in Workers : child[w] \in {"absent", "reaped"}
    /\ numprocesses > 0 => sem = Unlinked

\* A run that was not killed ends, whatever crashes or cannot be forked.
RunEnds ==
  (parent \in {"seq", "fork"} /\ kills = 0) ~> (parent \in {"finished", "failed"} \/ kills > 0)

\* A run that follows a killed one ends too: the test script expects it to
\* leave an output to compare (run_test.py:9-12).
RerunEnds == (kills > 0 /\ parent = "fork") ~> (parent \in {"finished", "failed"})
=============================================================================
