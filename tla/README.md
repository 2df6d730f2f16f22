# A TLA+ development for the ENSF 461 labs

The repository holds seven small systems programs in C, one per lab. This
directory models the program of each that has a core of its own, checks the models with
TLC on small instances, and proves results about them with TLAPS.

Contents: [inventory](#1-inventory) · [modules](#2-modules-and-the-code) ·
[runs](#3-runs) · [bounds](#4-bounds) · [fairness](#5-fairness) ·
[proofs](#6-proofs) · [findings](#7-what-disagrees-with-the-code) ·
[not modelled](#8-what-is-not-modelled) · [plan](#9-plan)

## 1. Inventory

| Component | Source | State | Operations | Modelled |
|---|---|---|---|---|
| Paged-memory simulator | `lab06-Group12/memsym.c` | page table per process, physical memory, registers, TLB, 32-bit clock | `define ctxswitch load store add map unmap` and four inspections, read from a trace | yes |
| First-fit allocator | `lab05-Group12/myalloc.c` | one arena, list of chunk headers, error status | `myinit mydestroy myalloc myfree` | yes |
| Math server | `lab07-Group12/mathserver.c` | queue and value per context, log mutex, log | read the trace, create and join a thread per context; each thread executes `set add sub mul div fib pri pia` | yes |
| Data Matrix decoder | `lab08-Group12/analyzedmtx.c` | file list and counter in shared memory, named semaphore | fork workers, take an index, decode, wait, write the output | yes |
| Job scheduler | `lab04-Group12/scheduler.c` | list of jobs, clock | read the workload, run FIFO, SJF, STCF, RR or LT, analyse | yes |
| Shell | `lab03-Group12/shell.c`, `parser.c` | input buffers, child processes, a pipe and its descriptors | read, trim, split, `fork`/`execve`/`waitpid`, two-command pipe | yes |
| CSV exercise | `lab02-Group12/exercise03` | growing line buffer, list of records | read a line, append a record, write the list | yes, without the floats |
| Number generation | `lab02-Group12/exercise01`, `02` | none | loops around `rand` | no |
| Test drivers | `test*.c`, `*.py`, `*.sh` | none | call the programs, compare outputs | no; they fix the client protocols |

The programs do not call one another. Inside them the parts interact as follows.

* **memsym**: one loop reads instructions and calls a handler. `load` and `store`
  call `translate`, which reads the page table and the TLB and fills the TLB;
  `map` and `unmap` change both. The hard part is *staleness over long
  sequences*: a hit does not look at the page table, the TLB is shared by the
  processes and not flushed on a switch, three functions stop at the first
  matching entry, and eviction depends on a clock that wraps.
  Correct means: a trace cannot tell that there is a TLB; the entry evicted is
  the one the strategy names.
* **myalloc**: the client calls the four functions; `myalloc` walks the list that
  splits and merges rewrite. Hard: *protocol sequences* (orders of allocation and
  free), *boundary sizes*, *failure of mmap*. Correct means: live blocks are
  disjoint and inside the arena, chunks tile it, a request is refused only when
  no gap can hold it, every call returns.
* **mathserver**: `main` fills the queues, then only the threads touch them; the
  threads share the log and its mutex. Hard: *interleaving* of results printed in
  several pieces, a *queue at its limit*, *termination*, and a division by zero
  that kills everyone. Correct means: it does what a sequential server per
  context does.
* **analyzedmtx**: processes share a counter under a semaphore that outlives
  them. Hard: *atomicity* of the counter, *crashes* of workers, failing `fork`,
  *kill and rerun*. Correct means: every file is decoded exactly once, the output
  is complete, the run ends.
* **scheduler**: single-threaded simulation. Hard: *off-by-one at arrivals and
  ends of slices*, preempted slices that are printed late, ties, a cursor in the
  middle of a pass. Correct means: the printed schedule is consistent, never
  idle with a job ready, agrees with the analysis and keeps what each policy promises.
* **shell**: `execute_pipe` forks twice around one pipe; `parse_args` writes NULs
  into the line it walks. Hard: *descriptors left open* block the reader forever;
  *failing forks* in the middle of a pipe; the parser steps over the NUL that ends
  its argument and may meet an older line; the children share the offset of the
  input with the shell. Correct means: lines are read once and in order, a program
  gets the words of its line, the reader of a pipe gets all of it, nothing is left
  behind, the prompt returns.
* **csv**: sequential. Hard: the *boundary of the buffer* that doubles, the *end of
  the file* with or without a line end, allocations, opens and writes that fail
  half-way. Correct
  means: the rows written are the rows of the file.

`PROJECT.json` lists the hazards line by line with the properties that cover them.

## 2. Modules and the code

Actions and state carry the names of the code where TLA+ allows it. Definitions
whose comment says "Mutant of X" are plausible bugs of X, used to show that each
property can fail; no specification uses them.

### The paged-memory simulator

* `MemsymParams`: sizes and address arithmetic, shared by the three modules below.
* `Memsym`: `memsym.c`. One action per instruction, the whole handler: `Load` is
  `get_register`, `translate` and the register write. `Hits`, `Victim`, `Fill`,
  `Touch` are the loops and assignments of `translate` and `map`; "the first
  index" of a C loop is `First(i, S)`. An `exit` sets `halted`. `strategy` is
  `argv[1]` and never changes.
* `PagedMemory` (abstract): the same machine with no TLB. `Memsym` implements it
  with the identity mapping (`Transparent`).
* `TlbQueue` (abstract): the TLB as a queue of pages, no timestamps or slots.
  `Memsym` implements it (`ReplacesOldest`): the valid entries are mapped to their
  pages, and older timestamps to places nearer to the front.

### The allocator

* `MyAlloc`: `myalloc.c`. Addresses are offsets into the arena, `hdr` maps the
  address of every header on the list to its `node_t`. A call is one step, except
  that the search of `myalloc` takes a step per hop (`NextChunk`, then `Found` or
  `NotFound`), so that its termination can be stated. `live` is a ghost: what the
  client holds. The client frees only what it holds and calls `myinit` only when
  no arena is mapped, as the tests do.
* `HeapSpec` (abstract): disjoint live blocks in an arena, no headers or list;
  refusing is allowed only when no gap is large enough. `Contract` is the
  refinement.

### The math server

* `MathOps`: what one operation does to a value and the pieces it prints, one per
  `fprintf`: a list of primes has one for every number and one for every comma.
* `MathServer`: `mathserver.c`. `main`'s loops and, per context, the thread of
  `process_operations`: `Take`, `Lock`, `Execute`, one `Emit` per `fprintf`,
  `Unlock`. Queues are rings in an array that doubles.
* `SeqServer` (abstract): per context a list of operations executed one by one,
  each printing whole results; the log closes when all are done. What an operation
  does and prints is a parameter. `Sequential` is the refinement; what a thread still
  has to print counts as printed.
* `PrimeSieve`: the sieve of `pri` loop turn by loop turn, in wrapping arithmetic.

### The Data Matrix decoder

* `DmtxPool`: `analyzedmtx.c`. The parent (`Start`, `Fork`, `Wait`, `UnlinkSem`,
  `WriteOutput`), the workers (`OpenSem`, `SemWait`, `LoadIndex`, `StoreIndex`,
  `SemPost`, `Decode`), the sequential mode, and three kinds of failure:
  `ForkFails`, `DecoderCrash`, `KillAndRerun`. `next_index++` is two steps. The
  semaphore survives `KillAndRerun`, the shared memory does not (line 120). In the
  sequential mode a crashing decoder takes the parent with it (`SeqCrash`).

### The scheduler

* `Scheduler`: `scheduler.c`. `ReadJob` builds the list, then one action per turn
  of the chosen policy's loop. `trace` is what the program prints. The lottery is
  a choice of ticket, so every seed is covered. `EndPolicy` is the analysis.
* `Schedules`: what STCF and SJF are compared to: where the schedules of one processor
  may be at a time (`Reach`), preempting and idling at every unit as they like.

### The shell

* `ShellParser`: `trimstring`, `strtok` and `parse_args` as operators on a memory, a
  sequence of characters that goes on behind the terminator. The walk of
  `parse_args` over that memory is what the code does; `Scan` and `Words` say what
  an argument is, without memory, and are the reference.
* `Shell`: `shell.c`. The shell is one process (`ReadLine`, the forks, `Wait`,
  `CloseEnds`), each child another; `ends` is the set of open pipe ends with their
  holder. `ReadLine` is `fgets` through stdio's buffer. A child whose command cannot
  be executed calls `exit(1)` (`ExitOne`), which works on the streams it has
  inherited: what the shell has printed is flushed to the child's standard output,
  for the left command of a pipe the pipe (`Flushed`, or `Killed` by it), and what
  the shell has read ahead is given back to the file by moving the shared offset
  (`GivenBack`). Not so for the right command, whose standard input is the pipe by
  then (line 269), on which a seek fails. `failed` is a history of this. `buffer`
  begins with what the stack held (`STACKS`). What the executed programs do is an
  environment: the left one writes and ends, the right one reads to the end or
  stops before.
* `MCShell`: the lines: blanks, tabs, quotes and pipes in every position, unknown
  commands, empty ones, lines longer than the buffer, each followed by another, on a
  stack that is empty or full of words.

### The CSV exercise

* `CsvReader`: `parsecsv.c` and `util.c`. The argument check and the opening of the
  input (`Usage`, `OpenInput`, `OpenInputFails`), then `read_next_line`, a step per
  number, the list, and the output. Allocations and opens that fail are actions;
  `ReturnLoses` is a disk that is full: neither `fprintf` nor `fclose` is checked, and
  the rows from some place on are lost. A record holds the row its average and
  deviation are computed from. `FileRows` says what the rows of a file are, by a walk
  from its end that knows nothing of the buffer.
* `MCCsvReader`: the files. `FilesAssumption`: commas stand between numbers, and
  between two numbers there is a comma or a line end.

## 3. Runs

| Run | Shows |
|---|---|
| `MemsymCoherence` | On traces of any length (the clock wraps at 3) the TLB agrees with the page tables (`TlbCoherent`) and holds no page twice (`TlbUnique`). |
| `MemsymMachine` | With data: no difference from a machine without a TLB in registers, memory, page tables and exits (`tinspect` and the hit and miss lines of the log do tell, and are left out); LRU and FIFO evict the page they should. |
| `MyAllocHeap` | Chunks tile the arena (`Tiled`), free neighbours are always merged (`Coalesced`), exactly the held chunks are marked (`LiveBlocks`), searches end, and the allocator implements `HeapSpec`. |
| `MyAllocOverflow`, `MyAllocFailedInit` | Findings, see section 7. |
| `MathServer` | Queues that grow, three threads, every interleaving of the pieces of results: implements `SeqServer`, and ends. |
| `PrimeSieve` | The sieve prints exactly the primes, crosses out no prime on the way, and ends. |
| `DmtxPool` | No two workers hold the same index and none decodes one past the list (`DistinctIndices`), none is skipped, the output is complete up to what crashed decoders held, and a run that is not killed ends. |
| `DmtxRerun` | Finding, see section 7. |
| `Shell` | Lines are read once and in order, also behind a right command that cannot be executed; behind another one, in a shell that runs a file, all lines but the last are (`LinesInOrder`). Programs get the words of their line, or of their side of the pipe (`ArgsAreWords`; the left one where its text is closed before the pipe, see section 7). The reader of a pipe gets what was written and sees the end of it, and what the shell itself had printed never mixes with it (`PipeIntact`). No child and no pipe end outlives its line (`Foreground`). After a line that is not blank the prompt returns, after a blank one it does or the shell is aborted, and a shell at a terminal where no line is blank gets to the end of its input (`PromptReturns`), with failing forks, pipes and commands. |
| `CsvReader` | Nothing is written past the buffer (`TypeOK`); a run that returns 0 has written the rows of the file, or the first of them if memory or the disk ran out (`RowsExact`). |
| `Scheduler` | The schedule is one processor's history (`TraceExact`), the processor is never idle with a job ready (`WorkConserving`; what LT charges a job beyond its need counts as busy), the analysis agrees with it (`AnalysisExact`), SJF picks the shortest (`ShortestNext`), STCF is optimal (`Optimal`), RR overtakes nobody (`NoOvertaking`) and is FIFO for long slices (`LongSliceIsFifo`), each ticket counts once (`LotteryFair`), all policies end (`Finishes`). |

Deadlock is checked except where the system stops for good: `Memsym` halts or
reaches its bound, `PrimeSieve` ends, and in `DmtxPool` a rerun after a kill may
wait forever, which is the finding. `RunEnds` covers the runs that are not killed.

## 4. Bounds

* `MemsymCoherence`: two processes, two pages, two frames, two TLB entries. Four
  pages compete for two entries, so evictions, holes after `unmap`, and the same
  page number in two processes all occur. `TS_MOD = 3 = MAX_TIMESTAMP`: nothing
  bounds the trace and the clock wraps, so timestamps come out of order. No data
  (`WORD_SIZE = 1`).
* `MemsymMachine`: one-bit words and five ticks after `define`; immediate loads do
  not tick, so data is unbounded. Five ticks suffice to fill the TLB, hit an entry,
  evict and look again. `MAX_TIMESTAMP < TS_MOD`: after a wrap the replacement
  order is wrong by nature of the code (2^32 instructions), so it is not claimed.
* `MyAllocHeap`: headers of 2 bytes and arenas of 6 and 12: up to four chunks,
  requests from 0 to one more than any chunk; both sides of the split boundary
  (`remaining_size > sizeof(node_t)`) and merges on both sides at once occur.
* `MathServer`: three contexts, traces of up to three lines with eight operations,
  words of 3 bits so that sums and products wrap; queues start with one slot (the
  code with `SIZE`) so that they double. All values of a context may be reached.
* `PrimeSieve`: all `n` up to 120 with words that wrap at 132. `SieveAssumption` says
  which words go with which bound: `MAX_N` lies below the largest square of a word
  (121; 65535 squared in the code), beyond which `i * i` wraps before it passes `N`,
  and one more `i` still fits.
* `DmtxPool`: 0, 1 and 3 files, 0, 1, 2 and 4 workers (more and fewer than files),
  one unreadable image, one kill.
* `Shell`: a buffer of 13 characters (1024 in the code), three arguments and the
  closing `NULL`, a pipe of two items and up to three written, so that a writer
  blocks; every first line is followed by every second one, so that the buffer holds
  an older line behind the terminator. Behind the first line lies what the stack held:
  nothing, or words with Nuls between them (`MCStacks`). `MAX_LINES = 4` cuts the run in which a batch
  shell reads its script again and again. Chosen lines keep the walk of `parse_args`
  inside the buffer.
* `CsvReader`: a buffer of two integers (20 in the code) and lines of 0 to 5 numbers:
  both doublings and both sides of each boundary; up to three lines.
* `Scheduler`: up to three jobs, arrivals 0 to 4, lengths 1 to 3, slices 1 to 3: an
  idle gap, a preemption, ties, a slice longer than a job all occur. Tickets are
  counted in hundreds.

## 5. Fairness

* `MyAlloc!SearchSpec`: the search loop keeps running; it is sequential code.
* `MathServer!FairSpec`: weak fairness of `main` and of every thread: the kernel
  runs what can run. Nothing is assumed of the mutex beyond that; `Terminates`
  holds because every thread takes it finitely often.
* `DmtxPool!FairSpec`: weak fairness of the parent and each worker; failures,
  crashes and kills are not fair.
* `Shell!FairSpec`: weak fairness of the shell and of each child: the kernel runs what
  can run, and programs that are not blocked end. A right command is not assumed to
  stop before the end of its input (`RightStops` is outside the fair actions): it
  ends because it sees the end. An aborted shell does not count as one whose prompt
  returned: `PromptReturns` allows it behind a blank line alone, and a shell that runs
  a file is not claimed to reach the end of it, since it may read lines again.
* `PrimeSieve`, `Scheduler`: one thread that keeps running. The draws of the
  lottery are not fair.

## 6. Proofs

Every module below is checked by `tlapm`; each theorem holds for every value of the
constants that satisfies the named assumptions of the module it is about. Each
proof has an invariant `IInv` that is inductive (initial states, one lemma or step
per action, then `PTL`); TLC has checked each `IInv` on the instances of section 3.

### `MemsymProofs`

Any number of processes, pages, frames, TLB slots, word and clock sizes (all at least
1), any strategy.

| Theorem | Statement |
|---|---|
| `TypeCorrect` | `Spec => []TypeOK` |
| `CoherentTlb` | `Spec => []TlbCoherent` |
| `UniqueTlb` | `Spec => []TlbUnique` |
| `TlbTransparent` | `Spec => Transparent`: `Memsym` implements `PagedMemory` |
| `OldestReplaced` | `Spec => ReplacesOldest`: `Memsym` implements `TlbQueue`, if `Unwrapped` |

`TlbCoherent` is not inductive: `unmap` empties the first matching entry, so with a
second one for the same page the second would stay valid and disagree with the page
table. It becomes inductive with `TlbUnique`, and uniqueness holds because
`translate` and `map` fill a slot only when no entry matches, or overwrite the match.
`IInv == TypeOK /\ TlbCoherent /\ TlbUnique` is preserved by each action
(`CoherentStep`, on `FillCoherent`, `UnmapCoherent`, `MapCoherent` and `SameEntries`).
The refinement (`TransparentStep`) needs that a translation returns the frame of the
page table (`TranslateCorrect`) and faults only when it has none
(`FaultMeansUnmapped`), both from `IInv`.

`OldestReplaced` assumes `Unwrapped`: the trace has fewer instructions than the clock
has values (2^32 in the code), since after a wrap the order is wrong by nature of the
code. Under it `ClockInv` is inductive: timestamps of valid entries are distinct and
none is ahead of the clock, so the entry stamped last is the youngest, and the entry
with the smallest timestamp is the front of the queue. Then a hit under LRU, a refill and a
`map` move one page to the back, an `unmap` takes one out, and every other step leaves
the queue alone.

### `MyAllocProofs`

Any header size, page size and set of request sizes.

| Theorem | Statement |
|---|---|
| `TypeCorrect` | `Spec => []TypeOK` |
| `ArenaTiled` | `Spec => []Tiled` |
| `AlwaysCoalesced` | `Spec => []Coalesced` |
| `BlocksLive` | `Spec => []LiveBlocks` |
| `ContractKept` | `Spec => Contract`: `MyAlloc` implements `HeapSpec` |

Following the list from 0 says nothing about a header that is not on it, and two lists
over the same bytes can each tile. `Chunks` therefore asks, of *all* headers, that
links are mirrored and lead to the end of the chunk (`Linked`) and that chunks are
pairwise disjoint (`Apart`); that, with the last chunk ending where the arena does
(`ArenaInv`), is preserved by the four ways the list changes: `SplitFacts`,
`AbsorbFacts` (used twice by `myfree`), `MarkUsed`, `MarkFree`. `Merged` has to be
known at every header for `myfree` to merge only once on each side. `SearchInv` keeps
what the search has seen while it walks: every free chunk before the current one is
too small. The refinement then needs that a gap between live blocks lies in one free
chunk, which needs `Merged`, and that this chunk was seen and refused
(`RefusalJustified`, with the largest header below an address by `Largest`).

### `DmtxPoolProofs`

Any sets of folder sizes and worker counts, any unreadable images, any number of kills,
crashes and failing forks.

| Theorem | Statement |
|---|---|
| `TypeCorrect` | `Spec => []TypeOK` |
| `DistinctTaken` | `Spec => []DistinctIndices` |
| `NoneSkipped` | `Spec => []NothingSkipped` |
| `OutputIsComplete` | `Spec => []OutputComplete` |

`MutexInv`: the semaphore and the workers in the critical section add up to at most
one, also across a kill that leaves it at 0. `IndexInv` and `TookInv` bind the counter
to the indices that are held: a worker inside holds the counter's value, everybody
else one below it. `MessageInv` says of each index below the counter that it is
decoded, held, or lost with a worker that crashed. When the parent has reaped all its
children (`StageInv`) nothing is held any more, so the output lacks exactly what was
lost.

### `MathServerProofs`

Any number of contexts and of lines in the trace, any operations and any limit of the
queues.

| Theorem | Statement |
|---|---|
| `TypeCorrect` | `Spec => []TypeOK` |
| `ServesSequentially` | `Spec => Sequential`: `MathServer` implements `SeqServer` |

`QueueInv`: a queue is filled before it is drained, so its ring never wraps, and
`rear` is `front + size - 1` however often the array has doubled. `MutexInv`: the log
mutex is held exactly by the thread between `Lock` and `Unlock`, so at most one has
something left to print (`PiecesInv`: the others have nothing), and adding what it has
left to the log gives whole results. Under the mapping `Execute` is the abstract step;
`Emit`, `Take`, `Lock`, `Unlock` and the loops of `main` stutter; the last join closes
the log.

### `ShellProofs`

Any input, any set of programs, any sizes of the buffer and the pipe, any system call
failing.

| Theorem | Statement |
|---|---|
| `NothingLeftBehind` | `Spec => []Foreground` |
| `NothingLost` | `Spec => []PipeIntact` |
| `EveryLineOnce` | `Spec => []LinesInOrder` |
| `TypeCorrect` | `Spec => []TypeOK` |
| `ArgumentsAreWords` | `Spec => []ArgsAreWords` |

`EndsInv` says who holds an end of the pipe: the shell until it closes both, and each
child, as long as it lives, the one it needs. So when the reader sees the end
(`EndInv`) no writer is left, and since what was written is what was read followed by
what is in the pipe (`FlowInv`), and the pipe is empty, it has read everything.
`FreshInv` says that nothing goes through a pipe before its left command runs, and
`PromptInv` that what the shell had printed is alone in the pipe if it is there.

`EveryLineOnce` needs to know where stdio is in the script. `LineInv` has two parts. As
long as no child has moved the offset (`Position`), what stdio has read ahead is the
part of the script just before the offset, and the lines read so far, followed by the
lines that begin where the unread part begins, are the lines of the script. A right
command keeps this, as `GivenBack` is 0 for it. In a shell that runs a file the first
read takes all there is, so that a child moves the offset back to a place where a line
begins, but does not touch the shell's own stdio, which goes on with what it has read:
the lines come in order until that is used up (`Progress`, with `Nothing` read yet,
`Ahead` of stdio, or `Passed`: all lines but the last have been read). `fgets` takes
exactly the next line (`TakesLine`), because `HasLine` does not let it return before it
has a newline, a full buffer or the end of the file. The lines are a recursive function
of the place they begin at; `LinesUnfold` proves that it is one, by well-founded
descent on the distance to the end. `TypeCorrect` rests on `SizeInv`: what `fgets`
takes leaves room for its Nul, and what a left command that cannot be executed leaves
in the pipe it leaves in an empty one.

`ArgumentsAreWords` compares two readings of a line: `Words`, which goes through the
typed text once with a scanner of three modes, and `Args`, which walks the buffer that
`strtok` has put Nuls into and jumps from quote to quote. `ArgsInv` says what the buffer
of the current line is (`Shape`: the text up to its last printable character, with a
Nul there and one at the pipe) and that each program that runs was given the arguments
found in it. `Walk` is the lemma the rest hangs on: from any place between two words,
what `parse_args` still finds is what the scanner still makes of the text (`Agree`),
proved from the end of the line backwards: take the last place where it fails, and the
argument found there (`ArgumentAt`, one case per kind of word) ends at a later one.
`AfterPipe` carries it over the pipe, for the right command. For the left one the text
is `Closed`: outside quotes, with no blank too many at its end. Then the last word
ends just before the pipe, and the walk meets the pipe's Nul between two words and
stops (`YieldsSome`, `WordsClosed`): nothing needs to be known of what follows. `UpToPipe` says what the buffer holds up to the pipe, whatever the stack
held before. The hypotheses are those of the property: no Nul was typed (`Uncut`:
`fgets` and `strlen` disagree about such a line), the line ends with a newline outside
quotes (`Whole`), and, for a line without a pipe, the part `strtok` cuts off holds
neither a blank nor a quote (`PlainCommand`).

### `SchedulerProofs`

Any workload in order of arrival, any slice, all five policies and every outcome of the
lottery.

| Theorem | Statement |
|---|---|
| `TypeCorrect` | `Spec => []TypeOK` |
| `TraceIsExact` | `Spec => []TraceExact` |
| `OneAtATime` | `Spec => []SlicesInOrder`: slices do not overlap and begin after the job arrives |
| `NeverIdles` | `Spec => []WorkConserving`: some printed slice covers every moment a job is ready; how LT fills its slice is not judged |
| `AnalysisTrue` | `Spec => []AnalysisExact` |
| `ShortestFirst` | `Spec => []ShortestNext` |
| `RoundRobin` | `Spec => []NoOvertaking` |
| `LongSlicesMakeFifo` | `Spec => []LongSliceIsFifo` |
| `LotteryIsFair` | `Spec => []LotteryFair` |
| `LeastTurnaround` | `Spec => []Optimal`: STCF has the least total turnaround of all schedules, and SJF when all jobs arrive together |

The five loops print at different times: FIFO and SJF a job at once, RR and LT a slice
per turn, STCF only when it changes jobs, up to which the slice it is in exists in its
variables alone. `History` is the trace with that slice, and `Good(history, jobs, done,
now)` says of it what the theorems need: in order, nobody before its arrival, no gap
while somebody waits, and `start_time` and the end of each job are those of its first
and its last slice. Two lemmas with no policy in them carry the proof: a turn that
adds or lengthens a slice keeps `Good` (`JobRuns`), and so does a clock that moves when
nobody waits (`ClockMoves`). The rest ties each loop to them: FIFO stops only at a job
that has arrived (`FifoInv`); an RR pass that has run nothing leaves no ready job behind
it, so RR may move the clock at the end of the pass (`PassInv`); the job STCF holds back
is unfinished (`HeldInv`); the counters count `Done` (`CountInv`); and a job that SJF
started was the shortest of those that had arrived and were not done (`ShortestInv`).

Three invariants are added to these. `SumInv`: the slices of a job in `History` add up
to what its `time_left` says is spent. `AheadInv`, for RR: a job that is ready and has
not run since another one's slice lies between the cursor and that job, in the circular
order of the list, so that the cursor comes to it first; `NoOvertaking` follows although
jobs arrive in the middle of a pass. `LineInv`, for RR with a slice no job exceeds: the
jobs that are done are the first of the list, each slice is the one FIFO would run, and
when the cursor has passed the next job its arrival is still to come. `LotteryFair`
counts: the tickets of the ready jobs are disjoint intervals that cover the drum
(`Tickets` is a cardinality), so a job wins as many draws as it has tickets.

`LeastTurnaround` compares the policy with every schedule in `Reach`, unit by unit. A
total of turnaround times is, up to now, the number of jobs present in each unit, so the
policy must never have more jobs present than another schedule. That alone is not
inductive; `AheadOf` is: of as many jobs as one likes among those that have arrived the
policy has no more to run than the other has of its best choice of as many. It survives
a unit in which the policy runs the job with the least left and the other whatever it
likes (`AheadRuns`), jobs that arrive with as much left on both sides (`AheadGrows`), and
it implies no more unfinished jobs (`AheadCounts`). `Leads` says that the policy's own
state is in `Reach` and all the others are behind, and `OptInv` is `Leads` read off the
variables of STCF and SJF: `time_left` and, for jobs that are done, `turnaroundTime`. A
turn of SJF is many units; when all jobs have arrived, the one it runs stays the shortest
(`LeadsThrough`). `ReachUnfold` proves that the recursive function behind `Reach` exists
and satisfies its equations.

### `PrimeSieveProofs`

Any word and bound that satisfy `SieveAssumption`, 2^32 included.

| Theorem | Statement |
|---|---|
| `SieveIsCorrect` | `Spec => []SieveCorrect` |
| `SieveProgresses` | `Spec => []SieveProgress` |

`SieveInv`: a number is crossed out exactly if it has a divisor below `i`, or is a
multiple of `i` that the inner loop has passed. Starting at `i * i` loses nothing,
because a smaller multiple of `i` has a smaller factor; skipping a composite `i` loses
nothing, because its multiples are multiples of its factor; and stopping when
`i * i > n` loses nothing, because of two factors one is at most the root.
`BoundsInv` says that neither `i * i` nor `j + i` wraps on the way.

### `CsvReaderProofs`

Any well-formed files and any initial capacity of at least 2.

| Theorem | Statement |
|---|---|
| `TypeCorrect` | `Spec => []TypeOK` |
| `RowsAreExact` | `Spec => []RowsExact` |

`BufferInv`: between two numbers the buffer has room for one more, as entry 0 is the
count; `ReadInv`: the position passes the end of the file only with the flag set, so
`fscanf` never starts beyond it.

`RowsAreExact` adds `FileInv`: the rows in the list, followed by the line being read
and the rows of the lines to come (`Rest`), are the rows of the file until reading
stops, and after that those in the list are the first of them, or all if no buffer was
missing. A step that reads on only moves numbers from one part to the other
(`ReadingOn`), which needs to
know where the position is: at the beginning of a line, or behind a number. `LinkInv`:
the records are linked in the order they were appended, and the rows written are those
of the records walked past, or the first of them once a full disk has cut the output.
`NumbersUnfold` and `RowsUnfold` prove that the two
recursive functions behind `FileRows` exist and satisfy their equations
(`FromTheEnd`, on `CountDown`).

### Only model-checked

Every safety property of the runs has a theorem. Out of the prover's reach: liveness
(`SearchEnds`, `Terminates`, `SieveEnds`, `RunEnds`, `Finishes`, `PromptReturns`).

Induction is available to the proofs above only in the form of least elements: the
library's well-founded minimum (`WFMin`) over a set of natural numbers, from which each
module derives the descent it needs.

## 7. What disagrees with the code

* `MyAllocOverflow`: `myinit` returns its `size_t` result as an `int`. The largest
  sizes it accepts round up to 2^31, which comes back negative, like an error.
* `MyAllocFailedInit`: after a failed `mmap`, `arena_start` is `MAP_FAILED`, not
  `NULL`; the allocator takes that for an arena.
* `DmtxRerun`: the semaphore is opened with whatever value a killed run left; with 0
  every later run with workers waits forever.

Noted while modelling, without a run: the comment at `scheduler.c:337-340` announces
"the job with the shortest remaining time" above a lottery, and the one at line 531
says the slice is only valid for RR, but LT uses it and runs a whole slice even when
less is left.

In the shell, `execute_pipe` runs one command on each side of the pipe and
`parse_args` gives each its arguments (comments at `shell.c:122-124`, `229-231`). The
left one gets the words of its side when its text is closed before the pipe: just one
blank, or a quote, stands there. With none (`ls|wc`) or several, the walk of the left
command steps over the Nul that was the pipe and also takes the words of the right one,
against these comments. `ArgsAreWords` says nothing of such a line, so nothing here
shows the shell to treat it as they say.

A child whose command is not found calls `exit(1)`, which moves the offset of an input
file back: a shell that runs a script reads lines again, possibly without end, and in a
pipe the prompt the shell had not flushed yet goes to the reader. A right command is the
exception: its standard input is the pipe. A blank line may abort the shell in `free`.

`read_next_line` promises `NULL` "if there are no more lines to read" (`util.c:10`), but
returns it also when a buffer cannot be allocated, which the CSV program takes for the
end of the file; and what `fprintf` and `fclose` return is not looked at
(`parsecsv.c:61-64`). Either way the output is cut short and the program returns 0.

## 8. What is not modelled

* `memsym`: page and frame numbers outside the tables (`translate`, `map`, `unmap`
  index without a check: undefined behaviour); malformed lines of a trace.
* `myalloc`: freeing what is not held, `myinit` on a mapped arena.
* `mathserver`: the doubles of `pia` (the model prints its operand), a failing
  `pthread_create`, context numbers outside the table, context values above the
  largest square of a word for `pri`.
* `analyzedmtx`: a folder that changes between the two readings, two instances at
  once, failing `shm_open`, `mmap` or `sem_open`.
* `scheduler`: workloads out of order of arrival, jobs and slices of length 0,
  averages in floating point.
* `shell`: programs that read the shell's own standard input, a script larger than
  stdio's buffer (one read takes the whole rest), a C library whose `exit` does not
  seek back or flushes in another order than glibc's; `firstword`, `isvalidascii` and
  `findpipe`, which nothing calls; lines that carry the walk of `parse_args` past the
  buffer (what lies there counts as Nul); what a blank line does to the heap beyond
  the abort.
* `csv`: malformed files, the floats, a row that a full disk cuts in the middle (it
  counts as lost), and a disk on which there is room again later.
* The exercises around `rand` and `printf`, and the test drivers: nothing to check.

## 9. Plan

1. `MathServer`: a `pthread_create` that fails.
