------------------------------- MODULE Shell -------------------------------
(***************************************************************************)
(* lab03-Group12/shell.c: a loop that reads a line, forks a child for a    *)
(* command, or two around a pipe, and waits for them.                      *)
(*                                                                         *)
(* The children run what they find.  The left command of a pipe writes a   *)
(* number of items and exits; the right one reads to the end, or stops     *)
(* before.  Children share the offset of the shell's standard input and    *)
(* inherit what stdio has read ahead of it and not yet written to its      *)
(* standard output: exit(1) gives the one back to the file and flushes the *)
(* other.  At a terminal there is neither.                                 *)
(***************************************************************************)
EXTENDS ShellParser

CONSTANTS
  SCRIPTS,     \* what the user may type, or the files the shell may be run on
  BUFLEN,      \* 1024 in the code
  STACKS,      \* what the buffer of main may hold before the first line
  PIPE_SIZE,   \* items a pipe holds
  MAX_OUTPUT,  \* bound: items a left command writes
  MAX_LINES    \* bound: lines read, a batch shell may never end

ASSUME BuflenAssumption == BUFLEN \in Nat \ {0, 1}
ASSUME PipeSizeAssumption == PIPE_SIZE \in Nat \ {0}
ASSUME MaxOutputAssumption == MAX_OUTPUT \in Nat
ASSUME ScriptsAssumption == SCRIPTS \subseteq Seq(STRING)
ASSUME StacksAssumption == STACKS \subseteq [1..BUFLEN -> STRING]

VARIABLES
  batch,     \* the shell reads a file and writes one, not a terminal
  script,
  offset,    \* of the open input file, shared with the children
  unread,    \* what stdio has read ahead
  eof,       \* stdio has seen the end of the input
  buffer,    \* of main
  line,      \* parsedinput, trimmed, with a Nul for the pipe
  right,     \* the place of that pipe, or 0
  sh,        \* where the shell is
  proc,      \* child -> where it is
  argv,      \* child -> the arguments it was executed with on this line
  ends,      \* the open pipe ends: <<process, "r" or "w">>
  pipe,      \* what is in the pipe
  todo,      \* items the left command still has to write
  sent, received, sawEnd,  \* the history of the pipe of this line
  ran,       \* the lines read so far
  failed     \* history: a child that shares the input could not execute its command

input == <<script, batch, unread, eof, buffer, line, right, ran>>
flow == <<pipe, todo, sent, received, sawEnd>>
vars == <<input, offset, failed, sh, proc, argv, ends, flow>>

Children == {"only", "left", "right"}
Live == {c \in Children : proc[c] # "none"}
Over == {"quit", "eof", "aborted"}
NotRun == <<Nul>>
Prompt == 0   \* in a pipe, what the shell itself has printed; items are above

Init ==
  /\ batch \in BOOLEAN /\ script \in SCRIPTS
  /\ offset = 0 /\ unread = <<>> /\ eof = FALSE /\ failed = FALSE
  /\ buffer \in STACKS /\ line = buffer /\ right = 0
  /\ sh = "prompt" /\ ran = <<>>
  /\ proc = [c \in Children |-> "none"] /\ argv = [c \in Children |-> NotRun]
  /\ ends = {} /\ pipe = <<>> /\ todo = 0
  /\ sent = <<>> /\ received = <<>> /\ sawEnd = FALSE

-----------------------------------------------------------------------------
(* The input. *)

\* What one read returns: a line from a terminal, all there is from a file.
Rest == SubSeq(script, offset + 1, Len(script))
Refill == IF batch THEN Rest ELSE SubSeq(Rest, 1, Min({FirstOf(Rest, 1, {Newline}), Len(Rest)}))

\* Mutant of Room: the closing Nul has no place of its own.
RoomFull == BUFLEN
Room == BUFLEN - 1
HasLine(data) == Len(data) >= Room \/ \E k \in DOMAIN data : data[k] = Newline

Quit == <<"q">>
\* strchr(parsedinput, '|'): 0 if there is none.
PipePos(mem) == LET pos == FirstOf(mem, 1, {Pipe, Nul}) IN IF At(mem, pos) = Pipe THEN pos ELSE 0

\* fgets, trimstring and the branches of main; the pipe becomes a Nul.
ReadLine ==
  LET refill == ~HasLine(unread) /\ ~eof
      data == unread \o (IF refill THEN Refill ELSE <<>>)
      got == SubSeq(data, 1, Min({Room, FirstOf(data, 1, {Newline}), Len(data)}))
  IN /\ sh = "prompt"
     /\ Len(ran) < MAX_LINES
     /\ offset' = IF refill THEN offset + Len(Refill) ELSE offset
     /\ eof' = (eof \/ (refill /\ ~HasLine(data)))
     /\ unread' = SubSeq(data, Len(got) + 1, Len(data))
     /\ argv' = [c \in Children |-> NotRun]
     /\ UNCHANGED <<script, batch, failed, proc, ends, flow>>
     /\ \/ /\ got = <<>>
           /\ sh' = "eof"
           /\ UNCHANGED <<buffer, line, right, ran>>
        \/ /\ got # <<>>
           /\ ran' = Append(ran, got)
           /\ buffer' = got \o <<Nul>> \o SubSeq(buffer, Len(got) + 2, BUFLEN)
           /\ \E trimmed \in {TrimString(buffer')} :
                /\ right' = PipePos(trimmed)
                /\ line' = IF right' > 0 THEN [trimmed EXCEPT ![right'] = Nul] ELSE trimmed
                /\ sh' = CASE StrAt(trimmed, 1) = Quit -> "quit"
                           [] right' > 0 -> "pipe"
                           [] OTHER -> "fork"

-----------------------------------------------------------------------------
(* The shell. *)

Go(from, to) == sh = from /\ sh' = to
SetProc(c, from, to) == proc[c] = from /\ proc' = [proc EXCEPT ![c] = to]

ForkOnly ==
  /\ Go("fork", "wait")
  /\ SetProc("only", "none", "forked")
  /\ UNCHANGED <<input, offset, failed, argv, ends, flow>>

\* A failed fork abandons the line.
ForkOnlyFails ==
  /\ Go("fork", "prompt")
  /\ UNCHANGED <<input, offset, failed, proc, argv, ends, flow>>

Blank == right = 0 /\ At(line, 1) = Nul
\* trimstring has run over the front of a blank line into the heap; free may
\* then find the block broken and abort.
WaitOnly ==
  /\ \/ Go("wait", "prompt")
     \/ Blank /\ Go("wait", "aborted")
  /\ SetProc("only", "exited", "none")
  /\ UNCHANGED <<input, offset, failed, argv, ends, flow>>

MakePipe ==
  /\ Go("pipe", "fork1")
  /\ ends' = {"shell"} \X {"r", "w"}
  /\ pipe' = <<>> /\ todo' = 0
  /\ sent' = <<>> /\ received' = <<>> /\ sawEnd' = FALSE
  /\ UNCHANGED <<input, offset, failed, proc, argv>>

PipeFails ==
  /\ Go("pipe", "prompt")
  /\ UNCHANGED <<input, offset, failed, proc, argv, ends, flow>>

\* execute_pipe does not look whether its forks fail.
Fork(c, from, to) ==
  /\ Go(from, to)
  /\ \/ /\ SetProc(c, "none", "forked")
        /\ ends' = ends \union {<<c, e[2]>> : e \in ends \cap ({"shell"} \X {"r", "w"})}
     \/ UNCHANGED <<proc, ends>>
  /\ UNCHANGED <<input, offset, failed, argv, flow>>

\* Mutant of AfterClose: the write end stays open in the shell.
AfterCloseOne == ends \ {<<"shell", "r">>}
AfterClose == ends \ ({"shell"} \X {"r", "w"})
CloseEnds ==
  /\ Go("close", "wait1")
  /\ ends' = AfterClose
  /\ UNCHANGED <<input, offset, failed, proc, argv, flow>>

\* waitpid(pid): of a fork that failed pid is -1, which stands for any child.
Waited(c) == IF proc[c] = "none" THEN Live ELSE {c}
\* Mutant of Wait: a child that has not exited yet is not waited for.
WaitNot(c, from, to) ==
  /\ Go(from, to)
  /\ IF proc[c] = "exited" THEN SetProc(c, "exited", "none") ELSE UNCHANGED proc
  /\ UNCHANGED <<input, offset, failed, argv, ends, flow>>
Wait(c, from, to) ==
  /\ Go(from, to)
  /\ IF Waited(c) = {} THEN UNCHANGED proc
     ELSE \E d \in Waited(c) : SetProc(d, "exited", "none")
  /\ UNCHANGED <<input, offset, failed, argv, ends, flow>>

ShellStep ==
  \/ ReadLine
  \/ ForkOnly \/ ForkOnlyFails \/ WaitOnly
  \/ MakePipe \/ PipeFails
  \/ Fork("left", "fork1", "fork2") \/ Fork("right", "fork2", "close") \/ CloseEnds
  \/ Wait("left", "wait1", "wait2") \/ Wait("right", "wait2", "prompt")

-----------------------------------------------------------------------------
(* The children, up to execve. *)

Holds(c) == {e \in ends : e[1] = c}
Readers == {e \in ends : e[2] = "r"}
Writers == {e \in ends : e[2] = "w"}

\* Mutant of Kept: the left command keeps the shell's standard output.
KeptRight(c) == IF c = "left" THEN {} ELSE {<<c, "r">>}
\* The end a child keeps, dup2'ed to its standard output or input.
Kept(c) == {<<c, IF c = "left" THEN "w" ELSE "r">>}
Redirect(c) ==
  /\ SetProc(c, "forked", "redirected")
  /\ ends' = (ends \ Holds(c)) \union Kept(c)
  /\ UNCHANGED <<input, offset, failed, sh, argv, flow>>

StartOf(c) == SkipOver(line, IF c = "left" THEN 1 ELSE right + 1, {Space, Tab})
Args(c) == IF c = "only" THEN ParseArgs(AfterStrTok(line), 1) ELSE ParseArgs(line, StartOf(c))
\* What find_path looks for: the token of strtok, or the first argument.
Command(c) == IF c = "only" THEN StrTok(line) ELSE Head(Args(c))
NoCommand(c) == IF c = "only" THEN Blank ELSE At(line, StartOf(c)) = Nul
Ready(c) == proc[c] = IF c = "only" THEN "forked" ELSE "redirected"

Exit(c) == proc' = [proc EXCEPT ![c] = "exited"] /\ ends' = ends \ Holds(c)

\* exit(1) closes the streams it has inherited.  First what the shell had printed
\* goes to the child's output: the left one may die of that.
Flushed(c) == IF batch /\ c = "left" /\ Readers # {} THEN <<Prompt>> ELSE <<>>
Killed(c) == batch /\ c = "left" /\ Readers = {}
\* Then unread input is given back to the file, unless the standard input is no
\* longer the file: that of the right command is the pipe.
\* Mutant of GivenBack: the right command keeps the shell's standard input.
GivenBackAny(c) == IF batch /\ ~Killed(c) /\ Len(unread) <= offset THEN Len(unread) ELSE 0
GivenBack(c) == IF c = "right" THEN 0 ELSE GivenBackAny(c)
ExitOne(c) ==
  /\ Exit(c)
  /\ offset' = offset - GivenBack(c)
  /\ failed' = (failed \/ c # "right")
  /\ pipe' = pipe \o Flushed(c) /\ sent' = sent \o Flushed(c)
  /\ UNCHANGED <<todo, received, sawEnd>>

Exec(c) ==
  /\ Ready(c) /\ ~NoCommand(c)
  /\ Command(c) \in EXECUTABLE
  /\ proc' = [proc EXCEPT ![c] = "running"]
  /\ argv' = [argv EXCEPT ![c] = Args(c)]
  /\ IF c = "left" THEN todo' \in 0..MAX_OUTPUT ELSE UNCHANGED todo
  /\ UNCHANGED <<input, offset, failed, sh, ends, pipe, sent, received, sawEnd>>

ExecFails(c) ==
  /\ Ready(c)
  /\ ~NoCommand(c) => Command(c) \notin EXECUTABLE
  /\ c = "only" => ~NoCommand(c)
  /\ ExitOne(c)
  /\ UNCHANGED <<input, sh, argv>>

\* Without a command, find_path reads through NULL, or through args[0], which
\* nothing was written to: any outcome, a crash or a name it cannot execute.
ExecCrashes(c) ==
  /\ Ready(c) /\ NoCommand(c)
  /\ Exit(c)
  /\ UNCHANGED <<input, offset, failed, sh, argv, flow>>

-----------------------------------------------------------------------------
(* The commands. *)

OnlyEnds ==
  /\ proc["only"] = "running" /\ Exit("only")
  /\ UNCHANGED <<input, offset, failed, sh, argv, flow>>

LeftWrites ==
  /\ proc["left"] = "running" /\ todo > 0
  /\ <<"left", "w">> \in ends => Readers # {} /\ Len(pipe) < PIPE_SIZE
  /\ pipe' = IF <<"left", "w">> \in ends THEN Append(pipe, todo) ELSE pipe
  /\ sent' = Append(sent, todo) /\ todo' = todo - 1
  /\ UNCHANGED <<input, offset, failed, sh, proc, argv, ends, received, sawEnd>>

\* It is done, or killed by SIGPIPE.
LeftEnds ==
  /\ proc["left"] = "running"
  /\ todo = 0 \/ (<<"left", "w">> \in ends /\ Readers = {})
  /\ Exit("left")
  /\ UNCHANGED <<input, offset, failed, sh, argv, flow>>

RightReads ==
  /\ proc["right"] = "running" /\ <<"right", "r">> \in ends /\ pipe # <<>>
  /\ received' = Append(received, Head(pipe)) /\ pipe' = Tail(pipe)
  /\ UNCHANGED <<input, offset, failed, sh, proc, argv, ends, todo, sent, sawEnd>>

RightSeesEnd ==
  /\ proc["right"] = "running" /\ pipe = <<>> /\ Writers = {}
  /\ sawEnd' = TRUE
  /\ Exit("right")
  /\ UNCHANGED <<input, offset, failed, sh, argv, pipe, todo, sent, received>>

RightStops ==
  /\ proc["right"] = "running" /\ Exit("right")
  /\ UNCHANGED <<input, offset, failed, sh, argv, flow>>

Starts(c) ==
  \/ c # "only" /\ Redirect(c)
  \/ Exec(c) \/ ExecFails(c) \/ ExecCrashes(c)
Only == Starts("only") \/ OnlyEnds
Left == Starts("left") \/ LeftWrites \/ LeftEnds
Right == Starts("right") \/ RightReads \/ RightSeesEnd

Stopped ==
  /\ sh \in Over \/ (sh = "prompt" /\ Len(ran) = MAX_LINES)
  /\ UNCHANGED vars

Next == ShellStep \/ Only \/ Left \/ Right \/ RightStops \/ Stopped

Spec == Init /\ [][Next]_vars

\* The kernel runs every process that can run.  Commands that are not blocked
\* end; a right command need not stop before the end of its input.
FairSpec == Spec /\ WF_vars(ShellStep) /\ WF_vars(Only) /\ WF_vars(Left) /\ WF_vars(Right)

-----------------------------------------------------------------------------
(* Properties. *)

\* Types; a line always fits its buffer with its Nul, whatever the stack held
\* before, and whoever has exited holds no end of the pipe.
TypeOK ==
  /\ offset \in 0..Len(script) /\ eof \in BOOLEAN /\ failed \in BOOLEAN
  /\ Len(buffer) = BUFLEN /\ Len(line) = BUFLEN
  /\ \A k \in DOMAIN ran : Len(ran[k]) < BUFLEN
  /\ sh \in {"prompt", "fork", "wait", "pipe", "fork1", "fork2", "close", "wait1", "wait2"} \union Over
  /\ proc \in [Children -> {"none", "forked", "redirected", "running", "exited"}]
  /\ \A e \in ends : e[1] = "shell" \/ proc[e[1]] \notin {"none", "exited"}
  /\ Len(pipe) <= PIPE_SIZE /\ todo \in 0..MAX_OUTPUT

\* The lines of the script from a place on; one that is longer than the buffer
\* counts as many.
LineEnd(i) == Min({FirstOf(script, i, {Newline}), i + BUFLEN - 2, Len(script)})
ScriptLines ==
  LET lines[i \in 1..(Len(script) + 1)] ==
        IF i > Len(script) THEN <<>>
        ELSE <<SubSeq(script, i, LineEnd(i))>> \o lines[LineEnd(i) + 1]
  IN lines[1]

\* Every line is read once and in order, whatever the children do: a right
\* command that cannot be executed has the pipe as its input and moves nothing.
\* The exception is a shell that runs a file, once another child could not
\* execute its command and has moved the offset they share.  It still reads all
\* lines but the last one in order before lines come again, or are joined to it.
LinesInOrder ==
  /\ \A k \in DOMAIN ran : k < Len(ScriptLines) => ran[k] = ScriptLines[k]
  /\ ~(batch /\ failed) =>
       /\ Len(ran) <= Len(ScriptLines) /\ ran = SubSeq(ScriptLines, 1, Len(ran))
       /\ sh = "eof" => ran = ScriptLines

Text == ran[Len(ran)]
TextBefore == SubSeq(Text, 1, FirstOf(Text, 1, {Pipe}) - 1)
TextAfter == SubSeq(Text, FirstOf(Text, 1, {Pipe}) + 1, Len(Text))
\* Text that ends a line, and in which every quote is closed, a line that no Nul
\* cuts short, text before a pipe whose last word just one blank, or a quote,
\* ends, and a command that strtok finds whole, without a blank or a quote.
Whole(text) == text # <<>> /\ text[Len(text)] = Newline /\ Scanned(text).mode = "out"
Uncut == \A k \in DOMAIN Text : Text[k] # Nul
Closed(text) == Scanned(text).mode = "out" /\ Scanned(text).slack = 0
PlainCommand == \A k \in DOMAIN StrTok(line) : StrTok(line)[k] \notin Blanks \union {Quote}

\* A program is run with the words of its own line as arguments, quoted ones
\* undivided, as many as fit, and each of two around a pipe with those of its own
\* side, although the walk of parse_args passes the Nuls of strtok and reaches
\* what older lines, or the stack, left in the buffer.  The left command is left
\* out where its text is not closed: the walk passes the Nul of the pipe then.
ArgsAreWords ==
  /\ argv["only"] # NotRun /\ Uncut /\ Whole(Text) /\ PlainCommand =>
       argv["only"] = FirstArgs(Words(Text))
  /\ argv["left"] # NotRun /\ Closed(TextBefore) => argv["left"] = FirstArgs(Words(TextBefore))
  /\ argv["right"] # NotRun /\ Uncut /\ Whole(TextAfter) => argv["right"] = FirstArgs(Words(TextAfter))

\* The right command reads what the left one writes, in order, and when it sees
\* the end it has read everything.  What the shell itself had printed reaches it
\* only in place of the output of a left command that could not be executed, and
\* only from a shell that runs a file: it never mixes with that of a command.
PipeIntact ==
  /\ received = SubSeq(sent, 1, Len(received))
  /\ sawEnd => received = sent /\ todo = 0
  /\ Prompt \in Range(sent) => batch /\ argv["left"] = NotRun /\ sent = <<Prompt>>

\* Back at the prompt, and at the end, no child is left, running or unwaited
\* for, and no end of a pipe is open, whichever forks failed.
Foreground == sh \in {"prompt"} \union Over => Live = {} /\ ends = {}

\* After a line that is not blank the prompt returns, whatever fails.  After a
\* blank one it returns too, or the shell is aborted.  A shell at a terminal where
\* no line is blank gets to quit, or to the end of its input.
Busy == sh \notin {"prompt"} \union Over
Visible(text) == \E k \in DOMAIN text : text[k] \notin Blanks /\ \A j \in 1..k : text[j] # Nul
PromptReturns ==
  /\ Busy /\ ~Blank ~> sh = "prompt"
  /\ Busy /\ Blank ~> sh \in {"prompt", "aborted"}
  /\ ~batch /\ (\A k \in DOMAIN ScriptLines : Visible(ScriptLines[k])) ~> sh \in {"quit", "eof"}
=============================================================================
