---------------------------- MODULE ShellProofs ----------------------------
(***************************************************************************)
(* What Shell guarantees for any input, any set of programs and any size   *)
(* of the buffer and the pipe, whatever fails: nothing of a line outlives  *)
(* it, the reader of a pipe gets what was written to it, the lines of the  *)
(* input are read once and in order, and a program is run with the words   *)
(* of its line.                                                            *)
(***************************************************************************)
EXTENDS Shell, SequenceTheorems, WellFoundedInduction, NaturalsInduction, TLAPS

Items == Nat
Alive == {"forked", "redirected", "running"}
PipeOpen == {"fork1", "fork2", "close"}

Shapes ==
  /\ batch \in BOOLEAN /\ sawEnd \in BOOLEAN
  /\ proc \in [Children -> {"none", "forked", "redirected", "running", "exited"}]
  /\ argv = [c \in Children |-> argv[c]]
  /\ todo \in Nat
  /\ pipe \in Seq(Items) /\ sent \in Seq(Items) /\ received \in Seq(Items)

\* Where the shell is tells which children there may be.
StageInv ==
  /\ proc["only"] # "none" => sh = "wait"
  /\ proc["left"] # "none" => sh \in {"fork2", "close", "wait1"}
  /\ proc["right"] # "none" => sh \in {"close", "wait1", "wait2"}

\* Who holds an end of the pipe: the shell until it closes both, and a child of
\* the pipe, as long as it lives, the one it needs.
EndsInv ==
  /\ ends \subseteq {"shell", "left", "right"} \X {"r", "w"}
  /\ IF sh \in PipeOpen THEN <<"shell", "r">> \in ends /\ <<"shell", "w">> \in ends
                        ELSE <<"shell", "r">> \notin ends /\ <<"shell", "w">> \notin ends
  /\ proc["left"] \in Alive => <<"left", "w">> \in ends
  /\ proc["right"] \in Alive => <<"right", "r">> \in ends
  /\ \A c \in {"left", "right"}, end \in {"r", "w"} : <<c, end>> \in ends => proc[c] \in Alive

\* Before the left command runs nothing has been through the pipe.
FreshInv ==
  /\ sh = "pipe" => argv["left"] = NotRun
  /\ sh = "fork1" \/ proc["left"] \in {"forked", "redirected"} =>
       /\ argv["left"] = NotRun
       /\ pipe = <<>> /\ todo = 0 /\ sent = <<>> /\ received = <<>>

\* What has been written is what has been read and what is in the pipe, and
\* what is not written yet no reader waits for.
FlowInv ==
  /\ sent = received \o pipe
  /\ todo # 0 /\ proc["left"] # "running" => sh \notin PipeOpen /\ proc["right"] \notin Alive

\* The end is seen when nobody can write any more.
EndInv ==
  sawEnd =>
    /\ sh \notin PipeOpen
    /\ proc["left"] \notin Alive /\ proc["right"] \notin Alive
    /\ received = sent /\ todo = 0

\* What the shell had printed is in the pipe alone or not at all.
PromptInv ==
  \/ \A k \in DOMAIN sent : sent[k] # Prompt
  \/ batch /\ argv["left"] = NotRun /\ sent = <<Prompt>> /\ proc["left"] \notin Alive

IInv == Shapes /\ StageInv /\ EndsInv /\ FreshInv /\ FlowInv /\ EndInv /\ PromptInv

state == <<batch, sh, proc, argv, ends, flow>>

-----------------------------------------------------------------------------
LEMMA InitInv == Init => IInv
<1> SUFFICES ASSUME Init PROVE IInv
  OBVIOUS
<1>1. Shapes
  <2>1. proc \in [Children -> {"none", "forked", "redirected", "running", "exited"}]
    BY DEF Init
  <2>2. argv = [c \in Children |-> argv[c]]
    BY DEF Init
  <2>3. <<>> \in Seq(Items)
    OBVIOUS
  <2> QED
    BY <2>1, <2>2, <2>3 DEF Init, Shapes
<1>2. StageInv /\ EndsInv
  BY DEF Init, StageInv, EndsInv, Alive, PipeOpen, Children
<1>3. FreshInv /\ FlowInv /\ EndInv /\ PromptInv
  BY DEF Init, FreshInv, FlowInv, EndInv, PromptInv, Children, PipeOpen
<1> QED
  BY <1>1, <1>2, <1>3 DEF IInv

LEMMA SameState == ASSUME IInv, UNCHANGED state PROVE IInv'
  BY DEF state, flow, IInv, Shapes, StageInv, EndsInv, FreshInv, FlowInv, EndInv, PromptInv

LEMMA ReadLineInv == ASSUME IInv, ReadLine PROVE IInv'
<1>1. /\ sh = "prompt" /\ sh' \in {"eof", "quit", "pipe", "fork"}
      /\ argv' = [c \in Children |-> NotRun]
      /\ UNCHANGED <<batch, proc, ends, pipe, todo, sent, received, sawEnd>>
  BY DEF ReadLine, flow
<1> QED
  BY <1>1 DEF IInv, Shapes, StageInv, EndsInv, FreshInv, FlowInv, EndInv, PromptInv, Alive, PipeOpen, Children

\* A step of the shell that is about the line's only child.
LEMMA OneChildInv ==
  ASSUME IInv, ForkOnly \/ ForkOnlyFails \/ WaitOnly \/ PipeFails PROVE IInv'
<1>1. /\ UNCHANGED <<batch, argv, ends, pipe, todo, sent, received, sawEnd>>
      /\ \/ /\ sh = "fork" /\ sh' = "wait" /\ proc' = [proc EXCEPT !["only"] = "forked"]
         \/ sh \in {"fork", "pipe"} /\ sh' = "prompt" /\ proc' = proc
         \/ /\ sh = "wait" /\ sh' \in {"prompt", "aborted"}
            /\ proc' = [proc EXCEPT !["only"] = "none"]
  BY DEF ForkOnly, ForkOnlyFails, WaitOnly, PipeFails, Go, SetProc, flow, input
<1> QED
  BY <1>1 DEF IInv, Shapes, StageInv, EndsInv, FreshInv, FlowInv, EndInv, PromptInv, Alive, PipeOpen, Children

LEMMA MakePipeInv == ASSUME IInv, MakePipe PROVE IInv'
<1>1. /\ sh = "pipe" /\ sh' = "fork1"
      /\ pipe' = <<>> /\ todo' = 0 /\ sent' = <<>> /\ received' = <<>> /\ sawEnd' = FALSE
      /\ UNCHANGED <<batch, proc, argv>>
  BY DEF MakePipe, Go, input
<1>2. /\ ends' \subseteq {"shell", "left", "right"} \X {"r", "w"}
      /\ <<"shell", "r">> \in ends' /\ <<"shell", "w">> \in ends'
      /\ \A c \in {"left", "right"}, end \in {"r", "w"} : <<c, end>> \notin ends'
  BY DEF MakePipe
<1>3. Shapes'
  <2>1. <<>> \in Seq(Items)
    OBVIOUS
  <2> QED
    BY <1>1, <2>1 DEF IInv, Shapes
<1>6. StageInv'
  BY <1>1 DEF IInv, StageInv
<1>4. EndsInv'
  BY <1>1, <1>2 DEF IInv, EndsInv, StageInv, Alive, PipeOpen
<1>5. FreshInv' /\ FlowInv' /\ EndInv' /\ PromptInv'
  <2>1. argv'["left"] = NotRun
    BY <1>1 DEF IInv, FreshInv
  <2> QED
    BY <1>1, <2>1 DEF FreshInv, FlowInv, EndInv, PromptInv
<1> QED
  BY <1>3, <1>4, <1>5, <1>6 DEF IInv

\* The two forks of a pipe; a child gets the ends the shell has.
LEMMA ForkInv ==
  ASSUME IInv, Fork("left", "fork1", "fork2") \/ Fork("right", "fork2", "close")
  PROVE  IInv'
<1>1. PICK c \in {"left", "right"} :
        /\ \/ c = "left" /\ sh = "fork1" /\ sh' = "fork2"
           \/ c = "right" /\ sh = "fork2" /\ sh' = "close"
        /\ \/ /\ proc[c] = "none" /\ proc' = [proc EXCEPT ![c] = "forked"]
              /\ ends' = ends \union {<<c, e[2]>> : e \in ends \cap ({"shell"} \X {"r", "w"})}
           \/ UNCHANGED <<proc, ends>>
        /\ UNCHANGED <<batch, argv, pipe, todo, sent, received, sawEnd>>
  BY DEF Fork, Go, SetProc, input, flow
<1>2. Shapes'
  BY <1>1 DEF IInv, Shapes, Children
<1>3. StageInv'
  BY <1>1 DEF IInv, Shapes, StageInv, Children
<1>4. EndsInv'
  <2>1. CASE UNCHANGED <<proc, ends>>
    BY <1>1, <2>1 DEF IInv, EndsInv, PipeOpen
  <2>2. CASE ~UNCHANGED <<proc, ends>>
    <3>1. /\ <<"shell", "r">> \in ends /\ <<"shell", "w">> \in ends
          /\ sh \in PipeOpen /\ sh' \in PipeOpen
      BY <1>1 DEF IInv, EndsInv, PipeOpen
    <3>2. \A e \in ends \cap ({"shell"} \X {"r", "w"}) : e = <<"shell", "r">> \/ e = <<"shell", "w">>
      OBVIOUS
    <3>3. ends' = ends \union {<<c, "r">>, <<c, "w">>}
      BY <1>1, <2>2, <3>1, <3>2
    <3>4. proc' = [proc EXCEPT ![c] = "forked"]
      BY <1>1, <2>2
    <3>5. proc'[c] = "forked" /\ \A d \in Children : d # c => proc'[d] = proc[d]
      BY <3>4 DEF IInv, Shapes, Children
    <3> QED
      BY <3>1, <3>3, <3>5 DEF IInv, EndsInv, Alive, Children
  <2> QED
    BY <2>1, <2>2
<1>5. FreshInv' /\ FlowInv' /\ EndInv' /\ PromptInv'
  BY <1>1 DEF IInv, Shapes, StageInv, FreshInv, FlowInv, EndInv, PromptInv, Alive, PipeOpen, Children
<1> QED
  BY <1>2, <1>3, <1>4, <1>5 DEF IInv

LEMMA CloseInv == ASSUME IInv, CloseEnds PROVE IInv'
<1>1. /\ sh = "close" /\ sh' = "wait1" /\ ends' = ends \ ({"shell"} \X {"r", "w"})
      /\ UNCHANGED <<batch, proc, argv, pipe, todo, sent, received, sawEnd>>
  BY DEF CloseEnds, AfterClose, Go, input, flow
<1>2. EndsInv'
  BY <1>1 DEF IInv, EndsInv, PipeOpen
<1> QED
  BY <1>1, <1>2 DEF IInv, Shapes, StageInv, FreshInv, FlowInv, EndInv, PromptInv, PipeOpen

\* Of a fork that failed the shell waits for any child: for the other one.
LEMMA WaitInv ==
  ASSUME IInv, Wait("left", "wait1", "wait2") \/ Wait("right", "wait2", "prompt")
  PROVE  IInv'
<1>1. PICK c \in {"left", "right"} :
        /\ \/ c = "left" /\ sh = "wait1" /\ sh' = "wait2"
           \/ c = "right" /\ sh = "wait2" /\ sh' = "prompt"
        /\ IF Waited(c) = {} THEN UNCHANGED proc
           ELSE \E d \in Waited(c) : SetProc(d, "exited", "none")
        /\ UNCHANGED <<batch, argv, ends, pipe, todo, sent, received, sawEnd>>
  BY DEF Wait, Go, input, flow
<1>2. proc["only"] = "none" /\ (sh = "wait2" => proc["left"] = "none")
  BY <1>1 DEF IInv, StageInv
<1>3. \/ UNCHANGED proc /\ proc[c] = "none" /\ proc["left"] = "none" /\ proc["right"] = "none"
      \/ /\ proc[c] = "exited" /\ proc' = [proc EXCEPT ![c] = "none"]
      \/ /\ proc[c] = "none"
         /\ \E d \in {"left", "right"} : proc[d] = "exited" /\ proc' = [proc EXCEPT ![d] = "none"]
  <2>1. CASE Waited(c) = {}
    BY <1>1, <2>1 DEF Waited, Live, Children
  <2>2. CASE Waited(c) # {}
    <3>1. PICK d \in Waited(c) : proc[d] = "exited" /\ proc' = [proc EXCEPT ![d] = "none"]
      BY <1>1, <2>2 DEF SetProc
    <3> QED
      BY <1>2, <3>1 DEF Waited, Live, Children
  <2> QED
    BY <2>1, <2>2
<1>4. /\ sh' = "wait2" => proc'["left"] = "none"
      /\ sh' = "prompt" => proc'["left"] = "none" /\ proc'["right"] = "none"
      /\ proc'["only"] = "none"
      /\ \A d \in {"left", "right"} : proc'[d] = proc[d] \/ (proc[d] = "exited" /\ proc'[d] = "none")
  BY <1>1, <1>2, <1>3 DEF IInv, Shapes, Children
<1>5. Shapes'
  BY <1>1, <1>3 DEF IInv, Shapes, Children
<1>6. StageInv'
  BY <1>1, <1>4 DEF StageInv
<1>7. EndsInv'
  BY <1>1, <1>4 DEF IInv, EndsInv, Alive, PipeOpen
<1>8. FreshInv' /\ FlowInv' /\ EndInv' /\ PromptInv'
  BY <1>1, <1>4 DEF IInv, FreshInv, FlowInv, EndInv, PromptInv, Alive, PipeOpen
<1> QED
  BY <1>5, <1>6, <1>7, <1>8 DEF IInv

-----------------------------------------------------------------------------
(* The children. *)

\* A child moves on, and keeps the end of the pipe that it needs.
LEMMA ChildInv ==
  ASSUME IInv, NEW c \in Children, proc[c] \in Alive, NEW to \in Alive,
         proc' = [proc EXCEPT ![c] = to], UNCHANGED sh,
         ends' \subseteq ends, \A e \in ends : e[1] # c => e \in ends',
         c = "left" => <<c, "w">> \in ends', c = "right" => <<c, "r">> \in ends'
  PROVE  /\ StageInv' /\ EndsInv'
         /\ proc' \in [Children -> {"none", "forked", "redirected", "running", "exited"}]
         /\ proc'[c] = to /\ \A d \in Children : d # c => proc'[d] = proc[d]
<1>1. /\ proc' \in [Children -> {"none", "forked", "redirected", "running", "exited"}]
      /\ proc'[c] = to /\ \A d \in Children : d # c => proc'[d] = proc[d]
  BY DEF IInv, Shapes, Alive
<1>2. StageInv'
  BY <1>1 DEF IInv, StageInv, Alive, Children
<1>3. \A d \in {"shell", "left", "right"}, end \in {"r", "w"} :
        <<d, end>> \in ends => d = c \/ <<d, end>> \in ends'
  OBVIOUS
<1>4. EndsInv'
  BY <1>1, <1>3 DEF IInv, EndsInv, Alive, Children
<1> QED
  BY <1>1, <1>2, <1>4

\* A child that exits closes what it holds.
LEMMA ExitInv ==
  ASSUME IInv, NEW c \in Children, proc[c] \in Alive, Exit(c), UNCHANGED sh
  PROVE  /\ StageInv' /\ EndsInv'
         /\ proc' \in [Children -> {"none", "forked", "redirected", "running", "exited"}]
         /\ proc'[c] = "exited" /\ \A d \in Children : d # c => proc'[d] = proc[d]
<1>1. /\ proc' \in [Children -> {"none", "forked", "redirected", "running", "exited"}]
      /\ proc'[c] = "exited" /\ \A d \in Children : d # c => proc'[d] = proc[d]
  BY DEF IInv, Shapes, Exit
<1>2. StageInv'
  BY <1>1 DEF IInv, StageInv, Alive, Children
<1>3. ends' = {e \in ends : e[1] # c}
  BY DEF Exit, Holds
<1>4. \A d \in {"shell", "left", "right"}, end \in {"r", "w"} :
        <<d, end>> \in ends' <=> <<d, end>> \in ends /\ d # c
  BY <1>3
<1>5. EndsInv'
  BY <1>1, <1>3, <1>4 DEF IInv, EndsInv, Alive, Children
<1> QED
  BY <1>1, <1>2, <1>5

LEMMA RedirectInv ==
  ASSUME IInv, NEW c \in {"left", "right"}, Redirect(c) PROVE IInv'
<1>1. /\ proc[c] = "forked" /\ proc' = [proc EXCEPT ![c] = "redirected"]
      /\ ends' = (ends \ Holds(c)) \union Kept(c)
      /\ UNCHANGED <<batch, sh, argv, pipe, todo, sent, received, sawEnd>>
  BY DEF Redirect, SetProc, input, flow
<1>2. /\ ends' \subseteq ends /\ \A e \in ends : e[1] # c => e \in ends'
      /\ (c = "left" => <<c, "w">> \in ends') /\ (c = "right" => <<c, "r">> \in ends')
  BY <1>1 DEF Holds, Kept, IInv, EndsInv, Alive
<1>3. /\ StageInv' /\ EndsInv'
      /\ proc' \in [Children -> {"none", "forked", "redirected", "running", "exited"}]
      /\ proc'[c] = "redirected" /\ \A d \in Children : d # c => proc'[d] = proc[d]
  BY <1>1, <1>2, ChildInv DEF Alive, Children
<1>4. FreshInv' /\ FlowInv' /\ EndInv' /\ PromptInv'
  BY <1>1, <1>3 DEF IInv, FreshInv, FlowInv, EndInv, PromptInv, Alive, Children
<1> QED
  BY <1>1, <1>3, <1>4 DEF IInv, Shapes

\* When the left command starts, the pipe is empty and nothing is lost.
LEMMA ExecInv == ASSUME IInv, NEW c \in Children, Exec(c) PROVE IInv'
<1>1. /\ proc[c] = IF c = "only" THEN "forked" ELSE "redirected"
      /\ proc' = [proc EXCEPT ![c] = "running"] /\ argv' = [argv EXCEPT ![c] = Args(c)]
      /\ IF c = "left" THEN todo' \in 0..MAX_OUTPUT ELSE UNCHANGED todo
      /\ UNCHANGED <<batch, sh, ends, pipe, sent, received, sawEnd>>
  BY DEF Exec, Ready, input
<1>2. /\ StageInv' /\ EndsInv'
      /\ proc' \in [Children -> {"none", "forked", "redirected", "running", "exited"}]
      /\ proc'[c] = "running" /\ \A d \in Children : d # c => proc'[d] = proc[d]
  <2>1. (c = "left" => <<c, "w">> \in ends') /\ (c = "right" => <<c, "r">> \in ends')
    BY <1>1 DEF IInv, EndsInv, Alive
  <2> QED
    BY <1>1, <2>1, ChildInv DEF Alive
<1>3. todo' \in Nat
  BY <1>1, MaxOutputAssumption DEF IInv, Shapes
<1>4. argv' = [d \in Children |-> argv'[d]] /\ (c # "left" => argv'["left"] = argv["left"])
  BY <1>1 DEF IInv, Shapes, Children
<1>5. Shapes'
  BY <1>1, <1>2, <1>3, <1>4 DEF IInv, Shapes
<1>6. CASE c = "left"
  <2>1. /\ pipe = <<>> /\ sent = <<>> /\ received = <<>> /\ sh # "pipe" /\ sh # "fork1"
    BY <1>1, <1>6 DEF IInv, FreshInv, StageInv
  <2>2. sent = received \o pipe
    BY <2>1
  <2>3. sawEnd = FALSE
    BY <1>1, <1>6 DEF IInv, EndInv, Alive, Shapes
  <2>4. FreshInv' /\ FlowInv' /\ EndInv' /\ PromptInv'
    BY <1>1, <1>2, <1>6, <2>1, <2>2, <2>3 DEF FreshInv, FlowInv, EndInv, PromptInv, Alive
  <2> QED
    BY <1>2, <1>5, <2>4 DEF IInv
<1>7. CASE c # "left"
  <2>1. proc'["left"] = proc["left"] /\ argv'["left"] = argv["left"]
    BY <1>2, <1>4, <1>7 DEF Children
  <2>2. proc'["right"] \in Alive => proc["right"] \in Alive
    BY <1>1, <1>2 DEF Alive, Children
  <2>3. FreshInv' /\ FlowInv' /\ EndInv' /\ PromptInv'
    BY <1>1, <1>7, <2>1, <2>2 DEF IInv, FreshInv, FlowInv, EndInv, PromptInv
  <2> QED
    BY <1>2, <1>5, <2>3 DEF IInv
<1> QED
  BY <1>6, <1>7

\* A child that cannot execute its command adds to the pipe at most what the
\* shell had printed, and only to an empty one that nothing has been through.
LEMMA FailedFlow ==
  ASSUME IInv, NEW c \in Children, ExecFails(c) \/ ExecCrashes(c)
  PROVE  \/ UNCHANGED <<pipe, sent>>
         \/ /\ c = "left" /\ batch /\ pipe = <<>> /\ sent = <<>> /\ received = <<>>
            /\ pipe' = <<Prompt>> /\ sent' = <<Prompt>>
<1>1. CASE ExecCrashes(c)
  BY <1>1 DEF ExecCrashes, flow
<1>2. CASE ExecFails(c)
  <2>1. pipe' = pipe \o Flushed(c) /\ sent' = sent \o Flushed(c)
    BY <1>2 DEF ExecFails, ExitOne
  <2>2. pipe \in Seq(Items) /\ sent \in Seq(Items) /\ <<Prompt>> \in Seq(Items)
    BY DEF IInv, Shapes, Items, Prompt
  <2>3. CASE Flushed(c) = <<>>
    BY <2>1, <2>2, <2>3, ConcatEmptySeq
  <2>4. CASE Flushed(c) # <<>>
    <3>1. c = "left" /\ batch /\ Flushed(c) = <<Prompt>>
      BY <2>4 DEF Flushed
    <3>2. pipe = <<>> /\ sent = <<>> /\ received = <<>>
      BY <1>2, <3>1 DEF ExecFails, Ready, IInv, FreshInv
    <3>3. pipe' = <<Prompt>> /\ sent' = <<Prompt>>
      BY <2>1, <2>2, <3>1, <3>2, ConcatEmptySeq
    <3> QED
      BY <3>1, <3>2, <3>3
  <2> QED
    BY <2>3, <2>4
<1> QED
  BY <1>1, <1>2

LEMMA ExecFailsInv ==
  ASSUME IInv, NEW c \in Children, ExecFails(c) \/ ExecCrashes(c) PROVE IInv'
<1>1. /\ proc[c] = (IF c = "only" THEN "forked" ELSE "redirected")
      /\ Exit(c)
      /\ UNCHANGED <<batch, sh, argv, todo, received, sawEnd>>
  BY DEF ExecFails, ExecCrashes, ExitOne, Ready, input, flow
<1>2. /\ StageInv' /\ EndsInv'
      /\ proc' \in [Children -> {"none", "forked", "redirected", "running", "exited"}]
      /\ proc'[c] = "exited" /\ \A d \in Children : d # c => proc'[d] = proc[d]
  BY <1>1, ExitInv DEF Alive
<1>3. Shapes'
  <2>1. pipe \in Seq(Items) /\ sent \in Seq(Items) /\ <<Prompt>> \in Seq(Items)
    BY DEF IInv, Shapes, Items, Prompt
  <2>2. pipe' \in Seq(Items) /\ sent' \in Seq(Items)
    BY <2>1, FailedFlow
  <2> QED
    BY <1>1, <1>2, <2>2 DEF IInv, Shapes
<1>4. CASE UNCHANGED <<pipe, sent>>
  <2>1. c = "left" => todo = 0 /\ sh # "fork1"
    BY <1>1 DEF IInv, FreshInv, StageInv
  <2>2. FreshInv' /\ FlowInv' /\ EndInv' /\ PromptInv'
    BY <1>1, <1>2, <1>4, <2>1 DEF IInv, FreshInv, FlowInv, EndInv, PromptInv, Alive, Children
  <2> QED
    BY <1>2, <1>3, <2>2 DEF IInv
<1>5. CASE ~UNCHANGED <<pipe, sent>>
  <2>1. /\ c = "left" /\ batch /\ received = <<>>
        /\ pipe' = <<Prompt>> /\ sent' = <<Prompt>>
    BY <1>5, FailedFlow
  <2>2. todo = 0 /\ argv["left"] = NotRun /\ sh # "fork1" /\ sawEnd = FALSE
    BY <1>1, <2>1 DEF IInv, Shapes, FreshInv, StageInv, EndInv, Alive
  <2>3. sent' = received' \o pipe'
    <3>1. <<Prompt>> \in Seq(Items)
      BY DEF Items, Prompt
    <3> QED
      BY <1>1, <2>1, <3>1, ConcatEmptySeq
  <2>4. FreshInv' /\ FlowInv' /\ EndInv' /\ PromptInv'
    BY <1>1, <1>2, <2>1, <2>2, <2>3 DEF IInv, FreshInv, FlowInv, EndInv, PromptInv, Alive, Children
  <2> QED
    BY <1>2, <1>3, <2>4 DEF IInv
<1> QED
  BY <1>4, <1>5

-----------------------------------------------------------------------------
(* The commands. *)

\* Taking the head of one list to the end of another keeps what they say in
\* one piece.
LEMMA MoveHead ==
  ASSUME NEW S, NEW s \in Seq(S), NEW t \in Seq(S), t # <<>>
  PROVE  Append(s, Head(t)) \o Tail(t) = s \o t
<1>1. Len(t) \in Nat /\ 1 \in 1..Len(t) /\ Len(t) \in 1..Len(t) /\ Head(t) = t[1]
  OBVIOUS
<1>2. SubSeq(t, 1, Len(t)) = <<t[1]>> \o SubSeq(t, 1 + 1, Len(t))
  BY <1>1, SubSeqRecursiveFirst
<1>3. t = <<Head(t)>> \o Tail(t)
  BY <1>1, <1>2, SubSeqFull, TailIsSubSeq
<1>4. Head(t) \in S /\ Tail(t) \in Seq(S)
  BY HeadTailProperties
<1>5. Append(s, Head(t)) = s \o <<Head(t)>>
  BY <1>4, AppendIsConcat
<1>6. (s \o <<Head(t)>>) \o Tail(t) = s \o (<<Head(t)>> \o Tail(t))
  <2>1. <<Head(t)>> \in Seq(S)
    BY <1>4
  <2> QED
    BY <1>4, <2>1, ConcatAssociative
<1> QED
  BY <1>3, <1>5, <1>6

\* The only child, and commands that stop before the end of their input.
LEMMA EndsEarlyInv == ASSUME IInv, OnlyEnds \/ LeftEnds \/ RightStops PROVE IInv'
<1>1. PICK c \in Children :
        /\ proc[c] = "running" /\ Exit(c)
        /\ c = "left" => todo = 0 \/ Readers = {}
        /\ UNCHANGED <<batch, sh, argv, pipe, todo, sent, received, sawEnd>>
  BY DEF OnlyEnds, LeftEnds, RightStops, input, flow, Children
<1>2. /\ StageInv' /\ EndsInv'
      /\ proc' \in [Children -> {"none", "forked", "redirected", "running", "exited"}]
      /\ proc'[c] = "exited" /\ \A d \in Children : d # c => proc'[d] = proc[d]
  BY <1>1, ExitInv DEF Alive
<1>3. c = "left" /\ todo # 0 => sh \notin PipeOpen /\ proc["right"] \notin Alive
  BY <1>1 DEF IInv, EndsInv, Readers
<1>4. FreshInv' /\ FlowInv' /\ EndInv' /\ PromptInv'
  BY <1>1, <1>2, <1>3 DEF IInv, FreshInv, FlowInv, EndInv, PromptInv, Alive, Children
<1> QED
  BY <1>1, <1>2, <1>4 DEF IInv, Shapes

LEMMA LeftWritesInv == ASSUME IInv, LeftWrites PROVE IInv'
<1>1. /\ proc["left"] = "running" /\ todo > 0
      /\ sent' = Append(sent, todo) /\ todo' = todo - 1
      /\ UNCHANGED <<batch, sh, proc, argv, ends, received, sawEnd>>
  BY DEF LeftWrites, input
<1>2. pipe' = Append(pipe, todo)
  BY <1>1 DEF LeftWrites, IInv, EndsInv, Alive
<1>3. todo \in Items /\ pipe \in Seq(Items) /\ sent \in Seq(Items) /\ received \in Seq(Items)
  BY DEF IInv, Shapes, Items
<1>4. Shapes'
  <2>1. todo' \in Nat
    BY <1>1 DEF IInv, Shapes
  <2>2. pipe' \in Seq(Items) /\ sent' \in Seq(Items)
    BY <1>1, <1>2, <1>3, AppendProperties
  <2> QED
    BY <1>1, <2>1, <2>2 DEF IInv, Shapes
<1>5. sent' = received' \o pipe'
  <2>1. /\ pipe' = pipe \o <<todo>> /\ sent' = sent \o <<todo>> /\ <<todo>> \in Seq(Items)
    BY <1>1, <1>2, <1>3, AppendIsConcat
  <2>2. (received \o pipe) \o <<todo>> = received \o (pipe \o <<todo>>)
    BY <1>3, <2>1, ConcatAssociative
  <2> QED
    BY <1>1, <2>1, <2>2 DEF IInv, FlowInv
<1>6. sawEnd = FALSE /\ sh # "fork1"
  BY <1>1 DEF IInv, EndInv, Alive, Shapes, StageInv
<1>7. \A k \in DOMAIN sent' : sent'[k] # Prompt
  <2>1. \A k \in DOMAIN sent : sent[k] # Prompt
    BY <1>1 DEF IInv, PromptInv, Alive
  <2>2. DOMAIN sent = 1..Len(sent) /\ DOMAIN sent' = 1..(Len(sent) + 1)
    BY <1>1, <1>3, AppendProperties
  <2>3. \A k \in 1..(Len(sent) + 1) : sent'[k] = IF k <= Len(sent) THEN sent[k] ELSE todo
    BY <1>1, <1>3, AppendProperties
  <2> QED
    BY <1>1, <2>1, <2>2, <2>3 DEF Prompt
<1>8. FreshInv' /\ FlowInv' /\ EndInv' /\ PromptInv'
  BY <1>1, <1>5, <1>6, <1>7 DEF IInv, FreshInv, FlowInv, EndInv, PromptInv
<1> QED
  BY <1>1, <1>4, <1>8 DEF IInv, StageInv, EndsInv

LEMMA RightReadsInv == ASSUME IInv, RightReads PROVE IInv'
<1>1. /\ proc["right"] = "running" /\ pipe # <<>>
      /\ received' = Append(received, Head(pipe)) /\ pipe' = Tail(pipe)
      /\ UNCHANGED <<batch, sh, proc, argv, ends, todo, sent, sawEnd>>
  BY DEF RightReads, input
<1>2. pipe \in Seq(Items) /\ received \in Seq(Items)
  BY DEF IInv, Shapes
<1>3. Shapes'
  <2>1. Head(pipe) \in Items /\ Tail(pipe) \in Seq(Items)
    BY <1>1, <1>2, HeadTailProperties
  <2>2. received' \in Seq(Items)
    BY <1>1, <1>2, <2>1, AppendProperties
  <2> QED
    BY <1>1, <2>1, <2>2 DEF IInv, Shapes
<1>4. received' \o pipe' = received \o pipe
  BY <1>1, <1>2, MoveHead
<1>5. sawEnd = FALSE /\ ~(sh = "fork1" \/ proc["left"] \in {"forked", "redirected"})
  BY <1>1 DEF IInv, EndInv, Alive, Shapes, FreshInv
<1>6. FreshInv' /\ FlowInv' /\ EndInv' /\ PromptInv'
  BY <1>1, <1>4, <1>5 DEF IInv, FreshInv, FlowInv, EndInv, PromptInv
<1> QED
  BY <1>1, <1>3, <1>6 DEF IInv, StageInv, EndsInv

\* Nobody holds the end for writing: neither the shell nor a left command that
\* has something left to write.
LEMMA RightSeesEndInv == ASSUME IInv, RightSeesEnd PROVE IInv'
<1>1. /\ proc["right"] = "running" /\ Exit("right") /\ pipe = <<>> /\ Writers = {} /\ sawEnd' = TRUE
      /\ UNCHANGED <<batch, sh, argv, pipe, todo, sent, received>>
  BY DEF RightSeesEnd, input
<1>2. /\ StageInv' /\ EndsInv'
      /\ proc' \in [Children -> {"none", "forked", "redirected", "running", "exited"}]
      /\ proc'["right"] = "exited" /\ \A d \in Children : d # "right" => proc'[d] = proc[d]
  BY <1>1, ExitInv DEF Alive, Children
<1>3. sh \notin PipeOpen /\ proc["left"] \notin Alive
  BY <1>1 DEF IInv, EndsInv, Writers
<1>4. todo = 0
  BY <1>1, <1>3 DEF IInv, FlowInv, Alive
<1>5. received \o pipe = received
  BY <1>1, ConcatEmptySeq DEF IInv, Shapes
<1>6. FreshInv' /\ FlowInv' /\ EndInv' /\ PromptInv'
  BY <1>1, <1>2, <1>3, <1>4, <1>5 DEF IInv, FreshInv, FlowInv, EndInv, PromptInv, Alive, Children
<1> QED
  BY <1>1, <1>2, <1>6 DEF IInv, Shapes

LEMMA Inductive == Spec => []IInv
<1>1. IInv /\ [Next]_vars => IInv'
  <2> SUFFICES ASSUME IInv, [Next]_vars PROVE IInv'
    OBVIOUS
  <2>1. CASE UNCHANGED vars \/ Stopped
    BY <2>1, SameState DEF Stopped, vars, input, state
  <2>2. CASE ShellStep
    BY <2>2, ReadLineInv, OneChildInv, MakePipeInv, ForkInv, CloseInv, WaitInv DEF ShellStep
  <2>3. ASSUME NEW c \in Children, Starts(c) PROVE IInv'
    BY <2>3, RedirectInv, ExecInv, ExecFailsInv DEF Starts, Children
  <2>4. CASE Only \/ Left \/ Right \/ RightStops
    BY <2>3, <2>4, EndsEarlyInv, LeftWritesInv, RightReadsInv, RightSeesEndInv
       DEF Only, Left, Right, Children
  <2> QED
    BY <2>1, <2>2, <2>4 DEF Next
<1> QED
  BY InitInv, <1>1, PTL DEF Spec

-----------------------------------------------------------------------------
(* The theorems. *)

\* Back at the prompt, and at the end, no child is left and no end of a pipe is
\* open, whichever forks failed and whatever the commands did.
THEOREM NothingLeftBehind == Spec => []Foreground
<1>1. IInv => Foreground
  <2> SUFFICES ASSUME IInv, sh \in {"prompt"} \union Over PROVE Live = {} /\ ends = {}
    BY DEF Foreground
  <2>1. \A c \in Children : proc[c] = "none"
    BY DEF IInv, StageInv, Children, Over
  <2>2. \A c \in {"shell", "left", "right"}, end \in {"r", "w"} : <<c, end>> \notin ends
    BY <2>1 DEF IInv, EndsInv, Over, PipeOpen, Alive, Children
  <2>3. ends = {}
    BY <2>2 DEF IInv, EndsInv
  <2> QED
    BY <2>1, <2>3 DEF Live
<1> QED
  BY Inductive, <1>1, PTL

\* The reader of a pipe gets what was written to it, in order, and when it sees
\* the end it has got everything; what the shell had printed is never mixed with
\* what a command writes.
THEOREM NothingLost == Spec => []PipeIntact
<1>1. IInv => PipeIntact
  <2> SUFFICES ASSUME IInv PROVE PipeIntact
    OBVIOUS
  <2>1. sent = received \o pipe /\ received \in Seq(Items) /\ pipe \in Seq(Items)
    BY DEF IInv, FlowInv, Shapes
  <2>2. received = SubSeq(sent, 1, Len(received))
    <3>1. CASE received = <<>>
      BY <3>1, SubSeqEmpty
    <3>2. CASE received # <<>>
      <4>1. 1 \in 1..Len(received) /\ Len(received) \in 1..Len(received)
        BY <2>1, <3>2
      <4> QED
        BY <2>1, <4>1, SubSeqOfConcat1, SubSeqFull
    <3> QED
      BY <3>1, <3>2
  <2>3. sawEnd => received = sent /\ todo = 0
    BY DEF IInv, EndInv
  <2>4. Prompt \in Range(sent) => batch /\ argv["left"] = NotRun /\ sent = <<Prompt>>
    BY DEF IInv, PromptInv, Range
  <2> QED
    BY <2>2, <2>3, <2>4 DEF PipeIntact
<1> QED
  BY Inductive, <1>1, PTL

-----------------------------------------------------------------------------
(* Places in a sequence. *)

\* A set of numbers that is not empty has a least one.
LEMMA LeastNat ==
  ASSUME NEW T \in SUBSET Nat, T # {}
  PROVE  \E x \in T : \A y \in T : x <= y
<1> DEFINE Less == OpToRel(<, Nat)
<1>1. IsWellFoundedOn(Less, Nat)
  BY NatLessThanWellFounded
<1>2. PICK x \in T : \A y \in T : ~(<<y, x>> \in Less)
  <2> HIDE DEF Less
  <2> QED
    BY <1>1, WFMin
<1>3. \A y \in T : ~(y < x)
  BY <1>2 DEF OpToRel
<1> QED
  BY <1>3

\* What strchr and strtok find: the first char of the set, or the end.
LEMMA FirstOfFacts ==
  ASSUME NEW mem, Len(mem) \in Nat, DOMAIN mem = 1..Len(mem), NEW i \in 1..(Len(mem) + 1), NEW chars
  PROVE  /\ FirstOf(mem, i, chars) \in i..(Len(mem) + 1)
         /\ FirstOf(mem, i, chars) \in DOMAIN mem => mem[FirstOf(mem, i, chars)] \in chars
         /\ \A k \in i..(FirstOf(mem, i, chars) - 1) : mem[k] \notin chars
<1> DEFINE T == {j \in i..(Len(mem) + 1) : j \in DOMAIN mem => mem[j] \in chars}
<1>1. T \in SUBSET Nat /\ Len(mem) + 1 \in T
  OBVIOUS
<1>2. PICK j \in T : \A k \in T : j <= k
  BY <1>1, LeastNat
<1>3. \A k \in i..(j - 1) : k \notin T /\ k \in i..(Len(mem) + 1)
  BY <1>2
<1>4. \A k \in i..(j - 1) : mem[k] \notin chars
  BY <1>3
<1>5. \E n \in i..(Len(mem) + 1) :
        /\ n \in DOMAIN mem => mem[n] \in chars
        /\ \A k \in i..(n - 1) : mem[k] \notin chars
  BY <1>2, <1>4
<1> QED
  BY <1>5 DEF FirstOf

LEMMA MinOfThree ==
  ASSUME NEW a \in Int, NEW b \in Int, NEW c \in Int
  PROVE  /\ Min({a, b, c}) \in {a, b, c}
         /\ Min({a, b, c}) <= a /\ Min({a, b, c}) <= b /\ Min({a, b, c}) <= c
<1>1. \E x \in {a, b, c} : \A y \in {a, b, c} : x <= y
  OBVIOUS
<1> QED
  BY <1>1 DEF Min

LEMMA MinOfTwo ==
  ASSUME NEW a \in Int, NEW b \in Int
  PROVE  Min({a, b}) \in {a, b} /\ Min({a, b}) <= a /\ Min({a, b}) <= b
<1>1. \E x \in {a, b} : \A y \in {a, b} : x <= y
  OBVIOUS
<1> QED
  BY <1>1 DEF Min

-----------------------------------------------------------------------------
(* The lines of the script. *)

\* A char is a string, Nul among them, which the provers do not see by itself.
Chars == STRING \union {Nul}
Strings == Seq(Chars)

\* A line begins and ends inside the script.
LEMMA LineEndFacts ==
  ASSUME script \in Strings, NEW i \in 1..Len(script)
  PROVE  LineEnd(i) \in i..Len(script)
<1>1. Len(script) \in Nat /\ DOMAIN script = 1..Len(script)
  BY DEF Strings
<1>2. FirstOf(script, i, {Newline}) \in i..(Len(script) + 1)
  BY <1>1, FirstOfFacts
<1>3. i + BUFLEN - 2 \in Int /\ i + BUFLEN - 2 >= i
  BY BuflenAssumption
<1>7. FirstOf(script, i, {Newline}) \in Int /\ i + BUFLEN - 2 \in Int /\ Len(script) \in Int
  BY <1>1, <1>2, <1>3
<1>4. PICK a \in Int, b \in Int, c \in Int :
        a = FirstOf(script, i, {Newline}) /\ b = i + BUFLEN - 2 /\ c = Len(script)
  BY ONLY <1>7, Zenon
<1>5. LineEnd(i) = Min({a, b, c})
  BY <1>4 DEF LineEnd
<1>6. Min({a, b, c}) \in {a, b, c} /\ Min({a, b, c}) <= c
  BY MinOfThree
<1> QED
  BY <1>1, <1>2, <1>3, <1>4, <1>5, <1>6

\* The lines from place i on, if f has those from later places on.
LinesFrom(f, i) ==
  IF i > Len(script) THEN <<>> ELSE <<SubSeq(script, i, LineEnd(i))>> \o f[LineEnd(i) + 1]
LinesTable == CHOOSE f : f = [i \in 1..(Len(script) + 1) |-> LinesFrom(f, i)]

\* The recursion of ScriptLines is defined: every line is followed by a later
\* one.
LEMMA LinesExist ==
  ASSUME script \in Strings
  PROVE  \E f : f = [i \in 1..(Len(script) + 1) |-> LinesFrom(f, i)]
<1> DEFINE Top == Len(script) + 1
           Good(d) == \E f : f = [i \in (Top - d)..Top |-> LinesFrom(f, i)]
           T == {d \in 0..Len(script) : ~Good(d)}
<1>0. Len(script) \in Nat
  BY DEF Strings
<1>1. Good(0)
  <2>1. [i \in Top..Top |-> <<>>] = [i \in Top..Top |-> LinesFrom([k \in Top..Top |-> <<>>], i)]
    BY <1>0 DEF LinesFrom
  <2>2. Top - 0 = Top
    BY <1>0
  <2> QED
    BY <2>1, <2>2
<1>2. ASSUME NEW d \in 1..Len(script), Good(d - 1) PROVE Good(d)
  <2>1. PICK f : f = [i \in (Top - (d - 1))..Top |-> LinesFrom(f, i)]
    BY <1>2
  <2> DEFINE n == Top - d
             g == [i \in n..Top |-> IF i = n THEN LinesFrom(f, n) ELSE f[i]]
  <2>2. n \in 1..Len(script) /\ (Top - (d - 1)) = n + 1
    BY <1>0
  <2>3. ASSUME NEW i \in n..Top PROVE g[i] = LinesFrom(g, i)
    <3>1. CASE i > Len(script)
      BY <2>1, <2>2, <3>1 DEF LinesFrom
    <3>2. CASE i <= Len(script)
      <4>1. LineEnd(i) + 1 \in (n + 1)..Top
        BY <1>0, <2>2, <2>3, <3>2, LineEndFacts
      <4>2. g[LineEnd(i) + 1] = f[LineEnd(i) + 1]
        BY <2>2, <4>1
      <4>3. LinesFrom(g, i) = LinesFrom(f, i)
        <5> HIDE DEF g
        <5> QED
          BY <4>2 DEF LinesFrom
      <4>4. i # n => f[i] = LinesFrom(f, i)
        BY <2>1, <2>2
      <4> QED
        BY <4>3, <4>4
    <3> QED
      BY <1>0, <3>1, <3>2
  <2>4. g = [i \in n..Top |-> LinesFrom(g, i)]
    BY <2>3
  <2> QED
    BY <2>4
<1>3. Good(Len(script))
  <2>1. SUFFICES ASSUME T # {} PROVE FALSE
    BY <1>0
  <2>2. T \in SUBSET Nat
    BY <1>0
  <2>3. PICK d \in T : \A e \in T : d <= e
    <3> HIDE DEF T
    <3> QED
      BY <2>1, <2>2, LeastNat
  <2> HIDE DEF Good
  <2>6. d \in 0..Len(script) /\ ~Good(d)
    BY <2>3
  <2>4. d \in 1..Len(script) /\ d - 1 \in 0..Len(script)
    <3>1. d # 0
      BY <1>1, <2>6
    <3> QED
      BY <1>0, <2>6, <3>1
  <2>5. d - 1 \notin T
    BY <2>3, <2>4
  <2>7. Good(d - 1)
    BY <2>4, <2>5
  <2> QED
    BY <1>2, <2>4, <2>6, <2>7
<1>4. Top - Len(script) = 1
  BY <1>0
<1> QED
  BY <1>3, <1>4

\* The lines from any place on, one line at a time.
LEMMA LinesUnfold ==
  ASSUME script \in Strings
  PROVE  /\ ScriptLines = LinesTable[1]
         /\ \A i \in 1..(Len(script) + 1) : LinesTable[i] = LinesFrom(LinesTable, i)
<1>1. LinesTable = [i \in 1..(Len(script) + 1) |-> LinesFrom(LinesTable, i)]
  BY LinesExist DEF LinesTable
<1>2. ScriptLines = LinesTable[1]
  BY DEF ScriptLines, LinesTable, LinesFrom
<1> QED
  BY <1>1, <1>2

LEMMA LinesTyped ==
  ASSUME script \in Strings
  PROVE  \A i \in 1..(Len(script) + 1) : LinesTable[i] \in Seq(Strings)
<1> DEFINE Top == Len(script) + 1
           T == {d \in 0..Len(script) : LinesTable[Top - d] \notin Seq(Strings)}
<1>0. Len(script) \in Nat
  BY DEF Strings
<1>1. T = {}
  <2>1. SUFFICES ASSUME T # {} PROVE FALSE
    OBVIOUS
  <2>2. T \in SUBSET Nat
    BY <1>0
  <2>3. PICK d \in T : \A e \in T : d <= e
    <3> HIDE DEF T
    <3> QED
      BY <2>1, <2>2, LeastNat
  <2> DEFINE i == Top - d
  <2>4. d \in 0..Len(script) /\ i \in 1..Top /\ LinesTable[i] \notin Seq(Strings)
    BY <1>0, <2>3
  <2>7. LinesTable[i] = LinesFrom(LinesTable, i)
    BY <2>4, LinesUnfold
  <2>5. CASE i > Len(script)
    <3>1. <<>> \in Seq(Strings)
      OBVIOUS
    <3>2. LinesFrom(LinesTable, i) = <<>>
      BY <2>5 DEF LinesFrom
    <3> QED
      BY <2>4, <2>7, <3>1, <3>2
  <2>6. CASE i <= Len(script)
    <3>1. LineEnd(i) \in i..Len(script)
      BY <2>4, <2>6, LineEndFacts
    <3>2. PICK e \in 0..(d - 1) : LineEnd(i) + 1 = Top - e
      <4>1. d - (LineEnd(i) + 1 - i) \in 0..(d - 1)
        BY <1>0, <2>4, <3>1
      <4>2. LineEnd(i) + 1 = Top - (d - (LineEnd(i) + 1 - i))
        BY <1>0, <2>4, <3>1
      <4> QED
        BY <4>1, <4>2
    <3>3. LinesTable[LineEnd(i) + 1] \in Seq(Strings)
      <4>1. e \in 0..Len(script) /\ e < d
        BY <1>0, <2>4, <3>2
      <4>2. e \notin T
        BY <1>0, <2>3, <2>4, <4>1
      <4> QED
        BY <3>2, <4>1, <4>2
    <3>4. SubSeq(script, i, LineEnd(i)) \in Strings
      BY <2>4, <2>6, <3>1 DEF Strings
    <3>5. <<SubSeq(script, i, LineEnd(i))>> \o LinesTable[LineEnd(i) + 1] \in Seq(Strings)
      BY <3>3, <3>4
    <3>6. LinesFrom(LinesTable, i) = <<SubSeq(script, i, LineEnd(i))>> \o LinesTable[LineEnd(i) + 1]
      BY <1>0, <2>4, <2>6 DEF LinesFrom
    <3> QED
      BY <2>4, <2>7, <3>5, <3>6
  <2> QED
    BY <1>0, <2>4, <2>5, <2>6
<1>2. ASSUME NEW i \in 1..Top PROVE LinesTable[i] \in Seq(Strings)
  <2>1. Top - i \in 0..Len(script) /\ Top - (Top - i) = i
    BY <1>0
  <2> QED
    BY <1>1, <2>1
<1> QED
  BY <1>2

-----------------------------------------------------------------------------
(* Reading. *)

LEMMA Slice ==
  ASSUME NEW s \in Strings, NEW a \in 1..(Len(s) + 1), NEW b \in (a - 1)..Len(s)
  PROVE  /\ SubSeq(s, a, b) \in Strings
         /\ Len(SubSeq(s, a, b)) = b - a + 1
         /\ \A k \in 1..(b - a + 1) : SubSeq(s, a, b)[k] = s[a + k - 1]
BY DEF Strings

LEMMA SliceOfSlice ==
  ASSUME NEW s \in Strings, NEW a \in 1..(Len(s) + 1), NEW b \in (a - 1)..Len(s),
         NEW c \in 1..(b - a + 2), NEW d \in (c - 1)..(b - a + 1)
  PROVE  SubSeq(SubSeq(s, a, b), c, d) = SubSeq(s, a + c - 1, a + d - 1)
<1> DEFINE t == SubSeq(s, a, b)
<1>1. t \in Strings /\ Len(t) = b - a + 1 /\ \A k \in 1..(b - a + 1) : t[k] = s[a + k - 1]
  BY Slice
<1>2. /\ SubSeq(t, c, d) \in Strings /\ Len(SubSeq(t, c, d)) = d - c + 1
      /\ \A k \in 1..(d - c + 1) : SubSeq(t, c, d)[k] = t[c + k - 1]
  <2>1. c \in 1..(Len(t) + 1) /\ d \in (c - 1)..Len(t)
    BY <1>1 DEF Strings
  <2> HIDE DEF t
  <2> QED
    BY <1>1, <2>1, Slice
<1>3. a + c - 1 \in 1..(Len(s) + 1) /\ a + d - 1 \in (a + c - 1 - 1)..Len(s)
  BY DEF Strings
<1>4. /\ SubSeq(s, a + c - 1, a + d - 1) \in Strings
      /\ Len(SubSeq(s, a + c - 1, a + d - 1)) = d - c + 1
      /\ \A k \in 1..(d - c + 1) : SubSeq(s, a + c - 1, a + d - 1)[k] = s[a + c - 1 + k - 1]
  <2>1. PICK x \in 1..(Len(s) + 1) : x = a + c - 1
    BY <1>3
  <2>3. PICK y \in (x - 1)..Len(s) : y = a + d - 1
    BY <1>3, <2>1
  <2>2. y - x + 1 = d - c + 1
    BY <2>1, <2>3 DEF Strings
  <2> QED
    BY <2>1, <2>2, <2>3, Slice
<1>5. \A k \in 1..(d - c + 1) : SubSeq(t, c, d)[k] = SubSeq(s, a + c - 1, a + d - 1)[k]
  <2> TAKE k \in 1..(d - c + 1)
  <2>1. c + k - 1 \in 1..(b - a + 1) /\ a + (c + k - 1) - 1 = a + c - 1 + k - 1
    BY DEF Strings
  <2> QED
    BY <1>1, <1>2, <1>4, <2>1
<1> HIDE DEF t
<1> QED
  BY <1>2, <1>4, <1>5, SeqEqual DEF Strings, t

LEMMA JoinSlices ==
  ASSUME NEW s \in Strings, NEW a \in 1..(Len(s) + 1), NEW b \in (a - 1)..Len(s), NEW c \in b..Len(s)
  PROVE  SubSeq(s, a, b) \o SubSeq(s, b + 1, c) = SubSeq(s, a, c)
<1>1. /\ SubSeq(s, a, b) \in Strings /\ Len(SubSeq(s, a, b)) = b - a + 1
      /\ \A k \in 1..(b - a + 1) : SubSeq(s, a, b)[k] = s[a + k - 1]
  BY Slice
<1>2. /\ SubSeq(s, b + 1, c) \in Strings /\ Len(SubSeq(s, b + 1, c)) = c - b
      /\ \A k \in 1..(c - b) : SubSeq(s, b + 1, c)[k] = s[b + k]
  BY Slice
<1>3. /\ SubSeq(s, a, c) \in Strings /\ Len(SubSeq(s, a, c)) = c - a + 1
      /\ \A k \in 1..(c - a + 1) : SubSeq(s, a, c)[k] = s[a + k - 1]
  BY Slice
<1>4. PICK x, y, z : x = SubSeq(s, a, b) /\ y = SubSeq(s, b + 1, c) /\ z = SubSeq(s, a, c)
  OBVIOUS
<1>5. x \in Seq(Chars) /\ y \in Seq(Chars) /\ z \in Seq(Chars)
  BY <1>1, <1>2, <1>3, <1>4 DEF Strings
<1>6. /\ Len(x) = b - a + 1 /\ Len(y) = c - b /\ Len(z) = c - a + 1
      /\ \A k \in 1..(b - a + 1) : x[k] = s[a + k - 1]
      /\ \A k \in 1..(c - b) : y[k] = s[b + k]
      /\ \A k \in 1..(c - a + 1) : z[k] = s[a + k - 1]
  BY <1>1, <1>2, <1>3, <1>4
<1>7. /\ x \o y \in Seq(Chars) /\ Len(x \o y) = Len(x) + Len(y)
      /\ \A k \in 1..(Len(x) + Len(y)) : (x \o y)[k] = IF k <= Len(x) THEN x[k] ELSE y[k - Len(x)]
  BY ONLY <1>5, ConcatProperties
<1>8. Len(x \o y) = Len(z)
  BY <1>6, <1>7 DEF Strings
<1>9. \A k \in 1..Len(z) : (x \o y)[k] = z[k]
  <2> TAKE k \in 1..Len(z)
  <2>1. k \in 1..(Len(x) + Len(y)) /\ k \in 1..(c - a + 1)
    BY <1>6 DEF Strings
  <2>2. CASE k <= Len(x)
    <3>1. k \in 1..(b - a + 1)
      BY <1>6, <2>1, <2>2 DEF Strings
    <3> QED
      BY <1>6, <1>7, <2>1, <2>2, <3>1
  <2>3. CASE ~(k <= Len(x))
    <3>1. k - Len(x) \in 1..(c - b) /\ b + (k - Len(x)) = a + k - 1
      BY <1>6, <2>1, <2>3 DEF Strings
    <3>2. y[k - Len(x)] = s[b + (k - Len(x))]
      BY <1>6, <3>1
    <3> QED
      BY <1>6, <1>7, <2>1, <2>3, <3>1, <3>2
  <2> QED
    BY <2>2, <2>3
<1>10. x \o y = z
  BY ONLY <1>5, <1>7, <1>8, <1>9, SeqEqual
<1> QED
  BY ONLY <1>4, <1>10, Zenon

LEMMA RestFacts ==
  ASSUME script \in Strings, offset \in 0..Len(script)
  PROVE  Len(Rest) = Len(script) - offset
BY Slice DEF Rest, Strings

\* Reading on takes the script further, to its end or to the end of a line.
LEMMA RefillFacts ==
  ASSUME script \in Strings, offset \in 0..Len(script)
  PROVE  \E o \in offset..Len(script) :
           /\ Refill = SubSeq(script, offset + 1, o) /\ Len(Refill) = o - offset
           /\ o = Len(script) \/ \E k \in DOMAIN Refill : Refill[k] = Newline
<1>1. /\ Rest \in Strings /\ Len(Rest) = Len(script) - offset
      /\ Len(script) \in Nat
  BY Slice DEF Rest, Strings
<1>4. DOMAIN Rest = 1..Len(Rest)
  BY <1>1 DEF Strings
<1>2. CASE batch
  BY <1>1, <1>2 DEF Refill, Rest
<1>3. CASE ~batch
  <2>2. PICK n \in Int : n = Len(Rest) /\ n \in Nat
    BY <1>1
  <2>1. PICK f \in Int :
          /\ f = FirstOf(Rest, 1, {Newline}) /\ f \in 1..(n + 1)
          /\ f \in 1..n => Rest[f] \in {Newline}
    <3>1. n + 1 \in Nat /\ 1 \in 1..(n + 1)
      BY <2>2
    <3>2. /\ FirstOf(Rest, 1, {Newline}) \in 1..(n + 1)
          /\ FirstOf(Rest, 1, {Newline}) \in 1..n => Rest[FirstOf(Rest, 1, {Newline})] \in {Newline}
      BY <1>4, <2>2, <3>1, FirstOfFacts
    <3>3. FirstOf(Rest, 1, {Newline}) \in Int
      BY <3>2
    <3> QED
      BY ONLY <3>2, <3>3, Zenon
  <2>3. PICK m \in 0..n : m = Min({f, n}) /\ (m = f \/ m = n)
    <3>1. Min({f, n}) \in {f, n} /\ Min({f, n}) <= f /\ Min({f, n}) <= n
      BY MinOfTwo
    <3>2. Min({f, n}) \in 0..n
      BY <2>1, <3>1
    <3> QED
      BY <3>1, <3>2
  <2>4. Refill = SubSeq(Rest, 1, m)
    BY <1>3, <2>1, <2>2, <2>3 DEF Refill
  <2>5. Refill \in Strings /\ Len(Refill) = m /\ \A k \in 1..m : Refill[k] = Rest[k]
    <3>1. 1 \in 1..(Len(Rest) + 1) /\ m \in (1 - 1)..Len(Rest) /\ m - 1 + 1 = m
      BY <2>2
    <3>2. \A k \in 1..m : 1 + k - 1 = k
      OBVIOUS
    <3> QED
      BY <1>1, <2>4, <3>1, <3>2, Slice
  <2>6. Refill = SubSeq(script, offset + 1, offset + m)
    <3>1. offset + 1 \in 1..(Len(script) + 1) /\ Len(script) \in (offset + 1 - 1)..Len(script)
      BY <1>1
    <3>2. 1 \in 1..(Len(script) - (offset + 1) + 2) /\ m \in (1 - 1)..(Len(script) - (offset + 1) + 1)
      BY <1>1, <2>2
    <3>3. SubSeq(Rest, 1, m) = SubSeq(script, offset + 1 + 1 - 1, offset + 1 + m - 1)
      BY <3>1, <3>2, SliceOfSlice DEF Rest
    <3> QED
      BY <2>4, <3>3
  <2>7. CASE m = n
    BY <1>1, <2>2, <2>5, <2>6, <2>7
  <2>8. CASE m # n
    <3>5. PICK o \in Int : o = offset + m
      BY <1>1
    <3>1. m = f /\ f \in 1..n /\ Rest[f] = Newline
      BY <1>1, <2>1, <2>2, <2>3, <2>8
    <3>2. f \in DOMAIN Refill /\ Refill[f] = Newline
      BY <2>5, <3>1 DEF Strings
    <3>3. o \in offset..Len(script) /\ Len(Refill) = o - offset
      BY <1>1, <2>2, <2>5, <3>5
    <3>4. Refill = SubSeq(script, offset + 1, o)
      BY <2>6, <3>5
    <3> QED
      BY <3>2, <3>3, <3>4
  <2> QED
    BY <2>7, <2>8
<1> QED
  BY <1>2, <1>3

\* What fgets takes of what it has: some, if there is some.
LEMMA TakeFacts ==
  ASSUME NEW data \in Strings
  PROVE  LET m == Min({Room, FirstOf(data, 1, {Newline}), Len(data)})
         IN /\ m \in 0..Len(data) /\ m <= Room /\ (m = 0 <=> Len(data) = 0)
            /\ m \in {Room, FirstOf(data, 1, {Newline}), Len(data)}
            /\ m <= FirstOf(data, 1, {Newline})
<1>1. Len(data) \in Nat /\ Room \in Nat /\ Room >= 1
  BY BuflenAssumption DEF Strings, Room
<1>2. FirstOf(data, 1, {Newline}) \in 1..(Len(data) + 1)
  <2>1. DOMAIN data = 1..Len(data)
    BY DEF Strings
  <2> QED
    BY <1>1, <2>1, FirstOfFacts
<1>3. FirstOf(data, 1, {Newline}) \in Int
  BY <1>1, <1>2
<1>4. PICK f \in Int : f = FirstOf(data, 1, {Newline})
  BY <1>3
<1>5. PICK n \in Int : n = Len(data)
  BY <1>1
<1>6. PICK r \in Int : r = Room
  BY <1>1
<1>7. Min({r, f, n}) \in {r, f, n} /\ Min({r, f, n}) <= r /\ Min({r, f, n}) <= f /\ Min({r, f, n}) <= n
  BY MinOfThree
<1> QED
  BY <1>1, <1>2, <1>4, <1>5, <1>6, <1>7

\* If there is a line in what it has, or nothing else to come, that is the next
\* line of the script.
LEMMA TakesLine ==
  ASSUME script \in Strings, NEW c \in 0..Len(script), NEW o \in (c + 1)..Len(script),
         NEW data, data = SubSeq(script, c + 1, o), HasLine(data) \/ o = Len(script)
  PROVE  c + Min({Room, FirstOf(data, 1, {Newline}), Len(data)}) = LineEnd(c + 1)
<1>1. Len(script) \in Nat /\ Room \in Nat /\ Room >= 1
  BY BuflenAssumption DEF Strings, Room
<1>8. DOMAIN script = 1..Len(script)
  BY DEF Strings
<1>9. PICK n \in Nat : n = o - c /\ n >= 1
  BY <1>1
<1>2. data \in Strings /\ Len(data) = n /\ \A k \in 1..n : data[k] = script[c + k]
  <2>1. c + 1 \in 1..(Len(script) + 1) /\ o \in (c + 1 - 1)..Len(script)
    BY <1>1
  <2>2. /\ data \in Strings /\ Len(data) = o - (c + 1) + 1
        /\ \A k \in 1..(o - (c + 1) + 1) : data[k] = script[c + 1 + k - 1]
    BY <2>1, Slice
  <2>3. o - (c + 1) + 1 = n /\ \A k \in 1..n : c + 1 + k - 1 = c + k
    BY <1>1, <1>9
  <2> QED
    BY <2>2, <2>3
<1>3. DOMAIN data = 1..n
  BY <1>1, <1>2 DEF Strings
<1>4. PICK f \in Nat :
        /\ f = FirstOf(data, 1, {Newline}) /\ f \in 1..(n + 1)
        /\ f \in 1..n => data[f] \in {Newline}
        /\ \A k \in 1..(f - 1) : data[k] \notin {Newline}
  <2>1. /\ FirstOf(data, 1, {Newline}) \in 1..(n + 1)
        /\ FirstOf(data, 1, {Newline}) \in 1..n => data[FirstOf(data, 1, {Newline})] \in {Newline}
        /\ \A k \in 1..(FirstOf(data, 1, {Newline}) - 1) : data[k] \notin {Newline}
    <3>1. n + 1 \in Nat /\ 1 \in 1..(n + 1)
      OBVIOUS
    <3> QED
      BY <1>2, <1>3, <3>1, FirstOfFacts
  <2>2. FirstOf(data, 1, {Newline}) \in Nat
    BY <2>1
  <2> QED
    BY ONLY <2>1, <2>2, Zenon
<1>5. PICK F \in Nat :
        /\ F = FirstOf(script, c + 1, {Newline}) /\ F \in (c + 1)..(Len(script) + 1)
        /\ F \in 1..Len(script) => script[F] \in {Newline}
        /\ \A k \in (c + 1)..(F - 1) : script[k] \notin {Newline}
  <2>1. c + 1 \in 1..(Len(script) + 1)
    BY <1>1
  <2>2. /\ FirstOf(script, c + 1, {Newline}) \in (c + 1)..(Len(script) + 1)
        /\ FirstOf(script, c + 1, {Newline}) \in 1..Len(script)
             => script[FirstOf(script, c + 1, {Newline})] \in {Newline}
        /\ \A k \in (c + 1)..(FirstOf(script, c + 1, {Newline}) - 1) : script[k] \notin {Newline}
    BY <1>1, <1>8, <2>1, FirstOfFacts
  <2>3. FirstOf(script, c + 1, {Newline}) \in Nat
    BY <1>1, <2>2
  <2> QED
    BY ONLY <2>2, <2>3, Zenon
<1>6. f <= n => F = c + f
  <2> SUFFICES ASSUME f <= n PROVE F = c + f
    OBVIOUS
  <2>1. f \in 1..n /\ script[c + f] = Newline
    BY <1>2, <1>4
  <2>2. F <= c + f
    <3>1. SUFFICES ASSUME F > c + f PROVE FALSE
      BY <1>1
    <3>2. c + f \in (c + 1)..(F - 1)
      BY <1>1, <2>1, <3>1
    <3> QED
      BY <1>5, <2>1, <3>2
  <2>3. F \in 1..Len(script) /\ F - c \in 1..n /\ c + (F - c) = F
    BY <1>1, <1>5, <1>9, <2>1, <2>2
  <2>4. data[F - c] = Newline
    BY <1>2, <1>5, <2>3
  <2>5. ~(F - c \in 1..(f - 1))
    BY <1>4, <2>4
  <2> QED
    BY <1>1, <2>1, <2>2, <2>3, <2>5
<1>7. f = n + 1 => F > c + n /\ (n >= Room \/ c + n = Len(script))
  <2> SUFFICES ASSUME f = n + 1 PROVE F > c + n /\ (n >= Room \/ c + n = Len(script))
    OBVIOUS
  <2>1. \A k \in 1..n : data[k] # Newline
    <3>1. f - 1 = n
      OBVIOUS
    <3> QED
      BY <1>4, <3>1
  <2>2. F > c + n
    <3>1. SUFFICES ASSUME F <= c + n PROVE FALSE
      BY <1>1
    <3>2. F \in 1..Len(script) /\ F - c \in 1..n /\ c + (F - c) = F
      BY <1>1, <1>5, <1>9, <3>1
    <3>3. data[F - c] = Newline
      BY <1>2, <1>5, <3>2
    <3> QED
      BY <2>1, <3>2, <3>3
  <2>3. n >= Room \/ o = Len(script)
    BY <1>2, <1>3, <2>1 DEF HasLine
  <2> QED
    BY <1>1, <1>9, <2>2, <2>3
<1>10. PICK b \in Nat : b = c + 1 + BUFLEN - 2 /\ b = c + Room
  BY <1>1, BuflenAssumption DEF Room
<1>11. c + n <= Len(script)
  BY <1>1, <1>9
<1>12. f <= n \/ f = n + 1
  BY <1>4
<1>13. /\ Room \in Int /\ f \in Int /\ n \in Int /\ c \in Int /\ F \in Int /\ b \in Int
       /\ Len(script) \in Int
  BY <1>1
<1>16. b = c + Room
  BY <1>10
<1>14. c + Min({Room, f, n}) = Min({F, b, Len(script)})
  <2>1. PICK r \in Int, L \in Int : r = Room /\ L = Len(script)
    BY ONLY <1>13, Zenon
  <2>2. b = c + r /\ c + n <= L
    BY <1>16, <1>11, <2>1
  <2>3. \/ f <= n /\ F = c + f
        \/ f = n + 1 /\ F > c + n /\ (n >= r \/ c + n = L)
    BY <1>6, <1>7, <1>12, <2>1
  <2>5. r \in Int /\ L \in Int
    BY <2>1
  <2>4. c + Min({r, f, n}) = Min({F, b, L})
    <3>1. /\ Min({r, f, n}) \in {r, f, n}
          /\ Min({r, f, n}) <= r /\ Min({r, f, n}) <= f /\ Min({r, f, n}) <= n
      BY ONLY <1>13, <2>5, MinOfThree
    <3>2. /\ Min({F, b, L}) \in {F, b, L}
          /\ Min({F, b, L}) <= F /\ Min({F, b, L}) <= b /\ Min({F, b, L}) <= L
      BY ONLY <1>13, <2>5, MinOfThree
    <3> QED
      BY ONLY <1>13, <2>2, <2>3, <2>5, <3>1, <3>2
  <2> QED
    BY ONLY <2>1, <2>4
<1>15. LineEnd(c + 1) = Min({F, b, Len(script)})
  BY <1>5, <1>10 DEF LineEnd
<1> QED
  BY <1>2, <1>4, <1>14, <1>15

\* The lines read, and those from place c of the script on, are all its lines.
After(c) == ran \o LinesTable[c + 1] = ScriptLines

\* As long as no child has moved the offset, what stdio has read ahead of the
\* shell lies before it, and the lines that begin there are those to come.
Position ==
  /\ Len(unread) <= offset
  /\ unread = SubSeq(script, offset - Len(unread) + 1, offset)
  /\ After(offset - Len(unread))
  /\ eof => offset = Len(script)
  /\ sh = "eof" => offset = Len(script) /\ Len(unread) = 0

\* A shell that runs a file reads all of it at once.  Wherever its children move
\* the offset, it has read nothing, or holds the rest of the file, or has read
\* all of its lines but perhaps the last.
Nothing == ran = <<>> /\ unread = <<>> /\ offset = 0 /\ ~eof
Ahead(c) == After(c) /\ unread = SubSeq(script, c + 1, Len(script))
Passed ==
  /\ Len(ScriptLines) <= Len(ran)
  /\ \A k \in DOMAIN ran : k < Len(ScriptLines) => ran[k] = ScriptLines[k]
Progress == Nothing \/ (\E c \in 0..Len(script) : Ahead(c)) \/ Passed

LineInv ==
  /\ script \in Strings /\ unread \in Strings /\ ran \in Seq(Strings)
  /\ offset \in 0..Len(script)
  /\ ~(batch /\ failed) => Position
  /\ batch => Progress

\* Taking the next line from place c on: what is left begins where it ends.
Takes(data, m, c, o) ==
  /\ data = SubSeq(script, c + 1, o)
  /\ HasLine(data) \/ o = Len(script)
  /\ m = Min({Room, FirstOf(data, 1, {Newline}), Len(data)})
  /\ m = 0 <=> Len(data) = 0
  /\ After(c)
  /\ script' = script
  /\ unread' = SubSeq(data, m + 1, Len(data))
  /\ ran' = IF m = 0 THEN ran ELSE Append(ran, SubSeq(data, 1, m))

LEMMA TakesNext ==
  ASSUME script \in Strings, ran \in Seq(Strings),
         NEW data \in Strings, NEW m \in 0..Len(data),
         NEW c \in 0..Len(script), NEW o \in c..Len(script), Takes(data, m, c, o)
  PROVE  \E d \in c..o : /\ d = c + m /\ Len(unread') = o - d
                         /\ unread' = SubSeq(script, d + 1, o)
                         /\ After(d)'
                         /\ m = 0 => c = o /\ o = Len(script)
<1>20. script' = script
  BY Zenon DEF Takes
<1>21. data = SubSeq(script, c + 1, o) /\ (HasLine(data) \/ o = Len(script))
  BY Zenon DEF Takes
<1>22. m = Min({Room, FirstOf(data, 1, {Newline}), Len(data)}) /\ (m = 0 <=> Len(data) = 0)
  BY Zenon DEF Takes
<1>23. unread' = SubSeq(data, m + 1, Len(data))
  BY Zenon DEF Takes
<1>24. ran' = IF m = 0 THEN ran ELSE Append(ran, SubSeq(data, 1, m))
  BY Zenon DEF Takes
<1>25. ran \o LinesTable[c + 1] = ScriptLines
  BY Zenon DEF Takes, After
<1>1. LinesTable' = LinesTable /\ ScriptLines' = ScriptLines
  BY ONLY <1>20 DEF ScriptLines, LinesTable, LinesFrom, LineEnd
<1>2. Len(script) \in Nat /\ Len(data) \in Nat /\ script \in Strings
  BY DEF Strings
<1>3. Len(data) = o - c
  <2>1. c + 1 \in 1..(Len(script) + 1) /\ o \in (c + 1 - 1)..Len(script) /\ o - (c + 1) + 1 = o - c
    BY <1>2
  <2> QED
    BY <1>21, <2>1, Slice
<1>4. PICK d \in c..o : d = c + m
  <2>1. c + m \in c..o
    BY <1>2, <1>3
  <2> QED
    BY ONLY <2>1, Zenon
<1>5. unread' = SubSeq(script, d + 1, o) /\ Len(unread') = o - d
  <2>1. c + 1 \in 1..(Len(script) + 1) /\ o \in (c + 1 - 1)..Len(script)
    BY <1>2
  <2>2. m + 1 \in 1..(o - (c + 1) + 2) /\ o - c \in (m + 1 - 1)..(o - (c + 1) + 1)
    BY <1>2, <1>3
  <2>3. c + 1 + (m + 1) - 1 = d + 1 /\ c + 1 + (o - c) - 1 = o
    BY <1>2, <1>4
  <2>4. SubSeq(SubSeq(script, c + 1, o), m + 1, o - c) = SubSeq(script, c + 1 + (m + 1) - 1, c + 1 + (o - c) - 1)
    BY ONLY <1>2, <2>1, <2>2, SliceOfSlice
  <2>5. unread' = SubSeq(script, d + 1, o)
    BY <1>3, <1>21, <1>23, <2>3, <2>4
  <2>6. d + 1 \in 1..(Len(script) + 1) /\ o \in (d + 1 - 1)..Len(script) /\ o - (d + 1) + 1 = o - d
    BY <1>2
  <2> QED
    BY ONLY <1>2, <2>5, <2>6, Slice
<1>6. CASE m = 0
  <2>1. Len(data) = 0 /\ d = c /\ o = c
    <3>1. Len(data) = 0 /\ c \in Int /\ d = c + 0
      BY ONLY <1>4, <1>6, <1>22, <1>2
    <3> QED
      BY <1>3, <3>1
  <2>2. ~HasLine(data)
    <3>1. DOMAIN data = {}
      BY <2>1 DEF Strings
    <3>2. Room \in Nat /\ Room >= 1
      BY BuflenAssumption DEF Room
    <3>3. ~(Len(data) >= Room)
      BY ONLY <3>2, <2>1
    <3> QED
      BY <3>1, <3>3, Zenon DEF HasLine
  <2>3. After(d)'
    BY <1>1, <1>6, <1>24, <1>25, <2>1 DEF After
  <2> QED
    BY <1>4, <1>5, <1>21, <2>1, <2>2, <2>3
<1>7. CASE m # 0
  <2>1. o \in (c + 1)..Len(script) /\ m > 0
    BY <1>2, <1>3, <1>7
  <2>2. c + m = LineEnd(c + 1)
    BY <1>21, <1>22, <2>1, TakesLine
  <2>3. SubSeq(data, 1, m) = SubSeq(script, c + 1, d)
    <3>1. c + 1 \in 1..(Len(script) + 1) /\ o \in (c + 1 - 1)..Len(script)
      BY <1>2
    <3>2. 1 \in 1..(o - (c + 1) + 2) /\ m \in (1 - 1)..(o - (c + 1) + 1)
      BY <1>2, <1>3
    <3>3. c + 1 + 1 - 1 = c + 1 /\ c + 1 + m - 1 = d
      BY <1>2, <1>4
    <3>4. SubSeq(SubSeq(script, c + 1, o), 1, m) = SubSeq(script, c + 1 + 1 - 1, c + 1 + m - 1)
      BY ONLY <1>2, <3>1, <3>2, SliceOfSlice
    <3> QED
      BY <1>21, <3>3, <3>4
  <2>4. LinesTable[c + 1] = <<SubSeq(data, 1, m)>> \o LinesTable[d + 1]
    <3>1. c + 1 \in 1..(Len(script) + 1) /\ ~(c + 1 > Len(script))
      BY <1>2, <2>1
    <3>2. LinesTable[c + 1] = LinesFrom(LinesTable, c + 1)
      BY <3>1, LinesUnfold
    <3>3. LineEnd(c + 1) = d
      BY <1>4, <2>2
    <3> QED
      BY <2>3, <3>1, <3>2, <3>3 DEF LinesFrom
  <2>5. PICK x \in Strings : x = SubSeq(data, 1, m)
    <3>1. 1 \in 1..(Len(data) + 1) /\ m \in (1 - 1)..Len(data)
      BY <1>2
    <3> QED
      BY <3>1, Slice
  <2>6. PICK t \in Seq(Strings) : t = LinesTable[d + 1]
    <3>1. d + 1 \in 1..(Len(script) + 1)
      BY <1>2
    <3> QED
      BY <3>1, LinesTyped
  <2>11. ran \in Seq(Strings) /\ x \in Strings /\ t \in Seq(Strings)
    OBVIOUS
  <2>12. Append(ran, x) = ran \o <<x>> /\ <<x>> \in Seq(Strings)
    BY ONLY <2>11, AppendIsConcat
  <2>7. ran' = ran \o <<x>>
    BY <1>7, <1>24, <2>5, <2>12
  <2>8. (ran \o <<x>>) \o t = ran \o (<<x>> \o t)
    BY ONLY <2>11, <2>12, ConcatAssociative
  <2>9. ran' \o t = ran \o LinesTable[c + 1]
    BY <2>4, <2>5, <2>6, <2>7, <2>8
  <2>10. After(d)'
    BY <1>1, <1>25, <2>6, <2>9 DEF After
  <2> QED
    BY <1>4, <1>5, <1>7, <2>10
<1> QED
  BY <1>6, <1>7

\* What ReadLine does to the lines: it reads on to place o, and takes m chars.
ReadsOn(data, m, o) ==
  /\ data = unread \o SubSeq(script, offset + 1, o)
  /\ HasLine(data) \/ eof \/ o = Len(script)
  /\ HasLine(unread) \/ eof => data = unread
  /\ batch /\ ~HasLine(unread) /\ ~eof => o = Len(script)
  /\ m = Min({Room, FirstOf(data, 1, {Newline}), Len(data)})
  /\ m = 0 <=> Len(data) = 0
  /\ m <= Room
  /\ m = 0 => UNCHANGED <<buffer, line>>
  /\ m > 0 => /\ buffer' = SubSeq(data, 1, m) \o <<Nul>> \o SubSeq(buffer, m + 2, BUFLEN)
              /\ line' = IF right' > 0 THEN [TrimString(buffer') EXCEPT ![right'] = Nul]
                                       ELSE TrimString(buffer')
  /\ offset' = o
  /\ eof' => eof \/ o = Len(script)
  /\ unread' = SubSeq(data, m + 1, Len(data))
  /\ \/ m = 0 /\ sh' = "eof" /\ ran' = ran
     \/ m > 0 /\ sh' # "eof" /\ ran' = Append(ran, SubSeq(data, 1, m))

LEMMA ReadFacts ==
  ASSUME LineInv, ReadLine
  PROVE  \E data \in Strings, o \in offset..Len(script) : \E m \in 0..Len(data) : ReadsOn(data, m, o)
<1> DEFINE refill == ~HasLine(unread) /\ ~eof
           data == unread \o (IF refill THEN Refill ELSE <<>>)
           m == Min({Room, FirstOf(data, 1, {Newline}), Len(data)})
           got == SubSeq(data, 1, m)
<1>1. script \in Strings /\ unread \in Strings /\ offset \in 0..Len(script) /\ Len(script) \in Nat
  BY DEF LineInv, Strings
<1>2. PICK o \in offset..Len(script) :
        /\ data \in Strings
        /\ data = unread \o SubSeq(script, offset + 1, o)
        /\ HasLine(data) \/ eof \/ o = Len(script)
        /\ IF refill THEN o = offset + Len(Refill) ELSE o = offset
        /\ ~refill => data = unread
        /\ batch /\ refill => o = Len(script)
  <2>1. CASE refill
    <3>1. PICK o \in offset..Len(script) :
            /\ Refill = SubSeq(script, offset + 1, o) /\ Len(Refill) = o - offset
            /\ o = Len(script) \/ \E k \in DOMAIN Refill : Refill[k] = Newline
      BY <1>1, RefillFacts
    <3>2. Refill \in Strings
      <4>1. offset + 1 \in 1..(Len(script) + 1) /\ o \in (offset + 1 - 1)..Len(script)
        BY <1>1
      <4> QED
        BY <1>1, <3>1, <4>1, Slice
    <3>3. data = unread \o Refill /\ data \in Strings
      BY <1>1, <2>1, <3>2 DEF Strings
    <3>4. ASSUME NEW k \in DOMAIN Refill, Refill[k] = Newline PROVE HasLine(data)
      <4>1. /\ k \in 1..Len(Refill) /\ Len(unread) \in Nat /\ Len(Refill) \in Nat
            /\ unread \in Seq(Chars) /\ Refill \in Seq(Chars)
        BY <1>1, <3>2, <3>4 DEF Strings
      <4>2. Len(unread) + k \in DOMAIN (unread \o Refill) /\ (unread \o Refill)[Len(unread) + k] = Refill[k]
        BY ONLY <4>1
      <4> QED
        BY <3>3, <3>4, <4>2 DEF HasLine
    <3>5. o = offset + Len(Refill)
      BY <1>1, <3>1
    <3>6. batch => o = Len(script)
      BY <1>1, <3>5, RestFacts DEF Refill
    <3> HIDE DEF data
    <3> QED
      BY <2>1, <3>1, <3>3, <3>4, <3>5, <3>6
  <2>2. CASE ~refill
    <3>1. data = unread /\ SubSeq(script, offset + 1, offset) = <<>>
      BY <1>1, <2>2 DEF Strings
    <3>2. data = unread \o SubSeq(script, offset + 1, offset)
      BY <1>1, <3>1 DEF Strings
    <3>3. HasLine(data) \/ eof
      BY <2>2, <3>1
    <3>4. offset \in offset..Len(script)
      BY <1>1
    <3> HIDE DEF data
    <3> QED
      BY <1>1, <2>2, <3>1, <3>2, <3>3, <3>4
  <2> QED
    BY <2>1, <2>2
<1>3. /\ m \in 0..Len(data) /\ (m = 0 <=> Len(data) = 0) /\ m <= Room
  <2> HIDE DEF data
  <2> QED
    BY <1>2, TakeFacts
<1>4. Len(got) = m /\ (got = <<>> <=> m = 0)
  <2>1. 1 \in 1..(Len(data) + 1) /\ m \in (1 - 1)..Len(data) /\ m - 1 + 1 = m
    BY <1>3
  <2> HIDE DEF data, m
  <2>2. got \in Strings /\ Len(got) = m
    BY <1>2, <2>1, Slice
  <2> QED
    BY <2>2, <1>3 DEF Strings
<1>5. /\ offset' = o
      /\ eof' => eof \/ o = Len(script)
      /\ unread' = SubSeq(data, m + 1, Len(data))
  <2>1. /\ offset' = IF refill THEN offset + Len(Refill) ELSE offset
        /\ eof' = (eof \/ (refill /\ ~HasLine(data)))
        /\ unread' = SubSeq(data, Len(got) + 1, Len(data))
    BY DEF ReadLine
  <2> HIDE DEF data, m, got, refill
  <2> QED
    BY <1>2, <1>4, <2>1
<1>6. \/ m = 0 /\ sh' = "eof" /\ ran' = ran
      \/ m > 0 /\ sh' # "eof" /\ ran' = Append(ran, SubSeq(data, 1, m))
  <2>1. \/ got = <<>> /\ sh' = "eof" /\ ran' = ran
        \/ got # <<>> /\ sh' # "eof" /\ ran' = Append(ran, got)
    BY DEF ReadLine
  <2>2. m # 0 => m > 0
    <3> HIDE DEF data, m
    <3> QED
      BY <1>3
  <2> HIDE DEF data, m
  <2> QED
    BY <1>4, <2>1, <2>2
<1>8. /\ m = 0 => UNCHANGED <<buffer, line>>
      /\ m > 0 => /\ buffer' = SubSeq(data, 1, m) \o <<Nul>> \o SubSeq(buffer, m + 2, BUFLEN)
                  /\ line' = IF right' > 0 THEN [TrimString(buffer') EXCEPT ![right'] = Nul]
                                           ELSE TrimString(buffer')
  <2>1. \/ got = <<>> /\ UNCHANGED <<buffer, line>>
        \/ /\ got # <<>>
           /\ buffer' = got \o <<Nul>> \o SubSeq(buffer, Len(got) + 2, BUFLEN)
           /\ line' = IF right' > 0 THEN [TrimString(buffer') EXCEPT ![right'] = Nul]
                                    ELSE TrimString(buffer')
    BY DEF ReadLine
  <2>2. ~(m = 0 /\ m > 0)
    <3> HIDE DEF data, m
    <3> QED
      BY <1>3
  <2>3. got # <<>> => buffer' = got \o <<Nul>> \o SubSeq(buffer, m + 2, BUFLEN)
    <3> HIDE DEF data, m, got
    <3> QED
      BY <1>4, <2>1
  <2> HIDE DEF data, m
  <2> QED
    BY <1>4, <2>1, <2>2, <2>3
<1>7. ReadsOn(data, m, o)
  <2> HIDE DEF data, refill, got
  <2>1. m = Min({Room, FirstOf(data, 1, {Newline}), Len(data)})
    OBVIOUS
  <2> HIDE DEF m
  <2>2. /\ HasLine(unread) \/ eof => data = unread
        /\ batch /\ ~HasLine(unread) /\ ~eof => o = Len(script)
    BY <1>2, Zenon DEF refill
  <2> QED
    BY <1>2, <1>3, <1>5, <1>6, <1>8, <2>1, <2>2 DEF ReadsOn
<1> HIDE DEF data, m
<1> QED
  BY <1>2, <1>3, <1>7

\* What is left of the file without a newline is its last line, or nothing.
LEMMA LastLine ==
  ASSUME script \in Strings, NEW c \in 0..Len(script),
         unread = SubSeq(script, c + 1, Len(script)), ~HasLine(unread)
  PROVE  Len(LinesTable[c + 1]) = IF Len(unread) = 0 THEN 0 ELSE 1
<1>1. Len(script) \in Nat
  BY DEF Strings
<1>2. c + 1 \in 1..(Len(script) + 1) /\ Len(script) \in (c + 1 - 1)..Len(script)
  BY <1>1
<1>3. unread \in Strings /\ Len(unread) = Len(script) - c
  BY <1>1, <1>2, Slice
<1>4. LinesTable[c + 1] = LinesFrom(LinesTable, c + 1)
  BY <1>2, LinesUnfold
<1>5. CASE c = Len(script)
  <2>1. Len(unread) = 0 /\ c + 1 > Len(script)
    BY <1>1, <1>3, <1>5
  <2> QED
    BY <1>4, <2>1 DEF LinesFrom
<1>6. CASE c # Len(script)
  <2>1. Len(script) \in (c + 1)..Len(script) /\ Len(unread) # 0 /\ ~(c + 1 > Len(script))
    BY <1>1, <1>3, <1>6
  <2>2. LineEnd(c + 1) = c + Min({Room, FirstOf(unread, 1, {Newline}), Len(unread)})
    BY <2>1, TakesLine
  <2>3. PICK n \in Nat : n = Len(unread) /\ n < Room /\ Room \in Nat
    <3>1. Len(unread) \in Nat /\ Room \in Nat
      BY <1>3, BuflenAssumption DEF Strings, Room
    <3>2. ~(Len(unread) >= Room)
      BY Zenon DEF HasLine
    <3> QED
      BY ONLY <3>1, <3>2
  <2>4. FirstOf(unread, 1, {Newline}) = n + 1
    <3>1. DOMAIN unread = 1..n
      BY <1>3, <2>3 DEF Strings
    <3>2. /\ FirstOf(unread, 1, {Newline}) \in 1..(n + 1)
          /\ FirstOf(unread, 1, {Newline}) \in DOMAIN unread =>
               unread[FirstOf(unread, 1, {Newline})] \in {Newline}
      <4>1. Len(unread) \in Nat /\ DOMAIN unread = 1..Len(unread) /\ 1 \in 1..(Len(unread) + 1)
        BY <2>3, <3>1
      <4> QED
        BY ONLY <2>3, <4>1, FirstOfFacts
    <3>3. \A k \in 1..n : unread[k] # Newline
      BY <3>1, Zenon DEF HasLine
    <3> QED
      BY ONLY <2>3, <3>1, <3>2, <3>3
  <2>5. Min({Room, n + 1, n}) = n
    <3>1. /\ Min({Room, n + 1, n}) \in {Room, n + 1, n}
          /\ Min({Room, n + 1, n}) <= n
      <4>1. Room \in Int /\ n + 1 \in Int /\ n \in Int
        BY ONLY <2>3
      <4> QED
        BY ONLY <4>1, MinOfThree
    <3> QED
      BY ONLY <2>3, <3>1
  <2>6. LineEnd(c + 1) = Len(script)
    <3>1. LineEnd(c + 1) = c + n
      BY ONLY <2>2, <2>3, <2>4, <2>5
    <3>2. c \in Int /\ n = Len(script) - c
      BY <1>3, <2>3
    <3> QED
      BY ONLY <1>1, <3>1, <3>2
  <2>7. LinesTable[Len(script) + 1] = <<>>
    <3>1. Len(script) + 1 \in 1..(Len(script) + 1) /\ Len(script) + 1 > Len(script)
      BY <1>1
    <3>2. LinesTable[Len(script) + 1] = LinesFrom(LinesTable, Len(script) + 1)
      BY <3>1, LinesUnfold
    <3> QED
      BY <3>1, <3>2 DEF LinesFrom
  <2>8. LinesTable[c + 1] = <<SubSeq(script, c + 1, Len(script))>> \o <<>>
    BY <1>4, <2>1, <2>6, <2>7 DEF LinesFrom
  <2> QED
    BY <2>1, <2>8
<1> QED
  BY <1>5, <1>6

LEMMA ReadLineLines == ASSUME LineInv, ReadLine PROVE LineInv'
<1>1. PICK data \in Strings, o \in offset..Len(script) : \E m \in 0..Len(data) : ReadsOn(data, m, o)
  BY ReadFacts
<1>2. PICK m \in 0..Len(data) : ReadsOn(data, m, o)
  BY <1>1
<1>20. /\ data = unread \o SubSeq(script, offset + 1, o)
       /\ HasLine(data) \/ eof \/ o = Len(script)
       /\ HasLine(unread) \/ eof => data = unread
       /\ batch /\ ~HasLine(unread) /\ ~eof => o = Len(script)
  BY ONLY <1>2, Zenon DEF ReadsOn
<1>21. m = Min({Room, FirstOf(data, 1, {Newline}), Len(data)})
  BY ONLY <1>2, Zenon DEF ReadsOn
<1>22. m = 0 <=> Len(data) = 0
  BY ONLY <1>2, Zenon DEF ReadsOn
<1>23. offset' = o /\ (eof' => eof \/ o = Len(script))
  BY ONLY <1>2, Zenon DEF ReadsOn
<1>24. unread' = SubSeq(data, m + 1, Len(data))
  BY ONLY <1>2, Zenon DEF ReadsOn
<1>25. \/ m = 0 /\ sh' = "eof" /\ ran' = ran
       \/ m > 0 /\ sh' # "eof" /\ ran' = Append(ran, SubSeq(data, 1, m))
  BY ONLY <1>2, Zenon DEF ReadsOn
<1>26. ran' = IF m = 0 THEN ran ELSE Append(ran, SubSeq(data, 1, m))
  BY <1>25
<1>3. UNCHANGED <<script, batch, failed>>
  BY DEF ReadLine
<1>4. /\ script \in Strings /\ unread \in Strings /\ ran \in Seq(Strings) /\ offset \in 0..Len(script)
      /\ Len(script) \in Nat /\ Len(unread) \in Nat /\ Len(data) \in Nat
  BY DEF LineInv, Strings
<1>5. unread' \in Strings
  <2>1. m + 1 \in 1..(Len(data) + 1) /\ Len(data) \in (m + 1 - 1)..Len(data)
    BY <1>4
  <2> QED
    BY <1>24, <2>1, Slice
<1>6. SubSeq(data, 1, m) \in Strings
  <2>1. 1 \in 1..(Len(data) + 1) /\ m \in (1 - 1)..Len(data)
    BY <1>4
  <2> QED
    BY <2>1, Slice
<1>7. ran' \in Seq(Strings)
  <2>1. Append(ran, SubSeq(data, 1, m)) \in Seq(Strings)
    BY <1>4, <1>6, AppendProperties
  <2> QED
    BY <1>4, <1>25, <2>1
<1>8. offset' = o /\ offset' \in 0..Len(script')
  BY <1>23, <1>3, <1>4
<1>9. ASSUME ~(batch /\ failed) PROVE Position'
  <2>1. Position
    BY <1>9 DEF LineInv
  <2>2. PICK c \in 0..offset : c = offset - Len(unread)
    <3>1. offset - Len(unread) \in 0..offset
      BY <1>4, <2>1 DEF Position
    <3> QED
      BY ONLY <3>1, Zenon
  <2>3. data = SubSeq(script, c + 1, o)
    <3>1. unread = SubSeq(script, c + 1, offset)
      BY <2>1, <2>2 DEF Position
    <3>2. c + 1 \in 1..(Len(script) + 1) /\ offset \in (c + 1 - 1)..Len(script) /\ o \in offset..Len(script)
      BY <1>4, <2>2
    <3>3. SubSeq(script, c + 1, offset) \o SubSeq(script, offset + 1, o) = SubSeq(script, c + 1, o)
      BY ONLY <1>4, <3>2, JoinSlices
    <3> QED
      BY ONLY <1>20, <3>1, <3>3, Zenon
  <2>4. HasLine(data) \/ o = Len(script)
    BY <1>20, <2>1 DEF Position
  <2>5. After(c)
    BY <2>1, <2>2 DEF Position
  <2>6. c \in 0..Len(script) /\ o \in c..Len(script)
    BY <1>4, <2>2
  <2>7. PICK d \in c..o : /\ d = c + m /\ Len(unread') = o - d
                          /\ unread' = SubSeq(script, d + 1, o)
                          /\ After(d)'
                          /\ m = 0 => c = o /\ o = Len(script)
    <3>1. Takes(data, m, c, o)
      BY <1>3, <1>21, <1>22, <1>24, <1>26, <2>3, <2>4, <2>5, Zenon DEF Takes
    <3> QED
      BY ONLY <1>2, <1>4, <2>6, <3>1, TakesNext
  <2>8. o - Len(unread') = d /\ Len(unread') <= o
    <3>1. d \in Int /\ o \in Int /\ d >= 0
      BY <2>6
    <3>2. Len(unread') = o - d
      BY <2>7
    <3> QED
      BY ONLY <3>1, <3>2
  <2>9. eof' => o = Len(script)
    BY <1>4, <1>23, <2>1 DEF Position
  <2>10. sh' = "eof" => o = Len(script) /\ Len(unread') = 0
    BY <1>25, <2>6, <2>7
  <2> QED
    BY <1>3, <1>8, <2>7, <2>8, <2>9, <2>10 DEF Position
<1>10. ASSUME batch PROVE Progress'
  <2>1. LinesTable' = LinesTable /\ ScriptLines' = ScriptLines
    BY ONLY <1>3 DEF ScriptLines, LinesTable, LinesFrom, LineEnd
  <2>2. ScriptLines \in Seq(Strings)
    <3>1. 1 \in 1..(Len(script) + 1)
      BY <1>4
    <3> QED
      BY <1>4, <3>1, LinesTyped, LinesUnfold
  <2>3. /\ Len(ran) \in Nat /\ Len(ScriptLines) \in Nat
        /\ DOMAIN ran = 1..Len(ran) /\ DOMAIN ran' = 1..Len(ran')
        /\ Len(ran') = Len(ran) + (IF m = 0 THEN 0 ELSE 1)
        /\ \A k \in 1..Len(ran) : ran'[k] = ran[k]
    BY <1>4, <1>6, <1>26, <2>2, AppendProperties
  \* The rest of the file is in what stdio has read.
  <2>4. ASSUME NEW c \in 0..Len(script), data = SubSeq(script, c + 1, Len(script)), After(c)
        PROVE  Progress'
    <3>1. Len(script) \in c..Len(script)
      BY <1>4
    <3>2. PICK d \in c..Len(script) : /\ d = c + m /\ Len(unread') = Len(script) - d
                                      /\ unread' = SubSeq(script, d + 1, Len(script))
                                      /\ After(d)'
                                      /\ m = 0 => c = Len(script) /\ Len(script) = Len(script)
      <4>1. Takes(data, m, c, Len(script))
        BY <1>3, <1>21, <1>22, <1>24, <1>26, <2>4, Zenon DEF Takes
      <4> QED
        BY ONLY <1>2, <1>4, <3>1, <4>1, TakesNext
    <3>3. d \in 0..Len(script)
      BY <1>4
    <3> QED
      BY <1>3, <3>2, <3>3 DEF Progress, Ahead
  \* What has been read up to the last line stays.
  <2>5. ASSUME \A k \in DOMAIN ran : k < Len(ScriptLines) => ran[k] = ScriptLines[k],
               Len(ScriptLines) <= Len(ran')
               , Len(ran') > Len(ran) => Len(ScriptLines) <= Len(ran) + 1
        PROVE  Progress'
    <3>1. ASSUME NEW k \in DOMAIN ran', k < Len(ScriptLines) PROVE ran'[k] = ScriptLines[k]
      <4>1. k \in 1..Len(ran)
        BY <2>3, <2>5, <3>1
      <4> QED
        BY <2>3, <2>5, <3>1, <4>1
    <3> QED
      BY <2>1, <2>5, <3>1 DEF Progress, Passed
  <2>6. CASE Nothing
    <3>1. ~HasLine(unread)
      <4>1. Room \in Nat /\ Room >= 1
        BY BuflenAssumption DEF Room
      <4>2. ~(Len(unread) >= Room)
        BY <2>6, <4>1 DEF Nothing
      <4> QED
        BY <2>6, <4>2 DEF HasLine, Nothing
    <3>2. o = Len(script)
      BY <1>10, <1>20, <2>6, <3>1 DEF Nothing
    <3>3. data = SubSeq(script, 0 + 1, Len(script))
      <4>1. SubSeq(script, 1, Len(script)) \in Seq(Chars)
        BY <1>4 DEF Strings
      <4> QED
        BY <1>20, <2>6, <3>2, <4>1, ConcatEmptySeq DEF Nothing
    <3>4. After(0)
      <4>1. 1 \in 1..(Len(script) + 1)
        BY <1>4
      <4>2. LinesTable[1] \in Seq(Strings) /\ ScriptLines = LinesTable[1]
        BY <1>4, <4>1, LinesTyped, LinesUnfold
      <4> QED
        BY <2>6, <4>2, ConcatEmptySeq DEF Nothing, After
    <3>5. 0 \in 0..Len(script)
      BY <1>4
    <3> QED
      BY <2>4, <3>3, <3>4, <3>5
  <2>7. ASSUME NEW c \in 0..Len(script), Ahead(c) PROVE Progress'
    <3>1. CASE HasLine(unread) \/ eof
      BY <1>20, <2>4, <2>7, <3>1 DEF Ahead
    <3>2. CASE ~(HasLine(unread) \/ eof)
      <4>1. PICK t \in Seq(Strings) : t = LinesTable[c + 1] /\ ran \o t = ScriptLines
        <5>1. c + 1 \in 1..(Len(script) + 1)
          BY <1>4
        <5> QED
          BY <1>4, <2>7, <5>1, LinesTyped DEF Ahead, After
      <4>2. Len(ScriptLines) = Len(ran) + Len(t) /\ \A k \in 1..Len(ran) : ScriptLines[k] = ran[k]
        BY <1>4, <4>1, ConcatProperties
      <4>3. Len(t) \in 0..(Len(ran') - Len(ran)) /\ Len(t) <= 1
        <5>1. unread = SubSeq(script, c + 1, Len(script)) /\ ~HasLine(unread)
          BY <2>7, <3>2 DEF Ahead
        <5>2. Len(t) = IF Len(unread) = 0 THEN 0 ELSE 1
          BY ONLY <1>4, <4>1, <5>1, LastLine
        <5>3. m = 0 => Len(unread) = 0
          <6>1. SubSeq(script, offset + 1, o) \in Strings
            <7>1. offset + 1 \in 1..(Len(script) + 1) /\ o \in (offset + 1 - 1)..Len(script)
              BY <1>4
            <7> QED
              BY <1>4, <7>1, Slice
          <6>2. Len(data) = Len(unread) + Len(SubSeq(script, offset + 1, o))
            BY <1>4, <1>20, <6>1, ConcatProperties DEF Strings
          <6>3. Len(SubSeq(script, offset + 1, o)) \in Nat
            BY <6>1 DEF Strings
          <6> QED
            BY <1>4, <1>22, <6>2, <6>3
        <5> QED
          BY ONLY <2>3, <5>2, <5>3
      <4>4. Len(t) \in Nat /\ Len(ran') \in Nat
        BY <2>3, <4>1
      <4>5. Len(ScriptLines) <= Len(ran') /\ Len(ScriptLines) <= Len(ran) + 1
        BY ONLY <2>3, <4>2, <4>3, <4>4
      <4> QED
        BY <2>3, <2>5, <4>2, <4>5
    <3> QED
      BY <3>1, <3>2
  <2>8. CASE Passed
    <3>1. Len(ScriptLines) <= Len(ran') /\ Len(ScriptLines) <= Len(ran) + 1
      BY <2>3, <2>8 DEF Passed
    <3> QED
      BY <2>5, <2>8, <3>1 DEF Passed
  <2>9. Progress
    BY <1>10 DEF LineInv
  <2> QED
    BY <2>6, <2>7, <2>8, <2>9 DEF Progress
<1>11. script' \in Strings
  BY <1>3, <1>4
<1>12. ~(batch' /\ failed') => Position'
  BY <1>3, <1>9, Zenon
<1>13. batch' => Progress'
  BY <1>3, <1>10, Zenon
<1> QED
  BY <1>5, <1>7, <1>8, <1>11, <1>12, <1>13 DEF LineInv

\* No other step reads, and only a child that cannot execute its command moves
\* the offset.
LEMMA OtherSteps ==
  ASSUME [Next]_vars, ~ReadLine
  PROVE  /\ UNCHANGED <<script, batch, unread, eof, ran>>
         /\ sh' = "eof" => sh = "eof"
         /\ \/ UNCHANGED <<offset, failed>>
            \/ \E c \in Children : offset' = offset - GivenBack(c) /\ failed' = (failed \/ c # "right")
<1>1. CASE UNCHANGED vars \/ Stopped
  BY <1>1 DEF Stopped, vars, input
<1>2. CASE ForkOnly \/ ForkOnlyFails \/ WaitOnly \/ MakePipe \/ PipeFails \/ CloseEnds
  BY <1>2 DEF ForkOnly, ForkOnlyFails, WaitOnly, MakePipe, PipeFails, CloseEnds, Go, input
<1>3. ASSUME NEW c \in Children, NEW from, NEW to \in {"fork2", "close", "wait2", "prompt"},
             Fork(c, from, to) \/ Wait(c, from, to)
      PROVE  UNCHANGED <<input, offset, failed>> /\ sh' # "eof"
  BY <1>3 DEF Fork, Wait, Go
<1>4. CASE ShellStep
  BY <1>2, <1>3, <1>4 DEF ShellStep, input, Children
<1>5. ASSUME NEW c \in Children, Starts(c)
      PROVE  /\ UNCHANGED <<script, batch, unread, eof, ran, sh>>
             /\ \/ UNCHANGED <<offset, failed>>
                \/ offset' = offset - GivenBack(c) /\ failed' = (failed \/ c # "right")
  <2>1. CASE Redirect(c) \/ Exec(c) \/ ExecCrashes(c)
    BY <2>1 DEF Redirect, Exec, ExecCrashes, input
  <2>2. CASE ExecFails(c)
    BY <2>2 DEF ExecFails, ExitOne, input
  <2> QED
    BY <1>5, <2>1, <2>2 DEF Starts
<1>6. CASE OnlyEnds \/ LeftWrites \/ LeftEnds \/ RightReads \/ RightSeesEnd \/ RightStops
  BY <1>6 DEF OnlyEnds, LeftWrites, LeftEnds, RightReads, RightSeesEnd, RightStops, input
<1> QED
  BY <1>1, <1>4, <1>5, <1>6 DEF Next, Only, Left, Right, Children

LEMMA OtherStepsLines == ASSUME LineInv, [Next]_vars, ~ReadLine PROVE LineInv'
<1>1. /\ UNCHANGED <<script, batch, unread, eof, ran>>
      /\ sh' = "eof" => sh = "eof"
  BY OtherSteps
<1>2. /\ script \in Strings /\ unread \in Strings /\ offset \in 0..Len(script)
      /\ Len(script) \in Nat /\ Len(unread) \in Nat
  BY DEF LineInv, Strings
<1>3. /\ offset' \in 0..offset /\ (Len(unread) = 0 => offset' = offset)
      /\ ~(batch /\ failed') => ~(batch /\ failed) /\ offset' = offset
  <2>1. ASSUME NEW c \in Children PROVE /\ GivenBack(c) \in 0..offset
                                        /\ Len(unread) = 0 => GivenBack(c) = 0
                                        /\ GivenBack(c) # 0 => batch /\ c # "right"
    BY <1>2 DEF GivenBack, GivenBackAny
  <2>2. ASSUME NEW c \in Children, offset' = offset - GivenBack(c), failed' = (failed \/ c # "right")
        PROVE  /\ offset' \in 0..offset /\ (Len(unread) = 0 => offset' = offset)
               /\ ~(batch /\ failed') => ~(batch /\ failed) /\ offset' = offset
    <3>1. PICK g \in 0..offset : g = GivenBack(c)
      BY <2>1
    <3>2. offset' = offset - g /\ (Len(unread) = 0 => g = 0) /\ (g # 0 => batch /\ c # "right")
      BY <2>1, <2>2, <3>1
    <3>3. offset' \in 0..offset /\ (g = 0 => offset' = offset)
      BY <1>2, <3>2
    <3>4. ~(batch /\ failed') => ~(batch /\ failed) /\ g = 0
      BY <2>2, <3>2, Zenon
    <3> QED
      BY <3>2, <3>3, <3>4
  <2>3. CASE UNCHANGED <<offset, failed>>
    BY <1>2, <2>3
  <2> QED
    BY <2>2, <2>3, OtherSteps
<1>4. offset' \in 0..Len(script)
  BY <1>2, <1>3
<1>5. LinesTable' = LinesTable /\ ScriptLines' = ScriptLines
  BY ONLY <1>1 DEF ScriptLines, LinesTable, LinesFrom, LineEnd
<1>6. ~(batch' /\ failed') => Position'
  <2> SUFFICES ASSUME ~(batch' /\ failed') PROVE Position'
    OBVIOUS
  <2>1. ~(batch /\ failed) /\ offset' = offset
    <3>1. ~(batch /\ failed')
      BY <1>1
    <3> QED
      BY <1>3, <3>1, Zenon
  <2>2. Position
    BY <2>1 DEF LineInv
  <2> QED
    BY <1>1, <1>5, <2>1, <2>2 DEF Position, After
<1>7. batch' => Progress'
  <2> SUFFICES ASSUME batch PROVE Progress'
    BY <1>1
  <2>1. CASE Nothing
    <3>1. Len(unread) = 0
      BY <2>1 DEF Nothing
    <3>2. offset' = offset
      BY <1>3, <3>1
    <3> QED
      BY <1>1, <2>1, <3>2 DEF Nothing, Progress
  <2>2. ASSUME NEW c \in 0..Len(script), Ahead(c) PROVE Progress'
    BY <1>1, <1>5, <2>2 DEF Progress, Ahead, After
  <2>3. CASE Passed
    BY <1>1, <1>5, <2>3 DEF Progress, Passed
  <2> QED
    BY <2>1, <2>2, <2>3 DEF LineInv, Progress
<1>8. script' \in Strings /\ unread' \in Strings /\ ran' \in Seq(Strings) /\ offset' \in 0..Len(script')
  BY <1>1, <1>4 DEF LineInv
<1> QED
  BY <1>6, <1>7, <1>8 DEF LineInv

LEMMA InitLines == Init => LineInv
<1> SUFFICES ASSUME Init PROVE LineInv
  OBVIOUS
<1>1. script \in Strings /\ Len(script) \in Nat
  <2>1. script \in Seq(STRING)
    BY ScriptsAssumption DEF Init
  <2>2. script \in Seq(Chars)
    BY <2>1 DEF Chars
  <2> QED
    BY <2>2 DEF Strings
<1>2. unread = <<>> /\ ran = <<>> /\ offset = 0 /\ eof = FALSE /\ failed = FALSE /\ sh = "prompt"
  BY DEF Init
<1>3. unread \in Strings /\ ran \in Seq(Strings)
  BY <1>2 DEF Strings
<1>4. Position
  <2>1. offset - Len(unread) + 1 = 1 /\ offset - Len(unread) = 0
    <3>1. Len(unread) = 0 /\ offset = 0
      BY <1>2
    <3> QED
      BY ONLY <3>1
  <2>2. After(0)
    <3>1. 1 \in 1..(Len(script) + 1)
      BY <1>1
    <3>2. LinesTable[1] \in Seq(Strings) /\ ScriptLines = LinesTable[1]
      BY <1>1, <3>1, LinesTyped, LinesUnfold
    <3> QED
      BY <1>2, <3>2, ConcatEmptySeq DEF After
  <2>3. unread = SubSeq(script, 1, offset)
    BY <1>1, <1>2 DEF Strings
  <2>4. Len(unread) <= offset
    BY <1>2
  <2> QED
    BY <1>2, <2>1, <2>2, <2>3, <2>4 DEF Position
<1>5. Progress
  BY <1>2 DEF Progress, Nothing
<1> QED
  BY <1>1, <1>2, <1>3, <1>4, <1>5 DEF LineInv

LEMMA InductiveLines == Spec => []LineInv
<1>1. LineInv /\ [Next]_vars => LineInv'
  BY ReadLineLines, OtherStepsLines
<1> QED
  BY InitLines, <1>1, PTL DEF Spec

\* The lines read are those of the script, each once and in order, whatever the
\* children do: fgets never splits a line that fits the buffer, nor joins two,
\* and a right command that cannot be executed moves nothing.  Only of a shell
\* that runs a file, once another child could not execute its command, is no more
\* said than that it reads all lines but the last one in order before others
\* follow.
THEOREM EveryLineOnce == Spec => []LinesInOrder
<1>1. LineInv => LinesInOrder
  <2> SUFFICES ASSUME LineInv PROVE LinesInOrder
    OBVIOUS
  <2>1. /\ script \in Strings /\ unread \in Strings /\ ran \in Seq(Strings)
        /\ offset \in 0..Len(script) /\ Len(script) \in Nat /\ Len(unread) \in Nat
    BY DEF LineInv, Strings
  <2>2. ASSUME NEW c \in 0..Len(script), After(c)
        PROVE  /\ Len(ran) <= Len(ScriptLines) /\ ran = SubSeq(ScriptLines, 1, Len(ran))
               /\ \A k \in DOMAIN ran : ran[k] = ScriptLines[k]
               /\ c = Len(script) => ran = ScriptLines
    <3>1. PICK i \in 1..(Len(script) + 1) : i = c + 1
      BY <2>1
    <3>2. PICK t \in Seq(Strings) : t = LinesTable[i] /\ ran \o t = ScriptLines
      BY <2>1, <2>2, <3>1, LinesTyped DEF After
    <3>3. Len(ran) <= Len(ScriptLines) /\ \A k \in DOMAIN ran : ran[k] = ScriptLines[k]
      <4>1. ran \in Seq(Strings) /\ t \in Seq(Strings)
        BY <2>1
      <4>2. Len(ran \o t) = Len(ran) + Len(t) /\ \A k \in 1..Len(ran) : (ran \o t)[k] = ran[k]
        BY ONLY <4>1, ConcatProperties
      <4>3. Len(ran) \in Nat /\ Len(t) \in Nat /\ DOMAIN ran = 1..Len(ran)
        BY ONLY <4>1
      <4> QED
        BY ONLY <3>2, <4>2, <4>3
    <3>4. ran = SubSeq(ScriptLines, 1, Len(ran))
      <4>1. CASE ran = <<>>
        BY <4>1, SubSeqEmpty
      <4>2. CASE ran # <<>>
        <5>1. 1 \in 1..Len(ran) /\ Len(ran) \in 1..Len(ran)
          BY <2>1, <4>2
        <5> QED
          BY <2>1, <3>2, <5>1, SubSeqOfConcat1, SubSeqFull
      <4> QED
        BY <4>1, <4>2
    <3>5. ASSUME c = Len(script) PROVE ran = ScriptLines
      <4>1. t = <<>>
        <5>1. i > Len(script) /\ LinesTable[i] = LinesFrom(LinesTable, i)
          BY <2>1, <3>1, <3>5, LinesUnfold
        <5> QED
          BY <3>2, <5>1 DEF LinesFrom
      <4> QED
        BY <2>1, <3>2, <4>1, ConcatEmptySeq
    <3> QED
      BY <3>3, <3>4, <3>5
  <2>3. ASSUME ~(batch /\ failed)
        PROVE  /\ Len(ran) <= Len(ScriptLines) /\ ran = SubSeq(ScriptLines, 1, Len(ran))
               /\ sh = "eof" => ran = ScriptLines
               /\ \A k \in DOMAIN ran : ran[k] = ScriptLines[k]
    <3>1. Position
      BY <2>3 DEF LineInv
    <3>2. PICK c \in 0..Len(script) : c = offset - Len(unread)
      <4>1. offset - Len(unread) \in 0..Len(script)
        BY <2>1, <3>1 DEF Position
      <4> QED
        BY ONLY <4>1, Zenon
    <3>3. After(c) /\ (sh = "eof" => c = Len(script))
      BY <2>1, <3>1, <3>2 DEF Position
    <3> QED
      BY <2>2, <3>3
  <2>4. ASSUME batch, NEW k \in DOMAIN ran, k < Len(ScriptLines) PROVE ran[k] = ScriptLines[k]
    <3>1. CASE Nothing
      BY <3>1 DEF Nothing
    <3>2. ASSUME NEW c \in 0..Len(script), Ahead(c) PROVE ran[k] = ScriptLines[k]
      BY <2>2, <3>2 DEF Ahead
    <3>3. CASE Passed
      BY <2>4, <3>3 DEF Passed
    <3> QED
      BY <2>4, <3>1, <3>2, <3>3 DEF LineInv, Progress
  <2> QED
    BY <2>3, <2>4, Zenon DEF LinesInOrder
<1> QED
  BY InductiveLines, <1>1, PTL

-----------------------------------------------------------------------------
(* The buffer, and what is on its way. *)

Places == {"prompt", "fork", "wait", "pipe", "fork1", "fork2", "close", "wait1", "wait2"} \union Over

\* A line leaves room for its Nul in the buffer, and what a left command that
\* cannot be executed adds to the pipe it adds to an empty one.
SizeInv ==
  /\ buffer \in Strings /\ Len(buffer) = BUFLEN /\ Len(line) = BUFLEN
  /\ \A k \in DOMAIN ran : Len(ran[k]) < BUFLEN
  /\ Len(pipe) <= PIPE_SIZE /\ todo <= MAX_OUTPUT

FlagInv == eof \in BOOLEAN /\ failed \in BOOLEAN /\ sh \in Places

LEMMA BufferFilled ==
  ASSUME NEW got \in Strings, NEW old \in Strings, Len(old) = BUFLEN, Len(got) < BUFLEN
  PROVE  LET new == got \o <<Nul>> \o SubSeq(old, Len(got) + 2, BUFLEN)
         IN new \in Strings /\ Len(new) = BUFLEN
<1>1. PICK m \in Nat : m = Len(got)
  BY DEF Strings
<1>9. Nul \in Chars
  BY DEF Chars
<1>10. BUFLEN \in Nat
  BY BuflenAssumption
<1>2. m + 2 \in 1..(BUFLEN + 1)
  BY <1>1, <1>10
<1>3. PICK a \in 1..(BUFLEN + 1) : a = m + 2
  BY <1>2
<1> DEFINE tail == SubSeq(old, a, BUFLEN)
<1>4. /\ tail \in Strings /\ Len(tail) = BUFLEN - m - 1
      /\ \A k \in 1..(BUFLEN - m - 1) : tail[k] = old[m + 1 + k]
  <2>1. a \in 1..(Len(old) + 1) /\ BUFLEN \in (a - 1)..Len(old)
    BY <1>2, <1>3
  <2>2. /\ tail \in Strings /\ Len(tail) = BUFLEN - a + 1
        /\ \A k \in 1..(BUFLEN - a + 1) : tail[k] = old[a + k - 1]
    BY <2>1, Slice
  <2>3. BUFLEN - a + 1 = BUFLEN - m - 1 /\ \A k \in 1..(BUFLEN - m - 1) : a + k - 1 = m + 1 + k
    BY <1>2, <1>3
  <2> HIDE DEF tail
  <2> QED
    BY <2>2, <2>3
<1> DEFINE head == got \o <<Nul>>
<1>5. head \in Strings /\ Len(head) = m + 1 /\ head[m + 1] = Nul
  <2>1. <<Nul>> \in Strings /\ Len(<<Nul>>) = 1 /\ <<Nul>>[1] = Nul
    <3>1. Len(<<Nul>>) = 1 /\ <<Nul>>[1] = Nul
      OBVIOUS
    <3> QED
      BY <1>9, <3>1 DEF Strings
  <2>2. m + 1 = Len(got) + 1
    BY <1>1
  <2> QED
    BY <1>1, <2>1, <2>2, ConcatProperties DEF Strings
<1> HIDE DEF tail, head
<1>6. head \o tail \in Strings /\ Len(head \o tail) = BUFLEN
  <2>1. Len(head \o tail) = Len(head) + Len(tail) /\ head \o tail \in Strings
    BY <1>4, <1>5, ConcatProperties DEF Strings
  <2> QED
    BY <1>1, <1>4, <1>5, <1>10, <2>1
<1>8. head \o tail = got \o <<Nul>> \o SubSeq(old, Len(got) + 2, BUFLEN)
  BY <1>1, <1>3 DEF head, tail
<1> QED
  BY <1>6, <1>8

LEMMA LineTrimmed ==
  ASSUME NEW mem \in Strings, NEW j
  PROVE  /\ Len(TrimString(mem)) = Len(mem)
         /\ Len([TrimString(mem) EXCEPT ![j] = Nul]) = Len(mem)
<1>1. Len(mem) \in Nat
  BY DEF Strings
<1>2. TrimString(mem) = [k \in 1..Len(mem) |-> TrimString(mem)[k]]
  BY DEF TrimString
<1>3. [TrimString(mem) EXCEPT ![j] = Nul] =
        [k \in 1..Len(mem) |-> [TrimString(mem) EXCEPT ![j] = Nul][k]]
  BY <1>2
<1>4. \A f : f = [k \in 1..Len(mem) |-> f[k]] => Len(f) = Len(mem)
  BY <1>1
<1> QED
  BY <1>2, <1>3, <1>4

LEMMA ReadLineSizes ==
  ASSUME LineInv, SizeInv, ReadLine
  PROVE  /\ buffer' \in Strings /\ Len(buffer') = BUFLEN /\ Len(line') = BUFLEN
         /\ \A k \in DOMAIN ran' : Len(ran'[k]) < BUFLEN
<1>1. PICK data \in Strings, o \in offset..Len(script) : \E m \in 0..Len(data) : ReadsOn(data, m, o)
  BY ReadFacts
<1>2. PICK m \in 0..Len(data) : ReadsOn(data, m, o)
  BY <1>1
<1>3. /\ m = 0 => UNCHANGED <<buffer, line>>
      /\ m > 0 => buffer' = SubSeq(data, 1, m) \o <<Nul>> \o SubSeq(buffer, m + 2, BUFLEN)
  BY ONLY <1>2, Zenon DEF ReadsOn
<1>4. m > 0 => line' = IF right' > 0 THEN [TrimString(buffer') EXCEPT ![right'] = Nul]
                                     ELSE TrimString(buffer')
  BY ONLY <1>2, Zenon DEF ReadsOn
<1>5. m <= Room
  BY ONLY <1>2, Zenon DEF ReadsOn
<1>9. \/ m = 0 /\ ran' = ran
      \/ m > 0 /\ ran' = Append(ran, SubSeq(data, 1, m))
  BY ONLY <1>2, Zenon DEF ReadsOn
<1>6. /\ buffer \in Strings /\ Len(buffer) = BUFLEN /\ Len(line) = BUFLEN
      /\ \A k \in DOMAIN ran : Len(ran[k]) < BUFLEN
      /\ ran \in Seq(Strings)
  BY DEF SizeInv, LineInv
<1>7. CASE m = 0
  BY <1>3, <1>6, <1>7, <1>9
<1>8. CASE m > 0
  <2> DEFINE got == SubSeq(data, 1, m)
  <2>1. got \in Strings /\ Len(got) = m
    <3>1. 1 \in 1..(Len(data) + 1) /\ m \in (1 - 1)..Len(data) /\ m - 1 + 1 = m
      BY DEF Strings
    <3> QED
      BY <3>1, Slice
  <2>2. buffer' = got \o <<Nul>> \o SubSeq(buffer, Len(got) + 2, BUFLEN)
    <3>1. buffer' = got \o <<Nul>> \o SubSeq(buffer, m + 2, BUFLEN)
      BY <1>3, <1>8
    <3> HIDE DEF got
    <3> QED
      BY <2>1, <3>1
  <2>3. m < BUFLEN
    BY <1>5, BuflenAssumption DEF Room
  <2>4. buffer' \in Strings /\ Len(buffer') = BUFLEN
    <3> HIDE DEF got
    <3> QED
      BY <1>6, <2>1, <2>2, <2>3, BufferFilled
  <2>5. Len(line') = BUFLEN
    <3>1. PICK mem \in Strings : mem = buffer'
      BY <2>4
    <3>2. \A j : Len(TrimString(mem)) = BUFLEN /\ Len([TrimString(mem) EXCEPT ![j] = Nul]) = BUFLEN
      BY <2>4, <3>1, LineTrimmed
    <3>3. line' = (IF right' > 0 THEN [TrimString(mem) EXCEPT ![right'] = Nul] ELSE TrimString(mem))
      BY <1>4, <1>8, <3>1
    <3> QED
      BY <3>2, <3>3
  <2>6. \A k \in DOMAIN ran' : Len(ran'[k]) < BUFLEN
    <3>1. ran' = Append(ran, got)
      BY <1>8, <1>9
    <3> HIDE DEF got
    <3>2. DOMAIN ran = 1..Len(ran) /\ DOMAIN ran' = 1..(Len(ran) + 1) /\ Len(ran) \in Nat
      BY <1>6, <2>1, <3>1, AppendProperties
    <3>3. /\ \A k \in 1..Len(ran) : ran'[k] = ran[k]
          /\ ran'[Len(ran) + 1] = got
      BY <1>6, <2>1, <3>1, AppendProperties
    <3>4. \A k \in 1..(Len(ran) + 1) : k \in 1..Len(ran) \/ k = Len(ran) + 1
      BY <3>2
    <3> QED
      BY <1>6, <2>1, <2>3, <3>2, <3>3, <3>4
  <2> QED
    BY <2>4, <2>5, <2>6
<1> QED
  BY <1>7, <1>8

\* What the steps do to the buffer, the pipe and what is still to be written.
LEMMA OtherStepsSizes ==
  ASSUME IInv, SizeInv, [Next]_vars, ~ReadLine PROVE SizeInv'
<1>1. /\ buffer \in Strings /\ Len(buffer) = BUFLEN /\ Len(line) = BUFLEN
      /\ Len(pipe) <= PIPE_SIZE /\ todo <= MAX_OUTPUT
      /\ \A k \in DOMAIN ran' : Len(ran'[k]) < BUFLEN
  BY OtherSteps DEF SizeInv
<1>2. todo \in Nat /\ pipe \in Seq(Items) /\ Len(pipe) \in Nat
  BY DEF IInv, Shapes
<1>3. UNCHANGED <<buffer, line>> /\ UNCHANGED <<pipe, todo>> => SizeInv'
  BY <1>1 DEF SizeInv
<1>4. CASE UNCHANGED vars \/ Stopped
  BY <1>3, <1>4 DEF Stopped, vars, input, flow
<1>5. CASE ForkOnly \/ ForkOnlyFails \/ WaitOnly \/ PipeFails \/ CloseEnds
  BY <1>3, <1>5 DEF ForkOnly, ForkOnlyFails, WaitOnly, PipeFails, CloseEnds, input, flow
<1>6. ASSUME NEW c, NEW from, NEW to, Fork(c, from, to) \/ Wait(c, from, to) PROVE SizeInv'
  <2>1. UNCHANGED <<input, flow>>
    BY <1>6 DEF Fork, Wait
  <2> QED
    BY <1>3, <2>1 DEF input, flow
<1>7. CASE MakePipe
  <2>1. UNCHANGED <<buffer, line>> /\ pipe' = <<>> /\ todo' = 0
    BY <1>7 DEF MakePipe, input
  <2> QED
    BY <1>1, <2>1, PipeSizeAssumption, MaxOutputAssumption DEF SizeInv
<1>8. CASE ShellStep
  BY <1>5, <1>6, <1>7, <1>8 DEF ShellStep
<1>9. ASSUME NEW c \in Children, Starts(c) PROVE SizeInv'
  <2>1. CASE Redirect(c) \/ ExecCrashes(c)
    BY <1>3, <2>1 DEF Redirect, ExecCrashes, input, flow
  <2>2. CASE Exec(c)
    <3>1. /\ UNCHANGED <<buffer, line, pipe>>
          /\ IF c = "left" THEN todo' \in 0..MAX_OUTPUT ELSE UNCHANGED todo
      BY <2>2 DEF Exec, input
    <3>2. todo' <= MAX_OUTPUT
      BY <1>1, <3>1, MaxOutputAssumption
    <3> QED
      BY <1>1, <3>1, <3>2 DEF SizeInv
  <2>3. CASE ExecFails(c)
    <3>1. UNCHANGED <<buffer, line, todo>>
      BY <2>3 DEF ExecFails, ExitOne, input
    <3>2. pipe' = pipe \/ pipe' = <<Prompt>>
      BY <2>3, FailedFlow
    <3>3. Len(pipe') <= PIPE_SIZE
      <4>1. Len(<<Prompt>>) = 1
        OBVIOUS
      <4>2. CASE pipe' = pipe
        BY <1>1, <4>2
      <4>3. CASE pipe' = <<Prompt>>
        <5>1. Len(pipe') = 1
          BY ONLY <4>1, <4>3
        <5> QED
          BY ONLY <5>1, PipeSizeAssumption
      <4> QED
        BY <3>2, <4>2, <4>3
    <3> QED
      BY <1>1, <3>1, <3>3 DEF SizeInv
  <2> QED
    BY <1>9, <2>1, <2>2, <2>3 DEF Starts
<1>10. CASE OnlyEnds \/ LeftEnds \/ RightSeesEnd \/ RightStops
  BY <1>3, <1>10 DEF OnlyEnds, LeftEnds, RightSeesEnd, RightStops, input, flow
<1>11. CASE LeftWrites
  <2>1. /\ UNCHANGED <<buffer, line>> /\ todo > 0 /\ todo' = todo - 1
        /\ pipe' = Append(pipe, todo) /\ Len(pipe) < PIPE_SIZE
    BY <1>11 DEF LeftWrites, input, IInv, EndsInv, Alive
  <2>2. Len(pipe') <= PIPE_SIZE /\ todo' <= MAX_OUTPUT
    <3>1. Len(pipe') = Len(pipe) + 1
      BY <1>2, <2>1 DEF Items
    <3> QED
      BY <1>1, <1>2, <2>1, <3>1, PipeSizeAssumption, MaxOutputAssumption
  <2> QED
    BY <1>1, <2>1, <2>2 DEF SizeInv
<1>12. CASE RightReads
  <2>1. UNCHANGED <<buffer, line, todo>> /\ pipe # <<>> /\ pipe' = Tail(pipe)
    BY <1>12 DEF RightReads, input
  <2>2. Len(pipe') = Len(pipe) - 1
    BY <1>2, <2>1
  <2>3. Len(pipe') <= PIPE_SIZE
    BY <1>1, <1>2, <2>2, PipeSizeAssumption
  <2> QED
    BY <1>1, <2>1, <2>3 DEF SizeInv
<1> QED
  BY <1>4, <1>8, <1>9, <1>10, <1>11, <1>12 DEF Next, Only, Left, Right, Children

LEMMA FlagsKept == ASSUME IInv, LineInv, FlagInv, [Next]_vars PROVE FlagInv'
<1>1. eof \in BOOLEAN /\ failed \in BOOLEAN /\ sh \in Places
  BY DEF FlagInv
<1>2. CASE ReadLine
  <2>1. eof' \in BOOLEAN
    BY <1>2, Zenon DEF ReadLine
  <2>2. failed' = failed /\ sh' \in {"eof", "quit", "pipe", "fork"}
    BY <1>2 DEF ReadLine
  <2> QED
    BY <1>1, <2>1, <2>2 DEF FlagInv, Places, Over
<1>3. CASE ~ReadLine
  <2>1. eof' \in BOOLEAN /\ failed' \in BOOLEAN
    BY <1>1, <1>3, OtherSteps
  <2>2. sh' \in Places
    <3>1. CASE UNCHANGED sh
      BY <1>1, <3>1
    <3>2. CASE ShellStep
      BY <1>3, <3>2 DEF ShellStep, ForkOnly, ForkOnlyFails, WaitOnly, MakePipe, PipeFails, Fork, CloseEnds,
                        Wait, Go, Places, Over
    <3>3. CASE Only \/ Left \/ Right \/ RightStops \/ Stopped \/ UNCHANGED vars
      BY <1>1, <3>3 DEF Only, Left, Right, RightStops, Stopped, Starts, Redirect, Exec, ExecFails, ExecCrashes,
                        OnlyEnds, LeftWrites, LeftEnds, RightReads, RightSeesEnd, vars
    <3> QED
      BY <3>1, <3>2, <3>3 DEF Next
  <2> QED
    BY <2>1, <2>2 DEF FlagInv
<1> QED
  BY <1>2, <1>3

LEMMA InductiveSizes == Spec => [](SizeInv /\ FlagInv)
<1>1. Init => SizeInv /\ FlagInv
  <2> SUFFICES ASSUME Init PROVE SizeInv /\ FlagInv
    OBVIOUS
  <2>1. buffer \in [1..BUFLEN -> STRING] /\ line = buffer /\ BUFLEN \in Nat
    BY StacksAssumption, BuflenAssumption DEF Init
  <2>2. buffer \in [1..BUFLEN -> Chars]
    BY <2>1 DEF Chars
  <2>3. buffer \in Strings /\ Len(buffer) = BUFLEN /\ Len(line) = BUFLEN
    BY <2>1, <2>2 DEF Strings
  <2>6. ran = <<>>
    BY DEF Init
  <2>4. Len(pipe) <= PIPE_SIZE /\ todo <= MAX_OUTPUT
    BY PipeSizeAssumption, MaxOutputAssumption DEF Init
  <2>5. FlagInv
    BY DEF Init, FlagInv, Places
  <2> QED
    BY <2>3, <2>4, <2>5, <2>6 DEF SizeInv
<1>2. IInv /\ LineInv /\ SizeInv /\ FlagInv /\ [Next]_vars => SizeInv' /\ FlagInv'
  <2> SUFFICES ASSUME IInv, LineInv, SizeInv, FlagInv, [Next]_vars PROVE SizeInv' /\ FlagInv'
    OBVIOUS
  <2>1. CASE ReadLine
    <3>1. UNCHANGED <<pipe, todo>>
      BY <2>1 DEF ReadLine, flow
    <3>2. /\ buffer' \in Strings /\ Len(buffer') = BUFLEN /\ Len(line') = BUFLEN
          /\ \A k \in DOMAIN ran' : Len(ran'[k]) < BUFLEN
      BY <2>1, ReadLineSizes
    <3>3. SizeInv'
      BY <3>1, <3>2 DEF SizeInv
    <3> QED
      BY <3>3, FlagsKept
  <2>2. CASE ~ReadLine
    BY <2>2, OtherStepsSizes, FlagsKept
  <2> QED
    BY <2>1, <2>2
<1> QED
  BY <1>1, <1>2, Inductive, InductiveLines, PTL DEF Spec

\* Every variable has its type; a line fits the buffer with its Nul, the pipe is
\* never overfull, and a child that is not there, or has exited, holds no end.
THEOREM TypeCorrect == Spec => []TypeOK
<1>1. IInv /\ LineInv /\ SizeInv /\ FlagInv => TypeOK
  <2> SUFFICES ASSUME IInv, LineInv, SizeInv, FlagInv PROVE TypeOK
    OBVIOUS
  <2>1. offset \in 0..Len(script)
    BY DEF LineInv
  <2>2. eof \in BOOLEAN /\ failed \in BOOLEAN
    BY DEF FlagInv
  <2>3. sh \in {"prompt", "fork", "wait", "pipe", "fork1", "fork2", "close", "wait1", "wait2"} \union Over
    BY DEF FlagInv, Places
  <2>4. /\ Len(buffer) = BUFLEN /\ Len(line) = BUFLEN /\ Len(pipe) <= PIPE_SIZE
        /\ \A k \in DOMAIN ran : Len(ran[k]) < BUFLEN
    BY DEF SizeInv
  <2>5. /\ proc \in [Children -> {"none", "forked", "redirected", "running", "exited"}]
        /\ \A e \in ends : e[1] = "shell" \/ proc[e[1]] \notin {"none", "exited"}
    <3>1. \A e \in ends : e[1] = "shell" \/ proc[e[1]] \in Alive
      BY DEF IInv, EndsInv
    <3> QED
      BY <3>1 DEF IInv, Shapes, Alive
  <2>6. todo \in 0..MAX_OUTPUT
    BY MaxOutputAssumption DEF SizeInv, IInv, Shapes
  <2> QED
    BY <2>1, <2>2, <2>3, <2>4, <2>5, <2>6 DEF TypeOK
<1> QED
  BY Inductive, InductiveLines, InductiveSizes, <1>1, PTL

-----------------------------------------------------------------------------
(* The walk of parse_args. *)

\* There is one place that strchr, or a loop over the blanks, stops at.
LEMMA FirstOfIs ==
  ASSUME NEW mem \in Strings, NEW i \in 1..(Len(mem) + 1), NEW chars,
         NEW j \in i..(Len(mem) + 1), j <= Len(mem) => mem[j] \in chars,
         \A k \in i..(j - 1) : mem[k] \notin chars
  PROVE  FirstOf(mem, i, chars) = j
<1>1. Len(mem) \in Nat /\ DOMAIN mem = 1..Len(mem)
  BY DEF Strings
<1>2. PICK f \in i..(Len(mem) + 1) : f = FirstOf(mem, i, chars)
  BY <1>1, FirstOfFacts
<1>3. (f <= Len(mem) => mem[f] \in chars) /\ \A k \in i..(f - 1) : mem[k] \notin chars
  BY <1>1, <1>2, FirstOfFacts
<1>4. ~(f < j) /\ ~(j < f)
  BY <1>1, <1>3
<1> QED
  BY <1>1, <1>2, <1>4

LEMMA SkipOverIs ==
  ASSUME NEW mem \in Strings, NEW i \in 1..(Len(mem) + 1), NEW chars,
         NEW j \in i..(Len(mem) + 1), At(mem, j) \notin chars,
         \A k \in i..(j - 1) : mem[k] \in chars
  PROVE  SkipOver(mem, i, chars) = j
<1>1. Len(mem) \in Nat /\ DOMAIN mem = 1..Len(mem)
  BY DEF Strings
<1>2. \A f \in i..(Len(mem) + 1) :
        At(mem, f) \notin chars /\ (\A k \in i..(f - 1) : mem[k] \in chars) => f = j
  <2> SUFFICES ASSUME NEW f \in i..(Len(mem) + 1), At(mem, f) \notin chars,
                      \A k \in i..(f - 1) : mem[k] \in chars
               PROVE  f = j
    OBVIOUS
  <2>1. f < j => f \in i..(j - 1) /\ At(mem, f) = mem[f]
    BY <1>1 DEF At
  <2>2. j < f => j \in i..(f - 1) /\ At(mem, j) = mem[j]
    BY <1>1 DEF At
  <2> QED
    BY <1>1, <2>1, <2>2
<1> QED
  BY <1>2 DEF SkipOver

LEMMA SkipOverFacts ==
  ASSUME NEW mem \in Strings, NEW i \in 1..(Len(mem) + 1), NEW chars, Nul \notin chars
  PROVE  /\ SkipOver(mem, i, chars) \in i..(Len(mem) + 1)
         /\ At(mem, SkipOver(mem, i, chars)) \notin chars
         /\ \A k \in i..(SkipOver(mem, i, chars) - 1) : mem[k] \in chars
<1>1. Len(mem) \in Nat /\ DOMAIN mem = 1..Len(mem)
  BY DEF Strings
<1> DEFINE T == {j \in i..(Len(mem) + 1) : At(mem, j) \notin chars}
<1>2. T \in SUBSET Nat /\ Len(mem) + 1 \in T
  BY <1>1 DEF At
<1>3. PICK j \in T : \A k \in T : j <= k
  BY <1>2, LeastNat
<1>4. \A k \in i..(j - 1) : mem[k] \in chars
  <2> SUFFICES ASSUME NEW k \in i..(j - 1), mem[k] \notin chars PROVE FALSE
    OBVIOUS
  <2>1. k \in T
    BY <1>1, <1>3 DEF At
  <2> QED
    BY <1>1, <1>3, <2>1
<1>5. j \in i..(Len(mem) + 1) /\ At(mem, j) \notin chars
  BY <1>3
<1>6. SkipOver(mem, i, chars) = j
  BY <1>4, <1>5, SkipOverIs
<1> QED
  BY <1>4, <1>5, <1>6

\* Where the argument begins that the walk comes to at place i, and where it ends.
ArgFirst(mem, i) ==
  IF At(mem, SkipOver(mem, i, Blanks)) = Quote THEN SkipOver(mem, i, Blanks) + 1
  ELSE SkipOver(mem, i, Blanks)
ArgEnd(mem, i) ==
  FirstOf(mem, ArgFirst(mem, i),
          IF At(mem, SkipOver(mem, i, Blanks)) = Quote THEN {Quote, Nul} ELSE Blanks \union {Nul})

LEMMA ArgFacts ==
  ASSUME NEW mem \in Strings, NEW i \in 1..(Len(mem) + 1)
  PROVE  /\ ArgFirst(mem, i) \in i..(Len(mem) + 1)
         /\ ArgEnd(mem, i) \in i..(Len(mem) + 1)
         /\ SubSeq(mem, ArgFirst(mem, i), ArgEnd(mem, i) - 1) \in Strings
<1>1. Len(mem) \in Nat /\ DOMAIN mem = 1..Len(mem)
  BY DEF Strings
<1>2. Nul \notin Blanks /\ Nul # Quote
  BY DEF Nul, Blanks, Space, Tab, Newline, Quote
<1>3. PICK w \in i..(Len(mem) + 1) : w = SkipOver(mem, i, Blanks)
  BY <1>2, SkipOverFacts
<1>4. At(mem, w) = Quote => w <= Len(mem)
  BY <1>1, <1>2 DEF At
<1>5. PICK a \in i..(Len(mem) + 1) : a = ArgFirst(mem, i)
  BY <1>1, <1>3, <1>4 DEF ArgFirst
<1>6. PICK e \in a..(Len(mem) + 1) : e = ArgEnd(mem, i)
  BY <1>1, <1>5, FirstOfFacts DEF ArgEnd
<1>7. SubSeq(mem, a, e - 1) \in Strings
  BY <1>1, <1>5, <1>6 DEF Strings
<1> QED
  BY <1>1, <1>5, <1>6, <1>7

\* The arguments from place i on, if f has those from later places on.
ArgsFrom(f, mem, i) ==
  [argc \in 0..MAX_ARGS |->
     IF At(mem, i) = Nul \/ argc >= MaxArgs THEN <<>>
     ELSE <<SubSeq(mem, ArgFirst(mem, i), ArgEnd(mem, i) - 1)>> \o f[ArgEnd(mem, i) + 1][argc + 1]]
ArgsTable(mem) == CHOOSE f : f = [i \in 1..(Len(mem) + 2) |-> ArgsFrom(f, mem, i)]

\* The recursion of ParseArgs is defined: the walk always goes on.
LEMMA ArgsExist ==
  ASSUME NEW mem \in Strings
  PROVE  \E f : f = [i \in 1..(Len(mem) + 2) |-> ArgsFrom(f, mem, i)]
<1> DEFINE Top == Len(mem) + 2
           Good(d) == \E f : f = [i \in (Top - d)..Top |-> ArgsFrom(f, mem, i)]
           T == {d \in 0..(Len(mem) + 1) : ~Good(d)}
<1>0. Len(mem) \in Nat /\ DOMAIN mem = 1..Len(mem)
  BY DEF Strings
<1>1. Good(0)
  <2> DEFINE None == [argc \in 0..MAX_ARGS |-> <<>>]
  <2>1. At(mem, Top) = Nul
    BY <1>0 DEF At
  <2>2. \A f : ArgsFrom(f, mem, Top) = None
    BY <2>1 DEF ArgsFrom
  <2>3. [i \in Top..Top |-> None] = [i \in Top..Top |-> ArgsFrom([k \in Top..Top |-> None], mem, i)]
    <3> HIDE DEF None
    <3>1. \A i \in Top..Top : i = Top
      BY <1>0
    <3> QED
      BY <2>2, <3>1
  <2>4. Top - 0 = Top
    BY <1>0
  <2> QED
    BY <2>3, <2>4
<1>2. ASSUME NEW d \in 1..(Len(mem) + 1), Good(d - 1) PROVE Good(d)
  <2>1. PICK f : f = [i \in (Top - (d - 1))..Top |-> ArgsFrom(f, mem, i)]
    BY <1>2
  <2> DEFINE n == Top - d
             g == [i \in n..Top |-> IF i = n THEN ArgsFrom(f, mem, n) ELSE f[i]]
  <2>2. n \in 1..(Len(mem) + 1) /\ (Top - (d - 1)) = n + 1
    BY <1>0
  <2>3. ASSUME NEW i \in n..Top PROVE g[i] = ArgsFrom(g, mem, i)
    <3>5. n \in Nat /\ Top \in Nat /\ (i # n => i \in (Top - (d - 1))..Top)
      BY <1>0, <2>2
    <3>3. i # n => f[i] = ArgsFrom(f, mem, i)
      BY <2>1, <3>5
    <3>4. g[i] = ArgsFrom(f, mem, i)
      BY <3>3
    <3>1. CASE At(mem, i) = Nul
      <4>1. ArgsFrom(f, mem, i) = ArgsFrom(g, mem, i)
        <5> HIDE DEF g
        <5> QED
          BY <3>1 DEF ArgsFrom
      <4> QED
        BY <3>4, <4>1
    <3>2. CASE At(mem, i) # Nul
      <4>0. i \in 1..(Len(mem) + 1)
        BY <1>0, <2>2, <3>2 DEF At
      <4>1. ArgEnd(mem, i) + 1 \in (n + 1)..Top
        <5>1. ArgEnd(mem, i) \in i..(Len(mem) + 1)
          BY <4>0, ArgFacts
        <5> QED
          BY <1>0, <2>2, <4>0, <5>1
      <4>2. g[ArgEnd(mem, i) + 1] = f[ArgEnd(mem, i) + 1]
        BY <2>2, <4>1
      <4>3. ArgsFrom(g, mem, i) = ArgsFrom(f, mem, i)
        <5> HIDE DEF g
        <5> QED
          BY <4>2 DEF ArgsFrom
      <4> QED
        BY <3>4, <4>3
    <3> QED
      BY <3>1, <3>2
  <2>4. g = [i \in n..Top |-> ArgsFrom(g, mem, i)]
    BY <2>3
  <2> QED
    BY <2>4
<1>3. Good(Len(mem) + 1)
  <2>1. SUFFICES ASSUME T # {} PROVE FALSE
    BY <1>0
  <2>2. T \in SUBSET Nat
    BY <1>0
  <2>3. PICK d \in T : \A e \in T : d <= e
    <3> HIDE DEF T
    <3> QED
      BY <2>1, <2>2, LeastNat
  <2> HIDE DEF Good
  <2>6. d \in 0..(Len(mem) + 1) /\ ~Good(d)
    BY <2>3
  <2>4. d \in 1..(Len(mem) + 1) /\ d - 1 \in 0..(Len(mem) + 1)
    <3>1. d # 0
      BY <1>1, <2>6
    <3> QED
      BY <1>0, <2>6, <3>1
  <2>5. d - 1 \notin T
    BY <2>3, <2>4
  <2>7. Good(d - 1)
    BY <2>4, <2>5
  <2> QED
    BY <1>2, <2>4, <2>6, <2>7
<1>4. Top - (Len(mem) + 1) = 1
  BY <1>0
<1> QED
  BY <1>3, <1>4

LEMMA ArgsUnfold ==
  ASSUME NEW mem \in Strings
  PROVE  /\ \A start \in 1..(Len(mem) + 2) : ParseArgs(mem, start) = ArgsTable(mem)[start][0]
         /\ \A i \in 1..(Len(mem) + 2) : ArgsTable(mem)[i] = ArgsFrom(ArgsTable(mem), mem, i)
<1>1. PICK table : table = ArgsTable(mem)
  OBVIOUS
<1>2. table = [i \in 1..(Len(mem) + 2) |-> ArgsFrom(table, mem, i)]
  BY <1>1, ArgsExist DEF ArgsTable
<1>3. ASSUME NEW start \in 1..(Len(mem) + 2)
      PROVE  ParseArgs(mem, start) = ArgsTable(mem)[start][0]
  BY DEF ParseArgs, ArgsTable, ArgsFrom, ArgFirst, ArgEnd
<1> QED
  BY <1>1, <1>2, <1>3

-----------------------------------------------------------------------------
\* From place i on the walk collects the words R, as many as there is room for.
Yields(mem, i, R) ==
  \A Q \in Seq(Strings) : Len(Q) <= MaxArgs =>
    /\ ArgsTable(mem)[i][Len(Q)] \in Seq(Strings)
    /\ Q \o ArgsTable(mem)[i][Len(Q)] = FirstArgs(Q \o R)

LEMMA FirstArgsFacts ==
  ASSUME NEW w \in Seq(Strings)
  PROVE  /\ Len(w) <= MaxArgs => FirstArgs(w) = w
         /\ \A Q, R \in Seq(Strings) : Len(Q) = MaxArgs => FirstArgs(Q \o R) = Q
<1>1. MAX_ARGS - 1 \in Int /\ MaxArgs = MAX_ARGS - 1
  BY MaxArgsAssumption DEF MaxArgs
<1>2. PICK a \in Int : a = MAX_ARGS - 1
  BY ONLY <1>1, Zenon
<1>3. ASSUME NEW v \in Seq(Strings), NEW k \in Int, k = Len(v)
      PROVE  FirstArgs(v) = IF k <= a THEN SubSeq(v, 1, k) ELSE SubSeq(v, 1, a)
  <2>1. (Min({a, k}) = a \/ Min({a, k}) = k) /\ Min({a, k}) <= a /\ Min({a, k}) <= k
    BY MinOfTwo
  <2>2. Min({a, k}) = IF k <= a THEN k ELSE a
    BY <2>1
  <2>3. FirstArgs(v) = SubSeq(v, 1, Min({a, k}))
    BY <1>2, <1>3 DEF FirstArgs
  <2> QED
    BY <2>2, <2>3
<1>4. Len(w) <= MaxArgs => FirstArgs(w) = w
  <2>1. PICK k \in Int : k = Len(w)
    OBVIOUS
  <2> QED
    BY <1>1, <1>2, <1>3, <2>1
<1>5. ASSUME NEW Q \in Seq(Strings), NEW R \in Seq(Strings), Len(Q) = MaxArgs
      PROVE  FirstArgs(Q \o R) = Q
  <2>1. PICK v \in Seq(Strings) : v = Q \o R
    <3>1. Q \o R \in Seq(Strings)
      OBVIOUS
    <3> QED
      BY ONLY <3>1, Zenon
  <2>2. PICK k \in Int : k = Len(v)
    OBVIOUS
  <2>3. Len(Q) = a /\ k = Len(Q) + Len(R) /\ Len(R) \in Nat
    BY <1>1, <1>2, <1>5, <2>1, <2>2
  <2>4. SubSeq(Q \o R, 1, Len(Q)) = Q
    OBVIOUS
  <2>5. k <= a => k = a
    BY <2>3
  <2> QED
    BY <1>3, <2>1, <2>2, <2>3, <2>4, <2>5
<1> QED
  BY <1>4, <1>5

\* It stops at a Nul.
LEMMA YieldsNone ==
  ASSUME NEW mem \in Strings, NEW i \in 1..(Len(mem) + 2), At(mem, i) = Nul
  PROVE  Yields(mem, i, <<>>)
<1> SUFFICES ASSUME NEW Q \in Seq(Strings), Len(Q) <= MaxArgs
             PROVE  /\ ArgsTable(mem)[i][Len(Q)] \in Seq(Strings)
                    /\ Q \o ArgsTable(mem)[i][Len(Q)] = FirstArgs(Q \o <<>>)
  BY DEF Yields
<1>1. Len(Q) \in 0..MAX_ARGS
  BY MaxArgsAssumption DEF MaxArgs
<1>2. ArgsTable(mem)[i][Len(Q)] = <<>>
  <2>1. ArgsTable(mem)[i] = ArgsFrom(ArgsTable(mem), mem, i)
    BY ArgsUnfold
  <2> QED
    BY <1>1, <2>1 DEF ArgsFrom
<1>3. Q \o <<>> = Q /\ <<>> \in Seq(Strings)
  BY ConcatEmptySeq
<1> QED
  BY <1>2, <1>3, FirstArgsFacts

\* It goes on with the argument it is at.
LEMMA YieldsArg ==
  ASSUME NEW mem \in Strings, NEW i \in 1..(Len(mem) + 1), At(mem, i) # Nul,
         NEW R \in Seq(Strings), Yields(mem, ArgEnd(mem, i) + 1, R)
  PROVE  Yields(mem, i, <<SubSeq(mem, ArgFirst(mem, i), ArgEnd(mem, i) - 1)>> \o R)
<1>1. PICK x \in Strings : x = SubSeq(mem, ArgFirst(mem, i), ArgEnd(mem, i) - 1)
  BY ArgFacts
<1>2. PICK next : next = ArgEnd(mem, i) + 1
  OBVIOUS
<1> SUFFICES ASSUME NEW Q \in Seq(Strings), Len(Q) <= MaxArgs
             PROVE  /\ ArgsTable(mem)[i][Len(Q)] \in Seq(Strings)
                    /\ Q \o ArgsTable(mem)[i][Len(Q)] = FirstArgs(Q \o (<<x>> \o R))
  BY <1>1 DEF Yields
<1>3. Len(Q) \in 0..MAX_ARGS /\ Len(Q) \in Nat /\ MaxArgs \in Int
  BY MaxArgsAssumption DEF MaxArgs
<1>4. ArgsTable(mem)[i] = ArgsFrom(ArgsTable(mem), mem, i)
  <2>1. i \in 1..(Len(mem) + 2)
    BY DEF Strings
  <2> QED
    BY <2>1, ArgsUnfold
<1>5. <<x>> \in Seq(Strings) /\ <<x>> \o R \in Seq(Strings)
  BY <1>1
<1>6. CASE Len(Q) = MaxArgs
  <2>1. ArgsTable(mem)[i][Len(Q)] = <<>>
    BY <1>3, <1>4, <1>6 DEF ArgsFrom
  <2>2. FirstArgs(Q \o (<<x>> \o R)) = Q
    BY <1>5, <1>6, FirstArgsFacts
  <2> QED
    BY <2>1, <2>2, ConcatEmptySeq
<1>7. CASE Len(Q) # MaxArgs
  <2>1. Len(Q) < MaxArgs
    BY <1>3, <1>7
  <2>2. PICK P \in Seq(Strings) : P = Q \o <<x>>
    <3>1. Q \o <<x>> \in Seq(Strings)
      BY <1>5
    <3> QED
      BY ONLY <3>1, Zenon
  <2>3. Len(P) = Len(Q) + 1 /\ Len(P) <= MaxArgs
    BY <1>1, <1>3, <2>1, <2>2
  <2>4. PICK rest \in Seq(Strings) : rest = ArgsTable(mem)[next][Len(P)]
    BY <1>2, <2>2, <2>3 DEF Yields
  <2>5. P \o rest = FirstArgs(P \o R)
    BY <1>2, <2>2, <2>3, <2>4 DEF Yields
  <2>6. ArgsTable(mem)[i][Len(Q)] = <<x>> \o rest
    BY <1>1, <1>2, <1>3, <1>4, <2>1, <2>3, <2>4 DEF ArgsFrom
  <2>7. \A p \in Seq(Strings), q \in Seq(Strings) : (Q \o p) \o q = Q \o (p \o q)
    BY ONLY Q \in Seq(Strings), ConcatAssociative, SMTT(30)
  <2>8. P \o R = Q \o (<<x>> \o R) /\ P \o rest = Q \o (<<x>> \o rest)
    BY <1>5, <2>2, <2>7
  <2>9. <<x>> \o rest \in Seq(Strings)
    BY <1>5
  <2> QED
    BY <2>5, <2>6, <2>8, <2>9
<1> QED
  BY <1>6, <1>7

LEMMA YieldsAll ==
  ASSUME NEW mem \in Strings, NEW start \in 1..(Len(mem) + 2), NEW R \in Seq(Strings),
         Yields(mem, start, R)
  PROVE  ParseArgs(mem, start) = FirstArgs(R)
<1>1. ParseArgs(mem, start) = ArgsTable(mem)[start][0]
  BY ArgsUnfold
<1>2. <<>> \in Seq(Strings) /\ Len(<<>>) = 0 /\ 0 <= MaxArgs
  BY MaxArgsAssumption DEF MaxArgs
<1>3. PICK r \in Seq(Strings) : r = ArgsTable(mem)[start][0]
  BY <1>2 DEF Yields
<1>4. <<>> \o r = FirstArgs(<<>> \o R)
  BY <1>2, <1>3 DEF Yields
<1> QED
  BY <1>1, <1>3, <1>4, ConcatEmptySeq

\* Whatever lies in memory, it collects something.
LEMMA YieldsSome ==
  ASSUME NEW mem \in Strings, NEW start \in 1..(Len(mem) + 2)
  PROVE  \E R \in Seq(Strings) : Yields(mem, start, R)
<1> DEFINE Some(i) == \E R \in Seq(Strings) : Yields(mem, i, R)
           Bad == {d \in 0..(Len(mem) + 1) : ~Some(Len(mem) + 2 - d)}
<1>1. Len(mem) \in Nat
  BY DEF Strings
<1>2. SUFFICES ASSUME Bad # {} PROVE FALSE
  <2>1. Len(mem) + 2 - start \in 0..(Len(mem) + 1) /\ Len(mem) + 2 - (Len(mem) + 2 - start) = start
    BY <1>1
  <2> HIDE DEF Some
  <2>2. ~Some(start) => Len(mem) + 2 - start \in Bad
    BY <2>1
  <2> QED
    BY <2>2 DEF Some
<1> HIDE DEF Some
<1>3. PICK d \in Bad : \A k \in Bad : d <= k
  <2>1. Bad \in SUBSET Nat
    BY <1>1
  <2> HIDE DEF Bad
  <2> QED
    BY <1>2, <2>1, LeastNat
<1>4. PICK i \in 1..(Len(mem) + 2) : i = Len(mem) + 2 - d /\ ~Some(i)
  <2>1. Len(mem) + 2 - d \in 1..(Len(mem) + 2)
    BY <1>1
  <2> QED
    BY <2>1
<1>5. CASE At(mem, i) = Nul
  <2>1. <<>> \in Seq(Strings) /\ Yields(mem, i, <<>>)
    BY <1>5, YieldsNone
  <2> QED
    BY <1>4, <2>1 DEF Some
<1>6. CASE At(mem, i) # Nul
  <2>1. i \in 1..(Len(mem) + 1)
    BY <1>1, <1>6 DEF At, Strings
  <2>2. PICK e \in i..(Len(mem) + 1) : e = ArgEnd(mem, i)
    BY <2>1, ArgFacts
  <2>3. PICK w \in Strings : w = SubSeq(mem, ArgFirst(mem, i), ArgEnd(mem, i) - 1)
    BY <2>1, ArgFacts
  <2>4. PICK k \in 0..(Len(mem) + 1) : k = Len(mem) + 2 - (e + 1) /\ k < d /\ Len(mem) + 2 - k = e + 1
    <3>1. Len(mem) + 2 - (e + 1) \in 0..(Len(mem) + 1) /\ Len(mem) + 2 - (e + 1) < d
      BY <1>1, <1>4, <2>1
    <3>2. Len(mem) + 2 - (Len(mem) + 2 - (e + 1)) = e + 1
      BY <1>1
    <3> QED
      BY <3>1, <3>2
  <2>5. Some(e + 1)
    <3>1. k \notin Bad
      BY <1>1, <1>3, <2>4
    <3> QED
      BY <2>4, <3>1
  <2>6. PICK R \in Seq(Strings) : Yields(mem, ArgEnd(mem, i) + 1, R)
    BY <2>2, <2>5 DEF Some
  <2>7. Yields(mem, i, <<w>> \o R) /\ <<w>> \o R \in Seq(Strings)
    <3>1. <<w>> \o R \in Seq(Strings)
      OBVIOUS
    <3> QED
      BY <1>6, <2>1, <2>3, <2>6, <3>1, YieldsArg
  <2> QED
    BY <1>4, <2>7 DEF Some
<1> QED
  BY <1>5, <1>6

-----------------------------------------------------------------------------
(* The scanner. *)

LEMMA CountUp ==
  ASSUME NEW lo \in Nat, NEW hi \in Nat, NEW T, lo \in T,
         \A i \in lo..hi : i < hi /\ i \in T => i + 1 \in T
  PROVE  \A i \in lo..hi : i \in T
<1> SUFFICES ASSUME NEW i \in lo..hi, i \notin T PROVE FALSE
  OBVIOUS
<1> DEFINE D == {k \in lo..hi : k \notin T}
<1>1. D \in SUBSET Nat /\ D # {}
  OBVIOUS
<1>2. PICK k \in D : \A e \in D : k <= e
  <2> HIDE DEF D
  <2> QED
    BY <1>1, LeastNat
<1>3. k \in lo..hi /\ k \notin T /\ k # lo
  BY <1>2
<1>4. k - 1 \in lo..hi /\ k - 1 < hi /\ (k - 1) + 1 = k /\ k - 1 \notin D
  BY <1>2, <1>3
<1>5. k - 1 \in T
  BY <1>4
<1> QED
  BY <1>3, <1>4, <1>5

ScanFrom(f, text, i) == IF i = 0 THEN Scanner ELSE Scan(f[i - 1], text[i])
ScanTable(text) == CHOOSE f : f = [i \in 0..Len(text) |-> ScanFrom(f, text, i)]

LEMMA ScanExists ==
  ASSUME NEW text \in Strings
  PROVE  \E f : f = [i \in 0..Len(text) |-> ScanFrom(f, text, i)]
<1> DEFINE Good(d) == \E f : f = [i \in 0..d |-> ScanFrom(f, text, i)]
           T == {d \in 0..Len(text) : Good(d)}
<1>0. Len(text) \in Nat
  BY DEF Strings
<1>1. Good(0)
  <2>1. [i \in 0..0 |-> Scanner] = [i \in 0..0 |-> ScanFrom([k \in 0..0 |-> Scanner], text, i)]
    BY DEF ScanFrom
  <2> QED
    BY <2>1
<1>2. ASSUME NEW d \in 0..(Len(text) - 1), Good(d) PROVE Good(d + 1)
  <2>1. PICK f : f = [i \in 0..d |-> ScanFrom(f, text, i)]
    BY <1>2
  <2> DEFINE n == d + 1
             g == [i \in 0..n |-> IF i = n THEN ScanFrom(f, text, n) ELSE f[i]]
  <2>3. ASSUME NEW i \in 0..n PROVE g[i] = ScanFrom(g, text, i)
    <3>1. i # n => i \in 0..d
      OBVIOUS
    <3>2. i # n => f[i] = ScanFrom(f, text, i)
      BY <2>1, <3>1
    <3>3. g[i] = ScanFrom(f, text, i)
      BY <3>2
    <3>4. i # 0 => i - 1 \in 0..n /\ i - 1 # n
      OBVIOUS
    <3>5. i # 0 => g[i - 1] = f[i - 1]
      BY <3>4
    <3>6. ScanFrom(f, text, i) = ScanFrom(g, text, i)
      <4> HIDE DEF g
      <4> QED
        BY <3>5 DEF ScanFrom
    <3> QED
      BY <3>3, <3>6
  <2>4. g = [i \in 0..n |-> ScanFrom(g, text, i)]
    BY <2>3
  <2> QED
    BY <2>4
<1>3. Good(Len(text))
  <2> HIDE DEF Good
  <2>1. 0 \in T /\ \A i \in 0..Len(text) : i < Len(text) /\ i \in T => i + 1 \in T
    <3>1. \A i \in 0..Len(text) : i < Len(text) => i \in 0..(Len(text) - 1) /\ i + 1 \in 0..Len(text)
      BY <1>0
    <3> QED
      BY <1>0, <1>1, <1>2, <3>1
  <2>2. Len(text) \in T
    <3> HIDE DEF T
    <3>1. 0 \in Nat /\ Len(text) \in 0..Len(text)
      BY <1>0
    <3> QED
      BY <1>0, <2>1, <3>1, CountUp
  <2> QED
    BY <2>2
<1> QED
  BY <1>3

LEMMA ScanUnfold ==
  ASSUME NEW text \in Strings
  PROVE  /\ Scanned(text) = ScanTable(text)[Len(text)]
         /\ ScanTable(text)[0] = Scanner
         /\ \A i \in 1..Len(text) : ScanTable(text)[i] = Scan(ScanTable(text)[i - 1], text[i])
<1>0. Len(text) \in Nat
  BY DEF Strings
<1>1. PICK table : table = ScanTable(text)
  OBVIOUS
<1>2. table = [i \in 0..Len(text) |-> ScanFrom(table, text, i)]
  BY <1>1, ScanExists DEF ScanTable
<1>3. Scanned(text) = ScanTable(text)[Len(text)]
  BY DEF Scanned, ScanTable, ScanFrom
<1>4. \A i \in 0..Len(text) : table[i] = ScanFrom(table, text, i)
  BY <1>2
<1>5. table[0] = Scanner
  BY <1>0, <1>4 DEF ScanFrom
<1>6. ASSUME NEW i \in 1..Len(text) PROVE table[i] = Scan(table[i - 1], text[i])
  <2>1. i \in 0..Len(text) /\ i # 0
    OBVIOUS
  <2> QED
    BY <1>4, <2>1 DEF ScanFrom
<1> QED
  BY <1>1, <1>3, <1>5, <1>6

States ==
  [words : Seq(Strings), word : Strings, mode : {"out", "word", "quoted"}, slack : Nat]

\* What ends a word, in the modes in which there is one.
Ends(mode) == IF mode = "quoted" THEN {Quote} ELSE Blanks

LEMMA ScanStep ==
  ASSUME NEW s \in States, NEW c \in Chars, NEW t, t = Scan(s, c)
  PROVE  /\ t \in States
         /\ s.mode = "out" /\ c \in Blanks =>
              t.mode = "out" /\ t.words = s.words /\ t.word = s.word /\ t.slack = s.slack + 1
         /\ s.mode = "out" /\ c = Quote =>
              t.mode = "quoted" /\ t.words = s.words /\ t.word = s.word
         /\ s.mode = "out" /\ c \notin Blanks /\ c # Quote =>
              t.mode = "word" /\ t.words = s.words /\ t.word = <<c>>
         /\ s.mode # "out" /\ c \in Ends(s.mode) =>
              t.mode = "out" /\ t.words = s.words \o <<s.word>> /\ t.word = <<>> /\ t.slack = 0
         /\ s.mode # "out" /\ c \notin Ends(s.mode) =>
              t.mode = s.mode /\ t.words = s.words /\ t.word = Append(s.word, c)
<1>1. /\ s.words \in Seq(Strings) /\ s.word \in Strings /\ s.slack \in Nat
      /\ s.mode \in {"out", "word", "quoted"}
      /\ s = [words |-> s.words, word |-> s.word, mode |-> s.mode, slack |-> s.slack]
  BY DEF States
<1>2. Quote \notin Blanks
  BY DEF Quote, Blanks, Space, Tab, Newline
<1>3. /\ Append(s.words, s.word) \in Seq(Strings) /\ Append(s.word, c) \in Strings
      /\ Append(s.words, s.word) = s.words \o <<s.word>>
      /\ <<>> \in Strings /\ <<c>> \in Strings
  BY <1>1, AppendIsConcat DEF Strings
<1>4. CASE s.mode = "out" /\ c \in Blanks
  <2>1. t = [s EXCEPT !.slack = @ + 1]
    BY <1>1, <1>2, <1>4 DEF Scan
  <2> QED
    BY <1>1, <1>2, <1>4, <2>1 DEF States
<1>5. CASE s.mode = "out" /\ c = Quote
  <2>1. t = [s EXCEPT !.mode = "quoted"]
    BY <1>1, <1>2, <1>5 DEF Scan
  <2> QED
    BY <1>1, <1>2, <1>5, <2>1 DEF States
<1>6. CASE s.mode = "out" /\ c \notin Blanks /\ c # Quote
  <2>1. t = [s EXCEPT !.mode = "word", !.word = <<c>>]
    BY <1>6 DEF Scan
  <2>2. t = [words |-> s.words, word |-> <<c>>, mode |-> "word", slack |-> s.slack]
    BY <1>1, <2>1
  <2> QED
    BY <1>1, <1>3, <1>6, <2>2 DEF States
<1>7. CASE s.mode # "out" /\ c \in Ends(s.mode)
  <2>1. t = [s EXCEPT !.words = Append(@, s.word), !.word = <<>>, !.mode = "out", !.slack = 0]
    BY <1>1, <1>2, <1>7 DEF Scan, Ends
  <2>2. t = [words |-> Append(s.words, s.word), word |-> <<>>, mode |-> "out", slack |-> 0]
    BY <1>1, <2>1
  <2> QED
    BY <1>1, <1>3, <1>7, <2>2 DEF States
<1>8. CASE s.mode # "out" /\ c \notin Ends(s.mode)
  <2>1. t = [s EXCEPT !.word = Append(@, c)]
    BY <1>1, <1>2, <1>8 DEF Scan, Ends
  <2>2. t = [words |-> s.words, word |-> Append(s.word, c), mode |-> s.mode, slack |-> s.slack]
    BY <1>1, <2>1
  <2> QED
    BY <1>1, <1>3, <1>8, <2>2 DEF States
<1> QED
  BY <1>4, <1>5, <1>6, <1>7, <1>8

\* Outside a word there is none.
LEMMA ScanTyped ==
  ASSUME NEW T \in Strings
  PROVE  \A i \in 0..Len(T) :
           ScanTable(T)[i] \in States /\ (ScanTable(T)[i].mode = "out" => ScanTable(T)[i].word = <<>>)
<1> DEFINE Good == {s \in States : s.mode = "out" => s.word = <<>>}
           G == {i \in 0..Len(T) : ScanTable(T)[i] \in Good}
<1>1. Len(T) \in Nat /\ \A i \in 1..Len(T) : T[i] \in Chars
  BY DEF Strings
<1>2. ScanTable(T)[0] \in Good
  <2>1. <<>> \in Seq(Strings) /\ <<>> \in Strings
    BY DEF Strings
  <2>2. Scanner \in Good
    BY <2>1 DEF Scanner, States
  <2> QED
    BY <2>2, ScanUnfold
<1>3. ASSUME NEW i \in 0..Len(T), i < Len(T), i \in G PROVE i + 1 \in G
  <2>1. i + 1 \in 1..Len(T) /\ (i + 1) - 1 = i /\ i + 1 \in 0..Len(T)
    BY <1>1, <1>3
  <2>2. ScanTable(T)[i + 1] = Scan(ScanTable(T)[i], T[i + 1])
    BY <2>1, ScanUnfold
  <2>3. PICK s \in States : s = ScanTable(T)[i]
    BY <1>3
  <2>8. s.mode = "out" => s.word = <<>>
    BY <1>3, <2>3
  <2>4. PICK c \in Chars : c = T[i + 1]
    BY <1>1, <2>1
  <2>5. PICK t : t = Scan(s, c)
    OBVIOUS
  <2>6. t \in States
    BY ONLY s \in States, c \in Chars, <2>5, ScanStep
  <2>9. t.mode = "out" => t.word = <<>>
    <3>1. CASE s.mode = "out" /\ c \in Blanks
      BY ONLY s \in States, c \in Chars, <2>5, <2>8, <3>1, ScanStep, ZenonT(30)
    <3>2. CASE s.mode = "out" /\ c = Quote
      BY ONLY s \in States, c \in Chars, <2>5, <3>2, ScanStep
    <3>3. CASE s.mode = "out" /\ c \notin Blanks /\ c # Quote
      BY ONLY s \in States, c \in Chars, <2>5, <3>3, ScanStep
    <3>4. CASE s.mode # "out" /\ c \in Ends(s.mode)
      BY ONLY s \in States, c \in Chars, <2>5, <3>4, ScanStep
    <3>5. CASE s.mode # "out" /\ c \notin Ends(s.mode)
      BY ONLY s \in States, c \in Chars, <2>5, <3>5, ScanStep
    <3> QED
      BY <3>1, <3>2, <3>3, <3>4, <3>5
  <2>7. t \in Good
    BY <2>6, <2>9
  <2> QED
    BY <2>1, <2>2, <2>3, <2>4, <2>5, <2>7
<1>4. \A i \in 0..Len(T) : i \in G
  <2>1. 0 \in G
    BY <1>1, <1>2
  <2> HIDE DEF G
  <2> QED
    BY <1>1, <1>3, <2>1, CountUp
<1> QED
  BY <1>4

\* Blanks between words.
LEMMA ScanBlanks ==
  ASSUME NEW T \in Strings, NEW a \in 0..Len(T), NEW b \in a..Len(T),
         ScanTable(T)[a].mode = "out", \A k \in (a + 1)..b : T[k] \in Blanks
  PROVE  /\ ScanTable(T)[b].mode = "out" /\ ScanTable(T)[b].words = ScanTable(T)[a].words
         /\ ScanTable(T)[b].word = <<>>
         /\ ScanTable(T)[b].slack = ScanTable(T)[a].slack + (b - a)
<1> DEFINE G == {i \in a..b : /\ ScanTable(T)[i].mode = "out"
                              /\ ScanTable(T)[i].words = ScanTable(T)[a].words
                              /\ ScanTable(T)[i].slack = ScanTable(T)[a].slack + (i - a)}
<1>1. Len(T) \in Nat /\ a \in Nat /\ b \in Nat /\ \A i \in 1..Len(T) : T[i] \in Chars
  BY DEF Strings
<1>2. ScanTable(T)[a].slack \in Nat
  BY ScanTyped DEF States
<1>3. ASSUME NEW i \in a..b, i < b, i \in G PROVE i + 1 \in G
  <2>1. i + 1 \in 1..Len(T) /\ (i + 1) - 1 = i /\ i + 1 \in a..b /\ i + 1 \in (a + 1)..b /\ i \in 0..Len(T)
    BY <1>1, <1>3
  <2>2. ScanTable(T)[i + 1] = Scan(ScanTable(T)[i], T[i + 1])
    BY <2>1, ScanUnfold
  <2>3. PICK s \in States : s = ScanTable(T)[i]
    BY <2>1, ScanTyped
  <2>4. PICK c \in Chars : c = T[i + 1]
    BY <1>1, <2>1
  <2>5. PICK t : t = Scan(s, c)
    OBVIOUS
  <2>6. s.mode = "out" /\ c \in Blanks
    BY <1>3, <2>1, <2>3, <2>4
  <2>7. t.mode = "out" /\ t.words = s.words /\ t.slack = s.slack + 1
    BY ONLY s \in States, c \in Chars, <2>5, <2>6, ScanStep, ZenonT(30)
  <2>8. s.words = ScanTable(T)[a].words /\ s.slack = ScanTable(T)[a].slack + (i - a)
    BY <1>3, <2>3
  <2>9. t.slack = ScanTable(T)[a].slack + ((i + 1) - a)
    BY <1>1, <1>2, <2>7, <2>8
  <2> QED
    BY <2>1, <2>2, <2>3, <2>4, <2>5, <2>7, <2>8, <2>9
<1>4. \A i \in a..b : i \in G
  <2>1. a \in G
    BY <1>1, <1>2
  <2> HIDE DEF G
  <2> QED
    BY <1>1, <1>3, <2>1, CountUp
<1>5. b \in a..b /\ b \in 0..Len(T)
  BY <1>1
<1> QED
  BY <1>4, <1>5, ScanTyped

LEMMA SliceGrows ==
  ASSUME NEW s \in Strings, NEW a \in 1..Len(s), NEW b \in (a - 1)..Len(s), b < Len(s)
  PROVE  Append(SubSeq(s, a, b), s[b + 1]) = SubSeq(s, a, b + 1)
<1>1. Len(s) \in Nat /\ a \in 1..(Len(s) + 1) /\ b \in Nat /\ b + 1 \in (a - 1)..Len(s)
  BY DEF Strings
<1>2. PICK n \in Nat : n = b - a + 1
  BY <1>1
<1>3. PICK p \in Strings : p = SubSeq(s, a, b)
  BY <1>1, Slice
<1>4. Len(p) = n /\ \A k \in 1..n : p[k] = s[a + k - 1]
  BY <1>1, <1>2, <1>3, Slice
<1>5. PICK e \in (a - 1)..Len(s) : e = b + 1
  BY <1>1
<1>6. PICK q \in Strings : q = SubSeq(s, a, e)
  BY <1>1, Slice
<1>7. Len(q) = e - a + 1 /\ \A k \in 1..(e - a + 1) : q[k] = s[a + k - 1]
  BY <1>1, <1>6, Slice
<1>8. e - a + 1 = n + 1 /\ a + (n + 1) - 1 = e
  BY <1>1, <1>2, <1>5
<1>9. s[e] \in Chars
  BY <1>1, <1>5 DEF Strings
<1>10. PICK r \in Strings : r = Append(p, s[e])
  <2>1. Append(p, s[e]) \in Strings
    BY <1>9 DEF Strings
  <2> QED
    BY ONLY <2>1, Zenon
<1>11. Len(r) = n + 1 /\ r[n + 1] = s[e] /\ \A k \in 1..n : r[k] = p[k]
  BY <1>3, <1>4, <1>9, <1>10 DEF Strings
<1>12. \A k \in 1..(n + 1) : r[k] = q[k]
  <2> TAKE k \in 1..(n + 1)
  <2>1. CASE k = n + 1
    BY <1>7, <1>8, <1>11, <2>1
  <2>2. CASE k # n + 1
    <3>1. k \in 1..n
      BY <2>2
    <3> QED
      BY <1>4, <1>7, <1>8, <1>11, <3>1
  <2> QED
    BY <2>1, <2>2
<1>13. r = q
  BY <1>7, <1>8, <1>11, <1>12, SeqEqual DEF Strings
<1> QED
  BY <1>3, <1>5, <1>6, <1>10, <1>13

\* Inside a word, which began at place f, up to its end.
LEMMA ScanIn ==
  ASSUME NEW T \in Strings, NEW a \in 0..Len(T), NEW b \in a..Len(T), NEW f \in 1..(a + 1),
         ScanTable(T)[a].mode # "out", ScanTable(T)[a].word = SubSeq(T, f, a),
         \A k \in (a + 1)..b : T[k] \notin Ends(ScanTable(T)[a].mode)
  PROVE  /\ ScanTable(T)[b].mode = ScanTable(T)[a].mode
         /\ ScanTable(T)[b].words = ScanTable(T)[a].words
         /\ ScanTable(T)[b].word = SubSeq(T, f, b)
<1> DEFINE G == {i \in a..b : /\ ScanTable(T)[i].mode = ScanTable(T)[a].mode
                              /\ ScanTable(T)[i].words = ScanTable(T)[a].words
                              /\ ScanTable(T)[i].word = SubSeq(T, f, i)}
<1>1. Len(T) \in Nat /\ a \in Nat /\ b \in Nat /\ \A i \in 1..Len(T) : T[i] \in Chars
  BY DEF Strings
<1>3. ASSUME NEW i \in a..b, i < b, i \in G PROVE i + 1 \in G
  <2>1. i + 1 \in 1..Len(T) /\ (i + 1) - 1 = i /\ i + 1 \in a..b /\ i + 1 \in (a + 1)..b /\ i \in 0..Len(T)
    BY <1>1, <1>3
  <2>2. ScanTable(T)[i + 1] = Scan(ScanTable(T)[i], T[i + 1])
    BY <2>1, ScanUnfold
  <2>3. PICK s \in States : s = ScanTable(T)[i]
    BY <2>1, ScanTyped
  <2>4. PICK c \in Chars : c = T[i + 1]
    BY <1>1, <2>1
  <2>5. PICK t : t = Scan(s, c)
    OBVIOUS
  <2>6. s.mode = ScanTable(T)[a].mode /\ s.words = ScanTable(T)[a].words /\ s.word = SubSeq(T, f, i)
    BY <1>3, <2>3
  <2>10. s.mode # "out" /\ c \notin Ends(s.mode)
    BY <2>1, <2>4, <2>6
  <2>7. t.mode = s.mode /\ t.words = s.words /\ t.word = Append(s.word, c)
    BY ONLY s \in States, c \in Chars, <2>5, <2>10, ScanStep
  <2>8. Append(SubSeq(T, f, i), T[i + 1]) = SubSeq(T, f, i + 1)
    <3>1. f \in 1..Len(T) /\ i \in (f - 1)..Len(T) /\ i < Len(T)
      BY <1>1, <2>1
    <3> QED
      BY <3>1, SliceGrows
  <2> QED
    BY <2>1, <2>2, <2>3, <2>4, <2>5, <2>6, <2>7, <2>8
<1>4. \A i \in a..b : i \in G
  <2>1. a \in G
    BY <1>1
  <2> HIDE DEF G
  <2> QED
    BY <1>1, <1>3, <2>1, CountUp
<1>5. b \in a..b
  BY <1>1
<1> QED
  BY <1>4, <1>5

-----------------------------------------------------------------------------
(* The walk and the scanner go together. *)

\* From place lo on the memory, moved by d, holds the first n chars of the text
\* and then ends.
Shows(mem, d, T, lo, n) ==
  /\ d + n + 1 \in 1..Len(mem) /\ mem[d + n + 1] = Nul
  /\ \A k \in lo..n : mem[d + k] = T[k] /\ T[k] # Nul

LEMMA SameSlice ==
  ASSUME NEW mem \in Strings, NEW T \in Strings, NEW d \in Nat, NEW a \in 1..(Len(T) + 1),
         NEW b \in (a - 1)..Len(T), d + b <= Len(mem), \A k \in a..b : mem[d + k] = T[k]
  PROVE  SubSeq(mem, d + a, d + b) = SubSeq(T, a, b)
<1>1. Len(mem) \in Nat /\ Len(T) \in Nat
  BY DEF Strings
<1>2. PICK n \in Nat : n = b - a + 1
  BY <1>1
<1>3. PICK p \in Strings : p = SubSeq(T, a, b)
  BY Slice
<1>4. Len(p) = n /\ \A k \in 1..n : p[k] = T[a + k - 1]
  BY <1>2, <1>3, Slice
<1>5. PICK e \in 1..(Len(mem) + 1) : e = d + a
  BY <1>1
<1>6. PICK f \in (e - 1)..Len(mem) : f = d + b
  BY <1>1, <1>5
<1>7. PICK q \in Strings : q = SubSeq(mem, e, f)
  BY Slice
<1>8. f - e + 1 = n
  BY <1>1, <1>2, <1>5, <1>6
<1>9. Len(q) = n /\ \A k \in 1..n : q[k] = mem[e + k - 1]
  BY <1>7, <1>8, Slice
<1>10. \A k \in 1..n : q[k] = p[k]
  <2> TAKE k \in 1..n
  <2>1. a + k - 1 \in a..b /\ e + k - 1 = d + (a + k - 1)
    BY <1>1, <1>2, <1>5
  <2> QED
    BY <1>4, <1>9, <2>1
<1>11. p = q
  BY <1>4, <1>9, <1>10, SeqEqual DEF Strings
<1> QED
  BY <1>3, <1>5, <1>6, <1>7, <1>11

\* One argument of the walk is one word of the scanner.
LEMMA ArgumentAt ==
  ASSUME NEW mem \in Strings, NEW T \in Strings, NEW d \in Nat, NEW n \in 0..Len(T), NEW lo \in 1..(n + 1),
         Shows(mem, d, T, lo, n), NEW i \in lo..n, ScanTable(T)[i - 1].mode = "out"
  PROVE  \E e \in (i + 1)..(n + 1) :
           /\ ArgEnd(mem, d + i) = d + e
           /\ e <= n =>
                /\ ScanTable(T)[e].mode = "out" /\ ScanTable(T)[e].slack = 0
                /\ ScanTable(T)[e].words =
                     ScanTable(T)[i - 1].words \o <<SubSeq(mem, ArgFirst(mem, d + i), ArgEnd(mem, d + i) - 1)>>
           /\ e = n + 1 =>
                /\ ScanTable(T)[n].words = ScanTable(T)[i - 1].words
                /\ ScanTable(T)[n].word = SubSeq(mem, ArgFirst(mem, d + i), ArgEnd(mem, d + i) - 1)
                /\ ScanTable(T)[n].mode = "out" => ScanTable(T)[n].slack > 0 /\ ScanTable(T)[n].word = <<>>
<1>1. /\ Len(T) \in Nat /\ n \in Nat /\ lo \in Nat /\ i \in Nat /\ Len(mem) \in Nat
      /\ DOMAIN mem = 1..Len(mem) /\ i - 1 \in 0..Len(T)
  BY DEF Strings
<1>2. /\ d + n + 1 \in 1..Len(mem) /\ mem[d + n + 1] = Nul
      /\ \A k \in i..n : mem[d + k] = T[k] /\ T[k] # Nul /\ T[k] \in Chars
  BY <1>1 DEF Shows, Strings
<1>3. Nul \notin Blanks /\ Nul # Quote /\ Quote \notin Blanks
  BY DEF Nul, Blanks, Space, Tab, Newline, Quote
<1>4. d + i \in 1..(Len(mem) + 1)
  BY <1>1, <1>2
<1>5. PICK v \in (d + i)..(Len(mem) + 1) :
        /\ v = SkipOver(mem, d + i, Blanks) /\ At(mem, v) \notin Blanks
        /\ \A k \in (d + i)..(v - 1) : mem[k] \in Blanks
  BY <1>3, <1>4, SkipOverFacts
<1>6. v <= d + n + 1
  <2> SUFFICES ASSUME v > d + n + 1 PROVE FALSE
    BY <1>1
  <2>1. d + n + 1 \in (d + i)..(v - 1)
    BY <1>1
  <2> QED
    BY <1>2, <1>3, <1>5, <2>1
<1>7. PICK w \in i..(n + 1) : v = d + w
  <2>1. v - d \in i..(n + 1) /\ v = d + (v - d)
    BY <1>1, <1>6
  <2> QED
    BY <2>1
<1>8. \A k \in i..(w - 1) : T[k] \in Blanks
  <2> TAKE k \in i..(w - 1)
  <2>1. d + k \in (d + i)..(v - 1) /\ k \in i..n
    BY <1>1, <1>7
  <2> QED
    BY <1>2, <1>5, <2>1
<1>9. /\ ScanTable(T)[w - 1].mode = "out" /\ ScanTable(T)[w - 1].words = ScanTable(T)[i - 1].words
      /\ ScanTable(T)[w - 1].word = <<>>
      /\ ScanTable(T)[w - 1].slack = ScanTable(T)[i - 1].slack + (w - i)
  <2>1. PICK b \in (i - 1)..Len(T) : b = w - 1
    BY <1>1
  <2>2. PICK a \in 0..Len(T) : a = i - 1
    BY <1>1
  <2>3. b \in a..Len(T) /\ b - a = w - i /\ \A k \in (a + 1)..b : T[k] \in Blanks
    BY <1>1, <1>8, <2>1, <2>2
  <2> QED
    BY <2>1, <2>2, <2>3, ScanBlanks
<1>10. w <= n => At(mem, v) = T[w] /\ T[w] \notin Blanks
  <2> SUFFICES ASSUME w <= n PROVE At(mem, v) = T[w] /\ T[w] \notin Blanks
    OBVIOUS
  <2>1. w \in i..n /\ v \in DOMAIN mem
    BY <1>1, <1>2, <1>7
  <2>2. At(mem, v) = T[w]
    BY <1>2, <1>7, <2>1 DEF At
  <2> QED
    BY <1>5, <2>2
<1>11. CASE w = n + 1
  <2>1. At(mem, v) = Nul /\ v = d + n + 1 /\ v \in 1..(Len(mem) + 1) /\ v \in v..(Len(mem) + 1)
    BY <1>1, <1>2, <1>7, <1>11 DEF At
  <2>2. ArgFirst(mem, d + i) = v
    BY <1>3, <1>5, <2>1 DEF ArgFirst
  <2>3. FirstOf(mem, v, Blanks \union {Nul}) = v
    <3>1. mem[v] \in Blanks \union {Nul} /\ \A k \in v..(v - 1) : mem[k] \notin Blanks \union {Nul}
      BY <1>2, <2>1
    <3> QED
      BY <2>1, <3>1, FirstOfIs
  <2>4. ArgEnd(mem, d + i) = v
    BY <1>3, <1>5, <2>1, <2>2, <2>3 DEF ArgEnd
  <2>5. SubSeq(mem, v, v - 1) = <<>>
    BY <1>1, <2>1
  <2>6. w - 1 = n /\ ScanTable(T)[i - 1].slack \in Nat
    BY <1>1, <1>11, ScanTyped DEF States
  <2>7. ScanTable(T)[n].slack > 0
    BY <1>1, <1>9, <1>11, <2>6
  <2>8. n + 1 \in (i + 1)..(n + 1) /\ v = d + (n + 1) /\ ~(n + 1 <= n)
    BY <1>1, <2>1
  <2> QED
    BY <1>9, <2>2, <2>4, <2>5, <2>6, <2>7, <2>8
<1>12. CASE w <= n
  <2>1. PICK a \in w..(w + 1) : a = IF T[w] = Quote THEN w + 1 ELSE w
    BY <1>1
  <2>2. PICK stop : stop = IF T[w] = Quote THEN {Quote, Nul} ELSE Blanks \union {Nul}
    OBVIOUS
  <2>3. ArgFirst(mem, d + i) = d + a /\ ArgEnd(mem, d + i) = FirstOf(mem, d + a, stop)
    BY <1>1, <1>5, <1>7, <1>10, <1>12, <2>1, <2>2, SMTT(30) DEF ArgFirst, ArgEnd
  <2>4. /\ ScanTable(T)[w].mode # "out" /\ stop = Ends(ScanTable(T)[w].mode) \union {Nul}
        /\ ScanTable(T)[w].words = ScanTable(T)[i - 1].words /\ ScanTable(T)[w].word = SubSeq(T, a, w)
    <3>1. w \in 1..Len(T) /\ T[w] \in Chars /\ w - 1 \in 0..Len(T)
      BY <1>1, <1>2, <1>12, SMTT(30)
    <3>2. PICK s \in States : s = ScanTable(T)[w - 1]
      BY <3>1, ScanTyped
    <3>3. PICK c \in Chars : c = T[w]
      BY <3>1
    <3>4. PICK t : t = Scan(s, c)
      OBVIOUS
    <3>5. t = ScanTable(T)[w]
      BY <3>1, <3>2, <3>3, <3>4, ScanUnfold
    <3>6. s.mode = "out" /\ c \notin Blanks
      BY <1>9, <1>10, <1>12, <3>2, <3>3
    <3>7. CASE c = Quote
      <4>1. t.mode = "quoted" /\ t.words = s.words /\ t.word = s.word
        BY ONLY s \in States, c \in Chars, <3>4, <3>6, <3>7, ScanStep
      <4>2. a = w + 1 /\ SubSeq(T, w + 1, w) = <<>>
        BY <1>1, <2>1, <3>3, <3>7
      <4> QED
        BY <1>9, <2>2, <3>2, <3>3, <3>5, <3>7, <4>1, <4>2 DEF Ends
    <3>8. CASE c # Quote
      <4>1. t.mode = "word" /\ t.words = s.words /\ t.word = <<c>>
        BY ONLY s \in States, c \in Chars, <3>4, <3>6, <3>8, ScanStep
      <4>2. a = w
        BY <2>1, <3>3, <3>8
      <4>3. SubSeq(T, w, w) = <<T[w]>>
        <5>1. PICK b \in (w - 1)..Len(T) : b = w - 1
          BY <3>1
        <5>2. w \in 1..Len(T) /\ b < Len(T) /\ b + 1 = w
          BY <3>1, <5>1
        <5>3. Append(SubSeq(T, w, b), T[w]) = SubSeq(T, w, w)
          BY <5>2, SliceGrows
        <5>4. SubSeq(T, w, b) = <<>>
          BY <3>1, <5>1
        <5>5. Append(<<>>, c) = <<c>>
          OBVIOUS
        <5> QED
          BY <3>3, <5>3, <5>4, <5>5
      <4> QED
        BY <1>9, <2>2, <3>2, <3>3, <3>5, <3>8, <4>1, <4>2, <4>3 DEF Ends
    <3> QED
      BY <3>7, <3>8
  <2>5. d + a \in 1..(Len(mem) + 1)
    BY <1>1, <1>2, <1>12
  <2>6. PICK f \in (d + a)..(Len(mem) + 1) :
          /\ f = FirstOf(mem, d + a, stop) /\ (f <= Len(mem) => mem[f] \in stop)
          /\ \A k \in (d + a)..(f - 1) : mem[k] \notin stop
    <3>1. PICK p \in 1..(Len(mem) + 1) : p = d + a
      BY <2>5
    <3>2. PICK f \in p..(Len(mem) + 1) : f = FirstOf(mem, p, stop)
      BY <1>1, FirstOfFacts
    <3>3. (f <= Len(mem) => mem[f] \in stop) /\ \A k \in p..(f - 1) : mem[k] \notin stop
      <4>1. f <= Len(mem) => f \in DOMAIN mem
        BY <1>1
      <4> QED
        BY <1>1, <3>2, <4>1, FirstOfFacts
    <3> QED
      BY <3>1, <3>2, <3>3
  <2>7. f <= d + n + 1
    <3> SUFFICES ASSUME f > d + n + 1 PROVE FALSE
      BY <1>1
    <3>1. d + n + 1 \in (d + a)..(f - 1)
      BY <1>1, <1>12
    <3> QED
      BY <1>2, <2>4, <2>6, <3>1
  <2>8. PICK e \in a..(n + 1) : f = d + e
    <3>1. f - d \in a..(n + 1) /\ f = d + (f - d)
      BY <1>1, <2>7
    <3> QED
      BY <3>1
  <2>9. e >= w + 1
    <3>1. e # w
      <4> SUFFICES ASSUME e = w PROVE FALSE
        OBVIOUS
      <4>1. a = w /\ T[w] # Quote /\ f = d + w /\ f <= Len(mem)
        BY <1>1, <1>2, <1>12, <2>1, <2>8
      <4>2. mem[f] = T[w] /\ T[w] # Nul
        BY <1>1, <1>2, <1>12, <4>1
      <4> QED
        BY <1>10, <1>12, <2>2, <2>6, <4>1, <4>2
    <3> QED
      BY <1>1, <2>1, <3>1
  <2>10. \A k \in a..(e - 1) : mem[d + k] = T[k] /\ T[k] \notin stop
    <3> TAKE k \in a..(e - 1)
    <3>1. d + k \in (d + a)..(f - 1) /\ k \in i..n
      BY <1>1, <2>8
    <3> QED
      BY <1>2, <2>6, <3>1
  <2>11. PICK b \in w..n : b = e - 1
    BY <1>1, <2>8, <2>9
  <2>18. /\ 1 <= w /\ w <= a /\ a <= w + 1 /\ w <= b /\ b <= n /\ n <= Len(T) /\ d + n + 1 <= Len(mem)
         /\ a \in Nat /\ b \in Nat /\ w \in Nat /\ n \in Nat /\ Len(T) \in Nat
    BY <1>1, <1>2
  <2>12. /\ ScanTable(T)[b].mode # "out" /\ ScanTable(T)[b].mode = ScanTable(T)[w].mode
         /\ ScanTable(T)[b].words = ScanTable(T)[i - 1].words
         /\ ScanTable(T)[b].word = SubSeq(T, a, b)
    <3>1. w \in 0..Len(T) /\ b \in w..Len(T) /\ a \in 1..(w + 1)
      BY <2>18, SMTT(30)
    <3>2. \A k \in (w + 1)..b : T[k] \notin Ends(ScanTable(T)[w].mode)
      <4> TAKE k \in (w + 1)..b
      <4>1. k \in a..(e - 1)
        BY <2>11, <2>18
      <4> QED
        BY <2>4, <2>10, <4>1
    <3> QED
      BY <2>4, <3>1, <3>2, ScanIn
  <2>13. SubSeq(T, a, b) = SubSeq(mem, ArgFirst(mem, d + i), ArgEnd(mem, d + i) - 1)
    <3>1. a \in 1..(Len(T) + 1) /\ b \in (a - 1)..Len(T) /\ d + b <= Len(mem)
      BY <2>18
    <3>2. SubSeq(mem, d + a, d + b) = SubSeq(T, a, b)
      BY <2>10, <2>11, <3>1, SameSlice
    <3>3. d + b = f - 1
      BY <1>1, <2>8, <2>11
    <3> QED
      BY <2>3, <2>6, <3>2, <3>3
  <2>14. ASSUME e <= n
         PROVE  /\ ScanTable(T)[e].mode = "out" /\ ScanTable(T)[e].slack = 0
                /\ ScanTable(T)[e].words = ScanTable(T)[i - 1].words \o <<SubSeq(T, a, b)>>
    <3>1. e \in 1..Len(T) /\ e \in i..n /\ b \in 0..Len(T) /\ b = e - 1 /\ f <= Len(mem)
      <4>1. /\ e \in Nat /\ i \in Nat /\ d \in Nat /\ Len(mem) \in Nat
            /\ 1 <= i /\ i <= w /\ e >= w + 1
        BY <1>1, <2>9, SMTT(30)
      <4>2. b = e - 1 /\ f = d + e
        BY <2>8, <2>11
      <4> QED
        BY <2>14, <2>18, <4>1, <4>2, SMTT(30)
    <3>2. PICK s \in States : s = ScanTable(T)[b]
      BY <3>1, ScanTyped
    <3>3. PICK c \in Chars : c = T[e]
      BY <1>2, <3>1
    <3>4. PICK t : t = Scan(s, c)
      OBVIOUS
    <3>5. t = ScanTable(T)[e]
      BY <3>1, <3>2, <3>3, <3>4, ScanUnfold
    <3>6. s.mode # "out" /\ c \in Ends(s.mode)
      <4>1. T[e] \in stop /\ T[e] # Nul
        BY <1>2, <2>6, <2>8, <3>1
      <4> QED
        BY <2>4, <2>12, <3>2, <3>3, <4>1
    <3>7. t.mode = "out" /\ t.words = s.words \o <<s.word>> /\ t.slack = 0
      BY ONLY s \in States, c \in Chars, <3>4, <3>6, ScanStep
    <3> QED
      BY <2>12, <3>2, <3>5, <3>7
  <2>15. e = n + 1 => b = n
    BY <1>1, <2>11
  <2>16. e \in (i + 1)..(n + 1)
    BY <1>1, <2>8, <2>9
  <2>17. ArgEnd(mem, d + i) = d + e
    BY <2>3, <2>6, <2>8
  <2> QED
    BY <2>12, <2>13, <2>14, <2>15, <2>16, <2>17
<1>13. w = n + 1 \/ w <= n
  BY <1>1
<1> QED
  BY <1>11, <1>12, <1>13, Zenon

\* What the walk still collects where the text ends: nothing if it stops there,
\* otherwise the word that ends there, or an empty one, and what follows.
AtEnd(s, X) ==
  IF s.mode = "out" /\ s.slack = 0 THEN <<>>
  ELSE (IF s.mode = "out" THEN << <<>> >> ELSE <<s.word>>) \o X

\* From place i on the walk collects what the scanner still finds.
Agree(mem, d, T, n, X, i) ==
  \E R \in Seq(Strings) :
    /\ ScanTable(T)[n].words \o AtEnd(ScanTable(T)[n], X) = ScanTable(T)[i - 1].words \o R
    /\ Yields(mem, d + i, R)

LEMMA Walk ==
  ASSUME NEW mem \in Strings, NEW T \in Strings, NEW d \in Nat, NEW n \in 0..Len(T), NEW lo \in 1..(n + 1),
         Shows(mem, d, T, lo, n), NEW X \in Seq(Strings), Yields(mem, d + n + 2, X),
         NEW from \in lo..(n + 1), ScanTable(T)[from - 1].mode = "out",
         ScanTable(T)[from - 1].slack = 0 \/ from <= n
  PROVE  Agree(mem, d, T, n, X, from)
<1> DEFINE Final == ScanTable(T)[n].words \o AtEnd(ScanTable(T)[n], X)
           Good(i) == ScanTable(T)[i - 1].mode = "out" /\ (ScanTable(T)[i - 1].slack = 0 \/ i <= n) =>
                        \E R \in Seq(Strings) :
                          Final = ScanTable(T)[i - 1].words \o R /\ Yields(mem, d + i, R)
           Bad == {m \in 0..(n + 1 - lo) : ~Good(n + 1 - m)}
<1>1. /\ Len(T) \in Nat /\ n \in Nat /\ lo \in Nat /\ 1 <= lo /\ lo <= n + 1 /\ n <= Len(T) /\ Len(mem) \in Nat
      /\ DOMAIN mem = 1..Len(mem)
  BY DEF Strings
<1>2. /\ d + n + 1 \in 1..Len(mem) /\ mem[d + n + 1] = Nul
      /\ \A k \in lo..n : mem[d + k] = T[k] /\ T[k] # Nul
  BY DEF Shows
<1>3. ASSUME NEW i \in lo..(n + 1), \A j \in lo..(n + 1) : j > i => Good(j)
      PROVE  Good(i)
  <2> SUFFICES ASSUME ScanTable(T)[i - 1].mode = "out", ScanTable(T)[i - 1].slack = 0 \/ i <= n
               PROVE  \E R \in Seq(Strings) :
                        Final = ScanTable(T)[i - 1].words \o R /\ Yields(mem, d + i, R)
    OBVIOUS
  <2>1. CASE i = n + 1
    <3>1. i - 1 = n /\ ScanTable(T)[n].mode = "out" /\ ScanTable(T)[n].slack = 0
      BY <1>1, <2>1
    <3>2. Final = ScanTable(T)[i - 1].words \o <<>>
      BY <3>1 DEF AtEnd
    <3>3. d + i \in 1..(Len(mem) + 2) /\ At(mem, d + i) = Nul
      BY <1>1, <1>2, <2>1 DEF At
    <3>4. Yields(mem, d + i, <<>>)
      BY <3>3, YieldsNone
    <3>5. <<>> \in Seq(Strings)
      OBVIOUS
    <3> HIDE DEF Final
    <3> QED
      BY <3>2, <3>4, <3>5
  <2>2. CASE i \in lo..n
    <3>1. PICK x : x = SubSeq(mem, ArgFirst(mem, d + i), ArgEnd(mem, d + i) - 1)
      OBVIOUS
    <3>2. PICK e \in (i + 1)..(n + 1) :
            /\ ArgEnd(mem, d + i) = d + e
            /\ e <= n =>
                 /\ ScanTable(T)[e].mode = "out" /\ ScanTable(T)[e].slack = 0
                 /\ ScanTable(T)[e].words = ScanTable(T)[i - 1].words \o <<x>>
            /\ e = n + 1 =>
                 /\ ScanTable(T)[n].words = ScanTable(T)[i - 1].words
                 /\ ScanTable(T)[n].word = x
                 /\ ScanTable(T)[n].mode = "out" => ScanTable(T)[n].slack > 0 /\ ScanTable(T)[n].word = <<>>
      BY <2>2, <3>1, ArgumentAt, ZenonT(30)
    <3>3. /\ d + i \in 1..(Len(mem) + 1) /\ At(mem, d + i) # Nul
          /\ d + e + 1 = d + (e + 1) /\ d + (n + 1) + 1 = d + n + 2
      <4>1. i \in Nat /\ e \in Nat /\ 1 <= i /\ i <= n
        BY <1>1, <2>2
      <4>2. d + i \in 1..Len(mem) /\ mem[d + i] # Nul
        <5>1. mem[d + i] # Nul
          BY <1>2, <2>2
        <5>2. d + n + 1 <= Len(mem)
          BY <1>2
        <5>3. d + i \in 1..Len(mem)
          BY <1>1, <4>1, <5>2
        <5> QED
          BY <5>1, <5>3
      <4>3. At(mem, d + i) # Nul
        BY <1>1, <4>2 DEF At
      <4>4. d + e + 1 = d + (e + 1) /\ d + (n + 1) + 1 = d + n + 2
        BY <1>1, <4>1
      <4>5. d + i \in 1..(Len(mem) + 1)
        BY <1>1, <4>2
      <4> QED
        BY <4>3, <4>4, <4>5
    <3>4. x \in Strings
      BY <3>1, <3>3, ArgFacts
    <3>5. ScanTable(T)[i - 1].words \in Seq(Strings)
      <4>1. i - 1 \in 0..Len(T)
        BY <1>1
      <4> QED
        BY <4>1, ScanTyped DEF States
    <3>6. PICK W \in Seq(Strings) : W = ScanTable(T)[i - 1].words
      BY <3>5
    <3>7. ASSUME NEW R \in Seq(Strings), Yields(mem, d + (e + 1), R)
          PROVE  <<x>> \o R \in Seq(Strings) /\ Yields(mem, d + i, <<x>> \o R)
      <4>1. Yields(mem, ArgEnd(mem, d + i) + 1, R)
        BY <3>2, <3>3, <3>7
      <4>2. Yields(mem, d + i, <<SubSeq(mem, ArgFirst(mem, d + i), ArgEnd(mem, d + i) - 1)>> \o R)
        BY <3>3, <4>1, YieldsArg
      <4> QED
        BY <3>1, <3>4, <4>2
    <3>8. CASE e = n + 1
      <4>1. AtEnd(ScanTable(T)[n], X) = <<x>> \o X
        BY <3>2, <3>8 DEF AtEnd
      <4>2. Final = W \o (<<x>> \o X)
        BY <3>2, <3>6, <3>8, <4>1
      <4>3. Yields(mem, d + (e + 1), X)
        BY <3>3, <3>8
      <4> HIDE DEF Final
      <4> QED
        BY <3>6, <3>7, <4>2, <4>3
    <3>9. CASE e <= n
      <4>1. e + 1 \in lo..(n + 1) /\ e + 1 > i /\ (e + 1) - 1 = e
        BY <1>1, <3>9
      <4>2. Good(e + 1)
        BY <1>3, <4>1
      <4>3. PICK R \in Seq(Strings) :
              Final = ScanTable(T)[e].words \o R /\ Yields(mem, d + (e + 1), R)
        <5> HIDE DEF Final
        <5> QED
          BY <3>2, <3>9, <4>1, <4>2
      <4>4. ScanTable(T)[e].words = W \o <<x>>
        BY <3>2, <3>6, <3>9
      <4>5. (W \o <<x>>) \o R = W \o (<<x>> \o R)
        <5>1. <<x>> \in Seq(Strings)
          BY <3>4
        <5>2. \A p \in Seq(Strings), q \in Seq(Strings) : (W \o p) \o q = W \o (p \o q)
          BY ONLY W \in Seq(Strings), ConcatAssociative
        <5> QED
          BY <4>3, <5>1, <5>2
      <4> HIDE DEF Final
      <4> QED
        BY <3>6, <3>7, <4>3, <4>4, <4>5
    <3>10. e = n + 1 \/ e <= n
      BY <1>1
    <3> QED
      BY <3>8, <3>9, <3>10, Zenon
  <2>3. i = n + 1 \/ i \in lo..n
    BY <1>1
  <2> QED
    BY <2>1, <2>2, <2>3, Zenon
<1> HIDE DEF Good
<1>4. Bad = {}
  <2> SUFFICES ASSUME Bad # {} PROVE FALSE
    OBVIOUS
  <2>1. Bad \in SUBSET Nat
    OBVIOUS
  <2>2. PICK m \in Bad : \A k \in Bad : m <= k
    <3> HIDE DEF Bad
    <3> QED
      BY <2>1, LeastNat
  <2>3. PICK i \in lo..(n + 1) : i = n + 1 - m
    BY <1>1
  <2>4. ASSUME NEW j \in lo..(n + 1), j > i PROVE Good(j)
    <3>1. n + 1 - j \in 0..(n + 1 - lo) /\ n + 1 - (n + 1 - j) = j /\ ~(m <= n + 1 - j)
      BY <1>1, <2>3, <2>4
    <3>2. n + 1 - j \notin Bad
      BY <2>2, <3>1
    <3> QED
      BY <3>1, <3>2
  <2>5. Good(i)
    BY <1>3, <2>4
  <2> QED
    BY <2>3, <2>5
<1>5. Good(from)
  <2>1. n + 1 - from \in 0..(n + 1 - lo) /\ n + 1 - (n + 1 - from) = from
    BY <1>1
  <2> QED
    BY <1>4, <2>1
<1> QED
  BY <1>5 DEF Good, Agree

\* From a place before the first word: all of them.
CollectsAll(mem, d, T, n, X, i) ==
  /\ ScanTable(T)[n].words \o AtEnd(ScanTable(T)[n], X) \in Seq(Strings)
  /\ Yields(mem, d + i, ScanTable(T)[n].words \o AtEnd(ScanTable(T)[n], X))

LEMMA Collected ==
  ASSUME NEW mem \in Strings, NEW T \in Strings, NEW d \in Nat, NEW n \in 0..Len(T),
         Shows(mem, d, T, 1, n), NEW X \in Seq(Strings), Yields(mem, d + n + 2, X),
         NEW i \in 1..(n + 1), i = 1 \/ i <= n, \A k \in 1..(i - 1) : T[k] \in Blanks
  PROVE  CollectsAll(mem, d, T, n, X, i)
<1>1. Len(T) \in Nat /\ n \in Nat
  BY DEF Strings
<1>2. ScanTable(T)[0].mode = "out" /\ ScanTable(T)[0].words = <<>> /\ ScanTable(T)[0].slack = 0
  BY ScanUnfold DEF Scanner
<1>3. ScanTable(T)[i - 1].mode = "out" /\ ScanTable(T)[i - 1].words = <<>>
      /\ (ScanTable(T)[i - 1].slack = 0 \/ i <= n)
  <2>1. PICK b \in 0..Len(T) : b = i - 1
    BY <1>1
  <2>2. 0 \in 0..Len(T) /\ b \in 0..Len(T) /\ \A k \in (0 + 1)..b : T[k] \in Blanks
    BY <1>1, <2>1
  <2>3. /\ ScanTable(T)[b].mode = "out" /\ ScanTable(T)[b].words = ScanTable(T)[0].words
        /\ ScanTable(T)[b].slack = ScanTable(T)[0].slack + (b - 0)
    BY <1>2, <2>2, ScanBlanks
  <2>4. i = 1 => ScanTable(T)[b].slack = 0
    BY <1>2, <2>1
  <2> QED
    BY <1>2, <2>1, <2>3, <2>4
<1>4. 1 \in 1..(n + 1) /\ i \in 1..(n + 1)
  BY <1>1
<1>5. PICK R \in Seq(Strings) :
        /\ ScanTable(T)[n].words \o AtEnd(ScanTable(T)[n], X) = ScanTable(T)[i - 1].words \o R
        /\ Yields(mem, d + i, R)
  <2>1. PICK lo \in 1..(n + 1) : lo = 1
    BY <1>4
  <2>2. Shows(mem, d, T, lo, n) /\ i \in lo..(n + 1)
    BY <2>1
  <2>3. ScanTable(T)[i - 1].mode = "out"
    BY <1>3
  <2>4. ScanTable(T)[i - 1].slack = 0 \/ i <= n
    BY <1>3
  <2>5. Shows(mem, d, T, lo, n)
    BY <2>1
  <2>6. i \in lo..(n + 1)
    BY <2>1
  <2>7. Agree(mem, d, T, n, X, i)
    BY <2>3, <2>4, <2>5, <2>6, Walk
  <2> QED
    BY <2>7 DEF Agree
<1>6. ScanTable(T)[n].words \o AtEnd(ScanTable(T)[n], X) = R
  BY <1>3, <1>5, ConcatEmptySeq
<1> QED
  BY <1>5, <1>6 DEF CollectsAll

\* Blanks at the end do not matter, if they are not inside quotes.
LEMMA WordsTrimmed ==
  ASSUME NEW T \in Strings, NEW n \in 0..Len(T), n = 0 \/ T[n] \notin Blanks,
         \A k \in (n + 1)..Len(T) : T[k] \in Blanks, Scanned(T).mode = "out"
  PROVE  /\ Words(T) = ScanTable(T)[n].words \o AtEnd(ScanTable(T)[n], <<>>)
         /\ Words(T) \in Seq(Strings)
<1>1. /\ Len(T) \in Nat /\ n \in Nat /\ Len(T) \in n..Len(T) /\ n \in n..Len(T) /\ Len(T) \in 0..Len(T)
      /\ \A i \in 1..Len(T) : T[i] \in Chars
  BY DEF Strings
<1>2. PICK s \in States : s = ScanTable(T)[n]
  BY ScanTyped
<1>3. s.words \in Seq(Strings) /\ s.word \in Strings
  BY <1>2 DEF States
<1>4. Scanned(T) = ScanTable(T)[Len(T)]
  BY ScanUnfold
<1>5. Words(T) = ScanTable(T)[Len(T)].words
  BY <1>4 DEF Words
<1>6. ASSUME NEW i \in n..Len(T), i < Len(T)
      PROVE  /\ i + 1 \in 1..Len(T) /\ i + 1 \in n..Len(T) /\ i \in 0..Len(T) /\ T[i + 1] \in Chars
             /\ ScanTable(T)[i] \in States /\ T[i + 1] \in Blanks
             /\ ScanTable(T)[i + 1] = Scan(ScanTable(T)[i], T[i + 1])
  <2>1. i + 1 \in 1..Len(T) /\ i + 1 \in n..Len(T) /\ i \in 0..Len(T) /\ i + 1 \in (n + 1)..Len(T) /\ (i + 1) - 1 = i
    BY <1>1, <1>6
  <2> QED
    BY <1>1, <2>1, ScanTyped, ScanUnfold
<1>7. CASE s.mode = "out"
  <2>1. s.slack = 0
    <3>1. CASE n = 0
      BY <1>2, <3>1, ScanUnfold DEF Scanner
    <3>2. CASE n # 0
      <4>1. n \in 1..Len(T) /\ n - 1 \in 0..Len(T) /\ T[n] \notin Blanks
        BY <1>1, <3>2
      <4>2. PICK r \in States : r = ScanTable(T)[n - 1]
        BY <4>1, ScanTyped
      <4>3. PICK c \in Chars : c = T[n]
        BY <1>1, <4>1
      <4>4. PICK t : t = Scan(r, c)
        OBVIOUS
      <4>5. t = s
        BY <1>2, <4>1, <4>2, <4>3, <4>4, ScanUnfold
      <4>6. t.mode = "out" /\ c \notin Blanks
        BY <1>7, <4>1, <4>3, <4>5
      <4>7. t.slack = 0
        <5>1. CASE r.mode = "out" /\ c = Quote
          BY ONLY r \in States, c \in Chars, <4>4, <4>6, <5>1, ScanStep
        <5>2. CASE r.mode = "out" /\ c # Quote
          BY ONLY r \in States, c \in Chars, <4>4, <4>6, <5>2, ScanStep
        <5>3. CASE r.mode # "out" /\ c \in Ends(r.mode)
          <6>1. t.mode = "out" /\ t.words = r.words \o <<r.word>> /\ t.word = <<>> /\ t.slack = 0
            BY ONLY r \in States, c \in Chars, <4>4, <5>3, ScanStep
          <6> QED
            BY <6>1
        <5>4. CASE r.mode # "out" /\ c \notin Ends(r.mode)
          BY ONLY r \in States, c \in Chars, <4>4, <4>6, <5>4, ScanStep
        <5> QED
          BY <5>1, <5>2, <5>3, <5>4
      <4> QED
        BY <4>5, <4>7
    <3> QED
      BY <3>1, <3>2
  <2>2. ScanTable(T)[Len(T)].words = s.words
    <3>1. ScanTable(T)[n].mode = "out"
      BY <1>2, <1>7
    <3>2. ScanTable(T)[Len(T)].words = ScanTable(T)[n].words
      BY <1>1, <3>1, ScanBlanks
    <3> QED
      BY <1>2, <3>2
  <2>3. AtEnd(s, <<>>) = <<>>
    BY <1>7, <2>1 DEF AtEnd
  <2>4. s.words \o <<>> = s.words
    BY <1>3, ConcatEmptySeq
  <2> QED
    BY <1>2, <1>3, <1>5, <2>2, <2>3, <2>4
<1>8. CASE s.mode = "quoted"
  <2> DEFINE G == {i \in n..Len(T) : ScanTable(T)[i].mode = "quoted"}
  <2>1. ASSUME NEW i \in n..Len(T), i < Len(T), i \in G PROVE i + 1 \in G
    <3>1. PICK r \in States : r = ScanTable(T)[i]
      BY <1>6, <2>1
    <3>2. PICK c \in Chars : c = T[i + 1]
      BY <1>6, <2>1
    <3>3. PICK t : t = Scan(r, c)
      OBVIOUS
    <3>4. r.mode # "out" /\ r.mode = "quoted"
      BY <2>1, <3>1
    <3>5. c \notin Ends(r.mode)
      <4>1. c \in Blanks
        BY <1>6, <2>1, <3>2
      <4> QED
        BY <3>4, <4>1 DEF Ends, Blanks, Quote, Space, Tab, Newline
    <3>6. t.mode = r.mode
      BY ONLY r \in States, c \in Chars, <3>3, <3>4, <3>5, ScanStep
    <3> QED
      BY <1>6, <2>1, <3>1, <3>2, <3>3, <3>4, <3>6
  <2>2. n \in G
    BY <1>1, <1>2, <1>8
  <2>3. Len(T) \in G
    <3> HIDE DEF G
    <3> QED
      BY <1>1, <2>1, <2>2, CountUp
  <2> QED
    BY <1>4, <2>3
<1>9. CASE s.mode = "word"
  <2>1. n < Len(T)
    BY <1>1, <1>2, <1>4, <1>9
  <2>2. PICK c \in Chars : c = T[n + 1]
    BY <1>1, <1>6, <2>1
  <2>3. PICK t : t = Scan(s, c)
    OBVIOUS
  <2>4. c \in Blanks /\ t = ScanTable(T)[n + 1] /\ n + 1 \in 1..Len(T)
    BY <1>1, <1>2, <1>6, <2>1, <2>2, <2>3
  <2>5. s.mode # "out" /\ c \in Ends(s.mode)
    BY <1>9, <2>4 DEF Ends
  <2>6. t.mode = "out" /\ t.words = s.words \o <<s.word>>
    BY ONLY s \in States, c \in Chars, <2>3, <2>5, ScanStep
  <2>7. ScanTable(T)[Len(T)].words = t.words
    <3>1. PICK a \in 0..Len(T) : a = n + 1
      BY <1>1, <2>1
    <3>2. Len(T) \in a..Len(T) /\ \A k \in (a + 1)..Len(T) : T[k] \in Blanks
      BY <1>1, <2>1, <3>1
    <3>3. ScanTable(T)[a].mode = "out"
      BY <2>4, <2>6, <3>1
    <3>4. ScanTable(T)[Len(T)].words = ScanTable(T)[a].words
      BY <3>2, <3>3, ScanBlanks
    <3> QED
      BY <2>4, <3>1, <3>4
  <2>8. AtEnd(s, <<>>) = <<s.word>>
    <3>1. <<s.word>> \in Seq(Strings)
      BY <1>3
    <3> QED
      BY <1>9, <3>1, ConcatEmptySeq DEF AtEnd
  <2>9. s.words \o <<s.word>> \in Seq(Strings)
    BY <1>3
  <2> QED
    BY <1>2, <1>5, <2>6, <2>7, <2>8, <2>9
<1> QED
  BY <1>7, <1>8, <1>9 DEF States

\* Behind a closed text there is nothing left to collect.
LEMMA WordsClosed ==
  ASSUME NEW T \in Strings, Closed(T), NEW X
  PROVE  Words(T) = ScanTable(T)[Len(T)].words \o AtEnd(ScanTable(T)[Len(T)], X)
<1>1. PICK s : s = Scanned(T)
  OBVIOUS
<1>2. s = ScanTable(T)[Len(T)]
  BY <1>1, ScanUnfold
<1>3. s \in States
  <2>1. Len(T) \in 0..Len(T)
    BY DEF Strings
  <2> QED
    BY <1>2, <2>1, ScanTyped
<1>4. s.mode = "out" /\ s.slack = 0
  BY <1>1 DEF Closed
<1>5. Words(T) = s.words /\ AtEnd(s, X) = <<>>
  BY <1>1, <1>4 DEF Words, AtEnd
<1>6. s.words \o <<>> = s.words
  BY <1>3, ConcatEmptySeq DEF States
<1> QED
  BY <1>2, <1>5, <1>6

-----------------------------------------------------------------------------
(* The line that is taken apart. *)

LEMMA LastPrintableFacts ==
  ASSUME NEW str \in Strings
  PROVE  /\ LastPrintable(str) \in 0..Len(str)
         /\ LastPrintable(str) = 0 \/ str[LastPrintable(str)] \notin Blanks
         /\ \A k \in (LastPrintable(str) + 1)..Len(str) : str[k] \in Blanks
<1> DEFINE P == {j \in 1..Len(str) : str[j] \notin Blanks} \union {0}
           D == {k \in 0..Len(str) : Len(str) - k \in P}
<1>1. Len(str) \in Nat
  BY DEF Strings
<1>2. Len(str) \in D /\ D \in SUBSET Nat
  BY <1>1
<1>3. PICK d \in D : \A k \in D : d <= k
  <2> HIDE DEF D
  <2> QED
    BY <1>2, LeastNat
<1>4. Len(str) - d \in P /\ \A y \in P : Len(str) - d >= y
  <2>1. ASSUME NEW y \in P PROVE Len(str) - d >= y
    <3>1. y \in 0..Len(str) /\ d \in 0..Len(str) /\ Len(str) - (Len(str) - y) = y
      BY <1>1
    <3>2. Len(str) - y \in D
      BY <1>1, <3>1
    <3>3. d <= Len(str) - y
      BY <1>3, <3>2
    <3> QED
      BY <1>1, <3>1, <3>3
  <2> QED
    BY <2>1
<1>5. LastPrintable(str) = Max(P)
  BY DEF LastPrintable
<1>6. Max(P) \in P /\ \A y \in P : Max(P) >= y
  <2> HIDE DEF P
  <2> QED
    BY <1>4 DEF Max
<1>7. PICK last \in P : last = LastPrintable(str) /\ \A y \in P : last >= y
  BY <1>5, <1>6
<1>8. \A k \in (last + 1)..Len(str) : str[k] \in Blanks
  <2> SUFFICES ASSUME NEW k \in (last + 1)..Len(str), str[k] \notin Blanks PROVE FALSE
    OBVIOUS
  <2>1. last \in Nat /\ k \in P
    BY <1>1
  <2> QED
    BY <1>7, <2>1
<1> QED
  BY <1>1, <1>7, <1>8

\* A line in the buffer, of which the first last chars are left, without the pipe.
Shape(text, mem, pos, last) ==
  /\ Len(text) < BUFLEN /\ pos \in 0..last
  /\ \A k \in 1..last : k # pos => mem[k] = text[k]
  /\ \A k \in (last + 1)..(Len(text) + 1) : mem[k] = Nul
  /\ last = 0 \/ text[last] \notin Blanks
  /\ \A k \in (last + 1)..Len(text) : text[k] \in Blanks
  /\ pos > 0 => mem[pos] = Nul /\ text[pos] = Pipe /\ \A k \in 1..(pos - 1) : text[k] # Pipe

\* A line in the buffer up to its pipe, whatever follows.
UpToPipe(text, mem, pos) ==
  /\ pos \in 1..Len(text) /\ text[pos] = Pipe /\ mem[pos] = Nul
  /\ \A k \in 1..(pos - 1) : mem[k] = text[k] /\ text[k] # Pipe /\ text[k] # Nul

LEMMA BufferStart ==
  ASSUME NEW got \in Strings, NEW old \in Strings, Len(old) = BUFLEN, Len(got) < BUFLEN, NEW mem,
         mem = got \o <<Nul>> \o SubSeq(old, Len(got) + 2, BUFLEN)
  PROVE  mem[Len(got) + 1] = Nul /\ \A k \in 1..Len(got) : mem[k] = got[k]
<1>1. PICK m \in Nat : m = Len(got)
  BY DEF Strings
<1>2. PICK a \in 1..(BUFLEN + 1) : a = m + 2
  BY <1>1, BuflenAssumption
<1>3. SubSeq(old, a, BUFLEN) \in Strings
  <2>1. a \in 1..(Len(old) + 1) /\ BUFLEN \in (a - 1)..Len(old)
    BY <1>1, <1>2, BuflenAssumption
  <2> QED
    BY <2>1, Slice
<1>4. PICK tail \in Strings : tail = SubSeq(old, a, BUFLEN)
  BY <1>3
<1>5. PICK head \in Strings : head = got \o <<Nul>>
  <2>1. <<Nul>> \in Seq(Chars)
    BY DEF Chars
  <2>2. got \o <<Nul>> \in Strings
    BY <2>1 DEF Strings
  <2> QED
    BY ONLY <2>2, Zenon
<1>6. Len(head) = m + 1 /\ head[m + 1] = Nul /\ \A k \in 1..m : head[k] = got[k]
  <2>1. <<Nul>> \in Seq(Chars) /\ Len(<<Nul>>) = 1 /\ <<Nul>>[1] = Nul
    BY DEF Chars
  <2> QED
    BY <1>1, <1>5, <2>1, ConcatProperties DEF Strings
<1>7. \A k \in 1..(m + 1) : (head \o tail)[k] = head[k]
  BY <1>4, <1>5, <1>6, ConcatProperties DEF Strings
<1>8. mem = head \o tail
  BY <1>1, <1>2, <1>4, <1>5
<1> QED
  BY <1>1, <1>6, <1>7, <1>8

\* What trimstring and strchr make of a line without a Nul.
LEMMA LineTaken ==
  ASSUME NEW got \in Strings, NEW mem \in Strings, Len(mem) = BUFLEN, Len(got) < BUFLEN,
         mem[Len(got) + 1] = Nul, \A k \in 1..Len(got) : mem[k] = got[k] /\ got[k] # Nul,
         NEW pos, pos = PipePos(TrimString(mem)),
         NEW ln, ln = IF pos > 0 THEN [TrimString(mem) EXCEPT ![pos] = Nul] ELSE TrimString(mem)
  PROVE  \E last \in 0..Len(got) : Shape(got, ln, pos, last)
<1>1. PICK m \in Nat : m = Len(got)
  BY DEF Strings
<1>2. /\ BUFLEN \in Nat /\ m < BUFLEN /\ mem[m + 1] = Nul /\ DOMAIN mem = 1..BUFLEN
      /\ \A k \in 1..m : mem[k] = got[k] /\ got[k] # Nul
  BY <1>1, BuflenAssumption DEF Strings
<1>3. StrAt(mem, 1) = got
  <2>1. 1 \in 1..(Len(mem) + 1) /\ m + 1 \in 1..(Len(mem) + 1) /\ mem[m + 1] \in {Nul}
    BY <1>2
  <2>2. \A k \in 1..((m + 1) - 1) : mem[k] \notin {Nul}
    BY <1>2
  <2>3. FirstOf(mem, 1, {Nul}) = m + 1
    BY <2>1, <2>2, FirstOfIs
  <2>4. StrAt(mem, 1) = SubSeq(mem, 0 + 1, 0 + m)
    <3>1. (m + 1) - 1 = 0 + m /\ 0 + 1 = 1
      OBVIOUS
    <3> QED
      BY <2>3, <3>1 DEF StrAt
  <2>5. 1 \in 1..(Len(got) + 1) /\ m \in (1 - 1)..Len(got) /\ 0 + m <= Len(mem)
        /\ \A k \in 1..m : mem[0 + k] = got[k]
    BY <1>1, <1>2
  <2>6. SubSeq(mem, 0 + 1, 0 + m) = SubSeq(got, 1, m)
    BY <2>5, SameSlice
  <2>7. SubSeq(got, 1, m) = got
    BY <1>1, SubSeqFull DEF Strings
  <2> QED
    BY <2>4, <2>6, <2>7
<1>4. PICK last \in 0..m : last = LastPrintable(got)
  BY <1>1, LastPrintableFacts
<1>5. /\ last = 0 \/ got[last] \notin Blanks
      /\ \A k \in (last + 1)..m : got[k] \in Blanks
  BY <1>1, <1>4, LastPrintableFacts
<1>6. PICK str : str = TrimString(mem)
  OBVIOUS
<1>7. str = [j \in 1..BUFLEN |-> IF j \in (last + 1)..m THEN Nul ELSE mem[j]]
  BY <1>1, <1>3, <1>4, <1>6 DEF TrimString
<1>8. /\ DOMAIN str = 1..BUFLEN /\ Len(str) = BUFLEN
      /\ \A k \in 1..last : str[k] = got[k] /\ got[k] # Nul
      /\ \A k \in (last + 1)..(m + 1) : str[k] = Nul
  <2>1. DOMAIN str = 1..BUFLEN /\ Len(str) = BUFLEN
    BY <1>2, <1>7
  <2>2. ASSUME NEW k \in 1..last PROVE str[k] = got[k] /\ got[k] # Nul
    <3>1. k \in 1..BUFLEN /\ k \notin (last + 1)..m /\ k \in 1..m
      BY <1>2
    <3> QED
      BY <1>2, <1>7, <3>1
  <2>3. ASSUME NEW k \in (last + 1)..(m + 1) PROVE str[k] = Nul
    <3>1. k \in 1..BUFLEN /\ (k \in (last + 1)..m \/ k = m + 1)
      BY <1>2
    <3> QED
      BY <1>2, <1>7, <3>1
  <2> QED
    BY <2>1, <2>2, <2>3
<1>9. PICK p : p = FirstOf(str, 1, {Pipe, Nul})
  OBVIOUS
<1>10. /\ p \in 1..(BUFLEN + 1) /\ (p \in DOMAIN str => str[p] \in {Pipe, Nul})
       /\ \A k \in 1..(p - 1) : str[k] \notin {Pipe, Nul}
  <2>1. Len(str) \in Nat /\ DOMAIN str = 1..Len(str) /\ 1 \in 1..(Len(str) + 1)
    BY <1>2, <1>8
  <2> QED
    BY <1>8, <1>9, <2>1, FirstOfFacts
<1>11. p <= last + 1
  <2> SUFFICES ASSUME p > last + 1 PROVE FALSE
    BY <1>2, <1>10
  <2>1. last + 1 \in 1..(p - 1) /\ last + 1 \in (last + 1)..(m + 1)
    BY <1>2, <1>10
  <2> QED
    BY <1>8, <1>10, <2>1
<1>12. pos = IF str[p] = Pipe THEN p ELSE 0
  <2>1. p \in DOMAIN str
    BY <1>2, <1>8, <1>10, <1>11
  <2> QED
    BY <1>6, <1>9, <2>1 DEF PipePos, At
<1>13. Nul # Pipe
  BY DEF Nul, Pipe
<1>14. pos > 0 => pos = p /\ str[p] = Pipe /\ p \in 1..last
  <2> SUFFICES ASSUME pos > 0 PROVE pos = p /\ str[p] = Pipe /\ p \in 1..last
    OBVIOUS
  <2>1. pos = p /\ str[p] = Pipe
    BY <1>12
  <2>2. p # last + 1
    BY <1>2, <1>8, <1>13, <2>1
  <2> QED
    BY <1>2, <1>10, <1>11, <2>1, <2>2
<1>15. pos \in 0..last /\ (~(pos > 0) => pos = 0)
  BY <1>10, <1>12, <1>14
<1>16. /\ \A k \in 1..BUFLEN : k # pos => ln[k] = str[k]
       /\ pos > 0 => ln[pos] = Nul
  <2>1. ln = IF pos > 0 THEN [str EXCEPT ![pos] = Nul] ELSE str
    BY <1>6
  <2>2. pos > 0 => pos \in DOMAIN str
    BY <1>2, <1>8, <1>14
  <2>3. str = [j \in 1..BUFLEN |-> str[j]]
    BY <1>7
  <2> QED
    BY <1>8, <2>1, <2>2, <2>3
<1>17. Shape(got, ln, pos, last)
  <2>1. \A k \in 1..last : k # pos => ln[k] = got[k]
    BY <1>2, <1>8, <1>16
  <2>2. \A k \in (last + 1)..(m + 1) : ln[k] = Nul
    <3> TAKE k \in (last + 1)..(m + 1)
    <3>1. k \in 1..BUFLEN /\ k # pos
      BY <1>2, <1>15
    <3> QED
      BY <1>8, <1>16, <3>1
  <2>3. pos > 0 => got[pos] = Pipe /\ \A k \in 1..(pos - 1) : got[k] # Pipe
    <3> SUFFICES ASSUME pos > 0 PROVE got[pos] = Pipe /\ \A k \in 1..(pos - 1) : got[k] # Pipe
      OBVIOUS
    <3>1. pos = p /\ str[p] = Pipe /\ p \in 1..last
      BY <1>14
    <3>2. got[p] = Pipe
      BY <1>8, <3>1
    <3>3. ASSUME NEW k \in 1..(p - 1) PROVE got[k] # Pipe
      <4>1. k \in 1..last
        BY <3>1
      <4> QED
        BY <1>8, <1>10, <4>1
    <3> QED
      BY <3>1, <3>2, <3>3
  <2> QED
    BY <1>1, <1>2, <1>5, <1>15, <1>16, <2>1, <2>2, <2>3 DEF Shape
<1> QED
  BY <1>1, <1>17

\* What strchr makes of any line in which it finds a pipe.
LEMMA PipeTaken ==
  ASSUME NEW got \in Strings, NEW mem \in Strings, Len(mem) = BUFLEN, Len(got) < BUFLEN,
         mem[Len(got) + 1] = Nul, \A k \in 1..Len(got) : mem[k] = got[k],
         NEW pos, pos = PipePos(TrimString(mem)), pos > 0,
         NEW ln, ln = [TrimString(mem) EXCEPT ![pos] = Nul]
  PROVE  UpToPipe(got, ln, pos)
<1>1. PICK m \in Nat : m = Len(got)
  BY DEF Strings
<1>2. BUFLEN \in Nat /\ m < BUFLEN /\ mem[m + 1] = Nul /\ \A k \in 1..m : mem[k] = got[k]
  BY <1>1, BuflenAssumption
<1>3. PICK str : str = TrimString(mem)
  OBVIOUS
<1>4. /\ str = [j \in 1..BUFLEN |-> str[j]] /\ Len(str) = BUFLEN
      /\ \A j \in 1..BUFLEN : str[j] = mem[j] \/ str[j] = Nul
  <2>1. PICK L : L = LastPrintable(StrAt(mem, 1))+1..Len(StrAt(mem, 1))
    OBVIOUS
  <2>2. str = [j \in 1..BUFLEN |-> IF j \in L THEN Nul ELSE mem[j]]
    BY <1>3, <2>1 DEF TrimString
  <2>3. str = [j \in 1..BUFLEN |-> str[j]] /\ \A j \in 1..BUFLEN : str[j] = mem[j] \/ str[j] = Nul
    BY <2>2
  <2> QED
    BY <1>2, <2>3
<1>5. PICK p \in 1..(BUFLEN + 1) : /\ p = FirstOf(str, 1, {Pipe, Nul})
                                   /\ \A k \in 1..(p - 1) : str[k] \notin {Pipe, Nul}
  <2>1. Len(str) \in Nat /\ DOMAIN str = 1..Len(str) /\ 1 \in 1..(Len(str) + 1)
    BY <1>2, <1>4
  <2>2. /\ FirstOf(str, 1, {Pipe, Nul}) \in 1..(Len(str) + 1)
        /\ \A k \in 1..(FirstOf(str, 1, {Pipe, Nul}) - 1) : str[k] \notin {Pipe, Nul}
    BY ONLY <2>1, FirstOfFacts
  <2> QED
    BY ONLY <1>4, <2>2, Zenon
<1>6. pos = p /\ p \in 1..BUFLEN /\ str[p] = Pipe
  <2>1. At(str, p) = Pipe /\ pos = p
    BY <1>3, <1>5 DEF PipePos
  <2> QED
    BY <1>4, <2>1 DEF At, Nul, Pipe
<1>7. p <= m
  <2>1. m + 1 \in 1..BUFLEN /\ str[m + 1] = Nul
    BY <1>2, <1>4
  <2>2. p # m + 1
    BY <1>6, <2>1 DEF Nul, Pipe
  <2>3. ~(m + 1 \in 1..(p - 1))
    BY <1>5, <2>1
  <2> QED
    BY <1>2, <2>2, <2>3
<1>8. \A k \in 1..p : k \in 1..BUFLEN /\ k \in 1..m
  BY <1>2, <1>7
<1>9. got[p] = Pipe /\ \A k \in 1..(p - 1) : str[k] = got[k] /\ got[k] # Pipe /\ got[k] # Nul
  <2>1. str[p] = got[p]
    BY <1>2, <1>4, <1>6, <1>8 DEF Nul, Pipe
  <2>2. ASSUME NEW k \in 1..(p - 1) PROVE str[k] = got[k] /\ got[k] # Pipe /\ got[k] # Nul
    <3>2. k \in 1..p
      BY ONLY k \in 1..(p - 1), p \in 1..(BUFLEN + 1), <1>2
    <3>3. str[k] \notin {Pipe, Nul}
      BY <1>5, Zenon
    <3>1. k \in 1..BUFLEN /\ k \in 1..m /\ str[k] \notin {Pipe, Nul}
      BY <1>8, <3>2, <3>3
    <3> QED
      BY <1>2, <1>4, <3>1
  <2> QED
    BY <1>6, <2>1, <2>2
<1>10. ln[p] = Nul /\ \A k \in 1..(p - 1) : ln[k] = str[k]
  <2>1. ln = [str EXCEPT ![p] = Nul]
    BY <1>3, <1>6
  <2> QED
    BY <1>4, <1>6, <1>8, <2>1
<1> QED
  BY <1>1, <1>6, <1>7, <1>9, <1>10 DEF UpToPipe

LEMMA AroundPipe ==
  ASSUME Text \in Strings, UpToPipe(Text, line, right)
  PROVE  /\ TextBefore \in Strings /\ Len(TextBefore) = right - 1
         /\ \A k \in 1..(right - 1) : TextBefore[k] = Text[k]
         /\ TextAfter \in Strings /\ Len(TextAfter) = Len(Text) - right
         /\ \A k \in 1..(Len(Text) - right) : TextAfter[k] = Text[right + k]
<1>1. PICK p \in 1..Len(Text) : p = right
  BY DEF UpToPipe
<1>2. PICK text \in Strings : text = Text
  OBVIOUS
<1>3. Len(text) \in Nat /\ p \in 1..Len(text)
  BY <1>1, <1>2 DEF Strings
<1>4. FirstOf(text, 1, {Pipe}) = p
  <2>1. text[p] = Pipe /\ \A k \in 1..(p - 1) : text[k] # Pipe
    BY <1>1, <1>2 DEF UpToPipe
  <2>2. 1 \in 1..(Len(text) + 1) /\ p \in 1..(Len(text) + 1) /\ text[p] \in {Pipe}
        /\ \A k \in 1..(p - 1) : text[k] \notin {Pipe}
    BY <1>3, <2>1
  <2> QED
    BY <2>2, FirstOfIs
<1>5. TextBefore = SubSeq(text, 1, p - 1) /\ TextAfter = SubSeq(text, p + 1, Len(text))
  BY <1>2, <1>4 DEF TextBefore, TextAfter
<1>6. PICK b \in (1 - 1)..Len(text) : b = p - 1
  BY <1>3
<1>7. PICK a \in 1..(Len(text) + 1) : a = p + 1
  BY <1>3
<1>8. /\ SubSeq(text, 1, b) \in Strings /\ Len(SubSeq(text, 1, b)) = b - 1 + 1
      /\ \A k \in 1..(b - 1 + 1) : SubSeq(text, 1, b)[k] = text[1 + k - 1]
  <2>1. 1 \in 1..(Len(text) + 1)
    BY <1>3
  <2> QED
    BY <2>1, Slice
<1>9. /\ SubSeq(text, a, Len(text)) \in Strings /\ Len(SubSeq(text, a, Len(text))) = Len(text) - a + 1
      /\ \A k \in 1..(Len(text) - a + 1) : SubSeq(text, a, Len(text))[k] = text[a + k - 1]
  <2>1. Len(text) \in (a - 1)..Len(text)
    BY <1>3, <1>7
  <2> QED
    BY <2>1, Slice
<1>10. b - 1 + 1 = p - 1 /\ \A k \in 1..(p - 1) : 1 + k - 1 = k
  BY <1>3, <1>6
<1>11. Len(text) - a + 1 = Len(text) - p /\ \A k \in 1..(Len(text) - p) : a + k - 1 = p + k
  BY <1>3, <1>7
<1>12. TextBefore \in Strings /\ Len(TextBefore) = p - 1 /\ \A k \in 1..(p - 1) : TextBefore[k] = text[k]
  BY <1>5, <1>6, <1>8, <1>10
<1>13. TextAfter \in Strings /\ Len(TextAfter) = Len(text) - p
       /\ \A k \in 1..(Len(text) - p) : TextAfter[k] = text[p + k]
  BY <1>5, <1>7, <1>9, <1>11
<1> QED
  BY <1>1, <1>2, <1>12, <1>13

\* What the walk finds behind the pipe: the words there, and then it stops.
LEMMA AfterPipe ==
  ASSUME Text \in Strings, line \in Strings, Len(line) = BUFLEN,
         NEW last \in 0..Len(Text), Shape(Text, line, right, last), right > 0, Uncut, Whole(TextAfter),
         NEW i \in 1..(last - right + 1), i = 1 \/ i <= last - right,
         \A k \in 1..(i - 1) : line[right + k] \in Blanks
  PROVE  /\ Words(TextAfter) \in Seq(Strings)
         /\ Yields(line, right + i, Words(TextAfter))
<1>13. UpToPipe(Text, line, right)
  <2>1. PICK p \in 1..Len(Text) : p = right /\ p <= last /\ last \in Nat
    BY DEF Shape, Strings
  <2>2. \A k \in 1..(p - 1) : k \in 1..last /\ k # p /\ k \in DOMAIN Text
    BY <2>1 DEF Strings
  <2> QED
    BY <2>1, <2>2 DEF Shape, Uncut, UpToPipe
<1>1. PICK T \in Strings : T = TextAfter
  BY <1>13, AroundPipe
<1>2. PICK p \in 1..last : p = right
  BY DEF Shape, Strings
<1>3. PICK n \in Nat : n = last - p
  BY DEF Strings
<1>4. PICK m \in Nat : m = Len(Text)
  BY DEF Strings
<1>5. /\ BUFLEN \in Nat /\ m < BUFLEN /\ last \in 0..m /\ last \in Nat /\ p \in Nat
      /\ Len(T) = m - p /\ \A k \in 1..(m - p) : T[k] = Text[p + k]
  <2>1. /\ Len(TextAfter) = Len(Text) - right
        /\ \A k \in 1..(Len(Text) - right) : TextAfter[k] = Text[right + k]
    BY <1>13, AroundPipe
  <2>2. Len(T) = m - p /\ \A k \in 1..(m - p) : T[k] = Text[p + k]
    BY <1>1, <1>2, <1>4, <2>1
  <2>3. BUFLEN \in Nat /\ m < BUFLEN
    BY <1>4, BuflenAssumption DEF Shape
  <2> QED
    BY <1>2, <1>4, <2>2, <2>3
<1>6. /\ \A k \in 1..last : k # p => line[k] = Text[k]
      /\ \A k \in (last + 1)..(m + 1) : line[k] = Nul
      /\ Text[last] \notin Blanks
      /\ \A k \in (last + 1)..m : Text[k] \in Blanks
      /\ \A k \in 1..m : Text[k] # Nul
  <2>1. last # 0
    BY <1>2, <1>5
  <2>2. DOMAIN Text = 1..m
    BY <1>4 DEF Strings
  <2> QED
    BY <1>2, <1>4, <2>1, <2>2 DEF Shape, Uncut
<1>7. n \in 0..Len(T) /\ n <= m - p /\ p + n = last
  BY <1>3, <1>5
<1>8. last < m
  <2>1. T # <<>> /\ T[Len(T)] = Newline
    BY <1>1 DEF Whole
  <2>2. Len(T) # 0
    BY <2>1 DEF Strings
  <2>3. Len(T) \in 1..(m - p) /\ p + Len(T) = m
    BY <1>2, <1>5, <2>2
  <2>4. Text[m] = Newline
    BY <1>5, <2>1, <2>3
  <2>5. Newline \in Blanks
    BY DEF Blanks
  <2> QED
    BY <1>5, <1>6, <2>4, <2>5
<1>9. Words(T) = ScanTable(T)[n].words \o AtEnd(ScanTable(T)[n], <<>>) /\ Words(T) \in Seq(Strings)
  <2>1. n = 0 \/ T[n] \notin Blanks
    <3>1. n # 0 => n \in 1..(m - p)
      BY <1>7
    <3> QED
      BY <1>5, <1>6, <1>7, <3>1
  <2>2. \A k \in (n + 1)..Len(T) : T[k] \in Blanks
    <3> TAKE k \in (n + 1)..Len(T)
    <3>1. k \in 1..(m - p) /\ p + k \in (last + 1)..m
      BY <1>5, <1>7
    <3> QED
      BY <1>5, <1>6, <3>1
  <2>3. Scanned(T).mode = "out"
    BY <1>1 DEF Whole
  <2> QED
    BY <1>7, <2>1, <2>2, <2>3, WordsTrimmed
<1>10. Shows(line, p, T, 1, n)
  <2>1. p + n + 1 \in 1..Len(line) /\ p + n + 1 \in (last + 1)..(m + 1)
    BY <1>5, <1>7
  <2>2. \A k \in 1..n : line[p + k] = T[k] /\ T[k] # Nul
    <3> TAKE k \in 1..n
    <3>1. k \in 1..(m - p) /\ p + k \in 1..last /\ p + k \in 1..m /\ p + k # p
      BY <1>5, <1>7
    <3> QED
      BY <1>5, <1>6, <3>1
  <2> QED
    BY <1>6, <2>1, <2>2 DEF Shows
<1>11. Yields(line, p + n + 2, <<>>)
  <2>1. p + n + 2 \in 1..(Len(line) + 2) /\ p + n + 2 \in (last + 1)..(m + 1)
    BY <1>5, <1>7, <1>8
  <2>2. At(line, p + n + 2) = Nul
    BY <1>6, <2>1 DEF At
  <2>3. PICK j \in 1..(Len(line) + 2) : j = p + n + 2
    BY <2>1
  <2> QED
    BY <2>2, <2>3, YieldsNone
<1>12. Yields(line, p + i, Words(T))
  <2>1. i \in 1..(n + 1) /\ (i = 1 \/ i <= n)
    BY <1>2, <1>3, <1>5
  <2>2. \A k \in 1..(i - 1) : T[k] \in Blanks
    <3> TAKE k \in 1..(i - 1)
    <3>1. k \in 1..n
      BY <1>3, <2>1
    <3> QED
      BY <1>2, <1>10, <3>1 DEF Shows
  <2>3. <<>> \in Seq(Strings)
    OBVIOUS
  <2>4. CollectsAll(line, p, T, n, <<>>, i)
    <3>1. line \in Strings /\ T \in Strings /\ p \in Nat /\ n \in 0..Len(T) /\ i \in 1..(n + 1)
      BY <1>1, <1>5, <1>7, <2>1
    <3>2. i = 1 \/ i <= n
      BY <2>1
    <3> QED
      BY ONLY <3>1, <3>2, <1>10, <1>11, <2>2, <2>3, Collected
  <2> QED
    BY <1>9, <2>4 DEF CollectsAll
<1> QED
  BY <1>1, <1>2, <1>9, <1>12

LEMMA RightArgs ==
  ASSUME Text \in Strings, line \in Strings, Len(line) = BUFLEN,
         NEW last \in 0..Len(Text), Shape(Text, line, right, last), right > 0, Uncut, Whole(TextAfter),
         ~NoCommand("right")
  PROVE  Args("right") = FirstArgs(Words(TextAfter))
<1>1. PICK p \in 1..last : p = right
  BY DEF Shape, Strings
<1>2. PICK m \in Nat : m = Len(Text)
  BY DEF Strings
<1>3. BUFLEN \in Nat /\ m < BUFLEN /\ last \in 0..m /\ p \in Nat /\ DOMAIN line = 1..BUFLEN
  BY <1>1, <1>2, BuflenAssumption DEF Shape, Strings
<1>4. Nul \notin {Space, Tab} /\ {Space, Tab} \subseteq Blanks
  BY DEF Nul, Space, Tab, Blanks
<1>5. line[last + 1] = Nul
  <2>1. last + 1 \in (last + 1)..(Len(Text) + 1)
    BY <1>2, <1>3
  <2> QED
    BY <2>1 DEF Shape
<1>6. PICK a \in 1..(Len(line) + 1) : a = p + 1
  BY <1>3
<1>7. PICK v \in a..(Len(line) + 1) : v = SkipOver(line, a, {Space, Tab})
  BY <1>4, SkipOverFacts
<1>8. \A k \in a..(v - 1) : line[k] \in {Space, Tab}
  BY <1>4, <1>7, SkipOverFacts
<1>9. v = StartOf("right")
  BY <1>1, <1>6, <1>7 DEF StartOf
<1>10. At(line, v) # Nul
  BY <1>9 DEF NoCommand
<1>11. v <= last
  <2>1. ~(v > last + 1)
    <3> SUFFICES ASSUME v > last + 1 PROVE FALSE
      OBVIOUS
    <3>1. last + 1 \in a..(v - 1)
      BY <1>1, <1>3, <1>6
    <3> QED
      BY <1>4, <1>5, <1>8, <3>1
  <2>2. v # last + 1
    BY <1>5, <1>10 DEF At
  <2> QED
    BY <1>3, <1>6, <2>1, <2>2
<1>12. PICK i \in 1..(last - p) : v = p + i
  <2>1. v - p \in 1..(last - p) /\ v = p + (v - p)
    BY <1>3, <1>6, <1>11
  <2> QED
    BY <2>1
<1>13. i \in 1..(last - p + 1) /\ i <= last - p /\ \A k \in 1..(i - 1) : line[p + k] \in Blanks
  <2>1. ASSUME NEW k \in 1..(i - 1) PROVE line[p + k] \in Blanks
    <3>1. p + k \in a..(v - 1)
      BY <1>3, <1>6, <1>12
    <3> QED
      BY <1>4, <1>8, <3>1
  <2> QED
    BY <1>3, <2>1
<1>14. Words(TextAfter) \in Seq(Strings) /\ Yields(line, v, Words(TextAfter))
  <2>1. i \in 1..(last - right + 1) /\ (i = 1 \/ i <= last - right) /\ \A k \in 1..(i - 1) : line[right + k] \in Blanks
    BY <1>1, <1>13
  <2>2. Words(TextAfter) \in Seq(Strings) /\ Yields(line, right + i, Words(TextAfter))
    BY <2>1, AfterPipe
  <2> QED
    BY <1>1, <1>12, <2>2
<1>15. v \in 1..(Len(line) + 2)
  BY <1>3, <1>6
<1> QED
  BY <1>9, <1>14, <1>15, YieldsAll DEF Args

\* Before the pipe nothing needs to be known of what follows it.
LEMMA LeftArgs ==
  ASSUME Text \in Strings, line \in Strings, Len(line) = BUFLEN,
         UpToPipe(Text, line, right), right <= BUFLEN, Closed(TextBefore), ~NoCommand("left")
  PROVE  Args("left") = FirstArgs(Words(TextBefore))
<1>1. PICK p \in 1..Len(Text) : p = right
  BY DEF UpToPipe
<1>3. BUFLEN \in Nat /\ p \in Nat /\ p \in 1..BUFLEN /\ DOMAIN line = 1..BUFLEN
  BY <1>1, BuflenAssumption DEF Strings
<1>4. Nul \notin {Space, Tab} /\ {Space, Tab} \subseteq Blanks
  BY DEF Nul, Space, Tab, Blanks
<1>5. line[p] = Nul
  BY <1>1 DEF UpToPipe
<1>6. PICK T \in Strings : T = TextBefore
  BY AroundPipe
<1>7. PICK n \in Nat : n = p - 1
  BY <1>3
<1>8. /\ Len(T) = n /\ n \in 0..Len(T) /\ 0 + n + 1 = p
      /\ \A k \in 1..n : T[k] = Text[k] /\ Text[k] # Nul /\ line[k] = Text[k]
  <2>1. Len(T) = n /\ \A k \in 1..n : T[k] = Text[k]
    BY <1>1, <1>6, <1>7, AroundPipe
  <2> QED
    BY <1>1, <1>3, <1>7, <2>1 DEF UpToPipe
<1>9. Shows(line, 0, T, 1, n)
  <2>1. 0 + n + 1 \in 1..Len(line) /\ line[0 + n + 1] = Nul
    BY <1>3, <1>5, <1>8
  <2>2. \A k \in 1..n : line[0 + k] = T[k] /\ T[k] # Nul
    BY <1>8
  <2> QED
    BY <2>1, <2>2 DEF Shows
<1>10. PICK X \in Seq(Strings) : Yields(line, 0 + n + 2, X)
  <2>1. 0 + n + 2 \in 1..(Len(line) + 2)
    BY <1>3, <1>7
  <2> QED
    BY <2>1, YieldsSome
<1>11. 1 \in 1..(Len(line) + 1)
  BY <1>3
<1>12. PICK v \in 1..(Len(line) + 1) : v = SkipOver(line, 1, {Space, Tab})
  BY <1>4, <1>11, SkipOverFacts
<1>13. \A k \in 1..(v - 1) : line[k] \in {Space, Tab}
  BY <1>4, <1>11, <1>12, SkipOverFacts
<1>14. v = StartOf("left")
  BY <1>12 DEF StartOf
<1>15. At(line, v) # Nul
  BY <1>14 DEF NoCommand
<1>16. v <= n
  <2>1. ~(v > p)
    <3> SUFFICES ASSUME v > p PROVE FALSE
      OBVIOUS
    <3>1. p \in 1..(v - 1)
      BY <1>3
    <3> QED
      BY <1>4, <1>5, <1>13, <3>1
  <2>2. v # p
    BY <1>5, <1>15 DEF At
  <2> QED
    BY <1>3, <1>7, <2>1, <2>2
<1>17. v \in 1..(n + 1) /\ \A k \in 1..(v - 1) : T[k] \in Blanks
  <2>1. ASSUME NEW k \in 1..(v - 1) PROVE T[k] \in Blanks
    <3>1. k \in 1..n
      BY <1>7, <1>16
    <3> QED
      BY <1>4, <1>8, <1>13, <3>1
  <2> QED
    BY <1>7, <1>16, <2>1
<1>18. CollectsAll(line, 0, T, n, X, v)
  <2>1. line \in Strings /\ T \in Strings /\ 0 \in Nat /\ n \in 0..Len(T) /\ v \in 1..(n + 1) /\ X \in Seq(Strings)
    BY <1>6, <1>8, <1>10, <1>17
  <2>2. v = 1 \/ v <= n
    BY <1>16
  <2>3. Yields(line, 0 + n + 2, X) /\ \A k \in 1..(v - 1) : T[k] \in Blanks
    BY <1>10, <1>17
  <2> QED
    BY ONLY <1>9, <2>1, <2>2, <2>3, Collected
<1>19. Words(T) = ScanTable(T)[n].words \o AtEnd(ScanTable(T)[n], X)
  BY <1>6, <1>8, WordsClosed
<1>20. Words(T) \in Seq(Strings) /\ Yields(line, v, Words(T))
  <2>1. 0 + v = v
    OBVIOUS
  <2> QED
    BY <1>18, <1>19, <2>1 DEF CollectsAll
<1>21. v \in 1..(Len(line) + 2)
  BY <1>3
<1> QED
  BY <1>6, <1>14, <1>20, <1>21, YieldsAll DEF Args

\* strtok has put a Nul behind the command: the walk first sees a text of one
\* word, and then goes on behind it.
LEMMA OnlyArgs ==
  ASSUME Text \in Strings, line \in Strings, Len(line) = BUFLEN,
         NEW last \in 0..Len(Text), Shape(Text, line, right, last), right = 0, Uncut, Whole(Text), PlainCommand,
         ~NoCommand("only")
  PROVE  Args("only") = FirstArgs(Words(Text))
<1>1. PICK m \in Nat : m = Len(Text)
  BY DEF Strings
<1>2. PICK T \in Strings : T = Text
  OBVIOUS
<1>3. /\ BUFLEN \in Nat /\ m < BUFLEN /\ last \in 0..m /\ last \in Nat /\ Len(T) = m
      /\ DOMAIN line = 1..BUFLEN /\ DOMAIN T = 1..m
  BY <1>1, <1>2, BuflenAssumption DEF Shape, Strings
<1>4. /\ \A k \in 1..last : line[k] = T[k]
      /\ \A k \in (last + 1)..(m + 1) : line[k] = Nul
      /\ last = 0 \/ T[last] \notin Blanks
      /\ \A k \in (last + 1)..m : T[k] \in Blanks
      /\ \A k \in 1..m : T[k] # Nul /\ T[k] \in Chars
  <2>1. \A k \in 1..last : k # 0
    BY <1>3
  <2>2. \A k \in 1..m : T[k] \in Chars
    BY <1>3 DEF Strings
  <2> QED
    BY <1>1, <1>2, <1>3, <2>1, <2>2 DEF Shape, Uncut
<1>5. /\ Nul \notin Blanks /\ Nul # Space /\ Space \in Blanks /\ Newline \in Blanks /\ Nul # Quote
  BY DEF Nul, Space, Tab, Newline, Blanks, Quote
<1>6. last < m
  <2>1. T # <<>> /\ T[Len(T)] = Newline
    BY <1>2 DEF Whole
  <2>2. m # 0
    BY <1>3, <2>1 DEF Strings
  <2> QED
    BY <1>3, <1>4, <1>5, <2>1, <2>2
<1>7. last > 0
  <2>1. At(line, 1) # Nul
    BY DEF NoCommand, Blank
  <2>2. line[1] # Nul
    BY <1>3, <1>6, <2>1 DEF At
  <2>3. last = 0 => 1 \in (last + 1)..(m + 1)
    BY <1>3
  <2> QED
    BY <1>3, <1>4, <2>2, <2>3
<1>8. 1 \in 1..(Len(line) + 1) /\ Nul \notin {Space}
  BY <1>3, <1>5
<1>9. PICK ts \in 1..(Len(line) + 1) : ts = TokenStart(line)
  BY <1>8, SkipOverFacts DEF TokenStart
<1>10. At(line, ts) \notin {Space} /\ \A k \in 1..(ts - 1) : line[k] \in {Space}
  BY <1>8, <1>9, SkipOverFacts DEF TokenStart
<1>11. ts <= last
  <2> SUFFICES ASSUME ts > last PROVE FALSE
    BY <1>3
  <2>1. last \in 1..(ts - 1) /\ last \in 1..last
    BY <1>3, <1>7
  <2> QED
    BY <1>4, <1>5, <1>7, <1>10, <2>1
<1>12. line[ts] # Space /\ line[ts] = T[ts] /\ line[ts] # Nul
  <2>1. ts \in 1..last /\ ts \in 1..m /\ ts \in DOMAIN line
    BY <1>3, <1>11
  <2>2. At(line, ts) = line[ts]
    BY <2>1 DEF At
  <2> QED
    BY <1>4, <1>10, <2>1, <2>2
<1>13. PICK te \in ts..(Len(line) + 1) : te = TokenEnd(line)
  <2>1. Len(line) \in Nat /\ DOMAIN line = 1..Len(line)
    BY <1>3
  <2> QED
    BY <1>9, <2>1, FirstOfFacts DEF TokenEnd
<1>14. (te <= BUFLEN => line[te] \in {Space, Nul}) /\ \A k \in ts..(te - 1) : line[k] \notin {Space, Nul}
  <2>1. Len(line) \in Nat /\ DOMAIN line = 1..Len(line) /\ TokenEnd(line) = FirstOf(line, ts, {Space, Nul})
    BY <1>3, <1>9 DEF TokenEnd
  <2>2. te <= BUFLEN => te \in DOMAIN line
    BY <1>3
  <2> QED
    BY <1>13, <2>1, <2>2, FirstOfFacts
<1>15. te \in (ts + 1)..(last + 1)
  <2>1. te <= last + 1
    <3> SUFFICES ASSUME te > last + 1 PROVE FALSE
      BY <1>3
    <3>1. last + 1 \in ts..(te - 1) /\ last + 1 \in (last + 1)..(m + 1)
      BY <1>3, <1>11
    <3> QED
      BY <1>4, <1>14, <3>1
  <2>2. te # ts
    BY <1>3, <1>11, <1>12, <1>14
  <2> QED
    BY <1>3, <2>1, <2>2
<1>16. PICK b \in ts..last : b = te - 1
  BY <1>3, <1>11, <1>15
<1>17. /\ ts \in Nat /\ te \in Nat /\ b \in Nat /\ te = b + 1 /\ 1 <= ts /\ ts <= b /\ b <= last
  BY <1>3, <1>15, <1>16
\* The command is one word.
<1>18. \A k \in ts..b : T[k] \notin Blanks \union {Quote}
  <2> TAKE k \in ts..b
  <2>1. PICK hi \in (ts - 1)..Len(line) : hi = b
    BY <1>3, <1>17
  <2>2. StrTok(line) = SubSeq(line, ts, hi)
    BY <1>9, <1>13, <1>16, <2>1 DEF StrTok
  <2>3. /\ SubSeq(line, ts, hi) \in Strings /\ Len(SubSeq(line, ts, hi)) = hi - ts + 1
        /\ \A j \in 1..(hi - ts + 1) : SubSeq(line, ts, hi)[j] = line[ts + j - 1]
    BY Slice
  <2>4. PICK j \in 1..(hi - ts + 1) : j = k - ts + 1
    BY <1>17, <2>1
  <2>5. ts + j - 1 = k /\ k \in 1..last
    BY <1>17, <2>4
  <2>6. j \in DOMAIN StrTok(line) /\ StrTok(line)[j] = line[k]
    BY <2>2, <2>3, <2>5 DEF Strings
  <2> QED
    BY <1>4, <2>5, <2>6 DEF PlainCommand
<1>19. /\ ScanTable(T)[b].mode = "word" /\ ScanTable(T)[b].words = <<>>
       /\ ScanTable(T)[b].word = SubSeq(T, ts, b)
  <2>1. PICK o \in 0..Len(T) : o = ts - 1
    BY <1>3, <1>17
  <2>2. \A k \in (0 + 1)..o : T[k] \in Blanks
    <3> TAKE k \in (0 + 1)..o
    <3>1. k \in 1..(ts - 1) /\ k \in 1..last
      BY <1>3, <1>17, <2>1
    <3> QED
      BY <1>4, <1>5, <1>10, <3>1
  <2>3. ScanTable(T)[0].mode = "out" /\ ScanTable(T)[0].words = <<>>
    BY ScanUnfold DEF Scanner
  <2>4. ScanTable(T)[o].mode = "out" /\ ScanTable(T)[o].words = <<>>
    <3>1. 0 \in 0..Len(T) /\ o \in 0..Len(T)
      BY <1>3
    <3> QED
      BY <2>2, <2>3, <3>1, ScanBlanks
  <2>5. PICK s \in States : s = ScanTable(T)[o]
    BY ScanTyped
  <2>6. ts \in 1..Len(T) /\ T[ts] \in Chars /\ ts \in ts..b
    BY <1>3, <1>4, <1>17
  <2>7. PICK c \in Chars : c = T[ts]
    BY <2>6
  <2>8. PICK t : t = Scan(s, c)
    OBVIOUS
  <2>9. t = ScanTable(T)[ts]
    BY <2>1, <2>5, <2>6, <2>7, <2>8, ScanUnfold
  <2>10. s.mode = "out" /\ c \notin Blanks /\ c # Quote
    BY <1>18, <2>4, <2>5, <2>6, <2>7
  <2>11. t.mode = "word" /\ t.words = s.words /\ t.word = <<c>>
    BY ONLY s \in States, c \in Chars, <2>8, <2>10, ScanStep
  <2>12. SubSeq(T, ts, ts) = <<T[ts]>>
    <3>1. PICK lo \in (ts - 1)..Len(T) : lo = ts - 1
      BY <2>6
    <3>2. ts \in 1..Len(T) /\ lo < Len(T) /\ lo + 1 = ts
      BY <2>6, <3>1
    <3>3. Append(SubSeq(T, ts, lo), T[ts]) = SubSeq(T, ts, ts)
      BY <3>2, SliceGrows
    <3>4. SubSeq(T, ts, lo) = <<>>
      BY <2>6, <3>1
    <3>5. Append(<<>>, c) = <<c>>
      OBVIOUS
    <3> QED
      BY <2>7, <3>3, <3>4, <3>5
  <2>13. /\ ScanTable(T)[ts].mode = "word" /\ ScanTable(T)[ts].words = <<>>
         /\ ScanTable(T)[ts].word = SubSeq(T, ts, ts)
    BY <2>4, <2>5, <2>7, <2>9, <2>11, <2>12
  <2>14. /\ ts \in 0..Len(T) /\ b \in ts..Len(T) /\ ts \in 1..(ts + 1)
         /\ \A k \in (ts + 1)..b : T[k] \notin Ends(ScanTable(T)[ts].mode)
    <3>1. ts \in 0..Len(T) /\ b \in ts..Len(T) /\ ts \in 1..(ts + 1) /\ \A k \in (ts + 1)..b : k \in ts..b
      BY <1>3, <1>17
    <3> QED
      BY <1>18, <2>13, <3>1 DEF Ends
  <2>15. ScanTable(T)[ts].mode # "out"
    BY <2>13
  <2> QED
    BY <2>13, <2>14, <2>15, ScanIn
<1>20. PICK x \in Strings : x = SubSeq(T, ts, b)
  <2>1. ts \in 1..(Len(T) + 1) /\ b \in (ts - 1)..Len(T)
    BY <1>3, <1>17
  <2> QED
    BY <2>1, Slice
\* The memory with the Nul of strtok.
<1>21. PICK mem : mem = AfterStrTok(line)
  OBVIOUS
<1>22. /\ mem \in Strings /\ Len(mem) = BUFLEN /\ DOMAIN mem = 1..BUFLEN
       /\ mem[te] = Nul /\ \A k \in 1..BUFLEN : k # te => mem[k] = line[k]
  <2>1. mem = [line EXCEPT ![te] = Nul] /\ te \in DOMAIN line
    <3>1. te \in 1..BUFLEN
      BY <1>3, <1>17
    <3> QED
      BY <1>3, <1>13, <1>21, <3>1 DEF AfterStrTok
  <2>2. mem \in Strings /\ Len(mem) = BUFLEN
    BY <2>1 DEF Strings, Chars
  <2> QED
    BY <1>3, <2>1, <2>2 DEF Strings
<1>23. Shows(mem, 0, T, 1, b)
  <2>1. 0 + b + 1 = te /\ te \in 1..Len(mem)
    BY <1>3, <1>17, <1>22
  <2>2. ASSUME NEW k \in 1..b PROVE mem[0 + k] = T[k] /\ T[k] # Nul
    <3>1. k \in 1..BUFLEN /\ k # te /\ k \in 1..last /\ k \in 1..m /\ 0 + k = k
      BY <1>3, <1>17
    <3> QED
      BY <1>4, <1>22, <3>1
  <2> QED
    BY <1>22, <2>1, <2>2 DEF Shows
<1>24. /\ Words(T) = ScanTable(T)[last].words \o AtEnd(ScanTable(T)[last], <<>>)
       /\ Words(T) \in Seq(Strings)
  <2>1. Scanned(T).mode = "out"
    BY <1>2 DEF Whole
  <2> QED
    BY <1>3, <1>4, <2>1, WordsTrimmed
\* What is behind it.
<1>25. \E R \in Seq(Strings) : Words(T) = <<x>> \o R /\ Yields(mem, te + 1, R)
  <2>1. Yields(mem, last + 2, <<>>)
    <3>1. last + 2 \in 1..(Len(mem) + 2) /\ last + 2 \in (last + 1)..(m + 1) /\ last + 2 # te /\ last + 2 \in 1..BUFLEN
      BY <1>3, <1>6, <1>17, <1>22
    <3>2. At(mem, last + 2) = Nul
      BY <1>4, <1>22, <3>1 DEF At
    <3>3. PICK j \in 1..(Len(mem) + 2) : j = last + 2
      BY <3>1
    <3> QED
      BY <1>22, <3>2, <3>3, YieldsNone
  <2>2. <<>> \in Seq(Strings) /\ <<x>> \in Seq(Strings)
    BY <1>20
  <2>3. CASE te = last + 1
    <3>1. b = last /\ te + 1 = last + 2
      BY <1>17, <2>3
    <3>2. AtEnd(ScanTable(T)[last], <<>>) = <<x>> \o <<>>
      BY <1>19, <1>20, <3>1 DEF AtEnd
    <3>3. Words(T) = <<>> \o (<<x>> \o <<>>)
      BY <1>19, <1>24, <3>1, <3>2
    <3>4. <<>> \o (<<x>> \o <<>>) = <<x>> \o <<>>
      BY <2>2, ConcatEmptySeq
    <3> QED
      BY <2>1, <2>2, <3>1, <3>3, <3>4
  <2>4. CASE te # last + 1
    <3>1. te \in 1..last /\ te \in 1..Len(T) /\ b \in 0..Len(T) /\ te - 1 = b /\ te <= BUFLEN /\ te \in 1..m
      BY <1>3, <1>17, <1>15, <2>4
    <3>2. T[te] = Space
      BY <1>4, <1>14, <3>1
    <3>3. PICK s \in States : s = ScanTable(T)[b]
      BY <3>1, ScanTyped
    <3>4. PICK c \in Chars : c = T[te]
      BY <1>4, <3>1
    <3>5. PICK t : t = Scan(s, c)
      OBVIOUS
    <3>6. t = ScanTable(T)[te]
      BY <3>1, <3>3, <3>4, <3>5, ScanUnfold
    <3>7. s.mode # "out" /\ c \in Ends(s.mode)
      BY <1>5, <1>19, <3>2, <3>3, <3>4 DEF Ends
    <3>8. t.mode = "out" /\ t.words = s.words \o <<s.word>> /\ t.word = <<>> /\ t.slack = 0
      BY ONLY s \in States, c \in Chars, <3>5, <3>7, ScanStep
    <3>9. ScanTable(T)[te].mode = "out" /\ ScanTable(T)[te].slack = 0 /\ ScanTable(T)[te].words = <<x>>
      <4>1. s.words \o <<s.word>> = <<x>>
        BY <1>19, <1>20, <2>2, <3>3, ConcatEmptySeq
      <4> QED
        BY <3>6, <3>8, <4>1
    <3>10. PICK lo \in 1..(last + 1) : lo = te + 1
      BY <1>3, <3>1
    <3>11. Shows(mem, 0, T, lo, last)
      <4>1. 0 + last + 1 \in 1..Len(mem) /\ mem[0 + last + 1] = Nul
        <5>1. last + 1 \in 1..BUFLEN /\ last + 1 \in (last + 1)..(m + 1) /\ 0 + last + 1 = last + 1
          BY <1>3
        <5> QED
          BY <1>4, <1>22, <2>4, <5>1
      <4>2. ASSUME NEW k \in lo..last PROVE mem[0 + k] = T[k] /\ T[k] # Nul
        <5>1. k \in 1..BUFLEN /\ k # te /\ k \in 1..last /\ k \in 1..m /\ 0 + k = k
          BY <1>3, <1>17, <3>10
        <5> QED
          BY <1>4, <1>22, <5>1
      <4> QED
        BY <4>1, <4>2 DEF Shows
    <3>12. Agree(mem, 0, T, last, <<>>, lo)
      <4>1. mem \in Strings /\ T \in Strings /\ 0 \in Nat /\ last \in 0..Len(T) /\ lo \in 1..(last + 1)
        BY <1>3, <1>22
      <4>2. lo \in lo..(last + 1) /\ lo - 1 = te /\ 0 + last + 2 = last + 2
        BY <1>3, <1>17, <3>10
      <4>3. Yields(mem, 0 + last + 2, <<>>)
        BY <2>1, <4>2
      <4>4. ScanTable(T)[lo - 1].mode = "out"
        BY <3>9, <4>2
      <4>5. ScanTable(T)[lo - 1].slack = 0 \/ lo <= last
        BY <3>9, <4>2
      <4> QED
        BY ONLY <2>2, <3>11, <4>1, <4>2, <4>3, <4>4, <4>5, Walk
    <3>13. lo - 1 = te /\ 0 + lo = te + 1
      BY <1>17, <3>10
    <3>14. PICK R \in Seq(Strings) :
             /\ ScanTable(T)[last].words \o AtEnd(ScanTable(T)[last], <<>>) = ScanTable(T)[te].words \o R
             /\ Yields(mem, te + 1, R)
      BY <3>12, <3>13 DEF Agree
    <3> QED
      BY <1>24, <3>9, <3>14
  <2> QED
    BY <2>3, <2>4
<1>26. PICK R \in Seq(Strings) : Words(T) = <<x>> \o R /\ Yields(mem, te + 1, R)
  BY <1>25
<1>27. CollectsAll(mem, 0, T, b, R, 1)
  <2>1. mem \in Strings /\ T \in Strings /\ 0 \in Nat /\ b \in 0..Len(T) /\ 1 \in 1..(b + 1) /\ R \in Seq(Strings)
    BY <1>3, <1>17, <1>22
  <2>2. 0 + b + 2 = te + 1
    BY <1>17
  <2>3. Yields(mem, 0 + b + 2, R)
    BY <1>26, <2>2
  <2>4. \A k \in 1..(1 - 1) : T[k] \in Blanks
    OBVIOUS
  <2> QED
    BY ONLY <1>23, <2>1, <2>3, <2>4, Collected
<1>28. ScanTable(T)[b].words \o AtEnd(ScanTable(T)[b], R) = Words(T)
  <2>1. AtEnd(ScanTable(T)[b], R) = <<x>> \o R
    BY <1>19, <1>20 DEF AtEnd
  <2>2. <<>> \o (<<x>> \o R) = <<x>> \o R
    <3>1. <<x>> \o R \in Seq(Strings)
      BY <1>20, <1>26
    <3> QED
      BY <3>1, ConcatEmptySeq
  <2> QED
    BY <1>19, <1>26, <2>1, <2>2
<1>29. Yields(mem, 1, Words(T))
  <2>1. 0 + 1 = 1
    OBVIOUS
  <2> QED
    BY <1>27, <1>28, <2>1 DEF CollectsAll
<1>30. ParseArgs(mem, 1) = FirstArgs(Words(T))
  <2>1. 1 \in 1..(Len(mem) + 2)
    BY <1>22, <1>3
  <2> QED
    BY <1>22, <1>24, <1>29, <2>1, YieldsAll
<1> QED
  BY <1>2, <1>21, <1>30 DEF Args

-----------------------------------------------------------------------------
(* The line and the arguments, from its reading to the next. *)

PipeStages == {"pipe", "fork1", "fork2", "close", "wait1", "wait2"}

\* A command that runs was executed with the arguments that the line still says,
\* which is what trimstring and strchr left of the last line read.
ArgsInv ==
  /\ line \in Strings
  /\ ran # <<>> /\ Uncut => \E last \in 0..Len(Text) : Shape(Text, line, right, last)
  /\ ran # <<>> /\ right > 0 => UpToPipe(Text, line, right)
  /\ sh \in {"fork", "wait"} => ran # <<>> /\ right = 0
  /\ sh \in PipeStages => ran # <<>> /\ right > 0
  /\ \A c \in Children : argv[c] # NotRun =>
       /\ argv[c] = Args(c) /\ ~NoCommand(c)
       /\ ran # <<>> /\ (IF c = "only" THEN right = 0 ELSE right > 0)

LEMMA LineTyped ==
  ASSUME NEW mem \in Strings, NEW j
  PROVE  /\ TrimString(mem) \in Strings /\ [TrimString(mem) EXCEPT ![j] = Nul] \in Strings
         /\ PipePos(TrimString(mem)) \in Nat
<1>1. PICK n \in Nat : n = Len(mem)
  BY DEF Strings
<1>2. PICK str : str = TrimString(mem)
  OBVIOUS
<1>3. mem \in [1..n -> Chars] /\ Nul \in Chars
  BY <1>1 DEF Strings, Chars
<1>4. str = [k \in 1..n |-> IF k \in LastPrintable(StrAt(mem, 1)) + 1..Len(StrAt(mem, 1)) THEN Nul ELSE mem[k]]
  BY <1>1, <1>2 DEF TrimString
<1>5. str \in [1..n -> Chars] /\ [str EXCEPT ![j] = Nul] \in [1..n -> Chars]
  BY <1>3, <1>4
<1>6. \A f : f \in [1..n -> Chars] => f \in Strings
  BY <1>1 DEF Strings
<1>7. FirstOf(str, 1, {Pipe, Nul}) \in Nat
  <2>1. Len(str) = n /\ DOMAIN str = 1..n /\ 1 \in 1..(n + 1)
    BY <1>1, <1>5
  <2>2. FirstOf(str, 1, {Pipe, Nul}) \in 1..(Len(str) + 1)
    BY <1>1, <2>1, FirstOfFacts
  <2> QED
    BY <1>1, <2>1, <2>2
<1> QED
  BY <1>2, <1>5, <1>6, <1>7 DEF PipePos

LEMMA ReadLineArgs == ASSUME LineInv, SizeInv, ArgsInv, ReadLine PROVE ArgsInv'
<1>1. PICK data \in Strings, o \in offset..Len(script) : \E m \in 0..Len(data) : ReadsOn(data, m, o)
  BY ReadFacts
<1>2. PICK m \in 0..Len(data) : ReadsOn(data, m, o)
  BY <1>1
<1>3. /\ m = 0 => UNCHANGED <<buffer, line>>
      /\ m > 0 => buffer' = SubSeq(data, 1, m) \o <<Nul>> \o SubSeq(buffer, m + 2, BUFLEN)
  BY ONLY <1>2, Zenon DEF ReadsOn
<1>4. m > 0 => line' = IF right' > 0 THEN [TrimString(buffer') EXCEPT ![right'] = Nul]
                                     ELSE TrimString(buffer')
  BY ONLY <1>2, Zenon DEF ReadsOn
<1>5. m <= Room
  BY ONLY <1>2, Zenon DEF ReadsOn
<1>6. \/ m = 0 /\ sh' = "eof" /\ ran' = ran
      \/ m > 0 /\ sh' # "eof" /\ ran' = Append(ran, SubSeq(data, 1, m))
  BY ONLY <1>2, Zenon DEF ReadsOn
<1>7. \A c \in Children : argv'[c] = NotRun
  BY DEF ReadLine
<1>8. \/ UNCHANGED <<line, right, ran>> /\ sh' = "eof"
      \/ /\ sh' \in {"quit", "pipe", "fork"} /\ right' = PipePos(TrimString(buffer'))
         /\ (sh' = "pipe" => right' > 0) /\ (sh' = "fork" => ~(right' > 0))
  BY DEF ReadLine
<1>9. buffer \in Strings /\ Len(buffer) = BUFLEN /\ line \in Strings /\ ran \in Seq(Strings)
  BY DEF SizeInv, ArgsInv, LineInv
<1>10. CASE m = 0
  <2>1. UNCHANGED <<line, right, ran>> /\ sh' = "eof"
    BY <1>6, <1>8, <1>10
  <2>2. UNCHANGED Text /\ UNCHANGED Uncut
    BY <2>1 DEF Text, Uncut
  <2>3. /\ ran' # <<>> /\ Uncut' => \E last \in 0..Len(Text') : Shape(Text', line', right', last)
        /\ ran' # <<>> /\ right' > 0 => UpToPipe(Text', line', right')
    BY <2>1, <2>2 DEF ArgsInv
  <2> QED
    BY <1>7, <1>9, <2>1, <2>3 DEF ArgsInv, PipeStages
<1>11. CASE m > 0
  <2>1. PICK got \in Strings : got = SubSeq(data, 1, m) /\ Len(got) = m
    <3>1. 1 \in 1..(Len(data) + 1) /\ m \in (1 - 1)..Len(data) /\ m - 1 + 1 = m
      BY DEF Strings
    <3> QED
      BY <3>1, Slice
  <2>2. ran' = Append(ran, got) /\ sh' # "eof"
    BY <1>6, <1>11, <2>1
  <2>3. ran' # <<>> /\ Text' = got
    BY <1>9, <2>1, <2>2 DEF Text
  <2>4. buffer' = got \o <<Nul>> \o SubSeq(buffer, Len(got) + 2, BUFLEN)
    BY <1>3, <1>11, <2>1
  <2>5. Len(got) < BUFLEN
    BY <1>5, <2>1, BuflenAssumption DEF Room
  <2>6. PICK mem \in Strings : mem = buffer' /\ Len(mem) = BUFLEN
    BY ReadLineSizes
  <2>7. mem[Len(got) + 1] = Nul /\ \A k \in 1..Len(got) : mem[k] = got[k]
    BY <1>9, <2>4, <2>5, <2>6, BufferStart
  <2>8. /\ right' = PipePos(TrimString(mem)) /\ sh' \in {"quit", "pipe", "fork"}
        /\ (sh' = "pipe" => right' > 0) /\ (sh' = "fork" => ~(right' > 0))
    BY <1>8, <2>2, <2>6
  <2>9. line' = IF right' > 0 THEN [TrimString(mem) EXCEPT ![right'] = Nul] ELSE TrimString(mem)
    BY <1>4, <1>11, <2>6
  <2>10. line' \in Strings /\ right' \in Nat
    <3>1. PICK j : j = right'
      OBVIOUS
    <3>2. TrimString(mem) \in Strings /\ [TrimString(mem) EXCEPT ![j] = Nul] \in Strings
      BY LineTyped
    <3>3. right' \in Nat
      BY <2>8, LineTyped
    <3> QED
      BY <2>9, <3>1, <3>2, <3>3
  <2>11. ASSUME Uncut' PROVE \E last \in 0..Len(Text') : Shape(Text', line', right', last)
    <3>1. \A k \in 1..Len(got) : got[k] # Nul
      BY <2>3, <2>11 DEF Uncut, Strings
    <3>2. PICK pos : pos = right'
      OBVIOUS
    <3>3. PICK ln : ln = line'
      OBVIOUS
    <3>4. \E last \in 0..Len(got) : Shape(got, ln, pos, last)
      BY <2>5, <2>6, <2>7, <2>8, <2>9, <3>1, <3>2, <3>3, LineTaken
    <3> QED
      BY <2>3, <3>2, <3>3, <3>4
  <2>12. /\ sh' \in {"fork", "wait"} => ran' # <<>> /\ right' = 0
         /\ sh' \in PipeStages => ran' # <<>> /\ right' > 0
    BY <2>3, <2>8, <2>10 DEF PipeStages
  <2>13. ASSUME right' > 0 PROVE UpToPipe(Text', line', right')
    <3>1. PICK pos : pos = right'
      OBVIOUS
    <3>2. PICK ln : ln = line'
      OBVIOUS
    <3>3. ln = [TrimString(mem) EXCEPT ![pos] = Nul] /\ pos > 0 /\ pos = PipePos(TrimString(mem))
      BY <2>8, <2>9, <2>13, <3>1, <3>2
    <3>4. UpToPipe(got, ln, pos)
      BY <2>5, <2>6, <2>7, <3>3, PipeTaken
    <3> QED
      BY <2>3, <3>1, <3>2, <3>4
  <2> QED
    BY <1>7, <2>10, <2>11, <2>12, <2>13 DEF ArgsInv
<1> QED
  BY <1>6, <1>10, <1>11

\* No other step changes the line, and only execve sets arguments.
LEMMA OtherStepsArgs ==
  ASSUME [Next]_vars, ~ReadLine
  PROVE  /\ UNCHANGED <<line, right, ran>>
         /\ sh' \in {"fork", "wait"} => sh \in {"fork", "wait"}
         /\ sh' \in PipeStages => sh \in PipeStages
         /\ UNCHANGED argv \/ \E c \in Children : Exec(c)
<1>1. CASE UNCHANGED vars \/ Stopped
  BY <1>1 DEF Stopped, vars, input
<1>2. CASE ForkOnly \/ ForkOnlyFails \/ WaitOnly \/ MakePipe \/ PipeFails \/ CloseEnds
  BY <1>2 DEF ForkOnly, ForkOnlyFails, WaitOnly, MakePipe, PipeFails, CloseEnds, Go, input, PipeStages
<1>3. CASE \/ Fork("left", "fork1", "fork2") \/ Fork("right", "fork2", "close")
           \/ Wait("left", "wait1", "wait2") \/ Wait("right", "wait2", "prompt")
  BY <1>3 DEF Fork, Wait, Go, input, PipeStages
<1>4. CASE ShellStep
  BY <1>2, <1>3, <1>4 DEF ShellStep
<1>5. ASSUME NEW c \in Children, Starts(c)
      PROVE  UNCHANGED <<line, right, ran, sh>> /\ (UNCHANGED argv \/ Exec(c))
  BY <1>5 DEF Starts, Redirect, Exec, ExecFails, ExecCrashes, input
<1>6. CASE OnlyEnds \/ LeftWrites \/ LeftEnds \/ RightReads \/ RightSeesEnd \/ RightStops
  BY <1>6 DEF OnlyEnds, LeftWrites, LeftEnds, RightReads, RightSeesEnd, RightStops, input
<1>7. CASE \E c \in Children : Starts(c)
  BY <1>5, <1>7
<1> QED
  BY <1>1, <1>4, <1>6, <1>7 DEF Next, Only, Left, Right, Children

LEMMA ArgsKept == ASSUME IInv, ArgsInv, [Next]_vars, ~ReadLine PROVE ArgsInv'
<1>1. /\ UNCHANGED <<line, right, ran>>
      /\ sh' \in {"fork", "wait"} => sh \in {"fork", "wait"}
      /\ sh' \in PipeStages => sh \in PipeStages
      /\ UNCHANGED argv \/ \E c \in Children : Exec(c)
  BY OtherStepsArgs
<1>2. /\ UNCHANGED Text /\ UNCHANGED Uncut
      /\ \A c \in Children : UNCHANGED Args(c) /\ UNCHANGED NoCommand(c)
  BY <1>1 DEF Text, Uncut, Args, NoCommand, Blank, StartOf
<1>3. /\ line' \in Strings
      /\ ran' # <<>> /\ Uncut' => \E last \in 0..Len(Text') : Shape(Text', line', right', last)
      /\ ran' # <<>> /\ right' > 0 => UpToPipe(Text', line', right')
      /\ sh' \in {"fork", "wait"} => ran' # <<>> /\ right' = 0
      /\ sh' \in PipeStages => ran' # <<>> /\ right' > 0
  BY <1>1, <1>2 DEF ArgsInv
<1>4. ASSUME NEW c \in Children, argv'[c] # NotRun
      PROVE  /\ argv'[c] = Args(c) /\ ~NoCommand(c)
             /\ ran # <<>> /\ (IF c = "only" THEN right = 0 ELSE right > 0)
  <2>1. CASE argv'[c] = argv[c]
    BY <1>4, <2>1 DEF ArgsInv
  <2>2. CASE argv'[c] # argv[c]
    <3>1. PICK d \in Children : Exec(d)
      BY <1>1, <2>2
    <3>2. argv' = [argv EXCEPT ![d] = Args(d)] /\ ~NoCommand(d) /\ Ready(d)
      BY <3>1 DEF Exec
    <3>3. d = c /\ argv'[c] = Args(c)
      BY <2>2, <3>2 DEF IInv, Shapes
    <3>4. IF c = "only" THEN sh \in {"fork", "wait"} ELSE sh \in PipeStages
      BY <3>2, <3>3 DEF Ready, IInv, StageInv, Children, PipeStages
    <3> QED
      BY <3>2, <3>3, <3>4 DEF ArgsInv
  <2> QED
    BY <2>1, <2>2
<1>5. \A c \in Children : argv'[c] # NotRun =>
        /\ argv'[c] = Args(c)' /\ ~NoCommand(c)'
        /\ ran' # <<>> /\ (IF c = "only" THEN right' = 0 ELSE right' > 0)
  BY <1>1, <1>2, <1>4
<1> QED
  BY <1>3, <1>5 DEF ArgsInv

LEMMA InductiveArgs == Spec => []ArgsInv
<1>1. Init => ArgsInv
  <2> SUFFICES ASSUME Init PROVE ArgsInv
    OBVIOUS
  <2>1. /\ line \in [1..BUFLEN -> STRING] /\ ran = <<>> /\ sh = "prompt"
        /\ argv = [c \in Children |-> NotRun]
    BY StacksAssumption DEF Init
  <2>2. line \in Strings
    <3>1. line \in [1..BUFLEN -> Chars] /\ BUFLEN \in Nat
      BY <2>1, BuflenAssumption DEF Chars
    <3> QED
      BY <3>1 DEF Strings
  <2> QED
    BY <2>1, <2>2 DEF ArgsInv, PipeStages
<1>2. IInv /\ LineInv /\ SizeInv /\ ArgsInv /\ [Next]_vars => ArgsInv'
  BY ReadLineArgs, ArgsKept
<1> QED
  BY <1>1, <1>2, Inductive, InductiveLines, InductiveSizes, PTL DEF Spec

\* A program is run with the words of its own line, or of its own side of the
\* pipe, quoted ones undivided, as many as fit, whatever older lines or the stack
\* left in the buffer: parse_args walks over the Nuls that strtok put there, and
\* stops in time.  On the left of a pipe this needs text that is closed, whatever
\* follows; elsewhere a line that has no Nul and ends with a newline and outside
\* quotes, and for a single program a name without blanks and quotes.
THEOREM ArgumentsAreWords == Spec => []ArgsAreWords
<1>1. LineInv /\ SizeInv /\ ArgsInv => ArgsAreWords
  <2> SUFFICES ASSUME LineInv, SizeInv, ArgsInv PROVE ArgsAreWords
    OBVIOUS
  <2>1. ASSUME NEW c \in Children, argv[c] # NotRun, Uncut
        PROVE  /\ argv[c] = Args(c) /\ ~NoCommand(c) /\ (IF c = "only" THEN right = 0 ELSE right > 0)
               /\ Text \in Strings /\ line \in Strings /\ Len(line) = BUFLEN
               /\ \E last \in 0..Len(Text) : Shape(Text, line, right, last)
    <3>1. /\ argv[c] = Args(c) /\ ~NoCommand(c) /\ ran # <<>>
          /\ (IF c = "only" THEN right = 0 ELSE right > 0)
      BY <2>1 DEF ArgsInv
    <3>2. line \in Strings /\ Len(line) = BUFLEN /\ ran \in Seq(Strings)
      BY DEF ArgsInv, SizeInv, LineInv
    <3>3. Text \in Strings
      <4>1. Len(ran) \in 1..Len(ran)
        BY <3>1, <3>2
      <4> QED
        BY <3>2, <4>1 DEF Text
    <3>4. \E last \in 0..Len(Text) : Shape(Text, line, right, last)
      BY <2>1, <3>1 DEF ArgsInv
    <3> QED
      BY <3>1, <3>2, <3>3, <3>4
  <2>2. ASSUME argv["only"] # NotRun, Uncut, Whole(Text), PlainCommand
        PROVE  argv["only"] = FirstArgs(Words(Text))
    <3>1. /\ argv["only"] = Args("only") /\ ~NoCommand("only") /\ right = 0
          /\ Text \in Strings /\ line \in Strings /\ Len(line) = BUFLEN
          /\ \E last \in 0..Len(Text) : Shape(Text, line, right, last)
      BY <2>1, <2>2 DEF Children
    <3>2. PICK last \in 0..Len(Text) : Shape(Text, line, right, last)
      BY <3>1
    <3> QED
      BY <2>2, <3>1, <3>2, OnlyArgs
  <2>3. ASSUME argv["left"] # NotRun, Closed(TextBefore)
        PROVE  argv["left"] = FirstArgs(Words(TextBefore))
    <3>1. argv["left"] = Args("left") /\ ~NoCommand("left") /\ ran # <<>> /\ right > 0
      BY <2>3 DEF ArgsInv, Children
    <3>2. line \in Strings /\ Len(line) = BUFLEN /\ ran \in Seq(Strings)
      BY DEF ArgsInv, SizeInv, LineInv
    <3>3. Len(ran) \in DOMAIN ran
      BY <3>1, <3>2
    <3>4. Text \in Strings /\ Len(Text) < BUFLEN
      BY <3>2, <3>3 DEF Text, SizeInv
    <3>5. UpToPipe(Text, line, right)
      BY <3>1 DEF ArgsInv
    <3>6. right <= BUFLEN
      BY <3>4, <3>5, BuflenAssumption DEF UpToPipe, Strings
    <3> QED
      BY <2>3, <3>1, <3>2, <3>4, <3>5, <3>6, LeftArgs
  <2>4. ASSUME argv["right"] # NotRun, Uncut, Whole(TextAfter)
        PROVE  argv["right"] = FirstArgs(Words(TextAfter))
    <3>1. /\ argv["right"] = Args("right") /\ ~NoCommand("right") /\ right > 0
          /\ Text \in Strings /\ line \in Strings /\ Len(line) = BUFLEN
          /\ \E last \in 0..Len(Text) : Shape(Text, line, right, last)
      BY <2>1, <2>4 DEF Children
    <3>2. PICK last \in 0..Len(Text) : Shape(Text, line, right, last)
      BY <3>1
    <3> QED
      BY <2>4, <3>1, <3>2, RightArgs
  <2> QED
    BY <2>2, <2>3, <2>4 DEF ArgsAreWords
<1> QED
  BY InductiveLines, InductiveSizes, InductiveArgs, <1>1, PTL

=============================================================================
