----------------------------- MODULE DemoMachine -----------------------------
(***************************************************************************)
(* A demo program at run time: the process that runs main(), the child it  *)
(* may fork, the terminal both read, the resources they hold and the names *)
(* (files, shared memory objects, System V segments) that outlive them.    *)
(*                                                                         *)
(* The programs themselves are data (see DemoSteps): Script[d] is what the *)
(* parent executes in demo d and ChildScript[d] what its child executes.   *)
(* One action executes one step of one process, so the two processes and   *)
(* the user interleave freely.                                             *)
(***************************************************************************)
EXTENDS Naturals, Sequences

CONSTANTS
  Programs,     \* the programs: a main() is the sequence of demos it calls
  Demos,        \* names of the demos
  Script,       \* Script[d]: the steps of demo d
  ChildScript,  \* ChildScript[d]: the steps of the child of demo d
  Resources,    \* everything a demo acquires
  Kind,         \* Kind[r]: "shared", "private", "purgeable", "handle", "port", "name"
  Needs,        \* Needs[r]: what the process must have to acquire r
  Unchecked,    \* names whose content is written without checking the writes
  Nominal,      \* mappings of the requested size, not of the file's size
  Values,       \* the bytes written to memory
  LineSizes,    \* characters in a line the user types; 0 is end-of-file
  QueueMax,     \* bound: lines waiting in the terminal
  ChunkMax      \* bound: blocks allocated by a pressure loop

Procs == {"parent", "child"}

\* A step that touches memory or a resource names it, and what it writes.
StepRecord ==
  {s \in [op : STRING, res : STRING, val : STRING, undo : Seq(Resources),
          then : Demos \union {"none"}, branch : BOOLEAN] :
     /\ s.op \in {"acquire", "grant", "touch", "check", "release"} => s.res \in Resources
     /\ s.op = "touch" => s.val \in Values}

ASSUME DemoAssumption ==
  /\ Programs \subseteq Seq(Demos) /\ << >> \notin Programs
  /\ Script \in [Demos -> Seq(StepRecord)]
  /\ ChildScript \in [Demos -> Seq(StepRecord)]
  /\ Kind \in [Resources -> {"shared", "private", "purgeable", "handle", "port", "name"}]
  /\ Needs \in [Resources -> SUBSET Resources]
  /\ "zero" \in Values /\ "blocks" \notin Resources
  /\ LineSizes \subseteq Nat /\ QueueMax \in Nat /\ ChunkMax \in Nat

Names == {r \in Resources : Kind[r] = "name"}

VARIABLES
  queue,    \* demos main() still has to call
  demo,     \* the demo being executed
  pc,       \* pc[p]: index of the next step of process p
  mode,     \* mode[p]: what process p is doing
  undone,   \* index of the next release while the parent unwinds
  held,     \* held[p]: memory, descriptors and rights of process p
  names,    \* named objects that exist in the system
  short,    \* names whose content is shorter than asked for
  seen,     \* seen[p][r]: the byte process p reads in region r
  chunks,   \* blocks the pressure loop holds
  forked,   \* the parent's "pid > 0"
  status,   \* how the last child ended
  tty,      \* lines typed and not yet read by any process
  inbuf,    \* inbuf[p]: characters left in the stdin buffer of p
  eof       \* eof[p]: p has seen end-of-file on stdin

program == <<queue, demo, pc, mode, undone>>
store   == <<held, names, short, seen, chunks>>
family  == <<forked, status>>
input   == <<tty, inbuf, eof>>
vars    == <<program, store, family, input>>

Steps(p) == IF p = "parent" THEN Script[demo] ELSE ChildScript[demo]
Step(p) == Steps(p)[pc[p]]

Ready(p) == /\ mode[p] = "running"
            /\ pc[p] \in DOMAIN Steps(p)

\* Process p is about to execute a step of kind op.
At(p, op) == /\ Ready(p)
             /\ Step(p).op = op
             /\ Step(p).branch => forked

Advance(p) == /\ pc' = [pc EXCEPT ![p] = @ + 1]
              /\ UNCHANGED <<queue, demo, mode, undone>>

\* A step of the parent's branch, when there is no child.
Skip(p) ==
  /\ Ready(p)
  /\ Step(p).branch /\ ~forked
  /\ Advance(p)
  /\ UNCHANGED <<store, family, input>>

(***************************************************************************)
(* Acquiring and releasing                                                 *)
(***************************************************************************)
Acquire(p) ==
  LET r == Step(p).res IN
  /\ At(p, "acquire") \/ At(p, "grant")
  /\ Needs[r] \subseteq held[p] \union names
  /\ IF r \in Names
       THEN /\ names' = names \union {r}
            /\ \E s \in {{}, {r} \intersect Unchecked} : short' = short \union s
            /\ UNCHANGED <<held, seen>>
       ELSE /\ held' = [held EXCEPT ![p] = @ \union {r}]
            /\ seen' = [seen EXCEPT ![p][r] = "zero"]
            /\ UNCHANGED <<names, short>>
  /\ Advance(p)
  /\ UNCHANGED <<chunks, family, input>>

Require(p) ==
  /\ At(p, "require")
  /\ Advance(p)
  /\ UNCHANGED <<store, family, input>>

\* A failing call of the parent: it starts to undo what it has.
CallFails ==
  /\ \E op \in {"acquire", "require", "forkOrReturn"} : At("parent", op)
  /\ mode' = [mode EXCEPT !["parent"] = "unwinding"]
  /\ undone' = 1
  /\ UNCHANGED <<queue, demo, pc, store, family, input>>

\* What releasing r in process p does.
Drop(p, r) ==
  /\ held' = [held EXCEPT ![p] = @ \ {r}]
  /\ names' = names \ {r}
  /\ short' = short \ {r}
  /\ UNCHANGED <<seen, chunks>>

\* Slip: the same resource is released again and again.
Undo_repeats ==
  /\ mode["parent"] = "unwinding"
  /\ undone \in DOMAIN Step("parent").undo
  /\ Drop("parent", Step("parent").undo[undone])
  /\ UNCHANGED <<program, family, input>>

\* Slip: the error path releases in the order of acquisition.
Undo_reversed ==
  LET undo == Step("parent").undo IN
  /\ mode["parent"] = "unwinding"
  /\ undone \in DOMAIN undo
  /\ Drop("parent", undo[Len(undo) + 1 - undone])
  /\ undone' = undone + 1
  /\ UNCHANGED <<queue, demo, pc, mode, family, input>>

\* One release of the error path.
Undo ==
  /\ mode["parent"] = "unwinding"
  /\ undone \in DOMAIN Step("parent").undo
  /\ Drop("parent", Step("parent").undo[undone])
  /\ undone' = undone + 1
  /\ UNCHANGED <<queue, demo, pc, mode, family, input>>

Release(p) ==
  /\ At(p, "release")
  /\ Drop(p, Step(p).res)
  /\ Advance(p)
  /\ UNCHANGED <<family, input>>

\* for (...) { p = malloc(chunk); if (p == nullptr) break; push_back(p); }
Grow ==
  /\ At("parent", "grow")
  /\ chunks < ChunkMax
  /\ chunks' = chunks + 1
  /\ UNCHANGED <<program, held, names, short, seen, family, input>>

GrowStops ==
  /\ At("parent", "grow")
  /\ Advance("parent")
  /\ UNCHANGED <<store, family, input>>

\* for (void* ptr : pressure_buffers) free(ptr);
Shrink ==
  /\ At("parent", "shrink")
  /\ chunks > 0
  /\ chunks' = chunks - 1
  /\ UNCHANGED <<program, held, names, short, seen, family, input>>

ShrinkEnds ==
  /\ At("parent", "shrink")
  /\ chunks = 0
  /\ Advance("parent")
  /\ UNCHANGED <<store, family, input>>

(***************************************************************************)
(* Memory                                                                  *)
(***************************************************************************)
\* The page behind r does not exist: the file is shorter than the mapping.
BeyondEnd(r) == r \in Nominal /\ Needs[r] \intersect short # {}

\* A write through a shared mapping is seen by every process that maps it.
Touch(p) ==
  LET r == Step(p).res
      reached(q) == q = p \/ (Kind[r] = "shared" /\ r \in held[q])
  IN
  /\ At(p, "touch")
  /\ ~BeyondEnd(r)
  /\ seen' = [q \in Procs |->
               IF reached(q) THEN [seen[q] EXCEPT ![r] = Step(p).val] ELSE seen[q]]
  /\ Advance(p)
  /\ UNCHANGED <<held, names, short, chunks, family, input>>

\* std::cout << buffer[0]: what is read is judged by the properties.
Check(p) ==
  /\ At(p, "check")
  /\ ~BeyondEnd(Step(p).res)
  /\ Advance(p)
  /\ UNCHANGED <<store, family, input>>

\* The system needs pages and takes those of purgeable memory: what was
\* written there is lost, and zeros are read.
Discard ==
  \E p \in Procs : \E r \in held[p] :
    /\ Kind[r] = "purgeable" /\ seen[p][r] # "zero"
    /\ seen' = [seen EXCEPT ![p][r] = "zero"]
    /\ UNCHANGED <<program, held, names, short, chunks, family, input>>

\* A process that ends loses everything but the names.
Ends(p) == held' = [held EXCEPT ![p] = {}]

\* Touching a page beyond the end of the file: SIGBUS.
Faults ==
  /\ At("parent", "touch")
  /\ BeyondEnd(Step("parent").res)
  /\ mode' = [mode EXCEPT !["parent"] = "killed"]
  /\ Ends("parent")
  /\ chunks' = 0
  /\ UNCHANGED <<queue, demo, pc, undone, names, short, seen, family, input>>

(***************************************************************************)
(* The child                                                               *)
(***************************************************************************)
\* Memory, attachments and descriptors are inherited, Mach rights are not;
\* the stdin buffer is memory too, so the child gets a copy of it.
ForkWorks ==
  /\ At("parent", "fork") \/ At("parent", "forkOrReturn")
  /\ mode["child"] = "none"
  /\ pc' = [parent |-> pc["parent"] + 1, child |-> 1]
  /\ mode' = [mode EXCEPT !["child"] = "running"]
  /\ held' = [held EXCEPT !["child"] = {r \in held["parent"] : Kind[r] # "port"}]
  /\ seen' = [seen EXCEPT !["child"] = seen["parent"]]
  /\ forked' = TRUE
  /\ status' = "none"
  /\ inbuf' = [inbuf EXCEPT !["child"] = inbuf["parent"]]
  /\ eof' = [eof EXCEPT !["child"] = eof["parent"]]
  /\ UNCHANGED <<queue, demo, undone, names, short, chunks, tty>>

\* fork() == -1 is printed and the demo goes on without a child.
ForkFails ==
  /\ At("parent", "fork")
  /\ forked' = FALSE
  /\ Advance("parent")
  /\ UNCHANGED <<store, status, input>>

ChildEnds(how) ==
  /\ mode' = [mode EXCEPT !["child"] = "zombie"]
  /\ status' = how
  /\ Ends("child")
  /\ UNCHANGED <<queue, demo, pc, undone, names, short, seen, chunks, forked, input>>

\* exit(0), exit(1) after a failing call, death by a signal.
ChildExits == At("child", "exit") /\ ChildEnds("ok")
ChildFails == At("child", "acquire") /\ ChildEnds("failed")
ChildKilled == mode["child"] = "running" /\ ChildEnds("killed")

\* Slip: waitpid(pid, &status, WNOHANG).
Wait_nohang ==
  /\ At("parent", "wait")
  /\ Advance("parent")
  /\ UNCHANGED <<store, family, input>>

\* waitpid() returns; the code never looks at the status.
Wait ==
  /\ At("parent", "wait")
  /\ mode["child"] = "zombie"
  /\ mode' = [mode EXCEPT !["child"] = "none"]
  /\ pc' = [pc EXCEPT !["parent"] = @ + 1]
  /\ UNCHANGED <<queue, demo, undone, store, family, input>>

(***************************************************************************)
(* The terminal                                                            *)
(***************************************************************************)
\* The user types a line; a line of 0 characters is Ctrl-D.
TypeLine(n) ==
  /\ mode["parent"] \in {"running", "unwinding"}
  /\ Len(tty) < QueueMax
  /\ tty' = Append(tty, n)
  /\ UNCHANGED <<program, store, family, inbuf, eof>>

\* std::cin.get() with nothing buffered: read() takes one line, whoever asks.
ReadLine(p) ==
  /\ At(p, "pause")
  /\ inbuf[p] = 0 /\ ~eof[p]
  /\ tty # << >>
  /\ tty' = Tail(tty)
  /\ inbuf' = [inbuf EXCEPT ![p] = Head(tty)]
  /\ eof' = [eof EXCEPT ![p] = (Head(tty) = 0)]
  /\ UNCHANGED <<program, store, family>>

\* Slip: end-of-file is taken for "nothing typed yet".
PassPause_ignores_eof(p) ==
  /\ At(p, "pause")
  /\ inbuf[p] > 0
  /\ inbuf' = [inbuf EXCEPT ![p] = @ - 1]
  /\ Advance(p)
  /\ UNCHANGED <<store, family, tty, eof>>

\* Slip: std::cin.peek().
PassPause_peeks(p) ==
  /\ At(p, "pause")
  /\ inbuf[p] > 0 \/ eof[p]
  /\ Advance(p)
  /\ UNCHANGED <<store, family, input>>

\* std::cin.get() returns one buffered character, or end-of-file at once.
PassPause(p) ==
  /\ At(p, "pause")
  /\ inbuf[p] > 0 \/ eof[p]
  /\ inbuf' = [inbuf EXCEPT ![p] = IF @ > 0 THEN @ - 1 ELSE 0]
  /\ Advance(p)
  /\ UNCHANGED <<store, family, tty, eof>>

(***************************************************************************)
(* The end of a demo                                                       *)
(***************************************************************************)
\* main() calls the next of the demos q, or returns.
Continue(q) ==
  /\ forked' = FALSE
  /\ undone' = 1
  /\ IF q = << >>
       THEN /\ mode' = [mode EXCEPT !["parent"] = "returned"]
            /\ UNCHANGED <<queue, demo, pc>>
       ELSE /\ demo' = Head(q)
            /\ queue' = Tail(q)
            /\ pc' = [pc EXCEPT !["parent"] = 1]
            /\ mode' = [mode EXCEPT !["parent"] = "running"]
  /\ UNCHANGED <<store, status, input>>

Return ==
  /\ mode["parent"] = "running"
  /\ pc["parent"] = Len(Script[demo]) + 1
  /\ Continue(queue)

\* Slip: an error path that returns at once.
GiveUp_early ==
  LET alternative == Step("parent").then IN
  /\ mode["parent"] = "unwinding"
  /\ Continue(IF alternative = "none" THEN queue ELSE <<alternative>> \o queue)

\* Everything is undone: the demo returns, or tries its alternative first.
GiveUp ==
  LET alternative == Step("parent").then IN
  /\ mode["parent"] = "unwinding"
  /\ undone = Len(Step("parent").undo) + 1
  /\ Continue(IF alternative = "none" THEN queue ELSE <<alternative>> \o queue)

Init ==
  /\ \E main \in Programs : demo = Head(main) /\ queue = Tail(main)
  /\ pc = [p \in Procs |-> 1]
  /\ mode = [parent |-> "running", child |-> "none"]
  /\ undone = 1
  /\ held = [p \in Procs |-> {}]
  /\ names = {} /\ short = {}
  /\ seen = [p \in Procs |-> [r \in Resources |-> "zero"]]
  /\ chunks = 0
  /\ forked = FALSE
  /\ status = "none"
  /\ tty = << >>
  /\ inbuf = [p \in Procs |-> 0]
  /\ eof = [p \in Procs |-> FALSE]

ParentOnly == CallFails \/ Undo \/ GiveUp \/ Return \/ Grow \/ GrowStops \/ Shrink
              \/ ShrinkEnds \/ Faults \/ ForkWorks \/ ForkFails \/ Wait

Common(p) == Skip(p) \/ Acquire(p) \/ Require(p) \/ Release(p) \/ Touch(p) \/ Check(p)
             \/ ReadLine(p) \/ PassPause(p)

ParentStep == ParentOnly \/ Common("parent")
ChildStep == ChildExits \/ ChildFails \/ Common("child")
User == \E n \in LineSizes : TypeLine(n)

\* What befalls a process without its doing.
Kernel == ChildKilled \/ Discard

Next == ParentStep \/ ChildStep \/ Kernel \/ User

Spec == Init /\ [][Next]_vars

\* The kernel schedules both processes, and the user keeps pressing Enter.
Fairness == WF_vars(ParentStep) /\ WF_vars(ChildStep) /\ WF_vars(User)
FairSpec == Spec /\ Fairness
=============================================================================
