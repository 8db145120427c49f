------------------------------ MODULE DemoSteps ------------------------------
(***************************************************************************)
(* The vocabulary in which the demo programs are written down.             *)
(*                                                                         *)
(* Every demo of the repository is straight-line code: it acquires         *)
(* resources one after the other, touches the memory, pauses for the user, *)
(* sometimes forks a child, and releases what it acquired.  A demo is      *)
(* therefore a sequence of steps, and a step is a record:                  *)
(*                                                                         *)
(*   op      what the step does                                            *)
(*   res     the resource it acquires, touches, checks or releases         *)
(*   val     the byte it writes to every page, or expects to read          *)
(*   undo    what the code releases, in this order, when the call fails    *)
(*   then    the demo called after a failure ("none": the demo returns)    *)
(*   branch  TRUE for a step of the parent's branch after fork(), which is *)
(*           skipped when fork() failed                                    *)
(***************************************************************************)

LOCAL Blank == [op |-> "pause", res |-> "none", val |-> "none", undo |-> << >>,
                then |-> "none", branch |-> FALSE]

\* A call that yields a resource; on failure the demo undoes and returns.
Acquire(r, undo) == [Blank EXCEPT !.op = "acquire", !.res = r, !.undo = undo]

\* The same, with another demo tried after the failure.
AcquireElse(r, undo, demo) == [Acquire(r, undo) EXCEPT !.then = demo]

\* new char[n]: its failure is an exception nobody catches.
New(r) == [Acquire(r, << >>) EXCEPT !.op = "new"]

\* The descriptor that comes with the file of the preceding call (mkstemp).
Grant(r) == [Blank EXCEPT !.op = "grant", !.res = r]

\* A call that yields nothing but must succeed: ftruncate, fstat, write.
Require(undo) == [Blank EXCEPT !.op = "require", !.undo = undo]

\* The loop that writes one byte into every page of a mapping.
Touch(r, v) == [Blank EXCEPT !.op = "touch", !.res = r, !.val = v]

\* "Press Enter to continue": std::cin.get().
Pause == Blank

\* fork() whose failure is only reported, and fork() whose failure returns.
Fork == [Blank EXCEPT !.op = "fork"]
ForkOrReturn(undo) == [Blank EXCEPT !.op = "forkOrReturn", !.undo = undo]

\* waitpid() and the read that "should have been modified by the child".
Wait == [Blank EXCEPT !.op = "wait"]
Check(r, v) == [Blank EXCEPT !.op = "check", !.res = r, !.val = v]

\* The read that reports what it finds, whichever of two bytes that is.
Look(r) == Check(r, "any")

\* free, munmap, close, unlink, shmdt, ...
Release(r) == [Blank EXCEPT !.op = "release", !.res = r]

\* The loop that mallocs blocks until one fails, and the loop that frees them.
Grow == [Blank EXCEPT !.op = "grow"]
Shrink == [Blank EXCEPT !.op = "shrink"]

\* exit(0) of the child.
Exit == [Blank EXCEPT !.op = "exit"]

\* The steps of the else-branch of "if (pid == 0)".
InParent(steps) == [i \in DOMAIN steps |-> [steps[i] EXCEPT !.branch = TRUE]]
=============================================================================
