---------------------------- MODULE DemoProperties ----------------------------
(***************************************************************************)
(* What is true of every demo, and what a demo's script must look like for *)
(* it to be true.                                                          *)
(***************************************************************************)
EXTENDS DemoMachine

(* Every variable keeps its type in every state of the two processes, the  *)
(* terminal and the system.                                                *)
TypeOK ==
  /\ queue \in Seq(Demos) /\ demo \in Demos
  /\ pc \in [Procs -> Nat \ {0}]
  /\ mode \in [Procs -> {"none", "running", "unwinding", "zombie", "returned", "killed"}]
  /\ undone \in Nat \ {0}
  /\ held \in [Procs -> SUBSET (Resources \ Names)]
  /\ names \subseteq Names /\ short \subseteq names
  /\ seen \in [Procs -> [Resources -> Values]]
  /\ chunks \in 0 .. ChunkMax
  /\ forked \in BOOLEAN
  /\ status \in {"none", "ok", "failed", "killed"}
  /\ tty \in Seq(LineSizes) /\ Len(tty) <= QueueMax
  /\ inbuf \in [Procs -> Nat] /\ eof \in [Procs -> BOOLEAN]

-----------------------------------------------------------------------------
(* When main() returns, by whichever path, every mapping, descriptor, port *)
(* right, heap block, file, shared memory object and segment the demos     *)
(* acquired is released: no error path forgets one.                        *)
NothingLeaks ==
  mode["parent"] = "returned" => held["parent"] = {} /\ names = {} /\ chunks = 0

(* No step of parent or child touches, reads or releases what the process  *)
(* does not have: nothing is freed twice on an error path, nothing is      *)
(* unmapped and then read, and every call is given a live descriptor.      *)
UsesOnlyWhatItHolds ==
  /\ \A p \in Procs :
       (\E op \in {"touch", "check", "release"} : At(p, op))
         => Step(p).res \in held[p] \union names
  /\ (mode["parent"] = "unwinding" /\ undone \in DOMAIN Step("parent").undo)
         => Step("parent").undo[undone] \in held["parent"] \union names

(* A file, shared memory object or segment is deleted only when no process *)
(* has it open or mapped any more: not the parent, and not the child that  *)
(* inherited the mapping over fork().                                      *)
NamesOutliveTheirUsers ==
  \A p \in Procs : \A r \in held[p] : Needs[r] \intersect Names \subseteq names

(* "The parent reads the first byte (should have been modified by the      *)
(* child)": it does, unless the child failed or was killed - so whenever   *)
(* the child ran to its exit(0), and never because it was not waited for.  *)
(* Of memory that the system may reclaim the demo expects nothing, and no  *)
(* byte is promised to it.                                                 *)
ParentSeesChildsWrite ==
  At("parent", "check") /\ Step("parent").val # "any" /\ status \notin {"failed", "killed"}
    => seen["parent"][Step("parent").res] = Step("parent").val

(* The same message taken at its word: the child's write is seen whether   *)
(* or not the child's own calls fail.                                      *)
ParentAlwaysSeesWrite ==
  At("parent", "check") /\ Step("parent").val # "any" /\ status # "killed"
    => seen["parent"][Step("parent").res] = Step("parent").val

(* main() never returns, and no demo begins, with a child that is running  *)
(* or has not been waited for.                                             *)
NoChildIsLeftBehind ==
  mode["parent"] = "returned" \/ pc["parent"] = 1 => mode["child"] = "none"

(* Parent and child never wait for Enter at the same time, so the Enter    *)
(* the user means for one of them cannot wake the other.                   *)
OneReaderAtATime == ~ \A p \in Procs : At(p, "pause")

(* Writing to the pages of a mapping never kills the process: the file     *)
(* behind the mapping is as long as the mapping.                           *)
NoBusError == mode["parent"] # "killed"

(* What main() owns follows the life cycle of ResourceLifecycle.           *)
Owned == held["parent"] \union names \union (IF chunks > 0 THEN {"blocks"} ELSE {})

Phase == CASE mode["parent"] = "returned" -> "over"
           [] mode["parent"] = "killed" -> "killed"
           [] OTHER -> "open"

Lifecycle == INSTANCE ResourceLifecycle WITH
  Things <- Resources \union {"blocks"},
  MadeFrom <- [r \in Resources \union {"blocks"} |-> IF r = "blocks" THEN {} ELSE Needs[r]],
  Persistent <- Names,
  owned <- Owned,
  phase <- Phase

ImplementsLifecycle == Lifecycle!Spec

-----------------------------------------------------------------------------
(* Whatever fails and however the user types, main() comes to its end.     *)
Terminates == <>(mode["parent"] \in {"returned", "killed"})

-----------------------------------------------------------------------------
(***************************************************************************)
(* Well-formed scripts: the static facts about a script that make the      *)
(* properties above true in every execution.                               *)
(***************************************************************************)
Takes(s, r) == s.op \in {"acquire", "grant"} /\ s.res = r
Drops(s, r) == s.op = "release" /\ s.res = r
Writes(s, r) == s.op \in {"acquire", "grant", "touch"} /\ s.res = r
MayFail(s) == s.op \in {"acquire", "require", "forkOrReturn"}
IsFork(s) == s.op \in {"fork", "forkOrReturn"}

\* What a process has when it is about to execute step i of a script that it
\* began with the resources of start.
HeldFrom(start, script, i) ==
  {r \in Resources :
     \/ r \in start /\ \A k \in 1 .. i - 1 : ~Drops(script[k], r)
     \/ \E j \in 1 .. i - 1 : /\ Takes(script[j], r)
                              /\ \A k \in j + 1 .. i - 1 : ~Drops(script[k], r)}

\* What the parent has when it is about to execute step i of demo d.
HeldBefore(d, i) == HeldFrom({}, Script[d], i)

\* A pressure loop ran before step i (or runs in it) and was not undone.
MayHoldBlocks(d, i) ==
  \E j \in 1 .. i : /\ j \in DOMAIN Script[d] /\ Script[d][j].op = "grow"
                    /\ \A k \in j .. i - 1 : Script[d][k].op # "shrink"

\* The elements of undo from index n on.
Remaining(undo, n) == {undo[k] : k \in n .. Len(undo)}

\* The error path of step i releases exactly what is held there, once.
UndoesAll(d, i) ==
  LET undo == Script[d][i].undo IN
  /\ Remaining(undo, 1) = HeldBefore(d, i)
  /\ \A j, k \in DOMAIN undo : undo[j] = undo[k] => j = k
  /\ ~MayHoldBlocks(d, i)

StepWellFormed(d, i) ==
  LET s == Script[d][i] IN
  /\ s.op \in {"acquire", "grant"} => s.res \notin HeldBefore(d, i)
  /\ s.op \in {"release", "touch", "check"} => s.res \in HeldBefore(d, i)
  /\ s.op \in {"acquire", "grant", "release", "touch", "grow", "shrink"} => ~s.branch
  /\ MayFail(s) => UndoesAll(d, i)

\* A child was forked before step i and not waited for.
MayHaveChild(d, i) ==
  \E j \in 1 .. i - 1 : /\ IsFork(Script[d][j])
                        /\ \A k \in j + 1 .. i - 1 : Script[d][k].op # "wait"

\* A demo forks once, waits before it ends, and can fail nowhere in between.
ChildIsJoined(d) ==
  /\ ~MayHaveChild(d, Len(Script[d]) + 1)
  /\ \A i \in DOMAIN Script[d] :
       MayHaveChild(d, i) => ~IsFork(Script[d][i]) /\ ~MayFail(Script[d][i])
  /\ \A i, j \in DOMAIN Script[d] : IsFork(Script[d][i]) /\ IsFork(Script[d][j]) => i = j

\* What a child starts with, and what it has before its step i.
Inherited(d) ==
  {r \in Resources : /\ Kind[r] \notin {"port", "name"}
                     /\ \E i \in DOMAIN Script[d] : /\ IsFork(Script[d][i])
                                                    /\ r \in HeldBefore(d, i)}
ChildHeldBefore(d, i) == HeldFrom(Inherited(d), ChildScript[d], i)

\* A child gets past an acquisition only with what the call is given.
ChildReaches(d, i) ==
  \A j \in 1 .. i - 1 :
    LET s == ChildScript[d][j] IN
    s.op \in {"acquire", "grant"} => Needs[s.res] \subseteq ChildHeldBefore(d, j) \union Names

ChildIsWellFormed(d) ==
  \A i \in DOMAIN ChildScript[d] :
    LET s == ChildScript[d][i] IN
    /\ s.op \in {"acquire", "grant", "release"} => s.res \notin Names
    /\ s.op = "acquire" => s.undo = << >>
    /\ s.op \in {"touch", "check", "release"} /\ ChildReaches(d, i)
         => s.res \in ChildHeldBefore(d, i)

\* Nothing is released from which something still held was made, and no name
\* while there is a child.
ReleasesAreOrdered(d) ==
  \A i \in DOMAIN Script[d] :
    LET s == Script[d][i] IN
    /\ s.op = "release" => /\ \A q \in HeldBefore(d, i) : s.res \notin Needs[q]
                           /\ s.res \in Names => ~MayHaveChild(d, i)
    /\ MayFail(s) => \A n \in DOMAIN s.undo :
                       \A q \in Remaining(s.undo, n) : s.undo[n] \notin Needs[q]

\* The last that a script writes to r before its step i is v.
LeavesIn(script, i, r, v) ==
  \E j \in 1 .. i - 1 : /\ script[j].op = "touch" /\ script[j].res = r /\ script[j].val = v
                        /\ \A k \in j + 1 .. i - 1 : ~Writes(script[k], r)

\* From its fork, step f, to step i the parent has r mapped and writes nothing.
OnlyReads(d, f, i, r) ==
  /\ f \in DOMAIN Script[d] /\ f < i /\ IsFork(Script[d][f])
  /\ Kind[r] = "shared"
  /\ \A k \in f + 1 .. i : r \in HeldBefore(d, k)
  /\ \A k \in f + 1 .. i - 1 : ~Writes(Script[d][k], r)

\* A step x at which the child of d exits with 0.
ExitsAt(d, x) ==
  x \in DOMAIN ChildScript[d] /\ ChildScript[d][x].op = "exit" /\ ChildReaches(d, x)

\* What step i expects to read, if anything, is what the child wrote on every
\* way to its exit(0), in memory the system takes from nobody.
CheckIsMeant(d, i) ==
  LET s == Script[d][i] IN
  \/ s.val = "any"
  \/ /\ s.branch /\ ~MayHaveChild(d, i)
     /\ \A x \in DOMAIN ChildScript[d] :
          ExitsAt(d, x) => /\ \E f \in DOMAIN Script[d] : OnlyReads(d, f, i, s.res)
                           /\ LeavesIn(ChildScript[d], x, s.res, s.val)

DemoIsWellFormed(d) ==
  /\ \A i \in DOMAIN Script[d] : /\ StepWellFormed(d, i)
                                 /\ Script[d][i].op = "check" => CheckIsMeant(d, i)
  /\ HeldBefore(d, Len(Script[d]) + 1) = {}
  /\ ~MayHoldBlocks(d, Len(Script[d]) + 1)
  /\ ChildIsJoined(d) /\ ChildIsWellFormed(d) /\ ReleasesAreOrdered(d)

ScriptsAreWellFormed == \A d \in Demos : DemoIsWellFormed(d)

\* The parent never asks for a character while its child may ask for one.
PausesAreApart ==
  \A d \in Demos : \A i \in DOMAIN Script[d] :
    MayHaveChild(d, i) => Script[d][i].op # "pause"

\* What the parent has, its heap blocks aside.
Has == held["parent"] \union names

\* The ledger: at every step the parent has exactly what the script says it
\* has there, on the normal path and on every error path.
Ledger ==
  /\ mode["parent"] = "running"   => Has = HeldBefore(demo, pc["parent"])
  /\ mode["parent"] = "unwinding" => Has = Remaining(Step("parent").undo, undone)
  /\ mode["parent"] = "returned"  => Has = {}

\* Blocks of a pressure loop exist only where the script may hold some.
BlocksLedger ==
  chunks > 0 => mode["parent"] = "running" /\ MayHoldBlocks(demo, pc["parent"])

\* Where the two processes can be.
Control ==
  /\ mode["parent"] \in {"running", "unwinding", "returned", "killed"}
  /\ mode["child"] \in {"none", "running", "zombie"}
  /\ mode["parent"] = "running" => pc["parent"] \in 1 .. Len(Script[demo]) + 1
  /\ mode["parent"] = "unwinding" =>
       /\ pc["parent"] \in DOMAIN Script[demo]
       /\ MayFail(Step("parent"))
       /\ undone \in 1 .. Len(Step("parent").undo) + 1

(* The inductive invariant behind the theorems: in every state, what the   *)
(* parent has is exactly what its position in the script, or in an error   *)
(* path, says it has.                                                      *)
Accounts == TypeOK /\ Control /\ Ledger /\ BlocksLedger

-----------------------------------------------------------------------------
\* There is a child only between the fork and the wait of a parent that runs,
\* or that was killed there.
ChildIsKnown ==
  mode["child"] # "none" =>
    /\ forked /\ mode["parent"] \in {"running", "killed"}
    /\ MayHaveChild(demo, pc["parent"])

\* The child's ledger.
ChildLedger ==
  /\ mode["child"] = "running" =>
       /\ pc["child"] \in 1 .. Len(ChildScript[demo]) + 1
       /\ ChildReaches(demo, pc["child"])
       /\ held["child"] = ChildHeldBefore(demo, pc["child"])
  /\ mode["child"] # "running" => held["child"] = {}

\* What the parent has was made from what it still has.
NeedsAreMet == mode["parent"] # "killed" => \A r \in Has : Needs[r] \subseteq Has

\* How the child ended is known when it has ended.
StatusLedger ==
  /\ mode["child"] = "running" => status = "none"
  /\ forked /\ mode["child"] # "running" => status # "none"

\* What a script that has come to step i left in regions the parent only reads.
ArrivedFrom(script, i) ==
  \A r \in Resources, f \in DOMAIN Script[demo], v \in Values :
    OnlyReads(demo, f, pc["parent"], r) /\ LeavesIn(script, i, r, v) => seen["parent"][r] = v

\* After its fork the parent reads what the child has written so far, or had
\* written when it exited with 0.
MemoryLedger ==
  mode["parent"] = "running" =>
    /\ forked /\ mode["child"] = "running" => ArrivedFrom(ChildScript[demo], pc["child"])
    /\ forked /\ status = "ok" =>
         \E x \in DOMAIN ChildScript[demo] :
           ExitsAt(demo, x) /\ ArrivedFrom(ChildScript[demo], x)

(* The second inductive invariant, relative to Accounts: where a child is, *)
(* what it has and what it has written follow from the positions of parent *)
(* and child; no name goes while a process has something made from it.     *)
FamilyAccounts ==
  /\ ChildIsKnown /\ ChildLedger /\ NeedsAreMet /\ NamesOutliveTheirUsers
  /\ StatusLedger /\ MemoryLedger
=============================================================================
