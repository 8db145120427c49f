------------------------------ MODULE DemoProofs ------------------------------
(***************************************************************************)
(* Theorems about every demo whose script is well formed: what the parent  *)
(* has is accounted for at every step, and so nothing leaks; what its      *)
(* child has, knows and writes is too, and so nothing is used that is not  *)
(* there, nobody is left behind and the parent reads what the child wrote; *)
(* that pauses spend the characters typed;                                 *)
(* and all of this again for a program that is interrupted and restarted.  *)
(***************************************************************************)
EXTENDS DemoRestart, TerminalProperties, WellFoundedInduction, TLAPS

-----------------------------------------------------------------------------
(***************************************************************************)
(* Scripts                                                                 *)
(***************************************************************************)
(* What the assumptions on the constants say of a demo's two scripts.      *)
LEMMA ScriptType ==
  ASSUME NEW d \in Demos
  PROVE  /\ Script[d] \in Seq(StepRecord) /\ ChildScript[d] \in Seq(StepRecord)
         /\ DOMAIN Script[d] = 1 .. Len(Script[d])
         /\ DOMAIN ChildScript[d] = 1 .. Len(ChildScript[d])
         /\ Len(Script[d]) \in Nat
         /\ \A i \in DOMAIN Script[d] : Script[d][i] \in StepRecord
         /\ \A i \in DOMAIN ChildScript[d] : ChildScript[d][i] \in StepRecord
<1>1. Script[d] \in Seq(StepRecord) /\ ChildScript[d] \in Seq(StepRecord)
  BY DemoAssumption
<1>2. QED
  BY <1>1

(* The fields of a step that the error paths use.                          *)
LEMMA StepFields ==
  ASSUME NEW s \in StepRecord
  PROVE  s.undo \in Seq(Resources) /\ s.then \in Demos \union {"none"}
<1>1. s \in [op : STRING, res : STRING, val : STRING, undo : Seq(Resources),
             then : Demos \union {"none"}, branch : BOOLEAN]
  BY DEF StepRecord
<1>2. QED
  BY <1>1

(* Before the first step a process has what it began with.                 *)
LEMMA HeldFromStart ==
  ASSUME NEW start \in SUBSET Resources, NEW script
  PROVE  HeldFrom(start, script, 1) = start
<1>1. 1 .. 1 - 1 = {}
  OBVIOUS
<1>2. QED
  BY <1>1 DEF HeldFrom

(* A resource is held after step i when the step takes it, or when it was  *)
(* held before and the step does not drop it.                              *)
LEMMA HeldFromStep ==
  ASSUME NEW start, NEW script, NEW i \in Nat, i >= 1, NEW r \in Resources
  PROVE  r \in HeldFrom(start, script, i + 1) <=>
           \/ Takes(script[i], r)
           \/ r \in HeldFrom(start, script, i) /\ ~Drops(script[i], r)
<1> DEFINE Kept(n) == r \in start /\ \A k \in 1 .. n - 1 : ~Drops(script[k], r)
           Taken(n, j) == Takes(script[j], r) /\ \A k \in j + 1 .. n - 1 : ~Drops(script[k], r)
<1>1. \A n : r \in HeldFrom(start, script, n) <=> Kept(n) \/ \E j \in 1 .. n - 1 : Taken(n, j)
  BY DEF HeldFrom
<1>2. 1 .. (i + 1) - 1 = (1 .. i - 1) \union {i}
  OBVIOUS
<1>3. Kept(i + 1) <=> Kept(i) /\ ~Drops(script[i], r)
  BY <1>2
<1>4. \A j \in 1 .. i - 1 : Taken(i + 1, j) <=> Taken(i, j) /\ ~Drops(script[i], r)
  <2>1. \A j \in 1 .. i - 1 : j + 1 .. (i + 1) - 1 = (j + 1 .. i - 1) \union {i}
    OBVIOUS
  <2>2. QED
    BY <2>1
<1>5. Taken(i + 1, i) <=> Takes(script[i], r)
  <2>1. i + 1 .. (i + 1) - 1 = {}
    OBVIOUS
  <2>2. QED
    BY <2>1
<1>6. (\E j \in 1 .. (i + 1) - 1 : Taken(i + 1, j)) <=>
        Takes(script[i], r) \/ ((\E j \in 1 .. i - 1 : Taken(i, j)) /\ ~Drops(script[i], r))
  <2> HIDE DEF Taken
  <2> QED BY <1>2, <1>4, <1>5
<1>7. QED
  <2> HIDE DEF Kept, Taken
  <2> QED BY <1>1, <1>3, <1>6

(* What is held changes from one step to the next by what the step takes   *)
(* or drops.                                                               *)
LEMMA HeldFromNext ==
  ASSUME NEW start, NEW script \in Seq(StepRecord), NEW i \in DOMAIN script
  PROVE  LET s == script[i] IN
         HeldFrom(start, script, i + 1) =
           IF s.op \in {"acquire", "grant"} THEN HeldFrom(start, script, i) \union {s.res}
           ELSE IF s.op = "release" THEN HeldFrom(start, script, i) \ {s.res}
           ELSE HeldFrom(start, script, i)
<1> DEFINE s == script[i]
<1>1. i \in Nat /\ i >= 1 /\ s \in StepRecord
  OBVIOUS
<1>2. s.op \in {"acquire", "grant"} => s.res \in Resources
  BY <1>1 DEF StepRecord
<1>3. \A r \in Resources :
        r \in HeldFrom(start, script, i + 1) <=>
          Takes(s, r) \/ (r \in HeldFrom(start, script, i) /\ ~Drops(s, r))
  BY <1>1, HeldFromStep
<1>4. /\ HeldFrom(start, script, i) \subseteq Resources
      /\ HeldFrom(start, script, i + 1) \subseteq Resources
  BY DEF HeldFrom
<1>5. QED
  BY <1>2, <1>3, <1>4 DEF Takes, Drops

(* The parent holds nothing before its first step.                         *)
LEMMA HeldAtStart ==
  ASSUME NEW d \in Demos
  PROVE  HeldBefore(d, 1) = {}
BY HeldFromStart DEF HeldBefore

(* What the parent holds changes by what its step takes or drops.          *)
LEMMA HeldNext ==
  ASSUME NEW d \in Demos, NEW i \in DOMAIN Script[d]
  PROVE  LET s == Script[d][i] IN
         HeldBefore(d, i + 1) =
           IF s.op \in {"acquire", "grant"} THEN HeldBefore(d, i) \union {s.res}
           ELSE IF s.op = "release" THEN HeldBefore(d, i) \ {s.res}
           ELSE HeldBefore(d, i)
BY ScriptType, HeldFromNext DEF HeldBefore

(* Blocks that may be held stay until a step that frees them.              *)
LEMMA BlocksNext ==
  ASSUME NEW d \in Demos, NEW i \in DOMAIN Script[d],
         MayHoldBlocks(d, i), Script[d][i].op # "shrink"
  PROVE  MayHoldBlocks(d, i + 1)
<1>1. i \in Nat
  BY ScriptType
<1>2. PICK j \in 1 .. i : /\ j \in DOMAIN Script[d] /\ Script[d][j].op = "grow"
                          /\ \A k \in j .. i - 1 : Script[d][k].op # "shrink"
  BY DEF MayHoldBlocks
<1>3. \A k \in j .. (i + 1) - 1 : Script[d][k].op # "shrink"
  BY <1>1, <1>2
<1>4. QED
  BY <1>1, <1>2, <1>3 DEF MayHoldBlocks

(* Releasing the n-th element of an error path leaves the elements after   *)
(* it, because none is released twice.                                     *)
LEMMA RemainingNext ==
  ASSUME NEW undo \in Seq(Resources), NEW n \in DOMAIN undo,
         \A j, k \in DOMAIN undo : undo[j] = undo[k] => j = k
  PROVE  Remaining(undo, n + 1) = Remaining(undo, n) \ {undo[n]}
<1>1. n \in 1 .. Len(undo) /\ DOMAIN undo = 1 .. Len(undo) /\ Len(undo) \in Nat
  OBVIOUS
<1>2. n + 1 .. Len(undo) = (n .. Len(undo)) \ {n}
  BY <1>1
<1>3. \A k \in n .. Len(undo) : undo[k] = undo[n] => k = n
  BY <1>1
<1>4. QED
  BY <1>1, <1>2, <1>3 DEF Remaining

(* After the last element of an error path nothing remains.                *)
LEMMA RemainingNone ==
  ASSUME NEW undo \in Seq(Resources)
  PROVE  Remaining(undo, Len(undo) + 1) = {}
BY DEF Remaining

-----------------------------------------------------------------------------
(***************************************************************************)
(* Types                                                                   *)
(***************************************************************************)
(* The script of either process is a sequence of steps.                    *)
LEMMA StepType ==
  ASSUME TypeOK, NEW p \in Procs
  PROVE  /\ Steps(p) \in Seq(StepRecord)
         /\ DOMAIN Steps(p) = 1 .. Len(Steps(p))
         /\ pc[p] \in DOMAIN Steps(p) => Step(p) \in StepRecord
<1>1. Steps(p) \in Seq(StepRecord)
  BY ScriptType DEF TypeOK, Steps
<1>2. QED
  BY <1>1 DEF Step

(* A process at a step is at a step of its script.                         *)
LEMMA AtType ==
  ASSUME TypeOK, NEW p \in Procs, NEW op, At(p, op)
  PROVE  Step(p) \in StepRecord /\ Step(p).op = op
BY StepType DEF At, Ready

(* Going on to the next step keeps the types.                              *)
LEMMA AdvanceType ==
  ASSUME TypeOK, NEW p \in Procs, Advance(p)
  PROVE  /\ pc' \in [Procs -> Nat \ {0}] /\ queue' = queue /\ demo' = demo
         /\ mode' = mode /\ undone' = undone
BY DEF TypeOK, Advance

(* Acquiring a resource keeps the types.                                   *)
LEMMA AcquireType ==
  ASSUME TypeOK, NEW p \in Procs, Acquire(p)
  PROVE  TypeOK'
<1> DEFINE r == Step(p).res
<1>1. r \in Resources
  <2>1. At(p, "acquire") \/ At(p, "grant")
    BY DEF Acquire
  <2>2. Step(p) \in StepRecord /\ Step(p).op \in {"acquire", "grant"}
    BY <2>1, AtType
  <2>3. QED
    BY <2>2 DEF StepRecord
<1>2. Advance(p) /\ UNCHANGED <<chunks, family, input>>
  BY DEF Acquire
<1>3. CASE r \in Names
  <2>1. names' = names \union {r} /\ held' = held /\ seen' = seen
    BY <1>3 DEF Acquire
  <2>2. \E s \in {{}, {r} \intersect Unchecked} : short' = short \union s
    BY <1>3 DEF Acquire
  <2>3. names' \subseteq Names /\ short' \subseteq names'
    BY <2>1, <2>2, <1>3 DEF TypeOK
  <2>4. QED
    BY <1>2, <2>1, <2>3, AdvanceType DEF TypeOK, Names, family, input
<1>4. CASE r \notin Names
  <2> DEFINE now == [seen[p] EXCEPT ![r] = "zero"]
  <2>1. /\ held' = [held EXCEPT ![p] = @ \union {r}]
        /\ seen' = [seen EXCEPT ![p] = now]
        /\ names' = names /\ short' = short
    BY <1>4 DEF Acquire
  <2>2. held[p] \union {r} \subseteq Resources \ Names
    BY <1>1, <1>4 DEF TypeOK
  <2>3. held' \in [Procs -> SUBSET (Resources \ Names)]
    BY <2>1, <2>2 DEF TypeOK
  <2>4. now \in [Resources -> Values]
    BY <1>1, DemoAssumption DEF TypeOK
  <2>5. seen' \in [Procs -> [Resources -> Values]]
    BY <2>1, <2>4 DEF TypeOK
  <2>6. QED
    BY <1>2, <2>1, <2>3, <2>5, AdvanceType DEF TypeOK, Names, family, input
<1>5. QED
  BY <1>3, <1>4

(* Giving back a resource keeps the types of what it changes.              *)
LEMMA DropType ==
  ASSUME TypeOK, NEW p \in Procs, NEW r, Drop(p, r)
  PROVE  /\ held' \in [Procs -> SUBSET (Resources \ Names)]
         /\ names' \subseteq Names /\ short' \subseteq names'
         /\ seen' = seen /\ chunks' = chunks
<1>1. held' = [held EXCEPT ![p] = @ \ {r}] /\ held[p] \ {r} \subseteq Resources \ Names
  BY DEF Drop, TypeOK
<1>2. held' \in [Procs -> SUBSET (Resources \ Names)]
  BY <1>1 DEF TypeOK
<1>3. QED
  BY <1>2 DEF Drop, TypeOK

(* Writing to a mapping keeps the types.                                   *)
LEMMA TouchType ==
  ASSUME TypeOK, NEW p \in Procs, Touch(p)
  PROVE  TypeOK'
<1> DEFINE r == Step(p).res
           v == Step(p).val
           reached(q) == q = p \/ (Kind[r] = "shared" /\ r \in held[q])
           now(q) == [seen[q] EXCEPT ![r] = v]
<1>1. r \in Resources /\ v \in Values
  <2>1. At(p, "touch")
    BY DEF Touch
  <2>2. Step(p) \in StepRecord /\ Step(p).op = "touch"
    BY <2>1, AtType
  <2>3. QED
    BY <2>2 DEF StepRecord
<1>2. /\ seen' = [q \in Procs |-> IF reached(q) THEN now(q) ELSE seen[q]]
      /\ Advance(p) /\ UNCHANGED <<held, names, short, chunks, family, input>>
  BY DEF Touch
<1>3. \A q \in Procs : now(q) \in [Resources -> Values] /\ seen[q] \in [Resources -> Values]
  BY <1>1 DEF TypeOK
<1>4. seen' \in [Procs -> [Resources -> Values]]
  <2> HIDE DEF now, reached
  <2> QED BY <1>2, <1>3
<1>5. QED
  BY <1>2, <1>4, AdvanceType DEF TypeOK, Names, family, input

(* Every action that both processes may take keeps the types.              *)
LEMMA CommonType ==
  ASSUME TypeOK, NEW p \in Procs, Common(p)
  PROVE  TypeOK'
<1>1. CASE Skip(p)
  BY <1>1, AdvanceType DEF Skip, TypeOK, Names, store, family, input
<1>2. CASE Require(p)
  BY <1>2, AdvanceType DEF Require, TypeOK, Names, store, family, input
<1>3. CASE Release(p)
  <2>1. Drop(p, Step(p).res) /\ Advance(p) /\ UNCHANGED <<family, input>>
    BY <1>3 DEF Release
  <2>2. QED
    BY <2>1, AdvanceType, DropType DEF TypeOK, Names, family, input
<1>4. CASE Check(p)
  BY <1>4, AdvanceType DEF Check, TypeOK, Names, store, family, input
<1>5. CASE ReadLine(p)
  <2>1. Head(tty) \in LineSizes /\ tty' \in Seq(LineSizes) /\ Len(tty') <= QueueMax
    <3>1. tty \in Seq(LineSizes) /\ tty # << >> /\ tty' = Tail(tty)
      BY <1>5 DEF ReadLine, TypeOK
    <3>2. Len(tty') <= Len(tty) /\ Len(tty') \in Nat
      BY <3>1
    <3>3. QED
      BY <3>1, <3>2, DemoAssumption DEF TypeOK
  <2>2. inbuf' \in [Procs -> Nat] /\ eof' \in [Procs -> BOOLEAN]
    BY <1>5, <2>1, DemoAssumption DEF ReadLine, TypeOK
  <2>3. QED
    BY <1>5, <2>1, <2>2 DEF ReadLine, TypeOK, Names, program, store, family
<1>6. CASE PassPause(p)
  <2>1. inbuf' \in [Procs -> Nat]
    BY <1>6 DEF PassPause, TypeOK
  <2>2. Advance(p) /\ UNCHANGED <<store, family, tty, eof>>
    BY <1>6 DEF PassPause
  <2>3. QED
    BY <2>1, <2>2, AdvanceType DEF TypeOK, Names, store, family
<1>7. QED
  BY <1>1, <1>2, <1>3, <1>4, <1>5, <1>6, AcquireType, TouchType DEF Common

(* Leaving a demo, for the next one or for good, keeps the types.          *)
LEMMA ContinueType ==
  ASSUME TypeOK, NEW q \in Seq(Demos), Continue(q)
  PROVE  TypeOK'
<1>1. /\ UNCHANGED <<held, names, short, seen, chunks, status, tty, inbuf, eof>>
      /\ forked' \in BOOLEAN /\ undone' \in Nat \ {0}
  <2>1. UNCHANGED <<held, names, short, seen, chunks, status, tty, inbuf, eof>>
    BY DEF Continue, store, input
  <2>2. forked' = FALSE /\ undone' = 1
    BY DEF Continue
  <2>3. forked' \in BOOLEAN
    BY <2>2, Zenon
  <2>4. QED
    BY <2>1, <2>2, <2>3
<1>2. CASE q = << >>
  <2>1. mode' = [mode EXCEPT !["parent"] = "returned"] /\ UNCHANGED <<queue, demo, pc>>
    BY <1>2 DEF Continue
  <2>2. mode' \in [Procs -> {"none", "running", "unwinding", "zombie", "returned", "killed"}]
    BY <2>1 DEF TypeOK
  <2>3. QED
    BY <1>1, <2>1, <2>2 DEF TypeOK, Names
<1>3. CASE q # << >>
  <2>1. /\ demo' = Head(q) /\ queue' = Tail(q)
        /\ pc' = [pc EXCEPT !["parent"] = 1]
        /\ mode' = [mode EXCEPT !["parent"] = "running"]
    BY <1>3 DEF Continue
  <2>2. Head(q) \in Demos /\ Tail(q) \in Seq(Demos)
    BY <1>3
  <2>3. mode' \in [Procs -> {"none", "running", "unwinding", "zombie", "returned", "killed"}]
    BY <2>1 DEF TypeOK
  <2>4. pc' \in [Procs -> Nat \ {0}]
    <3>1. pc \in [Procs -> Nat \ {0}] /\ 1 \in Nat \ {0}
      BY DEF TypeOK
    <3>2. pc' = [pc EXCEPT !["parent"] = 1]
      BY <2>1
    <3>3. QED
      BY <3>1, <3>2
  <2>5. QED
    BY <1>1, <2>1, <2>2, <2>3, <2>4 DEF TypeOK, Names
<1>4. QED
  BY <1>2, <1>3

(* The end of the child keeps the types.                                   *)
LEMMA ChildEndsType ==
  ASSUME TypeOK, NEW how \in {"ok", "failed", "killed"}, ChildEnds(how)
  PROVE  TypeOK'
BY DEF ChildEnds, Ends, TypeOK, Names, input, Procs

(* Every action of the parent alone keeps the types.                       *)
LEMMA ParentOnlyType ==
  ASSUME TypeOK, Control, ParentOnly
  PROVE  TypeOK'
<1>1. CASE CallFails
  BY <1>1 DEF CallFails, TypeOK, Names, Procs, store, family, input
<1>2. CASE Undo
  <2>1. /\ Drop("parent", Step("parent").undo[undone]) /\ undone' = undone + 1
        /\ UNCHANGED <<queue, demo, pc, mode, family, input>>
    BY <1>2 DEF Undo
  <2>2. "parent" \in Procs
    BY DEF Procs
  <2>3. QED
    BY <2>1, <2>2, DropType DEF TypeOK, Names, family, input
<1>3. CASE GiveUp
  <2> DEFINE next == Step("parent").then
  <2>1. Step("parent") \in StepRecord
    BY <1>3, ScriptType DEF GiveUp, Control, TypeOK, Step, Steps
  <2>2. next \in Demos \union {"none"}
    BY <2>1 DEF StepRecord
  <2>3. (IF next = "none" THEN queue ELSE <<next>> \o queue) \in Seq(Demos)
    BY <2>2 DEF TypeOK
  <2>4. Continue(IF next = "none" THEN queue ELSE <<next>> \o queue)
    BY <1>3 DEF GiveUp
  <2>5. QED
    BY <2>3, <2>4, ContinueType
<1>4. CASE Return
  <2>1. queue \in Seq(Demos) /\ Continue(queue)
    BY <1>4 DEF Return, TypeOK
  <2>2. QED
    BY <2>1, ContinueType
<1>5. CASE Grow
  BY <1>5, DemoAssumption DEF Grow, TypeOK, Names, program, family, input
<1>6. CASE GrowStops
  BY <1>6, AdvanceType DEF GrowStops, TypeOK, Names, Procs, store, family, input
<1>7. CASE Shrink
  BY <1>7, DemoAssumption DEF Shrink, TypeOK, Names, program, family, input
<1>8. CASE ShrinkEnds
  BY <1>8, AdvanceType DEF ShrinkEnds, TypeOK, Names, Procs, store, family, input
<1>9. CASE Faults
  BY <1>9, DemoAssumption DEF Faults, Ends, TypeOK, Names, Procs, family, input
<1>10. CASE ForkWorks
  <2>1. /\ pc' \in [Procs -> Nat \ {0}]
        /\ mode' = [mode EXCEPT !["child"] = "running"]
        /\ inbuf' = [inbuf EXCEPT !["child"] = inbuf["parent"]]
        /\ eof' = [eof EXCEPT !["child"] = eof["parent"]]
        /\ forked' = TRUE /\ status' = "none"
        /\ UNCHANGED <<queue, demo, undone, names, short, chunks, tty>>
    BY <1>10 DEF ForkWorks, TypeOK, Procs
  <2>2. held' \in [Procs -> SUBSET (Resources \ Names)]
    <3>1. {r \in held["parent"] : Kind[r] # "port"} \subseteq Resources \ Names
      BY DEF TypeOK, Procs
    <3>2. held' = [held EXCEPT !["child"] = {r \in held["parent"] : Kind[r] # "port"}]
      BY <1>10 DEF ForkWorks
    <3>3. QED
      BY <3>1, <3>2 DEF TypeOK
  <2>3. seen' \in [Procs -> [Resources -> Values]]
    BY <1>10 DEF ForkWorks, TypeOK, Procs
  <2>4. QED
    BY <2>1, <2>2, <2>3 DEF TypeOK, Names, Procs
<1>11. CASE ForkFails
  BY <1>11, AdvanceType DEF ForkFails, TypeOK, Names, Procs, store, input
<1>12. CASE Wait
  BY <1>12 DEF Wait, TypeOK, Names, Procs, store, family, input
<1>13. QED
  BY <1>1, <1>2, <1>3, <1>4, <1>5, <1>6, <1>7, <1>8, <1>9, <1>10, <1>11, <1>12 DEF ParentOnly

(* Every step of the machine keeps the types.                              *)
LEMMA TypeNext ==
  ASSUME TypeOK, Control, [Next]_vars
  PROVE  TypeOK'
<1> "parent" \in Procs /\ "child" \in Procs
  BY DEF Procs
<1>1. CASE ParentStep
  BY <1>1, ParentOnlyType, CommonType DEF ParentStep
<1>2. CASE ChildStep
  BY <1>2, CommonType, ChildEndsType DEF ChildStep, ChildExits, ChildFails
<1>3. CASE Kernel
  <2>1. CASE ChildKilled
    BY <2>1, ChildEndsType DEF ChildKilled
  <2>2. CASE Discard
    BY <2>2, DemoAssumption DEF Discard, TypeOK, Names, program, family, input
  <2>3. QED
    BY <1>3, <2>1, <2>2 DEF Kernel
<1>4. CASE User
  <2>1. PICK n \in LineSizes : TypeLine(n)
    BY <1>4 DEF User
  <2>2. tty' \in Seq(LineSizes) /\ Len(tty') <= QueueMax
    BY <2>1, DemoAssumption DEF TypeLine, TypeOK
  <2>3. QED
    BY <2>1, <2>2 DEF TypeLine, TypeOK, Names, program, store, family
<1>5. CASE UNCHANGED vars
  BY <1>5 DEF vars, TypeOK, Names, program, store, family, input
<1>6. QED
  BY <1>1, <1>2, <1>3, <1>4, <1>5 DEF Next

(* The types hold when main() is called.                                   *)
LEMMA TypeInit ==
  ASSUME Init
  PROVE  TypeOK
<1>1. PICK main \in Programs : demo = Head(main) /\ queue = Tail(main)
  BY DEF Init
<1>2. demo \in Demos /\ queue \in Seq(Demos)
  BY <1>1, DemoAssumption
<1>3. /\ mode \in [Procs -> {"none", "running", "unwinding", "zombie", "returned", "killed"}]
      /\ pc \in [Procs -> Nat \ {0}]
  BY DEF Init, Procs
<1>4. /\ held \in [Procs -> SUBSET (Resources \ Names)]
      /\ seen \in [Procs -> [Resources -> Values]]
      /\ inbuf \in [Procs -> Nat] /\ eof \in [Procs -> BOOLEAN]
  BY DemoAssumption DEF Init
<1>5. /\ names \subseteq Names /\ short \subseteq names /\ undone \in Nat \ {0}
      /\ chunks \in 0 .. ChunkMax /\ forked \in BOOLEAN /\ status = "none"
  <2>1. forked \in BOOLEAN
    BY Zenon DEF Init
  <2>2. QED
    BY <2>1, DemoAssumption DEF Init
<1>6. tty \in Seq(LineSizes) /\ Len(tty) <= QueueMax
  BY DemoAssumption DEF Init
<1>7. QED
  BY <1>2, <1>3, <1>4, <1>5, <1>6 DEF TypeOK

-----------------------------------------------------------------------------
(***************************************************************************)
(* The ledger                                                              *)
(***************************************************************************)
ChildModes == {"none", "running", "zombie"}

(* A step that leaves the parent where it is and what it has alone.        *)
LEMMA LedgerFrame ==
  ASSUME Accounts,
         pc'["parent"] = pc["parent"], mode'["parent"] = mode["parent"],
         demo' = demo, undone' = undone, Has' = Has,
         chunks' > 0 => chunks > 0 \/ At("parent", "grow"),
         mode'["child"] \in ChildModes
  PROVE  Control' /\ Ledger' /\ BlocksLedger'
<1>1. Step("parent")' = Step("parent") /\ Script[demo'] = Script[demo]
  BY DEF Step, Steps
<1>2. Control'
  BY <1>1 DEF Accounts, Control, ChildModes
<1>3. Ledger'
  BY <1>1 DEF Accounts, Ledger
<1>4. BlocksLedger'
  <2>1. At("parent", "grow") => mode["parent"] = "running" /\ MayHoldBlocks(demo, pc["parent"])
    <3>1. demo \in Demos /\ pc["parent"] \in Nat \ {0}
      BY DEF Accounts, TypeOK, Procs
    <3>2. QED
      BY <3>1, ScriptType DEF At, Ready, Step, Steps, MayHoldBlocks
  <2>2. QED
    BY <2>1 DEF Accounts, BlocksLedger
<1>5. QED
  BY <1>2, <1>3, <1>4

(* The parent goes on to its next step, having taken or dropped what the   *)
(* step says.                                                              *)
LEMMA LedgerAdvance ==
  ASSUME Accounts, Ready("parent"),
         pc'["parent"] = pc["parent"] + 1, mode'["parent"] = "running", demo' = demo,
         LET s == Step("parent") IN
           Has' = IF s.op \in {"acquire", "grant"} THEN Has \union {s.res}
                  ELSE IF s.op = "release" THEN Has \ {s.res} ELSE Has,
         chunks' > 0 => chunks > 0 /\ Step("parent").op # "shrink",
         mode'["child"] \in ChildModes
  PROVE  Control' /\ Ledger' /\ BlocksLedger'
<1> DEFINE d == demo
           i == pc["parent"]
<1>1. /\ d \in Demos /\ i \in DOMAIN Script[d] /\ i \in Nat
      /\ Step("parent") = Script[d][i] /\ mode["parent"] = "running"
  BY DEF Accounts, TypeOK, Procs, Ready, Step, Steps
<1>2. i + 1 \in 1 .. Len(Script[d]) + 1
  BY <1>1, ScriptType
<1>3. Control'
  BY <1>2 DEF Accounts, Control, ChildModes
<1>4. Has' = HeldBefore(d, i + 1)
  <2>1. Has = HeldBefore(d, i)
    BY <1>1 DEF Accounts, Ledger
  <2>2. QED
    BY <1>1, <2>1, HeldNext
<1>5. Ledger'
  BY <1>4 DEF Ledger
<1>6. BlocksLedger'
  BY <1>1, BlocksNext DEF Accounts, BlocksLedger
<1>7. QED
  BY <1>3, <1>5, <1>6

(* A demo begins with nothing held.                                        *)
LEMMA LedgerContinue ==
  ASSUME Accounts, NEW q \in Seq(Demos), Continue(q), Has = {}, chunks = 0
  PROVE  Control' /\ Ledger' /\ BlocksLedger'
<1>1. Has' = {} /\ chunks' = 0
  BY DEF Continue, store, Has
<1>2. mode'["child"] = mode["child"] /\ mode["child"] \in ChildModes
  BY DEF Continue, Accounts, Control, TypeOK, Procs, ChildModes
<1>3. CASE q = << >>
  <2>1. mode'["parent"] = "returned"
    BY <1>3 DEF Continue, Accounts, TypeOK, Procs
  <2>2. QED
    BY <1>1, <1>2, <2>1 DEF Control, Ledger, BlocksLedger, ChildModes
<1>4. CASE q # << >>
  <2>1. demo' \in Demos /\ pc'["parent"] = 1 /\ mode'["parent"] = "running"
    BY <1>4 DEF Continue, Accounts, TypeOK, Procs
  <2>2. 1 \in 1 .. Len(Script[demo']) + 1 /\ HeldBefore(demo', 1) = {}
    BY <2>1, ScriptType, HeldAtStart
  <2>3. QED
    BY <1>1, <1>2, <2>1, <2>2 DEF Control, Ledger, BlocksLedger, ChildModes
<1>5. QED
  BY <1>3, <1>4

(* What a well-formed script says of the step the parent is about to take. *)
LEMMA ParentStepWellFormed ==
  ASSUME Accounts, ScriptsAreWellFormed, pc["parent"] \in DOMAIN Script[demo]
  PROVE  /\ StepWellFormed(demo, pc["parent"])
         /\ Step("parent") = Script[demo][pc["parent"]]
         /\ Step("parent") \in StepRecord
BY ScriptType DEF Accounts, TypeOK, ScriptsAreWellFormed, DemoIsWellFormed, Step, Steps

(* Dropping r in the parent removes it from what the parent has.           *)
LEMMA DropHas ==
  ASSUME TypeOK, NEW r, Drop("parent", r)
  PROVE  Has' = Has \ {r} /\ chunks' = chunks
BY DEF Drop, Has, TypeOK, Procs

(* The actions both processes share, taken by the parent.                  *)
LEMMA ParentCommonLedger ==
  ASSUME Accounts, ScriptsAreWellFormed, Common("parent")
  PROVE  Control' /\ Ledger' /\ BlocksLedger'
<1> DEFINE s == Step("parent")
<1> USE DEF Procs
<1>1. TypeOK /\ mode["child"] \in ChildModes
  BY DEF Accounts, Control, ChildModes
<1>2. Ready("parent") => /\ StepWellFormed(demo, pc["parent"])
                         /\ s = Script[demo][pc["parent"]] /\ s \in StepRecord
  BY ParentStepWellFormed DEF Ready, Steps
<1>3. ASSUME Ready("parent"), Advance("parent"), chunks' = chunks, s.op # "shrink",
             Has' = IF s.op \in {"acquire", "grant"} THEN Has \union {s.res}
                    ELSE IF s.op = "release" THEN Has \ {s.res} ELSE Has
      PROVE  Control' /\ Ledger' /\ BlocksLedger'
  <2>1. /\ pc'["parent"] = pc["parent"] + 1 /\ demo' = demo
        /\ mode'["parent"] = "running" /\ mode'["child"] \in ChildModes
    BY <1>1, <1>3 DEF Advance, TypeOK, Ready
  <2>2. chunks' > 0 => chunks > 0 /\ s.op # "shrink"
    BY <1>3
  <2>3. QED
    BY <1>3, <2>1, <2>2, LedgerAdvance
<1>4. CASE Skip("parent")
  <2>1. Ready("parent") /\ Advance("parent") /\ chunks' = chunks /\ Has' = Has /\ s.branch
    BY <1>4 DEF Skip, store, Has
  <2>2. s.op \notin {"acquire", "grant", "release", "grow", "shrink"}
    BY <1>2, <2>1 DEF StepWellFormed
  <2>3. QED
    BY <1>3, <2>1, <2>2
<1>5. CASE Acquire("parent")
  <2>1. /\ Ready("parent") /\ s.op \in {"acquire", "grant"}
        /\ Advance("parent") /\ chunks' = chunks
    BY <1>5 DEF Acquire, At
  <2>2. Has' = Has \union {s.res}
    BY <1>1, <1>5 DEF Acquire, Has, TypeOK
  <2>3. QED
    BY <1>3, <2>1, <2>2
<1>6. CASE Require("parent")
  BY <1>3, <1>6 DEF Require, At, store, Has
<1>7. CASE Release("parent")
  <2>1. /\ Ready("parent") /\ s.op = "release"
        /\ Advance("parent") /\ Drop("parent", s.res)
    BY <1>7 DEF Release, At
  <2>2. QED
    BY <1>1, <1>3, <2>1, DropHas
<1>8. CASE Touch("parent")
  BY <1>3, <1>8 DEF Touch, At, Has
<1>9. CASE Check("parent")
  BY <1>3, <1>9 DEF Check, At, store, Has
<1>10. CASE ReadLine("parent")
  <2>1. UNCHANGED <<program, store>>
    BY <1>10 DEF ReadLine
  <2>2. QED
    BY <1>1, <2>1, LedgerFrame DEF program, store, Has
<1>11. CASE PassPause("parent")
  BY <1>3, <1>11 DEF PassPause, At, store, Has
<1>12. QED
  BY <1>4, <1>5, <1>6, <1>7, <1>8, <1>9, <1>10, <1>11 DEF Common

(* The actions of the parent alone.                                        *)
LEMMA ParentOnlyLedger ==
  ASSUME Accounts, ScriptsAreWellFormed, ParentOnly
  PROVE  Control' /\ Ledger' /\ BlocksLedger'
<1> DEFINE s == Step("parent")
<1> USE DEF Procs
<1>1. TypeOK /\ mode["child"] \in ChildModes /\ Control
  BY DEF Accounts, Control, ChildModes
<1>2. Ready("parent") => /\ pc["parent"] \in DOMAIN Script[demo] /\ mode["parent"] = "running"
                         /\ StepWellFormed(demo, pc["parent"])
                         /\ s = Script[demo][pc["parent"]] /\ s \in StepRecord
  BY ParentStepWellFormed DEF Ready, Steps
<1>3. mode["parent"] = "unwinding" =>
        /\ pc["parent"] \in DOMAIN Script[demo] /\ MayFail(s)
        /\ StepWellFormed(demo, pc["parent"])
        /\ s = Script[demo][pc["parent"]] /\ s \in StepRecord
  BY <1>1, ParentStepWellFormed DEF Control
<1>4. CASE CallFails
  <2>1. Ready("parent") /\ MayFail(s)
    BY <1>4 DEF CallFails, At, MayFail
  <2>2. UndoesAll(demo, pc["parent"])
    BY <1>2, <2>1 DEF StepWellFormed
  <2>3. /\ Has = Remaining(s.undo, 1) /\ chunks = 0
    <3>1. Has = HeldBefore(demo, pc["parent"])
      BY <1>2, <2>1 DEF Accounts, Ledger
    <3>2. ~(chunks > 0) /\ chunks \in Nat
      BY <1>1, <2>2, DemoAssumption DEF Accounts, BlocksLedger, UndoesAll, TypeOK
    <3>3. QED
      BY <1>2, <2>1, <2>2, <3>1, <3>2 DEF UndoesAll
  <2>4. /\ mode'["parent"] = "unwinding" /\ mode'["child"] \in ChildModes /\ undone' = 1
        /\ demo' = demo /\ pc' = pc /\ Has' = Has /\ chunks' = chunks
    BY <1>1, <1>4 DEF CallFails, TypeOK, store, Has
  <2>5. Step("parent")' = s
    BY <2>4 DEF Step, Steps
  <2>6. s.undo \in Seq(Resources)
    BY <1>2, <2>1, StepFields
  <2>7. 1 \in 1 .. Len(s.undo) + 1
    BY <2>6
  <2>8. QED
    BY <1>2, <2>1, <2>3, <2>4, <2>5, <2>7 DEF Control, Ledger, BlocksLedger, ChildModes
<1>5. CASE Undo
  <2> DEFINE undo == s.undo
  <2>1. /\ mode["parent"] = "unwinding" /\ undone \in DOMAIN undo
        /\ Drop("parent", undo[undone]) /\ undone' = undone + 1
        /\ UNCHANGED <<queue, demo, pc, mode>>
    BY <1>5 DEF Undo
  <2>2. undo \in Seq(Resources)
    BY <1>3, <2>1, StepFields
  <2>3. \A j, k \in DOMAIN undo : undo[j] = undo[k] => j = k
    BY <1>3, <2>1 DEF StepWellFormed, UndoesAll
  <2>4. Remaining(undo, undone + 1) = Remaining(undo, undone) \ {undo[undone]}
    <3> HIDE DEF undo
    <3> QED BY <2>1, <2>2, <2>3, RemainingNext
  <2>5. Has' = Remaining(undo, undone + 1) /\ chunks' = chunks
    BY <1>1, <2>1, <2>4, DropHas DEF Accounts, Ledger
  <2>6. Step("parent")' = s
    BY <2>1 DEF Step, Steps
  <2>7. undone + 1 \in 1 .. Len(undo) + 1
    BY <2>1, <2>2
  <2>8. QED
    BY <1>1, <1>3, <2>1, <2>5, <2>6, <2>7 DEF Accounts, Control, Ledger, BlocksLedger, ChildModes
<1>6. CASE GiveUp
  <2> DEFINE next == IF s.then = "none" THEN queue ELSE <<s.then>> \o queue
  <2>1. mode["parent"] = "unwinding" /\ undone = Len(s.undo) + 1 /\ Continue(next)
    BY <1>6 DEF GiveUp
  <2>2. Has = {}
    <3>1. s.undo \in Seq(Resources)
      BY <1>3, <2>1, StepFields
    <3>2. QED
      BY <2>1, <3>1, RemainingNone DEF Accounts, Ledger
  <2>3. chunks = 0
    BY <1>1, <2>1, DemoAssumption DEF Accounts, BlocksLedger, TypeOK
  <2>4. next \in Seq(Demos)
    <3>1. s.then \in Demos \union {"none"}
      BY <1>3, <2>1 DEF StepRecord
    <3>2. QED
      BY <1>1, <3>1 DEF TypeOK
  <2>5. QED
    <3> HIDE DEF next
    <3> QED BY <2>1, <2>2, <2>3, <2>4, LedgerContinue
<1>7. CASE Return
  <2>1. mode["parent"] = "running" /\ pc["parent"] = Len(Script[demo]) + 1 /\ Continue(queue)
    BY <1>7 DEF Return
  <2>2. queue \in Seq(Demos) /\ demo \in Demos
    BY <1>1 DEF TypeOK
  <2>3. Has = {} /\ ~MayHoldBlocks(demo, pc["parent"])
    BY <2>1, <2>2 DEF Accounts, Ledger, ScriptsAreWellFormed, DemoIsWellFormed
  <2>4. chunks = 0
    BY <1>1, <2>3, DemoAssumption DEF Accounts, BlocksLedger, TypeOK
  <2>5. QED
    BY <2>1, <2>2, <2>3, <2>4, LedgerContinue
<1>8. CASE Grow
  BY <1>1, <1>8, LedgerFrame DEF Grow, program, Has
<1>9. CASE Shrink
  <2>1. chunks > 0
    BY <1>9 DEF Shrink
  <2>2. QED
    BY <1>1, <1>9, <2>1, LedgerFrame DEF Shrink, program, Has
<1>10. CASE GrowStops \/ ShrinkEnds \/ ForkFails
  <2>1. /\ Ready("parent") /\ s.op \in {"grow", "shrink", "fork"} /\ Advance("parent")
        /\ Has' = Has /\ chunks' = chunks /\ (s.op = "shrink" => chunks = 0)
    BY <1>10 DEF GrowStops, ShrinkEnds, ForkFails, At, store, Has
  <2>2. /\ pc'["parent"] = pc["parent"] + 1 /\ demo' = demo
        /\ mode'["parent"] = "running" /\ mode'["child"] \in ChildModes
    BY <1>1, <2>1 DEF Advance, TypeOK, Ready
  <2>3. chunks' > 0 => chunks > 0 /\ s.op # "shrink"
    BY <2>1
  <2>4. QED
    BY <2>1, <2>2, <2>3, LedgerAdvance
<1>11. CASE Faults
  <2>1. mode'["parent"] = "killed" /\ mode'["child"] = mode["child"] /\ chunks' = 0
    BY <1>1, <1>11 DEF Faults, TypeOK
  <2>2. QED
    BY <1>1, <2>1 DEF Control, Ledger, BlocksLedger, ChildModes
<1>12. CASE ForkWorks \/ Wait
  <2>1. /\ Ready("parent") /\ s.op \in {"fork", "forkOrReturn", "wait"}
        /\ chunks' = chunks /\ demo' = demo
    BY <1>12 DEF ForkWorks, Wait, At, store
  <2>2. /\ pc'["parent"] = pc["parent"] + 1
        /\ mode'["parent"] = "running" /\ mode'["child"] \in ChildModes
    BY <1>1, <1>2, <1>12 DEF ForkWorks, Wait, At, TypeOK, Ready, ChildModes
  <2>3. Has' = Has
    BY <1>1, <1>12 DEF ForkWorks, Wait, store, Has, TypeOK
  <2>4. chunks' > 0 => chunks > 0 /\ s.op # "shrink"
    BY <2>1
  <2>5. QED
    BY <2>1, <2>2, <2>3, <2>4, LedgerAdvance
<1>13. QED
  BY <1>4, <1>5, <1>6, <1>7, <1>8, <1>9, <1>10, <1>11, <1>12 DEF ParentOnly

(* The actions of the child, the system and the user do not touch what the parent   *)
(* has: a child acquires and releases no name.                             *)
LEMMA OthersLedger ==
  ASSUME Accounts, ScriptsAreWellFormed, ChildStep \/ Kernel \/ User
  PROVE  Control' /\ Ledger' /\ BlocksLedger'
<1> DEFINE s == Step("child")
<1> USE DEF Procs
<1>1. TypeOK /\ mode["child"] \in ChildModes
  BY DEF Accounts, Control, ChildModes
<1>2. ASSUME Ready("child"), s.op \in {"acquire", "grant", "release"}
      PROVE  s.res \notin Names
  BY <1>1, <1>2, ScriptType
  DEF TypeOK, Ready, Step, Steps, ScriptsAreWellFormed, DemoIsWellFormed, ChildIsWellFormed
<1>3. ASSUME UNCHANGED <<demo, undone, chunks>>, pc'["parent"] = pc["parent"],
             mode'["parent"] = mode["parent"], mode'["child"] \in ChildModes,
             held'["parent"] = held["parent"], names' = names
      PROVE  Control' /\ Ledger' /\ BlocksLedger'
  BY <1>3, LedgerFrame DEF Has
<1>4. Advance("child") => /\ UNCHANGED <<demo, mode, undone>>
                          /\ pc'["parent"] = pc["parent"]
  BY <1>1 DEF Advance, TypeOK
<1>5. ASSUME NEW how, ChildEnds(how)
      PROVE  Control' /\ Ledger' /\ BlocksLedger'
  <2>1. /\ UNCHANGED <<demo, pc, undone, names, chunks>>
        /\ mode'["parent"] = mode["parent"] /\ mode'["child"] = "zombie"
        /\ held'["parent"] = held["parent"]
    BY <1>1, <1>5 DEF ChildEnds, Ends, TypeOK
  <2>2. QED
    BY <1>3, <2>1 DEF ChildModes
<1>6. CASE Acquire("child")
  <2>1. /\ Ready("child") /\ s.op \in {"acquire", "grant"}
        /\ Advance("child") /\ chunks' = chunks
    BY <1>6 DEF Acquire, At
  <2>2. names' = names /\ held'["parent"] = held["parent"]
    BY <1>1, <1>2, <1>6, <2>1 DEF Acquire, TypeOK
  <2>3. QED
    BY <1>1, <1>3, <1>4, <2>1, <2>2
<1>7. CASE Release("child")
  <2>1. /\ Ready("child") /\ s.op = "release"
        /\ Advance("child") /\ Drop("child", s.res)
    BY <1>7 DEF Release, At
  <2>2. names' = names /\ held'["parent"] = held["parent"] /\ chunks' = chunks
    BY <1>1, <1>2, <2>1 DEF Drop, TypeOK
  <2>3. QED
    BY <1>1, <1>3, <1>4, <2>1, <2>2
<1>8. CASE Skip("child") \/ Require("child") \/ Touch("child") \/ Check("child")
           \/ PassPause("child")
  <2>1. Advance("child") /\ UNCHANGED <<held, names, chunks>>
    BY <1>8 DEF Skip, Require, Touch, Check, PassPause, store
  <2>2. QED
    BY <1>1, <1>3, <1>4, <2>1
<1>9. CASE ReadLine("child") \/ User
  <2>1. UNCHANGED <<program, store>>
    BY <1>9 DEF ReadLine, User, TypeLine
  <2>2. QED
    BY <1>1, <1>3, <2>1 DEF program, store
<1>10. CASE Discard
  <2>1. UNCHANGED <<program, held, names, chunks>>
    BY <1>10 DEF Discard
  <2>2. QED
    BY <1>1, <1>3, <2>1 DEF program
<1>11. QED
  BY <1>5, <1>6, <1>7, <1>8, <1>9, <1>10
  DEF ChildStep, Kernel, ChildKilled, ChildExits, ChildFails, Common

(* The accounts are right when main() is called.                           *)
LEMMA AccountsInit ==
  ASSUME Init
  PROVE  Accounts
<1>1. TypeOK
  BY TypeInit
<1>2. /\ mode["parent"] = "running" /\ mode["child"] = "none"
      /\ pc["parent"] = 1 /\ Has = {} /\ chunks = 0
  BY DEF Init, Procs, Has
<1>3. 1 \in 1 .. Len(Script[demo]) + 1 /\ HeldBefore(demo, 1) = {}
  BY <1>1, ScriptType, HeldAtStart DEF TypeOK
<1>4. QED
  BY <1>1, <1>2, <1>3 DEF Accounts, Control, Ledger, BlocksLedger

(* Every step of the machine keeps the accounts.                           *)
LEMMA AccountsNext ==
  ASSUME Accounts, ScriptsAreWellFormed, [Next]_vars
  PROVE  Accounts'
<1>1. TypeOK'
  BY TypeNext DEF Accounts
<1>2. Control' /\ Ledger' /\ BlocksLedger'
  <2>1. CASE ParentStep
    BY <2>1, ParentCommonLedger, ParentOnlyLedger DEF ParentStep
  <2>2. CASE ChildStep \/ Kernel \/ User
    BY <2>2, OthersLedger
  <2>3. CASE UNCHANGED vars
    <3>1. UNCHANGED <<program, store>>
      BY <2>3 DEF vars
    <3>2. mode["child"] \in ChildModes
      BY DEF Accounts, Control, ChildModes
    <3>3. QED
      BY <3>1, <3>2, LedgerFrame DEF program, store, Has
  <2>4. QED
    BY <2>1, <2>2, <2>3 DEF Next
<1>3. QED
  BY <1>1, <1>2 DEF Accounts

(***************************************************************************)
(* The theorems                                                            *)
(***************************************************************************)
(* At every step of every well-formed demo, whatever fails, whatever the   *)
(* user types and whatever becomes of the child, the parent has exactly    *)
(* what the script says it has there.                                      *)
THEOREM EverythingIsAccountedFor ==
  ASSUME ScriptsAreWellFormed
  PROVE  Spec => []Accounts
<1>1. Init => Accounts
  BY AccountsInit
<1>2. Accounts /\ [Next]_vars => Accounts'
  BY AccountsNext
<1>3. QED
  BY <1>1, <1>2, PTL DEF Spec

(* main() of a well-formed demo returns with nothing left: no memory, no   *)
(* descriptor, no heap block, no file, no shared memory object.            *)
THEOREM NothingEverLeaks ==
  ASSUME ScriptsAreWellFormed
  PROVE  Spec => []NothingLeaks
<1>1. Accounts => NothingLeaks
  <2>1. SUFFICES ASSUME Accounts, mode["parent"] = "returned"
                 PROVE  held["parent"] = {} /\ names = {} /\ chunks = 0
    BY DEF NothingLeaks
  <2>2. Has = {} /\ ~(chunks > 0)
    BY <2>1 DEF Accounts, Ledger, BlocksLedger
  <2>3. QED
    BY <2>1, <2>2, DemoAssumption DEF Has, Accounts, TypeOK
<1>2. QED
  BY <1>1, EverythingIsAccountedFor, PTL

-----------------------------------------------------------------------------
(***************************************************************************)
(* Parent and child together: the child uses only what it holds, names     *)
(* outlive their users, nobody is left behind, and the parent reads what   *)
(* the child wrote.  All of this rests on FamilyAccounts, which is         *)
(* inductive relative to Accounts.                                         *)
(***************************************************************************)

(***************************************************************************)
(* The kinds of steps, as the invariants see them                          *)
(***************************************************************************)
\* The parent goes on to the next step of its script, and forks no child.
GoesOn ==
  \/ Skip("parent") \/ Acquire("parent") \/ Require("parent") \/ Release("parent")
  \/ Touch("parent") \/ Check("parent") \/ PassPause("parent")
  \/ GrowStops \/ ShrinkEnds \/ ForkFails \/ Wait

Leaves == Return \/ GiveUp

ChildGoesOn ==
  \/ Skip("child") \/ Acquire("child") \/ Require("child") \/ Release("child")
  \/ Touch("child") \/ Check("child") \/ PassPause("child")

ChildStops ==
  /\ mode["child"] = "running"
  /\ \E how \in {"ok", "failed", "killed"} :
       ChildEnds(how) /\ (how = "ok" => At("child", "exit"))

\* Nothing the family invariants speak of changes: memory they speak of is
\* shared, not purgeable.
Quiet ==
  /\ UNCHANGED <<demo, pc, mode, undone, held, names, forked, status>>
  /\ \A r \in Resources : Kind[r] = "shared" => seen'["parent"][r] = seen["parent"][r]

(* Every step is of one of these kinds.                                    *)
LEMMA StepKinds ==
  ASSUME Accounts, [Next]_vars
  PROVE  \/ GoesOn \/ ForkWorks \/ CallFails \/ Undo \/ Leaves \/ Faults
         \/ ChildGoesOn \/ ChildStops \/ Quiet
<1>1. CASE ParentStep
  <2>1. Grow \/ Shrink \/ ReadLine("parent") => Quiet
    BY DEF Grow, Shrink, ReadLine, Quiet, program, store, family
  <2>2. QED
    BY <1>1, <2>1 DEF ParentStep, ParentOnly, Common, GoesOn, Leaves
<1>2. CASE ChildStep
  <2>1. ReadLine("child") => Quiet
    BY DEF ReadLine, Quiet, program, store, family
  <2>2. ChildExits \/ ChildFails => ChildStops
    BY DEF ChildExits, ChildFails, ChildStops, At, Ready
  <2>3. QED
    BY <1>2, <2>1, <2>2 DEF ChildStep, Common, ChildGoesOn
<1>3. CASE Kernel
  <2>1. Discard => Quiet
    BY DEF Discard, Quiet, program, family, Accounts, TypeOK, Procs
  <2>2. QED
    BY <1>3, <2>1 DEF Kernel, ChildKilled, ChildStops
<1>4. CASE User
  BY <1>4 DEF User, TypeLine, Quiet, program, store, family
<1>5. CASE UNCHANGED vars
  BY <1>5 DEF vars, Quiet, program, store, family
<1>6. QED
  BY <1>1, <1>2, <1>3, <1>4, <1>5 DEF Next

(* Where the parent is when it executes a step of its script.              *)
LEMMA ParentAtStep ==
  ASSUME Accounts, ScriptsAreWellFormed, Ready("parent")
  PROVE  /\ demo \in Demos /\ DemoIsWellFormed(demo)
         /\ pc["parent"] \in DOMAIN Script[demo] /\ pc["parent"] \in Nat /\ pc["parent"] >= 1
         /\ Step("parent") = Script[demo][pc["parent"]] /\ Step("parent") \in StepRecord
         /\ StepWellFormed(demo, pc["parent"])
         /\ mode["parent"] = "running" /\ Has = HeldBefore(demo, pc["parent"])
<1>1. demo \in Demos /\ pc["parent"] \in DOMAIN Script[demo] /\ mode["parent"] = "running"
  BY DEF Accounts, TypeOK, Ready, Steps
<1>2. DemoIsWellFormed(demo) /\ Has = HeldBefore(demo, pc["parent"])
  BY <1>1 DEF ScriptsAreWellFormed, Accounts, Ledger
<1>3. QED
  BY <1>1, <1>2, ScriptType, ParentStepWellFormed

(* Where the child is when it executes a step of its script.               *)
LEMMA ChildAtStep ==
  ASSUME Accounts, ScriptsAreWellFormed, Ready("child")
  PROVE  /\ demo \in Demos /\ ChildIsWellFormed(demo)
         /\ pc["child"] \in DOMAIN ChildScript[demo] /\ pc["child"] \in Nat /\ pc["child"] >= 1
         /\ Step("child") = ChildScript[demo][pc["child"]] /\ Step("child") \in StepRecord
         /\ mode["child"] = "running"
<1>1. demo \in Demos /\ pc["child"] \in DOMAIN ChildScript[demo] /\ mode["child"] = "running"
  BY DEF Accounts, TypeOK, Ready, Steps
<1>2. ChildIsWellFormed(demo)
  BY <1>1 DEF ScriptsAreWellFormed, DemoIsWellFormed
<1>3. QED
  BY <1>1, <1>2, ScriptType DEF Step, Steps

(* What the parent's going on changes: its position, what it has by what   *)
(* the step takes or drops, and its memory where the step writes.          *)
LEMMA ParentGoesOn ==
  ASSUME Accounts, ScriptsAreWellFormed, GoesOn
  PROVE  LET s == Step("parent") IN
         /\ Ready("parent") /\ UNCHANGED <<demo, undone, status>>
         /\ pc'["parent"] = pc["parent"] + 1 /\ pc'["child"] = pc["child"]
         /\ mode'["parent"] = "running"
         /\ mode'["child"] = mode["child"] \/ (s.op = "wait" /\ mode["child"] = "zombie" /\ mode'["child"] = "none")
         /\ forked /\ s.op = "wait" => mode'["child"] = "none"
         /\ held'["child"] = held["child"]
         /\ (forked' <=> forked) \/ (IsFork(s) /\ ~forked')
         /\ IsFork(s) => ~forked'
         /\ Has' = IF s.op \in {"acquire", "grant"} THEN Has \union {s.res}
                   ELSE IF s.op = "release" THEN Has \ {s.res} ELSE Has
         /\ s.op # "release" => names \subseteq names' /\ held["parent"] \subseteq held'["parent"]
         /\ s.op = "release" => names' = names \ {s.res}
         /\ s.op \in {"acquire", "grant"} => Needs[s.res] \subseteq Has
         /\ s.op = "touch" => seen'["parent"][s.res] = s.val
         /\ \A r \in Resources : ~Writes(s, r) => seen'["parent"][r] = seen["parent"][r]
<1> DEFINE s == Step("parent")
<1> USE DEF Procs
<1>1. Ready("parent") => /\ StepWellFormed(demo, pc["parent"])
                         /\ s = Script[demo][pc["parent"]] /\ s \in StepRecord
                         /\ mode["parent"] = "running"
  BY ParentAtStep
<1>2. TypeOK
  BY DEF Accounts
<1>3. Advance("parent") => /\ UNCHANGED <<demo, mode, undone>>
                           /\ pc'["parent"] = pc["parent"] + 1 /\ pc'["child"] = pc["child"]
  BY <1>2 DEF Advance, TypeOK
<1>4. CASE Skip("parent")
  <2>1. s.op \notin {"acquire", "grant", "release", "touch"}
    BY <1>1, <1>4 DEF Skip, StepWellFormed
  <2>2. QED
    BY <1>1, <1>3, <1>4, <2>1 DEF Skip, store, family, Has
<1>5. CASE Acquire("parent")
  <2>1. Ready("parent") /\ s.op \in {"acquire", "grant"} /\ Advance("parent") /\ UNCHANGED family
        /\ Needs[s.res] \subseteq Has
    BY <1>5 DEF Acquire, At, Has
  <2>2. s.res \in Resources
    BY <1>1, <2>1 DEF StepRecord
  <2>3. Has' = Has \union {s.res} /\ names \subseteq names' /\ held["parent"] \subseteq held'["parent"] /\ held'["child"] = held["child"]
    BY <1>2, <1>5 DEF Acquire, Has, TypeOK
  <2>4. \A r \in Resources : r # s.res => seen'["parent"][r] = seen["parent"][r]
    BY <1>2, <1>5, <2>2 DEF Acquire, TypeOK
  <2>5. \A r \in Resources : ~Writes(s, r) => seen'["parent"][r] = seen["parent"][r]
    BY <2>1, <2>4 DEF Writes
  <2>6. QED
    BY <1>1, <1>3, <2>1, <2>3, <2>5 DEF family, IsFork
<1>6. CASE Release("parent")
  <2>1. Ready("parent") /\ s.op = "release" /\ Advance("parent") /\ UNCHANGED family
        /\ Drop("parent", s.res)
    BY <1>6 DEF Release, At
  <2>2. Has' = Has \ {s.res} /\ names' = names \ {s.res} /\ held'["child"] = held["child"] /\ seen' = seen
    BY <1>2, <2>1, DropHas DEF Drop, TypeOK
  <2>3. QED
    BY <1>1, <1>3, <2>1, <2>2 DEF family, IsFork
<1>7. CASE Touch("parent")
  <2>1. Ready("parent") /\ s.op = "touch" /\ Advance("parent") /\ UNCHANGED <<held, names, family>>
    BY <1>7 DEF Touch, At
  <2>2. seen'["parent"] = [seen["parent"] EXCEPT ![s.res] = s.val]
    BY <1>7 DEF Touch
  <2>3. s.res \in Resources
    BY <1>1, <2>1 DEF StepRecord
  <2>4. seen'["parent"][s.res] = s.val /\ \A r \in Resources : r # s.res => seen'["parent"][r] = seen["parent"][r]
    BY <1>2, <2>2, <2>3 DEF TypeOK
  <2>5. \A r \in Resources : ~Writes(s, r) => seen'["parent"][r] = seen["parent"][r]
    BY <2>1, <2>4 DEF Writes
  <2>6. QED
    BY <1>1, <1>3, <2>1, <2>4, <2>5 DEF family, IsFork, Has
<1>8. CASE Require("parent") \/ Check("parent") \/ PassPause("parent") \/ GrowStops \/ ShrinkEnds
  <2>1. /\ Ready("parent") /\ Advance("parent") /\ UNCHANGED <<store, family>>
        /\ s.op \in {"require", "check", "pause", "grow", "shrink"}
    BY <1>8 DEF Require, Check, PassPause, GrowStops, ShrinkEnds, At
  <2>2. QED
    BY <1>1, <1>3, <2>1 DEF store, family, IsFork, Has
<1>9. CASE ForkFails
  <2>1. Ready("parent") /\ s.op = "fork" /\ Advance("parent") /\ UNCHANGED <<store, status>> /\ forked' = FALSE
    BY <1>9 DEF ForkFails, At
  <2>2. QED
    BY <1>1, <1>3, <2>1 DEF store, IsFork, Has
<1>10. CASE Wait
  <2>1. /\ Ready("parent") /\ s.op = "wait" /\ UNCHANGED <<demo, undone, store, family>>
        /\ mode["child"] = "zombie" /\ mode' = [mode EXCEPT !["child"] = "none"]
        /\ pc' = [pc EXCEPT !["parent"] = @ + 1]
    BY <1>10 DEF Wait, At
  <2>2. /\ mode'["parent"] = mode["parent"] /\ mode'["child"] = "none"
        /\ pc'["parent"] = pc["parent"] + 1 /\ pc'["child"] = pc["child"]
    BY <1>2, <2>1 DEF TypeOK
  <2>3. QED
    BY <1>1, <2>1, <2>2 DEF store, family, IsFork, Has
<1>11. QED
  BY <1>4, <1>5, <1>6, <1>7, <1>8, <1>9, <1>10 DEF GoesOn

(* What the child's going on changes: its own position, what it has, and   *)
(* the memory of both where it writes to a shared mapping.                 *)
LEMMA ChildGoingOn ==
  ASSUME Accounts, ScriptsAreWellFormed, ChildGoesOn, forked
  PROVE  LET s == Step("child") IN
         /\ Ready("child") /\ UNCHANGED <<demo, undone, mode, names, forked, status>>
         /\ pc'["parent"] = pc["parent"] /\ pc'["child"] = pc["child"] + 1
         /\ held'["parent"] = held["parent"]
         /\ held'["child"] = IF s.op \in {"acquire", "grant"} THEN held["child"] \union {s.res}
                             ELSE IF s.op = "release" THEN held["child"] \ {s.res}
                             ELSE held["child"]
         /\ s.op \in {"acquire", "grant"} => Needs[s.res] \subseteq held["child"] \union names
         /\ s.op = "touch" /\ Kind[s.res] = "shared" /\ s.res \in held["parent"]
              => seen'["parent"][s.res] = s.val
         /\ \A r \in Resources : s.op # "touch" \/ s.res # r
              => seen'["parent"][r] = seen["parent"][r]
         /\ s.op # "touch" => seen'["parent"] = seen["parent"]
         /\ s.op = "touch" => s.res \in Resources /\
              (seen'["parent"] = seen["parent"] \/ (Kind[s.res] = "shared" /\ s.res \in held["parent"]))
<1> DEFINE s == Step("child")
<1> USE DEF Procs
<1>1. Ready("child") => /\ s = ChildScript[demo][pc["child"]] /\ s \in StepRecord
                        /\ (s.op \in {"acquire", "grant", "release"} => s.res \notin Names)
  BY ChildAtStep DEF ChildIsWellFormed
<1>2. TypeOK
  BY DEF Accounts
<1>3. Advance("child") => /\ UNCHANGED <<demo, mode, undone>>
                          /\ pc'["parent"] = pc["parent"] /\ pc'["child"] = pc["child"] + 1
  BY <1>2 DEF Advance, TypeOK
<1>4. CASE Skip("child")
  BY <1>4 DEF Skip
<1>5. CASE Acquire("child")
  <2>1. /\ Ready("child") /\ s.op \in {"acquire", "grant"} /\ Advance("child") /\ UNCHANGED family
        /\ Needs[s.res] \subseteq held["child"] \union names
    BY <1>5 DEF Acquire, At
  <2>2. s.res \in Resources \ Names
    BY <1>1, <2>1 DEF StepRecord
  <2>3. /\ names' = names /\ held'["parent"] = held["parent"] /\ seen'["parent"] = seen["parent"]
        /\ held'["child"] = held["child"] \union {s.res}
    BY <1>2, <1>5, <2>2 DEF Acquire, TypeOK
  <2>4. QED
    BY <1>1, <1>3, <2>1, <2>3 DEF family
<1>6. CASE Release("child")
  <2>1. Ready("child") /\ s.op = "release" /\ Advance("child") /\ UNCHANGED family
        /\ Drop("child", s.res)
    BY <1>6 DEF Release, At
  <2>2. /\ names' = names /\ held'["parent"] = held["parent"] /\ seen' = seen
        /\ held'["child"] = held["child"] \ {s.res}
    BY <1>1, <1>2, <2>1 DEF Drop, TypeOK
  <2>3. QED
    BY <1>3, <2>1, <2>2 DEF family
<1>7. CASE Touch("child")
  <2> DEFINE r == s.res
  <2>1. Ready("child") /\ s.op = "touch" /\ Advance("child") /\ UNCHANGED <<held, names, family>>
    BY <1>7 DEF Touch, At
  <2>2. seen'["parent"] = IF Kind[r] = "shared" /\ r \in held["parent"]
                            THEN [seen["parent"] EXCEPT ![r] = s.val] ELSE seen["parent"]
    BY <1>7 DEF Touch
  <2>3. r \in Resources
    BY <1>1, <2>1 DEF StepRecord
  <2>4. /\ Kind[r] = "shared" /\ r \in held["parent"] => seen'["parent"][r] = s.val
        /\ \A q \in Resources : q # r => seen'["parent"][q] = seen["parent"][q]
    BY <1>2, <2>2, <2>3 DEF TypeOK
  <2>5. seen'["parent"] = seen["parent"] \/ (Kind[r] = "shared" /\ r \in held["parent"])
    BY <2>2
  <2>6. QED
    BY <1>3, <2>1, <2>3, <2>4, <2>5 DEF family
<1>8. CASE Require("child") \/ Check("child") \/ PassPause("child")
  <2>1. /\ Ready("child") /\ Advance("child") /\ UNCHANGED <<store, family>>
        /\ s.op \in {"require", "check", "pause"}
    BY <1>8 DEF Require, Check, PassPause, At
  <2>2. QED
    BY <1>3, <2>1 DEF store, family
<1>9. QED
  BY <1>4, <1>5, <1>6, <1>7, <1>8 DEF ChildGoesOn

(* The end of the child takes everything from it and nothing from others.  *)
LEMMA ChildStopping ==
  ASSUME Accounts, ChildStops
  PROVE  /\ mode["child"] = "running" /\ mode'["child"] = "zombie"
         /\ mode'["parent"] = mode["parent"]
         /\ UNCHANGED <<demo, pc, undone, names, seen, forked>>
         /\ held'["parent"] = held["parent"] /\ held'["child"] = {}
         /\ status' \in {"ok", "failed", "killed"}
         /\ status' = "ok" => At("child", "exit")
<1> USE DEF Procs
<1>1. PICK how \in {"ok", "failed", "killed"} :
        ChildEnds(how) /\ (how = "ok" => At("child", "exit"))
  BY DEF ChildStops
<1>2. TypeOK
  BY DEF Accounts
<1>3. QED
  BY <1>1, <1>2 DEF ChildStops, ChildEnds, Ends, TypeOK

(* fork(): the child starts with what is inherited.                        *)
LEMMA Forking ==
  ASSUME Accounts, ForkWorks
  PROVE  /\ Ready("parent") /\ IsFork(Step("parent")) /\ mode["child"] = "none"
         /\ pc'["parent"] = pc["parent"] + 1 /\ pc'["child"] = 1
         /\ mode'["parent"] = mode["parent"] /\ mode'["child"] = "running"
         /\ held'["parent"] = held["parent"]
         /\ held'["child"] = {r \in held["parent"] : Kind[r] # "port"}
         /\ seen'["parent"] = seen["parent"] /\ forked' /\ status' = "none"
         /\ UNCHANGED <<demo, undone, names>>
<1> USE DEF Procs
<1>1. TypeOK
  BY DEF Accounts
<1>2. QED
  BY <1>1 DEF ForkWorks, At, IsFork, TypeOK

(* Leaving a demo, for the next one or for good.                           *)
LEMMA Leaving ==
  ASSUME Accounts, ScriptsAreWellFormed, Leaves
  PROVE  /\ ~forked' /\ UNCHANGED <<held, names, seen, status, chunks>> /\ Has = {} /\ chunks = 0
         /\ mode'["child"] = mode["child"] /\ pc'["child"] = pc["child"]
         /\ \/ mode'["parent"] = "returned"
            \/ mode'["parent"] = "running" /\ pc'["parent"] = 1 /\ demo' \in Demos
         /\ \/ mode["parent"] = "unwinding"
            \/ mode["parent"] = "running" /\ pc["parent"] = Len(Script[demo]) + 1
<1> USE DEF Procs
<1> DEFINE s == Step("parent")
<1>1. TypeOK /\ Control /\ demo \in Demos
  BY DEF Accounts, TypeOK
<1>2. ASSUME NEW q \in Seq(Demos), Continue(q)
      PROVE  /\ ~forked' /\ UNCHANGED <<held, names, seen, status, chunks>>
             /\ mode'["child"] = mode["child"] /\ pc'["child"] = pc["child"]
             /\ \/ mode'["parent"] = "returned"
                \/ mode'["parent"] = "running" /\ pc'["parent"] = 1 /\ demo' \in Demos
  <2>1. /\ ~forked' /\ UNCHANGED <<held, names, seen, status, chunks>>
    BY <1>2 DEF Continue, store
  <2>2. CASE q = << >>
    BY <1>1, <1>2, <2>1, <2>2 DEF Continue, TypeOK
  <2>3. CASE q # << >>
    <3>1. Head(q) \in Demos
      BY <2>3
    <3>2. /\ demo' = Head(q) /\ pc' = [pc EXCEPT !["parent"] = 1]
          /\ mode' = [mode EXCEPT !["parent"] = "running"]
      BY <1>2, <2>3 DEF Continue
    <3>3. QED
      BY <1>1, <2>1, <3>1, <3>2 DEF TypeOK
  <2>4. QED
    BY <2>2, <2>3
<1>3. chunks \in Nat
  BY <1>1, DemoAssumption DEF TypeOK
<1>4. CASE Return
  <2>1. mode["parent"] = "running" /\ pc["parent"] = Len(Script[demo]) + 1 /\ Continue(queue)
    BY <1>4 DEF Return
  <2>2. Has = {} /\ ~MayHoldBlocks(demo, pc["parent"])
    BY <1>1, <2>1 DEF Accounts, Ledger, ScriptsAreWellFormed, DemoIsWellFormed
  <2>3. chunks = 0
    BY <1>3, <2>2 DEF Accounts, BlocksLedger
  <2>4. queue \in Seq(Demos)
    BY <1>1 DEF TypeOK
  <2>5. QED
    BY <1>2, <2>1, <2>2, <2>3, <2>4
<1>5. CASE GiveUp
  <2> DEFINE next == IF s.then = "none" THEN queue ELSE <<s.then>> \o queue
  <2>1. mode["parent"] = "unwinding" /\ undone = Len(s.undo) + 1 /\ Continue(next)
    BY <1>5 DEF GiveUp
  <2>2. s \in StepRecord
    BY <1>1, <2>1, ParentStepWellFormed DEF Control
  <2>3. s.undo \in Seq(Resources) /\ s.then \in Demos \union {"none"}
    BY <2>2, StepFields
  <2>4. Has = {} /\ chunks = 0
    BY <1>3, <2>1, <2>3, RemainingNone DEF Accounts, Ledger, BlocksLedger
  <2>5. next \in Seq(Demos)
    BY <1>1, <2>3 DEF TypeOK
  <2>6. QED
    <3> HIDE DEF next
    <3> QED BY <1>2, <2>1, <2>4, <2>5
<1>6. QED
  BY <1>4, <1>5 DEF Leaves

(* A failing call, and one release of an error path.                       *)
LEMMA Unwinding ==
  ASSUME Accounts, ScriptsAreWellFormed, CallFails \/ Undo
  PROVE  /\ UNCHANGED <<demo, pc, seen, forked, status>> /\ mode'["parent"] = "unwinding"
         /\ mode'["child"] = mode["child"] /\ held'["child"] = held["child"]
         /\ CallFails => Ready("parent") /\ MayFail(Step("parent")) /\ UNCHANGED <<held, names>>
         /\ Undo => /\ mode["parent"] = "unwinding" /\ undone \in DOMAIN Step("parent").undo
                    /\ Has' = Has \ {Step("parent").undo[undone]}
<1> USE DEF Procs
<1>1. TypeOK
  BY DEF Accounts
<1>2. CASE CallFails
  BY <1>1, <1>2 DEF CallFails, At, MayFail, store, family, TypeOK, Undo
<1>3. CASE Undo
  <2> DEFINE r == Step("parent").undo[undone]
  <2>1. /\ mode["parent"] = "unwinding" /\ undone \in DOMAIN Step("parent").undo
        /\ Drop("parent", r) /\ UNCHANGED <<demo, pc, mode, family>>
    BY <1>3 DEF Undo
  <2>2. ~CallFails
    BY <2>1 DEF CallFails, At, Ready
  <2>3. Has' = Has \ {r} /\ seen' = seen /\ held'["child"] = held["child"]
    <3> HIDE DEF r
    <3> QED BY <1>1, <2>1, DropHas DEF Drop, TypeOK
  <2>4. QED
    BY <2>1, <2>2, <2>3 DEF family
<1>4. QED
  BY <1>2, <1>3

(* SIGBUS takes everything from the parent but the names.                  *)
LEMMA Faulting ==
  ASSUME Accounts, Faults
  PROVE  /\ Ready("parent") /\ mode'["parent"] = "killed" /\ mode'["child"] = mode["child"]
         /\ held'["parent"] = {} /\ held'["child"] = held["child"] /\ chunks' = 0
         /\ UNCHANGED <<demo, pc, names, seen, forked, status>>
<1> USE DEF Procs
<1>1. TypeOK
  BY DEF Accounts
<1>2. QED
  BY <1>1 DEF Faults, At, Ends, family, TypeOK

-----------------------------------------------------------------------------
(***************************************************************************)
(* Where a child is                                                        *)
(***************************************************************************)
(* A child may exist after step i when the step forks, or when one may     *)
(* exist before and the step does not wait.                                *)
LEMMA MayHaveChildNext ==
  ASSUME NEW d, NEW i \in Nat, i >= 1
  PROVE  MayHaveChild(d, i + 1) <=>
           IsFork(Script[d][i]) \/ (MayHaveChild(d, i) /\ Script[d][i].op # "wait")
<1> DEFINE Left(n, j) == /\ IsFork(Script[d][j])
                         /\ \A k \in j + 1 .. n - 1 : Script[d][k].op # "wait"
<1>1. \A n : MayHaveChild(d, n) <=> \E j \in 1 .. n - 1 : Left(n, j)
  BY DEF MayHaveChild
<1>2. 1 .. (i + 1) - 1 = (1 .. i - 1) \union {i}
  OBVIOUS
<1>3. \A j \in 1 .. i - 1 : Left(i + 1, j) <=> Left(i, j) /\ Script[d][i].op # "wait"
  <2>1. \A j \in 1 .. i - 1 : j + 1 .. (i + 1) - 1 = (j + 1 .. i - 1) \union {i}
    OBVIOUS
  <2>2. QED
    BY <2>1
<1>4. Left(i + 1, i) <=> IsFork(Script[d][i])
  <2>1. i + 1 .. (i + 1) - 1 = {}
    OBVIOUS
  <2>2. QED
    BY <2>1
<1>5. QED
  <2> HIDE DEF Left
  <2> QED BY <1>1, <1>2, <1>3, <1>4

(* No child exists before the first step.                                  *)
LEMMA NoChildAtStart ==
  ASSUME NEW d
  PROVE  ~MayHaveChild(d, 1)
BY DEF MayHaveChild

(* Where a well-formed demo may have a child, it neither forks nor fails.  *)
LEMMA WithChild ==
  ASSUME Accounts, ScriptsAreWellFormed, ChildIsKnown, mode["child"] # "none"
  PROVE  /\ forked /\ mode["parent"] \in {"running", "killed"}
         /\ MayHaveChild(demo, pc["parent"])
         /\ Ready("parent") => ~IsFork(Step("parent")) /\ ~MayFail(Step("parent"))
         /\ ~CallFails /\ ~Undo /\ ~Leaves /\ ~ForkWorks
<1>1. /\ forked /\ mode["parent"] \in {"running", "killed"}
      /\ MayHaveChild(demo, pc["parent"])
  BY DEF ChildIsKnown
<1>2. ChildIsJoined(demo)
  BY DEF Accounts, TypeOK, ScriptsAreWellFormed, DemoIsWellFormed
<1>3. Ready("parent") => ~IsFork(Step("parent")) /\ ~MayFail(Step("parent"))
  BY <1>1, <1>2, ParentAtStep DEF ChildIsJoined
<1>4. ~CallFails /\ ~Undo
  BY <1>1, <1>3 DEF CallFails, Undo, At, MayFail
<1>5. ~Leaves
  BY <1>1, <1>2 DEF Leaves, Return, GiveUp, ChildIsJoined
<1>6. ~ForkWorks
  BY <1>3 DEF ForkWorks, At, IsFork
<1>7. QED
  BY <1>1, <1>3, <1>4, <1>5, <1>6

(* A child that goes on is a child that was forked.                        *)
LEMMA ChildGoesOnForked ==
  ASSUME Accounts, ScriptsAreWellFormed, ChildIsKnown, ChildGoesOn
  PROVE  forked /\ Ready("child") /\ mode["child"] = "running"
<1>1. Ready("child") /\ mode["child"] = "running"
  BY DEF ChildGoesOn, Skip, Acquire, Require, Release, Touch, Check, PassPause, At, Ready
<1>2. QED
  BY <1>1, WithChild

(* Every step keeps it known where there can be a child.                   *)
LEMMA ChildIsKnownNext ==
  ASSUME Accounts, ScriptsAreWellFormed, ChildIsKnown, [Next]_vars
  PROVE  ChildIsKnown'
<1>1. CASE GoesOn
  <2>1. SUFFICES ASSUME mode'["child"] # "none"
                 PROVE  ChildIsKnown'
    BY DEF ChildIsKnown
  <2>2. mode["child"] # "none" /\ Ready("parent")
    BY <1>1, <2>1, ParentGoesOn
  <2>3. /\ forked /\ MayHaveChild(demo, pc["parent"]) /\ ~IsFork(Step("parent"))
    BY <2>2, WithChild
  <2>4. forked' /\ Step("parent").op # "wait"
    BY <1>1, <2>1, <2>3, ParentGoesOn
  <2>5. MayHaveChild(demo, pc["parent"] + 1)
    BY <2>2, <2>3, <2>4, ParentAtStep, MayHaveChildNext
  <2>6. QED
    BY <1>1, <2>4, <2>5, ParentGoesOn DEF ChildIsKnown
<1>2. CASE ForkWorks
  <2>1. Ready("parent") /\ IsFork(Step("parent"))
    BY <1>2, Forking
  <2>2. MayHaveChild(demo, pc["parent"] + 1) /\ mode["parent"] = "running"
    BY <2>1, ParentAtStep, MayHaveChildNext
  <2>3. QED
    BY <1>2, <2>2, Forking DEF ChildIsKnown
<1>3. CASE CallFails \/ Undo
  <2>1. mode["child"] = "none"
    BY <1>3, WithChild
  <2>2. QED
    BY <1>3, <2>1, Unwinding DEF ChildIsKnown
<1>4. CASE Leaves
  <2>1. mode["child"] = "none"
    BY <1>4, WithChild
  <2>2. QED
    BY <1>4, <2>1, Leaving DEF ChildIsKnown
<1>5. CASE Faults
  BY <1>5, Faulting DEF ChildIsKnown
<1>6. CASE ChildGoesOn
  BY <1>6, ChildGoesOnForked, ChildGoingOn DEF ChildIsKnown
<1>7. CASE ChildStops
  BY <1>7, ChildStopping DEF ChildIsKnown
<1>8. CASE Quiet
  BY <1>8 DEF Quiet, ChildIsKnown
<1>9. QED
  BY <1>1, <1>2, <1>3, <1>4, <1>5, <1>6, <1>7, <1>8, StepKinds

(* Every step keeps the status: unknown while the child runs, known after. *)
LEMMA StatusLedgerNext ==
  ASSUME Accounts, ScriptsAreWellFormed, ChildIsKnown, StatusLedger, [Next]_vars
  PROVE  StatusLedger'
<1>1. CASE GoesOn
  <2>1. CASE mode["child"] = "none"
    BY <1>1, <2>1, ParentGoesOn DEF StatusLedger
  <2>2. CASE mode["child"] # "none"
    BY <1>1, <2>2, ParentGoesOn, WithChild DEF StatusLedger
  <2>3. QED
    BY <2>1, <2>2
<1>2. CASE ForkWorks
  BY <1>2, Forking DEF StatusLedger
<1>3. CASE CallFails \/ Undo
  BY <1>3, Unwinding DEF StatusLedger
<1>4. CASE Leaves
  <2>1. mode["child"] = "none"
    BY <1>4, WithChild
  <2>2. QED
    BY <1>4, <2>1, Leaving DEF StatusLedger
<1>5. CASE Faults
  BY <1>5, Faulting DEF StatusLedger
<1>6. CASE ChildGoesOn
  BY <1>6, ChildGoesOnForked, ChildGoingOn DEF StatusLedger
<1>7. CASE ChildStops
  BY <1>7, ChildStopping DEF StatusLedger
<1>8. CASE Quiet
  BY <1>8 DEF Quiet, StatusLedger
<1>9. QED
  BY <1>1, <1>2, <1>3, <1>4, <1>5, <1>6, <1>7, <1>8, StepKinds

-----------------------------------------------------------------------------
(***************************************************************************)
(* What the child has                                                      *)
(***************************************************************************)
(* What a forked child has is what its script begins with: a demo forks    *)
(* once, so "held at some fork" is "held at this one".                     *)
LEMMA InheritedAtFork ==
  ASSUME Accounts, ScriptsAreWellFormed, ForkWorks
  PROVE  held'["child"] = ChildHeldBefore(demo, 1)
<1> DEFINE i == pc["parent"]
<1>1. /\ Ready("parent") /\ IsFork(Step("parent"))
      /\ held'["child"] = {r \in held["parent"] : Kind[r] # "port"}
  BY Forking
<1>2. /\ demo \in Demos /\ ChildIsJoined(demo) /\ i \in DOMAIN Script[demo]
      /\ Step("parent") = Script[demo][i] /\ Has = HeldBefore(demo, i)
  BY <1>1, ParentAtStep DEF DemoIsWellFormed
<1>3. \A j \in DOMAIN Script[demo] : IsFork(Script[demo][j]) => j = i
  BY <1>1, <1>2 DEF ChildIsJoined
<1>4. Inherited(demo) = {r \in HeldBefore(demo, i) : Kind[r] \notin {"port", "name"}}
  <2>1. HeldBefore(demo, i) \subseteq Resources
    BY DEF HeldBefore, HeldFrom
  <2>2. QED
    BY <1>1, <1>2, <1>3, <2>1 DEF Inherited
<1>5. {r \in HeldBefore(demo, i) : Kind[r] # "name"} = held["parent"]
  <2>1. held["parent"] \subseteq Resources \ Names /\ names \subseteq Names
    BY DEF Accounts, TypeOK, Procs
  <2>2. QED
    BY <1>2, <2>1 DEF Has, Names
<1>6. Inherited(demo) = held'["child"] /\ Inherited(demo) \in SUBSET Resources
  <2>1. Inherited(demo) \in SUBSET Resources
    BY DEF Inherited
  <2>2. QED
    BY <1>1, <1>4, <1>5, <2>1
<1>7. QED
  BY <1>6, HeldFromStart DEF ChildHeldBefore

(* Every step keeps the child's ledger.                                    *)
LEMMA ChildLedgerNext ==
  ASSUME Accounts, ScriptsAreWellFormed, ChildIsKnown, ChildLedger, [Next]_vars
  PROVE  ChildLedger'
<1>1. CASE GoesOn
  <2>1. /\ demo' = demo /\ pc'["child"] = pc["child"] /\ held'["child"] = held["child"]
        /\ mode'["child"] = mode["child"] \/ (mode["child"] = "zombie" /\ mode'["child"] = "none")
    BY <1>1, ParentGoesOn
  <2>2. QED
    BY <2>1 DEF ChildLedger
<1>2. CASE ForkWorks
  <2>1. mode'["child"] = "running" /\ pc'["child"] = 1 /\ demo' = demo
    BY <1>2, Forking
  <2>2. 1 \in 1 .. Len(ChildScript[demo]) + 1
    BY DemoAssumption DEF Accounts, TypeOK
  <2>3. ChildReaches(demo, 1)
    BY DEF ChildReaches
  <2>4. held'["child"] = ChildHeldBefore(demo, 1)
    BY <1>2, InheritedAtFork
  <2>5. QED
    BY <2>1, <2>2, <2>3, <2>4 DEF ChildLedger
<1>3. CASE CallFails \/ Undo
  BY <1>3, Unwinding DEF ChildLedger
<1>4. CASE Leaves
  <2>1. mode["child"] = "none"
    BY <1>4, WithChild
  <2>2. QED
    BY <1>4, <2>1, Leaving DEF ChildLedger
<1>5. CASE Faults
  BY <1>5, Faulting DEF ChildLedger
<1>6. CASE ChildGoesOn
  <2> DEFINE i == pc["child"]
             s == Step("child")
  <2>1. /\ Ready("child") /\ demo' = demo /\ mode' = mode /\ pc'["child"] = i + 1
        /\ held'["child"] = IF s.op \in {"acquire", "grant"} THEN held["child"] \union {s.res}
                            ELSE IF s.op = "release" THEN held["child"] \ {s.res}
                            ELSE held["child"]
        /\ s.op \in {"acquire", "grant"} => Needs[s.res] \subseteq held["child"] \union names
    BY <1>6, ChildGoesOnForked, ChildGoingOn
  <2>2. /\ i \in DOMAIN ChildScript[demo] /\ i \in Nat /\ i >= 1 /\ s = ChildScript[demo][i]
        /\ mode["child"] = "running" /\ demo \in Demos
    BY <2>1, ChildAtStep
  <2>3. ChildReaches(demo, i) /\ held["child"] = ChildHeldBefore(demo, i)
    BY <2>2 DEF ChildLedger
  <2>4. held'["child"] = ChildHeldBefore(demo, i + 1)
    <3> DEFINE script == ChildScript[demo]
    <3>1. script \in Seq(StepRecord)
      BY <2>2, ScriptType
    <3>2. HeldFrom(Inherited(demo), script, i + 1) =
            IF script[i].op \in {"acquire", "grant"}
              THEN HeldFrom(Inherited(demo), script, i) \union {script[i].res}
            ELSE IF script[i].op = "release"
              THEN HeldFrom(Inherited(demo), script, i) \ {script[i].res}
            ELSE HeldFrom(Inherited(demo), script, i)
      BY <2>2, <3>1, HeldFromNext
    <3>3. QED
      BY <2>1, <2>2, <2>3, <3>2 DEF ChildHeldBefore
  <2>5. ChildReaches(demo, i + 1)
    <3>1. 1 .. (i + 1) - 1 = (1 .. i - 1) \union {i}
      BY <2>2
    <3>2. s.op \in {"acquire", "grant"} => Needs[s.res] \subseteq ChildHeldBefore(demo, i) \union Names
      BY <2>1, <2>3 DEF Accounts, TypeOK
    <3>3. QED
      BY <2>2, <2>3, <3>1, <3>2 DEF ChildReaches
  <2>6. i + 1 \in 1 .. Len(ChildScript[demo]) + 1
    BY <2>2, ScriptType
  <2>7. QED
    BY <2>1, <2>2, <2>4, <2>5, <2>6 DEF ChildLedger
<1>7. CASE ChildStops
  BY <1>7, ChildStopping DEF ChildLedger
<1>8. CASE Quiet
  BY <1>8 DEF Quiet, ChildLedger
<1>9. QED
  BY <1>1, <1>2, <1>3, <1>4, <1>5, <1>6, <1>7, <1>8, StepKinds

-----------------------------------------------------------------------------
(***************************************************************************)
(* What things are made from                                               *)
(***************************************************************************)
(* What the parent gives back in an error path is made into nothing it     *)
(* still has.                                                              *)
LEMMA UndoInOrder ==
  ASSUME Accounts, ScriptsAreWellFormed, mode["parent"] = "unwinding",
         undone \in DOMAIN Step("parent").undo
  PROVE  /\ Step("parent").undo[undone] \in Has
         /\ \A q \in Has : Step("parent").undo[undone] \notin Needs[q]
<1> DEFINE s == Step("parent")
<1>1. /\ pc["parent"] \in DOMAIN Script[demo] /\ MayFail(s) /\ demo \in Demos
      /\ Has = Remaining(s.undo, undone)
  BY DEF Accounts, Control, Ledger, TypeOK
<1>2. s = Script[demo][pc["parent"]] /\ s \in StepRecord
  BY <1>1, ParentStepWellFormed
<1>3. ReleasesAreOrdered(demo)
  BY <1>1 DEF ScriptsAreWellFormed, DemoIsWellFormed
<1>4. \A q \in Has : s.undo[undone] \notin Needs[q]
  BY <1>1, <1>2, <1>3 DEF ReleasesAreOrdered
<1>5. s.undo[undone] \in Has
  <2>1. s.undo \in Seq(Resources)
    BY <1>2, StepFields
  <2>2. undone \in undone .. Len(s.undo)
    BY <2>1
  <2>3. QED
    BY <1>1, <2>2 DEF Remaining
<1>6. QED
  BY <1>4, <1>5

(* The same for a release of the normal path.                              *)
LEMMA ReleaseInOrder ==
  ASSUME Accounts, ScriptsAreWellFormed, Ready("parent"), Step("parent").op = "release"
  PROVE  /\ Step("parent").res \in Has
         /\ \A q \in Has : Step("parent").res \notin Needs[q]
         /\ Step("parent").res \in Names => ~MayHaveChild(demo, pc["parent"])
<1>1. ReleasesAreOrdered(demo)
  BY ParentAtStep DEF DemoIsWellFormed
<1>2. QED
  BY <1>1, ParentAtStep DEF ReleasesAreOrdered, StepWellFormed

(* The child leaves alone what the parent has.                             *)
LEMMA ChildKeepsHas ==
  ASSUME Accounts, ScriptsAreWellFormed, ChildIsKnown, ChildGoesOn \/ ChildStops \/ Quiet
  PROVE  /\ Has' = Has /\ names' = names /\ held'["parent"] = held["parent"]
         /\ mode'["parent"] = mode["parent"]
<1>1. CASE ChildGoesOn
  BY <1>1, ChildGoesOnForked, ChildGoingOn DEF Has
<1>2. CASE ChildStops
  BY <1>2, ChildStopping DEF Has
<1>3. CASE Quiet
  BY <1>3 DEF Quiet, Has
<1>4. QED
  BY <1>1, <1>2, <1>3

(* Every step keeps it true that the parent has what its things are made   *)
(* from.                                                                   *)
LEMMA NeedsAreMetNext ==
  ASSUME Accounts, ScriptsAreWellFormed, ChildIsKnown, NeedsAreMet, [Next]_vars
  PROVE  NeedsAreMet'
<1>1. CASE GoesOn
  <2> DEFINE s == Step("parent")
  <2>1. /\ Ready("parent")
        /\ Has' = IF s.op \in {"acquire", "grant"} THEN Has \union {s.res}
                  ELSE IF s.op = "release" THEN Has \ {s.res} ELSE Has
        /\ s.op \in {"acquire", "grant"} => Needs[s.res] \subseteq Has
    BY <1>1, ParentGoesOn
  <2>2. \A r \in Has : Needs[r] \subseteq Has
    BY <2>1, ParentAtStep DEF NeedsAreMet
  <2>3. s.op = "release" => \A q \in Has : s.res \notin Needs[q]
    BY <2>1, ReleaseInOrder
  <2>4. QED
    BY <2>1, <2>2, <2>3 DEF NeedsAreMet
<1>2. CASE ForkWorks
  BY <1>2, Forking DEF NeedsAreMet, Has
<1>3. CASE CallFails
  BY <1>3, Unwinding, ParentAtStep DEF NeedsAreMet, Has
<1>4. CASE Undo
  BY <1>4, Unwinding, UndoInOrder DEF NeedsAreMet
<1>5. CASE Leaves
  BY <1>5, Leaving DEF NeedsAreMet, Has
<1>6. CASE Faults
  BY <1>6, Faulting DEF NeedsAreMet
<1>7. CASE ChildGoesOn \/ ChildStops \/ Quiet
  BY <1>7, ChildKeepsHas DEF NeedsAreMet
<1>8. QED
  BY <1>1, <1>2, <1>3, <1>4, <1>5, <1>6, <1>7, StepKinds

(* Every step keeps the names that a process's things are made from.       *)
LEMMA NamesOutliveNext ==
  ASSUME Accounts, Accounts', ScriptsAreWellFormed, ChildIsKnown, ChildLedger,
         NeedsAreMet', NamesOutliveTheirUsers, [Next]_vars
  PROVE  NamesOutliveTheirUsers'
<1> DEFINE Served(p) == \A r \in held[p] : Needs[r] \intersect Names \subseteq names
<1> USE DEF Procs
<1>1. Served("parent") /\ Served("child")
  BY DEF NamesOutliveTheirUsers
<1>2. ASSUME mode'["parent"] # "killed"
      PROVE  Served("parent")'
  <2>1. \A r \in held'["parent"] : Needs[r] \subseteq held'["parent"] \union names'
    BY <1>2 DEF NeedsAreMet, Has
  <2>2. held'["parent"] \intersect Names = {}
    BY DEF Accounts, TypeOK
  <2>3. QED
    BY <2>1, <2>2
<1>3. ASSUME names \subseteq names', held'["child"] \subseteq held["child"]
      PROVE  Served("child")'
  BY <1>1, <1>3
<1>4. Served("parent")'
  <2>1. CASE Faults
    BY <2>1, Faulting
  <2>2. CASE ChildGoesOn \/ ChildStops \/ Quiet
    BY <1>1, <2>2, ChildKeepsHas
  <2>3. CASE GoesOn \/ ForkWorks \/ CallFails \/ Undo \/ Leaves
    <3>1. mode'["parent"] # "killed"
      BY <2>3, ParentGoesOn, Forking, Unwinding, Leaving, ParentAtStep
    <3>2. QED
      BY <1>2, <3>1
  <2>4. QED
    BY <2>1, <2>2, <2>3, StepKinds
<1>5. Served("child")'
  <2>1. held["child"] # {} => mode["child"] = "running"
    BY DEF ChildLedger
  <2>2. CASE GoesOn
    <3> DEFINE s == Step("parent")
    <3>1. /\ Ready("parent") /\ held'["child"] = held["child"]
          /\ s.op # "release" => names \subseteq names'
          /\ s.op = "release" => names' = names \ {s.res}
      BY <2>2, ParentGoesOn
    <3>2. CASE held["child"] = {}
      BY <3>1, <3>2
    <3>3. CASE held["child"] # {}
      <4>1. MayHaveChild(demo, pc["parent"])
        BY <2>1, <3>3, WithChild
      <4>2. s.op = "release" => s.res \notin Names
        BY <3>1, <4>1, ReleaseInOrder
      <4>3. names \subseteq Names
        BY DEF Accounts, TypeOK
      <4>4. names \subseteq names'
        BY <3>1, <4>2, <4>3
      <4>5. QED
        BY <1>3, <3>1, <4>4
    <3>4. QED
      BY <3>2, <3>3
  <2>3. CASE ForkWorks
    BY <1>1, <2>3, Forking
  <2>4. CASE CallFails \/ Undo
    <3>1. held["child"] = {}
      BY <2>1, <2>4, WithChild
    <3>2. QED
      BY <2>4, <3>1, Unwinding
  <2>5. CASE Leaves
    BY <1>3, <2>5, Leaving
  <2>6. CASE Faults
    BY <1>3, <2>6, Faulting
  <2>7. CASE ChildGoesOn
    <3> DEFINE s == Step("child")
    <3>1. /\ names' = names
          /\ held'["child"] = IF s.op \in {"acquire", "grant"} THEN held["child"] \union {s.res}
                              ELSE IF s.op = "release" THEN held["child"] \ {s.res}
                              ELSE held["child"]
          /\ s.op \in {"acquire", "grant"} => Needs[s.res] \subseteq held["child"] \union names
      BY <2>7, ChildGoesOnForked, ChildGoingOn
    <3>2. held["child"] \intersect Names = {}
      BY DEF Accounts, TypeOK
    <3>3. QED
      BY <1>1, <3>1, <3>2
  <2>8. CASE ChildStops
    BY <1>3, <2>8, ChildStopping
  <2>9. CASE Quiet
    BY <1>3, <2>9 DEF Quiet
  <2>10. QED
    BY <2>2, <2>3, <2>4, <2>5, <2>6, <2>7, <2>8, <2>9, StepKinds
<1>6. QED
  BY <1>4, <1>5 DEF NamesOutliveTheirUsers

-----------------------------------------------------------------------------
(***************************************************************************)
(* What the parent reads                                                   *)
(***************************************************************************)
(* The last written to r before step i + 1 is what step i writes, or what  *)
(* was left before and step i leaves alone.                                *)
LEMMA LeavesInNext ==
  ASSUME NEW script, NEW i \in Nat, i >= 1, NEW r, NEW v, LeavesIn(script, i + 1, r, v)
  PROVE  \/ script[i].op = "touch" /\ script[i].res = r /\ script[i].val = v
         \/ LeavesIn(script, i, r, v) /\ ~Writes(script[i], r)
<1>1. PICK j \in 1 .. (i + 1) - 1 :
        /\ script[j].op = "touch" /\ script[j].res = r /\ script[j].val = v
        /\ \A k \in j + 1 .. (i + 1) - 1 : ~Writes(script[k], r)
  BY DEF LeavesIn
<1>2. CASE j = i
  BY <1>1, <1>2
<1>3. CASE j # i
  <2>1. j \in 1 .. i - 1 /\ i \in j + 1 .. (i + 1) - 1
    BY <1>1, <1>3
  <2>2. j + 1 .. i - 1 \subseteq j + 1 .. (i + 1) - 1
    OBVIOUS
  <2>3. QED
    BY <1>1, <2>1, <2>2 DEF LeavesIn
<1>4. QED
  BY <1>2, <1>3

(* What a script leaves in a region is a value.                            *)
LEMMA LeavesAValue ==
  ASSUME NEW script \in Seq(StepRecord), NEW i \in DOMAIN script, NEW r, NEW v,
         LeavesIn(script, i, r, v)
  PROVE  v \in Values
<1>1. PICK j \in 1 .. i - 1 : script[j].op = "touch" /\ script[j].val = v
  BY DEF LeavesIn
<1>2. script[j] \in StepRecord
  BY <1>1
<1>3. QED
  BY <1>1, <1>2 DEF StepRecord

(* A script leaves nothing before its first step.                          *)
LEMMA NothingLeft ==
  ASSUME NEW script, NEW r, NEW v
  PROVE  ~LeavesIn(script, 1, r, v)
BY DEF LeavesIn

(* From its fork to step i + 1 the parent only reads: so it does to step i,*)
(* has the region mapped there, and does not write there.                  *)
LEMMA OnlyReadsBefore ==
  ASSUME NEW d, NEW f, NEW i \in Nat, NEW r, OnlyReads(d, f, i + 1, r), f \in Nat,
         ~IsFork(Script[d][i])
  PROVE  OnlyReads(d, f, i, r) /\ ~Writes(Script[d][i], r)
<1>1. f < i + 1 /\ f # i
  BY DEF OnlyReads
<1>2. f < i /\ i \in f + 1 .. (i + 1) - 1
  BY <1>1
<1>3. f + 1 .. i \subseteq f + 1 .. i + 1 /\ f + 1 .. i - 1 \subseteq f + 1 .. (i + 1) - 1
  OBVIOUS
<1>4. QED
  BY <1>2, <1>3 DEF OnlyReads

(* A parent that goes on without forking, from a place where script had    *)
(* arrived at step x, reads there what script left.                        *)
LEMMA ArrivedGoesOn ==
  ASSUME Accounts, ScriptsAreWellFormed, GoesOn, forked', NEW script, NEW x,
         ArrivedFrom(script, x)
  PROVE  ArrivedFrom(script, x)'
<1> DEFINE i == pc["parent"]
           s == Step("parent")
<1>1. /\ Ready("parent") /\ demo' = demo /\ pc'["parent"] = i + 1 /\ ~IsFork(s)
      /\ \A r \in Resources : ~Writes(s, r) => seen'["parent"][r] = seen["parent"][r]
  BY ParentGoesOn
<1>2. i \in Nat /\ s = Script[demo][i] /\ demo \in Demos
  BY <1>1, ParentAtStep
<1>3. SUFFICES ASSUME NEW r \in Resources, NEW f \in DOMAIN Script[demo], NEW v \in Values,
                      OnlyReads(demo, f, i + 1, r), LeavesIn(script, x, r, v)
               PROVE  seen'["parent"][r] = v
  BY <1>1 DEF ArrivedFrom
<1>4. f \in Nat
  BY <1>2, ScriptType
<1>5. OnlyReads(demo, f, i, r) /\ ~Writes(s, r)
  <2>1. ~IsFork(Script[demo][i])
    BY <1>1, <1>2
  <2>2. OnlyReads(demo, f, i, r) /\ ~Writes(Script[demo][i], r)
    <3> HIDE DEF i
    <3> QED BY <1>2, <1>3, <1>4, <2>1, OnlyReadsBefore
  <2>3. QED
    BY <1>2, <2>2
<1>6. QED
  BY <1>1, <1>3, <1>5 DEF ArrivedFrom

(* A child that goes on writes what its script says where the parent can   *)
(* read it.                                                                *)
LEMMA ArrivedChildGoesOn ==
  ASSUME Accounts, ScriptsAreWellFormed, ChildIsKnown, ChildGoesOn,
         mode["parent"] = "running", ArrivedFrom(ChildScript[demo], pc["child"])
  PROVE  ArrivedFrom(ChildScript[demo], pc["child"])'
<1> DEFINE i == pc["child"]
           s == Step("child")
           script == ChildScript[demo]
<1>1. forked /\ Ready("child")
  BY ChildGoesOnForked
<1>2. /\ demo' = demo /\ pc'["parent"] = pc["parent"] /\ pc'["child"] = i + 1
      /\ s.op = "touch" /\ Kind[s.res] = "shared" /\ s.res \in held["parent"]
           => seen'["parent"][s.res] = s.val
      /\ \A r \in Resources : s.op # "touch" \/ s.res # r
           => seen'["parent"][r] = seen["parent"][r]
  BY <1>1, ChildGoingOn
<1>3. i \in Nat /\ i >= 1 /\ s = script[i] /\ demo \in Demos
  BY <1>1, ChildAtStep
<1>4. SUFFICES ASSUME NEW r \in Resources, NEW f \in DOMAIN Script[demo], NEW v \in Values,
                      OnlyReads(demo, f, pc["parent"], r), LeavesIn(script, i + 1, r, v)
               PROVE  seen'["parent"][r] = v
  BY <1>2 DEF ArrivedFrom
<1>5. CASE s.op = "touch" /\ s.res = r /\ s.val = v
  <2>1. r \in HeldBefore(demo, pc["parent"]) /\ Kind[r] = "shared"
    <3>1. f \in Nat /\ f < pc["parent"] /\ pc["parent"] \in Nat
      BY <1>3, <1>4, ScriptType DEF OnlyReads, Accounts, TypeOK, Procs
    <3>2. pc["parent"] \in f + 1 .. pc["parent"]
      BY <3>1
    <3>3. QED
      BY <1>4, <3>2 DEF OnlyReads
  <2>2. r \in held["parent"]
    BY <2>1 DEF Accounts, Ledger, Has, TypeOK, Names
  <2>3. QED
    BY <1>2, <1>5, <2>1, <2>2
<1>6. CASE LeavesIn(script, i, r, v) /\ ~Writes(s, r)
  <2>1. seen["parent"][r] = v
    BY <1>4, <1>6 DEF ArrivedFrom
  <2>2. s.op # "touch" \/ s.res # r
    BY <1>6 DEF Writes
  <2>3. QED
    BY <1>2, <2>1, <2>2
<1>7. \/ script[i].op = "touch" /\ script[i].res = r /\ script[i].val = v
      \/ LeavesIn(script, i, r, v) /\ ~Writes(script[i], r)
  <2> HIDE DEF script
  <2> QED BY <1>3, <1>4, LeavesInNext
<1>8. QED
  BY <1>3, <1>5, <1>6, <1>7

(* Every step keeps the memory ledger.                                     *)
LEMMA MemoryLedgerNext ==
  ASSUME Accounts, ScriptsAreWellFormed, ChildIsKnown, ChildLedger, StatusLedger,
         MemoryLedger, [Next]_vars
  PROVE  MemoryLedger'
<1> DEFINE i == pc["parent"]
<1>1. CASE GoesOn
  <2>1. /\ Ready("parent") /\ UNCHANGED <<demo, status>> /\ pc'["parent"] = i + 1
        /\ pc'["child"] = pc["child"] /\ (forked' => forked)
        /\ mode'["child"] = "running" => mode["child"] = "running"
    BY <1>1, ParentGoesOn
  <2>2. mode["parent"] = "running" /\ i \in Nat
    BY <2>1, ParentAtStep
  <2>3. ASSUME forked', mode'["child"] = "running"
        PROVE  ArrivedFrom(ChildScript[demo], pc["child"])'
    <3>1. ArrivedFrom(ChildScript[demo], pc["child"])
      BY <2>1, <2>2, <2>3 DEF MemoryLedger
    <3>2. QED
      BY <1>1, <2>1, <2>3, <3>1, ArrivedGoesOn
  <2>4. ASSUME forked', status' = "ok"
        PROVE  \E x \in DOMAIN ChildScript[demo] :
                 ExitsAt(demo, x) /\ ArrivedFrom(ChildScript[demo], x)'
    <3>1. PICK x \in DOMAIN ChildScript[demo] :
            ExitsAt(demo, x) /\ ArrivedFrom(ChildScript[demo], x)
      BY <2>1, <2>2, <2>4 DEF MemoryLedger
    <3>2. QED
      BY <1>1, <2>1, <2>4, <3>1, ArrivedGoesOn
  <2>5. QED
    BY <2>1, <2>3, <2>4 DEF MemoryLedger
<1>2. CASE ForkWorks
  <2>1. /\ Ready("parent") /\ IsFork(Step("parent")) /\ pc'["parent"] = i + 1 /\ pc'["child"] = 1
        /\ demo' = demo /\ status' = "none"
    BY <1>2, Forking
  <2>2. ArrivedFrom(ChildScript[demo], pc["child"])'
    BY <2>1, NothingLeft DEF ArrivedFrom
  <2>3. QED
    BY <2>1, <2>2 DEF MemoryLedger
<1>3. CASE CallFails \/ Undo
  BY <1>3, Unwinding DEF MemoryLedger
<1>4. CASE Leaves
  BY <1>4, Leaving, NothingLeft DEF MemoryLedger
<1>5. CASE Faults
  BY <1>5, Faulting DEF MemoryLedger
<1>6. CASE ChildGoesOn
  <2>1. /\ forked /\ mode["child"] = "running" /\ status = "none"
        /\ UNCHANGED <<demo, mode, status>> /\ pc'["parent"] = i
    BY <1>6, ChildGoesOnForked, ChildGoingOn DEF StatusLedger
  <2>2. mode["parent"] = "running" => ArrivedFrom(ChildScript[demo], pc["child"])'
    BY <1>6, <2>1, ArrivedChildGoesOn DEF MemoryLedger
  <2>3. QED
    BY <2>1, <2>2 DEF MemoryLedger
<1>7. CASE ChildStops
  <2>1. /\ mode["child"] = "running" /\ mode'["child"] = "zombie"
        /\ mode'["parent"] = mode["parent"] /\ UNCHANGED <<demo, pc, seen, forked>>
        /\ status' = "ok" => At("child", "exit")
    BY <1>7, ChildStopping
  <2>2. ASSUME forked', status' = "ok", mode["parent"] = "running"
        PROVE  \E x \in DOMAIN ChildScript[demo] :
                 ExitsAt(demo, x) /\ ArrivedFrom(ChildScript[demo], x)
    <3>1. Ready("child") /\ Step("child").op = "exit"
      BY <2>1, <2>2 DEF At
    <3>2. ExitsAt(demo, pc["child"])
      BY <2>1, <3>1, ChildAtStep DEF ExitsAt, ChildLedger
    <3>3. ArrivedFrom(ChildScript[demo], pc["child"])
      BY <2>1, <2>2 DEF MemoryLedger
    <3>4. QED
      BY <3>2, <3>3 DEF ExitsAt
  <2>3. \A script, x : ArrivedFrom(script, x) => ArrivedFrom(script, x)'
    BY <2>1 DEF ArrivedFrom
  <2>4. QED
    BY <2>1, <2>2, <2>3 DEF MemoryLedger
<1>8. CASE Quiet
  <2>1. \A script, x : ArrivedFrom(script, x) => ArrivedFrom(script, x)'
    BY <1>8 DEF Quiet, ArrivedFrom, OnlyReads
  <2>2. QED
    BY <1>8, <2>1 DEF Quiet, MemoryLedger
<1>9. QED
  BY <1>1, <1>2, <1>3, <1>4, <1>5, <1>6, <1>7, <1>8, StepKinds

-----------------------------------------------------------------------------
(***************************************************************************)
(* The theorems                                                            *)
(***************************************************************************)
(* When main() is called there is no child, and nothing is held.           *)
LEMMA FamilyInit ==
  ASSUME Init
  PROVE  FamilyAccounts
<1>1. /\ mode["parent"] = "running" /\ mode["child"] = "none" /\ ~forked
      /\ pc["parent"] = 1 /\ Has = {} /\ \A p \in Procs : held[p] = {}
  BY DEF Init, Procs, Has
<1>2. QED
  BY <1>1 DEF FamilyAccounts, ChildIsKnown, ChildLedger, NeedsAreMet,
                    NamesOutliveTheirUsers, StatusLedger, MemoryLedger, Procs

(* Every step keeps the accounts of the family.                            *)
LEMMA FamilyNext ==
  ASSUME Accounts, Accounts', ScriptsAreWellFormed, FamilyAccounts, [Next]_vars
  PROVE  FamilyAccounts'
BY ChildIsKnownNext, ChildLedgerNext, NeedsAreMetNext, NamesOutliveNext,
   StatusLedgerNext, MemoryLedgerNext DEF FamilyAccounts

(* At every step of every well-formed demo, parent and child are where the *)
(* other's position says they can be, have what their own says they have,  *)
(* and the parent reads what the child's position says was written.        *)
THEOREM FamilyIsAccountedFor ==
  ASSUME ScriptsAreWellFormed
  PROVE  Spec => []FamilyAccounts
<1>1. Init => FamilyAccounts
  BY FamilyInit
<1>2. Accounts /\ Accounts' /\ FamilyAccounts /\ [Next]_vars => FamilyAccounts'
  BY FamilyNext
<1>3. Spec => []Accounts
  BY EverythingIsAccountedFor
<1>4. QED
  BY <1>1, <1>2, <1>3, PTL DEF Spec

(* No step of the parent or of the child touches, reads or releases what   *)
(* the process does not have: no double free, no use after unmapping, on   *)
(* the normal path and on every error path.                                *)
THEOREM NothingIsUsedDead ==
  ASSUME ScriptsAreWellFormed
  PROVE  Spec => []UsesOnlyWhatItHolds
<1> USE DEF Procs
<1>1. Accounts /\ FamilyAccounts => UsesOnlyWhatItHolds
  <2>1. SUFFICES ASSUME Accounts, FamilyAccounts
                 PROVE  UsesOnlyWhatItHolds
    OBVIOUS
  <2>2. ASSUME NEW op \in {"touch", "check", "release"}, At("parent", op)
        PROVE  Step("parent").res \in held["parent"] \union names
    BY <2>1, <2>2, ParentAtStep DEF At, StepWellFormed, Has
  <2>3. ASSUME NEW op \in {"touch", "check", "release"}, At("child", op)
        PROVE  Step("child").res \in held["child"] \union names
    <3>1. Ready("child") /\ Step("child").op \in {"touch", "check", "release"}
      BY <2>3 DEF At
    <3>2. /\ ChildIsWellFormed(demo) /\ mode["child"] = "running"
          /\ pc["child"] \in DOMAIN ChildScript[demo]
          /\ Step("child") = ChildScript[demo][pc["child"]]
      BY <2>1, <3>1, ChildAtStep
    <3>3. ChildReaches(demo, pc["child"]) /\ held["child"] = ChildHeldBefore(demo, pc["child"])
      BY <2>1, <3>2 DEF FamilyAccounts, ChildLedger
    <3>4. QED
      BY <3>1, <3>2, <3>3 DEF ChildIsWellFormed
  <2>4. mode["parent"] = "unwinding" /\ undone \in DOMAIN Step("parent").undo
          => Step("parent").undo[undone] \in held["parent"] \union names
    BY <2>1, UndoInOrder DEF Has
  <2>5. QED
    BY <2>2, <2>3, <2>4 DEF UsesOnlyWhatItHolds
<1>2. QED
  BY <1>1, EverythingIsAccountedFor, FamilyIsAccountedFor, PTL

(* main() never returns, and no demo begins, before the child of the last  *)
(* fork was waited for.                                                    *)
THEOREM NoChildIsEverLeftBehind ==
  ASSUME ScriptsAreWellFormed
  PROVE  Spec => []NoChildIsLeftBehind
<1>1. FamilyAccounts => NoChildIsLeftBehind
  BY NoChildAtStart DEF FamilyAccounts, ChildIsKnown, NoChildIsLeftBehind
<1>2. QED
  BY <1>1, FamilyIsAccountedFor, PTL

(* A file, shared memory object or segment is never deleted while parent   *)
(* or child has something that was made from it.                           *)
THEOREM NamesAlwaysOutliveTheirUsers ==
  ASSUME ScriptsAreWellFormed
  PROVE  Spec => []NamesOutliveTheirUsers
<1>1. FamilyAccounts => NamesOutliveTheirUsers
  BY DEF FamilyAccounts
<1>2. QED
  BY <1>1, FamilyIsAccountedFor, PTL

(* Where the script has the parent read the child's byte, the parent reads *)
(* it, unless the child failed or was killed: shared mappings, waitpid and *)
(* the order of steps suffice, whatever the scheduler does.                *)
THEOREM ParentReadsWhatChildWrote ==
  ASSUME ScriptsAreWellFormed
  PROVE  Spec => []ParentSeesChildsWrite
<1>1. Accounts /\ FamilyAccounts => ParentSeesChildsWrite
  <2> DEFINE i == pc["parent"]
             s == Step("parent")
  <2>1. SUFFICES ASSUME Accounts, FamilyAccounts, At("parent", "check"), s.val # "any",
                        status \notin {"failed", "killed"}
                 PROVE  seen["parent"][s.res] = s.val
    BY DEF ParentSeesChildsWrite
  <2>2. /\ Ready("parent") /\ s.op = "check" /\ (s.branch => forked)
    BY <2>1 DEF At
  <2>3. /\ i \in DOMAIN Script[demo] /\ s = Script[demo][i] /\ s \in StepRecord
        /\ mode["parent"] = "running" /\ DemoIsWellFormed(demo) /\ demo \in Demos
    BY <2>1, <2>2, ParentAtStep
  <2>4. CheckIsMeant(demo, i) /\ s.res \in Resources
    BY <2>2, <2>3 DEF DemoIsWellFormed, StepRecord
  <2>5. CASE /\ s.branch /\ ~MayHaveChild(demo, i)
             /\ \A x \in DOMAIN ChildScript[demo] :
                  ExitsAt(demo, x) => /\ \E f \in DOMAIN Script[demo] : OnlyReads(demo, f, i, s.res)
                                      /\ LeavesIn(ChildScript[demo], x, s.res, s.val)
    <3>1. forked /\ mode["child"] = "none"
      BY <2>1, <2>2, <2>5 DEF FamilyAccounts, ChildIsKnown
    <3>2. status = "ok"
      BY <2>1, <3>1 DEF FamilyAccounts, StatusLedger, Accounts, TypeOK
    <3>3. PICK x \in DOMAIN ChildScript[demo] :
            ExitsAt(demo, x) /\ ArrivedFrom(ChildScript[demo], x)
      BY <2>1, <2>3, <3>1, <3>2 DEF FamilyAccounts, MemoryLedger
    <3>4. s.val \in Values
      <4>1. ChildScript[demo] \in Seq(StepRecord)
        BY <2>3, ScriptType
      <4>2. QED
        BY <2>5, <3>3, <4>1, LeavesAValue
    <3>5. QED
      BY <2>4, <2>5, <3>3, <3>4 DEF ArrivedFrom
  <2>6. QED
    BY <2>1, <2>3, <2>4, <2>5 DEF CheckIsMeant
<1>2. QED
  BY <1>1, EverythingIsAccountedFor, FamilyIsAccountedFor, PTL

(* Parent and child never wait for Enter at the same time, in a demo whose *)
(* script has no pause of the parent between fork() and waitpid().         *)
THEOREM OnlyOneReaderAtATime ==
  ASSUME ScriptsAreWellFormed, PausesAreApart
  PROVE  Spec => []OneReaderAtATime
<1>1. Accounts /\ FamilyAccounts => OneReaderAtATime
  <2>1. SUFFICES ASSUME Accounts, FamilyAccounts, At("parent", "pause"), At("child", "pause")
                 PROVE  FALSE
    BY DEF OneReaderAtATime, Procs
  <2>2. Ready("parent") /\ Step("parent").op = "pause" /\ mode["child"] = "running"
    BY <2>1 DEF At, Ready
  <2>3. MayHaveChild(demo, pc["parent"])
    BY <2>1, <2>2 DEF FamilyAccounts, ChildIsKnown
  <2>4. QED
    BY <2>1, <2>2, <2>3, ParentAtStep DEF PausesAreApart
<1>2. QED
  BY <1>1, EverythingIsAccountedFor, FamilyIsAccountedFor, PTL

-----------------------------------------------------------------------------
(***************************************************************************)
(* The life cycle of resources                                             *)
(***************************************************************************)
Things == Resources \union {"blocks"}
MadeFrom == [r \in Things |-> IF r = "blocks" THEN {} ELSE Needs[r]]

(* What the refinement mapping says of a state.                            *)
LEMMA Mapping ==
  ASSUME Accounts
  PROVE  /\ Owned = IF chunks > 0 THEN Has \union {"blocks"} ELSE Has
         /\ Has \subseteq Resources /\ "blocks" \notin Has
         /\ chunks \in Nat
         /\ Has \intersect Names = names
<1>1. chunks \in Nat /\ Has \subseteq Resources /\ Has \intersect Names = names
  BY DemoAssumption DEF Accounts, TypeOK, Has, Names, Procs
<1>2. QED
  BY <1>1, DemoAssumption DEF Owned, Has

(* What each thing is made from.                                           *)
LEMMA Making ==
  /\ \A r \in Resources : MadeFrom[r] = Needs[r] /\ "blocks" \notin MadeFrom[r]
  /\ MadeFrom["blocks"] = {}
BY DemoAssumption DEF MadeFrom, Things

(* When main() is called the life cycle begins.                            *)
LEMMA LifecycleInit ==
  ASSUME Init
  PROVE  Lifecycle!Init
BY DEF Init, Lifecycle!Init, Owned, Phase, Procs

(* Taking one thing more, made from what is owned, is a step of the cycle. *)
LEMMA LifecycleTake ==
  ASSUME NEW r \in Things, Phase = "open", Phase' = "open", r \notin Owned,
         MadeFrom[r] \subseteq Owned, Owned' = Owned \union {r}
  PROVE  Lifecycle!Next
BY DEF Lifecycle!Next, Lifecycle!Take, Things, MadeFrom

(* So is giving back what nothing owned is made from.                      *)
LEMMA LifecycleGiveBack ==
  ASSUME NEW r \in Owned, Phase = "open", Phase' = "open",
         \A q \in Owned : r \notin MadeFrom[q], Owned' = Owned \ {r}
  PROVE  Lifecycle!Next
BY DEF Lifecycle!Next, Lifecycle!GiveBack, Things, MadeFrom

(* Only the pressure loops and a kill change the number of blocks.         *)
LEMMA BlocksChange ==
  ASSUME [Next]_vars
  PROVE  chunks' = chunks \/ Grow \/ Shrink \/ Faults
<1>1. \A p \in Procs : Common(p) => chunks' = chunks
  BY DEF Common, Skip, Acquire, Require, Release, Drop, Touch, Check, ReadLine, PassPause, store
<1>2. ParentOnly => chunks' = chunks \/ Grow \/ Shrink \/ Faults
  BY DEF ParentOnly, CallFails, Undo, Drop, GiveUp, Return, Continue, GrowStops, ShrinkEnds,
         ForkWorks, ForkFails, Wait, store
<1>3. ChildExits \/ ChildFails \/ Kernel \/ User => chunks' = chunks
  BY DEF ChildExits, ChildFails, Kernel, Discard, ChildKilled, ChildEnds, User, TypeLine, store
<1>4. QED
  BY <1>1, <1>2, <1>3 DEF Next, ParentStep, ChildStep, vars, store, Procs

(* A step that changes neither what the parent has nor its blocks nor how  *)
(* far main() is leaves the life cycle where it is.                        *)
LEMMA LifecycleStutters ==
  ASSUME Has' = Has, chunks' = chunks, Phase' = Phase
  PROVE  UNCHANGED <<Owned, Phase>>
BY DEF Owned, Has

(* The first block of a pressure loop is taken, the last is given back.    *)
LEMMA LifecycleBlocks ==
  ASSUME Accounts, Accounts', Grow \/ Shrink
  PROVE  Lifecycle!Next \/ UNCHANGED <<Owned, Phase>>
<1>1. /\ UNCHANGED <<mode, held, names>> /\ Phase = "open" /\ chunks \in Nat
      /\ chunks' = chunks + 1 \/ (chunks > 0 /\ chunks' = chunks - 1)
  BY Mapping DEF Grow, Shrink, At, Ready, program, Phase
<1>2. Has' = Has /\ Phase' = Phase
  BY <1>1 DEF Has, Phase
<1>3. /\ Owned = IF chunks > 0 THEN Has \union {"blocks"} ELSE Has
      /\ Owned' = IF chunks' > 0 THEN Has \union {"blocks"} ELSE Has
      /\ Has \subseteq Resources /\ "blocks" \notin Has
  BY <1>2, Mapping DEF Owned, Has
<1>4. CASE chunks = 0
  BY <1>1, <1>2, <1>3, <1>4, Making, LifecycleTake DEF Things
<1>5. CASE chunks' = 0 /\ chunks > 0
  BY <1>1, <1>2, <1>3, <1>5, Making, LifecycleGiveBack
<1>6. CASE chunks > 0 /\ chunks' > 0
  BY <1>1, <1>2, <1>3, <1>6
<1>7. QED
  BY <1>1, <1>4, <1>5, <1>6

(* Giving back r, when nothing the parent has is made from it.             *)
LEMMA LifecycleDrops ==
  ASSUME Accounts, NEW r \in Has, \A q \in Has : r \notin Needs[q],
         Has' = Has \ {r}, chunks' = chunks, Phase = "open", Phase' = "open"
  PROVE  Lifecycle!Next
<1>1. r \in Owned /\ Owned' = Owned \ {r}
  BY Mapping DEF Owned, Has
<1>2. \A q \in Owned : r \notin MadeFrom[q]
  BY Mapping, Making
<1>3. QED
  BY <1>1, <1>2, LifecycleGiveBack

(* Every step of a well-formed demo is a step of the life cycle or none.   *)
LEMMA LifecycleNext ==
  ASSUME Accounts, Accounts', ScriptsAreWellFormed, FamilyAccounts, [Next]_vars
  PROVE  Lifecycle!Next \/ UNCHANGED <<Owned, Phase>>
<1> ChildIsKnown
  BY DEF FamilyAccounts
<1>1. CASE Grow \/ Shrink
  BY <1>1, LifecycleBlocks
<1>2. CASE Faults
  <2>1. /\ Ready("parent") /\ mode'["parent"] = "killed" /\ held'["parent"] = {}
        /\ names' = names /\ chunks' = 0
    BY <1>2, Faulting
  <2>2. Phase = "open" /\ Phase' = "killed"
    BY <2>1 DEF Ready, Phase
  <2>3. Owned' = names /\ Owned \intersect Names = names
    BY <2>1, Mapping, DemoAssumption DEF Owned, Has, Names
  <2>4. QED
    BY <2>2, <2>3 DEF Lifecycle!Next, Lifecycle!Killed
<1> DEFINE Rest == chunks' = chunks
<1>3. CASE Rest /\ GoesOn
  <2> DEFINE s == Step("parent")
  <2>1. /\ Ready("parent") /\ mode'["parent"] = "running"
        /\ Has' = IF s.op \in {"acquire", "grant"} THEN Has \union {s.res}
                  ELSE IF s.op = "release" THEN Has \ {s.res} ELSE Has
        /\ s.op \in {"acquire", "grant"} => Needs[s.res] \subseteq Has
    BY <1>3, ParentGoesOn
  <2>2. /\ Phase = "open" /\ Phase' = "open"
    BY <2>1 DEF Ready, Phase
  <2>3. /\ s \in StepRecord /\ s = Script[demo][pc["parent"]]
        /\ StepWellFormed(demo, pc["parent"]) /\ Has = HeldBefore(demo, pc["parent"])
    BY <2>1, ParentAtStep
  <2>4. CASE s.op \in {"acquire", "grant"}
    <3>1. s.res \in Resources /\ s.res \notin Has
      BY <2>3, <2>4 DEF StepRecord, StepWellFormed
    <3>2. s.res \in Things /\ s.res \notin Owned /\ MadeFrom[s.res] \subseteq Owned
      BY <2>1, <2>4, <3>1, Mapping, Making, DemoAssumption DEF Things
    <3>3. Owned' = Owned \union {s.res}
      BY <1>3, <2>1, <2>4 DEF Owned, Has
    <3>4. QED
      BY <2>2, <3>2, <3>3, LifecycleTake
  <2>5. CASE s.op = "release"
    BY <1>3, <2>1, <2>2, <2>5, ReleaseInOrder, LifecycleDrops
  <2>6. CASE s.op \notin {"acquire", "grant", "release"}
    BY <1>3, <2>1, <2>2, <2>6, LifecycleStutters
  <2>7. QED
    BY <2>4, <2>5, <2>6
<1>4. CASE Rest /\ ForkWorks
  <2>1. Has' = Has /\ Phase' = Phase
    BY <1>4, Forking DEF Has, Phase
  <2>2. QED
    BY <1>4, <2>1, LifecycleStutters
<1>5. CASE Rest /\ CallFails
  <2>1. Has' = Has /\ Phase' = Phase
    BY <1>5, Unwinding DEF Has, Phase, Ready
  <2>2. QED
    BY <1>5, <2>1, LifecycleStutters
<1>6. CASE Rest /\ Undo
  <2>1. /\ mode["parent"] = "unwinding" /\ mode'["parent"] = "unwinding"
        /\ undone \in DOMAIN Step("parent").undo
        /\ Has' = Has \ {Step("parent").undo[undone]}
    BY <1>6, Unwinding
  <2>2. Phase = "open" /\ Phase' = "open"
    BY <2>1 DEF Phase
  <2>3. QED
    BY <1>6, <2>1, <2>2, UndoInOrder, LifecycleDrops
<1>7. CASE Rest /\ Leaves
  <2>1. /\ UNCHANGED <<held, names, chunks>> /\ Has = {} /\ chunks = 0
        /\ mode'["parent"] \in {"returned", "running"}
        /\ mode["parent"] \in {"unwinding", "running"}
    BY <1>7, Leaving
  <2>2. Owned = {} /\ Owned' = Owned /\ Phase = "open" /\ Phase' \in {"over", "open"}
    BY <2>1 DEF Owned, Has, Phase
  <2>3. QED
    BY <2>2 DEF Lifecycle!Next, Lifecycle!Over
<1>8. CASE Rest /\ (ChildGoesOn \/ ChildStops \/ Quiet)
  <2>1. Has' = Has /\ Phase' = Phase
    BY <1>8, ChildKeepsHas DEF Phase
  <2>2. QED
    BY <1>8, <2>1, LifecycleStutters
<1>9. QED
  BY <1>1, <1>2, <1>3, <1>4, <1>5, <1>6, <1>7, <1>8, StepKinds, BlocksChange

(* main() of a well-formed demo follows the life cycle of its resources:   *)
(* one is taken at a time, from what is there, and given back only when    *)
(* nothing else is made from it, on every path, until nothing is left.     *)
THEOREM DemosImplementLifecycle ==
  ASSUME ScriptsAreWellFormed
  PROVE  Spec => ImplementsLifecycle
<1>1. Init => Lifecycle!Init
  BY LifecycleInit
<1>2. Accounts /\ Accounts' /\ FamilyAccounts /\ [Next]_vars
        => [Lifecycle!Next]_<<Owned, Phase>>
  BY LifecycleNext
<1>3. QED
  BY <1>1, <1>2, EverythingIsAccountedFor, FamilyIsAccountedFor, PTL
  DEF Spec, ImplementsLifecycle, Lifecycle!Spec

-----------------------------------------------------------------------------
(***************************************************************************)
(* The terminal: a character the user typed lets one pause pass, or one of *)
(* the parent and one of the child.                                        *)
(***************************************************************************)
(* Among numbers there is a smallest.                                      *)
LEMMA SmallestNumber ==
  ASSUME NEW Bad \in SUBSET Nat, Bad # {}
  PROVE  \E n \in Bad : \A m \in Bad : n <= m
<1>1. PICK n \in Bad : \A m \in Bad : <<m, n>> \notin OpToRel(<, Nat)
  BY NatLessThanWellFounded, WFMin
<1>2. ASSUME NEW m \in Bad
      PROVE  ~(m < n)
  BY <1>1, <1>2 DEF OpToRel
<1>3. QED
  BY <1>2

(* What is left of waiting lines when one is taken.                        *)
LEMMA OneLineLess ==
  ASSUME NEW lines \in Seq(LineSizes), lines # << >>
  PROVE  /\ Head(lines) \in Nat /\ Tail(lines) \in Seq(LineSizes)
         /\ Len(lines) \in Nat \ {0} /\ Len(Tail(lines)) = Len(lines) - 1
<1>1. Head(lines) \in LineSizes /\ Tail(lines) \in Seq(LineSizes)
      /\ Len(lines) \in Nat \ {0} /\ Len(Tail(lines)) = Len(lines) - 1
  OBVIOUS
<1>2. QED
  BY <1>1, DemoAssumption

(* The recursion defines a function: if it did so for sequences up to some *)
(* length only, it would for those that are longer by one, too.            *)
LEMMA CharactersAreDefined ==
  Characters = [lines \in Waiting |->
                  IF lines = << >> THEN 0 ELSE Head(lines) + Characters[Tail(lines)]]
<1> DEFINE Def(g, s) == IF s = << >> THEN 0 ELSE Head(s) + g[Tail(s)]
           UpTo(n) == {s \in Seq(LineSizes) : Len(s) <= n}
           Adds(g, n) == \A s \in UpTo(n) : g[s] = Def(g, s)
           Bad == {n \in Nat : ~ \E g : Adds(g, n)}
<1>1. ASSUME Bad # {} PROVE FALSE
  <2>1. PICK n \in Bad : \A m \in Bad : n <= m
    <3>1. Bad \in SUBSET Nat
      OBVIOUS
    <3> HIDE DEF Bad
    <3>2. QED
      BY <1>1, <3>1, SmallestNumber
  <2>2. n \in Nat /\ ~ \E g : Adds(g, n)
    OBVIOUS
  <2>3. CASE n = 0
    <3> DEFINE g == [s \in UpTo(n) |-> 0]
    <3>1. \A s \in UpTo(n) : s = << >> /\ g[s] = 0
      BY <2>3
    <3> HIDE DEF g
    <3>2. Adds(g, n)
      BY <3>1
    <3> HIDE DEF Adds
    <3>3. QED
      BY <2>2, <3>2
  <2>4. CASE n # 0
    <3>1. n - 1 \in Nat /\ n - 1 \notin Bad
      <4> HIDE DEF Bad
      <4>1. QED
        BY <2>1, <2>2, <2>4
    <3>2. PICK g : Adds(g, n - 1)
      BY <3>1
    <3> DEFINE h == [s \in UpTo(n) |-> Def(g, s)]
    <3>3. ASSUME NEW s \in UpTo(n), s # << >>
          PROVE  h[Tail(s)] = g[Tail(s)]
      <4>1. Tail(s) \in UpTo(n - 1) /\ Tail(s) \in UpTo(n)
        <5>1. s \in Seq(LineSizes) /\ Len(s) <= n /\ n \in Nat
          BY <2>2
        <5>2. /\ Tail(s) \in Seq(LineSizes) /\ Len(s) \in Nat
              /\ Len(Tail(s)) = Len(s) - 1
          BY <3>3, <5>1, OneLineLess
        <5> HIDE DEF Def, Adds, Bad, h
        <5>3. QED
          BY <5>1, <5>2
      <4>2. g[Tail(s)] = Def(g, Tail(s))
        BY <3>2, <4>1
      <4>3. h[Tail(s)] = Def(g, Tail(s))
        <5> HIDE DEF Def, UpTo
        <5>1. QED
          BY <4>1
      <4>4. QED
        BY <4>2, <4>3
    <3>4. \A s \in UpTo(n) : h[s] = Def(g, s)
      <4> HIDE DEF Def, UpTo
      <4>1. QED
        OBVIOUS
    <3> HIDE DEF h
    <3>5. Adds(h, n)
      BY <3>3, <3>4
    <3> HIDE DEF Adds
    <3>6. QED
      BY <2>2, <3>5
  <2>5. QED
    BY <2>3, <2>4
<1>2. PICK g : Adds(g, QueueMax)
  BY <1>1, DemoAssumption
<1> HIDE DEF Bad
<1> DEFINE h == [s \in Waiting |-> Def(g, s)]
<1>3. Waiting = UpTo(QueueMax)
  BY DEF Waiting
<1>4. \A s \in Waiting : s # << >> => h[Tail(s)] = g[Tail(s)]
  <2>1. TAKE s \in Waiting
  <2>2. HAVE s # << >>
  <2>3. Tail(s) \in Waiting
    BY <2>2, OneLineLess, DemoAssumption DEF Waiting
  <2>4. g[Tail(s)] = Def(g, Tail(s))
    BY <1>2, <1>3, <2>3
  <2>5. h[Tail(s)] = Def(g, Tail(s))
    <3> HIDE DEF Def
    <3>1. QED
      BY <2>3
  <2>6. QED
    BY <2>4, <2>5
<1>5. h = [s \in Waiting |-> IF s = << >> THEN 0 ELSE Head(s) + h[Tail(s)]]
  <2>1. \A s \in Waiting : Def(g, s) = Def(h, s)
    <3> HIDE DEF h
    <3>1. QED
      BY <1>4
  <2>2. h = [s \in Waiting |-> Def(g, s)]
    OBVIOUS
  <2> HIDE DEF h
  <2>3. [s \in Waiting |-> Def(g, s)] = [s \in Waiting |-> Def(h, s)]
    <3> HIDE DEF Def
    <3>1. QED
      BY <2>1
  <2>4. QED
    BY <2>2, <2>3
<1> HIDE DEF h
<1>6. QED
  BY <1>5 DEF Characters

(* The characters in the lines that wait are those of the first line and   *)
(* those of the others.                                                    *)
LEMMA CharactersOfTail ==
  ASSUME NEW lines \in Waiting, lines # << >>
  PROVE  Tail(lines) \in Waiting
         /\ Characters[lines] = Head(lines) + Characters[Tail(lines)]
<1> DEFINE F(s) == IF s = << >> THEN 0 ELSE Head(s) + Characters[Tail(s)]
<1>1. Characters = [s \in Waiting |-> F(s)]
  BY CharactersAreDefined
<1> HIDE DEF F
<1>2. Characters[lines] = F(lines)
  BY <1>1
<1>3. Tail(lines) \in Waiting
  BY OneLineLess, DemoAssumption DEF Waiting
<1>4. QED
  BY <1>2, <1>3 DEF F

(* What waits is a number of characters.                                   *)
LEMMA CharactersAreNumbers ==
  ASSUME NEW lines \in Waiting
  PROVE  Characters[lines] \in Nat
<1> DEFINE Bad == {n \in Nat : \E s \in Waiting : Len(s) = n /\ Characters[s] \notin Nat}
<1>1. ASSUME Bad # {} PROVE FALSE
  <2>1. PICK n \in Bad : \A m \in Bad : n <= m
    <3>1. Bad \in SUBSET Nat
      OBVIOUS
    <3> HIDE DEF Bad
    <3>2. QED
      BY <1>1, <3>1, SmallestNumber
  <2>2. PICK s \in Waiting : Len(s) = n /\ Characters[s] \notin Nat
    OBVIOUS
  <2>3. CASE s = << >>
    <3> DEFINE F(t) == IF t = << >> THEN 0 ELSE Head(t) + Characters[Tail(t)]
    <3>1. Characters = [t \in Waiting |-> F(t)]
      BY CharactersAreDefined
    <3> HIDE DEF F
    <3>2. Characters[s] = F(s)
      BY <3>1
    <3>3. QED
      BY <2>2, <2>3, <3>2 DEF F
  <2>4. CASE s # << >>
    <3>1. Tail(s) \in Waiting /\ Characters[s] = Head(s) + Characters[Tail(s)]
      BY <2>4, CharactersOfTail
    <3>2. Head(s) \in Nat /\ Len(s) \in Nat \ {0} /\ Len(Tail(s)) = Len(s) - 1
      BY <2>4, OneLineLess DEF Waiting
    <3>3. Characters[Tail(s)] \notin Nat
      BY <2>2, <3>1, <3>2
    <3>4. n - 1 \in Bad
      <4>1. n - 1 \in Nat /\ Len(Tail(s)) = n - 1
        BY <2>2, <3>2
      <4>2. QED
        BY <3>1, <3>3, <4>1
    <3> HIDE DEF Bad
    <3>5. QED
      BY <2>1, <2>2, <3>2, <3>4
  <2>5. QED
    BY <2>3, <2>4
<1>2. Len(lines) \in Nat
  BY DEF Waiting
<1>3. QED
  BY <1>1, <1>2

\* The characters in the child's buffer, while there is a child that reads.
Copied == IF mode["child"] = "running" THEN inbuf["child"] ELSE 0

(* What there is to read is a number.                                      *)
LEMMA UnreadIsNumber ==
  ASSUME TypeOK
  PROVE  /\ tty \in Waiting /\ Characters[tty] \in Nat
         /\ inbuf["parent"] \in Nat /\ inbuf["child"] \in Nat /\ Copied \in Nat
         /\ Unread = Characters[tty] + inbuf["parent"] + Copied
<1>1. tty \in Waiting
  BY DEF TypeOK, Waiting
<1>2. QED
  BY <1>1, CharactersAreNumbers DEF TypeOK, Procs, Copied, Unread

(* A step other than reading leaves the characters where they are, unless  *)
(* the child ends, and then those in its buffer are lost.                  *)
LEMMA NothingIsRead ==
  ASSUME TypeOK, UNCHANGED input,
         mode'["child"] = "running" => mode["child"] = "running",
         \A p \in Procs : At(p, "pause") => pc'[p] # pc[p] + 1
  PROVE  CharactersAreSpent
<1>1. Unread' = Characters[tty] + inbuf["parent"] + Copied' /\ Copied' \in {0, Copied}
  BY DEF Unread, Copied, input
<1>2. Unread' <= Unread /\ Unread' \in Nat
  BY <1>1, UnreadIsNumber
<1>3. QED
  BY <1>2, UnreadIsNumber DEF CharactersAreSpent

(* What a process does at a pause: it takes a line to its buffer, or one   *)
(* character out of it.                                                    *)
LEMMA PausesSpend ==
  ASSUME TypeOK, NEW p \in Procs, ReadLine(p) \/ PassPause(p)
  PROVE  CharactersAreSpent
<1> USE DEF Procs
<1>1. /\ At(p, "pause") /\ mode[p] = "running" /\ UNCHANGED mode
      /\ inbuf \in [Procs -> Nat] /\ pc \in [Procs -> Nat \ {0}]
  BY DEF ReadLine, PassPause, Advance, program, At, Ready, TypeOK
<1>2. /\ tty \in Waiting /\ Characters[tty] \in Nat
      /\ Copied \in Nat /\ Unread = Characters[tty] + inbuf["parent"] + Copied
  BY UnreadIsNumber
<1>3. CASE ReadLine(p)
  <2>1. /\ inbuf[p] = 0 /\ tty # << >> /\ tty' = Tail(tty) /\ UNCHANGED pc
        /\ inbuf' = [inbuf EXCEPT ![p] = Head(tty)]
    BY <1>3 DEF ReadLine, program
  <2>2. /\ tty' \in Waiting /\ Characters[tty] = Head(tty) + Characters[tty']
        /\ Characters[tty'] \in Nat /\ Head(tty) \in Nat
    BY <1>2, <2>1, CharactersOfTail, CharactersAreNumbers, OneLineLess DEF Waiting
  <2>3. Unread' = Unread
    <3>1. CASE p = "parent"
      BY <1>1, <1>2, <2>1, <2>2, <3>1 DEF Unread, Copied
    <3>2. CASE p = "child"
      BY <1>1, <1>2, <2>1, <2>2, <3>2 DEF Unread, Copied
    <3>3. QED
      BY <3>1, <3>2
  <2>4. \A q \in Procs : pc'[q] # pc[q] + 1
    BY <1>1, <2>1
  <2>5. QED
    BY <1>2, <2>3, <2>4 DEF CharactersAreSpent
<1>4. CASE PassPause(p)
  <2>1. /\ (inbuf[p] > 0 \/ eof[p]) /\ UNCHANGED tty
        /\ inbuf' = [inbuf EXCEPT ![p] = IF @ > 0 THEN @ - 1 ELSE 0]
        /\ pc' = [pc EXCEPT ![p] = @ + 1]
    BY <1>4 DEF PassPause, Advance
  <2>2. Unread' = IF inbuf[p] > 0 THEN Unread - 1 ELSE Unread
    <3>1. CASE p = "parent"
      BY <1>1, <1>2, <2>1, <3>1 DEF Unread, Copied
    <3>2. CASE p = "child"
      BY <1>1, <1>2, <2>1, <3>2 DEF Unread, Copied
    <3>3. QED
      BY <3>1, <3>2
  <2>3. \A q \in Procs : pc'[q] = pc[q] + 1 => q = p
    BY <1>1, <2>1
  <2>4. QED
    BY <1>2, <2>1, <2>2, <2>3 DEF CharactersAreSpent
<1>5. QED
  BY <1>3, <1>4

(* fork() copies what is left in the buffer of the parent.                 *)
LEMMA ForkCopies ==
  ASSUME TypeOK, ForkWorks
  PROVE  CharactersAreSpent
<1>1. /\ mode["child"] = "none" /\ mode'["child"] = "running" /\ UNCHANGED tty
      /\ inbuf'["parent"] = inbuf["parent"] /\ inbuf'["child"] = inbuf["parent"]
      /\ pc'["parent"] = pc["parent"] + 1
      /\ ~At("parent", "pause") /\ ~At("child", "pause")
  BY DEF ForkWorks, At, Ready, TypeOK, Procs
<1>2. Unread' = Unread + inbuf["parent"]
  BY <1>1, UnreadIsNumber DEF Unread, Copied
<1>3. QED
  BY <1>1, <1>2 DEF CharactersAreSpent, Procs

(* No other step reads: where a process pauses it can only read or wait.   *)
LEMMA OthersDoNotRead ==
  ASSUME TypeOK,
         \/ ParentOnly /\ ~ForkWorks
         \/ ChildExits \/ ChildFails \/ Kernel \/ UNCHANGED vars
         \/ \E p \in Procs : Skip(p) \/ Acquire(p) \/ Require(p) \/ Release(p) \/ Touch(p)
                             \/ Check(p)
  PROVE  CharactersAreSpent
<1> USE DEF Procs
<1>1. /\ mode \in [Procs -> {"none", "running", "unwinding", "zombie", "returned", "killed"}]
      /\ pc \in [Procs -> Nat \ {0}]
  BY DEF TypeOK
<1>2. CASE UNCHANGED pc /\ UNCHANGED input /\ (mode'["child"] = "running" => mode["child"] = "running")
  <2>1. \A p \in Procs : pc'[p] # pc[p] + 1
    BY <1>1, <1>2
  <2>2. QED
    BY <1>2, <2>1, NothingIsRead
<1>3. ASSUME NEW p \in Procs, Advance(p), UNCHANGED input, ~At(p, "pause")
      PROVE  CharactersAreSpent
  <2>1. \A q \in Procs : At(q, "pause") => pc'[q] # pc[q] + 1
    BY <1>1, <1>3 DEF Advance
  <2>2. UNCHANGED mode
    BY <1>3 DEF Advance
  <2>3. QED
    BY <1>3, <2>1, <2>2, NothingIsRead
<1>4. CASE CallFails \/ Undo \/ Grow \/ Shrink \/ Faults \/ ChildExits \/ ChildFails \/ Kernel
           \/ UNCHANGED vars
  BY <1>1, <1>2, <1>4 DEF CallFails, Undo, Grow, Shrink, Faults, ChildExits, ChildFails,
                          Kernel, Discard, ChildKilled, ChildEnds, program, vars
<1>5. CASE GrowStops \/ ShrinkEnds \/ ForkFails
  BY <1>3, <1>5 DEF GrowStops, ShrinkEnds, ForkFails, At
<1>6. ASSUME NEW p \in Procs,
             Skip(p) \/ Acquire(p) \/ Require(p) \/ Release(p) \/ Touch(p) \/ Check(p)
      PROVE  CharactersAreSpent
  <2>1. Advance(p) /\ UNCHANGED input /\ ~At(p, "pause")
    BY <1>6 DEF Skip, Acquire, Require, Release, Touch, Check, At
  <2>2. QED
    BY <1>3, <2>1
<1>7. CASE Wait
  <2>1. /\ pc' = [pc EXCEPT !["parent"] = @ + 1] /\ UNCHANGED input
        /\ mode'["child"] = "none" /\ ~At("parent", "pause")
    BY <1>1, <1>7 DEF Wait, At
  <2>2. pc'["child"] # pc["child"] + 1
    BY <1>1, <2>1
  <2>3. QED
    BY <2>1, <2>2, NothingIsRead
<1>8. CASE GiveUp \/ Return
  <2>1. PICK q : Continue(q)
    BY <1>8 DEF GiveUp, Return
  <2>2. UNCHANGED input /\ mode'["child"] = mode["child"]
    BY <1>1, <2>1 DEF Continue
  <2>3. pc' = pc \/ pc' = [pc EXCEPT !["parent"] = 1]
    BY <2>1 DEF Continue
  <2>4. \A p \in Procs : pc'[p] # pc[p] + 1
    BY <1>1, <2>3
  <2>5. QED
    BY <2>2, <2>4, NothingIsRead
<1>9. QED
  BY <1>4, <1>5, <1>6, <1>7, <1>8 DEF ParentOnly

(* The user's line is a line more, and no process goes on by it.           *)
LEMMA TypingIsNoReading ==
  ASSUME TypeOK, User
  PROVE  CharactersAreSpent
<1>1. PICK n \in LineSizes : tty' = Append(tty, n) /\ UNCHANGED pc
  BY DEF User, TypeLine, program
<1>2. Len(tty') = Len(tty) + 1 /\ Len(tty) \in Nat /\ pc \in [Procs -> Nat \ {0}]
  BY <1>1 DEF TypeOK
<1>3. \A p \in Procs : pc'[p] # pc[p] + 1
  BY <1>1, <1>2
<1>4. QED
  BY <1>2, <1>3 DEF CharactersAreSpent

(* For lines of any length and any number of them: the characters typed    *)
(* are spent by the pauses, one each, and only fork() makes more of them.  *)
THEOREM CharactersPassPauses ==
  ASSUME ScriptsAreWellFormed
  PROVE  Spec => OnlyForkCopiesCharacters
<1>1. Accounts /\ [Next]_vars => [CharactersAreSpent]_vars
  <2>1. SUFFICES ASSUME TypeOK, [Next]_vars
                 PROVE  CharactersAreSpent
    BY DEF Accounts
  <2>2. CASE User
    BY <2>1, <2>2, TypingIsNoReading
  <2>3. CASE ForkWorks
    BY <2>1, <2>3, ForkCopies
  <2>4. CASE \E p \in Procs : ReadLine(p) \/ PassPause(p)
    BY <2>1, <2>4, PausesSpend
  <2>5. CASE \/ ParentOnly /\ ~ForkWorks
             \/ ChildExits \/ ChildFails \/ Kernel \/ UNCHANGED vars
             \/ \E p \in Procs : Skip(p) \/ Acquire(p) \/ Require(p) \/ Release(p) \/ Touch(p)
                                 \/ Check(p)
    BY <2>1, <2>5, OthersDoNotRead
  <2>6. QED
    BY <2>1, <2>2, <2>3, <2>4, <2>5 DEF Next, ParentStep, ChildStep, Common, Procs
<1>2. QED
  BY <1>1, EverythingIsAccountedFor, PTL DEF Spec, OnlyForkCopiesCharacters

-----------------------------------------------------------------------------
(***************************************************************************)
(* Interrupted and started again: the accounts hold through any number of  *)
(* runs, and so each run leaves at most one object behind.                 *)
(***************************************************************************)
\* What a run can have of names: at most one at a time.
OneName == \A r, s \in names : r = s

\* What earlier runs left: at most one object each.
OneEach ==
  /\ runs \in Nat
  /\ \A o \in left : o.run \in Nat /\ o.run < runs
  /\ \A o, q \in left : o.run = q.run => o = q

RestartInv == Accounts /\ FamilyAccounts /\ OneName /\ OneEach

(* The accounts say what the names are, unless the parent was killed.      *)
LEMMA OneNameUnlessKilled ==
  ASSUME Accounts, ScriptsAreWellFormed, NamesAreApart, mode["parent"] # "killed"
  PROVE  OneName
<1>1. demo \in Demos /\ names \subseteq Names /\ names \subseteq Has
  BY DEF Accounts, TypeOK, Has
<1>2. CASE mode["parent"] = "running"
  BY <1>1, <1>2 DEF Accounts, Control, Ledger, NamesAreApart, OneName
<1>3. CASE mode["parent"] = "unwinding"
  <2> DEFINE p == pc["parent"]
             undo == Script[demo][p].undo
  <2>1. p \in DOMAIN Script[demo] /\ MayFail(Script[demo][p]) /\ undone \in 1 .. Len(undo) + 1
        /\ Has = Remaining(undo, undone)
    BY <1>3 DEF Accounts, Control, Ledger, Step, Steps
  <2>2. Remaining(undo, 1) = HeldBefore(demo, p)
    BY <1>1, <2>1 DEF ScriptsAreWellFormed, DemoIsWellFormed, StepWellFormed, UndoesAll
  <2>3. undo \in Seq(Resources) /\ p \in 1 .. Len(Script[demo]) + 1
    BY <1>1, <2>1, ScriptType, StepFields
  <2> HIDE DEF undo, p
  <2>4. Remaining(undo, undone) \subseteq Remaining(undo, 1)
    <3>1. undone .. Len(undo) \subseteq 1 .. Len(undo)
      BY <2>1, <2>3
    <3>2. QED
      BY <3>1 DEF Remaining
  <2>5. names \subseteq HeldBefore(demo, p) \intersect Names
    BY <1>1, <2>1, <2>2, <2>4
  <2>6. QED
    BY <1>1, <2>3, <2>5 DEF NamesAreApart, OneName
<1>4. CASE mode["parent"] = "returned"
  BY <1>1, <1>4 DEF Accounts, Ledger, OneName
<1>5. QED
  BY <1>2, <1>3, <1>4 DEF Accounts, Control

(* A killed parent makes no names, and its child never does.               *)
LEMMA KilledMakesNoNames ==
  ASSUME Accounts, ScriptsAreWellFormed, [Next]_vars, mode'["parent"] = "killed"
  PROVE  names' \subseteq names
<1> USE DEF Procs
<1>1. TypeOK /\ mode["parent"] \in {"running", "unwinding", "returned", "killed"}
  BY DEF Accounts, Control
<1>2. ASSUME Ready("child"), Step("child").op \in {"acquire", "grant"}
      PROVE  Step("child").res \notin Names
  BY <1>1, <1>2, ScriptType
  DEF TypeOK, Ready, Step, Steps, ScriptsAreWellFormed, DemoIsWellFormed, ChildIsWellFormed
<1>3. CASE Faults
  BY <1>3 DEF Faults
<1>4. CASE ParentStep /\ ~Faults
  <2>1. mode["parent"] # "killed"
    BY <1>4 DEF ParentStep, ParentOnly, Common, CallFails, Undo, GiveUp, Return, Grow, GrowStops,
                Shrink, ShrinkEnds, ForkWorks, ForkFails, Wait, Skip, Acquire, Require, Release,
                Touch, Check, ReadLine, PassPause, At, Ready
  <2>2. mode'["parent"] # "killed"
    BY <1>1, <1>4, <2>1 DEF TypeOK, ParentStep, ParentOnly, Common, CallFails, Undo, GiveUp, Return, Grow,
                GrowStops, Shrink, ShrinkEnds, ForkWorks, ForkFails, Wait, Skip, Acquire, Require,
                Release, Touch, Check, ReadLine, PassPause, Advance, Continue, program
  <2>3. QED
    BY <2>2
<1>5. CASE ChildStep
  <2>1. CASE Acquire("child")
    BY <1>2, <2>1 DEF Acquire, At
  <2>2. CASE ~Acquire("child")
    BY <1>5, <2>2 DEF ChildStep, ChildExits, ChildFails, ChildEnds, Common, Skip, Require, Release,
                      Drop, Touch, Check, ReadLine, PassPause, store
  <2>3. QED
    BY <2>1, <2>2
<1>6. CASE Kernel \/ User
  BY <1>6 DEF Kernel, Discard, ChildKilled, ChildEnds, User, TypeLine, store
<1>7. CASE UNCHANGED vars
  BY <1>7 DEF vars, store
<1>8. QED
  BY <1>3, <1>4, <1>5, <1>6, <1>7 DEF Next

(* An interrupt leaves only the names.                                     *)
LEMMA Interrupted ==
  ASSUME RestartInv, Interrupt
  PROVE  RestartInv'
<1> USE DEF Procs
<1>1. /\ mode'["parent"] = "killed" /\ mode'["child"] = "none" /\ chunks' = 0
      /\ \A p \in Procs : held'[p] = {}
      /\ UNCHANGED <<queue, demo, pc, undone, names, short, seen, forked, tty, inbuf, eof, left, runs>>
      /\ status' = IF mode["child"] = "running" THEN "killed" ELSE status
  BY DEF Interrupt, input, system
<1>2. TypeOK'
  <2>1. TypeOK /\ 0 \in 0 .. ChunkMax
    BY DemoAssumption DEF RestartInv, Accounts
  <2>2. /\ held' \in [Procs -> SUBSET (Resources \ Names)]
        /\ mode' \in [Procs -> {"none", "running", "unwinding", "zombie", "returned", "killed"}]
    BY DEF Interrupt
  <2>3. QED
    BY <1>1, <2>1, <2>2 DEF TypeOK
<1>3. Accounts'
  BY <1>1, <1>2 DEF Accounts, Control, Ledger, BlocksLedger
<1>4. FamilyAccounts'
  BY <1>1 DEF RestartInv, FamilyAccounts, ChildIsKnown, ChildLedger, NeedsAreMet,
              NamesOutliveTheirUsers, StatusLedger, MemoryLedger
<1>5. OneName' /\ OneEach'
  BY <1>1 DEF RestartInv, OneName, OneEach
<1>6. QED
  BY <1>3, <1>4, <1>5 DEF RestartInv

(* A run begins as main() does.                                            *)
LEMMA RunBegins ==
  ASSUME Restart
  PROVE  Init'
BY DEF Restart, Init

(* At the beginning of a run nothing is held that is not accounted for.    *)
LEMMA AccountsAtRestart ==
  ASSUME ScriptsAreWellFormed
  PROVE  Init' => Accounts' /\ FamilyAccounts'
<1>1. Init => Accounts /\ FamilyAccounts
  BY AccountsInit, FamilyInit
<1>2. QED
  BY <1>1, PTL

(* What the last run left is told from what the others left.               *)
LEMMA Restarted ==
  ASSUME RestartInv, ScriptsAreWellFormed, Restart
  PROVE  RestartInv'
<1>1. Accounts' /\ FamilyAccounts'
  BY RunBegins, AccountsAtRestart
<1>2. names' = {} /\ runs' = runs + 1 /\ left' = left \union [kind : names, run : {runs}]
  BY DEF Restart
<1>3. OneName'
  BY <1>2 DEF OneName
<1>4. OneEach'
  <2>1. /\ runs \in Nat /\ \A o \in left : o.run \in Nat /\ o.run < runs
        /\ \A o, q \in left : o.run = q.run => o = q
        /\ \A r, s \in names : r = s
    BY DEF RestartInv, OneEach, OneName
  <2>2. \A o \in [kind : names, run : {runs}] : o.run = runs
    OBVIOUS
  <2>3. \A o, q \in [kind : names, run : {runs}] : o = q
    <3>1. SUFFICES ASSUME NEW o \in [kind : names, run : {runs}],
                          NEW q \in [kind : names, run : {runs}]
                   PROVE  o = q
      OBVIOUS
    <3>2. /\ o = [kind |-> o.kind, run |-> o.run] /\ q = [kind |-> q.kind, run |-> q.run]
          /\ o.kind \in names /\ q.kind \in names /\ o.run = runs /\ q.run = runs
      BY <3>1
    <3>3. o.kind = q.kind
      BY <2>1, <3>2
    <3>4. QED
      BY <3>2, <3>3
  <2>4. runs \in Nat /\ runs + 1 \in Nat /\ runs < runs + 1
    BY <2>1
  <2>5. \A o \in left' : o.run \in Nat /\ o.run < runs'
    BY <1>2, <2>1, <2>2, <2>4
  <2>6. \A o \in left, q \in [kind : names, run : {runs}] : o.run # q.run
    BY <2>1, <2>2
  <2>7. \A o, q \in left' : o.run = q.run => o = q
    BY <1>2, <2>1, <2>3, <2>6
  <2>8. QED
    BY <1>2, <2>4, <2>5, <2>7 DEF OneEach
<1>5. QED
  BY <1>1, <1>3, <1>4 DEF RestartInv

(* The same of the state after a step.                                     *)
LEMMA OneNameNext ==
  ASSUME ScriptsAreWellFormed, NamesAreApart
  PROVE  (Accounts /\ mode["parent"] # "killed" => OneName)'
<1>1. Accounts /\ mode["parent"] # "killed" => OneName
  BY OneNameUnlessKilled
<1>2. QED
  BY <1>1, PTL

(* A step of the program takes objects over and leaves none.               *)
LEMMA RunGoesOn ==
  ASSUME RestartInv, ScriptsAreWellFormed, NamesAreApart, [Next]_vars,
         Objects \/ UNCHANGED system
  PROVE  RestartInv'
<1>1. Accounts'
  BY AccountsNext DEF RestartInv
<1>2. FamilyAccounts'
  BY <1>1, FamilyNext DEF RestartInv
<1>3. OneName'
  <2>1. CASE mode'["parent"] = "killed"
    <3>1. names' \subseteq names
      BY <2>1, KilledMakesNoNames DEF RestartInv
    <3>2. QED
      BY <3>1 DEF RestartInv, OneName
  <2>2. CASE mode'["parent"] # "killed"
    BY <1>1, <2>2, OneNameNext
  <2>3. QED
    BY <2>1, <2>2
<1>4. OneEach'
  <2>1. left' \subseteq left /\ runs' = runs
    BY DEF Objects, system
  <2>2. QED
    BY <2>1 DEF RestartInv, OneEach
<1>5. QED
  BY <1>1, <1>2, <1>3, <1>4 DEF RestartInv

(* The accounts hold through every interrupt and every later run, also of  *)
(* a run that opens what another left; so what the theorems above conclude *)
(* from them is true of each run.                                          *)
THEOREM RestartsAreAccountedFor ==
  ASSUME ScriptsAreWellFormed, NamesAreApart
  PROVE  RestartSpec => []RestartInv
<1>1. RestartInit => RestartInv
  <2>1. SUFFICES ASSUME RestartInit PROVE RestartInv
    OBVIOUS
  <2>2. Accounts /\ FamilyAccounts /\ names = {} /\ left = {} /\ runs = 1
    BY <2>1, AccountsInit, FamilyInit DEF RestartInit, Init
  <2>3. QED
    BY <2>2 DEF RestartInv, OneName, OneEach
<1>2. RestartInv /\ [RestartNext]_allVars => RestartInv'
  <2>1. SUFFICES ASSUME RestartInv, [RestartNext]_allVars PROVE RestartInv'
    OBVIOUS
  <2>2. CASE ParentRuns \/ ChildRuns \/ UserTypes \/ (Kernel /\ Objects)
    BY <2>1, <2>2, RunGoesOn DEF ParentRuns, ChildRuns, UserTypes, Next
  <2>3. CASE Interrupt
    BY <2>1, <2>3, Interrupted
  <2>4. CASE Restart
    BY <2>1, <2>4, Restarted
  <2>5. CASE UNCHANGED allVars
    BY <2>1, <2>5, RunGoesOn DEF allVars
  <2>6. QED
    BY <2>1, <2>2, <2>3, <2>4, <2>5 DEF RestartNext
<1>3. QED
  BY <1>1, <1>2, PTL DEF RestartSpec

(* However often the program is interrupted and started again, each run    *)
(* leaves at most one file, object or segment, and a run that returns      *)
(* leaves none.                                                            *)
THEOREM OneOrphanPerRun ==
  ASSUME ScriptsAreWellFormed, NamesAreApart
  PROVE  RestartSpec => []OneOrphanPerInterrupt
<1>1. RestartInv => OneOrphanPerInterrupt
  BY DEF RestartInv, OneName, OneEach, OneOrphanPerInterrupt, Accounts, Ledger, Has
<1>2. QED
  BY <1>1, RestartsAreAccountedFor, PTL
=============================================================================
