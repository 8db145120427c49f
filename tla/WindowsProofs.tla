----------------------------- MODULE WindowsProofs -----------------------------
(***************************************************************************)
(* Theorems about any number of instances of the Windows demo programs:    *)
(* what each has is accounted for on every path, a name denotes one        *)
(* object, and no file of an unnamed section is left with its content.     *)
(***************************************************************************)
EXTENDS WindowsDemos, TLAPS

-----------------------------------------------------------------------------
(***************************************************************************)
(* The inductive invariant                                                 *)
(***************************************************************************)
TypeOK ==
  /\ queue \in [Instances -> Seq(Demos)] /\ demo \in [Instances -> Demos]
  /\ pc \in [Instances -> Nat \ {0}]
  /\ mode \in [Instances -> {"running", "unwinding", "aborted", "returned"}]
  /\ undone \in [Instances -> Nat \ {0}]
  /\ held \in [Instances -> SUBSET Resources]
  /\ origin \in [Instances -> Instances]
  /\ named \in [SectionNames -> Instances \union {"nobody"}]
  /\ content \in [Files -> {"none", "empty", "short", "full"}]

\* Where an instance is, and that main() still has its last prompt to come.
Control(i) ==
  /\ mode[i] = "running" => pc[i] \in 1 .. Len(Script[demo[i]]) + 1 /\ undone[i] = 1
  /\ mode[i] = "unwinding" => /\ pc[i] \in DOMAIN Script[demo[i]]
                              /\ Step(i).op = "acquire"
                              /\ undone[i] \in 1 .. Len(Step(i).undo) + 1

EndsInPrompt(i) ==
  IF queue[i] = << >> THEN demo[i] = "main_prompt"
  ELSE queue[i][Len(queue[i])] = "main_prompt"

\* What an instance has, on the normal path and on every error path.
Ledger(i) ==
  /\ mode[i] = "running" => held[i] = HeldBefore(demo[i], pc[i])
  /\ mode[i] = "unwinding" =>
       held[i] = Remaining(Step(i).undo, undone[i]) \union Forgotten(Step(i))
  /\ mode[i] \in {"aborted", "returned"} => held[i] = {}

\* The handle of a named section is one of the object the name denotes, and
\* the section of demoFileMappedPrivate is the instance's own.
SectionLedger(i) ==
  /\ \A s \in held[i] \intersect SectionNames : named[s] = origin[i]
  /\ demo[i] = "mapped_private" /\ held[i] \intersect Sections # {} => origin[i] = i

\* The file of demoFileMappedPrivate has a content only during the demo, and
\* none when the stream has still to open.
FileLedger(i) ==
  /\ content[<<i, "mapped_private">>] \in {"short", "full"} =>
       demo[i] = "mapped_private" /\ "temp_file" \in held[i]
  /\ demo[i] = "mapped_private" /\ mode[i] \in {"running", "unwinding"}
     /\ pc[i] \in DOMAIN Script[demo[i]] /\ Takes(Step(i), "stream")
       => content[<<i, "mapped_private">>] = "empty"

Accounts(i) ==
  Control(i) /\ EndsInPrompt(i) /\ Ledger(i) /\ SectionLedger(i) /\ FileLedger(i)

(* What every instance has is exactly what its position in its demo, or in *)
(* an error path of the demo, says it has; names and files agree with it.  *)
Inv == TypeOK /\ \A i \in Instances : Accounts(i)


-----------------------------------------------------------------------------
(***************************************************************************)
(* Scripts                                                                 *)
(***************************************************************************)
(* Before its first step a demo has nothing.                               *)
LEMMA HeldAtStart ==
  ASSUME NEW d
  PROVE  HeldBefore(d, 1) = {}
<1>1. 1 .. 1 - 1 = {}
  OBVIOUS
<1>2. QED
  BY <1>1 DEF HeldBefore

(* A demo has after a step what the step takes, and what it had and the    *)
(* step does not drop.                                                     *)
LEMMA HeldAfterStep ==
  ASSUME NEW d, NEW p \in Nat, p >= 1, NEW r \in Resources
  PROVE  r \in HeldBefore(d, p + 1) <=>
           \/ Takes(Script[d][p], r)
           \/ r \in HeldBefore(d, p) /\ ~Drops(Script[d][p], r)
<1> DEFINE Taken(n, j) ==
             Takes(Script[d][j], r) /\ \A k \in j + 1 .. n - 1 : ~Drops(Script[d][k], r)
<1>1. \A n : r \in HeldBefore(d, n) <=> \E j \in 1 .. n - 1 : Taken(n, j)
  BY DEF HeldBefore
<1>2. 1 .. (p + 1) - 1 = (1 .. p - 1) \union {p}
  OBVIOUS
<1>3. Taken(p + 1, p) <=> Takes(Script[d][p], r)
  <2>1. p + 1 .. (p + 1) - 1 = {}
    OBVIOUS
  <2>2. QED
    BY <2>1
<1>4. \A j \in 1 .. p - 1 : Taken(p + 1, j) <=> Taken(p, j) /\ ~Drops(Script[d][p], r)
  <2>1. \A j \in 1 .. p - 1 : j + 1 .. (p + 1) - 1 = (j + 1 .. p - 1) \union {p}
    OBVIOUS
  <2>2. QED
    BY <2>1
<1> HIDE DEF Taken
<1>5. QED
  BY <1>1, <1>2, <1>3, <1>4

(* The same, for a step that takes or uses, and for one that drops.        *)
LEMMA HeldNext ==
  ASSUME NEW d, NEW p \in Nat, p >= 1
  PROVE  LET s == Script[d][p] IN
         /\ s.op \in {"acquire", "new"} /\ s.res \in Resources =>
              HeldBefore(d, p + 1) = HeldBefore(d, p) \union {s.res}
         /\ s.op = "release" => HeldBefore(d, p + 1) = HeldBefore(d, p) \ {s.res}
         /\ s.op \in {"touch", "pause"} => HeldBefore(d, p + 1) = HeldBefore(d, p)
<1> DEFINE s == Script[d][p]
           Before == HeldBefore(d, p)
           After == HeldBefore(d, p + 1)
<1>1. Before \subseteq Resources /\ After \subseteq Resources
  BY DEF HeldBefore
<1>2. \A r \in Resources : r \in After <=> Takes(s, r) \/ (r \in Before /\ ~Drops(s, r))
  BY HeldAfterStep
<1> HIDE DEF Before, After, s
<1>3. /\ s.op \in {"acquire", "new"} /\ s.res \in Resources => After = Before \union {s.res}
      /\ s.op = "release" => After = Before \ {s.res}
      /\ s.op \in {"touch", "pause"} => After = Before
  BY <1>1, <1>2 DEF Takes, Drops
<1>4. QED
  BY <1>3 DEF Before, After, s

(* The next release of an error path leaves what is still to be released.  *)
LEMMA RemainingNext ==
  ASSUME NEW S, NEW undo \in Seq(S), NEW n \in DOMAIN undo,
         \A j, k \in DOMAIN undo : undo[j] = undo[k] => j = k
  PROVE  /\ Remaining(undo, n + 1) = Remaining(undo, n) \ {undo[n]}
         /\ undo[n] \in Remaining(undo, n)
<1>1. n \in 1 .. Len(undo) /\ Len(undo) \in Nat
  OBVIOUS
<1>2. n .. Len(undo) = {n} \union (n + 1 .. Len(undo)) /\ n \notin n + 1 .. Len(undo)
  BY <1>1
<1>3. n + 1 .. Len(undo) \subseteq DOMAIN undo
  BY <1>1
<1>4. QED
  BY <1>2, <1>3 DEF Remaining

(* At its end nothing remains, and at no time more than at its beginning.  *)
LEMMA RemainingBounds ==
  ASSUME NEW S, NEW undo \in Seq(S)
  PROVE  /\ Remaining(undo, Len(undo) + 1) = {}
         /\ \A n \in Nat \ {0} : Remaining(undo, n) \subseteq Remaining(undo, 1)
<1>1. Len(undo) + 1 .. Len(undo) = {}
  OBVIOUS
<1>2. \A n \in Nat \ {0} : n .. Len(undo) \subseteq 1 .. Len(undo)
  OBVIOUS
<1>3. QED
  BY <1>1, <1>2 DEF Remaining

(* What the assumption on the demos says of one step.                      *)
LEMMA StepFacts ==
  ASSUME NEW d \in Demos, NEW p \in DOMAIN Script[d]
  PROVE  /\ StepWellFormed(d, p) /\ p \in Nat /\ p >= 1
         /\ p + 1 \in 1 .. Len(Script[d]) + 1
<1>1. Len(Script[d]) \in Nat /\ DOMAIN Script[d] = 1 .. Len(Script[d])
  BY DemosAssumption DEF DemoIsWellFormed
<1>2. StepWellFormed(d, p)
  BY DemosAssumption DEF DemoIsWellFormed
<1>3. QED
  BY <1>1, <1>2

(* What a demo has it took in one of its steps.                            *)
LEMMA HeldWasTaken ==
  ASSUME NEW d \in Demos, NEW p \in 1 .. Len(Script[d]) + 1, NEW r \in HeldBefore(d, p)
  PROVE  \E j \in DOMAIN Script[d] : Takes(Script[d][j], r)
<1>1. Len(Script[d]) \in Nat /\ DOMAIN Script[d] = 1 .. Len(Script[d])
  BY DemosAssumption DEF DemoIsWellFormed
<1>2. 1 .. p - 1 \subseteq 1 .. Len(Script[d])
  BY <1>1
<1>3. QED
  BY <1>1, <1>2 DEF HeldBefore

(* Which sections a demo can have.                                         *)
LEMMA SectionKind ==
  ASSUME NEW d \in Demos,
         NEW p \in 1 .. Len(Script[d]) + 1, NEW q \in 1 .. Len(Script[d]) + 1,
         NEW s \in HeldBefore(d, p) \intersect Sections,
         NEW t \in HeldBefore(d, q) \intersect Sections
  PROVE  s = t /\ (s = "unnamed" <=> d = "mapped_private")
<1>1. PICK j \in DOMAIN Script[d] : Takes(Script[d][j], s)
  BY HeldWasTaken
<1>2. PICK k \in DOMAIN Script[d] : Takes(Script[d][k], t)
  BY HeldWasTaken
<1>3. Script[d][j].res = s /\ Script[d][k].res = t
  BY <1>1, <1>2 DEF Takes
<1>4. SectionIsTheDemos(d)
  BY DemosAssumption DEF DemoIsWellFormed
<1>5. QED
  BY <1>1, <1>2, <1>3, <1>4 DEF SectionIsTheDemos


-----------------------------------------------------------------------------
(***************************************************************************)
(* The kinds of steps                                                      *)
(***************************************************************************)
\* A call yields its resource.
Gets(i) ==
  /\ At(i, "acquire") \/ At(i, "new")
  /\ Step(i).res \in Resources
  /\ Take(i, Step(i).res)
  /\ Advance(i)

(* Every call that works is such a step.                                   *)
LEMMA Getting ==
  ASSUME NEW i \in Instances,
         \/ Allocate(i) \/ GetTempFileName(i) \/ FillTempFile(i)
         \/ CreateSection(i) \/ OpenSection(i) \/ MapView(i)
  PROVE  Gets(i)
<1>1. CASE Allocate(i)
  BY <1>1 DEF Allocate, Gets, Resources
<1>2. CASE GetTempFileName(i)
  BY <1>2 DEF GetTempFileName, Gets, Resources
<1>3. CASE FillTempFile(i)
  BY <1>3 DEF FillTempFile, Gets, Resources
<1>4. CASE CreateSection(i)
  BY <1>4 DEF CreateSection, Gets, Resources
<1>5. CASE OpenSection(i)
  BY <1>5 DEF OpenSection, Gets, Resources, Sections
<1>6. CASE MapView(i)
  BY <1>6 DEF MapView, Gets, Resources
<1>7. QED
  BY <1>1, <1>2, <1>3, <1>4, <1>5, <1>6

(* The step of an instance leaves the others where they are, with what     *)
(* they have and with the contents of their files.                         *)
LEMMA OthersStay ==
  ASSUME TypeOK, NEW i \in Instances, InstanceStep(i), NEW j \in Instances, j # i
  PROVE  /\ queue'[j] = queue[j] /\ demo'[j] = demo[j] /\ pc'[j] = pc[j]
         /\ mode'[j] = mode[j] /\ undone'[j] = undone[j]
         /\ held'[j] = held[j] /\ origin'[j] = origin[j]
         /\ content'[<<j, "mapped_private">>] = content[<<j, "mapped_private">>]
<1> DEFINE f == <<j, "mapped_private">>
           Control_ == /\ queue'[j] = queue[j] /\ demo'[j] = demo[j] /\ pc'[j] = pc[j]
                       /\ mode'[j] = mode[j] /\ undone'[j] = undone[j]
<1>1. f \in Files /\ \A d : f # <<i, d>>
  BY DEF Files
<1>2. f # OwnFile(i)
  BY <1>1 DEF OwnFile
<1> HIDE DEF f
<1>3. ASSUME Advance(i) PROVE Control_
  BY <1>3 DEF Advance, TypeOK
<1>4. ASSUME NEW r, Take(i, r) PROVE held'[j] = held[j]
  BY <1>4 DEF Take, TypeOK
<1>5. ASSUME NEW r, Drop(i, r) PROVE held'[j] = held[j] /\ origin' = origin /\ content'[f] = content[f]
  <2>1. held'[j] = held[j] /\ origin' = origin
    BY <1>5 DEF Drop, TypeOK
  <2>2. content'[f] = content[f]
    BY <1>5, <1>1, <1>2 DEF Drop, CloseSection, DeleteFile, Forget, TypeOK
  <2>3. QED
    BY <2>1, <2>2
<1>6. CASE Allocate(i) \/ MapView(i)
  BY <1>6, <1>3, <1>4 DEF Allocate, MapView, f
<1>7. CASE GetTempFileName(i) \/ FillTempFile(i)
  <2>1. content'[f] = content[f]
    BY <1>7, <1>1, <1>2 DEF GetTempFileName, FillTempFile, TypeOK
  <2>2. QED
    BY <1>7, <1>3, <1>4, <2>1 DEF GetTempFileName, FillTempFile, f
<1>8. CASE CreateSection(i) \/ OpenSection(i)
  <2>1. origin'[j] = origin[j] /\ content' = content
    BY <1>8 DEF CreateSection, OpenSection, TypeOK
  <2>2. QED
    BY <1>8, <1>3, <1>4, <2>1 DEF CreateSection, OpenSection, f
<1>9. CASE CallFails(i) \/ Throws(i) \/ MainReturns(i)
  BY <1>9 DEF CallFails, Throws, MainReturns, TypeOK
<1>10. CASE Use(i)
  BY <1>10, <1>3 DEF Use
<1>11. CASE Release(i)
  BY <1>11, <1>3, <1>5 DEF Release, f
<1>12. CASE Undo(i)
  <2>1. Control_
    BY <1>12 DEF Undo, TypeOK
  <2>2. QED
    BY <1>12, <1>5, <2>1 DEF Undo, f
<1>13. CASE NextDemo(i)
  BY <1>13 DEF NextDemo, TypeOK
<1>14. QED
  BY <1>6, <1>7, <1>8, <1>9, <1>10, <1>11, <1>12, <1>13 DEF InstanceStep

-----------------------------------------------------------------------------
(***************************************************************************)
(* Types                                                                   *)
(***************************************************************************)
LEMMA TypeInit ==
  ASSUME Init
  PROVE  TypeOK
<1>1. PICK main \in [Instances -> {AllocationMain, MetricsMain}] :
        /\ demo = [i \in Instances |-> Head(main[i])]
        /\ queue = [i \in Instances |-> Tail(main[i])]
  BY DEF Init
<1>2. \A i \in Instances : main[i] \in Seq(Demos) /\ Len(main[i]) > 1
  BY DemosAssumption DEF MainIsWellFormed
<1>3. \A i \in Instances : Head(main[i]) \in Demos /\ Tail(main[i]) \in Seq(Demos)
  BY <1>2
<1>4. queue \in [Instances -> Seq(Demos)] /\ demo \in [Instances -> Demos]
  BY <1>1, <1>3
<1>5. QED
  BY <1>4 DEF Init, TypeOK

LEMMA TypeNext ==
  ASSUME TypeOK, NEW i \in Instances, InstanceStep(i)
  PROVE  TypeOK'
<1> DEFINE ControlType == /\ queue' \in [Instances -> Seq(Demos)]
                          /\ demo' \in [Instances -> Demos]
                          /\ pc' \in [Instances -> Nat \ {0}]
                          /\ mode' \in [Instances -> {"running", "unwinding", "aborted", "returned"}]
                          /\ undone' \in [Instances -> Nat \ {0}]
           HeldType == held' \in [Instances -> SUBSET Resources]
           OriginType == origin' \in [Instances -> Instances]
           NamedType == named' \in [SectionNames -> Instances \union {"nobody"}]
           ContentType == content' \in [Files -> {"none", "empty", "short", "full"}]
<1>1. ASSUME Advance(i) PROVE ControlType
  BY <1>1 DEF Advance, TypeOK
<1>2. ASSUME Gets(i) PROVE HeldType
  BY <1>2 DEF Gets, Take, TypeOK
<1>3. ASSUME NEW r, Drop(i, r) PROVE HeldType /\ OriginType /\ NamedType /\ ContentType
  <2>1. HeldType /\ OriginType
    BY <1>3 DEF Drop, TypeOK
  <2>2. NamedType
    BY <1>3 DEF Drop, CloseSection, DeleteFile, Forget, TypeOK
  <2>3. ContentType
    <3>1. CASE CloseSection(i, r) \/ Forget(r)
      BY <3>1 DEF CloseSection, Forget, TypeOK
    <3>2. CASE DeleteFile(i, r)
      <4>1. PICK c \in {"none", content[OwnFile(i)]} :
              content' = [content EXCEPT ![OwnFile(i)] = c]
        BY <3>2 DEF DeleteFile
      <4>2. OwnFile(i) \in Files => c \in {"none", "empty", "short", "full"}
        BY <4>1 DEF TypeOK
      <4>3. QED
        BY <4>1, <4>2 DEF TypeOK
    <3>3. QED
      BY <3>1, <3>2, <1>3 DEF Drop
  <2>4. QED
    BY <2>1, <2>2, <2>3
<1>4. CASE Allocate(i) \/ MapView(i)
  BY <1>4, <1>1, <1>2, Getting DEF Allocate, MapView, TypeOK
<1>5. CASE GetTempFileName(i) \/ FillTempFile(i)
  <2>1. ContentType
    BY <1>5 DEF GetTempFileName, FillTempFile, TypeOK
  <2>2. QED
    BY <1>5, <1>1, <1>2, <2>1, Getting DEF GetTempFileName, FillTempFile, TypeOK
<1>6. CASE CreateSection(i)
  <2>1. OriginType /\ NamedType /\ ContentType
    BY <1>6 DEF CreateSection, TypeOK
  <2>2. QED
    BY <1>6, <1>1, <1>2, <2>1, Getting DEF CreateSection, TypeOK
<1>7. CASE OpenSection(i)
  <2>1. OriginType /\ NamedType /\ ContentType
    BY <1>7 DEF OpenSection, TypeOK
  <2>2. QED
    BY <1>7, <1>1, <1>2, <2>1, Getting DEF OpenSection, TypeOK
<1>8. CASE CallFails(i) \/ Throws(i) \/ MainReturns(i)
  BY <1>8 DEF CallFails, Throws, MainReturns, TypeOK
<1>9. CASE Use(i)
  BY <1>9, <1>1 DEF Use, TypeOK
<1>10. CASE Release(i)
  BY <1>10, <1>1, <1>3 DEF Release, TypeOK
<1>11. CASE Undo(i)
  <2>1. ControlType
    BY <1>11 DEF Undo, TypeOK
  <2>2. QED
    BY <1>11, <1>3, <2>1 DEF Undo, TypeOK
<1>12. CASE NextDemo(i)
  <2>1. Head(queue[i]) \in Demos /\ Tail(queue[i]) \in Seq(Demos)
    BY <1>12 DEF NextDemo, TypeOK
  <2>2. QED
    BY <1>12, <2>1 DEF NextDemo, TypeOK
<1>13. QED
  BY <1>4, <1>5, <1>6, <1>7, <1>8, <1>9, <1>10, <1>11, <1>12 DEF InstanceStep


-----------------------------------------------------------------------------
(***************************************************************************)
(* Where an instance is, and what it has                                   *)
(***************************************************************************)
(* Between two demos an instance has at most the name of a file whose      *)
(* stream did not open.                                                    *)
LEMMA HeldWhenOver ==
  ASSUME TypeOK, NEW i \in Instances, Control(i), Ledger(i), Over(i)
  PROVE  /\ held[i] \subseteq {"temp_file"}
         /\ "temp_file" \in held[i] =>
              /\ mode[i] = "unwinding" /\ pc[i] \in DOMAIN Script[demo[i]]
              /\ Takes(Step(i), "stream")
<1>1. CASE mode[i] = "running" /\ pc[i] = Len(Script[demo[i]]) + 1
  <2>1. demo[i] \in Demos
    BY DEF TypeOK
  <2>2. HeldBefore(demo[i], Len(Script[demo[i]]) + 1) = {}
    BY <2>1, DemosAssumption DEF DemoIsWellFormed
  <2>3. QED
    BY <1>1, <2>2 DEF Ledger
<1>2. CASE Unwinding(i) /\ undone[i] = Len(Step(i).undo) + 1
  <2>1. pc[i] \in DOMAIN Script[demo[i]] /\ Step(i).op = "acquire" /\ demo[i] \in Demos
    BY <1>2 DEF Unwinding, Control, TypeOK
  <2>2. Step(i).undo \in Seq(Resources)
    BY <2>1, StepFacts DEF StepWellFormed, UndoesAll, Step
  <2>3. Remaining(Step(i).undo, undone[i]) = {}
    BY <1>2, <2>2, RemainingBounds
  <2>4. held[i] = Forgotten(Step(i))
    BY <1>2, <2>3 DEF Ledger, Unwinding
  <2>5. QED
    BY <1>2, <2>1, <2>4 DEF Forgotten, Takes, Unwinding
<1>3. QED
  BY <1>1, <1>2 DEF Over

(* The last prompt neither takes anything nor fails.                       *)
LEMMA PromptHasNothing ==
  ASSUME TypeOK, NEW i \in Instances, Control(i), Ledger(i), Over(i), demo[i] = "main_prompt"
  PROVE  held[i] = {}
<1>1. mode[i] # "unwinding"
  BY DemosAssumption DEF Control, Step
<1>2. QED
  BY <1>1, HeldWhenOver

LEMMA ControlNext ==
  ASSUME TypeOK, NEW i \in Instances, Control(i), InstanceStep(i)
  PROVE  Control(i)'
<1>1. demo[i] \in Demos
  BY DEF TypeOK
<1>2. \A op : At(i, op) => pc[i] + 1 \in 1 .. Len(Script[demo[i]]) + 1 /\ undone[i] = 1
  BY <1>1, StepFacts DEF At, Control
<1>3. ASSUME Advance(i), NEW op, At(i, op) PROVE Control(i)'
  <2>1. /\ mode'[i] = "running" /\ demo'[i] = demo[i] /\ undone'[i] = undone[i]
        /\ pc'[i] = pc[i] + 1
    BY <1>3 DEF Advance, At, TypeOK
  <2>2. QED
    BY <1>2, <1>3, <2>1 DEF Control
<1>4. CASE Gets(i)
  BY <1>3, <1>4 DEF Gets
<1>5. CASE CallFails(i)
  <2>1. /\ mode'[i] = "unwinding" /\ demo' = demo /\ pc' = pc /\ undone' = undone
    BY <1>5 DEF CallFails, TypeOK
  <2>2. undone[i] = 1 /\ pc[i] \in DOMAIN Script[demo[i]] /\ Step(i).op = "acquire"
    BY <1>5, <1>2 DEF CallFails, At
  <2>3. Step(i).undo \in Seq(Resources)
    BY <1>1, <2>2, StepFacts DEF StepWellFormed, UndoesAll, Step
  <2>4. 1 \in 1 .. Len(Step(i).undo) + 1
    BY <2>3
  <2>5. QED
    BY <2>1, <2>2, <2>4 DEF Control, Step
<1>6. CASE Throws(i) \/ MainReturns(i)
  <2>1. mode'[i] \in {"aborted", "returned"}
    BY <1>6 DEF Throws, MainReturns, TypeOK
  <2>2. QED
    BY <2>1 DEF Control
<1>7. CASE Use(i)
  BY <1>3, <1>7 DEF Use
<1>8. CASE Release(i)
  BY <1>3, <1>8 DEF Release
<1>9. CASE Undo(i)
  <2>1. /\ mode'[i] = "unwinding" /\ demo' = demo /\ pc' = pc /\ undone'[i] = undone[i] + 1
    BY <1>9 DEF Undo, Unwinding, TypeOK
  <2>2. pc[i] \in DOMAIN Script[demo[i]] /\ Step(i).op = "acquire"
    BY <1>9 DEF Undo, Unwinding, Control
  <2>3. Step(i).undo \in Seq(Resources)
    BY <1>1, <2>2, StepFacts DEF StepWellFormed, UndoesAll, Step
  <2>4. undone[i] + 1 \in 1 .. Len(Step(i).undo) + 1
    BY <1>9, <2>3 DEF Undo
  <2>5. QED
    BY <2>1, <2>2, <2>4 DEF Control, Step
<1>10. CASE NextDemo(i)
  <2>1. mode'[i] = "running" /\ pc'[i] = 1 /\ undone'[i] = 1
    BY <1>10 DEF NextDemo, TypeOK
  <2>2. TypeOK'
    BY TypeNext
  <2>3. Len(Script[demo'[i]]) \in Nat
    BY <2>2, DemosAssumption DEF TypeOK, DemoIsWellFormed
  <2>4. QED
    BY <2>1, <2>3 DEF Control
<1>11. QED
  BY <1>4, <1>5, <1>6, <1>7, <1>8, <1>9, <1>10, Getting DEF InstanceStep

(* main() takes its demos from the front of its list.                      *)
LEMMA EndsInPromptNext ==
  ASSUME TypeOK, NEW i \in Instances, EndsInPrompt(i), InstanceStep(i)
  PROVE  EndsInPrompt(i)'
<1>1. CASE NextDemo(i)
  <2>1. demo'[i] = Head(queue[i]) /\ queue'[i] = Tail(queue[i]) /\ queue[i] # << >>
    BY <1>1 DEF NextDemo, TypeOK
  <2>2. queue[i] \in Seq(Demos)
    BY DEF TypeOK
  <2> DEFINE q == queue[i]
  <2>3. q[Len(q)] = "main_prompt"
    BY <2>1 DEF EndsInPrompt
  <2>4. /\ Len(q) \in Nat /\ Len(q) > 0 /\ Head(q) = q[1]
        /\ Len(Tail(q)) = Len(q) - 1
        /\ \A k \in 1 .. Len(q) - 1 : Tail(q)[k] = q[k + 1]
    BY <2>1, <2>2
  <2> HIDE DEF q
  <2>5. CASE Tail(q) = << >>
    <3>1. Len(q) = 1
      <4>1. Len(<< >>) = 0
        OBVIOUS
      <4>2. Len(Tail(q)) = 0
        BY <2>5, <4>1, Zenon
      <4>3. QED
        BY <2>4, <4>2
    <3>2. QED
      BY <2>1, <2>3, <2>4, <2>5, <3>1 DEF EndsInPrompt, q
  <2>6. CASE Tail(q) # << >>
    <3>1. Len(q) > 1
      BY <2>1, <2>2, <2>4, <2>6 DEF q
    <3>2. Tail(q)[Len(Tail(q))] = q[Len(q)]
      BY <2>4, <3>1
    <3>3. QED
      BY <2>1, <2>3, <2>6, <3>2 DEF EndsInPrompt, q
  <2>7. QED
    BY <2>5, <2>6
<1>2. CASE ~NextDemo(i)
  <2>1. UNCHANGED <<queue, demo>>
    BY <1>2 DEF InstanceStep, Allocate, GetTempFileName, FillTempFile, CreateSection, OpenSection,
                MapView, CallFails, Throws, Use, Release, Undo, MainReturns, Advance
  <2>2. QED
    BY <2>1 DEF EndsInPrompt
<1>3. QED
  BY <1>1, <1>2

LEMMA LedgerNext ==
  ASSUME TypeOK, NEW i \in Instances, Control(i), EndsInPrompt(i), Ledger(i), InstanceStep(i)
  PROVE  Ledger(i)'
<1>1. demo[i] \in Demos
  BY DEF TypeOK
<1> DEFINE d == demo[i]
           p == pc[i]
<1>2. \A op : At(i, op) => /\ p \in DOMAIN Script[d] /\ p \in Nat /\ p >= 1
                           /\ StepWellFormed(d, p) /\ held[i] = HeldBefore(d, p)
                           /\ Step(i) = Script[d][p] /\ Step(i).op = op
  BY <1>1, StepFacts DEF At, Ledger, Step
<1>3. ASSUME Advance(i), NEW op, At(i, op), held'[i] = HeldBefore(d, p + 1)
      PROVE  Ledger(i)'
  <2>1. mode'[i] = "running" /\ demo'[i] = d /\ pc'[i] = p + 1
    BY <1>3 DEF Advance, At, TypeOK
  <2>2. QED
    BY <1>3, <2>1 DEF Ledger
<1>4. CASE Gets(i)
  <2>1. held'[i] = held[i] \union {Step(i).res}
    BY <1>4 DEF Gets, Take, TypeOK
  <2>2. held'[i] = HeldBefore(d, p + 1)
    BY <1>2, <1>4, <2>1, HeldNext DEF Gets
  <2>3. QED
    BY <1>3, <1>4, <2>2 DEF Gets
<1>5. CASE CallFails(i)
  <2>1. /\ mode'[i] = "unwinding" /\ demo' = demo /\ pc' = pc /\ undone' = undone /\ held' = held
    BY <1>5 DEF CallFails, TypeOK
  <2>2. undone[i] = 1
    BY <1>5 DEF CallFails, At, Control
  <2>3. held[i] = Remaining(Step(i).undo, 1) \union Forgotten(Step(i))
    BY <1>2, <1>5 DEF CallFails, StepWellFormed, UndoesAll
  <2>4. QED
    BY <2>1, <2>2, <2>3 DEF Ledger, Step
<1>6. CASE Throws(i)
  <2>1. mode'[i] = "aborted" /\ held'[i] = {}
    BY <1>6 DEF Throws, TypeOK
  <2>2. QED
    BY <2>1 DEF Ledger
<1>7. CASE MainReturns(i)
  <2>1. mode'[i] = "returned" /\ held' = held /\ demo[i] = "main_prompt" /\ Over(i)
    BY <1>7 DEF MainReturns, TypeOK, EndsInPrompt
  <2>2. QED
    BY <2>1, PromptHasNothing DEF Ledger
<1>8. CASE Use(i)
  <2>1. held'[i] = HeldBefore(d, p + 1)
    BY <1>2, <1>8, HeldNext DEF Use
  <2>2. QED
    BY <1>3, <1>8, <2>1 DEF Use
<1>9. CASE Release(i)
  <2>1. held'[i] = held[i] \ {Step(i).res}
    BY <1>9 DEF Release, Drop, TypeOK
  <2>2. held'[i] = HeldBefore(d, p + 1)
    BY <1>2, <1>9, <2>1, HeldNext DEF Release
  <2>3. QED
    BY <1>3, <1>9, <2>2 DEF Release
<1>10. CASE Undo(i)
  <2> DEFINE undo == Step(i).undo
             n == undone[i]
  <2>1. /\ mode'[i] = "unwinding" /\ demo' = demo /\ pc' = pc /\ undone'[i] = n + 1
        /\ held'[i] = held[i] \ {undo[n]} /\ n \in DOMAIN undo
    BY <1>10 DEF Undo, Unwinding, Drop, TypeOK
  <2>2. pc[i] \in DOMAIN Script[demo[i]] /\ Step(i).op = "acquire"
    BY <1>10 DEF Undo, Unwinding, Control
  <2>3. UndoesAll(Step(i), HeldBefore(d, p))
    BY <1>1, <2>2, StepFacts DEF StepWellFormed, Step
  <2>4. held[i] = Remaining(undo, n) \union Forgotten(Step(i))
    BY <1>10 DEF Undo, Unwinding, Ledger
  <2> HIDE DEF undo, n
  <2>5. /\ undo \in Seq(Resources)
        /\ Remaining(undo, 1) \intersect Forgotten(Step(i)) = {}
        /\ \A j, k \in DOMAIN undo : undo[j] = undo[k] => j = k
    BY <2>3 DEF UndoesAll, undo
  <2>6. /\ Remaining(undo, n + 1) = Remaining(undo, n) \ {undo[n]}
        /\ undo[n] \in Remaining(undo, n)
    BY <2>1, <2>5, RemainingNext
  <2>7. undo[n] \notin Forgotten(Step(i))
    <3>1. n \in Nat \ {0}
      BY DEF n, TypeOK
    <3>2. QED
      BY <2>5, <2>6, <3>1, RemainingBounds
  <2>8. held'[i] = Remaining(undo, n + 1) \union Forgotten(Step(i))
    BY <2>1, <2>4, <2>6, <2>7
  <2>9. QED
    BY <2>1, <2>8 DEF Ledger, Step, undo
<1>11. CASE NextDemo(i)
  <2>1. mode'[i] = "running" /\ pc'[i] = 1 /\ held'[i] = held[i] \ {"temp_file"}
    BY <1>11 DEF NextDemo, TypeOK
  <2>2. held'[i] = {}
    BY <1>11, <2>1, HeldWhenOver DEF NextDemo
  <2>3. QED
    BY <2>1, <2>2, HeldAtStart DEF Ledger
<1>12. QED
  BY <1>4, <1>5, <1>6, <1>7, <1>8, <1>9, <1>10, <1>11, Getting DEF InstanceStep


-----------------------------------------------------------------------------
(***************************************************************************)
(* Names                                                                   *)
(***************************************************************************)
(* What an instance has belongs to its demo.                               *)
LEMMA HeldIsTheDemos ==
  ASSUME TypeOK, NEW i \in Instances, Control(i), Ledger(i), held[i] # {}
  PROVE  /\ demo[i] \in Demos
         /\ \E p \in 1 .. Len(Script[demo[i]]) + 1 :
              held[i] \subseteq HeldBefore(demo[i], p)
<1>1. demo[i] \in Demos
  BY DEF TypeOK
<1>2. CASE mode[i] = "running"
  BY <1>1, <1>2 DEF Control, Ledger
<1>3. CASE mode[i] = "unwinding"
  <2>1. pc[i] \in DOMAIN Script[demo[i]] /\ Step(i).op = "acquire"
    BY <1>3 DEF Control
  <2>2. UndoesAll(Step(i), HeldBefore(demo[i], pc[i])) /\ pc[i] \in 1 .. Len(Script[demo[i]]) + 1
    <3>1. Len(Script[demo[i]]) \in Nat /\ DOMAIN Script[demo[i]] = 1 .. Len(Script[demo[i]])
      BY <1>1, DemosAssumption DEF DemoIsWellFormed
    <3>2. QED
      BY <1>1, <2>1, <3>1, StepFacts DEF StepWellFormed, Step
  <2>3. undone[i] \in Nat \ {0}
    BY DEF TypeOK
  <2>4. Remaining(Step(i).undo, undone[i]) \subseteq Remaining(Step(i).undo, 1)
    BY <2>2, <2>3, RemainingBounds DEF UndoesAll
  <2>5. QED
    BY <1>1, <1>3, <2>2, <2>4 DEF Ledger, UndoesAll
<1>4. QED
  BY <1>1, <1>2, <1>3 DEF TypeOK, Ledger

(* Two instances in one demo that have sections have the same one; it has  *)
(* no name exactly in demoFileMappedPrivate.                               *)
LEMMA SameDemoSameSection ==
  ASSUME TypeOK, NEW i \in Instances, NEW j \in Instances,
         Control(i), Ledger(i), Control(j), Ledger(j), demo[i] = demo[j],
         NEW s \in held[i] \intersect Sections, NEW t \in held[j] \intersect Sections
  PROVE  s = t /\ (s = "unnamed" <=> demo[i] = "mapped_private")
<1>1. PICK p \in 1 .. Len(Script[demo[i]]) + 1 : held[i] \subseteq HeldBefore(demo[i], p)
  BY HeldIsTheDemos
<1>2. PICK q \in 1 .. Len(Script[demo[i]]) + 1 : held[j] \subseteq HeldBefore(demo[i], q)
  BY HeldIsTheDemos
<1>3. demo[i] \in Demos
  BY DEF TypeOK
<1>4. s \in HeldBefore(demo[i], p) \intersect Sections /\ t \in HeldBefore(demo[i], q) \intersect Sections
  BY <1>1, <1>2
<1>5. QED
  BY <1>1, <1>2, <1>3, <1>4, SectionKind

(* Nobody has a view without the handle of its section.                    *)
LEMMA ViewHasSection ==
  ASSUME TypeOK, NEW i \in Instances, Control(i), Ledger(i), "view" \in held[i]
  PROVE  held[i] \intersect Sections # {}
<1>1. demo[i] \in Demos
  BY DEF TypeOK
<1>2. CASE mode[i] = "running"
  <2>1. held[i] = HeldBefore(demo[i], pc[i])
    BY <1>2 DEF Ledger
  <2>2. Len(Script[demo[i]]) \in Nat /\ DOMAIN Script[demo[i]] = 1 .. Len(Script[demo[i]])
        /\ HeldBefore(demo[i], Len(Script[demo[i]]) + 1) = {}
    BY <1>1, DemosAssumption DEF DemoIsWellFormed
  <2>3. pc[i] \in 1 .. Len(Script[demo[i]]) + 1 /\ pc[i] # Len(Script[demo[i]]) + 1
    BY <1>2, <2>1, <2>2 DEF Control
  <2>4. pc[i] \in DOMAIN Script[demo[i]]
    BY <2>2, <2>3
  <2>5. QED
    BY <1>1, <2>1, <2>4, StepFacts DEF StepWellFormed
<1>3. CASE mode[i] = "unwinding"
  <2>1. pc[i] \in DOMAIN Script[demo[i]] /\ Step(i).op = "acquire"
    BY <1>3 DEF Control
  <2>2. UndoesAll(Step(i), HeldBefore(demo[i], pc[i])) /\ "view" \notin HeldBefore(demo[i], pc[i])
    BY <1>1, <2>1, StepFacts DEF StepWellFormed, Step
  <2>3. undone[i] \in Nat \ {0}
    BY DEF TypeOK
  <2>4. Remaining(Step(i).undo, undone[i]) \subseteq Remaining(Step(i).undo, 1)
    BY <2>2, <2>3, RemainingBounds DEF UndoesAll
  <2>5. "view" \notin held[i]
    BY <1>3, <2>2, <2>4 DEF Ledger, UndoesAll
  <2>6. QED
    BY <2>5
<1>4. QED
  BY <1>2, <1>3 DEF TypeOK, Ledger

(* A section is made or opened when the instance has none.                 *)
LEMMA NewSection ==
  ASSUME TypeOK, NEW i \in Instances, Control(i), Ledger(i), At(i, "acquire"),
         Step(i).res \in Sections
  PROVE  /\ held[i] \intersect Sections = {}
         /\ Step(i).res = "unnamed" <=> demo[i] = "mapped_private"
<1>1. demo[i] \in Demos /\ pc[i] \in DOMAIN Script[demo[i]]
  BY DEF TypeOK, At
<1>2. Takes(Script[demo[i]][pc[i]], Step(i).res)
  BY DEF At, Takes, Step
<1>3. held[i] = HeldBefore(demo[i], pc[i])
  BY DEF At, Ledger
<1>4. SectionIsTheDemos(demo[i])
  BY <1>1, DemosAssumption DEF DemoIsWellFormed
<1>5. QED
  BY <1>1, <1>2, <1>3, <1>4 DEF SectionIsTheDemos, Step


(* A name changes its object only when nobody has a handle of the old one. *)
LEMMA SectionLedgerNext ==
  ASSUME Inv, NEW i \in Instances, InstanceStep(i), NEW j \in Instances
  PROVE  SectionLedger(j)'
<1> USE DEF Inv, Accounts
<1>1. j # i => held'[j] = held[j] /\ origin'[j] = origin[j] /\ demo'[j] = demo[j]
  BY OthersStay
<1>2. SectionLedger(j) /\ SectionLedger(i)
  OBVIOUS
<1>3. ASSUME demo'[i] = demo[i], held'[i] \intersect Sections \subseteq held[i] \intersect Sections,
             UNCHANGED <<origin, named>>
      PROVE  SectionLedger(j)'
  BY <1>1, <1>2, <1>3 DEF SectionLedger, Sections
<1>4. ASSUME Advance(i) PROVE demo' = demo
  BY <1>4 DEF Advance
<1>5. CASE Allocate(i) \/ GetTempFileName(i) \/ FillTempFile(i) \/ MapView(i)
  <2>1. Step(i).res \notin Sections /\ UNCHANGED <<origin, named>> /\ Gets(i)
    BY <1>5, Getting
       DEF Allocate, GetTempFileName, FillTempFile, MapView, Sections, SectionNames
  <2>2. held'[i] = held[i] \union {Step(i).res} /\ demo' = demo
    BY <2>1, <1>4 DEF Gets, Take, TypeOK
  <2>3. QED
    BY <1>3, <2>1, <2>2
<1>6. CASE CreateSection(i)
  <2> DEFINE s == Step(i).res
  <2>1. /\ At(i, "acquire") /\ s \in Sections
        /\ s \in SectionNames => named[s] = "nobody"
        /\ held'[i] = held[i] \union {s} /\ origin'[i] = i /\ demo' = demo
        /\ \A n \in SectionNames : named'[n] = IF n = s THEN i ELSE named[n]
    BY <1>6, <1>4 DEF CreateSection, Take, TypeOK
  <2>2. held[i] \intersect Sections = {}
    BY <2>1, NewSection
  <2> HIDE DEF s
  <2>3. CASE j = i
    BY <2>1, <2>2, <2>3 DEF SectionLedger, Sections
  <2>4. CASE j # i
    <3>1. \A t \in held[j] \intersect SectionNames : named[t] = origin[j] /\ origin[j] # "nobody"
      BY <1>2, InstancesAssumption DEF SectionLedger, TypeOK
    <3>2. \A t \in held[j] \intersect SectionNames : named'[t] = origin[j]
      BY <2>1, <3>1
    <3>3. QED
      BY <1>1, <1>2, <2>4, <3>2 DEF SectionLedger
  <2>5. QED
    BY <2>3, <2>4
<1>7. CASE OpenSection(i)
  <2> DEFINE s == Step(i).res
  <2>1. /\ At(i, "acquire") /\ s \in SectionNames
        /\ held'[i] = held[i] \union {s} /\ origin'[i] = named[s] /\ demo' = demo /\ named' = named
    BY <1>7, <1>4 DEF OpenSection, Take, TypeOK
  <2>2. s \in Sections /\ s # "unnamed"
    BY <2>1 DEF Sections, SectionNames
  <2>3. held[i] \intersect Sections = {} /\ demo[i] # "mapped_private"
    BY <2>1, <2>2, NewSection
  <2> HIDE DEF s
  <2>4. CASE j = i
    BY <2>1, <2>3, <2>4 DEF SectionLedger, Sections
  <2>5. CASE j # i
    BY <1>1, <1>2, <2>1, <2>5 DEF SectionLedger
  <2>6. QED
    BY <2>4, <2>5
<1>8. CASE CallFails(i) \/ Throws(i) \/ MainReturns(i)
  <2>1. held'[i] \subseteq held[i] /\ demo' = demo /\ UNCHANGED <<origin, named>>
    BY <1>8 DEF CallFails, Throws, MainReturns, TypeOK
  <2>2. QED
    BY <1>3, <2>1
<1>9. CASE Use(i)
  BY <1>3, <1>4, <1>9 DEF Use
<1>10. ASSUME NEW r, Drop(i, r), demo' = demo PROVE SectionLedger(j)'
  <2>1. held'[i] = held[i] \ {r} /\ origin' = origin
    BY <1>10 DEF Drop, TypeOK
  <2>2. CASE DeleteFile(i, r) \/ Forget(r)
    <3>1. named' = named
      BY <2>2 DEF DeleteFile, Forget
    <3>2. QED
      BY <1>3, <1>10, <2>1, <3>1
  <2>3. CASE CloseSection(i, r)
    <3>1. \A t \in held'[j] \intersect SectionNames : named'[t] = named[t]
      <4> SUFFICES ASSUME NEW t \in held'[j] \intersect SectionNames PROVE named'[t] = named[t]
        OBVIOUS
      <4>1. CASE j = i
        <5>1. t # r
          BY <2>1, <4>1
        <5>2. QED
          BY <2>3, <5>1 DEF CloseSection
      <4>2. CASE j # i
        <5>1. t \in held[j] /\ named[t] = origin[j]
          BY <1>1, <1>2, <4>2 DEF SectionLedger
        <5>2. QED
          BY <2>3, <4>2, <5>1 DEF CloseSection
      <4>3. QED
        BY <4>1, <4>2
    <3>2. held'[j] \subseteq held[j]
      BY <1>1, <2>1
    <3>3. QED
      BY <1>2, <1>10, <2>1, <3>1, <3>2 DEF SectionLedger
  <2>4. QED
    BY <1>10, <2>2, <2>3 DEF Drop
<1>11. CASE Release(i)
  BY <1>4, <1>10, <1>11 DEF Release
<1>12. CASE Undo(i)
  BY <1>10, <1>12 DEF Undo
<1>13. CASE NextDemo(i)
  <2>1. held'[i] = held[i] \ {"temp_file"} /\ UNCHANGED <<origin, named>> /\ Over(i)
    BY <1>13 DEF NextDemo, TypeOK
  <2>2. held'[i] = {}
    BY <2>1, HeldWhenOver
  <2>3. CASE j = i
    BY <2>2, <2>3 DEF SectionLedger
  <2>4. CASE j # i
    BY <1>1, <1>2, <2>1, <2>4 DEF SectionLedger
  <2>5. QED
    BY <2>3, <2>4
<1>14. QED
  BY <1>5, <1>6, <1>7, <1>8, <1>9, <1>11, <1>12, <1>13 DEF InstanceStep

-----------------------------------------------------------------------------
(***************************************************************************)
(* Files                                                                   *)
(***************************************************************************)
(* A file is deleted by its demo only, and that of demoFileMappedPrivate   *)
(* really goes: its demo has nothing else any more, and nobody else had it *)
(* mapped.                                                                 *)
LEMMA Dropping ==
  ASSUME Inv, NEW i \in Instances, NEW r, Drop(i, r)
  PROVE  LET f == <<i, "mapped_private">> IN
         /\ r # "temp_file" \/ demo[i] # "mapped_private" => content'[f] = content[f]
         /\ r = "temp_file" /\ demo[i] = "mapped_private" /\ held[i] = {"temp_file"} =>
              content'[f] = "none"
<1> USE DEF Inv, Accounts
<1> DEFINE f == <<i, "mapped_private">>
<1>1. f \in Files /\ (demo[i] = "mapped_private" <=> f = OwnFile(i))
  BY DEF Files, OwnFile
<1>2. r # "temp_file" => content' = content
  BY DEF Drop, CloseSection, DeleteFile, Forget
<1>3. r = "temp_file" =>
        /\ DeleteFile(i, r)
        /\ \E c : content' = [content EXCEPT ![OwnFile(i)] = c]
  BY DEF Drop, CloseSection, DeleteFile, Forget, Sections, SectionNames
<1>4. demo[i] # "mapped_private" => content'[f] = content[f]
  <2> HIDE DEF f
  <2>1. QED
    BY <1>1, <1>2, <1>3 DEF TypeOK
<1>5. ASSUME r = "temp_file", demo[i] = "mapped_private", held[i] = {"temp_file"}
      PROVE  content'[f] = "none"
  <2>1. ASSUME NEW j \in Instances, Maps(j, f) PROVE FALSE
    <3>1. origin[j] = i /\ demo[j] = "mapped_private"
          /\ held[j] \intersect (Sections \union {"view"}) # {}
      BY <2>1 DEF Maps, MappedFile
    <3>2. held[j] \intersect Sections # {}
      BY <3>1, ViewHasSection
    <3>3. origin[j] = j
      BY <3>1, <3>2 DEF SectionLedger
    <3>4. QED
      BY <1>5, <3>1, <3>2, <3>3 DEF Sections, SectionNames
  <2>2. f = OwnFile(i) /\ "hFile" \notin held[i]
    BY <1>1, <1>5
  <2> HIDE DEF f
  <2>3. content' = [content EXCEPT ![f] = "none"]
    BY <1>3, <1>5, <2>1, <2>2 DEF DeleteFile
  <2>4. QED
    BY <1>1, <2>3 DEF TypeOK
<1>6. QED
  BY <1>2, <1>4, <1>5

(* The stream is reached from the step that made its file.                 *)
LEMMA BeforeStream ==
  ASSUME TypeOK, NEW i \in Instances, pc[i] + 1 \in DOMAIN Script[demo[i]],
         Takes(Script[demo[i]][pc[i] + 1], "stream")
  PROVE  Takes(Step(i), "temp_file")
<1>1. demo[i] \in Demos /\ pc[i] \in Nat
  BY DEF TypeOK
<1>2. StreamFollowsItsFile(demo[i])
  BY <1>1, DemosAssumption DEF DemoIsWellFormed
<1>3. (pc[i] + 1) - 1 = pc[i]
  BY <1>1
<1>4. QED
  BY <1>2, <1>3 DEF StreamFollowsItsFile, Step


(* The file of an instance has a content only as FileLedger says.          *)
LEMMA FileLedgerNext ==
  ASSUME Inv, NEW i \in Instances, InstanceStep(i)
  PROVE  FileLedger(i)'
<1> USE DEF Inv, Accounts
<1> DEFINE f == <<i, "mapped_private">>
           mine == demo[i] = "mapped_private"
           filled == content[f] \in {"short", "full"}
<1>1. f \in Files /\ (mine <=> f = OwnFile(i)) /\ demo[i] \in Demos
  BY DEF Files, OwnFile, TypeOK
<1>2. /\ filled => mine /\ "temp_file" \in held[i]
      /\ mine /\ mode[i] \in {"running", "unwinding"} /\ pc[i] \in DOMAIN Script[demo[i]]
         /\ Takes(Step(i), "stream") => content[f] = "empty"
  BY DEF FileLedger
<1> HIDE DEF f
<1>3. \A op : At(i, op) => /\ Step(i).op = op /\ StepWellFormed(demo[i], pc[i])
                           /\ Step(i) = Script[demo[i]][pc[i]]
                           /\ held[i] = HeldBefore(demo[i], pc[i])
  BY <1>1, StepFacts DEF At, Ledger, Step
\* The next step opens the stream only if this one made the file.
<1>4. ASSUME Advance(i), NEW op, At(i, op), content'[f] \in {"short", "full"} => mine,
             content'[f] \in {"short", "full"} => "temp_file" \in held'[i],
             Takes(Step(i), "temp_file") /\ mine => content'[f] = "empty"
      PROVE  FileLedger(i)'
  <2>1. demo'[i] = demo[i] /\ pc'[i] = pc[i] + 1 /\ Step(i)' = Script[demo[i]][pc[i] + 1]
    BY <1>4 DEF Advance, Step, TypeOK
  <2>2. /\ pc'[i] \in DOMAIN Script[demo'[i]] /\ Takes(Step(i)', "stream")
           => Takes(Step(i), "temp_file")
    BY <2>1, BeforeStream
  <2>3. QED
    BY <1>4, <2>1, <2>2 DEF FileLedger, Takes, f
<1>5. CASE Allocate(i) \/ CreateSection(i) \/ OpenSection(i) \/ MapView(i)
  <2>1. Gets(i) /\ content' = content /\ Step(i).res # "temp_file"
    BY <1>5, Getting
       DEF Allocate, CreateSection, OpenSection, MapView, Sections, SectionNames
  <2>2. held[i] \subseteq held'[i]
    BY <2>1 DEF Gets, Take, TypeOK
  <2>3. QED
    BY <1>2, <1>4, <2>1, <2>2 DEF Gets, Takes
<1>6. CASE GetTempFileName(i)
  <2>1. /\ At(i, "acquire") /\ Advance(i) /\ held[i] \subseteq held'[i]
        /\ content' = [content EXCEPT ![OwnFile(i)] = "empty"]
    BY <1>6 DEF GetTempFileName, Take, TypeOK
  <2>2. content'[f] = IF mine THEN "empty" ELSE content[f]
    BY <1>1, <2>1 DEF TypeOK
  <2>3. QED
    BY <1>2, <1>4, <2>1, <2>2
<1>7. CASE FillTempFile(i)
  <2>1. /\ At(i, "acquire") /\ Step(i).res = "stream" /\ Advance(i) /\ held[i] \subseteq held'[i]
        /\ \E c : content' = [content EXCEPT ![OwnFile(i)] = c]
    BY <1>7 DEF FillTempFile, Take, TypeOK
  <2>2. ~mine => content'[f] = content[f]
    BY <1>1, <2>1 DEF TypeOK
  <2>3. "temp_file" \in held'[i]
    BY <1>3, <2>1 DEF StepWellFormed, UndoesAll, Forgotten
  <2>4. QED
    BY <1>2, <1>4, <2>1, <2>2, <2>3 DEF Takes
<1>8. CASE CallFails(i)
  BY <1>2, <1>8 DEF CallFails, At, FileLedger, Step, f
<1>9. CASE Throws(i)
  <2>1. mode'[i] = "aborted" /\ content' = content /\ demo' = demo /\ At(i, "new")
    BY <1>9 DEF Throws, TypeOK
  <2>2. held[i] = {}
    BY <1>3, <2>1 DEF StepWellFormed
  <2>3. QED
    BY <1>2, <2>1, <2>2 DEF FileLedger, f
<1>10. CASE MainReturns(i)
  <2>1. mode'[i] = "returned" /\ UNCHANGED <<content, demo, held>>
    BY <1>10 DEF MainReturns, TypeOK
  <2>2. QED
    BY <1>2, <2>1 DEF FileLedger, f
<1>11. CASE Use(i)
  <2>1. /\ Advance(i) /\ UNCHANGED <<held, content>>
        /\ \E op \in {"touch", "pause"} : At(i, op)
    BY <1>11 DEF Use
  <2>2. ~Takes(Step(i), "temp_file")
    BY <1>3, <2>1 DEF Takes
  <2>3. QED
    BY <1>2, <1>4, <2>1, <2>2
<1>12. CASE Release(i)
  <2> DEFINE r == Step(i).res
  <2>1. At(i, "release") /\ Drop(i, r) /\ Advance(i) /\ held'[i] = held[i] \ {r}
    BY <1>12 DEF Release, Drop, TypeOK
  <2>2. ~Takes(Step(i), "temp_file") /\ (r = "temp_file" => held[i] = {"temp_file"})
    BY <1>3, <2>1 DEF StepWellFormed, Takes, Drops
  <2> HIDE DEF r
  <2>3. /\ r # "temp_file" \/ ~mine => content'[f] = content[f]
        /\ r = "temp_file" /\ mine => content'[f] = "none"
    BY <2>1, <2>2, Dropping DEF f
  <2>4. QED
    BY <1>2, <1>4, <2>1, <2>2, <2>3
<1>13. CASE Undo(i)
  <2> DEFINE undo == Step(i).undo
             n == undone[i]
             r == undo[n]
  <2>1. /\ Unwinding(i) /\ n \in DOMAIN undo /\ Drop(i, r) /\ held'[i] = held[i] \ {r}
        /\ UNCHANGED <<demo, pc, mode>>
    BY <1>13 DEF Undo, Drop, TypeOK
  <2>2. /\ pc[i] \in DOMAIN Script[demo[i]] /\ Step(i).op = "acquire"
        /\ held[i] = Remaining(undo, n) \union Forgotten(Step(i))
    BY <2>1 DEF Unwinding, Control, Ledger
  <2>3. UndoesAll(Step(i), HeldBefore(demo[i], pc[i]))
    BY <1>1, <2>2, StepFacts DEF StepWellFormed, Step
  <2> HIDE DEF n
  <2>4. r \in Remaining(undo, 1)
    BY <2>1, <2>3 DEF Remaining, UndoesAll
  <2>5. ASSUME r = "temp_file" PROVE held[i] = {"temp_file"} /\ Step(i).res # "stream"
    <3>1. n = Len(undo)
      BY <2>1, <2>3, <2>5 DEF UndoesAll
    <3>2. n .. Len(undo) = {n}
      BY <2>1, <2>3, <3>1 DEF UndoesAll
    <3>3. Remaining(undo, n) = {"temp_file"}
      BY <2>5, <3>2 DEF Remaining
    <3>4. "temp_file" \notin Forgotten(Step(i))
      BY <2>3, <2>4, <2>5 DEF UndoesAll
    <3>5. QED
      BY <2>2, <3>3, <3>4 DEF Forgotten
  <2> HIDE DEF r, undo
  <2>6. /\ r # "temp_file" \/ ~mine => content'[f] = content[f]
        /\ r = "temp_file" /\ mine => content'[f] = "none"
    BY <2>1, <2>5, Dropping DEF f
  <2>7. Step(i)' = Step(i)
    BY <2>1 DEF Step
  <2>8. QED
    BY <1>2, <2>1, <2>5, <2>6, <2>7 DEF FileLedger, Takes, f
<1>14. CASE NextDemo(i)
  <2>1. /\ Over(i) /\ content' = content /\ pc'[i] = 1 /\ held'[i] = held[i] \ {"temp_file"}
    BY <1>14 DEF NextDemo, TypeOK
  <2>2. ~filled
    BY <1>2, <2>1, HeldWhenOver
  <2>3. demo'[i] \in Demos
    BY TypeNext DEF TypeOK
  <2>4. ~(1 \in DOMAIN Script[demo'[i]] /\ Takes(Script[demo'[i]][1], "stream"))
    <3>1. StreamFollowsItsFile(demo'[i])
      BY <2>3, DemosAssumption DEF DemoIsWellFormed
    <3>2. QED
      BY <3>1 DEF StreamFollowsItsFile
  <2>5. QED
    BY <2>1, <2>2, <2>4 DEF FileLedger, Step, f
<1>15. QED
  BY <1>5, <1>6, <1>7, <1>8, <1>9, <1>10, <1>11, <1>12, <1>13, <1>14 DEF InstanceStep


-----------------------------------------------------------------------------
(***************************************************************************)
(* The theorems                                                            *)
(***************************************************************************)
LEMMA InvInit ==
  ASSUME Init
  PROVE  Inv
<1>1. TypeOK
  BY TypeInit
<1>2. PICK main \in [Instances -> {AllocationMain, MetricsMain}] :
        /\ demo = [i \in Instances |-> Head(main[i])]
        /\ queue = [i \in Instances |-> Tail(main[i])]
  BY DEF Init
<1> SUFFICES ASSUME NEW i \in Instances PROVE Accounts(i)
  BY <1>1 DEF Inv
<1>3. demo[i] \in Demos /\ pc[i] = 1 /\ mode[i] = "running" /\ undone[i] = 1 /\ held[i] = {}
  BY <1>1 DEF Init, TypeOK
<1>4. Control(i)
  <2>1. Len(Script[demo[i]]) \in Nat
    BY <1>3, DemosAssumption DEF DemoIsWellFormed
  <2>2. QED
    BY <1>3, <2>1 DEF Control
<1>5. EndsInPrompt(i)
  <2> DEFINE q == main[i]
  <2>1. queue[i] = Tail(q)
    BY <1>2
  <2>2. q \in Seq(Demos) /\ Len(q) > 1 /\ q[Len(q)] = "main_prompt"
    BY DemosAssumption DEF MainIsWellFormed
  <2> HIDE DEF q
  <2>3. /\ Len(Tail(q)) = Len(q) - 1 /\ Len(q) \in Nat
        /\ \A k \in 1 .. Len(q) - 1 : Tail(q)[k] = q[k + 1]
    BY <2>2
  <2>4. Tail(q) # << >>
    BY <2>2, <2>3
  <2>5. Tail(q)[Len(Tail(q))] = "main_prompt"
    BY <2>2, <2>3
  <2>6. QED
    BY <2>1, <2>4, <2>5 DEF EndsInPrompt
<1>6. Ledger(i)
  BY <1>3, HeldAtStart DEF Ledger
<1>7. SectionLedger(i)
  BY <1>3 DEF SectionLedger
<1>8. FileLedger(i)
  <2>1. content[<<i, "mapped_private">>] = "none"
    BY DEF Init, Files
  <2>2. StreamFollowsItsFile(demo[i])
    BY <1>3, DemosAssumption DEF DemoIsWellFormed
  <2>3. ~(1 \in DOMAIN Script[demo[i]] /\ Takes(Script[demo[i]][1], "stream"))
    BY <2>2 DEF StreamFollowsItsFile
  <2>4. QED
    BY <1>3, <2>1, <2>3 DEF FileLedger, Step
<1>9. QED
  BY <1>4, <1>5, <1>6, <1>7, <1>8 DEF Accounts

LEMMA InvNext ==
  ASSUME Inv, [Next]_vars
  PROVE  Inv'
<1>1. CASE UNCHANGED vars
  BY <1>1 DEF Inv, TypeOK, Accounts, Control, EndsInPrompt, Ledger, SectionLedger, FileLedger,
              Step, vars, control
<1>2. CASE Next
  <2>1. PICK i \in Instances : InstanceStep(i)
    BY <1>2 DEF Next
  <2>2. TypeOK'
    BY <2>1, TypeNext DEF Inv
  <2> SUFFICES ASSUME NEW j \in Instances PROVE Accounts(j)'
    BY <2>2 DEF Inv
  <2>3. Accounts(i) /\ Accounts(j) /\ TypeOK
    BY DEF Inv
  <2>4. SectionLedger(j)'
    BY <2>1, SectionLedgerNext
  <2>5. CASE j = i
    BY <2>1, <2>3, <2>4, <2>5, ControlNext, EndsInPromptNext, LedgerNext, FileLedgerNext
       DEF Accounts
  <2>6. CASE j # i
    <3>1. /\ queue'[j] = queue[j] /\ demo'[j] = demo[j] /\ pc'[j] = pc[j]
          /\ mode'[j] = mode[j] /\ undone'[j] = undone[j] /\ held'[j] = held[j]
          /\ content'[<<j, "mapped_private">>] = content[<<j, "mapped_private">>]
      BY <2>1, <2>3, <2>6, OthersStay
    <3>2. Step(j)' = Step(j)
      BY <3>1 DEF Step
    <3>3. Control(j)' /\ EndsInPrompt(j)' /\ Ledger(j)'
      BY <2>3, <3>1, <3>2 DEF Accounts, Control, EndsInPrompt, Ledger
    <3>4. FileLedger(j)'
      BY <2>3, <3>1, <3>2 DEF Accounts, FileLedger
    <3>5. QED
      BY <2>4, <3>3, <3>4 DEF Accounts
  <2>7. QED
    BY <2>5, <2>6
<1>3. QED
  BY <1>1, <1>2

(* For any number of instances, whichever calls fail and however their     *)
(* steps interleave: what each has is what its position says, a name and   *)
(* its handles agree, and a file has a content only during its demo.       *)
THEOREM InstancesAreAccountedFor == Spec => []Inv
<1>1. Init => Inv
  BY InvInit
<1>2. Inv /\ [Next]_vars => Inv'
  BY InvNext
<1>3. QED
  BY <1>1, <1>2, PTL DEF Spec

(* No instance writes to or releases what it does not have, on any of the  *)
(* error paths, and none has anything left when its main() returns.        *)
THEOREM ErrorPathsMatch == Spec => []UsesOnlyWhatItHolds
<1>1. Inv => UsesOnlyWhatItHolds
  <2> SUFFICES ASSUME Inv, NEW i \in Instances
               PROVE  /\ \A op \in {"touch", "release"} : At(i, op) => Step(i).res \in held[i]
                      /\ Unwinding(i) /\ undone[i] \in DOMAIN Step(i).undo
                           => Step(i).undo[undone[i]] \in held[i]
                      /\ mode[i] = "returned" => held[i] = {}
    BY DEF UsesOnlyWhatItHolds
  <2>1. demo[i] \in Demos /\ Control(i) /\ Ledger(i)
    BY DEF Inv, TypeOK, Accounts
  <2>2. ASSUME NEW op \in {"touch", "release"}, At(i, op) PROVE Step(i).res \in held[i]
    BY <2>1, <2>2, StepFacts DEF At, Ledger, Step, StepWellFormed
  <2>3. ASSUME Unwinding(i), undone[i] \in DOMAIN Step(i).undo
        PROVE  Step(i).undo[undone[i]] \in held[i]
    <3>1. pc[i] \in DOMAIN Script[demo[i]] /\ Step(i).op = "acquire"
          /\ held[i] = Remaining(Step(i).undo, undone[i]) \union Forgotten(Step(i))
      BY <2>1, <2>3 DEF Unwinding, Control, Ledger
    <3>2. UndoesAll(Step(i), HeldBefore(demo[i], pc[i]))
      BY <2>1, <3>1, StepFacts DEF StepWellFormed, Step
    <3>3. Step(i).undo[undone[i]] \in Remaining(Step(i).undo, undone[i])
      BY <2>3, <3>2, RemainingNext DEF UndoesAll
    <3>4. QED
      BY <3>1, <3>3
  <2>4. QED
    BY <2>1, <2>2, <2>3 DEF Ledger
<1>2. QED
  BY <1>1, InstancesAreAccountedFor, PTL

(* Instances that have the same named section have the same object,        *)
(* although nobody asks whether the name existed: no second object comes   *)
(* to be while a view of the first is left.                                *)
THEOREM NamesAreShared == Spec => []SameNameSameObject
<1>1. Inv => SameNameSameObject
  <2> SUFFICES ASSUME Inv, NEW i \in Instances, NEW j \in Instances,
                      demo[i] = demo[j], demo[i] # "mapped_private",
                      held[i] \intersect (SectionNames \union {"view"}) # {},
                      held[j] \intersect (SectionNames \union {"view"}) # {}
               PROVE  origin[i] = origin[j]
    BY DEF SameNameSameObject
  <2>1. TypeOK /\ \A k \in {i, j} : Control(k) /\ Ledger(k) /\ SectionLedger(k)
    BY DEF Inv, Accounts
  <2>2. \A k \in {i, j} : held[k] \intersect Sections # {}
    BY <2>1, ViewHasSection DEF Sections
  <2>3. PICK s \in held[i] \intersect Sections : TRUE
    BY <2>2
  <2>4. PICK t \in held[j] \intersect Sections : TRUE
    BY <2>2
  <2>5. s = t /\ s # "unnamed"
    BY <2>1, SameDemoSameSection
  <2>6. QED
    BY <2>1, <2>5 DEF SectionLedger, Sections
<1>2. QED
  BY <1>1, InstancesAreAccountedFor, PTL

(* The temporary file of an unnamed section never outlives its demo with   *)
(* its content: DeleteFileA is called when neither the instance nor anyone *)
(* else has it open or mapped.                                             *)
THEOREM PrivateFilesGo == Spec => []OnlySharedOrEmptyFilesAreLeft
<1>1. Inv => OnlySharedOrEmptyFilesAreLeft
  <2> SUFFICES ASSUME Inv, NEW i \in Instances, NEW d \in {"mapped_private", "mapped_shared"},
                      content[<<i, d>>] # "none", "temp_file" \notin held[i],
                      d # "mapped_shared"
               PROVE  content[<<i, d>>] = "empty"
    BY DEF OnlySharedOrEmptyFilesAreLeft
  <2>1. content[<<i, d>>] \in {"none", "empty", "short", "full"}
    BY DEF Inv, TypeOK, Files
  <2>2. FileLedger(i)
    BY DEF Inv, Accounts
  <2>3. QED
    BY <2>1, <2>2 DEF FileLedger
<1>2. QED
  BY <1>1, InstancesAreAccountedFor, PTL
=============================================================================
