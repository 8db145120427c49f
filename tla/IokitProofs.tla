------------------------------ MODULE IokitProofs ------------------------------
(***************************************************************************)
(* What the Metal demo leaves in /tmp, for any number of instances: every  *)
(* file has an instance that comes to remove it.                           *)
(***************************************************************************)
EXTENDS IokitDemo, TLAPS

\* The files an instance makes or removes.
Files == {Source(i) : i \in Instances}
           \union {Air, Library, <<"run_metal.m">>, <<"run_metal">>}

Where == {"write", "compile", "library", "run", "remove", "returned"}

\* An instance has files left to remove only while it removes them.
Bookkeeping ==
  /\ pc \in [Instances -> Where]
  /\ clean \in [Instances -> Seq(Files)]
  /\ \A i \in Instances : pc[i] # "remove" => clean[i] = << >>

(* The property is not inductive: an instance that turns to removing       *)
(* forgets what its list was, which must therefore have been empty.        *)
Inv == Bookkeeping /\ EveryFileHasARemover

(* Nothing has been made when the demos start.                             *)
LEMMA InvInit ==
  ASSUME Init
  PROVE  Inv
BY DEF Init, Inv, Bookkeeping, Where, EveryFileHasARemover

(* Every step of an instance keeps the bookkeeping.                        *)
LEMMA BookkeepingNext ==
  ASSUME Bookkeeping, NEW i \in Instances, InstanceStep(i)
  PROVE  Bookkeeping'
<1>1. ASSUME NEW where \in Where \ {"remove"}, pc[i] # "remove", Goto(i, where), clean' = clean
      PROVE  Bookkeeping'
  BY <1>1 DEF Goto, Bookkeeping
<1>2. ASSUME NEW list \in Seq(Files), Remove(i, list)
      PROVE  Bookkeeping'
  BY <1>2 DEF Remove, Goto, Bookkeeping, Where
<1>3. CASE WriteSource(i) \/ Compile(i) \/ MakeLibrary(i)
  BY <1>1, <1>3 DEF WriteSource, Compile, MakeLibrary, Where
<1>4. CASE CompileFails(i)
  <2>1. <<Source(i)>> \in Seq(Files)
    BY DEF Files
  <2>2. QED
    BY <1>2, <1>4, <2>1 DEF CompileFails
<1>5. CASE MakeLibraryFails(i)
  <2>1. <<Source(i), Air>> \in Seq(Files)
    BY DEF Files
  <2>2. QED
    BY <1>2, <1>5, <2>1 DEF MakeLibraryFails
<1>6. CASE RunMetal(i)
  <2>1. <<Source(i), Air, Library, <<"run_metal.m">>, <<"run_metal">>>> \in Seq(Files)
    BY DEF Files
  <2>2. QED
    BY <1>2, <1>6, <2>1 DEF RunMetal
<1>7. CASE RemoveFile(i)
  <2>1. clean[i] \in Seq(Files) /\ clean[i] # << >> /\ Tail(clean[i]) \in Seq(Files)
    BY <1>7 DEF RemoveFile, Bookkeeping
  <2>2. QED
    BY <1>7, <2>1 DEF RemoveFile, Bookkeeping
<1>8. CASE Finish(i)
  BY <1>8 DEF Finish, Goto, Bookkeeping, Where
<1>9. QED
  BY <1>3, <1>4, <1>5, <1>6, <1>7, <1>8 DEF InstanceStep

(* A step of instance i leaves the intentions of the others alone.         *)
LEMMA OthersRemove ==
  ASSUME Bookkeeping, NEW i \in Instances, InstanceStep(i),
         NEW j \in Instances, j # i, NEW f, WillRemove(j, f)
  PROVE  WillRemove(j, f)'
<1>1. pc'[j] = pc[j] /\ clean'[j] = clean[j]
  BY DEF InstanceStep, WriteSource, Compile, CompileFails, MakeLibrary, MakeLibraryFails,
         RunMetal, RemoveFile, Finish, Remove, Goto, Bookkeeping
<1>2. QED
  BY <1>1 DEF WillRemove

(* What instance i came to remove before its step, it comes to remove      *)
(* after it, or it has just removed it.                                    *)
LEMMA StillRemoves ==
  ASSUME Bookkeeping, NEW i \in Instances, InstanceStep(i), NEW f, WillRemove(i, f)
  PROVE  WillRemove(i, f)' \/ f \notin files'
<1>1. pc[i] \in Where /\ clean[i] \in Seq(Files) /\ (pc[i] # "remove" => clean[i] = << >>)
  BY DEF Bookkeeping
<1>2. ASSUME NEW where, Goto(i, where)
      PROVE  pc'[i] = where
  BY <1>2 DEF Goto, Bookkeeping
<1>3. ASSUME NEW list, Remove(i, list)
      PROVE  clean'[i] = list
  BY <1>3 DEF Remove, Bookkeeping
<1>4. CASE WriteSource(i)
  BY <1>1, <1>4 DEF WriteSource, WillRemove
<1>5. CASE Compile(i)
  BY <1>1, <1>2, <1>5 DEF Compile, WillRemove
<1>6. CASE CompileFails(i)
  BY <1>1, <1>3, <1>6 DEF CompileFails, WillRemove
<1>7. CASE MakeLibrary(i)
  BY <1>1, <1>2, <1>7 DEF MakeLibrary, WillRemove
<1>8. CASE MakeLibraryFails(i)
  BY <1>1, <1>3, <1>8 DEF MakeLibraryFails, WillRemove
<1>9. CASE RunMetal(i)
  BY <1>1, <1>3, <1>9 DEF RunMetal, WillRemove
<1>10. CASE RemoveFile(i)
  <2> DEFINE list == clean[i]
  <2>1. /\ pc[i] = "remove" /\ list # << >> /\ clean'[i] = Tail(list)
        /\ files' = files \ {Head(list)}
    BY <1>10 DEF RemoveFile, Bookkeeping
  <2>2. PICK k \in DOMAIN list : list[k] = f
    BY <2>1 DEF WillRemove
  <2>3. CASE k = 1
    BY <1>1, <2>1, <2>2, <2>3
  <2>4. CASE k # 1
    <3>1. k - 1 \in DOMAIN Tail(list) /\ Tail(list)[k - 1] = f
      BY <1>1, <2>1, <2>2, <2>4
    <3>2. QED
      BY <2>1, <3>1 DEF WillRemove
  <2>5. QED
    BY <2>3, <2>4
<1>11. CASE Finish(i)
  BY <1>1, <1>11 DEF Finish, WillRemove
<1>12. QED
  BY <1>4, <1>5, <1>6, <1>7, <1>8, <1>9, <1>10, <1>11 DEF InstanceStep

(* What an instance makes, it comes to remove.                             *)
LEMMA MakersRemove ==
  ASSUME Bookkeeping, NEW i \in Instances, InstanceStep(i), NEW f \in files' \ files
  PROVE  WillRemove(i, f)'
<1>1. ASSUME NEW where, Goto(i, where)
      PROVE  pc'[i] = where
  BY <1>1 DEF Goto, Bookkeeping
<1>2. CASE WriteSource(i)
  BY <1>1, <1>2 DEF WriteSource, WillRemove
<1>3. CASE Compile(i)
  BY <1>1, <1>3 DEF Compile, WillRemove
<1>4. CASE MakeLibrary(i)
  BY <1>1, <1>4 DEF MakeLibrary, WillRemove
<1>5. CASE CompileFails(i) \/ MakeLibraryFails(i) \/ RunMetal(i) \/ RemoveFile(i) \/ Finish(i)
  BY <1>5 DEF CompileFails, MakeLibraryFails, RunMetal, RemoveFile, Finish
<1>6. QED
  BY <1>2, <1>3, <1>4, <1>5 DEF InstanceStep

(* For any number of instances, whatever fails in them and however they    *)
(* interleave on the files they share: every file in /tmp has an instance  *)
(* that comes to remove it.                                                *)
THEOREM FilesHaveRemovers == Spec => []EveryFileHasARemover
<1>1. Init => Inv
  BY InvInit
<1>2. Inv /\ [Next]_vars => Inv'
  <2>1. ASSUME Inv, NEW i \in Instances, InstanceStep(i)
        PROVE  Inv'
    <3>1. Bookkeeping'
      BY <2>1, BookkeepingNext DEF Inv
    <3>2. ASSUME NEW f \in files'
          PROVE  \E j \in Instances : WillRemove(j, f)'
      <4>1. CASE f \in files
        <5>1. PICK j \in Instances : WillRemove(j, f)
          BY <2>1, <4>1 DEF Inv, EveryFileHasARemover
        <5>2. QED
          BY <2>1, <3>2, <5>1, OthersRemove, StillRemoves DEF Inv
      <4>2. CASE f \notin files
        BY <2>1, <3>2, <4>2, MakersRemove DEF Inv
      <4>3. QED
        BY <4>1, <4>2
    <3>3. QED
      BY <3>1, <3>2 DEF Inv, EveryFileHasARemover
  <2>2. ASSUME Inv, UNCHANGED vars
        PROVE  Inv'
    BY <2>2 DEF Inv, Bookkeeping, EveryFileHasARemover, WillRemove, vars
  <2>3. QED
    BY <2>1, <2>2 DEF Next
<1>3. Inv => EveryFileHasARemover
  BY DEF Inv
<1>4. QED
  BY <1>1, <1>2, <1>3, PTL DEF Spec
=============================================================================
