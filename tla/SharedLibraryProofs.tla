------------------------- MODULE SharedLibraryProofs -------------------------
(***************************************************************************)
(* For any number of children, the library of shared_library_demo.cpp is   *)
(* there while it is needed and removed when it is not.                    *)
(***************************************************************************)
EXTENDS SharedLibraryDemo, SequenceTheorems, TLAPS

\* The inductive invariant.
IInv == TypeOK /\ Consistent

(* Nothing is forked, loaded or on disk when main() starts.                *)
LEMMA IInvInit ==
  ASSUME Init
  PROVE  IInv
<1> USE LibraryAssumption
<1>1. TypeOK
  BY DEF Init, TypeOK, Children
<1>2. Recorded = {}
  BY DEF Init, Recorded
<1>3. Consistent
  BY <1>2 DEF Init, Consistent, References, Children
<1>4. QED
  BY <1>1, <1>3 DEF IInv

(* The parent's steps that leave the children and their records alone: the *)
(* place, the parent's reference and the files change together.            *)
LEMMA ParentMoves ==
  ASSUME IInv,
         \/ Start \/ Create \/ Compile \/ Load \/ LoadFails \/ ForksEnd
         \/ ParentPause \/ AllReaped \/ Cleanup
  PROVE  IInv'
<1> USE LibraryAssumption DEF IInv, TypeOK
<1>1. UNCHANGED <<i, children, child, childLib, Recorded>>
  BY DEF Recorded, Start, Create, Compile, Load, LoadFails, ForksEnd, ParentPause,
         AllReaped, Cleanup
<1>2. CASE Start
  <2>1. TypeOK'
    BY <1>2 DEF Start, ReadEnter
  <2>2. Consistent'
    BY <1>1, <1>2 DEF Consistent, Start, ReadEnter
  <2>3. QED
    BY <2>1, <2>2
<1>3. CASE Create
  <2>1. TypeOK'
    BY <1>3 DEF Create
  <2>2. Consistent'
    BY <1>1, <1>3 DEF Consistent, Create
  <2>3. QED
    BY <2>1, <2>2
<1>4. CASE Compile
  <2>1. TypeOK'
    BY <1>4 DEF Compile
  <2>2. Consistent'
    BY <1>1, <1>4 DEF Consistent, Compile
  <2>3. QED
    BY <2>1, <2>2
<1>5. CASE Load
  <2>1. TypeOK'
    BY <1>5 DEF Load
  <2>2. Consistent'
    BY <1>1, <1>5 DEF Consistent, Load
  <2>3. QED
    BY <2>1, <2>2
<1>6. CASE LoadFails
  <2>1. TypeOK'
    BY <1>6 DEF LoadFails
  <2>2. Consistent'
    BY <1>1, <1>6 DEF Consistent, LoadFails
  <2>3. QED
    BY <2>1, <2>2
<1>7. CASE ForksEnd
  <2>1. TypeOK'
    BY <1>7 DEF ForksEnd
  <2>2. Consistent'
    BY <1>1, <1>7 DEF Consistent, ForksEnd
  <2>3. QED
    BY <2>1, <2>2
<1>8. CASE ParentPause
  <2>1. TypeOK'
    BY <1>8 DEF ParentPause, ReadEnter
  <2>2. Consistent'
    BY <1>1, <1>8 DEF Consistent, ParentPause, ReadEnter
  <2>3. QED
    BY <2>1, <2>2
<1>9. CASE AllReaped
  <2>1. TypeOK'
    BY <1>9 DEF AllReaped, Consistent
  <2>2. Consistent'
    BY <1>1, <1>9 DEF Consistent, AllReaped
  <2>3. QED
    BY <2>1, <2>2
<1>10. CASE Cleanup
  <2>1. TypeOK'
    BY <1>10 DEF Cleanup
  <2>2. Consistent'
    BY <1>1, <1>10 DEF Consistent, Cleanup
  <2>3. QED
    BY <2>1, <2>2
<1>11. QED
  BY <1>2, <1>3, <1>4, <1>5, <1>6, <1>7, <1>8, <1>9, <1>10

(* A child that was forked and not waited for goes from one of its states  *)
(* to another, with the references that belong to the new state.           *)
LEMMA ChildMoves ==
  ASSUME IInv, NEW c \in Children, child[c] \in {"loading", "using", "pause"},
         NEW state \in {"using", "pause", "zombie"},
         child' = [child EXCEPT ![c] = state],
         childLib' = [childLib EXCEPT ![c] = References(state)],
         typed' \in 0 .. TypedMax,
         UNCHANGED <<at, i, children, parentLib, files>>
  PROVE  IInv'
<1> USE DEF IInv
<1>1. References(state) \in 0 .. 2
  BY DEF References
<1>2. TypeOK'
  BY <1>1 DEF TypeOK
<1>3. Recorded' = Recorded
  BY DEF Recorded
<1>4. \A d \in Children : /\ child'[d] = (IF d = c THEN state ELSE child[d])
                          /\ childLib'[d] = (IF d = c THEN References(state) ELSE childLib[d])
  BY DEF TypeOK
<1>5. \A d \in Children : /\ child'[d] = "none" <=> child[d] = "none"
                          /\ child'[d] = "reaped" <=> child[d] = "reaped"
                          /\ childLib'[d] = References(child'[d])
  BY <1>4 DEF Consistent
<1>6. Consistent'
  <2>1. \A d \in Children : d \in Recorded' <=> child'[d] \notin {"none", "reaped"}
    BY <1>3, <1>5 DEF Consistent
  <2>2. \A d \in Children : child'[d] = "none" <=> d >= i'
    BY <1>5 DEF Consistent
  <2>3. \A d \in Children : childLib'[d] = References(child'[d])
    BY <1>5
  <2>4. QED
    BY <2>1, <2>2, <2>3 DEF Consistent
<1>7. QED
  BY <1>2, <1>6

(* Every step of a child, and its death.                                   *)
LEMMA ChildNext ==
  ASSUME IInv, NEW c \in Children, Child(c) \/ ChildKilled(c)
  PROVE  IInv'
<1> USE DEF IInv
<1>1. childLib[c] = References(child[c])
  BY DEF Consistent
<1>2. CASE ChildLoads(c)
  <2>1. childLib' = [childLib EXCEPT ![c] = References("using")]
    BY <1>1, <1>2 DEF ChildLoads, References, TypeOK
  <2>2. QED
    BY <1>2, <2>1, ChildMoves DEF ChildLoads, TypeOK
<1>3. CASE ChildLoadFails(c)
  <2>1. childLib' = [childLib EXCEPT ![c] = References("pause")]
    BY <1>1, <1>3 DEF ChildLoadFails, References, TypeOK
  <2>2. QED
    BY <1>3, <2>1, ChildMoves DEF ChildLoadFails, TypeOK
<1>4. CASE ChildUnloads(c)
  <2>1. childLib' = [childLib EXCEPT ![c] = References("pause")]
    BY <1>1, <1>4 DEF ChildUnloads, References, TypeOK
  <2>2. QED
    BY <1>4, <2>1, ChildMoves DEF ChildUnloads, TypeOK
<1>5. CASE ChildExits(c)
  <2>1. childLib' = [childLib EXCEPT ![c] = References("zombie")]
    BY <1>5 DEF ChildExits, References
  <2>2. typed' \in 0 .. TypedMax
    BY <1>5, LibraryAssumption DEF ChildExits, ReadEnter, TypeOK
  <2>3. QED
    BY <1>5, <2>1, <2>2, ChildMoves DEF ChildExits
<1>6. CASE ChildKilled(c)
  <2>1. childLib' = [childLib EXCEPT ![c] = References("zombie")]
    BY <1>6 DEF ChildKilled, References
  <2>2. QED
    BY <1>6, <2>1, ChildMoves DEF ChildKilled, Alive, TypeOK
<1>7. QED
  BY <1>2, <1>3, <1>4, <1>5, <1>6 DEF Child

(* fork(): the next child appears, and its pid at the end of the records.  *)
LEMMA ForkNext ==
  ASSUME IInv, Fork
  PROVE  IInv'
<1> USE LibraryAssumption DEF IInv
<1>1. i \in Children /\ child[i] = "none" /\ i \notin Recorded
  BY DEF Fork, TypeOK, Consistent, Children
<1>2. /\ children' = Append(children, i) /\ children \in Seq(Children)
      /\ i' = i + 1 /\ parentLib = 1
      /\ child' = [child EXCEPT ![i] = "loading"]
      /\ childLib' = [childLib EXCEPT ![i] = 1]
      /\ UNCHANGED <<at, parentLib, files, typed>>
  BY DEF Fork, TypeOK, Consistent
<1>3. /\ Len(children) \in Nat /\ DOMAIN children = 1 .. Len(children)
      /\ DOMAIN children' = 1 .. Len(children) + 1
      /\ \A k \in DOMAIN children : children'[k] = children[k]
      /\ children'[Len(children) + 1] = i
  BY <1>1, <1>2
<1>4. TypeOK'
  BY <1>1, <1>2 DEF TypeOK, Children
<1>5. Recorded' = Recorded \union {i}
  BY <1>3 DEF Recorded
<1>6. \A c \in Children : /\ child'[c] = (IF c = i THEN "loading" ELSE child[c])
                          /\ childLib'[c] = (IF c = i THEN 1 ELSE childLib[c])
  BY <1>1, <1>2 DEF TypeOK
<1>7. \A c \in Children : c \in Recorded' <=> child'[c] \notin {"none", "reaped"}
  BY <1>5, <1>6 DEF Consistent
<1>8. \A j, k \in DOMAIN children' : children'[j] = children'[k] => j = k
  BY <1>1, <1>3 DEF Consistent, Recorded
<1>9. \A c \in Children : child'[c] = "none" <=> c >= i'
  BY <1>2, <1>6 DEF Consistent, TypeOK, Children
<1>10. \A c \in Children : childLib'[c] = References(child'[c])
  BY <1>6 DEF Consistent, References
<1>11. at = "fork"
  BY DEF Fork
<1>12. Consistent'
  BY <1>2, <1>7, <1>8, <1>9, <1>10, <1>11 DEF Consistent
<1>13. QED
  BY <1>4, <1>12

(* waitpid() takes the first pid off the records, and that pid only.       *)
LEMMA ReapNextNext ==
  ASSUME IInv, ReapNext
  PROVE  IInv'
<1> DEFINE c == Head(children)
<1> USE LibraryAssumption DEF IInv
<1>1. /\ children \in Seq(Children) /\ children # << >> /\ child[c] = "zombie"
      /\ child' = [child EXCEPT ![c] = "reaped"] /\ children' = Tail(children)
      /\ at = "wait"
      /\ UNCHANGED <<at, i, parentLib, childLib, files, typed>>
  BY DEF ReapNext, TypeOK
<1>2. c \in Children /\ c = children[1]
  BY <1>1
<1>3. /\ Len(children) \in Nat \ {0} /\ DOMAIN children = 1 .. Len(children)
      /\ DOMAIN children' = 1 .. Len(children) - 1
      /\ \A k \in DOMAIN children' : children'[k] = children[k + 1]
  BY <1>1
<1>4. TypeOK'
  BY <1>1, <1>2 DEF TypeOK
<1>5. Recorded' = Recorded \ {c}
  <2>1. \A k \in DOMAIN children' : children'[k] \in Recorded \ {c}
    BY <1>2, <1>3 DEF Consistent, Recorded
  <2>2. \A d \in Recorded \ {c} : d \in Recorded'
    <3>1. SUFFICES ASSUME NEW d \in Recorded \ {c}
                   PROVE  d \in Recorded'
      OBVIOUS
    <3>2. PICK k \in DOMAIN children : children[k] = d
      BY <3>1 DEF Recorded
    <3>3. k - 1 \in DOMAIN children' /\ children'[k - 1] = d
      BY <1>2, <1>3, <3>1, <3>2
    <3>4. QED
      BY <3>3 DEF Recorded
  <2>3. QED
    BY <2>1, <2>2 DEF Recorded
<1>6. \A d \in Children : child'[d] = (IF d = c THEN "reaped" ELSE child[d])
  BY <1>1, <1>2 DEF TypeOK
<1>7. \A d \in Children : d \in Recorded' <=> child'[d] \notin {"none", "reaped"}
  BY <1>5, <1>6 DEF Consistent
<1>8. \A j, k \in DOMAIN children' : children'[j] = children'[k] => j = k
  BY <1>3 DEF Consistent
<1>9. \A d \in Children : /\ child'[d] = "none" <=> child[d] = "none"
                          /\ References(child'[d]) = References(child[d])
  BY <1>1, <1>6 DEF References
<1>10. Consistent'
  BY <1>1, <1>7, <1>8, <1>9 DEF Consistent
<1>11. QED
  BY <1>4, <1>10

(* Every step keeps the invariant.                                         *)
LEMMA IInvNext ==
  ASSUME IInv, [Next]_vars
  PROVE  IInv'
<1>1. CASE Parent
  BY <1>1, ParentMoves, ForkNext, ReapNextNext DEF Parent
<1>2. CASE Type
  <2>1. Recorded' = Recorded /\ TypeOK'
    BY <1>2, LibraryAssumption DEF Type, Recorded, IInv, TypeOK
  <2>2. QED
    BY <1>2, <2>1 DEF Type, IInv, Consistent
<1>3. CASE \E c \in Children : Child(c) \/ ChildKilled(c)
  BY <1>3, ChildNext
<1>4. CASE UNCHANGED vars
  <2>1. Recorded' = Recorded
    BY <1>4 DEF vars, Recorded
  <2>2. QED
    BY <1>4, <2>1 DEF vars, IInv, TypeOK, Consistent
<1>5. QED
  BY <1>1, <1>2, <1>3, <1>4 DEF Next

(* Processes, references, records and files agree at every moment.         *)
THEOREM LibraryIsConsistent == Spec => [](TypeOK /\ Consistent)
<1>1. Init => IInv
  BY IInvInit
<1>2. IInv /\ [Next]_vars => IInv'
  BY IInvNext
<1>3. IInv => TypeOK /\ Consistent
  BY DEF IInv
<1>4. QED
  BY <1>1, <1>2, <1>3, PTL DEF Spec

(* For any number of children, whoever fails or dies: a child that has     *)
(* still to open the library finds it, nobody has it open when it is       *)
(* removed, and main() does not return before every child is waited for.   *)
THEOREM LibraryOutlivesItsUsers ==
  Spec => [](LibraryIsThereToLoad /\ UnloadedBeforeRemoval /\ EveryChildIsReaped)
<1>1. IInv => LibraryIsThereToLoad /\ UnloadedBeforeRemoval /\ EveryChildIsReaped
  <2>1. SUFFICES ASSUME IInv
                 PROVE  LibraryIsThereToLoad /\ UnloadedBeforeRemoval /\ EveryChildIsReaped
    OBVIOUS
  <2>2. /\ at \notin {"fork", "pause", "wait"} => Recorded = {}
        /\ \A c \in Children : c \in Recorded <=> child[c] \notin {"none", "reaped"}
    BY <2>1 DEF IInv, Consistent, Recorded
  <2>3. LibraryIsThereToLoad
    BY <2>1, <2>2 DEF IInv, Consistent, LibraryIsThereToLoad
  <2>4. EveryChildIsReaped
    BY <2>2 DEF EveryChildIsReaped
  <2>5. UnloadedBeforeRemoval
    BY <2>1, <2>2 DEF IInv, Consistent, References, UnloadedBeforeRemoval
  <2>6. QED
    BY <2>3, <2>4, <2>5
<1>2. QED
  BY <1>1, LibraryIsConsistent, PTL DEF IInv

(* A child that has still to open the library finds the file there.        *)
THEOREM ChildrenFindTheLibrary == Spec => []LibraryIsThereToLoad
<1>1. QED
  BY LibraryOutlivesItsUsers, PTL

(* main() does not return before every child is waited for.                *)
THEOREM NoChildIsForgotten == Spec => []EveryChildIsReaped
<1>1. QED
  BY LibraryOutlivesItsUsers, PTL

(* Once compiled, the library's files are removed on every path, and a     *)
(* child that pauses has closed what it opened.                            *)
THEOREM NothingOfTheLibraryStays ==
  Spec => [](OnlyFailedCreationLeavesFiles /\ ReferencesBalance)
<1>1. IInv => OnlyFailedCreationLeavesFiles /\ ReferencesBalance
  BY DEF IInv, Consistent, References, OnlyFailedCreationLeavesFiles, ReferencesBalance
<1>2. QED
  BY <1>1, LibraryIsConsistent, PTL DEF IInv
=============================================================================
