--------------------------- MODULE WorkingSetProofs ---------------------------
(***************************************************************************)
(* For any working set and any movement of pages: how far the two looks of *)
(* the Windows report can be apart, and when its buffer is large enough.   *)
(***************************************************************************)
EXTENDS WorkingSetReport, TLAPS

\* The inductive invariant: besides Drift, no buffer is left at the end.
IInv == TypeOK /\ BufferIsFreed /\ Drift

(* The buffer has a whole number of pages.                                 *)
LEMMA SizeType ==
  ASSUME NEW n \in Nat
  PROVE  PagesOf(n) \in Nat
BY ReportAssumption DEF PagesOf

(* Nothing is counted and no buffer allocated before the first look.       *)
LEMMA IInvInit ==
  ASSUME Init
  PROVE  IInv
BY ReportAssumption DEF Init, IInv, TypeOK, BufferIsFreed, Drift

(* The report's own steps.                                                 *)
LEMMA ReportNext ==
  ASSUME IInv, Report
  PROVE  IInv'
<1> USE ReportAssumption DEF IInv, TypeOK, BufferIsFreed, Drift, WorkingSet
<1>1. CASE GetProcessMemoryInfo
  BY <1>1 DEF GetProcessMemoryInfo
<1>2. CASE GivesUp
  BY <1>2 DEF GivesUp
<1>3. CASE Probe
  BY <1>3 DEF Probe
<1>4. CASE Malloc
  <2>1. capacity' \in Nat /\ size' \in Nat
    BY <1>4, SizeType DEF Malloc
  <2>2. QED
    BY <1>4, <2>1 DEF Malloc
<1>5. CASE Memset
  BY <1>5 DEF Memset
<1>6. CASE QueryWorkingSet
  BY <1>6 DEF QueryWorkingSet
<1>7. CASE QueryFails
  BY <1>7 DEF QueryFails
<1>8. CASE Finish
  BY <1>8 DEF Finish
<1>9. QED
  BY <1>1, <1>2, <1>3, <1>4, <1>5, <1>6, <1>7, <1>8 DEF Report

(* Pages that come or go widen what the looks can differ by.               *)
LEMMA MemoryManagerNext ==
  ASSUME IInv, MemoryManager
  PROVE  IInv'
<1> USE ReportAssumption DEF IInv, TypeOK, BufferIsFreed, Drift, WorkingSet
<1>1. PICK n \in Batches : PagesCome(n) \/ PagesGo(n)
  BY DEF MemoryManager
<1>2. n \in Nat
  BY <1>1
<1>3. CASE PagesCome(n)
  BY <1>2, <1>3 DEF PagesCome, Moves
<1>4. CASE PagesGo(n)
  BY <1>2, <1>4 DEF PagesGo, Moves
<1>5. QED
  BY <1>1, <1>3, <1>4

(* The second look differs from the first by no more than the pages that   *)
(* came or went and the buffer, and the buffer is freed in the end.        *)
THEOREM LooksDriftBoundedly == Spec => [](TypeOK /\ BufferIsFreed /\ Drift)
<1>1. Init => IInv
  BY IInvInit
<1>2. IInv /\ [Next]_vars => IInv'
  <2>1. SUFFICES ASSUME IInv, [Next]_vars
                 PROVE  IInv'
    OBVIOUS
  <2>2. CASE UNCHANGED vars
    BY <2>1, <2>2 DEF vars, IInv, TypeOK, BufferIsFreed, Drift, WorkingSet
  <2>3. QED
    BY <2>1, <2>2, ReportNext, MemoryManagerNext DEF Next
<1>3. QED
  BY <1>1, <1>2, PTL DEF Spec, IInv

(* The buffer of the second look is freed on every path.                   *)
THEOREM NoBufferStays == Spec => []BufferIsFreed
<1>1. QED
  BY LooksDriftBoundedly, PTL

(* The second query has room whenever the growth of the working set, the   *)
(* buffer included, stays within the extra entries.                        *)
THEOREM BufferIsLargeEnough == Spec => []SlackSuffices
<1>1. TypeOK /\ BufferIsFreed /\ Drift => SlackSuffices
  BY ReportAssumption DEF TypeOK, Drift, SlackSuffices, WorkingSet
<1>2. QED
  BY <1>1, LooksDriftBoundedly, PTL

(* The sharable part is printed right up to what moved between the looks,  *)
(* and does not wrap while the shared part is larger than that.            *)
THEOREM SharableDoesNotWrap == Spec => []SharableIsClose
<1>1. TypeOK /\ BufferIsFreed /\ Drift => SharableIsClose
  <2>1. SUFFICES ASSUME TypeOK, Drift, pc = "print",
                        moves + size <= counted.shared, total < Word
                 PROVE  /\ PrintedSharable >= counted.shared - size - moves
                        /\ PrintedSharable <= counted.shared - size + moves
    BY DEF SharableIsClose
  <2> DEFINE difference == total - counted.private
  <2>2. /\ difference \in 0 .. Word - 1
        /\ difference >= counted.shared - size - moves
        /\ difference <= counted.shared - size + moves
    BY <2>1, ReportAssumption DEF TypeOK, Drift
  <2>3. difference % Word = difference
    BY <2>2, ReportAssumption
  <2>4. QED
    BY <2>2, <2>3 DEF PrintedSharable
<1>2. QED
  BY <1>1, LooksDriftBoundedly, PTL
=============================================================================
