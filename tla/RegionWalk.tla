------------------------------ MODULE RegionWalk ------------------------------
(***************************************************************************)
(* The two walks over the regions of an address space in                   *)
(* macos/process/memory_info.cc: print_memory_info, over the program's own *)
(* regions, and getProcessSharedMemory, over those of the process a pid    *)
(* names.  One step of a walk asks the kernel for the region at or after   *)
(* an address.  Between two steps other processes fork and exit and so     *)
(* change reference counts, the pager changes what is resident, and the    *)
(* other process maps and unmaps.                                          *)
(***************************************************************************)
EXTENDS Integers, FiniteSetsExt

CONSTANTS
  Top,        \* pages of the address space
  PageSize,   \* vm_page_size
  Shapes,     \* what a region may be: [size, mode, refs, private, shared]
  ChurnMax    \* bound: pages of the regions changed during a walk

ASSUME WalkAssumption ==
  /\ Top \in Nat /\ PageSize \in Nat \ {0} /\ ChurnMax \in Nat
  /\ \A s \in Shapes :
       /\ s.size \in Nat \ {0} /\ s.refs \in Nat \ {0}
       /\ s.private \in Nat /\ s.shared \in Nat
       /\ s.private <= s.size /\ s.shared <= s.size
       /\ s.mode \in {"SM_PRIVATE", "SM_COW", "SM_SHARED", "SM_EMPTY"}

VARIABLES
  regions,   \* the regions: a start and a shape each
  walk,      \* "print" or "pid": which function runs
  phase,     \* where it is
  port,      \* the right of the other task is held
  address,   \* where the next question starts
  private,   \* real_private_memory
  shared,    \* real_shared_memory, or shared_memory
  churn,     \* pages of the regions that changed since the walk began
  cut        \* the loop that counts ended before the last region

vars == <<regions, walk, phase, port, address, private, shared, churn, cut>>

At(start, s) == [start |-> start, shape |-> s]
End(r) == r.start + r.shape.size
Span(r) == r.start .. End(r) - 1

Regions == {At(start, s) : start \in 0 .. Top - 1, s \in Shapes}
Fit(r, rs) == End(r) <= Top /\ \A q \in rs : Span(r) \intersect Span(q) = {}

(***************************************************************************)
(* What a region contributes                                               *)
(***************************************************************************)
\* Copy-on-write with a single reference counts as private.
IsPrivate(s) == s.mode = "SM_PRIVATE" \/ (s.mode = "SM_COW" /\ s.refs = 1)
IsShared(s) == s.mode \in {"SM_COW", "SM_SHARED"} /\ s.refs > 1

PrivateBytes(s) ==
  IF walk = "print" /\ IsPrivate(s) THEN s.private * PageSize ELSE 0

SharedBytes(s) ==
  CASE walk = "print" /\ IsShared(s) -> (s.shared * PageSize) \div s.refs
    [] walk = "pid" /\ s.mode # "SM_PRIVATE" -> s.size * PageSize
    [] OTHER -> 0

(***************************************************************************)
(* The walk                                                                *)
(***************************************************************************)
Walking == phase \in {"first", "second"}

\* vm_region_64: the region that holds the address, or the next one.
Found(r) == /\ r \in regions /\ End(r) > address
            /\ \A q \in regions : End(q) > address => r.start <= q.start

\* task_info, or task_for_pid, which gives a right to the other task.
Begin ==
  /\ phase = "start"
  /\ phase' = "first"
  /\ port' = (walk = "pid")
  /\ UNCHANGED <<regions, walk, address, private, shared, churn, cut>>

BeginFails ==
  /\ phase = "start"
  /\ phase' = "failed"
  /\ UNCHANGED <<regions, walk, port, address, private, shared, churn, cut>>

\* Slip: the walk goes on at the region's start.
Visit_stays ==
  \E r \in regions :
    /\ Walking /\ Found(r)
    /\ address' = r.start
    /\ private' = IF phase = "first" THEN private + PrivateBytes(r.shape) ELSE private
    /\ shared' = IF phase = "first" THEN shared + SharedBytes(r.shape) ELSE shared
    /\ UNCHANGED <<regions, walk, phase, port, churn, cut>>

\* Slip: the walk goes on one page behind the region's end.
Visit_skips ==
  \E r \in regions :
    /\ Walking /\ Found(r)
    /\ address' = End(r) + 1
    /\ private' = IF phase = "first" THEN private + PrivateBytes(r.shape) ELSE private
    /\ shared' = IF phase = "first" THEN shared + SharedBytes(r.shape) ELSE shared
    /\ UNCHANGED <<regions, walk, phase, port, churn, cut>>

\* One round of a loop.  The second loop of print_memory_info adds nothing:
\* the line that counts is commented out.
Visit ==
  \E r \in regions :
    /\ Walking /\ Found(r)
    /\ address' = End(r)
    /\ private' = IF phase = "first" THEN private + PrivateBytes(r.shape) ELSE private
    /\ shared' = IF phase = "first" THEN shared + SharedBytes(r.shape) ELSE shared
    /\ UNCHANGED <<regions, walk, phase, port, churn, cut>>

NothingLeft == \A r \in regions : End(r) <= address

\* Slip: mach_port_deallocate is forgotten.
LoopEnds_keeps_port ==
  /\ Walking
  /\ phase' = IF walk = "print" /\ phase = "first" THEN "second" ELSE "done"
  /\ cut' = (cut \/ (phase = "first" /\ ~NothingLeft))
  /\ UNCHANGED <<regions, walk, port, address, private, shared, churn>>

\* The call for the next region fails: none is left, or for any other reason,
\* say because the other process is gone.  The loops do not tell one from the
\* other.  print_memory_info starts its second loop at the address the first
\* ended with; getProcessSharedMemory gives the right back and returns.
LoopEnds ==
  /\ Walking
  /\ phase' = IF walk = "print" /\ phase = "first" THEN "second" ELSE "done"
  /\ cut' = (cut \/ (phase = "first" /\ ~NothingLeft))
  /\ port' = FALSE
  /\ UNCHANGED <<regions, walk, address, private, shared, churn>>

(***************************************************************************)
(* The others                                                              *)
(***************************************************************************)
Churn(pages) == /\ Walking /\ churn + pages <= ChurnMax
                /\ churn' = churn + pages
                /\ UNCHANGED <<walk, phase, port, address, private, shared, cut>>

\* A fork or an exit elsewhere, pages written to, loaded or evicted.
Reshape(r, s) ==
  /\ s.size = r.shape.size /\ s # r.shape
  /\ regions' = (regions \ {r}) \union {At(r.start, s)}
  /\ Churn(s.size)

\* The other process maps and unmaps; the program itself is busy walking.
Map(r) == walk = "pid" /\ Fit(r, regions) /\ regions' = regions \union {r} /\ Churn(r.shape.size)
Unmap(r) == walk = "pid" /\ regions' = regions \ {r} /\ Churn(r.shape.size)

\* The regions that start at the pages of f.
Space(f) == {At(p, f[p]) : p \in DOMAIN f}
Spaces == {Space(f) : f \in UNION {[starts -> Shapes] : starts \in SUBSET (0 .. Top - 1)}}

Init ==
  /\ regions \in {rs \in Spaces : \A r \in rs : Fit(r, rs \ {r})}
  /\ walk \in {"print", "pid"}
  /\ phase = "start" /\ port = FALSE
  /\ address = 0 /\ private = 0 /\ shared = 0 /\ churn = 0 /\ cut = FALSE

Walker == Begin \/ BeginFails \/ Visit \/ LoopEnds
Others == \/ \E r \in regions : Unmap(r) \/ \E s \in Shapes : Reshape(r, s)
          \/ \E r \in Regions : Map(r)

Next == Walker \/ Others

\* The walking thread runs; the others do as they like.
Spec == Init /\ [][Next]_vars /\ WF_vars(Walker)

-----------------------------------------------------------------------------
(* No page is counted twice, neither as private and as shared nor in two   *)
(* regions: what has been counted fits below the address reached.  When    *)
(* the other process replaces what was already walked over by a region     *)
(* that reaches further, the change makes up for it.                       *)
NoPageIsCountedTwice ==
  private + shared <= (address + (IF walk = "pid" THEN churn ELSE 0)) * PageSize

Total(Op(_)) == MapThenSumSet(LAMBDA r : Op(r.shape), regions)
Distance(a, b) == IF a < b THEN b - a ELSE a - b

(* The report is no snapshot, since the regions change while they are      *)
(* walked over, but what it says differs from the state it ends in by no   *)
(* more than what changed during the walk; in a quiet system it is exact.  *)
(* If the walk is cut short, which nothing in the report shows, it says    *)
(* too little but never too much.                                          *)
ReportDriftsByChurn ==
  phase \in {"second", "done"} =>
    /\ private <= Total(PrivateBytes) + churn * PageSize
    /\ shared <= Total(SharedBytes) + churn * PageSize
    /\ ~cut => /\ Distance(private, Total(PrivateBytes)) <= churn * PageSize
               /\ Distance(shared, Total(SharedBytes)) <= churn * PageSize

(* However the regions change under it a walk ends, and the right to the   *)
(* other task is given back.                                               *)
Terminates == <>(phase \in {"done", "failed"} /\ ~port)
=============================================================================
