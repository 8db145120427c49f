---------------------------- MODULE PurgeableData ----------------------------
(***************************************************************************)
(* demo_purgeable_data of macos/process/activity_monitor_demo.mm: the      *)
(* demo writes to an NSPurgeableData object, ends its access to the        *)
(* content, allocates memory until the system is short of it, and looks    *)
(* whether the content is still there.  Meanwhile the system moves pages   *)
(* of the data into the compressor.                                        *)
(*                                                                         *)
(* Foundation creates the object with an access count of 1 and discards    *)
(* the content only when the count is 0.  NeverDiscarded shows that it     *)
(* never is, so beginContentAccess never answers NO, and neither that      *)
(* branch of the code nor the discarding is an action here.                *)
(***************************************************************************)
EXTENDS Naturals

CONSTANTS
  Pages,    \* pages of the data
  Rounds    \* rounds of the pressure loop

ASSUME PurgeableAssumption == Pages \in Nat \ {0} /\ Rounds \in Nat

VARIABLES
  pc,           \* where the demo is
  references,   \* the retain count of purgeable_data, 0 before there is one
  accesses,     \* its access count
  written,      \* pages written to
  compressed,   \* pages of the data that the compressor holds
  pressure      \* pressure_buffers.size()

object == <<references, accesses>>
vars == <<pc, object, written, compressed, pressure>>

GoTo(here, next) == pc = here /\ pc' = next

-----------------------------------------------------------------------------
(* Foundation *)
alloc == references' = 1 /\ accesses' = 1
beginContentAccess == accesses' = accesses + 1 /\ UNCHANGED references
endContentAccess == accesses' = accesses - 1 /\ UNCHANGED references

-----------------------------------------------------------------------------
(* The demo *)
Create ==
  /\ GoTo("create", "begin") /\ alloc
  /\ UNCHANGED <<written, compressed, pressure>>

CreateFails ==
  /\ GoTo("create", "returned")
  /\ UNCHANGED <<object, written, compressed, pressure>>

Begin ==
  /\ GoTo("begin", "bytes") /\ beginContentAccess
  /\ UNCHANGED <<written, compressed, pressure>>

Bytes ==
  /\ GoTo("bytes", "write")
  /\ UNCHANGED <<object, written, compressed, pressure>>

\* Slip: the early return leaves the access open.
NoBytes_keeps_access ==
  /\ GoTo("bytes", "returned")
  /\ UNCHANGED <<object, written, compressed, pressure>>

\* mutableBytes is nullptr.
NoBytes ==
  /\ GoTo("bytes", "returned") /\ endContentAccess
  /\ UNCHANGED <<written, compressed, pressure>>

Write ==
  /\ GoTo("write", "write") /\ written < Pages
  /\ written' = written + 1
  /\ UNCHANGED <<object, compressed, pressure>>

\* The report and the pause; then the content is "marked as purgeable".
EndAccess ==
  /\ GoTo("write", "press") /\ written = Pages
  /\ endContentAccess
  /\ UNCHANGED <<written, compressed, pressure>>

Press ==
  /\ GoTo("press", "press") /\ pressure < Rounds
  /\ pressure' = pressure + 1
  /\ UNCHANGED <<object, written, compressed>>

\* Five rounds, or malloc returned nullptr; the content is accessed again.
PressEnds ==
  /\ GoTo("press", "look") /\ beginContentAccess
  /\ UNCHANGED <<written, compressed, pressure>>

\* The first byte is printed, out of the compressor if it is there.
Look ==
  /\ GoTo("look", "free") /\ endContentAccess
  /\ compressed' \in {n \in 0 .. compressed : n + 1 >= compressed}
  /\ UNCHANGED <<written, pressure>>

Free ==
  /\ GoTo("free", "free") /\ pressure > 0
  /\ pressure' = pressure - 1
  /\ UNCHANGED <<object, written, compressed>>

\* The pool drains: nothing was autoreleased.
PoolEnds ==
  /\ GoTo("free", "returned") /\ pressure = 0
  /\ UNCHANGED <<object, written, compressed, pressure>>

-----------------------------------------------------------------------------
(* The system *)
Compress ==
  /\ compressed < written
  /\ compressed' = compressed + 1
  /\ UNCHANGED <<pc, object, written, pressure>>

Init ==
  /\ pc = "create" /\ references = 0 /\ accesses = 0
  /\ written = 0 /\ compressed = 0 /\ pressure = 0

Demo == \/ Create \/ CreateFails \/ Begin \/ Bytes \/ NoBytes \/ Write \/ EndAccess
        \/ Press \/ PressEnds \/ Look \/ Free \/ PoolEnds

Next == Demo \/ Compress
Spec == Init /\ [][Next]_vars

-----------------------------------------------------------------------------
(* On every path each access that was begun is ended, so that only the one *)
(* the object was created with is left, and that one always is: while      *)
(* there is an object its content is never the system's to discard, what   *)
(* the demo reads is what it wrote, and when it returns the object and the *)
(* access are still there: the pool releases neither.                      *)
NeverDiscarded ==
  /\ references > 0 => accesses >= 1
  /\ pc = "returned" => accesses = references /\ pressure = 0
=============================================================================
