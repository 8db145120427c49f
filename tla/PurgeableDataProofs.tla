------------------------- MODULE PurgeableDataProofs -------------------------
(***************************************************************************)
(* For data of any size and any number of rounds, the accesses of          *)
(* demo_purgeable_data pair up and leave the one the object was created    *)
(* with.                                                                   *)
(***************************************************************************)
EXTENDS PurgeableData, TLAPS

\* Before the object and after a failed creation there is nothing to count;
\* between a begin and its end there are two accesses, otherwise one.
Places == {"create", "begin", "bytes", "write", "press", "look", "free", "returned"}

Accesses ==
  /\ pc \in Places
  /\ references \in {0, 1} /\ accesses \in Nat /\ pressure \in Nat
  /\ pc = "create" => references = 0 /\ accesses = 0
  /\ pc \in {"begin", "press", "free"} => references = 1 /\ accesses = 1
  /\ pc \in {"bytes", "write", "look"} => references = 1 /\ accesses = 2
  /\ pc \notin {"press", "look", "free"} => pressure = 0
  /\ pc = "returned" => accesses = references

(* Every step of the demo keeps the count.                                 *)
LEMMA DemoKeepsAccesses ==
  ASSUME Accesses, Demo
  PROVE  Accesses'
<1> USE DEF Accesses, Places, GoTo, object
<1>1. CASE Create
  BY <1>1 DEF Create, alloc
<1>2. CASE CreateFails
  BY <1>2 DEF CreateFails
<1>3. CASE Begin
  BY <1>3 DEF Begin, beginContentAccess
<1>4. CASE Bytes
  BY <1>4 DEF Bytes
<1>5. CASE NoBytes
  BY <1>5 DEF NoBytes, endContentAccess
<1>6. CASE Write
  BY <1>6 DEF Write
<1>7. CASE EndAccess
  BY <1>7 DEF EndAccess, endContentAccess
<1>8. CASE Press
  BY <1>8 DEF Press
<1>9. CASE PressEnds
  BY <1>9 DEF PressEnds, beginContentAccess
<1>10. CASE Look
  BY <1>10 DEF Look, endContentAccess
<1>11. CASE Free
  BY <1>11 DEF Free
<1>12. CASE PoolEnds
  BY <1>12 DEF PoolEnds
<1>13. QED
  BY <1>1, <1>2, <1>3, <1>4, <1>5, <1>6, <1>7, <1>8, <1>9, <1>10, <1>11, <1>12 DEF Demo

(* The content is never the system's to discard, and when the demo returns *)
(* no access is open but the one the object was created with.              *)
THEOREM ContentStays == Spec => []NeverDiscarded
<1>1. Init => Accesses
  BY DEF Init, Accesses, Places
<1>2. Accesses /\ [Next]_vars => Accesses'
  <2>1. ASSUME Accesses, Compress \/ UNCHANGED vars
        PROVE  Accesses'
    BY <2>1 DEF Accesses, Compress, vars, object
  <2>2. QED
    BY <2>1, DemoKeepsAccesses DEF Next
<1>3. Accesses => NeverDiscarded
  BY DEF Accesses, Places, NeverDiscarded
<1>4. QED
  BY <1>1, <1>2, <1>3, PTL DEF Spec
=============================================================================
