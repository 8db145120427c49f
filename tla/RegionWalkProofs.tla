--------------------------- MODULE RegionWalkProofs ---------------------------
(***************************************************************************)
(* For address spaces of any size, regions of any shape and any amount of  *)
(* change, the walks of memory_info.cc count no page twice.                *)
(***************************************************************************)
EXTENDS RegionWalk, FiniteSetTheorems, TLAPS

\* Only the other process can replace what was already walked over.
Credit == IF walk = "pid" THEN churn ELSE 0

WalkTypes ==
  /\ regions \subseteq Regions
  /\ walk \in {"print", "pid"}
  /\ address \in Nat /\ private \in Nat /\ shared \in Nat /\ churn \in Nat

\* Two regions do not overlap.
Apart == \A q, r \in regions : q # r => End(q) <= r.start \/ End(r) <= q.start

Counted(n) == private + shared <= (n + Credit) * PageSize

\* The inductive invariant.  A region that the address has cut through was
\* mapped behind the walk's back; what was counted fits below its start.
Inv ==
  /\ WalkTypes /\ Apart
  /\ Counted(address)
  /\ \A r \in regions : r.start < address /\ address < End(r) => Counted(r.start)

(* Multiplying by the page size preserves order and distributes.           *)
LEMMA PagesToBytes ==
  ASSUME NEW a \in Nat, NEW b \in Nat
  PROVE  /\ a * PageSize \in Nat
         /\ (a + b) * PageSize = a * PageSize + b * PageSize
         /\ a <= b => a * PageSize <= b * PageSize
<1>1. PageSize \in Nat
  BY WalkAssumption
<1>2. /\ a * PageSize \in Nat
      /\ (a + b) * PageSize = a * PageSize + b * PageSize
  BY <1>1, SMT
<1>3. ASSUME a <= b
      PROVE  a * PageSize <= b * PageSize
  BY <1>1, <1>3, SMT
<1>4. QED
  BY <1>2, <1>3

(* Dividing a share among the references does not enlarge it.              *)
LEMMA SharesAreSmaller ==
  ASSUME NEW a \in Nat, NEW n \in Nat \ {0}
  PROVE  a \div n \in Nat /\ a \div n <= a
  BY SMT

(* What a region is.                                                       *)
LEMMA RegionTypes ==
  ASSUME NEW r \in Regions
  PROVE  /\ r.start \in Nat /\ r.shape \in Shapes /\ r.shape.size \in Nat \ {0}
         /\ End(r) \in Nat /\ End(r) = r.start + r.shape.size /\ r.start < End(r)
<1>1. PICK start \in 0 .. Top - 1, s \in Shapes : r = At(start, s)
  BY DEF Regions
<1>2. r.start = start /\ r.shape = s
  BY <1>1 DEF At
<1>3. start \in Nat /\ s.size \in Nat \ {0}
  BY WalkAssumption
<1>4. QED
  BY <1>2, <1>3 DEF End

(* A region contributes at most its pages: it is private or shared, and    *)
(* not both.                                                               *)
LEMMA ContributionFits ==
  ASSUME NEW s \in Shapes, walk \in {"print", "pid"}
  PROVE  /\ PrivateBytes(s) \in Nat /\ SharedBytes(s) \in Nat
         /\ PrivateBytes(s) + SharedBytes(s) <= s.size * PageSize
<1>1. /\ s.size \in Nat /\ s.refs \in Nat \ {0} /\ s.private \in Nat /\ s.shared \in Nat
      /\ s.private <= s.size /\ s.shared <= s.size
  BY WalkAssumption
<1>2. /\ s.size * PageSize \in Nat
      /\ s.private * PageSize \in Nat /\ s.private * PageSize <= s.size * PageSize
      /\ s.shared * PageSize \in Nat /\ s.shared * PageSize <= s.size * PageSize
  BY <1>1, PagesToBytes
<1>3. /\ (s.shared * PageSize) \div s.refs \in Nat
      /\ (s.shared * PageSize) \div s.refs <= s.size * PageSize
  <2>1. /\ (s.shared * PageSize) \div s.refs \in Nat
        /\ (s.shared * PageSize) \div s.refs <= s.shared * PageSize
    BY <1>1, <1>2, SharesAreSmaller
  <2>2. QED
    BY <2>1, <1>2
<1>4. IsShared(s) => ~IsPrivate(s)
  BY <1>1 DEF IsShared, IsPrivate
<1>5. CASE walk = "print" /\ IsPrivate(s)
  <2>1. PrivateBytes(s) = s.private * PageSize /\ SharedBytes(s) = 0
    BY <1>4, <1>5 DEF PrivateBytes, SharedBytes
  <2>2. QED
    BY <1>2, <2>1
<1>6. CASE walk = "print" /\ IsShared(s)
  <2>1. PrivateBytes(s) = 0 /\ SharedBytes(s) = (s.shared * PageSize) \div s.refs
    BY <1>4, <1>6 DEF PrivateBytes, SharedBytes
  <2>2. QED
    BY <1>2, <1>3, <2>1
<1>7. CASE walk = "pid"
  <2>1. PrivateBytes(s) = 0
    BY <1>7 DEF PrivateBytes
  <2>2. SharedBytes(s) = s.size * PageSize \/ SharedBytes(s) = 0
    BY <1>7 DEF SharedBytes
  <2>3. QED
    BY <1>2, <2>1, <2>2
<1>8. CASE walk = "print" /\ ~IsPrivate(s) /\ ~IsShared(s)
  <2>1. PrivateBytes(s) = 0 /\ SharedBytes(s) = 0
    BY <1>8 DEF PrivateBytes, SharedBytes
  <2>2. QED
    BY <1>2, <2>1
<1>9. QED
  BY <1>5, <1>6, <1>7, <1>8

(* Spans without a common page lie one behind the other.                   *)
LEMMA SpansApart ==
  ASSUME NEW q \in Regions, NEW r \in Regions, Span(q) \intersect Span(r) = {}
  PROVE  End(q) <= r.start \/ End(r) <= q.start
<1>1. /\ q.start \in Nat /\ End(q) \in Nat /\ q.start < End(q)
      /\ r.start \in Nat /\ End(r) \in Nat /\ r.start < End(r)
  BY RegionTypes
<1>2. q.start \notin Span(r) /\ r.start \notin Span(q)
  <2>1. q.start \in Span(q) /\ r.start \in Span(r)
    BY <1>1 DEF Span
  <2>2. QED
    BY <2>1
<1>3. QED
  BY <1>1, <1>2 DEF Span

(* Nothing is counted when a walk begins, and the regions are apart.       *)
LEMMA InvInit ==
  ASSUME Init
  PROVE  Inv
<1>1. WalkTypes
  <2>1. ASSUME NEW rs \in Spaces
        PROVE  rs \subseteq Regions
    <3>1. PICK f \in UNION {[starts -> Shapes] : starts \in SUBSET (0 .. Top - 1)} :
                 rs = Space(f)
      BY DEF Spaces
    <3>2. PICK starts \in SUBSET (0 .. Top - 1) : f \in [starts -> Shapes]
      BY <3>1
    <3>3. QED
      BY <3>1, <3>2 DEF Space, Regions
  <2>2. QED
    BY <2>1 DEF Init, WalkTypes
<1>2. Apart
  <2>1. ASSUME NEW q \in regions, NEW r \in regions, q # r
        PROVE  End(q) <= r.start \/ End(r) <= q.start
    <3>1. Span(q) \intersect Span(r) = {}
      BY <2>1 DEF Init, Fit
    <3>2. QED
      BY <1>1, <3>1, SpansApart DEF WalkTypes
  <2>2. QED
    BY <2>1 DEF Apart
<1>3. \A n \in Nat : Counted(n)
  <2>1. TAKE n \in Nat
  <2>2. n * PageSize \in Nat /\ n + Credit = n /\ private + shared = 0
    BY PagesToBytes DEF Init, Credit
  <2>3. QED
    BY <2>2 DEF Counted
<1>4. QED
  BY <1>1, <1>2, <1>3, RegionTypes DEF Inv, WalkTypes

(* What fits into some pages fits into more.                               *)
LEMMA Wider ==
  ASSUME NEW bytes \in Nat, NEW a \in Nat, NEW b \in Nat,
         bytes <= a * PageSize, a <= b
  PROVE  bytes <= b * PageSize
<1>1. a * PageSize \in Nat /\ b * PageSize \in Nat /\ a * PageSize <= b * PageSize
  BY PagesToBytes
<1>2. QED
  BY <1>1

(* So does what fits with a larger credit.                                 *)
LEMMA WiderByMore ==
  ASSUME NEW p \in Nat, NEW s \in Nat, NEW n \in Nat, NEW a \in Nat, NEW b \in Nat, a <= b
  PROVE  p + s <= (n + a) * PageSize => p + s <= (n + b) * PageSize
<1>1. /\ p + s \in Nat /\ n + a \in Nat /\ n + b \in Nat /\ n + a <= n + b
  OBVIOUS
<1>2. QED
  BY <1>1, Wider

(* One round of a loop: the region found is counted, and the walk goes on  *)
(* at its end.                                                             *)
LEMMA VisitKeepsInv ==
  ASSUME Inv, Visit
  PROVE  Inv'
<1> USE DEF Inv, WalkTypes
<1>1. PICK r \in regions :
        /\ End(r) > address /\ \A q \in regions : End(q) > address => r.start <= q.start
        /\ address' = End(r)
        /\ private' = (IF phase = "first" THEN private + PrivateBytes(r.shape) ELSE private)
        /\ shared' = (IF phase = "first" THEN shared + SharedBytes(r.shape) ELSE shared)
        /\ UNCHANGED <<regions, walk, phase, port, churn>>
  BY DEF Visit, Found
<1>2. /\ r.start \in Nat /\ r.shape \in Shapes /\ r.shape.size \in Nat \ {0}
      /\ End(r) \in Nat /\ End(r) = r.start + r.shape.size /\ r.start < End(r)
  BY RegionTypes
<1>3. Credit \in Nat /\ Credit' = Credit
  BY <1>1 DEF Credit
<1>4. /\ PrivateBytes(r.shape) \in Nat /\ SharedBytes(r.shape) \in Nat
      /\ PrivateBytes(r.shape) + SharedBytes(r.shape) <= r.shape.size * PageSize
  BY <1>2, ContributionFits
<1>5. WalkTypes'
  BY <1>1, <1>2, <1>4
<1>6. Apart'
  BY <1>1 DEF Apart, End
<1>7. private + shared <= (r.start + Credit) * PageSize
  <2>1. CASE r.start < address
    BY <1>1, <2>1 DEF Counted
  <2>2. CASE address <= r.start
    <3>1. address + Credit <= r.start + Credit
      BY <1>2, <1>3, <2>2
    <3>2. private + shared <= (address + Credit) * PageSize
      BY DEF Counted
    <3>3. QED
      BY <1>2, <1>3, <3>1, <3>2, Wider
  <2>3. QED
    BY <1>2, <2>1, <2>2
<1>8. private' + shared' <= private + shared + r.shape.size * PageSize
  <2>1. r.shape.size * PageSize \in Nat
    BY <1>2, PagesToBytes
  <2>2. CASE phase = "first"
    <3>1. private' = private + PrivateBytes(r.shape) /\ shared' = shared + SharedBytes(r.shape)
      BY <1>1, <2>2
    <3>2. QED
      BY <1>4, <2>1, <3>1
  <2>3. CASE phase # "first"
    <3>1. private' = private /\ shared' = shared
      BY <1>1, <2>3
    <3>2. QED
      BY <2>1, <3>1
  <2>4. QED
    BY <2>2, <2>3
<1>9. (r.start + Credit) * PageSize + r.shape.size * PageSize = (End(r) + Credit) * PageSize
  <2>1. End(r) + Credit = (r.start + Credit) + r.shape.size
    BY <1>2, <1>3
  <2>2. r.start + Credit \in Nat
    BY <1>2, <1>3
  <2>3. ((r.start + Credit) + r.shape.size) * PageSize
          = (r.start + Credit) * PageSize + r.shape.size * PageSize
    BY <1>2, <2>2, PagesToBytes
  <2>4. QED
    BY <2>1, <2>3
<1>10. private' + shared' <= (End(r) + Credit) * PageSize
  <2>1. (r.start + Credit) * PageSize \in Nat
    <3>1. r.start + Credit \in Nat
      BY <1>2, <1>3
    <3>2. QED
      BY <3>1, PagesToBytes
  <2>2. r.shape.size * PageSize \in Nat
    BY <1>2, PagesToBytes
  <2>3. private' \in Nat /\ shared' \in Nat /\ private \in Nat /\ shared \in Nat
    BY <1>5
  <2>4. QED
    BY <1>7, <1>8, <1>9, <2>1, <2>2, <2>3
<1>11. Counted(address)'
  BY <1>1, <1>3, <1>10 DEF Counted
<1>12. \A q \in regions' : ~(q.start < address' /\ address' < End(q))
  <2>1. TAKE q \in regions'
  <2>2. q \in regions /\ q.start \in Nat /\ End(q) \in Nat
    BY <1>1, RegionTypes
  <2>3. CASE q = r
    BY <1>1, <1>2, <2>3
  <2>4. CASE q # r
    BY <1>1, <1>2, <2>2, <2>4 DEF Apart
  <2>5. QED
    BY <2>3, <2>4
<1>13. QED
  BY <1>1, <1>5, <1>6, <1>11, <1>12 DEF End

(* The regions change and the walk does not move: the credit pays for what *)
(* the other process maps where the walk has already been.                 *)
LEMMA OthersKeepInv ==
  ASSUME Inv, Others
  PROVE  Inv'
<1> USE DEF Inv, WalkTypes
<1>1. CASE \E r \in regions : Unmap(r)
  <2>1. PICK r \in regions : Unmap(r)
    BY <1>1
  <2>2. /\ regions' = regions \ {r} /\ walk = "pid" /\ r.shape.size \in Nat
        /\ churn' = churn + r.shape.size
        /\ UNCHANGED <<walk, phase, port, address, private, shared>>
    BY <2>1, RegionTypes DEF Unmap, Churn
  <2>3. Credit \in Nat /\ Credit' \in Nat /\ Credit <= Credit'
    BY <2>2 DEF Credit
  <2>4. \A n \in Nat : Counted(n) => Counted(n)'
    <3>1. TAKE n \in Nat
    <3>2. private \in Nat /\ shared \in Nat /\ private' = private /\ shared' = shared
      BY <2>2
    <3> HIDE DEF Inv, WalkTypes
    <3>3. private + shared <= (n + Credit) * PageSize
            => private + shared <= (n + Credit') * PageSize
      BY <2>3, <3>2, WiderByMore
    <3>4. QED
      BY <3>2, <3>3 DEF Counted
  <2>5. WalkTypes' /\ Apart'
    BY <2>2 DEF Apart, End
  <2>6. QED
    BY <2>2, <2>4, <2>5, RegionTypes DEF End
<1>2. CASE \E r \in Regions : Map(r)
  <2>1. PICK r \in Regions : Map(r)
    BY <1>2
  <2>2. /\ r.start \in Nat /\ r.shape.size \in Nat /\ End(r) \in Nat
        /\ End(r) = r.start + r.shape.size
    BY RegionTypes
  <2>3. /\ regions' = regions \union {r} /\ walk = "pid"
        /\ churn' = churn + r.shape.size
        /\ UNCHANGED <<walk, phase, port, address, private, shared>>
    BY <2>1 DEF Map, Churn
  <2>4. Credit \in Nat /\ Credit' \in Nat /\ Credit' = Credit + r.shape.size
    BY <2>2, <2>3 DEF Credit
  <2>5. \A n \in Nat : Counted(n) => Counted(n)'
    BY <2>2, <2>3, <2>4, Wider DEF Counted
  <2>6. \A q \in regions : End(q) <= r.start \/ End(r) <= q.start
    <3>1. TAKE q \in regions
    <3>2. Span(q) \intersect Span(r) = {}
      BY <2>1 DEF Map, Fit
    <3>3. QED
      BY <3>2, SpansApart
  <2>7. WalkTypes' /\ Apart'
    BY <2>2, <2>3, <2>6 DEF Apart, End
  <2>8. ASSUME address < End(r)
        PROVE  Counted(r.start)'
    <3>1. address + Credit <= r.start + Credit'
      BY <2>2, <2>4, <2>8
    <3>2. private + shared <= (address + Credit) * PageSize
      BY DEF Counted
    <3>3. private + shared <= (r.start + Credit') * PageSize
      BY <2>2, <2>4, <3>1, <3>2, Wider
    <3>4. QED
      BY <2>3, <3>3 DEF Counted
  <2>9. QED
    BY <2>3, <2>5, <2>7, <2>8, RegionTypes DEF End
<1>3. CASE \E r \in regions, s \in Shapes : Reshape(r, s)
  <2>1. PICK r \in regions, s \in Shapes : Reshape(r, s)
    BY <1>3
  <2>2. /\ r.start \in Nat /\ r.shape.size \in Nat /\ At(r.start, s) \in Regions
        /\ At(r.start, s).start = r.start /\ End(At(r.start, s)) = End(r)
    <3>1. r.start \in 0 .. Top - 1
      BY DEF Regions, At
    <3>2. QED
      BY <2>1, <3>1, RegionTypes DEF Reshape, At, End, Regions
  <2>3. /\ regions' = (regions \ {r}) \union {At(r.start, s)}
        /\ churn' = churn + r.shape.size
        /\ UNCHANGED <<walk, phase, port, address, private, shared>>
    BY <2>1 DEF Reshape, Churn
  <2>4. Credit \in Nat /\ Credit' \in Nat /\ Credit <= Credit'
    BY <2>2, <2>3 DEF Credit
  <2>5. \A n \in Nat : Counted(n) => Counted(n)'
    BY <2>2, <2>3, <2>4, Wider DEF Counted
  <2>6. \A q \in regions' : \E p \in regions :
          /\ p.start = q.start /\ End(p) = End(q)
          /\ q = (IF p = r THEN At(r.start, s) ELSE p)
    BY <2>2, <2>3
  <2>7. WalkTypes'
    BY <2>2, <2>3
  <2>8. Apart'
    <3>1. ASSUME NEW q \in regions', NEW t \in regions', q # t
          PROVE  End(q) <= t.start \/ End(t) <= q.start
      <4>1. PICK p \in regions : /\ p.start = q.start /\ End(p) = End(q)
                                 /\ q = (IF p = r THEN At(r.start, s) ELSE p)
        BY <2>6
      <4>2. PICK u \in regions : /\ u.start = t.start /\ End(u) = End(t)
                                 /\ t = (IF u = r THEN At(r.start, s) ELSE u)
        BY <2>6
      <4>3. p # u
        BY <3>1, <4>1, <4>2
      <4>4. QED
        BY <4>1, <4>2, <4>3 DEF Apart
    <3>2. QED
      BY <3>1 DEF Apart, End
  <2>9. ASSUME NEW q \in regions', q.start < address, address < End(q)
        PROVE  Counted(q.start)'
    <3>1. PICK p \in regions : p.start = q.start /\ End(p) = End(q)
      BY <2>6
    <3>2. Counted(p.start) /\ p.start \in Nat
      BY <2>9, <3>1, RegionTypes
    <3>3. QED
      BY <2>3, <2>5, <3>1, <3>2
  <2>10. QED
    BY <2>3, <2>5, <2>7, <2>8, <2>9 DEF End
<1>4. QED
  BY <1>1, <1>2, <1>3 DEF Others

(* The steps that neither count nor change anything keep the invariant.    *)
LEMMA RestKeepsInv ==
  ASSUME Inv, Begin \/ BeginFails \/ LoopEnds \/ UNCHANGED vars
  PROVE  Inv'
<1>1. UNCHANGED <<regions, walk, address, private, shared, churn>>
  BY DEF Begin, BeginFails, LoopEnds, vars
<1>2. QED
  BY <1>1 DEF Inv, WalkTypes, Apart, Counted, Credit, End

(* No page is counted twice, whatever changes during the walk.             *)
THEOREM PagesAreCountedOnce == Spec => []NoPageIsCountedTwice
<1>1. Init => Inv
  BY InvInit
<1>2. Inv /\ [Next]_vars => Inv'
  BY RestKeepsInv, VisitKeepsInv, OthersKeepInv DEF Next, Walker
<1>3. Inv => NoPageIsCountedTwice
  BY DEF Inv, Counted, Credit, NoPageIsCountedTwice
<1>4. QED
  BY <1>1, <1>2, <1>3, PTL DEF Spec

-----------------------------------------------------------------------------
(***************************************************************************)
(* Sums over finite sets: what the fold of the report's totals adds up to  *)
(* does not depend on the order in which it takes the regions.             *)
(***************************************************************************)
Some(s) == CHOOSE x \in s : TRUE

\* g gives every subset of S the sum of the weights w of its elements.
Sums(g, w, S) ==
  g = [s \in SUBSET S |-> IF s = {} THEN 0 ELSE w[Some(s)] + g[s \ {Some(s)}]]

SumOver(w, S) == (CHOOSE g : Sums(g, w, S))[S]

(* Among finite sets there is a smallest.                                  *)
LEMMA Smallest ==
  ASSUME NEW S, IsFiniteSet(S), NEW Bad \in SUBSET (SUBSET S), Bad # {}
  PROVE  \E T \in Bad : \A U \in SUBSET T : U # T => U \notin Bad
<1>1. IsWellFoundedOn(StrictSubsetOrdering(S), SUBSET S)
  BY FS_StrictSubsetOrderingWellFounded, FS_FiniteSubsetsOfFinite
<1>2. PICK T \in Bad : \A U \in Bad : <<U, T>> \notin StrictSubsetOrdering(S)
  BY <1>1, WFMin
<1>3. ASSUME NEW U \in SUBSET T, U # T, U \in Bad
      PROVE  FALSE
  BY <1>2, <1>3 DEF StrictSubsetOrdering
<1>4. QED
  BY <1>3

(* Taking some element out of a set makes it smaller.                      *)
LEMMA SomeIsIn ==
  ASSUME NEW s, s # {}
  PROVE  Some(s) \in s /\ s \ {Some(s)} \in SUBSET s /\ s \ {Some(s)} # s
<1>1. Some(s) \in s
  BY DEF Some
<1>2. QED
  BY <1>1

(* The recursion, one subset at a time.                                    *)
LEMMA SumsAt ==
  ASSUME NEW g, NEW w, NEW S, Sums(g, w, S), NEW s \in SUBSET S
  PROVE  g[s] = IF s = {} THEN 0 ELSE w[Some(s)] + g[s \ {Some(s)}]
<1> DEFINE F(t) == IF t = {} THEN 0 ELSE w[Some(t)] + g[t \ {Some(t)}]
<1>1. g = [t \in SUBSET S |-> F(t)]
  BY DEF Sums
<1> HIDE DEF F
<1>2. g[s] = F(s)
  BY <1>1
<1>3. QED
  BY <1>2 DEF F

(* Two such functions agree on the subsets they share, whatever their      *)
(* domains are.                                                            *)
LEMMA SumsAgree ==
  ASSUME NEW g, NEW h, NEW w, NEW S, NEW T, IsFiniteSet(S),
         Sums(g, w, S), Sums(h, w, T), NEW s \in SUBSET (S \intersect T)
  PROVE  g[s] = h[s]
<1> DEFINE Bad == {t \in SUBSET (S \intersect T) : g[t] # h[t]}
<1>1. SUFFICES ASSUME Bad # {} PROVE FALSE
  OBVIOUS
<1>2. IsFiniteSet(S \intersect T)
  BY FS_Intersection
<1>3. PICK t \in Bad : \A u \in SUBSET t : u # t => u \notin Bad
  <2>1. Bad \in SUBSET (SUBSET (S \intersect T))
    OBVIOUS
  <2> HIDE DEF Bad
  <2>2. QED
    BY <1>1, <1>2, <2>1, Smallest
<1>4. t \in SUBSET S /\ t \in SUBSET T /\ g[t] # h[t]
  OBVIOUS
<1>5. /\ g[t] = IF t = {} THEN 0 ELSE w[Some(t)] + g[t \ {Some(t)}]
      /\ h[t] = IF t = {} THEN 0 ELSE w[Some(t)] + h[t \ {Some(t)}]
  BY <1>4, SumsAt
<1>6. t # {}
  BY <1>4, <1>5
<1>7. g[t \ {Some(t)}] = h[t \ {Some(t)}]
  <2>1. t \ {Some(t)} \in SUBSET t /\ t \ {Some(t)} # t
    BY <1>6, SomeIsIn
  <2>2. t \ {Some(t)} \notin Bad /\ t \ {Some(t)} \in SUBSET (S \intersect T)
    BY <1>3, <1>4, <2>1
  <2>3. QED
    BY <2>2
<1>8. QED
  BY <1>4, <1>5, <1>6, <1>7

(* There is such a function for every finite set, since a smallest set     *)
(* without one would have one: it is made from those of its subsets.       *)
LEMMA SumsExist ==
  ASSUME NEW w, NEW S, IsFiniteSet(S)
  PROVE  Sums(CHOOSE g : Sums(g, w, S), w, S)
<1> DEFINE Bad == {T \in SUBSET S : ~ \E g : Sums(g, w, T)}
<1>1. ASSUME Bad # {} PROVE FALSE
  <2>1. PICK T \in Bad : \A U \in SUBSET T : U # T => U \notin Bad
    <3>1. Bad \in SUBSET (SUBSET S)
      OBVIOUS
    <3> HIDE DEF Bad
    <3>2. QED
      BY <1>1, <3>1, Smallest
  <2>2. \A U \in SUBSET T : U # T => Sums(CHOOSE g : Sums(g, w, U), w, U)
    <3>1. TAKE U \in SUBSET T
    <3>2. HAVE U # T
    <3>3. U \notin Bad /\ U \in SUBSET S
      BY <2>1, <3>2
    <3>4. \E g : Sums(g, w, U)
      BY <3>3
    <3> HIDE DEF Bad
    <3>5. QED
      BY <3>4
  <2> DEFINE g == [s \in SUBSET T |-> IF s = {} THEN 0 ELSE w[Some(s)] + SumOver(w, s \ {Some(s)})]
  <2>3. ASSUME NEW U \in SUBSET T, U # T
        PROVE  g[U] = SumOver(w, U)
    <3> DEFINE h == CHOOSE k : Sums(k, w, U)
    <3>1. Sums(h, w, U)
      BY <2>2, <2>3
    <3> HIDE DEF h
    <3>2. h[U] = IF U = {} THEN 0 ELSE w[Some(U)] + h[U \ {Some(U)}]
      BY <3>1, SumsAt
    <3>3. ASSUME U # {}
          PROVE  h[U \ {Some(U)}] = SumOver(w, U \ {Some(U)})
      <4> DEFINE V == U \ {Some(U)}
                 k == CHOOSE l : Sums(l, w, V)
      <4>1. V \in SUBSET T /\ V # T /\ V \in SUBSET U
        BY <2>3, <3>3, SomeIsIn
      <4>2. Sums(k, w, V)
        BY <2>2, <4>1
      <4>3. IsFiniteSet(U)
        BY <2>1, FS_Subset
      <4>4. V \in SUBSET (U \intersect V)
        BY <4>1
      <4>5. SumOver(w, V) = k[V]
        BY DEF SumOver
      <4> HIDE DEF V, k
      <4>6. h[V] = k[V]
        BY <3>1, <4>2, <4>3, <4>4, SumsAgree
      <4>7. QED
        BY <4>5, <4>6 DEF V
    <3>4. SumOver(w, U) = h[U]
      BY DEF SumOver, h
    <3>5. g[U] = IF U = {} THEN 0 ELSE w[Some(U)] + SumOver(w, U \ {Some(U)})
      OBVIOUS
    <3>6. QED
      BY <3>2, <3>3, <3>4, <3>5
  <2>4. ASSUME NEW s \in SUBSET T, s # {}
        PROVE  g[s \ {Some(s)}] = SumOver(w, s \ {Some(s)})
    <3>1. s \ {Some(s)} \in SUBSET T /\ s \ {Some(s)} # T
      BY <2>4, SomeIsIn
    <3> HIDE DEF g
    <3>2. QED
      BY <2>3, <3>1
  <2>5. Sums(g, w, T)
    <3> DEFINE F(s) == IF s = {} THEN 0 ELSE w[Some(s)] + SumOver(w, s \ {Some(s)})
               G(s) == IF s = {} THEN 0 ELSE w[Some(s)] + g[s \ {Some(s)}]
    <3>1. \A s \in SUBSET T : F(s) = G(s)
      <4> HIDE DEF g
      <4>1. QED
        BY <2>4
    <3>2. g = [s \in SUBSET T |-> F(s)]
      OBVIOUS
    <3> HIDE DEF g
    <3>3. Sums(g, w, T) <=> g = [s \in SUBSET T |-> G(s)]
      BY DEF Sums
    <3> HIDE DEF F, G
    <3>4. [s \in SUBSET T |-> F(s)] = [s \in SUBSET T |-> G(s)]
      BY <3>1
    <3>5. QED
      BY <3>2, <3>3, <3>4
  <2> HIDE DEF g
  <2>6. QED
    BY <2>1, <2>5
<1>2. \E g : Sums(g, w, S)
  BY <1>1
<1> HIDE DEF Bad
<1>3. QED
  BY <1>2

(* A sum over a finite set is a number.  Taking out any element lessens it *)
(* by the weight of that element.                                          *)
LEMMA SumStep ==
  ASSUME NEW w, NEW S, IsFiniteSet(S)
  PROVE  SumOver(w, S) = IF S = {} THEN 0 ELSE w[Some(S)] + SumOver(w, S \ {Some(S)})
<1> DEFINE g == CHOOSE k : Sums(k, w, S)
<1>1. Sums(g, w, S) /\ SumOver(w, S) = g[S]
  BY SumsExist DEF SumOver
<1> HIDE DEF g
<1>2. g[S] = IF S = {} THEN 0 ELSE w[Some(S)] + g[S \ {Some(S)}]
  BY <1>1, SumsAt
<1>3. ASSUME S # {}
      PROVE  g[S \ {Some(S)}] = SumOver(w, S \ {Some(S)})
  <2> DEFINE V == S \ {Some(S)}
             h == CHOOSE k : Sums(k, w, V)
  <2>1. V \in SUBSET (S \intersect V) /\ IsFiniteSet(V)
    BY FS_RemoveElement
  <2>2. Sums(h, w, V) /\ SumOver(w, V) = h[V]
    BY <2>1, SumsExist DEF SumOver
  <2> HIDE DEF V, h
  <2>3. g[V] = h[V]
    BY <1>1, <2>1, <2>2, SumsAgree
  <2>4. QED
    BY <2>2, <2>3 DEF V
<1>4. QED
  BY <1>1, <1>2, <1>3

LEMMA SumRemove ==
  ASSUME NEW S, IsFiniteSet(S), NEW w, \A y \in S : w[y] \in Nat, NEW x \in S
  PROVE  SumOver(w, S) \in Nat /\ SumOver(w, S \ {x}) \in Nat
         /\ SumOver(w, S) = w[x] + SumOver(w, S \ {x})
<1> DEFINE Number(T) == SumOver(w, T) \in Nat
           Splits(T) == \A y \in T : SumOver(w, T) = w[y] + SumOver(w, T \ {y})
           Bad == {T \in SUBSET S : ~(Number(T) /\ Splits(T))}
<1>1. ASSUME Bad # {} PROVE FALSE
  <2>1. PICK T \in Bad : \A U \in SUBSET T : U # T => U \notin Bad
    <3>1. Bad \in SUBSET (SUBSET S)
      OBVIOUS
    <3> HIDE DEF Bad
    <3>2. QED
      BY <1>1, <3>1, Smallest
  <2>2. \A U \in SUBSET T : U # T => Number(U) /\ Splits(U)
    BY <2>1
  <2>3. T \in SUBSET S /\ IsFiniteSet(T)
    BY FS_Subset
  <2>4. ~(Number(T) /\ Splits(T))
    OBVIOUS
  <2> HIDE DEF Bad
  <2>5. SumOver(w, T) = IF T = {} THEN 0 ELSE w[Some(T)] + SumOver(w, T \ {Some(T)})
    BY <2>3, SumStep
  <2>6. T # {}
    BY <2>4, <2>5
  <2> DEFINE c == Some(T)
  <2>7. c \in T /\ w[c] \in Nat
    BY <2>3, <2>6, SomeIsIn
  <2>8. SumOver(w, T) = w[c] + SumOver(w, T \ {c})
    BY <2>5, <2>6
  <2> HIDE DEF c
  <2>9. T \ {c} \in SUBSET T /\ T \ {c} # T
    BY <2>7
  <2>10. Number(T \ {c}) /\ Splits(T \ {c})
    <3> HIDE DEF Number, Splits
    <3>1. QED
      BY <2>2, <2>9
  <2>11. Number(T)
    BY <2>7, <2>8, <2>10
  <2>12. ASSUME NEW y \in T
         PROVE  SumOver(w, T) = w[y] + SumOver(w, T \ {y})
    <3>1. CASE y = c
      BY <2>8, <3>1
    <3>2. CASE y # c
      <4>1. y \in T \ {c} /\ c \in T \ {y} /\ w[y] \in Nat
        BY <2>3, <2>7, <3>2
      <4>2. SumOver(w, T \ {c}) = w[y] + SumOver(w, (T \ {c}) \ {y})
        BY <2>10, <4>1
      <4>3. T \ {y} \in SUBSET T /\ T \ {y} # T
        OBVIOUS
      <4>4. Splits(T \ {y})
        <5> HIDE DEF Number, Splits
        <5>1. QED
          BY <2>2, <4>3
      <4>5. SumOver(w, T \ {y}) = w[c] + SumOver(w, (T \ {y}) \ {c})
        BY <4>1, <4>4
      <4>6. (T \ {c}) \ {y} = (T \ {y}) \ {c}
        OBVIOUS
      <4>7. Number((T \ {c}) \ {y})
        <5>1. (T \ {c}) \ {y} \in SUBSET T /\ (T \ {c}) \ {y} # T
          BY <2>9
        <5> HIDE DEF Number, Splits
        <5>2. QED
          BY <2>2, <5>1
      <4>8. QED
        BY <2>7, <2>8, <4>1, <4>2, <4>5, <4>6, <4>7
    <3>3. QED
      BY <3>1, <3>2
  <2>13. QED
    BY <2>4, <2>11, <2>12
<1>2. Number(S) /\ Splits(S)
  BY <1>1
<1>3. Number(S \ {x})
  BY <1>1
<1>4. QED
  BY <1>2, <1>3

(* The sum of nothing is 0, and every sum is a number.                     *)
LEMMA SumIsNat ==
  ASSUME NEW S, IsFiniteSet(S), NEW w, \A y \in S : w[y] \in Nat
  PROVE  SumOver(w, S) \in Nat /\ (S = {} => SumOver(w, S) = 0)
<1>1. CASE S = {}
  <2>1. SumOver(w, S) = IF S = {} THEN 0 ELSE w[Some(S)] + SumOver(w, S \ {Some(S)})
    BY SumStep
  <2>2. SumOver(w, S) = 0
    BY <1>1, <2>1
  <2>3. QED
    BY <2>2
<1>2. CASE S # {}
  <2>1. PICK x \in S : TRUE
    BY <1>2
  <2>2. QED
    BY <1>2, <2>1, SumRemove
<1>3. QED
  BY <1>1, <1>2

(* Two sets that are the same but for one element each have sums that      *)
(* differ by at most what these elements weigh.                            *)
LEMMA OneElementApart ==
  ASSUME NEW C, NEW D, IsFiniteSet(C), IsFiniteSet(D), NEW x, NEW y, C \ {x} = D \ {y},
         NEW w, \A z \in C \union D : w[z] \in Nat, NEW m \in Nat,
         x \in C => w[x] <= m, y \in D => w[y] <= m
  PROVE  Distance(SumOver(w, C), SumOver(w, D)) <= m
<1> DEFINE rest == SumOver(w, C \ {x})
<1>1. rest \in Nat /\ SumOver(w, C) \in Nat /\ SumOver(w, D) \in Nat
  <2>1. IsFiniteSet(C \ {x})
    BY FS_RemoveElement
  <2>2. QED
    BY <2>1, SumIsNat
<1>2. SumOver(w, C) = rest \/ \E n \in 0 .. m : SumOver(w, C) = n + rest
  <2>1. CASE x \in C
    <3>1. SumOver(w, C) = w[x] + rest /\ w[x] \in 0 .. m
      BY <2>1, SumRemove
    <3>2. QED
      BY <3>1
  <2>2. CASE x \notin C
    <3>1. C \ {x} = C
      BY <2>2
    <3>2. QED
      BY <3>1
  <2>3. QED
    BY <2>1, <2>2
<1>3. SumOver(w, D) = rest \/ \E n \in 0 .. m : SumOver(w, D) = n + rest
  <2>1. CASE y \in D
    <3>1. SumOver(w, D) = w[y] + SumOver(w, D \ {y}) /\ w[y] \in 0 .. m
      BY <2>1, SumRemove
    <3>2. QED
      BY <3>1
  <2>2. CASE y \notin D
    <3>1. D \ {y} = D
      BY <2>2
    <3>2. QED
      BY <3>1
  <2>3. QED
    BY <2>1, <2>2
<1> HIDE DEF rest
<1>4. QED
  BY <1>1, <1>2, <1>3 DEF Distance

(* A part of a set has at most the sum of the whole.                       *)
LEMMA SumOfPart ==
  ASSUME NEW S, IsFiniteSet(S), NEW w, \A y \in S : w[y] \in Nat, NEW C \in SUBSET S
  PROVE  SumOver(w, C) <= SumOver(w, S)
<1> DEFINE Bad == {T \in SUBSET S : C \subseteq T /\ ~(SumOver(w, C) <= SumOver(w, T))}
<1>1. ASSUME Bad # {} PROVE FALSE
  <2>1. PICK T \in Bad : \A U \in SUBSET T : U # T => U \notin Bad
    <3>1. Bad \in SUBSET (SUBSET S)
      OBVIOUS
    <3> HIDE DEF Bad
    <3>2. QED
      BY <1>1, <3>1, Smallest
  <2>2. T \in SUBSET S /\ C \subseteq T /\ ~(SumOver(w, C) <= SumOver(w, T))
    BY <2>1
  <2>3. IsFiniteSet(T) /\ IsFiniteSet(C) /\ SumOver(w, C) \in Nat
    BY <2>2, FS_Subset, SumIsNat
  <2>4. T # C
    BY <2>2, <2>3
  <2>5. PICK x \in T : x \notin C
    BY <2>2, <2>4
  <2>6. SumOver(w, C) <= SumOver(w, T \ {x})
    BY <2>1, <2>2, <2>5
  <2>7. /\ SumOver(w, T \ {x}) \in Nat /\ w[x] \in Nat
        /\ SumOver(w, T) = w[x] + SumOver(w, T \ {x})
    BY <2>2, <2>3, <2>5, SumRemove
  <2> HIDE DEF Bad
  <2>8. QED
    BY <2>2, <2>3, <2>6, <2>7
<1>2. QED
  BY <1>1

-----------------------------------------------------------------------------
(***************************************************************************)
(* The totals of the report                                                *)
(***************************************************************************)
PrivateWeights == [r \in Regions |-> PrivateBytes(r.shape)]
SharedWeights == [r \in Regions |-> SharedBytes(r.shape)]

\* The regions the walk has passed; in the end, all there are.
Passed == {r \in regions : End(r) <= address}
Covered == IF phase \in {"second", "done"} THEN regions ELSE Passed

\* A sum counted at most, and if the walk was not cut short, exactly, but for
\* what changed.
Close(bytes, w) ==
  /\ bytes <= SumOver(w, Covered) + churn * PageSize
  /\ ~cut => SumOver(w, Covered) <= bytes + churn * PageSize

\* The property speaks of the end.  On the way there, what was counted is
\* close to the sum over the regions the walk has passed.
DriftInv ==
  /\ Close(private, PrivateWeights) /\ Close(shared, SharedWeights)
  /\ cut \in BOOLEAN /\ (cut = TRUE => phase \in {"second", "done"})

(* Regions that do not overlap are finitely many, since each starts at a   *)
(* page of its own.                                                        *)
LEMMA RegionsAreFinite ==
  ASSUME NEW R \in SUBSET Regions,
         \A q, r \in R : q # r => End(q) <= r.start \/ End(r) <= q.start
  PROVE  IsFiniteSet(R)
<1> DEFINE f == [r \in R |-> r.start]
<1>1. \A r \in R : r.start \in 0 .. Top - 1 /\ r.start \in Nat /\ End(r) \in Nat /\ r.start < End(r)
  <2>1. TAKE r \in R
  <2>2. r.start \in 0 .. Top - 1
    BY DEF Regions, At
  <2>3. QED
    BY <2>2, RegionTypes
<1>2. f \in Injection(R, 0 .. Top - 1)
  <2>1. f \in [R -> 0 .. Top - 1]
    BY <1>1
  <2>2. \A q, r \in R : q.start = r.start => q = r
    BY <1>1
  <2>3. \A q, r \in R : f[q] = f[r] => q = r
    BY <2>2
  <2> HIDE DEF f
  <2>4. QED
    BY <2>1, <2>3 DEF Injection, IsInjective
<1>3. IsFiniteSet(0 .. Top - 1)
  BY FS_Interval, WalkAssumption
<1> HIDE DEF f
<1>4. QED
  BY <1>2, <1>3, FS_Injection

(* The fold of the report is the sum of what the regions weigh: private.    *)
LEMMA PrivateWeightsTotal ==
  ASSUME WalkTypes, IsFiniteSet(regions)
  PROVE  Total(PrivateBytes) = SumOver(PrivateWeights, regions)
<1> DEFINE H(g) == [s \in SUBSET regions |->
                     IF s = {} THEN 0 ELSE PrivateBytes(Some(s).shape) + g[s \ {Some(s)}]]
           total == CHOOSE g : g = H(g)
<1>1. ASSUME NEW g
      PROVE  Sums(g, PrivateWeights, regions) <=> g = H(g)
  <2>1. ASSUME NEW s \in SUBSET regions, s # {}
        PROVE  PrivateWeights[Some(s)] = PrivateBytes(Some(s).shape)
    <3>1. Some(s) \in Regions
      BY <2>1, SomeIsIn DEF WalkTypes
    <3>2. QED
      BY <3>1 DEF PrivateWeights
  <2>2. H(g) = [s \in SUBSET regions |->
                  IF s = {} THEN 0 ELSE PrivateWeights[Some(s)] + g[s \ {Some(s)}]]
    BY <2>1
  <2>3. QED
    BY <2>2 DEF Sums
<1>2. Total(PrivateBytes) = total[regions]
  BY DEF Total, MapThenSumSet, MapThenFoldSet, Some
<1> DEFINE sums == CHOOSE g : Sums(g, PrivateWeights, regions)
<1>3. Sums(sums, PrivateWeights, regions)
  BY SumsExist
<1> HIDE DEF H
<1>4. total = H(total)
  <2>1. sums = H(sums)
    BY <1>1, <1>3
  <2>2. QED
    BY <2>1
<1>5. SumOver(PrivateWeights, regions) = sums[regions]
  BY DEF SumOver
<1> HIDE DEF total, sums
<1>6. Sums(total, PrivateWeights, regions)
  BY <1>1, <1>4
<1>7. total[regions] = sums[regions]
  <2>1. regions \in SUBSET (regions \intersect regions)
    OBVIOUS
  <2>2. QED
    BY <1>3, <1>6, <2>1, SumsAgree
<1>8. QED
  BY <1>2, <1>5, <1>7

(* The same for what is shared.                                             *)
LEMMA SharedWeightsTotal ==
  ASSUME WalkTypes, IsFiniteSet(regions)
  PROVE  Total(SharedBytes) = SumOver(SharedWeights, regions)
<1> DEFINE H(g) == [s \in SUBSET regions |->
                     IF s = {} THEN 0 ELSE SharedBytes(Some(s).shape) + g[s \ {Some(s)}]]
           total == CHOOSE g : g = H(g)
<1>1. ASSUME NEW g
      PROVE  Sums(g, SharedWeights, regions) <=> g = H(g)
  <2>1. ASSUME NEW s \in SUBSET regions, s # {}
        PROVE  SharedWeights[Some(s)] = SharedBytes(Some(s).shape)
    <3>1. Some(s) \in Regions
      BY <2>1, SomeIsIn DEF WalkTypes
    <3>2. QED
      BY <3>1 DEF SharedWeights
  <2>2. H(g) = [s \in SUBSET regions |->
                  IF s = {} THEN 0 ELSE SharedWeights[Some(s)] + g[s \ {Some(s)}]]
    BY <2>1
  <2>3. QED
    BY <2>2 DEF Sums
<1>2. Total(SharedBytes) = total[regions]
  BY DEF Total, MapThenSumSet, MapThenFoldSet, Some
<1> DEFINE sums == CHOOSE g : Sums(g, SharedWeights, regions)
<1>3. Sums(sums, SharedWeights, regions)
  BY SumsExist
<1> HIDE DEF H
<1>4. total = H(total)
  <2>1. sums = H(sums)
    BY <1>1, <1>3
  <2>2. QED
    BY <2>1
<1>5. SumOver(SharedWeights, regions) = sums[regions]
  BY DEF SumOver
<1> HIDE DEF total, sums
<1>6. Sums(total, SharedWeights, regions)
  BY <1>1, <1>4
<1>7. total[regions] = sums[regions]
  <2>1. regions \in SUBSET (regions \intersect regions)
    OBVIOUS
  <2>2. QED
    BY <1>3, <1>6, <2>1, SumsAgree
<1>8. QED
  BY <1>2, <1>5, <1>7

(* A region weighs at most its pages.                                      *)
LEMMA WeightsFit ==
  ASSUME walk \in {"print", "pid"}
  PROVE  \A w \in {PrivateWeights, SharedWeights} : \A r \in Regions :
           w[r] \in Nat /\ w[r] <= r.shape.size * PageSize
<1>1. ASSUME NEW r \in Regions
      PROVE  /\ PrivateBytes(r.shape) \in Nat /\ PrivateBytes(r.shape) <= r.shape.size * PageSize
             /\ SharedBytes(r.shape) \in Nat /\ SharedBytes(r.shape) <= r.shape.size * PageSize
  <2>1. r.shape \in Shapes /\ r.shape.size * PageSize \in Nat
    BY RegionTypes, PagesToBytes
  <2>2. QED
    BY <2>1, ContributionFits
<1>2. QED
  BY <1>1 DEF PrivateWeights, SharedWeights

(* A change of n pages moves a sum by at most n pages.                     *)
LEMMA ChangeMovesSum ==
  ASSUME NEW C, NEW D, IsFiniteSet(C), IsFiniteSet(D), NEW x, NEW y, C \ {x} = D \ {y},
         NEW w, \A z \in C \union D : w[z] \in Nat,
         NEW n \in Nat, NEW k \in Nat, NEW bytes \in Nat,
         x \in C => w[x] <= n * PageSize, y \in D => w[y] <= n * PageSize
  PROVE  /\ bytes <= SumOver(w, C) + k * PageSize => bytes <= SumOver(w, D) + (k + n) * PageSize
         /\ SumOver(w, C) <= bytes + k * PageSize => SumOver(w, D) <= bytes + (k + n) * PageSize
<1>1. /\ n * PageSize \in Nat /\ k * PageSize \in Nat
      /\ (k + n) * PageSize = k * PageSize + n * PageSize
  BY PagesToBytes
<1>2. Distance(SumOver(w, C), SumOver(w, D)) <= n * PageSize
  BY <1>1, OneElementApart
<1>3. SumOver(w, C) \in Nat /\ SumOver(w, D) \in Nat
  BY SumIsNat
<1>4. QED
  BY <1>1, <1>2, <1>3 DEF Distance

(* One round: the region found is counted, and it alone is passed.         *)
LEMMA VisitKeepsDrift ==
  ASSUME Inv, DriftInv, Visit
  PROVE  DriftInv'
<1>1. PICK r \in regions :
        /\ End(r) > address /\ \A q \in regions : End(q) > address => r.start <= q.start
        /\ address' = End(r)
        /\ private' = (IF phase = "first" THEN private + PrivateBytes(r.shape) ELSE private)
        /\ shared' = (IF phase = "first" THEN shared + SharedBytes(r.shape) ELSE shared)
        /\ UNCHANGED <<regions, walk, phase, port, churn, cut>>
  BY DEF Visit, Found
<1>2. IsFiniteSet(regions) /\ regions \subseteq Regions /\ walk \in {"print", "pid"}
      /\ address \in Nat /\ private \in Nat /\ shared \in Nat /\ churn * PageSize \in Nat
  BY RegionsAreFinite, PagesToBytes DEF Inv, WalkTypes, Apart
<1>3. /\ PrivateWeights' = PrivateWeights /\ SharedWeights' = SharedWeights
      /\ PrivateWeights[r] = PrivateBytes(r.shape) /\ SharedWeights[r] = SharedBytes(r.shape)
  BY <1>1, <1>2 DEF PrivateWeights, SharedWeights, PrivateBytes, SharedBytes
<1>4. CASE phase = "first"
  <2>1. Covered = Passed /\ Covered' = Passed'
    BY <1>1, <1>4 DEF Covered
  <2>2. r \in Passed' /\ Passed' \ {r} = Passed
    <3>1. \A q \in regions : q.start \in Nat /\ End(q) \in Nat /\ q.start < End(q)
      BY <1>2, RegionTypes
    <3>2. \A q \in regions : q # r => End(q) <= r.start \/ End(r) <= q.start
      BY DEF Inv, Apart
    <3>3. \A q \in regions : q # r => (End(q) <= End(r) <=> End(q) <= address)
      BY <1>1, <1>2, <3>1, <3>2
    <3>4. Passed' = {q \in regions : End(q) <= End(r)}
      BY <1>1 DEF Passed, End
    <3>5. QED
      BY <1>1, <1>2, <3>1, <3>3, <3>4 DEF Passed
  <2>3. IsFiniteSet(Passed') /\ Passed' \subseteq Regions
    <3>1. Passed' \in SUBSET regions
      BY <1>1 DEF Passed
    <3>2. QED
      BY <1>2, <3>1, FS_Subset
  <2>4. ASSUME NEW w \in {PrivateWeights, SharedWeights}
        PROVE  /\ SumOver(w, Passed') = w[r] + SumOver(w, Passed)
               /\ SumOver(w, Passed) \in Nat /\ w[r] \in Nat
    <3>1. \A q \in Passed' : w[q] \in Nat
      BY <1>2, <2>3, WeightsFit
    <3>2. QED
      BY <2>2, <2>3, <3>1, SumRemove
  <2>5. ~cut
    BY <1>4 DEF DriftInv
  <2>6. ASSUME NEW bytes \in Nat, NEW w \in {PrivateWeights, SharedWeights}, Close(bytes, w)
        PROVE  /\ bytes + w[r] <= SumOver(w, Passed') + churn * PageSize
               /\ SumOver(w, Passed') <= bytes + w[r] + churn * PageSize
    <3>1. /\ bytes <= SumOver(w, Passed) + churn * PageSize
          /\ SumOver(w, Passed) <= bytes + churn * PageSize
      BY <2>1, <2>5, <2>6 DEF Close
    <3>2. QED
      BY <1>2, <2>4, <3>1
  <2>7. /\ private' = private + PrivateWeights[r] /\ shared' = shared + SharedWeights[r]
        /\ churn' = churn /\ cut' = cut /\ phase' = phase
    BY <1>1, <1>3, <1>4
  <2>8. Close(private, PrivateWeights)'
    BY <1>2, <1>3, <2>1, <2>6, <2>7 DEF DriftInv, Close
  <2>9. Close(shared, SharedWeights)'
    BY <1>2, <1>3, <2>1, <2>6, <2>7 DEF DriftInv, Close
  <2>10. QED
    BY <2>5, <2>7, <2>8, <2>9 DEF DriftInv
<1>5. CASE phase # "first"
  <2>1. Covered' = Covered
    BY <1>1, <1>5 DEF Covered, Visit, Walking
  <2>2. QED
    BY <1>1, <1>3, <1>5, <2>1 DEF DriftInv, Close
<1>6. QED
  BY <1>4, <1>5

(* A region that changes, comes or goes is the only one of which the walk  *)
(* may now have passed another than it counted.                            *)
LEMMA OthersKeepDrift ==
  ASSUME Inv, Inv', DriftInv, Others
  PROVE  DriftInv'
<1>1. /\ UNCHANGED <<walk, phase, port, address, private, shared, cut>>
      /\ address \in Nat /\ private \in Nat /\ shared \in Nat /\ churn \in Nat
      /\ walk \in {"print", "pid"}
  BY DEF Others, Unmap, Reshape, Map, Churn, Inv, WalkTypes
<1>2. /\ IsFiniteSet(regions) /\ regions \subseteq Regions
      /\ IsFiniteSet(regions') /\ regions' \subseteq Regions
  <2>1. IsFiniteSet(regions) /\ regions \subseteq Regions
    BY RegionsAreFinite DEF Inv, WalkTypes, Apart
  <2>2. /\ regions' \subseteq Regions
        /\ \A q, r \in regions' : q # r => End(q) <= r.start \/ End(r) <= q.start
    BY DEF Inv, WalkTypes, Apart, End
  <2>3. QED
    BY <2>1, <2>2, RegionsAreFinite
<1>3. PrivateWeights' = PrivateWeights /\ SharedWeights' = SharedWeights
  BY <1>1 DEF PrivateWeights, SharedWeights, PrivateBytes, SharedBytes
<1>4. PICK x \in Regions, y \in Regions :
        /\ regions \ {x} = regions' \ {y}
        /\ x.shape.size = y.shape.size /\ End(x) = End(y)
        /\ churn' = churn + x.shape.size
  <2>1. CASE \E r \in regions : Unmap(r)
    BY <1>2, <2>1 DEF Unmap, Churn
  <2>2. CASE \E r \in Regions : Map(r)
    <3>1. PICK r \in Regions : Map(r)
      BY <2>2
    <3>2. regions \ {r} = regions' \ {r} /\ churn' = churn + r.shape.size
      BY <3>1 DEF Map, Churn
    <3>3. QED
      BY <3>2
  <2>3. CASE \E r \in regions, s \in Shapes : Reshape(r, s)
    <3>1. PICK r \in regions, s \in Shapes : Reshape(r, s)
      BY <2>3
    <3>2. r \in Regions /\ r.start \in 0 .. Top - 1
      BY <1>2 DEF Regions, At
    <3>3. /\ regions' = (regions \ {r}) \union {At(r.start, s)}
          /\ s.size = r.shape.size /\ churn' = churn + s.size
      BY <3>1 DEF Reshape, Churn
    <3>4. /\ At(r.start, s) \in Regions /\ End(At(r.start, s)) = End(r)
          /\ At(r.start, s).shape.size = r.shape.size /\ At(r.start, s).start = r.start
      BY <3>2, <3>3 DEF Regions, At, End
    <3>5. At(r.start, s) \notin regions \ {r}
      <4>1. \A q \in regions : q # r => End(q) <= r.start \/ End(r) <= q.start
        BY DEF Inv, Apart
      <4>2. r.start \in Nat /\ End(r) \in Nat /\ r.start < End(r)
        BY <3>2, RegionTypes
      <4>3. QED
        BY <3>4, <4>1, <4>2
    <3>6. regions \ {r} = regions' \ {At(r.start, s)}
      BY <3>3, <3>5
    <3>7. QED
      BY <3>2, <3>3, <3>4, <3>6
  <2>4. QED
    BY <2>1, <2>2, <2>3 DEF Others
<1>5. Covered \ {x} = Covered' \ {y}
  <2>1. \A q : End(q)' = End(q)
    BY DEF End
  <2>2. CASE phase \in {"second", "done"}
    BY <1>1, <1>4, <2>2 DEF Covered
  <2>3. CASE phase \notin {"second", "done"}
    <3>1. Passed' = {q \in regions' : End(q) <= address}
      BY <1>1 DEF Passed, End
    <3>2. Passed \ {x} = Passed' \ {y}
      BY <1>4, <3>1 DEF Passed
    <3>3. QED
      BY <1>1, <2>3, <3>2 DEF Covered
  <2>4. QED
    BY <2>2, <2>3
<1>6. /\ IsFiniteSet(Covered) /\ Covered \subseteq Regions
      /\ IsFiniteSet(Covered') /\ Covered' \subseteq Regions
  <2>1. Covered \in SUBSET regions /\ Covered' \in SUBSET regions'
    BY DEF Covered, Passed
  <2>2. QED
    BY <1>2, <2>1, FS_Subset
<1>7. ASSUME NEW bytes \in Nat, NEW w \in {PrivateWeights, SharedWeights}, Close(bytes, w)
      PROVE  /\ bytes <= SumOver(w, Covered') + churn' * PageSize
             /\ ~cut => SumOver(w, Covered') <= bytes + churn' * PageSize
  <2>1. x.shape.size \in Nat
    BY RegionTypes
  <2>2. /\ w[x] <= x.shape.size * PageSize /\ w[y] <= x.shape.size * PageSize
        /\ \A z \in Covered \union Covered' : w[z] \in Nat
    BY <1>1, <1>4, <1>6, WeightsFit
  <2>3. /\ bytes <= SumOver(w, Covered) + churn * PageSize
             => bytes <= SumOver(w, Covered') + (churn + x.shape.size) * PageSize
        /\ SumOver(w, Covered) <= bytes + churn * PageSize
             => SumOver(w, Covered') <= bytes + (churn + x.shape.size) * PageSize
    BY <1>1, <1>5, <1>6, <2>1, <2>2, ChangeMovesSum
  <2>4. QED
    BY <1>4, <1>7, <2>3 DEF Close
<1>8. Close(private, PrivateWeights)' /\ Close(shared, SharedWeights)'
  <2>1. /\ private <= SumOver(PrivateWeights, Covered') + churn' * PageSize
        /\ ~cut => SumOver(PrivateWeights, Covered') <= private + churn' * PageSize
        /\ shared <= SumOver(SharedWeights, Covered') + churn' * PageSize
        /\ ~cut => SumOver(SharedWeights, Covered') <= shared + churn' * PageSize
    BY <1>1, <1>7 DEF DriftInv
  <2>2. QED
    BY <1>1, <1>3, <2>1 DEF Close
<1>9. QED
  BY <1>1, <1>8 DEF DriftInv

(* Where the loop that counts ends, either the walk has passed every region *)
(* or it is cut short, and then what it counted is part of the whole.      *)
LEMMA LoopEndKeepsDrift ==
  ASSUME Inv, DriftInv, LoopEnds
  PROVE  DriftInv'
<1>1. /\ UNCHANGED <<regions, walk, address, private, shared, churn>>
      /\ phase \in {"first", "second"} /\ phase' \in {"second", "done"}
      /\ cut' = (cut \/ (phase = "first" /\ ~NothingLeft))
  BY DEF LoopEnds, Walking
<1>2. /\ PrivateWeights' = PrivateWeights /\ SharedWeights' = SharedWeights /\ Covered' = regions
  BY <1>1 DEF PrivateWeights, SharedWeights, PrivateBytes, SharedBytes, Covered
<1>3. /\ IsFiniteSet(regions) /\ regions \subseteq Regions /\ walk \in {"print", "pid"}
      /\ private \in Nat /\ shared \in Nat /\ churn * PageSize \in Nat
  BY RegionsAreFinite, PagesToBytes DEF Inv, WalkTypes, Apart
<1>4. CASE phase = "second" \/ NothingLeft
  <2>1. Covered = regions
    BY <1>1, <1>4 DEF Covered, Passed, NothingLeft
  <2>2. cut' = cut
    BY <1>1, <1>4 DEF DriftInv
  <2>3. QED
    BY <1>1, <1>2, <2>1, <2>2 DEF DriftInv, Close
<1>5. CASE phase = "first" /\ ~NothingLeft
  <2>1. Covered = Passed /\ Passed \in SUBSET regions /\ cut'
    BY <1>1, <1>5 DEF Covered, Passed
  <2>2. ASSUME NEW bytes \in Nat, NEW w \in {PrivateWeights, SharedWeights}, Close(bytes, w)
        PROVE  bytes <= SumOver(w, regions) + churn * PageSize
    <3>1. \A r \in regions : w[r] \in Nat
      BY <1>3, WeightsFit
    <3>2. SumOver(w, Passed) <= SumOver(w, regions)
      BY <1>3, <2>1, <3>1, SumOfPart
    <3>3. SumOver(w, Passed) \in Nat /\ SumOver(w, regions) \in Nat
      BY <1>3, <2>1, <3>1, SumIsNat, FS_Subset
    <3>4. bytes <= SumOver(w, Passed) + churn * PageSize
      BY <2>1, <2>2 DEF Close
    <3>5. QED
      BY <1>3, <3>2, <3>3, <3>4
  <2>3. /\ private <= SumOver(PrivateWeights, regions) + churn * PageSize
        /\ shared <= SumOver(SharedWeights, regions) + churn * PageSize
    BY <1>3, <2>2 DEF DriftInv
  <2>4. QED
    BY <1>1, <1>2, <2>1, <2>3 DEF DriftInv, Close
<1>6. QED
  BY <1>1, <1>4, <1>5

(* The steps that count nothing and change nothing.                        *)
LEMMA RestKeepsDrift ==
  ASSUME Inv, DriftInv, Begin \/ BeginFails \/ UNCHANGED vars
  PROVE  DriftInv'
<1>1. UNCHANGED <<regions, walk, address, private, shared, churn, cut>>
  BY DEF Begin, BeginFails, vars
<1>2. Passed' = Passed /\ PrivateWeights' = PrivateWeights /\ SharedWeights' = SharedWeights
  BY <1>1 DEF Passed, End, PrivateWeights, SharedWeights, PrivateBytes, SharedBytes
<1>3. Covered' = Covered
  BY <1>1, <1>2 DEF Covered, Begin, BeginFails, vars
<1>4. cut' \in BOOLEAN /\ (cut' = TRUE => phase' \in {"second", "done"})
  <2>1. cut \in BOOLEAN /\ (cut = TRUE => phase \in {"second", "done"})
    BY DEF DriftInv
  <2>2. phase' = phase \/ phase = "start"
    BY DEF Begin, BeginFails, vars
  <2>3. QED
    BY <1>1, <2>1, <2>2
<1>5. QED
  BY <1>1, <1>2, <1>3, <1>4 DEF DriftInv, Close

(* Before the first round nothing is counted and nothing passed.           *)
LEMMA DriftInit ==
  ASSUME Init
  PROVE  DriftInv
<1>1. Inv
  BY InvInit
<1>2. \A r \in regions : End(r) \in Nat /\ End(r) > 0
  BY <1>1, RegionTypes DEF Inv, WalkTypes
<1>3. Covered = {}
  BY <1>2 DEF Init, Covered, Passed
<1>4. \A w : SumOver(w, Covered) = 0
  BY <1>3, SumIsNat, FS_EmptySet
<1>5. churn * PageSize = 0
  BY WalkAssumption DEF Init
<1>6. Close(private, PrivateWeights) /\ Close(shared, SharedWeights)
  BY <1>4, <1>5 DEF Init, Close
<1>7. QED
  BY <1>6 DEF Init, DriftInv

(* In a quiet system the report is exact, and otherwise it is off by no    *)
(* more than what changed during the walk; if the walk was cut short, it   *)
(* is too low.                                                             *)
THEOREM ReportIsCloseToTheEnd == Spec => []ReportDriftsByChurn
<1>1. Init => Inv /\ DriftInv
  BY InvInit, DriftInit
<1>2. (Inv /\ DriftInv) /\ [Next]_vars => (Inv /\ DriftInv)'
  <2>1. SUFFICES ASSUME Inv, DriftInv, [Next]_vars
                 PROVE  Inv' /\ DriftInv'
    OBVIOUS
  <2>2. CASE Visit
    BY <2>1, <2>2, VisitKeepsInv, VisitKeepsDrift
  <2>3. CASE Others
    BY <2>1, <2>3, OthersKeepInv, OthersKeepDrift
  <2>4. CASE Begin \/ BeginFails \/ LoopEnds \/ UNCHANGED vars
    BY <2>1, <2>4, RestKeepsInv, RestKeepsDrift, LoopEndKeepsDrift
  <2>5. QED
    BY <2>1, <2>2, <2>3, <2>4 DEF Next, Walker
<1>3. Inv /\ DriftInv => ReportDriftsByChurn
  <2>1. SUFFICES ASSUME Inv, DriftInv, phase \in {"second", "done"}
                 PROVE  /\ private <= Total(PrivateBytes) + churn * PageSize
                        /\ shared <= Total(SharedBytes) + churn * PageSize
                        /\ ~cut =>
                             /\ Distance(private, Total(PrivateBytes)) <= churn * PageSize
                             /\ Distance(shared, Total(SharedBytes)) <= churn * PageSize
    BY DEF ReportDriftsByChurn
  <2>2. /\ IsFiniteSet(regions) /\ WalkTypes /\ churn * PageSize \in Nat
        /\ private \in Nat /\ shared \in Nat
    BY <2>1, RegionsAreFinite, PagesToBytes DEF Inv, WalkTypes, Apart
  <2>3. /\ Total(PrivateBytes) = SumOver(PrivateWeights, Covered)
        /\ Total(SharedBytes) = SumOver(SharedWeights, Covered)
    BY <2>1, <2>2, PrivateWeightsTotal, SharedWeightsTotal DEF Covered
  <2>4. /\ SumOver(PrivateWeights, Covered) \in Nat /\ SumOver(SharedWeights, Covered) \in Nat
    <3>1. Covered = regions
      BY <2>1 DEF Covered
    <3>2. \A w \in {PrivateWeights, SharedWeights} : \A r \in regions : w[r] \in Nat
      BY <2>2, WeightsFit DEF WalkTypes
    <3>3. QED
      BY <2>2, <3>1, <3>2, SumIsNat
  <2>5. QED
    BY <2>1, <2>2, <2>3, <2>4 DEF DriftInv, Close, Distance
<1>4. QED
  BY <1>1, <1>2, <1>3, PTL DEF Spec

=============================================================================
