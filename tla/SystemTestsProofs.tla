--------------------------- MODULE SystemTestsProofs ---------------------------
(***************************************************************************)
(* For any command line, any sizes and any amount of change, the tests of  *)
(* the system program write to the user's file only when asked, and print  *)
(* the differences they made.                                              *)
(***************************************************************************)
EXTENDS SystemTests, TLAPS

(***************************************************************************)
(* The command line                                                        *)
(***************************************************************************)
\* The options getopt_long has read.
Consumed == 1 .. Len(argv) - Len(args)

AsksFor(o, t) == o = "a" \/ (o \in DOMAIN OptionTest /\ OptionTest[o] = t)

\* args is what remains of argv, and the flags come from what was read.
CommandLine ==
  /\ argv \in Seq(Letters) /\ args \in Seq(Letters)
  /\ Len(args) <= Len(argv)
  /\ \A k \in 1 .. Len(args) : args[k] = argv[Len(argv) - Len(args) + k]
  /\ phase \in {"start", "options", "tests"} => \A k \in Consumed : argv[k] \notin {"h", "m", "?"}
  /\ \A t \in asked : \E k \in Consumed : AsksFor(argv[k], t)
  /\ named => \E k \in Consumed : argv[k] = "i"
  /\ phase = "tests" => args = << >>

\* A test that maps the file has passed the question for its name.
PathKnown == InTests /\ Test \in MapTests /\ pos # "find" => named

CommandInv == CommandLine /\ PathKnown /\ WritesOnlyWhenAsked

(* What the options read say of the command line as a whole, once all are  *)
(* read.                                                                   *)
LEMMA CommandInit ==
  ASSUME Init
  PROVE  CommandInv
<1>1. PICK n \in 0 .. ArgsMax : argv \in [1 .. n -> Letters]
  BY DEF Init
<1>2. argv \in Seq(Letters) /\ Len(argv) = n
  BY <1>1, SystemAssumption
<1>3. args = argv /\ Consumed = {}
  BY <1>2 DEF Init, Consumed
<1>4. CommandLine
  BY <1>2, <1>3 DEF Init, CommandLine
<1>5. ~file.modified
  BY DEF Init
<1>6. QED
  BY <1>4, <1>5 DEF Init, CommandInv, PathKnown, WritesOnlyWhenAsked, InTests

(* Reading one more option.                                                *)
LEMMA ReadOne ==
  ASSUME CommandLine, NEW o \in Letters, Read(o), argv' = argv
  PROVE  /\ args' \in Seq(Letters) /\ Len(args') = Len(args) - 1
         /\ \A k \in 1 .. Len(args') : args'[k] = argv[Len(argv) - Len(args') + k]
         /\ Consumed \subseteq Consumed'
         /\ Len(argv) - Len(args') \in Consumed'
         /\ argv[Len(argv) - Len(args')] = o
         /\ Consumed' \subseteq Consumed \union {Len(argv) - Len(args')}
<1>1. /\ args # << >> /\ args \in Seq(Letters) /\ args' = Tail(args) /\ args[1] = o
      /\ Len(args) \in Nat \ {0} /\ Len(argv) \in Nat /\ Len(args) <= Len(argv)
  BY DEF Read, CommandLine
<1>2. /\ args' \in Seq(Letters) /\ Len(args') = Len(args) - 1
      /\ \A k \in 1 .. Len(args') : args'[k] = args[k + 1]
  BY <1>1
<1>3. \A k \in 1 .. Len(args) : args[k] = argv[Len(argv) - Len(args) + k]
  BY DEF CommandLine
<1>4. \A k \in 1 .. Len(args') : args'[k] = argv[Len(argv) - Len(args') + k]
  <2>1. SUFFICES ASSUME NEW k \in 1 .. Len(args')
                 PROVE  args'[k] = argv[Len(argv) - Len(args') + k]
    OBVIOUS
  <2>2. k + 1 \in 1 .. Len(args) /\ Len(argv) - Len(args) + (k + 1) = Len(argv) - Len(args') + k
    BY <1>1, <1>2, <2>1
  <2>3. QED
    BY <1>2, <1>3, <2>1, <2>2
<1>5. argv[Len(argv) - Len(args')] = o
  <2>1. 1 \in 1 .. Len(args) /\ Len(argv) - Len(args) + 1 = Len(argv) - Len(args')
    BY <1>1, <1>2
  <2>2. QED
    BY <1>1, <1>3, <2>1
<1>6. QED
  BY <1>1, <1>2, <1>4, <1>5 DEF Consumed

(* The steps over the options keep the invariant.                          *)
LEMMA OptionsKeepCommand ==
  ASSUME CommandInv, Stops \/ Sets \/ Names
  PROVE  CommandInv'
<1>1. PICK o \in Letters : Read(o)
  BY DEF Stops, Sets, Names, Letters
<1>2. /\ args' \in Seq(Letters) /\ Len(args') = Len(args) - 1
      /\ \A k \in 1 .. Len(args') : args'[k] = argv[Len(argv) - Len(args') + k]
      /\ Consumed \subseteq Consumed'
      /\ Len(argv) - Len(args') \in Consumed'
      /\ argv[Len(argv) - Len(args')] = o
      /\ Consumed' \subseteq Consumed \union {Len(argv) - Len(args')}
      /\ argv' = argv /\ file' = file
  <2>1. argv' = argv /\ file' = file
    BY DEF Stops, Sets, Names
  <2>2. QED
    BY <1>1, <2>1, ReadOne DEF CommandInv
<1>3. phase' \notin {"start", "tests"} /\ phase = "options"
  BY <1>1 DEF Stops, Sets, Names, Read
<1>4. phase' = "options" => o \notin {"h", "m", "?"}
  <2>1. Head(args) = o
    BY <1>1 DEF Read
  <2>2. CASE Stops
    BY <2>2 DEF Stops
  <2>3. CASE Sets \/ Names
    BY <2>1, <2>3 DEF Sets, Names, Read, OptionTest
  <2>4. QED
    BY <2>2, <2>3
<1>5. \A t \in asked' : t \in asked \/ AsksFor(o, t)
  <2>1. Head(args) = o
    BY <1>1 DEF Read
  <2>2. CASE Stops \/ Names
    BY <2>2 DEF Stops, Names
  <2>3. CASE Sets
    BY <2>1, <2>3 DEF Sets, Read, AsksFor
  <2>4. QED
    BY <2>2, <2>3
<1>6. named' => named \/ o = "i"
  BY <1>1 DEF Stops, Sets, Names, Read
<1>7. CommandLine'
  <2>1. phase' = "options" => \A k \in Consumed' : argv'[k] \notin {"h", "m", "?"}
    BY <1>2, <1>3, <1>4 DEF CommandInv, CommandLine
  <2>2. \A t \in asked' : \E k \in Consumed' : AsksFor(argv'[k], t)
    BY <1>2, <1>5 DEF CommandInv, CommandLine
  <2>3. named' => \E k \in Consumed' : argv'[k] = "i"
    BY <1>2, <1>6 DEF CommandInv, CommandLine
  <2>4. argv' \in Seq(Letters) /\ Len(args') <= Len(argv')
    <3>1. argv \in Seq(Letters) /\ args \in Seq(Letters) /\ Len(args) <= Len(argv)
      BY DEF CommandInv, CommandLine
    <3>2. QED
      BY <1>2, <3>1
  <2>5. QED
    BY <1>2, <1>3, <2>1, <2>2, <2>3, <2>4 DEF CommandLine
<1>8. PathKnown' /\ WritesOnlyWhenAsked'
  BY <1>2, <1>3 DEF CommandInv, PathKnown, InTests, WritesOnlyWhenAsked, AsksToWrite
<1>9. QED
  BY <1>7, <1>8 DEF CommandInv

(* When a test that writes is at its file, all options are read.           *)
LEMMA AskedByCommandLine ==
  ASSUME CommandInv, At("touch"), Test = "map_modify"
  PROVE  AsksToWrite
<1>1. named /\ phase = "tests" /\ "map_modify" \in asked
  BY DEF At, InTests, CommandInv, PathKnown, MapTests
<1>2. Consumed = DOMAIN argv
  BY <1>1 DEF CommandInv, CommandLine, Consumed
<1>3. \A o : AsksFor(o, "map_modify") => o \in {"w", "a"}
  BY DEF AsksFor, OptionTest
<1>4. QED
  BY <1>1, <1>2, <1>3 DEF CommandInv, CommandLine, AsksToWrite

(* The tests read no option, and only one of their steps writes.           *)
LEMMA TestsKeepCommand ==
  ASSUME CommandInv, UNCHANGED options,
         phase' = phase \/ phase' \in {"returned", "killed"}
           \/ (phase = "start" /\ phase' = "options")
           \/ (phase = "options" /\ phase' = "tests" /\ args = << >>),
         phase' = "tests" => /\ PathKnown'
                             /\ phase \in {"options", "tests"},
         file'.modified => file.modified \/ (At("touch") /\ Test = "map_modify")
  PROVE  CommandInv'
<1>1. CommandLine'
  <2>1. argv' = argv /\ args' = args /\ asked' = asked /\ named' = named /\ Consumed' = Consumed
    BY DEF options, Consumed
  <2>2. QED
    BY <2>1 DEF CommandInv, CommandLine
<1>2. PathKnown'
  BY DEF PathKnown, InTests
<1>3. WritesOnlyWhenAsked'
  BY AskedByCommandLine DEF CommandInv, WritesOnlyWhenAsked, AsksToWrite, options
<1>4. QED
  BY <1>1, <1>2, <1>3 DEF CommandInv


(***************************************************************************)
(* Where main() is, and what the test has                                  *)
(***************************************************************************)
Pos == {"find", "before", "acquire", "map", "touch", "after", "report"}

\* The cache test has not filled the cache yet.
CacheUntouched == turn < 5 \/ (turn = 5 /\ pos \in {"before", "acquire"})

\* What the test has at each place in it.
Places ==
  /\ turn \in Nat /\ pos \in Pos /\ held \subseteq {"memory", "fd", "mapping"}
  /\ phase \in {"start", "options"} => turn = 0 /\ held = {}
  /\ size \in Int
  /\ DOMAIN file = {"size", "modified"} /\ file.size \in Int /\ file.size <= FileMax
  /\ temp \in 0 .. TestSize /\ churn \in 0 .. ChurnMax
  /\ CacheUntouched => temp = 0
  /\ "memory" \in held =>
       InTests /\ Test \notin MapTests \union {"cache"} /\ pos \in {"after", "report"}
  /\ InTests =>
       /\ pos \in {"find", "before"} => held = {}
       /\ pos \notin {"find", "before"} => Test \in asked
       /\ pos \in {"find", "map", "touch"} => Test \in MapTests
       /\ pos = "touch" => size > 0
       /\ Test \in MapTests /\ pos # "find" => file.size \in 0 .. size

(* TestOrder, spelled out.                                                 *)
LEMMA TestOrderIs ==
  /\ DOMAIN TestOrder = 1 .. 7
  /\ TestOrder[1] = "private" /\ TestOrder[2] = "map_private" /\ TestOrder[3] = "shared"
  /\ TestOrder[4] = "purgeable" /\ TestOrder[5] = "cache" /\ TestOrder[6] = "map_shared"
  /\ TestOrder[7] = "map_modify"
BY DEF TestOrder

(* Only the fifth test is the one of the cache.                            *)
LEMMA CacheIsFifth ==
  ASSUME InTests, Test = "cache"
  PROVE  turn = 5
BY TestOrderIs DEF InTests, Test

(* Nothing is held when the options are read.                              *)
LEMMA PlacesInit ==
  ASSUME Init
  PROVE  Places
<1>1. file \in [size : -1 .. FileMax, modified : {FALSE}]
  BY DEF Init
<1>2. DOMAIN file = {"size", "modified"} /\ file.size \in Int /\ file.size <= FileMax
  BY <1>1, SystemAssumption
<1>3. QED
  BY <1>2, SystemAssumption DEF Init, Places, Pos, InTests

(* A test that is over leaves nothing to the next.                         *)
LEMMA OverKeepsPlaces ==
  ASSUME Places, InTests, Over, UNCHANGED <<file, temp, churn, phase, asked>>
  PROVE  Places'
<1>1. /\ turn \in 1 .. 7 /\ turn' = turn + 1 /\ held' = {} /\ size' = 0
      /\ pos' = Start(turn + 1) /\ phase = "tests" /\ phase' = "tests"
  BY TestOrderIs DEF Over, InTests
<1>2. pos' \in {"find", "before"} /\ (InTests' /\ Test' \in MapTests => pos' = "find")
      /\ (pos' = "find" /\ InTests' => Test' \in MapTests)
  BY <1>1 DEF Start, Test, InTests
<1>3. CacheUntouched' => CacheUntouched
  BY <1>1 DEF CacheUntouched
<1>4. QED
  BY <1>1, <1>2, <1>3 DEF Places, Pos

(* The steps of main() and of its tests keep what is at each place.        *)
LEMMA ProgramKeepsPlaces ==
  ASSUME Places, Program
  PROVE  Places'
<1> USE SystemAssumption DEF InTests, Test, MapTests, CacheUntouched, Pos
<1>1. CASE Begin \/ Stops \/ Sets \/ Names
  BY <1>1 DEF Begin, Stops, Sets, Names, Read, options, Places
<1>2. CASE OptionsEnd
  <2>1. turn' = 1 /\ pos' = "before" /\ held' = {}
    BY <1>2, TestOrderIs DEF OptionsEnd, Places, Start
  <2>2. temp' = temp /\ temp = 0
    BY <1>2 DEF OptionsEnd, Places
  <2>3. QED
    BY <1>2, <2>1, <2>2, TestOrderIs DEF OptionsEnd, Places
<1>3. CASE NotAsked
  BY <1>3, OverKeepsPlaces DEF NotAsked, options
<1>4. CASE Returned
  BY <1>4 DEF Returned, options, Places
<1>5. CASE FindFile
  <2>1. CASE named /\ file.size >= 0
    <3>1. /\ InTests /\ InTests' /\ Test \in MapTests /\ turn' = turn /\ pos' = "before"
          /\ size' = file.size /\ held' = {} /\ file' = file /\ temp' = temp /\ churn' = churn
          /\ phase' = "tests"
      BY <1>5, <2>1 DEF FindFile, At, GoOn, Places
    <3>2. turn # 5 /\ turn \in Nat
      BY <3>1, TestOrderIs DEF Places
    <3>3. file.size \in Int /\ file.size <= FileMax /\ file.size \in 0 .. file.size
      BY <2>1 DEF Places
    <3>4. /\ DOMAIN file' = {"size", "modified"} /\ file'.size = file.size
          /\ temp' \in 0 .. TestSize /\ churn' \in 0 .. ChurnMax
          /\ CacheUntouched' => temp' = 0
      BY <3>1, <3>2 DEF Places
    <3>5. QED
      BY <3>1, <3>2, <3>3, <3>4 DEF Places
  <2>2. CASE ~(named /\ file.size >= 0)
    BY <1>5, <2>2, OverKeepsPlaces DEF FindFile, At, options
  <2>3. QED
    BY <2>1, <2>2
<1>6. CASE LookBefore \/ LookAfter
  BY <1>6 DEF LookBefore, LookAfter, At, GoOn, options, Places
<1>7. CASE Allocate \/ PurgeableFails
  BY <1>7, TestOrderIs DEF Allocate, PurgeableFails, At, GoOn, options, Places
<1>8. CASE AllocateFails \/ FillCacheFails
  BY <1>8, OverKeepsPlaces DEF AllocateFails, FillCacheFails, At, options
<1>9. CASE FillCache
  BY <1>9, CacheIsFifth DEF FillCache, At, GoOn, options, Places
<1>10. CASE OpenFile \/ MapFile
  BY <1>10, TestOrderIs DEF OpenFile, MapFile, At, GoOn, options, Places
<1>11. CASE MapFails
  BY <1>11, OverKeepsPlaces DEF MapFails, At, options
<1>12. CASE TouchFile
  BY <1>12, TestOrderIs DEF TouchFile, PagesComeIn, At, GoOn, options, Places
<1>13. CASE Faults
  BY <1>13 DEF Faults, PagesComeIn, At, options, Places
<1>14. CASE Report
  BY <1>14, OverKeepsPlaces DEF Report, At, options
<1>15. QED
  BY <1>1, <1>2, <1>3, <1>4, <1>5, <1>6, <1>7, <1>8, <1>9, <1>10, <1>11, <1>12, <1>13,
     <1>14 DEF Program

(* So do the steps of the rest of the system.                              *)
LEMMA OthersKeepPlaces ==
  ASSUME Places, PageMoves \/ FilePageMoves \/ FileIsCut
  PROVE  Places'
BY SystemAssumption DEF PageMoves, FilePageMoves, FileIsCut, Others, options, Places, InTests,
   Test, CacheUntouched


(***************************************************************************)
(* The machine's pages                                                     *)
(***************************************************************************)
\* No pool is ever short of what is taken from it, because programs have no
\* more than they began with, what the tests added and what moved.
Room ==
  /\ DOMAIN pools = {"free", "app", "volatile", "cache", "filed"}
  /\ pools.free \in Int /\ pools.app \in Int /\ pools.volatile \in Int
  /\ pools.cache \in Int /\ pools.filed \in Int
  /\ pools.free + pools.app + pools.volatile + pools.cache = Memory
  /\ pools.app >= Owned /\ pools.volatile >= 0
  /\ pools.cache >= pools.filed /\ pools.filed >= 0
  /\ pools.filed > 0 => pools.filed <= file.size
  /\ pools.app + pools.volatile + pools.cache <= 3 + pools.filed + temp + Owned + churn

(* What a test allocates.                                                  *)
LEMMA AmountIsSmall ==
  Amount \in Nat /\ Amount <= TestSize
BY SystemAssumption DEF Amount

(* Room for what the tests take is left, and no counter overflows.         *)
LEMMA RoomBounds ==
  ASSUME Places, Room
  PROVE  /\ pools.free \in 0 .. Memory
         /\ pools.app \in 0 .. Memory
         /\ pools.cache \in 0 .. Memory
         /\ pools.cache + pools.volatile \in 0 .. Memory
BY SystemAssumption, AmountIsSmall DEF Places, Room, Owned

\* What the pools are when n pages went from one to another.
HasMoved(moved, from, to, n) ==
  /\ DOMAIN moved = {"free", "app", "volatile", "cache", "filed"}
  /\ moved.free = pools.free + (IF to = "free" THEN n ELSE 0) - (IF from = "free" THEN n ELSE 0)
  /\ moved.app = pools.app + (IF to = "app" THEN n ELSE 0) - (IF from = "app" THEN n ELSE 0)
  /\ moved.volatile =
       pools.volatile + (IF to = "volatile" THEN n ELSE 0) - (IF from = "volatile" THEN n ELSE 0)
  /\ moved.cache = pools.cache + (IF to = "cache" THEN n ELSE 0) - (IF from = "cache" THEN n ELSE 0)

Goes(from, to, n) == HasMoved(pools', from, to, n)

(* Moving pages from one pool to another.                                  *)
LEMMA MovedHasMoved ==
  ASSUME Room, NEW n \in Int,
         NEW from \in {"free", "app", "cache", "volatile"},
         NEW to \in {"free", "app", "cache", "volatile"}, from # to
  PROVE  HasMoved(Moved(from, to, n), from, to, n) /\ Moved(from, to, n).filed = pools.filed
<1> DEFINE moved == Moved(from, to, n)
<1>1. /\ DOMAIN moved = DOMAIN pools /\ moved[from] = pools[from] - n /\ moved[to] = pools[to] + n
      /\ \A p \in DOMAIN pools \ {from, to} : moved[p] = pools[p]
  BY DEF Moved, Room
<1> HIDE DEF moved
<1>2. \A p \in DOMAIN pools :
        moved[p] = pools[p] + (IF to = p THEN n ELSE 0) - (IF from = p THEN n ELSE 0)
  <2>1. \A p \in DOMAIN pools : pools[p] \in Int
    BY DEF Room
  <2>2. QED
    BY <1>1, <2>1
<1>3. DOMAIN pools = {"free", "app", "volatile", "cache", "filed"}
  BY DEF Room
<1>4. HasMoved(moved, from, to, n) /\ moved.filed = pools.filed
  BY <1>1, <1>2, <1>3 DEF HasMoved, Room
<1>5. QED
  BY <1>4 DEF moved

(* The step that moves pages, and nothing else.                            *)
LEMMA MovedPages ==
  ASSUME Room, NEW n \in Int,
         NEW from \in {"free", "app", "cache", "volatile"},
         NEW to \in {"free", "app", "cache", "volatile"}, from # to,
         pools' = Moved(from, to, n)
  PROVE  Goes(from, to, n) /\ pools'.filed = pools.filed
BY MovedHasMoved DEF Goes

(* The step that also changes the file's share of the cache.               *)
LEMMA MovedFilePages ==
  ASSUME Room, NEW n \in Int, NEW f \in Int,
         NEW from \in {"free", "app", "cache", "volatile"},
         NEW to \in {"free", "app", "cache", "volatile"}, from # to,
         pools' = [Moved(from, to, n) EXCEPT !.filed = f]
  PROVE  Goes(from, to, n) /\ pools'.filed = f
<1> DEFINE moved == Moved(from, to, n)
<1>1. HasMoved(moved, from, to, n) /\ pools' = [moved EXCEPT !.filed = f]
  BY MovedHasMoved
<1> HIDE DEF moved
<1>2. QED
  BY <1>1 DEF Goes, HasMoved

(* A page of the file comes into the cache.                                *)
LEMMA Grown ==
  ASSUME Room, pools' = [Moved("free", "cache", 1) EXCEPT !.filed = @ + 1]
  PROVE  Goes("free", "cache", 1) /\ pools'.filed = pools.filed + 1
<1> DEFINE moved == Moved("free", "cache", 1)
<1>1. HasMoved(moved, "free", "cache", 1) /\ moved.filed = pools.filed /\ pools' = [moved EXCEPT !.filed = @ + 1]
  BY MovedHasMoved
<1> HIDE DEF moved
<1>2. pools' = [moved EXCEPT !.filed = pools.filed + 1] /\ pools.filed + 1 \in Int
  BY <1>1 DEF Room
<1>3. QED
  BY <1>1, <1>2 DEF Goes, HasMoved

(* A page of the file goes from the cache.                                 *)
LEMMA Shrunk ==
  ASSUME Room, pools' = [Moved("cache", "free", 1) EXCEPT !.filed = @ - 1]
  PROVE  Goes("cache", "free", 1) /\ pools'.filed = pools.filed - 1
<1> DEFINE moved == Moved("cache", "free", 1)
<1>1. HasMoved(moved, "cache", "free", 1) /\ moved.filed = pools.filed /\ pools' = [moved EXCEPT !.filed = @ - 1]
  BY MovedHasMoved
<1> HIDE DEF moved
<1>2. pools' = [moved EXCEPT !.filed = pools.filed - 1] /\ pools.filed - 1 \in Int
  BY <1>1 DEF Room
<1>3. QED
  BY <1>1, <1>2 DEF Goes, HasMoved

(* A few pages are free when the options are read.                         *)
LEMMA RoomInit ==
  ASSUME Init
  PROVE  Room
BY SystemAssumption DEF Init, Room, Owned

(* A step that moves no page.                                              *)
LEMMA StillKeepsRoom ==
  ASSUME Room, UNCHANGED <<pools, temp, churn>>, file'.size = file.size, Owned' = Owned
  PROVE  Room'
BY DEF Room

(* The pages of the file that are not yet in the cache.                    *)
LEMMA FilePagesComeIn ==
  ASSUME Places, Room, At("touch"), PagesComeIn
  PROVE  /\ Goes("free", "cache", file.size - pools.filed)
         /\ pools'.filed = file.size /\ file'.size = file.size
         /\ file.size >= 0 /\ pools.filed <= file.size /\ "memory" \notin held
         /\ pools'.app = pools.app /\ pools'.volatile = pools.volatile
         /\ pools'.cache = pools.cache + (file.size - pools.filed)
<1> DEFINE missing == file.size - pools.filed
<1>1. InTests /\ pos = "touch" /\ Test \in MapTests
  BY DEF At, Places
<1>2. file.size >= 0 /\ "memory" \notin held /\ file.size \in Int
  BY <1>1 DEF Places
<1>3. missing \in Int /\ pools.filed <= file.size
  BY <1>2 DEF Room
<1>4. /\ pools' = [Moved("free", "cache", missing) EXCEPT !.filed = file.size]
      /\ file'.size = file.size
  BY DEF PagesComeIn, Places
<1>5. Goes("free", "cache", missing) /\ pools'.filed = file.size
  BY <1>2, <1>3, <1>4, MovedFilePages
<1>6. QED
  BY <1>2, <1>3, <1>4, <1>5 DEF Goes, HasMoved, Room

(* What a test does with pages.                                            *)
LEMMA ProgramKeepsRoom ==
  ASSUME Places, Room, Program
  PROVE  Room'
<1> DEFINE UsesNone == UNCHANGED <<pools, temp, churn, file>>
<1>1. CASE Begin \/ Stops \/ Sets \/ Names \/ Returned \/ LookBefore \/ LookAfter \/ PurgeableFails
  <2>1. UsesNone /\ UNCHANGED <<held, turn>>
    BY <1>1 DEF Begin, Stops, Sets, Names, Returned, LookBefore, LookAfter, PurgeableFails, GoOn
  <2>2. Owned' = Owned
    BY <2>1 DEF Owned, Amount, Test
  <2>3. QED
    BY <2>1, <2>2, StillKeepsRoom
<1>2. ASSUME "memory" \notin held, UsesNone, "memory" \notin held'
      PROVE  Room'
  BY <1>2, StillKeepsRoom DEF Owned
<1>3. CASE OptionsEnd
  BY <1>2, <1>3 DEF OptionsEnd, Places
<1>4. CASE NotAsked
  BY <1>2, <1>4 DEF NotAsked, Places, Over
<1>5. CASE FindFile
  BY <1>2, <1>5 DEF FindFile, At, Over, Places
<1>6. CASE AllocateFails \/ FillCacheFails \/ MapFails
  BY <1>2, <1>6 DEF AllocateFails, FillCacheFails, MapFails, At, Over, Places
<1>7. CASE OpenFile \/ MapFile
  BY <1>2, <1>7 DEF OpenFile, MapFile, At, Places
<1>8. CASE Allocate
  <2>1. /\ held' = {"memory"} /\ turn' = turn
        /\ file' = file /\ temp' = temp /\ churn' = churn
    BY <1>8 DEF Allocate, GoOn
  <2>2. "memory" \notin held
    BY <1>8 DEF Allocate, At, Places
  <2>3. pools' = Moved("free", "app", Amount) /\ Amount' = Amount
    BY <1>8, <2>1 DEF Allocate, AlloctePugealeMemory2, Amount, Test
  <2>4. Goes("free", "app", Amount) /\ pools'.filed = pools.filed
    BY <2>3, MovedPages, AmountIsSmall
  <2>5. Owned = 0 /\ Owned' = Amount
    BY <2>1, <2>2, <2>3 DEF Owned
  <2>6. QED
    BY <2>1, <2>4, <2>5, AmountIsSmall, SystemAssumption DEF Goes, HasMoved, Room, Places
<1>9. CASE FillCache
  <2>1. PICK n \in 0 .. TestSize : temp' = n /\ pools' = Moved("free", "cache", n)
    BY <1>9 DEF FillCache
  <2>2. temp = 0 /\ UNCHANGED <<held, turn, file, churn>>
    BY <1>9, CacheIsFifth DEF FillCache, At, Places, CacheUntouched, GoOn
  <2>3. n \in Int /\ n >= 0
    BY <2>1, SystemAssumption
  <2>4. Goes("free", "cache", n) /\ pools'.filed = pools.filed
    BY <2>1, <2>3, MovedPages
  <2>5. Owned' = Owned /\ Owned \in Nat
    BY <2>2, AmountIsSmall DEF Owned, Amount, Test
  <2>6. QED
    BY <2>1, <2>2, <2>3, <2>4, <2>5, SystemAssumption DEF Goes, HasMoved, Room, Places
<1>10. CASE TouchFile \/ Faults
  <2>1. /\ At("touch") /\ PagesComeIn /\ temp' = temp /\ churn' = churn
        /\ held' \in {held, {}}
    BY <1>10 DEF TouchFile, Faults
  <2>2. /\ Goes("free", "cache", file.size - pools.filed)
        /\ pools'.filed = file.size /\ file'.size = file.size
        /\ file.size >= 0 /\ pools.filed <= file.size /\ "memory" \notin held
    BY <2>1, FilePagesComeIn
  <2>3. Owned = 0 /\ Owned' = 0
    BY <2>1, <2>2 DEF Owned
  <2>4. QED
    BY <2>1, <2>2, <2>3, SystemAssumption DEF Goes, HasMoved, Room, Places
<1>11. CASE Report
  <2>1. /\ held' = {} /\ temp' = temp /\ churn' = churn /\ file' = file
        /\ pools' = IF "memory" \in held THEN Moved("app", "free", Amount) ELSE pools
    BY <1>11 DEF Report, Over
  <2>2. Owned' = 0
    BY <2>1 DEF Owned
  <2>3. CASE "memory" \in held
    <3>1. Goes("app", "free", Amount) /\ pools'.filed = pools.filed
      BY <2>1, <2>3, MovedPages, AmountIsSmall
    <3>2. Owned = Amount
      BY <2>3 DEF Owned
    <3>3. QED
      BY <2>1, <2>2, <3>1, <3>2, AmountIsSmall, SystemAssumption
         DEF Goes, HasMoved, Room, Places
  <2>4. CASE "memory" \notin held
    BY <2>1, <2>4, <1>2
  <2>5. QED
    BY <2>3, <2>4
<1>12. QED
  BY <1>1, <1>3, <1>4, <1>5, <1>6, <1>7, <1>8, <1>9, <1>10, <1>11 DEF Program

(* What the rest of the system does with them.                             *)
LEMMA OthersKeepRoom ==
  ASSUME Places, Room, PageMoves \/ FilePageMoves \/ FileIsCut
  PROVE  Room'
<1>1. churn' = churn + 1 /\ temp' = temp /\ Owned' = Owned /\ Owned \in Nat /\ Owned <= TestSize
  <2>1. churn' = churn + 1 /\ UNCHANGED <<held, temp, turn>>
    BY DEF PageMoves, FilePageMoves, FileIsCut, Others
  <2>2. QED
    BY <2>1, AmountIsSmall, SystemAssumption DEF Owned, Amount, Test
<1>2. CASE PageMoves
  <2>1. PICK from \in {"free", "app", "cache", "volatile"},
             to \in {"free", "app", "cache", "volatile"} :
          /\ from # to
          /\ pools[from] > (IF from = "cache" THEN pools.filed ELSE 0)
          /\ from = "app" => pools.app > Owned
          /\ pools' = Moved(from, to, 1)
    BY <1>2 DEF PageMoves
  <2>2. file' = file
    BY <1>2 DEF PageMoves
  <2>3. Goes(from, to, 1) /\ pools'.filed = pools.filed
    BY <2>1, MovedPages
  <2>4. /\ pools'.free + pools'.app + pools'.volatile + pools'.cache = Memory
        /\ pools'.free \in Int /\ pools'.app \in Int /\ pools'.volatile \in Int
        /\ pools'.cache \in Int /\ pools'.filed \in Int
        /\ pools'.app + pools'.volatile + pools'.cache
             <= pools.app + pools.volatile + pools.cache + 1
    BY <2>1, <2>3 DEF Goes, HasMoved, Room
  <2>5. /\ pools'.app >= Owned /\ pools'.volatile >= 0 /\ pools'.cache >= pools'.filed
    BY <1>1, <2>1, <2>3, SystemAssumption DEF Goes, HasMoved, Room
  <2>6. QED
    BY <1>1, <2>2, <2>3, <2>4, <2>5, SystemAssumption DEF Goes, HasMoved, Room, Places
<1>3. CASE FilePageMoves
  <2>1. file' = file
    BY <1>3 DEF FilePageMoves
  <2>2. CASE pools.filed < file.size /\ pools' = [Moved("free", "cache", 1) EXCEPT !.filed = @ + 1]
    <3>1. Goes("free", "cache", 1) /\ pools'.filed = pools.filed + 1
      BY <2>2, Grown
    <3>2. QED
      BY <1>1, <2>1, <2>2, <3>1, SystemAssumption DEF Goes, HasMoved, Room, Places
  <2>3. CASE pools.filed > 0 /\ pools' = [Moved("cache", "free", 1) EXCEPT !.filed = @ - 1]
    <3>1. Goes("cache", "free", 1) /\ pools'.filed = pools.filed - 1
      BY <2>3, Shrunk
    <3>2. QED
      BY <1>1, <2>1, <2>3, <3>1, SystemAssumption DEF Goes, HasMoved, Room, Places
  <2>4. QED
    BY <1>3, <2>2, <2>3 DEF FilePageMoves
<1>4. CASE FileIsCut
  <2>1. file'.size = file.size - 1 /\ file.size > 0
    BY <1>4 DEF FileIsCut, Places
  <2>2. CASE pools.filed = file.size
    <3>1. pools' = [Moved("cache", "free", 1) EXCEPT !.filed = @ - 1]
      BY <1>4, <2>2 DEF FileIsCut
    <3>2. Goes("cache", "free", 1) /\ pools'.filed = pools.filed - 1
      BY <3>1, Shrunk
    <3>3. QED
      BY <1>1, <2>1, <2>2, <3>2, SystemAssumption DEF Goes, HasMoved, Room, Places
  <2>3. CASE pools.filed # file.size
    <3>1. pools' = pools
      BY <1>4, <2>3 DEF FileIsCut
    <3>2. QED
      BY <1>1, <2>1, <2>3, <3>1, SystemAssumption DEF Room, Places
  <2>4. QED
    BY <2>2, <2>3
<1>5. QED
  BY <1>2, <1>3, <1>4


(***************************************************************************)
(* What the looks saw                                                      *)
(***************************************************************************)
App(c) == c.internal - c.purgeable
Cached(c) == c.external + c.purgeable

\* Equal but for what the rest of the system moved.
Near(a, b) == a - b <= churn /\ b - a <= churn

Shot == [page_size : {0, 1}, internal : Int, external : Int, purgeable : Int, filed : Nat]

\* Counters of a machine with so many pages, of which no computation wraps, or
\* the zeros of a look that failed.
Proper(c) ==
  /\ App(c) \in 0 .. Memory /\ Cached(c) \in 0 .. Memory /\ c.external \in 0 .. Memory
  /\ ~Taken(c) => App(c) = 0 /\ Cached(c) = 0 /\ c.external = 0

\* Since the look c, if it succeeded, the test has added so much to both kinds
\* of memory.
Since(c, app, cache) ==
  Taken(c) =>
    /\ Near(pools.app, App(c) + app)
    /\ Near(pools.cache + pools.volatile, Cached(c) + cache)
    /\ Near(pools.cache, c.external + cache)

\* The same between two looks.
Between(c, d, app, cache) ==
  Taken(c) /\ Taken(d) =>
    /\ Near(App(d), App(c) + app)
    /\ Near(Cached(d), Cached(c) + cache)
    /\ Near(d.external, c.external + cache)

\* What was in the cache at the look c besides the file, which had n pages there.
BesidesFile(c, n) ==
  Taken(c) =>
    /\ Near(pools.cache + pools.volatile - pools.filed, Cached(c) - n)
    /\ Near(pools.cache - pools.filed, c.external - n)

\* Without a first look, the second still counts what the test added.
AtLeast(c, app, cache) == Taken(c) => App(c) >= app /\ Cached(c) + churn >= cache

LooksTaken ==
  LET extra == IF Test = "map_modify" THEN 1 ELSE 0 IN
  CASE pos \in {"find", "before"} -> 0
    [] pos \in {"acquire", "map"} -> 1
    [] pos \in {"touch", "after"} -> 1 + extra
    [] pos = "report" -> 2 + extra

Latest == shots[Len(shots)]

Looks ==
  InTests =>
    /\ shots \in Seq(Shot) /\ Len(shots) = LooksTaken
    /\ \A k \in 1 .. Len(shots) : Proper(shots[k])
    /\ pos \in {"acquire", "map", "touch"} => Since(Latest, 0, 0)
    /\ pos \in {"acquire", "map", "touch"} /\ Test \in MapTests =>
         BesidesFile(Latest, shots[1].filed)
    /\ pos \in {"acquire", "map"} => Near(pools.filed, shots[1].filed)
    /\ pos = "after" => Since(Latest, Owned, Effect) /\ pools.cache + churn >= Effect
    /\ pos = "report" => /\ Between(shots[Len(shots) - 1], Latest, Owned, Effect)
                         /\ AtLeast(Latest, Owned, Effect)
    /\ Len(shots) >= 2 /\ Test = "map_modify" => Between(shots[1], shots[2], 0, 0)

\* No look is taken before the tests.
NoLookYet == phase \in {"start", "options"} => shots = << >>

(* The counters, as they are now or not at all.                            *)
LEMMA CountersAreProper ==
  ASSUME Places, Room, NEW c \in GetSystemMemoryMetrics
  PROVE  /\ c \in Shot /\ Proper(c) /\ c.filed = pools.filed
         /\ Taken(c) => /\ App(c) = pools.app
                        /\ Cached(c) = pools.cache + pools.volatile
                        /\ c.external = pools.cache
<1>1. /\ pools.app \in 0 .. Memory /\ pools.cache \in 0 .. Memory
      /\ pools.cache + pools.volatile \in 0 .. Memory /\ pools.filed \in Nat
      /\ pools.volatile \in Int
  BY RoomBounds DEF Room
<1>2. CASE c = Counters
  BY <1>1, <1>2 DEF Counters, Shot, Proper, App, Cached, Taken
<1>3. CASE c = NoMetrics
  BY <1>1, <1>3, SystemAssumption DEF NoMetrics, Shot, Proper, App, Cached, Taken
<1>4. QED
  BY <1>2, <1>3 DEF GetSystemMemoryMetrics

(* A test that is over, and one that has not begun, has no looks.          *)
LEMMA NoLooks ==
  ASSUME shots' = << >>, InTests' => pos' \in {"find", "before"}
  PROVE  Looks'
BY DEF Looks, LooksTaken

(* Nothing happened since a look that is being taken.                      *)
LEMMA LookNow ==
  ASSUME Places, Room, NEW c \in GetSystemMemoryMetrics
  PROVE  Since(c, 0, 0)
BY CountersAreProper, SystemAssumption DEF Places, Room, Since, Near

(* A step of the rest of the system.                                       *)
LEMMA OthersMoveLittle ==
  ASSUME Places, Room, PageMoves \/ FilePageMoves \/ FileIsCut
  PROVE  /\ UNCHANGED <<phase, turn, pos, size, temp, shots, asked, Owned>>
         /\ churn' = churn + 1
         /\ pools'.app - pools.app \in -1 .. 1
         /\ (pools'.cache + pools'.volatile) - (pools.cache + pools.volatile) \in -1 .. 1
         /\ pools'.cache - pools.cache \in -1 .. 1
         /\ pools'.filed - pools.filed \in -1 .. 1
         /\ (pools'.cache + pools'.volatile - pools'.filed)
              - (pools.cache + pools.volatile - pools.filed) \in -1 .. 1
         /\ (pools'.cache - pools'.filed) - (pools.cache - pools.filed) \in -1 .. 1
<1>1. UNCHANGED <<phase, turn, pos, size, temp, shots, asked, Owned>> /\ churn' = churn + 1
  <2>1. UNCHANGED <<phase, turn, pos, size, temp, shots, asked, held>> /\ churn' = churn + 1
    BY DEF PageMoves, FilePageMoves, FileIsCut, Others, options
  <2>2. QED
    BY <2>1 DEF Owned, Amount, Test
<1>2. /\ pools.app \in Int /\ pools.cache \in Int /\ pools.volatile \in Int /\ pools.filed \in Int
  BY DEF Room
<1>3. CASE PageMoves
  <2>1. PICK from \in {"free", "app", "cache", "volatile"},
             to \in {"free", "app", "cache", "volatile"} :
          from # to /\ pools' = Moved(from, to, 1)
    BY <1>3 DEF PageMoves
  <2>2. Goes(from, to, 1) /\ pools'.filed = pools.filed
    BY <2>1, MovedPages
  <2>3. QED
    BY <1>1, <1>2, <2>1, <2>2 DEF Goes, HasMoved
<1>4. CASE pools' = [Moved("free", "cache", 1) EXCEPT !.filed = @ + 1]
  <2>1. Goes("free", "cache", 1) /\ pools'.filed = pools.filed + 1
    BY <1>4, Grown
  <2>2. QED
    BY <1>1, <1>2, <2>1 DEF Goes, HasMoved
<1>5. CASE pools' = [Moved("cache", "free", 1) EXCEPT !.filed = @ - 1]
  <2>1. Goes("cache", "free", 1) /\ pools'.filed = pools.filed - 1
    BY <1>5, Shrunk
  <2>2. QED
    BY <1>1, <1>2, <2>1 DEF Goes, HasMoved
<1>6. CASE pools' = pools
  BY <1>1, <1>2, <1>6
<1>7. QED
  BY <1>3, <1>4, <1>5, <1>6 DEF FilePageMoves, FileIsCut

(* Each such step moves a page and counts one.                             *)
LEMMA NearDrifts ==
  ASSUME NEW a \in Int, NEW b \in Int, NEW x \in Int, churn \in Int,
         Near(a, b), x - a \in -1 .. 1, churn' = churn + 1
  PROVE  x - b <= churn' /\ b - x <= churn'
BY DEF Near

(* The differences of the rest of the system stay within what it moved.    *)
LEMMA OthersKeepLooks ==
  ASSUME Places, Room, Looks, PageMoves \/ FilePageMoves \/ FileIsCut
  PROVE  Looks'
<1>1. /\ UNCHANGED <<phase, turn, pos, size, temp, shots, asked, Owned>>
      /\ churn' = churn + 1
      /\ pools'.app - pools.app \in -1 .. 1
      /\ (pools'.cache + pools'.volatile) - (pools.cache + pools.volatile) \in -1 .. 1
      /\ pools'.cache - pools.cache \in -1 .. 1
      /\ pools'.filed - pools.filed \in -1 .. 1
      /\ (pools'.cache + pools'.volatile - pools'.filed)
           - (pools.cache + pools.volatile - pools.filed) \in -1 .. 1
      /\ (pools'.cache - pools'.filed) - (pools.cache - pools.filed) \in -1 .. 1
  BY OthersMoveLittle
<1>2. Room'
  BY OthersKeepRoom
<1>3. /\ pools.app \in Int /\ pools.cache \in Int /\ pools.volatile \in Int /\ pools.filed \in Int
      /\ pools'.app \in Int /\ pools'.cache \in Int /\ pools'.volatile \in Int
      /\ pools'.filed \in Int /\ churn \in Int
  BY <1>2, SystemAssumption DEF Room, Places
<1>4. ASSUME NEW c \in Shot, NEW app \in Int, NEW cache \in Int, Since(c, app, cache)
      PROVE  Since(c, app, cache)'
  BY <1>1, <1>3, <1>4 DEF Since, Taken, Near, App, Cached, Shot
<1>5. ASSUME NEW c \in Shot, NEW n \in Int, BesidesFile(c, n)
      PROVE  BesidesFile(c, n)'
  BY <1>1, <1>3, <1>5 DEF BesidesFile, Taken, Near, Cached, Shot
<1>6. ASSUME NEW c \in Shot, NEW d \in Shot, NEW app \in Int, NEW cache \in Int,
             Between(c, d, app, cache)
      PROVE  Between(c, d, app, cache)'
  BY <1>1, <1>3, <1>6 DEF Between, Taken, Near, App, Cached, Shot
<1>7. SUFFICES ASSUME InTests'
               PROVE  Looks'
  BY DEF Looks
<1>8. InTests /\ Test' = Test /\ LooksTaken' = LooksTaken /\ Latest' = Latest /\ Effect' = Effect
  BY <1>1, <1>7 DEF InTests, Test, LooksTaken, Latest, Effect
<1>9. shots \in Seq(Shot) /\ Len(shots) = LooksTaken
  BY <1>8 DEF Looks
<1>10. \A k \in 1 .. Len(shots) : shots[k] \in Shot
  BY <1>9
<1>11. Owned \in Int /\ size \in Int /\ temp \in Int
  BY SystemAssumption, AmountIsSmall DEF Places, Owned
<1>12. ASSUME pos \notin {"find", "before"}
       PROVE  Len(shots) \in 1 .. 3 /\ Latest \in Shot /\ shots[1] \in Shot /\ Effect \in Int
  <2>1. Len(shots) \in 1 .. 3
    BY <1>9, <1>12 DEF LooksTaken, Places, Pos
  <2>2. Latest \in Shot /\ shots[1] \in Shot
    BY <1>10, <2>1 DEF Latest
  <2>3. QED
    BY <1>11, <2>1, <2>2 DEF Effect, Shot
<1>13. pos \in {"acquire", "map", "touch"} => Since(Latest, 0, 0)'
  BY <1>4, <1>8, <1>12 DEF Looks
<1>14. pos \in {"acquire", "map", "touch"} /\ Test \in MapTests =>
         BesidesFile(Latest, shots[1].filed)'
  BY <1>1, <1>5, <1>8, <1>12 DEF Looks, Shot
<1>15. pos \in {"acquire", "map"} => Near(pools.filed, shots[1].filed)'
  <2>1. SUFFICES ASSUME pos \in {"acquire", "map"}
                 PROVE  Near(pools.filed, shots[1].filed)'
    OBVIOUS
  <2>2. shots[1].filed \in Int /\ Near(pools.filed, shots[1].filed)
    BY <1>8, <1>12, <2>1 DEF Looks, Shot
  <2>3. QED
    BY <1>1, <1>3, <2>2, NearDrifts DEF Near
<1>16. pos = "after" => Since(Latest, Owned, Effect)' /\ (pools.cache + churn >= Effect)'
  <2>1. SUFFICES ASSUME pos = "after"
                 PROVE  Since(Latest, Owned, Effect)' /\ (pools.cache + churn >= Effect)'
    OBVIOUS
  <2>2. Since(Latest, Owned, Effect) /\ pools.cache + churn >= Effect
    BY <1>8, <2>1 DEF Looks
  <2>3. Since(Latest, Owned, Effect)'
    BY <1>1, <1>4, <1>8, <1>11, <1>12, <2>1, <2>2
  <2>4. (pools.cache + churn >= Effect)'
    BY <1>1, <1>3, <1>8, <1>12, <2>1, <2>2
  <2>5. QED
    BY <2>3, <2>4
<1>17. pos = "report" => /\ Between(shots[Len(shots) - 1], Latest, Owned, Effect)'
                         /\ AtLeast(Latest, Owned, Effect)'
  <2>1. SUFFICES ASSUME pos = "report"
                 PROVE  /\ Between(shots[Len(shots) - 1], Latest, Owned, Effect)'
                        /\ AtLeast(Latest, Owned, Effect)'
    OBVIOUS
  <2>2. Len(shots) \in 2 .. 3
    BY <1>9, <2>1 DEF LooksTaken
  <2>3. shots[Len(shots) - 1] \in Shot
    BY <1>10, <2>2
  <2>4. Between(shots[Len(shots) - 1], Latest, Owned, Effect)'
    BY <1>1, <1>6, <1>8, <1>11, <1>12, <2>1, <2>3 DEF Looks
  <2>5. AtLeast(Latest, Owned, Effect)
    BY <1>8, <2>1 DEF Looks
  <2>6. \A c \in Shot, app \in Int, cache \in Int :
          AtLeast(c, app, cache) => AtLeast(c, app, cache)'
    BY <1>1, <1>3 DEF AtLeast, Taken, App, Cached, Shot
  <2>7. AtLeast(Latest, Owned, Effect)'
    BY <1>1, <1>8, <1>11, <1>12, <2>1, <2>5, <2>6
  <2>8. QED
    BY <2>4, <2>7
<1>18. Len(shots) >= 2 /\ Test = "map_modify" => Between(shots[1], shots[2], 0, 0)'
  <2>1. SUFFICES ASSUME Len(shots) >= 2, Test = "map_modify"
                 PROVE  Between(shots[1], shots[2], 0, 0)'
    OBVIOUS
  <2>2. shots[1] \in Shot /\ shots[2] \in Shot
    BY <1>9, <1>10, <2>1
  <2>3. Between(shots[1], shots[2], 0, 0)
    BY <1>8, <2>1 DEF Looks
  <2>4. QED
    BY <1>1, <1>6, <2>2, <2>3
<1>19. shots' = shots /\ pos' = pos
  BY <1>1
<1>20. \A k \in 1 .. Len(shots) : Proper(shots[k])
  BY <1>8 DEF Looks
<1>21. QED
  BY <1>8, <1>9, <1>13, <1>14, <1>15, <1>16, <1>17, <1>18, <1>19, <1>20 DEF Looks, Proper, Taken, App, Cached

(* The parts of Looks for a test that has taken some.                      *)
LEMMA LooksOf ==
  ASSUME Places, Looks, InTests, pos \notin {"find", "before"}
  PROVE  /\ shots \in Seq(Shot) /\ Len(shots) = LooksTaken /\ Len(shots) \in 1 .. 3
         /\ Latest \in Shot /\ shots[1] \in Shot
<1>1. shots \in Seq(Shot) /\ Len(shots) = LooksTaken
  BY DEF Looks
<1>2. Len(shots) \in 1 .. 3
  BY <1>1 DEF LooksTaken, Places, Pos
<1>3. QED
  BY <1>1, <1>2 DEF Latest

(* Steps that take no look and move no page, on the way to the effect.     *)
LEMMA WaitingKeepsLooks ==
  ASSUME Places, Looks, InTests,
         UNCHANGED <<phase, turn, pools, shots, churn>>,
         \/ pos = "acquire" /\ pos' = "map"
         \/ pos = "map" /\ pos' = "touch" /\ Test # "map_modify"
  PROVE  Looks'
<1>1. Test' = Test /\ Latest' = Latest
  BY DEF Test, Latest
<1>2. LooksTaken' = LooksTaken
  BY <1>1 DEF LooksTaken
<1>3. Len(shots) = 1
  BY DEF Looks, LooksTaken
<1>4. shots \in Seq(Shot) /\ (\A k \in 1 .. Len(shots) : Proper(shots[k]))
  BY DEF Looks
<1>5. Since(Latest, 0, 0)' /\ (Test \in MapTests => BesidesFile(Latest, shots[1].filed)')
  BY <1>1 DEF Looks, Since, BesidesFile, Taken, Near, App, Cached
<1>6. pos' = "map" => Near(pools.filed, shots[1].filed)'
  BY DEF Looks, Near
<1>7. QED
  BY <1>1, <1>2, <1>3, <1>4, <1>5, <1>6 DEF Looks, Proper, Taken, App, Cached

(* A look is added to those of the test.                                   *)
LEMMA OneMoreLook ==
  ASSUME Places, Room, Looks, InTests, NEW c \in GetSystemMemoryMetrics,
         shots' = Append(shots, c), churn' = churn, pos \notin {"find", "before"}
  PROVE  /\ shots' \in Seq(Shot) /\ Len(shots') = Len(shots) + 1
         /\ Latest' = c /\ shots'[Len(shots') - 1] = Latest
         /\ \A k \in 1 .. Len(shots) : shots'[k] = shots[k]
         /\ \A k \in 1 .. Len(shots') : Proper(shots'[k])
<1>1. shots \in Seq(Shot) /\ Len(shots) \in 1 .. 3 /\ c \in Shot /\ Proper(c)
  BY LooksOf, CountersAreProper
<1>2. /\ shots' \in Seq(Shot) /\ Len(shots') = Len(shots) + 1
      /\ shots'[Len(shots) + 1] = c
      /\ \A k \in 1 .. Len(shots) : shots'[k] = shots[k]
  BY <1>1
<1>3. \A k \in 1 .. Len(shots) : Proper(shots[k])
  BY DEF Looks
<1>4. \A k \in 1 .. Len(shots') : k \in 1 .. Len(shots) \/ k = Len(shots) + 1
  BY <1>1, <1>2
<1>5. \A k \in 1 .. Len(shots') : Proper(shots'[k])
  BY <1>1, <1>2, <1>3, <1>4
<1>6. QED
  BY <1>1, <1>2, <1>5 DEF Latest

(* The first look of a test.                                               *)
LEMMA FirstLook ==
  ASSUME Places, Room, LookBefore
  PROVE  Looks'
<1>1. PICK c \in GetSystemMemoryMetrics : shots' = <<c>>
  BY DEF LookBefore
<1>2. /\ InTests /\ turn' = turn /\ pos' = "acquire" /\ pools' = pools /\ churn' = churn
  BY DEF LookBefore, At, GoOn
<1>3. /\ c \in Shot /\ Proper(c) /\ Since(c, 0, 0) /\ c.filed = pools.filed
      /\ Taken(c) => Cached(c) = pools.cache + pools.volatile /\ c.external = pools.cache
  BY CountersAreProper, LookNow
<1>4. /\ shots' \in Seq(Shot) /\ Len(shots') = 1 /\ shots'[1] = c /\ Latest' = c
  BY <1>1, <1>3 DEF Latest
<1>5. LooksTaken' = 1
  BY <1>2 DEF LooksTaken
<1>6. Since(Latest, 0, 0)'
  BY <1>2, <1>3, <1>4 DEF Since, Taken, Near, App, Cached
<1>7. BesidesFile(Latest, shots[1].filed)' /\ Near(pools.filed, shots[1].filed)'
  <2>1. /\ pools.cache \in Int /\ pools.volatile \in Int /\ pools.filed \in Int
        /\ churn \in Int /\ churn >= 0
    BY SystemAssumption DEF Room, Places
  <2>2. BesidesFile(c, pools.filed) /\ Near(pools.filed, pools.filed)
    BY <1>3, <2>1 DEF BesidesFile, Near
  <2>3. QED
    BY <1>2, <1>3, <1>4, <2>2 DEF BesidesFile, Taken, Near, Cached
<1>8. \A k \in 1 .. Len(shots') : Proper(shots'[k])
  BY <1>3, <1>4
<1>9. QED
  BY <1>2, <1>4, <1>5, <1>6, <1>7, <1>8 DEF Looks, Proper, Taken, App, Cached

(* The steps with which a test adds to the memory of programs or to the    *)
(* cache.                                                                  *)
LEMMA EffectKeepsLooks ==
  ASSUME Places, Room, Looks, InTests, UNCHANGED <<phase, turn, shots, churn>>,
         pos \in {"acquire", "touch"}, pos' = "after",
         pos = "acquire" => Test \notin MapTests,
         pos = "touch" => Test \in MapTests,
         Since(Latest, Owned, Effect)', (pools.cache + churn >= Effect)'
  PROVE  Looks'
<1>1. Test' = Test /\ Latest' = Latest
  BY DEF Test, Latest
<1>2. LooksTaken' = LooksTaken
  BY <1>1 DEF LooksTaken, MapTests
<1>3. /\ shots \in Seq(Shot) /\ Len(shots) = LooksTaken
      /\ \A k \in 1 .. Len(shots) : Proper(shots[k])
      /\ Len(shots) >= 2 /\ Test = "map_modify" => Between(shots[1], shots[2], 0, 0)
  BY DEF Looks
<1>4. Len(shots) >= 2 /\ Test = "map_modify" => Between(shots[1], shots[2], 0, 0)'
  BY <1>3 DEF Between, Taken, Near, App, Cached
<1>5. InTests'
  BY DEF InTests
<1>6. QED
  BY <1>1, <1>2, <1>3, <1>4, <1>5 DEF Looks, Proper, Taken, App, Cached

(* A test allocates, or goes on without memory.                            *)
LEMMA AllocationKeepsLooks ==
  ASSUME Places, Room, Looks, Allocate \/ PurgeableFails
  PROVE  Looks'
<1>1. /\ InTests /\ pos = "acquire" /\ pos' = "after" /\ Test \notin MapTests \union {"cache"}
      /\ UNCHANGED <<phase, turn, shots, churn, temp, size>>
  BY DEF Allocate, PurgeableFails, At, GoOn, MapTests
<1>2. Latest' = Latest /\ Effect' = 0
  BY <1>1 DEF Latest, Effect, Test
<1>3. Since(Latest, 0, 0) /\ Latest \in Shot
  BY <1>1, LooksOf DEF Looks
<1>4. "memory" \notin held
  BY <1>1 DEF Places
<1>5. Since(Latest, Owned, 0)'
  <2>1. CASE Allocate
    <3>1. pools' = Moved("free", "app", Amount) /\ Owned' = Amount
      BY <1>1, <2>1 DEF Allocate, AlloctePugealeMemory2, Owned, Amount, Test
    <3>2. Goes("free", "app", Amount)
      BY <3>1, MovedPages, AmountIsSmall
    <3>3. /\ pools'.app = pools.app + Amount /\ pools'.cache = pools.cache
          /\ pools'.volatile = pools.volatile
      BY <3>2, AmountIsSmall DEF Goes, HasMoved, Room
    <3>4. QED
      BY <1>1, <1>2, <1>3, <3>1, <3>3, AmountIsSmall, SystemAssumption
         DEF Since, Taken, Near, App, Cached, Shot, Room, Places
  <2>2. CASE PurgeableFails
    <3>1. pools' = pools /\ Owned' = 0
      BY <1>4, <2>2 DEF PurgeableFails, Owned
    <3>2. QED
      BY <1>1, <1>2, <1>3, <3>1 DEF Since, Taken, Near, App, Cached
  <2>3. QED
    BY <2>1, <2>2
<1>6. Since(Latest, Owned, Effect)' /\ (pools.cache + churn >= Effect)'
  <2>1. Room' /\ pools'.cache >= 0
    <3>1. Room'
      BY ProgramKeepsRoom DEF Program
    <3>2. QED
      BY <3>1 DEF Room
  <2>2. churn' >= 0 /\ churn' \in Int /\ pools'.cache \in Int
    BY <1>1, <2>1, SystemAssumption DEF Places, Room
  <2>3. QED
    BY <1>2, <1>5, <2>1, <2>2
<1>7. QED
  BY <1>1, <1>6, EffectKeepsLooks

(* The cache test writes its file.                                         *)
LEMMA FillingKeepsLooks ==
  ASSUME Places, Room, Looks, FillCache
  PROVE  Looks'
<1>1. /\ InTests /\ pos = "acquire" /\ pos' = "after" /\ Test = "cache" /\ Test \notin MapTests
      /\ UNCHANGED <<phase, turn, shots, churn, held, size>>
  BY DEF FillCache, At, GoOn, MapTests
<1>2. PICK n \in 0 .. TestSize : temp' = n /\ pools' = Moved("free", "cache", n)
  BY DEF FillCache
<1>3. n \in Int
  BY <1>2, SystemAssumption
<1>4. Latest' = Latest /\ Effect' = n /\ Owned' = 0
  BY <1>1, <1>2 DEF Latest, Effect, Test, Owned, Places
<1>5. Since(Latest, 0, 0) /\ Latest \in Shot
  BY <1>1, LooksOf DEF Looks
<1>6. Goes("free", "cache", n)
  BY <1>2, <1>3, MovedPages
<1>7. /\ pools'.app = pools.app /\ pools'.cache = pools.cache + n
      /\ pools'.volatile = pools.volatile
  BY <1>3, <1>6 DEF Goes, HasMoved, Room
<1>8. Since(Latest, 0, n)'
  BY <1>1, <1>3, <1>4, <1>5, <1>7, SystemAssumption
     DEF Since, Taken, Near, App, Cached, Shot, Room, Places
<1>9. Since(Latest, Owned, Effect)' /\ (pools.cache + churn >= Effect)'
  BY <1>1, <1>3, <1>4, <1>7, <1>8, SystemAssumption DEF Places, Room
<1>10. QED
  BY <1>1, <1>9, EffectKeepsLooks

(* A test of the user's file reads or writes its pages.                    *)
LEMMA TouchingKeepsLooks ==
  ASSUME Places, Room, Looks, TouchFile
  PROVE  Looks'
<1> DEFINE missing == file.size - pools.filed
           n == shots[1].filed
<1>1. /\ InTests /\ pos = "touch" /\ pos' = "after" /\ Test \in MapTests /\ size = file.size
      /\ UNCHANGED <<phase, turn, shots, churn, held, size, temp>>
      /\ At("touch") /\ PagesComeIn
  <2>1. At("touch") /\ size <= file.size
    BY DEF TouchFile
  <2>2. file.size \in 0 .. size /\ size \in Int /\ Test \in MapTests
    BY <2>1 DEF At, Places
  <2>3. QED
    BY <2>1, <2>2 DEF TouchFile, At, GoOn
<1>2. file.size \in Int /\ missing \in Int
  BY DEF Places, Room
<1>3. pools'.filed = file.size
  BY <1>1, FilePagesComeIn
<1>4. /\ pools'.app = pools.app /\ pools'.cache = pools.cache + missing
      /\ pools'.volatile = pools.volatile /\ "memory" \notin held
  BY <1>1, FilePagesComeIn
<1>5. /\ Latest \in Shot /\ n \in Nat
      /\ Since(Latest, 0, 0) /\ BesidesFile(Latest, n)
  BY <1>1, LooksOf DEF Looks, Shot
<1>6. Latest' = Latest /\ Effect' = size - n /\ Owned' = 0
  <2>1. Test # "cache"
    BY <1>1 DEF MapTests
  <2>2. QED
    BY <1>1, <1>4, <2>1 DEF Latest, Effect, Test, Owned
<1>7. Since(Latest, 0, size - n)'
  BY <1>1, <1>2, <1>4, <1>5, <1>6, SystemAssumption
     DEF Since, BesidesFile, Taken, Near, App, Cached, Shot, Room, Places
<1>8. Since(Latest, Owned, Effect)'
  <2>1. (size - n)' = size - n
    BY <1>1
  <2>2. QED
    BY <1>6, <1>7, <2>1 DEF Since, Near
<1>9. (pools.cache + churn >= Effect)'
  <2>1. pools.cache >= pools.filed /\ pools.cache \in Int /\ pools.filed \in Int /\ churn \in Nat
    BY SystemAssumption DEF Room, Places
  <2>2. QED
    BY <1>1, <1>2, <1>4, <1>5, <1>6, <2>1
<1>10. QED
  BY <1>1, <1>8, <1>9, EffectKeepsLooks

(* The look between the mapping and the writes.                            *)
LEMMA LookWhenMapped ==
  ASSUME Places, Room, Looks, MapFile, Test = "map_modify"
  PROVE  Looks'
<1>1. PICK c \in GetSystemMemoryMetrics : shots' = Append(shots, c)
  BY DEF MapFile
<1>2. /\ InTests /\ pos = "map" /\ pos' = "touch" /\ Test' = Test /\ Test \in MapTests
      /\ UNCHANGED <<phase, turn, pools, churn>>
  BY DEF MapFile, At, GoOn, Test, MapTests
<1>3. /\ shots' \in Seq(Shot) /\ Len(shots') = Len(shots) + 1
      /\ Latest' = c /\ \A k \in 1 .. Len(shots) : shots'[k] = shots[k]
      /\ \A k \in 1 .. Len(shots') : Proper(shots'[k])
  BY <1>1, <1>2, OneMoreLook
<1>4. Len(shots) = 1 /\ Latest = shots[1] /\ shots[1] \in Shot
  BY <1>2, LooksOf DEF LooksTaken, Latest
<1>5. Len(shots') = 2 /\ shots'[1] = shots[1] /\ shots'[2] = c
  BY <1>3, <1>4 DEF Latest
<1>6. /\ c \in Shot /\ Since(c, 0, 0)
      /\ Taken(c) => /\ App(c) = pools.app /\ c.external = pools.cache
                     /\ Cached(c) = pools.cache + pools.volatile
  BY CountersAreProper, LookNow
<1>7. Since(shots[1], 0, 0) /\ Near(pools.filed, shots[1].filed)
  BY <1>2, <1>4 DEF Looks
<1>8. Since(Latest, 0, 0)'
  BY <1>2, <1>3, <1>6 DEF Since, Taken, Near, App, Cached
<1>9. BesidesFile(Latest, shots[1].filed)'
  <2>1. /\ pools.cache \in Int /\ pools.volatile \in Int /\ pools.filed \in Int
        /\ churn \in Int /\ shots[1].filed \in Int
    BY <1>4, SystemAssumption DEF Room, Places, Shot
  <2>2. BesidesFile(c, shots[1].filed)
    BY <1>6, <1>7, <2>1 DEF BesidesFile, Near
  <2>3. QED
    BY <1>2, <1>3, <1>5, <2>2 DEF BesidesFile, Taken, Near, Cached
<1>10. Between(shots[1], shots[2], 0, 0)'
  BY <1>2, <1>4, <1>5, <1>6, <1>7 DEF Since, Between, Taken, Near, App, Cached
<1>11. LooksTaken' = 2
  BY <1>2 DEF LooksTaken
<1>12. QED
  BY <1>2, <1>3, <1>5, <1>8, <1>9, <1>10, <1>11 DEF Looks, Proper, Taken, App, Cached

(* The last look of a test.                                                *)
LEMMA LastLook ==
  ASSUME Places, Room, Looks, LookAfter
  PROVE  Looks'
<1>1. PICK c \in GetSystemMemoryMetrics : shots' = Append(shots, c)
  BY DEF LookAfter
<1>2. /\ InTests /\ pos = "after" /\ pos' = "report" /\ Test' = Test
      /\ UNCHANGED <<phase, turn, pools, churn, held, size, temp>>
  BY DEF LookAfter, At, GoOn, Test
<1>3. /\ shots' \in Seq(Shot) /\ Len(shots') = Len(shots) + 1
      /\ Latest' = c /\ shots'[Len(shots') - 1] = Latest
      /\ \A k \in 1 .. Len(shots) : shots'[k] = shots[k]
      /\ \A k \in 1 .. Len(shots') : Proper(shots'[k])
  BY <1>1, <1>2, OneMoreLook
<1>4. /\ Len(shots) \in 1 .. 3 /\ Len(shots) = LooksTaken
      /\ Latest \in Shot /\ shots[1] \in Shot
  BY <1>2, LooksOf
<1>5. shots'[1] = shots[1] /\ (Len(shots) >= 2 => shots'[2] = shots[2])
  BY <1>3, <1>4
<1>6. Effect' = Effect /\ Owned' = Owned
  BY <1>2, <1>5 DEF Effect, Owned, Amount, Test
<1>7. Taken(c) => /\ App(c) = pools.app /\ c.external = pools.cache
                  /\ Cached(c) = pools.cache + pools.volatile
  BY CountersAreProper
<1>8. Since(Latest, Owned, Effect) /\ pools.cache + churn >= Effect
  BY <1>2 DEF Looks
<1>9. Between(shots[Len(shots) - 1], Latest, Owned, Effect)'
  BY <1>2, <1>3, <1>6, <1>7, <1>8 DEF Since, Between, Taken, Near, App, Cached
<1>10. AtLeast(Latest, Owned, Effect)'
  <2>1. /\ pools.cache \in Int /\ pools.volatile \in Nat /\ churn \in Int
        /\ pools.app >= Owned /\ Effect \in Int
    <3>1. Effect \in Int
      <4>1. shots[1].filed \in Int /\ size \in Int /\ temp \in Int
        BY <1>4, SystemAssumption DEF Places, Shot
      <4>2. QED
        BY <4>1 DEF Effect
    <3>2. pools.volatile \in Int /\ pools.volatile >= 0 /\ pools.cache \in Int /\ pools.app >= Owned
      BY DEF Room
    <3>3. QED
      BY <3>1, <3>2, SystemAssumption DEF Places
  <2>2. AtLeast(c, Owned, Effect)
    BY <1>7, <1>8, <2>1 DEF AtLeast
  <2>3. QED
    BY <1>2, <1>3, <1>6, <2>2 DEF AtLeast, Taken, App, Cached
<1>11. LooksTaken' = LooksTaken + 1
  BY <1>2 DEF LooksTaken
<1>12. Len(shots') >= 2 /\ Test' = "map_modify" => Between(shots[1], shots[2], 0, 0)'
  <2>1. SUFFICES ASSUME Test = "map_modify"
                 PROVE  Between(shots[1], shots[2], 0, 0)'
    BY <1>2
  <2>2. Len(shots) = 2
    BY <1>2, <1>4, <2>1 DEF LooksTaken
  <2>3. Between(shots[1], shots[2], 0, 0)
    BY <1>2, <2>1, <2>2 DEF Looks
  <2>4. QED
    BY <1>2, <1>5, <2>2, <2>3 DEF Between, Taken, Near, App, Cached
<1>13. QED
  BY <1>2, <1>3, <1>4, <1>9, <1>10, <1>11, <1>12 DEF Looks, Proper, Taken, App, Cached

(* The steps of main() and of its tests.                                   *)
LEMMA ProgramKeepsLooks ==
  ASSUME Places, Room, NoLookYet, Looks, Program
  PROVE  Looks'
<1>1. ASSUME ~InTests'
      PROVE  Looks'
  BY <1>1 DEF Looks
<1>2. CASE Begin \/ Stops \/ Sets \/ Names \/ Returned \/ Faults
  BY <1>1, <1>2 DEF Begin, Stops, Sets, Names, Returned, Faults, Read, InTests
<1>3. CASE OptionsEnd
  <2>1. shots' = << >>
    BY <1>3 DEF OptionsEnd, NoLookYet
  <2>2. QED
    BY <1>3, <2>1, NoLooks, TestOrderIs DEF OptionsEnd, Start
<1>4. ASSUME Over
      PROVE  Looks'
  BY <1>4, NoLooks DEF Over, Start
<1>5. CASE NotAsked \/ AllocateFails \/ FillCacheFails \/ MapFails \/ Report
  BY <1>4, <1>5 DEF NotAsked, AllocateFails, FillCacheFails, MapFails, Report
<1>6. CASE FindFile
  <2>1. CASE ~Over
    <3>1. /\ pos' = "before" /\ shots' = shots /\ InTests /\ pos = "find"
      BY <1>6, <2>1 DEF FindFile, At, GoOn
    <3>2. Len(shots) = 0 /\ shots \in Seq(Shot)
      BY <3>1 DEF Looks, LooksTaken
    <3>3. shots' = << >>
      BY <3>1, <3>2
    <3>4. QED
      BY <3>1, <3>3, NoLooks
  <2>2. QED
    BY <1>4, <2>1
<1>7. CASE OpenFile
  BY <1>7, WaitingKeepsLooks DEF OpenFile, At, GoOn
<1>8. CASE MapFile
  <2>1. CASE Test # "map_modify"
    BY <1>8, <2>1, WaitingKeepsLooks DEF MapFile, At, GoOn
  <2>2. QED
    BY <1>8, <2>1, LookWhenMapped
<1>9. QED
  BY <1>2, <1>3, <1>5, <1>6, <1>7, <1>8, FirstLook, LastLook, AllocationKeepsLooks,
     FillingKeepsLooks, TouchingKeepsLooks DEF Program

(***************************************************************************)
(* The theorems                                                            *)
(***************************************************************************)
\* The inductive invariant.
Inv == CommandInv /\ Places /\ Room /\ NoLookYet /\ Looks

(* It holds when main() starts.                                            *)
LEMMA InvInit ==
  ASSUME Init
  PROVE  Inv
<1>1. NoLookYet /\ Looks
  BY DEF Init, NoLookYet, Looks, InTests
<1>2. QED
  BY <1>1, CommandInit, PlacesInit, RoomInit DEF Inv

(* The steps that are not over the options keep what is known of them.     *)
LEMMA CommandNext ==
  ASSUME CommandInv, Places, Next
  PROVE  CommandInv'
<1>1. CASE Stops \/ Sets \/ Names
  BY <1>1, OptionsKeepCommand
<1>2. CASE Begin \/ OptionsEnd \/ Returned \/ Faults
  <2>1. /\ UNCHANGED options
        /\ file'.modified => file.modified \/ (At("touch") /\ Test = "map_modify")
    BY <1>2 DEF Begin, OptionsEnd, Returned, Faults, PagesComeIn, Places
  <2>2. phase' # "tests" \/ (phase = "options" /\ args = << >> /\ PathKnown')
    BY <1>2, TestOrderIs DEF Begin, OptionsEnd, Returned, Faults, PathKnown, Start, Test, InTests
  <2>3. phase' \in {"returned", "killed"} \/ (phase = "start" /\ phase' = "options")
          \/ (phase = "options" /\ phase' = "tests" /\ args = << >>)
    BY <1>2 DEF Begin, OptionsEnd, Returned, Faults
  <2>4. QED
    BY <2>1, <2>2, <2>3, TestsKeepCommand
<1>3. ASSUME UNCHANGED options, phase' = phase, phase = "tests", PathKnown',
             file'.modified => file.modified \/ (At("touch") /\ Test = "map_modify")
      PROVE  CommandInv'
  BY <1>3, TestsKeepCommand
<1>4. ASSUME InTests, Over, phase' = phase
      PROVE  PathKnown'
  BY <1>4, TestOrderIs DEF Over, Start, PathKnown, Test, InTests
<1>5. CASE NotAsked \/ AllocateFails \/ FillCacheFails \/ MapFails \/ Report
  <2>1. InTests /\ Over /\ UNCHANGED options /\ phase' = phase /\ file' = file
    BY <1>5 DEF NotAsked, AllocateFails, FillCacheFails, MapFails, Report, At
  <2>2. QED
    BY <1>3, <1>4, <2>1 DEF InTests
<1>6. CASE FindFile
  <2>1. InTests /\ UNCHANGED options /\ phase' = phase /\ file' = file
    BY <1>6 DEF FindFile, At
  <2>2. PathKnown'
    <3>1. CASE named /\ file.size >= 0
      BY <2>1, <3>1 DEF PathKnown, options
    <3>2. CASE ~(named /\ file.size >= 0)
      BY <1>4, <1>6, <2>1, <3>2 DEF FindFile
    <3>3. QED
      BY <3>1, <3>2
  <2>3. QED
    BY <1>3, <2>1, <2>2 DEF InTests
<1>7. ASSUME InTests, UNCHANGED <<options, phase, turn>>, pos # "find",
             file'.modified => file.modified \/ (At("touch") /\ Test = "map_modify")
      PROVE  CommandInv'
  <2>1. PathKnown'
    BY <1>7 DEF CommandInv, PathKnown, Test, InTests, options
  <2>2. QED
    BY <1>3, <1>7, <2>1 DEF InTests
<1>8. CASE LookBefore \/ LookAfter \/ Allocate \/ PurgeableFails \/ FillCache \/ OpenFile \/ MapFile
  <2>1. InTests /\ UNCHANGED <<options, phase, turn>> /\ pos # "find" /\ file' = file
    BY <1>8 DEF LookBefore, LookAfter, Allocate, PurgeableFails, FillCache, OpenFile, MapFile,
                At, GoOn
  <2>2. QED
    BY <1>7, <2>1
<1>9. CASE TouchFile
  <2>1. /\ InTests /\ UNCHANGED <<options, phase, turn>> /\ pos # "find" /\ At("touch")
        /\ file'.modified => file.modified \/ Test = "map_modify"
    BY <1>9 DEF TouchFile, PagesComeIn, At, GoOn, Places
  <2>2. QED
    BY <1>7, <2>1
<1>10. CASE PageMoves \/ FilePageMoves \/ FileIsCut
  <2>1. /\ phase = "tests" /\ UNCHANGED <<options, phase, turn, pos>>
        /\ file'.modified = file.modified
    BY <1>10 DEF PageMoves, FilePageMoves, FileIsCut, Others, Places
  <2>2. PathKnown'
    BY <2>1 DEF CommandInv, PathKnown, Test, InTests, options
  <2>3. QED
    BY <1>3, <2>1, <2>2
<1>11. QED
  BY <1>1, <1>2, <1>5, <1>6, <1>8, <1>9, <1>10 DEF Next, Program

(* No look is taken by the steps over the options.                         *)
LEMMA NoLookYetNext ==
  ASSUME NoLookYet, Next
  PROVE  NoLookYet'
<1>1. CASE Begin \/ Stops \/ Sets \/ Names \/ OptionsEnd
  BY <1>1 DEF Begin, Stops, Sets, Names, Read, OptionsEnd, NoLookYet
<1>2. CASE ~(Begin \/ Stops \/ Sets \/ Names \/ OptionsEnd)
  <2>1. phase' \in {phase, "returned", "killed"} /\ phase = "tests"
    BY <1>2 DEF Next, Program, NotAsked, Returned, FindFile, LookBefore, LookAfter, Allocate,
                AllocateFails, PurgeableFails, FillCache, FillCacheFails, OpenFile, MapFile,
                MapFails, TouchFile, Faults, Report, PageMoves, FilePageMoves, FileIsCut,
                Others, At, InTests
  <2>2. QED
    BY <2>1 DEF NoLookYet
<1>3. QED
  BY <1>1, <1>2

(* It is inductive.                                                        *)
LEMMA InvNext ==
  ASSUME Inv, [Next]_vars
  PROVE  Inv'
<1>1. CASE Next
  <2>1. CommandInv' /\ NoLookYet'
    BY <1>1, CommandNext, NoLookYetNext DEF Inv
  <2>2. CASE Program
    BY <2>1, <2>2, ProgramKeepsPlaces, ProgramKeepsRoom, ProgramKeepsLooks DEF Inv
  <2>3. CASE PageMoves \/ FilePageMoves \/ FileIsCut
    BY <2>1, <2>3, OthersKeepPlaces, OthersKeepRoom, OthersKeepLooks DEF Inv
  <2>4. QED
    BY <1>1, <2>2, <2>3 DEF Next
<1>2. CASE UNCHANGED vars
  <2>1. CommandInv'
    BY <1>2 DEF vars, options, Inv, CommandInv, CommandLine, Consumed, PathKnown, InTests, Test,
                WritesOnlyWhenAsked, AsksToWrite
  <2>2. Places' /\ Room'
    <3>1. UNCHANGED <<turn, pos, held, phase, size, file, temp, churn, asked, pools>>
      BY <1>2 DEF vars, options
    <3>2. Test' = Test /\ InTests' = InTests /\ CacheUntouched' = CacheUntouched /\ Owned' = Owned
      BY <3>1 DEF CacheUntouched, InTests, Test, Owned, Amount
    <3>3. Places'
      BY <3>1, <3>2 DEF Inv, Places
    <3>4. Room'
      BY <3>1, <3>2 DEF Inv, Room
    <3>5. QED
      BY <3>3, <3>4
  <2>3. NoLookYet' /\ Looks'
    <3>1. UNCHANGED <<turn, pos, held, phase, size, temp, churn, pools, shots>>
      BY <1>2 DEF vars
    <3>2. /\ Test' = Test /\ InTests' = InTests /\ LooksTaken' = LooksTaken
          /\ Latest' = Latest /\ Owned' = Owned /\ Effect' = Effect
      BY <3>1 DEF InTests, Test, LooksTaken, Latest, Owned, Amount, Effect
    <3>3. QED
      BY <3>1, <3>2 DEF Inv, NoLookYet, Looks, Since, Between, BesidesFile, AtLeast, Near, Proper, Taken,
                    App, Cached
  <2>4. QED
    BY <2>1, <2>2, <2>3 DEF Inv
<1>3. QED
  BY <1>1, <1>2

(* The reachable states.                                                   *)
THEOREM SystemInvariant == Spec => []Inv
<1>1. Init => Inv
  BY InvInit
<1>2. Inv /\ [Next]_vars => Inv'
  BY InvNext
<1>3. QED
  BY <1>1, <1>2, PTL DEF Spec

(* For any command line: the user's file is written to only when the       *)
(* options, as a whole, name it and ask for the test that writes, and none *)
(* of them ends the program first.                                         *)
THEOREM FileIsWrittenOnlyWhenAsked == Spec => []WritesOnlyWhenAsked
<1>1. Inv => WritesOnlyWhenAsked
  BY DEF Inv, CommandInv
<1>2. QED
  BY <1>1, SystemInvariant, PTL

(* A sum or difference within the machine's memory does not wrap.          *)
LEMMA NoWrap ==
  ASSUME NEW n \in 0 .. Memory
  PROVE  n % Word = n
BY SystemAssumption

(* A difference of two such numbers wraps once, if it is negative.         *)
LEMMA WrapOnce ==
  ASSUME NEW a \in 0 .. Memory, NEW b \in 0 .. Memory
  PROVE  (b - a) % Word = IF b < a THEN b - a + Word ELSE b - a
BY SystemAssumption

(* What the report compares.                                               *)
LEMMA Reported ==
  ASSUME Inv, At("report"), NEW k \in Pairs
  PROVE  /\ shots[k] \in Shot /\ shots[k + 1] \in Shot /\ shots[1] \in Shot
         /\ Proper(shots[k]) /\ Proper(shots[k + 1])
         /\ CacheEffect(k) \in Int /\ Owned \in Int /\ churn \in Nat
         /\ Between(shots[k], shots[k + 1], Owned, CacheEffect(k))
         /\ AtLeast(shots[k + 1], Owned, CacheEffect(k))
<1>1. /\ InTests /\ pos = "report" /\ Places /\ Looks
  BY DEF At, Inv
<1>2. /\ shots \in Seq(Shot) /\ Len(shots) = LooksTaken /\ Len(shots) \in 1 .. 3
      /\ shots[1] \in Shot
  BY <1>1, LooksOf
<1>3. k \in 1 .. Len(shots) /\ k + 1 \in 1 .. Len(shots) /\ (k = Len(shots) - 1 \/ k < Len(shots) - 1)
  BY <1>2 DEF Pairs
<1>4. shots[k] \in Shot /\ shots[k + 1] \in Shot /\ Proper(shots[k]) /\ Proper(shots[k + 1])
  BY <1>1, <1>2, <1>3 DEF Looks
<1>5. Effect \in Int /\ Owned \in Int /\ churn \in Nat
  <2>1. size \in Int /\ temp \in Int /\ shots[1].filed \in Int
    BY <1>1, <1>2, SystemAssumption DEF Shot, Places
  <2>2. QED
    BY <1>1, <2>1, AmountIsSmall, SystemAssumption DEF Effect, Owned, Places
<1>6. CASE k = Len(shots) - 1
  <2>1. CacheEffect(k) = Effect /\ shots[k + 1] = Latest
    BY <1>2, <1>6 DEF CacheEffect, Last, Latest
  <2>2. QED
    BY <1>1, <1>2, <1>4, <1>5, <1>6, <2>1 DEF Looks
<1>7. CASE k < Len(shots) - 1
  <2>1. Len(shots) = 3 /\ k = 1 /\ Test = "map_modify"
    BY <1>1, <1>2, <1>3, <1>7 DEF LooksTaken, Pairs
  <2>2. CacheEffect(k) = 0
    BY <2>1 DEF CacheEffect, Last
  <2>3. Owned = 0
    BY <1>1, <2>1 DEF Owned, Places, MapTests
  <2>4. Between(shots[1], shots[2], 0, 0)
    BY <1>1, <2>1 DEF Looks
  <2>5. AtLeast(shots[k + 1], 0, 0)
    BY <1>4, <1>5 DEF AtLeast, Proper
  <2>6. QED
    BY <1>2, <1>4, <1>5, <2>1, <2>2, <2>3, <2>4, <2>5
<1>8. QED
  BY <1>3, <1>6, <1>7

(* What is printed of a look: its counters, or zeros.                      *)
LEMMA PrintedLook ==
  ASSUME NEW c \in Shot, Proper(c)
  PROVE  CachedFiles(c) = Cached(c) /\ AppMemory(c) = App(c)
<1>1. /\ (c.internal - c.purgeable) % Word = App(c)
      /\ (c.external + c.purgeable) % Word = Cached(c)
  BY NoWrap DEF Proper, App, Cached
<1>2. App(c) \in Int /\ Cached(c) \in Int
  BY DEF Proper
<1>3. CASE c.page_size = 1
  BY <1>1, <1>2, <1>3 DEF CachedFiles, AppMemory
<1>4. CASE c.page_size = 0
  <2>1. App(c) = 0 /\ Cached(c) = 0
    BY <1>4 DEF Proper, Taken
  <2>2. QED
    BY <1>1, <1>4, <2>1 DEF CachedFiles, AppMemory
<1>5. QED
  BY <1>3, <1>4 DEF Shot

(* For any sizes, and whichever looks failed: the printed changes of App   *)
(* memory and of cached files are what the test did, give or take what the *)
(* rest of the system moved; without the second look they show no growth,  *)
(* and without the first one no less than what the test did.               *)
THEOREM PrintedChangesAreTheTests == Spec => []ChangesAreTheTests
<1>1. ASSUME Inv, At("report"), NEW k \in Pairs
      PROVE  LET a == shots[k]
                 b == shots[k + 1]
                 cached == Change(CachedFiles(a), CachedFiles(b))
                 app == Change(AppMemory(a), AppMemory(b))
             IN  /\ Taken(a) /\ Taken(b) =>
                      /\ Distance(cached, CacheEffect(k)) <= churn
                      /\ Distance(app, Owned) <= churn
                 /\ ~Taken(b) => cached <= 0 /\ app <= 0
                 /\ Taken(b) /\ ~Taken(a) => cached >= CacheEffect(k) - churn /\ app >= Owned
  <2> DEFINE a == shots[k]
             b == shots[k + 1]
  <2>1. /\ a \in Shot /\ b \in Shot /\ Proper(a) /\ Proper(b)
        /\ CacheEffect(k) \in Int /\ Owned \in Int /\ churn \in Nat
        /\ Between(a, b, Owned, CacheEffect(k)) /\ AtLeast(b, Owned, CacheEffect(k))
    BY <1>1, Reported
  <2>2. /\ CachedFiles(a) = Cached(a) /\ AppMemory(a) = App(a)
        /\ CachedFiles(b) = Cached(b) /\ AppMemory(b) = App(b)
    BY <2>1, PrintedLook
  <2>3. /\ Cached(a) \in Nat /\ Cached(b) \in Nat /\ App(a) \in Nat /\ App(b) \in Nat
        /\ ~Taken(a) => Cached(a) = 0 /\ App(a) = 0
        /\ ~Taken(b) => Cached(b) = 0 /\ App(b) = 0
    BY <2>1, SystemAssumption DEF Proper
  <2>4. Taken(a) /\ Taken(b) => /\ Near(App(b), App(a) + Owned)
                               /\ Near(Cached(b), Cached(a) + CacheEffect(k))
    BY <2>1 DEF Between
  <2>5. Taken(b) => App(b) >= Owned /\ Cached(b) + churn >= CacheEffect(k)
    BY <2>1 DEF AtLeast
  <2>6. ASSUME Taken(a), Taken(b)
        PROVE  /\ Distance(Change(Cached(a), Cached(b)), CacheEffect(k)) <= churn
               /\ Distance(Change(App(a), App(b)), Owned) <= churn
    BY <2>1, <2>3, <2>4, <2>6 DEF Distance, Change, Near
  <2>7. ~Taken(b) => Change(Cached(a), Cached(b)) <= 0 /\ Change(App(a), App(b)) <= 0
    BY <2>3 DEF Change
  <2>8. Taken(b) /\ ~Taken(a) => /\ Change(Cached(a), Cached(b)) >= CacheEffect(k) - churn
                                /\ Change(App(a), App(b)) >= Owned
    BY <2>1, <2>3, <2>5 DEF Change
  <2>9. QED
    BY <2>2, <2>6, <2>7, <2>8
<1>2. Inv => ChangesAreTheTests
  BY <1>1 DEF ChangesAreTheTests
<1>3. QED
  BY <1>2, SystemInvariant, PTL

(* For any sizes, and whichever looks failed: the printed change of        *)
(* external_page_count is the test's, or too large by exactly one turn of  *)
(* the counter when pages went; without the later look it is nothing or    *)
(* more than the machine has, and without the first one nothing.           *)
THEOREM ExternalChangeIsTheTestsOrWraps == Spec => []ExternalChangeWrapsBelowZero
<1>1. ASSUME Inv, At("report"), NEW k \in Pairs
      PROVE  LET printed == ExternalChange(k)
                 fewer == shots[k + 1].external < shots[k].external
             IN  /\ Taken(shots[1]) /\ Taken(shots[k]) /\ Taken(shots[k + 1]) =>
                      Distance(IF fewer THEN printed - Word ELSE printed, CacheEffect(k)) <= churn
                 /\ ~Taken(shots[k + 1]) => printed = 0 \/ printed > Memory
                 /\ ~Taken(shots[1]) => printed = 0
  <2> DEFINE a == shots[k].external
             b == shots[k + 1].external
             turned == IF b < a THEN b - a + Word ELSE b - a
  <2>1. /\ a \in 0 .. Memory /\ b \in 0 .. Memory /\ CacheEffect(k) \in Int
        /\ ~Taken(shots[k + 1]) => b = 0
        /\ Taken(shots[k]) /\ Taken(shots[k + 1]) => Near(b, a + CacheEffect(k))
        /\ churn \in Int /\ Word \in Nat /\ Memory \in Nat /\ 2 * Memory < Word
    BY <1>1, Reported, SystemAssumption DEF Proper, Between
  <2>2. (b - a) % Word = turned /\ turned \in Int
    BY <2>1, WrapOnce
  <2>3. shots[1].page_size \in {0, 1} /\ (Taken(shots[1]) <=> shots[1].page_size = 1)
    BY <1>1, Reported DEF Shot, Taken
  <2>4. ExternalChange(k) = IF Taken(shots[1]) THEN turned ELSE 0
    <3>1. ExternalChange(k) = turned * shots[1].page_size
      BY <2>2 DEF ExternalChange
    <3>2. turned * 1 = turned /\ turned * 0 = 0
      BY <2>2
    <3>3. QED
      BY <2>3, <3>1, <3>2
  <2>5. QED
    BY <2>1, <2>2, <2>4 DEF Distance, Near
<1>2. Inv => ExternalChangeWrapsBelowZero
  BY <1>1 DEF ExternalChangeWrapsBelowZero
<1>3. QED
  BY <1>2, SystemInvariant, PTL
=============================================================================
