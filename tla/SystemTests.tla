------------------------------ MODULE SystemTests ------------------------------
(***************************************************************************)
(* macos/system/activity_monitor_demo.mm: the command line, the tests it   *)
(* selects and the counters they print.  A test takes the kernel's page    *)
(* counters, allocates memory or maps the file the user named, takes the   *)
(* counters again and prints the differences.  Meanwhile the rest of the   *)
(* system allocates, frees, caches and evicts pages, and someone may       *)
(* shorten the file.  Taking the counters may fail as any call may, and    *)
(* then everything the program compares and prints is zero.                *)
(*                                                                         *)
(* The counters of vm_statistics64 are natural_t, so sums and differences  *)
(* of them are taken modulo Word; MemoryMetrics holds long long.  All      *)
(* amounts are in pages.                                                   *)
(***************************************************************************)
EXTENDS Integers, Sequences, Functions

CONSTANTS
  Memory,       \* pages of the machine
  PrivateSize,  \* pages the private test allocates: 200 MB
  TestSize,     \* pages the others allocate or write: 500 MB
  FileMax,      \* pages of the user's file at most
  Word,         \* natural_t counts modulo Word
  ArgsMax,      \* bound: options on the command line
  ChurnMax      \* bound: pages the rest of the system moves

ASSUME SystemAssumption ==
  /\ TestSize \in Nat \ {0} /\ FileMax \in Nat /\ ArgsMax \in Nat /\ ChurnMax \in Nat
  /\ PrivateSize \in Nat \ {0} /\ PrivateSize <= TestSize
  /\ Memory \in Nat /\ Word \in Nat /\ 2 * Memory < Word
  \* A test's own memory, what -c left in the cache, the file, the rest.
  /\ 2 * TestSize + FileMax + ChurnMax + 3 <= Memory

VARIABLES
  argv, args,   \* the options, and those getopt_long has still to read
  asked,        \* the run... flags that are set
  named,        \* userFilePath is set
  phase,        \* "start", "options", "monitor", "tests", "returned", "killed"
  turn, pos,    \* the test main() is at, and the place in it
  held,         \* "memory", "fd", "mapping" of the test
  size,         \* the file's size as the test read it
  file,         \* the user's file: its size, -1 if there is none; modified or not
  temp,         \* pages of /tmp/memory_cache_test_<pid>
  pools,        \* where the machine's pages are
  shots,        \* the counters this test took
  churn         \* pages the rest of the system moved

options == <<argv, args, asked, named>>
vars == <<options, phase, turn, pos, held, size, file, temp, pools, shots, churn>>

-----------------------------------------------------------------------------
(* The command line *)
OptionTest == [p |-> "private", v |-> "map_private", s |-> "shared", g |-> "purgeable",
               c |-> "cache", f |-> "map_shared", w |-> "map_modify"]

TestOrder == <<"private", "map_private", "shared", "purgeable", "cache", "map_shared", "map_modify">>

Letters == DOMAIN OptionTest \union {"h", "m", "a", "i", "?"}

MapTests == {"map_private", "map_shared", "map_modify"}

\* Where a test starts: those that map look for the file first.
Start(n) ==
  IF n \in DOMAIN TestOrder /\ TestOrder[n] \in MapTests THEN "find" ELSE "before"

\* The report and the pause every run begins with.
Begin ==
  /\ phase = "start"
  /\ phase' = IF argv = << >> THEN "returned" ELSE "options"
  /\ UNCHANGED <<options, turn, pos, held, size, file, temp, pools, shots, churn>>

Read(o) == phase = "options" /\ args # << >> /\ Head(args) = o /\ args' = Tail(args)

\* -h, an unknown option, -m: the rest of the command line is not looked at.
Stops ==
  /\ \/ (Read("h") \/ Read("?")) /\ phase' = "returned"
     \/ Read("m") /\ phase' = "monitor"
  /\ UNCHANGED <<argv, asked, named, turn, pos, held, size, file, temp, pools, shots, churn>>

\* Slip: case 'f' without its break.
Sets_falls_through ==
  /\ \/ \E o \in DOMAIN OptionTest :
          Read(o) /\ asked' = asked \union {OptionTest[o]}
                            \union (IF o = "f" THEN {"map_modify"} ELSE {})
     \/ Read("a") /\ asked' = Range(OptionTest)
  /\ UNCHANGED <<argv, named, phase, turn, pos, held, size, file, temp, pools, shots, churn>>

Sets ==
  /\ \/ \E o \in DOMAIN OptionTest : Read(o) /\ asked' = asked \union {OptionTest[o]}
     \/ Read("a") /\ asked' = Range(OptionTest)
  /\ UNCHANGED <<argv, named, phase, turn, pos, held, size, file, temp, pools, shots, churn>>

Names ==
  /\ Read("i") /\ named' = TRUE
  /\ UNCHANGED <<argv, asked, phase, turn, pos, held, size, file, temp, pools, shots, churn>>

OptionsEnd ==
  /\ phase = "options" /\ args = << >>
  /\ phase' = "tests"
  /\ turn' = 1 /\ pos' = Start(1)
  /\ UNCHANGED <<options, held, size, file, temp, pools, shots, churn>>

-----------------------------------------------------------------------------
(* GetSystemMemoryMetrics *)
\* Volatile pages are internal pages too; a page is the unit of all amounts.
\* filed, the file's pages in the cache, is no counter: the properties use it.
Counters == [page_size |-> 1, internal |-> pools.app + pools.volatile,
             external |-> pools.cache, purgeable |-> pools.volatile, filed |-> pools.filed]

\* host_page_size or host_statistics64 fails: metrics is still {0}.
NoMetrics == [page_size |-> 0, internal |-> 0, external |-> 0, purgeable |-> 0,
              filed |-> pools.filed]

GetSystemMemoryMetrics == {Counters, NoMetrics}

\* What is computed from the counters in natural_t, then widened.
AppMemory(c) == ((c.internal - c.purgeable) % Word) * c.page_size
CachedFiles(c) == ((c.external + c.purgeable) % Word) * c.page_size

\* Slip: the subtraction is made on the counters, not on the long longs.
Change_unsigned(a, b) == (b - a) % Word

\* after.cachedFiles - before.cachedFiles, after.appMemory - before.appMemory
Change(a, b) == b - a

\* Slip: the two looks are swapped.
ExternalChange_swapped(k) ==
  ((shots[k].external - shots[k + 1].external) % Word) * shots[1].page_size

\* (after.vm_stat.external_page_count - after_map.vm_stat.external_page_count)
\*   * before.page_size: the page size is always that of the first look.
ExternalChange(k) ==
  ((shots[k + 1].external - shots[k].external) % Word) * shots[1].page_size

-----------------------------------------------------------------------------
(* The tests *)
Test == TestOrder[turn]
InTests == phase = "tests" /\ turn \in DOMAIN TestOrder
At(where) == InTests /\ Test \in asked /\ pos = where
Amount == IF Test = "private" THEN PrivateSize ELSE TestSize
Owned == IF "memory" \in held THEN Amount ELSE 0
Moved(from, to, n) == [pools EXCEPT ![from] = @ - n, ![to] = @ + n]

\* The test is over and has given everything back.
Over == /\ turn' = turn + 1 /\ pos' = Start(turn + 1)
        /\ held' = {} /\ size' = 0 /\ shots' = << >>
GoOn(where) == pos' = where /\ UNCHANGED turn

\* The flag of this test is not set.
NotAsked ==
  /\ InTests /\ Test \notin asked
  /\ Over
  /\ UNCHANGED <<options, phase, file, temp, pools, churn>>

Returned ==
  /\ phase = "tests" /\ turn \notin DOMAIN TestOrder
  /\ phase' = "returned"
  /\ UNCHANGED <<options, turn, pos, held, size, file, temp, pools, shots, churn>>

\* No path, no such file, or the size of the file.
FindFile ==
  /\ At("find")
  /\ IF named /\ file.size >= 0
       THEN GoOn("before") /\ size' = file.size /\ UNCHANGED <<held, shots>>
       ELSE Over
  /\ UNCHANGED <<options, phase, file, temp, pools, churn>>

LookBefore ==
  /\ At("before")
  /\ \E before \in GetSystemMemoryMetrics : shots' = <<before>>
  /\ GoOn("acquire")
  /\ UNCHANGED <<options, phase, held, size, file, temp, pools, churn>>

LookAfter ==
  /\ At("after")
  /\ \E after \in GetSystemMemoryMetrics : shots' = Append(shots, after)
  /\ GoOn("report")
  /\ UNCHANGED <<options, phase, held, size, file, temp, pools, churn>>

\* VM_PURGABLE_NONVOLATILE: its pages are not counted as purgeable.
AlloctePugealeMemory2 == Moved("free", "app", TestSize)

\* mmap of anonymous memory or vm_allocate, and the loop over its pages.
Allocate ==
  /\ At("acquire") /\ Test \in {"private", "shared", "purgeable"}
  /\ held' = {"memory"}
  /\ pools' = IF Test = "purgeable" THEN AlloctePugealeMemory2
                                   ELSE Moved("free", "app", Amount)
  /\ GoOn("after")
  /\ UNCHANGED <<options, phase, size, file, temp, shots, churn>>

AllocateFails ==
  /\ At("acquire") /\ Test \in {"private", "shared"}
  /\ Over
  /\ UNCHANGED <<options, phase, file, temp, pools, churn>>

\* nullptr is not MAP_FAILED: the test goes on without memory.
PurgeableFails ==
  /\ At("acquire") /\ Test = "purgeable"
  /\ GoOn("after")
  /\ UNCHANGED <<options, phase, held, size, file, temp, pools, shots, churn>>

\* IncreaseCachedFiles: what could be written is in the cache, and stays.
FillCache ==
  /\ At("acquire") /\ Test = "cache"
  /\ \E n \in 0 .. TestSize : temp' = n /\ pools' = Moved("free", "cache", n)
  /\ GoOn("after")
  /\ UNCHANGED <<options, phase, held, size, file, shots, churn>>

\* The stream does not open, or does not open for reading and is unlinked.
FillCacheFails ==
  /\ At("acquire") /\ Test = "cache"
  /\ Over
  /\ UNCHANGED <<options, phase, file, temp, pools, churn>>

OpenFile ==
  /\ At("acquire") /\ Test \in MapTests
  /\ held' = {"fd"}
  /\ GoOn("map")
  /\ UNCHANGED <<options, phase, size, file, temp, pools, shots, churn>>

\* mmap refuses a size of 0.  The test that writes looks once more.
MapFile ==
  /\ At("map") /\ size > 0
  /\ held' = {"fd", "mapping"}
  /\ IF Test = "map_modify"
       THEN \E after_map \in GetSystemMemoryMetrics : shots' = Append(shots, after_map)
       ELSE UNCHANGED shots
  /\ GoOn("touch")
  /\ UNCHANGED <<options, phase, size, file, temp, pools, churn>>

\* open or mmap fails.
MapFails ==
  /\ At("acquire") \/ At("map")
  /\ Test \in MapTests
  /\ Over
  /\ UNCHANGED <<options, phase, file, temp, pools, churn>>

\* The loop over the pages brings those of the file into the cache; if it
\* writes, it modifies them.
PagesComeIn ==
  /\ pools' = [Moved("free", "cache", file.size - pools.filed) EXCEPT !.filed = file.size]
  /\ file' = [file EXCEPT !.modified = @ \/ (Test = "map_modify" /\ file.size > 0)]

TouchFile ==
  /\ At("touch") /\ size <= file.size
  /\ PagesComeIn
  /\ GoOn("after")
  /\ UNCHANGED <<options, phase, held, size, temp, shots, churn>>

\* The file became shorter: SIGBUS at its first page that is no more.
Faults ==
  /\ At("touch") /\ size > file.size
  /\ PagesComeIn
  /\ phase' = "killed" /\ held' = {}
  /\ UNCHANGED <<options, turn, pos, size, temp, shots, churn>>

\* The report, the pause, munmap and close.
Report ==
  /\ At("report")
  /\ pools' = IF "memory" \in held THEN Moved("app", "free", Amount) ELSE pools
  /\ Over
  /\ UNCHANGED <<options, phase, file, temp, churn>>

-----------------------------------------------------------------------------
(* The rest of the system *)
Others(n) == /\ phase = "tests" /\ churn + n <= ChurnMax
             /\ churn' = churn + n
             /\ UNCHANGED <<options, phase, turn, pos, held, size, temp, shots>>

\* A page is allocated, freed, cached, evicted, made volatile.
PageMoves ==
  /\ \E from, to \in {"free", "app", "cache", "volatile"} :
       /\ from # to
       /\ pools[from] > (IF from = "cache" THEN pools.filed ELSE 0)
       /\ from = "app" => pools.app > Owned
       /\ pools' = Moved(from, to, 1)
  /\ UNCHANGED file
  /\ Others(1)

\* A page of the user's file is read, or evicted.
FilePageMoves ==
  /\ \/ pools.filed < file.size /\ pools' = [Moved("free", "cache", 1) EXCEPT !.filed = @ + 1]
     \/ pools.filed > 0 /\ pools' = [Moved("cache", "free", 1) EXCEPT !.filed = @ - 1]
  /\ UNCHANGED file
  /\ Others(1)

FileIsCut ==
  /\ file.size > 0
  /\ file' = [file EXCEPT !.size = @ - 1]
  /\ pools' = IF pools.filed = file.size
                THEN [Moved("cache", "free", 1) EXCEPT !.filed = @ - 1] ELSE pools
  /\ Others(1)

Init ==
  /\ argv \in UNION {[1 .. n -> Letters] : n \in 0 .. ArgsMax} /\ args = argv
  /\ asked = {} /\ named = FALSE /\ phase = "start"
  /\ turn = 0 /\ pos = "before" /\ held = {} /\ size = 0 /\ temp = 0
  /\ file \in [size : -1 .. FileMax, modified : {FALSE}]
  /\ \E n \in 0 .. FileMax :
       /\ n > 0 => n <= file.size
       /\ pools = [free |-> Memory - n - 3, app |-> 1, volatile |-> 1, cache |-> n + 1, filed |-> n]
  /\ shots = << >> /\ churn = 0

Program == \/ Begin \/ Stops \/ Sets \/ Names \/ OptionsEnd \/ NotAsked \/ Returned
           \/ FindFile \/ LookBefore \/ LookAfter \/ Allocate \/ AllocateFails
           \/ PurgeableFails \/ FillCache \/ FillCacheFails \/ OpenFile \/ MapFile
           \/ MapFails \/ TouchFile \/ Faults \/ Report

Next == Program \/ PageMoves \/ FilePageMoves \/ FileIsCut
Spec == Init /\ [][Next]_vars

-----------------------------------------------------------------------------
Distance(a, b) == IF a < b THEN b - a ELSE a - b
Pairs == 1 .. Len(shots) - 1
Last(k) == k = Len(shots) - 1

\* What the test itself did to the cache, and to the memory of programs,
\* between its looks k and k + 1.
Effect ==
  CASE Test = "cache" -> temp
    [] Test \in MapTests -> size - shots[1].filed
    [] OTHER -> 0
CacheEffect(k) == IF Last(k) THEN Effect ELSE 0

\* The look succeeded.
Taken(c) == c.page_size > 0

\* The looks before and after the writes to a shared mapping.
AfterWriting(k) == Test = "map_modify" /\ Last(k)

(* The two differences the tests print, of "cached files" and of "App      *)
(* memory", are what the test did, give or take what the rest of the system *)
(* moved: they are right, and negative, also when the pages became fewer.  *)
(* Only App memory after writes to a shared mapping, which the program     *)
(* says will grow, is left open.  If a look failed, which the program does *)
(* not notice, its zeros count: without the second look a test reports no  *)
(* growth at all, and without the first one it reports no less than it     *)
(* did.                                                                    *)
ChangesAreTheTests ==
  At("report") => \A k \in Pairs :
    LET a == shots[k]
        b == shots[k + 1]
        cached == Change(CachedFiles(a), CachedFiles(b))
        app == Change(AppMemory(a), AppMemory(b))
    IN  /\ Taken(a) /\ Taken(b) =>
             /\ Distance(cached, CacheEffect(k)) <= churn
             /\ ~AfterWriting(k) => Distance(app, Owned) <= churn
        /\ ~Taken(b) => cached <= 0 /\ app <= 0
        /\ Taken(b) /\ ~Taken(a) => cached >= CacheEffect(k) - churn /\ app >= Owned

(* The difference of external_page_count is taken on the counters, modulo  *)
(* Word: it is right as long as the pages did not become fewer, and then   *)
(* it is too large by exactly Word.  If the later look failed, what is     *)
(* printed is nothing or more than the machine has; if the first look      *)
(* failed, nothing, though the other two looks may be right.               *)
ExternalChangeWrapsBelowZero ==
  At("report") /\ Test \in {"map_shared", "map_modify"} => \A k \in Pairs :
    LET printed == ExternalChange(k)
        fewer == shots[k + 1].external < shots[k].external
    IN  /\ Taken(shots[1]) /\ Taken(shots[k]) /\ Taken(shots[k + 1]) =>
             Distance(IF fewer THEN printed - Word ELSE printed, CacheEffect(k)) <= churn
        /\ ~Taken(shots[k + 1]) => printed = 0 \/ printed > Memory
        /\ ~Taken(shots[1]) => printed = 0

\* The command line, read as a whole, names a file and asks for the test that
\* writes or for all tests, and asks neither for help nor for the monitor.
AsksToWrite ==
  \E k, n \in DOMAIN argv :
    /\ argv[k] = "i" /\ argv[n] \in {"w", "a"}
    /\ \A j \in DOMAIN argv : argv[j] \notin {"h", "m", "?"}

(* The user's file is written to only when the command line asks for it,   *)
(* in whatever order its options come, and none of them ends the program   *)
(* before it.                                                              *)
WritesOnlyWhenAsked == file.modified => AsksToWrite
=============================================================================
