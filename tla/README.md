# memory_demo: TLA+ models, model checking and proofs

The repository is a set of small programs that show how the memory indicators of
macOS and Windows react to different kinds of memory. Each of them acquires
resources (heap blocks, mappings, descriptors, files, shared memory objects, System V
segments, Mach ports, libraries), lets the user look (`std::cin.get()`), often shares
memory with a child it forks, and releases everything. What is hard about
them is not the arithmetic but the order of things: which of fifteen calls failed,
who holds what at that moment, who takes the next line of the terminal, whether the
child has written before the parent reads, who still maps a name that is deleted.

## Inventory

| part | source | state | operations | what makes it correct |
|---|---|---|---|---|
| footprint demos | `macos/process/xnu_footprint_demo.cpp` | mappings, descriptors, heap blocks, temporary file, POSIX object, System V segment, child | one demo per kind of memory; `fork`, child writes, parent waits and reads | nothing leaks on any path, names outlive their users, the parent sees the child's write |
| Metal demo | same file, 293-467 | files in `/tmp`, one of them named after the pid | compile twice, hand a command to a Terminal window, remove the files | every file has somebody who removes it |
| Activity Monitor demos | `macos/process/activity_monitor_demo.mm` | as above, plus `NSPurgeableData` with its access count | as above; parent and child pause on the same terminal | as above; a character passes one pause; accesses are balanced |
| Mach sharing | `macos/process/mach_shared_memory_demo.cpp` | a region, a memory-entry port right, the child's mapping | allocate, make entry, `fork`, map, wait, read | the child's write is seen |
| dirty file mapping | `macos/process/file_mapping_dirty_demo.cpp` | temporary file, descriptor, mapping | map, write, release | nothing leaks |
| shared library | `macos/process/shared_library_demo.cpp` | a directory with source and library, `dlopen` references of four processes, recorded pids | compile, load, fork three children, wait for them, remove | the library outlives its users, every child is waited for |
| process report, macOS | `macos/process/memory_info.cc` | a walk over the regions of a running process, a right to its task | sum pages by share mode | no page counts twice; the totals are off by no more than what changed |
| process report, Windows | `windows/process/process_memory_monitor.cpp` | two snapshots, a buffer | size the buffer, query, subtract | the buffer suffices, differences are not negative |
| Windows demos | `windows/process/memory_allocation_demo.cpp`, `memory_metrics_demo.cpp` | allocations, views, named sections, handles, temporary files | acquire, touch, pause, release | error paths release what is held; instances with one name have one section; files go |
| system report and tests | `macos/system/activity_monitor_demo.mm` | counters of the system, temporary files, a command line | parse options, look, allocate or map, look again, subtract | differences are the test's own; the user's file is written to only when asked |
| pressure loop | `macos/system/test.cc` | none | read counters, print | - |
| static data | `data_segments_demo.cpp`, `large_code_segment.cpp` | none | print | - |

How the parts interact. `main()` of each program calls its demos one after the other;
a demo of System V memory falls back to the POSIX demo when its calls fail. Parent
and child share the mappings the parent made before `fork()`, a copy of the heap and of
the stdin buffer, and the terminal itself: whoever calls `read()` first takes
the line. Files and shared memory objects are shared with the whole system by name:
with a later run that got the same pid, with a second instance of the Metal demo, and on Windows with
every instance that names its section alike. The reports look at processes and counters that
others change meanwhile.

What is hard to test: two processes and a user in any order; any call failing; a child
killed at any moment; end-of-file on the terminal; a full disk; memory pressure;
a process ended between acquiring and releasing a name; snapshots taken at different
times. `PROJECT.json` lists these hazards at their lines.

## The modules

### A machine and its programs

The demos are straight-line code over the same few operations, so they are modelled as
*data* executed by one machine rather than as twenty state machines.

* `DemoSteps` is the vocabulary: a step is a record with the kind of operation, the
  resource, the byte written or expected, the releases of the error path in the order of the
  code, and the demo tried after a failure.
* `XnuFootprintDemo`, `MachSharedMemoryDemo`, `ActivityMonitorDemo` write each demo
  down as a sequence of such steps, next to the constants that describe the
  resources: their kind, what they are made from, which files are filled without
  checking the writes, which mappings have the requested size and not the file's. An error
  path in a script is the list of releases the code has at that place, not a
  list computed from what is held. `Check` is a read of which the code expects one byte, `Look` one that
  reports whichever byte it finds, as `demo_purgeable_memory` does.
* `DemoMachine` executes them. Parent and child execute one step per action;
  the user types lines.

| variable | in the program |
|---|---|
| `queue`, `demo`, `pc` | the calls `main()` still has to make, the current function, the line in it |
| `mode`, `undone` | running, in an error path (and how far), zombie, returned, killed |
| `held` | mappings, blocks, descriptors, rights of each process |
| `names`, `short` | files, objects and segments in the system; those whose writes failed |
| `seen` | the byte each process reads in each region |
| `chunks` | the pressure loop's blocks |
| `forked`, `status` | the branch taken after `fork()`, what `waitpid` would tell |
| `tty`, `inbuf`, `eof` | lines typed and not read, the stdin buffer of each process, end-of-file |

Any call that can fail may fail in the model (`CallFails`), and then the error path runs
release by release (`Undo`) before the demo returns or the alternative is called
(`GiveUp`). `fork()` copies `held` except Mach rights, `seen` and the stdin buffer. A write
reaches every process that maps a shared region. What a process has in purgeable memory the kernel may take at any
time, and then zeros are read (`Discard`). A line is a number of characters
(0 is Ctrl-D); `std::cin.get()` reads a line when nothing is buffered and takes one
character.

* `ResourceLifecycle` is the abstract specification: one resource at a time, only when what
  it is made from is owned, given back only when nothing made from it is owned, over only
  when nothing is owned.
* `DemoProperties` states the properties, the well-formedness of scripts, the
  refinement mapping, and the inductive invariants: `Accounts` (the parent) and
  `FamilyAccounts` (parent, child and what they share).
* `TerminalProperties` states what a pause promises about typed characters, of which a recursive
  function adds up those in the lines that wait.
* `MCXnuFootprint` puts the scripts of three programs on the machine, the footprint demos, the
  Mach demo and the dirty file mapping, and `MCActivityMonitor` those of the fourth.
  Each assumes `ScriptsAreWellFormed`, which TLC evaluates: the hypothesis
  of the theorems, discharged for the scripts of the repository. `MCXnuFootprint` also
  evaluates `PausesAreApart`, which the Activity Monitor demos do not meet. `MCMachSharedMemory` has the
  Mach demo alone, for the run `mach_claim`.

### Interrupted and started again

`DemoRestart` extends the machine by the system around it. `Interrupt` is Ctrl-C at any step:
memory, descriptors and attachments go with the processes, names stay. `Restart` begins another
run; what the last one left becomes part of `left`, a set of objects told apart by their kind and by the
run that made them. The new run may have the pid of an
old one, in which case one of these objects (`inherit`) has its name already and is opened as if it were
new, since neither `shm_open` nor `std::ofstream` is asked to insist on a new object; from then on it is
the new run's. A step that makes a new object
needs room for it (`Limit`). The search for old segments in the code (651-658) asks for
`IPC_PRIVATE`, which yields a new segment or none, so it changes nothing and no
action finds a segment that was left. `MCDemoRestart` runs the three demos that make named objects, and
evaluates `ScriptsAreWellFormed` and `NamesAreApart` (a demo has one name at a time) for them.

### The Metal demo

`IokitDemo` has several instances on the files of `/tmp`. Each writes its source, compiles it,
makes the library, sends the command to Terminal (`RunMetal`) and removes the files, or returns
from a failure with the removals of that error path (`Remove`, `RemoveFile`). What
the tools make has one name for all instances, so one may remove what another just made.

### The shared-page walks of macOS

`RegionWalk` has both functions of `memory_info.cc` that walk over the regions:
`print_memory_info` (two loops, its own address space) and `getProcessSharedMemory` (one loop, a
right to another task). `Visit` is one round of a loop and asks the kernel for the next region. A call for the
next region may fail when none is left or for another reason, and both end the loop (`LoopEnds`); `cut`
remembers that regions remained. Between two rounds `Reshape` changes the pages or reference count of a region, and `Map` and `Unmap` change the other
process's address space. `churn` counts the pages concerned. A region is a start and a *shape*
(size, share mode, references, private and shared pages); `MCRegionWalk` has one shape for every branch of
the classification.

### The purgeable data

`PurgeableData` is `demo_purgeable_data` with the access count of Foundation, which begins at 1.
The object could be discarded only at 0. That never happens, which is what `NeverDiscarded` says,
so the answer NO of `beginContentAccess` has no action here, nor has discarding.

### The system tests

`SystemTests` is the program of `macos/system`: `Begin`, one action per kind of option (`Sets`,
`Names`, `Stops`, `OptionsEnd`), and the seven tests over four pools of pages (`free`, `app`,
`volatile`, `cache`). `main()` asks for each test in a fixed order (`TestOrder`), of which `turn` is the
place reached; a test whose flag is not set is passed (`NotAsked`). A test looks (`LookBefore`), allocates or maps, touches, looks again (`LookAfter`)
and prints the differences (`Report`). A look may fail, and then all its counters are zero
(`NoMetrics`), which no test asks about. The private test allocates `PrivateSize` (200 MB), the others
`TestSize` (500 MB). The rest of the system moves pages at any time (`PageMoves`,
`FilePageMoves`) or shortens the user's file (`FileIsCut`); the pages that are left come in and are written
before the program is killed (`Faults`). The counters are computed modulo `Word`, as `natural_t`;
two of the printed differences are taken after widening (`Change`), one before, and multiplied by the page
size of the first look (`ExternalChange`). `MCSystemTests` adds the view of the run.

### The shared library

`SharedLibraryDemo` is a module of its own, since it has several children, library
references and external commands: the parent (`Start`, `Create`, `Compile`, `Load`,
`LoadFails`, `Fork`, `ForksEnd`, `ParentPause`, `ReapNext`, `AllReaped`, `Cleanup`), each child
(`ChildLoads`, `ChildLoadFails`, `ChildUnloads`, `ChildExits`, `ChildKilled`) and the
user (`Type`). A child inherits the parent's reference to the library and
opens a second one. Here a line is one Enter; longer lines are the subject of the run `activity_monitor`.

### The Windows report

`WorkingSetReport` is `printProcessMemoryInfo`: the size of the working set is read first
(`GetProcessMemoryInfo`), a buffer is sized after it (`Malloc`, `Memset`), the pages are read
into it (`QueryWorkingSet`), and the printed sharable part (`PrintedSharable`) subtracts the
second look from the first. The memory manager (`PagesCome`, `PagesGo`) moves pages between
the calls. Only numbers of pages matter, so pages are counted and not named. The buffer is the entries and a header of
the size of one (`PagesOf`).

### The Windows demos

`WindowsScripts` has the demos of both programs in the vocabulary of `DemoSteps`. The machine of
macOS does not fit (no `fork`, but several instances at once), so `WindowsDemos` has its own:
`CreateSection` or `OpenSection`, depending on whether the name exists; the name goes with the last handle
(`CloseSection`), the file only if nobody has it open or mapped (`DeleteFile`). The unchecked
`GetTempPathA` and `GetTempFileNameA` of `createTempFile` leave no usable name when they fail, so the stream
does not open and "" is returned: the failure of the step that makes the file. `Throws` is `new`
without a handler. The static facts the proofs rest on (`DemoIsWellFormed`) are about these very
scripts, so they are an assumption of the module (`DemosAssumption`) that TLC evaluates.

## What is checked

Names with `_` after a definition's own name (`Undo_reversed`, `Wait_nohang`, ...) and
definitions announced as a slip are bugs of a kind one could
make; `PROJECT.json` says which property finds which.

| run | instance | shows |
|---|---|---|
| `xnu` | three programs: all footprint demos but Metal, the Mach demo, the dirty mapping; each `main()` as it is and each demo alone | nothing leaks, nothing is used dead, one reader, termination (below) |
| `activity_monitor` | all demos but `demo_purgeable_data`; `main()` as it is and each demo alone | the same where parent and child compete for the terminal, and what a typed character is worth |
| `purgeable_data` | 6 pages, the code's five rounds | every access is ended, one always remains |
| `shared_library` | three children as in the code | the library outlives its users, every child is waited for |
| `metal` | three instances | every file has an instance that will remove it |
| `restart` | three runs of a demo with a named object, room for two segments | at most one object left per interrupted run, every run ends |
| `regions` | every arrangement of seven shapes in four pages, three pages of change | no page counts twice, totals drift by what changed or are too small, the right is given back |
| `system_tests` | every command line of up to three options, a file of 0 to 2 pages or none | the printed changes are the test's own, or what a failed look makes of them; where they wrap; when the file is written to |
| `windows` | two instances, either program each | error paths, shared names, files that stay, termination |
| `working_set_report` | the code's 100 extra entries and 512 entries a page; working sets of 0 pages to 52600; up to 149 pages move | when the buffer suffices, what the difference is |
| `mach_claim`, `short_file` | | disagreements, below |

The properties of the machine: `NothingLeaks`, `UsesOnlyWhatItHolds` (no double
release, no use after release, in parent, child and error paths),
`NamesOutliveTheirUsers`, `ParentSeesChildsWrite` (every read that a demo expects one byte of; a `Look`
promises nothing), `NoChildIsLeftBehind`,
`OneReaderAtATime` (holds for `xnu` only: the Activity Monitor demos do let both wait),
`ImplementsLifecycle` (the refinement), `Terminates`, and the inductive invariants `Accounts` (of which
`TypeOK` is a part) and `FamilyAccounts`.
`NothingLeaks` and the inductive invariants are checked in the `xnu` run; for
the Activity Monitor demos the theorems apply, since their scripts are well formed.
`OnlyForkCopiesCharacters` (run `activity_monitor`) says that a pause uses up one
character, and that only `fork()` makes more of them, by copying the stdin buffer.

The properties of the library demo: `LibraryIsThereToLoad`, `UnloadedBeforeRemoval`,
`EveryChildIsReaped`, `OnlyFailedCreationLeavesFiles`, `Terminates` and the invariant
`Consistent`. `ReferencesBalance` and `TypeOK` follow from the proofs.

Of the walks: `NoPageIsCountedTwice` (what was counted fits below the address reached, plus
what the other process replaced behind it), `ReportDriftsByChurn` (the totals never exceed those of the final state by more than the change; unless
the walk was cut short they do not fall below them by more either: exact in a quiet system), `Terminates`.

Of the system tests: `ChangesAreTheTests` (between two looks that worked the changes of cached files and
of App memory are the test's own up to `churn`; only App memory after writes to a shared mapping is left open;
without the second look no growth is printed, without the first alone no less than the test's),
`ExternalChangeWrapsBelowZero` (the same for `external_page_count`, which is too large by a whole `Word` when it fell;
with a later look that failed it is 0 or more than the machine has, with the first one failed it is 0),
`WritesOnlyWhenAsked` (relates the command line as a whole, `AsksToWrite`, to the file).

Of the Windows demos: `UsesOnlyWhatItHolds`, `SameNameSameObject` (a view never
outlives its name while the demo is in it, so no second object of that name appears),
`OnlySharedOrEmptyFilesAreLeft`, `Terminates`.

Of restarts: `OneOrphanPerInterrupt` (every run leaves at most one object, wherever it was interrupted,
and none when it returned), `EveryRunEnds`. Of the Metal demo: `EveryFileHasARemover`.
Of the purgeable data: `NeverDiscarded`.

The properties of the report: `BufferIsFreed`, `SlackSuffices` (the second query has room as long
as the growth, the buffer included, stays within the extra entries; a process of more than about 200 MB
exceeds them with the buffer alone), `SharableIsClose` (what is printed as sharable is the shared
part less the buffer, give or take what moved), `Drift`.

Bounds. The scripts are the real ones, whole, and there is no bound on their execution.
`QueueMax = 2` lines may wait in the terminal: two readers exist at most, and a line more than there are
readers changes nothing. Lines have 0, 1 or 2 characters: end-of-file, a bare Enter, an
Enter with something before it, which is all a one-character reader can tell
apart. `ChunkMax = 2` blocks: none, one, several. Deadlock is not checked because
the programs end; `Terminates` says that they do.

For the report, 74 and 75 pages are the last batch that still fits
next to a buffer of 27 pages and the first that does not; 52000 private pages are a process
whose buffer alone exceeds the extra entries.

Two Windows instances meet in every pair of demos; a third would hold one more handle of a name and
open or close it like the second. Three Metal instances: one removes, one makes, one looks. For the walks,
four pages hold up to four regions and gaps, and `ChurnMax = 3` allows a region of two pages to be
replaced by one behind the walk and another to change in front of it. `RunsMax = 3` runs fill a segment table
of two and meet it full; there the user types short lines (`QueueMax = 1`, `LineSizes` 0 and 1, no
pressure blocks), because the terminal is the subject of other runs. The system has `Memory = 10`
pages; the private test takes `PrivateSize = 1` and the others `TestSize = 2`, so that the two are told apart; a file
has at most `FileMax = 2` pages, so that the first can come in and the second be missing; `Word = 32` is larger than
any pool, as 2^32 is; one page moves by itself (`ChurnMax = 1`). Three options (`ArgsMax`) are `-i`, one that asks
for the writes and one that may call them off (`-h`, `-m`, unknown), in every order; the theorem about the
command line has no such bound. The run has a `VIEW`: once the options are read, no action looks at the command line,
and of the properties only `WritesOnlyWhenAsked`, through `AsksToWrite`; so two states that agree on the
view have the same successors up to the view and satisfy the same invariants.
The purgeable data has 6 pages instead of its real number; its accesses do not depend on it.

Fairness. The kernel schedules every process, hence weak fairness of the steps of the
parent and of each child. The user goes on pressing Enter, hence weak fairness of
typing: every demo tells the user to. Death of a child, failing calls and
end-of-file may happen and need not. No reader is guaranteed any
particular line: other readers may take it, but each takes finitely many. In `DemoRestart` the same
holds within a run, and nobody has to interrupt or restart. In `WindowsDemos` each instance
is scheduled and its user ends its pauses (weak fairness per instance). In `RegionWalk` the walking
thread runs (weak fairness of `Walker`); the others owe nothing.

### Disagreements found

With a run that ends in a violation:

* `mach_claim`: the child of `mach_shared_memory_demo.cpp` never maps the region, because port
  rights are not inherited; the parent ignores its exit status and announces a modified byte.
* `short_file`: the writes of `create_temp_file` are unchecked and the mapping has
  the requested size, so a full disk ends the program with SIGBUS. `main()` has its call of the demo commented out
  (`xnu_footprint_demo.cpp:838`); the run calls it, as it calls every demo alone.

As a property that holds, stating what the code does instead of what it says:

* "Press enter to continue" is one character of the stdin buffer: type two before a `fork()` and
  the one left lets a pause of the parent and one of the child pass (`OnlyForkCopiesCharacters`).
* The Windows report prints a sharable part that is smaller than the shared part in it, by its own
  buffer, even when no page moves (`SharableIsClose`).
* `createTempFile` reports a failure and forgets the path when its stream does not open, but
  the file exists by then (`memory_allocation_demo.cpp:37`; `OnlySharedOrEmptyFilesAreLeft`).
* The change of `external_page_count` is taken in 32 bits and printed in 64: a page less is 64 TB more
  (`macos/system/activity_monitor_demo.mm:636` and 745; `ExternalChangeWrapsBelowZero`).
* `GetSystemMemoryMetrics` returns zeros when `host_page_size` or `host_statistics64` fails, and no test notices: it
  prints the whole of the other look, with either sign, as its change
  (`macos/system/activity_monitor_demo.mm:156-188`; `ChangesAreTheTests`, `ExternalChangeWrapsBelowZero`). The difference of
  `external_page_count` is always multiplied by the page size of the first look (745, 750): if that one failed, it is 0
  even when the other two worked.
* The private test announces about 500 MB twice (314, 339) and allocates 200 MB (312); its change is
  200 MB (`ChangesAreTheTests`, with `Owned`).
* Of content in purgeable memory the program says that the system may reclaim it
  (`macos/process/activity_monitor_demo.mm:162`, 188-196, the repository's `README.md:224`, `macos/process/README.md:14-22`), while line 153
  sets it to nonvolatile, which asks the kernel to keep it. The model sides with the text: `Discard` may happen at any time
  and the demo promises no byte (`ParentSeesChildsWrite` leaves its `Look` out).
* The totals of a walk over the regions are too small when a call for the next region fails, which the loops
  take for the end (`macos/process/memory_info.cc:64`, 124), and the report does not say so (`ReportDriftsByChurn`).
* The purgeable test announces cached files, but its memory is made nonvolatile and counts as App
  memory (`macos/system/activity_monitor_demo.mm:269`, 415; `ChangesAreTheTests`).
* `endContentAccess` is said to mark the data as purgeable and the pool to release it; the count stays at 1
  or more, and the object stays (`macos/process/activity_monitor_demo.mm:383`, 431; `NeverDiscarded`).

Seen while translating, and part of the models without a property of their own: the second loop of
`print_memory_info` goes on where the first ended and never sees a region (`memory_info.cc:152-173`); the
Metal program is reported as done (`xnu_footprint_demo.cpp:461`) though its command, joined without
newlines (341-449), is refused by the shell; the search for an old segment never finds one (651-652);
`-p` of the system tests is described as a private file mapping and runs the anonymous private one; writes to
a shared mapping are said to make App memory grow (`macos/system/activity_monitor_demo.mm:749`, 754), while the pages stay
file-backed, which the model counts as cached only and the property leaves open.

## What is proved

By TLAPS, for every value of the constants that meets the named assumptions. Every
safety invariant of a passing run is stated by a theorem, and so are the action property and the refinement;
`FamilyAccounts` and `Accounts` themselves are among them. TLC checked the properties themselves on the runs above first.

### The demos of macOS (`DemoProofs`)

`DemoAssumption` gives the constants their types. `ScriptsAreWellFormed` is a condition on the scripts
alone; no state occurs in it. TLC evaluates both for the scripts of the repository on each run. A script is
well formed when

* every error path lists exactly what is held at its place, each once (`UndoesAll`), and each step uses,
  takes and releases what it may (`StepWellFormed`);
* a demo forks once, waits before it ends, and no call in between can fail (`ChildIsJoined`);
* a child uses only what it inherited or acquired, unless it has already failed (`ChildIsWellFormed`);
* nothing is released before what was made from it, and no name while there is a child
  (`ReleasesAreOrdered`);
* the byte that is checked is the one the demo, or its child on every way to `exit(0)`, wrote last, and
  the parent reads it only on the branch of a fork that worked (`CheckIsMeant`).

The first invariant is `Accounts`. `NothingLeaks` speaks only of the end, so it is not inductive; `Accounts`
adds the ledger: a running parent has exactly `HeldBefore(demo, pc)`, what the script
acquired before that point and did not release; a parent in an error path has exactly
the releases that remain; blocks of a pressure loop exist only between the loop
and its undoing. `HeldNext` and `RemainingNext` carry the ledger over a step of the normal path and of an
error path; `LedgerAdvance`, `LedgerContinue` and `LedgerFrame` treat the three ways a step
changes the parent's position.

* `EverythingIsAccountedFor`: `Spec => []Accounts`.
* `NothingEverLeaks` (`NothingLeaks`).

The second is `FamilyAccounts`, inductive relative to the first. Where there is a child, the parent is
between fork and wait (`ChildIsKnown`); the child has what its place says, as a part of what it inherited
(`ChildLedger`); what the parent has was made from what it still has (`NeedsAreMet`); a child that
ended has a status (`StatusLedger`); and what a region contains is what the child has written so far, or
had written when it exited with 0 (`MemoryLedger`). `NamesOutliveTheirUsers` is a conjunct: that
the child still maps an object when the parent deletes its name is excluded only by where both are.

* `FamilyIsAccountedFor`: `Spec => []FamilyAccounts`.
* `NothingIsUsedDead` (`UsesOnlyWhatItHolds`), `NamesAlwaysOutliveTheirUsers` (`NamesOutliveTheirUsers`),
  `ParentReadsWhatChildWrote` (`ParentSeesChildsWrite`), `NoChildIsEverLeftBehind` (`NoChildIsLeftBehind`).
* `OnlyOneReaderAtATime` (`OneReaderAtATime`), with the further hypothesis `PausesAreApart`: the parent
  does not pause between fork and wait. It is false of the Activity Monitor demos, and so is the property.
* `DemosImplementLifecycle` (`ImplementsLifecycle`): the initial states map to initial states of
  `ResourceLifecycle`; each step of the machine acquires one resource, gives one back, ends, is killed, or
  changes nothing the abstract specification can see. `NeedsAreMet` justifies the acquisitions,
  `ReleasesAreOrdered` the releases.

The terminal needs an induction. `Characters` is a recursive function on sequences of lines, and a prover
knows nothing of it but its definition by CHOOSE. `CharactersAreDefined` proves that it satisfies its
recursion, from the smallest length for which it would not (`SmallestNumber`, the well-foundedness of the
numbers, stated about a set and not about an operator); `CharactersOfTail` and `CharactersAreNumbers`
are what the steps need. Of the machine they need its types only.

* `CharactersPassPauses` (`OnlyForkCopiesCharacters`), for lines of any length.

Through restarts, `RestartInv` says that both accounts hold of the present run, which has at most one name
(`OneName`), and that every earlier run left at most one object (`OneEach`). A killed parent makes
no name, so the name it had is the last one. The hypothesis `NamesAreApart` is, like
`ScriptsAreWellFormed`, about the scripts alone.

* `RestartsAreAccountedFor`: `RestartSpec => []RestartInv`.
* `OneOrphanPerRun` (`OneOrphanPerInterrupt`), for any number of runs and any limits.

### The Metal demo (`IokitProofs`)

* `FilesHaveRemovers` (`EveryFileHasARemover`), for any number of instances. The property alone is not
  inductive: an instance that turns to removing forgets the list it had, so the
  invariant adds `Bookkeeping`, that it had none.

### The shared library (`SharedLibraryProofs`)

For any number of children; the only assumption is `LibraryAssumption`.

* `LibraryIsConsistent`: `Spec => [](TypeOK /\ Consistent)`. That the library outlives its users
  follows from the parent's waits, and those from the recorded pids; `Consistent` says that
  the records are exactly the children forked and not waited for, each once, and which references
  and files belong to each place of the parent.
* `LibraryOutlivesItsUsers` (`LibraryIsThereToLoad`, `UnloadedBeforeRemoval`,
  `EveryChildIsReaped`) and `NothingOfTheLibraryStays` (`OnlyFailedCreationLeavesFiles`,
  `ReferencesBalance`) follow from it; `ChildrenFindTheLibrary` and `NoChildIsForgotten` state one
  property each.

### The system tests (`SystemTestsProofs`)

For any command line, any sizes, any file and any amount of change, under `SystemAssumption`: the
machine has room for the test's memory, what `-c` left in the cache, the file and the rest, and its
pages are fewer than half of what a `natural_t` counts, so that a difference that wrapped is larger than
the machine; the private test allocates no more than the others.

* `SystemInvariant`: `Spec => []Inv`. `CommandInv` relates what was read of the command line to the
  flags and to the file; `Places` says what a test holds at each place; `Room` keeps
  the pools within the machine; `NoLookYet` that nothing is looked at before the tests; `Looks` how far the pools
  are from each look that did not fail, for each test and place, up to what the rest of the system moved; a look
  that failed is all zeros (`PrintedLook`), and then the bounds of the properties come from `Room` alone.
* `FileIsWrittenOnlyWhenAsked` (`WritesOnlyWhenAsked`), `PrintedChangesAreTheTests` (`ChangesAreTheTests`),
  `ExternalChangeIsTheTestsOrWraps` (`ExternalChangeWrapsBelowZero`).

### The Windows demos (`WindowsProofs`)

For any number of instances, with the scripts of the repository (`DemosAssumption`); `InstancesAssumption`
only reserves the name `"nobody"`.

* `InstancesAreAccountedFor`: `Spec => []Inv`. For each instance `Ledger` says what it has, on the
  normal path and on each error path, with what an error path forgets (`Forgotten`); `SectionLedger` that the
  section it has a handle of is the one the name denotes now, across whatever other instances open and close;
  `FileLedger` when the file of the unnamed section has a content; `EndsInPrompt` that the last
  demo is the prompt of `main()`, which holds nothing.
* `ErrorPathsMatch` (`UsesOnlyWhatItHolds`), `NamesAreShared` (`SameNameSameObject`), `PrivateFilesGo`
  (`OnlySharedOrEmptyFilesAreLeft`).

### The reports and the purgeable data

`WorkingSetProofs`, for any working set, slack, page size and movement:

* `LooksDriftBoundedly`: `Spec => [](TypeOK /\ BufferIsFreed /\ Drift)`, where `Drift` bounds what
  the second look can differ by from the first.
* `NoBufferStays` (`BufferIsFreed`), `BufferIsLargeEnough` (`SlackSuffices`) and `SharableDoesNotWrap`
  (`SharableIsClose`).

`RegionWalkProofs`, for an address space of any size, any shapes and any amount of change:

* `PagesAreCountedOnce` (`NoPageIsCountedTwice`). The property is not inductive: when the other process
  maps a region across the address the walk has reached, the next round takes the address to that region's end, but
  counts all of it. `Inv` therefore also says of every region the address has cut through that what was
  counted fits below its start, which the change pays for (`Credit`), and that regions do not
  overlap. `VisitKeepsInv` and `OthersKeepInv` carry it over a round and over a change;
  `ContributionFits` says that a region contributes at most its pages. Assumption: `WalkAssumption`.
* `ReportIsCloseToTheEnd` (`ReportDriftsByChurn`). The property speaks of the end; `DriftInv` says on the way there
  that what was counted differs from the sum over the regions passed (`Passed`) by no more than
  the change. When a loop ends the regions passed are all there are, or a part of them, whose sum is no larger
  (`SumOfPart`, `LoopEndKeepsDrift`). `VisitKeepsDrift`: the region found is the one that comes to be passed.
  `OthersKeepDrift`: a change replaces at most one region by one of the same place and size. The totals of the
  property are folds over the set of regions; the lemmas on sums (`Smallest` to `OneElementApart`) prove, from
  a smallest finite set for which it would fail, that the fold is defined and that the order in which it takes
  the regions does not matter, and `PrivateWeightsTotal` and `SharedWeightsTotal` connect the two. That the
  regions are finitely many follows from their being apart (`RegionsAreFinite`).

`PurgeableDataProofs`, for any number of pages and rounds:

* `ContentStays` (`NeverDiscarded`), from an invariant (`Accesses`) that gives the
  access count of each place in the demo. Assumption: `PurgeableAssumption`.

### Only model-checked

* Liveness: every `Terminates`, and `EveryRunEnds`. Fairness and ENABLED are out of the prover's reach.

## Not modelled, and the plan

Every part with state is modelled, and every property but liveness is proved. What could be next: one
well-formedness and one ledger for both machines, whose lemmas (`HeldFromStep` and `HeldAfterStep`) are alike,
and ledgers for the demos of `SharedLibraryDemo` in the same form.

Left out for good: the size and placement of allocations and the printed wording; the values the reports
print straight from one call; functions nobody calls (`runMemoryMonitorDemo` of Windows);
the monitor of the system program and `test.cc`, which only read
and print for ever; `data_segments_demo.cpp` and `large_code_segment.cpp`, which acquire nothing; build files. Command lines
of more than three options are beyond the bound of `system_tests`, not of its theorems.
