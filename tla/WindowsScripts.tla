---------------------------- MODULE WindowsScripts ----------------------------
(***************************************************************************)
(* The demos of windows/process/memory_allocation_demo.cpp and             *)
(* windows/process/memory_metrics_demo.cpp, as scripts.                    *)
(***************************************************************************)
LOCAL INSTANCE Sequences
LOCAL INSTANCE DemoSteps

main_prompt == <<Pause>>

demoAnonymousPrivate ==
  <<Acquire("memory", << >>), Touch("memory", "P"), Pause, Release("memory")>>

\* CreateFileMapping, MapViewOfFile, one write per page, the pause, and the
\* clean-up, for a section backed by the paging file.
shared_section(section) ==
  <<Acquire(section, << >>), Acquire("view", <<section>>), Touch("view", "S"), Pause,
    Release("view"), Release(section)>>

demoAnonymousShared == shared_section("AnonymousSharedDemo")

\* GetTempFileNameA makes an empty file; the stream that fills it may fail to
\* open, and then "" is returned and the file forgotten.  The results of
\* GetTempPathA and GetTempFileNameA are not looked at: without a file there is
\* no usable name either, the stream does not open, and "" is returned, which
\* is the failure of the first step.
createTempFile == <<Acquire("temp_file", << >>), Acquire("stream", << >>), Release("stream")>>

\* The same for a section backed by a temporary file.
mapped_file(section, v) ==
  createTempFile
  \o <<Acquire("hFile", <<"temp_file">>),
       Acquire(section, <<"hFile", "temp_file">>),
       Acquire("view", <<section, "hFile", "temp_file">>),
       Touch("view", v), Pause,
       Release("view"), Release(section), Release("hFile"), Release("temp_file")>>

demoFileMappedPrivate == mapped_file("unnamed", "P")
demoFileMappedShared == mapped_file("FileMappedSharedDemo", "S")

\* MEM_RESERVE only: the range is never written to.
demoVirtualAddressReserve == <<Acquire("memory", << >>), Pause, Release("memory")>>

demoCommittedMemory == <<Acquire("memory", << >>), Pause, Release("memory")>>

demoPrivateWorkingSet == <<New("heap"), Touch("heap", "A"), Pause, Release("heap")>>

demoSharedMemory == shared_section("SharedMemoryDemo")

Script ==
  [main_prompt    |-> main_prompt,
   private        |-> demoAnonymousPrivate,      shared        |-> demoAnonymousShared,
   mapped_private |-> demoFileMappedPrivate,     mapped_shared |-> demoFileMappedShared,
   reserve        |-> demoVirtualAddressReserve, commit        |-> demoCommittedMemory,
   working_set    |-> demoPrivateWorkingSet,     shared_memory |-> demoSharedMemory]

Demos == DOMAIN Script

\* The main() functions: a report and a pause, the demos, a report and a pause.
AllocationMain ==
  <<"main_prompt", "private", "shared", "mapped_private", "mapped_shared", "main_prompt">>
MetricsMain ==
  <<"main_prompt", "reserve", "commit", "working_set", "shared_memory", "main_prompt">>
=============================================================================
