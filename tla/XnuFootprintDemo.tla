--------------------------- MODULE XnuFootprintDemo ---------------------------
(***************************************************************************)
(* The demos of macos/process/xnu_footprint_demo.cpp, as scripts.          *)
(* demo_iokit_mapping, which drives a second program through a terminal    *)
(* window, is in IokitDemo.                                                *)
(***************************************************************************)
LOCAL INSTANCE Sequences
LOCAL INSTANCE DemoSteps

\* create_temp_file and cleanup_temp_file
create_temp_file == Acquire("file", << >>)
cleanup_temp_file == Release("file")

main_prompt == <<Pause>>

demo_internal_memory ==
  <<Acquire("buffer", << >>), Touch("buffer", "A"), Pause, Release("buffer")>>

demo_file_mapped_memory ==
  <<create_temp_file,
    Acquire("fd", <<"file">>),
    Acquire("mapped_memory", <<"fd", "file">>),
    Touch("mapped_memory", "B"),
    Pause,
    Release("mapped_memory"), Release("fd"), cleanup_temp_file>>

demo_anonymous_mapping ==
  <<Acquire("anonymous", << >>), Touch("anonymous", "C"), Pause, Release("anonymous")>>

demo_memory_compression ==
  <<Acquire("buffer", << >>), Touch("buffer", "Z"), Grow, Pause, Shrink, Release("buffer")>>

demo_page_table == <<Grow, Pause, Shrink>>

\* The branch of the parent in the three demos that fork.
wait_and_check(r, v) == InParent(<<Wait, Check(r, v)>>)

demo_anonymous_shared_memory ==
  <<Acquire("shared_memory", << >>), Touch("shared_memory", "A"), Fork>>
  \o wait_and_check("shared_memory", "B")
  \o <<Pause, Release("shared_memory")>>

child_anonymous_shared_memory == <<Touch("shared_memory", "B"), Pause, Exit>>

demo_shared_memory ==
  <<Acquire("shm", << >>), Grant("shm_fd"),
    Require(<<"shm_fd", "shm">>),
    Acquire("shm_mapping", <<"shm_fd", "shm">>),
    Touch("shm_mapping", "S"),
    Fork>>
  \o wait_and_check("shm_mapping", "C")
  \o <<Pause, Release("shm_mapping"), Release("shm_fd"), Release("shm")>>

child_shared_memory == <<Touch("shm_mapping", "C"), Pause, Exit>>

\* shmget is tried with five sizes and four sets of flags; the search for an
\* older segment, shmget(IPC_PRIVATE, 0), never finds one.
demo_sysv_shared_memory ==
  <<AcquireElse("segment", << >>, "shared_memory"),
    AcquireElse("attached", <<"segment">>, "shared_memory"),
    Touch("attached", "V"),
    Fork>>
  \o wait_and_check("attached", "C")
  \o <<Pause, Release("attached"), Release("segment")>>

child_sysv_shared_memory == <<Touch("attached", "C"), Pause, Release("attached"), Exit>>

demo_purgeable_memory ==
  <<Acquire("buffer", << >>), Touch("buffer", "P"), Pause, Release("buffer")>>

-----------------------------------------------------------------------------
XnuScript ==
  [main_prompt             |-> main_prompt,
   internal_memory         |-> demo_internal_memory,
   file_mapped_memory      |-> demo_file_mapped_memory,
   anonymous_mapping       |-> demo_anonymous_mapping,
   memory_compression      |-> demo_memory_compression,
   page_table              |-> demo_page_table,
   anonymous_shared_memory |-> demo_anonymous_shared_memory,
   shared_memory           |-> demo_shared_memory,
   sysv_shared_memory      |-> demo_sysv_shared_memory,
   purgeable_memory        |-> demo_purgeable_memory]

XnuDemos == DOMAIN XnuScript

XnuChildScript ==
  [d \in XnuDemos |->
     CASE d = "anonymous_shared_memory" -> child_anonymous_shared_memory
       [] d = "shared_memory"           -> child_shared_memory
       [] d = "sysv_shared_memory"      -> child_sysv_shared_memory
       [] OTHER                         -> << >>]

XnuKind ==
  [file |-> "name", fd |-> "handle", mapped_memory |-> "shared",
   buffer |-> "private", anonymous |-> "private", shared_memory |-> "shared",
   shm |-> "name", shm_fd |-> "handle", shm_mapping |-> "shared",
   segment |-> "name", attached |-> "shared"]

XnuResources == DOMAIN XnuKind

XnuNeeds ==
  [r \in XnuResources |->
     CASE r = "fd"            -> {"file"}
       [] r = "mapped_memory" -> {"file", "fd"}
       [] r = "shm_fd"        -> {"shm"}
       [] r = "shm_mapping"   -> {"shm", "shm_fd"}
       [] r = "attached"      -> {"segment"}
       [] OTHER               -> {}]

\* create_temp_file ignores what its writes return, and mmap is asked for
\* the size the file should have.
XnuUnchecked == {"file"}
XnuNominal == {"mapped_memory"}

XnuValues == {"zero", "A", "B", "C", "P", "S", "V", "Z"}

\* main() as it stands calls one demo; the other calls are commented out.
XnuMain == <<"main_prompt", "anonymous_shared_memory">>
XnuPrograms == {<<"main_prompt", d>> : d \in XnuDemos \ {"main_prompt"}}
=============================================================================
