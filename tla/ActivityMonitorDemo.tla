-------------------------- MODULE ActivityMonitorDemo --------------------------
(***************************************************************************)
(* The demos of macos/process/activity_monitor_demo.mm, as scripts.        *)
(* demo_purgeable_data, which leaves its memory to Objective-C reference   *)
(* counting, is not among them.                                            *)
(***************************************************************************)
LOCAL INSTANCE Sequences
LOCAL INSTANCE DemoSteps

wait_for_user == Pause

am_main_prompt == <<wait_for_user>>

am_private_memory ==
  <<Acquire("buffer", << >>), Touch("buffer", "A"), wait_for_user, Release("buffer")>>

\* Parent and child both wait for the user before the parent waits for the
\* child.
am_shared_memory ==
  <<Acquire("shared_memory", << >>), Touch("shared_memory", "S"), Fork>>
  \o InParent(<<wait_for_user, Wait, Check("shared_memory", "C")>>)
  \o <<wait_for_user, Release("shared_memory")>>

child_shared_memory == <<Touch("shared_memory", "C"), wait_for_user, Exit>>

\* "The content was reclaimed by the system", or it is still there.
am_purgeable_memory ==
  <<Acquire("region", << >>), Touch("region", "P"), wait_for_user,
    Grow, Look("region"), wait_for_user,
    Shrink, Release("region")>>

am_compressed_memory ==
  <<Acquire("buffer", << >>), Touch("buffer", "Z"), Grow, wait_for_user,
    Shrink, Release("buffer")>>

am_anon_shared_memory_rprvt ==
  <<Acquire("shared_memory", << >>), Touch("shared_memory", "R"), wait_for_user, Fork>>
  \o InParent(<<wait_for_user, Wait, Check("shared_memory", "S"), wait_for_user>>)
  \o <<Release("shared_memory")>>

child_anon_shared_memory_rprvt == <<Touch("shared_memory", "S"), wait_for_user, Exit>>

am_real_memory ==
  <<Acquire("buffer", << >>), Touch("buffer", "A"),
    Acquire("shared_memory", <<"buffer">>), Touch("shared_memory", "S"),
    Acquire("region", <<"buffer", "shared_memory">>), Touch("region", "P"),
    wait_for_user,
    Release("buffer"), Release("shared_memory"), Release("region")>>

\* mkstemp, ftruncate, malloc, write, free: the same in both file demos.
fill_temp_file ==
  <<Acquire("temp_file", << >>), Grant("fd"),
    Require(<<"fd", "temp_file">>),
    Acquire("write_buffer", <<"fd", "temp_file">>),
    Require(<<"write_buffer", "fd", "temp_file">>),
    Release("write_buffer")>>

release_file_mapping(r) == <<Release(r), Release("fd"), Release("temp_file")>>

am_private_file_mapping ==
  fill_temp_file
  \o <<Acquire("private_view", <<"fd", "temp_file">>),
       wait_for_user, Touch("private_view", "M"), wait_for_user>>
  \o release_file_mapping("private_view")

am_shared_file_mapping ==
  fill_temp_file
  \o <<Acquire("shared_view", <<"fd", "temp_file">>), wait_for_user, Fork>>
  \o InParent(<<wait_for_user, Wait, Check("shared_view", "C"), wait_for_user>>)
  \o release_file_mapping("shared_view")

child_shared_file_mapping == <<Touch("shared_view", "C"), wait_for_user, Exit>>

-----------------------------------------------------------------------------
AMScript ==
  [main_prompt              |-> am_main_prompt,
   private_memory           |-> am_private_memory,
   shared_memory            |-> am_shared_memory,
   purgeable_memory         |-> am_purgeable_memory,
   compressed_memory        |-> am_compressed_memory,
   anon_shared_memory_rprvt |-> am_anon_shared_memory_rprvt,
   real_memory              |-> am_real_memory,
   private_file_mapping     |-> am_private_file_mapping,
   shared_file_mapping      |-> am_shared_file_mapping]

AMDemos == DOMAIN AMScript

AMChildScript ==
  [d \in AMDemos |->
     CASE d = "shared_memory"            -> child_shared_memory
       [] d = "anon_shared_memory_rprvt" -> child_anon_shared_memory_rprvt
       [] d = "shared_file_mapping"      -> child_shared_file_mapping
       [] OTHER                          -> << >>]

AMKind ==
  [buffer |-> "private", shared_memory |-> "shared", region |-> "purgeable",
   temp_file |-> "name", fd |-> "handle", write_buffer |-> "private",
   private_view |-> "private", shared_view |-> "shared"]

AMResources == DOMAIN AMKind

AMNeeds ==
  [r \in AMResources |->
     CASE r = "fd"                             -> {"temp_file"}
       [] r \in {"private_view", "shared_view"} -> {"temp_file", "fd"}
       [] OTHER                                -> {}]

\* ftruncate and write are checked: the file is as long as its mapping.
AMUnchecked == {}
AMNominal == {"private_view", "shared_view"}

AMValues == {"zero", "A", "C", "M", "P", "R", "S", "Z"}

\* main() runs the two file mappings; the other calls are commented out.
AMMain == <<"main_prompt", "private_file_mapping", "shared_file_mapping">>
AMPrograms == {AMMain} \union {<<"main_prompt", d>> : d \in AMDemos \ {"main_prompt"}}
=============================================================================
