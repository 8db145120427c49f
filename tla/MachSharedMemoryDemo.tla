------------------------- MODULE MachSharedMemoryDemo -------------------------
(***************************************************************************)
(* macos/process/mach_shared_memory_demo.cpp and                           *)
(* macos/process/file_mapping_dirty_demo.cpp, as scripts: two programs of  *)
(* one demo each.                                                          *)
(***************************************************************************)
LOCAL INSTANCE Sequences
LOCAL INSTANCE DemoSteps

\* vm_allocate, the write of 'M', mach_make_memory_entry_64
create_mach_shared_memory ==
  <<Acquire("region", << >>), Touch("region", "M"), Acquire("port", <<"region">>)>>

demo_mach_shared_memory ==
  <<Pause>>
  \o create_mach_shared_memory
  \o <<ForkOrReturn(<<"port", "region">>)>>
  \o InParent(<<Wait, Check("region", "C")>>)
  \o <<Release("port"), Release("region")>>

\* vm_map of the parent's memory entry; the child sleeps and cleans up.
child_mach_shared_memory ==
  <<Acquire("child_memory", << >>), Touch("child_memory", "C"),
    Release("child_memory"), Release("port"), Exit>>

\* A plausible slip: the file goes before its mapping.
removes_file_first ==
  <<Acquire("dirty_file", << >>),
    Acquire("dirty_fd", <<"dirty_file">>),
    Require(<<"dirty_fd", "dirty_file">>),
    Acquire("dirty_mapping", <<"dirty_fd", "dirty_file">>),
    Pause,
    Touch("dirty_mapping", "B"),
    Pause,
    Release("dirty_file"), Release("dirty_mapping"), Release("dirty_fd")>>

\* main() of file_mapping_dirty_demo.cpp
file_mapping_dirty ==
  <<Acquire("dirty_file", << >>),
    Acquire("dirty_fd", <<"dirty_file">>),
    Require(<<"dirty_fd", "dirty_file">>),
    Acquire("dirty_mapping", <<"dirty_fd", "dirty_file">>),
    Pause,
    Touch("dirty_mapping", "B"),
    Pause,
    Release("dirty_mapping"), Release("dirty_fd"), Release("dirty_file")>>

-----------------------------------------------------------------------------
MachScript == [mach_shared_memory |-> demo_mach_shared_memory,
               file_mapping_dirty |-> file_mapping_dirty]

MachDemos == DOMAIN MachScript

MachChildScript == [mach_shared_memory |-> child_mach_shared_memory,
                    file_mapping_dirty |-> << >>]

\* vm_allocate gives memory that fork() copies; a send right is not inherited.
MachKind == [region |-> "private", port |-> "port", child_memory |-> "shared",
             dirty_file |-> "name", dirty_fd |-> "handle", dirty_mapping |-> "shared"]

MachResources == DOMAIN MachKind

MachNeeds == [region |-> {}, port |-> {"region"}, child_memory |-> {"port"},
              dirty_file |-> {}, dirty_fd |-> {"dirty_file"},
              dirty_mapping |-> {"dirty_file", "dirty_fd"}]

\* The file's writes are not checked, but mmap is given the size of fstat.
MachUnchecked == {"dirty_file"}
MachNominal == {}

MachValues == {"zero", "M", "C", "B"}

MachPrograms == {<<d>> : d \in MachDemos}
=============================================================================
