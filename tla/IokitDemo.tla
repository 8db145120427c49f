------------------------------ MODULE IokitDemo ------------------------------
(***************************************************************************)
(* demo_iokit_mapping of macos/process/xnu_footprint_demo.cpp, in several  *)
(* instances.  The demo compiles a Metal kernel with two tools and sends a *)
(* Terminal window the command that is to build and run a Metal program.   *)
(* Only the kernel's source carries the instance's pid in its name: what   *)
(* the tools make is called the same in every instance.                    *)
(***************************************************************************)
EXTENDS Naturals, Sequences

CONSTANT Instances

\* The files in /tmp: only the first belongs to one instance.
Source(i) == <<"test_kernel.metal", i>>
Air == <<"test_kernel.air">>
Library == <<"test_kernel.metallib">>

VARIABLES
  pc,      \* pc[i]: where instance i is
  clean,   \* clean[i]: the files it still has to remove, in this order
  files    \* what there is in /tmp

vars == <<pc, clean, files>>

Goto(i, where) == pc' = [pc EXCEPT ![i] = where]
\* The instance has only to remove the files of the sequence.
Remove(i, sequence) == Goto(i, "remove") /\ clean' = [clean EXCEPT ![i] = sequence]

\* std::ofstream metal_out: it opens, or the demo returns.
WriteSource(i) ==
  /\ pc[i] = "write"
  /\ \/ Goto(i, "compile") /\ files' = files \union {Source(i)}
     \/ Goto(i, "returned") /\ files' = files
  /\ UNCHANGED clean

\* xcrun metal -c
Compile(i) ==
  /\ pc[i] = "compile" /\ Source(i) \in files
  /\ Goto(i, "library")
  /\ files' = files \union {Air}
  /\ UNCHANGED clean

CompileFails(i) ==
  /\ pc[i] = "compile"
  /\ Remove(i, <<Source(i)>>)
  /\ UNCHANGED files

\* xcrun metallib: it needs the .air file, whoever made it.
MakeLibrary(i) ==
  /\ pc[i] = "library" /\ Air \in files
  /\ Goto(i, "run")
  /\ files' = files \union {Library}
  /\ UNCHANGED clean

\* Slip: only the source is removed, as when the compiler fails.
MakeLibraryFails_keeps_air(i) ==
  /\ pc[i] = "library"
  /\ Remove(i, <<Source(i)>>)
  /\ UNCHANGED files

MakeLibraryFails(i) ==
  /\ pc[i] = "library"
  /\ Remove(i, <<Source(i), Air>>)
  /\ UNCHANGED files

\* osascript has Terminal type the command and does not wait for it.  The
\* string literals of the command are joined without a newline, so the shell
\* in the window is given a single line, "cat > /tmp/run_metal.m << EOL#import
\* ...", which it refuses: the two files of the program never come to be.
RunMetal(i) ==
  /\ pc[i] = "run"
  /\ Remove(i, <<Source(i), Air, Library, <<"run_metal.m">>, <<"run_metal">>>>)
  /\ UNCHANGED files

\* remove(): a file that is not there is no error anyone sees.
RemoveFile(i) ==
  /\ pc[i] = "remove" /\ clean[i] # << >>
  /\ files' = files \ {Head(clean[i])}
  /\ clean' = [clean EXCEPT ![i] = Tail(@)]
  /\ UNCHANGED pc

\* The demo ends: it says that the Metal program is done.
Finish(i) ==
  /\ pc[i] = "remove" /\ clean[i] = << >>
  /\ Goto(i, "returned")
  /\ UNCHANGED <<clean, files>>

Init ==
  /\ pc = [i \in Instances |-> "write"]
  /\ clean = [i \in Instances |-> << >>]
  /\ files = {}

InstanceStep(i) ==
  \/ WriteSource(i) \/ Compile(i) \/ CompileFails(i) \/ MakeLibrary(i)
  \/ MakeLibraryFails(i) \/ RunMetal(i) \/ RemoveFile(i) \/ Finish(i)

Next == \E i \in Instances : InstanceStep(i)
Spec == Init /\ [][Next]_vars

-----------------------------------------------------------------------------
\* Instance i comes to remove file f.
WillRemove(i, f) ==
  \/ \E k \in DOMAIN clean[i] : clean[i][k] = f
  \/ f = Source(i) /\ pc[i] \in {"compile", "library", "run"}
  \/ f = Air /\ pc[i] \in {"library", "run"}
  \/ f = Library /\ pc[i] = "run"

(* Whatever fails, and in whatever order the instances work on the files   *)
(* they share, every file there is has an instance that comes to remove    *)
(* it: when all of them are done, /tmp is as they found it.                *)
EveryFileHasARemover == \A f \in files : \E i \in Instances : WillRemove(i, f)
=============================================================================
