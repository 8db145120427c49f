----------------------------- MODULE WindowsDemos -----------------------------
(***************************************************************************)
(* The two demo programs of Windows, memory_allocation_demo.cpp and        *)
(* memory_metrics_demo.cpp, run by several instances at the same time on   *)
(* one desktop.  Every instance executes the calls of its main() one by    *)
(* one; any call may fail, and the demo then undoes what it has and        *)
(* returns to main().                                                      *)
(*                                                                         *)
(* What the instances share is Windows' namespace.  Three of the demos     *)
(* give their section (the "file mapping object") a fixed name, and        *)
(* CreateFileMapping of a name that exists opens the existing object: no   *)
(* demo asks whether GetLastError() is ERROR_ALREADY_EXISTS.  The name     *)
(* disappears with the last handle, the object with the last view.         *)
(***************************************************************************)
EXTENDS Naturals, Sequences, WindowsScripts

CONSTANT Instances   \* the running programs

ASSUME InstancesAssumption == "nobody" \notin Instances

-----------------------------------------------------------------------------
SectionNames == {"AnonymousSharedDemo", "FileMappedSharedDemo", "SharedMemoryDemo"}
Sections == SectionNames \union {"unnamed"}
Resources == Sections \union {"memory", "heap", "temp_file", "stream", "hFile", "view"}

\* A temporary file is known by who made it and in which demo.
Files == Instances \X {"mapped_private", "mapped_shared"}

-----------------------------------------------------------------------------
VARIABLES
  queue,    \* queue[i]: demos main() still has to call
  demo,     \* demo[i]: the demo being executed
  pc,       \* pc[i]: its next step
  mode,     \* mode[i]: what instance i is doing
  undone,   \* undone[i]: the next release of an error path
  held,     \* held[i]: memory, handles, views and the file name i has
  origin,   \* origin[i]: who created the section behind i's handle and view
  named,    \* named[s]: who created the section that the name s denotes
  content   \* content[f]: what is on the disk under the file's name

control == <<queue, demo, pc, mode, undone>>
vars == <<control, held, origin, named, content>>

Step(i) == Script[demo[i]][pc[i]]
At(i, op) == mode[i] = "running" /\ pc[i] \in DOMAIN Script[demo[i]] /\ Step(i).op = op

Advance(i) == pc' = [pc EXCEPT ![i] = @ + 1] /\ UNCHANGED <<queue, demo, mode, undone>>
Take(i, r) == held' = [held EXCEPT ![i] = @ \union {r}]

OwnFile(i) == <<i, demo[i]>>
\* The file behind the section of instance i.
MappedFile(i) == <<origin[i], demo[i]>>
\* Instance i has a section or a view of file f.
Maps(i, f) == f = MappedFile(i) /\ held[i] \intersect (Sections \union {"view"}) # {}

(***************************************************************************)
(* Acquiring                                                               *)
(***************************************************************************)
\* VirtualAlloc, CreateFileA; new, when it does not throw.
Allocate(i) ==
  /\ At(i, "acquire") \/ At(i, "new")
  /\ Step(i).res \in {"memory", "heap", "hFile"}
  /\ Take(i, Step(i).res)
  /\ Advance(i)
  /\ UNCHANGED <<origin, named, content>>

\* GetTempFileNameA: the name is new, the file empty.
GetTempFileName(i) ==
  /\ At(i, "acquire") /\ Step(i).res = "temp_file"
  /\ Take(i, "temp_file")
  /\ content' = [content EXCEPT ![OwnFile(i)] = "empty"]
  /\ Advance(i)
  /\ UNCHANGED <<origin, named>>

\* The stream opens and writes; nobody looks whether the writes succeeded.
FillTempFile(i) ==
  /\ At(i, "acquire") /\ Step(i).res = "stream"
  /\ Take(i, "stream")
  /\ \E c \in {"short", "full"} : content' = [content EXCEPT ![OwnFile(i)] = c]
  /\ Advance(i)
  /\ UNCHANGED <<origin, named>>

\* CreateFileMapping without a name, or with one nobody has a handle of.
CreateSection(i) ==
  LET s == Step(i).res IN
  /\ At(i, "acquire") /\ s \in Sections
  /\ s \in SectionNames => named[s] = "nobody"
  /\ Take(i, s)
  /\ origin' = [origin EXCEPT ![i] = i]
  /\ named' = [n \in SectionNames |-> IF n = s THEN i ELSE named[n]]
  /\ Advance(i)
  /\ UNCHANGED content

\* CreateFileMapping of a name that exists: the caller's file plays no part.
OpenSection(i) ==
  LET s == Step(i).res IN
  /\ At(i, "acquire") /\ s \in SectionNames
  /\ named[s] # "nobody"
  /\ Take(i, s)
  /\ origin' = [origin EXCEPT ![i] = named[s]]
  /\ Advance(i)
  /\ UNCHANGED <<named, content>>

\* MapViewOfFile of the whole size: it fails when the section is smaller.
MapView(i) ==
  /\ At(i, "acquire") /\ Step(i).res = "view"
  /\ MappedFile(i) \in Files => content[MappedFile(i)] # "short"
  /\ Take(i, "view")
  /\ Advance(i)
  /\ UNCHANGED <<origin, named, content>>

\* Slip: nobody looks at what the call returns.
CallFails_unchecked(i) ==
  /\ At(i, "acquire")
  /\ Advance(i)
  /\ UNCHANGED <<held, origin, named, content>>

\* A call fails: the demo starts to undo.
CallFails(i) ==
  /\ At(i, "acquire")
  /\ mode' = [mode EXCEPT ![i] = "unwinding"]
  /\ UNCHANGED <<queue, demo, pc, undone, held, origin, named, content>>

\* new throws std::bad_alloc: the process is terminated.
Throws(i) ==
  /\ At(i, "new")
  /\ mode' = [mode EXCEPT ![i] = "aborted"]
  /\ held' = [held EXCEPT ![i] = {}]
  /\ UNCHANGED <<queue, demo, pc, undone, origin, named, content>>

(***************************************************************************)
(* Using and releasing                                                     *)
(***************************************************************************)
\* The writes, and the pauses that the user of the instance ends.
Use(i) ==
  /\ At(i, "touch") \/ At(i, "pause")
  /\ Advance(i)
  /\ UNCHANGED <<held, origin, named, content>>

\* CloseHandle of a section: its name goes with the last handle.
CloseSection(i, s) ==
  LET last == \A j \in Instances \ {i} : ~(s \in held[j] /\ origin[j] = origin[i]) IN
  /\ s \in Sections
  /\ named' = [n \in SectionNames |->
                IF n = s /\ named[n] = origin[i] /\ last THEN "nobody" ELSE named[n]]
  /\ UNCHANGED content

\* DeleteFileA, whose result nobody looks at: it fails while a handle of the
\* file is open, and it may fail while anyone has the file mapped.
DeleteFile(i, r) ==
  LET f == OwnFile(i) IN
  /\ r = "temp_file"
  /\ \E c \in {"none", content[f]} :
       /\ c # "none" => "hFile" \in held[i] \/ \E j \in Instances : Maps(j, f)
       /\ "hFile" \in held[i] => c = content[f]
       /\ content' = [content EXCEPT ![f] = c]
  /\ UNCHANGED named

\* VirtualFree, delete[], UnmapViewOfFile, CloseHandle of a file, close().
Forget(r) == r \notin Sections \union {"temp_file"} /\ UNCHANGED <<named, content>>

Drop(i, r) == /\ CloseSection(i, r) \/ DeleteFile(i, r) \/ Forget(r)
              /\ held' = [held EXCEPT ![i] = @ \ {r}]
              /\ UNCHANGED origin

Release(i) == At(i, "release") /\ Drop(i, Step(i).res) /\ Advance(i)

Unwinding(i) == mode[i] = "unwinding"

Undo(i) ==
  /\ Unwinding(i)
  /\ undone[i] \in DOMAIN Step(i).undo
  /\ Drop(i, Step(i).undo[undone[i]])
  /\ undone' = [undone EXCEPT ![i] = @ + 1]
  /\ UNCHANGED <<queue, demo, pc, mode>>

\* Slip: an error path without its return.
Over_without_return(i) == mode[i] = "running" /\ pc[i] = Len(Script[demo[i]]) + 1

\* Slip: an error path that returns at once.
Over_early(i) ==
  \/ mode[i] = "running" /\ pc[i] = Len(Script[demo[i]]) + 1
  \/ Unwinding(i)

\* The demo is over, by its last step or by its error path; what it only knew
\* by name it does not know any more.
Over(i) ==
  \/ mode[i] = "running" /\ pc[i] = Len(Script[demo[i]]) + 1
  \/ Unwinding(i) /\ undone[i] = Len(Step(i).undo) + 1

NextDemo(i) ==
  /\ Over(i) /\ queue[i] # << >>
  /\ demo' = [demo EXCEPT ![i] = Head(queue[i])]
  /\ queue' = [queue EXCEPT ![i] = Tail(@)]
  /\ pc' = [pc EXCEPT ![i] = 1]
  /\ undone' = [undone EXCEPT ![i] = 1]
  /\ mode' = [mode EXCEPT ![i] = "running"]
  /\ held' = [held EXCEPT ![i] = @ \ {"temp_file"}]
  /\ UNCHANGED <<origin, named, content>>

MainReturns(i) ==
  /\ Over(i) /\ queue[i] = << >>
  /\ mode' = [mode EXCEPT ![i] = "returned"]
  /\ UNCHANGED <<queue, demo, pc, undone, held, origin, named, content>>

Init ==
  /\ \E main \in [Instances -> {AllocationMain, MetricsMain}] :
       /\ demo = [i \in Instances |-> Head(main[i])]
       /\ queue = [i \in Instances |-> Tail(main[i])]
  /\ pc = [i \in Instances |-> 1]
  /\ mode = [i \in Instances |-> "running"]
  /\ undone = [i \in Instances |-> 1]
  /\ held = [i \in Instances |-> {}]
  /\ origin = [i \in Instances |-> i]
  /\ named = [s \in SectionNames |-> "nobody"]
  /\ content = [f \in Files |-> "none"]

InstanceStep(i) ==
  \/ Allocate(i) \/ GetTempFileName(i) \/ FillTempFile(i) \/ CreateSection(i)
  \/ OpenSection(i) \/ MapView(i) \/ CallFails(i) \/ Throws(i) \/ Use(i)
  \/ Release(i) \/ Undo(i) \/ NextDemo(i) \/ MainReturns(i)

Next == \E i \in Instances : InstanceStep(i)

\* Windows schedules every instance, and its user ends every pause.
Spec == Init /\ [][Next]_vars /\ \A i \in Instances : WF_vars(InstanceStep(i))

-----------------------------------------------------------------------------
(* No step of an instance writes to or releases what it does not have, on  *)
(* the normal path and on every error path; and when main() returns the    *)
(* instance has nothing left: no memory, no handle, no view.               *)
UsesOnlyWhatItHolds ==
  \A i \in Instances :
    /\ \A op \in {"touch", "release"} : At(i, op) => Step(i).res \in held[i]
    /\ Unwinding(i) /\ undone[i] \in DOMAIN Step(i).undo
         => Step(i).undo[undone[i]] \in held[i]
    /\ mode[i] = "returned" => held[i] = {}

(* Instances that have the same named section have the same object: the    *)
(* memory an instance shows as shareable is shared with every instance     *)
(* that shows it at that time.  A view never outlives the handle that      *)
(* keeps its name, so no second object appears beside the first.           *)
SameNameSameObject ==
  \A i, j \in Instances :
    demo[i] = demo[j] /\ demo[i] # "mapped_private"
    /\ (\A k \in {i, j} : held[k] \intersect (SectionNames \union {"view"}) # {})
      => origin[i] = origin[j]

(* A temporary file outlives its demo only when the stream that should     *)
(* fill it did not open, so that the file is empty, or when it is the file *)
(* of the named section, which another instance may have had mapped when   *)
(* DeleteFileA was called.  The file of the unnamed section always goes.   *)
OnlySharedOrEmptyFilesAreLeft ==
  \A i \in Instances : \A d \in {"mapped_private", "mapped_shared"} :
    (content[<<i, d>>] # "none" /\ "temp_file" \notin held[i])
      => content[<<i, d>>] = "empty" \/ d = "mapped_shared"

(* Every instance comes to its end, whatever fails and whoever holds the   *)
(* names the demos share.                                                  *)
Terminates == \A i \in Instances : <>(mode[i] \in {"returned", "aborted"})

-----------------------------------------------------------------------------
(***************************************************************************)
(* Well-formed demos: the static facts about the scripts that make the     *)
(* properties above true in every execution.                               *)
(***************************************************************************)
Takes(s, r) == s.op \in {"acquire", "new"} /\ s.res = r
Drops(s, r) == s.op = "release" /\ s.res = r

\* What an instance has when it is about to execute step p of demo d.
HeldBefore(d, p) ==
  {r \in Resources : \E j \in 1 .. p - 1 :
     Takes(Script[d][j], r) /\ \A k \in j + 1 .. p - 1 : ~Drops(Script[d][k], r)}

\* The elements of undo from index n on.
Remaining(undo, n) == {undo[k] : k \in n .. Len(undo)}

\* What an error path does not release: the name of the file when the stream
\* does not open.
Forgotten(s) == IF s.res = "stream" THEN {"temp_file"} ELSE {}

\* The error path of a step releases all the rest, once, the file at the end.
UndoesAll(s, H) ==
  /\ s.undo \in Seq(Resources)
  /\ Remaining(s.undo, 1) \union Forgotten(s) = H
  /\ Remaining(s.undo, 1) \intersect Forgotten(s) = {}
  /\ \A j, k \in DOMAIN s.undo : s.undo[j] = s.undo[k] => j = k
  /\ \A k \in DOMAIN s.undo : s.undo[k] = "temp_file" => k = Len(s.undo)

StepWellFormed(d, p) ==
  LET s == Script[d][p]
      H == HeldBefore(d, p) IN
  /\ s.op \in {"acquire", "new", "touch", "pause", "release"}
  /\ s.op \in {"acquire", "new"} => s.res \in Resources \ H
  /\ s.op \in {"touch", "release"} => s.res \in H
  /\ s.op = "new" => H = {} /\ s.res = "heap"
  /\ s.op = "acquire" => UndoesAll(s, H) /\ "view" \notin H
  /\ Drops(s, "temp_file") => H = {"temp_file"}
  /\ "view" \in H => H \intersect Sections # {}

\* A demo has one section; that of demoFileMappedPrivate alone has no name.
SectionIsTheDemos(d) ==
  \A p, q \in DOMAIN Script[d] :
    LET s == Script[d][p].res
        t == Script[d][q].res IN
    Takes(Script[d][p], s) /\ s \in Sections =>
      /\ HeldBefore(d, p) \intersect Sections = {}
      /\ s = "unnamed" <=> d = "mapped_private"
      /\ Takes(Script[d][q], t) /\ t \in Sections => s = t

\* The stream opens the file that was made in the step before.
StreamFollowsItsFile(d) ==
  \A p \in DOMAIN Script[d] :
    Takes(Script[d][p], "stream") => p > 1 /\ Takes(Script[d][p - 1], "temp_file")

DemoIsWellFormed(d) ==
  /\ Len(Script[d]) \in Nat /\ DOMAIN Script[d] = 1 .. Len(Script[d])
  /\ \A p \in DOMAIN Script[d] : StepWellFormed(d, p)
  /\ HeldBefore(d, Len(Script[d]) + 1) = {}
  /\ SectionIsTheDemos(d)
  /\ StreamFollowsItsFile(d)

\* main() ends with a prompt, which takes nothing.
MainIsWellFormed(main) ==
  /\ main \in Seq(Demos) /\ Len(main) > 1
  /\ main[Len(main)] = "main_prompt"

ASSUME DemosAssumption ==
  /\ \A d \in Demos : DemoIsWellFormed(d)
  /\ \A p \in DOMAIN Script["main_prompt"] : Script["main_prompt"][p].op = "pause"
  /\ MainIsWellFormed(AllocationMain) /\ MainIsWellFormed(MetricsMain)
=============================================================================
