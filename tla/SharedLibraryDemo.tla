-------------------------- MODULE SharedLibraryDemo --------------------------
(***************************************************************************)
(* macos/process/shared_library_demo.cpp: a parent that compiles a large   *)
(* library, loads it, forks several children that load it too, and removes *)
(* it at the end.  Parent and children all wait for Enter on the same      *)
(* terminal.                                                               *)
(***************************************************************************)
EXTENDS Naturals, Sequences, FiniteSets

CONSTANTS NumChildren,   \* num_children
          TypedMax       \* bound: lines waiting in the terminal

ASSUME LibraryAssumption == NumChildren \in Nat /\ TypedMax \in Nat \ {0}

Children == 1 .. NumChildren

VARIABLES
  at,        \* what the parent does next
  i,         \* the loop counter of the forks, from 1
  children,  \* the recorded pids
  child,     \* child[c]: what child c does
  parentLib, \* dlopen references of the parent
  childLib,  \* childLib[c]: dlopen references of child c, the inherited one included
  files,     \* what exists below /tmp/shared_lib_demo_<pid>
  typed      \* lines typed and not read

vars == <<at, i, children, child, parentLib, childLib, files, typed>>

Alive == {c \in Children : child[c] \in {"loading", "using", "pause"}}

Init ==
  /\ at = "prompt" /\ i = 1 /\ children = << >>
  /\ child = [c \in Children |-> "none"]
  /\ parentLib = 0 /\ childLib = [c \in Children |-> 0]
  /\ files = {} /\ typed = 0

\* The user presses Enter.
Type == /\ at # "returned" /\ typed < TypedMax
        /\ typed' = typed + 1
        /\ UNCHANGED <<at, i, children, child, parentLib, childLib, files>>

\* std::cin.get()
ReadEnter == typed > 0 /\ typed' = typed - 1

(***************************************************************************)
(* The parent                                                              *)
(***************************************************************************)
Start == /\ at = "prompt" /\ ReadEnter
         /\ at' = "create"
         /\ UNCHANGED <<i, children, child, parentLib, childLib, files>>

\* mkdir -p, whose result is ignored, and the source file.
Create ==
  /\ at = "create"
  /\ \/ files' = {"dir", "source"} /\ at' = "compile"
     \/ files' \in {{}, {"dir"}} /\ at' = "returned"
  /\ UNCHANGED <<i, children, child, parentLib, childLib, typed>>

\* g++ -shared; on failure the directory stays.
Compile ==
  /\ at = "compile"
  /\ \/ files' = files \union {"dylib"} /\ at' = "load"
     \/ files' = files /\ at' = "returned"
  /\ UNCHANGED <<i, children, child, parentLib, childLib, typed>>

\* dlopen and dlsym; when dlsym fails the library is closed again.
Load ==
  /\ at = "load"
  /\ "dylib" \in files
  /\ parentLib' = 1 /\ at' = "fork"
  /\ UNCHANGED <<i, children, child, childLib, files, typed>>

LoadFails ==
  /\ at = "load"
  /\ files' = {} /\ at' = "returned"
  /\ UNCHANGED <<i, children, child, parentLib, childLib, typed>>

\* Slip: the pid is not recorded.
Fork_unrecorded ==
  /\ at = "fork" /\ i <= NumChildren
  /\ child' = [child EXCEPT ![i] = "loading"]
  /\ childLib' = [childLib EXCEPT ![i] = parentLib]
  /\ i' = i + 1
  /\ UNCHANGED <<at, children, parentLib, files, typed>>

\* fork(): the child inherits the parent's mapping, the parent keeps its pid.
Fork ==
  /\ at = "fork" /\ i <= NumChildren
  /\ child' = [child EXCEPT ![i] = "loading"]
  /\ childLib' = [childLib EXCEPT ![i] = parentLib]
  /\ children' = Append(children, i)
  /\ i' = i + 1
  /\ UNCHANGED <<at, parentLib, files, typed>>

\* fork() fails and ends the loop, or the loop is over.
ForksEnd ==
  /\ at = "fork"
  /\ at' = "pause"
  /\ UNCHANGED <<i, children, child, parentLib, childLib, files, typed>>

ParentPause ==
  /\ at = "pause" /\ ReadEnter
  /\ at' = "wait"
  /\ UNCHANGED <<i, children, child, parentLib, childLib, files>>

\* Slip: the loop waits for the same child again.
ReapNext_again ==
  /\ at = "wait" /\ children # << >>
  /\ child[Head(children)] = "zombie"
  /\ child' = [child EXCEPT ![Head(children)] = "reaped"]
  /\ UNCHANGED <<at, i, children, parentLib, childLib, files, typed>>

\* waitpid on the recorded children, in the order of their creation.
ReapNext ==
  /\ at = "wait" /\ children # << >>
  /\ child[Head(children)] = "zombie"
  /\ child' = [child EXCEPT ![Head(children)] = "reaped"]
  /\ children' = Tail(children)
  /\ UNCHANGED <<at, i, parentLib, childLib, files, typed>>

\* Slip: only the first child is waited for.
AllReaped_first ==
  /\ at = "wait" /\ Len(children) < NumChildren
  /\ parentLib' = parentLib - 1
  /\ at' = "cleanup"
  /\ UNCHANGED <<i, children, child, childLib, files, typed>>

\* No child is left to wait for: dlclose.
AllReaped ==
  /\ at = "wait" /\ children = << >>
  /\ parentLib' = parentLib - 1
  /\ at' = "cleanup"
  /\ UNCHANGED <<i, children, child, childLib, files, typed>>

\* Slip: only the source is removed.
Cleanup_source ==
  /\ at = "cleanup"
  /\ files' = files \ {"source"} /\ at' = "returned"
  /\ UNCHANGED <<i, children, child, parentLib, childLib, typed>>

\* rm -rf of the directory.
Cleanup ==
  /\ at = "cleanup"
  /\ files' = {} /\ at' = "returned"
  /\ UNCHANGED <<i, children, child, parentLib, childLib, typed>>

(***************************************************************************)
(* A child                                                                 *)
(***************************************************************************)
ChildLoads(c) ==
  /\ child[c] = "loading" /\ "dylib" \in files
  /\ child' = [child EXCEPT ![c] = "using"]
  /\ childLib' = [childLib EXCEPT ![c] = @ + 1]
  /\ UNCHANGED <<at, i, children, parentLib, files, typed>>

\* A failing dlopen or dlsym: the child pauses all the same.
ChildLoadFails(c) ==
  /\ child[c] = "loading"
  /\ child' = [child EXCEPT ![c] = "pause"]
  /\ UNCHANGED <<at, i, children, parentLib, childLib, files, typed>>

\* After five seconds: dlclose of the child's own reference.
ChildUnloads(c) ==
  /\ child[c] = "using"
  /\ child' = [child EXCEPT ![c] = "pause"]
  /\ childLib' = [childLib EXCEPT ![c] = @ - 1]
  /\ UNCHANGED <<at, i, children, parentLib, files, typed>>

\* Enter, exit(0): the kernel unmaps the library.
ChildExits(c) ==
  /\ child[c] = "pause" /\ ReadEnter
  /\ child' = [child EXCEPT ![c] = "zombie"]
  /\ childLib' = [childLib EXCEPT ![c] = 0]
  /\ UNCHANGED <<at, i, children, parentLib, files>>

\* The child dies by a signal.
ChildKilled(c) ==
  /\ c \in Alive
  /\ child' = [child EXCEPT ![c] = "zombie"]
  /\ childLib' = [childLib EXCEPT ![c] = 0]
  /\ UNCHANGED <<at, i, children, parentLib, files, typed>>

Parent == \/ Start \/ Create \/ Compile \/ Load \/ LoadFails \/ Fork \/ ForksEnd
          \/ ParentPause \/ ReapNext \/ AllReaped \/ Cleanup
Child(c) == ChildLoads(c) \/ ChildLoadFails(c) \/ ChildUnloads(c) \/ ChildExits(c)

Next == Parent \/ Type \/ \E c \in Children : Child(c) \/ ChildKilled(c)

\* Processes are scheduled and the user goes on pressing Enter.\* The others
\* may take a line a process could have had, but each takes one only.
Fairness == /\ WF_vars(Parent) /\ WF_vars(Type)
            /\ \A c \in Children : WF_vars(Child(c))

Spec == Init /\ [][Next]_vars
FairSpec == Spec /\ Fairness

-----------------------------------------------------------------------------
(* The types of the parent's and the children's variables.                 *)
TypeOK ==
  /\ at \in {"prompt", "create", "compile", "load", "fork", "pause", "wait",
             "cleanup", "returned"}
  /\ i \in 1 .. NumChildren + 1
  /\ children \in Seq(Children)
  /\ child \in [Children -> {"none", "loading", "using", "pause", "zombie", "reaped"}]
  /\ parentLib \in 0 .. 1 /\ childLib \in [Children -> 0 .. 2]
  /\ files \subseteq {"dir", "source", "dylib"}
  /\ typed \in 0 .. TypedMax

(* The library file is there for as long as a child has still to open it,  *)
(* although only the parent's waits order the children before rm -rf.      *)
LibraryIsThereToLoad == \A c \in Children : child[c] = "loading" => "dylib" \in files

(* rm -rf removes the library only when no process has it mapped any more, *)
(* neither the parent nor a child that inherited the parent's mapping.     *)
UnloadedBeforeRemoval ==
  at \in {"cleanup", "returned"} => parentLib = 0 /\ \A c \in Children : childLib[c] = 0

(* main() returns only when every child it forked has been waited for.     *)
EveryChildIsReaped ==
  at = "returned" => \A c \in Children : child[c] \in {"none", "reaped"}

(* While it pauses a child has only the reference it inherited: its own    *)
(* dlopen is balanced by its dlclose, on the path where loading failed too.*)
ReferencesBalance == \A c \in Children : child[c] = "pause" => childLib[c] = 1

(* The only files that can be left behind are those of a library that      *)
(* could not be created: once compiled, the directory is removed on every  *)
(* path.                                                                   *)
OnlyFailedCreationLeavesFiles ==
  at = "returned" /\ files # {} => "dylib" \notin files /\ i = 1

(* However Enter is dealt to the readers and whichever children die, the   *)
(* parent gets through its waits and returns.                              *)
Terminates == <>(at = "returned")

(* The strengthening under which the invariants above are inductive: the   *)
(* recorded pids are, once each, those of the children forked and not      *)
(* waited for, and processes, references and files agree with where the    *)
(* parent is.                                                              *)
Recorded == {children[k] : k \in DOMAIN children}

References(state) == CASE state \in {"loading", "pause"} -> 1
                       [] state = "using" -> 2
                       [] OTHER -> 0

Consistent ==
  /\ \A c \in Children : c \in Recorded <=> child[c] \notin {"none", "reaped"}
  /\ \A j, k \in DOMAIN children : children[j] = children[k] => j = k
  /\ \A c \in Children : child[c] = "none" <=> c >= i
  /\ \A c \in Children : childLib[c] = References(child[c])
  /\ at \in {"prompt", "create", "compile", "load"} => i = 1
  /\ at \notin {"fork", "pause", "wait"} => children = << >>
  /\ parentLib = IF at \in {"fork", "pause", "wait"} THEN 1 ELSE 0
  /\ "dylib" \in files <=> at \in {"load", "fork", "pause", "wait", "cleanup"}
  /\ at = "returned" /\ files # {} => i = 1
=============================================================================
