----------------------------- MODULE DemoRestart -----------------------------
(***************************************************************************)
(* A demo program that is interrupted and started again.  Ctrl-C ends the  *)
(* parent and its child at any step; memory, descriptors and attachments   *)
(* go with them, temporary files, shared memory objects and System V       *)
(* segments stay.  The next run has another pid, or by chance the pid of a *)
(* run that was interrupted, and then its names are those that were left.  *)
(* The system holds a limited number of objects of each kind.              *)
(***************************************************************************)
EXTENDS DemoProperties
LOCAL INSTANCE FiniteSets

CONSTANTS
  NamedByPid,   \* names that contain the pid; the others are anonymous
  Limit,        \* Limit[r]: objects of kind r the system holds at most
  RunsMax       \* bound: how often the program is started

ASSUME RestartAssumption ==
  /\ NamedByPid \subseteq Names
  /\ Limit \in [Names -> Nat]
  /\ RunsMax \in Nat

VARIABLES
  left,     \* the objects that earlier runs left behind: their kind and run
  inherit,  \* those of them that have the names of this run
  runs      \* how often the program was started

system == <<left, inherit, runs>>
allVars == <<vars, system>>

\* Names this step of the run comes to know: new objects, or old ones that
\* shm_open without O_EXCL and std::ofstream open as if they were new.
Opened == names' \ names

OfKinds(objects, kinds) == {o \in objects : o.kind \in kinds}

\* What the steps of the program do to the system's objects: a new object
\* needs room, an old one that is opened is this run's from then on.
Objects ==
  /\ \A r \in Opened : OfKinds(inherit, {r}) = {} =>
                         Cardinality(OfKinds(left, {r})) < Limit[r]
  /\ left' = left \ OfKinds(inherit, Opened)
  /\ inherit' = inherit \ OfKinds(inherit, Opened)
  /\ UNCHANGED runs

Running == mode["parent"] \in {"running", "unwinding"}

\* SIGINT to the process group: only the names stay.
Interrupt ==
  /\ Running
  /\ mode' = [parent |-> "killed", child |-> "none"]
  /\ held' = [p \in Procs |-> {}]
  /\ chunks' = 0
  /\ status' = IF mode["child"] = "running" THEN "killed" ELSE status
  /\ UNCHANGED <<queue, demo, pc, undone, names, short, seen, forked, input, system>>

\* The program is started again, from its beginning, as one of the programs.
Restart ==
  /\ mode["parent"] \in {"returned", "killed"}
  /\ runs < RunsMax
  /\ runs' = runs + 1
  /\ \E main \in Programs : demo' = Head(main) /\ queue' = Tail(main)
  /\ pc' = [p \in Procs |-> 1]
  /\ mode' = [parent |-> "running", child |-> "none"]
  /\ undone' = 1
  /\ held' = [p \in Procs |-> {}]
  /\ names' = {} /\ short' = {} /\ chunks' = 0
  /\ seen' = [p \in Procs |-> [r \in Resources |-> "zero"]]
  /\ forked' = FALSE /\ status' = "none"
  /\ tty' = << >>
  /\ inbuf' = [p \in Procs |-> 0]
  /\ eof' = [p \in Procs |-> FALSE]
  /\ left' = left \union [kind : names, run : {runs}]
  /\ inherit' \in {{}} \union {{o} : o \in OfKinds(left', NamedByPid)}

RestartInit ==
  /\ Init
  /\ left = {} /\ inherit = {} /\ runs = 1

ParentRuns == ParentStep /\ Objects
ChildRuns == ChildStep /\ Objects
UserTypes == User /\ Objects

RestartNext == \/ ParentRuns \/ ChildRuns \/ UserTypes
               \/ Kernel /\ Objects
               \/ Interrupt \/ Restart

\* The fairness of the machine; nothing makes anyone interrupt or restart.
RestartSpec ==
  RestartInit /\ [][RestartNext]_allVars
  /\ WF_allVars(ParentRuns) /\ WF_allVars(ChildRuns) /\ WF_allVars(UserTypes)

-----------------------------------------------------------------------------
(* A run that is interrupted leaves at most one object behind, wherever it *)
(* is interrupted: also when it was about to exchange its segment for a    *)
(* shared memory object, and when it had opened what another run left.  A  *)
(* run that returns leaves nothing.                                        *)
OneOrphanPerInterrupt ==
  /\ \A o, q \in left : o.run = q.run => o = q
  /\ \A o \in left : o.run < runs
  /\ \A r, s \in names : r = s
  /\ mode["parent"] = "returned" => names = {}

(* Every run comes to its end or is interrupted, also when the segments    *)
(* that earlier runs left fill the table: the demo then goes on with a     *)
(* shared memory object.                                                   *)
EveryRunEnds == Running ~> ~Running

-----------------------------------------------------------------------------
\* A demo never has two names at a time: it releases one before it makes, or
\* calls a demo that makes, the next.
NamesAreApart ==
  \A d \in Demos : \A i \in 1 .. Len(Script[d]) + 1 :
    \A r, s \in HeldBefore(d, i) \intersect Names : r = s
=============================================================================
