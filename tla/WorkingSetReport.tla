--------------------------- MODULE WorkingSetReport ---------------------------
(***************************************************************************)
(* printProcessMemoryInfo of windows/process/process_memory_monitor.cpp.   *)
(* The report is put together from two looks at the working set: its size, *)
(* from GetProcessMemoryInfo, and its pages, from a QueryWorkingSet that   *)
(* needs a buffer sized after the first look.  In between pages come and   *)
(* go, those of the buffer among them.  Everything is counted in pages.    *)
(***************************************************************************)
EXTENDS Integers

CONSTANTS
  Slack,           \* the 100 extra entries
  EntriesPerPage,  \* PSAPI_WORKING_SET_BLOCKs in a page of the buffer
  Word,            \* pages that a SIZE_T of bytes can count
  Privates,        \* private pages resident at the start
  Sharables,       \* sharable pages resident at the start
  Batches,         \* pages that come or go at once
  MovesMax         \* bound: pages that come or go during the report

ASSUME ReportAssumption ==
  /\ Slack \in Nat /\ EntriesPerPage \in Nat \ {0} /\ Word \in Nat \ {0}
  /\ Privates \subseteq Nat /\ Sharables \subseteq Nat /\ Batches \subseteq Nat
  /\ MovesMax \in Nat

VARIABLES
  pc,        \* the call that comes next
  private,   \* resident private pages, the buffer's aside
  sharable,  \* resident sharable pages
  buffer,    \* resident pages of the buffer
  size,      \* pages of the buffer; 0 when there is none
  total,     \* pmc.WorkingSetSize
  capacity,  \* entries the buffer has room for
  counted,   \* privatePages and sharedPages
  moves      \* pages that came or went since the first look

vars == <<pc, private, sharable, buffer, size, total, capacity, counted, moves>>

WorkingSet == private + sharable + buffer

Init ==
  /\ pc = "info"
  /\ private \in Privates /\ sharable \in Sharables
  /\ buffer = 0 /\ size = 0 /\ total = 0 /\ capacity = 0 /\ moves = 0
  /\ counted = [private |-> 0, shared |-> 0]

(***************************************************************************)
(* The report                                                              *)
(***************************************************************************)
GetProcessMemoryInfo ==
  /\ pc = "info"
  /\ total' = WorkingSet
  /\ pc' = "probe"
  /\ UNCHANGED <<private, sharable, buffer, size, capacity, counted, moves>>

\* GetProcessMemoryInfo, or the first QueryWorkingSet for another reason than
\* the length, or malloc fails.
GivesUp ==
  /\ pc \in {"info", "probe", "malloc"}
  /\ pc' = "done"
  /\ UNCHANGED <<private, sharable, buffer, size, total, capacity, counted, moves>>

\* QueryWorkingSet with room for one entry: it is enough, and an estimate is
\* printed, or the length is bad, as expected.
Probe ==
  /\ pc = "probe"
  /\ pc' = IF WorkingSet <= 1 THEN "done" ELSE "malloc"
  /\ UNCHANGED <<private, sharable, buffer, size, total, capacity, counted, moves>>

\* The entries and, as large as one of them, their number.
PagesOf(entries) == (entries + 1 + EntriesPerPage - 1) \div EntriesPerPage

\* Slip: the buffer is sized without the extra entries.
Malloc_tight ==
  /\ pc = "malloc"
  /\ capacity' = total
  /\ size' = PagesOf(capacity')
  /\ pc' = "memset"
  /\ UNCHANGED <<private, sharable, buffer, total, counted, moves>>

\* The structure itself has room for one entry.
Malloc ==
  /\ pc = "malloc"
  /\ capacity' = 1 + total + Slack
  /\ size' = PagesOf(capacity')
  /\ pc' = "memset"
  /\ UNCHANGED <<private, sharable, buffer, total, counted, moves>>

\* memset touches every page of the buffer.
Memset ==
  /\ pc = "memset"
  /\ buffer' = size
  /\ pc' = "query"
  /\ UNCHANGED <<private, sharable, size, total, capacity, counted, moves>>

\* Slip: the loop over the entries starts at 1.
QueryWorkingSet_from_one ==
  /\ pc = "query"
  /\ WorkingSet <= capacity
  /\ counted' = [private |-> IF private + buffer > 0 THEN private + buffer - 1 ELSE 0,
                 shared |-> sharable]
  /\ pc' = "print"
  /\ UNCHANGED <<private, sharable, buffer, size, total, capacity, moves>>

\* The second query works, and its entries are counted.
QueryWorkingSet ==
  /\ pc = "query"
  /\ WorkingSet <= capacity
  /\ counted' = [private |-> private + buffer, shared |-> sharable]
  /\ pc' = "print"
  /\ UNCHANGED <<private, sharable, buffer, size, total, capacity, moves>>

\* Slip: the error path of the second query keeps the buffer.
QueryFails_keeps ==
  /\ pc = "query"
  /\ pc' = "done"
  /\ UNCHANGED <<private, sharable, buffer, size, total, capacity, counted, moves>>

\* It fails, for want of room or otherwise: no second attempt.
QueryFails ==
  /\ pc = "query"
  /\ size' = 0 /\ buffer' = 0
  /\ pc' = "done"
  /\ UNCHANGED <<private, sharable, total, capacity, counted, moves>>

Finish ==
  /\ pc = "print"
  /\ size' = 0 /\ buffer' = 0
  /\ pc' = "done"
  /\ UNCHANGED <<private, sharable, total, capacity, counted, moves>>

(***************************************************************************)
(* The memory manager, while the report is being made                      *)
(***************************************************************************)
Moves(n) ==
  /\ pc \in {"probe", "malloc", "memset", "query"}
  /\ moves + n <= MovesMax
  /\ moves' = moves + n
  /\ UNCHANGED <<pc, size, total, capacity, counted>>

PagesCome(n) ==
  /\ Moves(n)
  /\ \/ private' = private + n /\ UNCHANGED <<sharable, buffer>>
     \/ sharable' = sharable + n /\ UNCHANGED <<private, buffer>>

PagesGo(n) ==
  /\ Moves(n)
  /\ \/ private >= n /\ private' = private - n /\ UNCHANGED <<sharable, buffer>>
     \/ sharable >= n /\ sharable' = sharable - n /\ UNCHANGED <<private, buffer>>
     \/ buffer >= n /\ buffer' = buffer - n /\ UNCHANGED <<private, sharable>>

Report == GetProcessMemoryInfo \/ GivesUp \/ Probe \/ Malloc \/ Memset
          \/ QueryWorkingSet \/ QueryFails \/ Finish
MemoryManager == \E n \in Batches : PagesCome(n) \/ PagesGo(n)

Next == Report \/ MemoryManager
Spec == Init /\ [][Next]_vars

-----------------------------------------------------------------------------
\* What is printed as sharable: an unsigned difference of the two looks.
PrintedSharable == (total - counted.private) % Word

(* The types of the report's variables.                                    *)
TypeOK ==
  /\ pc \in {"info", "probe", "malloc", "memset", "query", "print", "done"}
  /\ private \in Nat /\ sharable \in Nat /\ buffer \in 0 .. size /\ size \in Nat
  /\ total \in Nat /\ capacity \in Nat /\ moves \in 0 .. MovesMax
  /\ counted \in [private : Nat, shared : Nat]

(* The buffer is freed on every path out of the function.                  *)
BufferIsFreed == pc = "done" => size = 0 /\ buffer = 0

(* "Additional space to make sure that it is enough": it is, as long as    *)
(* what comes into the working set after the first look, the buffer's own  *)
(* pages included, stays within the extra entries.                         *)
SlackSuffices == pc = "query" /\ size + moves <= Slack + 1 => WorkingSet <= capacity

(* The sharable part is computed from two looks, the shared part from the  *)
(* second alone: what is printed as sharable is the shared part less the   *)
(* buffer, give or take the pages that came or went between the looks, and *)
(* it does not wrap while the shared part is larger than those.            *)
SharableIsClose ==
  pc = "print" /\ moves + size <= counted.shared /\ total < Word =>
    /\ PrintedSharable >= counted.shared - size - moves
    /\ PrintedSharable <= counted.shared - size + moves

(* What the second look can differ by from the first: the pages that came, *)
(* those that went, and the buffer.  With this the invariants above are    *)
(* inductive.                                                              *)
Drift ==
  /\ pc \in {"info", "probe", "malloc"} => size = 0
  /\ pc \in {"info", "probe", "malloc", "memset"} => buffer = 0
  /\ pc \in {"memset", "query"} => capacity = 1 + total + Slack
  /\ pc \in {"probe", "malloc", "memset", "query"} => private + sharable <= total + moves
  /\ pc \in {"probe", "malloc", "memset"} => total - moves <= private + sharable
  /\ pc = "query" => total + size - moves <= WorkingSet
  /\ pc = "print" =>
       /\ counted.private + counted.shared <= total + size + moves
       /\ total + size - moves <= counted.private + counted.shared
=============================================================================
