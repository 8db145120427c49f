\* The constants of the code; working sets of a few pages, of a demo that
\* allocated 50 MB, and of one that would allocate more than 200 MB.
\* 74 and 75 pages are the last batch that fits and the first that does not.
\* The report is made once, so deadlock is not checked.
SPECIFICATION Spec
CONSTANTS
  Slack = 100
  EntriesPerPage = 512
  Word = 1048576
  Privates = {0, 1, 12800, 52000}
  Sharables = {0, 1, 600}
  Batches = {26, 74, 75}
  MovesMax = 149
CHECK_DEADLOCK FALSE
INVARIANTS
  BufferIsFreed
  SlackSuffices
  SharableIsClose
  Drift
