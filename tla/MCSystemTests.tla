---------------------------- MODULE MCSystemTests ----------------------------
(***************************************************************************)
(* SystemTests for short command lines and small amounts of memory.        *)
(***************************************************************************)
EXTENDS SystemTests

\* Once its options are read, a command line matters to the program by the
\* flags it set, and to the properties by whether it asks for the writes.
MCView ==
  <<IF phase \in {"start", "options"} THEN <<argv, args>> ELSE <<AsksToWrite>>,
    asked, named, phase, turn, pos, held, size, file, temp, pools, shots, churn>>
=============================================================================
