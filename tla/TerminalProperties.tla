-------------------------- MODULE TerminalProperties --------------------------
(***************************************************************************)
(* What the pauses promise: "wait for the user to press Enter".            *)
(***************************************************************************)
EXTENDS DemoProperties

\* The lines that may wait in the terminal, and the characters in them.
Waiting == {lines \in Seq(LineSizes) : Len(lines) <= QueueMax}

Characters[lines \in Waiting] ==
  IF lines = << >> THEN 0 ELSE Head(lines) + Characters[Tail(lines)]

\* Characters the user typed that no pause has consumed yet.
Unread == Characters[tty] + inbuf["parent"]
          + (IF mode["child"] = "running" THEN inbuf["child"] ELSE 0)

\* What a step does to the characters typed.
CharactersAreSpent ==
  /\ Unread' > Unread /\ Len(tty') <= Len(tty) =>
       /\ mode["child"] = "none" /\ mode'["child"] = "running"
       /\ Unread' = Unread + inbuf["parent"]
  /\ \A p \in Procs : At(p, "pause") /\ ~eof[p] /\ pc'[p] = pc[p] + 1 =>
       Unread' = Unread - 1

(* A character the user typed lets one pause pass.  What there is to read  *)
(* grows when the user types, and otherwise in one case only: fork()       *)
(* copies what a line of more than one character left in the buffer of     *)
(* std::cin, and then by exactly that.  A pause that passes before         *)
(* end-of-file has used up one character.                                  *)
OnlyForkCopiesCharacters == [][CharactersAreSpent]_vars
=============================================================================
