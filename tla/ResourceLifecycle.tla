-------------------------- MODULE ResourceLifecycle --------------------------
(***************************************************************************)
(* What every demo promises about the resources of its process, whatever   *)
(* it demonstrates: it owns nothing when it starts; it takes one resource  *)
(* at a time, and only when it owns what the resource is made from; it     *)
(* gives one back at a time, and only when nothing it still owns is made   *)
(* from it (a mapping before its descriptor, a descriptor before its       *)
(* file); it is over only when it owns nothing.  A process that is killed  *)
(* keeps nothing but its named objects.                                    *)
(***************************************************************************)
CONSTANTS Things,      \* what can be owned
          MadeFrom,    \* MadeFrom[r]: what must be owned to take r
          Persistent   \* the named objects, which survive their process

VARIABLES owned, phase

Init == owned = {} /\ phase = "open"

Take == /\ phase = "open"
        /\ \E r \in Things \ owned :
             MadeFrom[r] \subseteq owned /\ owned' = owned \union {r}
        /\ UNCHANGED phase

GiveBack == /\ phase = "open"
            /\ \E r \in owned :
                 /\ \A q \in owned : r \notin MadeFrom[q]
                 /\ owned' = owned \ {r}
            /\ UNCHANGED phase

Over == phase = "open" /\ owned = {} /\ phase' = "over" /\ UNCHANGED owned

Killed == /\ phase = "open" /\ phase' = "killed"
          /\ owned' = owned \intersect Persistent

Next == Take \/ GiveBack \/ Over \/ Killed

Spec == Init /\ [][Next]_<<owned, phase>>
=============================================================================
