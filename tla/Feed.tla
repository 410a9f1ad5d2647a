----------------------------------- MODULE Feed -----------------------------------
(* What the event stream promises the panels of the console: of what the      *)
(* server publishes a panel hears some events, each at most once and in the   *)
(* order of publication, and every panel hears the same ones.                 *)
EXTENDS Naturals, Sequences

CONSTANTS Panels, Kinds

VARIABLES
    sent,  \* the kinds of the events published, in order
    heard, \* the positions in sent that the panels have heard
    last   \* the position heard last, 0 before the first

Init == sent = <<>> /\ heard = [p \in Panels |-> <<>>] /\ last = 0

Publish ==
    /\ \E k \in Kinds : sent' = Append(sent, k)
    /\ UNCHANGED <<heard, last>>

Hear ==
    /\ \E n \in 1..Len(sent) :
          /\ n > last
          /\ heard' = [p \in Panels |-> Append(heard[p], n)]
          /\ last' = n
    /\ UNCHANGED sent

Next == Publish \/ Hear

Spec == Init /\ [][Next]_<<sent, heard, last>>
=============================================================================
