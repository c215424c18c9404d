----------------------------- MODULE LogChannel -----------------------------
(***************************************************************************)
(* What the socket logger promises, whatever happens to connections and     *)
(* timers: bytes are accepted, and the log server confirms them in the order *)
(* in which they were accepted, with none left out and none taken back. A    *)
(* message that is not accepted is dropped as a whole.                      *)
(***************************************************************************)
EXTENDS Integers, Sequences

CONSTANT Messages

VARIABLES accepted,    \* every byte the logger took
          confirmed    \* the bytes it has seen arrive and has let go of

vars == <<accepted, confirmed>>

Init == accepted = <<>> /\ confirmed = <<>>

Accept == /\ \E msg \in Messages : accepted' = accepted \o msg
          /\ UNCHANGED confirmed

Confirm == /\ \E n \in Len(confirmed)..Len(accepted) :
                 confirmed' = SubSeq(accepted, 1, n)
           /\ UNCHANGED accepted

Next == Accept \/ Confirm

Spec == Init /\ [][Next]_vars
=============================================================================
