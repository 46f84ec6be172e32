----------------------------- MODULE ActiveBook -----------------------------
(***************************************************************************)
(* What an append-only journal promises: postings are numbered 1, 2, ...   *)
(* and never removed; a posting is active until the one later posting that *)
(* cancels it, and the cancelling posting is never active itself.          *)
(***************************************************************************)
EXTENDS Naturals

VARIABLES count,  \* postings made so far
          active  \* those in force

Init == count = 0 /\ active = {}

Record == /\ count' = count + 1
          /\ active' = active \cup {count'}

Cancel == /\ count' = count + 1
          /\ \E i \in active : active' = active \ {i}

Next == Record \/ Cancel

Spec == Init /\ [][Next]_<<count, active>>
=============================================================================
