------------------------------ MODULE OneShot ------------------------------
(* What the recurring-invoice runner promises: an invoice for a period is   *)
(* issued at most once, and sent at most once and only after it was issued. *)
EXTENDS Naturals

CONSTANT Gens   \* the periods of all templates

VARIABLES
  issued,  \* how many invoices a period has
  sent     \* how often the invoice of a period crossed the transport

Init == issued = [g \in Gens |-> 0] /\ sent = [g \in Gens |-> 0]

Issue(g) ==
  /\ issued[g] = 0
  /\ issued' = [issued EXCEPT ![g] = 1]
  /\ UNCHANGED sent

Send(g) ==
  /\ issued[g] = 1 /\ sent[g] = 0
  /\ sent' = [sent EXCEPT ![g] = 1]
  /\ UNCHANGED issued

Next == \E g \in Gens : Issue(g) \/ Send(g)

Spec == Init /\ [][Next]_<<issued, sent>>
=============================================================================
