------------------------------- MODULE JournalLife -------------------------------
(* What the recovery root promises the rest of daem: at most one journal at a time,
   which can be recovered until it is retired, then only be cleaned up, and whose
   cleanup comes to an end before there is another. *)
EXTENDS Naturals

VARIABLES
    phase,      \* of the journal there is
    published   \* how many there have been

Publish ==
    /\ phase = "none" /\ phase' = "recoverable"
    /\ published' = published + 1

Retire ==
    /\ phase = "recoverable" /\ phase' = "cleanup"
    /\ UNCHANGED published

Finish ==
    /\ phase = "cleanup" /\ phase' = "none"
    /\ UNCHANGED published

(* If somebody tampers with the journal, nothing is promised from then on. *)
Tamper == phase # "tampered" /\ phase' = "tampered" /\ UNCHANGED published

Unpromised == phase = "tampered" /\ UNCHANGED phase /\ published' = published + 1

Spec ==
    /\ phase = "none" /\ published = 0
    /\ [][Publish \/ Retire \/ Finish \/ Tamper \/ Unpromised]_<<phase, published>>

=============================================================================
