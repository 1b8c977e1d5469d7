------------------------------- MODULE MCLedger -------------------------------
(* A small instance of Ledger for TLC: two devices report one payment with *)
(* the bank's reference and one without.                                   *)
EXTENDS Ledger, TLC

CONSTANTS Phone, Tablet, Reference, Purchase

WithoutReference(device) == [client |-> <<device, 1>>, ref |-> None, class |-> Purchase]
Referenced(device) == [client |-> <<device, 2>>, ref |-> Reference, class |-> Purchase]

MCItems == {WithoutReference(d) : d \in {Phone, Tablet}} \cup {Referenced(d) : d \in {Phone, Tablet}}
MCBatches == {<<WithoutReference(d), Referenced(d)>> : d \in {Phone, Tablet}}

Symmetry == Permutations(Syncs) \cup Permutations({Phone, Tablet})
=============================================================================
