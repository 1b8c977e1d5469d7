----------------------------- MODULE PlanHistory -----------------------------
(***************************************************************************)
(* What a household's living plan promises, whatever tables, locks and     *)
(* workers stand behind it (docs/implementation/U5-SPEC.md, U7-SPEC.md):   *)
(* the plan is an append-only history of versions with one pointer to the  *)
(* current one.  A recalculation may replace the current version at any    *)
(* time.  A proposal (a draft scenario, or a drift event that waits for a  *)
(* decision) is made against one version, its basis, and it is adopted at  *)
(* most once, only while its basis is still the current version: what the  *)
(* user saw when the proposal was made is what the new version replaces.   *)
(***************************************************************************)
EXTENDS Naturals, Sequences

CONSTANTS
    Proposals,  \* scenarios and drift events
    None        \* the origin of a version nobody proposed

VARIABLES
    history,    \* history[i] is the proposal version i was adopted from, or None
    current,    \* the current version, 0 before the first calculation
    basis       \* basis[x] is the version proposal x was made against, 0 if not made

vars == <<history, current, basis>>

Init ==
    /\ history = <<>>
    /\ current = 0
    /\ basis = [x \in Proposals |-> 0]

(* A new version is appended and becomes the current one. *)
Publish(origin) ==
    /\ history' = Append(history, origin)
    /\ current' = Len(history) + 1

Recalculate ==
    /\ Publish(None)
    /\ UNCHANGED basis

(* The basis of a proposal is a version that exists, not necessarily the   *)
(* current one: createScenario reads the plan without a lock.              *)
Propose(x) ==
    /\ basis[x] = 0
    /\ \E n \in 1..Len(history) : basis' = [basis EXCEPT ![x] = n]
    /\ UNCHANGED <<history, current>>

Adopt(x) ==
    /\ current # 0
    /\ basis[x] = current
    /\ \A i \in 1..Len(history) : history[i] # x
    /\ Publish(x)
    /\ UNCHANGED basis

Next ==
    \/ Recalculate
    \/ \E x \in Proposals : Propose(x) \/ Adopt(x)

Spec == Init /\ [][Next]_vars

-----------------------------------------------------------------------------

TypeOK ==
    /\ history \in Seq(Proposals \cup {None})
    /\ current \in Nat
    /\ basis \in [Proposals -> Nat]

(* Every adopted version directly follows the version its proposal was     *)
(* made against, and the pointer names the last version: no decision       *)
(* overwrites a plan its author had not seen.                              *)
AdoptedOnBasis ==
    /\ current = Len(history)
    /\ \A i \in 1..Len(history) :
          history[i] # None => basis[history[i]] = i - 1 /\ i > 1

=============================================================================
