-------------------------- MODULE PlanHistory_proofs --------------------------
(* What the abstract plan history promises, proved for any set of proposals. *)
EXTENDS PlanHistory, TLAPS

(* The empty history. *)
LEMMA InitOK == Init => TypeOK /\ AdoptedOnBasis
BY DEF Init, TypeOK, AdoptedOnBasis

(* A publication keeps the earlier versions on their basis. *)
LEMMA PublishAppends ==
    ASSUME TypeOK, AdoptedOnBasis, NEW x \in Proposals \cup {None}, Publish(x), UNCHANGED basis,
           x # None => basis[x] = current /\ current # 0
    PROVE  TypeOK' /\ AdoptedOnBasis'
<1>1. /\ history' \in Seq(Proposals \cup {None})
      /\ Len(history) \in Nat /\ Len(history') = Len(history) + 1
      /\ history'[Len(history) + 1] = x
      /\ \A i \in 1..Len(history) : history'[i] = history[i]
  BY DEF Publish, TypeOK
<1> QED
  BY <1>1 DEF Publish, TypeOK, AdoptedOnBasis

(* A proposal changes no basis that is set. *)
LEMMA ProposeKeeps ==
    ASSUME TypeOK, AdoptedOnBasis, NEW x \in Proposals, Propose(x)
    PROVE  TypeOK' /\ AdoptedOnBasis'
<1>1. PICK n \in 1..Len(history) : basis' = [basis EXCEPT ![x] = n]
  BY DEF Propose
<1>2. n \in Nat /\ UNCHANGED <<history, current>> /\ basis[x] = 0
  BY DEF Propose, TypeOK
<1>3. \A i \in 1..Len(history) : history[i] # None => history[i] # x /\ history[i] \in Proposals
  BY <1>2 DEF TypeOK, AdoptedOnBasis
<1> QED
  BY <1>1, <1>2, <1>3 DEF TypeOK, AdoptedOnBasis

(* An adopted version directly follows the version its proposal was made   *)
(* against.                                                                *)
THEOREM Adoption == Spec => [](TypeOK /\ AdoptedOnBasis)
<1>1. TypeOK /\ AdoptedOnBasis /\ [Next]_vars => (TypeOK /\ AdoptedOnBasis)'
  <2> SUFFICES ASSUME TypeOK, AdoptedOnBasis, [Next]_vars
               PROVE  TypeOK' /\ AdoptedOnBasis'
    OBVIOUS
  <2>1. CASE Recalculate
    BY <2>1, PublishAppends DEF Recalculate
  <2>2. ASSUME NEW x \in Proposals, Propose(x)
        PROVE  TypeOK' /\ AdoptedOnBasis'
    BY <2>2, ProposeKeeps
  <2>3. ASSUME NEW x \in Proposals, Adopt(x)
        PROVE  TypeOK' /\ AdoptedOnBasis'
    BY <2>3, PublishAppends DEF Adopt
  <2>4. CASE UNCHANGED vars
    BY <2>4 DEF vars, TypeOK, AdoptedOnBasis
  <2> QED
    BY <2>1, <2>2, <2>3, <2>4 DEF Next
<1> QED
  BY <1>1, InitOK, PTL DEF Spec
=============================================================================
