----------------------------- MODULE MCLivingPlan -----------------------------
(* Small instances of LivingPlan for TLC.  Two fields, so that an overlay  *)
(* can leave one of the baseline's fields as it is.                        *)
EXTENDS LivingPlan, TLC

Field(a, b) == [f \in Fields |-> IF f = "income" THEN a ELSE b]

MCRecalculations == {[inputs |-> Field(1, None), asOf |-> "jan"]}
MCOverlays == {Field(None, 2)}

(* An observation, the same one under another key and date, and another    *)
(* observation under the first key.                                        *)
MCCheckRequests ==
    {[key |-> "k1", inputs |-> Field(2, None), asOf |-> "feb"],
     [key |-> "k2", inputs |-> Field(2, None), asOf |-> "jan"],
     [key |-> "k1", inputs |-> Field(1, 2), asOf |-> "feb"]}

(* One material and one immaterial observation. *)
MCDriftRequests == {r \in MCCheckRequests : r.inputs["emi"] = 2 \/ r.key = "k2"}

(* Two material observations, and the first one again under the other key. *)
MCRivalRequests ==
    {[key |-> "k1", inputs |-> Field(2, None), asOf |-> "feb"],
     [key |-> "k2", inputs |-> Field(2, 2), asOf |-> "feb"],
     [key |-> "k2", inputs |-> Field(2, None), asOf |-> "feb"]}

MCOneCheckRequest == {[key |-> "k1", inputs |-> Field(2, None), asOf |-> "feb"]}

(* Only a change of income is material. *)
MCMaterial == {bo \in Inputs \X Inputs : bo[1]["income"] # bo[2]["income"]}

(* Sound where Aging is empty or all of Checks, and for safety only. *)
Symmetry ==
    Permutations(Clients) \cup Permutations(Workers)
    \cup Permutations(Scenarios) \cup Permutations(Checks)
=============================================================================
