------------------------------- MODULE MCPrivacy -------------------------------
(* A small instance of Privacy for TLC.                                    *)
EXTENDS Privacy, TLC

Consent(key, purpose, action) == [key |-> key, purpose |-> purpose, action |-> action]

MCEarlier ==
    {Consent("k1", "document_storage", "granted"), Consent("k2", "privacy_export", "granted"),
     Consent("k3", "household_deletion", "granted")}

MCConsentRequests ==
    MCEarlier \cup {Consent("k4", "household_deletion", "withdrawn")}

(* Documents and exports share no row and no key: they are followed one    *)
(* beside the household's deletion, and not both at once.                  *)
MCFresh == {Docs \cup Deletions, Exports \cup Deletions}

Symmetry == Permutations(Clients) \cup Permutations(Workers)
=============================================================================
