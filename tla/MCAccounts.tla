----------------------------- MODULE MCAccounts -----------------------------
(* Small instance of Accounts: an address with two spellings.                *)
EXTENDS Accounts

CONSTANTS joe, joeOdd, w1, w2

AllEmails == {joe, joeOdd}
Lower == [e \in AllEmails |-> joe]

Edits == {[role |-> "admin"], [role |-> "customer"], [active |-> FALSE],
          [email |-> joeOdd], [staff |-> TRUE]}

Symmetry == Permutations({w1, w2})
=============================================================================
