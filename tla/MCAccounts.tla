----------------------------- MODULE MCAccounts -----------------------------
(* A company with one account, as seed_mock_data begins. *)
EXTENDS Accounts, TLC

CONSTANTS t1, admin, user, user2, pw, other, h

Company == <<[parent |-> 0, tenant |-> t1, type |-> "company"]>>

Admin == <<[user |-> admin, org |-> 1, pwd |-> pw]>>

UserSymmetry == Permutations({user, user2})

=============================================================================
