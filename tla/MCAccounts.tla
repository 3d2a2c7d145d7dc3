----------------------------- MODULE MCAccounts -----------------------------
(* One e-mail address, two phone numbers, two handlers at a time.            *)
EXTENDS Accounts, TLC

CONSTANTS r1, r2, f1, f2

MCRequests == {r1, r2}
MCPhones == {f1, f2}
MCSymmetry == Permutations(MCRequests) \cup Permutations(MCPhones)

=============================================================================
