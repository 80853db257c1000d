----------------------------- MODULE MCAccounts -----------------------------
(* Instances of Accounts for TLC. *)
EXTENDS Accounts, TLC

CONSTANTS k1, k2, e1, e2, i1, i2, r1, r2

TwoClients == {k1, k2}
TwoEmails == {e1, e2}
OneInvite == {i1}
TwoInvites == {i1, i2}
OneRequest == {r1}
TwoRequests == {r1, r2}

\* Clients, addresses, codes and requests are interchangeable.
Interchangeable == Permutations(TwoClients) \union Permutations(TwoEmails)
                   \union Permutations(TwoRequests)
=============================================================================
