----------------------------- MODULE MCWallets -----------------------------
(***************************************************************************)
(* A small instance of Wallets for TLC: two names, and a file that two     *)
(* sessions may import at a time.                                          *)
(***************************************************************************)
EXTENDS Wallets, TLC

CONSTANTS x1, x2, n1, n2, k1, g1

TwoSessions == {x1, x2}
TwoNames == {n1, n2}
OneSource == {k1}
OneFresh == {g1}

Symmetric ==
    Permutations(TwoSessions) \cup Permutations(TwoNames)
=============================================================================
