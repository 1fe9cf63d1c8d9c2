------------------------------ MODULE MCRates ------------------------------
(***************************************************************************)
(* Small policies for TLC.                                                 *)
(***************************************************************************)
EXTENDS Rates, TLC

CONSTANTS b1, b2, n1, f1, w1, w2, w3

Limit(hour, day) == [k \in Kinds |-> IF k = "hour" THEN hour ELSE day]

Nobody == {}

\* Two contract methods that spend from one wallet.
TwoMethods == {b1, b2}
OneWallet == {w1}
BothOnW1 == [b \in {b1, b2} |-> w1]
MethodRates == (b1 :> Limit(1, 2)) @@ (b2 :> Limit(0, 2))
SharedRate == w1 :> Limit(2, 3)
Uncapped == w1 :> NoAggregate

\* One rule of every kind, each with its own wallet: a contract method, a
\* method whose wallet has a cap that does not parse, a native transfer
\* without a rate of its own, and an FSP message.
OneTransfer == {n1}
OneMessage == {f1}
ThreeWallets == {w1, w2, w3}
OwnWallets == (b1 :> w1) @@ (b2 :> w2) @@ (n1 :> w3)
KindRates == (b1 :> Limit(1, 2)) @@ (b2 :> Limit(1, 1)) @@ (n1 :> NoRate) @@ (f1 :> Limit(1, 1))
KindWalletRates == (w1 :> Limit(0, 2)) @@ (w2 :> NoRate) @@ (w3 :> Limit(1, 2))
KindCaps == (w1 :> 1) @@ (w2 :> NotDecimal) @@ (w3 :> 1)
=============================================================================
