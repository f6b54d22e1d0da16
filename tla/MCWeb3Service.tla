--------------------------- MODULE MCWeb3Service ---------------------------
(***************************************************************************)
(* Instances of Web3Service: who calls, from which accounts, with which    *)
(* wallets and failures.  Each configuration takes one of the scenarios.   *)
(***************************************************************************)
EXTENDS Web3Service

CONSTANTS alice, bob

(* Wallet records of the store. *)
Local(a) == [publicKey |-> a, key |-> a, hardware |-> FALSE]
Locked(a) == [publicKey |-> a, key |-> NoKey, hardware |-> FALSE]
Device(a) == [publicKey |-> a, key |-> NoKey, hardware |-> TRUE]

(* A stake followed by a withdrawal, with a balance request in between.    *)
StakingProgram ==
    [stake |-> <<"approve", "deposit">>, withdraw |-> <<"withdraw">>,
     reader |-> <<"read">>]
StakingSends == {"approve", "deposit", "withdraw"}
StakingFrom == [t \in StakingSends |-> alice]
AliceWallets == {Local(alice), Locked(alice)}
OneMined == [a \in Accounts |-> 1]

(* Two transactions of alice at once, and a payment of bob, whose account  *)
(* may be on a device.                                                     *)
OverlapProgram == [stake |-> <<"deposit">>, withdraw |-> <<"withdraw">>,
                   pay |-> <<"payment">>]
OverlapSends == {"deposit", "withdraw", "payment"}
OverlapFrom == [t \in OverlapSends |-> IF t = "payment" THEN bob ELSE alice]
MixedWallets == {Local(alice), Device(bob)}

(* One transaction of each account; a third party reads. *)
PairProgram == [withdraw |-> <<"withdraw">>, pay |-> <<"payment">>,
                reader |-> <<"read">>]
PairSends == {"withdraw", "payment"}
PairFrom == [t \in PairSends |-> IF t = "payment" THEN bob ELSE alice]
BothLocal == {Local(alice), Local(bob)}
=============================================================================
