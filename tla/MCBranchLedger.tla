---------------------------- MODULE MCBranchLedger ----------------------------
(* An instance of BranchLedger for TLC.                                       *)
EXTENDS BranchLedger, TLC

CONSTANTS s1, b1, b2

From == s1 :> b1
To == s1 :> b2

\* A price of 4.104 in VIP mode, in fifths of a cent: no share of it is a whole
\* number of cents.
Parcels == s1 :> [kg |-> 50, vip |-> TRUE, extra |-> 57, discount |-> 5]

\* The default percentages and those of later versions.
Percents ==
    (1 :> [SENDER |-> 10, RECEIVER |-> 10, COMPANY |-> 80])
        @@ (2 :> [SENDER |-> 15, RECEIVER |-> 10, COMPANY |-> 75])
        @@ (3 :> [SENDER |-> 10, RECEIVER |-> 10, COMPANY |-> 80])

\* The sender's branch has a wallet with money on it, the others have none yet.
OldWallets ==
    [a \in Accounts |->
        IF a = b1 THEN [open |-> TRUE, available |-> 60, pending |-> 25, credited |-> 75,
                        debited |-> 15]
        ELSE NoWallet]

LedgerOperations == {"create", "assign", "stage", "complete", "cancel", "publish"}
ReceiptWrites == {"link", "arrive", "unlink"}

\* What the books need of the prices and percentages.
ASSUME SharesAssumption == NoNegativeShare

=============================================================================
