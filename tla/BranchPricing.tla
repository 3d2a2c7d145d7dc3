---------------------------- MODULE BranchPricing ----------------------------
(***************************************************************************)
(* What a branch-logistics ticket costs and how its price is shared.        *)
(*   src/src/modules/branch-logistics/branch-logistics.service.ts           *)
(*                                                                         *)
(* Shares and wallets are in cents, weights in kilograms.  A price is in     *)
(* parts of a cent: the extra fee and the discount are any numbers, and the  *)
(* total is not rounded.                                                     *)
(***************************************************************************)
EXTENDS Rounding

CONSTANT Cent   \* the parts of a cent that fees and prices are given in

Roles == {"SENDER", "RECEIVER", "COMPANY"}

\* The fees of a weight tier.
ResolveWeightTier(kg, vip) ==
    [packageFee |-> Cent * (IF kg <= 50 THEN 250 ELSE IF kg <= 100 THEN 350 ELSE 450),
     serviceFee |-> IF vip THEN Cent * 150 ELSE 0]

\* The weights the flow accepts.
Priceable(parcel) == parcel.kg \in 1..200

\* A discount may be larger than the fees.
CalculatePrice(parcel) ==
    LET tier == ResolveWeightTier(parcel.kg, parcel.vip)
        total == tier.packageFee + tier.serviceFee + parcel.extra - parcel.discount
    IN  IF total > 0 THEN total ELSE 0

\* Mutation test: every share is rounded down by itself.
SplitsRoundedAlone(price, percent) ==
    {[role \in Roles |-> (price * percent[role]) \div (100 * Cent)]}

\* calculateRevenueShare: each branch's percentage and what they leave of the
\* price for the company, each rounded to a cent by itself.
BranchShare(price, percent) == Nearest(price * percent, 100 * Cent)

Splits(price, percent) ==
    UNION {{[SENDER |-> ab[1], RECEIVER |-> ab[2], COMPANY |-> c] :
                c \in Nearest(price - Cent * (ab[1] + ab[2]), Cent)} :
           ab \in BranchShare(price, percent.SENDER) \X BranchShare(price, percent.RECEIVER)}

=============================================================================
