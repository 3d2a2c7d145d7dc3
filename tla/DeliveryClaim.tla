---------------------------- MODULE DeliveryClaim ----------------------------
(***************************************************************************)
(* What matching promises to customers and drivers, with no database, no    *)
(* request and no clock: a booking is open until it is either closed        *)
(* without a driver or claimed by one driver; both are final until an       *)
(* administrator hard-deletes the booking.                                  *)
(***************************************************************************)

CONSTANTS Packages, Drivers

VARIABLE claim  \* claim[p]: "absent", "open", "closed", "deleted" or a driver

Init == claim = [p \in Packages |-> "absent"]

Publish(p) ==
    /\ claim[p] = "absent"
    /\ claim' = [claim EXCEPT ![p] = "open"]

Close(p) ==
    /\ claim[p] = "open"
    /\ claim' = [claim EXCEPT ![p] = "closed"]

Claim(p, d) ==
    /\ claim[p] = "open"
    /\ claim' = [claim EXCEPT ![p] = d]

Delete(p) ==
    /\ claim[p] \notin {"absent", "deleted"}
    /\ claim' = [claim EXCEPT ![p] = "deleted"]

Next ==
    \E p \in Packages :
        \/ Publish(p)
        \/ Close(p)
        \/ \E d \in Drivers : Claim(p, d)
        \/ Delete(p)

Spec == Init /\ [][Next]_claim

=============================================================================
