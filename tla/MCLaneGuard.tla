---------------------------- MODULE MCLaneGuard ----------------------------
(***************************************************************************)
(* Instances of LaneGuard for TLC.                                         *)
(***************************************************************************)
EXTENDS LaneGuard

Approves(digest, epoch, number, expiry, eeprom) ==
    [plan |-> digest, fenceEpoch |-> epoch, id |-> number, expiresAt |-> expiry,
     initial |-> [security |-> "fresh", eeprom |-> eeprom,
                  status |-> IF eeprom = "unread" THEN "unavailable" ELSE "observed"]]

\* Two plans for the same target, the second under the next fence, when its
\* EEPROM could not be read.
TwoPlans ==
    {Approves("first", 1, 1, 2, "initial"), Approves("second", 2, 2, 2, "unread")}

\* One plan and one approval.
OneApproval == {Approves("first", 1, 1, 2, "initial")}
============================================================================
