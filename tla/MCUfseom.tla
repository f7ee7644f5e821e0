------------------------------ MODULE MCUfseom ------------------------------
(***************************************************************************)
(* Small instances of ufseom.  The device reports one timing step and one  *)
(* voltage step to each side of the centre.                                *)
(***************************************************************************)
EXTENDS UfseomProps

MCCap(eom, gear) ==
    [eom |-> eom, gear |-> gear, timing_max_steps |-> 1, voltage_max_steps |-> 1]

MCOption(side, l, n, target, io, vlow, vhigh, tleft, tright) ==
    [local_peer |-> side, lane |-> l, num_lanes |-> n, target_test_count |-> target,
     do_io |-> io, voltage_low |-> vlow, voltage_high |-> vhigh,
     timing_left |-> tleft, timing_right |-> tright]

Unset == EOM_TIMING_VOLTAGE_INIT

\* Both sides and lanes, one lane or two, ranges of several points in each
\* direction, bounds left to the device.
MCSweepOptions ==
    { MCOption(LocalSide, 0, 2, 2, FALSE, 0, 0, 0, 1),
      MCOption(PeerSide, 1, 1, 1, TRUE, Unset, Unset, 0, 0) }

MCFewPoints ==
    { MCOption(PeerSide, 0, 2, 1, TRUE, 0, 1, -1, -1),
      MCOption(LocalSide, 1, 1, 2, FALSE, -1, 0, 0, 1) }

\* Bounds out of the limits or in the wrong order, among others that are right.
MCRangeOptions ==
    { MCOption(PeerSide, 0, 1, 1, TRUE, vl, vh, 0, 0) :
        vl \in {-1, Unset}, vh \in {-2, -1, 2} }
    \cup { MCOption(PeerSide, 0, 1, 1, FALSE, -1, 2, tl, 1) : tl \in {-2, Unset} }
    \cup { MCOption(PeerSide, 0, 1, 1, FALSE, Unset, -1, -1, tr) : tr \in {-1, -2, 2} }

MCFaultOptions == MCFewPoints \cup MCRangeOptions

MCOneLane == {MCOption(LocalSide, 0, 2, 1, FALSE, 0, 0, 0, 0)}

GoodCaps == {MCCap(TRUE, 4)}
AllCaps == {MCCap(TRUE, 4), MCCap(TRUE, 3), MCCap(FALSE, 5)}

NoLeftovers == {{}}
AnyLeftovers == {{}, {<<LocalSide, 0>>, <<LocalSide, 1>>, <<PeerSide, 1>>}}
=============================================================================
