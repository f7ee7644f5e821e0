------------------------------- MODULE MCEomPy -------------------------------
(***************************************************************************)
(* Small instances of ufs-eom.py.                                          *)
(***************************************************************************)
EXTENDS EomPy

MCOption(side, lane, voltage, target) ==
    [side |-> side, lane |-> lane, voltage |-> voltage, target |-> target]

\* Both lanes at one voltage, which is outside one of the limits; one lane at all
\* of them; and a lane that is not there.
MCPyOptions ==
    { MCOption(LocalSide, None, Some(-1), 2), MCOption(PeerSide, Some(1), None, 1),
      MCOption(LocalSide, Some(2), Some(0), 1) }

MCOnePoint == {MCOption(LocalSide, Some(0), None, 1)}

MCLimits == {[timing |-> 1, voltage |-> 0], [timing |-> 0, voltage |-> 1]}

NoLeftovers == {{}}
SomeLeftovers == {{<<LocalSide, 0>>}}
=============================================================================
