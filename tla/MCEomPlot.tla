------------------------------ MODULE MCEomPlot ------------------------------
(***************************************************************************)
(* Small instances of ufs-eom-plot.py: two steps of 0.14 UI to each side,  *)
(* one step of 10 mV up and down.  A point in the mask at gear 4 is not    *)
(* always one at gear 5, and the outermost points are in neither mask of a *)
(* centred eye.                                                            *)
(***************************************************************************)
EXTENDS EomPlot

Device == [timing_steps |-> 2, timing_offset |-> 28, voltage_steps |-> 1, voltage_offset |-> 1]

DevicePoints == Points(2, 1)
GridSeq == [i \in 1 .. 15 |-> <<((i - 1) \div 3) - 2, ((i - 1) % 3) - 1>>]

\* What was measured of a lane: no errors, one, or nothing at all.
Missing == 2
Eyes(counts, offrow) ==
    {[p \in DevicePoints |-> IF p[2] = 0 THEN row[p[1]] ELSE IF p = off THEN x ELSE 0] :
        row \in [-2 .. 2 -> counts], off \in offrow, x \in counts}

LaneRows(l, eye) ==
    LET points == SelectSeq(GridSeq, LAMBDA p : eye[p] # Missing)
    IN  [i \in 1 .. Len(points) |->
           [lane |-> l, timing |-> points[i][1], volt |-> points[i][2],
            error_cnt |-> eye[points[i]]]]

Open == [p \in DevicePoints |-> 0]
\* A scan of which -t, -b and their kin left a part of the grid out.
PartOf(eye, left, right) ==
    [p \in DevicePoints |-> IF left <= p[1] /\ p[1] <= right THEN eye[p] ELSE Missing]
Closed == [Open EXCEPT ![<<0, 0>>] = 1]
FewEyes ==
    { Open, Closed, PartOf(Open, 0, 2), PartOf(Open, -1, 1), PartOf(Closed, 0, 0),
      [Open EXCEPT ![<<1, 1>>] = 1], [Open EXCEPT ![<<2, 0>>] = 1] }

MCUfseomFiles ==
    {UfseomReport(Device, g, LaneRows(0, eye)) :
        g \in {4, 5}, eye \in Eyes({0, 1}, {<<0, 1>>, <<1, -1>>})}
    \cup {UfseomReport(Device, g, LaneRows(0, e0) \o LaneRows(1, e1)) :
        g \in {4, 5}, e0 \in FewEyes, e1 \in FewEyes}
    \cup {UfseomReport(Device, 4, LaneRows(1, e)) : e \in FewEyes}

OneRow == <<[lane |-> 0, timing |-> 0, volt |-> 0, error_cnt |-> 0]>>
Report(lines) == lines \o RowLines(OneRow)

\* Files with points missing anywhere, a point given twice, and lines that are
\* missing, empty or of a device that is not supported.
MCOtherFiles ==
    {UfseomReport(Device, 4, LaneRows(0, eye)) : eye \in Eyes({0, 1, Missing}, {<<0, 1>>})}
    \cup {PyReport(Device, LaneRows(0, Open), b) : b \in BOOLEAN}
    \cup {UfseomReport(Device, 5, LaneRows(0, Closed) \o LaneRows(0, Open)),
          UfseomReport(Device, 3, OneRow),
          UfseomReport(Device, 4, <<>>),
          UfseomReport(Device, 4, <<[OneRow[1] EXCEPT !.lane = 2]>>),
          UfseomReport([Device EXCEPT !.timing_steps = 0], 4, OneRow),
          UfseomReport([Device EXCEPT !.voltage_offset = 0], 4, OneRow),
          Report(<<GearLine(4), TimingLine(None, 0)>>),
          Report(<<GearLine(4), VoltageLine(None, 0)>>),
          Report(<<GearLine(4)>>),
          <<>>}

MCPyFiles == {PyReport(Device, LaneRows(l, e), TRUE) : l \in {0, 1}, e \in FewEyes}
MCNoFiles == {}
=============================================================================
