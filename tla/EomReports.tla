------------------------------ MODULE EomReports ------------------------------
(***************************************************************************)
(* Report files as sequences of lines, of which only what ufs-eom-plot.py  *)
(* takes from them is kept, and the two ways in which they are written: by *)
(* ufseom and by ufs-eom.py.                                               *)
(***************************************************************************)
EXTENDS Common, Sequences

\* Lines that only end up in the title of a plot are "title" lines.
TitleLine == [kind |-> "title"]
OtherLine == [kind |-> "other"]
GearLine(g) == [kind |-> "gear", gear |-> g]
TimingLine(steps, offset) == [kind |-> "timing", steps |-> steps, offset |-> offset]
VoltageLine(steps, offset) == [kind |-> "voltage", steps |-> steps, offset |-> offset]
RowLine(r) == [kind |-> "row", lane |-> r.lane, t |-> r.timing, v |-> r.volt,
               e |-> r.error_cnt]

RowLines(rows) == [i \in 1 .. Len(rows) |-> RowLine(rows[i])]

\* d is what the monitors say of themselves: steps and offsets of both axes.
\* generate_eom_report
UfseomReport(d, gear, rows) ==
    << TitleLine, TitleLine, GearLine(gear), OtherLine,
       TimingLine(Some(d.timing_steps), d.timing_offset),
       VoltageLine(Some(d.voltage_steps), d.voltage_offset), OtherLine >> \o RowLines(rows)

\* get_device_info, get_eom_caps, eom_start and eom_scan of ufs-eom.py; no gear is
\* written, and no trailer when the script died.
PyReport(d, rows, trailer) ==
    << TitleLine, OtherLine,
       TimingLine(Some(d.timing_steps), d.timing_offset),
       VoltageLine(Some(d.voltage_steps), d.voltage_offset), TitleLine >>
        \o RowLines(rows) \o (IF trailer THEN <<OtherLine, OtherLine>> ELSE <<>>)

-----------------------------------------------------------------------------
\* What the lines of a file may be: any number may be missing of the steps.
Lines ==
    {TitleLine, OtherLine}
        \cup [kind : {"gear"}, gear : Nat]
        \cup [kind : {"timing", "voltage"}, steps : SUBSET Nat, offset : Nat]
        \cup [kind : {"row"}, lane : Nat, t : Int, v : Int, e : Nat]

IsFile(f) ==
    /\ f \in Seq(Lines)
    /\ \A i \in 1 .. Len(f) :
         f[i].kind \in {"timing", "voltage"} => IsOptional(f[i].steps, Nat)

\* The device and the rows that a report says it is of.
DeviceOf(f) ==
    [timing_steps |-> The(f[5].steps), timing_offset |-> f[5].offset,
     voltage_steps |-> The(f[6].steps), voltage_offset |-> f[6].offset]

RowsOf(f) ==
    [i \in 1 .. Len(f) - 7 |->
        [lane |-> f[7 + i].lane, timing |-> f[7 + i].t, volt |-> f[7 + i].v,
         error_cnt |-> f[7 + i].e]]

IsUfseomReport(f) == Len(f) >= 7 /\ f = UfseomReport(DeviceOf(f), f[3].gear, RowsOf(f))
=============================================================================
