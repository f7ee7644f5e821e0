# A verification development for ufs-tools

TLA+ models of the programs of ufs-tools, TLC runs that check them on small
instances, and proofs that hold for every value of the constants. Line numbers
are those of the files under `src/`.

## 1. Inventory

| Part | State it keeps | Operations | Interacts with |
|---|---|---|---|
| **ufseom, the scan** (`ufs-cli/ufs_eom.c` 183-441, 606-653, 669-870) | the control parameters, `eom_data` with the rows measured so far, descriptors and buffers | one run: read limits, check the range, scan a grid of (lane, timing, voltage) points, write a report | the eye monitors and the link through `uic_get`/`uic_set`, a file it writes and reads to load the link, the report file |
| **ufseom, the command line** (116-132, 178-194, 443-604, 655-667) | the same globals | the getopt loop, the defaults, the checks | hands the scan its options |
| **Eye monitors and link** (hardware) | registers and counters of each monitor; power mode change (PMC) in progress, adapt type | written and read as attributes; a PMC applies the adapt type and starts the enabled monitors | run concurrently with the program |
| **lsufs** (`lsufs.c`, parts of `uic.c`, `query.c`) | `lsufs_op` | reads its command line twice: getopt fills in the operation, then the shell finds the command to run | shell, operations |
| **shell** (`shell.c`) | the words of the command line, a table of commands | split, look up, run | lsufs |
| **UIC and query operations** (`uic.c`, `query.c`) | an open bsg device, a request, a reply | open, send, interpret the reply, print, close | bsg transport |
| **bsg transport** (`ufs_bsg.c`) | none | one SG_IO ioctl | kernel, device |
| **Common helpers** (`common.c`) | none | read numbers and paths, look up names, dump bytes | all programs |
| **Descriptor translation** (`query_trans.c`) | none | print the fields of the device descriptor that were received | query operations |
| **ufs-eom.py** | options, the limits as they were read, the report file | the same scan from a host, one `lsufs` process per attribute | lsufs over adb, through it the monitors |
| **ufs-eom-plot.py** | points read from a report, per lane | fill the grid, find the centre of the eye, judge the mask around it | the reports of ufseom and, as README.md says, of ufs-eom.py |

What is hard here:

* **Concurrency with the hardware.** The program sets up a measurement with six
  writes, the last of which starts it, and then polls three attributes one after
  the other while the monitor goes on. START = 0 means "stopped" and also "not
  started yet", and counters survive from the point before.
* **Failure.** Every attribute access is an ioctl that may fail, with or without
  effect. A failed run leaves a monitor enabled, and the next run starts from there.
* **Unbounded polling**, in two places, without a timeout.
* **Sizes and boundaries.** The buffer of rows is sized by one formula and filled
  by three loops; numbers change width on the way to the device; 255 and -1 stand
  for "not given"; a return code and a value share an int.
* **Calls whose outcome nobody looks at.** A write of ufs-eom.py may be lost without
  a trace; a read may give nothing, and then a point is left out of the report.
* **Partial reports.** The plot is judged on a grid in which points that were not
  measured are filled up with a count that stands for none.
* **Long command lines in any order**, read by two parsers that must agree.

What makes each part correct is stated as properties in section 4; the full list
of hazards, each with its line, is in `PROJECT.json`.

## 2. Modules

| Module | What it is |
|---|---|
| `Common` | return codes, the two sides, reading a number or a path |
| `EomSteps` | arithmetic of a scan: step registers, ranges, order of the grid |
| `EyeMonitor` | the hardware: one monitor per side and lane, and the link (external) |
| `Ufseom` | ufseom after its command line, composed with `EyeMonitor` |
| `EomSweep` | abstract specification of a run |
| `UfseomProps` | the properties of `Ufseom`, and its refinement of `EomSweep` |
| `UfseomCli` | the command line of ufseom |
| `LsufsTypes` | operations of lsufs and the requests they become |
| `LsufsCli` | the command line of lsufs, with the shell |
| `DescTranslate` | what lsufs shows of a descriptor |
| `LsufsIo` | an operation of lsufs against the kernel and the device, composed with `DescTranslate` |
| `EomPy` | ufs-eom.py, composed with `EyeMonitor`, its properties and its refinement of `BestEffortSweep` |
| `BestEffortSweep` | abstract specification of a scan that may leave points out |
| `EomReports` | report files as lines, as ufseom and as ufs-eom.py write them |
| `EomPlot` | ufs-eom-plot.py and its properties |
| `EyeMonitor_proofs` | lemmas on steps, grids and what the hardware may do to a monitor, for both scans |
| `Ufseom_proofs`, `UfseomOutcome_proofs` | theorems about a run of ufseom: its buffer and its report; what it releases, its refinement, its measurements |
| `UfseomCli_proofs`, `LsufsCli_proofs`, `LsufsIo_proofs`, `EomPy_proofs`, `EomPlot_proofs` | theorems about the module each is named after |
| `MC*` | small instances for TLC |

Definitions whose names end in `Slip` are faulty variants of the definition that
follows them. Nothing in the specifications uses them; substituted for the right
definition they show that a property can fail.

### Ufseom and the code

`pc` is the place in `main`, `config_eom` or `eom_scan`; there is one action per
call that can fail or that the hardware can overlap with:

| Code | Action |
|---|---|
| 683-687 | `OpenBsg` |
| 689-729 capability, gear, rate | `CheckSupport` |
| 731-749 | `PrepareIo` |
| 761-799 | `ReadLimits` |
| 606-653, 807-813 | `CheckRange`, which also overwrites the bounds not given |
| 819-827 | `AllocResults` |
| 246-287, one step per attribute in the order of `ConfigOrder` | `ConfigWrite` |
| 289-298, 300-302 | `PollUnipro`, `Delay` |
| 337-356 | `DoIo` |
| 360-368, 371-375, 378-405 | `GetStart`, `GetTested`, `GetErrors` with `LogRow` and `NextPoint` |
| 846-852 | `DisableMonitor` |
| 408-441, 857-859 | `GenerateReport` |
| `out`, `close_tmp`, `close_bsg` | `FreeBuffers`, `CloseTmp`, `CloseBsg` |

`opt` are the globals of lines 68-77, `cur` the loop variables, `er` the filled
part of `data->er` (so `data_cnt` is its length), `held` what has been obtained
and not given back. Several attribute reads in a row whose results only decide
whether to go on are one action (`CheckSupport`, `ReadLimits`): nothing the
hardware does between them changes their answers.

A call may fail when `Faults`; every call on a lane that is not connected fails.
A write that is reported as failed may have reached the monitor.

`EyeMonitor` says only what the program relies on. A PMC that ends starts every
enabled monitor with the registers it has then, at once (`StartWithPmc`) or a
little later (`armed`); a running monitor counts tests and errors and stops by
itself at its target or at the error threshold. Whether enabling also clears a
monitor (`ClearOnEnable`) is a constant, because the program does not say on
which of the two it relies: it needs at least one, and the runs cover each. With
neither, and with counters left of the point before, START = 0 cannot be told
from "not started yet" and a row could be logged twice; that combination is
outside what the program can see. `DelayCoversPmc` says that 200 ms are enough
for a PMC, on which a host without a readable UniPro state relies.

### The command lines

An argument is abstracted to what `strtol` and `atoi` make of it. In `UfseomCli`
each turn of the getopt loop is a step; the result, `Accepted`, is shown to be in
`AcceptedOptions`, which is what `Ufseom` assumes of its options. `LsufsCli` does
the same for both operations of lsufs and adds the second reading by the shell,
of which the number of words and the command matter; its result is shown to be
`WellFormed`, which is what `LsufsIo` assumes.

The words are those of `strtok`, not those of `main`: `shell_process_cmd_line_args`
joins `argv` with spaces and splits the result at every space. A path with spaces is
any number of words up to `MaxPieces` (`PiecesOfPath`), and so is a number that atoi
stopped reading (`PiecesOf`); an option and its argument are two words, one
(`--id=0xa5`), or part of a word before them (`AddWords`); a word that is no option is
skipped by getopt and counted by the shell (`OtherWord`). A single word that begins
with a space and goes on with -h is no help for `parse_args`, but is for the shell:
that one is left out.

### LsufsIo

`Open`, `Ioctl`, the evaluation of the reply, the report, `Close`. The device
takes or refuses a request and answers with any of `Values`; the kernel may fail
with or without the request having been carried out. Field widths are those of
the request: 16 bits for an attribute and its selector, 8 bits for an IDN, an
index and a selector. Values of 32 and 64 bits are written as signed numbers.

Of a descriptor only the length received and `bLength` decide what is shown.
`DescTranslate` has the field table of `query.h` with the first letter of each name,
from which `field_name_to_size` takes the size, and `FieldsShown` is the loop of
`ufs_desc_translate` with its `break` at the first field that does not fit.
`QueryText` prints by `DescriptorText`. The length is what the reply gives in 16 bits,
as `send_query_command` takes it (249); the dump goes as far as that says, so it is
its length that the text keeps. A dump beyond the 256 bytes of `buf` reads the memory
behind it, which the code does not define: it is printed whatever it holds, or the
program dies (`Crash`).

The opcode is looked at by three switches, which are three definitions: `OpenedToRead`
(421-430, and the mode in `uic.c` 303) for the flag of open, `SentAsRead` (222-233) for
the function code and the direction, `Handler` (440-462) for the function that sends
the request and prints the answer. That they agree is `WritesAreMeant`, stated of the
request that reaches the device: `Changes` says by itself which of them change
something.

### EomPy and the code

| Code | Action |
|---|---|
| 44-68 | `GetDeviceInfo` |
| 70-80, 92-100 | `GetEomCaps`, `DetermineVoltage` |
| 209 | `EnableLane` |
| 261-273, one step per attribute | `ConfigWrite` |
| 243, 248, 249-259 | `GetStart`, `GetTested`, `GetErrors` with `PrintRow`, `SkipPoint` and `NextPoint` |
| 219 | `DisableLane` |
| 221-226 | `Finish` |

`uic_set` runs a process and looks at nothing of it, so `Set` has its effect or,
when the call fails, none, and goes on either way. `uic_get` has three outcomes: the
value; `None`, when lsufs failed and adb keeps its exit status to itself; or an
exception, which ends the script (`died`). Which of the last two is a property of
the adb at hand (`adb.status`), and so is whether a round trip takes longer than a
power mode change (`adb.slow`). A `None` for the limits is an exception later, in
`determine_voltage` or in `range`, after the monitor of the lane was enabled: `LoopsRun`.
A lane number beyond 1 is reported and used all the same (82-90).

`skipped`, `failures` and `lost` exist for the properties alone. `failures` counts
at most one per action; the two limits are read by one action.

### EomPlot and EomReports

A report is a sequence of lines, each reduced to what open_file takes from it. One
action per kind of line, `EndOfFile` for 168-173, `FillGrid` for 178-203, and
`PlotLane` for one turn of the loop at 237-243: `validate_data`, `find_eye_width_boundary`
in both directions (`Boundary`), `calculate_eye_width_center` (`EyeCenter`),
`in_eye_mask` and the verdict of `plot_eye`. An exception inside the `try` at 141 is a
bad row; any other ends the script. Times and voltages are integers in the units the script
rounds to, 0.0001 UI and 0.01 mV. `EomReports` gives the lines that ufseom (426-435)
and ufs-eom.py write; `lane_list` is kept in the order of first rows.

## 3. What is assumed

* Fairness (`Fairness` in `Ufseom`): the program is scheduled; a PMC that was
  asked for ends; a monitor that was triggered starts; a running monitor goes on
  counting. Each is weak fairness: none of these can be disabled by another
  process for ever, and the loops at 290 and 337 rely on exactly these. A step of a
  busy loop is the loop's last turn, or a whole turn that reads the monitor.
* The safety properties and the theorems do not use fairness.
* For ufs-eom.py the same: `Script` is scheduled, the hardware goes on. Nothing is
  assumed of adb: `EndsUnlessWriteLost` allows every loss up to `MaxLoss`, and a
  fair script in the polling loop does read the monitor again. After the last loss a
  monitor that has stopped is seen to have stopped.
* `uic_set` and `check_path` hand their command to `subprocess.run` as one string,
  which starts a program with arguments on Windows only; the model is of such a
  host.
* `TranslatesDevice` says whether the lsufs on the device prints the device
  descriptor by field names. The lsufs of this repository does, and then
  ufs-eom.py does not get to the scan (finding 4). Its scan is checked with an
  lsufs that dumps the bytes, which is the format the script was written for.
* One program at a time talks to the device.

## 4. Runs

| Run | Shows | Bounds and why they are enough |
|---|---|---|
| `sweep` | `RefinesSweep`: the run implements the abstract sweep, with progress; `RowsAreMeasured` and `Termination` with monitors that start late, no UniPro state and a delay that may be too short | both sides; two lanes with I/O, one lane with bounds left to a device with limit 1; gears and capability that refuse; error threshold 2 and target 2, so that a measurement ends in each of its ways and a count can be one short |
| `faults` | all safety properties, `RowsAreMeasured`, `StepsRefineSweep`, `Termination`, when any call may fail and monitors were left enabled | two voltages on each of two lanes, and a 2x2 grid on one lane: enough for the next voltage, the next timing, the next lane and a failure at each point of each; bounds inside, outside, left out and reversed |
| `onelane` | finding 2 | smallest instance |
| `cli_parse` | `AcceptedWellFormed`, `LastGivenWins` | five options: the three required and two more, which cover repetition and order; arguments on both sides of every comparison |
| `cli_side` | finding 1 | smallest instance |
| `lsufs_cli` | `RunsOnlyComplete`, `RunsWhatWasGiven`, `OnlySpareWordsDropped` | 15 words, at which the shell gives up, and options up to one beyond (`MaxWords`); a path or an argument of up to three words (`MaxPieces`), which are enough to reach 15 with no option repeated; opcodes at the edge of the range |
| `lsufs_io` | `SuccessWentThrough`, `UicOutcomeHonest`, `DescriptorShown`, `WritesAreMeant` | every mode, side, direction and opcode; answers with the bits of INIT and ERROR; descriptors that end before, inside and behind each kind of field, by their own account or by the reply, and replies longer than the buffer, of 257 and of 65535; an IDN with a translation, one without and one of more than 8 bits |
| `lsufs_refusal` | finding 3 | smallest instance |
| `py` | `CompleteUnlessFailed`, `MonitorsReleased`, `RowsAreMeasured`, `EndsUnlessWriteLost`, `StepsRefineBestEffort` | all four kinds of adb; both lanes at one voltage, one lane at all of them, a lane that does not exist; up to two failed calls (`MaxLoss`): one that is not noticed and one while its consequence lasts; a monitor left enabled |
| `py_device` | finding 4 | one point, no call that fails |
| `plot` | `VerdictHonest`, `CentreRight`, `ReadsUfseomReports` | two timing steps to each side, one voltage step: the eye can end inside the grid, at its edge and in the middle; every pattern of errors on the middle voltage, with and without errors inside the mask; partial scans; both gears, whose masks differ at this step size; reports of two lanes; missing, empty and repeated lines |
| `plot_py` | finding 5 | reports of all eyes of the two-lane instances |

The properties that matter most:

* `RowsAreMeasured`: a row that is logged is of a measurement of that very point,
  started by this run with its timing, its voltage and NO_ADAPT in force, and
  finished; its count is the final count. This is the property of the whole
  protocol with the hardware.
* `RefinesSweep`: rows appear in grid order, each once, and either all of them are
  published or none. In the runs with faults the steps alone are shown
  (`StepsRefineSweep`).
* `RowsAreMeasured` of `EomPy`: what `RowsAreMeasured` says for ufseom, which waits
  for the end of a power mode change and looks at what its writes return, holds of
  the script as long as no call has failed. After a failure it needs a slow adb: with a fast
  one the change of a point left out may still be to come when the next is set up.
* `EndsUnlessWriteLost`: the polling loop of the script has no bound, and it hangs
  in one case only, a write of the point at hand that was lost.
* `VerdictHonest` and `CentreRight`: PASS or FAIL is said of a mask measured in
  full, and the mask stands in the middle of the eye, for whole reports and partial
  ones. A verdict is withheld for a point that was not measured, in this lane or, because the flag
  is never reset, in one plotted before.
* `ResultsInBounds` with `ScanProgress`: the store at 392-396 is inside the buffer,
  although the count is compared afterwards.
* `WritesAreMeant`: an operation that reads is sent through a device open for reading, with
  the function code and direction of a read, and its answer is printed; one that
  changes something through a device open for writing, as a write, and is said to be
  done. Three switches on the opcode have to say so.
* `OnlySpareWordsDropped`: the shell drops a command line of 15 words after parse_args
  accepted it. There is room for every option of a command once, so a command line that
  is dropped has at least two words more than one for each option given and one for its
  argument: options repeated, spaces in arguments, words that are no options.
* `UicOutcomeHonest`: success is said of a uic operation only if the device
  carried it out, and failure only if it may not have, except for the one value
  whose bits are those of ERROR.

### Findings

1. A command line with neither `-p` nor `-l` is accepted (571): the field is
   never set to INIT, so "Local or peer is not given" is never printed.
2. Without `-L` two lanes are scanned whatever is connected (578); on a device
   with one lane the run fails and loses the rows of lane 0, where the help
   promises "all connected lanes".
3. The response code of a query is cut off before it is compared (`query.c` 243),
   so a refused query is reported as successful.
4. ufs-eom.py looks for "Offset 0x14 : 0x" in what lsufs prints of the device
   descriptor (53); lsufs prints that descriptor translated (`query.c` 282-284), so
   the script dies before the scan, where README.md promises a report.
5. ufs-eom.py writes no line with the gear, from which ufs-eom-plot.py takes the gear
   of every row (148): all rows are bad and nothing is plotted, where README.md says
   that such a report can be fed into ufs-eom-plot.py.

More observations have no run of their own. "EOM results saved to" is printed,
and 0 returned, without looking at what `fprintf` and `fclose` return (`ufs_eom.c` 433-438); the
constant `DiskMayFill` models it; it is FALSE in the runs, and `ReportComplete` covers
both its values. An IDN, index or selector above 255 is sent modulo 256 and printed
whole (`query.c` 202, 332). A command
line accepted by parse_args is dropped without a message if the shell counts 15 words
(`shell.c` 233), which a path with two spaces is enough for on a line with all options of
uic; then -1 is returned. The length of a descriptor is taken from the reply without
a comparison with the buffer (`query.c` 249).

## 5. What is proved

Every safety property of the passing runs, action properties and the steps of both
refinements included, is a theorem: it holds for every value of the constants, not only for
the instances of section 4. All theorems have the form `Spec => []P` or, for an
action property or the steps of a refinement, `Spec => P`; where a hypothesis
stands in front of that it is named here.

| Module | Theorem | States | Hypothesis |
|---|---|---|---|
| `EyeMonitor_proofs` | `StepRoundTrip` | a step of -63 to 63 is recovered from its register | |
| `Ufseom_proofs` | `TypeCorrect` | `TypeOK` | |
| | `NoOverflow` | `ResultsInBounds` | |
| | `RowsFollowGrid` | `ScanProgress` | |
| | `ReportComplete` | `SuccessMeansComplete` | |
| | `ReportsReadable` | a saved report is of a gear of 4 or more and has at most one row for each point, of lanes 0 and 1 only | |
| `UfseomOutcome_proofs` | `EverythingReleased` | `NoLeak` | |
| | `LanesReleased` | `MonitorsReleased` | |
| | `SweepImplemented` | `StepsRefineSweep` | `~DiskMayFill` |
| | `RowsMeasured` | `RowsAreMeasured` | `HardwareRestarts`, `StepsFit` |
| `UfseomCli_proofs` | `OptionsWellFormed` | `AcceptedWellFormed` | |
| | `LastOptionWins` | `LastGivenWins` | |
| `LsufsCli_proofs` | `OperationComplete` | `RunsOnlyComplete` | |
| | `LastOptionRuns` | `RunsWhatWasGiven` | |
| | `ShellDropsOnlySpareWords` | `OnlySpareWordsDropped` | |
| `LsufsIo_proofs` | `SuccessIsReal` | `SuccessWentThrough` | |
| | `UicHonest` | `UicOutcomeHonest` | |
| | `IoTypeCorrect` | `TypeOK` | |
| | `WritesMeant` | `WritesAreMeant` | |
| | `DescriptorRight` | `DescriptorShown` | |
| `EomPy_proofs` | `TypeCorrect` | `TypeOK` | |
| | `ReportCompleteUnlessFailed` | `CompleteUnlessFailed` | `~TranslatesDevice` |
| | `LanesReleased` | `MonitorsReleased` | |
| | `BestEffortImplemented` | `StepsRefineBestEffort` | |
| | `RowsMeasured` | `RowsAreMeasured` | `ClearOnEnable`, `StepsFit` |
| `EomPlot_proofs` | `TypeCorrect` | `TypeOK` | |
| | `VerdictsRight` | `VerdictHonest` | `CountsTell` |
| | `CentreFound` | `CentreRight` | `CountsTell` |
| | `ReportsPlotted` | `ReadsUfseomReports` | |

### Assumptions and hypotheses

The modules state what their constants are: the lanes are 0 and perhaps 1 and the
thresholds are positive (`MonitorAssumption`); the options of a scan are among
those its command line accepts (`UfseomAssumption`, `EomPyAssumption`), which
`OptionsWellFormed` proves of ufseom; operations of lsufs are well formed
(`IoAssumption`), which `OperationComplete` proves of its command line; arguments are
records of what strtol sees (`CliAssumption`); and a file is any sequence of lines, a
report of ufseom one that `UfseomReport` gives, with one row for each point
(`PlotAssumption`; that ufseom writes no other is `ReportsReadable`, but for the step
counts and offsets other than 0, which are the device's).

The hypotheses in the table are needed, and say on what the programs rely:

* `~DiskMayFill`: the report reaches the disk. Nobody looks whether it does (433-438), and a
  report cut short implements no sweep that publishes all or nothing.
* `HardwareRestarts == ClearOnEnable \/ (StartWithPmc /\ DelayCoversPmc)`: a monitor
  that is enabled anew is cleared, or starts with the power mode change that the
  program waits for. With neither the counters of the point before pass for those of
  this one. ufs-eom.py waits for nothing, so it needs the first of the two.
* `StepsFit`: the device has no more than 63 steps to each side. The register has six bits
  for a step (317); with more, two points of the grid are the same to the monitor.
* `~TranslatesDevice`: an lsufs that dumps the device descriptor. With the one of
  this repository the script dies before the scan (finding 4).
* `CountsTell`: no row has 999 errors, the count that ufs-eom-plot.py keeps for points
  without a measurement (24) and takes a point with it for one of them. The colours of
  the plot end at 64 (390). `TypeCorrect` and `ReportsPlotted` do without.

### The arguments

**The buffer and the report of ufseom.** None of the invariants of `Ufseom` is
inductive as it stands. That a row fits needs the size of the buffer, which was
computed from bounds that have since been fixed, and the place of the cursor in the
grid, which changes in three nested loops. The inductive invariant is

    IInv == TypeOK /\ SizeInv /\ ScanProgress /\ OutcomeInv

`SizeInv` ties the size of the buffer to the options once they have passed
`RangeOK`, `ScanProgress` ties the number of rows to the cursor through
`GridIndex`, and `OutcomeInv` ties the return code to the report along the way.
The arithmetic is in the lemmas of `EyeMonitor_proofs`: the index of the next
point is one more in each of the three ways to advance (`GridNextVolt`,
`GridNextTiming`, `GridNextLane`), and a point of the grid has an index below
the result count (`GridBound`). These rest on monotonicity of products, which
is kept apart from the other steps because the products are not linear.

**What ufseom releases.** `NoLeak` rests on an invariant of its own, `HeldInv`, which
says for each label what is held there. `MonitorsReleased` rests on `IInv` and on
`ReleaseInv`: within a lane only the monitor at hand is written to
(`ConfigKeepsOthers`), the hardware enables and disables nothing
(`HardwareKeepsEnable`), and the step from one lane to the next, or to the report,
disables the lane it leaves (`ReleaseDisable`); that the lanes are all behind when the
report is begun is the sum of `cur.l` and `cur.n` in `ScanProgress`.

**The sweep.** `SweepImplemented` maps each action to a step of `EomSweep` or to a
stutter. `SweepInv` has what the abstraction reads and the code has since
forgotten: the bounds are settled from the sanity check on, the monitors' errors stay
within what a measurement can stop with, and nothing is in the report before it is
written. A point logged is the abstract step because by `IInv` the number of rows is
the index of the point.

**Measurements.** A row says what two registers and three reads, at five different
moments, had to do with each other while the monitor went on. `RowsInv` follows one
point through them: which of its six attributes are written (`PointConfigured`), that the
link is quiet until the last of them asks for a power mode change (`LinkQuiet`), and that
what the monitor has counted is of this point or nothing (`PointMeasured`): after
START was read as 0 or the target was reached it is the end of a measurement. Every step
of the hardware keeps this; it is one invariant for all interleavings. For the script
the same holds only while the state is `Sound`: `Settled` is what the slow adb or the
absence of failures gives, and a write that was lost at this point, `lost = "now"`,
takes it away up to the next one.

**The rest of ufs-eom.py.** `PyInv` counts the points behind (`PassedSoFar`), written
down or left out, against the index of the point at hand; the row order and the
reasons for an early end go with it. `BestEffortImplemented` is the same mapping as that of
ufseom, to a sweep that may leave points out.

**The command lines.** Both `CliInv` say that the parameters are at each moment those of the
options read so far, each at the last value it was given or at its default, and that the
option of a group that counts is the last of them; what the checks at the end let through
is then what they name. What the shell drops is a matter of counting
words: the options given are among those of the command (`OwnOptions`), which take
13 words at most (`FewWords`), one for each and one for its argument, and the array is
full at 15.

**The operations of lsufs.** Two properties speak only of the end, and the invariant
`IoInv` leads there: what the ioctl did to the device (`Went`) is carried through the
evaluation of the reply to the return code and the text (`Outcome`), which closing
the device leaves alone. `OpenInv` adds how the device is open at each label, and that
an opcode without a function does not get as far as the ioctl; with that
`SwitchesAgree` goes through the opcodes, switch by switch. For
descriptors `TextInv` carries the reply to the text; that the loop over the fields stops
where the data end rests on the order of the field table (`FieldsOrdered`), 44 entries
that are compared with each other one by one.

**The plot.** The inductive invariant is

    PlotInv == PlotTypeOK /\ RowsKept /\ WholeFile /\ GridKnown /\ LanesPlotted

`RowsKept` says that the data are those of the lines read so far, of several rows for a
point the last (`LastSays`), unless a row was bad; `GridKnown` turns this, once the grid is filled, into
the counts that the properties speak of; `LanesPlotted` has what became of each lane. The search for
the eye (`BoundaryOf`) gives the number of free points to each side, from which
`EyeShape` has the eye as an interval and its rim, and `CentreOfLane` the balance of the
points to its left and right. `MaskHasCentre` shows that no mask is empty, so that a
verdict is not missing for that reason. `ReportsPlotted` adds `UfseomTaken`: the head of a
report puts gear and limits in front of the rows, so none of the ways out is taken.

### Only model-checked

`Termination`, `RefinesSweep` and `EndsUnlessWriteLost`: liveness under fairness is out of
the prover's reach. Of `RefinesSweep` the steps are proved (`SweepImplemented`). The five
findings are runs that TLC finds violated.

## 6. What is not modelled

* The texts of `translate_extended_ufs_features` (`query_trans.c` 104-165), name tables,
  layout of printed lines: wording.
* The options of ufs-eom.py: `PyOptions` are those its checks (155-188) let through.
* The drawing of ufs-eom-plot.py but for the verdict; the value open_file returns,
  which nothing uses.
* The interactive loop of the shell: `argc >= 1` always holds at `lsufs.c` 191.
* The 256 bytes of `shell_cmd_buff` (`shell.c` 284-290): words are counted, not
  bytes.
* Title lines of a report with fewer words than ufs-eom-plot.py takes from them (122-132):
  an IndexError ends the script there. ufseom writes one only for a device with an empty
  name (`ufs_eom.c` 427); `ReadsUfseomReports` is about reports of devices with names.
* Python's rounding of ties: `RoundedDiv` rounds them up, `round` on floats to the even
  number or wherever the float falls.
* The width of the product in `ufs_eom.c` 819: `ResultCount` is exact. The steps of a
  monitor have six bits, so the number of points is far below 2^31.
* The reads of the offsets in `get_eom_caps` (72-80): a failed one ends the script as that of
  a limit does, or is printed as None.
* What verbose output says, the device names in a report, the random pattern.
* Differences between the limits of the two lanes: the program reads one.

## 7. Plan

Done: the core (`Ufseom` with its hardware, abstraction and first theorems), the
two command lines, the operations of lsufs with what they show of a descriptor, the two
scripts, and theorems about each of them.

Every safety property that a passing run checks is proved. Left, in this order: the
safety half of `RefinesSweep` with the disk that fills up, as a refinement of a sweep
that may publish a beginning; the composition of the command lines with the programs
they start as one theorem each (`OptionsWellFormed` with the theorems of `Ufseom_proofs`,
`OperationComplete` with those of `LsufsIo_proofs`, `ReportsReadable` with those of
`EomPlot_proofs`).
