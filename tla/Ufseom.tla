------------------------------- MODULE Ufseom -------------------------------
(***************************************************************************)
(* The program ufseom after its command line is parsed: main, eom_scan,    *)
(* config_eom and generate_eom_report of ufs_eom.c, running against the    *)
(* eye monitors.  One action per call that can fail or that the hardware   *)
(* can overlap with; the label of pc names what the program does next.     *)
(* A definition whose name ends in Slip is the one after it with a slip of *)
(* the kind the properties are there to catch; nothing uses it.            *)
(***************************************************************************)
EXTENDS EyeMonitor, Sequences

CONSTANTS
    Options,            \* the options parse_args may have accepted
    Caps,               \* what the monitors may report of themselves
    Faults,             \* TRUE: any call into the kernel may fail
    UniproSupported,    \* QCOM_DME_VS_UNIPRO_STATE can be read
    DelayCoversPmc,     \* 200 ms is long enough for a power mode change
    DiskMayFill         \* the report file may end up shorter than what was printed to it

CapsRecords ==
    [eom : BOOLEAN, gear : Nat, timing_max_steps : Nat, voltage_max_steps : Nat]

ASSUME UfseomAssumption ==
    /\ Options \subseteq AcceptedOptions
    /\ Caps \subseteq CapsRecords
    /\ \A b \in {Faults, UniproSupported, DelayCoversPmc, DiskMayFill} : b \in BOOLEAN

VARIABLES
    pc,                 \* what the program does next
    opt,                \* the global EOM control parameters
    caps,               \* the limits and the gear main reads
    cur,                \* l, t, v and n of the main loop
    cfg,                \* the next attribute config_eom writes
    tested,             \* eom_tested_count
    er,                 \* data->er, of which data_cnt entries are filled
    eom_result_count,   \* the number of entries data->er has room for
    ret,                \* the value main returns
    held,               \* what main has to give back before it returns
    report              \* the report file

progVars == <<pc, opt, caps, cur, cfg, tested, er, eom_result_count, ret, held, report>>
vars == <<progVars, mon, link>>

Labels == {"open", "support", "prepare", "limits", "range", "alloc", "config", "poll",
           "delay", "io", "start", "tested", "errors", "disable", "report", "out",
           "close_tmp", "close_bsg", "done"}

\* The labels between the allocation of data->er and the end of the main loop.
Scanning == {"config", "poll", "delay", "io", "start", "tested", "errors", "disable"}

Rows == [lane : Nat, timing : Int, volt : Int, error_cnt : Nat]
Cursors == [l : Nat, t : Int, v : Int, n : Nat]
Reports == [saved : BOOLEAN, rows : Seq(Rows)]

TypeOK ==
    /\ MonitorTypeOK
    /\ pc \in Labels
    /\ opt \in AcceptedOptions
    /\ caps \in CapsRecords
    /\ cur \in Cursors
    /\ cfg \in 1 .. 6
    /\ tested \in Nat
    /\ er \in Seq(Rows)
    /\ eom_result_count \in Int
    /\ ret \in {SUCCESS, ERROR}
    /\ held \subseteq {"bsg", "tmp", "buf", "er"}
    /\ report \in Reports

Init ==
    /\ MonitorInit
    /\ pc = "open"
    /\ opt \in Options
    /\ caps \in Caps
    /\ cur = [l |-> 0, t |-> 0, v |-> 0, n |-> 0]
    /\ cfg = 1
    /\ tested = 0
    /\ er = <<>>
    /\ eom_result_count = 0
    /\ ret = SUCCESS
    /\ held = {}
    /\ report = [saved |-> FALSE, rows |-> <<>>]

-----------------------------------------------------------------------------
\* uic_get and uic_set on an attribute of a lane: an absent lane answers with a
\* config result code, and any call may fail when there are faults.
Answers(l) == l \in Connected
MayFail(l) == Faults \/ l \notin Connected

Goto(label) == pc' = label

FailSlip(label) == UNCHANGED ret /\ Goto(label)       \* ret not set

\* A failed step sets ret and jumps to the label that undoes what was done.
Fail(label) == ret' = ERROR /\ Goto(label)

\* The monitor of the side under test on the lane of the main loop.
Mon == <<opt.local_peer, cur.l>>

OpenBsg ==
    /\ pc = "open"
    /\ \/ Goto("support") /\ held' = {"bsg"} /\ UNCHANGED ret
       \/ Faults /\ Fail("done") /\ UNCHANGED held
    /\ UNCHANGED <<opt, caps, cur, cfg, tested, er, eom_result_count, report, mon, link>>

\* The capability of the first lane, the gear and the rate.
Supported == caps.eom /\ caps.gear >= EOM_SUPPORTED_MIN_GEAR

CheckSupport ==
    /\ pc = "support"
    /\ \/ Answers(opt.lane) /\ Supported /\ Goto("prepare") /\ UNCHANGED ret
       \/ (MayFail(opt.lane) \/ ~Supported) /\ Fail("close_bsg")
    /\ UNCHANGED <<opt, caps, cur, cfg, tested, er, eom_result_count, held, report, mon, link>>

\* Open the temporary file and allocate the I/O buffer, if I/O was asked for.
PrepareIo ==
    /\ pc = "prepare"
    /\ \/ ~opt.do_io /\ Goto("limits") /\ UNCHANGED <<held, ret>>
       \/ opt.do_io /\ Goto("limits") /\ held' = held \cup {"tmp", "buf"} /\ UNCHANGED ret
       \/ opt.do_io /\ Faults /\ Fail("close_bsg") /\ UNCHANGED held
       \/ opt.do_io /\ Faults /\ Fail("close_tmp") /\ held' = held \cup {"tmp"}
    /\ UNCHANGED <<opt, caps, cur, cfg, tested, er, eom_result_count, report, mon, link>>

ReadLimits ==
    /\ pc = "limits"
    /\ \/ Answers(opt.lane) /\ Goto("range") /\ UNCHANGED ret
       \/ MayFail(opt.lane) /\ Fail("out")
    /\ UNCHANGED <<opt, caps, cur, cfg, tested, er, eom_result_count, held, report, mon, link>>

\* timing_voltage_sanity_check overwrites the bounds that were not given.
CheckRange ==
    /\ pc = "range"
    /\ opt' = Resolve(opt, caps)
    /\ IF RangeOK(opt', caps) THEN Goto("alloc") /\ UNCHANGED ret ELSE Fail("out")
    /\ UNCHANGED <<caps, cur, cfg, tested, er, eom_result_count, held, report, mon, link>>

AllocResults ==
    /\ pc = "alloc"
    /\ eom_result_count' = ResultCount(opt)
    /\ \/ /\ held' = held \cup {"er"}
          /\ cur' = [l |-> opt.lane, t |-> opt.timing_left, v |-> opt.voltage_low,
                     n |-> opt.num_lanes]
          /\ cfg' = 1
          /\ Goto("config")
          /\ UNCHANGED ret
       \/ Faults /\ Fail("out") /\ UNCHANGED <<held, cur, cfg>>
    /\ UNCHANGED <<opt, caps, tested, er, report, mon, link>>

-----------------------------------------------------------------------------
ConfigOrderSlip ==      \* the PMC before NO_ADAPT is selected
    <<"enable", "timing", "voltage", "target", "pwrmode", "adapt_type">>

\* config_eom: the attributes in the order they are written.  The last two are
\* of the local link whatever side is measured.
ConfigOrder == <<"enable", "timing", "voltage", "target", "adapt_type", "pwrmode">>

ConfigValue(attr) ==
    [enable |-> 1, timing |-> StepConfig(cur.t), voltage |-> StepConfig(cur.v),
     target |-> opt.target_test_count][attr]

ConfigEffect(attr) ==
    \/ /\ attr = "adapt_type"
       /\ link' = [link EXCEPT !.adapt_type = "NO_ADAPT"]
       /\ UNCHANGED mon
    \/ /\ attr = "pwrmode"
       /\ link' = [link EXCEPT !.pmc = "busy"]
       /\ UNCHANGED mon
    \/ /\ attr \in {"enable", "timing", "voltage", "target"}
       /\ mon' = [mon EXCEPT ![Mon] = Written(@, attr, ConfigValue(attr))]
       /\ UNCHANGED link

\* The lane that has to answer for the attribute to be written.
ConfigLane(attr) == IF attr \in {"adapt_type", "pwrmode"} THEN 0 ELSE cur.l

\* A write that is reported as failed may have reached the monitor.
ConfigWrite ==
    /\ pc = "config"
    /\ LET attr == ConfigOrder[cfg]
           last == cfg = Len(ConfigOrder)
       IN  \/ /\ Answers(ConfigLane(attr))
              /\ ConfigEffect(attr)
              /\ cfg' = IF last THEN 1 ELSE cfg + 1
              /\ Goto(IF last THEN "poll" ELSE "config")
              /\ UNCHANGED ret
           \/ /\ MayFail(ConfigLane(attr))
              /\ \/ Answers(ConfigLane(attr)) /\ ConfigEffect(attr)
                 \/ UNCHANGED <<mon, link>>
              /\ Fail("out")
              /\ UNCHANGED cfg
    /\ UNCHANGED <<opt, caps, cur, tested, er, eom_result_count, held, report>>

\* Busy polling: the step waits for the state the loop waits for.
PollUnipro ==
    /\ pc = "poll"
    /\ \/ UniproSupported /\ link.pmc = "up" /\ Goto("io")
       \/ (~UniproSupported \/ Faults) /\ Goto("delay")
    /\ UNCHANGED <<opt, caps, cur, cfg, tested, er, eom_result_count, ret, held, report, mon, link>>

Delay ==
    /\ pc = "delay"
    /\ DelayCoversPmc => link.pmc = "up"
    /\ Goto("io")
    /\ UNCHANGED <<opt, caps, cur, cfg, tested, er, eom_result_count, ret, held, report, mon, link>>

-----------------------------------------------------------------------------
\* eom_scan from the label repeat_eom_scan on.
DoIo ==
    /\ pc = "io"
    /\ \/ Goto("start") /\ UNCHANGED ret
       \/ opt.do_io /\ Faults /\ Fail("out")
    /\ UNCHANGED <<opt, caps, cur, cfg, tested, er, eom_result_count, held, report, mon, link>>

GetStart ==
    /\ pc = "start"
    /\ \/ /\ Answers(cur.l)
          /\ Goto(IF mon[Mon].start THEN "io" ELSE "tested")
          /\ UNCHANGED ret
       \/ MayFail(cur.l) /\ Fail("out")
    /\ UNCHANGED <<opt, caps, cur, cfg, tested, er, eom_result_count, held, report, mon, link>>

GetTested ==
    /\ pc = "tested"
    /\ \/ /\ Answers(cur.l)
          /\ tested' = mon[Mon].tested
          /\ Goto("errors")
          /\ UNCHANGED ret
       \/ MayFail(cur.l) /\ Fail("out") /\ UNCHANGED tested
    /\ UNCHANGED <<opt, caps, cur, cfg, er, eom_result_count, held, report, mon, link>>

EomStoppedSlip(tested_count, error_count) ==            \* the error threshold left out
    tested_count >= opt.target_test_count

EomStoppedEarlySlip(tested_count, error_count) ==       \* one test too early
    tested_count + 1 >= opt.target_test_count \/ error_count >= ErrorThreshold

EomStoppedLateSlip(tested_count, error_count) ==        \* one test too late
    tested_count > opt.target_test_count \/ error_count >= ErrorThreshold

EomStopped(tested_count, error_count) ==
    tested_count >= opt.target_test_count \/ error_count >= ErrorThreshold

NextPointSlip ==        \* the voltage not reset for the next timing
    IF cur.v < opt.voltage_high THEN
        cur' = [cur EXCEPT !.v = @ + 1] /\ Goto("config")
    ELSE IF cur.t < opt.timing_right THEN
        cur' = [cur EXCEPT !.t = @ + 1] /\ Goto("config")
    ELSE UNCHANGED cur /\ Goto("disable")

NextPointShortSlip ==   \* t < timing_right in the loop condition
    IF cur.v < opt.voltage_high THEN
        cur' = [cur EXCEPT !.v = @ + 1] /\ Goto("config")
    ELSE IF cur.t + 1 < opt.timing_right THEN
        cur' = [cur EXCEPT !.t = @ + 1, !.v = opt.voltage_low] /\ Goto("config")
    ELSE UNCHANGED cur /\ Goto("disable")

\* The two inner loops of main: the next point of the lane, or its end.
NextPoint ==
    IF cur.v < opt.voltage_high THEN
        cur' = [cur EXCEPT !.v = @ + 1] /\ Goto("config")
    ELSE IF cur.t < opt.timing_right THEN
        cur' = [cur EXCEPT !.t = @ + 1, !.v = opt.voltage_low] /\ Goto("config")
    ELSE UNCHANGED cur /\ Goto("disable")

LogRowSlip(error_count) ==      \* timing and voltage the wrong way round
    /\ er' = Append(er, [lane |-> cur.l, timing |-> cur.v, volt |-> cur.t,
                         error_cnt |-> error_count])
    /\ NextPoint
    /\ UNCHANGED ret

\* Append the row; the count is compared with the size after the store.
LogRow(error_count) ==
    /\ er' = Append(er, [lane |-> cur.l, timing |-> cur.t, volt |-> cur.v,
                         error_cnt |-> error_count])
    /\ IF Len(er') > eom_result_count
       THEN Fail("out") /\ UNCHANGED cur
       ELSE NextPoint /\ UNCHANGED ret

GetErrors ==
    /\ pc = "errors"
    /\ tested' = 0
    /\ \/ /\ Answers(cur.l)
          /\ IF EomStopped(tested, mon[Mon].errors)
             THEN LogRow(mon[Mon].errors)
             ELSE Goto("io") /\ UNCHANGED <<cur, er, ret>>
       \/ MayFail(cur.l) /\ Fail("out") /\ UNCHANGED <<cur, er>>
    /\ UNCHANGED <<opt, caps, cfg, eom_result_count, held, report, mon, link>>

-----------------------------------------------------------------------------
DisableEffectSlip ==    \* always the first lane
    mon' = [mon EXCEPT ![<<opt.local_peer, opt.lane>>] = Written(@, "enable", 0)]

\* The end of a lane: its monitor is disabled and the outer loop goes on.
DisableEffect == mon' = [mon EXCEPT ![Mon] = Written(@, "enable", 0)]

DisableMonitor ==
    /\ pc = "disable"
    /\ \/ /\ Answers(cur.l)
          /\ DisableEffect
          /\ IF cur.n > 1
             THEN /\ cur' = [l |-> cur.l + 1, t |-> opt.timing_left, v |-> opt.voltage_low,
                             n |-> cur.n - 1]
                  /\ Goto("config")
             ELSE UNCHANGED cur /\ Goto("report")
          /\ UNCHANGED ret
       \/ /\ MayFail(cur.l)
          /\ \/ Answers(cur.l) /\ DisableEffect
             \/ UNCHANGED mon
          /\ Fail("out")
          /\ UNCHANGED cur
    /\ UNCHANGED <<opt, caps, cfg, tested, er, eom_result_count, held, report, link>>

\* generate_eom_report: read the device's names, create the file, print the rows
\* and say so.  Nothing looks at what fprintf and fclose return.
GenerateReport ==
    /\ pc = "report"
    /\ \/ /\ \E k \in IF DiskMayFill THEN 0 .. Len(er) ELSE {Len(er)} :
                report' = [saved |-> TRUE, rows |-> SubSeq(er, 1, k)]
          /\ Goto("out")
          /\ UNCHANGED ret
       \/ Faults /\ Fail("out") /\ UNCHANGED report
    /\ UNCHANGED <<opt, caps, cur, cfg, tested, er, eom_result_count, held, mon, link>>

-----------------------------------------------------------------------------
\* The labels out, close_tmp and close_bsg at the end of main.
Release(what, next) ==
    /\ held' = held \ what
    /\ Goto(next)
    /\ UNCHANGED <<opt, caps, cur, cfg, tested, er, eom_result_count, ret, report, mon, link>>

FreeBuffersSlip == pc = "out" /\ Release({"er"}, "close_tmp")         \* tmp_buf kept

FreeBuffers == pc = "out" /\ Release({"er", "buf"}, "close_tmp")
CloseTmp == pc = "close_tmp" /\ Release({"tmp"}, "close_bsg")
CloseBsg == pc = "close_bsg" /\ Release({"bsg"}, "done")

Terminated == pc = "done" /\ UNCHANGED vars

Program ==
    \/ OpenBsg \/ CheckSupport \/ PrepareIo \/ ReadLimits \/ CheckRange \/ AllocResults
    \/ ConfigWrite \/ PollUnipro \/ Delay
    \/ DoIo \/ GetStart \/ GetTested \/ GetErrors
    \/ DisableMonitor \/ GenerateReport
    \/ FreeBuffers \/ CloseTmp \/ CloseBsg

Hardware == MonitorNext /\ UNCHANGED progVars

Next == Program \/ Hardware \/ Terminated

\* The program is scheduled, the PMC it asked for ends, a monitor that was
\* triggered starts, and a running monitor goes on comparing samples.
Fairness ==
    /\ WF_vars(Program)
    /\ WF_vars(PmcDone /\ UNCHANGED progVars)
    /\ \A m \in Monitors :
         /\ WF_vars(MonStart(m) /\ UNCHANGED progVars)
         /\ WF_vars(Tick(m) /\ UNCHANGED progVars)

Spec == Init /\ [][Next]_vars
FairSpec == Spec /\ Fairness
=============================================================================
