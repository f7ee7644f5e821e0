------------------------------ MODULE EomSteps ------------------------------
(***************************************************************************)
(* The arithmetic of an eye-monitor scan: the encoding of a signed step in *)
(* a 7-bit register, the ranges of the scan, and the order of its points.  *)
(* Everything here is a pure function of the options of the command line   *)
(* and of the limits the monitor reports.                                  *)
(***************************************************************************)
EXTENDS Common

LaneNumbers == {0, 1}

EOM_TARGET_TEST_COUNT_DEFAULT == 93
EOM_TARGET_TEST_COUNT_MAX == 127
EOM_SUPPORTED_MIN_GEAR == 4
EOM_TIMING_VOLTAGE_INIT == 255

-----------------------------------------------------------------------------
StepConfigSlip(x) == x          \* no direction bit

\* A register holds the direction in bit 6 and the magnitude in bits 0 to 5.
StepConfig(x) == IF x < 0 THEN 64 + ((-x) % 64) ELSE x % 64

\* What the monitor makes of a register: the inverse the encoding is meant for.
StepOf(c) == IF (c \div 64) % 2 = 1 THEN -(c % 64) ELSE c % 64

-----------------------------------------------------------------------------
\* What parse_args lets through.  The four bounds are any int: the value 255
\* stands for a bound that was not given.
AcceptedOptions ==
    {o \in [local_peer : Sides, lane : LaneNumbers, num_lanes : {1, 2},
            target_test_count : 1 .. EOM_TARGET_TEST_COUNT_MAX, do_io : BOOLEAN,
            voltage_low : Int, voltage_high : Int,
            timing_left : Int, timing_right : Int] :
        o.num_lanes = 2 => o.lane = 0}

\* The bounds that were not given become the limits the monitor reports.
GivenOrLimit(given, limit) == IF given = EOM_TIMING_VOLTAGE_INIT THEN limit ELSE given

Resolve(o, c) ==
    [o EXCEPT !.voltage_low = GivenOrLimit(@, -c.voltage_max_steps),
              !.voltage_high = GivenOrLimit(@, c.voltage_max_steps),
              !.timing_left = GivenOrLimit(@, -c.timing_max_steps),
              !.timing_right = GivenOrLimit(@, c.timing_max_steps)]

Within(x, limit) == -limit <= x /\ x <= limit

RangeOK(o, c) ==
    /\ Within(o.voltage_low, c.voltage_max_steps)
    /\ Within(o.voltage_high, c.voltage_max_steps)
    /\ Within(o.timing_left, c.timing_max_steps)
    /\ Within(o.timing_right, c.timing_max_steps)
    /\ o.voltage_low <= o.voltage_high
    /\ o.timing_left <= o.timing_right

-----------------------------------------------------------------------------
Timings(o) == o.timing_right - o.timing_left + 1
Volts(o) == o.voltage_high - o.voltage_low + 1
ResultCountSlip(o) == Timings(o) * Volts(o)          \* room for one lane only
ResultCount(o) == Timings(o) * Volts(o) * o.num_lanes

\* The place, counted from 0, of a point in the order of the three loops.
GridIndex(o, l, t, v) ==
    (l - o.lane) * (Timings(o) * Volts(o)) + (t - o.timing_left) * Volts(o)
        + (v - o.voltage_low)

InGrid(o, l, t, v) ==
    /\ o.lane <= l /\ l < o.lane + o.num_lanes
    /\ o.timing_left <= t /\ t <= o.timing_right
    /\ o.voltage_low <= v /\ v <= o.voltage_high

\* The point at each place of a scan, counted from 1.
GridOf(o) ==
    [i \in 1 .. ResultCount(o) |->
        [lane |-> o.lane + ((i - 1) \div (Timings(o) * Volts(o))),
         timing |-> o.timing_left + (((i - 1) \div Volts(o)) % Timings(o)),
         volt |-> o.voltage_low + ((i - 1) % Volts(o))]]
=============================================================================
