--------------------------- MODULE EyeMonitor_proofs ---------------------------
(***************************************************************************)
(* Facts about the eye monitors and the link, whatever program drives      *)
(* them: the arithmetic of the points of a scan, for every range and every *)
(* step, and what the monitors' steps and the writing of an attribute      *)
(* change and leave alone.                                                 *)
(***************************************************************************)
EXTENDS EyeMonitor, Sequences, TLAPS

-----------------------------------------------------------------------------
(***************************************************************************)
(* The steps of a scan.                                                    *)
(***************************************************************************)
\* A step of up to 63 in either direction (six bits) survives the encoding of
\* ufs_eom.c:315-329: the monitor decodes the step the loop is at.
THEOREM StepRoundTrip ==
    ASSUME NEW x \in -63 .. 63
    PROVE  /\ StepConfig(x) \in 0 .. 127
           /\ StepOf(StepConfig(x)) = x
<1>1. CASE x >= 0
  <2>1. StepConfig(x) = x
    BY <1>1 DEF StepConfig
  <2>2. x \div 64 = 0 /\ x % 64 = x
    BY <1>1
  <2> QED
    BY <1>1, <2>1, <2>2 DEF StepOf
<1>2. CASE x < 0
  <2>1. StepConfig(x) = 64 - x
    BY <1>2 DEF StepConfig
  <2>2. (64 - x) \div 64 = 1 /\ (64 - x) % 64 = -x
    BY <1>2
  <2> QED
    BY <1>2, <2>1, <2>2 DEF StepOf
<1> QED
  BY <1>1, <1>2

-----------------------------------------------------------------------------
LEMMA TimesMonotone ==
    ASSUME NEW a \in Int, NEW b \in Int, NEW k \in Nat, a <= b
    PROVE  a * k <= b * k
OBVIOUS

LEMMA TimesNat ==
    ASSUME NEW a \in Nat, NEW b \in Nat
    PROVE  a * b \in Nat
OBVIOUS

LEMMA TimesSucc ==
    ASSUME NEW a \in Int, NEW k \in Int
    PROVE  (a + 1) * k = a * k + k
OBVIOUS

-----------------------------------------------------------------------------
\* What the loops of a scan run over: some lanes, and bounds in order.
IsScan(o) ==
    /\ o.lane \in Nat /\ o.num_lanes \in Nat \ {0}
    /\ o.timing_left \in Int /\ o.timing_right \in Int /\ o.timing_left <= o.timing_right
    /\ o.voltage_low \in Int /\ o.voltage_high \in Int /\ o.voltage_low <= o.voltage_high

LEMMA GridSizes ==
    ASSUME NEW o, IsScan(o)
    PROVE  /\ Timings(o) \in Nat \ {0}
           /\ Volts(o) \in Nat \ {0}
           /\ Timings(o) * Volts(o) \in Nat
           /\ ResultCount(o) = o.num_lanes * (Timings(o) * Volts(o))
           /\ ResultCount(o) \in Nat
<1>1. Timings(o) \in Nat \ {0} /\ Volts(o) \in Nat \ {0} /\ o.num_lanes \in Nat
  BY DEF IsScan, Timings, Volts
<1>2. Timings(o) * Volts(o) \in Nat
  BY <1>1, TimesNat
<1>3. ResultCount(o) = o.num_lanes * (Timings(o) * Volts(o))
  BY <1>1, <1>2 DEF ResultCount
<1>4. o.num_lanes * (Timings(o) * Volts(o)) \in Nat
  BY <1>1, <1>2, TimesNat
<1> QED
  BY <1>1, <1>2, <1>3, <1>4

\* The first point of a lane comes after all the points of the lanes before it.
LEMMA GridLaneStart ==
    ASSUME NEW o, IsScan(o), NEW l \in Int
    PROVE  GridIndex(o, l, o.timing_left, o.voltage_low)
             = (l - o.lane) * (Timings(o) * Volts(o))
<1>1. Timings(o) * Volts(o) \in Nat /\ Volts(o) \in Nat
  BY GridSizes
<1>2. o.lane \in Int /\ o.timing_left \in Int /\ o.voltage_low \in Int
  BY DEF IsScan
<1>3. o.timing_left - o.timing_left = 0 /\ o.voltage_low - o.voltage_low = 0
  BY <1>2
<1>4. 0 * Volts(o) = 0 /\ (l - o.lane) * (Timings(o) * Volts(o)) \in Int
  BY <1>1, <1>2
<1> QED
  BY <1>3, <1>4 DEF GridIndex

\* The next voltage of the innermost loop is the next point.
LEMMA GridNextVolt ==
    ASSUME NEW o, IsScan(o), NEW l \in Int, NEW t \in Int, NEW v \in Int
    PROVE  /\ GridIndex(o, l, t, v) \in Int
           /\ GridIndex(o, l, t, v + 1) = GridIndex(o, l, t, v) + 1
<1>1. Timings(o) * Volts(o) \in Nat /\ Volts(o) \in Nat
  BY GridSizes
<1>2. o.lane \in Int /\ o.timing_left \in Int /\ o.voltage_low \in Int
  BY DEF IsScan
<1> DEFINE A == (l - o.lane) * (Timings(o) * Volts(o))
           B == (t - o.timing_left) * Volts(o)
<1>3. A \in Int /\ B \in Int
  BY <1>1, <1>2
<1>4. /\ GridIndex(o, l, t, v) = A + B + (v - o.voltage_low)
      /\ GridIndex(o, l, t, v + 1) = A + B + ((v + 1) - o.voltage_low)
  BY DEF GridIndex
<1> HIDE DEF A, B
<1> QED
  BY <1>2, <1>3, <1>4

\* The last voltage of a timing is followed by the first of the next timing.
LEMMA GridNextTiming ==
    ASSUME NEW o, IsScan(o), NEW l \in Int, NEW t \in Int
    PROVE  GridIndex(o, l, t + 1, o.voltage_low) = GridIndex(o, l, t, o.voltage_high) + 1
<1>1. Timings(o) * Volts(o) \in Nat /\ Volts(o) \in Nat
  BY GridSizes
<1>2. /\ o.lane \in Int /\ o.timing_left \in Int
      /\ o.voltage_low \in Int /\ o.voltage_high \in Int
  BY DEF IsScan
<1> DEFINE A == (l - o.lane) * (Timings(o) * Volts(o))
           B == (t - o.timing_left) * Volts(o)
<1>3. A \in Int /\ B \in Int
  BY <1>1, <1>2
<1>4. ((t + 1) - o.timing_left) * Volts(o) = B + Volts(o)
  <2>1. (t + 1) - o.timing_left = (t - o.timing_left) + 1
    BY <1>2
  <2> QED
    BY <1>1, <1>2, <2>1, TimesSucc
<1>5. Volts(o) = o.voltage_high - o.voltage_low + 1
  BY DEF Volts
<1>6. /\ GridIndex(o, l, t, o.voltage_high) = A + B + (o.voltage_high - o.voltage_low)
      /\ GridIndex(o, l, t + 1, o.voltage_low) = A + (B + Volts(o)) + (o.voltage_low - o.voltage_low)
  BY <1>4 DEF GridIndex
<1> HIDE DEF A, B
<1> QED
  BY <1>1, <1>2, <1>3, <1>5, <1>6

\* The last point of a lane is followed by the first of the next lane.
LEMMA GridNextLane ==
    ASSUME NEW o, IsScan(o), NEW l \in Int
    PROVE  GridIndex(o, l, o.timing_right, o.voltage_high) + 1
             = ((l + 1) - o.lane) * (Timings(o) * Volts(o))
<1>1. Timings(o) \in Nat /\ Timings(o) * Volts(o) \in Nat /\ Volts(o) \in Nat
  BY GridSizes
<1>2. /\ o.lane \in Int /\ o.timing_left \in Int /\ o.timing_right \in Int
      /\ o.voltage_low \in Int /\ o.voltage_high \in Int
  BY DEF IsScan
<1>3. (l - o.lane) * (Timings(o) * Volts(o)) \in Int
  BY <1>1, <1>2
<1>4. ((l + 1) - o.lane) * (Timings(o) * Volts(o))
        = (l - o.lane) * (Timings(o) * Volts(o)) + Timings(o) * Volts(o)
  <2>1. (l + 1) - o.lane = (l - o.lane) + 1
    BY <1>2
  <2> QED
    BY <1>1, <1>2, <2>1, TimesSucc
<1>5. (o.timing_right - o.timing_left) * Volts(o) + Volts(o) = Timings(o) * Volts(o)
  BY <1>1, <1>2, TimesSucc DEF Timings
<1>6. Volts(o) = o.voltage_high - o.voltage_low + 1
  BY DEF Volts
<1>7. (o.timing_right - o.timing_left) * Volts(o) \in Int
  BY <1>1, <1>2
<1> QED
  BY <1>1, <1>2, <1>3, <1>4, <1>5, <1>6, <1>7 DEF GridIndex

\* Every point of the loops has a place within the results, and only the last
\* point of the last lane has the last place.
LEMMA GridBound ==
    ASSUME NEW o, IsScan(o), NEW l \in Int, NEW t \in Int, NEW v \in Int,
           InGrid(o, l, t, v)
    PROVE  /\ GridIndex(o, l, t, v) \in Nat
           /\ GridIndex(o, l, t, v) < ResultCount(o)
<1>1. /\ Timings(o) * Volts(o) \in Nat /\ Volts(o) \in Nat
      /\ ResultCount(o) = o.num_lanes * (Timings(o) * Volts(o))
  BY GridSizes
<1>2. /\ o.lane \in Int /\ o.timing_left \in Int /\ o.timing_right \in Int
      /\ o.voltage_low \in Int /\ o.voltage_high \in Int /\ o.num_lanes \in Nat
  BY DEF IsScan
<1>3. l - o.lane \in Nat /\ t - o.timing_left \in Nat /\ v - o.voltage_low \in Nat
  BY <1>2 DEF InGrid
<1>4. GridIndex(o, l, t, v) \in Nat
  <2>1. (l - o.lane) * (Timings(o) * Volts(o)) \in Nat /\ (t - o.timing_left) * Volts(o) \in Nat
    BY <1>1, <1>3, TimesNat
  <2> QED
    BY <1>3, <2>1 DEF GridIndex
<1>5. GridIndex(o, l, t, v) <= GridIndex(o, l, o.timing_right, o.voltage_high)
  <2>1. (t - o.timing_left) * Volts(o) <= (o.timing_right - o.timing_left) * Volts(o)
    BY <1>1, <1>2, TimesMonotone DEF InGrid
  <2>2. /\ (l - o.lane) * (Timings(o) * Volts(o)) \in Int
        /\ (t - o.timing_left) * Volts(o) \in Int
        /\ (o.timing_right - o.timing_left) * Volts(o) \in Int
    BY <1>1, <1>2
  <2> QED
    BY <1>2, <2>1, <2>2 DEF GridIndex, InGrid
<1>6. ((l + 1) - o.lane) * (Timings(o) * Volts(o)) <= ResultCount(o)
  <2>1. (l + 1) - o.lane <= o.num_lanes
    BY <1>2 DEF InGrid
  <2> QED
    BY <1>1, <1>2, <2>1, TimesMonotone
<1>7. GridIndex(o, l, o.timing_right, o.voltage_high) + 1
        = ((l + 1) - o.lane) * (Timings(o) * Volts(o))
  BY GridNextLane
<1>8. GridIndex(o, l, o.timing_right, o.voltage_high) \in Int
  BY <1>2, GridNextVolt
<1>9. ResultCount(o) \in Nat
  BY GridSizes
<1> QED
  BY <1>4, <1>5, <1>6, <1>7, <1>8, <1>9

\* A number is given by its quotient and its remainder.
LEMMA Quotient ==
    ASSUME NEW a \in Nat, NEW d \in Nat \ {0}, NEW r \in 0 .. (d - 1)
    PROVE  /\ a * d + r \in Nat
           /\ (a * d + r) \div d = a
           /\ (a * d + r) % d = r
<1> DEFINE x == a * d + r
           q == x \div d
           m == x % d
<1>1. x \in Nat
  <2>1. a * d \in Nat
    BY TimesNat
  <2> QED
    BY <2>1
<1>2. q \in Int /\ m \in 0 .. (d - 1) /\ x = d * q + m
  <2> HIDE DEF x
  <2> QED
    BY <1>1
<1>3. a * d + r = q * d + m
  BY <1>2
<1>4. a * d \in Int /\ q * d \in Int
  BY <1>2
<1> HIDE DEF q, m, x
<1>5. q = a
  <2>1. CASE q < a
    <3>1. (q + 1) * d <= a * d /\ (q + 1) * d = q * d + d
      BY <1>2, <2>1, TimesMonotone, TimesSucc
    <3> QED
      BY <1>2, <1>3, <1>4, <3>1
  <2>2. CASE a < q
    <3>1. (a + 1) * d <= q * d /\ (a + 1) * d = a * d + d
      BY <1>2, <2>2, TimesMonotone, TimesSucc
    <3> QED
      BY <1>2, <1>3, <1>4, <3>1
  <2> QED
    BY <1>2, <2>1, <2>2
<1>6. m = r
  BY <1>2, <1>3, <1>4, <1>5
<1> QED
  BY <1>1, <1>5, <1>6 DEF x, q, m

\* The point at the place of the loops is the point the loops are at.
LEMMA GridPoint ==
    ASSUME NEW o, IsScan(o), NEW l \in Int, NEW t \in Int, NEW v \in Int,
           InGrid(o, l, t, v)
    PROVE  /\ GridIndex(o, l, t, v) + 1 \in 1 .. ResultCount(o)
           /\ GridOf(o)[GridIndex(o, l, t, v) + 1] = [lane |-> l, timing |-> t, volt |-> v]
<1> DEFINE g == GridIndex(o, l, t, v)
           T == Timings(o)
           V == Volts(o)
           a == l - o.lane
           b == t - o.timing_left
           c == v - o.voltage_low
<1>1. T \in Nat \ {0} /\ V \in Nat \ {0} /\ T * V \in Nat /\ ResultCount(o) \in Nat
  BY GridSizes
<1>2. /\ o.lane \in Int /\ o.timing_left \in Int /\ o.timing_right \in Int
      /\ o.voltage_low \in Int /\ o.voltage_high \in Int
  BY DEF IsScan
<1>3. /\ a \in Nat /\ b \in 0 .. (T - 1) /\ c \in 0 .. (V - 1)
      /\ l = o.lane + a /\ t = o.timing_left + b /\ v = o.voltage_low + c
  BY <1>2 DEF InGrid, Timings, Volts
<1>4. g \in Nat /\ g < ResultCount(o)
  BY GridBound
<1>5. g = a * (T * V) + b * V + c
  BY DEF GridIndex
<1> HIDE DEF g, T, V, a, b, c
<1>6. a * T \in Nat /\ b * V \in Nat /\ a * (T * V) \in Nat
  BY <1>1, <1>3, TimesNat
<1>7. g = (a * T + b) * V + c
  <2>1. a * (T * V) = (a * T) * V
    BY <1>1, <1>3
  <2>2. (a * T + b) * V = (a * T) * V + b * V
    BY <1>1, <1>3, <1>6
  <2> QED
    BY <1>3, <1>5, <1>6, <2>1, <2>2
<1>8. g % V = c /\ (g \div V) % T = b
  <2>1. a * T + b \in Nat
    BY <1>3, <1>6
  <2>2. g % V = c /\ g \div V = a * T + b
    BY <1>1, <1>3, <1>7, <2>1, Quotient
  <2>3. (a * T + b) % T = b
    BY <1>1, <1>3, Quotient
  <2> QED
    BY <2>2, <2>3
<1>9. g \div (T * V) = a
  <2>1. b * V + c \in 0 .. (T * V - 1)
    <3>1. (b + 1) * V <= T * V /\ (b + 1) * V = b * V + V
      BY <1>1, <1>3, TimesMonotone, TimesSucc
    <3> QED
      BY <1>1, <1>3, <1>6, <3>1
  <2>2. T * V \in Nat \ {0}
    BY <1>1, <2>1
  <2>3. g = a * (T * V) + (b * V + c)
    BY <1>3, <1>5, <1>6
  <2> QED
    BY <1>3, <2>1, <2>2, <2>3, Quotient
<1>10. g + 1 \in 1 .. ResultCount(o) /\ (g + 1) - 1 = g
  BY <1>1, <1>4
<1>11. GridOf(o)[g + 1] = [lane |-> o.lane + (g \div (T * V)),
                           timing |-> o.timing_left + ((g \div V) % T),
                           volt |-> o.voltage_low + (g % V)]
  BY <1>10 DEF GridOf, T, V
<1> QED
  BY <1>3, <1>8, <1>9, <1>10, <1>11 DEF g

LEMMA GridLength ==
    ASSUME NEW o, IsScan(o)
    PROVE  Len(GridOf(o)) = ResultCount(o)
<1>1. ResultCount(o) \in Nat
  BY GridSizes
<1>2. ASSUME NEW f, NEW n \in Nat, f = [i \in 1 .. n |-> f[i]] PROVE Len(f) = n
  BY <1>2
<1>3. GridOf(o) = [i \in 1 .. ResultCount(o) |-> GridOf(o)[i]]
  BY DEF GridOf
<1> QED
  BY <1>1, <1>2, <1>3

-----------------------------------------------------------------------------
(***************************************************************************)
(* Typing.                                                                 *)
(***************************************************************************)
LEMMA StepConfigType ==
    ASSUME NEW x \in Int
    PROVE  StepConfig(x) \in Registers
BY DEF StepConfig, Registers

LEMMA WrittenType ==
    ASSUME NEW s \in MonitorStates, NEW attr, NEW x,
           \/ attr = "enable" /\ x \in {0, 1}
           \/ attr \in {"timing", "voltage", "target"} /\ x \in Registers
    PROVE  Written(s, attr, x) \in MonitorStates
BY DEF Written, MonitorStates

LEMMA StartedType ==
    ASSUME NEW s \in MonitorStates, NEW b \in BOOLEAN
    PROVE  Started(s, b) \in MonitorStates
BY DEF Started, MonitorStates, RunSettings

\* Whatever was left enabled, the hardware is in its type to begin with.
LEMMA MonitorInitType == MonitorInit => MonitorTypeOK
<1> SUFFICES ASSUME MonitorInit PROVE MonitorTypeOK
  OBVIOUS
<1>1. PICK left \in Leftovers :
        mon = [m \in Monitors |-> IF m \in left THEN LeftEnabled ELSE Idle]
  BY DEF MonitorInit
<1>2. Idle \in MonitorStates
  BY DEF Idle, OldRun, MonitorStates, RunSettings, Registers
<1>3. link \in LinkStates
  BY DEF MonitorInit, LinkStates
<1>4. LeftEnabled \in MonitorStates
  <2>1. ASSUME NEW s \in MonitorStates, NEW i \in Registers, NEW j \in Nat
        PROVE  [s EXCEPT !.enable = TRUE, !.target = i, !.tested = j, !.errors = j]
                 \in MonitorStates
    BY DEF MonitorStates
  <2>2. 1 \in Registers /\ ErrorThreshold \in Nat
    BY MonitorAssumption DEF Registers
  <2> QED
    BY <1>2, <2>1, <2>2 DEF LeftEnabled
<1>5. mon \in [Monitors -> MonitorStates]
  BY <1>1, <1>2, <1>4
<1> QED
  BY <1>3, <1>5 DEF MonitorTypeOK

\* Whatever the hardware does, it stays within its type.
LEMMA HardwareType ==
    ASSUME MonitorTypeOK, MonitorNext
    PROVE  MonitorTypeOK'
<1> USE DEF MonitorTypeOK
<1>1. CASE PmcDone
  <2>1. link' \in LinkStates
    BY <1>1 DEF PmcDone, LinkStates
  <2>2. ASSUME NEW m \in Monitors PROVE mon'[m] \in MonitorStates
    <3>1. link'.no_adapt \in BOOLEAN
      BY <2>1 DEF LinkStates
    <3>2. Started(mon[m], link'.no_adapt) \in MonitorStates
      BY <3>1, StartedType
    <3>3. [mon[m] EXCEPT !.armed = TRUE] \in MonitorStates
      BY DEF MonitorStates
    <3> QED
      BY <1>1, <3>2, <3>3 DEF PmcDone
  <2>3. mon' = [m \in Monitors |-> mon'[m]]
    BY <1>1 DEF PmcDone
  <2> QED
    BY <2>1, <2>2, <2>3
<1>2. ASSUME NEW m \in Monitors, MonStart(m) PROVE MonitorTypeOK'
  <2>1. Started(mon[m], link.no_adapt) \in MonitorStates
    BY StartedType DEF LinkStates
  <2> QED
    BY <1>2, <2>1 DEF MonStart
<1>3. ASSUME NEW m \in Monitors, Tick(m) PROVE MonitorTypeOK'
  <2>1. PICK e \in {0, 1} :
          mon' = [mon EXCEPT ![m] =
                    [@ EXCEPT !.tested = mon[m].tested + 1, !.errors = mon[m].errors + e,
                              !.start = mon[m].tested + 1 < mon[m].target
                                        /\ mon[m].errors + e < ErrorThreshold]]
    BY <1>3 DEF Tick
  <2>2. ASSUME NEW s \in MonitorStates, NEW i \in Nat, NEW j \in Nat, NEW b \in BOOLEAN
        PROVE  [s EXCEPT !.tested = i, !.errors = j, !.start = b] \in MonitorStates
    BY DEF MonitorStates
  <2>3. mon[m].tested + 1 \in Nat /\ mon[m].errors + e \in Nat
    BY DEF MonitorStates
  <2>4. [mon[m] EXCEPT !.tested = mon[m].tested + 1, !.errors = mon[m].errors + e,
                       !.start = mon[m].tested + 1 < mon[m].target
                                 /\ mon[m].errors + e < ErrorThreshold] \in MonitorStates
    BY <2>2, <2>3
  <2> QED
    BY <1>3, <2>1, <2>4 DEF Tick
<1> QED
  BY <1>1, <1>2, <1>3 DEF MonitorNext

-----------------------------------------------------------------------------
(***************************************************************************)
(* One step of the hardware seen from one monitor.                         *)
(***************************************************************************)
\* The registers are the program's: the hardware leaves them alone.
SameRegisters(s, z) ==
    z.enable = s.enable /\ z.timing = s.timing /\ z.volt = s.volt /\ z.target = s.target

\* One more sample compared.
Ticked(s, z) ==
    /\ SameRegisters(s, z)
    /\ z.armed = s.armed /\ z.run = s.run
    /\ z.tested = s.tested + 1
    /\ z.start => z.tested < z.target

LEMMA StartedFields ==
    ASSUME NEW s \in MonitorStates, NEW b \in BOOLEAN
    PROVE  LET z == Started(s, b)
           IN  /\ SameRegisters(s, z)
               /\ z.armed = FALSE /\ z.start = TRUE /\ z.tested = 0 /\ z.errors = 0
               /\ z.run = [timing |-> s.timing, volt |-> s.volt, no_adapt |-> b, mine |-> TRUE]
BY DEF Started, MonitorStates, SameRegisters

\* A tick seen from its fields.
LEMMA TickFields ==
    ASSUME NEW s \in MonitorStates, NEW e \in {0, 1}, NEW b \in BOOLEAN,
           b => s.tested + 1 < s.target
    PROVE  Ticked(s, [s EXCEPT !.tested = s.tested + 1, !.errors = s.errors + e, !.start = b])
<1> DEFINE z == [s EXCEPT !.tested = s.tested + 1, !.errors = s.errors + e, !.start = b]
<1>1. /\ SameRegisters(s, z)
      /\ z.armed = s.armed /\ z.run = s.run
      /\ z.tested = s.tested + 1 /\ z.start = b
  BY DEF MonitorStates, SameRegisters
<1> HIDE DEF z
<1>2. z.start => s.tested + 1 < s.target
  BY <1>1, Zenon
<1>3. z.start => z.tested < z.target
  BY <1>1, <1>2 DEF SameRegisters
<1>4. Ticked(s, z)
  BY <1>1, <1>3 DEF Ticked
<1> QED
  BY <1>4 DEF z

\* A step of the hardware seen from one monitor.
LEMMA HardwareStep ==
    ASSUME MonitorTypeOK, MonitorNext, NEW k \in Monitors
    PROVE  LET s == mon[k]
               z == mon'[k]
           IN  \/ z = s /\ link' = link
               \/ z = s /\ PmcDone /\ ~s.enable
               \/ PmcDone /\ StartWithPmc /\ z = Started(s, link'.no_adapt)
               \/ PmcDone /\ ~StartWithPmc /\ z = [s EXCEPT !.armed = TRUE]
               \/ link' = link /\ s.armed /\ z = Started(s, link.no_adapt)
               \/ link' = link /\ s.start /\ Ticked(s, z)
<1>0. mon \in [Monitors -> MonitorStates]
  BY DEF MonitorTypeOK
<1>1. CASE PmcDone
  <2>1. mon'[k] = IF ~mon[k].enable THEN mon[k]
                  ELSE IF StartWithPmc THEN Started(mon[k], link'.no_adapt)
                  ELSE [mon[k] EXCEPT !.armed = TRUE]
    BY <1>1 DEF PmcDone
  <2> QED
    BY <1>1, <2>1
<1>2. ASSUME NEW m \in Monitors, MonStart(m)
      PROVE  /\ link' = link
             /\ mon'[k] = mon[k] \/ (mon[k].armed /\ mon'[k] = Started(mon[k], link.no_adapt))
  BY <1>0, <1>2 DEF MonStart
<1>3. ASSUME NEW m \in Monitors, Tick(m)
      PROVE  /\ link' = link
             /\ mon'[k] = mon[k] \/ (mon[k].start /\ Ticked(mon[k], mon'[k]))
  <2>1. PICK e \in {0, 1} :
          mon' = [mon EXCEPT ![m] =
                    [@ EXCEPT !.tested = mon[m].tested + 1, !.errors = mon[m].errors + e,
                              !.start = mon[m].tested + 1 < mon[m].target
                                        /\ mon[m].errors + e < ErrorThreshold]]
    BY <1>3 DEF Tick
  <2>2. mon[m].start /\ link' = link
    BY <1>3 DEF Tick
  <2>3. CASE k = m
    <3> DEFINE b == mon[k].tested + 1 < mon[k].target /\ mon[k].errors + e < ErrorThreshold
    <3>1. mon'[k] = [mon[k] EXCEPT !.tested = mon[k].tested + 1,
                                   !.errors = mon[k].errors + e, !.start = b]
      BY <1>0, <2>1, <2>3
    <3>2. b \in BOOLEAN /\ (b => mon[k].tested + 1 < mon[k].target) /\ mon[k] \in MonitorStates
      BY <1>0
    <3> HIDE DEF b
    <3>3. Ticked(mon[k], mon'[k])
      BY <3>1, <3>2, TickFields
    <3> QED
      BY <2>2, <2>3, <3>3
  <2>4. CASE k # m
    BY <1>0, <2>1, <2>2, <2>4
  <2> QED
    BY <2>3, <2>4
<1> QED
  BY <1>1, <1>2, <1>3 DEF MonitorNext

\* The power mode change ends with the adapt type asked for in force.
LEMMA PmcDoneLink ==
    ASSUME MonitorTypeOK, PmcDone
    PROVE  /\ link.pmc = "busy" /\ link'.pmc = "up"
           /\ link'.adapt_type = link.adapt_type
           /\ link'.no_adapt \in BOOLEAN
           /\ link.adapt_type = "NO_ADAPT" => link'.no_adapt
BY DEF PmcDone, MonitorTypeOK, LinkStates

LEMMA HardwareKeepsRegisters ==
    ASSUME MonitorTypeOK, MonitorNext, NEW k \in Monitors
    PROVE  SameRegisters(mon[k], mon'[k])
<1> DEFINE s == mon[k]
           z == mon'[k]
<1>1. s \in MonitorStates /\ link.no_adapt \in BOOLEAN
  BY DEF MonitorTypeOK, LinkStates
<1>2. PmcDone => link'.no_adapt \in BOOLEAN
  BY PmcDoneLink
<1>3. Ticked(s, z) => SameRegisters(s, z)
  BY DEF Ticked
<1>4. z = [s EXCEPT !.armed = TRUE] => SameRegisters(s, z)
  BY <1>1 DEF MonitorStates, SameRegisters
<1>5. \A b \in BOOLEAN : z = Started(s, b) => SameRegisters(s, z)
  BY <1>1, StartedFields
<1>6. z = s => SameRegisters(s, z)
  BY DEF SameRegisters
<1> HIDE DEF s, z
<1> QED
  BY <1>1, <1>2, <1>3, <1>4, <1>5, <1>6, HardwareStep DEF s, z

-----------------------------------------------------------------------------
(***************************************************************************)
(* Measurements.                                                           *)
(***************************************************************************)
\* A monitor with nothing counted, that is not running.
Unstarted(s) == ~s.start /\ s.tested = 0 /\ s.errors = 0

\* A monitor that runs, or has run, with the settings of point c.
Measures(s, c) ==
    /\ s.run = [timing |-> StepConfig(c.t), volt |-> StepConfig(c.v),
                no_adapt |-> TRUE, mine |-> TRUE]
    /\ ~s.armed
    /\ s.start => s.tested < s.target

\* A monitor that measures a point goes on with that, and one that has stopped
\* stays as it is.
LEMMA MeasuresKept ==
    ASSUME MonitorTypeOK, MonitorNext, NEW k \in Monitors, NEW c,
           ~PmcDone, Measures(mon[k], c)
    PROVE  /\ Measures(mon'[k], c)
           /\ ~mon[k].start => mon'[k] = mon[k]
<1> DEFINE s == mon[k]
           z == mon'[k]
<1>1. s \in MonitorStates /\ ~s.armed
  BY DEF MonitorTypeOK, Measures
<1>2. CASE z = s
  BY <1>2
<1>3. CASE s.start /\ Ticked(s, z)
  <2>0. ~s.armed
    BY <1>1
  <2> HIDE DEF s, z
  <2>1. ~z.armed /\ z.run = s.run /\ (z.start => z.tested < z.target)
    <3>1. z.armed = s.armed /\ z.run = s.run /\ (z.start => z.tested < z.target)
      BY <1>3 DEF Ticked
    <3>2. ~z.armed
      BY <2>0, <3>1
    <3> QED
      BY <3>1, <3>2
  <2>2. s.run = [timing |-> StepConfig(c.t), volt |-> StepConfig(c.v),
                 no_adapt |-> TRUE, mine |-> TRUE]
    BY DEF Measures, s
  <2>3. Measures(z, c)
    BY <2>1, <2>2 DEF Measures
  <2> QED
    BY <1>3, <2>3 DEF s, z
<1>4. z = s \/ (s.start /\ Ticked(s, z))
  BY <1>1, HardwareStep
<1> QED
  BY <1>2, <1>3, <1>4

\* A monitor that is not running and not armed is only touched by the end of a
\* power mode change.
LEMMA UnstartedKept ==
    ASSUME MonitorTypeOK, MonitorNext, NEW k \in Monitors,
           Unstarted(mon[k]), ~mon[k].armed, ~PmcDone
    PROVE  mon'[k] = mon[k] /\ link' = link
BY HardwareStep DEF Unstarted

\* A monitor that waits to be started goes on waiting or is started.
LEMMA ArmedKept ==
    ASSUME MonitorTypeOK, MonitorNext, NEW k \in Monitors,
           Unstarted(mon[k]), mon[k].armed, ~PmcDone, link.no_adapt
    PROVE  mon'[k] = mon[k] \/ mon'[k] = Started(mon[k], TRUE)
<1>1. link.no_adapt = TRUE
  BY DEF MonitorTypeOK, LinkStates
<1> QED
  BY <1>1, HardwareStep DEF Unstarted

\* What is started with the registers of a point measures the point.
LEMMA StartedMeasures ==
    ASSUME NEW s \in MonitorStates, NEW c,
           s.timing = StepConfig(c.t), s.volt = StepConfig(c.v), s.target \in Nat \ {0}
    PROVE  Measures(Started(s, TRUE), c)
<1> DEFINE z == Started(s, TRUE)
<1>1. /\ z.target = s.target /\ z.armed = FALSE /\ z.tested = 0
      /\ z.run = [timing |-> s.timing, volt |-> s.volt, no_adapt |-> TRUE, mine |-> TRUE]
  BY StartedFields DEF SameRegisters
<1> HIDE DEF z
<1>2. Measures(z, c)
  BY <1>1 DEF Measures
<1> QED
  BY <1>2 DEF z

\* A monitor set up for a point measures it, or waits to be started for it, once
\* the power mode change is over, and from then on.
AtWork(s, c) == Measures(s, c) \/ (Unstarted(s) /\ s.armed /\ link.no_adapt)

LEMMA AtWorkKept ==
    ASSUME MonitorTypeOK, MonitorNext, NEW k \in Monitors, NEW c,
           mon[k].enable, mon[k].timing = StepConfig(c.t), mon[k].volt = StepConfig(c.v),
           mon[k].target \in Nat \ {0}, link.adapt_type = "NO_ADAPT",
           link.pmc = "busy" => StartWithPmc \/ Unstarted(mon[k]),
           link.pmc = "up" => AtWork(mon[k], c),
           link'.pmc = "up"
    PROVE  Measures(mon'[k], c) \/ (Unstarted(mon'[k]) /\ mon'[k].armed /\ link'.no_adapt)
<1> DEFINE s == mon[k]
           z == mon'[k]
<1>1. s \in MonitorStates /\ link.pmc \in {"up", "busy"}
  BY DEF MonitorTypeOK, LinkStates
<1>2. Measures(Started(s, TRUE), c)
  BY <1>1, StartedMeasures
<1>3. PmcDone \/ link' = link
  BY DEF MonitorNext, MonStart, Tick
<1>4. CASE PmcDone
  <2>1. link.pmc = "busy" /\ link'.no_adapt = TRUE
    BY <1>4, PmcDoneLink
  <2>2. z = IF StartWithPmc THEN Started(s, TRUE) ELSE [s EXCEPT !.armed = TRUE]
    BY <1>4, <2>1 DEF PmcDone
  <2>3. CASE StartWithPmc
    BY <1>2, <2>2, <2>3
  <2>4. CASE ~StartWithPmc
    <3>1. Unstarted([s EXCEPT !.armed = TRUE]) /\ [s EXCEPT !.armed = TRUE].armed
      BY <1>1, <2>1, <2>4 DEF Unstarted, MonitorStates
    <3> QED
      BY <2>1, <2>2, <2>4, <3>1
  <2> QED
    BY <2>3, <2>4
<1>5. CASE ~PmcDone
  <2>1. link' = link /\ AtWork(s, c)
    BY <1>3, <1>5
  <2>2. CASE Measures(s, c)
    BY <1>5, <2>2, MeasuresKept
  <2>3. CASE Unstarted(s) /\ s.armed /\ link.no_adapt
    <3>1. z = s \/ z = Started(s, TRUE)
      BY <1>5, <2>3, ArmedKept
    <3> QED
      BY <1>2, <2>1, <2>3, <3>1
  <2> QED
    BY <2>1, <2>2, <2>3 DEF AtWork
<1> QED
  BY <1>4, <1>5

\* The attributes of a monitor after one of them is written.
LEMMA WrittenFields ==
    ASSUME NEW s \in MonitorStates, NEW x
    PROVE  /\ LET z == Written(s, "enable", 1)
              IN  z.enable /\ (ClearOnEnable => Unstarted(z) /\ ~z.armed)
           /\ LET z == Written(s, "timing", x)
              IN  /\ z.timing = x /\ z.enable = s.enable
                  /\ Unstarted(s) /\ ~s.armed => Unstarted(z) /\ ~z.armed
           /\ LET z == Written(s, "voltage", x)
              IN  /\ z.volt = x /\ z.enable = s.enable /\ z.timing = s.timing
                  /\ Unstarted(s) /\ ~s.armed => Unstarted(z) /\ ~z.armed
           /\ LET z == Written(s, "target", x)
              IN  /\ z.target = x /\ z.enable = s.enable /\ z.timing = s.timing
                  /\ z.volt = s.volt
                  /\ Unstarted(s) /\ ~s.armed => Unstarted(z) /\ ~z.armed
<1>1. /\ Written(s, "timing", x) = [s EXCEPT !.timing = x]
      /\ Written(s, "voltage", x) = [s EXCEPT !.volt = x]
      /\ Written(s, "target", x) = [s EXCEPT !.target = x]
      /\ Written(s, "enable", 1) =
           IF ClearOnEnable
           THEN [s EXCEPT !.enable = TRUE, !.armed = FALSE, !.start = FALSE,
                          !.tested = 0, !.errors = 0]
           ELSE [s EXCEPT !.enable = TRUE]
  BY DEF Written
<1>2. LET z == Written(s, "enable", 1)
      IN  z.enable /\ (ClearOnEnable => Unstarted(z) /\ ~z.armed)
  <2>1. CASE ClearOnEnable
    BY <1>1, <2>1 DEF MonitorStates, Unstarted
  <2>2. CASE ~ClearOnEnable
    BY <1>1, <2>2 DEF MonitorStates
  <2> QED
    BY <2>1, <2>2
<1>3. LET z == Written(s, "timing", x)
      IN  /\ z.timing = x /\ z.enable = s.enable
          /\ Unstarted(s) /\ ~s.armed => Unstarted(z) /\ ~z.armed
  BY <1>1 DEF MonitorStates, Unstarted
<1>4. LET z == Written(s, "voltage", x)
      IN  /\ z.volt = x /\ z.enable = s.enable /\ z.timing = s.timing
          /\ Unstarted(s) /\ ~s.armed => Unstarted(z) /\ ~z.armed
  BY <1>1 DEF MonitorStates, Unstarted
<1>5. LET z == Written(s, "target", x)
      IN  /\ z.target = x /\ z.enable = s.enable /\ z.timing = s.timing /\ z.volt = s.volt
          /\ Unstarted(s) /\ ~s.armed => Unstarted(z) /\ ~z.armed
  BY <1>1 DEF MonitorStates, Unstarted
<1> QED
  BY <1>2, <1>3, <1>4, <1>5

-----------------------------------------------------------------------------
(***************************************************************************)
(* Error counts.                                                           *)
(***************************************************************************)
\* A monitor stops at the error threshold, so it never counts beyond.
ErrorsBounded ==
    \A m \in Monitors :
        /\ mon[m].errors <= ErrorThreshold
        /\ mon[m].start => mon[m].errors < ErrorThreshold

LEMMA ErrorsInit == MonitorInit => ErrorsBounded
<1> SUFFICES ASSUME MonitorInit PROVE ErrorsBounded
  OBVIOUS
<1>1. PICK left \in Leftovers :
        mon = [m \in Monitors |-> IF m \in left THEN LeftEnabled ELSE Idle]
  BY DEF MonitorInit
<1>2. ErrorThreshold \in Nat \ {0}
  BY MonitorAssumption
<1>3. Idle.errors = 0 /\ Idle.start = FALSE
  BY DEF Idle
<1>4. LeftEnabled.errors = ErrorThreshold /\ LeftEnabled.start = FALSE
  BY <1>3 DEF LeftEnabled, Idle
<1> QED
  BY <1>1, <1>2, <1>3, <1>4 DEF ErrorsBounded

\* Writing an attribute of a monitor sets no error count but to zero.
LEMMA WrittenErrors ==
    ASSUME NEW s \in MonitorStates, NEW attr, NEW x,
           \/ attr = "enable" /\ x \in {0, 1}
           \/ attr \in {"timing", "voltage", "target"}
    PROVE  /\ Written(s, attr, x).errors \in {0, s.errors}
           /\ Written(s, attr, x).start => s.start /\ s.errors = Written(s, attr, x).errors
BY DEF Written, MonitorStates

LEMMA ErrorsHardware ==
    ASSUME MonitorTypeOK, ErrorsBounded, MonitorNext
    PROVE  ErrorsBounded'
<1>0. ErrorThreshold \in Nat \ {0}
  BY MonitorAssumption
<1>1. \A s \in MonitorStates, b \in BOOLEAN : Started(s, b).errors = 0
  BY DEF Started, MonitorStates
<1> SUFFICES ASSUME NEW k \in Monitors
             PROVE  /\ mon'[k].errors <= ErrorThreshold
                    /\ mon'[k].start => mon'[k].errors < ErrorThreshold
  BY DEF ErrorsBounded
<1>2. mon[k] \in MonitorStates /\ mon \in [Monitors -> MonitorStates]
  BY DEF MonitorTypeOK
<1>3. CASE PmcDone
  <2>1. link'.no_adapt \in BOOLEAN
    BY <1>3 DEF PmcDone, MonitorTypeOK, LinkStates
  <2>2. /\ [mon[k] EXCEPT !.armed = TRUE].errors = mon[k].errors
        /\ [mon[k] EXCEPT !.armed = TRUE].start = mon[k].start
    BY <1>2 DEF MonitorStates
  <2>3. \/ mon'[k] = mon[k]
        \/ mon'[k] = Started(mon[k], link'.no_adapt)
        \/ mon'[k] = [mon[k] EXCEPT !.armed = TRUE]
    BY <1>3 DEF PmcDone
  <2>4. CASE mon'[k] = Started(mon[k], link'.no_adapt)
    BY <1>0, <1>1, <1>2, <2>1, <2>4
  <2>5. CASE mon'[k] = mon[k] \/ mon'[k] = [mon[k] EXCEPT !.armed = TRUE]
    BY <2>2, <2>5 DEF ErrorsBounded
  <2> QED
    BY <2>3, <2>4, <2>5
<1>4. ASSUME NEW m \in Monitors, MonStart(m)
      PROVE  /\ mon'[k].errors <= ErrorThreshold
             /\ mon'[k].start => mon'[k].errors < ErrorThreshold
  <2>1. link.no_adapt \in BOOLEAN
    BY DEF MonitorTypeOK, LinkStates
  <2>2. mon'[k] = mon[k] \/ mon'[k] = Started(mon[k], link.no_adapt)
    BY <1>2, <1>4 DEF MonStart
  <2> QED
    BY <1>0, <1>1, <1>2, <2>1, <2>2 DEF ErrorsBounded
<1>5. ASSUME NEW m \in Monitors, Tick(m)
      PROVE  /\ mon'[k].errors <= ErrorThreshold
             /\ mon'[k].start => mon'[k].errors < ErrorThreshold
  <2>1. PICK e \in {0, 1} :
          mon' = [mon EXCEPT ![m] =
                    [@ EXCEPT !.tested = mon[m].tested + 1, !.errors = mon[m].errors + e,
                              !.start = mon[m].tested + 1 < mon[m].target
                                        /\ mon[m].errors + e < ErrorThreshold]]
    BY <1>5 DEF Tick
  <2>2. CASE k # m
    BY <1>2, <2>1, <2>2 DEF ErrorsBounded
  <2>3. CASE k = m
    <3>1. mon[m].start /\ mon[m].errors < ErrorThreshold
      BY <1>5 DEF Tick, ErrorsBounded
    <3>2. mon[m].errors \in Nat
      BY <1>2, <2>3 DEF MonitorStates
    <3> DEFINE b == mon[m].tested + 1 < mon[m].target /\ mon[m].errors + e < ErrorThreshold
    <3>3. mon'[k] = [mon[m] EXCEPT !.tested = mon[m].tested + 1,
                                   !.errors = mon[m].errors + e, !.start = b]
      BY <1>2, <2>1, <2>3
    <3>4. mon'[k].errors = mon[m].errors + e /\ mon'[k].start = b
      <4> HIDE DEF b
      <4> QED
        BY <1>2, <2>3, <3>3 DEF MonitorStates
    <3>5. mon[m].errors + e <= ErrorThreshold
      BY <1>0, <3>1, <3>2
    <3>6. mon'[k].start => mon[m].errors + e < ErrorThreshold
      BY <3>4, Zenon
    <3> QED
      BY <3>4, <3>5, <3>6
  <2> QED
    BY <2>2, <2>3
<1> QED
  BY <1>3, <1>4, <1>5 DEF MonitorNext
=============================================================================
