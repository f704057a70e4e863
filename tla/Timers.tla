------------------------------- MODULE Timers -------------------------------
(***************************************************************************)
(* The two timers a caller may wait on: SoftwareTimer (src/Timer.cc), a    *)
(* word counted up by the waiting loop itself, and HardwareTimer           *)
(* (HalTimerAMD64.cc), which polls a register of the HPET.  The HPET is    *)
(* hardware: its capabilities register, whose upper half is the period,    *)
(* never changes; its counter does, once somebody has enabled it.          *)
(***************************************************************************)
EXTENDS Integers

CONSTANTS
    Top,       \* the largest value of the signed word
    Shift      \* what the upper half of the capabilities register counts for
ASSUME WidthsArePositive == Top \in Nat \ {0} /\ Shift \in Nat \ {0}

Waits == -1 .. Top   \* every argument of the constructors

VARIABLES
    kind,            \* which timer
    fWaitFor,        \* the length of the wait
    fDigitalTimer,   \* the word of the software timer
    compiled,        \* what the build does when the signed sum overflows
    capabilities,    \* the first register of the HPET
    counter,         \* its counter
    phase,           \* "idle", "loop", "fault"
    ended,           \* waits that have returned 0
    turns            \* turns of the loop of the wait at hand

timerVars == <<kind, fWaitFor, fDigitalTimer, compiled, capabilities, counter, phase, ended, turns>>

TimersInit ==
    /\ kind \in {"software", "hardware"}
    /\ fWaitFor \in Waits
    /\ compiled \in {"wraps", "endless"}
    /\ \E period \in 0 .. 2, low \in 0 .. 1 : capabilities = period * Shift + low
    /\ kind = "software" => capabilities = 0
    /\ kind = "hardware" => compiled = "wraps"
    /\ fDigitalTimer = 0 /\ counter = 0 /\ phase = "idle" /\ ended = 0 /\ turns = 0

Wrap(n) == IF n > Top THEN n - 2 * (Top + 1) ELSE n

\* The condition of the loop of SoftwareTimer::Wait.
StillWaiting == compiled = "endless" \/ fDigitalTimer < Wrap(fDigitalTimer + fWaitFor)

HpetPeriod == capabilities \div Shift
Ticks == fWaitFor \div HpetPeriod
PolledCounter == counter

\* cHPETCounterRegValue is 0: the register read is the first one.
Polled == capabilities

Start ==
    /\ phase = "idle" /\ fWaitFor >= 1
    /\ phase' = IF kind = "hardware" /\ HpetPeriod = 0 THEN "fault" ELSE "loop"
    /\ turns' = 0
    /\ UNCHANGED <<kind, fWaitFor, fDigitalTimer, compiled, capabilities, counter, ended>>

Loop ==
    /\ phase = "loop"
    /\ IF kind = "software" THEN StillWaiting ELSE Polled < Ticks
    /\ fDigitalTimer' = IF kind = "software" THEN Wrap(fDigitalTimer + 1) ELSE fDigitalTimer
    /\ turns' = IF turns <= Top THEN turns + 1 ELSE turns
    /\ UNCHANGED <<kind, fWaitFor, compiled, capabilities, counter, phase, ended>>

Return ==
    /\ phase = "loop"
    /\ IF kind = "software" THEN ~StillWaiting ELSE Polled >= Ticks
    /\ phase' = "idle"
    /\ ended' = IF ended < 2 THEN ended + 1 ELSE ended
    /\ UNCHANGED <<kind, fWaitFor, fDigitalTimer, compiled, capabilities, counter, turns>>

\* The counter runs on its own.
Tick ==
    /\ kind = "hardware" /\ counter < Top
    /\ counter' = counter + 1
    /\ UNCHANGED <<kind, fWaitFor, fDigitalTimer, compiled, capabilities, phase, ended, turns>>

TimersNext == Start \/ Loop \/ Return \/ Tick
----------------------------------------------------------------------------
TimersTypeOK ==
    /\ fWaitFor \in Waits /\ fDigitalTimer \in -(Top + 1) .. Top
    /\ phase \in {"idle", "loop", "fault"} /\ ended \in 0 .. 2 /\ turns \in 0 .. Top + 1

\* A software wait that returns has counted until the sum overflows, so the
\* first wait is the longer the shorter it was asked to be, and every later one
\* takes no time: the condition of Timer.cc:41 compares the word with itself.
OverflowEndsWait ==
    kind = "software" /\ phase = "idle" /\ ended > 0
        => turns = IF ended = 1 THEN Top + 1 - fWaitFor ELSE 0

\* A hardware wait returns at once or never: the loop (HalTimerAMD64.cc:82)
\* polls a register that does not change, however long the counter runs.
HardwareNeverWaits ==
    [][kind = "hardware" /\ phase = "loop" /\ phase' = "idle" => turns = 0]_timerVars
=============================================================================
