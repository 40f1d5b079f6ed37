------------------------------ MODULE GameClock ------------------------------
(***************************************************************************)
(* platform_clock.cc: the clock that the frames of the game, the realtime  *)
(* of the server and the handshakes of NetworkSetup go by.  It counts the  *)
(* cycles of the processor in unsigned integers that wrap.                 *)
(***************************************************************************)
EXTENDS Integers, Sequences, SequencesExt, FiniteSets

CONSTANTS
  Wrap,        \* 2^64
  Shift,       \* 2^33, the scale of median_usec_per_tsc
  Msec,        \* microseconds of a millisecond (1000); CLOCKS_PER_SEC is Msec^2
  Rate,        \* cycles per millisecond of the processor
  Precision,   \* float arithmetic is off by less than one part in this (2^21)
  MaxSamples,  \* MAX_SAMPLES of clock_init (10)
  Samples,     \* the cycles and microseconds that a sample of clock_init may count
  Goal,        \* frame_goal_usec
  Starts,      \* the counter when the clock is made
  MaxDelta,    \* bounds of the model: cycles between two readings
  MaxElapsed   \* and of a behaviour

ASSUME ClockAssumption ==
  /\ Wrap \in Nat \ {0}
  /\ Shift \in Nat \ {0}
  /\ Msec \in Nat \ {0}
  /\ Rate \in Nat \ {0}
  /\ Precision \in Nat \ {0, 1}
  /\ MaxSamples \in Nat \ {0}
  /\ Goal \in Nat \ {0}
  /\ \A s \in Samples : /\ s.usec \in Nat /\ s.usec >= Msec
                        /\ s.cycles \in Nat /\ s.cycles >= 2 * Msec
  /\ Starts \subseteq 0 .. Wrap - 1
  /\ MaxDelta \in Nat

VARIABLES
  samples,              \* what clock_init has counted
  median_tsc_per_usec,
  tsc,                  \* the processor's counter, when it was last read
  tsc_clock,
  frame_to_frame_tsc,
  jerk,
  sleep_usec,           \* what clock_sync last asked its caller to sleep
  synced,               \* whether it last returned true
  elapsed,              \* history: cycles since clock_init
  steps                 \* history: how often clock_sync has returned true

clockvars == <<samples, median_tsc_per_usec, tsc, tsc_clock,
               frame_to_frame_tsc, jerk, sleep_usec, synced, elapsed, steps>>

\* What a sample makes of the rate: it multiplies its cycles by its microseconds,
\* where it should divide, so that only a sample of one millisecond measures it.
\* The product is a float, which rounds, and then loses its fraction.
TscPerUsec(s) ==
  LET product == s.cycles * s.usec
      unit == (Msec * Msec) * Precision
  IN  (product * (Precision - 1)) \div unit .. (product * (Precision + 1)) \div unit

\* The one in the middle of the sorted values.
Median(value) ==
  LET upTo(v) == {i \in 1 .. MaxSamples : value[i] <= v}
  IN  Min({v \in Range(value) : Cardinality(upTo(v)) > MaxSamples \div 2})

tsc_step == Goal * median_tsc_per_usec

median_usec_per_tsc == Shift \div median_tsc_per_usec

\* (Bug: the number of microseconds is rounded up.)
RoundUp(delta) == ((delta * median_usec_per_tsc + Shift - 1) % Wrap) \div Shift

tscdelta_to_usec(delta) == ((delta * median_usec_per_tsc) % Wrap) \div Shift

delta_usec == tscdelta_to_usec((tsc - frame_to_frame_tsc) % Wrap)

ClockInit ==
  /\ samples \in [1 .. MaxSamples -> Samples]
  /\ \E value \in [1 .. MaxSamples -> UNION {TscPerUsec(s) : s \in Range(samples)}] :
       /\ \A i \in 1 .. MaxSamples : value[i] \in TscPerUsec(samples[i])
       /\ median_tsc_per_usec = Median(value)
  /\ tsc \in Starts
  /\ tsc_clock = tsc
  /\ frame_to_frame_tsc = tsc
  /\ jerk = 0
  /\ sleep_usec = 0
  /\ synced = TRUE
  /\ elapsed = 0
  /\ steps = 0

-----------------------------------------------------------------------------
\* (Bug: the counters are compared as numbers.)
EarlyByOrder(now, next) == now < next

\* Before the next step of the clock: the unsigned difference is small.
Early(now, next) == (next - now) % Wrap < tsc_step

SlightlyOver(now, next) == (now - next) % Wrap <= tsc_step

Advance(now, next) == IF SlightlyOver(now, next) THEN next ELSE now

Read(d) ==
  /\ elapsed + d <= MaxElapsed
  /\ elapsed' = elapsed + d
  /\ tsc' = (tsc + d) % Wrap

\* clock_sync, d cycles after the counter was last read, whatever its caller did
\* meanwhile: it worked, spun, or slept, on win32 not at all, in the server,
\* where sleep_usec may never have been set, for any time.
clock_sync(d) ==
  /\ Read(d)
  /\ LET next == (tsc_clock + tsc_step) % Wrap
     IN  IF Early(tsc', next)
           THEN /\ sleep_usec' = tscdelta_to_usec((next - tsc') % Wrap)
                /\ synced' = FALSE
                /\ UNCHANGED <<tsc_clock, jerk, frame_to_frame_tsc, steps>>
           ELSE /\ tsc_clock' = Advance(tsc', next)
                /\ jerk' = IF SlightlyOver(tsc', next) THEN jerk ELSE jerk + 1
                /\ frame_to_frame_tsc' = tsc'
                /\ synced' = TRUE
                /\ steps' = steps + 1
                /\ UNCHANGED sleep_usec
  /\ UNCHANGED <<samples, median_tsc_per_usec>>

\* The counter advances between two readings.
ClockNext == \E d \in 1 .. MaxDelta : clock_sync(d)

ClockSpec == ClockInit /\ [][ClockNext]_clockvars

-----------------------------------------------------------------------------
(* Properties. *)

\* At least half of the samples have counted as many cycles as the processor makes
\* in their microseconds, or more: a sample counts fewer if it began within a tick
\* of clock().
MostSamplesCount ==
  2 * Cardinality({i \in 1 .. MaxSamples :
                     samples[i].cycles * Msec < Rate * samples[i].usec}) <= MaxSamples

\* So many microseconds of the processor's true rate, which need be no number of
\* cycles, are over after these cycles, but for what the median loses of the rate:
\* less than a cycle per microsecond, and the error of the float.
OverAfter(usec, cycles) ==
  usec * (Rate * (Precision - 1)) <= (cycles + usec) * (Msec * Precision)

\* The clock never runs ahead of the processor, so that the server, whose
\* realtime_usec counts its steps, drops nobody too early, and frames are never
\* rushed; and as long as no jerk is counted it keeps the rhythm, late frames
\* included, so that the next frames make up for them.
ClockNeverAhead ==
  /\ steps * tsc_step <= elapsed
  /\ MostSamplesCount => OverAfter(steps * Goal, elapsed)
  /\ jerk = 0 => (elapsed - steps * tsc_step) % Wrap = (tsc - tsc_clock) % Wrap

\* Whoever sleeps as long as clock_sync says is awake in time for the next step
\* of the clock, and the time of a frame that is shown is never more than it took:
\* exactly by the rate that clock_init has found, and by the true one as far as
\* that is right.
SleepsNoLonger ==
  LET remaining == (tsc_clock + tsc_step - tsc) % Wrap
  IN  /\ ~synced => sleep_usec * median_tsc_per_usec <= remaining
      /\ delta_usec * median_tsc_per_usec <= elapsed
      /\ MostSamplesCount => /\ ~synced => OverAfter(sleep_usec, remaining)
                             /\ OverAfter(delta_usec, elapsed)
==============================================================================
