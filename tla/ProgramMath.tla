----------------------------- MODULE ProgramMath -----------------------------
(***************************************************************************)
(* The arithmetic of the settlement program                                *)
(* (chain/programs/oxude_settlement/src/lib.rs): the limits that are       *)
(* written in chips and converted at the season's rate, the outflow        *)
(* window of a vault, the band a new rate must stay in, and what an exit   *)
(* pays.  Every amount is a u64 of base units; U64Max is the largest one,  *)
(* so that a checked multiplication that overflows is a refusal here too.  *)
(***************************************************************************)
EXTENDS Naturals

CONSTANTS
  U64Max,                         \* 2^64 - 1
  WINDOW_SLOTS,                   \* an outflow window
  MAX_CHIP_RATE,                  \* the most base units one chip may cost
  MIN_RATE_INTERVAL_SLOTS,        \* how long a rate must stand
  MAX_SETTLEMENT_CEILING_CHIPS,   \* the ceiling on max_settlement, in chips
  OUTFLOW_FLOOR_CHIPS,            \* what any vault may pay in a window, in chips
  MIN_EXIT_WINDOW_SLOTS,          \* the shortest exit window
  MIN_STAKE_CHIPS                 \* the least a vault may be left holding, in chips

ASSUME LimitsAssumption ==
  /\ {U64Max, WINDOW_SLOTS, MIN_RATE_INTERVAL_SLOTS, OUTFLOW_FLOOR_CHIPS} \subseteq Nat
  /\ {MAX_CHIP_RATE, MAX_SETTLEMENT_CEILING_CHIPS, MIN_EXIT_WINDOW_SLOTS, MIN_STAKE_CHIPS}
       \subseteq Nat \ {0}

U64 == 0 .. U64Max

Larger(x, y)  == IF x >= y THEN x ELSE y
Smaller(x, y) == IF x <= y THEN x ELSE y

\* Rust's saturating_add and saturating_mul.
Saturated(n) == Smaller(n, U64Max)

\* An amount in chips at a rate; the caller's guard is Fits, checked_mul's Some.
InBaseUnits(chips, rate) == chips * rate
Fits(n) == n <= U64Max

\* The most a vault holding `held` may pay through settlements in one window.
OutflowCap(held, rate) == Larger(Saturated(OUTFLOW_FLOOR_CHIPS * rate), held \div 4)

\* The budget after charging `amount` at `slot`: a window that has run its
\* course starts again from this slot.
Charged(outflow, slot, amount) ==
  IF slot >= Saturated(outflow.window_start + WINDOW_SLOTS)
    THEN [window_start |-> slot, spent |-> amount]
    ELSE [outflow EXCEPT !.spent = @ + amount]

\* A new rate is within half of the one in place, either way.
RateWithinBand(previous, next) ==
  /\ Fits(2 * next) /\ Fits(3 * previous)
  /\ 2 * next >= previous
  /\ 2 * next <= 3 * previous

\* Zero is "the rate has never moved".
RateIntervalPassed(last, slot) ==
  \/ last = 0
  \/ slot >= Saturated(last + MIN_RATE_INTERVAL_SLOTS)

\* A per-settlement limit rescaled so that it means the same number of chips;
\* and two wrong ways: left as it was, and rounded up.
NotRescaled(limit, previous, next) == limit
RoundedUp(limit, previous, next)   == (limit * next + previous - 1) \div previous
Rescaled(limit, previous, next) == (limit * next) \div previous

\* Growing the exit window is free; shrinking is at most by half in one step.
WindowShrinkOk(previous, next) == Saturated(2 * next) >= previous

\* At most what was asked, at most what is there, never leaving dust behind; and
\* the same without a look at what is left.
LeavesDust(asked, held, minStake) == Smaller(asked, held)
ExitPayout(asked, held, minStake) ==
  LET pay       == Smaller(asked, held)
      remainder == held - pay
  IN  IF 0 < remainder /\ remainder < minStake THEN held ELSE pay

\* What a withdrawal may leave: nothing, or enough to play.
Playable(remaining, minStake) == remaining = 0 \/ remaining >= minStake
=============================================================================
