----------------------- MODULE SettlementProgramProofs -----------------------
(* Theorems about the settlement program, for every value of its constants. *)
EXTENDS SettlementProgram, Sums

USE DEF U64, Fits, InBaseUnits, Larger, Smaller, Saturated

\* What a window has been charged is what it was charged before, or nothing
\* if it has run its course, plus this payment.
LEMMA ChargedType ==
  ASSUME NEW o \in [window_start: Nat, spent: Nat], NEW s \in Nat, NEW x \in Nat
  PROVE  Charged(o, s, x) \in [window_start: Nat, spent: Nat]
BY DEF Charged

\* An exit pays no more than the vault holds, pays something from a vault that
\* holds something, and leaves nothing or at least the minimum stake.
LEMMA ExitPayoutSafe ==
  ASSUME NEW asked \in Nat \ {0}, NEW held \in Nat \ {0}, NEW minStake \in Nat
  PROVE  /\ ExitPayout(asked, held, minStake) \in 1 .. held
         /\ held - ExitPayout(asked, held, minStake) = 0
              \/ held - ExitPayout(asked, held, minStake) >= minStake
         /\ ExitPayout(asked, held, minStake) > asked
              => ExitPayout(asked, held, minStake) = held
BY DEF ExitPayout

\* A limit under the ceiling at one rate is under it once rescaled to another.
LEMMA RescaledUnderCeiling ==
  ASSUME NEW limit \in Nat, NEW c \in Nat, NEW p \in Nat \ {0}, NEW n \in Nat,
         limit <= c * p
  PROVE  /\ Rescaled(limit, p, n) \in Nat
         /\ Rescaled(limit, p, n) * p <= limit * n
         /\ Rescaled(limit, p, n) <= c * n
<1> DEFINE q == (limit * n) \div p
<1>1. limit * n \in Nat
  OBVIOUS
<1>2. q \in Nat /\ q * p <= limit * n
  BY <1>1
<1>3. limit * n <= (c * p) * n
  OBVIOUS
<1>4. q <= c * n
  <2>1. SUFFICES ASSUME q >= c * n + 1 PROVE FALSE
    BY <1>2
  <2>2. q * p >= (c * n + 1) * p
    BY <1>2, <2>1
  <2>3. (c * n + 1) * p = (c * p) * n + p
    OBVIOUS
  <2> QED
    BY <1>1, <1>2, <1>3, <2>2, <2>3
<1> QED
  BY <1>2, <1>4 DEF Rescaled
-----------------------------------------------------------------------------
(* The type invariant.                                                     *)

\* The arguments an instruction is sent with are u64s.
LEMMA ArgumentsTyped ==
  /\ Amounts \subseteq Nat /\ Rates \subseteq Nat /\ Limits \subseteq Nat
  /\ Rents \subseteq Nat /\ ExitWindows \subseteq Nat /\ Purse \in Nat
BY LimitsAssumption, ProgramAssumption

LEMMA LimitsTyped ==
  /\ U64Max \in Nat /\ WINDOW_SLOTS \in Nat /\ OUTFLOW_FLOOR_CHIPS \in Nat
  /\ MIN_EXIT_WINDOW_SLOTS \in Nat \ {0}
  /\ MAX_SETTLEMENT_CEILING_CHIPS \in Nat \ {0} /\ MIN_STAKE_CHIPS \in Nat \ {0}
BY LimitsAssumption

LEMMA RescaledType ==
  ASSUME NEW limit \in Nat, NEW p \in Nat \ {0}, NEW n \in Nat
  PROVE  Rescaled(limit, p, n) \in Nat
<1>1. limit * n \in Nat
  OBVIOUS
<1> QED
  BY <1>1 DEF Rescaled

LEMMA ClaimedType ==
  ASSUME NEW e \in Exit, NEW s \in Nat, NEW x \in Nat
  PROVE  [e EXCEPT !.claimed_slot = s, !.claimed_amount = x] \in Exit
BY DEF Exit

LEMMA TypeInit == Init => TypeOK
<1> SUFFICES ASSUME Init PROVE TypeOK
  OBVIOUS
<1>1. config \in Config
  BY ArgumentsTyped DEF Init, Config
<1>2. peak \in [Agents -> [held: Nat, rate: Nat]]
  BY <1>1 DEF Init, Config
<1> QED
  BY <1>1, <1>2, ArgumentsTyped DEF Init, TypeOK

LEMMA TypeAdmin ==
  ASSUME TypeOK, AdminStep
  PROVE  TypeOK'
<1> USE ArgumentsTyped DEF TypeOK, Config
<1>1. ASSUME NEW r \in Rates, SetChipRate(r) PROVE TypeOK'
  <2>1. r \in Nat \ {0} /\ config.chip_rate \in Nat \ {0} /\ config.max_settlement \in Nat
    BY <1>1 DEF SetChipRate
  <2>3. Rescaled(config.max_settlement, config.chip_rate, r) \in Nat
    BY <2>1, RescaledType
  <2>4. config' \in Config
    BY <1>1, <2>1, <2>3 DEF SetChipRate
  <2>5. peak' \in [Agents -> [held: Nat, rate: Nat]]
    BY <1>1, <2>1 DEF SetChipRate, Raised
  <2> QED
    BY <1>1, <2>4, <2>5 DEF SetChipRate
<1>2. ASSUME NEW r \in Rents, SetRent(r) PROVE TypeOK'
  BY <1>2 DEF SetRent, OnlyConfig, historyVars
<1>3. ASSUME NEW m \in Limits, SetMaxSettlement(m) PROVE TypeOK'
  BY <1>3 DEF SetMaxSettlement, OnlyConfig, historyVars
<1>4. ASSUME NEW k \in Settlers, SetSettler(k) PROVE TypeOK'
  BY <1>4 DEF SetSettler, OnlyConfig, historyVars
<1>5. ASSUME NEW w \in ExitWindows, InitExitConfig(w) PROVE TypeOK'
  BY <1>5 DEF InitExitConfig, OnlyExitConfig, historyVars
<1>6. ASSUME NEW w \in ExitWindows, SetExitWindow(w) PROVE TypeOK'
  BY <1>6 DEF SetExitWindow, OnlyExitConfig, historyVars
<1> QED
  BY <1>1, <1>2, <1>3, <1>4, <1>5, <1>6 DEF AdminStep

LEMMA TypeSettler ==
  ASSUME TypeOK, NEW s \in Settlers, SettlerStep(s)
  PROVE  TypeOK'
<1> USE ArgumentsTyped DEF TypeOK
<1>1. ASSUME NEW p \in Players, NEW id \in RentalIds, NEW x \in Rents, PayRent(s, p, id, x)
      PROVE TypeOK'
  <2>1. x \in Nat /\ wallet[p] >= x
    BY <1>1 DEF PayRent
  <2>2. wallet' \in [Players -> Nat] /\ burned' \in Nat /\ rentals' \subseteq RentalIds
    BY <1>1, <2>1 DEF PayRent
  <2> QED
    BY <1>1, <2>2 DEF PayRent, historyVars
<1>2. ASSUME NEW a \in Agents, OpenVault(s, a) PROVE TypeOK'
  BY <1>2 DEF OpenVault, OnlyVaultOpens, historyVars
<1>3. ASSUME NEW a \in Agents, NEW p \in Players, OpenOwnedVault(s, a, p) PROVE TypeOK'
  BY <1>3 DEF OpenOwnedVault, OnlyVaultOpens, historyVars
<1>4. ASSUME NEW m \in Matches, NEW f \in Agents, NEW t \in Agents, NEW x \in Amounts,
             Settle(s, m, f, t, x)
      PROVE TypeOK'
  <2>1. x \in Nat /\ vault[f] >= x
    BY <1>4 DEF Settle, Covers, WithinCap
  <2>2. Charged(outflow[f], slot, x) \in [window_start: Nat, spent: Nat]
    BY <2>1, ChargedType
  <2>3. outflow' \in [Agents -> [window_start: Nat, spent: Nat]]
    BY <1>4, <2>2 DEF Settle, Covers, WithinCap
  <2>4. vault' \in [Agents -> Nat]
    BY <1>4, <2>1 DEF Settle, Covers, WithinCap
  <2>5. settlements' \subseteq Settlement
    BY <1>4, <2>1 DEF Settle, Covers, WithinCap, Settlement
  <2>6. peak' \in [Agents -> [held: Nat, rate: Nat]]
    BY <1>4, <2>1 DEF Settle, Covers, WithinCap, Raised, Config
  <2> QED
    BY <1>4, <2>3, <2>4, <2>5, <2>6 DEF Settle, Covers, WithinCap
<1>5. ASSUME NEW p \in Players, NEW id \in WithdrawalIds, NEW a \in Agents,
             NEW x \in Amounts, NEW r \in Amounts, Withdraw(s, p, id, a, x, r)
      PROVE TypeOK'
  <2>1. x \in Nat /\ r \in Nat /\ vault[a] >= x
    BY <1>5 DEF Withdraw, Covers, Playable
  <2>2. vault' \in [Agents -> Nat] /\ wallet' \in [Players -> Nat]
    BY <1>5, <2>1 DEF Withdraw, Covers, Playable
  <2>3. withdrawals' \subseteq Withdrawal
    BY <1>5, <2>1 DEF Withdraw, Covers, Playable, Withdrawal
  <2> QED
    BY <1>5, <2>2, <2>3 DEF Withdraw, Covers, Playable, historyVars
<1> QED
  BY <1>1, <1>2, <1>3, <1>4, <1>5 DEF SettlerStep

LEMMA TypeOwner ==
  ASSUME TypeOK, NEW p \in Players, OwnerStep(p)
  PROVE  TypeOK'
<1> USE ArgumentsTyped DEF TypeOK
<1>1. ASSUME NEW a \in Agents, NEW x \in Amounts, Deposit(p, a, x) PROVE TypeOK'
  <2>1. x \in Nat /\ wallet[p] >= x
    BY <1>1 DEF Deposit
  <2>2. /\ vault' \in [Agents -> Nat] /\ wallet' \in [Players -> Nat]
        /\ funded' \in [Agents -> Nat] /\ peak' \in [Agents -> [held: Nat, rate: Nat]]
    BY <1>1, <2>1 DEF Deposit, Raised, Config
  <2> QED
    BY <1>1, <2>2 DEF Deposit
<1>2. ASSUME NEW a \in Agents, NEW x \in Amounts, RequestExit(p, a, x) PROVE TypeOK'
  <2>1. x \in Nat /\ Saturated(slot + exit_config) \in Nat
    BY LimitsTyped
  <2>2. exits' \in [Agents -> Exit \cup {NoExit}]
    BY <1>2, <2>1 DEF RequestExit, Exit
  <2> QED
    BY <1>2, <2>2 DEF RequestExit, historyVars
<1>3. ASSUME NEW a \in Agents, ClaimExit(p, a) PROVE TypeOK'
  <2> DEFINE payout == ExitPayout(exits[a].amount, vault[a], MinStake)
  <2>1. MinStake \in Nat
    BY LimitsTyped DEF MinStake, Config
  <2>2. exits[a] \in Exit
    BY <1>3 DEF ClaimExit, Claimable
  <2>3. payout \in 0 .. vault[a]
    BY <1>3, <2>1, <2>2 DEF ClaimExit, Claimable, Exit, ExitPayout
  <2>4. /\ vault' \in [Agents -> Nat] /\ wallet' \in [Players -> Nat]
        /\ exited' \in [Agents -> Nat]
    BY <1>3, <2>3 DEF ClaimExit, Claimable
  <2>5. exits' \in [Agents -> Exit \cup {NoExit}]
    <3> DEFINE claimed == [exits[a] EXCEPT !.claimed_slot = slot, !.claimed_amount = payout]
    <3>1. claimed \in Exit
      <4>1. slot \in Nat /\ payout \in Nat
        BY <2>3
      <4> HIDE DEF payout
      <4> QED
        BY <2>2, <4>1, ClaimedType
    <3>2. exits' = [exits EXCEPT ![a] = claimed]
      BY <1>3 DEF ClaimExit, Claimable
    <3> HIDE DEF claimed
    <3> QED
      BY <3>1, <3>2
  <2> QED
    BY <1>3, <2>4, <2>5 DEF ClaimExit, Claimable
<1>4. ASSUME NEW a \in Agents, CloseExit(p, a) PROVE TypeOK'
  BY <1>4 DEF CloseExit, Closable, historyVars
<1> QED
  BY <1>1, <1>2, <1>3, <1>4 DEF OwnerStep

\* Every reachable state is well typed: in particular no vault and no wallet
\* ever goes below zero, and an owner record exists only beside its vault.
THEOREM TypeCorrect == Spec => []TypeOK
<1>1. TypeOK /\ [Next]_vars => TypeOK'
  <2> SUFFICES ASSUME TypeOK, [Next]_vars PROVE TypeOK'
    OBVIOUS
  <2>1. CASE Tick
    BY <2>1 DEF Tick, TypeOK, historyVars
  <2>2. CASE AdminStep
    BY <2>2, TypeAdmin
  <2>3. CASE \E s \in Settlers : SettlerStep(s)
    BY <2>3, TypeSettler
  <2>4. CASE \E p \in Players : OwnerStep(p)
    BY <2>4, TypeOwner
  <2>5. CASE UNCHANGED vars
    BY <2>5 DEF vars, chainVars, historyVars, TypeOK
  <2> QED
    BY <2>1, <2>2, <2>3, <2>4, <2>5 DEF Next
<1> QED
  BY TypeInit, <1>1, PTL DEF Spec
-----------------------------------------------------------------------------
(* The limits.                                                             *)

\* Only four instructions write the config, and all four are the admin's.
LEMMA ConfigWriters ==
  ASSUME [Next]_vars
  PROVE  \/ UNCHANGED config
         \/ \E r \in Rates : SetChipRate(r)
         \/ \E r \in Rents : SetRent(r)
         \/ \E m \in Limits : SetMaxSettlement(m)
         \/ \E k \in Settlers : SetSettler(k)
<1>1. CASE AdminStep
  BY <1>1 DEF AdminStep, InitExitConfig, SetExitWindow, OnlyExitConfig
<1>2. ASSUME NEW s \in Settlers, SettlerStep(s) PROVE UNCHANGED config
  BY <1>2 DEF SettlerStep, PayRent, OpenVault, OpenOwnedVault, OnlyVaultOpens, Settle, Withdraw
<1>3. ASSUME NEW p \in Players, OwnerStep(p) PROVE UNCHANGED config
  BY <1>3 DEF OwnerStep, Deposit, RequestExit, ClaimExit, Claimable, CloseExit, Closable
<1>4. CASE Tick
  BY <1>4 DEF Tick
<1>5. CASE UNCHANGED vars
  BY <1>5 DEF vars, chainVars
<1> QED
  BY <1>1, <1>2, <1>3, <1>4, <1>5 DEF Next

\* However the rate moves after the limit was set, the most one settlement may
\* move stays under the ceiling at the rate of the day.
THEOREM LimitUnderCeiling == Spec => []MaxSettlementUnderCeiling
<1> DEFINE Inv == MaxSettlementUnderCeiling
<1>1. Init => Inv
  <2> SUFFICES ASSUME Init PROVE Inv
    OBVIOUS
  <2> QED
    BY DEF Init, MaxSettlementUnderCeiling, Ceiling
<1>2. TypeOK /\ Inv /\ [Next]_vars => Inv'
  <2> SUFFICES ASSUME TypeOK, Inv, [Next]_vars PROVE Inv'
    OBVIOUS
  <2>1. ASSUME NEW r \in Rates, SetChipRate(r) PROVE Inv'
    <3> DEFINE limit == config.max_settlement
               c     == MAX_SETTLEMENT_CEILING_CHIPS
    <3>1. r \in Nat /\ config.chip_rate \in Nat \ {0} /\ limit \in Nat /\ c \in Nat
      BY ArgumentsTyped, LimitsTyped DEF TypeOK, Config
    <3>2. limit <= c * config.chip_rate
      BY DEF MaxSettlementUnderCeiling, Ceiling
    <3>3. Rescaled(limit, config.chip_rate, r) <= c * r
      BY <3>1, <3>2, RescaledUnderCeiling
    <3>4. config'.max_settlement = Rescaled(limit, config.chip_rate, r) /\ config'.chip_rate = r
      BY <2>1 DEF SetChipRate, TypeOK, Config
    <3> QED
      BY <3>3, <3>4 DEF MaxSettlementUnderCeiling, Ceiling
  <2>2. ASSUME NEW m \in Limits, SetMaxSettlement(m) PROVE Inv'
    BY <2>2 DEF SetMaxSettlement, MaxSettlementUnderCeiling, Ceiling, TypeOK, Config
  <2>3. ASSUME config'.max_settlement = config.max_settlement, config'.chip_rate = config.chip_rate
        PROVE  Inv'
    BY <2>3 DEF MaxSettlementUnderCeiling, Ceiling
  <2>4. ASSUME NEW r \in Rents, SetRent(r) PROVE Inv'
    BY <2>3, <2>4 DEF SetRent, TypeOK, Config
  <2>5. ASSUME NEW k \in Settlers, SetSettler(k) PROVE Inv'
    BY <2>3, <2>5 DEF SetSettler, TypeOK, Config
  <2>6. CASE UNCHANGED config
    BY <2>3, <2>6
  <2> QED
    BY <2>1, <2>2, <2>4, <2>5, <2>6, ConfigWriters
<1> QED
  BY <1>1, <1>2, TypeCorrect, PTL DEF Spec

\* A rate change never lets one settlement move more chips than it could before.
THEOREM LimitKeepsItsChips == Spec => LimitNeverMeansMoreChips
<1>1. TypeOK /\ MaxSettlementUnderCeiling /\ [Next]_vars
        => [config'.chip_rate # config.chip_rate =>
              config'.max_settlement * config.chip_rate
                <= config.max_settlement * config'.chip_rate]_vars
  <2> SUFFICES ASSUME TypeOK, MaxSettlementUnderCeiling, [Next]_vars,
                      config'.chip_rate # config.chip_rate
               PROVE  config'.max_settlement * config.chip_rate
                        <= config.max_settlement * config'.chip_rate
    OBVIOUS
  <2>1. PICK r \in Rates : SetChipRate(r)
    BY ConfigWriters DEF SetRent, SetMaxSettlement, SetSettler, TypeOK, Config
  <2>2. /\ r \in Nat /\ config.chip_rate \in Nat \ {0} /\ config.max_settlement \in Nat
        /\ config.max_settlement <= MAX_SETTLEMENT_CEILING_CHIPS * config.chip_rate
        /\ MAX_SETTLEMENT_CEILING_CHIPS \in Nat
    BY ArgumentsTyped, LimitsTyped DEF TypeOK, Config, MaxSettlementUnderCeiling, Ceiling
  <2>3. /\ config'.max_settlement = Rescaled(config.max_settlement, config.chip_rate, r)
        /\ config'.chip_rate = r
    BY <2>1 DEF SetChipRate, TypeOK, Config
  <2> QED
    BY <2>2, <2>3, RescaledUnderCeiling
<1> QED
  BY <1>1, TypeCorrect, LimitUnderCeiling, PTL DEF Spec, LimitNeverMeansMoreChips
-----------------------------------------------------------------------------
(* The outflow window.                                                     *)

\* A larger balance and a higher rate never lower the cap.
LEMMA OutflowCapMonotonic ==
  ASSUME NEW h \in Nat, NEW g \in Nat, NEW q \in Nat, NEW r \in Nat, h <= g, q <= r
  PROVE  OutflowCap(h, q) <= OutflowCap(g, r)
<1>1. OUTFLOW_FLOOR_CHIPS * q \in Nat /\ OUTFLOW_FLOOR_CHIPS * r \in Nat
  BY LimitsTyped
<1>2. OUTFLOW_FLOOR_CHIPS * q <= OUTFLOW_FLOOR_CHIPS * r
  BY LimitsTyped
<1>3. h \div 4 <= g \div 4 /\ h \div 4 \in Nat /\ g \div 4 \in Nat
  OBVIOUS
<1> QED
  BY <1>1, <1>2, <1>3, LimitsTyped DEF OutflowCap

LEMMA OutflowCapType ==
  ASSUME NEW h \in Nat, NEW r \in Nat
  PROVE  OutflowCap(h, r) \in Nat
<1>1. OUTFLOW_FLOOR_CHIPS * r \in Nat /\ h \div 4 \in Nat
  BY LimitsTyped
<1> QED
  BY <1>1, LimitsTyped DEF OutflowCap

\* The inductive form: the history really is at least what the vault holds and
\* what a chip costs now.
PeakCovers ==
  \A a \in Agents : vault[a] <= peak[a].held /\ config.chip_rate <= peak[a].rate
OutflowInv == TypeOK /\ PeakCovers /\ OutflowBounded

LEMMA OutflowInit == Init => OutflowInv
<1> SUFFICES ASSUME Init PROVE OutflowInv
  OBVIOUS
<1>1. TypeOK
  BY TypeInit
<1>2. PeakCovers
  BY <1>1 DEF Init, PeakCovers, TypeOK, Config
<1>3. OutflowBounded
  <2> SUFFICES ASSUME NEW a \in Agents
               PROVE  outflow[a].spent <= OutflowCap(peak[a].held, peak[a].rate)
    BY DEF OutflowBounded
  <2>1. outflow[a].spent = 0 /\ peak[a].held \in Nat /\ peak[a].rate \in Nat
    BY <1>1 DEF Init, TypeOK
  <2>2. OUTFLOW_FLOOR_CHIPS * peak[a].rate \in Nat /\ peak[a].held \div 4 \in Nat
    BY <2>1, LimitsTyped
  <2> QED
    BY <2>1, <2>2, LimitsTyped DEF OutflowCap
<1> QED
  BY <1>1, <1>2, <1>3 DEF OutflowInv

\* An agent whose window is not charged keeps the bound when its peak rises.
LEMMA BoundKept ==
  ASSUME OutflowInv, TypeOK', NEW a \in Agents, outflow'[a] = outflow[a],
         peak'[a].held >= peak[a].held, peak'[a].rate >= peak[a].rate
  PROVE  outflow'[a].spent <= OutflowCap(peak'[a].held, peak'[a].rate)
<1>1. OutflowCap(peak[a].held, peak[a].rate) <= OutflowCap(peak'[a].held, peak'[a].rate)
  BY OutflowCapMonotonic DEF OutflowInv, TypeOK
<1>2. outflow[a].spent <= OutflowCap(peak[a].held, peak[a].rate)
  BY DEF OutflowInv, OutflowBounded
<1>4. /\ OutflowCap(peak[a].held, peak[a].rate) \in Nat
      /\ OutflowCap(peak'[a].held, peak'[a].rate) \in Nat /\ outflow[a].spent \in Nat
  BY OutflowCapType DEF OutflowInv, TypeOK
<1> QED
  BY <1>1, <1>2, <1>4

\* A settlement charges the payer within the cap of what it holds, which is at
\* most its peak; the window restarts only with the history.
LEMMA SettleKeepsOutflow ==
  ASSUME OutflowInv, TypeOK', NEW s \in Settlers, NEW m \in Matches, NEW f \in Agents,
         NEW t \in Agents, NEW x \in Amounts, Settle(s, m, f, t, x)
  PROVE  OutflowInv'
<1> USE DEF OutflowInv
<1> DEFINE charged == Charged(outflow[f], slot, x)
<1>1. /\ x \in Nat /\ x <= vault[f] /\ f # t
      /\ vault[f] \in Nat /\ config.chip_rate \in Nat /\ config' = config
      /\ vault' = [vault EXCEPT ![f] = @ - x, ![t] = @ + x]
      /\ outflow' = [outflow EXCEPT ![f] = charged]
      /\ charged.spent <= OutflowCap(vault[f], config.chip_rate)
  BY ArgumentsTyped DEF Settle, Covers, WithinCap, TypeOK, Config
<1>2. /\ peak'[f].held >= vault[f] /\ peak'[f].rate >= config.chip_rate
      /\ peak'[f].held \in Nat /\ peak'[f].rate \in Nat
  BY <1>1 DEF Settle, Covers, WithinCap, PeakCovers, TypeOK
<1>3. /\ peak'[t].held >= peak[t].held /\ peak'[t].held >= vault[t] + x
      /\ peak'[t].rate >= peak[t].rate /\ peak'[t].rate >= config.chip_rate
  BY <1>1 DEF Settle, Covers, WithinCap, Raised, TypeOK
<1>4. \A a \in Agents \ {f, t} :
         peak'[a] = peak[a] /\ vault'[a] = vault[a] /\ outflow'[a] = outflow[a]
  BY <1>1 DEF Settle, Covers, WithinCap, TypeOK
<1>5. PeakCovers'
  <2> SUFFICES ASSUME NEW a \in Agents
               PROVE  vault'[a] <= peak'[a].held /\ config'.chip_rate <= peak'[a].rate
    BY DEF PeakCovers
  <2>1. CASE a = f
    BY <1>1, <1>2, <2>1 DEF TypeOK
  <2>2. CASE a = t
    BY <1>1, <1>3, <2>2 DEF TypeOK
  <2>3. CASE a \notin {f, t}
    BY <1>1, <1>4, <2>3 DEF PeakCovers
  <2> QED
    BY <2>1, <2>2, <2>3
<1>6. OutflowBounded'
  <2> SUFFICES ASSUME NEW a \in Agents
               PROVE  outflow'[a].spent <= OutflowCap(peak'[a].held, peak'[a].rate)
    BY DEF OutflowBounded
  <2>1. CASE a = f
    <3>1. OutflowCap(vault[f], config.chip_rate) <= OutflowCap(peak'[f].held, peak'[f].rate)
      BY <1>1, <1>2, OutflowCapMonotonic
    <3>2. outflow'[f] = charged /\ charged.spent \in Nat
      BY <1>1, ChargedType DEF TypeOK
    <3>3. /\ OutflowCap(vault[f], config.chip_rate) \in Nat
          /\ OutflowCap(peak'[f].held, peak'[f].rate) \in Nat
      BY <1>1, <1>2, OutflowCapType
    <3> HIDE DEF charged
    <3> QED
      BY <1>1, <2>1, <3>1, <3>2, <3>3
  <2>2. CASE a # f
    <3> HIDE DEF charged
    <3>1. outflow'[a] = outflow[a]
      BY <1>1, <2>2 DEF TypeOK
    <3>2. peak[a].held \in Nat /\ peak[a].rate \in Nat
      BY DEF TypeOK
    <3>3. peak'[a].held >= peak[a].held /\ peak'[a].rate >= peak[a].rate
      BY <1>3, <1>4, <2>2, <3>2
    <3> QED
      BY <3>1, <3>3, BoundKept
  <2> QED
    BY <2>1, <2>2
<1> QED
  BY <1>5, <1>6

\* Every other step leaves the windows alone, and raises the history wherever
\* it raises a balance or the rate.
LEMMA OthersKeepOutflow ==
  ASSUME OutflowInv, TypeOK', UNCHANGED outflow,
         \A a \in Agents : /\ peak'[a].held >= peak[a].held /\ peak'[a].rate >= peak[a].rate
                           /\ peak'[a].held >= vault'[a] /\ peak'[a].rate >= config'.chip_rate
  PROVE  OutflowInv'
<1>1. PeakCovers'
  BY DEF PeakCovers, TypeOK, Config
<1>2. OutflowBounded'
  BY BoundKept DEF OutflowBounded
<1> QED
  BY <1>1, <1>2 DEF OutflowInv

\* Within one window no vault pays, through settlements, more than the cap of
\* the most it held in that window, for any amounts and any rates.
THEOREM OutflowAlwaysBounded == Spec => []OutflowBounded
<1>1. OutflowInv /\ TypeOK' /\ [Next]_vars => OutflowInv'
  <2> SUFFICES ASSUME OutflowInv, TypeOK', [Next]_vars PROVE OutflowInv'
    OBVIOUS
  <2> USE DEF OutflowInv
  <2>1. ASSUME UNCHANGED <<outflow, peak>>, config'.chip_rate = config.chip_rate,
               \A a \in Agents : vault'[a] <= vault[a]
        PROVE  OutflowInv'
    <3>1. \A a \in Agents : /\ peak[a].held \in Nat /\ peak[a].rate \in Nat
                             /\ vault[a] \in Nat /\ vault'[a] \in Nat
      BY DEF TypeOK
    <3> QED
      BY <2>1, <3>1, OthersKeepOutflow DEF PeakCovers
  <2>2. ASSUME NEW r \in Rates, SetChipRate(r) PROVE OutflowInv'
    <3>1. \A a \in Agents : /\ peak[a].held \in Nat /\ peak[a].rate \in Nat /\ vault[a] \in Nat
                             /\ peak'[a].held = Larger(peak[a].held, vault[a])
                             /\ peak'[a].rate = Larger(peak[a].rate, r)
      BY <2>2 DEF SetChipRate, Raised, TypeOK
    <3>2. UNCHANGED <<outflow, vault>> /\ config'.chip_rate = r /\ r \in Nat
      BY <2>2, ArgumentsTyped DEF SetChipRate, TypeOK, Config
    <3>3. \A a \in Agents :
            /\ peak'[a].held >= peak[a].held /\ peak'[a].rate >= peak[a].rate
            /\ peak'[a].held >= vault'[a] /\ peak'[a].rate >= config'.chip_rate
      BY <3>1, <3>2
    <3> QED
      BY <3>2, <3>3, OthersKeepOutflow
  <2>3. CASE AdminStep /\ ~ \E r \in Rates : SetChipRate(r)
    BY <2>1, <2>3 DEF AdminStep, SetRent, SetMaxSettlement, SetSettler, OnlyConfig, InitExitConfig,
       SetExitWindow, OnlyExitConfig, historyVars, TypeOK, Config
  <2>4. ASSUME NEW s \in Settlers, SettlerStep(s) PROVE OutflowInv'
    <3>1. ASSUME NEW p \in Players, NEW id \in RentalIds, NEW x \in Rents, PayRent(s, p, id, x)
          PROVE OutflowInv'
      BY <2>1, <3>1 DEF PayRent, historyVars, TypeOK
    <3>2. ASSUME NEW a \in Agents, OpenVault(s, a) \/ \E p \in Players : OpenOwnedVault(s, a, p)
          PROVE OutflowInv'
      BY <2>1, <3>2 DEF OpenVault, OpenOwnedVault, OnlyVaultOpens, historyVars, TypeOK
    <3>3. ASSUME NEW p \in Players, NEW id \in WithdrawalIds, NEW a \in Agents,
                 NEW x \in Amounts, NEW r \in Amounts, Withdraw(s, p, id, a, x, r)
          PROVE OutflowInv'
      BY <2>1, <3>3, ArgumentsTyped DEF Withdraw, Covers, Playable, historyVars, TypeOK
    <3> QED
      BY <2>4, <3>1, <3>2, <3>3, SettleKeepsOutflow DEF SettlerStep
  <2>5. ASSUME NEW p \in Players, OwnerStep(p) PROVE OutflowInv'
    <3>1. ASSUME NEW a \in Agents, NEW x \in Amounts, Deposit(p, a, x) PROVE OutflowInv'
      <4>1. /\ x \in Nat /\ vault[a] \in Nat /\ config.chip_rate \in Nat
            /\ UNCHANGED <<config, outflow>>
            /\ peak' = [peak EXCEPT ![a] = Raised(@, vault[a] + x, config.chip_rate)]
            /\ vault' = [vault EXCEPT ![a] = @ + x]
        BY <3>1, ArgumentsTyped DEF Deposit, TypeOK, Config
      <4>2. \A b \in Agents : /\ peak[b].held \in Nat /\ peak[b].rate \in Nat
                               /\ vault[b] <= peak[b].held /\ config.chip_rate <= peak[b].rate
        BY DEF PeakCovers, TypeOK
      <4>3. \A b \in Agents :
              /\ peak'[b].held >= peak[b].held /\ peak'[b].rate >= peak[b].rate
              /\ peak'[b].held >= vault'[b] /\ peak'[b].rate >= config'.chip_rate
        BY <4>1, <4>2 DEF Raised, TypeOK
      <4> QED
        BY <4>1, <4>3, OthersKeepOutflow
    <3>2. ASSUME NEW a \in Agents, ClaimExit(p, a) PROVE OutflowInv'
      <4>1. exits[a] \in Exit /\ MinStake \in Nat /\ vault[a] \in Nat
        BY <3>2, LimitsTyped DEF ClaimExit, Claimable, TypeOK, MinStake, Config
      <4>2. vault'[a] <= vault[a]
        BY <3>2, <4>1 DEF ClaimExit, Claimable, ExitPayout, Exit, TypeOK
      <4> QED
        BY <2>1, <3>2, <4>2 DEF ClaimExit, Claimable, TypeOK
    <3> QED
      BY <2>1, <2>5, <3>1, <3>2 DEF OwnerStep, RequestExit, CloseExit, Closable, historyVars, TypeOK
  <2>6. CASE Tick \/ UNCHANGED vars
    BY <2>1, <2>6 DEF Tick, vars, chainVars, historyVars, TypeOK
  <2> QED
    BY <2>2, <2>3, <2>4, <2>5, <2>6 DEF Next, AdminStep
<1> QED
  BY OutflowInit, <1>1, TypeCorrect, PTL DEF Spec, OutflowInv
-----------------------------------------------------------------------------
(* Leaving.                                                                *)

\* The window in force is never shorter than the program's minimum.
WindowNeverNil == exit_config # 0 => exit_config >= MIN_EXIT_WINDOW_SLOTS

\* What one exit account says, whoever's it is.
ExitTimely(e) ==
  /\ e.unlock_slot >= Smaller(e.requested_slot + MIN_EXIT_WINDOW_SLOTS, U64Max)
  /\ e.claimed_slot > 0 => e.claimed_slot >= e.unlock_slot

\* No admin step, and no order of requests, claims and window changes, lets a
\* claim land sooner than the shortest window after its own request.
THEOREM ExitsWait == Spec => []ExitWaits
<1> DEFINE Inv == WindowNeverNil /\ ExitWaits
<1>1. Init => Inv
  BY DEF Init, WindowNeverNil, ExitWaits
<1>2. TypeOK /\ Inv /\ [Next]_vars => Inv'
  <2> SUFFICES ASSUME TypeOK, Inv, [Next]_vars PROVE Inv'
    OBVIOUS
  <2> USE LimitsTyped
  <2>1. CASE UNCHANGED <<exits, exit_config>>
    BY <2>1 DEF WindowNeverNil, ExitWaits
  <2>2. ASSUME NEW w \in ExitWindows, InitExitConfig(w) \/ SetExitWindow(w) PROVE Inv'
    BY <2>2 DEF InitExitConfig, SetExitWindow, OnlyExitConfig, WindowNeverNil, ExitWaits
  <2>3. ASSUME NEW a \in Agents, NEW e \in Exit \cup {NoExit}, UNCHANGED exit_config,
               exits' = [exits EXCEPT ![a] = e], e # NoExit => ExitTimely(e)
        PROVE  Inv'
    BY <2>3 DEF WindowNeverNil, ExitWaits, ExitTimely, TypeOK
  <2>4. ASSUME NEW p \in Players, NEW a \in Agents, NEW x \in Amounts, RequestExit(p, a, x)
        PROVE  Inv'
    <3> DEFINE e == [owner |-> p, amount |-> x, requested_slot |-> slot,
                     unlock_slot |-> Saturated(slot + exit_config), vault_at_request |-> vault[a],
                     claimed_slot |-> 0, claimed_amount |-> 0]
    <3>1. /\ slot \in Nat /\ exit_config \in Nat /\ exit_config >= MIN_EXIT_WINDOW_SLOTS
          /\ x \in Nat /\ vault[a] \in Nat
      BY <2>4, ArgumentsTyped DEF RequestExit, WindowNeverNil, TypeOK
    <3>2. e \in Exit /\ ExitTimely(e)
      BY <3>1 DEF Exit, ExitTimely
    <3>3. exits' = [exits EXCEPT ![a] = e] /\ UNCHANGED exit_config
      BY <2>4 DEF RequestExit
    <3> HIDE DEF e
    <3> QED
      BY <2>3, <3>2, <3>3
  <2>5. ASSUME NEW p \in Players, NEW a \in Agents, ClaimExit(p, a) PROVE Inv'
    <3> DEFINE paid == ExitPayout(exits[a].amount, vault[a], MinStake)
               e    == [exits[a] EXCEPT !.claimed_slot = slot, !.claimed_amount = paid]
    <3>1. /\ exits[a] \in Exit /\ ExitTimely(exits[a]) /\ slot \in Nat
          /\ slot >= exits[a].unlock_slot /\ vault[a] \in Nat /\ MinStake \in Nat
      BY <2>5 DEF ClaimExit, Claimable, ExitWaits, ExitTimely, TypeOK, MinStake, Config
    <3>2. paid \in Nat
      BY <3>1 DEF ExitPayout, Exit
    <3>3. exits' = [exits EXCEPT ![a] = e] /\ UNCHANGED exit_config
      BY <2>5 DEF ClaimExit, Claimable
    <3> HIDE DEF paid
    <3>4. e \in Exit
      BY <3>1, <3>2, ClaimedType
    <3>5. /\ e.claimed_slot = slot /\ e.unlock_slot = exits[a].unlock_slot
          /\ e.requested_slot = exits[a].requested_slot
      BY <3>1 DEF Exit
    <3>6. ExitTimely(e)
      BY <3>1, <3>5 DEF ExitTimely
    <3> HIDE DEF e
    <3> QED
      BY <2>3, <3>3, <3>4, <3>6
  <2>6. ASSUME NEW p \in Players, NEW a \in Agents, CloseExit(p, a) PROVE Inv'
    BY <2>3, <2>6 DEF CloseExit, Closable
  <2>7. CASE AdminStep
    BY <2>1, <2>2, <2>7 DEF AdminStep, SetChipRate, SetRent, SetMaxSettlement, SetSettler, OnlyConfig
  <2>8. ASSUME NEW s \in Settlers, SettlerStep(s) PROVE Inv'
    BY <2>1, <2>8 DEF SettlerStep, PayRent, OpenVault, OpenOwnedVault, OnlyVaultOpens, Settle, Withdraw
  <2>9. ASSUME NEW p \in Players, OwnerStep(p) PROVE Inv'
    BY <2>1, <2>4, <2>5, <2>6, <2>9 DEF OwnerStep, Deposit
  <2>10. CASE Tick \/ UNCHANGED vars
    BY <2>1, <2>10 DEF Tick, vars, chainVars
  <2> QED
    BY <2>7, <2>8, <2>9, <2>10 DEF Next
<1> QED
  BY <1>1, <1>2, TypeCorrect, PTL DEF Spec

\* Whatever a vault holds and whatever its owner asked for, leaving by
\* withdrawal or by exit never strands an amount below the minimum stake.
THEOREM NoDustLeft == Spec => OwnerLeavesNoDust
<1>1. TypeOK /\ [Next]_vars =>
        [\A a \in Agents : (vault'[a] < vault[a] /\ settlements' = settlements)
                             => vault'[a] = 0 \/ vault'[a] >= MinStake]_vars
  <2> SUFFICES ASSUME TypeOK, [Next]_vars, NEW a \in Agents,
                      vault'[a] < vault[a], settlements' = settlements
               PROVE  vault'[a] = 0 \/ vault'[a] >= MinStake
    OBVIOUS
  <2> DEFINE Goal == vault'[a] = 0 \/ vault'[a] >= MinStake
  <2>1. vault[a] \in Nat /\ MinStake \in Nat
    BY LimitsTyped DEF TypeOK, MinStake, Config
  <2>2. ~ UNCHANGED vault
    BY <2>1
  <2>3. ASSUME NEW s \in Settlers, NEW m \in Matches, NEW f \in Agents, NEW t \in Agents,
               NEW x \in Amounts, Settle(s, m, f, t, x)
        PROVE  FALSE
    <3> DEFINE r == [match |-> m, from |-> f, to |-> t, amount |-> x]
    <3>1. r \in settlements'
      BY <2>3 DEF Settle
    <3>2. \A q \in settlements : q.match # m
      BY <2>3 DEF Settle, Unsettled
    <3>3. r.match = m
      OBVIOUS
    <3> QED
      BY <3>1, <3>2, <3>3
  <2>4. ASSUME NEW s \in Settlers, NEW p \in Players, NEW id \in WithdrawalIds,
               NEW b \in Agents, NEW x \in Amounts, NEW r \in Amounts, Withdraw(s, p, id, b, x, r)
        PROVE  Goal
    BY <2>1, <2>4, ArgumentsTyped DEF Withdraw, Covers, Playable, TypeOK
  <2>5. ASSUME NEW p \in Players, NEW b \in Agents, ClaimExit(p, b) PROVE Goal
    <3>1. CASE b = a
      <4> DEFINE paid == ExitPayout(exits[a].amount, vault[a], MinStake)
      <4>1. exits[a] \in Exit /\ vault[a] > 0 /\ vault'[a] = vault[a] - paid
        BY <2>5, <3>1 DEF ClaimExit, Claimable, TypeOK
      <4>2. vault[a] - paid = 0 \/ vault[a] - paid >= MinStake
        BY <2>1, <4>1 DEF ExitPayout, Exit
      <4> QED
        BY <4>1, <4>2
    <3>2. CASE b # a
      BY <2>1, <2>5, <3>2 DEF ClaimExit, Claimable, TypeOK
    <3> QED
      BY <3>1, <3>2
  <2>6. ASSUME NEW p \in Players, NEW b \in Agents, NEW x \in Amounts, Deposit(p, b, x) PROVE FALSE
    BY <2>1, <2>6, ArgumentsTyped DEF Deposit, TypeOK
  <2>7. CASE AdminStep \/ Tick \/ UNCHANGED vars
    BY <2>2, <2>7 DEF AdminStep, SetChipRate, SetRent, SetMaxSettlement, SetSettler, OnlyConfig,
       InitExitConfig, SetExitWindow, OnlyExitConfig, Tick, vars, chainVars
  <2>8. ASSUME NEW s \in Settlers, SettlerStep(s) PROVE Goal
    BY <2>2, <2>3, <2>4, <2>8 DEF SettlerStep, PayRent, OpenVault, OpenOwnedVault, OnlyVaultOpens
  <2>9. ASSUME NEW p \in Players, OwnerStep(p) PROVE Goal
    BY <2>2, <2>5, <2>6, <2>9 DEF OwnerStep, RequestExit, CloseExit, Closable
  <2> QED
    BY <2>7, <2>8, <2>9 DEF Next
<1> QED
  BY <1>1, TypeCorrect, PTL DEF Spec, OwnerLeavesNoDust
-----------------------------------------------------------------------------
(* Records and exits: one record per match and withdrawal, one payment per *)
(* exit, and its evidence.                                                 *)

\* Only settle writes settlements, and only withdraw writes withdrawals.
LEMMA RecordWriters ==
  ASSUME [Next]_vars
  PROVE  \/ UNCHANGED <<settlements, withdrawals>>
         \/ \E s \in Settlers, m \in Matches, f, t \in Agents, x \in Amounts : Settle(s, m, f, t, x)
         \/ \E s \in Settlers, p \in Players, id \in WithdrawalIds, a \in Agents, x, r \in Amounts :
              Withdraw(s, p, id, a, x, r)
<1>1. CASE AdminStep
  BY <1>1 DEF AdminStep, SetChipRate, SetRent, SetMaxSettlement, SetSettler, OnlyConfig,
     InitExitConfig, SetExitWindow, OnlyExitConfig
<1>2. ASSUME NEW s \in Settlers, SettlerStep(s)
      PROVE  \/ UNCHANGED <<settlements, withdrawals>>
             \/ \E m \in Matches, f, t \in Agents, x \in Amounts : Settle(s, m, f, t, x)
             \/ \E p \in Players, id \in WithdrawalIds, a \in Agents, x, r \in Amounts :
                  Withdraw(s, p, id, a, x, r)
  <2>1. ASSUME NEW p \in Players, NEW id \in RentalIds, NEW x \in Rents, PayRent(s, p, id, x)
        PROVE UNCHANGED <<settlements, withdrawals>>
    BY <2>1 DEF PayRent
  <2>2. ASSUME NEW a \in Agents, OpenVault(s, a) PROVE UNCHANGED <<settlements, withdrawals>>
    BY <2>2 DEF OpenVault, OnlyVaultOpens
  <2>3. ASSUME NEW a \in Agents, NEW p \in Players, OpenOwnedVault(s, a, p)
        PROVE UNCHANGED <<settlements, withdrawals>>
    BY <2>3 DEF OpenOwnedVault, OnlyVaultOpens
  <2> QED
    BY <1>2, <2>1, <2>2, <2>3 DEF SettlerStep
<1>3. ASSUME NEW p \in Players, OwnerStep(p) PROVE UNCHANGED <<settlements, withdrawals>>
  BY <1>3 DEF OwnerStep, Deposit, RequestExit, ClaimExit, CloseExit
<1>4. CASE Tick \/ UNCHANGED vars
  BY <1>4 DEF Tick, vars, chainVars
<1> QED
  BY <1>1, <1>2, <1>3, <1>4 DEF Next

\* However often a settlement or a withdrawal is sent, in whatever transaction
\* and with whatever arguments, one of an id is all there ever is.
THEOREM OneRecordAlways == Spec => []OneRecordPerId
<1>1. Init => OneRecordPerId
  BY DEF Init, OneRecordPerId
<1>2. OneRecordPerId /\ [Next]_vars => OneRecordPerId'
  <2> SUFFICES ASSUME OneRecordPerId, [Next]_vars PROVE OneRecordPerId'
    OBVIOUS
  <2>1. CASE UNCHANGED <<settlements, withdrawals>>
    BY <2>1 DEF OneRecordPerId
  <2>2. ASSUME NEW s \in Settlers, NEW m \in Matches, NEW f \in Agents, NEW t \in Agents,
               NEW x \in Amounts, Settle(s, m, f, t, x)
        PROVE OneRecordPerId'
    <3> DEFINE r == [match |-> m, from |-> f, to |-> t, amount |-> x]
    <3>1. /\ settlements' = settlements \cup {r} /\ withdrawals' = withdrawals
          /\ r.match = m /\ \A q \in settlements : q.match # m
      BY <2>2 DEF Settle, Unsettled
    <3> HIDE DEF r
    <3> QED
      BY <3>1 DEF OneRecordPerId
  <2>3. ASSUME NEW s \in Settlers, NEW p \in Players, NEW id \in WithdrawalIds, NEW a \in Agents,
               NEW x \in Amounts, NEW left \in Amounts, Withdraw(s, p, id, a, x, left)
        PROVE OneRecordPerId'
    <3> DEFINE r == [id |-> id, agent |-> a, owner |-> p, amount |-> x, remaining |-> left]
    <3>1. /\ withdrawals' = withdrawals \cup {r} /\ settlements' = settlements
          /\ r.id = id /\ \A q \in withdrawals : q.id # id
      BY <2>3 DEF Withdraw
    <3> HIDE DEF r
    <3> QED
      BY <3>1 DEF OneRecordPerId
  <2> QED
    BY <2>1, <2>2, <2>3, RecordWriters
<1> QED
  BY <1>1, <1>2, PTL DEF Spec
-----------------------------------------------------------------------------
\* Only the exit instructions write exits, and only the admin the window.
LEMMA ExitWriters ==
  ASSUME [Next]_vars
  PROVE  \/ UNCHANGED <<exits, exited, exit_config>>
         \/ \E w \in ExitWindows : InitExitConfig(w) \/ SetExitWindow(w)
         \/ \E p \in Players, a \in Agents, x \in Amounts : RequestExit(p, a, x)
         \/ \E p \in Players, a \in Agents : ClaimExit(p, a) \/ CloseExit(p, a)
<1>1. CASE AdminStep
  BY <1>1 DEF AdminStep, SetChipRate, SetRent, SetMaxSettlement, SetSettler, OnlyConfig, historyVars
<1>2. ASSUME NEW s \in Settlers, SettlerStep(s) PROVE UNCHANGED <<exits, exited, exit_config>>
  BY <1>2 DEF SettlerStep, PayRent, OpenVault, OpenOwnedVault, OnlyVaultOpens, Settle, Withdraw,
     historyVars
<1>3. ASSUME NEW p \in Players, NEW a \in Agents, NEW x \in Amounts, Deposit(p, a, x)
      PROVE UNCHANGED <<exits, exited, exit_config>>
  BY <1>3 DEF Deposit
<1>4. CASE Tick \/ UNCHANGED vars
  BY <1>4 DEF Tick, vars, chainVars, historyVars
<1> QED
  BY <1>1, <1>2, <1>3, <1>4 DEF Next, OwnerStep

\* While there is an exit there is a window in force, and not a nil one.
WindowInForce ==
  /\ WindowNeverNil
  /\ \A a \in Agents : exits[a] # NoExit => exit_config # 0

LEMMA WindowStaysInForce == Spec => []WindowInForce
<1>1. Init => WindowInForce
  BY DEF Init, WindowInForce, WindowNeverNil
<1>2. TypeOK /\ WindowInForce /\ [Next]_vars => WindowInForce'
  <2> SUFFICES ASSUME TypeOK, WindowInForce, [Next]_vars PROVE WindowInForce'
    OBVIOUS
  <2>1. CASE UNCHANGED <<exits, exited, exit_config>>
    BY <2>1 DEF WindowInForce, WindowNeverNil
  <2>2. ASSUME NEW w \in ExitWindows, InitExitConfig(w) \/ SetExitWindow(w) PROVE WindowInForce'
    BY <2>2, ArgumentsTyped, LimitsTyped
    DEF InitExitConfig, SetExitWindow, OnlyExitConfig, WindowInForce, WindowNeverNil
  <2>3. ASSUME NEW p \in Players, NEW a \in Agents, NEW x \in Amounts, RequestExit(p, a, x)
        PROVE WindowInForce'
    BY <2>3 DEF RequestExit, WindowInForce, WindowNeverNil
  <2>4. ASSUME NEW p \in Players, NEW a \in Agents, ClaimExit(p, a) PROVE WindowInForce'
    BY <2>4 DEF ClaimExit, WindowInForce, WindowNeverNil, TypeOK
  <2>5. ASSUME NEW p \in Players, NEW a \in Agents, CloseExit(p, a) PROVE WindowInForce'
    BY <2>5 DEF CloseExit, WindowInForce, WindowNeverNil, TypeOK
  <2> QED
    BY <2>1, <2>2, <2>3, <2>4, <2>5, ExitWriters
<1> QED
  BY <1>1, <1>2, TypeCorrect, PTL DEF Spec

\* The record of a claim outlives it by the shortest window the program
\* accepts, whatever the admin makes of the window in the meantime.
THEOREM EvidenceAlwaysKept == Spec => EvidenceKept
<1>1. TypeOK /\ WindowInForce /\ [Next]_vars
        => [\A a \in Agents :
              (exits[a] # NoExit /\ exits[a].claimed_slot > 0 /\ exits'[a] = NoExit)
                => slot >= Saturated(exits[a].claimed_slot + MIN_EXIT_WINDOW_SLOTS)]_vars
  <2> SUFFICES ASSUME TypeOK, WindowInForce, [Next]_vars, NEW a \in Agents,
                      exits[a] # NoExit, exits[a].claimed_slot > 0, exits'[a] = NoExit
               PROVE  slot >= Saturated(exits[a].claimed_slot + MIN_EXIT_WINDOW_SLOTS)
    OBVIOUS
  <2>1. exits[a] \in Exit /\ exit_config \in Nat /\ exit_config >= MIN_EXIT_WINDOW_SLOTS /\ slot \in Nat
    BY DEF TypeOK, WindowInForce, WindowNeverNil
  <2>2. ASSUME NEW p \in Players, NEW b \in Agents, ClaimExit(p, b) PROVE FALSE
    <3> DEFINE e == [exits[b] EXCEPT !.claimed_slot = slot,
                       !.claimed_amount = ExitPayout(exits[b].amount, vault[b], MinStake)]
    <3>1. exits' = [exits EXCEPT ![b] = e] /\ exits[b] # NoExit
      BY <2>2 DEF ClaimExit
    <3>2. CASE b = a
      <4>1. vault[a] \in Nat /\ MinStake \in Nat
        BY LimitsTyped DEF TypeOK, MinStake, Config
      <4>2. ExitPayout(exits[a].amount, vault[a], MinStake) \in Nat
        BY <2>1, <4>1 DEF ExitPayout, Exit
      <4>3. e \in Exit
        BY <2>1, <3>2, <4>2, ClaimedType
      <4> HIDE DEF e
      <4>4. exits'[a] = e /\ e # NoExit
        BY <3>1, <3>2, <4>3, ProgramAssumption DEF TypeOK, Exit
      <4> QED
        BY <4>4
    <3>3. CASE b # a
      BY <3>1, <3>3 DEF TypeOK
    <3> QED
      BY <3>2, <3>3
  <2>3. ASSUME NEW p \in Players, NEW b \in Agents, CloseExit(p, b) PROVE b = a /\ Closable(a)
    BY <2>3 DEF CloseExit, TypeOK
  <2>4. ASSUME NEW p \in Players, NEW b \in Agents, NEW x \in Amounts, RequestExit(p, b, x) PROVE FALSE
    BY <2>4 DEF RequestExit, TypeOK
  <2>5. ~ UNCHANGED exits
    OBVIOUS
  <2>6. Closable(a)
    BY <2>2, <2>3, <2>4, <2>5, ExitWriters DEF InitExitConfig, SetExitWindow, OnlyExitConfig
  <2>7. slot >= Saturated(exits[a].claimed_slot + exit_config)
    BY <2>6 DEF Closable
  <2>8. exits[a].claimed_slot \in Nat
    BY <2>1 DEF Exit
  <2> QED
    BY <2>1, <2>7, <2>8, LimitsTyped
<1> QED
  BY <1>1, TypeCorrect, WindowStaysInForce, PTL DEF Spec, EvidenceKept

\* What an exit pays it pays once, to the token, never more than was asked unless
\* that empties the vault, and never so much that dust is left (lib.rs 546-577,
\* 670-690).
THEOREM ExitAlwaysPaysOnce == Spec => ExitPaysOnce
<1>1. TypeOK /\ [Next]_vars
        => [\A a \in Agents :
              exited'[a] # exited[a] =>
                /\ exits[a].claimed_slot = 0 /\ exits'[a].claimed_slot = slot
                /\ exits'[a].claimed_amount = exited'[a] - exited[a]
                /\ exited'[a] - exited[a] > exits[a].amount => vault'[a] = 0
                /\ vault'[a] = 0 \/ vault'[a] >= MinStake]_vars
  <2> SUFFICES ASSUME TypeOK, [Next]_vars, NEW a \in Agents, exited'[a] # exited[a]
               PROVE  /\ exits[a].claimed_slot = 0 /\ exits'[a].claimed_slot = slot
                      /\ exits'[a].claimed_amount = exited'[a] - exited[a]
                      /\ exited'[a] - exited[a] > exits[a].amount => vault'[a] = 0
                      /\ vault'[a] = 0 \/ vault'[a] >= MinStake
    OBVIOUS
  <2>1. PICK p \in Players, b \in Agents : ClaimExit(p, b)
    BY ExitWriters DEF InitExitConfig, SetExitWindow, OnlyExitConfig, historyVars, RequestExit, CloseExit
  <2> DEFINE paid == ExitPayout(exits[a].amount, vault[a], MinStake)
             e    == [exits[a] EXCEPT !.claimed_slot = slot, !.claimed_amount = paid]
  <2>2. b = a
    BY <2>1 DEF ClaimExit, TypeOK
  <2>3. /\ exited'[a] = exited[a] + paid /\ vault'[a] = vault[a] - paid /\ exits'[a] = e
        /\ exits[a].claimed_slot = 0 /\ vault[a] > 0 /\ exits[a] \in Exit
    BY <2>1, <2>2 DEF ClaimExit, Claimable, TypeOK
  <2>4. exited[a] \in Nat /\ vault[a] \in Nat /\ MinStake \in Nat /\ slot \in Nat /\ exits[a].amount \in Nat
    BY <2>3, LimitsTyped DEF TypeOK, MinStake, Config, Exit
  <2>5. /\ paid \in Nat /\ (paid > exits[a].amount => paid = vault[a])
        /\ vault[a] - paid = 0 \/ vault[a] - paid >= MinStake
    BY <2>3, <2>4 DEF ExitPayout
  <2>6. e.claimed_slot = slot /\ e.claimed_amount = paid
    BY <2>3 DEF Exit
  <2> HIDE DEF paid, e
  <2> QED
    BY <2>3, <2>4, <2>5, <2>6
<1> QED
  BY <1>1, TypeCorrect, PTL DEF Spec, ExitPaysOnce
-----------------------------------------------------------------------------
(* Where the tokens of a vault come from.                                  *)

\* One record more adds its amount to the sum of them all, and to the sum of
\* those of one vault's side of them.
LEMMA AmountsOfWith ==
  ASSUME NEW S, IsFiniteSet(S), \A q \in S : q.amount \in Nat,
         NEW r, r \notin S, r.amount \in Nat
  PROVE  AmountsOf(S \cup {r}) = AmountsOf(S) + r.amount
<1> DEFINE f == [q \in S |-> q.amount]
           g == [q \in S \cup {r} |-> q.amount]
<1>1. SumFunctionOnSet(g, S \cup {r}) = g[r] + SumFunctionOnSet(g, S)
  BY SumWith
<1>2. SumFunctionOnSet(g, S) = SumFunctionOnSet(f, S)
  BY SumSame
<1>3. SumFunctionOnSet(f, S) \in Int
  BY SumInt
<1>4. g[r] = r.amount
  OBVIOUS
<1> HIDE DEF f, g
<1>5. AmountsOf(S) = SumFunctionOnSet(f, S) /\ AmountsOf(S \cup {r}) = SumFunctionOnSet(g, S \cup {r})
  BY DEF AmountsOf, f, g
<1> QED
  BY <1>1, <1>2, <1>3, <1>4, <1>5

LEMMA AmountsOfNat ==
  ASSUME NEW S, IsFiniteSet(S), \A q \in S : q.amount \in Nat
  PROVE  AmountsOf(S) \in Nat
<1> DEFINE f == [q \in S |-> q.amount]
<1>1. \A q \in S : f[q] \in Nat
  OBVIOUS
<1> QED
  BY <1>1, SumNat DEF AmountsOf

\* The two sides a vault has in the settlements on record, and its withdrawals.
PaidBy(a)      == {s \in settlements : s.from = a}
PaidTo(a)      == {s \in settlements : s.to = a}
WithdrawnBy(a) == {w \in withdrawals : w.agent = a}

Traced(a) ==
  vault[a] + AmountsOf(PaidBy(a)) + AmountsOf(WithdrawnBy(a)) + exited[a]
    = funded[a] + AmountsOf(PaidTo(a))

\* There are finitely many records, which is what lets their amounts be added.
TracedInv ==
  /\ IsFiniteSet(settlements) /\ IsFiniteSet(withdrawals)
  /\ \A a \in Agents : Traced(a)

\* Only these instructions move tokens in or out of a vault, or write a record.
LEMMA TokenMovers ==
  ASSUME [Next]_vars
  PROVE  \/ UNCHANGED <<vault, settlements, withdrawals, exited, funded>>
         \/ \E p \in Players, a \in Agents, x \in Amounts : Deposit(p, a, x)
         \/ \E s \in Settlers, m \in Matches, f, t \in Agents, x \in Amounts : Settle(s, m, f, t, x)
         \/ \E s \in Settlers, p \in Players, id \in WithdrawalIds, a \in Agents, x, r \in Amounts :
              Withdraw(s, p, id, a, x, r)
         \/ \E p \in Players, a \in Agents : ClaimExit(p, a)
<1> DEFINE Still == UNCHANGED <<vault, settlements, withdrawals, exited, funded>>
<1>1. CASE AdminStep
  BY <1>1 DEF AdminStep, SetChipRate, SetRent, SetMaxSettlement, SetSettler, OnlyConfig,
     InitExitConfig, SetExitWindow, OnlyExitConfig, historyVars
<1>2. ASSUME NEW s \in Settlers, SettlerStep(s)
      PROVE  \/ Still
             \/ \E m \in Matches, f, t \in Agents, x \in Amounts : Settle(s, m, f, t, x)
             \/ \E p \in Players, id \in WithdrawalIds, a \in Agents, x, r \in Amounts :
                  Withdraw(s, p, id, a, x, r)
  <2>1. ASSUME NEW p \in Players, NEW id \in RentalIds, NEW x \in Rents, PayRent(s, p, id, x)
        PROVE Still
    BY <2>1 DEF PayRent, historyVars
  <2>2. ASSUME NEW a \in Agents, OpenVault(s, a) PROVE Still
    BY <2>2 DEF OpenVault, OnlyVaultOpens, historyVars
  <2>3. ASSUME NEW a \in Agents, NEW p \in Players, OpenOwnedVault(s, a, p) PROVE Still
    BY <2>3 DEF OpenOwnedVault, OnlyVaultOpens, historyVars
  <2> HIDE DEF Still
  <2> QED
    BY <1>2, <2>1, <2>2, <2>3 DEF SettlerStep
<1>3. ASSUME NEW p \in Players, NEW a \in Agents, NEW x \in Amounts, RequestExit(p, a, x)
      PROVE Still
  BY <1>3 DEF RequestExit, historyVars
<1>4. ASSUME NEW p \in Players, NEW a \in Agents, CloseExit(p, a) PROVE Still
  BY <1>4 DEF CloseExit, historyVars
<1>5. CASE Tick \/ UNCHANGED vars
  BY <1>5 DEF Tick, vars, chainVars, historyVars
<1> HIDE DEF Still
<1> QED
  BY <1>1, <1>2, <1>3, <1>4, <1>5 DEF Next, OwnerStep, Still

\* A settlement on record is one the loser's vault has paid and the winner's has.
LEMMA SettleTraced ==
  ASSUME TypeOK, TracedInv, NEW s \in Settlers, NEW m \in Matches, NEW from \in Agents,
         NEW to \in Agents, NEW x \in Amounts, Settle(s, m, from, to, x)
  PROVE  TracedInv'
<1> DEFINE r == [match |-> m, from |-> from, to |-> to, amount |-> x]
<1>1. /\ settlements' = settlements \cup {r} /\ UNCHANGED <<withdrawals, exited, funded>>
      /\ vault' = [vault EXCEPT ![from] = @ - x, ![to] = @ + x] /\ from # to
  BY DEF Settle
<1>2. r \notin settlements
  BY DEF Settle, Unsettled
<1>3. x \in Nat /\ r.amount = x /\ r.from = from /\ r.to = to
  BY ArgumentsTyped
<1>4. \A q \in settlements : q.amount \in Nat
  BY DEF TypeOK, Settlement
<1> HIDE DEF r
<1>5. IsFiniteSet(settlements')
  BY <1>1, FS_AddElement DEF TracedInv
<1>6. ASSUME NEW a \in Agents
      PROVE  Traced(a)'
  <2>1. IsFiniteSet(PaidBy(a)) /\ IsFiniteSet(PaidTo(a)) /\ IsFiniteSet(WithdrawnBy(a))
    BY FS_Subset DEF PaidBy, PaidTo, WithdrawnBy, TracedInv
  <2>2. /\ AmountsOf(PaidBy(a)) \in Nat /\ AmountsOf(PaidTo(a)) \in Nat
        /\ AmountsOf(WithdrawnBy(a)) \in Nat
    BY <2>1, <1>4, AmountsOfNat DEF PaidBy, PaidTo, WithdrawnBy, TypeOK, Withdrawal
  <2>3. AmountsOf(PaidBy(a))' = AmountsOf(PaidBy(a)) + (IF a = from THEN x ELSE 0)
    <3>1. CASE a = from
      <4>1. PaidBy(a)' = PaidBy(a) \cup {r}
        BY <1>1, <1>3, <3>1 DEF PaidBy
      <4> QED
        BY <4>1, <3>1, <1>2, <1>3, <1>4, <2>1, AmountsOfWith DEF PaidBy
    <3>2. CASE a # from
      <4>1. PaidBy(a)' = PaidBy(a)
        BY <1>1, <1>3, <3>2 DEF PaidBy
      <4> QED
        BY <4>1, <3>2, <2>2
    <3> QED
      BY <3>1, <3>2
  <2>4. AmountsOf(PaidTo(a))' = AmountsOf(PaidTo(a)) + (IF a = to THEN x ELSE 0)
    <3>1. CASE a = to
      <4>1. PaidTo(a)' = PaidTo(a) \cup {r}
        BY <1>1, <1>3, <3>1 DEF PaidTo
      <4> QED
        BY <4>1, <3>1, <1>2, <1>3, <1>4, <2>1, AmountsOfWith DEF PaidTo
    <3>2. CASE a # to
      <4>1. PaidTo(a)' = PaidTo(a)
        BY <1>1, <1>3, <3>2 DEF PaidTo
      <4> QED
        BY <4>1, <3>2, <2>2
    <3> QED
      BY <3>1, <3>2
  <2>5. AmountsOf(WithdrawnBy(a))' = AmountsOf(WithdrawnBy(a))
    BY <1>1 DEF WithdrawnBy
  <2>6. vault'[a] = vault[a] - (IF a = from THEN x ELSE 0) + (IF a = to THEN x ELSE 0)
    BY <1>1, <1>3 DEF TypeOK
  <2>7. Traced(a) /\ vault[a] \in Nat /\ funded[a] \in Nat /\ exited[a] \in Nat
    BY DEF TracedInv, TypeOK
  <2> QED
    BY <1>1, <1>3, <2>2, <2>3, <2>4, <2>5, <2>6, <2>7 DEF Traced
<1> QED
  BY <1>1, <1>5, <1>6 DEF TracedInv

\* A withdrawal on record is one its vault has paid.
LEMMA WithdrawTraced ==
  ASSUME TypeOK, TracedInv, NEW s \in Settlers, NEW p \in Players, NEW id \in WithdrawalIds,
         NEW b \in Agents, NEW x \in Amounts, NEW left \in Amounts, Withdraw(s, p, id, b, x, left)
  PROVE  TracedInv'
<1> DEFINE r == [id |-> id, agent |-> b, owner |-> p, amount |-> x, remaining |-> left]
<1>1. /\ withdrawals' = withdrawals \cup {r} /\ UNCHANGED <<settlements, exited, funded>>
      /\ vault' = [vault EXCEPT ![b] = @ - x]
  BY DEF Withdraw, historyVars
<1>2. r \notin withdrawals
  BY DEF Withdraw
<1>3. x \in Nat /\ r.amount = x /\ r.agent = b
  BY ArgumentsTyped
<1>4. \A q \in withdrawals : q.amount \in Nat
  BY DEF TypeOK, Withdrawal
<1> HIDE DEF r
<1>5. IsFiniteSet(withdrawals')
  BY <1>1, FS_AddElement DEF TracedInv
<1>6. ASSUME NEW a \in Agents
      PROVE  Traced(a)'
  <2>1. IsFiniteSet(PaidBy(a)) /\ IsFiniteSet(PaidTo(a)) /\ IsFiniteSet(WithdrawnBy(a))
    BY FS_Subset DEF PaidBy, PaidTo, WithdrawnBy, TracedInv
  <2>2. /\ AmountsOf(PaidBy(a)) \in Nat /\ AmountsOf(PaidTo(a)) \in Nat
        /\ AmountsOf(WithdrawnBy(a)) \in Nat
    BY <2>1, <1>4, AmountsOfNat DEF PaidBy, PaidTo, WithdrawnBy, TypeOK, Settlement
  <2>3. AmountsOf(WithdrawnBy(a))' = AmountsOf(WithdrawnBy(a)) + (IF a = b THEN x ELSE 0)
    <3>1. CASE a = b
      <4>1. WithdrawnBy(a)' = WithdrawnBy(a) \cup {r}
        BY <1>1, <1>3, <3>1 DEF WithdrawnBy
      <4> QED
        BY <4>1, <3>1, <1>2, <1>3, <1>4, <2>1, AmountsOfWith DEF WithdrawnBy
    <3>2. CASE a # b
      <4>1. WithdrawnBy(a)' = WithdrawnBy(a)
        BY <1>1, <1>3, <3>2 DEF WithdrawnBy
      <4> QED
        BY <4>1, <3>2, <2>2
    <3> QED
      BY <3>1, <3>2
  <2>4. AmountsOf(PaidBy(a))' = AmountsOf(PaidBy(a)) /\ AmountsOf(PaidTo(a))' = AmountsOf(PaidTo(a))
    BY <1>1 DEF PaidBy, PaidTo
  <2>5. vault'[a] = vault[a] - (IF a = b THEN x ELSE 0)
    BY <1>1, <1>3 DEF TypeOK
  <2>6. Traced(a) /\ vault[a] \in Nat /\ funded[a] \in Nat /\ exited[a] \in Nat
    BY DEF TracedInv, TypeOK
  <2> QED
    BY <1>1, <1>3, <2>2, <2>3, <2>4, <2>5, <2>6 DEF Traced
<1> QED
  BY <1>1, <1>5, <1>6 DEF TracedInv

\* What a vault holds is what wallets put in and what the records on chain say
\* it won, less what they say it paid, for any number of agents and records.
THEOREM TokensAlwaysTraced == Spec => []EveryTokenTraced
<1>1. Init => TracedInv
  <2> SUFFICES ASSUME Init PROVE TracedInv
    OBVIOUS
  <2>1. AmountsOf({}) = 0
    BY SumOfNone DEF AmountsOf
  <2>2. ASSUME NEW a \in Agents PROVE Traced(a)
    <3>1. PaidBy(a) = {} /\ PaidTo(a) = {} /\ WithdrawnBy(a) = {}
      BY DEF Init, PaidBy, PaidTo, WithdrawnBy
    <3>2. vault[a] = 0 /\ exited[a] = 0 /\ funded[a] = 0
      BY DEF Init
    <3> QED
      BY <2>1, <3>1, <3>2 DEF Traced
  <2> QED
    BY <2>2, FS_EmptySet DEF Init, TracedInv
<1>2. TypeOK /\ TracedInv /\ [Next]_vars => TracedInv'
  <2> SUFFICES ASSUME TypeOK, TracedInv, [Next]_vars PROVE TracedInv'
    OBVIOUS
  <2> DEFINE Same == UNCHANGED <<settlements, withdrawals>>
  <2>1. ASSUME Same, NEW a \in Agents
        PROVE  /\ AmountsOf(PaidBy(a)) \in Nat /\ AmountsOf(PaidBy(a))' = AmountsOf(PaidBy(a))
               /\ AmountsOf(PaidTo(a)) \in Nat /\ AmountsOf(PaidTo(a))' = AmountsOf(PaidTo(a))
               /\ AmountsOf(WithdrawnBy(a)) \in Nat
               /\ AmountsOf(WithdrawnBy(a))' = AmountsOf(WithdrawnBy(a))
    <3>1. IsFiniteSet(PaidBy(a)) /\ IsFiniteSet(PaidTo(a)) /\ IsFiniteSet(WithdrawnBy(a))
      BY FS_Subset DEF PaidBy, PaidTo, WithdrawnBy, TracedInv
    <3> QED
      BY <2>1, <3>1, AmountsOfNat DEF PaidBy, PaidTo, WithdrawnBy, TypeOK, Settlement, Withdrawal
  <2>2. CASE UNCHANGED <<vault, settlements, withdrawals, exited, funded>>
    BY <2>1, <2>2 DEF TracedInv, Traced
  <2>3. ASSUME NEW p \in Players, NEW b \in Agents, NEW x \in Amounts, Deposit(p, b, x)
        PROVE  TracedInv'
    <3>1. /\ Same /\ exited' = exited /\ x \in Nat
          /\ vault' = [vault EXCEPT ![b] = @ + x] /\ funded' = [funded EXCEPT ![b] = @ + x]
      BY <2>3, ArgumentsTyped DEF Deposit
    <3>2. ASSUME NEW a \in Agents PROVE Traced(a)'
      <4>1. /\ Traced(a) /\ vault[a] \in Nat /\ funded[a] \in Nat /\ exited[a] \in Nat
            /\ vault'[a] - vault[a] = funded'[a] - funded[a]
            /\ vault'[a] \in Nat /\ funded'[a] \in Nat
        BY <3>1 DEF TracedInv, TypeOK
      <4> QED
        BY <2>1, <3>1, <4>1 DEF Traced
    <3> QED
      BY <3>1, <3>2 DEF TracedInv
  <2>4. ASSUME NEW p \in Players, NEW b \in Agents, ClaimExit(p, b)
        PROVE  TracedInv'
    <3> DEFINE paid == ExitPayout(exits[b].amount, vault[b], MinStake)
    <3>1. /\ Same /\ funded' = funded
          /\ vault' = [vault EXCEPT ![b] = @ - paid] /\ exited' = [exited EXCEPT ![b] = @ + paid]
      BY <2>4 DEF ClaimExit
    <3>2. paid \in Nat
      <4>1. MinStake \in Nat /\ exits[b] \in Exit /\ vault[b] \in Nat
        BY <2>4, LimitsTyped DEF MinStake, Config, ClaimExit, TypeOK
      <4>2. exits[b].amount \in Nat
        BY <4>1 DEF Exit
      <4> HIDE DEF MinStake
      <4> QED
        BY <4>1, <4>2 DEF ExitPayout
    <3> HIDE DEF paid
    <3>3. ASSUME NEW a \in Agents PROVE Traced(a)'
      <4>1. /\ Traced(a) /\ vault[a] \in Nat /\ funded[a] \in Nat /\ exited[a] \in Nat
            /\ vault'[a] + exited'[a] = vault[a] + exited[a]
            /\ vault'[a] \in Int /\ exited'[a] \in Nat
        BY <3>1, <3>2 DEF TracedInv, TypeOK
      <4>2. /\ AmountsOf(PaidBy(a)) \in Nat /\ AmountsOf(PaidBy(a))' = AmountsOf(PaidBy(a))
            /\ AmountsOf(PaidTo(a)) \in Nat /\ AmountsOf(PaidTo(a))' = AmountsOf(PaidTo(a))
            /\ AmountsOf(WithdrawnBy(a)) \in Nat
            /\ AmountsOf(WithdrawnBy(a))' = AmountsOf(WithdrawnBy(a))
        BY <2>1, <3>1
      <4> QED
        BY <3>1, <4>1, <4>2 DEF Traced
    <3> QED
      BY <3>1, <3>3 DEF TracedInv
  <2> QED
    BY <2>2, <2>3, <2>4, SettleTraced, WithdrawTraced, TokenMovers
<1>3. TracedInv => EveryTokenTraced
  BY DEF TracedInv, Traced, PaidBy, PaidTo, WithdrawnBy, EveryTokenTraced
<1> QED
  BY <1>1, <1>2, <1>3, TypeCorrect, PTL DEF Spec
=============================================================================
