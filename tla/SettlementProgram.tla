-------------------------- MODULE SettlementProgram --------------------------
(***************************************************************************)
(* The Solana program that holds the stakes                                *)
(* (chain/programs/oxude_settlement/src/lib.rs).                           *)
(*                                                                         *)
(* One action per instruction, each with the account constraints of its    *)
(* Accounts struct and the require!s of its body.  An instruction that     *)
(* fails leaves no trace, so a refusal is simply an action that is not     *)
(* enabled.  A PDA that "cannot be created twice" is an element of a set   *)
(* of records (settlements, withdrawals, rentals) or an entry of a         *)
(* function (exits).  Init is the state `initialize` leaves behind.        *)
(*                                                                         *)
(* The last three variables are history: they record what came in from     *)
(* wallets and left by exits, and how high a vault stood and how high the  *)
(* rate was since the vault's outflow window opened.  No guard reads them. *)
(***************************************************************************)
EXTENDS ProgramMath, FiniteSetsExt

CONSTANTS
  Agents,         \* agent ids
  Players,        \* keys that can own agents
  House,          \* Pubkey::default(), the owner hashed into a house agent's id
  AgentIdFor,     \* the only owner whose hash gives an agent's id
  Admin,          \* the key that ran initialize
  Settlers,       \* keys the admin may name as settler
  Matches, WithdrawalIds, RentalIds,
  NoExit,         \* there is no exit account for an agent

  \* The instruction arguments a run enumerates, and where it stops.
  Amounts, Rates, Limits, Rents, ExitWindows, Purse, MaxSlot

ASSUME ProgramAssumption ==
  /\ AgentIdFor \in [Agents -> Players \cup {House}]
  /\ House \notin Players
  /\ Amounts \subseteq U64 /\ Rates \subseteq U64 /\ Limits \subseteq U64
  /\ Rents \subseteq U64 /\ ExitWindows \subseteq U64
  /\ Purse \in Nat /\ MaxSlot \in Nat
  /\ NoExit \notin [owner: Players, amount: Nat, requested_slot: Nat, unlock_slot: Nat,
                    vault_at_request: Nat, claimed_slot: Nat, claimed_amount: Nat]

VARIABLES
  slot,           \* Clock::get()?.slot
  config,         \* settler, max_settlement, rent, chip_rate, chip_rate_slot
  opened,         \* agents whose vault account exists
  owner,          \* agents whose AgentOwner account exists
  vault,          \* tokens in each vault
  wallet,         \* tokens in each player's own token account
  burned,         \* rent burned out of the supply
  outflow,        \* each vault's window: window_start, spent
  settlements, withdrawals, rentals,
  exit_config,    \* the exit window in slots, 0 while its account does not exist
  exits,
  funded, exited, peak

chainVars   == <<slot, config, opened, owner, vault, wallet, burned, outflow,
                 settlements, withdrawals, rentals, exit_config, exits>>
historyVars == <<funded, exited, peak>>
vars        == <<chainVars, historyVars>>

Config == [settler: Settlers, max_settlement: Nat, rent: Nat, chip_rate: Nat \ {0},
           chip_rate_slot: Nat]
Settlement == [match: Matches, from: Agents, to: Agents, amount: Nat]
Withdrawal == [id: WithdrawalIds, agent: Agents, owner: Players, amount: Nat, remaining: Nat]
Exit == [owner: Players, amount: Nat, requested_slot: Nat, unlock_slot: Nat,
         vault_at_request: Nat, claimed_slot: Nat, claimed_amount: Nat]

MinStake == InBaseUnits(MIN_STAKE_CHIPS, config.chip_rate)
Ceiling(rate) == InBaseUnits(MAX_SETTLEMENT_CEILING_CHIPS, rate)
-----------------------------------------------------------------------------
\* initialize: refused unless every figure is positive and the limit is under
\* the ceiling.  The slot starts above zero, as a cluster that runs programs
\* is past its genesis slot.
Init ==
  /\ slot = 1
  /\ \E s \in Settlers, m \in Limits, r \in Rents, c \in Rates :
       /\ c > 0 /\ m > 0 /\ r > 0
       /\ Fits(Ceiling(c)) /\ m <= Ceiling(c)
       /\ config = [settler |-> s, max_settlement |-> m, rent |-> r,
                    chip_rate |-> c, chip_rate_slot |-> 0]
  /\ opened = {} /\ owner = {}
  /\ vault = [a \in Agents |-> 0]
  /\ wallet = [p \in Players |-> Purse]
  /\ burned = 0
  /\ outflow = [a \in Agents |-> [window_start |-> 0, spent |-> 0]]
  /\ settlements = {} /\ withdrawals = {} /\ rentals = {}
  /\ exit_config = 0
  /\ exits = [a \in Agents |-> NoExit]
  /\ funded = [a \in Agents |-> 0]
  /\ exited = [a \in Agents |-> 0]
  /\ peak = [a \in Agents |-> [held |-> 0, rate |-> config.chip_rate]]

Tick ==
  /\ slot < MaxSlot
  /\ slot' = slot + 1
  /\ UNCHANGED <<config, opened, owner, vault, wallet, burned, outflow, settlements,
                 withdrawals, rentals, exit_config, exits, historyVars>>

\* History: the highest balance and rate since the vault's window opened.
Raised(p, held, rate) == [held |-> Larger(p.held, held), rate |-> Larger(p.rate, rate)]
-----------------------------------------------------------------------------
\* The admin's instructions.

SetChipRate(rate) ==
  LET rescaled == Rescaled(config.max_settlement, config.chip_rate, rate)
  IN  /\ rate > 0 /\ rate <= MAX_CHIP_RATE
      /\ RateIntervalPassed(config.chip_rate_slot, slot)
      /\ RateWithinBand(config.chip_rate, rate)
      /\ Fits(config.max_settlement * rate)
      /\ config' = [config EXCEPT !.max_settlement = rescaled,
                                  !.chip_rate = rate,
                                  !.chip_rate_slot = slot]
      /\ peak' = [a \in Agents |-> Raised(peak[a], vault[a], rate)]
      /\ UNCHANGED <<slot, opened, owner, vault, wallet, burned, outflow, settlements,
                     withdrawals, rentals, exit_config, exits, funded, exited>>

OnlyConfig == UNCHANGED <<slot, opened, owner, vault, wallet, burned, outflow, settlements,
                          withdrawals, rentals, exit_config, exits, historyVars>>

SetRent(rent) ==
  /\ rent > 0
  /\ config' = [config EXCEPT !.rent = rent]
  /\ OnlyConfig

SetMaxSettlement(limit) ==
  /\ limit > 0
  /\ Fits(Ceiling(config.chip_rate)) /\ limit <= Ceiling(config.chip_rate)
  /\ config' = [config EXCEPT !.max_settlement = limit]
  /\ OnlyConfig

SetSettler(key) ==
  /\ key # House /\ key # config.settler /\ key # Admin
  /\ config' = [config EXCEPT !.settler = key]
  /\ OnlyConfig

OnlyExitConfig == UNCHANGED <<slot, config, opened, owner, vault, wallet, burned, outflow,
                              settlements, withdrawals, rentals, exits, historyVars>>

InitExitConfig(slots) ==
  /\ exit_config = 0
  /\ slots >= MIN_EXIT_WINDOW_SLOTS
  /\ exit_config' = slots
  /\ OnlyExitConfig

SetExitWindow(slots) ==
  /\ exit_config # 0
  /\ slots >= MIN_EXIT_WINDOW_SLOTS
  /\ WindowShrinkOk(exit_config, slots)
  /\ exit_config' = slots
  /\ OnlyExitConfig
-----------------------------------------------------------------------------
\* Renting: the fee, the vault, the deposit.

PayRent(settler, renter, id, amount) ==
  /\ settler = config.settler
  /\ amount = config.rent
  /\ id \notin rentals
  /\ wallet[renter] >= amount
  /\ wallet' = [wallet EXCEPT ![renter] = @ - amount]
  /\ burned' = burned + amount
  /\ rentals' = rentals \cup {id}
  /\ UNCHANGED <<slot, config, opened, owner, vault, outflow, settlements, withdrawals,
                 exit_config, exits, historyVars>>

OnlyVaultOpens(a) ==
  /\ a \notin opened
  /\ opened' = opened \cup {a}
  /\ UNCHANGED <<slot, config, vault, wallet, burned, outflow, settlements, withdrawals,
                 rentals, exit_config, exits, historyVars>>

OpenVault(settler, a) ==
  /\ settler = config.settler
  /\ AgentIdFor[a] = House
  /\ OnlyVaultOpens(a)
  /\ UNCHANGED owner

OpenOwnedVault(settler, a, p) ==
  /\ settler = config.settler
  /\ AgentIdFor[a] = p
  /\ a \notin owner
  /\ OnlyVaultOpens(a)
  /\ owner' = owner \cup {a}

\* A deposit, or a plain token transfer to the vault: the tokens move alike.
Deposit(p, a, amount) ==
  /\ a \in opened
  /\ amount > 0 /\ wallet[p] >= amount
  /\ wallet' = [wallet EXCEPT ![p] = @ - amount]
  /\ vault' = [vault EXCEPT ![a] = @ + amount]
  /\ funded' = [funded EXCEPT ![a] = @ + amount]
  /\ peak' = [peak EXCEPT ![a] = Raised(@, vault[a] + amount, config.chip_rate)]
  /\ UNCHANGED <<slot, config, opened, owner, burned, outflow, settlements, withdrawals,
                 rentals, exit_config, exits, exited>>
-----------------------------------------------------------------------------

\* Each guard that a property leans on is an operator of its own.  The one that
\* precedes it is the same guard got wrong, which the properties must notice.

\* A settlement record that may exist already (init_if_needed).
UnsettledOrNot(m) == m \in Matches
Unsettled(m) == \A s \in settlements : s.match # m

\* Held to the limit only, not to what the vault has.
LimitCovers(a, amount) == amount <= config.max_settlement
Covers(a, amount) == vault[a] >= amount

\* The budget looked at before it is charged.
RoomBefore(a, charged) == outflow[a].spent <= OutflowCap(vault[a], config.chip_rate)
WithinCap(a, charged) == charged.spent <= OutflowCap(vault[a], config.chip_rate)

\* A match's net, from the loser's vault to the winner's, inside its window.
Settle(settler, m, from, to, amount) ==
  LET charged == Charged(outflow[from], slot, amount)
      reopens == charged.window_start # outflow[from].window_start
      since   == IF reopens THEN [held |-> vault[from], rate |-> config.chip_rate] ELSE peak[from]
  IN  /\ settler = config.settler
      /\ {from, to} \subseteq opened
      /\ Unsettled(m)
      /\ amount > 0
      /\ amount <= config.max_settlement
      /\ from # to
      /\ Covers(from, amount)
      /\ WithinCap(from, charged)
      /\ outflow' = [outflow EXCEPT ![from] = charged]
      /\ vault' = [vault EXCEPT ![from] = @ - amount, ![to] = @ + amount]
      /\ settlements' = settlements \cup {[match |-> m, from |-> from, to |-> to, amount |-> amount]}
      /\ peak' = [peak EXCEPT ![from] = since,
                              ![to] = Raised(@, vault[to] + amount, config.chip_rate)]
      /\ UNCHANGED <<slot, config, opened, owner, wallet, burned, withdrawals, rentals,
                     exit_config, exits, funded, exited>>

\* Owner and settler sign; `remaining` is what the ledger says will be left.
Withdraw(settler, p, id, a, amount, remaining) ==
  /\ settler = config.settler
  /\ a \in owner /\ AgentIdFor[a] = p
  /\ \A w \in withdrawals : w.id # id
  /\ amount > 0
  /\ Covers(a, amount)
  /\ vault[a] - amount = remaining
  /\ Fits(MinStake)
  /\ Playable(remaining, MinStake)
  /\ vault' = [vault EXCEPT ![a] = @ - amount]
  /\ wallet' = [wallet EXCEPT ![p] = @ + amount]
  /\ withdrawals' = withdrawals \cup {[id |-> id, agent |-> a, owner |-> p,
                                       amount |-> amount, remaining |-> remaining]}
  /\ UNCHANGED <<slot, config, opened, owner, burned, outflow, settlements, rentals,
                 exit_config, exits, historyVars>>
-----------------------------------------------------------------------------
\* Exits: the owner alone signs.

RequestExit(p, a, amount) ==
  /\ exit_config # 0
  /\ a \in owner /\ AgentIdFor[a] = p
  /\ exits[a] = NoExit
  /\ amount > 0
  /\ exits' = [exits EXCEPT ![a] =
       [owner |-> p, amount |-> amount, requested_slot |-> slot,
        unlock_slot |-> Saturated(slot + exit_config), vault_at_request |-> vault[a],
        claimed_slot |-> 0, claimed_amount |-> 0]]
  /\ UNCHANGED <<slot, config, opened, owner, vault, wallet, burned, outflow, settlements,
                 withdrawals, rentals, exit_config, historyVars>>

\* A claim made again; and one against today's window, not the one it began under.
ClaimableAgain(a)    == slot >= exits[a].unlock_slot
ClaimableByWindow(a) == exits[a].claimed_slot = 0 /\ slot >= exits[a].requested_slot + exit_config
Claimable(a)         == exits[a].claimed_slot = 0 /\ slot >= exits[a].unlock_slot

ClaimExit(p, a) ==
  LET payout == ExitPayout(exits[a].amount, vault[a], MinStake)
  IN  /\ exits[a] # NoExit
      /\ exits[a].owner = p /\ a \in owner /\ AgentIdFor[a] = p
      /\ Claimable(a)
      /\ vault[a] > 0
      /\ Fits(MinStake)
      /\ vault' = [vault EXCEPT ![a] = @ - payout]
      /\ wallet' = [wallet EXCEPT ![p] = @ + payout]
      /\ exits' = [exits EXCEPT ![a] = [@ EXCEPT !.claimed_slot = slot,
                                               !.claimed_amount = payout]]
      /\ exited' = [exited EXCEPT ![a] = @ + payout]
      /\ UNCHANGED <<slot, config, opened, owner, burned, outflow, settlements, withdrawals,
                     rentals, exit_config, funded, peak>>

\* Before a claim a cancel; after one, only once the window has passed again;
\* and the window counted from the request.
ClosableSinceRequest(a) == slot >= Saturated(exits[a].requested_slot + exit_config)
Closable(a) ==
  exits[a].claimed_slot > 0 => slot >= Saturated(exits[a].claimed_slot + exit_config)

CloseExit(p, a) ==
  /\ exits[a] # NoExit
  /\ exits[a].owner = p
  /\ Closable(a)
  /\ exits' = [exits EXCEPT ![a] = NoExit]
  /\ UNCHANGED <<slot, config, opened, owner, vault, wallet, burned, outflow, settlements,
                 withdrawals, rentals, exit_config, historyVars>>
-----------------------------------------------------------------------------
AdminStep ==
  \/ \E r \in Rates : SetChipRate(r)
  \/ \E r \in Rents : SetRent(r)
  \/ \E m \in Limits : SetMaxSettlement(m)
  \/ \E k \in Settlers : SetSettler(k)
  \/ \E w \in ExitWindows : InitExitConfig(w)
  \/ \E w \in ExitWindows : SetExitWindow(w)

SettlerStep(s) ==
  \/ \E p \in Players, id \in RentalIds, x \in Rents : PayRent(s, p, id, x)
  \/ \E a \in Agents : OpenVault(s, a)
  \/ \E a \in Agents, p \in Players : OpenOwnedVault(s, a, p)
  \/ \E m \in Matches, f, t \in Agents, x \in Amounts : Settle(s, m, f, t, x)
  \/ \E p \in Players, id \in WithdrawalIds, a \in Agents, x, r \in Amounts :
       Withdraw(s, p, id, a, x, r)

OwnerStep(p) ==
  \/ \E a \in Agents, x \in Amounts : Deposit(p, a, x)
  \/ \E a \in Agents, x \in Amounts : RequestExit(p, a, x)
  \/ \E a \in Agents : ClaimExit(p, a)
  \/ \E a \in Agents : CloseExit(p, a)

Next ==
  \/ Tick
  \/ AdminStep
  \/ \E s \in Settlers : SettlerStep(s)
  \/ \E p \in Players : OwnerStep(p)

Spec == Init /\ [][Next]_vars

\* An owner who has asked to leave keeps sending the claim, and slots pass;
\* nothing is assumed of the settler or the admin.
OwnerPersists == \A p \in Players, a \in Agents : WF_vars(ClaimExit(p, a))
FairSpec == Spec /\ WF_vars(Tick) /\ OwnerPersists
-----------------------------------------------------------------------------
\* Type correctness: the one type invariant.
TypeOK ==
  /\ slot \in Nat \ {0}
  /\ config \in Config
  /\ opened \subseteq Agents /\ owner \subseteq opened
  /\ vault \in [Agents -> Nat] /\ wallet \in [Players -> Nat] /\ burned \in Nat
  /\ outflow \in [Agents -> [window_start: Nat, spent: Nat]]
  /\ settlements \subseteq Settlement
  /\ withdrawals \subseteq Withdrawal
  /\ rentals \subseteq RentalIds
  /\ exit_config \in Nat
  /\ exits \in [Agents -> Exit \cup {NoExit}]
  /\ funded \in [Agents -> Nat] /\ exited \in [Agents -> Nat]
  /\ peak \in [Agents -> [held: Nat, rate: Nat]]

AmountsOf(S) == SumFunctionOnSet([r \in S |-> r.amount], S)

\* "Every balance traces to a deposit somebody made, or to a match won from
\* another vault" (lib.rs 24-28): what a vault holds is exactly what came in
\* from wallets, plus the settlements on record that paid it, less those it
\* paid, the withdrawals on record and the exits claimed.  A second payment
\* under one match, withdrawal or exit record breaks it.
EveryTokenTraced ==
  \A a \in Agents :
    vault[a] + AmountsOf({s \in settlements : s.from = a})
             + AmountsOf({w \in withdrawals : w.agent = a}) + exited[a]
      = funded[a] + AmountsOf({s \in settlements : s.to = a})

\* No match is settled twice and no withdrawal paid twice, even by another
\* transaction than the one that first landed (lib.rs 33-35, 49).
OneRecordPerId ==
  /\ \A s, t \in settlements : s.match = t.match => s = t
  /\ \A w, x \in withdrawals : w.id = x.id => w = x

\* No vault pays out through settlements, in one window, more than the cap of
\* the most it held in that window (lib.rs 20-23, 613-631), whatever is
\* deposited, won, withdrawn, claimed or repriced in between.
OutflowBounded ==
  \A a \in Agents : outflow[a].spent <= OutflowCap(peak[a].held, peak[a].rate)

\* The per-settlement limit never stands above the ceiling at the rate of the
\* day, however the rate has moved since the limit was set (lib.rs 196-199).
MaxSettlementUnderCeiling == config.max_settlement <= Ceiling(config.chip_rate)

\* A rate change never lets a settlement move more chips than before it: the
\* rescaling rounds down (lib.rs 207-212).
LimitNeverMeansMoreChips ==
  [][config'.chip_rate # config.chip_rate =>
       config'.max_settlement * config.chip_rate <= config.max_settlement * config'.chip_rate]_vars

\* An owner leaving, by withdrawal or by exit, never leaves dust: the vault is
\* empty afterwards or still holds MIN_STAKE_CHIPS at the rate (lib.rs 422, 434,
\* 540-545).
OwnerLeavesNoDust ==
  [][\A a \in Agents :
       (vault'[a] < vault[a] /\ settlements' = settlements)
         => vault'[a] = 0 \/ vault'[a] >= MinStake]_vars

\* The chance to settle before the money leaves is never nil: whatever the
\* admin does to the window, a claim lands MIN_EXIT_WINDOW_SLOTS or more after
\* its own request (lib.rs 120-134).
ExitWaits ==
  \A a \in Agents : exits[a] # NoExit =>
    /\ exits[a].unlock_slot >= Smaller(exits[a].requested_slot + MIN_EXIT_WINDOW_SLOTS, U64Max)
    /\ exits[a].claimed_slot > 0 => exits[a].claimed_slot >= exits[a].unlock_slot

\* An exit pays its owner once per request: the payout on record is exactly
\* what left the vault under it, an unclaimed exit has paid nothing, and what
\* settlements have left in the meantime is paid out to the last token rather
\* than to less than MIN_STAKE_CHIPS at the rate (lib.rs 546-577, 670-690).
ExitPaysOnce ==
  [][\A a \in Agents :
       exited'[a] # exited[a] =>
         /\ exits[a].claimed_slot = 0 /\ exits'[a].claimed_slot = slot
         /\ exits'[a].claimed_amount = exited'[a] - exited[a]
         /\ exited'[a] - exited[a] > exits[a].amount => vault'[a] = 0
         /\ vault'[a] = 0 \/ vault'[a] >= MinStake]_vars

\* The evidence of a claim stays on chain for a window (lib.rs 584-590): the
\* shortest one the program accepts, which is all that can be counted on.
EvidenceKept ==
  [][\A a \in Agents :
       (exits[a] # NoExit /\ exits[a].claimed_slot > 0 /\ exits'[a] = NoExit)
         => slot >= Saturated(exits[a].claimed_slot + MIN_EXIT_WINDOW_SLOTS)]_vars

\* An exit nobody co-signs cannot be held up: once asked for, it is paid, or
\* the owner cancels it, or the vault has been settled down to nothing,
\* whatever the settler and the admin do (lib.rs 532-545).
Paid(a) == exits[a] = NoExit \/ exits[a].claimed_slot > 0
OwnerCanLeave ==
  \A a \in Agents :
    (exits[a] # NoExit /\ exits[a].unlock_slot <= MaxSlot) ~> (Paid(a) \/ vault[a] = 0)
=============================================================================
