# Oxude in TLA+

Oxude agents play bluff matches against one another for chips. A Postgres ledger
is the authority on balances; every match a ledger transaction records also queues
an *op* in an outbox, and a worker lands those ops on a Solana program that
holds the tokens in one vault per agent. An owner can leave through the program
alone, without the server's signature.

This directory models that system and checks it: TLA+ modules translated
from the code, TLC runs on small instances, and TLAPS proofs for every value of
the constants. Paths below are relative to the repository (`src/db/runner.ts`,
`chain/programs/oxude_settlement/src/lib.rs`, written `lib.rs`).

Contents: [inventory](#inventory) · [modules](#modules-and-the-code-they-model) ·
[runs](#runs) · [where code and text disagree](#where-code-and-text-disagree) ·
[fairness](#fairness) · [proofs](#proofs) · [abstractions](#abstractions) ·
[not modelled](#not-modelled).

## Inventory

| component | state | operations | talks to | hard behaviour | what makes it correct |
|---|---|---|---|---|---|
| **Settlement program** `lib.rs` | config (settler, limit, rent, chip rate), vaults, one outflow window per vault, one record per settlement, withdrawal and rental, exits, the exit window | `initialize`, `set_*`, `pay_rent`, `open_vault`, `open_owned_vault`, `deposit`, `settle`, `withdraw`, `init_exit_config`, `set_exit_window`, `request_exit`, `claim_exit`, `close_exit` | called by the worker, owners and the admin in any order | instructions of different signers interleave; limits are in chips and the rate moves; 64-bit arithmetic; a window shortened between a request and its claim | every token traced; one record per id; a window pays at most its cap; no dust; exits wait, pay once, can be had without the server |
| **Staked matches** `db/runner.ts`, `db/ledger.ts` | agents (band, `retired_at`), ledger rows, matches, `chain_ops` | `createAgent`, `setBand`, `pickOpponent`, `runMatch` | HTTP handler and autoplay loop call it; the outbox reads what it queues | several reads with awaits between them, then one transaction under row locks that repeats only some of the checks | ledger and outbox agree; nobody retired, lapsed or withdrawing moves; retired exactly when broke; commitments stay near the budget |
| **Outbox worker** `chain/worker.ts` | `chain_ops.status`; a pass's snapshot and its set of agents that can have no vault | `drainChainOps`, `reconcile`, `creditSurplus`, `solvency`, `startChainWorker` | reads what the runner writes, sends to the program | lost answers, late landings, restarts, throttled vaults, ops overtaking one another, a snapshot of bounded length | idempotent against the chain; confirmed only if landed; given up on only if it never will; everything servable lands |
| **Chain clients** `chain/settlement.ts`, `seed-settlement.ts`, `common.ts` | none | send and confirm one instruction, read accounts | RPC node | a timeout says nothing of what landed | modelled as what the worker sees |
| **Withdrawals** `db/withdrawals.ts` | `withdrawals` rows, their op and ledger rows | prepare, submit, the worker's settle, mark, expire | runner (barred agents), worker, program | the worker's expiry races the submitting request; a landing between "not found" and "height passed" | paid or put back; a retirement it caused undone with it |
| **Exit watcher** `db/exits.ts` | `exits` rows mirroring the program's | ingest, absorb, clear, `isExiting` | program, runner, reconcile | rows read and written in separate statements; a claim absorbed before earlier ops land; a new request at an old address; windows that run out unseen | a claim comes off the ledger once, and is short only of money already on its way; the agent thaws |
| **Rentals** `db/rentals.ts`, `db/rental.ts` | `rentals` rows, agents | prepare, submit, confirm, expire, reject, sweep | program, worker | a page that declines what a wallet still sends; expiry racing a landing | credited once, and only if paid; nobody waits for ever |
| **Deposits** `db/deposits.ts` | `deposits` rows, ledger rows | prepare, submit, confirm, expire, sweep | program, worker's surplus credit | telling a deposit from other money by balances alone | nothing left uncounted; counted twice only by the races it takes |
| **Seasons and renewal** `db/seasons.ts`, `season.ts` | seasons, a rental's end | close, renew, lapse, tick | runner (barred agents) | matches in hand at the boundary; the server down for a season | frozen standings are final; every season closes; nobody unrenewed stays |
| **Autoplay** `db/autoplay.ts` | per agent: on/off, floor, why it stopped | due, check, stop, hold, tick | runner | acts on rows read at the start of the tick | at most one match after it is switched off |
| **Engine** `engine.ts`, `round.ts`, `rng.ts` | a match's state | decide, resolve, advance | runner | who is asked again after a raise; the bound the money code trusts | zero-sum; nets bounded; nobody pays a raise unheard |
| **Live stream** `http/live.ts`, `db/feed.ts` | open streams, the last seq read, recent matches | open, drop, start, stop, read | matches table; pages | listeners come and go at every await; matches commit out of order | the loop runs while watched; no match falls between catch-up and tail |
| **HTTP server, limiter** `http/server.ts`, `rate-limit.ts` | hits per caller | routes, `hit`, `refund` | everything above | requests run side by side; one agent per wallet | one active agent per wallet |
| **Faucet** `db/faucet.ts`, `chain/faucet.ts` | payouts | claim, pay, fail | chain | a payout whose confirmation is lost | one payout per wait |
| **Sign-in** `auth/wallet.ts` | nonces, sessions | challenge, verify, session | HTTP | two verifications of one nonce | a nonce opens one session |
| **House exhibitions** `db/house.ts` | matches without stakes | play | runner | - | nothing staked, nothing queued |
| **Statistics and looks** `db/rating.ts`, `standings.ts`, `statement.ts`, `feed.ts`, `character/*` | read-only but for ratings | - | pages | - | - |

How they interact: an HTTP request or the autoplay loop calls the runner; the runner
writes the ledger and `chain_ops` in one transaction; the worker, every 5 seconds and
one pass at a time, sends what is pending to the program; a second timer
watches exits on chain and absorbs their claims into the ledger; rentals, deposits and
withdrawals are transactions the owner's wallet sends, which the server prepares
beforehand and recognises afterwards. Nothing else is shared: the database and the
program's accounts are all the state there is.

The hazards of each part, at the line where each bites, are listed in `PROJECT.json`
together with the properties that would notice.

## Modules and the code they model

**`ProgramMath`** - the program's arithmetic, as operators: conversion at the chip rate
(`InBaseUnits`, `Fits` for `checked_mul`), the outflow cap and the charge to a window, the
band and interval of a rate change, the rescaled limit, what an exit pays. `U64Max` is a
constant, so that overflow is within a run's reach.

**`SettlementProgram`** - the program: one action per instruction, with the constraints of
its `Accounts` struct and its `require!`s as guards. An instruction that fails leaves no
trace, so a refusal is an action that is not enabled. A PDA that cannot be created twice
is an element of a set of records. Guards several properties lean on are operators of their
own (`Unsettled`, `Covers`, `WithinCap`, `Claimable`, `Closable`). Three history variables
(`funded`, `exited`, `peak`) record what the accounts no longer show.

**`Runner`** - staked matches. `games[c]` is what caller `c` is in the middle of, and its
three steps are the code's: `Pick` (pickOpponent), `Check` (runMatch up to the engine),
`Record` or `RecordRefused` (the transaction). `ledger` is the sum of an agent's ledger
rows, `ops` is `chain_ops` in `seq` order. What other components do to an agent is `barred`:
an exit ingested, a rental over, a withdrawal submitted, each coming and going at any time.

**`Outbox`** - extends `Runner` with the worker and with the chain as the worker can move
it. `todo`, `vaultless`, `awaiting` are a pass's local state; each await of `drainChainOps`
is a boundary between actions: `Unserved`, `GiveUp`, `FindDone`, `Refused`, `Send`, then
`Confirm` or `Bounced`; `Stop` is an RPC error or the process dying anywhere. `Land` and
`Drop` are what becomes of a transaction that was sent. `Accepts` and `Land` use the same
`Charged` and `OutflowCap` as `SettlementProgram`.

**`OutboxPromise`** - the abstract outbox: ops are queued, reach the chain at most once,
are reported done only after, are abandoned only if they never have and never will.
`Outbox` implements it under the mapping `Promise` (`KeepsPromise`).

**`Purse`** - money out of one agent's purse by its two ways at once, because what is hard is their meeting:
a withdrawal (ledger first, vault after) and an exit (vault first, ledger after). A withdrawal's record carries
its row (`status`), its op and what became of its transaction (`fate`); each await of `submitWithdrawal` and
`settleWithdrawal` is a boundary (`Submit` / `RequestMarks`; `WorkerSends` / `WorkerLooksAgain` /
`WorkerExpires`), so that the transaction may land between any two. The watcher's pass is `PassReads`, then
`PassIngests` (the row), then `PassAbsorbs` (the claim) or `PassClears`. `Stop` and `Boot` stop the server at any of
them. The program counts slots, so `WindowPasses` waits for nothing: a claim, and the closing of its record, may come
before the watcher has seen either and while settlements are queued. Four variables are history. `watched`: has a
whole pass begun and ended since the exit last changed? `drained`: the requests claimed when the watcher had seen them and nothing was
queued. `slipped`: the claims whose record was closed before a whole pass had seen them. `forgiven`: what claims took
that the ledger no longer had.

**`Tenancy`** - one wallet's agents from renting to retiring: two tabs, the advisory lock, the rental's
transaction against the submitting request, the decline and the sweep; seasons that close late; the
autoplay loop's stale list; the withdrawal that retires an agent and may be put back. Time is ticks; a season and
its grace are constants. Balances are not here: one may be too low whenever the loop asks.

**`Funding`** - money into one agent's purse: deposits, plain transfers, and the timer's pass over both
(`sweepDeposits`, then `creditSurplus`) with every read a step of its own, while matches and a withdrawal of a part move
the ledger before the vault. A withdrawal put back leaves a failed op (`failed`), which `AllConfirmed` sees as `reconcile` does.
Two variables are history. `spent`: deposits whose money was in the vault when it was counted as something else. `raced`:
has money been counted on evidence that no longer held (`Misread`), or a spent deposit counted again?

**`Live`** - the live stream. A match takes its seq at `Insert` and is seen at `Commit`, in any order; a listener is
`starting`, `greeting`, then `live`; starting the loop and a pass of it have a step per await. `owed` is history: what an
open listener has still to be sent.

**`Match`** - the engine: one action per choice of alternating play (`Lead`, `Reply`, `Answer`) or per pair of choices
(`ChooseAtOnce`), the round resolved with the last of them, as the engine does.

**`MC*`** - owners, bands, balances and bounds of the small instances.

**`SettlementProgramProofs`** - theorems about the program: amounts, limits, windows, records, exits and tokens.
**`OutboxProofs`** - theorems about staked matches (part one, which is about `Runner` alone) and about the worker on top of
them (part two). **`PurseProofs`**, **`FundingProofs`**, **`LiveProofs`**, **`MatchProofs`**, **`TenancyProofs`** - theorems
about the module each is named after. **`Sums`** - lemmas on the community modules' sum of a function over a finite set,
which every theorem about money needs.

How they compose: `Outbox` extends `Runner` and shares `ProgramMath` with `SettlementProgram`. `Match` is what
bounds the `Nets` the others take. `Purse`, `Funding` and `Tenancy` see one agent or one wallet from three sides and
each keeps of the others what it needs: `Purse` and `Funding` play matches as "the ledger now, the vault later", which
is what `Outbox` shows of them, and `Tenancy` has withdrawals without amounts.

In each module the operator just above a named guard, with the same parameters, is
that guard got wrong in a way a slip of the code would get it wrong (a dropped check, the
wrong balance, a window counted from the wrong slot). Nothing uses it; it is kept because
with it in the guard's place the properties fail, which shows that they depend on the guard.

## Runs

`tlc -config X.cfg M` for each; the deadlock check is off in all of them because ids, slots, ops, matches or
openings run out, and then nothing is left to do.

| run | module | asks | result |
|---|---|---|---|
| `ProgramMoney` | MCSettlementProgram | deposits, settlements, withdrawals and rent while the rate and the limit move: is every token traced, every id used once, every window bounded while the cap falls with the balance, every limit kept? | holds |
| `ProgramExit` | MCSettlementProgram | exits against settlements while the admin moves the window: early, double or lost payments, dust? can the owner always get out? | holds |
| `RunnerTwoCallers` | MCRunner | two requests side by side, bands changing, a withdrawal coming and going: is the transaction's own recheck enough? | holds |
| `OutboxLost` | MCOutbox | throttled vaults, late and lost transactions, dying passes, a flow without a client: does everything land that can? | holds |
| `OutboxSeed` | MCOutbox | vaults the worker itself opens, one of them never, so that it and its settlements are given up on: does the chain follow the ledger, and is what the outbox reports so? | holds |
| `Purse` | MCPurse | a withdrawal, two exits, a match and an outage, with windows that run out at any time: what can ledger and vault differ by in the end, and does everything come to rest? | holds |
| `Tenancy` | MCTenancy | two tabs, declines, sweeps, withdrawals and season boundaries: one agent, one credit, final standings? | holds |
| `Funding` | MCFunding | two deposits, a transfer, a match and a withdrawal of the same amount, lost answers: what is counted twice, what never? | holds |
| `Live` | MCLive | listeners coming and going while matches commit out of order: is any match missed? | holds |
| `Match` | MCMatch | every match of the shipped rules: is the engine's bound one? | holds |
| `RunnerOverdraft`, `OutboxGridlock` | | one sentence of the repository each | violated, see below |

### What the properties say

*Program.* `EveryTokenTraced`: a vault's balance is exactly what wallets put in and records
account for. `OneRecordPerId`: no settlement or withdrawal twice, in whatever transaction.
`OutflowBounded`: what a window has paid is within the cap of the most the vault held, at the
highest rate, since the window opened - the cap itself is read from a balance that falls as the
vault pays, so a fixed bound would be false. `MaxSettlementUnderCeiling` and
`LimitNeverMeansMoreChips`: `set_chip_rate` never compares the rescaled limit with the
ceiling, and need not. `ExitWaits`, `ExitPaysOnce`, `EvidenceKept`, `OwnerCanLeave`: leaving; a claim pays what its
record says, once, and leaves no dust whatever settlements have left in the vault since the request.

*Runner.* `OutboxMirrorsLedger`: a balance is what renting put in plus what the outbox says.
`RetiredExactlyWhenBroke`: the retired are those a match has broken. It speaks of agents that began with
enough for the cheapest band: what an owner deposits on renting may be any positive amount, and an agent rented
with less can never play, so nobody ever retires it. `StoppedBalancesStand`: a retired, lapsed or withdrawing
agent's balance does not move, however stale the caller's checks. `OverdraftBounded` and
`CommitmentsWithinBudget`: the unlocked checks can be overtaken, and this is by how much.

*Outbox.* `VaultsFollowLedger`: the chain is the ledger less what has not landed. `KeepsPromise`: the
refinement: confirmed means landed, failed means not landed and never to. `EverythingLands`: a settlement between
open vaults is confirmed in the end, unless the vaults come to be gridlocked (below).

*Purse.* `Backed`: once nothing is on its way, ledger and vault differ by what claims took that the ledger no longer
had (`forgiven`), by withdrawals paid and reversed (`Reversed`), by claims closed before any whole pass had seen them (`Slipped`), and by
nothing else. `DebitedInFull`: what a claim takes that the ledger lacks is money on its way, debited or lost and not yet gone
from the vault; and if the watcher had seen the request and nothing was queued when the claim was taken, then a
withdrawal was submitted behind it - which is what freezing an agent from ingest is for. `NothingLeftBehind`: an agent retired by its
withdrawal or its exit leaves nothing that only a withdrawal could fetch. `ComesToRest`: a withdrawal is paid or put back, a claim
comes off the ledger or slips, and the agent thaws or is frozen by a claim that slipped, with the server
stopping between any two statements.

*Tenancy.* `OneInPlayUnlessPutBack`: one agent in play per wallet, with the exception that a withdrawal put back
un-retires. `OpeningCreditedOnce`: the deposit of a rental is credited once and only if it landed, whoever finds it.
`FrozenStandingsAreFinal`: nothing is counted for a season that is closed. `OneMatchAfterOff`: the loop's stale list is
worth one match at most. `TimersCatchUp`: every rental resolves, every season closes, every unrenewed agent lapses.

*Funding.* `OverCountedOnlyByRace`: the ledger comes to say more than there is only when a pass acts on what has moved since
it read it, when it takes a debit still queued for a deposit (both `Misread`), or when a request that is answered counts a deposit
whose money has been counted as something else (`spent`). A second deposit is none of these; it is one only once its money
was taken for the first's. It is a description of how far telling money by balances can be trusted. `NothingLeftAside`: what
reached the vault is counted in the end, and every submitted deposit is decided, unless a prepared one is left unsigned
or a withdrawal of the agent's was ever put back.

*Live.* `TailRunsIfWatched`: the loop runs exactly while somebody who has been let in is there.
`NothingFallsBetween`: a match recorded while a stream is open is ahead of the loop, in its hands, or among what the
listener is about to be greeted with. `EveryMatchIsSent`: and is sent - except where it is not, which `owed` leaves out
and the next section lists.

*Match.* `NetWithinMaxNet`: what `maxNet` says is a bound, and nets sum to zero. `RaiseIsHeard`: in alternating play
the loser of a raised bet raised it or chose after the raise, without folding.

### Bounds and why they are enough

*Program runs*: two vaults (one agent of a player's, one of the house's), one player, two
matches, which is what a second payment, a payment back and forth, and a window charged twice
need; `MaxSlot` 3-4 against windows of 1-2 slots, so that every window opens, runs out and opens again;
amounts that lie below, at and above each limit (minimum stake 2, cap floor 1 or 3 chips), zero
included; `U64Max` = 255, reached by rates in principle and not by amounts. In `ProgramMoney` a wallet has 16 tokens, so
that at a rate of 2 a vault of 16 may pay 4 in a window, one of 14 may pay 3, and the floor is 2: a second settlement of 2 is refused by
the cap that has fallen, which the cap the window opened with would have allowed. `Limits` 2 and 5 do not divide evenly
at rates of 2 and 3, so that rounding happens.

*Runner runs*: three agents, because two requests that share one agent need two opponents;
bands of worst match 1 and 2, balances of 3 to 6, so that an agent is a few matches from
broke; two callers, the least that interleave; three ops. `Nets` 1 and 2 are every
magnitude a match in the dearer band can have (0 is in `RunnerOverdraft`).

*Outbox runs*: three agents and three to five ops; a window of one tick; a vault whose window
is spent at the start (`FloorPaid`), so that throttling comes before the first settlement; at most
two transactions of one op in flight, as a third can do nothing the second cannot;
`BatchLimit` below the number of ops in `OutboxSeed`, so that a pass leaves some behind. Only there is
an agent rented under an older server (`Legacy`), so that ops are given up on: `KeepsPromise` is checked there.

*Purse*: a vault of twice the least worth keeping, so that half leaves an agent and all of it none; a minimum stake of half
that, so that a claim of half after a loss leaves dust or takes it along; one withdrawal, because a second begins only when the
first is over; two exits, because a new request at the old address is where rows are told apart; one match,
which can break the agent, or be queued while a claim is taken; one outage, which may last longer than a window.

*Tenancy*: a behaviour has one of two bounds. One agent, two seasons of two ticks and a match in each: everything
about boundaries concerns one agent at a time. Two agents within a season: everything about one agent per
wallet, and there a season need not end. A third agent adds nothing the second cannot do.

*Funding*: two deposits, one transfer, one match, one withdrawal and one failed read, all of one amount, so that each can be
taken for another. `Start` is less than that amount: an agent that has played itself out is what deposits are for
(`deposits.ts:13-16`), and it can lose or withdraw only money that has come in and been counted.

*Live*: two listeners, three matches of which the second is an exhibition (sent without reading counters), memory and
reads of two, so that both are exceeded; three openings, so that a listener returns after the loop has stopped.

*Match*: the shipped rules, all of them; the proofs take any others.

## Where code and text disagree

Two have a run whose one property is the sentence, and a behaviour that breaks it.

* **`RunnerOverdraft`** - *"both agents must be able to pay that worst case outright before the
  match is played at all"* (`docs/security.md:35`). `runMatch` reads balances at `runner.ts:319`,
  before the locks, and not again under them. Two requests in a band dearer than
  the cheapest both pass and the second leaves a balance below zero. `OverdraftBounded`
  is what is left: never lower than the cheapest worst match less the dearest.
* **`OutboxGridlock`** - *"an op that overtook one it depends on is refused too, and lands later"*
  (`worker.ts:29-30`). Refused ops are overtaken, and the vaults can come to owe one another
  more than any holds: then no order of the remaining ones lands. It needs balances
  near the worst match; the rest of a queue in the ledger's order would have landed.

Others were met while modelling and have no run of their own. Where a property carries an exception, it is one of these.

*Matches and the outbox.* `docs/security.md:138` says an agent "is frozen from ingest onward", and `isExiting` is asked before
the transaction only (`runner.ts:301-303`). `worker.ts:26-29` says one throttled vault "doesn't hold up everyone else"; a
pass reads only the oldest `limit` pending ops (339), and refused ones stay among them. `worker.ts:616-618` says the
solvency figures "are equal at every instant"; the sum leaves out agents whose vault is not confirmed (626-631), whose
matches already move the others. `README.md:155` says the worker "stops at the first failure", while
`worker.ts:396-399` carries on past a refusal. `worker.ts:106-107` says reconcile reports the agents of an op given up on,
while `worker.ts:460` leaves them out for ever.

*Program.* `lib.rs:589-590` says a claim's record outlives it "by as long as the server had to settle in the first place";
`close_exit` counts the window in force when it is called. `lib.rs:188-192` lists three bounds on a new rate, while the
product at 208-212 refuses well below `MAX_CHIP_RATE`.

*Leaving* (`Purse`). The watcher is written so that running it late is "harmless" (`exits.ts:56-63`). It is not when late is a window
after the claim: `close_exit` (`lib.rs:584-601`) waits for slots alone, and a watcher that then finds no account takes it for a
cancelled request and deletes the row (`exits.ts:131-144`). The ledger never hears of the claim: `Slipped`. If the watcher stopped
between writing the claim to its row and absorbing it, the row stays and the agent is frozen for ever instead. A new request
at the same address overwrites either row (81-106). `docs/security.md:138` says a claim can be short only after a match begun before ingest
and a server down "for the whole thirty-minute window"; settlements queue for longer than that with the server up - throttled, in
a gridlock (above), or behind an endpoint that refuses (137) - and a claim then takes what the ledger has lost. A withdrawal that lands between the worker's second look and its
question about the block height is reversed though it was paid (`worker.ts:316-321`, against `withdrawals.ts:294-297`):
`Reversed`. `submitWithdrawal` does not ask `isExiting` (`withdrawals.ts:241-256`): a claim may take what a withdrawal has
debited, and its return then has nothing behind it. A partial withdrawal put back after the claim that retired the agent
leaves its owner only a second exit.

*Funding.* `sweepDeposits` takes any sufficient difference for its deposit: a debit that is queued, or another deposit's
money (`deposits.ts:180-185` says nothing else puts money in). `creditSurplus` reads balance, vault and deposits at three moments, so what
confirms in between counts twice (`worker.ts:715-717`). A request answered late confirms a deposit that had expired and been counted as
surplus. A `prepared` deposit nobody signs is never swept, and keeps `creditSurplus` off that agent for ever. So does a
withdrawal that was put back: its op stays `failed` (`withdrawals.ts:317-320`), `reconcile` takes only agents whose ops are all
`confirmed` (`worker.ts:460`), and what is sent to that agent's vault afterwards is never counted.

*Tenancy.* A withdrawal of the lot retires an agent, its owner rents another, and the withdrawal is put back: two
in play (`server.ts:455-457`). A paid rental expires when the read of its vault fails or it lands just after
(`rentals.ts:253-258`); its owner's money is then in the vault of an agent retired as unpaid. A match begun in one season may count
in the next although autoplay was switched off with the first (`seasons.ts:117-118`). A match made by hand between `checkAgent` and
`runMatch` may break the floor (`autoplay.ts:74-77`), and `clearStop` erases a reason another stop has just written.

*Live.* "Every match is sent" (`live.ts:44`): not one that commits after a later seq has been read; not those of a pass
whose counters cannot be read, `last` having moved on (161-164); not the 51st of those missed by a reconnecting
listener, which the loop has passed; not one pushed out of memory before a greeting.

## Fairness

`Spec` of every module states none, and safety is checked under it. Six specifications add some, all of it weak, where the code runs the step on a timer or an await must end one way or another.

* `SettlementProgram!FairSpec`: slots pass, and an owner who has asked to leave keeps sending
  the claim. Nothing is assumed of the settler or the admin - that is the point of an exit.
* `Outbox!FairOutboxSpec`: `startChainWorker` runs a pass every few seconds for as long as the
  process lives and restarts it after a failure (`worker.ts:749-805`), so worker steps are weakly fair; a wait
  that can have no answer times out (`Stop /\ NoAnswer`); a transaction that stays acceptable lands; the
  clock moves; and faults - a pass that dies with an answer under way, a transaction that is
  dropped - happen only finitely often; a pass that ends with its last op is no fault. Without the last, an RPC node that fails each time refutes any liveness.
  Nothing is assumed of players.
* `Purse!FairSpec`: the worker and the watcher run on timers (`worker.ts:805`, `854`), block heights pass, and a server that is
  down is started again. Nothing of the owner, nor that any transaction lands.
* `Tenancy!FairSpec`: the rental sweep (`scripts/serve.ts`) and the season tick (`seasons.ts:177`) run on timers, a transaction of
  the database ends, block heights pass. Nothing of the owner, the loop or the clock.
* `Funding!FairSpec`: the sweep's timer, block heights, that queued moves land when the vault covers them, which is what
  `EverythingLands` says of them, and that a withdrawal lands or expires, which is what `ComesToRest` says of it. Nothing of
  the owner or the requests.
* `Live!FairSpec`: the loop's timer and every await. Nothing of listeners or of the transactions that record matches.

## Proofs

Seven modules of theorems and one of lemmas, checked by tlapm to the last leaf, for every value of the constants. Every
invariant and every action property that a run checks is proved, save those of the two runs that break; what is left to TLC
is liveness.

Each module uses the assumptions its constants are declared with, and nothing else:

* `LimitsAssumption` and `ProgramAssumption` (the program): the constants are naturals, the limits that divide are
  positive, arguments are u64s.
* `RunnerAssumption`: every band has a positive worst match, one band is cheapest and one dearest (the code's three are 20,
  40, 60), balances begin in `Nat`, and there are finitely many callers, one at least: the loop, and the requests under way.
* `OutboxAssumption`: a pass reads at least one op.
* `PurseAssumption`: amounts are naturals, what is worth keeping is positive, the program's minimum stake is no more than that (10
  chips against 20, `docs/security.md:50`), and no match nets more: the agent plays
  in the cheapest band, whose worst match is what a withdrawal leaves behind (`withdrawals.ts:18`).
* `FundingAssumption`: amounts are naturals, and nobody sends nothing.
* `LiveAssumption`: memory, reads and the numbers of streams are positive.
* `MatchAssumption`: stakes are naturals, a match has a round and takes a win.
* `TenancyAssumption`: a grace period is positive and shorter than a season, and no tab is called 0, which stands for a
  free lock.

Nothing is assumed of how many agents, players, tabs, matches, ops, slots, ticks, listeners, deposits, withdrawals, exits,
outages or passes there are, nor of the size of `U64Max`.

| theorem | property | argument |
|---|---|---|
| **`SettlementProgramProofs`** | | |
| `TypeCorrect` | `TypeOK` | inductive as it stands: one lemma per group of signers, one case per instruction. Balances in `Nat` rest on `Covers`, `ExitPayoutSafe` and `Playable`. |
| `LimitUnderCeiling` | `MaxSettlementUnderCeiling` | inductive with `TypeOK`; only four instructions write the config (`ConfigWriters`), and rescaling keeps a limit under its ceiling (`RescaledUnderCeiling`) though the ceiling is not compared. |
| `LimitKeepsItsChips` | `LimitNeverMeansMoreChips` | from the rounding in `Rescaled`. |
| `OutflowAlwaysBounded` | `OutflowBounded` | not inductive alone: the cap is read from the balance of the moment, and the bound is on the peak. `OutflowInv` adds `PeakCovers` (the history is at least the balance and the rate); `OutflowCapMonotonic` carries the guard over. |
| `ExitsWait` | `ExitWaits` | with `WindowNeverNil`: the window in force is never below the minimum, so neither is a new request's. |
| `NoDustLeft` | `OwnerLeavesNoDust` | from `ExitPayoutSafe` and `Withdraw`'s guard; settlements are the only other way out of a vault. |
| `OneRecordAlways` | `OneRecordPerId` | inductive: only `settle` and `withdraw` write records (`RecordWriters`), and each asks for an id that has none. |
| `EvidenceAlwaysKept` | `EvidenceKept` | only `close_exit` removes a record that has been claimed; it counts the window in force, which `WindowInForce` keeps at or above the minimum. |
| `ExitAlwaysPaysOnce` | `ExitPaysOnce` | only `claim_exit` pays an exit, on a request whose `claimed_slot` is still 0, and what it pays is `ExitPayout`, which leaves nothing or enough (`ExitPayoutSafe`). |
| `TokensAlwaysTraced` | `EveryTokenTraced` | a record adds the same to both sides of its vault's sum (`SumWith`); with `TracedInv`: the records are finitely many, which is what lets them be added. |
| **`OutboxProofs`**, part one | | |
| `RunnerTypeCorrect` | `TypeOK` | with `SidesRented`: whoever a request is about has been rented, so whoever a match retires exists. |
| `OverdraftAlwaysBounded` | `OverdraftBounded` | `BalanceInv`, below. |
| `RetiredAlwaysWhenBroke` | `RetiredExactlyWhenBroke` | `BalanceInv`, below. |
| `StoppedAlwaysStand` | `StoppedBalancesStand` | only `Record` moves a balance, and `StillOpen` is asked in the same transaction. |
| `OutboxAlwaysMirrors` | `OutboxMirrorsLedger` | `MirrorInv`: for every agent that exists, and settlements are only between those. |
| `CommitmentsAlwaysWithinBudget` | `CommitmentsWithinBudget` | `BudgetInv`, below. |
| **`OutboxProofs`**, part two | | |
| `OutboxTypeCorrect` | `OutboxTypeOK` | `ReportInv`, below. |
| `StatusAlwaysFollows` | `StatusFollowsChain` | `ReportInv`, below. |
| `OutboxKeepsPromise` | `KeepsPromise` | the initial states map to initial states and every step maps to a step of `OutboxPromise` or a stutter, under `ReportInv`: one lemma per action, and one for `Land`, which is the step the abstract outbox sees. |
| `VaultsAlwaysFollow` | `VaultsFollowLedger` | `FollowInv`: what has landed moves from one sum to the vault; with what an agent not yet rented and a vault not yet open hold. |
| **`PurseProofs`** | | |
| `TypeCorrect` | `TypeOK` | `PurseInv`, below: that the vault stays in `Nat` is what the worker and the program look at before they pay. |
| `NothingIsLeftBehind` | `NothingLeftBehind` | `PurseInv`, below. |
| `AlwaysBacked` | `Backed` | `Balance`, below. |
| `AlwaysDebitedInFull` | `DebitedInFull` | `Balance`, which says what the ledger lacks when a claim is absorbed, and `DrainedKnown`: behind a claim drained when it was taken no match is queued. |
| **`FundingProofs`** | | |
| `TypeCorrect` | `TypeOK` | with `Listed`: the pass acts on deposits that are there, and records a surplus only when it has seen one. |
| `OverCountedAlwaysByRace` | `OverCountedOnlyByRace` | `Honest`, below. |
| **`LiveProofs`** | | |
| `TypeCorrect` | `TypeOK` | with `LiveInv`. |
| `TailAlwaysRunsIfWatched` | `TailRunsIfWatched` | `LiveInv`, below. |
| `NothingEverFallsBetween` | `NothingFallsBetween` | `TailInv`, below. |
| **`MatchProofs`** | | |
| `MatchTypeOK` | `TypeOK` | `IInv`, below. |
| `NetIsBounded` | `NetWithinMaxNet` | `Gains`, below. |
| `RaisesHeard` | `RaiseIsHeard` | from `InTurn`: what has been chosen when a round is decided. |
| `OneRaise` | `OneRaiseARound` | each round of alternating play adds at most one raise (`RoundCounts`). |
| `RoundsAreWon` | `EveryRoundIsWon` | a fold in alternating play is a lone one, so `Winners` has no `NoSeat`. |
| **`TenancyProofs`** | | |
| `TypeCorrect` | `TypeOK` | inductive as it stands; that a closing leads to a season the calendar has is arithmetic of its own (`SeasonReached`). |
| `CreditedOnce` | `OpeningCreditedOnce` | inductive as it stands, from `Follows`: a credit is added only to none, and only when the transaction has landed, which it cannot undo. |
| `StandingsFinal` | `FrozenStandingsAreFinal` | `Final`, below. |
| `OneInPlay` | `OneInPlayUnlessPutBack` | `OnePlace`, below. |
| `AtMostOneAfterOff` | `OneMatchAfterOff` | `Switched`, below. |

*`BalanceInv`.* Neither the bound on overdrafts nor "retired exactly when broke" is inductive: a match takes
up to the worst of its band from a balance that was looked at earlier and may have fallen since. What saves it is
that the transaction looks at `retired` again, and an agent not retired still holds the cheapest worst
match. So the two properties are proved together, with what a request carries (`CheckedFairly`: two
different agents, a worst match no dearer than the dearest, both begun with enough) and
`PoorNeverPlay` (who was rented with too little never comes to have enough).

*`BudgetInv`.* The bound on what a vault is committed to pay is not inductive either: room in the budget is asked for when a
match is picked, and used when it is recorded. So each request in the middle of a match of the agent's keeps one dearest match
in reserve. `Pick` establishes it, from the room it asked for; `Record` spends its own request's reserve; a match of another's
leaves it; and what grows out of the window only lowers the sum (`SumOfFewer`). With no request under way the excess may come
to `Cardinality(Callers) * Dearest - Cheapest`: nothing at all for one caller in one band, which is what `runner.ts:652-666`
promises; the rest is what a second caller or a dearer band costs.

*`ReportInv`.* That a failed op never lands is not inductive: it is about transactions not yet
sent, and why nobody will send one. The reason goes through all of the outbox. `PassInv`: a failed
op is hopeless (a party whose vault can never be opened), a pass's snapshot holds pending ops, and
confirmed ones have landed. `ChainInv`: whatever landed or is on its way could be sent, and no vault of an
older server's flow ever opens. `OpsInv`: one op opens an agent's vault, and all such ops are of rented
agents of the seed flow. The worker takes the *oldest* op of its snapshot, so the cases where it acts need
that a set of ops has a least element (`WFMin` on the naturals).

*`PurseInv` and `Balance`.* That ledger and vault agree at rest says nothing of the time until then. `Balance` does: the ledger
and what it has debited for withdrawals not yet paid (`Away`) are the vault, what queued settlements still bring (`Queued`), and
what left the vault without the ledger knowing - a claim one could not cover (`forgiven`), a withdrawal reversed
though paid (`Reversed`), and the claims not yet absorbed (`Owing`): the one on chain, and those that slipped, which a pass
already under way may still absorb. What a claim took must come off once, so most of the invariant is about the watcher: `ExitInv`
says what its row (`ClaimsKnown`) and what its pass has read (`OnePass`) know of the exit on chain, however old - a pass may hold
an exit that has been claimed, closed and asked for again - and that a claim which is neither there nor absorbed has slipped.
`WithdrawalsKept` says what a withdrawal's status says of its op and its transaction. `DrainedKnown` is what freezing gives: a claim
that was taken when the watcher had seen its request and nothing was queued has a row until it is absorbed, so no match is
played behind it.

*`Honest`.* That the ledger says no more than there is unless money was counted on evidence that no longer held is not inductive: a
request that is answered finds its deposit's own money only if nothing has counted that before. `Honest` says so of all deposits at once: until
a race, what the ledger says beyond what there is (`Over`), together with the amounts of all deposits that have landed and are
still to be counted (`Worth(Fresh)`), is at most nothing. A deposit counted for itself leaves the one sum as it enters the
other; a sweep that counts another's money marks all fresh deposits spent, and finds at least its own amount; a surplus is
credited only when no deposit is in flight, so that the fresh ones are those given up on, and these are spent with it.

*`LiveInv` and `TailInv`.* That no match falls between catch-up and loop rests on there being one loop: starting it and its timer
are never both there (`OneLoop`), so a start that ends has read at least as far as any pass still under way. `NoGap` then says
that a pass has fetched all that is owed up to the last it fetched. That it fetches the *lowest* seqs, and that memory keeps the
latest, are lemmas on sets of naturals and on the sequence that lists one in order.

*`Sums`.* `SumFunctionOnSet` is a recursive function, which the library's induction theorems, having operators as parameters,
cannot be used on here. What the proofs need of it - the sum over nothing, with one element more or fewer, over a subset, over a
sequence with one item appended or removed - is proved by looking at a least counterexample (`WFMin` on the naturals) instead.
The lemmas hold for every function of integers and every finite set.

*`IInv` of `MatchProofs`.* That no net passes `maxNet` is not inductive: nothing in it says how a net came about. `Gains` does: nets sum
to zero, and a seat is up at most the dearest bet for every round it has won; the other's loss is then bounded by
the same. That a seat wins at most `ROUNDS_TO_WIN` rounds needs that no round is decided once one has, which `InTurn` carries
through the two or three choices of an alternating round.

*`TenancyProofs`.* Two dozen actions change an agent, and what the theorems need of each is the same: `Follows` and `Unspent`
say what a step leaves of an agent, `StepKept` that every action but renting and recording keeps to it. On top of that each
property has what makes it inductive. `Final`: a closed season is over, so a match that takes its agents' locks now is not
one of its own, and a closing waits for those that have them. `OnePlace`: a tab that has looked holds the wallet's lock, and
while it does nobody is in play; only a withdrawal put back can bring an agent in besides. `Switched`: an agent the loop has
played for since it was switched off is off still, and the loop has no other match of its in hand.

`OwnerLeavesNoDust`, `StatusFollowsChain`, `OneRaiseARound`, `EveryRoundIsWon` and the runner's `TypeOK` are proved and not listed in a run of their own:
`OutboxTypeOK` contains the last, `KeepsPromise` implies the second, and what the first says of exits is in `ExitPaysOnce`.

Model-checked only: liveness (`OwnerCanLeave`, `EverythingLands`, `ComesToRest`, `TimersCatchUp`, `NothingLeftAside`,
`EveryMatchIsSent`), which is out of the prover's reach, and the two properties that are false, whose runs show a
behaviour.

## Abstractions

* Bumps, token accounts' addresses and events are left out of the program, and a player's signature
  is its being the actor; amounts are small naturals; `initialize` is `Init`.
* A plain token transfer to a vault is `Deposit`: the tokens move alike, and who signs makes no
  difference to the vault.
* `Check` stands for several reads of `runMatch` in a row, made at one moment. A change between
  two of them can be had in the model by moving it before or after the step, save for an agent that is moved to
  another band and back.
* `pickOpponent` takes the closest candidates in rating; the model takes any. Its fallback for
  thin fields only widens which of them are looked at.
* What a match nets, in `Runner` and wherever else one is played, is any value within the band's worst match: which is
  what `NetWithinMaxNet` says of the engine.
* Ledger rows of withdrawals, deposits and exits are not in `Runner`: a withdrawal is only
  something that bars an agent, and money enters a balance by renting alone. `Purse` and `Funding` have
  the rest, each for one agent, where a match is one step and the vault follows in the queue's order (`Purse`) or in
  any (`Funding`).
* `agents.retired_at` set by a withdrawal or a lapse is in `barred`, not in `retired`.
* The ledger's window and the program's pass on one clock; their lengths are constants of their own.
* Seed-flow settlements follow the same guard as deposit-flow ones: the seed program's source is
  not in the repository, and its `open_vault` is modelled by how the worker uses it.
* `Drop` has no code: it is the cluster losing a transaction.
* `Purse`: an exit is named by its slot of request, and slots are counted by requests; a window is over or is not, the one
  before a claim and the one after it alike. The worker's retry sends the same bytes, so a withdrawal has one transaction. A match is
  one step: one begun before a request was ingested and recorded after it (`runner.ts:301-303`) acts like one recorded just before,
  unless it is recorded only after the claim, and between its check and its transaction `runMatch` waits for nothing but the database.
* `Tenancy`: a prepared rental is swept after a quarter of an hour, by when its block height has passed. The
  decline and the sweep are one at a time each; two sweeps never overlap in the code either, and of two declines the
  second finds the rental decided. Seed-flow rentals, which are paid for at once, are left out.
* `Funding`: exits, rentals and the seed flow are left out; `creditSurplus` asks about rentals as it does about deposits. A
  withdrawal is of a part, submitted in one step, and lands or is put back; one of the lot, and one put back that lands all the same, are in `Purse`.
  A settlement that can never be sent, whose failed op would shut its agents out of `reconcile` as a withdrawal's does, is in `Outbox`.
* `Live`: a match recorded while a listener waits to be greeted is taken to be still playing when it is (`playMs`).
* `Match`: an edge never makes a flip certain, so either seat may win one.

## Not modelled

* *Faucet* and *sign-in*: one advisory lock and a status, one conditional update. A property would restate them. A
  faucet payout whose answer is lost is marked failed, and the wallet may then be granted another.
* *Rate limiter*: an array of times per caller, in memory; what makes it fair is its constants.
* *HTTP routing*, validation, sessions in headers, CORS: the handlers that change state are in `Tenancy`, `Purse`,
  `Funding` and `Runner` through what they call.
* *Ratings, standings, prizes, statements, characters, transcripts, marks*: computed from what is recorded, and acted on
  by nobody; `exact.ts` works with floating-point probabilities.
* *House exhibitions*: nothing is staked and nothing queued. They appear in `Live` only.
* *solvency*, `settlementLag` and the alarms of the worker: they report and change nothing.
* *The seed program* is not in the repository; *generated IDL types* (4200 lines) and the *web pages* (most of what is left)
  hold no state of the system. Together with presentation code they are more than two thirds of the
  repository, which is why the modules cannot come to cover a large share of its lines.

What is left to do: a `Runner` whose balances also move by `Purse` and `Funding`, for more than one agent at once.
