------------------------------- MODULE Runner -------------------------------
(***************************************************************************)
(* Staked matches (src/db/runner.ts, src/db/ledger.ts): picking an         *)
(* opponent, playing, and the one transaction that records a match, moves  *)
(* both balances and queues the settlement for the chain.                  *)
(*                                                                         *)
(* A caller is an HTTP request for POST /agents/:id/play or the autoplay   *)
(* loop.  Each goes through three steps with awaits between them:          *)
(*   Pick    pickOpponent reads candidates and their room;                 *)
(*   Check   runMatch reads both agents, checks them and plays;            *)
(*   Record  the transaction takes both row locks and writes.              *)
(* What a caller read in one step may be stale in the next.  Two callers   *)
(* interleave; the autoplay loop alone is one caller.                      *)
(*                                                                         *)
(* Every agent here belongs to a player: a match with a house agent moves  *)
(* nothing and queues nothing.  Amounts are in chips (rate 1).  What a     *)
(* match nets is any value the engine's bound allows.  Ratings, the        *)
(* transcript and who is closest in rating are left out: any candidate may *)
(* be picked, where the code takes the closest, or a preset one among few. *)
(***************************************************************************)
EXTENDS Integers, Sequences, FiniteSetsExt

CONSTANTS
  Agents,
  OwnerOf,                 \* the player each agent belongs to
  Seeded,                  \* agents on the seed flow; the others are on the deposit flow
  Legacy,                  \* seed agents queued by an older server: their id has no salt
  Bands, WorstMatch,       \* the bands and what a match in each can move at most
  StartingBalance,         \* what renting put in each balance
  Callers,                 \* concurrent requests to play, and the autoplay loop
  Active,                  \* agents whose owner plays them; the rest are only met
  OUTFLOW_BUDGET_FLOOR, OUTFLOW_BUDGET_DIVISOR,
  OUTFLOW_WINDOW,          \* the ledger's trailing window, in ticks of the clock
  Bars,                    \* which of "exiting", "ended", "withdrawing" a run lets happen
  Nets,                    \* the nets a run enumerates, either way
  MaxOps,                  \* a run stops queueing after so many ops
  NoMatch                  \* an idle caller

ASSUME RunnerAssumption ==
  /\ Seeded \subseteq Agents /\ Legacy \subseteq Seeded /\ Active \subseteq Agents
  /\ WorstMatch \in [Bands -> Nat \ {0}]
  /\ \E b \in Bands : \A other \in Bands : WorstMatch[b] <= WorstMatch[other]
  /\ \E b \in Bands : \A other \in Bands : WorstMatch[b] >= WorstMatch[other]
  /\ StartingBalance \in [Agents -> Nat]
  /\ OUTFLOW_BUDGET_FLOOR \in Nat /\ OUTFLOW_BUDGET_DIVISOR \in Nat \ {0}
  /\ OUTFLOW_WINDOW \in Nat /\ MaxOps \in Nat
  /\ Bars \subseteq {"exiting", "ended", "withdrawing"}
  /\ Nets \subseteq Nat
  /\ NoMatch \notin [a: Agents, b: Agents, checked: BOOLEAN, worst: Nat]
  /\ IsFiniteSet(Callers) /\ Callers # {}     \* the loop, and requests under way

VARIABLES
  rented,    \* agents that exist
  ledger,    \* each agent's balance, the sum of its ledger rows
  retired,   \* agents.retired_at is set
  band,
  barred,    \* per agent: an exit not yet ingested, a rental over, a withdrawal submitted
  games,     \* what each caller is in the middle of
  ops        \* chain_ops in seq order; a match is named by its settle op

runnerVars == <<rented, ledger, retired, band, barred, games, ops>>

Statuses == {"pending", "confirmed", "failed"}
Op == [kind: {"open_vault", "register_owner", "settle"}, from: Agents, to: Agents,
       amount: Nat, status: Statuses, age: Nat]
Match == [a: Agents, b: Agents, checked: BOOLEAN, worst: Nat]

NewOp(kind, from, to, amount) ==
  [kind |-> kind, from |-> from, to |-> to, amount |-> amount, status |-> "pending", age |-> 0]

Greater(x, y) == IF x >= y THEN x ELSE y
Cheapest == Min({WorstMatch[b] : b \in Bands})
Dearest  == Max({WorstMatch[b] : b \in Bands})
-----------------------------------------------------------------------------
\* Deposit-flow agents have their rentals confirmed and their vaults open;
\* seed-flow agents arrive later, through CreateAgent.
Init ==
  /\ rented = Agents \ Seeded
  /\ ledger = [a \in Agents |-> IF a \in Seeded THEN 0 ELSE StartingBalance[a]]
  /\ retired = {}
  /\ band \in [Agents -> Bands]
  /\ barred = [a \in Agents |-> {}]
  /\ games = [c \in Callers |-> NoMatch]
  /\ ops = <<>>

\* A seed rental: the balance and the op that opens the vault, together.  An
\* older server queued the owner's record as an op of its own.
CreateAgent(a) ==
  LET open == <<NewOp("open_vault", a, a, StartingBalance[a])>>
  IN  /\ a \in Seeded \ rented
      /\ Len(ops) < MaxOps
      /\ rented' = rented \cup {a}
      /\ ledger' = [ledger EXCEPT ![a] = StartingBalance[a]]
      /\ ops' = ops \o open \o (IF a \in Legacy THEN <<NewOp("register_owner", a, a, 0)>> ELSE <<>>)
      /\ UNCHANGED <<retired, band, barred, games>>

\* The owner moves its agent to a band its balance can cover.
SetBand(a, b) ==
  /\ a \in rented /\ ledger[a] >= WorstMatch[b]
  /\ band' = [band EXCEPT ![a] = b]
  /\ UNCHANGED <<rented, ledger, retired, barred, games, ops>>

\* Elsewhere: the exit watcher sees a request or absorbs its claim, the season
\* turns or the owner renews, a withdrawal is submitted or lands.
Bar(a, why) ==
  /\ barred' = [barred EXCEPT ![a] = IF why \in @ THEN @ \ {why} ELSE @ \cup {why}]
  /\ UNCHANGED <<rented, ledger, retired, band, games, ops>>

\* The clock moves: ops grow older, up to the ledger's window.
Older == [i \in DOMAIN ops |->
           [ops[i] EXCEPT !.age = IF @ < OUTFLOW_WINDOW THEN @ + 1 ELSE @]]
-----------------------------------------------------------------------------
OutflowBudget(balance) == Greater(OUTFLOW_BUDGET_FLOOR, balance \div OUTFLOW_BUDGET_DIVISOR)

\* The amount of each op.
OpAmounts == [i \in DOMAIN ops |-> ops[i].amount]

\* What the vault has been committed to pay inside the trailing window.
CommittedOutflow(a) ==
  SumFunctionOnSet(OpAmounts,
    {i \in DOMAIN ops : /\ ops[i].kind = "settle" /\ ops[i].from = a
                        /\ ops[i].status # "failed" /\ ops[i].age < OUTFLOW_WINDOW})

\* Room for what is committed already, but not for this match: a budget got wrong.
HasRoomSoFar(a)   == CommittedOutflow(a) <= OutflowBudget(ledger[a])
HasOutflowRoom(a) == CommittedOutflow(a) + WorstMatch[band[a]] <= OutflowBudget(ledger[a])

Candidates(a) ==
  {b \in rented \ (retired \cup {a}) :
     /\ barred[b] \cap {"ended", "withdrawing"} = {}
     /\ band[b] = band[a]
     /\ OwnerOf[b] # OwnerOf[a]
     /\ b \in Seeded <=> a \in Seeded
     /\ ledger[b] >= WorstMatch[band[a]]
     /\ HasOutflowRoom(b)}

Pick(c, a) ==
  /\ games[c] = NoMatch
  /\ Len(ops) < MaxOps
  /\ a \in (rented \cap Active) \ retired
  /\ "ended" \notin barred[a]
  /\ HasOutflowRoom(a)
  /\ \E b \in Candidates(a) :
       games' = [games EXCEPT ![c] = [a |-> a, b |-> b, checked |-> FALSE, worst |-> 0]]
  /\ UNCHANGED <<rented, ledger, retired, band, barred, ops>>

\* stakeBetween: both sides can cover the band's worst match.
Covered(a, b) == \A s \in {a, b} : ledger[s] >= WorstMatch[band[a]]

\* runMatch up to the engine; a refusal is a StakeError to the caller.
Check(c) ==
  LET a == games[c].a
      b == games[c].b
      passes == /\ band[a] = band[b]
                /\ {a, b} \cap retired = {}
                /\ (barred[a] \cup barred[b]) \cap {"ended", "exiting"} = {}
                /\ Covered(a, b)
  IN  /\ games[c] # NoMatch /\ ~games[c].checked
      /\ games' = [games EXCEPT ![c] =
           IF passes THEN [a |-> a, b |-> b, checked |-> TRUE, worst |-> WorstMatch[band[a]]]
                     ELSE NoMatch]
      /\ UNCHANGED <<rented, ledger, retired, band, barred, ops>>

\* What the transaction looks at again once it holds both locks; and two ways to
\* look at too little.
OnlyNotRetired(a, b) == {a, b} \cap retired = {}
OnlyNotBarred(a, b)  == (barred[a] \cup barred[b]) \cap {"ended", "withdrawing"} = {}
StillOpen(a, b) ==
  /\ {a, b} \cap retired = {}
  /\ (barred[a] \cup barred[b]) \cap {"ended", "withdrawing"} = {}

RecordRefused(c) ==
  /\ games[c] # NoMatch /\ games[c].checked
  /\ ~StillOpen(games[c].a, games[c].b)
  /\ games' = [games EXCEPT ![c] = NoMatch]
  /\ UNCHANGED <<rented, ledger, retired, band, barred, ops>>

\* What the match queues, the loser paying; and the winner paying.
QueuedBackwards(a, b, net) ==
  CASE net > 0 -> <<NewOp("settle", a, b, net)>>
    [] net < 0 -> <<NewOp("settle", b, a, -net)>>
    [] OTHER -> <<>>
Queued(a, b, net) ==
  CASE net > 0 -> <<NewOp("settle", b, a, net)>>
    [] net < 0 -> <<NewOp("settle", a, b, -net)>>
    [] OTHER -> <<>>

\* Who retires; and looking at the challenger only, or at agents not there yet.
BrokeChallenger(moved, a, b) == {s \in {a} : moved[s] < Cheapest}
BrokeAnywhere(moved, a, b) == {s \in Agents : moved[s] < Cheapest}
Broke(moved, a, b) == {s \in {a, b} : moved[s] < Cheapest}

\* The match, both ledger rows, the settlement and any retirement: one
\* transaction.  A level match queues nothing.
Record(c, net) ==
  LET a == games[c].a
      b == games[c].b
      moved == [ledger EXCEPT ![a] = @ + net, ![b] = @ - net]
  IN  /\ games[c] # NoMatch /\ games[c].checked
      /\ StillOpen(a, b)
      /\ net <= games[c].worst /\ -net <= games[c].worst
      /\ ledger' = moved
      /\ ops' = ops \o Queued(a, b, net)
      /\ retired' = retired \cup Broke(moved, a, b)
      /\ games' = [games EXCEPT ![c] = NoMatch]
      /\ UNCHANGED <<rented, band, barred>>
-----------------------------------------------------------------------------
RunnerStep ==
  \/ \E a \in Agents : CreateAgent(a)
  \/ \E a \in Agents, b \in Bands : SetBand(a, b)
  \/ \E a \in rented, why \in Bars : Bar(a, why)
  \/ \E c \in Callers, a \in Active : Pick(c, a)
  \/ \E c \in Callers : Check(c)
  \/ \E c \in Callers : RecordRefused(c)
  \/ \E c \in Callers, n \in Nets : \E net \in {n, -n} : Record(c, net)

Tick ==
  /\ ops' = Older /\ ops' # ops
  /\ UNCHANGED <<rented, ledger, retired, band, barred, games>>

Next == RunnerStep \/ Tick

Spec == Init /\ [][Next]_runnerVars
-----------------------------------------------------------------------------
\* Type correctness: the one type invariant.  A balance may be negative: what
\* keeps it from being so is a property, not a type.
TypeOK ==
  /\ rented \subseteq Agents /\ retired \subseteq rented
  /\ ledger \in [Agents -> Int]
  /\ band \in [Agents -> Bands]
  /\ barred \in [Agents -> SUBSET {"exiting", "ended", "withdrawing"}]
  /\ games \in [Callers -> Match \cup {NoMatch}]
  /\ ops \in Seq(Op)

\* Every chip a settlement queued for the chain moves is one the ledger moved,
\* and the other way round: a balance is what renting put in plus the outbox,
\* whatever requests ran side by side (runner.ts 338-417).
Won(a)  == SumFunctionOnSet(OpAmounts,
             {i \in DOMAIN ops : ops[i].kind = "settle" /\ ops[i].to = a})
Lost(a) == SumFunctionOnSet(OpAmounts,
             {i \in DOMAIN ops : ops[i].kind = "settle" /\ ops[i].from = a})
OutboxMirrorsLedger ==
  \A a \in rented : ledger[a] = StartingBalance[a] + Won(a) - Lost(a)

\* Retired means broken by a match, and the other way round: a match played at
\* the same time as the one that broke an agent neither revives it nor goes
\* unseen (ledger.ts 103-117).  An agent rented with too little for any band
\* never plays, and nobody retires it.
RetiredExactlyWhenBroke ==
  retired = {a \in rented : ledger[a] < Cheapest /\ StartingBalance[a] >= Cheapest}

\* The checks under the lock are what makes the boundary exact (runner.ts
\* 343-363): nothing is recorded for an agent that has retired, whose rental
\* is over or whose withdrawal is on its way, however long ago it was checked.
StoppedBalancesStand ==
  [][\A a \in rented :
       (a \in retired \/ barred[a] \cap {"ended", "withdrawing"} # {})
         => ledger'[a] = ledger[a]]_runnerVars

\* "Both agents must be able to pay that worst case outright before the match
\* is played" (docs/security.md 35), so that no balance is ever overdrawn.
NoOverdraft == \A a \in Agents : ledger[a] >= 0

\* What does hold, however many requests run side by side and whatever bands
\* the agents are moved to: the look at `retired` under the lock (runner.ts
\* 343-348) keeps a balance from going under by more than a match in the
\* dearest band costs above one in the cheapest.
OverdraftBounded == \A a \in Agents : ledger[a] >= Cheapest - Dearest

\* The budget does what it is for (runner.ts 652-666): what a vault has been
\* committed to pay in the trailing window is within what it could pay out of
\* the balance it had before.  Room is read when a match is picked, for the
\* band of that moment, so each request may exceed it by what it was not asked
\* about; alone, in one band, nothing is exceeded.
CommitmentsWithinBudget ==
  \A a \in rented :
    CommittedOutflow(a) <= OutflowBudget(ledger[a] + CommittedOutflow(a))
                             + Cardinality(Callers) * Dearest - Cheapest
=============================================================================
