------------------------------ MODULE Funding ------------------------------
(***************************************************************************)
(* Money into one agent's purse, and how the ledger comes to count it.     *)
(*                                                                         *)
(* An owner tops the agent up (src/db/deposits.ts): the server builds a    *)
(* transaction, takes the signed one back and sends it, and the request    *)
(* that sent it counts the deposit when it is confirmed.  A deposit has no *)
(* record of its own on chain, so when that answer is lost a sweep tells   *)
(* from the vault: more in it than the ledger says is taken for the        *)
(* deposit.  What no deposit accounts for was put there by a plain         *)
(* transfer, and creditSurplus (src/chain/worker.ts) counts that.  Both    *)
(* run in one pass, one after the other, on a timer (scripts/serve.ts).    *)
(*                                                                         *)
(* Meanwhile the agent plays and its owner withdraws: the ledger moves     *)
(* first and the vault when the op lands (Outbox, Purse).  A withdrawal    *)
(* here takes part of the money, and lands or is put back; what empties    *)
(* the agent, and one put back that lands all the same, are in Purse.      *)
(* Exits, rentals, settlements that can never be sent and the seed         *)
(* program's agents are left out.  Amounts are in chips.                   *)
(***************************************************************************)
EXTENDS Integers, Sequences, FiniteSetsExt, SequencesExt

CONSTANTS
  Start,               \* what the vault and the ledger hold at first
  Tops,                \* amounts a deposit or a transfer is made with
  Nets,                \* what a match nets, either way
  MaxTops, MaxGifts, MaxMoves, MaxWithdrawals,
  MaxOutages           \* times the chain does not answer the sweep

ASSUME FundingAssumption ==
  /\ Start \in Nat /\ Tops \subseteq Nat \ {0} /\ Nets \subseteq Nat \ {0}
  /\ {MaxTops, MaxGifts, MaxMoves, MaxWithdrawals, MaxOutages} \subseteq Nat

VARIABLES
  ledger, vault,
  moves,               \* settlements queued: what each will bring the vault
  leaving,             \* the withdrawal on its way: what it takes, and leaves
  failed,              \* has an op of this agent's failed
  deposits,            \* in the order they were prepared
  sweep,               \* where the timer's pass is, and what it read
  made,                \* gifts, moves, withdrawals and outages so far
  \* History, which no action asks about:
  spent,               \* deposits that were there when other money was counted
  raced                \* has money been counted on evidence that no longer held

historyVars == <<spent, raced>>
opVars == <<moves, leaving, failed>>
vars == <<ledger, vault, opVars, deposits, sweep, made, historyVars>>

Deposit == [amount: Nat \ {0},
            status: {"prepared", "submitted", "confirmed", "expired"},
            fate: {"none", "live", "landed", "dead"},    \* none: it could not be built
            replying: BOOLEAN]                           \* the submitting request waits
Ids == 1 .. MaxTops
InFlight(statuses) == {d \in DOMAIN deposits : deposits[d].status \in statuses}

NoneLeaves == [amount |-> 0, remaining |-> 0]
Idle == [at |-> "idle", todo |-> {}, d |-> 0, seen |-> 0, held |-> 0]
NextOf(todo) == [Idle EXCEPT !.at = "sweeping", !.todo = todo]

Init ==
  /\ ledger = Start /\ vault = Start
  /\ moves = <<>> /\ leaving = NoneLeaves /\ failed = FALSE
  /\ deposits = <<>>
  /\ sweep = Idle
  /\ made = [gifts |-> 0, moves |-> 0, withdrawals |-> 0, outages |-> 0]
  /\ spent = {} /\ raced = FALSE

\* What queued ops will bring the vault.
Queued == SumFunction(moves) - leaving.amount

\* Deposits in the vault that nothing has counted yet.
Fresh == {d \in DOMAIN deposits :
            deposits[d].fate = "landed" /\ deposits[d].status # "confirmed" /\ d \notin spent}

GivenUp == {d \in Fresh : deposits[d].status = "expired"}

\* What the pass read is no longer so: the vault has less, or the ledger has been
\* told more.  A debit still queued makes the vault look fuller than it will be.
Misread ==
  \/ sweep.seen > vault
  \/ sweep.at = "weighing" /\ Queued < 0
  \/ sweep.at = "crediting" /\ sweep.held < ledger - Queued
-----------------------------------------------------------------------------
\* A match: the ledger now, the vault when its settlement lands.  An agent that
\* is withdrawing is not matched.
Play(net) ==
  /\ made.moves < MaxMoves /\ made' = [made EXCEPT !.moves = @ + 1]
  /\ leaving = NoneLeaves
  /\ ledger + net >= 0
  /\ ledger' = ledger + net /\ moves' = Append(moves, net)
  /\ UNCHANGED <<vault, leaving, failed, deposits, sweep, historyVars>>

\* Whether the vault covers a queued move; and sending it regardless.
AnyMove(i) == TRUE
Covered(i) == vault + moves[i] >= 0

MoveLands(i) ==
  /\ i \in DOMAIN moves /\ Covered(i)
  /\ vault' = vault + moves[i] /\ moves' = RemoveAt(moves, i)
  /\ UNCHANGED <<ledger, leaving, failed, deposits, sweep, made, historyVars>>

\* A withdrawal is debited and sent: nothing else may be queued.
Withdraw(amount) ==
  /\ made.withdrawals < MaxWithdrawals
  /\ made' = [made EXCEPT !.withdrawals = @ + 1]
  /\ moves = <<>> /\ leaving = NoneLeaves
  /\ amount < ledger
  /\ ledger' = ledger - amount
  /\ leaving' = [amount |-> amount, remaining |-> ledger - amount]
  /\ UNCHANGED <<vault, moves, failed, deposits, sweep, historyVars>>

\* The program pays it if the vault is left with what the ledger said, which a
\* deposit not counted yet prevents; the server notes it.
WithdrawalLands ==
  /\ leaving # NoneLeaves /\ vault - leaving.amount = leaving.remaining
  /\ vault' = leaving.remaining /\ leaving' = NoneLeaves
  /\ UNCHANGED <<ledger, moves, failed, deposits, sweep, made, historyVars>>

\* It was refused, or never landed: the ledger is put back, and the op stays as
\* one that failed.
WithdrawalExpires ==
  /\ leaving # NoneLeaves
  /\ ledger' = ledger + leaving.amount
  /\ leaving' = NoneLeaves /\ failed' = TRUE
  /\ UNCHANGED <<vault, moves, deposits, sweep, made, historyVars>>

\* Anybody may send tokens to a vault.
Gift(amount) ==
  /\ made.gifts < MaxGifts /\ made' = [made EXCEPT !.gifts = @ + 1]
  /\ vault' = vault + amount
  /\ UNCHANGED <<ledger, opVars, deposits, sweep, historyVars>>
-----------------------------------------------------------------------------
\* The row first, then the transaction, which the RPC may fail to build: the
\* row stays, with nothing to sign.
Prepare(amount, built) ==
  /\ Len(deposits) < MaxTops
  /\ deposits' = Append(deposits, [amount |-> amount, status |-> "prepared", replying |-> FALSE,
                                   fate |-> IF built THEN "live" ELSE "none"])
  /\ UNCHANGED <<ledger, vault, opVars, sweep, made, historyVars>>

\* The owner has the transaction once it is built, and may send it unasked.
DepositLands(d) ==
  /\ d \in DOMAIN deposits /\ deposits[d].fate = "live"
  /\ vault' = vault + deposits[d].amount
  /\ deposits' = [deposits EXCEPT ![d].fate = "landed"]
  /\ UNCHANGED <<ledger, opVars, sweep, made, historyVars>>

HeightPasses(d) ==
  /\ d \in DOMAIN deposits /\ deposits[d].fate = "live"
  /\ deposits' = [deposits EXCEPT ![d].fate = "dead"]
  /\ UNCHANGED <<ledger, vault, opVars, sweep, made, historyVars>>

Submit(d) ==
  /\ d \in InFlight({"prepared"}) /\ deposits[d].fate # "none"
  /\ deposits' = [deposits EXCEPT ![d].status = "submitted", ![d].replying = TRUE]
  /\ UNCHANGED <<ledger, vault, opVars, sweep, made, historyVars>>

\* What confirming adds to the ledger.
Uncounted(d) == IF deposits[d].status = "confirmed" THEN 0 ELSE deposits[d].amount

\* confirmDeposit, under the row's lock: even one that has expired.
Confirm(d) ==
  /\ ledger' = ledger + Uncounted(d)
  /\ deposits' = [deposits EXCEPT ![d].status = "confirmed"]

\* The submitting request gets its answer, however late; or it never does.  Its
\* money may have been counted by then as something else.
RequestConfirms(d) ==
  /\ d \in DOMAIN deposits /\ deposits[d].replying /\ deposits[d].fate = "landed"
  /\ ledger' = ledger + Uncounted(d)
  /\ deposits' = [deposits EXCEPT ![d].status = "confirmed", ![d].replying = FALSE]
  /\ raced' = (raced \/ (d \in spent /\ Uncounted(d) > 0))
  /\ UNCHANGED <<vault, opVars, sweep, made, spent>>

RequestGivesUp(d) ==
  /\ d \in DOMAIN deposits /\ deposits[d].replying
  /\ deposits' = [deposits EXCEPT ![d].replying = FALSE]
  /\ UNCHANGED <<ledger, vault, opVars, sweep, made, historyVars>>
-----------------------------------------------------------------------------
\* sweepDeposits takes its list once, and goes through it one by one.
SweepStarts ==
  /\ sweep = Idle
  /\ sweep' = NextOf(InFlight({"submitted"}))
  /\ UNCHANGED <<ledger, vault, opVars, deposits, made, historyVars>>

\* The vault as the chain has it; null, when the read fails, is no evidence.
SweepLooks(d, answered) ==
  /\ sweep.at = "sweeping" /\ d \in sweep.todo
  /\ answered \/ made.outages < MaxOutages
  /\ sweep' = [sweep EXCEPT !.at = IF answered THEN "weighing" ELSE "asking", !.d = d,
                            !.seen = IF answered THEN vault ELSE 0]
  /\ made' = [made EXCEPT !.outages = IF answered THEN @ ELSE @ + 1]
  /\ UNCHANGED <<ledger, vault, opVars, deposits, historyVars>>

Rest == NextOf(sweep.todo \ {sweep.d})

\* Then the ledger, maybe later than the vault: enough of a difference is the
\* deposit.
SweepWeighs ==
  /\ sweep.at = "weighing"
  /\ IF sweep.seen - ledger >= deposits[sweep.d].amount
       THEN /\ Confirm(sweep.d) /\ sweep' = Rest
            /\ raced' = (raced \/ Misread)
            /\ spent' = IF sweep.d \in Fresh \/ Uncounted(sweep.d) = 0 THEN spent ELSE spent \cup Fresh
       ELSE sweep' = [sweep EXCEPT !.at = "asking"] /\ UNCHANGED <<ledger, deposits, historyVars>>
  /\ UNCHANGED <<vault, opVars, made>>

\* What the sweep makes of one that is not there and can no longer be.
Hopeless(d) == {d} \cap InFlight({"prepared", "submitted"})

SweepAsks ==
  /\ sweep.at = "asking"
  /\ deposits' = [d \in DOMAIN deposits |->
       IF d \in Hopeless(sweep.d) /\ deposits[d].fate # "live"
         THEN [deposits[d] EXCEPT !.status = "expired"]
         ELSE deposits[d]]
  /\ sweep' = Rest
  /\ UNCHANGED <<ledger, vault, opVars, made, historyVars>>

\* creditSurplus follows.  reconcile takes the agent if all its ops are
\* confirmed, so never again one that had a withdrawal put back, and reads its
\* balance; then its vault.
AllConfirmed == moves = <<>> /\ leaving = NoneLeaves /\ ~failed

CreditReads ==
  /\ sweep.at = "sweeping" /\ sweep.todo = {}
  /\ sweep' = IF AllConfirmed THEN [Idle EXCEPT !.at = "reading", !.held = ledger] ELSE Idle
  /\ UNCHANGED <<ledger, vault, opVars, deposits, made, historyVars>>

CreditLooks(answered) ==
  /\ sweep.at = "reading" /\ (answered \/ made.outages < MaxOutages)
  /\ sweep' = IF answered /\ vault > sweep.held
                THEN [sweep EXCEPT !.at = "crediting", !.seen = vault]
                ELSE Idle
  /\ made' = [made EXCEPT !.outages = IF answered THEN @ ELSE @ + 1]
  /\ UNCHANGED <<ledger, vault, opVars, deposits, historyVars>>

\* Deposits that may account for a surplus; asking for none; and for one that no
\* longer matters.
NotAsked == {}
NotConfirmed == InFlight({"prepared", "submitted", "expired"})
ToppingUp == InFlight({"prepared", "submitted"})

\* The surplus that was read, unless a deposit in flight may account for it.
CreditRecords ==
  /\ sweep.at = "crediting"
  /\ ledger' = IF ToppingUp = {} THEN ledger + sweep.seen - sweep.held ELSE ledger
  /\ sweep' = Idle
  /\ raced' = (raced \/ (ToppingUp = {} /\ Misread))
  /\ spent' = IF ToppingUp = {} THEN spent \cup GivenUp ELSE spent
  /\ UNCHANGED <<vault, opVars, deposits, made>>
-----------------------------------------------------------------------------
SweepStep ==
  \/ SweepStarts \/ SweepWeighs \/ SweepAsks \/ CreditReads \/ CreditRecords
  \/ \E d \in Ids, answered \in BOOLEAN : SweepLooks(d, answered)
  \/ \E answered \in BOOLEAN : CreditLooks(answered)

OwnerStep ==
  \/ \E amount \in Tops, built \in BOOLEAN : Prepare(amount, built)
  \/ \E amount \in Tops : Withdraw(amount)
  \/ \E d \in Ids : Submit(d)

WithdrawalStep == WithdrawalLands \/ WithdrawalExpires
RequestStep == \E d \in Ids : RequestConfirms(d) \/ RequestGivesUp(d)

Next ==
  \/ \E n \in Nets : Play(n) \/ Play(-n)
  \/ \E i \in 1 .. MaxMoves : MoveLands(i)
  \/ \E amount \in Tops : Gift(amount)
  \/ \E d \in Ids : DepositLands(d) \/ HeightPasses(d)
  \/ OwnerStep \/ WithdrawalStep \/ RequestStep \/ SweepStep

Spec == Init /\ [][Next]_vars

\* The timer keeps passing, queued ops land or expire, block heights pass.  Nothing is
\* assumed of the owner or of the requests.
FairSpec ==
  /\ Spec
  /\ WF_vars(SweepStep) /\ WF_vars(WithdrawalStep)
  /\ \A i \in 1 .. MaxMoves : WF_vars(MoveLands(i))
  /\ \A d \in Ids : WF_vars(HeightPasses(d))
-----------------------------------------------------------------------------
\* Type correctness: the one type invariant.
TypeOK ==
  /\ {ledger, vault} \subseteq Nat /\ moves \in Seq(Int)
  /\ leaving \in [amount: Nat, remaining: Nat] /\ failed \in BOOLEAN
  /\ deposits \in Seq(Deposit)
  /\ sweep \in [at: {"idle", "sweeping", "weighing", "asking", "reading", "crediting"},
                todo: SUBSET Ids, d: Ids \cup {0}, seen: Nat, held: Nat]
  /\ made \in [gifts: Nat, moves: Nat, withdrawals: Nat, outages: Nat]
  /\ spent \subseteq Ids /\ raced \in BOOLEAN

\* What the ledger says beyond what the vault will hold once every op lands.
Over == ledger - vault - Queued

\* The ledger comes to say more than there is in three ways only: a pass counts
\* what has moved since it read it, it takes a debit still queued for a deposit,
\* or a request counts its deposit after it was counted as another deposit's
\* money, or had expired and was counted as a surplus (deposits.ts 180-203,
\* worker.ts 715-747).
OverCountedOnlyByRace == Over > 0 => raced

\* Money that reached the vault is counted in the end, by whatever route it
\* came and whichever answers were lost, unless the owner leaves a deposit
\* unsigned (worker.ts 696-701) or a withdrawal was ever put back, which shuts
\* the agent out of reconcile (worker.ts 460, withdrawals.ts 317-320).
CountedInTheEnd == (Over < 0) ~> (Over >= 0 \/ InFlight({"prepared"}) # {} \/ failed)

\* A submitted deposit is confirmed or expires (deposits.ts 187-203).
DepositsResolve ==
  \A d \in Ids : (d \in InFlight({"submitted"})) ~> (d \notin InFlight({"submitted"}))

\* Both: no money that came in is left aside, and no deposit left undecided.
NothingLeftAside == CountedInTheEnd /\ DepositsResolve
=============================================================================
