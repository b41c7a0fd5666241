------------------------------- MODULE Outbox -------------------------------
(***************************************************************************)
(* The outbox worker (src/chain/worker.ts) between the ledger and the      *)
(* settlement program: the ops the runner queues, the pass that drains     *)
(* them, and the vaults they land on.                                      *)
(*                                                                         *)
(* A pass takes a snapshot of the oldest pending ops and goes through it;  *)
(* for each op it asks the chain, sends, waits and writes, with an await   *)
(* between any two of these, so that matches are recorded, transactions    *)
(* land and the process dies in between.  A transaction that was sent may  *)
(* land after the worker has given up waiting for it, or never.            *)
(*                                                                         *)
(* The chain is modelled by what the worker can make it do: `settle` with  *)
(* the program's own balance check, settlement record and outflow window   *)
(* (chain/programs/oxude_settlement/src/lib.rs 373-416, at one base unit   *)
(* to the chip), and the seed program's open_vault, whose source is not in *)
(* this repository.  Withdrawals, exits and deposits are not here.         *)
(***************************************************************************)
EXTENDS Runner, ProgramMath

CONSTANTS
  BatchLimit,    \* drainChainOps' limit
  Clients,       \* the flows this server has a client for
  PaidBefore     \* what each vault had paid, late, in the window open at the start

ASSUME OutboxAssumption ==
  /\ BatchLimit \in Nat \ {0}
  /\ Clients \subseteq {"seed", "deposit"}
  /\ PaidBefore \in [Agents -> Nat]

VARIABLES
  opened,     \* agents whose vault exists
  vault,      \* what each vault holds
  outflow,    \* each vault's window: its age, up to WINDOW_SLOTS, and what it paid
  landed,     \* ops the chain has a record of: a vault opened, a match settled
  inflight,   \* transactions that were sent and may still land: <<op, copy>>
  todo,       \* the rest of the pass's snapshot, taken in seq order
  vaultless,  \* the pass's own set of agents whose vault can never open
  awaiting    \* the transaction of the first op in todo was sent, no answer yet

chainVars == <<opened, vault, outflow, landed, inflight>>
passVars  == <<todo, vaultless, awaiting>>
vars      == <<runnerVars, chainVars, passVars>>

OutboxInit ==
  /\ Init
  /\ opened = Agents \ Seeded
  /\ vault = ledger
  /\ outflow = [a \in Agents |->
       [age |-> IF PaidBefore[a] > 0 THEN 0 ELSE WINDOW_SLOTS, spent |-> PaidBefore[a]]]
  /\ landed = {} /\ inflight = {}
  /\ todo = {} /\ vaultless = {} /\ awaiting = FALSE

Pending == {i \in DOMAIN ops : ops[i].status = "pending"}
OnTheWay == {t[1] : t \in inflight}
Flow(a) == IF a \in Seeded THEN "seed" ELSE "deposit"
-----------------------------------------------------------------------------
\* The settlement program.

ChargedNow(i) ==
  Charged([window_start |-> 0, spent |-> outflow[ops[i].from].spent],
          outflow[ops[i].from].age, ops[i].amount)

\* The settlement's own record; and a program that never looks for it.
NoLook(i)   == i \in DOMAIN ops
NoRecord(i) == i \notin landed

\* The payer's own vault, whatever is on its way to it.
VaultCovers(i) == vault[ops[i].from] >= ops[i].amount

Accepts(i) ==
  CASE ops[i].kind = "settle" ->
         /\ {ops[i].from, ops[i].to} \subseteq opened
         /\ NoRecord(i)
         /\ VaultCovers(i)
         /\ ChargedNow(i).spent <= OutflowCap(vault[ops[i].from], 1)
    [] ops[i].kind = "open_vault" -> ops[i].from \notin opened \cup Legacy
    [] OTHER -> FALSE

\* A transaction lands: at once, or long after the worker stopped waiting, and
\* with another of the same op still on its way.
Land(t) ==
  LET i  == t[1]
      op == ops[i]
  IN  /\ t \in inflight /\ Accepts(i)
      /\ inflight' = inflight \ {t}
      /\ landed' = landed \cup {i}
      /\ \/ /\ op.kind = "open_vault"
            /\ opened' = opened \cup {op.from}
            /\ vault' = [vault EXCEPT ![op.from] = op.amount]
            /\ UNCHANGED outflow
         \/ /\ op.kind = "settle"
            /\ vault' = [vault EXCEPT ![op.from] = @ - op.amount, ![op.to] = @ + op.amount]
            /\ outflow' = [outflow EXCEPT ![op.from] =
                 [age |-> IF @.age >= WINDOW_SLOTS THEN 0 ELSE @.age, spent |-> ChargedNow(i).spent]]
            /\ UNCHANGED opened
      /\ UNCHANGED <<runnerVars, passVars>>

\* It never lands: its blockhash expires, or the program refuses it by then.
Drop(t) ==
  /\ t \in inflight
  /\ inflight' = inflight \ {t}
  /\ UNCHANGED <<runnerVars, opened, vault, outflow, landed, passVars>>
-----------------------------------------------------------------------------
\* drainChainOps.

head == Min(todo)
Mark(i, status) == ops' = [ops EXCEPT ![i].status = status]
NextOp == todo' = todo \ {head} /\ awaiting' = FALSE
OnlyOps == UNCHANGED <<rented, ledger, retired, band, barred, games, chainVars>>

StartPass ==
  /\ todo = {} /\ Pending # {}
  /\ todo' = {i \in Pending : Cardinality({j \in Pending : j < i}) < BatchLimit}
  /\ vaultless' = {ops[i].from : i \in {j \in DOMAIN ops : /\ ops[j].kind = "open_vault"
                                                           /\ ops[j].status = "failed"}}
  /\ awaiting' = FALSE
  /\ UNCHANGED <<runnerVars, chainVars>>

\* alreadyDone: the vault or the record exists; and taking sent for landed.
DoneOnceSent(i) == i \in landed \cup OnTheWay
Done(i) == IF ops[i].kind = "settle" THEN i \in landed ELSE ops[i].from \in opened

\* unsendable: there is no instruction left to send it to; and taking any
\* refusal for one that lasts.
RefusedForGood(i) == ~Accepts(i)
Unsendable(i) ==
  CASE ops[i].kind = "open_vault" -> ops[i].from \in Legacy
    [] ops[i].kind = "register_owner" -> TRUE
    [] OTHER -> {ops[i].from, ops[i].to} \cap vaultless # {}

AtHead == todo # {} /\ ~awaiting
Reachable == Flow(ops[head].from) \in Clients

\* No client for this flow: the op waits.
Unserved ==
  /\ AtHead /\ ~Reachable
  /\ NextOp
  /\ UNCHANGED <<runnerVars, chainVars, vaultless>>

GiveUp ==
  /\ AtHead /\ Reachable
  /\ Unsendable(head) /\ ~Done(head)
  /\ Mark(head, "failed")
  /\ vaultless' = IF ops[head].kind = "open_vault" THEN vaultless \cup {ops[head].from} ELSE vaultless
  /\ NextOp /\ OnlyOps

FindDone ==
  /\ AtHead /\ Reachable
  /\ Done(head)
  /\ Mark(head, "confirmed")
  /\ NextOp /\ OnlyOps
  /\ UNCHANGED vaultless

\* The program refuses: deferred to the next pass, and the rest carry on.
Refused ==
  /\ AtHead /\ Reachable
  /\ ~Unsendable(head) /\ ~Done(head) /\ ~Accepts(head)
  /\ NextOp
  /\ UNCHANGED <<runnerVars, chainVars, vaultless>>

\* One transaction more, unless two are on their way: a third would add nothing.
Send ==
  /\ AtHead /\ Reachable
  /\ ~Unsendable(head) /\ ~Done(head) /\ Accepts(head)
  /\ inflight' = inflight \cup {<<head, IF <<head, 1>> \in inflight THEN 2 ELSE 1>>}
  /\ awaiting' = TRUE
  /\ UNCHANGED <<runnerVars, opened, vault, outflow, landed, todo, vaultless>>

\* The answer: it landed; or it was refused after all, by a state that moved
\* on.  An earlier transaction of the op may have been the one that landed, or
\* may be on its way still; what was refused may be the last of it.
Confirm ==
  /\ awaiting /\ Done(head)
  /\ Mark(head, "confirmed")
  /\ NextOp /\ OnlyOps
  /\ UNCHANGED vaultless

Bounced ==
  /\ awaiting /\ ~Accepts(head)
  /\ NextOp
  /\ inflight' \in {inflight \ {<<head, copy>>} : copy \in 0 .. 2}
  /\ UNCHANGED <<runnerVars, opened, vault, outflow, landed, vaultless>>

\* The RPC fails or times out at any point of the pass, or the process dies:
\* the pass is over, and nothing it had not written is known to have happened.
Stop ==
  /\ todo # {}
  /\ todo' = {} /\ awaiting' = FALSE
  /\ UNCHANGED <<runnerVars, chainVars, vaultless>>

WorkerStep ==
  \/ StartPass \/ Unserved \/ GiveUp \/ FindDone \/ Refused \/ Send \/ Confirm \/ Bounced

\* The one clock: the ledger's window and the chain's.
OlderWindows == [a \in Agents |->
  [outflow[a] EXCEPT !.age = IF @ < WINDOW_SLOTS THEN @ + 1 ELSE @]]

OutboxTick ==
  /\ ops' = Older /\ outflow' = OlderWindows
  /\ ops' # ops \/ outflow' # outflow
  /\ UNCHANGED <<rented, ledger, retired, band, barred, games, opened, vault, landed, inflight,
                 passVars>>

OutboxNext ==
  \/ RunnerStep /\ UNCHANGED <<chainVars, passVars>>
  \/ WorkerStep
  \/ Stop
  \/ \E t \in inflight : Land(t)
  \/ \E t \in inflight : Drop(t)
  \/ OutboxTick

OutboxSpec == OutboxInit /\ [][OutboxNext]_vars

\* What the worker's loop and a chain that is up amount to: passes keep coming
\* and go on to the next op, what was sent lands if it can, a wait that can
\* have no answer times out, the clock moves; and the RPC, the blockhashes and
\* the process fail only so often.  A pass that ends with its last op is no fault.
NoAnswer == awaiting /\ head \notin OnTheWay /\ ~Done(head)
Fault == (Stop /\ ~NoAnswer /\ ~WorkerStep) \/ \E t \in inflight : Drop(t)
FairOutboxSpec ==
  /\ OutboxSpec
  /\ WF_vars(WorkerStep) /\ WF_vars(Stop /\ NoAnswer)
  /\ WF_vars(\E t \in inflight : Land(t))
  /\ WF_vars(OutboxTick)
  /\ <>[][~Fault]_vars
-----------------------------------------------------------------------------
\* Type correctness: the one type invariant.
OutboxTypeOK ==
  /\ TypeOK
  /\ opened \subseteq Agents
  /\ vault \in [Agents -> Nat]
  /\ outflow \in [Agents -> [age: 0 .. WINDOW_SLOTS, spent: Nat]]
  /\ {landed, todo} \subseteq SUBSET DOMAIN ops
  /\ inflight \subseteq (DOMAIN ops) \X {1, 2}
  /\ vaultless \subseteq Legacy
  /\ awaiting \in BOOLEAN

\* Idempotent against the chain (worker.ts 32-34): through lost answers, late
\* landings and restarts an op is confirmed only once the chain has it, and
\* never given up on if the chain has it or may yet have it.
StatusFollowsChain ==
  \A i \in DOMAIN ops :
    /\ ops[i].status = "confirmed" => i \in landed
    /\ ops[i].status = "failed" => i \notin landed \cup OnTheWay

\* The chain is the ledger less what has not landed: no chip is moved twice,
\* lost, or moved between other vaults than the ledger's, whatever order ops
\* land in.
Sum(S) == SumFunctionOnSet(OpAmounts, S)
VaultsFollowLedger ==
  LET behind == DOMAIN ops \ landed
      settles == {i \in behind : ops[i].kind = "settle"}
  IN  \A a \in Agents :
        vault[a] + Sum({i \in behind : ops[i].kind = "open_vault" /\ ops[i].from = a})
                 + Sum({i \in settles : ops[i].to = a})
          = ledger[a] + Sum({i \in settles : ops[i].from = a})

\* What the outbox promises the ledger, in the words of OutboxPromise.
Promise == INSTANCE OutboxPromise WITH
  queued <- Len(ops), onChain <- landed,
  done <- {i \in DOMAIN ops : ops[i].status = "confirmed"},
  abandoned <- {i \in DOMAIN ops : ops[i].status = "failed"}
KeepsPromise == Promise!Spec

\* "An op that overtook one it depends on is refused too, and lands later"
\* (worker.ts 29-30): among the settlements still queued there is always one
\* whose payer holds what it pays, so that waiting for windows is enough.
SomeOpCanLand ==
  LET queued == {i \in Pending \ landed : ops[i].kind = "settle"}
  IN  queued # {} => \E i \in queued : VaultCovers(i)

\* A settlement between vaults that are open lands and is confirmed in the end,
\* though vaults are throttled, passes fail and other ops wait for a client
\* that never comes (worker.ts 22-30), unless the vaults come to owe one
\* another more than any of them holds.
Served(i) == i \in Pending /\ {ops[i].from, ops[i].to} \subseteq opened
EverythingLands ==
  \A i \in 1 .. MaxOps :
    Served(i) ~> ((i \in DOMAIN ops /\ ops[i].status = "confirmed") \/ ~SomeOpCanLand)
=============================================================================
