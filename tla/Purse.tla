------------------------------- MODULE Purse -------------------------------
(***************************************************************************)
(* Money out of one agent's purse, by the two ways there are.              *)
(*                                                                         *)
(* A withdrawal (src/db/withdrawals.ts, settleWithdrawal in                *)
(* src/chain/worker.ts) moves the ledger first and the vault after: the    *)
(* server builds and co-signs a transaction, takes the signed one back,    *)
(* debits the ledger and sends it.  The request sends it once, the worker  *)
(* again on every pass, until it has landed or never can; then the ledger  *)
(* is put back.                                                            *)
(*                                                                         *)
(* An exit (claim_exit in the program, src/db/exits.ts) moves the vault    *)
(* first: the owner asks on chain, waits a window and takes the money      *)
(* without the server, whose watcher reads every exit on a timer, stops    *)
(* the agent and takes the claim off the ledger.  The program counts slots *)
(* and knows nothing of the watcher: a window runs out whatever the server *)
(* has seen or settled by then, before a claim and after it.               *)
(*                                                                         *)
(* Matches move the ledger and queue a settlement the vault follows.  The  *)
(* server stops and starts again.  Amounts are in chips.  Who the owner    *)
(* is, signatures and the transaction's bytes are left out: what is        *)
(* submitted is what was prepared, and reaches the chain by this server.   *)
(***************************************************************************)
EXTENDS Integers, Sequences, FiniteSetsExt

CONSTANTS
  Start,               \* what the vault and the ledger hold at first
  MIN_TO_KEEP,         \* MIN_TO_KEEP_PLAYING_CHIPS, and the cheapest band's worst match
  MIN_STAKE,           \* the program's MIN_STAKE_CHIPS: a vault with less is dust
  Asks,                \* amounts an exit or a partial withdrawal is tried with
  Nets,                \* what a match nets, either way
  MaxMatches,          \* matches played in all
  MaxWithdrawals, MaxExits, MaxOutages

ASSUME PurseAssumption ==
  /\ Start \in Nat /\ MIN_TO_KEEP \in Nat \ {0}
  /\ MIN_STAKE \in 1 .. MIN_TO_KEEP
  /\ Asks \subseteq Nat \ {0} /\ Nets \subseteq 1 .. MIN_TO_KEEP
  /\ {MaxMatches, MaxWithdrawals, MaxExits, MaxOutages} \subseteq Nat

VARIABLES
  ledger, vault,
  retired,             \* "no", or agents.retired_reason
  moves, played,       \* settlements queued: what each brings the vault; how many there were
  ws,                  \* withdrawals, in the order they were prepared
  exit, ripe,          \* the program's Exit account; has its window run out
  row,                 \* this server's row in `exits`
  worker,              \* where the worker's pass is with a withdrawal
  pass,                \* what the exit watcher's pass read
  up, outages,         \* is the server running; how often it stopped
  requests,            \* slots of request used so far
  \* History, which no action asks about:
  watched,             \* a whole exit pass has begun and ended since the exit last changed
  drained,             \* requests claimed when the watcher had seen them and nothing was
                       \* queued, and not absorbed since
  slipped,             \* claims closed before a whole pass had seen them, and not absorbed since
  forgiven             \* what claims took that the ledger no longer had

historyVars == <<watched, drained, slipped, forgiven>>
exitVars == <<exit, ripe, requests, row, pass, historyVars>>
serverVars == <<up, outages, played>>
vars == <<ledger, vault, retired, moves, played, ws, exit, ripe, row, worker, pass, up, outages,
          requests, watched, drained, slipped, forgiven>>

Withdrawal == [amount: Nat \ {0}, remaining: Nat,
               status: {"prepared", "submitted", "confirmed", "expired"},
               op: {"none", "pending", "confirmed", "failed"},
               sent: BOOLEAN,                          \* the cluster has it
               fate: {"live", "landed", "dead"},       \* dead: its block height has passed
               replying: BOOLEAN]                      \* the submitting request waits for it
\* An exit is named by its slot of request; a claim, by the request it claims.
Exit == [asked: Nat, want: Nat, claimed: BOOLEAN, took: Nat]
Row == [asked: Nat, claimed: BOOLEAN, ingested: BOOLEAN]
NoExit == [asked |-> 0, want |-> 0, claimed |-> FALSE, took |-> 0]
NoRow == [asked |-> 0, claimed |-> FALSE, ingested |-> FALSE]

Idle == [at |-> "idle", w |-> 0]
NoPass == [at |-> "idle", read |-> NoExit]

Init ==
  /\ ledger = Start /\ vault = Start
  /\ retired = "no"
  /\ moves = <<>> /\ ws = <<>>
  /\ exit = NoExit /\ ripe = FALSE /\ row = NoRow
  /\ worker = Idle /\ pass = NoPass
  /\ up = TRUE /\ outages = 0 /\ played = 0
  /\ requests = 0
  /\ watched = TRUE /\ drained = {} /\ slipped = {} /\ forgiven = 0
-----------------------------------------------------------------------------
InFlight == {i \in DOMAIN ws : ws[i].status = "submitted"}
Unsettled == moves # <<>> \/ \E i \in DOMAIN ws : ws[i].op = "pending"
\* Frozen: from the request being seen until its claim is off the ledger; and
\* from the claim only.
FrozenByClaim == row.claimed /\ ~row.ingested
Exiting == row.asked # 0 /\ ~row.ingested
Retire(i) == ws[i].remaining = 0

\* Matches, in short: an agent that has retired, is exiting or is withdrawing
\* is not matched; one that can no longer cover the cheapest match retires.
Play(net) ==
  /\ up /\ retired = "no" /\ InFlight = {} /\ ~Exiting
  /\ played < MaxMatches /\ played' = played + 1
  /\ ledger >= MIN_TO_KEEP
  /\ ledger' = ledger + net
  /\ moves' = Append(moves, net)
  /\ retired' = IF ledger + net < MIN_TO_KEEP THEN "broke" ELSE retired
  /\ UNCHANGED <<vault, ws, exitVars, worker, up, outages>>

\* A settlement lands once its payer's vault covers it.
MoveLands ==
  /\ moves # <<>> /\ vault + Head(moves) >= 0
  /\ vault' = vault + Head(moves)
  /\ moves' = Tail(moves)
  /\ UNCHANGED <<ledger, retired, ws, exitVars, worker, serverVars>>

\* The season turns and the rental is not renewed.
Lapse ==
  /\ up /\ retired = "no"
  /\ retired' = "lapsed"
  /\ UNCHANGED <<ledger, vault, moves, ws, exitVars, worker, serverVars>>
-----------------------------------------------------------------------------
\* withdrawable's reasons, in one: nothing can be taken while any holds.
Withdrawable ==
  /\ retired \in {"no", "lapsed"}
  /\ ~Exiting /\ InFlight = {} /\ ~Unsettled
  /\ ledger > 0

\* What may be left: nothing, or enough to play; a lapsed agent leaves nothing.
MayLeave(remaining) ==
  remaining = 0 \/ (retired # "lapsed" /\ remaining >= MIN_TO_KEEP)

Prepare(amount) ==
  /\ up /\ Len(ws) < MaxWithdrawals
  /\ Withdrawable
  /\ amount <= ledger /\ MayLeave(ledger - amount)
  /\ ws' = Append(ws, [amount |-> amount, remaining |-> ledger - amount, status |-> "prepared",
                       op |-> "none", sent |-> FALSE, fate |-> "live", replying |-> FALSE])
  /\ UNCHANGED <<ledger, vault, retired, moves, exitVars, worker, serverVars>>

\* The balance is still the one it was prepared for.
StillAsPrepared(w) == ledger = w.amount + w.remaining

\* A send: the cluster may never hear of it, and refuses what is out of date.
Hears(i, heard) == heard => ws[i].fate = "live"

\* The signed transaction comes back: the debit, the op and a retirement, in
\* one transaction.  Nobody asks about an exit.  Then it is sent, and the
\* request waits until its block height has passed; the outbox has it.
Submit(i, heard) ==
  /\ up /\ i \in DOMAIN ws /\ ws[i].status = "prepared" /\ Hears(i, heard)
  /\ StillAsPrepared(ws[i]) /\ ~Unsettled
  /\ retired \in {"no", "lapsed"}
  /\ ledger' = ledger - ws[i].amount
  /\ ws' = [ws EXCEPT ![i] = [@ EXCEPT !.status = "submitted", !.op = "pending",
                                       !.sent = heard, !.replying = ws[i].fate = "live"]]
  /\ retired' = IF Retire(i) /\ retired = "no" THEN "withdrawn" ELSE retired
  /\ UNCHANGED <<vault, moves, exitVars, worker, serverVars>>

\* markWithdrawn: the withdrawal only if it is on its way, the op whatever it is.
Marked(i) ==
  [ws EXCEPT ![i].status = IF @ \in {"submitted", "confirmed"} THEN "confirmed" ELSE @,
             ![i].op = "confirmed"]

RequestMarks(i) ==
  /\ i \in DOMAIN ws /\ ws[i].replying /\ ws[i].fate = "landed"
  /\ ws' = [Marked(i) EXCEPT ![i].replying = FALSE]
  /\ UNCHANGED <<ledger, vault, retired, moves, exitVars, worker, serverVars>>

\* The program pays a withdrawal if the vault is left with what the ledger said.
Pays(i) ==
  /\ vault - ws[i].amount = ws[i].remaining
  /\ ws[i].remaining = 0 \/ ws[i].remaining >= MIN_STAKE

WithdrawalLands(i) ==
  /\ i \in DOMAIN ws /\ ws[i].sent /\ ws[i].fate = "live" /\ Pays(i)
  /\ vault' = vault - ws[i].amount
  /\ ws' = [ws EXCEPT ![i].fate = "landed"]
  /\ UNCHANGED <<ledger, retired, moves, exitVars, worker, serverVars>>

\* What has not landed by its block height never will: the cluster drops it, and
\* a request that waits for it is told so.
HeightPasses(i) ==
  /\ i \in DOMAIN ws /\ ws[i].fate = "live"
  /\ ws' = [ws EXCEPT ![i] = [@ EXCEPT !.fate = "dead", !.sent = FALSE, !.replying = FALSE]]
  /\ UNCHANGED <<ledger, vault, retired, moves, exitVars, worker, serverVars>>
-----------------------------------------------------------------------------
\* The worker reaches a withdrawal's op (settleWithdrawal): it has landed, or
\* is sent again, the same bytes as ever.
WorkerSends(i, heard) ==
  /\ up /\ worker = Idle /\ i \in DOMAIN ws /\ ws[i].op = "pending" /\ Hears(i, heard)
  /\ IF ws[i].fate = "landed"
       THEN ws' = Marked(i) /\ UNCHANGED worker
       ELSE /\ ws' = [ws EXCEPT ![i].sent = @ \/ heard]
            /\ worker' = [at |-> "waiting", w |-> i]
  /\ UNCHANGED <<ledger, vault, retired, moves, exitVars, serverVars>>

\* It was confirmed; or the send failed, and a second look finds it there.
WorkerMarks ==
  /\ worker.at = "waiting" /\ ws[worker.w].fate = "landed"
  /\ ws' = Marked(worker.w)
  /\ worker' = Idle
  /\ UNCHANGED <<ledger, vault, retired, moves, exitVars, serverVars>>

\* The send failed and a second look finds nothing.  After that look nothing is
\* read again but the block height.
WorkerLooksAgain ==
  /\ worker.at = "waiting" /\ ws[worker.w].fate # "landed"
  /\ worker' = [worker EXCEPT !.at = "asking"]
  /\ UNCHANGED <<ledger, vault, retired, moves, ws, exitVars, serverVars>>

\* What is put back: the debit; and forgetting a partial one.
PutBackAll(w) == IF w.remaining = 0 THEN w.amount ELSE 0
PutBack(w) == w.amount

\* The program refused it, which ends it at once; or its block height has
\* passed.
Refused(i) == worker.at = "waiting" /\ ws[i].fate # "landed" /\ ~Pays(i)
GivenUp(i) == Refused(i) \/ (worker.at = "asking" /\ ws[i].fate # "live")

\* Undone: a retirement this withdrawal caused; and none.
StaysRetired(i) == retired
Unretired(i) == IF Retire(i) /\ retired = "withdrawn" THEN "no" ELSE retired

\* expireWithdrawal: only a submitted withdrawal, and only a
\* retirement it caused.
WorkerExpires ==
  LET i == worker.w IN
  /\ worker # Idle /\ GivenUp(i)
  /\ IF ws[i].status = "submitted"
       THEN /\ ledger' = ledger + PutBack(ws[i])
            /\ retired' = Unretired(i)
            /\ ws' = [ws EXCEPT ![i] = [@ EXCEPT !.status = "expired", !.op = "failed"]]
       ELSE UNCHANGED <<ledger, retired, ws>>
  /\ worker' = Idle
  /\ UNCHANGED <<vault, moves, exitVars, serverVars>>

WorkerRetriesLater ==
  /\ worker.at = "asking" /\ ws[worker.w].fate = "live"
  /\ worker' = Idle
  /\ UNCHANGED <<ledger, vault, retired, moves, ws, exitVars, serverVars>>
-----------------------------------------------------------------------------
\* The owner, on chain and without the server.
Request(want) ==
  /\ exit = NoExit /\ requests < MaxExits
  /\ requests' = requests + 1
  /\ exit' = [NoExit EXCEPT !.asked = requests + 1, !.want = want]
  /\ ripe' = FALSE /\ watched' = FALSE
  /\ UNCHANGED <<ledger, vault, retired, moves, ws, row, worker, pass, serverVars, drained,
                  slipped, forgiven>>

\* Enough slots go by for a claim, or for closing one: slots, and nothing else.
WindowPasses ==
  /\ exit # NoExit /\ ~ripe
  /\ ripe' = TRUE
  /\ UNCHANGED <<ledger, vault, retired, moves, ws, exit, row, worker, pass, serverVars, requests,
                  historyVars>>

\* What was asked or what is there, and the dust with it; and what was asked.
AsAsked == exit.want
Payout == LET pay == IF exit.want <= vault THEN exit.want ELSE vault
          IN  IF vault - pay \in 1 .. MIN_STAKE - 1 THEN vault ELSE pay

Claim ==
  /\ ripe /\ ~exit.claimed /\ vault > 0
  /\ exit' = [exit EXCEPT !.claimed = TRUE, !.took = Payout]
  /\ vault' = vault - Payout
  /\ ripe' = FALSE /\ watched' = FALSE
  /\ drained' = IF watched /\ ~Unsettled THEN drained \cup {exit.asked} ELSE drained
  /\ UNCHANGED <<ledger, retired, moves, ws, row, worker, pass, serverVars, requests, slipped,
                  forgiven>>

\* A request is cancelled at once; the record of a claim outlives it by a window.
Close ==
  /\ exit # NoExit /\ (exit.claimed => ripe)
  /\ exit' = NoExit
  /\ ripe' = FALSE /\ watched' = FALSE
  /\ slipped' = IF exit.claimed /\ ~watched THEN slipped \cup {exit} ELSE slipped
  /\ UNCHANGED <<ledger, vault, retired, moves, ws, row, worker, pass, serverVars, requests,
                  drained, forgiven>>
-----------------------------------------------------------------------------
\* The exit watcher's pass: what the chain has, then the row, then the claim.
PassReads ==
  /\ up /\ pass = NoPass
  /\ pass' = [at |-> "read", read |-> exit]
  /\ UNCHANGED <<ledger, vault, retired, moves, ws, exit, ripe, row, worker, serverVars, requests,
                  historyVars>>

PassDone == pass' = NoPass /\ watched' = (watched \/ pass.read = exit)

\* A request this server has not seen, even one at an address it has.
IsNew(e) == row.asked # e.asked

\* A claim this server has taken account of.
Absorbed(e) == ~IsNew(e) /\ row.claimed /\ row.ingested

PassIngests ==
  LET e == pass.read IN
  /\ pass.at = "read" /\ e # NoExit
  /\ row' = CASE IsNew(e) -> [asked |-> e.asked, claimed |-> e.claimed, ingested |-> FALSE]
              [] ~IsNew(e) /\ e.claimed /\ ~row.claimed ->
                   [row EXCEPT !.claimed = TRUE, !.ingested = FALSE]
              [] OTHER -> row
  /\ IF e.claimed /\ ~Absorbed(e)
       THEN pass' = [pass EXCEPT !.at = "absorbing"] /\ UNCHANGED watched
       ELSE PassDone
  /\ UNCHANGED <<ledger, vault, retired, moves, ws, exit, ripe, worker, serverVars, requests,
                  drained, slipped, forgiven>>

\* What the claim takes off the ledger: never below zero.
ToDebit(took) == LET held == IF ledger > 0 THEN ledger ELSE 0
                 IN  IF took <= held THEN took ELSE held

\* absorbClaim: the debit, a retirement and the row, in one transaction.
PassAbsorbs ==
  LET took == pass.read.took IN
  /\ pass.at = "absorbing"
  /\ IF row.ingested /\ row.claimed
       THEN UNCHANGED <<ledger, retired, row, slipped, drained, forgiven>>
       ELSE /\ ledger' = ledger - ToDebit(took)
            /\ forgiven' = forgiven + took - ToDebit(took)
            /\ slipped' = slipped \ {pass.read} /\ drained' = drained \ {pass.read.asked}
            /\ retired' = IF ledger - ToDebit(took) <= 0 /\ retired = "no"
                            THEN "withdrawn" ELSE retired
            /\ row' = [row EXCEPT !.claimed = TRUE, !.ingested = TRUE]
  /\ PassDone
  /\ UNCHANGED <<vault, moves, ws, exit, ripe, worker, serverVars, requests>>

\* Gone from the chain: the row goes too, unless the ledger still owes its debit.
PassClears ==
  /\ pass.at = "read" /\ pass.read = NoExit
  /\ row' = IF FrozenByClaim THEN row ELSE NoRow
  /\ PassDone
  /\ UNCHANGED <<ledger, vault, retired, moves, ws, exit, ripe, worker, serverVars, requests,
                  drained, slipped, forgiven>>

\* The server stops, wherever its requests and passes are, and starts again.
Stop ==
  /\ up /\ outages < MaxOutages
  /\ up' = FALSE /\ outages' = outages + 1
  /\ worker' = Idle /\ pass' = NoPass
  /\ ws' = [i \in DOMAIN ws |-> [ws[i] EXCEPT !.replying = FALSE]]
  /\ UNCHANGED <<ledger, vault, retired, moves, played, exit, ripe, row, requests, historyVars>>

Boot ==
  /\ ~up /\ up' = TRUE
  /\ UNCHANGED <<ledger, vault, retired, moves, played, ws, exitVars, worker, outages>>
-----------------------------------------------------------------------------
WorkerStep ==
  \/ \E i \in 1 .. MaxWithdrawals, heard \in BOOLEAN : WorkerSends(i, heard)
  \/ WorkerMarks \/ WorkerLooksAgain \/ WorkerExpires \/ WorkerRetriesLater

PassStep == PassReads \/ PassIngests \/ PassAbsorbs \/ PassClears

OwnerStep ==
  \/ \E want \in Asks : Request(want)
  \/ Claim \/ Close
  \/ \E amount \in Asks \cup {ledger} : Prepare(amount)
  \/ \E i \in 1 .. MaxWithdrawals, heard \in BOOLEAN : Submit(i, heard)

ChainStep ==
  \/ MoveLands \/ WindowPasses
  \/ \E i \in 1 .. MaxWithdrawals : WithdrawalLands(i) \/ HeightPasses(i)

Next ==
  \/ \E n \in Nets : Play(n) \/ Play(-n)
  \/ Lapse
  \/ OwnerStep \/ ChainStep \/ WorkerStep \/ PassStep \/ Stop \/ Boot
  \/ \E i \in 1 .. MaxWithdrawals : RequestMarks(i)

Spec == Init /\ [][Next]_vars

\* The worker and the watcher run on timers, block heights pass and somebody
\* starts the server again.  Nothing is assumed of the owner or of the cluster.
FairSpec ==
  /\ Spec
  /\ WF_vars(WorkerStep) /\ WF_vars(PassStep) /\ WF_vars(Boot)
  /\ \A i \in 1 .. MaxWithdrawals : WF_vars(HeightPasses(i))
-----------------------------------------------------------------------------
\* Type correctness: the one type invariant.
TypeOK ==
  /\ ledger \in Int /\ vault \in Nat
  /\ retired \in {"no", "withdrawn", "broke", "lapsed"}
  /\ moves \in Seq(Int) /\ ws \in Seq(Withdrawal)
  /\ exit \in Exit /\ row \in Row
  /\ worker \in [at: {"idle", "waiting", "asking"},
                 w: 0 .. MaxWithdrawals]
  /\ pass \in [at: {"idle", "read", "absorbing"}, read: Exit]
  /\ up \in BOOLEAN /\ outages \in Nat /\ requests \in Nat /\ played \in Nat
  /\ ripe \in BOOLEAN /\ watched \in BOOLEAN /\ forgiven \in Nat
  /\ drained \subseteq Nat /\ slipped \subseteq Exit

\* Nothing is on its way: no settlement, no withdrawal, no claim unabsorbed.
Owed == exit.claimed /\ ~(row.asked = exit.asked /\ row.claimed /\ row.ingested)
Quiet == ~Unsettled /\ ~Owed

\* Withdrawals debited and not paid yet; those the worker gave up on that landed
\* all the same, between its last look and the block height it asks for, or
\* refused once and paid later.
OnItsWay == {i \in DOMAIN ws : ws[i].status = "submitted" /\ ws[i].fate # "landed"}
PaidAnyway == {i \in DOMAIN ws : ws[i].status = "expired" /\ ws[i].fate = "landed"}

\* What they come to; what settlements will bring; what claims took that slipped.
Amounts == [i \in DOMAIN ws |-> ws[i].amount]
Away == SumFunctionOnSet(Amounts, OnItsWay)
Reversed == SumFunctionOnSet(Amounts, PaidAnyway)
Queued == SumFunctionOnSet(moves, DOMAIN moves)
Slipped == SumFunctionOnSet([e \in slipped |-> e.took], slipped)

\* Money out leaves ledger and vault agreed, however withdrawals, claims,
\* outages and retries interleave: once nothing is on its way the two differ by
\* what claims took that the ledger no longer had, by a withdrawal paid and
\* reversed, by a claim whose record was closed before any whole pass had seen
\* it, and by nothing else (withdrawals.ts 294-322, exits.ts 131-197).
Backed == Quiet => ledger = vault + forgiven + Reversed + Slipped

\* What a claim takes that the ledger lacks is money on its way: debited for a
\* withdrawal, or lost in matches, and not yet gone from the vault.  And if the
\* watcher had seen the request and nothing was queued when the claim was taken,
\* only a withdrawal submitted behind it: the agent has staked nothing since
\* (exits.ts 32-42, 169-174).
DebitedInFull ==
  [][forgiven' > forgiven =>
       /\ forgiven' - forgiven <= Away - Queued
       /\ pass.read.asked \in drained => InFlight # {}]_vars

\* An agent retired by its withdrawal or its exit leaves its owner nothing that
\* only a withdrawal could fetch, and those it is refused, however the worker,
\* the watcher and the submitting request meet (withdrawals.ts 300-311, exits.ts
\* 177-181).  The exception is a partial withdrawal put back after the claim
\* that retired the agent: an exit alone gets that one out.
NothingLeftBehind ==
  /\ retired = "withdrawn"
  /\ \A i \in DOMAIN ws : ws[i].status = "expired" => Retire(i)
  => ledger <= 0

\* A submitted withdrawal is paid or put back: no refusal, lost transaction or
\* restart leaves the agent spoken for (worker.ts 299-326).
WithdrawalsResolve ==
  \A i \in 1 .. MaxWithdrawals :
    (i \in InFlight) ~> (i \notin InFlight)

\* A claim comes off the ledger in the end, the server stopping between the
\* statements of a pass included, unless its record is closed before a whole
\* pass has seen it (exits.ts 56-63).
ClaimsAbsorbed ==
  \A k \in 1 .. MaxExits :
    (Owed /\ exit.asked = k) ~> \/ ~Owed /\ exit.asked = k
                               \/ \E e \in slipped : e.asked = k

\* And once the exit is gone from the chain the agent plays again, or has
\* another; or its row holds a claim that slipped, and is kept for ever
\* (exits.ts 131-145).
Thaws == (exit = NoExit /\ Exiting) ~> (exit # NoExit \/ ~Exiting \/ FrozenByClaim)

\* Whatever is on its way out comes to rest: withdrawals, claims, and what an
\* exit kept the agent from.
ComesToRest == WithdrawalsResolve /\ ClaimsAbsorbed /\ Thaws
=============================================================================
