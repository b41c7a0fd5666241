----------------------------- MODULE PurseProofs -----------------------------
(***************************************************************************)
(* Money out of one agent's purse adds up, for any amounts and any number  *)
(* of matches, withdrawals, exits and outages.                             *)
(*                                                                         *)
(* That ledger and vault agree once nothing is on its way says nothing of  *)
(* what they are meanwhile. Balance says it: the ledger and what it has    *)
(* debited that has not been paid are the vault, what settlements still    *)
(* bring it, and what left it without the ledger knowing. What a claim     *)
(* took stands in it until the watcher has taken it off the ledger, or for *)
(* ever if its record was closed before, so the rest of the invariant is   *)
(* about the watcher: what its pass read and its row know of the exit on   *)
(* chain, however old they are.                                            *)
(***************************************************************************)
EXTENDS Purse, SequenceTheorems, FiniteSetTheorems, Sums

\* What is known of a withdrawal by its status.
Kept(w) ==
  /\ w.status = "prepared" => w.op = "none" /\ ~w.sent /\ ~w.replying /\ w.fate # "landed"
  /\ w.status = "submitted" <=> w.op = "pending"
  /\ w.status = "confirmed" => w.fate = "landed"

WithdrawalsKept == \A i \in DOMAIN ws : Kept(ws[i])

WorkerBusy == worker.at # "idle" => worker.w \in DOMAIN ws /\ ws[worker.w].status # "prepared"

\* Exits are named by requests, and NoExit by none.
Named ==
  /\ exit.asked <= requests /\ row.asked <= requests /\ pass.read.asked <= requests
  /\ exit.asked = 0 => exit = NoExit
  /\ pass.read.asked = 0 => pass.read = NoExit
  /\ row.asked = 0 => row = NoRow
  /\ row.ingested => row.claimed

\* What slipped was claimed, and is no longer there.
SlippedClaims ==
  /\ IsFiniteSet(slipped)
  /\ \A e \in slipped : e.claimed /\ e.asked # 0 /\ e.asked <= requests /\ e.asked # exit.asked

\* A window runs out for an exit there is.
RipeIsThere == ripe => exit # NoExit

IsAbsorbed == row.asked = exit.asked /\ row.claimed /\ row.ingested

\* What the row says of a claim is so, an exit that was watched is in it, and a
\* claim is absorbed exactly when it was watched.
ClaimsKnown ==
  /\ row.claimed /\ row.asked = exit.asked => exit.claimed
  /\ watched /\ exit # NoExit => row.asked = exit.asked
  /\ exit.claimed => (watched <=> IsAbsorbed)

\* What a pass read is the exit there is, or that has changed and has not been
\* watched since. A claim it read is still there, or is absorbed, or has slipped.
OnePass ==
  /\ pass.at = "idle" => pass = NoPass
  /\ pass.at # "idle" =>
       /\ up
       /\ exit # NoExit /\ pass.read # exit => ~watched
       /\ pass.read.claimed => IF pass.read.asked = exit.asked
                                 THEN pass.read = exit
                                 ELSE Absorbed(pass.read) \/ pass.read \in slipped
  /\ pass.at = "absorbing" =>
       /\ pass.read.claimed /\ row.asked = pass.read.asked /\ FrozenByClaim
       /\ pass.read # exit => pass.read \in slipped

\* A claim drained when it was taken has a row, and behind it nothing is staked
\* until that says it is absorbed.
DrainedKnown ==
  /\ \A k \in drained : k # 0 /\ k <= requests
  /\ exit.asked \in drained => row.asked = exit.asked
  /\ pass.at # "idle" =>
       /\ pass.read.asked \in drained => row.asked = pass.read.asked
       /\ exit.asked \in drained => pass.read.asked = exit.asked
  /\ row.asked \in drained /\ ~row.ingested => moves = <<>>

\* What claims took that the ledger still holds: the one on chain, and those that
\* slipped.
OnChain == IF Owed THEN exit.took ELSE 0
Owing == OnChain + Slipped

Balance == ledger + Away = vault + Queued + forgiven + Reversed + Owing

ExitInv == Named /\ SlippedClaims /\ RipeIsThere /\ ClaimsKnown /\ OnePass
PurseInv == TypeOK /\ WithdrawalsKept /\ WorkerBusy /\ ExitInv /\ DrainedKnown /\ NothingLeftBehind
-----------------------------------------------------------------------------
(* Types.                                                                  *)

LEMMA PurseArguments ==
  /\ Start \in Nat /\ MIN_TO_KEEP \in Nat /\ MIN_STAKE \in Nat /\ Asks \subseteq Nat \ {0}
  /\ Nets \subseteq Nat /\ \A n \in Nets : n \in 1 .. MIN_TO_KEEP
  /\ MaxWithdrawals \in Nat /\ MaxExits \in Nat /\ MaxOutages \in Nat /\ MaxMatches \in Nat
BY PurseAssumption

\* A withdrawal changes, and the others do not.
LEMMA OneChanged ==
  ASSUME NEW s \in Seq(Withdrawal), NEW i \in DOMAIN s, NEW w \in Withdrawal
  PROVE  LET t == [s EXCEPT ![i] = w]
         IN  /\ t \in Seq(Withdrawal) /\ DOMAIN t = DOMAIN s /\ t[i] = w
             /\ \A j \in DOMAIN s \ {i} : t[j] = s[j]
<1>1. i \in 1 .. Len(s) /\ DOMAIN s = 1 .. Len(s)
  OBVIOUS
<1>2. [s EXCEPT ![i] = w] \in Seq(Withdrawal)
  BY <1>1, ExceptSeq
<1> QED
  BY <1>1, <1>2

\* markWithdrawn changes the status and the op of one.
MarkedStatus(w) == IF w.status \in {"submitted", "confirmed"} THEN "confirmed" ELSE w.status
MarkedAs(w) == [w EXCEPT !.status = MarkedStatus(w), !.op = "confirmed"]

LEMMA MarkedIs ==
  ASSUME ws \in Seq(Withdrawal), NEW i \in DOMAIN ws
  PROVE  /\ Marked(i) = [ws EXCEPT ![i] = MarkedAs(ws[i])]
         /\ MarkedAs(ws[i]) \in Withdrawal
<1>1. ws[i] \in Withdrawal
  OBVIOUS
<1>2. MarkedAs(ws[i]) \in Withdrawal
  BY <1>1 DEF MarkedAs, MarkedStatus, Withdrawal
<1>3. Marked(i) = [ws EXCEPT ![i] = MarkedAs(ws[i])]
  BY DEF Marked, MarkedAs, MarkedStatus
<1> QED
  BY <1>2, <1>3

\* What each step makes of the withdrawals: the list it leaves, as an operator
\* of the one it changes.
Changes(i, w) ==
  /\ i \in DOMAIN ws /\ ws[i] \in Withdrawal /\ w \in Withdrawal
  /\ ws' \in Seq(Withdrawal) /\ DOMAIN ws' = DOMAIN ws /\ ws'[i] = w
  /\ \A j \in DOMAIN ws \ {i} : ws'[j] = ws[j]

LEMMA ChangesOne ==
  ASSUME ws \in Seq(Withdrawal), NEW i \in DOMAIN ws, NEW w \in Withdrawal, ws' = [ws EXCEPT ![i] = w]
  PROVE  Changes(i, w)
BY OneChanged DEF Changes

LEMMA SubmitChanges ==
  ASSUME TypeOK, NEW i, NEW heard \in BOOLEAN, Submit(i, heard)
  PROVE  Changes(i, [ws[i] EXCEPT !.status = "submitted", !.op = "pending", !.sent = heard,
                                  !.replying = ws[i].fate = "live"])
<1> DEFINE w == [ws[i] EXCEPT !.status = "submitted", !.op = "pending", !.sent = heard,
                              !.replying = ws[i].fate = "live"]
<1>1. i \in DOMAIN ws /\ ws \in Seq(Withdrawal) /\ ws' = [ws EXCEPT ![i] = w]
  BY DEF Submit, TypeOK
<1>2. w \in Withdrawal
  <2>1. ws[i] \in Withdrawal
    BY <1>1
  <2> QED
    BY <2>1 DEF Withdrawal
<1> HIDE DEF w
<1>3. Changes(i, w)
  BY <1>1, <1>2, ChangesOne
<1> QED
  BY <1>3 DEF w

LEMMA RequestMarksChanges ==
  ASSUME TypeOK, NEW i, RequestMarks(i)
  PROVE  Changes(i, [MarkedAs(ws[i]) EXCEPT !.replying = FALSE])
<1> DEFINE m == MarkedAs(ws[i])
           w == [m EXCEPT !.replying = FALSE]
<1>1. i \in DOMAIN ws /\ ws \in Seq(Withdrawal) /\ m \in Withdrawal
      /\ Marked(i) = [ws EXCEPT ![i] = m] /\ ws' = [Marked(i) EXCEPT ![i].replying = FALSE]
  BY MarkedIs DEF RequestMarks, TypeOK
<1> HIDE DEF m
<1>2. w \in Withdrawal
  BY <1>1 DEF Withdrawal
<1>3. ws' = [ws EXCEPT ![i] = w]
  BY <1>1
<1> HIDE DEF w
<1>4. Changes(i, w)
  BY <1>1, <1>2, <1>3, ChangesOne
<1> QED
  BY <1>4 DEF w, m

LEMMA WorkerMarksChanges ==
  ASSUME TypeOK, NEW i \in DOMAIN ws, ws' = Marked(i)
  PROVE  Changes(i, MarkedAs(ws[i]))
BY MarkedIs, ChangesOne DEF TypeOK

LEMMA LandingChanges ==
  ASSUME TypeOK, NEW i \in DOMAIN ws, ws' = [ws EXCEPT ![i].fate = "landed"]
  PROVE  Changes(i, [ws[i] EXCEPT !.fate = "landed"])
<1> DEFINE w == [ws[i] EXCEPT !.fate = "landed"]
<1>1. ws \in Seq(Withdrawal) /\ ws[i] \in Withdrawal
  BY DEF TypeOK
<1>2. w \in Withdrawal /\ ws' = [ws EXCEPT ![i] = w]
  BY <1>1 DEF Withdrawal
<1> HIDE DEF w
<1>3. Changes(i, w)
  BY <1>1, <1>2, ChangesOne
<1> QED
  BY <1>3 DEF w

Dead(w) == [w EXCEPT !.fate = "dead", !.sent = FALSE, !.replying = FALSE]

LEMMA DyingChanges ==
  ASSUME TypeOK, NEW i, HeightPasses(i)
  PROVE  i \in DOMAIN ws /\ Changes(i, Dead(ws[i]))
<1>1. i \in DOMAIN ws /\ ws \in Seq(Withdrawal) /\ ws[i] \in Withdrawal
  BY DEF HeightPasses, TypeOK
<1>2. Dead(ws[i]) \in Withdrawal /\ ws' = [ws EXCEPT ![i] = Dead(ws[i])]
  BY <1>1 DEF Dead, HeightPasses, Withdrawal
<1> QED
  BY <1>1, <1>2, ChangesOne

LEMMA SendChanges ==
  ASSUME TypeOK, NEW i \in DOMAIN ws, NEW heard \in BOOLEAN, ws' = [ws EXCEPT ![i].sent = @ \/ heard]
  PROVE  Changes(i, [ws[i] EXCEPT !.sent = @ \/ heard])
<1> DEFINE w == [ws[i] EXCEPT !.sent = @ \/ heard]
<1>1. ws \in Seq(Withdrawal) /\ ws[i] \in Withdrawal
  BY DEF TypeOK
<1>2. (ws[i].sent \/ heard) \in BOOLEAN
  OBVIOUS
<1>3. w \in Withdrawal /\ ws' = [ws EXCEPT ![i] = w]
  BY <1>1, <1>2 DEF Withdrawal
<1> HIDE DEF w
<1>4. Changes(i, w)
  BY <1>1, <1>3, ChangesOne
<1> QED
  BY <1>4 DEF w

LEMMA ExpiryChanges ==
  ASSUME TypeOK, NEW i \in DOMAIN ws,
         ws' = [ws EXCEPT ![i] = [@ EXCEPT !.status = "expired", !.op = "failed"]]
  PROVE  Changes(i, [ws[i] EXCEPT !.status = "expired", !.op = "failed"])
<1> DEFINE w == [ws[i] EXCEPT !.status = "expired", !.op = "failed"]
<1>1. ws \in Seq(Withdrawal) /\ ws[i] \in Withdrawal
  BY DEF TypeOK
<1>2. w \in Withdrawal /\ ws' = [ws EXCEPT ![i] = w]
  BY <1>1 DEF Withdrawal
<1> HIDE DEF w
<1>3. Changes(i, w)
  BY <1>1, <1>2, ChangesOne
<1> QED
  BY <1>3 DEF w

\* A stop reaches every withdrawal, but neither its sums nor where it is with
\* the worker.
AllChange ==
  /\ ws' \in Seq(Withdrawal) /\ DOMAIN ws' = DOMAIN ws
  /\ \A i \in DOMAIN ws :
       /\ ws[i] \in Withdrawal /\ ws'[i].amount = ws[i].amount /\ ws'[i].remaining = ws[i].remaining
       /\ ws'[i].status = ws[i].status /\ ws'[i].op = ws[i].op /\ ws'[i].sent = ws[i].sent
       /\ ws'[i].fate = ws[i].fate /\ ~ws'[i].replying

LEMMA AllChangeBy ==
  ASSUME TypeOK, Stop
  PROVE  AllChange
<1>1. ws \in Seq(Withdrawal) /\ Len(ws) \in Nat /\ DOMAIN ws = 1 .. Len(ws)
      /\ \A i \in DOMAIN ws : ws[i] \in Withdrawal
  BY DEF TypeOK
<1> DEFINE left(w) == [w EXCEPT !.replying = FALSE]
<1>2. ws' = [i \in 1 .. Len(ws) |-> left(ws[i])]
  BY <1>1 DEF Stop
<1>3. \A w \in Withdrawal : /\ left(w) \in Withdrawal /\ left(w).amount = w.amount
                            /\ left(w).remaining = w.remaining /\ left(w).status = w.status
                            /\ left(w).op = w.op /\ left(w).sent = w.sent
                            /\ left(w).fate = w.fate /\ ~left(w).replying
  BY DEF Withdrawal
<1> HIDE DEF left
<1>4. ws' \in [1 .. Len(ws) -> Withdrawal]
  BY <1>1, <1>2, <1>3
<1>5. ws' \in Seq(Withdrawal) /\ DOMAIN ws' = DOMAIN ws
  BY <1>1, <1>4
<1> QED
  BY <1>1, <1>2, <1>3, <1>5 DEF AllChange

\* A withdrawal is prepared.
Prepared(amount) ==
  [amount |-> amount, remaining |-> ledger - amount, status |-> "prepared", op |-> "none",
   sent |-> FALSE, fate |-> "live", replying |-> FALSE]

LEMMA PrepareAppends ==
  ASSUME TypeOK, NEW amount \in Asks \cup {ledger}, Prepare(amount)
  PROVE  /\ Prepared(amount) \in Withdrawal /\ ws' = Append(ws, Prepared(amount))
         /\ ws' \in Seq(Withdrawal) /\ DOMAIN ws' = DOMAIN ws \cup {Len(ws) + 1}
         /\ Len(ws) + 1 \notin DOMAIN ws
         /\ ws'[Len(ws) + 1] = Prepared(amount) /\ \A i \in DOMAIN ws : ws'[i] = ws[i]
<1>1. ledger \in Int /\ ledger > 0 /\ amount <= ledger /\ ws' = Append(ws, Prepared(amount))
      /\ ws \in Seq(Withdrawal)
  BY DEF Prepare, Withdrawable, Prepared, TypeOK
<1>2. amount \in Nat \ {0}
  BY <1>1, PurseArguments
<1>3. ledger - amount \in Nat
  BY <1>1, <1>2
<1>4. Prepared(amount) \in Withdrawal
  BY <1>2, <1>3 DEF Prepared, Withdrawal
<1> QED
  BY <1>1, <1>4

LEMMA PurseTypeInit == Init => TypeOK
<1> SUFFICES ASSUME Init PROVE TypeOK
  OBVIOUS
<1>1. NoExit \in Exit /\ NoRow \in Row
  BY DEF NoExit, NoRow, Exit, Row
<1>2. Idle \in [at: {"idle", "waiting", "asking"}, w: 0 .. MaxWithdrawals]
  BY PurseArguments DEF Idle
<1>3. NoPass \in [at: {"idle", "read", "absorbing"}, read: Exit]
  BY <1>1 DEF NoPass
<1>4. /\ ledger \in Int /\ vault \in Nat /\ moves \in Seq(Int) /\ ws \in Seq(Withdrawal)
      /\ retired \in {"no", "withdrawn", "broke", "lapsed"} /\ outages \in Nat /\ requests \in Nat
      /\ played \in Nat /\ forgiven \in Nat /\ drained \subseteq Nat /\ slipped \subseteq Exit
  BY PurseArguments DEF Init
<1>5. up \in BOOLEAN /\ ripe \in BOOLEAN /\ watched \in BOOLEAN
  BY DEF Init
<1> QED
  BY <1>1, <1>2, <1>3, <1>4, <1>5 DEF Init, TypeOK

\* The steps of matches and of withdrawals, and of the withdrawals' worker.
WithdrawalStep ==
  \/ \E n \in Nets : Play(n) \/ Play(-n)
  \/ MoveLands \/ Lapse
  \/ \E amount \in Asks \cup {ledger} : Prepare(amount)
  \/ \E i \in 1 .. MaxWithdrawals, heard \in BOOLEAN : Submit(i, heard)
  \/ \E i \in 1 .. MaxWithdrawals : RequestMarks(i) \/ WithdrawalLands(i) \/ HeightPasses(i)
  \/ WorkerStep

ExitStep == (\E want \in Asks : Request(want)) \/ WindowPasses \/ Claim \/ Close \/ PassStep \/ Boot

LEMMA NextSteps == Next <=> WithdrawalStep \/ ExitStep \/ Stop
BY Zenon DEF Next, WithdrawalStep, ExitStep, OwnerStep, ChainStep

\* Withdrawals leave exits alone, and exits withdrawals.
LEMMA WithdrawalFrame == WithdrawalStep => UNCHANGED <<exitVars, up, outages>>
BY DEF WithdrawalStep, WorkerStep, Play, MoveLands, Lapse, Prepare, Submit, RequestMarks, WithdrawalLands,
       HeightPasses, WorkerSends, WorkerMarks, WorkerLooksAgain, WorkerExpires, WorkerRetriesLater,
       exitVars, historyVars, serverVars

LEMMA ExitFrame == ExitStep => UNCHANGED <<moves, ws, worker, outages, played>>
BY DEF ExitStep, PassStep, Request, WindowPasses, Claim, Close, Boot, PassReads, PassIngests, PassAbsorbs,
       PassClears, serverVars, exitVars

\* A claim takes no more than is there, and debits no more than it took.
LEMMA PayoutIs ==
  ASSUME TypeOK
  PROVE  Payout \in Nat /\ Payout <= vault
<1>1. exit.want \in Nat /\ vault \in Nat
  BY DEF TypeOK, Exit
<1> QED
  BY <1>1, PurseArguments DEF Payout

LEMMA DebitIs ==
  ASSUME ledger \in Int, NEW took \in Nat
  PROVE  /\ ToDebit(took) \in Nat /\ ToDebit(took) <= took
         /\ took <= ToDebit(took) \/ ledger <= ToDebit(took)
         /\ ledger >= 0 => ledger - ToDebit(took) >= 0
BY DEF ToDebit

\* A pass ends.
LEMMA PassEnds ==
  ASSUME TypeOK, PassDone
  PROVE  /\ pass' \in [at: {"idle", "read", "absorbing"}, read: Exit]
         /\ watched' \in BOOLEAN
BY DEF PassDone, NoPass, NoExit, Exit, TypeOK

LEMMA TypeWithdrawalStep ==
  ASSUME TypeOK, WorkerBusy, WithdrawalStep
  PROVE  TypeOK'
<1> USE DEF TypeOK
<1>0. /\ exit' \in Exit /\ row' \in Row /\ requests' \in Nat
      /\ pass' \in [at: {"idle", "read", "absorbing"}, read: Exit]
      /\ ripe' \in BOOLEAN /\ watched' \in BOOLEAN /\ forgiven' \in Nat
      /\ drained' \subseteq Nat /\ slipped' \subseteq Exit
      /\ up' \in BOOLEAN /\ outages' \in Nat
  BY WithdrawalFrame DEF exitVars, historyVars
<1>a. \A i \in DOMAIN ws : ws[i] \in Withdrawal /\ ws[i].amount \in Nat /\ ws[i].remaining \in Nat
  <2>1. \A i \in DOMAIN ws : ws[i] \in Withdrawal
    OBVIOUS
  <2> QED
    BY <2>1 DEF Withdrawal
<1>1. ASSUME NEW n \in Nets, Play(n) \/ Play(-n) PROVE TypeOK'
  <2>1. n \in Int /\ -n \in Int
    BY PurseArguments
  <2>2. ASSUME NEW m \in Int, Play(m) PROVE TypeOK'
    <3>1. ledger' \in Int /\ moves' \in Seq(Int) /\ played' \in Nat
      BY <2>2 DEF Play
    <3>2. retired' \in {"no", "withdrawn", "broke", "lapsed"}
      BY <2>2 DEF Play
    <3> QED
      BY <1>0, <2>2, <3>1, <3>2 DEF Play
  <2> QED
    BY <1>1, <2>1, <2>2
<1>2. CASE MoveLands
  <2>1. Head(moves) \in Int /\ Tail(moves) \in Seq(Int)
    BY <1>2 DEF MoveLands
  <2> QED
    BY <1>0, <1>2, <2>1 DEF MoveLands, serverVars
<1>3. CASE Lapse
  BY <1>0, <1>3 DEF Lapse, serverVars
<1>4. ASSUME NEW amount \in Asks \cup {ledger}, Prepare(amount) PROVE TypeOK'
  <2>1. ws' \in Seq(Withdrawal)
    BY <1>4, PrepareAppends
  <2> QED
    BY <1>0, <1>4, <2>1 DEF Prepare, serverVars
<1>5. ASSUME NEW i \in 1 .. MaxWithdrawals, NEW heard \in BOOLEAN, Submit(i, heard) PROVE TypeOK'
  <2>1. ws' \in Seq(Withdrawal)
    BY <1>5, SubmitChanges DEF Changes
  <2>2. ledger' \in Int
    BY <1>5, <1>a DEF Submit
  <2> QED
    BY <1>0, <1>5, <2>1, <2>2 DEF Submit, serverVars
<1>6. ASSUME NEW i \in 1 .. MaxWithdrawals, RequestMarks(i) PROVE TypeOK'
  <2>1. ws' \in Seq(Withdrawal)
    BY <1>6, RequestMarksChanges DEF Changes
  <2> QED
    BY <1>0, <1>6, <2>1 DEF RequestMarks, serverVars
<1>7. ASSUME NEW i \in 1 .. MaxWithdrawals, WithdrawalLands(i) PROVE TypeOK'
  <2>1. ws' \in Seq(Withdrawal)
    BY <1>7, LandingChanges DEF Changes, WithdrawalLands
  <2>2. vault' \in Nat
    BY <1>7, <1>a DEF WithdrawalLands, Pays
  <2> QED
    BY <1>0, <1>7, <2>1, <2>2 DEF WithdrawalLands, serverVars
<1>8. ASSUME NEW i \in 1 .. MaxWithdrawals, HeightPasses(i) PROVE TypeOK'
  <2>1. ws' \in Seq(Withdrawal)
    BY <1>8, DyingChanges DEF Changes
  <2> QED
    BY <1>0, <1>8, <2>1 DEF HeightPasses, serverVars
<1>9. ASSUME NEW i \in 1 .. MaxWithdrawals, NEW heard \in BOOLEAN, WorkerSends(i, heard) PROVE TypeOK'
  <2>1. ws' \in Seq(Withdrawal)
    BY <1>9, SendChanges, WorkerMarksChanges DEF Changes, WorkerSends
  <2>2. worker' \in [at: {"idle", "waiting", "asking"}, w: 0 .. MaxWithdrawals]
    BY <1>9, PurseArguments DEF WorkerSends
  <2> QED
    BY <1>0, <1>9, <2>1, <2>2 DEF WorkerSends, serverVars
<1>i. Idle \in [at: {"idle", "waiting", "asking"}, w: 0 .. MaxWithdrawals]
  BY PurseArguments DEF Idle
<1>10. CASE WorkerMarks
  <2>1. ws' \in Seq(Withdrawal)
    BY <1>10, WorkerMarksChanges DEF Changes, WorkerMarks, WorkerBusy
  <2> QED
    BY <1>0, <1>10, <1>i, <2>1 DEF WorkerMarks, serverVars
<1>11. CASE WorkerLooksAgain
  BY <1>0, <1>11 DEF WorkerLooksAgain, serverVars
<1>12. CASE WorkerExpires
  <2>1. worker.at # "idle" /\ worker.w \in DOMAIN ws
    BY <1>12 DEF WorkerExpires, GivenUp, Refused, WorkerBusy
  <2>2. CASE ws[worker.w].status = "submitted"
    <3>1. ws' \in Seq(Withdrawal)
      BY <1>12, <2>1, <2>2, ExpiryChanges DEF Changes, WorkerExpires
    <3>2. ledger' \in Int
      BY <1>12, <1>a, <2>1, <2>2 DEF WorkerExpires, PutBack
    <3>3. retired' \in {"no", "withdrawn", "broke", "lapsed"}
      BY <1>12, <2>2 DEF WorkerExpires, Unretired
    <3> QED
      BY <1>0, <1>12, <1>i, <3>1, <3>2, <3>3 DEF WorkerExpires, serverVars
  <2>3. CASE ws[worker.w].status # "submitted"
    BY <1>0, <1>12, <1>i, <2>3 DEF WorkerExpires, serverVars
  <2> QED
    BY <2>2, <2>3
<1>13. CASE WorkerRetriesLater
  BY <1>0, <1>13, <1>i DEF WorkerRetriesLater, serverVars
<1> QED
  BY <1>1, <1>2, <1>3, <1>4, <1>5, <1>6, <1>7, <1>8, <1>9, <1>10, <1>11, <1>12, <1>13
     DEF WithdrawalStep, WorkerStep

LEMMA TypeExitStep ==
  ASSUME TypeOK, ExitStep \/ Stop
  PROVE  TypeOK'
<1> USE DEF TypeOK
<1>1. ASSUME NEW want \in Asks, Request(want) PROVE TypeOK'
  <2>1. requests' \in Nat /\ want \in Nat
    BY <1>1, PurseArguments DEF Request
  <2>2. exit' = [asked |-> requests', want |-> want, claimed |-> FALSE, took |-> 0]
    BY <1>1 DEF Request, NoExit
  <2>3. exit' \in Exit
    BY <2>1, <2>2 DEF Exit
  <2> QED
    BY <1>1, <2>1, <2>3 DEF Request, serverVars
<1>2. CASE Claim
  <2>0. Payout \in Nat /\ Payout <= vault
    BY PayoutIs
  <2>1. exit' \in Exit /\ vault' \in Nat
    <3>1. exit' = [exit EXCEPT !.claimed = TRUE, !.took = Payout] /\ vault' = vault - Payout
      BY <1>2 DEF Claim
    <3>2. exit' \in Exit
      BY <2>0, <3>1 DEF Exit
    <3> QED
      BY <2>0, <3>1, <3>2
  <2>2. drained' \subseteq Nat
    <3>1. exit.asked \in Nat
      BY DEF Exit
    <3> QED
      BY <1>2, <3>1 DEF Claim
  <2> QED
    BY <1>2, <2>1, <2>2 DEF Claim, serverVars
<1>3. CASE Close
  <2>1. exit' \in Exit /\ slipped' \subseteq Exit
    BY <1>3 DEF Close, NoExit, Exit
  <2> QED
    BY <1>3, <2>1 DEF Close, serverVars
<1>4. CASE PassReads
  BY <1>4 DEF PassReads, serverVars, historyVars
<1>5. CASE PassIngests
  <2>1. pass.read \in Exit
    OBVIOUS
  <2>2. row' \in Row
    <3>1. CASE IsNew(pass.read)
      BY <1>5, <2>1, <3>1 DEF PassIngests, Row, Exit
    <3>2. CASE ~IsNew(pass.read)
      BY <1>5, <3>2 DEF PassIngests, Row
    <3> QED
      BY <3>1, <3>2
  <2>3. /\ pass' \in [at: {"idle", "read", "absorbing"}, read: Exit]
        /\ watched' \in BOOLEAN
    BY <1>5, PassEnds DEF PassIngests
  <2> QED
    BY <1>5, <2>2, <2>3 DEF PassIngests, serverVars
<1>6. CASE PassAbsorbs
  <2>1. pass.read.took \in Nat
    BY DEF Exit
  <2>2. ledger' \in Int /\ forgiven' \in Nat
    BY <1>6, <2>1, DebitIs DEF PassAbsorbs
  <2>3. row' \in Row
    BY <1>6 DEF PassAbsorbs, Row
  <2>4. /\ pass' \in [at: {"idle", "read", "absorbing"}, read: Exit]
        /\ watched' \in BOOLEAN
    BY <1>6, PassEnds DEF PassAbsorbs
  <2>5. slipped' \subseteq Exit /\ drained' \subseteq Nat
    BY <1>6 DEF PassAbsorbs
  <2> QED
    BY <1>6, <2>2, <2>3, <2>4, <2>5 DEF PassAbsorbs, serverVars
<1>7. CASE PassClears
  <2>1. row' \in Row
    BY <1>7 DEF PassClears, NoRow, Row
  <2>2. /\ pass' \in [at: {"idle", "read", "absorbing"}, read: Exit]
        /\ watched' \in BOOLEAN
    BY <1>7, PassEnds DEF PassClears
  <2> QED
    BY <1>7, <2>1, <2>2 DEF PassClears, serverVars
<1>8. CASE Boot
  BY <1>8 DEF Boot, exitVars, historyVars
<1>9. CASE WindowPasses
  BY <1>9 DEF WindowPasses, serverVars, historyVars
<1>10. CASE Stop
  <2>1. ws' \in Seq(Withdrawal)
    BY <1>10, AllChangeBy DEF AllChange
  <2>3. outages' \in Nat
    BY <1>10 DEF Stop
  <2>2. /\ worker' \in [at: {"idle", "waiting", "asking"}, w: 0 .. MaxWithdrawals]
        /\ pass' \in [at: {"idle", "read", "absorbing"}, read: Exit]
    BY <1>10, PurseArguments DEF Stop, Idle, NoPass, NoExit, Exit
  <2> QED
    BY <1>10, <2>1, <2>2, <2>3 DEF Stop, historyVars
<1> QED
  BY <1>1, <1>2, <1>3, <1>4, <1>5, <1>6, <1>7, <1>8, <1>9, <1>10 DEF ExitStep, PassStep
-----------------------------------------------------------------------------
(* Withdrawals.                                                            *)

\* One changes, to something that may follow it.
LEMMA KeptByOne ==
  ASSUME WithdrawalsKept, NEW i, NEW w, Changes(i, w), Kept(w),
         w.status = "prepared" => ws[i].status = "prepared"
  PROVE  /\ WithdrawalsKept'
         /\ \A j \in DOMAIN ws : j \in DOMAIN ws' /\ (ws[j].status # "prepared" => ws'[j].status # "prepared")
<1>1. \A j \in DOMAIN ws : Kept(ws'[j])
  BY DEF WithdrawalsKept, Changes
<1> QED
  BY <1>1 DEF WithdrawalsKept, Changes

LEMMA MarkedIsKept ==
  ASSUME NEW w \in Withdrawal, Kept(w), w.status # "prepared", w.fate = "landed"
  PROVE  /\ Kept(MarkedAs(w)) /\ MarkedAs(w).status # "prepared" /\ MarkedAs(w).fate = "landed"
         /\ MarkedAs(w).status = "expired" <=> w.status = "expired"
         /\ MarkedAs(w).status # "submitted"
BY DEF Withdrawal, Kept, MarkedAs, MarkedStatus

LEMMA WithdrawalsStep ==
  ASSUME TypeOK, WithdrawalsKept, WorkerBusy, WithdrawalStep
  PROVE  WithdrawalsKept' /\ WorkerBusy'
<1>a. \A i \in DOMAIN ws : ws[i] \in Withdrawal /\ Kept(ws[i])
  <2>1. \A i \in DOMAIN ws : ws[i] \in Withdrawal
    BY DEF TypeOK
  <2> QED
    BY <2>1 DEF WithdrawalsKept
<1>1. CASE UNCHANGED <<ws, worker>>
  BY <1>1 DEF WithdrawalsKept, WorkerBusy
<1>2. ASSUME NEW amount \in Asks \cup {ledger}, Prepare(amount) PROVE WithdrawalsKept' /\ WorkerBusy'
  <2>1. /\ DOMAIN ws' = DOMAIN ws \cup {Len(ws) + 1}
        /\ ws'[Len(ws) + 1] = Prepared(amount) /\ \A i \in DOMAIN ws : ws'[i] = ws[i]
    BY <1>2, PrepareAppends
  <2>2. Kept(Prepared(amount))
    BY DEF Kept, Prepared
  <2>3. worker' = worker
    BY <1>2 DEF Prepare
  <2> QED
    BY <2>1, <2>2, <2>3, Zenon DEF WithdrawalsKept, WorkerBusy
<1>3. ASSUME NEW i \in DOMAIN ws, NEW w, Changes(i, w), Kept(w), w.status # "prepared",
             worker' = worker \/ worker' = Idle \/ worker'.w = i
      PROVE  WithdrawalsKept' /\ WorkerBusy'
  <2>1. WithdrawalsKept'
    BY <1>3, KeptByOne
  <2>2. ws'[i].status # "prepared" /\ i \in DOMAIN ws' /\ Idle.at = "idle"
    BY <1>3 DEF Changes, Idle
  <2>3. WorkerBusy'
    BY <1>3, <2>2, KeptByOne DEF WorkerBusy
  <2> QED
    BY <2>1, <2>3
<1>4. ASSUME NEW i \in 1 .. MaxWithdrawals, NEW heard \in BOOLEAN, Submit(i, heard)
      PROVE  WithdrawalsKept' /\ WorkerBusy'
  <2> DEFINE w == [ws[i] EXCEPT !.status = "submitted", !.op = "pending", !.sent = heard,
                                !.replying = ws[i].fate = "live"]
  <2>1. i \in DOMAIN ws /\ Changes(i, w) /\ worker' = worker
    BY <1>4, SubmitChanges DEF Submit
  <2>2. Kept(w) /\ w.status # "prepared"
    BY <1>a, <2>1 DEF Withdrawal, Kept
  <2> QED
    BY <1>3, <2>1, <2>2
<1>5. ASSUME NEW i \in 1 .. MaxWithdrawals, RequestMarks(i) PROVE WithdrawalsKept' /\ WorkerBusy'
  <2> DEFINE m == MarkedAs(ws[i])
             w == [m EXCEPT !.replying = FALSE]
  <2>1. i \in DOMAIN ws /\ Changes(i, w) /\ worker' = worker
    BY <1>5, RequestMarksChanges DEF RequestMarks
  <2>2. ws[i].status # "prepared" /\ ws[i].fate = "landed"
    BY <1>5, <1>a, <2>1 DEF RequestMarks, Kept
  <2>3. m \in Withdrawal /\ Kept(m) /\ m.status # "prepared"
    BY <1>a, <2>1, <2>2, MarkedIsKept, MarkedIs DEF TypeOK
  <2> HIDE DEF m
  <2>4. Kept(w) /\ w.status # "prepared"
    BY <2>3 DEF Kept, Withdrawal
  <2> QED
    BY <1>3, <2>1, <2>4
<1>6. ASSUME NEW i \in DOMAIN ws, ws[i].status # "prepared", ws[i].fate = "landed", ws' = Marked(i),
             worker' = worker \/ worker' = Idle
      PROVE  WithdrawalsKept' /\ WorkerBusy'
  BY <1>3, <1>6, <1>a, WorkerMarksChanges, MarkedIsKept
<1>7. ASSUME NEW i \in 1 .. MaxWithdrawals, WithdrawalLands(i) PROVE WithdrawalsKept' /\ WorkerBusy'
  <2> DEFINE w == [ws[i] EXCEPT !.fate = "landed"]
  <2>1. i \in DOMAIN ws /\ Changes(i, w) /\ worker' = worker /\ ws[i].sent
    BY <1>7, LandingChanges DEF WithdrawalLands
  <2>2. Kept(w) /\ w.status # "prepared"
    BY <1>a, <2>1 DEF Withdrawal, Kept
  <2> QED
    BY <1>3, <2>1, <2>2
<1>8. ASSUME NEW i \in 1 .. MaxWithdrawals, HeightPasses(i) PROVE WithdrawalsKept' /\ WorkerBusy'
  <2> DEFINE w == Dead(ws[i])
  <2>1. i \in DOMAIN ws /\ Changes(i, w) /\ worker' = worker /\ ws[i].fate = "live"
    BY <1>8, DyingChanges DEF HeightPasses
  <2>2. Kept(w) /\ w.status = ws[i].status
    BY <1>a, <2>1 DEF Dead, Withdrawal, Kept
  <2> QED
    BY <2>1, <2>2, KeptByOne DEF WorkerBusy
<1>9. ASSUME NEW i \in 1 .. MaxWithdrawals, NEW heard \in BOOLEAN, WorkerSends(i, heard)
      PROVE  WithdrawalsKept' /\ WorkerBusy'
  <2>1. i \in DOMAIN ws /\ ws[i].status = "submitted"
    BY <1>9, <1>a DEF WorkerSends, Kept
  <2>2. CASE ws[i].fate = "landed"
    BY <1>6, <1>9, <2>1, <2>2 DEF WorkerSends
  <2>3. CASE ws[i].fate # "landed"
    <3> DEFINE w == [ws[i] EXCEPT !.sent = @ \/ heard]
    <3>1. Changes(i, w) /\ worker'.w = i
      BY <1>9, <2>1, <2>3, SendChanges DEF WorkerSends
    <3>2. Kept(w) /\ w.status # "prepared"
      BY <1>a, <2>1 DEF Withdrawal, Kept
    <3> QED
      BY <1>3, <2>1, <3>1, <3>2
  <2> QED
    BY <2>2, <2>3
<1>10. CASE WorkerMarks
  BY <1>6, <1>10 DEF WorkerMarks, WorkerBusy
<1>11. CASE WorkerLooksAgain
  <2>1. worker.at # "idle" /\ ws' = ws /\ worker'.w = worker.w
    BY <1>11 DEF WorkerLooksAgain, TypeOK
  <2> QED
    BY <2>1 DEF WithdrawalsKept, WorkerBusy
<1>12. CASE WorkerExpires
  <2>1. worker.at # "idle" /\ worker.w \in DOMAIN ws /\ worker' = Idle
    BY <1>12 DEF WorkerExpires, GivenUp, Refused, WorkerBusy
  <2>2. CASE ws[worker.w].status = "submitted"
    <3> DEFINE w == [ws[worker.w] EXCEPT !.status = "expired", !.op = "failed"]
    <3>1. Changes(worker.w, w)
      BY <1>12, <2>1, <2>2, ExpiryChanges DEF WorkerExpires
    <3>2. Kept(w) /\ w.status # "prepared"
      BY <1>a, <2>1 DEF Withdrawal, Kept
    <3> QED
      BY <1>3, <2>1, <3>1, <3>2
  <2>3. CASE ws[worker.w].status # "submitted"
    BY <1>12, <2>1, <2>3 DEF WorkerExpires, WithdrawalsKept, WorkerBusy, Idle
  <2> QED
    BY <2>2, <2>3
<1>13. CASE WorkerRetriesLater
  BY <1>13 DEF WorkerRetriesLater, WithdrawalsKept, WorkerBusy, Idle
<1>14. CASE (\E n \in Nets : Play(n) \/ Play(-n)) \/ MoveLands \/ Lapse
  BY <1>1, <1>14 DEF Play, MoveLands, Lapse
<1> QED
  BY <1>2, <1>4, <1>5, <1>7, <1>8, <1>9, <1>10, <1>11, <1>12, <1>13, <1>14
     DEF WithdrawalStep, WorkerStep

LEMMA WithdrawalsAged ==
  ASSUME TypeOK, WithdrawalsKept, WorkerBusy, ExitStep \/ Stop
  PROVE  WithdrawalsKept' /\ WorkerBusy'
<1>1. CASE ExitStep
  BY <1>1, ExitFrame DEF WithdrawalsKept, WorkerBusy
<1>2. CASE Stop
  <2>1. AllChange
    BY <1>2, AllChangeBy
  <2>2. worker' = Idle
    BY <1>2 DEF Stop
  <2>3. WithdrawalsKept'
    BY <2>1 DEF AllChange, WithdrawalsKept, Kept
  <2>4. WorkerBusy'
    BY <2>1, <2>2 DEF AllChange, WorkerBusy, Idle
  <2> QED
    BY <2>3, <2>4
<1> QED
  BY <1>1, <1>2
-----------------------------------------------------------------------------
(* Exits, and what the watcher knows of them.                              *)

LEMMA ExitInit == Init => ExitInv /\ DrainedKnown
<1> SUFFICES ASSUME Init PROVE ExitInv /\ DrainedKnown
  OBVIOUS
<1>1. SlippedClaims
  BY FS_EmptySet DEF Init, SlippedClaims
<1> QED
  BY <1>1 DEF Init, ExitInv, Named, RipeIsThere, ClaimsKnown, OnePass, DrainedKnown, NoExit, NoRow, NoPass

LEMMA ExitUnchanged ==
  ASSUME ExitInv, UNCHANGED <<exit, ripe, requests, row, pass, watched, slipped, up>>
  PROVE  ExitInv'
BY DEF ExitInv, Named, SlippedClaims, RipeIsThere, ClaimsKnown, OnePass, FrozenByClaim, IsAbsorbed, Absorbed, IsNew

\* What the steps below use of the invariant, its types and its constants.
LEMMA ExitFacts ==
  ASSUME TypeOK, ExitInv
  PROVE  /\ requests \in Nat /\ exit.asked \in Nat /\ row.asked \in Nat /\ pass.read.asked \in Nat
         /\ exit.asked <= requests /\ row.asked <= requests /\ pass.read.asked <= requests
         /\ exit.asked # 0 <=> exit # NoExit
         /\ exit.claimed => exit # NoExit
         /\ pass.read.claimed => pass.read.asked # 0
         /\ row.asked = 0 => ~row.claimed
         /\ row.ingested => row.claimed
         /\ NoPass.read = NoExit /\ NoPass.at = "idle" /\ NoExit.asked = 0 /\ ~NoExit.claimed
         /\ NoRow.asked = 0 /\ ~NoRow.claimed /\ ~NoRow.ingested
<1>1. exit \in Exit /\ row \in Row /\ pass.read \in Exit /\ requests \in Nat
  BY DEF TypeOK
<1>2. /\ NoPass.read = NoExit /\ NoPass.at = "idle" /\ NoExit.asked = 0 /\ ~NoExit.claimed
      /\ NoRow.asked = 0 /\ ~NoRow.claimed /\ ~NoRow.ingested
  BY DEF NoPass, NoExit, NoRow
<1>3. exit.asked \in Nat /\ row.asked \in Nat /\ pass.read.asked \in Nat
  BY <1>1 DEF Exit, Row
<1> QED
  BY <1>1, <1>2, <1>3 DEF ExitInv, Named

\* A request has a name nobody knows.
LEMMA ExitRequest ==
  ASSUME TypeOK, ExitInv, NEW want \in Asks, Request(want)
  PROVE  ExitInv'
<1>1. /\ exit = NoExit /\ requests' = requests + 1 /\ ~watched'
      /\ exit' = [NoExit EXCEPT !.asked = requests + 1, !.want = want]
      /\ row' = row /\ pass' = pass /\ up' = up /\ slipped' = slipped
  BY DEF Request, serverVars
<1>2. exit'.asked = requests + 1 /\ ~exit'.claimed /\ exit.asked = 0
  BY <1>1 DEF NoExit
<1>3. /\ requests \in Nat /\ row.asked \in Nat /\ pass.read.asked \in Nat
      /\ row.asked <= requests /\ pass.read.asked <= requests
  BY ExitFacts
<1>4. /\ exit'.asked # 0 /\ row.asked # exit'.asked /\ pass.read.asked # exit'.asked
      /\ exit'.asked <= requests' /\ row.asked <= requests' /\ pass.read.asked <= requests'
  BY <1>1, <1>2, <1>3
<1>5. Named' /\ RipeIsThere'
  <2>1. ~ripe'
    BY DEF Request
  <2> QED
    BY <1>1, <1>4, <2>1 DEF ExitInv, Named, RipeIsThere
<1>6. SlippedClaims'
  <2>1. \A e \in slipped : e.asked \in Nat /\ e.asked <= requests
    BY DEF TypeOK, Exit, ExitInv, SlippedClaims
  <2> QED
    BY <1>1, <1>2, <1>3, <2>1 DEF ExitInv, SlippedClaims
<1>7. ClaimsKnown'
  BY <1>1, <1>2, <1>4 DEF ClaimsKnown
<1>8. pass.at # "idle" /\ pass.read.claimed => Absorbed(pass.read) \/ pass.read \in slipped
  BY <1>2, ExitFacts DEF ExitInv, OnePass
<1>9. pass.at = "absorbing" => pass.read \in slipped
  BY <1>1, ExitFacts DEF ExitInv, OnePass
<1>10. OnePass'
  BY <1>1, <1>4, <1>8, <1>9 DEF ExitInv, OnePass, Absorbed, IsNew, FrozenByClaim
<1> QED
  BY <1>5, <1>6, <1>7, <1>10 DEF ExitInv

LEMMA ExitClaim ==
  ASSUME TypeOK, ExitInv, Claim
  PROVE  ExitInv'
<1>1. /\ ripe /\ ~exit.claimed /\ ~watched' /\ exit' = [exit EXCEPT !.claimed = TRUE, !.took = Payout]
      /\ row' = row /\ pass' = pass /\ up' = up /\ requests' = requests /\ slipped' = slipped
      /\ exit # NoExit /\ ~ripe'
  BY DEF Claim, serverVars, NoExit, ExitInv, RipeIsThere
<1>2. exit'.asked = exit.asked /\ exit'.claimed
  BY <1>1 DEF TypeOK, Exit
<1>3. exit.asked # 0 /\ exit'.asked # 0
  BY <1>1, <1>2, ExitFacts
<1>4. ~IsAbsorbed /\ ~(row.claimed /\ row.asked = exit.asked)
  BY <1>1 DEF ExitInv, ClaimsKnown, IsAbsorbed
<1>5. Named'
  BY <1>1, <1>2, <1>3 DEF ExitInv, Named
<1>6. SlippedClaims'
  BY <1>1, <1>2 DEF ExitInv, SlippedClaims
<1>7. ClaimsKnown'
  BY <1>1, <1>2, <1>4 DEF ClaimsKnown, IsAbsorbed
<1>8. pass.at # "idle" /\ pass.read.claimed => pass.read.asked # exit.asked
  BY <1>1 DEF ExitInv, OnePass
<1>9. pass.at = "absorbing" => pass.read \in slipped
  BY <1>1 DEF ExitInv, OnePass
<1>10. OnePass'
  BY <1>1, <1>2, <1>8, <1>9 DEF ExitInv, OnePass, Absorbed, IsNew, FrozenByClaim
<1> QED
  BY <1>1, <1>5, <1>6, <1>7, <1>10 DEF ExitInv, RipeIsThere

\* A claim closed before it was watched slips: a pass that has read it may still
\* take it off the ledger.
LEMMA ExitClose ==
  ASSUME TypeOK, ExitInv, Close
  PROVE  ExitInv'
<1>1. /\ exit # NoExit /\ exit' = NoExit /\ ~watched' /\ ~ripe'
      /\ slipped' = IF exit.claimed /\ ~watched THEN slipped \cup {exit} ELSE slipped
      /\ row' = row /\ pass' = pass /\ up' = up /\ requests' = requests
  BY DEF Close, serverVars
<1>2. exit'.asked = 0 /\ ~exit'.claimed /\ exit.asked # 0 /\ exit.asked <= requests /\ 0 <= requests
  BY <1>1, ExitFacts
<1>3. exit.claimed => exit \in slipped' \/ IsAbsorbed
  BY <1>1 DEF ExitInv, ClaimsKnown
<1>4. slipped \subseteq slipped'
  BY <1>1
<1>5. Named'
  BY <1>1, <1>2 DEF ExitInv, Named
<1>6. SlippedClaims'
  <2>1. IsFiniteSet(slipped')
    BY <1>1, FS_AddElement DEF ExitInv, SlippedClaims
  <2>2. \A e \in slipped' : e \in slipped \/ (e = exit /\ exit.claimed)
    BY <1>1
  <2> QED
    BY <1>1, <1>2, <2>1, <2>2 DEF ExitInv, SlippedClaims
<1>7. ClaimsKnown'
  BY <1>1, <1>2, ExitFacts DEF ClaimsKnown
<1>8. pass.at # "idle" /\ pass.read.claimed => Absorbed(pass.read) \/ pass.read \in slipped'
  <2>1. CASE pass.read.asked = exit.asked
    BY <1>3, <2>1 DEF ExitInv, OnePass, Absorbed, IsNew, IsAbsorbed
  <2>2. CASE pass.read.asked # exit.asked
    BY <1>4, <2>2 DEF ExitInv, OnePass
  <2> QED
    BY <2>1, <2>2
<1>9. pass.at = "absorbing" => pass.read \in slipped'
  BY <1>3, <1>4 DEF ExitInv, OnePass, FrozenByClaim, IsAbsorbed
<1>10. pass.read.claimed => pass.read.asked # 0
  BY ExitFacts
<1>11. OnePass'
  BY <1>1, <1>2, <1>8, <1>9, <1>10 DEF ExitInv, OnePass, Absorbed, IsNew, FrozenByClaim
<1> QED
  BY <1>1, <1>5, <1>6, <1>7, <1>11 DEF ExitInv, RipeIsThere

LEMMA ExitRead ==
  ASSUME TypeOK, ExitInv, PassReads
  PROVE  ExitInv'
<1>1. /\ up /\ pass'.at = "read" /\ pass'.read = exit
      /\ UNCHANGED <<exit, ripe, row, requests, watched, slipped, up>>
  BY DEF PassReads, serverVars, historyVars
<1>2. Named' /\ SlippedClaims' /\ ClaimsKnown' /\ RipeIsThere'
  BY <1>1 DEF ExitInv, Named, SlippedClaims, ClaimsKnown, IsAbsorbed, RipeIsThere
<1>3. OnePass'
  BY <1>1 DEF OnePass
<1> QED
  BY <1>2, <1>3 DEF ExitInv

\* A claim the row does not say is absorbed was read of the exit there is, or
\* has slipped.
LEMMA ReadClaim ==
  ASSUME TypeOK, ExitInv, pass.at = "read", pass.read.claimed, ~Absorbed(pass.read)
  PROVE  pass.read = exit \/ pass.read \in slipped
BY DEF ExitInv, OnePass

LEMMA IngestIs ==
  ASSUME TypeOK, ExitInv, PassIngests
  PROVE  LET e == pass.read IN
         /\ pass.at = "read" /\ e # NoExit /\ e.asked # 0 /\ up
         /\ UNCHANGED <<exit, ripe, requests, slipped, drained, up>>
         /\ \/ IsNew(e) /\ row'.asked = e.asked /\ (row'.claimed <=> e.claimed) /\ ~row'.ingested
            \/ ~IsNew(e) /\ e.claimed /\ ~row.claimed /\ row'.asked = row.asked /\ row'.claimed /\ ~row'.ingested
            \/ ~IsNew(e) /\ row' = row /\ (e.claimed => row.claimed)
         /\ \/ /\ e.claimed /\ ~Absorbed(e) /\ (e = exit \/ e \in slipped)
               /\ pass'.at = "absorbing" /\ pass'.read = e /\ watched' = watched
            \/ ~(e.claimed /\ ~Absorbed(e)) /\ PassDone
<1> DEFINE e == pass.read
<1>1. /\ pass.at = "read" /\ e # NoExit /\ e.asked # 0 /\ up
      /\ UNCHANGED <<exit, ripe, requests, slipped, drained, up>>
  BY DEF PassIngests, serverVars, ExitInv, OnePass, Named
<1>2. \/ IsNew(e) /\ row'.asked = e.asked /\ (row'.claimed <=> e.claimed) /\ ~row'.ingested
      \/ ~IsNew(e) /\ e.claimed /\ ~row.claimed /\ row'.asked = row.asked /\ row'.claimed /\ ~row'.ingested
      \/ ~IsNew(e) /\ row' = row /\ (e.claimed => row.claimed)
  <2>1. CASE IsNew(e)
    <3>1. row' = [asked |-> e.asked, claimed |-> e.claimed, ingested |-> FALSE]
      BY <2>1 DEF PassIngests
    <3> QED
      BY <2>1, <3>1
  <2>2. CASE ~IsNew(e) /\ e.claimed /\ ~row.claimed
    <3>1. row' = [row EXCEPT !.claimed = TRUE, !.ingested = FALSE]
      BY <2>2 DEF PassIngests
    <3> QED
      BY <2>2, <3>1 DEF TypeOK, Row
  <2>3. CASE ~IsNew(e) /\ ~(e.claimed /\ ~row.claimed)
    <3>1. row' = row
      BY <2>3 DEF PassIngests
    <3> QED
      BY <2>3, <3>1
  <2> QED
    BY <2>1, <2>2, <2>3
<1>3. \/ e.claimed /\ ~Absorbed(e) /\ pass' = [pass EXCEPT !.at = "absorbing"] /\ watched' = watched
      \/ ~(e.claimed /\ ~Absorbed(e)) /\ PassDone
  BY DEF PassIngests
<1>4. e.claimed /\ ~Absorbed(e) => e = exit \/ e \in slipped
  BY <1>1, ReadClaim
<1>5. pass' = [pass EXCEPT !.at = "absorbing"] => pass'.at = "absorbing" /\ pass'.read = e
  BY DEF TypeOK
<1> QED
  BY <1>1, <1>2, <1>3, <1>4, <1>5

LEMMA ExitIngest ==
  ASSUME TypeOK, ExitInv, PassIngests
  PROVE  ExitInv'
<1> DEFINE e == pass.read
<1>1. /\ pass.at = "read" /\ e # NoExit /\ e.asked # 0 /\ up
      /\ UNCHANGED <<exit, ripe, requests, slipped, up>>
      /\ \/ IsNew(e) /\ row'.asked = e.asked /\ (row'.claimed <=> e.claimed) /\ ~row'.ingested
         \/ ~IsNew(e) /\ e.claimed /\ ~row.claimed /\ row'.asked = row.asked /\ row'.claimed /\ ~row'.ingested
         \/ ~IsNew(e) /\ row' = row /\ (e.claimed => row.claimed)
      /\ \/ /\ e.claimed /\ ~Absorbed(e) /\ (e = exit \/ e \in slipped)
            /\ pass'.at = "absorbing" /\ pass'.read = e /\ watched' = watched
         \/ ~(e.claimed /\ ~Absorbed(e)) /\ PassDone
  BY IngestIs
<1>2. /\ exit # NoExit /\ e # exit => ~watched
      /\ e.claimed /\ e.asked = exit.asked => e = exit
  BY <1>1 DEF ExitInv, OnePass
<1>3. /\ row.claimed /\ row.asked = exit.asked => exit.claimed
      /\ watched /\ exit # NoExit => row.asked = exit.asked
      /\ exit.claimed => (watched <=> IsAbsorbed)
      /\ exit.claimed => exit # NoExit
      /\ row.ingested => row.claimed
  BY ExitFacts DEF ExitInv, ClaimsKnown
<1>4. row'.asked = e.asked /\ (e.claimed => row'.claimed)
  BY <1>1 DEF IsNew
<1>5. e.asked <= requests /\ row'.asked # 0 /\ row'.asked <= requests /\ (row'.ingested => row'.claimed)
  BY <1>1, <1>4, ExitFacts
<1>6. pass' = NoPass \/ pass'.read = e
  BY <1>1 DEF PassDone
<1>7. Named'
  <2>1. 0 <= requests
    BY ExitFacts
  <2> QED
    BY <1>1, <1>5, <1>6, <2>1, ExitFacts DEF ExitInv, Named
<1>8. SlippedClaims' /\ RipeIsThere'
  BY <1>1 DEF ExitInv, SlippedClaims, RipeIsThere
<1>9. row'.claimed /\ row'.asked = exit.asked => exit.claimed
  BY <1>1, <1>2, <1>3, <1>4 DEF IsNew
<1>10. watched' /\ exit # NoExit => row'.asked = exit.asked
  BY <1>1, <1>2, <1>3, <1>4 DEF PassDone
<1>11. exit.claimed => (watched' <=> row'.asked = exit.asked /\ row'.claimed /\ row'.ingested)
  <2> SUFFICES ASSUME exit.claimed
               PROVE  watched' <=> row'.asked = exit.asked /\ row'.claimed /\ row'.ingested
    OBVIOUS
  <2>1. CASE e = exit
    <3>1. Absorbed(e) <=> IsAbsorbed
      BY <2>1 DEF Absorbed, IsNew, IsAbsorbed
    <3>2. CASE Absorbed(e)
      BY <1>1, <2>1, <3>2 DEF Absorbed, PassDone, IsNew
    <3>3. CASE ~Absorbed(e)
      <4>1. watched' = watched /\ ~watched
        BY <1>1, <1>3, <2>1, <3>1, <3>3
      <4>2. ~row'.ingested
        BY <1>1, <1>3, <2>1, <3>3 DEF Absorbed
      <4> QED
        BY <4>1, <4>2
    <3> QED
      BY <3>2, <3>3
  <2>2. CASE e # exit
    <3>1. ~watched /\ ~IsAbsorbed
      BY <1>2, <1>3, <2>2
    <3>2. ~watched'
      BY <1>1, <2>2, <3>1 DEF PassDone
    <3>3. ~(row'.asked = exit.asked /\ row'.claimed /\ row'.ingested)
      BY <1>1, <3>1 DEF IsAbsorbed
    <3> QED
      BY <3>2, <3>3
  <2> QED
    BY <2>1, <2>2
<1>12. ClaimsKnown'
  BY <1>1, <1>9, <1>10, <1>11 DEF ClaimsKnown, IsAbsorbed
<1>13. OnePass'
  <2>1. CASE e.claimed /\ ~Absorbed(e)
    <3>1. row'.claimed /\ ~row'.ingested
      BY <1>1, <1>3, <2>1 DEF Absorbed
    <3>2. pass'.at = "absorbing" /\ pass'.read = e /\ (e = exit \/ e \in slipped) /\ watched' = watched
      BY <1>1, <2>1
    <3> QED
      BY <1>1, <1>2, <1>4, <2>1, <3>1, <3>2 DEF OnePass, FrozenByClaim
  <2>2. CASE ~(e.claimed /\ ~Absorbed(e))
    <3>1. pass' = NoPass /\ NoPass.at = "idle"
      BY <1>1, <2>2, ExitFacts DEF PassDone
    <3> QED
      BY <3>1 DEF OnePass, NoPass
  <2> QED
    BY <2>1, <2>2
<1> QED
  BY <1>7, <1>8, <1>12, <1>13 DEF ExitInv

LEMMA AbsorbIs ==
  ASSUME TypeOK, ExitInv, PassAbsorbs
  PROVE  LET e == pass.read IN
         /\ e.claimed /\ row.asked = e.asked /\ FrozenByClaim
         /\ \/ e = exit /\ exit \notin slipped /\ slipped' = slipped
            \/ e \in slipped /\ e.asked # exit.asked /\ slipped' = slipped \ {e}
         /\ ledger' = ledger - ToDebit(e.took) /\ forgiven' = forgiven + e.took - ToDebit(e.took)
         /\ retired' = IF ledger' <= 0 /\ retired = "no" THEN "withdrawn" ELSE retired
         /\ row'.asked = row.asked /\ row'.claimed /\ row'.ingested /\ drained' = drained \ {e.asked}
         /\ PassDone /\ UNCHANGED <<vault, moves, ws, exit, ripe, worker, requests, up>>
<1> DEFINE e == pass.read
<1>1. e.claimed /\ row.asked = e.asked /\ FrozenByClaim /\ (e = exit \/ e \in slipped)
  BY DEF PassAbsorbs, ExitInv, OnePass
<1>2. row' = [row EXCEPT !.claimed = TRUE, !.ingested = TRUE] /\ slipped' = slipped \ {e}
  BY <1>1 DEF PassAbsorbs, FrozenByClaim
<1>3. row'.asked = row.asked /\ row'.claimed /\ row'.ingested
  BY <1>2 DEF TypeOK, Row
<1>4. exit \notin slipped /\ (e \in slipped => e.asked # exit.asked)
  BY DEF ExitInv, SlippedClaims
<1> QED
  BY <1>1, <1>2, <1>3, <1>4 DEF PassAbsorbs, FrozenByClaim, serverVars

LEMMA ExitAbsorb ==
  ASSUME TypeOK, ExitInv, PassAbsorbs
  PROVE  ExitInv'
<1> DEFINE e == pass.read
<1>1. /\ e.claimed /\ row.asked = e.asked /\ FrozenByClaim
      /\ \/ e = exit /\ exit \notin slipped /\ slipped' = slipped
         \/ e \in slipped /\ e.asked # exit.asked /\ slipped' = slipped \ {e}
      /\ row'.asked = row.asked /\ row'.claimed /\ row'.ingested
      /\ PassDone /\ UNCHANGED <<exit, ripe, requests, up>>
  BY AbsorbIs
<1>2. NoPass.read = NoExit /\ NoExit.asked = 0 /\ 0 <= requests /\ NoPass.at = "idle"
  BY ExitFacts
<1>3. row.asked # 0 /\ pass' = NoPass /\ watched' = (watched \/ e = exit)
  BY <1>1, ExitFacts DEF PassDone
<1>4. Named' /\ RipeIsThere'
  BY <1>1, <1>2, <1>3 DEF ExitInv, Named, RipeIsThere
<1>5. SlippedClaims'
  <2>1. IsFiniteSet(slipped')
    BY <1>1, FS_Subset DEF ExitInv, SlippedClaims
  <2> QED
    BY <1>1, <2>1 DEF ExitInv, SlippedClaims
<1>6. CASE e = exit
  <2>1. ClaimsKnown'
    BY <1>1, <1>3, <1>6 DEF ClaimsKnown, IsAbsorbed
  <2>2. OnePass'
    BY <1>2, <1>3 DEF OnePass
  <2> QED
    BY <1>4, <1>5, <2>1, <2>2 DEF ExitInv
<1>7. CASE e # exit
  <2>1. row'.asked # exit.asked
    BY <1>1, <1>7
  <2>2. exit # NoExit => ~watched
    BY <1>7 DEF PassAbsorbs, ExitInv, OnePass
  <2>3. exit.claimed => exit # NoExit
    BY ExitFacts
  <2>4. ClaimsKnown'
    BY <1>1, <1>3, <1>7, <2>1, <2>2, <2>3 DEF ClaimsKnown, IsAbsorbed
  <2>5. OnePass'
    BY <1>2, <1>3 DEF OnePass
  <2> QED
    BY <1>4, <1>5, <2>4, <2>5 DEF ExitInv
<1> QED
  BY <1>6, <1>7

LEMMA ExitClear ==
  ASSUME TypeOK, ExitInv, PassClears
  PROVE  ExitInv'
<1>1. /\ pass.at = "read" /\ pass.read = NoExit /\ pass' = NoPass
      /\ UNCHANGED <<exit, ripe, requests, slipped, up>>
      /\ watched' = (watched \/ NoExit = exit)
      /\ row' = row \/ row' = NoRow
  BY DEF PassClears, PassDone, serverVars
<1>2. /\ NoPass.read = NoExit /\ NoExit.asked = 0 /\ 0 <= requests /\ NoPass.at = "idle"
      /\ NoRow.asked = 0 /\ ~NoRow.claimed /\ ~NoRow.ingested
  BY ExitFacts
<1>3. /\ exit # NoExit => ~watched /\ exit.asked # 0
      /\ exit.claimed => exit # NoExit
  BY <1>1, ExitFacts DEF ExitInv, OnePass
<1>4. Named' /\ SlippedClaims' /\ RipeIsThere'
  BY <1>1, <1>2 DEF ExitInv, Named, SlippedClaims, RipeIsThere
<1>5. ClaimsKnown'
  BY <1>1, <1>2, <1>3 DEF ExitInv, ClaimsKnown, IsAbsorbed
<1>6. OnePass'
  BY <1>1, <1>2 DEF OnePass
<1> QED
  BY <1>4, <1>5, <1>6 DEF ExitInv

LEMMA ExitBoot ==
  ASSUME TypeOK, ExitInv, Boot
  PROVE  ExitInv'
<1>1. pass = NoPass /\ NoPass.at = "idle" /\ UNCHANGED <<exit, ripe, requests, row, pass, watched, slipped>>
  BY DEF Boot, ExitInv, OnePass, NoPass, exitVars, historyVars
<1> QED
  BY <1>1 DEF ExitInv, Named, SlippedClaims, ClaimsKnown, OnePass, FrozenByClaim, IsAbsorbed, RipeIsThere

LEMMA ExitRipens ==
  ASSUME TypeOK, ExitInv, WindowPasses
  PROVE  ExitInv'
<1>1. exit # NoExit /\ UNCHANGED <<exit, requests, row, pass, watched, slipped, up>>
  BY DEF WindowPasses, serverVars, historyVars
<1> QED
  BY <1>1 DEF ExitInv, Named, SlippedClaims, ClaimsKnown, OnePass, FrozenByClaim, IsAbsorbed, Absorbed,
              IsNew, RipeIsThere

LEMMA ExitStop ==
  ASSUME TypeOK, ExitInv, Stop
  PROVE  ExitInv'
<1>1. /\ NoPass.read = NoExit /\ NoExit.asked = 0 /\ 0 <= requests /\ NoPass.at = "idle"
      /\ pass' = NoPass /\ UNCHANGED <<exit, ripe, row, requests, watched, slipped>>
  BY ExitFacts DEF Stop, historyVars
<1>2. Named' /\ SlippedClaims' /\ ClaimsKnown' /\ RipeIsThere'
  BY <1>1 DEF ExitInv, Named, SlippedClaims, ClaimsKnown, IsAbsorbed, RipeIsThere
<1>3. OnePass'
  BY <1>1 DEF OnePass
<1> QED
  BY <1>2, <1>3 DEF ExitInv

LEMMA ExitNext ==
  ASSUME TypeOK, ExitInv, Next
  PROVE  ExitInv'
<1>1. CASE WithdrawalStep
  BY <1>1, WithdrawalFrame, ExitUnchanged DEF exitVars, historyVars
<1>2. CASE ExitStep
  BY <1>2, ExitRequest, ExitRipens, ExitClaim, ExitClose, ExitRead, ExitIngest, ExitAbsorb, ExitClear, ExitBoot
     DEF ExitStep, PassStep
<1> QED
  BY <1>1, <1>2, NextSteps, ExitStop
-----------------------------------------------------------------------------
(* Nothing is staked behind a claim drained when it was taken, and nothing *)
(* is left behind.                                                         *)

LEMMA DrainedNext ==
  ASSUME TypeOK, ExitInv, DrainedKnown, Next
  PROVE  DrainedKnown'
<1>0. /\ \A k \in drained : k # 0 /\ k \in Nat /\ k <= requests
      /\ exit.asked \in drained => row.asked = exit.asked
      /\ pass.at # "idle" /\ pass.read.asked \in drained => row.asked = pass.read.asked
      /\ pass.at # "idle" /\ exit.asked \in drained => pass.read.asked = exit.asked
      /\ row.asked \in drained /\ ~row.ingested => moves = <<>>
  BY DEF DrainedKnown, TypeOK
<1>1. CASE WithdrawalStep
  <2>1. UNCHANGED <<exit, requests, row, pass, drained>>
    BY <1>1, WithdrawalFrame DEF exitVars, historyVars
  <2>2. row.asked \in drained /\ ~row.ingested => moves' = <<>>
    <3>1. CASE moves' = moves
      BY <1>0, <3>1
    <3>2. CASE \E n \in Nets : Play(n) \/ Play(-n)
      BY <1>0, <3>2 DEF Play, Exiting
    <3>3. CASE MoveLands
      BY <1>0, <3>3 DEF MoveLands
    <3> QED
      BY <1>1, <3>1, <3>2, <3>3
         DEF WithdrawalStep, WorkerStep, Lapse, Prepare, Submit, RequestMarks, WithdrawalLands, HeightPasses,
             WorkerSends, WorkerMarks, WorkerLooksAgain, WorkerExpires, WorkerRetriesLater
  <2> QED
    BY <1>0, <2>1, <2>2 DEF DrainedKnown
<1>2. CASE Stop
  <2>1. pass' = NoPass /\ NoPass.at = "idle" /\ UNCHANGED <<exit, requests, row, drained, moves>>
    BY <1>2, ExitFacts DEF Stop, historyVars
  <2> QED
    BY <1>0, <2>1 DEF DrainedKnown
<1>3. CASE ExitStep
  <2>1. moves' = moves
    BY <1>3, ExitFrame
  <2>2. ASSUME NEW want \in Asks, Request(want) PROVE DrainedKnown'
    <3>1. /\ requests' = requests + 1 /\ exit'.asked = requests + 1 /\ UNCHANGED <<row, pass, drained>>
      BY <2>2 DEF Request, NoExit
    <3>2. requests \in Nat /\ exit'.asked \notin drained
      BY <1>0, <3>1, ExitFacts
    <3>3. \A k \in drained : k # 0 /\ k <= requests'
      BY <1>0, <3>1, <3>2
    <3> QED
      BY <1>0, <2>1, <3>1, <3>2, <3>3 DEF DrainedKnown
  <2>3. CASE WindowPasses \/ Boot
    <3>1. UNCHANGED <<exit, requests, row, pass, drained>>
      BY <2>3 DEF WindowPasses, Boot, exitVars, historyVars
    <3> QED
      BY <1>0, <2>1, <3>1 DEF DrainedKnown
  <2>4. CASE Claim
    <3>1. /\ exit # NoExit /\ exit' = [exit EXCEPT !.claimed = TRUE, !.took = Payout]
          /\ drained' = (IF watched /\ ~Unsettled THEN drained \cup {exit.asked} ELSE drained)
          /\ UNCHANGED <<row, pass, requests>>
      BY <2>4 DEF Claim, ExitInv, RipeIsThere
    <3>2. exit'.asked = exit.asked /\ exit.asked # 0 /\ exit.asked <= requests
      BY <3>1, ExitFacts DEF TypeOK, Exit
    <3>3. CASE ~(watched /\ ~Unsettled)
      BY <1>0, <2>1, <3>1, <3>2, <3>3 DEF DrainedKnown
    <3>4. CASE watched /\ ~Unsettled
      <4>1. row.asked = exit.asked /\ moves = <<>> /\ (pass.at # "idle" => pass.read.asked = exit.asked)
        BY <3>1, <3>4 DEF ExitInv, ClaimsKnown, OnePass, Unsettled
      <4> QED
        BY <1>0, <2>1, <3>1, <3>2, <3>4, <4>1 DEF DrainedKnown
    <3> QED
      BY <3>3, <3>4
  <2>5. CASE Close
    <3>1. exit'.asked = 0 /\ UNCHANGED <<row, pass, requests, drained>>
      BY <2>5, ExitFacts DEF Close
    <3> QED
      BY <1>0, <2>1, <3>1 DEF DrainedKnown
  <2>6. CASE PassReads
    <3>1. pass'.read = exit /\ UNCHANGED <<exit, row, requests, drained>>
      BY <2>6 DEF PassReads, historyVars
    <3> QED
      BY <1>0, <2>1, <3>1 DEF DrainedKnown
  <2>7. CASE PassIngests
    <3> DEFINE e == pass.read
    <3>1. /\ pass.at = "read" /\ UNCHANGED <<exit, requests, drained>>
          /\ \/ IsNew(e) /\ row'.asked = e.asked
             \/ ~IsNew(e) /\ row'.asked = row.asked /\ ~row.claimed
             \/ ~IsNew(e) /\ row' = row
          /\ pass'.read = e \/ pass' = NoPass
      BY <2>7, IngestIs DEF PassDone
    <3>2. row'.asked = e.asked /\ (row.ingested => row.claimed) /\ NoPass.at = "idle"
      BY <3>1, ExitFacts DEF IsNew
    <3>3. exit.asked \in drained => row.asked = exit.asked /\ e.asked = exit.asked
      BY <1>0, <3>1
    <3>4. row'.asked \in drained /\ ~row'.ingested => moves = <<>>
      BY <1>0, <3>1, <3>2 DEF IsNew
    <3> QED
      BY <1>0, <2>1, <3>1, <3>2, <3>3, <3>4 DEF DrainedKnown
  <2>8. CASE PassAbsorbs
    <3>1. /\ pass' = NoPass /\ row'.asked = row.asked /\ row'.ingested /\ drained' \subseteq drained
          /\ UNCHANGED <<exit, requests>> /\ NoPass.at = "idle"
      BY <2>8, AbsorbIs, ExitFacts DEF PassDone
    <3> QED
      BY <1>0, <2>1, <3>1 DEF DrainedKnown
  <2>9. CASE PassClears
    <3>1. /\ pass.at = "read" /\ pass.read.asked = 0 /\ pass' = NoPass /\ NoPass.at = "idle"
          /\ (row' = row \/ row'.asked = 0) /\ UNCHANGED <<exit, requests, drained>>
      BY <2>9, ExitFacts DEF PassClears, PassDone
    <3>2. exit.asked \notin drained /\ 0 \notin drained
      BY <1>0, <3>1
    <3> QED
      BY <1>0, <2>1, <3>1, <3>2 DEF DrainedKnown
  <2> QED
    BY <1>3, <2>2, <2>3, <2>4, <2>5, <2>6, <2>7, <2>8, <2>9 DEF ExitStep, PassStep
<1> QED
  BY <1>1, <1>2, <1>3, NextSteps

\* Nothing expired that had not, and what had still leaves what it left.
NoneExpires ==
  \A i \in DOMAIN ws : i \in DOMAIN ws' /\ ws'[i].remaining = ws[i].remaining
                       /\ (ws[i].status = "expired" => ws'[i].status = "expired")

LEMMA LeftAlone ==
  ASSUME NothingLeftBehind, NoneExpires, UNCHANGED <<ledger, retired>>
  PROVE  NothingLeftBehind'
BY DEF NothingLeftBehind, NoneExpires, Retire

LEMMA OneLeftAlone ==
  ASSUME NEW i, NEW w, Changes(i, w), w.remaining = ws[i].remaining,
         ws[i].status = "expired" => w.status = "expired"
  PROVE  NoneExpires
BY DEF Changes, NoneExpires

LEMMA LeftByWithdrawals ==
  ASSUME TypeOK, WithdrawalsKept, WorkerBusy, NothingLeftBehind, WithdrawalStep
  PROVE  NothingLeftBehind'
<1>a. \A i \in DOMAIN ws : ws[i] \in Withdrawal /\ Kept(ws[i])
  <2>1. \A i \in DOMAIN ws : ws[i] \in Withdrawal
    BY DEF TypeOK
  <2> QED
    BY <2>1 DEF WithdrawalsKept
<1>1. CASE retired' # "withdrawn"
  BY <1>1 DEF NothingLeftBehind
<1>2. CASE UNCHANGED <<ledger, retired, ws>>
  BY <1>2, LeftAlone DEF NoneExpires
<1>3. CASE (\E n \in Nets : Play(n) \/ Play(-n)) \/ MoveLands \/ Lapse \/ \E amount \in Asks \cup {ledger} : Prepare(amount)
  BY <1>1, <1>2, <1>3 DEF Play, MoveLands, Lapse, Prepare, Withdrawable
<1>4. ASSUME NEW i \in 1 .. MaxWithdrawals, NEW heard \in BOOLEAN, Submit(i, heard) PROVE NothingLeftBehind'
  <2>1. CASE retired' = "withdrawn"
    <3>1. i \in DOMAIN ws /\ ws[i].remaining = 0 /\ ledger = ws[i].amount + ws[i].remaining
          /\ ledger' = ledger - ws[i].amount
      BY <1>4, <2>1 DEF Submit, Retire, StillAsPrepared
    <3>2. ws[i].amount \in Nat
      BY <1>a, <3>1 DEF Withdrawal
    <3>3. ledger' = 0
      BY <3>1, <3>2
    <3> QED
      BY <3>3 DEF NothingLeftBehind
  <2> QED
    BY <1>1, <2>1
<1>5. ASSUME NEW i \in 1 .. MaxWithdrawals, RequestMarks(i) PROVE NothingLeftBehind'
  <2> DEFINE m == MarkedAs(ws[i])
             w == [m EXCEPT !.replying = FALSE]
  <2>1. i \in DOMAIN ws /\ Changes(i, w) /\ UNCHANGED <<ledger, retired>>
    BY <1>5, RequestMarksChanges DEF RequestMarks
  <2>2. m \in Withdrawal /\ m.remaining = ws[i].remaining /\ (ws[i].status = "expired" => m.status = "expired")
    BY <1>a, <2>1 DEF MarkedAs, MarkedStatus, Withdrawal
  <2> HIDE DEF m
  <2>3. w.remaining = ws[i].remaining /\ (ws[i].status = "expired" => w.status = "expired")
    BY <2>2 DEF Withdrawal
  <2> QED
    BY <2>1, <2>3, OneLeftAlone, LeftAlone
<1>6. ASSUME NEW i \in DOMAIN ws, ws' = Marked(i), UNCHANGED <<ledger, retired>> PROVE NothingLeftBehind'
  <2>1. Changes(i, MarkedAs(ws[i]))
    BY <1>6, WorkerMarksChanges
  <2>2. MarkedAs(ws[i]).remaining = ws[i].remaining
        /\ (ws[i].status = "expired" => MarkedAs(ws[i]).status = "expired")
    BY <1>a, <1>6 DEF MarkedAs, MarkedStatus, Withdrawal
  <2> QED
    BY <1>6, <2>1, <2>2, OneLeftAlone, LeftAlone
<1>7. ASSUME NEW i \in 1 .. MaxWithdrawals, WithdrawalLands(i) PROVE NothingLeftBehind'
  <2> DEFINE w == [ws[i] EXCEPT !.fate = "landed"]
  <2>1. i \in DOMAIN ws /\ Changes(i, w) /\ UNCHANGED <<ledger, retired>>
    BY <1>7, LandingChanges DEF WithdrawalLands
  <2>2. w.remaining = ws[i].remaining /\ (ws[i].status = "expired" => w.status = "expired")
    BY <1>a, <2>1 DEF Withdrawal
  <2> QED
    BY <2>1, <2>2, OneLeftAlone, LeftAlone
<1>8. ASSUME NEW i \in 1 .. MaxWithdrawals, HeightPasses(i) PROVE NothingLeftBehind'
  <2> DEFINE w == Dead(ws[i])
  <2>1. i \in DOMAIN ws /\ Changes(i, w) /\ UNCHANGED <<ledger, retired>>
    BY <1>8, DyingChanges DEF HeightPasses
  <2>2. w.remaining = ws[i].remaining /\ (ws[i].status = "expired" => w.status = "expired")
    BY <1>a, <2>1 DEF Dead, Withdrawal
  <2> QED
    BY <2>1, <2>2, OneLeftAlone, LeftAlone
<1>9. ASSUME NEW i \in 1 .. MaxWithdrawals, NEW heard \in BOOLEAN, WorkerSends(i, heard)
      PROVE  NothingLeftBehind'
  <2>1. i \in DOMAIN ws /\ UNCHANGED <<ledger, retired>>
    BY <1>9 DEF WorkerSends
  <2>2. CASE ws[i].fate = "landed"
    BY <1>6, <1>9, <2>1, <2>2 DEF WorkerSends
  <2>3. CASE ws[i].fate # "landed"
    <3> DEFINE w == [ws[i] EXCEPT !.sent = @ \/ heard]
    <3>1. Changes(i, w)
      BY <1>9, <2>1, <2>3, SendChanges DEF WorkerSends
    <3>2. w.remaining = ws[i].remaining /\ (ws[i].status = "expired" => w.status = "expired")
      BY <1>a, <2>1 DEF Withdrawal
    <3> QED
      BY <2>1, <3>1, <3>2, OneLeftAlone, LeftAlone
  <2> QED
    BY <2>2, <2>3
<1>10. CASE WorkerMarks
  BY <1>6, <1>10 DEF WorkerMarks, WorkerBusy
<1>11. CASE WorkerLooksAgain \/ WorkerRetriesLater
  BY <1>2, <1>11 DEF WorkerLooksAgain, WorkerRetriesLater
<1>12. CASE WorkerExpires
  <2> DEFINE i == worker.w
             w == [ws[i] EXCEPT !.status = "expired", !.op = "failed"]
  <2>1. i \in DOMAIN ws
    BY <1>12 DEF WorkerExpires, GivenUp, Refused, WorkerBusy
  <2>2. CASE ws[i].status # "submitted"
    BY <1>2, <1>12, <2>2 DEF WorkerExpires
  <2>3. CASE ws[i].status = "submitted" /\ Retire(i)
    BY <1>1, <1>12, <2>3 DEF WorkerExpires, Unretired
  <2>4. CASE ws[i].status = "submitted" /\ ~Retire(i)
    <3>1. Changes(i, w)
      BY <1>12, <2>1, <2>4, ExpiryChanges DEF WorkerExpires
    <3>2. w.status = "expired" /\ w.remaining = ws[i].remaining
      BY <1>a, <2>1 DEF Withdrawal
    <3>3. i \in DOMAIN ws' /\ ws'[i].status = "expired" /\ ws'[i].remaining # 0
      BY <2>4, <3>1, <3>2 DEF Changes, Retire
    <3> QED
      BY <3>3 DEF NothingLeftBehind, Retire
  <2> QED
    BY <2>2, <2>3, <2>4
<1> QED
  BY <1>3, <1>4, <1>5, <1>7, <1>8, <1>9, <1>10, <1>11, <1>12 DEF WithdrawalStep, WorkerStep

LEMMA LeftByOthers ==
  ASSUME TypeOK, ExitInv, NothingLeftBehind, ExitStep \/ Stop
  PROVE  NothingLeftBehind'
<1>1. CASE PassAbsorbs
  <2>1. /\ ledger' = ledger - ToDebit(pass.read.took) /\ ws' = ws
        /\ retired' = IF ledger' <= 0 /\ retired = "no" THEN "withdrawn" ELSE retired
    BY <1>1, AbsorbIs
  <2>2. ledger \in Int /\ pass.read.took \in Nat
    BY DEF TypeOK, Exit
  <2>3. ToDebit(pass.read.took) \in Nat
    BY <2>2, DebitIs
  <2>4. ledger <= 0 => ledger' <= 0
    BY <2>1, <2>2, <2>3
  <2> QED
    BY <2>1, <2>4 DEF NothingLeftBehind, Retire
<1>2. CASE ExitStep /\ ~PassAbsorbs
  BY <1>2 DEF ExitStep, PassStep, Request, WindowPasses, Claim, Close, Boot, PassReads, PassIngests, PassClears,
              exitVars,
              NothingLeftBehind, Retire
<1>3. CASE Stop
  <2>1. AllChange
    BY <1>3, AllChangeBy
  <2>2. UNCHANGED <<ledger, retired>>
    BY <1>3 DEF Stop
  <2>3. NoneExpires
    BY <2>1 DEF AllChange, NoneExpires
  <2> QED
    BY <2>2, <2>3, LeftAlone
<1> QED
  BY <1>1, <1>2, <1>3
-----------------------------------------------------------------------------
LEMMA PurseInvInit == Init => PurseInv
<1> SUFFICES ASSUME Init PROVE PurseInv
  OBVIOUS
<1>1. WithdrawalsKept /\ WorkerBusy /\ NothingLeftBehind
  BY DEF Init, WithdrawalsKept, WorkerBusy, NothingLeftBehind, Idle
<1> QED
  BY <1>1, PurseTypeInit, ExitInit DEF PurseInv

LEMMA PurseInvNext == PurseInv /\ [Next]_vars => PurseInv'
<1> SUFFICES ASSUME PurseInv, [Next]_vars PROVE PurseInv'
  OBVIOUS
<1>0. TypeOK /\ WithdrawalsKept /\ WorkerBusy /\ ExitInv /\ DrainedKnown /\ NothingLeftBehind
  BY DEF PurseInv
<1>1. CASE Next
  <2>1. ExitInv' /\ DrainedKnown'
    BY <1>0, <1>1, ExitNext, DrainedNext
  <2>2. TypeOK' /\ WithdrawalsKept' /\ WorkerBusy' /\ NothingLeftBehind'
    BY <1>0, <1>1, NextSteps, TypeWithdrawalStep, TypeExitStep, WithdrawalsStep, WithdrawalsAged,
       LeftByWithdrawals, LeftByOthers
  <2> QED
    BY <2>1, <2>2 DEF PurseInv
<1>2. CASE UNCHANGED vars
  <2>1. TypeOK' /\ WithdrawalsKept' /\ WorkerBusy' /\ DrainedKnown' /\ NothingLeftBehind'
    BY <1>0, <1>2 DEF vars, TypeOK, WithdrawalsKept, WorkerBusy, DrainedKnown, NothingLeftBehind, Retire
  <2>2. ExitInv'
    BY <1>0, <1>2, ExitUnchanged DEF vars
  <2> QED
    BY <2>1, <2>2 DEF PurseInv
<1> QED
  BY <1>1, <1>2

\* Every variable keeps its type: above all the vault, which nothing overdraws
\* (worker.ts 299-326, exits.ts 148-197).
THEOREM TypeCorrect == Spec => []TypeOK
<1>1. PurseInv => TypeOK
  BY DEF PurseInv
<1> QED
  BY <1>1, PurseInvInit, PurseInvNext, PTL DEF Spec

\* An agent retired by its withdrawal or its exit leaves nothing on the ledger
\* that only a withdrawal could fetch, unless a partial one was put back after
\* (withdrawals.ts 300-311, exits.ts 177-181).
THEOREM NothingIsLeftBehind == Spec => []NothingLeftBehind
<1>1. PurseInv => NothingLeftBehind
  BY DEF PurseInv
<1> QED
  BY <1>1, PurseInvInit, PurseInvNext, PTL DEF Spec
-----------------------------------------------------------------------------
(* Sums of a queue, and over the withdrawals.                              *)

\* The queue shrinks by one at the front.
LEMMA SumShifted ==
  ASSUME NEW s \in Seq(Int), s # <<>>
  PROVE  SumFunctionOnSet(s, DOMAIN s) = Head(s) + SumFunctionOnSet(Tail(s), DOMAIN Tail(s))
<1>1. /\ Tail(s) \in Seq(Int) /\ Len(Tail(s)) + 1 = Len(s) /\ 1 \in DOMAIN s /\ Head(s) = s[1]
      /\ \A j \in 1 .. Len(Tail(s)) : Tail(s)[j] = IF j < 1 THEN s[j] ELSE s[j + 1]
  OBVIOUS
<1> QED
  BY <1>1, SumOneGone

\* Sums over withdrawals do not look at what changes in one.
LEMMA AmountsKept ==
  ASSUME TypeOK, DOMAIN ws \subseteq DOMAIN ws',
         \A i \in DOMAIN ws : ws'[i].amount = ws[i].amount,
         NEW S, S \subseteq DOMAIN ws
  PROVE  SumFunctionOnSet(Amounts', S) = SumFunctionOnSet(Amounts, S)
<1>1. IsFiniteSet(S)
  <2>1. Len(ws) \in Nat /\ DOMAIN ws = 1 .. Len(ws)
    BY DEF TypeOK
  <2> QED
    BY <2>1, IndicesFinite, FS_Subset
<1>2. \A i \in S : Amounts'[i] = Amounts[i]
  BY DEF Amounts
<1> QED
  BY <1>1, <1>2, SumSame

\* Sums over what slipped: claims, each with what it took.
Takes(S) == [e \in S |-> e.took]

LEMMA SlippedIs ==
  ASSUME NEW S, S \subseteq Exit, IsFiniteSet(S), NEW f, \A e \in S : f[e] = e.took
  PROVE  /\ SumFunctionOnSet(f, S) \in Nat
         /\ SumFunctionOnSet(f, S) = SumFunctionOnSet(Takes(S), S)
<1>1. \A e \in S : f[e] \in Nat /\ f[e] = Takes(S)[e]
  BY DEF Exit, Takes
<1> QED
  BY <1>1, SumNat, SumSame

LEMMA SlippedGrows ==
  ASSUME NEW S, S \subseteq Exit, IsFiniteSet(S), NEW e \in Exit, e \notin S
  PROVE  SumFunctionOnSet(Takes(S \cup {e}), S \cup {e}) = e.took + SumFunctionOnSet(Takes(S), S)
<1> DEFINE f == Takes(S \cup {e})
<1>1. /\ \A x \in S : f[x] = x.took /\ f[x] \in Int
      /\ f[e] = e.took /\ f[e] \in Int
  BY DEF Takes, Exit
<1> HIDE DEF f
<1>2. SumFunctionOnSet(f, S \cup {e}) = f[e] + SumFunctionOnSet(f, S)
  BY <1>1, SumWith
<1>3. SumFunctionOnSet(f, S) = SumFunctionOnSet(Takes(S), S)
  BY <1>1, SlippedIs
<1> QED
  BY <1>1, <1>2, <1>3 DEF f

LEMMA SumsAre ==
  ASSUME TypeOK, ExitInv
  PROVE  /\ Queued \in Int /\ Away \in Nat /\ Reversed \in Nat /\ Owing \in Nat
         /\ OnChain \in Nat /\ Slipped \in Nat /\ Slipped = SumFunctionOnSet(Takes(slipped), slipped)
         /\ \A S \in SUBSET DOMAIN ws : IsFiniteSet(S)
         /\ \A i \in DOMAIN ws : ws[i] \in Withdrawal /\ Amounts[i] = ws[i].amount /\ Amounts[i] \in Nat
         /\ OnItsWay \subseteq DOMAIN ws /\ PaidAnyway \subseteq DOMAIN ws
<1>1. Len(ws) \in Nat /\ DOMAIN ws = 1 .. Len(ws) /\ \A i \in DOMAIN ws : ws[i] \in Withdrawal
  BY DEF TypeOK
<1>2. \A S \in SUBSET DOMAIN ws : IsFiniteSet(S)
  BY <1>1, IndicesFinite, FS_Subset
<1>3. \A i \in DOMAIN ws : Amounts[i] = ws[i].amount /\ Amounts[i] \in Nat
  BY <1>1 DEF Amounts, Withdrawal
<1>4. OnItsWay \subseteq DOMAIN ws /\ PaidAnyway \subseteq DOMAIN ws
  BY DEF OnItsWay, PaidAnyway
<1>5. Away \in Nat /\ Reversed \in Nat
  BY <1>2, <1>3, <1>4, SumNat DEF Away, Reversed
<1>6. Queued \in Int
  <2>1. Len(moves) \in Nat /\ DOMAIN moves = 1 .. Len(moves) /\ \A i \in DOMAIN moves : moves[i] \in Int
    BY DEF TypeOK
  <2> QED
    BY <2>1, IndicesFinite, SumInt DEF Queued
<1>7. Owing \in Nat /\ OnChain \in Nat /\ Slipped \in Nat /\ Slipped = SumFunctionOnSet(Takes(slipped), slipped)
  <2>1. OnChain \in Nat
    BY DEF OnChain, TypeOK, Exit
  <2>2. slipped \subseteq Exit /\ IsFiniteSet(slipped)
    BY DEF TypeOK, ExitInv, SlippedClaims
  <2>3. Slipped = SumFunctionOnSet(Takes(slipped), slipped)
    BY DEF Slipped, Takes
  <2>4. Slipped \in Nat
    BY <2>2, <2>3, SlippedIs DEF Takes
  <2> QED
    BY <2>1, <2>3, <2>4 DEF Owing
<1> QED
  BY <1>1, <1>2, <1>3, <1>4, <1>5, <1>6, <1>7

LEMMA SumGrows ==
  ASSUME TypeOK, ExitInv, NEW S, S \subseteq DOMAIN ws, NEW i \in DOMAIN ws
  PROVE  /\ i \notin S => SumFunctionOnSet(Amounts, S \cup {i}) = ws[i].amount + SumFunctionOnSet(Amounts, S)
         /\ i \in S => SumFunctionOnSet(Amounts, S) = ws[i].amount + SumFunctionOnSet(Amounts, S \ {i})
<1>1. IsFiniteSet(S) /\ (\A j \in S : Amounts[j] \in Int) /\ Amounts[i] = ws[i].amount /\ Amounts[i] \in Int
  BY SumsAre
<1>2. CASE i \in S
  BY <1>1, <1>2, SumWithout
<1>3. CASE i \notin S
  BY <1>1, <1>3, SumWith
<1> QED
  BY <1>2, <1>3

\* What one change does to the sums.
IsAway(w) == w.status = "submitted" /\ w.fate # "landed"
IsReversed(w) == w.status = "expired" /\ w.fate = "landed"

LEMMA SumsOfChange ==
  ASSUME TypeOK, ExitInv, NEW i, NEW w, Changes(i, w), w.amount = ws[i].amount
  PROVE  /\ Away \in Nat /\ Reversed \in Nat /\ ws[i].amount \in Nat
         /\ (IsAway(w) <=> IsAway(ws[i])) => Away' = Away
         /\ IsAway(w) /\ ~IsAway(ws[i]) => Away' = ws[i].amount + Away
         /\ ~IsAway(w) /\ IsAway(ws[i]) => Away = ws[i].amount + Away'
         /\ (IsReversed(w) <=> IsReversed(ws[i])) => Reversed' = Reversed
         /\ IsReversed(w) /\ ~IsReversed(ws[i]) => Reversed' = ws[i].amount + Reversed
<1>1. i \in DOMAIN ws /\ DOMAIN ws' = DOMAIN ws /\ ws'[i] = w /\ \A j \in DOMAIN ws \ {i} : ws'[j] = ws[j]
  BY DEF Changes
<1>2. /\ Away \in Nat /\ Reversed \in Nat /\ ws[i].amount \in Nat
      /\ OnItsWay \subseteq DOMAIN ws /\ PaidAnyway \subseteq DOMAIN ws
  BY <1>1, SumsAre DEF Withdrawal
<1>3. OnItsWay' \subseteq DOMAIN ws /\ PaidAnyway' \subseteq DOMAIN ws
  BY <1>1 DEF OnItsWay, PaidAnyway
<1>4. Away' = SumFunctionOnSet(Amounts, OnItsWay') /\ Reversed' = SumFunctionOnSet(Amounts, PaidAnyway')
  <2>1. \A j \in DOMAIN ws : ws'[j].amount = ws[j].amount
    BY <1>1
  <2>2. /\ SumFunctionOnSet(Amounts', OnItsWay') = SumFunctionOnSet(Amounts, OnItsWay')
        /\ SumFunctionOnSet(Amounts', PaidAnyway') = SumFunctionOnSet(Amounts, PaidAnyway')
    BY <1>1, <1>3, <2>1, AmountsKept
  <2> QED
    BY <2>2 DEF Away, Reversed
<1>5. /\ i \in OnItsWay <=> IsAway(ws[i])
      /\ i \in PaidAnyway <=> IsReversed(ws[i])
  BY <1>1 DEF OnItsWay, PaidAnyway, IsAway, IsReversed
<1>6. /\ (IsAway(w) <=> IsAway(ws[i])) => OnItsWay' = OnItsWay
      /\ IsAway(w) /\ ~IsAway(ws[i]) => OnItsWay' = OnItsWay \cup {i}
      /\ ~IsAway(w) /\ IsAway(ws[i]) => OnItsWay' = OnItsWay \ {i}
  BY <1>1 DEF OnItsWay, IsAway
<1>7. /\ (IsReversed(w) <=> IsReversed(ws[i])) => PaidAnyway' = PaidAnyway
      /\ IsReversed(w) /\ ~IsReversed(ws[i]) => PaidAnyway' = PaidAnyway \cup {i}
  BY <1>1 DEF PaidAnyway, IsReversed
<1>8. /\ i \notin OnItsWay => SumFunctionOnSet(Amounts, OnItsWay \cup {i}) = ws[i].amount + Away
      /\ i \in OnItsWay => Away = ws[i].amount + SumFunctionOnSet(Amounts, OnItsWay \ {i})
      /\ i \notin PaidAnyway => SumFunctionOnSet(Amounts, PaidAnyway \cup {i}) = ws[i].amount + Reversed
  BY <1>1, <1>2, SumGrows DEF Away, Reversed
<1>9. /\ OnItsWay' = OnItsWay => Away' = Away
      /\ PaidAnyway' = PaidAnyway => Reversed' = Reversed
  BY <1>4 DEF Away, Reversed
<1> QED
  BY <1>2, <1>4, <1>5, <1>6, <1>7, <1>8, <1>9
-----------------------------------------------------------------------------
(* The balance.                                                            *)

LEMMA BalanceInit == Init => Balance
<1> SUFFICES ASSUME Init PROVE Balance
  OBVIOUS
<1>1. OnItsWay = {} /\ PaidAnyway = {} /\ DOMAIN moves = {} /\ ~Owed /\ slipped = {}
  BY DEF Init, OnItsWay, PaidAnyway, Owed, NoExit
<1>2. Away = 0 /\ Reversed = 0 /\ Queued = 0 /\ OnChain = 0 /\ Slipped = 0
  BY <1>1, SumOfNone DEF Away, Reversed, Queued, OnChain, Slipped
<1>3. Owing = 0
  BY <1>2 DEF Owing
<1> QED
  BY <1>2, <1>3, PurseArguments DEF Init, Balance

LEMMA BalanceSame ==
  ASSUME Balance, UNCHANGED <<ledger, vault, Queued, Away, Reversed, forgiven, Owing>>
  PROVE  Balance'
BY DEF Balance

LEMMA OwingSame ==
  ASSUME UNCHANGED exitVars
  PROVE  UNCHANGED <<Owing, forgiven>>
BY DEF exitVars, historyVars, Owing, OnChain, Owed, Slipped

LEMMA QueuedSame ==
  ASSUME moves' = moves
  PROVE  Queued' = Queued
BY DEF Queued

LEMMA SumsSame ==
  ASSUME ws' = ws
  PROVE  UNCHANGED <<Away, Reversed>>
BY DEF Away, Reversed, Amounts, OnItsWay, PaidAnyway

LEMMA BalanceOfMatches ==
  ASSUME TypeOK, ExitInv, Balance,
         (\E n \in Nets : Play(n) \/ Play(-n)) \/ MoveLands \/ Lapse
  PROVE  Balance'
<1>1. ws' = ws /\ UNCHANGED exitVars
  BY DEF Play, MoveLands, Lapse
<1>2. UNCHANGED <<Away, Reversed, Owing, forgiven>>
  BY <1>1, OwingSame, SumsSame
<1>3. /\ ledger \in Int /\ vault \in Int /\ Queued \in Int /\ Away \in Int /\ Reversed \in Int
      /\ forgiven \in Int /\ Owing \in Int
  BY SumsAre DEF TypeOK
<1>4. ASSUME NEW n \in Int, Play(n) PROVE Balance'
  <2>1. Queued' = n + Queued
    BY <1>4, SumAppended DEF Play, Queued, TypeOK
  <2>2. ledger' = ledger + n /\ vault' = vault
    BY <1>4 DEF Play
  <2> QED
    BY <1>2, <1>3, <2>1, <2>2 DEF Balance
<1>5. CASE \E n \in Nets : Play(n) \/ Play(-n)
  BY <1>4, <1>5, PurseArguments
<1>6. CASE MoveLands
  <2>1. Head(moves) \in Int /\ Queued = Head(moves) + Queued'
    BY <1>6, SumShifted DEF MoveLands, Queued, TypeOK
  <2>2. Queued' \in Int
    <3>1. moves' \in Seq(Int)
      BY <1>6 DEF MoveLands, TypeOK
    <3>2. Len(moves') \in Nat /\ DOMAIN moves' = 1 .. Len(moves') /\ \A i \in DOMAIN moves' : moves'[i] \in Int
      BY <3>1
    <3> QED
      BY <3>2, IndicesFinite, SumInt DEF Queued
  <2>3. ledger' = ledger /\ vault' = vault + Head(moves)
    BY <1>6 DEF MoveLands
  <2> QED
    BY <1>2, <1>3, <2>1, <2>2, <2>3 DEF Balance
<1>7. CASE Lapse
  BY <1>2, <1>7, QueuedSame, BalanceSame DEF Lapse
<1> QED
  BY <1>5, <1>6, <1>7

\* What a withdrawal's step must do to keep the balance.
LEMMA BalanceOfOne ==
  ASSUME TypeOK, ExitInv, Balance, UNCHANGED <<moves, exitVars>>, NEW i, NEW w, Changes(i, w), w.amount = ws[i].amount,
         LET a == ws[i].amount IN
         \/ /\ UNCHANGED <<ledger, vault>>
            /\ (IsAway(w) <=> IsAway(ws[i])) /\ (IsReversed(w) <=> IsReversed(ws[i]))
         \/ /\ ledger' = ledger - a /\ vault' = vault
            /\ IsAway(w) /\ ~IsAway(ws[i]) /\ (IsReversed(w) <=> IsReversed(ws[i]))
         \/ /\ ledger' = ledger /\ vault' = vault - a
            /\ ~IsAway(w) /\ IsAway(ws[i]) /\ (IsReversed(w) <=> IsReversed(ws[i]))
         \/ /\ ledger' = ledger /\ vault' = vault - a
            /\ (IsAway(w) <=> IsAway(ws[i])) /\ IsReversed(w) /\ ~IsReversed(ws[i])
         \/ /\ ledger' = ledger + a /\ vault' = vault
            /\ ~IsAway(w) /\ IsAway(ws[i]) /\ (IsReversed(w) <=> IsReversed(ws[i]))
         \/ /\ ledger' = ledger + a /\ vault' = vault
            /\ (IsAway(w) <=> IsAway(ws[i])) /\ IsReversed(w) /\ ~IsReversed(ws[i])
  PROVE  Balance'
<1> DEFINE a == ws[i].amount
<1>1. UNCHANGED <<Queued, Owing, forgiven>>
  BY OwingSame, QueuedSame
<1>2. /\ ledger \in Int /\ vault \in Int /\ Queued \in Int /\ Away \in Int /\ Reversed \in Int
      /\ forgiven \in Int /\ Owing \in Int
  BY SumsAre DEF TypeOK
<1>3. /\ a \in Int
      /\ (IsAway(w) <=> IsAway(ws[i])) => Away' = Away
      /\ IsAway(w) /\ ~IsAway(ws[i]) => Away' = a + Away
      /\ ~IsAway(w) /\ IsAway(ws[i]) => Away = a + Away'
      /\ (IsReversed(w) <=> IsReversed(ws[i])) => Reversed' = Reversed
      /\ IsReversed(w) /\ ~IsReversed(ws[i]) => Reversed' = a + Reversed
  BY SumsOfChange
<1>4. Away' \in Int
  <2>1. IsFiniteSet(OnItsWay') /\ \A j \in OnItsWay' : Amounts'[j] \in Int
    <3>1. Len(ws') \in Nat /\ DOMAIN ws' = 1 .. Len(ws') /\ \A j \in DOMAIN ws' : ws'[j] \in Withdrawal
      BY DEF Changes
    <3>2. OnItsWay' \subseteq DOMAIN ws' /\ \A j \in DOMAIN ws' : Amounts'[j] = ws'[j].amount
      BY DEF OnItsWay, Amounts
    <3> QED
      BY <3>1, <3>2, IndicesFinite, FS_Subset DEF Withdrawal
  <2> QED
    BY <2>1, SumInt DEF Away
<1>5. ledger + Away = vault + Queued + forgiven + Reversed + Owing
  BY DEF Balance
<1>6. \/ ledger' = ledger /\ vault' = vault /\ Away' = Away /\ Reversed' = Reversed
      \/ ledger' = ledger - a /\ vault' = vault /\ Away' = a + Away /\ Reversed' = Reversed
      \/ ledger' = ledger /\ vault' = vault - a /\ Away = a + Away' /\ Reversed' = Reversed
      \/ ledger' = ledger /\ vault' = vault - a /\ Away' = Away /\ Reversed' = a + Reversed
      \/ ledger' = ledger + a /\ vault' = vault /\ Away = a + Away' /\ Reversed' = Reversed
      \/ ledger' = ledger + a /\ vault' = vault /\ Away' = Away /\ Reversed' = a + Reversed
  BY <1>3
<1> DEFINE l == ledger
           k == ledger'
           v == vault
           u == vault'
           s == Away
           t == Away'
           r == Reversed
           p == Reversed'
           rest == Queued + forgiven
<1>7. /\ a \in Int /\ l \in Int /\ v \in Int /\ s \in Int /\ t \in Int /\ r \in Int /\ rest \in Int
      /\ Owing \in Int /\ l + s = v + rest + r + Owing
  BY <1>2, <1>3, <1>4, <1>5
<1>8. \/ k = l /\ u = v /\ t = s /\ p = r
      \/ k = l - a /\ u = v /\ t = a + s /\ p = r
      \/ k = l /\ u = v - a /\ s = a + t /\ p = r
      \/ k = l /\ u = v - a /\ t = s /\ p = a + r
      \/ k = l + a /\ u = v /\ s = a + t /\ p = r
      \/ k = l + a /\ u = v /\ t = s /\ p = a + r
  BY <1>6
<1> HIDE DEF a, l, k, v, u, s, t, r, p, rest
<1>9. k + t = u + rest + p + Owing /\ u \in Int /\ p \in Int
  BY <1>7, <1>8
<1>10. ledger' + Away' = vault' + Queued + forgiven + Reversed' + Owing
  BY <1>2, <1>9 DEF k, u, t, p, rest
<1> QED
  BY <1>1, <1>10 DEF Balance

LEMMA BalanceOfWithdrawals ==
  ASSUME TypeOK, WithdrawalsKept, WorkerBusy, ExitInv, Balance, WithdrawalStep
  PROVE  Balance'
<1>a. \A i \in DOMAIN ws : ws[i] \in Withdrawal /\ Kept(ws[i])
  <2>1. \A i \in DOMAIN ws : ws[i] \in Withdrawal
    BY DEF TypeOK
  <2> QED
    BY <2>1 DEF WithdrawalsKept
<1>e. UNCHANGED exitVars
  BY WithdrawalFrame
<1>1. CASE UNCHANGED <<ledger, vault, moves, ws>>
  BY <1>1, <1>e, OwingSame, QueuedSame, SumsSame, BalanceSame
<1>2. ASSUME NEW amount \in Asks \cup {ledger}, Prepare(amount) PROVE Balance'
  <2>1. /\ DOMAIN ws' = DOMAIN ws \cup {Len(ws) + 1} /\ Len(ws) + 1 \notin DOMAIN ws
        /\ ws'[Len(ws) + 1] = Prepared(amount) /\ \A i \in DOMAIN ws : ws'[i] = ws[i]
    BY <1>2, PrepareAppends
  <2>2. Prepared(amount).status = "prepared"
    BY DEF Prepared
  <2>3. OnItsWay' = OnItsWay /\ PaidAnyway' = PaidAnyway
    BY <2>1, <2>2 DEF OnItsWay, PaidAnyway
  <2>4. OnItsWay \subseteq DOMAIN ws /\ PaidAnyway \subseteq DOMAIN ws
    BY SumsAre
  <2>5. /\ SumFunctionOnSet(Amounts', OnItsWay) = SumFunctionOnSet(Amounts, OnItsWay)
        /\ SumFunctionOnSet(Amounts', PaidAnyway) = SumFunctionOnSet(Amounts, PaidAnyway)
    BY <2>1, <2>4, AmountsKept
  <2>6. UNCHANGED <<Away, Reversed>>
    BY <2>3, <2>5 DEF Away, Reversed
  <2> QED
    BY <1>2, <1>e, <2>6, OwingSame, QueuedSame, BalanceSame DEF Prepare
<1>3. ASSUME NEW i \in 1 .. MaxWithdrawals, NEW heard \in BOOLEAN, Submit(i, heard) PROVE Balance'
  <2> DEFINE w == [ws[i] EXCEPT !.status = "submitted", !.op = "pending", !.sent = heard,
                                !.replying = ws[i].fate = "live"]
  <2>1. /\ i \in DOMAIN ws /\ Changes(i, w) /\ ws[i].status = "prepared" /\ vault' = vault /\ moves' = moves
        /\ ledger' = ledger - ws[i].amount
    BY <1>3, SubmitChanges DEF Submit
  <2>2. /\ ws[i].fate # "landed"
        /\ w.status = "submitted" /\ w.fate = ws[i].fate /\ w.amount = ws[i].amount
    BY <1>a, <2>1 DEF Withdrawal, Kept
  <2> HIDE DEF w
  <2>3. IsAway(w) /\ ~IsAway(ws[i]) /\ ~IsReversed(w) /\ ~IsReversed(ws[i])
    BY <2>1, <2>2 DEF IsAway, IsReversed
  <2> QED
    BY <1>e, <2>1, <2>2, <2>3, BalanceOfOne
<1>4. ASSUME NEW i \in DOMAIN ws, NEW w, Changes(i, w), UNCHANGED <<ledger, vault, moves>>,
             w.amount = ws[i].amount, IsAway(w) <=> IsAway(ws[i]), IsReversed(w) <=> IsReversed(ws[i])
      PROVE  Balance'
  BY <1>4, <1>e, BalanceOfOne
<1>5. ASSUME NEW i \in 1 .. MaxWithdrawals, RequestMarks(i) PROVE Balance'
  <2> DEFINE m == MarkedAs(ws[i])
             w == [m EXCEPT !.replying = FALSE]
  <2>1. i \in DOMAIN ws /\ Changes(i, w) /\ UNCHANGED <<ledger, vault, moves>> /\ ws[i].fate = "landed"
        /\ ws[i].status # "prepared"
    BY <1>5, <1>a, RequestMarksChanges DEF RequestMarks, Kept
  <2>2. m \in Withdrawal /\ m.amount = ws[i].amount /\ m.fate = "landed"
        /\ (m.status = "expired" <=> ws[i].status = "expired")
    BY <1>a, <2>1 DEF MarkedAs, MarkedStatus, Withdrawal
  <2> HIDE DEF m
  <2>3. w.amount = ws[i].amount /\ w.fate = "landed" /\ w.status = m.status
    BY <2>2 DEF Withdrawal
  <2> HIDE DEF w
  <2> QED
    BY <1>4, <2>1, <2>2, <2>3 DEF IsAway, IsReversed
<1>6. ASSUME NEW i \in DOMAIN ws, ws' = Marked(i), ws[i].fate = "landed", UNCHANGED <<ledger, vault, moves>>
      PROVE  Balance'
  <2> DEFINE w == MarkedAs(ws[i])
  <2>1. Changes(i, w)
    BY <1>6, WorkerMarksChanges
  <2>2. w.amount = ws[i].amount /\ w.fate = "landed" /\ (w.status = "expired" <=> ws[i].status = "expired")
    BY <1>a, <1>6 DEF MarkedAs, MarkedStatus, Withdrawal
  <2> HIDE DEF w
  <2> QED
    BY <1>4, <1>6, <2>1, <2>2 DEF IsAway, IsReversed
<1>7. ASSUME NEW i \in 1 .. MaxWithdrawals, WithdrawalLands(i) PROVE Balance'
  <2> DEFINE w == [ws[i] EXCEPT !.fate = "landed"]
  <2>1. /\ i \in DOMAIN ws /\ Changes(i, w) /\ ledger' = ledger /\ moves' = moves
        /\ vault' = vault - ws[i].amount /\ ws[i].sent /\ ws[i].fate = "live"
    BY <1>7, LandingChanges DEF WithdrawalLands
  <2>2. ws[i].status \in {"submitted", "expired"}
    BY <1>a, <2>1 DEF Withdrawal, Kept
  <2>3. w.amount = ws[i].amount /\ w.fate = "landed" /\ w.status = ws[i].status
    BY <1>a, <2>1 DEF Withdrawal
  <2> HIDE DEF w
  <2>4. CASE ws[i].status = "submitted"
    <3>1. ~IsAway(w) /\ IsAway(ws[i]) /\ ~IsReversed(w) /\ ~IsReversed(ws[i])
      BY <2>1, <2>3, <2>4 DEF IsAway, IsReversed
    <3> QED
      BY <1>e, <2>1, <2>3, <3>1, BalanceOfOne
  <2>5. CASE ws[i].status = "expired"
    <3>1. ~IsAway(w) /\ ~IsAway(ws[i]) /\ IsReversed(w) /\ ~IsReversed(ws[i])
      BY <2>1, <2>3, <2>5 DEF IsAway, IsReversed
    <3> QED
      BY <1>e, <2>1, <2>3, <3>1, BalanceOfOne
  <2> QED
    BY <2>2, <2>4, <2>5
<1>8. ASSUME NEW i \in 1 .. MaxWithdrawals, HeightPasses(i) PROVE Balance'
  <2> DEFINE w == Dead(ws[i])
  <2>1. /\ i \in DOMAIN ws /\ Changes(i, w) /\ UNCHANGED <<ledger, vault, moves>> /\ ws[i].fate = "live"
    BY <1>8, DyingChanges DEF HeightPasses
  <2>2. w.amount = ws[i].amount /\ w.fate = "dead" /\ w.status = ws[i].status
    BY <1>a, <2>1 DEF Dead, Withdrawal
  <2> HIDE DEF w
  <2> QED
    BY <1>4, <2>1, <2>2 DEF IsAway, IsReversed
<1>9. ASSUME NEW i \in 1 .. MaxWithdrawals, NEW heard \in BOOLEAN, WorkerSends(i, heard) PROVE Balance'
  <2>1. i \in DOMAIN ws /\ UNCHANGED <<ledger, vault, moves>>
    BY <1>9 DEF WorkerSends
  <2>2. CASE ws[i].fate = "landed"
    BY <1>6, <1>9, <2>1, <2>2 DEF WorkerSends
  <2>3. CASE ws[i].fate # "landed"
    <3> DEFINE w == [ws[i] EXCEPT !.sent = @ \/ heard]
    <3>1. Changes(i, w)
      BY <1>9, <2>1, <2>3, SendChanges DEF WorkerSends
    <3>2. w.amount = ws[i].amount /\ w.fate = ws[i].fate /\ w.status = ws[i].status
      BY <1>a, <2>1 DEF Withdrawal
    <3> HIDE DEF w
    <3> QED
      BY <1>4, <2>1, <3>1, <3>2 DEF IsAway, IsReversed
  <2> QED
    BY <2>2, <2>3
<1>10. CASE WorkerMarks
  BY <1>6, <1>10 DEF WorkerMarks, WorkerBusy
<1>11. CASE WorkerLooksAgain \/ WorkerRetriesLater
  BY <1>1, <1>11 DEF WorkerLooksAgain, WorkerRetriesLater
<1>12. CASE WorkerExpires
  <2> DEFINE i == worker.w
             w == [ws[i] EXCEPT !.status = "expired", !.op = "failed"]
  <2>1. i \in DOMAIN ws /\ vault' = vault /\ moves' = moves
    BY <1>12 DEF WorkerExpires, GivenUp, Refused, WorkerBusy
  <2>2. CASE ws[i].status # "submitted"
    BY <1>1, <1>12, <2>1, <2>2 DEF WorkerExpires
  <2>3. CASE ws[i].status = "submitted"
    <3>1. Changes(i, w) /\ ledger' = ledger + ws[i].amount
      BY <1>12, <2>1, <2>3, ExpiryChanges DEF WorkerExpires, PutBack
    <3>2. w.amount = ws[i].amount /\ w.fate = ws[i].fate /\ w.status = "expired"
      BY <1>a, <2>1 DEF Withdrawal
    <3> HIDE DEF w
    <3>3. CASE ws[i].fate = "landed"
      <4>1. ~IsAway(w) /\ ~IsAway(ws[i]) /\ IsReversed(w) /\ ~IsReversed(ws[i])
        BY <2>3, <3>2, <3>3 DEF IsAway, IsReversed
      <4> QED
        BY <1>e, <2>1, <3>1, <3>2, <4>1, BalanceOfOne
    <3>4. CASE ws[i].fate # "landed"
      <4>1. ~IsAway(w) /\ IsAway(ws[i]) /\ ~IsReversed(w) /\ ~IsReversed(ws[i])
        BY <2>3, <3>2, <3>4 DEF IsAway, IsReversed
      <4> QED
        BY <1>e, <2>1, <3>1, <3>2, <4>1, BalanceOfOne
    <3> QED
      BY <3>3, <3>4
  <2> QED
    BY <2>2, <2>3
<1>13. CASE (\E n \in Nets : Play(n) \/ Play(-n)) \/ MoveLands \/ Lapse
  BY <1>13, BalanceOfMatches
<1> QED
  BY <1>2, <1>3, <1>5, <1>7, <1>8, <1>9, <1>10, <1>11, <1>12, <1>13 DEF WithdrawalStep, WorkerStep

\* The claim on chain is owed until it has been watched.
LEMMA OwedIs ==
  ASSUME ExitInv
  PROVE  Owed <=> exit.claimed /\ ~watched
BY DEF ExitInv, ClaimsKnown, IsAbsorbed, Owed

\* What the watcher takes off the ledger is no longer owed.
LEMMA AbsorbSettles ==
  ASSUME TypeOK, ExitInv, PassAbsorbs
  PROVE  /\ pass.read.took \in Nat /\ Owing' \in Nat
         /\ Owing = pass.read.took + Owing'
<1> DEFINE e == pass.read
<1>1. /\ row.asked = e.asked /\ FrozenByClaim /\ e.claimed /\ exit' = exit
      /\ \/ e = exit /\ exit \notin slipped /\ slipped' = slipped
         \/ e \in slipped /\ e.asked # exit.asked /\ slipped' = slipped \ {e}
      /\ row'.asked = row.asked /\ row'.claimed /\ row'.ingested
  BY AbsorbIs
<1>2. /\ e \in Exit /\ e.took \in Nat /\ exit.took \in Nat
      /\ slipped \subseteq Exit /\ IsFiniteSet(slipped)
      /\ Slipped = SumFunctionOnSet(Takes(slipped), slipped)
  BY SumsAre DEF TypeOK, Exit, ExitInv, SlippedClaims
<1>3. Slipped' = SumFunctionOnSet(Takes(slipped'), slipped')
  BY DEF Slipped, Takes
<1>4. CASE e = exit /\ slipped' = slipped
  <2>1. Owed /\ ~Owed'
    BY <1>1, <1>4 DEF Owed, FrozenByClaim
  <2>2. OnChain = e.took /\ OnChain' = 0
    BY <1>4, <2>1 DEF OnChain
  <2>3. Slipped' = Slipped /\ Slipped \in Nat
    BY <1>2, <1>3, <1>4, SumsAre
  <2> QED
    BY <1>2, <2>2, <2>3 DEF Owing
<1>5. CASE e \in slipped /\ e.asked # exit.asked /\ slipped' = slipped \ {e}
  <2>1. Owed' <=> Owed
    BY <1>1, <1>5 DEF Owed
  <2>2. OnChain' = OnChain /\ OnChain \in Nat
    BY <1>1, <2>1, SumsAre DEF OnChain
  <2> DEFINE S == slipped \ {e}
  <2>3. S \subseteq Exit /\ IsFiniteSet(S) /\ e \notin S /\ S \cup {e} = slipped /\ slipped' = S
    BY <1>2, <1>5, FS_Subset
  <2> HIDE DEF S
  <2>4. SumFunctionOnSet(Takes(slipped), slipped) = e.took + SumFunctionOnSet(Takes(S), S)
    BY <1>2, <2>3, SlippedGrows
  <2>5. SumFunctionOnSet(Takes(S), S) \in Nat
    BY <2>3, SlippedIs DEF Takes
  <2>6. Slipped = e.took + Slipped' /\ Slipped' \in Nat
    BY <1>2, <1>3, <2>3, <2>4, <2>5
  <2> DEFINE took == e.took
             c == OnChain
             p == Slipped
             q == Slipped'
  <2>7. took \in Nat /\ c \in Nat /\ q \in Nat /\ p = took + q /\ Owing = c + p /\ Owing' = c + q
    BY <1>2, <2>2, <2>6 DEF Owing
  <2> HIDE DEF took, c, p, q
  <2>8. Owing = took + Owing' /\ Owing' \in Nat /\ took \in Nat
    BY <2>7
  <2> QED
    BY <2>8 DEF took
<1> QED
  BY <1>1, <1>4, <1>5

LEMMA BalanceOfExits ==
  ASSUME TypeOK, ExitInv, ExitInv', Balance, ExitStep
  PROVE  Balance'
<1>1. UNCHANGED <<moves, ws, Queued, Away, Reversed>>
  BY ExitFrame, QueuedSame, SumsSame
<1>2. /\ ledger \in Int /\ vault \in Int /\ Queued \in Int /\ Away \in Int /\ Reversed \in Int
      /\ forgiven \in Int /\ OnChain \in Int /\ Slipped \in Int /\ exit.took \in Int
      /\ ledger + Away = vault + Queued + forgiven + Reversed + Owing
  BY SumsAre DEF TypeOK, Balance, Exit
<1>3. Owed <=> exit.claimed /\ ~watched
  BY OwedIs
<1>4. Owed' <=> exit'.claimed /\ ~watched'
  BY DEF ExitInv, ClaimsKnown, IsAbsorbed, Owed
<1>5. ASSUME UNCHANGED <<ledger, vault, forgiven, slipped>>, OnChain' = OnChain PROVE Balance'
  <2>1. Owing' = Owing
    BY <1>5 DEF Owing, Slipped
  <2> QED
    BY <1>1, <1>5, <2>1, BalanceSame
<1>6. CASE \E want \in Asks : Request(want)
  <2>1. ~exit.claimed /\ ~exit'.claimed /\ UNCHANGED <<ledger, vault, forgiven, slipped>>
    BY <1>6 DEF Request, NoExit
  <2> QED
    BY <1>3, <1>4, <1>5, <2>1 DEF OnChain
<1>7. CASE Claim
  <2>1. /\ ~exit.claimed /\ exit' = [exit EXCEPT !.claimed = TRUE, !.took = Payout] /\ ~watched'
        /\ vault' = vault - Payout /\ UNCHANGED <<ledger, forgiven, slipped>>
    BY <1>7 DEF Claim
  <2>2. exit'.claimed /\ exit'.took = Payout
    BY <2>1 DEF TypeOK, Exit
  <2>3. OnChain = 0 /\ OnChain' = Payout /\ Slipped' = Slipped
    BY <1>3, <1>4, <2>1, <2>2 DEF OnChain, Slipped
  <2>4. Owing = Slipped /\ Owing' = Payout + Slipped
    BY <1>2, <2>3 DEF Owing
  <2>5. Payout \in Int
    BY PayoutIs
  <2>6. ledger' + Away' = vault' + Queued' + forgiven' + Reversed' + Owing'
    BY <1>1, <1>2, <2>1, <2>4, <2>5
  <2> QED
    BY <2>6 DEF Balance
<1>8. CASE Close
  <2>1. /\ slipped' = IF exit.claimed /\ ~watched THEN slipped \cup {exit} ELSE slipped
        /\ ~exit'.claimed /\ UNCHANGED <<ledger, vault, forgiven>>
    BY <1>8 DEF Close, NoExit
  <2>2. OnChain' = 0
    BY <1>4, <2>1 DEF OnChain
  <2>3. CASE Owed
    <3>1. /\ slipped' = slipped \cup {exit} /\ slipped \subseteq Exit /\ IsFiniteSet(slipped)
          /\ exit \in Exit /\ exit \notin slipped
      BY <1>3, <2>1, <2>3 DEF TypeOK, ExitInv, SlippedClaims
    <3>2. SumFunctionOnSet(Takes(slipped \cup {exit}), slipped \cup {exit})
            = exit.took + SumFunctionOnSet(Takes(slipped), slipped)
      BY <3>1, SlippedGrows
    <3>3. Slipped' = SumFunctionOnSet(Takes(slipped'), slipped')
      BY DEF Slipped, Takes
    <3>4. Slipped' = exit.took + Slipped
      BY <3>1, <3>2, <3>3, SumsAre
    <3>5. OnChain = exit.took
      BY <2>3 DEF OnChain
    <3>6. Owing' = Owing
      BY <1>2, <2>2, <3>4, <3>5 DEF Owing
    <3> QED
      BY <1>1, <2>1, <3>6, BalanceSame
  <2>4. CASE ~Owed
    <3>1. slipped' = slipped /\ OnChain = 0
      BY <1>3, <2>1, <2>4 DEF OnChain
    <3> QED
      BY <1>5, <2>1, <2>2, <3>1
  <2> QED
    BY <2>3, <2>4
<1>9. CASE WindowPasses \/ PassReads \/ Boot
  <2>1. UNCHANGED <<ledger, vault, forgiven, slipped, exit, row>>
    BY <1>9 DEF WindowPasses, PassReads, Boot, exitVars, historyVars
  <2>2. OnChain' = OnChain
    BY <2>1 DEF OnChain, Owed
  <2> QED
    BY <1>5, <2>1, <2>2
<1>10. CASE PassIngests
  <2>1. /\ UNCHANGED <<exit, slipped>>
        /\ watched' = watched \/ (~(pass.read.claimed /\ ~Absorbed(pass.read)) /\ PassDone)
    BY <1>10, IngestIs
  <2>2. UNCHANGED <<ledger, vault, forgiven>>
    BY <1>10 DEF PassIngests
  <2>3. exit.claimed /\ pass.read = exit /\ Absorbed(pass.read) => watched
    BY DEF ExitInv, ClaimsKnown, IsAbsorbed, Absorbed, IsNew
  <2>4. exit.claimed => (watched' <=> watched)
    <3>1. CASE watched' = watched
      BY <3>1
    <3>2. CASE ~(pass.read.claimed /\ ~Absorbed(pass.read)) /\ watched' = (watched \/ pass.read = exit)
      BY <2>3, <3>2
    <3> QED
      BY <2>1, <3>1, <3>2 DEF PassDone
  <2>a. Owed' <=> Owed
    BY <1>3, <1>4, <2>1, <2>4
  <2>5. OnChain' = OnChain
    BY <2>1, <2>a DEF OnChain
  <2> QED
    BY <1>5, <2>1, <2>2, <2>5
<1>11. CASE PassAbsorbs
  <2> DEFINE took == pass.read.took
             d == ToDebit(took)
  <2>1. ledger' = ledger - d /\ forgiven' = forgiven + took - d /\ vault' = vault
    BY <1>11, AbsorbIs
  <2>2. took \in Nat /\ Owing' \in Nat /\ Owing = took + Owing'
    BY <1>11, AbsorbSettles
  <2>3. d \in Int
    BY <1>2, <2>2, DebitIs
  <2> DEFINE o == Owing
             p == Owing'
             rest == Queued + Reversed
  <2>4. /\ took \in Int /\ d \in Int /\ p \in Int /\ o = took + p
        /\ ledger \in Int /\ vault \in Int /\ Away \in Int /\ forgiven \in Int /\ rest \in Int
        /\ ledger + Away = vault + rest + forgiven + o
    BY <1>2, <2>2, <2>3
  <2> HIDE DEF d, took, o, p, rest
  <2>5. (ledger - d) + Away = vault + rest + (forgiven + took - d) + p
    BY <2>4
  <2>6. ledger' + Away = vault + rest + forgiven' + p
    BY <2>1, <2>5
  <2>7. forgiven' \in Int
    BY <2>1, <2>4
  <2>8. ledger' + Away = vault + Queued + forgiven' + Reversed + Owing'
    BY <1>2, <2>4, <2>6, <2>7 DEF p, rest
  <2>9. Away' = Away /\ Queued' = Queued /\ Reversed' = Reversed /\ vault' = vault
    BY <1>1, <2>1
  <2> QED
    BY <2>8, <2>9 DEF Balance
<1>12. CASE PassClears
  <2>1. pass.at = "read" /\ pass.read = NoExit /\ PassDone /\ UNCHANGED <<exit, ledger, vault, forgiven, slipped>>
    BY <1>12 DEF PassClears
  <2>2. exit.claimed => exit # NoExit /\ ~watched
    BY <2>1, ExitFacts DEF ExitInv, OnePass
  <2>3. Owed' <=> Owed
    BY <1>3, <1>4, <2>1, <2>2 DEF PassDone
  <2>4. OnChain' = OnChain
    BY <2>1, <2>3 DEF OnChain
  <2> QED
    BY <1>5, <2>1, <2>4
<1> QED
  BY <1>6, <1>7, <1>8, <1>9, <1>10, <1>11, <1>12 DEF ExitStep, PassStep

LEMMA BalanceOfStop ==
  ASSUME TypeOK, ExitInv, Balance, Stop
  PROVE  Balance'
<1>1. AllChange
  BY AllChangeBy
<1>2. OnItsWay' = OnItsWay /\ PaidAnyway' = PaidAnyway
  BY <1>1 DEF AllChange, OnItsWay, PaidAnyway
<1>3. /\ SumFunctionOnSet(Amounts', OnItsWay) = SumFunctionOnSet(Amounts, OnItsWay)
      /\ SumFunctionOnSet(Amounts', PaidAnyway) = SumFunctionOnSet(Amounts, PaidAnyway)
  BY <1>1, SumsAre, AmountsKept DEF AllChange
<1>4. UNCHANGED <<Away, Reversed>>
  BY <1>2, <1>3 DEF Away, Reversed
<1>5. UNCHANGED <<ledger, vault, moves, forgiven, row, exit, slipped>>
  BY DEF Stop, historyVars
<1>6. UNCHANGED Owing
  BY <1>5 DEF Owing, OnChain, Owed, Slipped
<1> QED
  BY <1>4, <1>5, <1>6, QueuedSame, BalanceSame

BalanceInv == PurseInv /\ Balance

LEMMA BalanceInvInit == Init => BalanceInv
BY PurseInvInit, BalanceInit DEF BalanceInv

LEMMA BalanceInvNext == BalanceInv /\ [Next]_vars => BalanceInv'
<1> SUFFICES ASSUME BalanceInv, [Next]_vars PROVE Balance'
  BY PurseInvNext DEF BalanceInv
<1>0. TypeOK /\ WithdrawalsKept /\ WorkerBusy /\ ExitInv /\ Balance
  BY DEF BalanceInv, PurseInv
<1>1. ExitInv'
  BY PurseInvNext DEF BalanceInv, PurseInv
<1>2. CASE Next
  BY <1>0, <1>1, <1>2, NextSteps, BalanceOfWithdrawals, BalanceOfExits, BalanceOfStop
<1>3. CASE UNCHANGED vars
  <2>1. UNCHANGED <<ledger, vault, moves, ws>> /\ UNCHANGED exitVars
    BY <1>3 DEF vars, exitVars, historyVars
  <2> QED
    BY <1>0, <2>1, OwingSame, QueuedSame, SumsSame, BalanceSame
<1> QED
  BY <1>2, <1>3

\* Once nothing is on its way, ledger and vault differ by what claims took that
\* the ledger no longer had, by withdrawals paid and reversed, and by claims
\* whose record was closed before a whole pass of the watcher had seen them: for
\* any amounts, however often each was used and however long the server was down
\* (withdrawals.ts 294-322, exits.ts 131-197).
THEOREM AlwaysBacked == Spec => []Backed
<1>1. BalanceInv => Backed
  <2> SUFFICES ASSUME BalanceInv, Quiet
               PROVE  ledger = vault + forgiven + Reversed + Slipped
    BY DEF Backed
  <2>1. TypeOK /\ WithdrawalsKept /\ ExitInv /\ Balance
    BY DEF BalanceInv, PurseInv
  <2>2. OnItsWay = {} /\ moves = <<>> /\ ~Owed
    BY <2>1 DEF Quiet, Unsettled, OnItsWay, WithdrawalsKept, Kept
  <2>3. Away = 0 /\ Queued = 0 /\ OnChain = 0
    <3>1. DOMAIN moves = {}
      BY <2>2
    <3> QED
      BY <2>2, <3>1, SumOfNone DEF Away, Queued, OnChain
  <2>4. /\ ledger \in Int /\ vault \in Int /\ forgiven \in Int /\ Reversed \in Int /\ Slipped \in Int
    BY <2>1, SumsAre DEF TypeOK
  <2>5. Owing = Slipped
    BY <2>3, <2>4 DEF Owing
  <2> QED
    BY <2>1, <2>3, <2>4, <2>5 DEF Balance
<1> QED
  BY <1>1, BalanceInvInit, BalanceInvNext, PTL DEF Spec

\* Only the watcher writes off part of a claim. What it writes off was on its
\* way: the ledger still has whatever else the claim took.
LEMMA WrittenOff ==
  ASSUME BalanceInv, Next, forgiven' > forgiven
  PROVE  /\ forgiven' - forgiven <= Away - Queued
         /\ pass.read.asked \in drained => InFlight # {}
<1>0. TypeOK /\ ExitInv /\ DrainedKnown /\ Balance
  BY DEF BalanceInv, PurseInv
<1>1. PassAbsorbs
  <2>1. forgiven \in Nat
    BY <1>0 DEF TypeOK
  <2>2. forgiven' # forgiven
    BY <2>1
  <2>3. ~WithdrawalStep
    BY <2>2, WithdrawalFrame DEF exitVars, historyVars
  <2> QED
    BY <2>2, <2>3, NextSteps
       DEF ExitStep, PassStep, Request, Claim, Close, Boot, PassReads, PassIngests, PassClears, WindowPasses,
           Stop, exitVars, historyVars
<1> DEFINE took == pass.read.took
           d == ToDebit(took)
           off == forgiven' - forgiven
<1>2. took \in Nat /\ Owing' \in Nat /\ Owing = took + Owing'
  BY <1>0, <1>1, AbsorbSettles
<1>3. row.asked = pass.read.asked /\ ~row.ingested /\ forgiven' = forgiven + took - d
  BY <1>0, <1>1, AbsorbIs DEF FrozenByClaim
<1>4. /\ ledger \in Int /\ vault \in Nat /\ forgiven \in Nat /\ Reversed \in Nat /\ Queued \in Int /\ Away \in Int
      /\ ledger + Away = vault + Queued + forgiven + Reversed + Owing
  BY <1>0, SumsAre DEF TypeOK, Balance
<1>5. d \in Nat /\ (took <= d \/ ledger <= d)
  BY <1>2, <1>4, DebitIs
<1>6. off = took - d
  BY <1>2, <1>3, <1>4, <1>5
<1> HIDE DEF took, d
<1>7. off > 0 /\ off <= took - ledger
  BY <1>2, <1>3, <1>4, <1>5, <1>6
<1> DEFINE o == Owing
           p == Owing'
<1>a. o = took + p /\ took \in Nat /\ p \in Nat /\ ledger + Away = vault + Queued + forgiven + Reversed + o
  BY <1>2, <1>4
<1> HIDE DEF o, p
<1>8. took - ledger <= Away - Queued
  BY <1>4, <1>a
<1>9. off <= Away - Queued
  BY <1>2, <1>4, <1>5, <1>6, <1>7, <1>8
<1>10. ASSUME pass.read.asked \in drained, InFlight = {} PROVE FALSE
  <2>1. moves = <<>>
    BY <1>0, <1>3, <1>10 DEF DrainedKnown
  <2>2. OnItsWay = {} /\ DOMAIN moves = {}
    BY <1>10, <2>1 DEF OnItsWay, InFlight
  <2>3. Away = 0 /\ Queued = 0
    BY <2>2, SumOfNone DEF Away, Queued
  <2> QED
    BY <1>2, <1>5, <1>6, <1>7, <1>9, <2>3
<1> QED
  BY <1>9, <1>10

\* What a claim takes that the ledger lacks is money on its way, and none is when
\* the watcher had seen the request and everything was settled by the time it was
\* claimed, unless a withdrawal followed: at every step, for any amounts
\* (exits.ts 27-42, 169-174).
THEOREM AlwaysDebitedInFull == Spec => DebitedInFull
<1>1. BalanceInv /\ [Next]_vars =>
        [forgiven' > forgiven =>
           /\ forgiven' - forgiven <= Away - Queued
           /\ pass.read.asked \in drained => InFlight # {}]_vars
  BY WrittenOff
<1> QED
  BY <1>1, BalanceInvInit, BalanceInvNext, PTL DEF Spec, DebitedInFull
=============================================================================
