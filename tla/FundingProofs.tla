--------------------------- MODULE FundingProofs ---------------------------
(***************************************************************************)
(* The ledger counts more money than came in only by a race, for any       *)
(* amounts, deposits, transfers, matches, withdrawals and lost answers.    *)
(*                                                                         *)
(* The property is not inductive: that a deposit's own request finds the   *)
(* deposit's own money depends on where else that money could have been    *)
(* counted.  Until a race, what the ledger says and the amounts of all     *)
(* deposits still to be counted are together no more than what there is    *)
(* (Honest): a deposit that is counted leaves the sum as it enters the     *)
(* ledger, and other money is counted only when no deposit is left.        *)
(***************************************************************************)
EXTENDS Funding, SequenceTheorems, Sums

\* The pass goes through deposits that are there, and records a surplus only
\* when it has seen one.
Listed ==
  /\ Len(deposits) <= MaxTops
  /\ sweep.todo \subseteq DOMAIN deposits
  /\ sweep.at \in {"weighing", "asking"} => sweep.d \in DOMAIN deposits
  /\ sweep.at = "crediting" => sweep.seen > sweep.held
FundingTyped == TypeOK /\ Listed

\* What the deposits in D are worth.
Amounts == [d \in DOMAIN deposits |-> deposits[d].amount]
Worth(D) == SumFunctionOnSet(Amounts, D)

\* There is money for every deposit that has come in and is still to be counted.
Honest == ~raced => Over + Worth(Fresh) <= 0
FundingInv == FundingTyped /\ Honest
-----------------------------------------------------------------------------
(* Types.                                                                  *)

LEMMA FundingArguments ==
  /\ Start \in Nat /\ Tops \subseteq Nat \ {0} /\ Nets \subseteq Nat \ {0}
  /\ MaxTops \in Nat /\ MaxGifts \in Nat /\ MaxMoves \in Nat
  /\ MaxWithdrawals \in Nat /\ MaxOutages \in Nat
BY FundingAssumption

SweepType == [at: {"idle", "sweeping", "weighing", "asking", "reading", "crediting"},
              todo: SUBSET Ids, d: Ids \cup {0}, seen: Nat, held: Nat]

LeavingType == [amount: Nat, remaining: Nat]

LEMMA TypeIs ==
  TypeOK <=> /\ ledger \in Nat /\ vault \in Nat /\ moves \in Seq(Int)
             /\ leaving \in LeavingType /\ failed \in BOOLEAN
             /\ deposits \in Seq(Deposit) /\ sweep \in SweepType
             /\ spent \subseteq Ids
             /\ made \in [gifts: Nat, moves: Nat, withdrawals: Nat, outages: Nat] /\ raced \in BOOLEAN
BY DEF TypeOK, SweepType, LeavingType

\* A deposit changes its status, its transaction's fate or who waits for it.
Becomes(d, status, fate) ==
  /\ d \in DOMAIN deposits /\ deposits[d] \in Deposit
  /\ deposits' \in Seq(Deposit) /\ Len(deposits') = Len(deposits) /\ DOMAIN deposits' = DOMAIN deposits
  /\ deposits'[d].amount = deposits[d].amount
  /\ deposits'[d].status = status /\ deposits'[d].fate = fate
  /\ \A e \in DOMAIN deposits \ {d} : deposits'[e] = deposits[e]

LEMMA DepositsAre ==
  ASSUME TypeOK
  PROVE  /\ Len(deposits) \in Nat /\ DOMAIN deposits = 1 .. Len(deposits)
         /\ \A d \in DOMAIN deposits : deposits[d] \in Deposit
<1>1. deposits \in Seq(Deposit)
  BY DEF TypeOK
<1> QED
  BY <1>1

LEMMA BecomesBy ==
  ASSUME TypeOK, NEW d \in DOMAIN deposits, NEW w \in Deposit, w.amount = deposits[d].amount,
         deposits' = [deposits EXCEPT ![d] = w]
  PROVE  Becomes(d, w.status, w.fate)
<1>1. deposits \in Seq(Deposit) /\ d \in 1 .. Len(deposits) /\ deposits[d] \in Deposit
  BY DepositsAre DEF TypeOK
<1>2. /\ deposits' \in Seq(Deposit) /\ Len(deposits') = Len(deposits)
  BY <1>1, ExceptSeq
<1>3. DOMAIN deposits' = DOMAIN deposits /\ deposits'[d] = w
      /\ \A e \in DOMAIN deposits \ {d} : deposits'[e] = deposits[e]
  BY <1>1
<1> QED
  BY <1>1, <1>2, <1>3 DEF Becomes

LEMMA LandsBecomes ==
  ASSUME TypeOK, NEW d \in DOMAIN deposits, NEW fate \in {"landed", "dead"},
         deposits' = [deposits EXCEPT ![d].fate = fate]
  PROVE  Becomes(d, deposits[d].status, fate)
<1> DEFINE w == [deposits[d] EXCEPT !.fate = fate]
<1>1. deposits[d] \in Deposit
  BY DepositsAre
<1>2. /\ w \in Deposit /\ w.amount = deposits[d].amount /\ w.status = deposits[d].status /\ w.fate = fate
      /\ deposits' = [deposits EXCEPT ![d] = w]
  BY <1>1 DEF Deposit
<1> HIDE DEF w
<1> QED
  BY <1>2, BecomesBy

LEMMA SubmitBecomes ==
  ASSUME TypeOK, NEW d \in DOMAIN deposits,
         deposits' = [deposits EXCEPT ![d].status = "submitted", ![d].replying = TRUE]
  PROVE  Becomes(d, "submitted", deposits[d].fate)
<1> DEFINE w == [deposits[d] EXCEPT !.status = "submitted", !.replying = TRUE]
<1>1. deposits[d] \in Deposit
  BY DepositsAre
<1>2. /\ w \in Deposit /\ w.amount = deposits[d].amount /\ w.status = "submitted" /\ w.fate = deposits[d].fate
  BY <1>1 DEF Deposit
<1>3. deposits' = [deposits EXCEPT ![d] = w]
  BY <1>1
<1> HIDE DEF w
<1>4. Becomes(d, w.status, w.fate)
  BY <1>2, <1>3, BecomesBy, Zenon
<1> QED
  BY <1>2, <1>4, Zenon

LEMMA AnswerBecomes ==
  ASSUME TypeOK, NEW d \in DOMAIN deposits,
         deposits' = [deposits EXCEPT ![d].status = "confirmed", ![d].replying = FALSE]
  PROVE  Becomes(d, "confirmed", deposits[d].fate)
<1> DEFINE w == [deposits[d] EXCEPT !.status = "confirmed", !.replying = FALSE]
<1>1. deposits[d] \in Deposit
  BY DepositsAre
<1>2. /\ w \in Deposit /\ w.amount = deposits[d].amount /\ w.status = "confirmed" /\ w.fate = deposits[d].fate
  BY <1>1 DEF Deposit
<1>3. deposits' = [deposits EXCEPT ![d] = w]
  BY <1>1
<1> HIDE DEF w
<1>4. Becomes(d, w.status, w.fate)
  BY <1>2, <1>3, BecomesBy, Zenon
<1> QED
  BY <1>2, <1>4, Zenon

LEMMA ConfirmBecomes ==
  ASSUME TypeOK, NEW d \in DOMAIN deposits, Confirm(d)
  PROVE  Becomes(d, "confirmed", deposits[d].fate)
<1> DEFINE w == [deposits[d] EXCEPT !.status = "confirmed"]
<1>1. deposits[d] \in Deposit
  BY DepositsAre
<1>2. /\ w \in Deposit /\ w.amount = deposits[d].amount /\ w.status = "confirmed" /\ w.fate = deposits[d].fate
      /\ deposits' = [deposits EXCEPT ![d] = w]
  BY <1>1 DEF Deposit, Confirm
<1> HIDE DEF w
<1> QED
  BY <1>2, BecomesBy

LEMMA GiveUpBecomes ==
  ASSUME TypeOK, NEW d \in DOMAIN deposits, deposits' = [deposits EXCEPT ![d].replying = FALSE]
  PROVE  Becomes(d, deposits[d].status, deposits[d].fate)
<1> DEFINE w == [deposits[d] EXCEPT !.replying = FALSE]
<1>1. deposits[d] \in Deposit
  BY DepositsAre
<1>2. /\ w \in Deposit /\ w.amount = deposits[d].amount /\ w.status = deposits[d].status
      /\ w.fate = deposits[d].fate /\ deposits' = [deposits EXCEPT ![d] = w]
  BY <1>1 DEF Deposit
<1> HIDE DEF w
<1> QED
  BY <1>2, BecomesBy

\* The sweep gives up one deposit, or leaves all as they are.
LEMMA AsksBecomes ==
  ASSUME FundingTyped, SweepAsks
  PROVE  \/ /\ Becomes(sweep.d, "expired", deposits[sweep.d].fate)
            /\ deposits[sweep.d].status # "confirmed"
         \/ deposits' = deposits
<1> DEFINE d == sweep.d
<1>1. TypeOK /\ d \in DOMAIN deposits /\ deposits[d] \in Deposit /\ deposits \in Seq(Deposit)
  BY DepositsAre DEF FundingTyped, Listed, SweepAsks, TypeOK
<1>2. deposits' = [e \in DOMAIN deposits |->
                     IF e \in Hopeless(d) /\ deposits[e].fate # "live"
                       THEN [deposits[e] EXCEPT !.status = "expired"] ELSE deposits[e]]
  BY DEF SweepAsks
<1>3. Hopeless(d) \subseteq {d}
  BY DEF Hopeless
<1> HIDE DEF d
<1>4. CASE d \in Hopeless(d) /\ deposits[d].fate # "live"
  <2> DEFINE w == [deposits[d] EXCEPT !.status = "expired"]
  <2>1. /\ w \in Deposit /\ w.amount = deposits[d].amount /\ w.status = "expired"
        /\ w.fate = deposits[d].fate
    BY <1>1 DEF Deposit
  <2>2. deposits' = [deposits EXCEPT ![d] = w]
    BY <1>1, <1>2, <1>3, <1>4
  <2> HIDE DEF w
  <2> QED
    BY <1>1, <1>4, <2>1, <2>2, BecomesBy DEF d, Hopeless, InFlight
<1>5. CASE ~(d \in Hopeless(d) /\ deposits[d].fate # "live")
  <2>1. deposits' = [e \in DOMAIN deposits |-> deposits[e]]
    BY <1>2, <1>3, <1>5
  <2> QED
    BY <1>1, <2>1
<1> QED
  BY <1>4, <1>5

LEMMA PrepareAppends ==
  ASSUME TypeOK, NEW amount \in Tops, NEW built \in BOOLEAN, Prepare(amount, built)
  PROVE  /\ deposits' \in Seq(Deposit) /\ Len(deposits') = Len(deposits) + 1
         /\ DOMAIN deposits \subseteq DOMAIN deposits'
         /\ deposits'[Len(deposits) + 1].fate \in {"live", "none"}
         /\ Len(deposits') <= MaxTops
<1> DEFINE w == [amount |-> amount, status |-> "prepared", replying |-> FALSE,
                 fate |-> IF built THEN "live" ELSE "none"]
<1>1. w \in Deposit /\ w.fate \in {"live", "none"}
  BY FundingArguments DEF Deposit
<1>2. deposits' = Append(deposits, w) /\ deposits \in Seq(Deposit) /\ Len(deposits) < MaxTops
  BY DEF Prepare, TypeOK
<1> HIDE DEF w
<1> QED
  BY <1>1, <1>2, FundingArguments

\* A move that has landed is gone from the queue, and so is what it brings.
LEMMA MoveGone ==
  ASSUME NEW s \in Seq(Int), NEW i \in DOMAIN s
  PROVE  /\ RemoveAt(s, i) \in Seq(Int)
         /\ SumFunctionOnSet(s, DOMAIN s) = s[i] + SumFunctionOnSet(RemoveAt(s, i), DOMAIN RemoveAt(s, i))
<1> DEFINE n == Len(s)
           p == SubSeq(s, 1, i - 1)
           q == SubSeq(s, i + 1, n)
           t == p \o q
<1>1. n \in Nat /\ i \in 1 .. n /\ \A j \in 1 .. n : s[j] \in Int
  OBVIOUS
<1>2. p \in Seq(Int) /\ Len(p) = i - 1 /\ \A j \in 1 .. i - 1 : p[j] = s[j]
  <2>1. (i - 1) \in Int /\ 1 \in Int /\ \A j \in 1 .. i - 1 : s[j] \in Int
    BY <1>1
  <2>2. /\ p \in Seq(Int) /\ Len(p) = (IF 1 <= i - 1 THEN i - 1 - 1 + 1 ELSE 0)
        /\ \A j \in 1 .. (i - 1) - 1 + 1 : p[j] = s[1 + j - 1]
    BY <2>1, SubSeqProperties
  <2> HIDE DEF p
  <2>3. Len(p) = i - 1 /\ \A j \in 1 .. i - 1 : j \in 1 .. (i - 1) - 1 + 1 /\ 1 + j - 1 = j
    BY <1>1, <2>2
  <2> QED
    BY <2>2, <2>3
<1>3. q \in Seq(Int) /\ Len(q) = n - i /\ \A j \in 1 .. n - i : q[j] = s[i + j]
  <2>1. i + 1 \in Int /\ n \in Int /\ \A j \in i + 1 .. n : s[j] \in Int
    BY <1>1
  <2>2. /\ q \in Seq(Int) /\ Len(q) = (IF i + 1 <= n THEN n - (i + 1) + 1 ELSE 0)
        /\ \A j \in 1 .. n - (i + 1) + 1 : q[j] = s[i + 1 + j - 1]
    BY <2>1, SubSeqProperties
  <2> HIDE DEF q, n
  <2>3. (IF i + 1 <= n THEN n - (i + 1) + 1 ELSE 0) = n - i
    BY <1>1
  <2>4. Len(q) = n - i
    <3> DEFINE L == IF i + 1 <= n THEN n - (i + 1) + 1 ELSE 0
    <3>1. Len(q) = L /\ L = n - i
      BY <2>2, <2>3
    <3> QED
      BY <3>1
  <2>5. \A j \in 1 .. n - i : j \in 1 .. n - (i + 1) + 1 /\ i + 1 + j - 1 = i + j
    BY <1>1
  <2> QED
    BY <2>2, <2>4, <2>5
<1> HIDE DEF p, q, n
<1>4. /\ t \in Seq(Int) /\ Len(t) = n - 1
      /\ \A j \in 1 .. n - 1 : t[j] = IF j <= i - 1 THEN p[j] ELSE q[j - (i - 1)]
  <2>1. /\ t \in Seq(Int) /\ Len(t) = Len(p) + Len(q)
        /\ \A j \in 1 .. Len(p) + Len(q) : t[j] = IF j <= Len(p) THEN p[j] ELSE q[j - Len(p)]
    BY <1>2, <1>3, ConcatProperties
  <2> HIDE DEF t
  <2>2. Len(p) + Len(q) = n - 1
    BY <1>1, <1>2, <1>3
  <2> QED
    BY <1>2, <2>1, <2>2
<1> HIDE DEF t
<1>5. ASSUME NEW j \in 1 .. n - 1 PROVE t[j] = IF j < i THEN s[j] ELSE s[j + 1]
  <2>1. CASE j < i
    <3>1. j <= i - 1 /\ j \in 1 .. i - 1
      BY <1>1, <2>1
    <3> QED
      BY <1>2, <1>4, <2>1, <3>1
  <2>2. CASE i <= j
    <3>1. ~(j <= i - 1) /\ ~(j < i) /\ j - (i - 1) \in 1 .. n - i /\ i + (j - (i - 1)) = j + 1
      BY <1>1, <2>2
    <3>2. t[j] = q[j - (i - 1)]
      BY <1>4, <3>1
    <3>3. q[j - (i - 1)] = s[j + 1]
      BY <1>3, <3>1
    <3> QED
      BY <3>1, <3>2, <3>3
  <2> QED
    BY <1>1, <2>1, <2>2
<1>6. Len(t) + 1 = Len(s) /\ 1 .. Len(t) = 1 .. n - 1
  BY <1>1, <1>4 DEF n
<1>7. SumFunctionOnSet(s, DOMAIN s) = s[i] + SumFunctionOnSet(t, DOMAIN t)
  BY <1>4, <1>5, <1>6, SumOneGone
<1>8. RemoveAt(s, i) = t
  BY DEF RemoveAt, t, p, q, n
<1> QED
  BY <1>4, <1>7, <1>8

LEMMA SumsToInt ==
  ASSUME NEW s \in Seq(Int)
  PROVE  SumFunctionOnSet(s, DOMAIN s) \in Int
<1>1. Len(s) \in Nat /\ DOMAIN s = 1 .. Len(s) /\ \A i \in DOMAIN s : s[i] \in Int
  OBVIOUS
<1> QED
  BY <1>1, IndicesFinite, SumInt

\* What has come in and is to be counted is among the deposits.
LEMMA FreshThere ==
  ASSUME FundingTyped
  PROVE  Fresh \subseteq DOMAIN deposits /\ Fresh \subseteq Ids /\ GivenUp \subseteq Ids
<1>1. Fresh \subseteq DOMAIN deposits /\ GivenUp \subseteq Fresh
  BY DEF Fresh, GivenUp
<1>2. DOMAIN deposits \subseteq Ids
  BY DepositsAre, FundingArguments DEF FundingTyped, Listed, Ids
<1> QED
  BY <1>1, <1>2
-----------------------------------------------------------------------------
LEMMA TypeInit == Init => FundingTyped
<1> SUFFICES ASSUME Init PROVE FundingTyped
  OBVIOUS
<1>1. Idle \in SweepType
  BY DEF Idle, SweepType
<1>2. /\ <<>> \in Seq(Int) /\ <<>> \in Seq(Deposit) /\ FALSE \in BOOLEAN
      /\ [gifts |-> 0, moves |-> 0, withdrawals |-> 0, outages |-> 0] \in [gifts: Nat, moves: Nat, withdrawals: Nat, outages: Nat]
  OBVIOUS
<1>3. TypeOK
  <2>1. leaving \in LeavingType
    BY DEF Init, NoneLeaves, LeavingType
  <2> QED
    BY <1>1, <1>2, <2>1, TypeIs, FundingArguments, Zenon DEF Init
<1>4. Listed
  BY FundingArguments DEF Init, Listed, Idle
<1> QED
  BY <1>3, <1>4 DEF FundingTyped

\* The pass stays where it is, and finds its deposits where they were.
LEMMA ListedStays ==
  ASSUME Listed, UNCHANGED sweep, DOMAIN deposits \subseteq DOMAIN deposits', Len(deposits') <= MaxTops
  PROVE  Listed'
BY DEF Listed

LEMMA SweepMoves ==
  ASSUME FundingTyped, NEW todo, todo \subseteq DOMAIN deposits
  PROVE  /\ NextOf(todo) \in SweepType /\ NextOf(todo).at = "sweeping" /\ NextOf(todo).todo = todo
         /\ Idle \in SweepType /\ Idle.at = "idle" /\ Idle.todo = {}
<1>1. todo \subseteq Ids
  BY DepositsAre, FundingArguments DEF FundingTyped, Listed, Ids
<1> QED
  BY <1>1 DEF NextOf, Idle, SweepType

LEMMA UncountedIs ==
  ASSUME TypeOK, NEW d \in DOMAIN deposits
  PROVE  /\ Uncounted(d) \in {0, deposits[d].amount} /\ Uncounted(d) \in Nat
         /\ deposits[d].amount \in Nat
         /\ deposits[d].status = "confirmed" => Uncounted(d) = 0
<1>1. deposits[d] \in Deposit
  BY DepositsAre
<1> QED
  BY <1>1 DEF Uncounted, Deposit

LEMMA CountsUp ==
  ASSUME NEW m \in [gifts: Nat, moves: Nat, withdrawals: Nat, outages: Nat]
  PROVE  /\ [m EXCEPT !.gifts = @ + 1] \in [gifts: Nat, moves: Nat, withdrawals: Nat, outages: Nat]
         /\ [m EXCEPT !.withdrawals = @ + 1] \in [gifts: Nat, moves: Nat, withdrawals: Nat, outages: Nat]
         /\ [m EXCEPT !.moves = @ + 1] \in [gifts: Nat, moves: Nat, withdrawals: Nat, outages: Nat]
         /\ [m EXCEPT !.outages = @ + 1] \in [gifts: Nat, moves: Nat, withdrawals: Nat, outages: Nat]
OBVIOUS

LEMMA TypeOfMoney ==
  ASSUME FundingTyped,
         \/ \E n \in Nets : Play(n) \/ Play(-n)
         \/ \E i \in 1 .. MaxMoves : MoveLands(i)
         \/ \E amount \in Tops : Gift(amount) \/ Withdraw(amount)
         \/ WithdrawalStep
  PROVE  FundingTyped'
<1>1. /\ ledger \in Nat /\ vault \in Nat /\ moves \in Seq(Int) /\ TypeOK /\ Listed
      /\ leaving \in LeavingType /\ failed \in BOOLEAN
      /\ made \in [gifts: Nat, moves: Nat, withdrawals: Nat, outages: Nat]
  BY TypeIs DEF FundingTyped
<1>2. ASSUME NEW net \in Int, Play(net) PROVE FundingTyped'
  <2>1. made' = [made EXCEPT !.moves = @ + 1] /\ moves' = Append(moves, net)
        /\ ledger' = ledger + net /\ ledger + net >= 0
    BY <1>2 DEF Play
  <2>2. made' \in [gifts: Nat, moves: Nat, withdrawals: Nat, outages: Nat]
    BY <1>1, <2>1, CountsUp
  <2>3. ledger' \in Nat /\ moves' \in Seq(Int)
    BY <1>1, <2>1
  <2> QED
    BY <1>1, <1>2, <2>2, <2>3 DEF Play, TypeOK, historyVars, Listed, FundingTyped
<1>3. ASSUME NEW i, MoveLands(i) PROVE FundingTyped'
  <2>1. vault' \in Nat /\ moves' \in Seq(Int)
    BY <1>1, <1>3, MoveGone DEF MoveLands, Covered
  <2> QED
    BY <1>1, <1>3, <2>1 DEF MoveLands, TypeOK, historyVars, Listed, FundingTyped
<1>4. ASSUME NEW amount \in Tops, Gift(amount) PROVE FundingTyped'
  <2>1. made' = [made EXCEPT !.gifts = @ + 1] /\ vault' = vault + amount /\ amount \in Nat
    BY <1>4, FundingArguments DEF Gift
  <2>2. made' \in [gifts: Nat, moves: Nat, withdrawals: Nat, outages: Nat]
    BY <1>1, <2>1, CountsUp
  <2>3. vault' \in Nat
    BY <1>1, <2>1
  <2> QED
    BY <1>1, <1>4, <2>2, <2>3 DEF Gift, TypeOK, opVars, historyVars, Listed, FundingTyped
<1>5. ASSUME NEW amount \in Tops, Withdraw(amount) PROVE FundingTyped'
  <2>1. /\ made' = [made EXCEPT !.withdrawals = @ + 1] /\ ledger' = ledger - amount
        /\ leaving' = [amount |-> amount, remaining |-> ledger - amount] /\ amount < ledger
        /\ amount \in Nat
    BY <1>5, FundingArguments DEF Withdraw
  <2>2. made' \in [gifts: Nat, moves: Nat, withdrawals: Nat, outages: Nat]
    BY <1>1, <2>1, CountsUp
  <2>3. ledger' \in Nat /\ leaving' \in LeavingType
    BY <1>1, <2>1 DEF LeavingType
  <2> QED
    BY <1>1, <1>5, <2>2, <2>3 DEF Withdraw, TypeOK, LeavingType, historyVars, Listed, FundingTyped
<1>6. CASE WithdrawalStep
  <2>1. NoneLeaves \in LeavingType /\ leaving.amount \in Nat /\ leaving.remaining \in Nat
    BY <1>1 DEF NoneLeaves, LeavingType
  <2>2. ledger' \in Nat /\ vault' \in Nat /\ leaving' \in LeavingType /\ failed' \in BOOLEAN
    <3>1. CASE WithdrawalLands
      BY <1>1, <2>1, <3>1 DEF WithdrawalLands
    <3>2. CASE WithdrawalExpires
      <4>1. ledger' = ledger + leaving.amount
        BY <3>2 DEF WithdrawalExpires
      <4>2. ledger' \in Nat
        BY <1>1, <2>1, <4>1
      <4> QED
        BY <1>1, <2>1, <3>2, <4>2 DEF WithdrawalExpires
    <3> QED
      BY <1>6, <3>1, <3>2 DEF WithdrawalStep
  <2>3. UNCHANGED <<moves, deposits, sweep, made, spent, raced>>
    BY <1>6 DEF WithdrawalStep, WithdrawalLands, WithdrawalExpires, historyVars
  <2> QED
    BY <1>1, <2>2, <2>3 DEF TypeOK, LeavingType, Listed, FundingTyped
<1> QED
  BY <1>2, <1>3, <1>4, <1>5, <1>6, FundingArguments

LEMMA TypeOfDeposits ==
  ASSUME FundingTyped,
         \/ RequestStep
         \/ \E amount \in Tops, built \in BOOLEAN : Prepare(amount, built)
         \/ \E d \in Ids : Submit(d)
         \/ \E d \in Ids : DepositLands(d) \/ HeightPasses(d)
  PROVE  FundingTyped'
<1>1. /\ ledger \in Nat /\ vault \in Nat /\ TypeOK /\ Listed /\ Len(deposits) <= MaxTops /\ raced \in BOOLEAN
  BY TypeIs DEF FundingTyped, Listed
<1>2. ASSUME NEW d, NEW status, NEW fate, Becomes(d, status, fate),
             UNCHANGED <<opVars, sweep, made, spent>>, {ledger', vault'} \subseteq Nat, raced' \in BOOLEAN
      PROVE  FundingTyped'
  BY <1>1, <1>2, ListedStays DEF Becomes, TypeOK, opVars, FundingTyped
<1>3. ASSUME NEW amount \in Tops, NEW built \in BOOLEAN, Prepare(amount, built) PROVE FundingTyped'
  BY <1>1, <1>3, PrepareAppends, ListedStays DEF Prepare, TypeOK, opVars, historyVars, FundingTyped
<1>4. ASSUME NEW d, Submit(d) PROVE FundingTyped'
  <2>1. d \in DOMAIN deposits
    BY <1>4 DEF Submit, InFlight
  <2> QED
    BY <1>1, <1>2, <1>4, <2>1, SubmitBecomes DEF Submit, historyVars
<1>5. ASSUME NEW d, RequestConfirms(d) PROVE FundingTyped'
  <2>1. d \in DOMAIN deposits /\ ledger' = ledger + Uncounted(d) /\ raced' \in BOOLEAN
    BY <1>1, <1>5 DEF RequestConfirms
  <2>2. ledger' \in Nat
    BY <1>1, <2>1, UncountedIs
  <2> QED
    BY <1>1, <1>2, <1>5, <2>1, <2>2, AnswerBecomes DEF RequestConfirms
<1>6. ASSUME NEW d, RequestGivesUp(d) PROVE FundingTyped'
  BY <1>1, <1>2, <1>6, GiveUpBecomes DEF RequestGivesUp, historyVars
<1>7. ASSUME NEW d, DepositLands(d) PROVE FundingTyped'
  <2>1. d \in DOMAIN deposits /\ vault' = vault + deposits[d].amount /\ deposits[d].amount \in Nat
    BY <1>1, <1>7, UncountedIs DEF DepositLands
  <2>2. vault' \in Nat
    BY <1>1, <2>1
  <2> QED
    BY <1>1, <1>2, <1>7, <2>1, <2>2, LandsBecomes DEF DepositLands, historyVars
<1>8. ASSUME NEW d, HeightPasses(d) PROVE FundingTyped'
  BY <1>1, <1>2, <1>8, LandsBecomes DEF HeightPasses, historyVars
<1> QED
  BY <1>3, <1>4, <1>5, <1>6, <1>7, <1>8 DEF RequestStep

LEMMA TypeOfSweep ==
  ASSUME FundingTyped, SweepStep
  PROVE  FundingTyped'
<1>1. /\ ledger \in Nat /\ vault \in Nat /\ moves \in Seq(Int) /\ deposits \in Seq(Deposit)
      /\ sweep \in SweepType /\ made \in [gifts: Nat, moves: Nat, withdrawals: Nat, outages: Nat] /\ raced \in BOOLEAN
      /\ TypeOK /\ Listed /\ Len(deposits) <= MaxTops /\ spent \subseteq Ids
      /\ Fresh \subseteq Ids /\ GivenUp \subseteq Ids
  BY TypeIs, FreshThere DEF FundingTyped, Listed
<1>2. /\ sweep.todo \subseteq DOMAIN deposits /\ sweep.seen \in Nat /\ sweep.held \in Nat
      /\ sweep.at \in {"weighing", "asking"} => sweep.d \in DOMAIN deposits
      /\ sweep.at = "crediting" => sweep.seen > sweep.held
  BY <1>1 DEF Listed, SweepType
\* Where the pass goes, its deposits stay.
<1>3. ASSUME sweep' \in SweepType,
             sweep'.todo \subseteq DOMAIN deposits',
             sweep'.at \in {"weighing", "asking"} => sweep'.d \in DOMAIN deposits',
             sweep'.at = "crediting" => sweep'.seen > sweep'.held,
             deposits' \in Seq(Deposit), Len(deposits') <= MaxTops, ledger' \in Nat,
             UNCHANGED <<vault, opVars>>, raced' \in BOOLEAN, spent' \subseteq Ids,
             made' \in [gifts: Nat, moves: Nat, withdrawals: Nat, outages: Nat]
      PROVE  FundingTyped'
  BY <1>1, <1>3 DEF FundingTyped, TypeOK, Listed, SweepType, opVars
\* The rest of the pass, once one deposit is done with.
<1>4. ASSUME sweep' = Rest, deposits' \in Seq(Deposit), DOMAIN deposits' = DOMAIN deposits,
             Len(deposits') <= MaxTops, ledger' \in Nat, UNCHANGED <<vault, opVars, made>>,
             raced' \in BOOLEAN, spent' \subseteq Ids
      PROVE  FundingTyped'
  <2>1. sweep.todo \ {sweep.d} \subseteq DOMAIN deposits
    BY <1>2
  <2>2. sweep' \in SweepType /\ sweep'.at = "sweeping" /\ sweep'.todo \subseteq DOMAIN deposits
    BY <1>4, <2>1, SweepMoves DEF Rest
  <2> QED
    BY <1>1, <1>3, <1>4, <2>2
<1>5. CASE SweepStarts
  <2>1. InFlight({"submitted"}) \subseteq DOMAIN deposits
    BY DEF InFlight
  <2>2. sweep' \in SweepType /\ sweep'.at = "sweeping" /\ sweep'.todo \subseteq DOMAIN deposits
    BY <1>5, <2>1, SweepMoves DEF SweepStarts, historyVars
  <2> QED
    BY <1>1, <1>3, <1>5, <2>2 DEF SweepStarts, historyVars
<1>6. ASSUME NEW d \in Ids, NEW answered \in BOOLEAN, SweepLooks(d, answered) PROVE FundingTyped'
  <2>1. made' = [made EXCEPT !.outages = IF answered THEN @ ELSE @ + 1] /\ d \in sweep.todo
        /\ sweep' = [sweep EXCEPT !.at = IF answered THEN "weighing" ELSE "asking", !.d = d,
                                  !.seen = IF answered THEN vault ELSE 0]
    BY <1>6 DEF SweepLooks, historyVars
  <2>2. made' \in [gifts: Nat, moves: Nat, withdrawals: Nat, outages: Nat]
    BY <1>1, <2>1
  <2>3. /\ sweep' \in SweepType /\ sweep'.todo = sweep.todo /\ sweep'.d = d
        /\ sweep'.at \in {"weighing", "asking"}
    BY <1>1, <2>1 DEF SweepType
  <2> QED
    BY <1>1, <1>2, <1>3, <1>6, <2>1, <2>2, <2>3 DEF SweepLooks, historyVars
<1>7. CASE SweepWeighs
  <2>1. sweep.at = "weighing" /\ sweep.d \in DOMAIN deposits
    BY <1>2, <1>7 DEF SweepWeighs
  <2>2. CASE /\ Confirm(sweep.d) /\ sweep' = Rest /\ raced' = (raced \/ Misread)
             /\ spent' \in {spent, spent \cup Fresh}
    <3>1. Becomes(sweep.d, "confirmed", deposits[sweep.d].fate)
      BY <1>1, <2>1, <2>2, ConfirmBecomes
    <3>2. ledger' = ledger + Uncounted(sweep.d) /\ Uncounted(sweep.d) \in Nat
      BY <1>1, <2>1, <2>2, UncountedIs DEF Confirm
    <3>3. ledger' \in Nat /\ raced' \in BOOLEAN /\ spent' \subseteq Ids
      BY <1>1, <2>2, <3>2
    <3> QED
      BY <1>1, <1>4, <1>7, <2>2, <3>1, <3>3 DEF Becomes, SweepWeighs
  <2>3. CASE sweep' = [sweep EXCEPT !.at = "asking"] /\ UNCHANGED <<ledger, deposits, historyVars>>
    <3>1. /\ sweep' \in SweepType /\ sweep'.todo = sweep.todo /\ sweep'.d = sweep.d
          /\ sweep'.at = "asking"
      BY <1>1, <2>3 DEF SweepType
    <3> QED
      BY <1>1, <1>2, <1>3, <1>7, <2>1, <2>3, <3>1 DEF SweepWeighs, historyVars
  <2> QED
    BY <1>7, <2>2, <2>3 DEF SweepWeighs
<1>8. CASE SweepAsks
  <2>1. \/ Becomes(sweep.d, "expired", deposits[sweep.d].fate)
        \/ deposits' = deposits
    BY <1>8, AsksBecomes
  <2>2. deposits' \in Seq(Deposit) /\ DOMAIN deposits' = DOMAIN deposits /\ Len(deposits') = Len(deposits)
    BY <1>1, <2>1 DEF Becomes
  <2> QED
    BY <1>1, <1>4, <1>8, <2>2 DEF SweepAsks, historyVars
<1>9. CASE CreditReads
  <2>1. Idle \in SweepType /\ Idle.at = "idle" /\ Idle.todo = {}
    BY SweepMoves
  <2>2. CASE sweep' = Idle
    BY <1>1, <1>3, <1>9, <2>1, <2>2 DEF CreditReads, historyVars
  <2>3. CASE sweep' = [Idle EXCEPT !.at = "reading", !.held = ledger]
    <3>1. sweep' \in SweepType /\ sweep'.at = "reading" /\ sweep'.todo = {}
      BY <1>1, <2>3 DEF Idle, SweepType
    <3> QED
      BY <1>1, <1>3, <1>9, <3>1 DEF CreditReads, historyVars
  <2> QED
    BY <1>9, <2>2, <2>3 DEF CreditReads, historyVars
<1>10. ASSUME NEW answered \in BOOLEAN, CreditLooks(answered) PROVE FundingTyped'
  <2>1. made' = [made EXCEPT !.outages = IF answered THEN @ ELSE @ + 1]
    BY <1>10 DEF CreditLooks, historyVars
  <2>2. made' \in [gifts: Nat, moves: Nat, withdrawals: Nat, outages: Nat]
    BY <1>1, <2>1
  <2>3. Idle \in SweepType /\ Idle.at = "idle" /\ Idle.todo = {}
    BY SweepMoves
  <2>4. CASE sweep' = Idle
    BY <1>1, <1>3, <1>10, <2>2, <2>3, <2>4 DEF CreditLooks, historyVars
  <2>5. CASE vault > sweep.held /\ sweep' = [sweep EXCEPT !.at = "crediting", !.seen = vault]
    <3>1. /\ sweep' \in SweepType /\ sweep'.at = "crediting" /\ sweep'.todo = sweep.todo
          /\ sweep'.seen = vault /\ sweep'.held = sweep.held
      BY <1>1, <2>5 DEF SweepType
    <3> QED
      BY <1>1, <1>2, <1>3, <1>10, <2>2, <2>5, <3>1 DEF CreditLooks, historyVars
  <2> QED
    BY <1>10, <2>4, <2>5 DEF CreditLooks, historyVars
<1>11. CASE CreditRecords
  <2>1. Idle \in SweepType /\ Idle.at = "idle" /\ Idle.todo = {}
    BY SweepMoves
  <2>2. ledger' \in {ledger, ledger + sweep.seen - sweep.held} /\ sweep.seen > sweep.held
        /\ raced' \in BOOLEAN /\ spent' \subseteq Ids
    BY <1>1, <1>2, <1>11 DEF CreditRecords
  <2>3. ledger' \in Nat
    BY <1>1, <1>2, <2>2
  <2> QED
    BY <1>1, <1>3, <1>11, <2>1, <2>2, <2>3 DEF CreditRecords
<1> QED
  BY <1>5, <1>6, <1>7, <1>8, <1>9, <1>10, <1>11 DEF SweepStep

LEMMA TypeStep == FundingTyped /\ [Next]_vars => FundingTyped'
<1> SUFFICES ASSUME FundingTyped, [Next]_vars PROVE FundingTyped'
  OBVIOUS
<1>1. CASE UNCHANGED vars
  BY <1>1 DEF vars, opVars, historyVars, FundingTyped, TypeOK, Listed
<1> QED
  BY <1>1, TypeOfMoney, TypeOfDeposits, TypeOfSweep DEF Next, OwnerStep
-----------------------------------------------------------------------------
(* What the ledger says, and what there is.                                *)

LEMMA Money ==
  ASSUME TypeOK
  PROVE  /\ ledger \in Int /\ vault \in Int /\ Queued \in Int /\ Over \in Int
         /\ Over = ledger - vault - Queued
         /\ SumFunction(moves) \in Int /\ leaving.amount \in Nat
         /\ Queued = SumFunction(moves) - leaving.amount
<1>1. ledger \in Int /\ vault \in Int /\ moves \in Seq(Int) /\ leaving \in LeavingType
  BY TypeIs
<1>2. SumFunction(moves) \in Int
  BY <1>1, SumsToInt DEF SumFunction
<1>3. leaving.amount \in Nat
  BY <1>1 DEF LeavingType
<1>4. Queued = SumFunction(moves) - leaving.amount
  BY DEF Queued
<1>5. Queued \in Int
  BY <1>2, <1>3, <1>4
<1> QED
  BY <1>1, <1>2, <1>3, <1>4, <1>5 DEF Over

LEMMA DepositsFinite ==
  ASSUME TypeOK
  PROVE  IsFiniteSet(DOMAIN deposits) /\ \A d \in DOMAIN deposits : Amounts[d] \in Nat
<1>1. Len(deposits) \in Nat /\ DOMAIN deposits = 1 .. Len(deposits)
  BY DepositsAre
<1> QED
  BY <1>1, IndicesFinite, UncountedIs DEF Amounts

LEMMA WorthIs ==
  ASSUME TypeOK, NEW D, D \subseteq DOMAIN deposits
  PROVE  IsFiniteSet(D) /\ Worth(D) \in Nat /\ Worth({}) = 0
<1>1. IsFiniteSet(D) /\ \A d \in D : Amounts[d] \in Nat
  BY DepositsFinite, FS_Subset
<1> QED
  BY <1>1, SumNat, SumOfNone DEF Worth

LEMMA WorthOfFewer ==
  ASSUME TypeOK, NEW D, D \subseteq DOMAIN deposits, NEW E, E \subseteq D
  PROVE  Worth(E) <= Worth(D)
<1>1. IsFiniteSet(D) /\ \A d \in D : Amounts[d] \in Nat
  BY WorthIs, DepositsFinite
<1> QED
  BY <1>1, SumOfFewer DEF Worth

LEMMA WorthWithout ==
  ASSUME TypeOK, NEW D, D \subseteq DOMAIN deposits, NEW d \in D
  PROVE  Worth(D) = deposits[d].amount + Worth(D \ {d})
<1>1. IsFiniteSet(D) /\ (\A e \in D : Amounts[e] \in Int) /\ Amounts[d] = deposits[d].amount
  BY WorthIs, DepositsFinite DEF Amounts
<1> QED
  BY <1>1, SumWithout DEF Worth

\* No deposit is lost, and none is worth something else.
Kept ==
  \A d \in DOMAIN deposits : d \in DOMAIN deposits' /\ deposits'[d].amount = deposits[d].amount

LEMMA WorthKept ==
  ASSUME TypeOK, Kept, NEW D, D \subseteq DOMAIN deposits, Fresh' \subseteq D
  PROVE  Worth(Fresh)' \in Nat /\ Worth(Fresh)' <= Worth(D)
<1> DEFINE F == Fresh'
<1>1. F \subseteq DOMAIN deposits /\ F \subseteq D
  OBVIOUS
<1>2. Worth(Fresh)' = SumFunctionOnSet(Amounts', F)
  BY DEF Worth
<1>3. \A d \in F : (Amounts')[d] = Amounts[d]
  BY <1>1 DEF Amounts, Kept
<1> HIDE DEF F
<1>4. IsFiniteSet(F) /\ Worth(F) \in Nat /\ Worth(F) <= Worth(D)
  BY <1>1, WorthIs, WorthOfFewer
<1>5. SumFunctionOnSet(Amounts', F) = SumFunctionOnSet(Amounts, F)
  BY <1>3, <1>4, SumSame
<1> QED
  BY <1>2, <1>4, <1>5 DEF Worth

LEMMA KeptBy ==
  ASSUME TypeOK, NEW d, NEW status, NEW fate, Becomes(d, status, fate)
  PROVE  Kept
BY DEF Becomes, Kept

LEMMA KeptUnchanged ==
  ASSUME deposits' = deposits
  PROVE  Kept
BY DEF Kept

\* Other deposits stay as they are; one that has come in stays so only if it is
\* neither confirmed nor passed over.
LEMMA FreshBy ==
  ASSUME TypeOK, NEW d, NEW status, NEW fate, Becomes(d, status, fate), spent \subseteq spent'
  PROVE  /\ Fresh' \subseteq Fresh \cup {d}
         /\ status = "confirmed" => Fresh' \subseteq Fresh \ {d}
         /\ d \in Fresh' => fate = "landed" /\ status # "confirmed" /\ d \notin spent
BY DEF Fresh, Becomes

\* No more is said than was, and no deposit comes in uncounted.
LEMMA HonestBy ==
  ASSUME FundingTyped, Honest, raced => raced', Over' \in Int, Over' <= Over,
         Kept, Fresh' \subseteq Fresh
  PROVE  Honest'
<1> SUFFICES ASSUME ~raced' PROVE Over' + Worth(Fresh)' <= 0
  BY DEF Honest
<1>1. TypeOK /\ Fresh \subseteq DOMAIN deposits
  BY FreshThere DEF FundingTyped
<1>2. Over \in Int /\ Over + Worth(Fresh) <= 0 /\ Worth(Fresh) \in Nat
  BY <1>1, Money, WorthIs DEF Honest
<1>3. Worth(Fresh)' \in Nat /\ Worth(Fresh)' <= Worth(Fresh)
  BY <1>1, WorthKept
<1> DEFINE o == Over'
           v == Worth(Fresh)'
           w == Worth(Fresh)
<1>4. o \in Int /\ v \in Nat /\ w \in Nat /\ Over \in Int /\ o <= Over /\ v <= w /\ Over + w <= 0
  BY <1>2, <1>3
<1> HIDE DEF o, v, w
<1>5. o + v <= 0
  BY <1>4
<1> QED
  BY <1>5 DEF o, v

\* One deposit's money is counted, and it is no longer to be counted.
LEMMA HonestOneCounted ==
  ASSUME FundingTyped, Honest, raced => raced', NEW d \in Fresh, NEW status, NEW fate,
         Becomes(d, status, fate), Fresh' \subseteq Fresh \ {d},
         Over' \in Int, Over' = Over + deposits[d].amount
  PROVE  Honest'
<1> SUFFICES ASSUME ~raced' PROVE Over' + Worth(Fresh)' <= 0
  BY DEF Honest
<1>1. TypeOK /\ Fresh \subseteq DOMAIN deposits /\ Kept
  BY FreshThere, KeptBy DEF FundingTyped
<1>2. Over \in Int /\ Over + Worth(Fresh) <= 0 /\ deposits[d].amount \in Nat
  BY <1>1, Money, UncountedIs DEF Honest
<1>3. Worth(Fresh) = deposits[d].amount + Worth(Fresh \ {d}) /\ Worth(Fresh \ {d}) \in Nat
  BY <1>1, WorthIs, WorthWithout
<1>4. Worth(Fresh)' \in Nat /\ Worth(Fresh)' <= Worth(Fresh \ {d})
  BY <1>1, WorthKept
<1> DEFINE o == Over'
           v == Worth(Fresh)'
           w == Worth(Fresh)
           x == Worth(Fresh \ {d})
           a == deposits[d].amount
<1>5. /\ o \in Int /\ v \in Nat /\ x \in Nat /\ a \in Nat /\ Over \in Int
      /\ o = Over + a /\ v <= x /\ w = a + x /\ Over + w <= 0
  BY <1>2, <1>3, <1>4
<1> HIDE DEF o, v, w, x, a
<1>6. o + v <= 0
  BY <1>5
<1> QED
  BY <1>6 DEF o, v

\* Nothing is left to be counted.
LEMMA HonestNoneLeft ==
  ASSUME TypeOK, Fresh' = {}, ~raced' => Over' \in Int /\ Over' <= 0
  PROVE  Honest'
<1>1. Worth(Fresh)' = 0
  BY SumOfNone DEF Worth
<1> QED
  BY <1>1 DEF Honest
-----------------------------------------------------------------------------
LEMMA HonestMoney ==
  ASSUME FundingInv,
         \/ \E n \in Nets : Play(n) \/ Play(-n)
         \/ \E i \in 1 .. MaxMoves : MoveLands(i)
         \/ \E amount \in Tops : Gift(amount) \/ Withdraw(amount)
         \/ WithdrawalStep
  PROVE  Honest'
<1>1. FundingTyped /\ TypeOK /\ Honest /\ moves \in Seq(Int)
  BY TypeIs DEF FundingInv, FundingTyped
<1> DEFINE m == SumFunction(moves)
           a == leaving.amount
<1>2. /\ ledger \in Int /\ vault \in Int /\ m \in Int /\ a \in Nat
      /\ Over = ledger - vault - (m - a) /\ Over \in Int
  BY <1>1, Money
\* Enough that what is said beyond what there is stays, or falls.
<1>3. ASSUME UNCHANGED <<deposits, historyVars>>, NEW l \in Int, NEW v \in Int, NEW q \in Int,
             NEW b \in Int, ledger' = l, vault' = v, m' = q, a' = b,
             l - v - (q - b) <= ledger - vault - (m - a)
      PROVE  Honest'
  <2>1. Over' = l - v - (q - b)
    BY <1>3 DEF Over, Queued
  <2> HIDE DEF m, a
  <2>2. Over' \in Int /\ Over' <= Over
    BY <1>2, <1>3, <2>1
  <2>3. Kept /\ Fresh' \subseteq Fresh /\ (raced => raced')
    BY <1>3 DEF Kept, Fresh, historyVars
  <2> QED
    BY <1>1, <2>2, <2>3, HonestBy
<1>4. ASSUME NEW net \in Int, Play(net) PROVE Honest'
  <2>1. moves' = Append(moves, net) /\ ledger' = ledger + net
        /\ UNCHANGED <<vault, leaving, deposits, historyVars>>
    BY <1>4 DEF Play
  <2>2. m' = net + m
    BY <1>1, <2>1, SumAppended, Zenon DEF SumFunction
  <2>3. a' = a
    BY <2>1
  <2> HIDE DEF m, a
  <2>4. m' = m + net /\ ledger + net \in Int /\ m + net \in Int
        /\ ledger + net - vault - (m + net - a) <= ledger - vault - (m - a)
    BY <1>2, <2>2
  <2> QED
    BY <1>2, <1>3, <2>1, <2>3, <2>4
<1>5. ASSUME NEW i, MoveLands(i) PROVE Honest'
  <2>1. i \in DOMAIN moves /\ moves' = RemoveAt(moves, i) /\ vault' = vault + moves[i]
        /\ UNCHANGED <<ledger, leaving, deposits, historyVars>> /\ moves[i] \in Int
    BY <1>1, <1>5 DEF MoveLands
  <2>2. m = moves[i] + m' /\ m' \in Int
    BY <1>1, <2>1, MoveGone, SumsToInt DEF SumFunction
  <2>3. a' = a
    BY <2>1
  <2> DEFINE n == moves[i]
             q == m - n
  <2>4. vault' = vault + n /\ n \in Int /\ m = n + m'
    BY <2>1, <2>2
  <2> HIDE DEF m, a, n
  <2>5. q \in Int /\ m' = q /\ vault + n \in Int
        /\ ledger - (vault + n) - (q - a) <= ledger - vault - (m - a)
    BY <1>2, <2>2, <2>4
  <2> HIDE DEF q
  <2> QED
    BY <1>2, <1>3, <2>1, <2>3, <2>4, <2>5
<1>6. ASSUME NEW amount \in Tops, Gift(amount) PROVE Honest'
  <2>1. vault' = vault + amount /\ UNCHANGED <<ledger, moves, leaving, deposits, historyVars>>
        /\ amount \in Nat
    BY <1>6, FundingArguments DEF Gift, opVars
  <2>2. m' = m /\ a' = a
    BY <2>1
  <2> HIDE DEF m, a
  <2>3. vault + amount \in Int /\ ledger - (vault + amount) - (m - a) <= ledger - vault - (m - a)
    BY <1>2, <2>1
  <2> QED
    BY <1>2, <1>3, <2>1, <2>2, <2>3
\* What a withdrawal takes leaves the ledger and is queued, or comes back.
<1>7. ASSUME NEW amount \in Tops, Withdraw(amount) PROVE Honest'
  <2>1. ledger' = ledger - amount /\ UNCHANGED <<vault, moves, deposits, historyVars>>
        /\ leaving = NoneLeaves /\ leaving' = [amount |-> amount, remaining |-> ledger - amount]
        /\ amount \in Nat
    BY <1>7, FundingArguments DEF Withdraw
  <2>2. m' = m /\ a = 0 /\ a' = amount
    BY <2>1 DEF NoneLeaves
  <2> HIDE DEF m, a
  <2>3. ledger - amount \in Int /\ ledger - amount - vault - (m - amount) <= ledger - vault - (m - a)
    BY <1>2, <2>1, <2>2
  <2> QED
    BY <1>2, <1>3, <2>1, <2>2, <2>3
<1>8. CASE WithdrawalLands
  <2>1. /\ vault - a = leaving.remaining /\ vault' = leaving.remaining /\ leaving' = NoneLeaves
        /\ UNCHANGED <<ledger, moves, deposits, historyVars>>
    BY <1>8 DEF WithdrawalLands
  <2>2. m' = m /\ a' = 0 /\ vault' = vault - a
    BY <2>1 DEF NoneLeaves
  <2> HIDE DEF m, a
  <2>3. vault - a \in Int /\ ledger - (vault - a) - (m - 0) <= ledger - vault - (m - a)
    BY <1>2
  <2> QED
    BY <1>2, <1>3, <2>1, <2>2, <2>3
<1>9. CASE WithdrawalExpires
  <2>1. /\ ledger' = ledger + a /\ leaving' = NoneLeaves
        /\ UNCHANGED <<vault, moves, deposits, historyVars>>
    BY <1>9 DEF WithdrawalExpires
  <2>2. m' = m /\ a' = 0
    BY <2>1 DEF NoneLeaves
  <2> HIDE DEF m, a
  <2>3. ledger + a \in Int /\ ledger + a - vault - (m - 0) <= ledger - vault - (m - a)
    BY <1>2
  <2> QED
    BY <1>2, <1>3, <2>1, <2>2, <2>3
<1> QED
  BY <1>4, <1>5, <1>6, <1>7, <1>8, <1>9, FundingArguments DEF WithdrawalStep

\* The ledger counts a deposit's money, or does not; nothing else moves.
LEMMA Counts ==
  ASSUME TypeOK, UNCHANGED <<vault, opVars>>, NEW u \in Int, ledger' = ledger + u
  PROVE  Over' = Over + u /\ Over \in Int /\ Over' \in Int
<1>1. Queued' = Queued
  BY DEF Queued, opVars
<1>2. Over' = ledger' - vault' - Queued'
  BY DEF Over
<1>3. ledger \in Int /\ vault \in Int /\ Queued \in Int /\ Over = ledger - vault - Queued
  BY Money
<1> QED
  BY <1>1, <1>2, <1>3

LEMMA SaysTheSame ==
  ASSUME TypeOK, UNCHANGED <<ledger, vault, opVars>>
  PROVE  Over' \in Int /\ Over' <= Over
<1>1. Over' = Over
  BY DEF Over, Queued, opVars
<1> QED
  BY <1>1, Money

\* A deposit's own answer finds its money still to be counted, or counts it twice.
LEMMA HonestDeposits ==
  ASSUME FundingInv,
         \/ RequestStep
         \/ \E amount \in Tops, built \in BOOLEAN : Prepare(amount, built)
         \/ \E d \in Ids : Submit(d)
         \/ \E d \in Ids : DepositLands(d) \/ HeightPasses(d)
  PROVE  Honest'
<1>1. TypeOK /\ FundingTyped /\ Honest
  BY DEF FundingInv, FundingTyped
<1>2. /\ Len(deposits) \in Nat /\ DOMAIN deposits = 1 .. Len(deposits)
      /\ \A d \in DOMAIN deposits : deposits[d] \in Deposit
  BY <1>1, DepositsAre
\* Neither the money nor what was sent of it changes.
<1>3. ASSUME NEW d, NEW status, NEW fate, Becomes(d, status, fate),
             fate = "landed" /\ status # "confirmed" =>
               fate = deposits[d].fate /\ deposits[d].status # "confirmed",
             UNCHANGED <<ledger, vault, opVars, historyVars>>
      PROVE  Honest'
  <2>1. Kept /\ Fresh' \subseteq Fresh \cup {d} /\ d \in DOMAIN deposits
        /\ (d \in Fresh' => fate = "landed" /\ status # "confirmed" /\ d \notin spent)
    BY <1>1, <1>3, KeptBy, FreshBy DEF historyVars, Becomes
  <2>2. d \in Fresh' => d \in Fresh
    BY <1>3, <2>1 DEF Fresh
  <2>3. Fresh' \subseteq Fresh
    BY <2>1, <2>2
  <2>4. raced => raced'
    BY <1>3 DEF historyVars
  <2> QED
    BY <1>1, <1>3, <2>1, <2>3, <2>4, SaysTheSame, HonestBy
<1>4. ASSUME NEW amount \in Tops, NEW built \in BOOLEAN, Prepare(amount, built) PROVE Honest'
  <2> DEFINE w == [amount |-> amount, status |-> "prepared", replying |-> FALSE,
                   fate |-> IF built THEN "live" ELSE "none"]
  <2>1. deposits' = Append(deposits, w) /\ UNCHANGED <<ledger, vault, opVars, historyVars>>
        /\ w.fate # "landed"
    BY <1>4 DEF Prepare
  <2>2. deposits \in Seq(Deposit)
    BY <1>1 DEF TypeOK
  <2> HIDE DEF w
  <2>3. /\ DOMAIN deposits' = DOMAIN deposits \cup {Len(deposits) + 1}
        /\ deposits'[Len(deposits) + 1] = w
        /\ \A d \in DOMAIN deposits : deposits'[d] = deposits[d]
    BY <1>2, <2>1, <2>2
  <2>4. Kept /\ Fresh' \subseteq Fresh
    BY <2>1, <2>3 DEF Kept, Fresh, historyVars
  <2>5. raced => raced'
    BY <2>1 DEF historyVars
  <2> QED
    BY <1>1, <2>1, <2>4, <2>5, SaysTheSame, HonestBy
<1>5. ASSUME NEW d, Submit(d) PROVE Honest'
  <2>1. d \in DOMAIN deposits /\ deposits[d].status = "prepared"
        /\ UNCHANGED <<ledger, vault, opVars, historyVars>>
        /\ deposits' = [deposits EXCEPT ![d].status = "submitted", ![d].replying = TRUE]
    BY <1>5 DEF Submit, InFlight
  <2>2. Becomes(d, "submitted", deposits[d].fate)
    BY <1>1, <2>1, SubmitBecomes
  <2> QED
    BY <1>3, <2>1, <2>2
<1>6. ASSUME NEW d, RequestConfirms(d) PROVE Honest'
  <2>1. /\ d \in DOMAIN deposits /\ deposits[d].fate = "landed" /\ ledger' = ledger + Uncounted(d)
        /\ deposits' = [deposits EXCEPT ![d].status = "confirmed", ![d].replying = FALSE]
        /\ raced' = (raced \/ (d \in spent /\ Uncounted(d) > 0)) /\ UNCHANGED <<vault, opVars, spent>>
    BY <1>6 DEF RequestConfirms
  <2>2. Becomes(d, "confirmed", deposits[d].fate)
    BY <1>1, <2>1, AnswerBecomes
  <2>3. Kept /\ Fresh' \subseteq Fresh \ {d} /\ (raced => raced')
    <3>1. raced => raced'
      BY <2>1, Zenon
    <3> QED
      BY <1>1, <2>1, <2>2, <3>1, KeptBy, FreshBy
  <2>4. Uncounted(d) \in Nat /\ deposits[d].amount \in Nat /\ Uncounted(d) \in {0, deposits[d].amount}
    BY <1>1, <2>1, UncountedIs
  <2>5. Over' = Over + Uncounted(d) /\ Over \in Int /\ Over' \in Int
    BY <1>1, <2>1, <2>4, Counts
  <2>6. CASE Uncounted(d) = 0
    <3>1. Over' <= Over
      BY <2>5, <2>6
    <3> QED
      BY <1>1, <2>3, <2>5, <3>1, HonestBy
  <2>7. CASE Uncounted(d) # 0 /\ d \notin spent
    <3>1. d \in Fresh /\ Over' = Over + deposits[d].amount
      BY <2>1, <2>4, <2>5, <2>7 DEF Fresh, Uncounted
    <3> QED
      BY <1>1, <2>2, <2>3, <2>5, <3>1, HonestOneCounted
  <2>8. CASE Uncounted(d) # 0 /\ d \in spent
    <3>1. Uncounted(d) > 0
      BY <2>4, <2>8
    <3>2. raced'
      BY <2>1, <2>8, <3>1, Zenon
    <3> QED
      BY <3>2 DEF Honest
  <2> QED
    BY <2>6, <2>7, <2>8
<1>7. ASSUME NEW d, RequestGivesUp(d) PROVE Honest'
  <2>1. d \in DOMAIN deposits /\ deposits' = [deposits EXCEPT ![d].replying = FALSE]
        /\ UNCHANGED <<ledger, vault, opVars, historyVars>>
    BY <1>7 DEF RequestGivesUp
  <2>2. Becomes(d, deposits[d].status, deposits[d].fate)
    BY <1>1, <2>1, GiveUpBecomes
  <2> QED
    BY <1>3, <2>1, <2>2
\* What comes in is at once there, and still to be counted.
<1>8. ASSUME NEW d, DepositLands(d) PROVE Honest'
  <2> DEFINE a == deposits[d].amount
  <2>1. /\ d \in DOMAIN deposits /\ vault' = vault + a /\ deposits[d].fate = "live"
        /\ deposits' = [deposits EXCEPT ![d].fate = "landed"] /\ UNCHANGED <<ledger, opVars, historyVars>>
    BY <1>8 DEF DepositLands
  <2>2. a \in Nat
    BY <1>1, <2>1, UncountedIs
  <2>3. Over' = ledger - (vault + a) - Queued
    BY <2>1 DEF Over, Queued, opVars
  <2>4. Kept /\ Fresh' \subseteq Fresh \cup {d}
    <3>1. Becomes(d, deposits[d].status, "landed")
      BY <1>1, <2>1, LandsBecomes
    <3> QED
      BY <1>1, <2>1, <3>1, KeptBy, FreshBy DEF historyVars
  <2>5. d \notin Fresh /\ Fresh \subseteq DOMAIN deposits
    BY <1>1, <2>1, FreshThere DEF Fresh
  <2>6. ledger \in Int /\ vault \in Int /\ Queued \in Int /\ Over = ledger - vault - Queued
    BY <1>1, Money
  <2> DEFINE D == Fresh \cup {d}
             v == Worth(Fresh)'
             w == Worth(Fresh)
             x == Worth(D)
  <2>7. v \in Nat /\ v <= x
    BY <1>1, <2>1, <2>4, <2>5, WorthKept
  <2>8. x = a + w /\ w \in Nat
    <3>1. D \subseteq DOMAIN deposits /\ d \in D /\ D \ {d} = Fresh
      BY <2>1, <2>5
    <3> HIDE DEF D
    <3> QED
      BY <1>1, <2>5, <3>1, WorthWithout, WorthIs
  <2>9. SUFFICES ASSUME ~raced' PROVE Over' + v <= 0
    BY DEF Honest
  <2>10. Over + w <= 0
    <3>1. ~raced
      BY <2>1, <2>9 DEF historyVars
    <3> QED
      BY <1>1, <3>1 DEF Honest
  <2> HIDE DEF a, v, w, x
  <2>11. Over' = Over - a /\ Over \in Int
    BY <2>2, <2>3, <2>6
  <2> QED
    BY <2>2, <2>7, <2>8, <2>10, <2>11
<1>9. ASSUME NEW d, HeightPasses(d) PROVE Honest'
  <2>1. d \in DOMAIN deposits /\ deposits' = [deposits EXCEPT ![d].fate = "dead"]
        /\ UNCHANGED <<ledger, vault, opVars, historyVars>>
    BY <1>9 DEF HeightPasses
  <2>2. Becomes(d, deposits[d].status, "dead")
    BY <1>1, <2>1, LandsBecomes
  <2> QED
    BY <1>3, <2>1, <2>2
<1> QED
  BY <1>4, <1>5, <1>6, <1>7, <1>8, <1>9 DEF RequestStep

LEMMA HonestSweep ==
  ASSUME FundingInv, SweepStep
  PROVE  Honest'
<1>1. TypeOK /\ Listed /\ Honest /\ FundingTyped /\ sweep.seen \in Int /\ sweep.held \in Int
  BY TypeIs DEF FundingInv, FundingTyped, SweepType
<1>2. ledger \in Int /\ vault \in Int /\ Queued \in Int /\ Over = ledger - vault - Queued
  BY <1>1, Money
<1>3. ASSUME UNCHANGED <<ledger, vault, opVars, deposits>>, raced => raced', spent \subseteq spent'
      PROVE  Honest'
  <2>1. Kept /\ Fresh' \subseteq Fresh
    BY <1>3 DEF Kept, Fresh
  <2> QED
    BY <1>1, <1>3, <2>1, SaysTheSame, HonestBy
\* The vault it read is the vault still, and holds the deposit besides what was
\* counted: the money of this deposit, or all there is of any.
<1>4. CASE SweepWeighs
  <2> DEFINE d == sweep.d
             a == deposits[d].amount
             u == Uncounted(d)
  <2>1. sweep.at = "weighing" /\ d \in DOMAIN deposits /\ UNCHANGED <<vault, opVars>>
    BY <1>1, <1>4 DEF SweepWeighs, Listed
  <2>2. CASE UNCHANGED <<ledger, deposits, historyVars>>
    BY <1>3, <2>1, <2>2 DEF historyVars
  <2>3. CASE /\ sweep.seen - ledger >= a /\ Confirm(d)
             /\ raced' = (raced \/ Misread)
             /\ spent' = IF d \in Fresh \/ u = 0 THEN spent ELSE spent \cup Fresh
    <3>1. Becomes(d, "confirmed", deposits[d].fate)
      BY <1>1, <2>1, <2>3, ConfirmBecomes
    <3>2. Kept /\ Fresh' \subseteq Fresh \ {d} /\ spent \subseteq spent'
      <4>1. spent \subseteq spent'
        BY <2>3
      <4> QED
        BY <1>1, <3>1, <4>1, KeptBy, FreshBy
    <3>3. raced => raced'
      BY <2>3, Zenon
    <3>4. u \in {0, a} /\ u \in Nat /\ a \in Nat
      BY <1>1, <2>1, UncountedIs
    <3>5. ledger' = ledger + u
      BY <2>3 DEF Confirm
    <3>6. Over' = Over + u /\ Over \in Int /\ Over' \in Int
      BY <1>1, <2>1, <3>4, <3>5, Counts
    <3>7. CASE u = 0
      <4>1. Over' <= Over
        BY <3>6, <3>7
      <4> QED
        BY <1>1, <3>2, <3>3, <3>6, <4>1, HonestBy
    <3>8. CASE u # 0 /\ d \in Fresh
      <4>1. Over' = Over + a
        BY <3>4, <3>6, <3>8
      <4> QED
        BY <1>1, <3>1, <3>2, <3>3, <3>6, <3>8, <4>1, HonestOneCounted
    <3>9. CASE u # 0 /\ d \notin Fresh
      <4>1. spent' = spent \cup Fresh
        BY <2>3, <3>9
      <4>2. Fresh' = {}
        BY <3>2, <4>1 DEF Fresh
      <4>3. ASSUME ~raced' PROVE Over' <= 0
        <5>0. ~Misread
          BY <2>3, <4>3, Zenon
        <5>1. sweep.seen <= vault /\ Queued >= 0
          BY <1>1, <1>2, <2>1, <5>0 DEF Misread
        <5>2. sweep.seen - ledger >= u
          BY <2>3, <3>4, <3>9
        <5> HIDE DEF a, u
        <5> QED
          BY <1>1, <1>2, <3>4, <3>6, <5>1, <5>2
      <4> QED
        BY <1>1, <3>6, <4>2, <4>3, HonestNoneLeft
    <3> QED
      BY <3>7, <3>8, <3>9
  <2> QED
    BY <1>4, <2>2, <2>3 DEF SweepWeighs
<1>5. CASE SweepAsks
  <2>1. UNCHANGED <<ledger, vault, opVars, historyVars>>
    BY <1>5 DEF SweepAsks
  <2>2. CASE deposits' = deposits
    BY <1>3, <2>1, <2>2 DEF historyVars
  <2>3. CASE /\ Becomes(sweep.d, "expired", deposits[sweep.d].fate)
             /\ deposits[sweep.d].status # "confirmed"
    <3>1. Kept /\ Fresh' \subseteq Fresh \cup {sweep.d} /\ sweep.d \in DOMAIN deposits
          /\ (sweep.d \in Fresh' => deposits[sweep.d].fate = "landed" /\ sweep.d \notin spent)
      BY <1>1, <2>1, <2>3, KeptBy, FreshBy DEF historyVars, Becomes
    <3>2. Fresh' \subseteq Fresh /\ (raced => raced')
      BY <2>1, <2>3, <3>1 DEF Fresh, historyVars
    <3> QED
      BY <1>1, <2>1, <3>1, <3>2, SaysTheSame, HonestBy
  <2> QED
    BY <1>1, <1>5, <2>2, <2>3, AsksBecomes
\* A surplus is what no deposit accounts for: those to be counted are in it.
<1>6. CASE CreditRecords
  <2>1. sweep.at = "crediting" /\ UNCHANGED <<vault, opVars, deposits>>
        /\ raced' = (raced \/ (ToppingUp = {} /\ Misread))
    BY <1>6 DEF CreditRecords
  <2>2. CASE ToppingUp # {}
    <3>1. ledger' = ledger /\ spent' = spent
      BY <1>6, <2>2 DEF CreditRecords
    <3>2. raced => raced'
      BY <2>1, Zenon
    <3> QED
      BY <1>3, <2>1, <3>1, <3>2
  <2>3. CASE ToppingUp = {}
    <3>1. spent' = spent \cup GivenUp /\ ledger' = ledger + sweep.seen - sweep.held
      BY <1>6, <2>3 DEF CreditRecords
    <3>2. Fresh' = {}
      <4>1. \A d \in Fresh : deposits[d].status = "expired"
        BY <1>1, <2>3, DepositsAre DEF ToppingUp, InFlight, Fresh, Deposit
      <4>2. Fresh' \subseteq Fresh \ GivenUp
        BY <2>1, <3>1 DEF Fresh
      <4> QED
        BY <4>1, <4>2 DEF GivenUp
    <3> DEFINE g == sweep.seen - sweep.held
    <3>3. g \in Int /\ ledger' = ledger + g
      BY <1>1, <1>2, <3>1
    <3>4. Over' = Over + g /\ Over' \in Int
      BY <1>1, <2>1, <3>3, Counts
    <3>5. ASSUME ~raced' PROVE Over' <= 0
      <4>1. ~Misread
        BY <2>1, <2>3, <3>5, Zenon
      <4>2. ~(sweep.seen > vault) /\ ~(sweep.held < ledger - Queued)
        BY <2>1, <4>1 DEF Misread
      <4> QED
        BY <1>1, <1>2, <3>4, <4>2
    <3> QED
      BY <1>1, <3>2, <3>4, <3>5, HonestNoneLeft
  <2> QED
    BY <2>2, <2>3
<1>7. CASE \/ SweepStarts \/ CreditReads
           \/ \E d \in Ids, answered \in BOOLEAN : SweepLooks(d, answered)
           \/ \E answered \in BOOLEAN : CreditLooks(answered)
  BY <1>3, <1>7 DEF SweepStarts, CreditReads, SweepLooks, CreditLooks, historyVars
<1> QED
  BY <1>4, <1>5, <1>6, <1>7 DEF SweepStep
-----------------------------------------------------------------------------
LEMMA FundingInit == Init => FundingInv
<1> SUFFICES ASSUME Init PROVE FundingInv
  OBVIOUS
<1>1. FundingTyped /\ TypeOK
  BY TypeInit DEF FundingTyped
<1>2. moves = <<>> /\ leaving.amount = 0 /\ deposits = <<>> /\ ledger = Start /\ vault = Start
  BY DEF Init, NoneLeaves
<1>3. Queued = 0
  BY <1>2, SumOfNone DEF Queued, SumFunction
<1>4. Over = 0
  BY <1>2, <1>3, FundingArguments DEF Over
<1>5. Fresh = {}
  BY <1>2 DEF Fresh
<1>6. Worth(Fresh) = 0
  BY <1>5, SumOfNone DEF Worth
<1> QED
  BY <1>1, <1>4, <1>6 DEF FundingInv, Honest

LEMMA FundingStep == FundingInv /\ [Next]_vars => FundingInv'
<1> SUFFICES ASSUME FundingInv, [Next]_vars PROVE FundingInv'
  OBVIOUS
<1>1. FundingTyped'
  BY TypeStep DEF FundingInv
<1>2. CASE UNCHANGED vars
  <2>1. Honest'
    BY <1>2 DEF vars, opVars, historyVars, FundingInv, Honest, Over, Queued, Worth, Amounts, Fresh
  <2> QED
    BY <1>1, <2>1 DEF FundingInv
<1>3. CASE Next
  <2>1. Honest'
    BY <1>3, HonestMoney, HonestDeposits, HonestSweep DEF Next, OwnerStep
  <2> QED
    BY <1>1, <2>1 DEF FundingInv
<1> QED
  BY <1>2, <1>3

\* Every variable keeps its type: no balance goes below nothing, whatever was
\* counted and in whatever order the moves land, and the pass acts on deposits
\* that are there (deposits.ts 165-229, worker.ts 690-757).
THEOREM TypeCorrect == Spec => []TypeOK
<1>1. Init => FundingTyped
  BY TypeInit
<1>2. FundingTyped /\ [Next]_vars => FundingTyped'
  BY TypeStep
<1>3. FundingTyped => TypeOK
  BY DEF FundingTyped
<1> QED
  BY <1>1, <1>2, <1>3, PTL DEF Spec

\* However deposits, transfers, matches, withdrawals and lost answers interleave,
\* and whatever number of them, the ledger says more than there is only after
\* money was counted on evidence that no longer held: a pass acting on what has
\* moved since it read it or on a debit still queued, or a request answered
\* after its deposit's money was counted as another's or as a surplus
\* (deposits.ts 180-203, worker.ts 715-747).
THEOREM OverCountedAlwaysByRace == Spec => []OverCountedOnlyByRace
<1>1. Init => FundingInv
  BY FundingInit
<1>2. FundingInv /\ [Next]_vars => FundingInv'
  BY FundingStep
<1>3. FundingInv => OverCountedOnlyByRace
  <2> SUFFICES ASSUME FundingInv, ~raced PROVE ~(Over > 0)
    BY DEF OverCountedOnlyByRace
  <2>1. FundingTyped /\ TypeOK /\ Over \in Int /\ Over + Worth(Fresh) <= 0
    BY Money DEF FundingInv, FundingTyped, Honest
  <2>2. Worth(Fresh) \in Nat
    BY <2>1, WorthIs, FreshThere
  <2> QED
    BY <2>1, <2>2
<1> QED
  BY <1>1, <1>2, <1>3, PTL DEF Spec
=============================================================================
