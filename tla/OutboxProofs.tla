---------------------------- MODULE OutboxProofs ----------------------------
(***************************************************************************)
(* Theorems about staked matches and about the outbox worker, for any      *)
(* agents, bands, balances, callers, queues, batch sizes and windows.      *)
(*                                                                         *)
(* Part one is about the ledger alone (Runner): its types, that balances   *)
(* stay backed, that the queue mirrors the ledger, and that what an agent  *)
(* may lose stays within its vault's budget.  Part two is about the worker *)
(* and the chain (Outbox): what is reported follows the chain, the vaults  *)
(* follow the ledger, and the worker implements OutboxPromise.             *)
(***************************************************************************)
EXTENDS Outbox, SequenceTheorems, Sums
-----------------------------------------------------------------------------
(* Part one: the ledger.                                                   *)

\* The cheapest and the dearest band are bands, and bound all the others.
LEMMA BandsBounded ==
  /\ Cheapest \in Nat \ {0} /\ Dearest \in Nat \ {0}
  /\ \A b \in Bands : Cheapest <= WorstMatch[b] /\ WorstMatch[b] <= Dearest
<1> DEFINE Costs == {WorstMatch[b] : b \in Bands}
<1>1. Costs \subseteq Nat \ {0}
  BY RunnerAssumption
<1>2. /\ \E x \in Costs : \A y \in Costs : x <= y
      /\ \E x \in Costs : \A y \in Costs : x >= y
  BY RunnerAssumption
<1>3. Min(Costs) \in Costs /\ \A y \in Costs : Min(Costs) <= y
  BY <1>2 DEF Min
<1>4. Max(Costs) \in Costs /\ \A y \in Costs : Max(Costs) >= y
  BY <1>2 DEF Max
<1>5. Cheapest = Min(Costs) /\ Dearest = Max(Costs)
  BY DEF Cheapest, Dearest
<1>6. \A b \in Bands : WorstMatch[b] \in Costs
  OBVIOUS
<1> HIDE DEF Costs
<1> QED
  BY <1>1, <1>3, <1>4, <1>5, <1>6

\* The arguments of a request are what their types say.
LEMMA RunnerArguments ==
  /\ StartingBalance \in [Agents -> Nat] /\ WorstMatch \in [Bands -> Nat \ {0}]
  /\ Active \subseteq Agents /\ Seeded \subseteq Agents
  /\ Bars \subseteq {"exiting", "ended", "withdrawing"}
  /\ Nets \subseteq Nat /\ NoMatch \notin Match /\ OUTFLOW_WINDOW \in Nat
BY RunnerAssumption DEF Match
-----------------------------------------------------------------------------
(* The type invariant.                                                     *)

LEMMA NewOpType ==
  ASSUME NEW kind \in {"open_vault", "register_owner", "settle"},
         NEW f \in Agents, NEW t \in Agents, NEW x \in Nat
  PROVE  NewOp(kind, f, t, x) \in Op
BY DEF NewOp, Op, Statuses

LEMMA QueuedType ==
  ASSUME NEW f \in Agents, NEW t \in Agents, NEW x \in Int
  PROVE  Queued(f, t, x) \in Seq(Op)
<1>1. CASE x > 0
  BY <1>1, NewOpType DEF Queued
<1>2. CASE x < 0
  BY <1>2, NewOpType DEF Queued
<1>3. CASE x = 0
  BY <1>3 DEF Queued
<1> QED
  BY <1>1, <1>2, <1>3

\* An outbox with one field of some ops changed is still one, of the same length.
LEMMA RewrittenOps ==
  ASSUME NEW s \in Seq(Op), NEW t, DOMAIN t = DOMAIN s, t = [i \in DOMAIN t |-> t[i]],
         \A i \in DOMAIN s : t[i] \in Op
  PROVE  t \in Seq(Op) /\ Len(t) = Len(s)
<1>1. Len(s) \in Nat /\ DOMAIN s = 1 .. Len(s)
  BY LenProperties
<1>2. t \in [1 .. Len(s) -> Op]
  BY <1>1
<1>3. t \in Seq(Op)
  BY <1>1, <1>2, SeqDef
<1> QED
  BY <1>1, <1>3, LenProperties

LEMMA AgedType ==
  ASSUME NEW o \in Op, NEW n \in Nat
  PROVE  [o EXCEPT !.age = n] \in Op
BY DEF Op

LEMMA OlderType ==
  ASSUME ops \in Seq(Op)
  PROVE  Older \in Seq(Op) /\ Len(Older) = Len(ops)
<1>1. \A i \in DOMAIN ops : ops[i] \in Op
  BY ElementOfSeq, LenProperties
<1>2. ASSUME NEW i \in DOMAIN ops PROVE Older[i] \in Op
  <2> DEFINE n == IF ops[i].age < OUTFLOW_WINDOW THEN ops[i].age + 1 ELSE ops[i].age
  <2>1. ops[i].age \in Nat
    BY <1>1 DEF Op
  <2>2. n \in Nat
    BY <2>1
  <2>3. Older[i] = [ops[i] EXCEPT !.age = n]
    BY DEF Older
  <2> HIDE DEF n
  <2> QED
    BY <1>1, <2>2, <2>3, AgedType
<1>3. DOMAIN Older = DOMAIN ops /\ Older = [i \in DOMAIN Older |-> Older[i]]
  BY DEF Older
<1> QED
  BY <1>2, <1>3, RewrittenOps

\* Both sides of a match in the making exist: without it, that whoever retires
\* exists would not follow from one step to the next.
SidesRented ==
  \A c \in Callers : games[c] # NoMatch => {games[c].a, games[c].b} \subseteq rented
RunnerTyped == TypeOK /\ SidesRented

LEMMA RunnerTypeInit == Init => RunnerTyped
BY RunnerArguments DEF Init, RunnerTyped, TypeOK, SidesRented, Match

LEMMA RunnerTypeStep ==
  ASSUME RunnerTyped, RunnerStep
  PROVE  TypeOK'
<1> USE RunnerArguments DEF RunnerTyped
<1>1. ASSUME NEW a \in Agents, CreateAgent(a) PROVE TypeOK'
  <2> DEFINE more == <<NewOp("open_vault", a, a, StartingBalance[a])>>
                       \o (IF a \in Legacy THEN <<NewOp("register_owner", a, a, 0)>> ELSE <<>>)
  <2>1. NewOp("open_vault", a, a, StartingBalance[a]) \in Op /\ NewOp("register_owner", a, a, 0) \in Op
    BY NewOpType
  <2>2. ops' \in Seq(Op)
    BY <1>1, <2>1 DEF CreateAgent, TypeOK
  <2>3. ledger' \in [Agents -> Int]
    BY <1>1 DEF CreateAgent, TypeOK
  <2> QED
    BY <1>1, <2>2, <2>3 DEF CreateAgent, TypeOK
<1>2. ASSUME NEW a \in Agents, NEW b \in Bands, SetBand(a, b) PROVE TypeOK'
  BY <1>2 DEF SetBand, TypeOK
<1>3. ASSUME NEW a \in rented, NEW why \in Bars, Bar(a, why) PROVE TypeOK'
  BY <1>3 DEF Bar, TypeOK
<1>4. ASSUME NEW c \in Callers, NEW a \in Active, Pick(c, a) PROVE TypeOK'
  <2>1. PICK b \in Candidates(a) :
          games' = [games EXCEPT ![c] = [a |-> a, b |-> b, checked |-> FALSE, worst |-> 0]]
    BY <1>4 DEF Pick
  <2>2. b \in Agents
    BY DEF Candidates, TypeOK
  <2>3. games' \in [Callers -> Match \cup {NoMatch}]
    BY <2>1, <2>2 DEF TypeOK, Match
  <2> QED
    BY <1>4, <2>3 DEF Pick, TypeOK
<1>5. ASSUME NEW c \in Callers, Check(c) PROVE TypeOK'
  <2>1. games[c] \in Match
    BY <1>5 DEF Check, TypeOK
  <2>2. WorstMatch[band[games[c].a]] \in Nat
    BY <2>1 DEF TypeOK, Match
  <2>3. [a |-> games[c].a, b |-> games[c].b, checked |-> TRUE,
         worst |-> WorstMatch[band[games[c].a]]] \in Match
    BY <2>1, <2>2 DEF Match
  <2>4. games' \in [Callers -> Match \cup {NoMatch}]
    BY <1>5, <2>3 DEF Check, TypeOK
  <2> QED
    BY <1>5, <2>4 DEF Check, TypeOK
<1>6. ASSUME NEW c \in Callers, RecordRefused(c) PROVE TypeOK'
  BY <1>6 DEF RecordRefused, TypeOK
<1>7. ASSUME NEW c \in Callers, NEW n \in Nets, NEW net \in {n, -n}, Record(c, net)
      PROVE TypeOK'
  <2>1. games[c] \in Match /\ net \in Int
    BY <1>7 DEF Record, TypeOK
  <2>2. games[c].a \in Agents /\ games[c].b \in Agents
    BY <2>1 DEF Match
  <2>3. ledger' \in [Agents -> Int]
    <3>1. ledger' = [ledger EXCEPT ![games[c].a] = @ + net, ![games[c].b] = @ - net]
      BY <1>7 DEF Record
    <3>2. ledger \in [Agents -> Int]
      BY DEF TypeOK
    <3> QED
      BY <2>1, <2>2, <3>1, <3>2
  <2>4. ops' \in Seq(Op)
    <3>1. Queued(games[c].a, games[c].b, net) \in Seq(Op)
      BY <2>1, <2>2, QueuedType
    <3> QED
      BY <1>7, <3>1, ConcatProperties DEF Record, TypeOK
  <2>5. games' \in [Callers -> Match \cup {NoMatch}]
    BY <1>7 DEF Record, TypeOK
  <2>6. retired' \subseteq rented'
    <3>1. retired' \subseteq retired \cup {games[c].a, games[c].b} /\ rented' = rented
      BY <1>7 DEF Record, Broke
    <3> QED
      BY <1>7, <3>1 DEF Record, TypeOK, SidesRented
  <2>7. UNCHANGED <<rented, band, barred>>
    BY <1>7 DEF Record
  <2> QED
    BY <2>3, <2>4, <2>5, <2>6, <2>7 DEF TypeOK
<1> QED
  BY <1>1, <1>2, <1>3, <1>4, <1>5, <1>6, <1>7 DEF RunnerStep

LEMMA SidesRentedStep ==
  ASSUME RunnerTyped, RunnerStep
  PROVE  SidesRented'
<1> USE DEF RunnerTyped
<1>1. ASSUME NEW c \in Callers, NEW a \in Active, Pick(c, a) PROVE SidesRented'
  <2>1. PICK b \in Candidates(a) :
          games' = [games EXCEPT ![c] = [a |-> a, b |-> b, checked |-> FALSE, worst |-> 0]]
    BY <1>1 DEF Pick
  <2>2. a \in rented /\ b \in rented /\ rented' = rented
    BY <1>1 DEF Pick, Candidates
  <2> QED
    BY <2>1, <2>2 DEF SidesRented, TypeOK
<1>2. ASSUME NEW c \in Callers, Check(c) PROVE SidesRented'
  BY <1>2 DEF Check, SidesRented, TypeOK
<1>3. ASSUME NEW c \in Callers, RecordRefused(c) PROVE SidesRented'
  BY <1>3 DEF RecordRefused, SidesRented, TypeOK
<1>4. ASSUME NEW c \in Callers, NEW n \in Nets, NEW net \in {n, -n}, Record(c, net)
      PROVE SidesRented'
  <2>1. games' = [games EXCEPT ![c] = NoMatch] /\ rented' = rented
    BY <1>4 DEF Record
  <2> QED
    BY <2>1 DEF SidesRented, TypeOK
<1>5. ASSUME games' = games, rented \subseteq rented' PROVE SidesRented'
  BY <1>5 DEF SidesRented
<1>6. ASSUME NEW a \in Agents, CreateAgent(a) PROVE SidesRented'
  BY <1>5, <1>6 DEF CreateAgent
<1>7. ASSUME NEW a \in Agents, NEW b \in Bands, SetBand(a, b) PROVE SidesRented'
  BY <1>5, <1>7 DEF SetBand
<1>8. ASSUME NEW a \in rented, NEW why \in Bars, Bar(a, why) PROVE SidesRented'
  BY <1>5, <1>8 DEF Bar
<1> QED
  BY <1>1, <1>2, <1>3, <1>4, <1>6, <1>7, <1>8 DEF RunnerStep

\* Every reachable state is well typed, and whoever plays or retires exists.
THEOREM RunnerTypeCorrect == Spec => []TypeOK
<1>1. ASSUME RunnerTyped, [Next]_runnerVars PROVE RunnerTyped'
  <2>1. CASE RunnerStep
    BY <1>1, <2>1, RunnerTypeStep, SidesRentedStep DEF RunnerTyped
  <2>2. CASE Tick
    BY <1>1, <2>2, OlderType DEF Tick, RunnerTyped, TypeOK, SidesRented
  <2>3. CASE UNCHANGED runnerVars
    BY <1>1, <2>3 DEF runnerVars, RunnerTyped, TypeOK, SidesRented
  <2> QED
    BY <1>1, <2>1, <2>2, <2>3 DEF Next
<1>2. RunnerTyped => TypeOK
  BY DEF RunnerTyped
<1> QED
  BY RunnerTypeInit, <1>1, <1>2, PTL DEF Spec
-----------------------------------------------------------------------------
(* Retirement and overdrafts.                                              *)

\* A match that was checked is within the dearest band, and both its sides
\* were rented with enough to play.
CheckedFairly ==
  \A c \in Callers : games[c] # NoMatch =>
    /\ games[c].a # games[c].b
    /\ games[c].checked =>
         /\ games[c].worst <= Dearest
         /\ \A s \in {games[c].a, games[c].b} : StartingBalance[s] >= Cheapest

\* Who was rented with too little never comes to have enough.
PoorNeverPlay == \A a \in rented : StartingBalance[a] < Cheapest => ledger[a] < Cheapest

BalanceInv ==
  RunnerTyped /\ CheckedFairly /\ PoorNeverPlay /\ RetiredExactlyWhenBroke /\ OverdraftBounded

LEMMA BalanceInit == Init => BalanceInv
<1> SUFFICES ASSUME Init PROVE BalanceInv
  OBVIOUS
<1>1. RunnerTyped
  BY RunnerTypeInit
<1>2. CheckedFairly
  BY DEF Init, CheckedFairly
<1>3. \A a \in rented : ledger[a] = StartingBalance[a]
  BY DEF Init
<1>4. PoorNeverPlay
  BY <1>3 DEF PoorNeverPlay
<1>5. RetiredExactlyWhenBroke
  BY <1>3, BandsBounded, RunnerArguments DEF Init, RetiredExactlyWhenBroke
<1>6. OverdraftBounded
  <2>1. \A a \in Agents : ledger[a] \in Nat
    BY RunnerArguments DEF Init
  <2>2. Cheapest - Dearest <= 0
    <3>1. PICK b \in Bands : TRUE
      BY RunnerAssumption
    <3> QED
      BY BandsBounded, RunnerArguments
  <2> QED
    BY <2>1, <2>2, BandsBounded DEF OverdraftBounded
<1> QED
  BY <1>1, <1>2, <1>4, <1>5, <1>6 DEF BalanceInv

\* What a recorded match does to the two balances, and to nobody else's.
LEMMA RecordMoves ==
  ASSUME RunnerTyped, CheckedFairly, NEW c \in Callers, NEW n \in Nets, NEW net \in {n, -n},
         Record(c, net)
  PROVE  /\ games[c] \in Match /\ games[c].a # games[c].b
         /\ {games[c].a, games[c].b} \subseteq rented \ retired
         /\ \A s \in {games[c].a, games[c].b} :
              /\ StartingBalance[s] >= Cheapest
              /\ ledger'[s] >= ledger[s] - Dearest
         /\ \A s \in Agents \ {games[c].a, games[c].b} : ledger'[s] = ledger[s]
         /\ rented' = rented
         /\ retired' = retired \cup {s \in {games[c].a, games[c].b} : ledger'[s] < Cheapest}
<1> DEFINE a == games[c].a
           b == games[c].b
<1>1. games[c] \in Match /\ games[c] # NoMatch /\ games[c].checked
  BY DEF Record, RunnerTyped, TypeOK
<1>2. a \in Agents /\ b \in Agents /\ a # b /\ {a, b} \subseteq rented
  BY <1>1 DEF CheckedFairly, RunnerTyped, SidesRented, Match
<1>3. games[c].worst <= Dearest /\ StartingBalance[a] >= Cheapest /\ StartingBalance[b] >= Cheapest
  BY <1>1 DEF CheckedFairly
<1>4. {a, b} \cap retired = {} /\ net <= games[c].worst /\ -net <= games[c].worst
  BY DEF Record, StillOpen
<1>5. ledger' = [ledger EXCEPT ![a] = @ + net, ![b] = @ - net]
  BY DEF Record
<1>6. ledger \in [Agents -> Int] /\ net \in Int /\ games[c].worst \in Nat /\ Dearest \in Nat
  BY <1>1, RunnerArguments, BandsBounded DEF RunnerTyped, TypeOK, Match
<1>7. ledger'[a] = ledger[a] + net /\ ledger'[b] = ledger[b] - net
  BY <1>2, <1>5, <1>6
<1>8. \A s \in Agents \ {a, b} : ledger'[s] = ledger[s]
  BY <1>5, <1>6
<1>9. ledger'[a] >= ledger[a] - Dearest /\ ledger'[b] >= ledger[b] - Dearest
  <2>1. net <= Dearest /\ -net <= Dearest
    BY <1>3, <1>4, <1>6
  <2>2. ledger[a] \in Int /\ ledger[b] \in Int
    BY <1>2, <1>6
  <2> HIDE DEF a, b
  <2> QED
    BY <1>6, <1>7, <2>1, <2>2
<1>10. rented' = rented /\ retired' = retired \cup {s \in {a, b} : ledger'[s] < Cheapest}
  BY DEF Record, Broke
<1> QED
  BY <1>1, <1>2, <1>3, <1>4, <1>8, <1>9, <1>10

LEMMA RecordKeepsBalances ==
  ASSUME BalanceInv, NEW c \in Callers, NEW n \in Nets, NEW net \in {n, -n}, Record(c, net)
  PROVE  PoorNeverPlay' /\ RetiredExactlyWhenBroke' /\ OverdraftBounded'
<1> DEFINE sides == {games[c].a, games[c].b}
<1>1. /\ sides \subseteq rented \ retired /\ sides \subseteq Agents
      /\ \A s \in sides : StartingBalance[s] >= Cheapest /\ ledger'[s] >= ledger[s] - Dearest
      /\ \A s \in Agents \ sides : ledger'[s] = ledger[s]
      /\ rented' = rented
      /\ retired' = retired \cup {s \in sides : ledger'[s] < Cheapest}
  BY RecordMoves DEF BalanceInv, Match
<1>2. /\ ledger \in [Agents -> Int] /\ ledger' \in [Agents -> Int] /\ rented \subseteq Agents
      /\ StartingBalance \in [Agents -> Nat] /\ Cheapest \in Nat /\ Dearest \in Nat
  <2>1. RunnerStep
    BY DEF RunnerStep
  <2> QED
    BY <2>1, RunnerTypeStep, RunnerArguments, BandsBounded DEF BalanceInv, RunnerTyped, TypeOK
<1> HIDE DEF sides
<1>3. \A s \in sides : ledger[s] >= Cheapest
  BY <1>1, <1>2 DEF BalanceInv, RetiredExactlyWhenBroke
<1>4. PoorNeverPlay'
  BY <1>1, <1>2 DEF BalanceInv, PoorNeverPlay
<1>5. RetiredExactlyWhenBroke'
  BY <1>1, <1>2, <1>3 DEF BalanceInv, RetiredExactlyWhenBroke
<1>6. OverdraftBounded'
  BY <1>1, <1>2, <1>3 DEF BalanceInv, OverdraftBounded
<1> QED
  BY <1>4, <1>5, <1>6

LEMMA CheckedFairlyStep ==
  ASSUME BalanceInv, RunnerStep
  PROVE  CheckedFairly'
<1> USE DEF BalanceInv, RunnerTyped
<1>1. ASSUME NEW c \in Callers, NEW a \in Active, Pick(c, a) PROVE CheckedFairly'
  <2>1. PICK b \in Candidates(a) :
          games' = [games EXCEPT ![c] = [a |-> a, b |-> b, checked |-> FALSE, worst |-> 0]]
    BY <1>1 DEF Pick
  <2>2. a # b
    BY DEF Candidates
  <2> QED
    BY <2>1, <2>2 DEF CheckedFairly, TypeOK
<1>2. ASSUME NEW c \in Callers, Check(c) PROVE CheckedFairly'
  <2> DEFINE a == games[c].a
             b == games[c].b
             worst == WorstMatch[band[a]]
             checked == [a |-> a, b |-> b, checked |-> TRUE, worst |-> worst]
  <2>1. games[c] # NoMatch /\ games[c] \in Match /\ a # b /\ a \in rented /\ b \in rented
    BY <1>2 DEF Check, CheckedFairly, SidesRented, TypeOK
  <2>2. CASE games' = [games EXCEPT ![c] = NoMatch]
    BY <2>2 DEF CheckedFairly, TypeOK
  <2>3. CASE games' = [games EXCEPT ![c] = checked] /\ Covered(a, b)
    <3>1. band[a] \in Bands /\ Cheapest <= worst /\ worst <= Dearest /\ worst \in Nat
      BY <2>1, BandsBounded, RunnerArguments DEF TypeOK, Match
    <3>2. ledger[a] >= worst /\ ledger[b] >= worst
      BY <2>3 DEF Covered
    <3>3. \A s \in {a, b} : ledger[s] >= Cheapest
      BY <2>1, <3>1, <3>2, BandsBounded DEF TypeOK
    <3>4. ASSUME NEW s \in {a, b} PROVE StartingBalance[s] >= Cheapest
      <4>1. s \in rented /\ s \in Agents /\ ledger[s] >= Cheapest
        BY <2>1, <3>3 DEF TypeOK
      <4>2. StartingBalance[s] \in Nat /\ ledger[s] \in Int /\ Cheapest \in Nat
        BY <4>1, BandsBounded, RunnerArguments DEF TypeOK
      <4>3. StartingBalance[s] < Cheapest => ledger[s] < Cheapest
        BY <4>1 DEF PoorNeverPlay
      <4> HIDE DEF a, b
      <4> QED
        BY <4>1, <4>2, <4>3
    <3>5. games'[c] = checked /\ \A d \in Callers \ {c} : games'[d] = games[d]
      BY <2>3 DEF TypeOK
    <3>6. checked.a = a /\ checked.b = b /\ checked.worst = worst
      OBVIOUS
    <3> HIDE DEF a, b, worst, checked
    <3> QED
      BY <2>1, <3>1, <3>4, <3>5, <3>6 DEF CheckedFairly
  <2> QED
    BY <1>2, <2>2, <2>3 DEF Check
<1>3. ASSUME NEW c \in Callers, games' = [games EXCEPT ![c] = NoMatch] PROVE CheckedFairly'
  BY <1>3 DEF CheckedFairly, TypeOK
<1>4. ASSUME games' = games PROVE CheckedFairly'
  BY <1>4 DEF CheckedFairly
<1>5. ASSUME NEW c \in Callers, RecordRefused(c) PROVE CheckedFairly'
  BY <1>3, <1>5 DEF RecordRefused
<1>6. ASSUME NEW c \in Callers, NEW n \in Nets, NEW net \in {n, -n}, Record(c, net)
      PROVE CheckedFairly'
  BY <1>3, <1>6 DEF Record
<1>7. ASSUME NEW a \in Agents, CreateAgent(a) PROVE CheckedFairly'
  BY <1>4, <1>7 DEF CreateAgent
<1>8. ASSUME NEW a \in Agents, NEW b \in Bands, SetBand(a, b) PROVE CheckedFairly'
  BY <1>4, <1>8 DEF SetBand
<1>9. ASSUME NEW a \in rented, NEW why \in Bars, Bar(a, why) PROVE CheckedFairly'
  BY <1>4, <1>9 DEF Bar
<1> QED
  BY <1>1, <1>2, <1>5, <1>6, <1>7, <1>8, <1>9 DEF RunnerStep

LEMMA CreateKeepsBalances ==
  ASSUME BalanceInv, NEW x \in Agents, CreateAgent(x)
  PROVE  PoorNeverPlay' /\ RetiredExactlyWhenBroke' /\ OverdraftBounded'
<1>1. /\ x \notin rented /\ rented' = rented \cup {x} /\ retired' = retired
      /\ ledger' = [ledger EXCEPT ![x] = StartingBalance[x]]
  BY DEF CreateAgent
<1>2. /\ ledger \in [Agents -> Int] /\ rented \subseteq Agents /\ retired \subseteq rented
      /\ StartingBalance \in [Agents -> Nat] /\ Cheapest \in Nat /\ Dearest \in Nat
      /\ Cheapest <= Dearest
  <2>1. PICK b \in Bands : TRUE
    BY RunnerAssumption
  <2> QED
    BY <2>1, RunnerArguments, BandsBounded DEF BalanceInv, RunnerTyped, TypeOK
<1>3. ledger'[x] = StartingBalance[x] /\ \A s \in Agents \ {x} : ledger'[s] = ledger[s]
  BY <1>1, <1>2
<1>4. PoorNeverPlay'
  BY <1>1, <1>2, <1>3 DEF BalanceInv, PoorNeverPlay
<1>5. RetiredExactlyWhenBroke'
  BY <1>1, <1>2, <1>3 DEF BalanceInv, RetiredExactlyWhenBroke
<1>6. OverdraftBounded'
  BY <1>1, <1>2, <1>3 DEF BalanceInv, OverdraftBounded
<1> QED
  BY <1>4, <1>5, <1>6

LEMMA BalanceStep ==
  ASSUME BalanceInv, [Next]_runnerVars
  PROVE  BalanceInv'
<1>1. RunnerTyped' 
  BY RunnerTypeStep, SidesRentedStep, OlderType
  DEF BalanceInv, RunnerTyped, Next, Tick, runnerVars, TypeOK, SidesRented
<1>2. CheckedFairly'
  BY CheckedFairlyStep DEF BalanceInv, CheckedFairly, Next, Tick, runnerVars
<1> DEFINE Balances == PoorNeverPlay /\ RetiredExactlyWhenBroke /\ OverdraftBounded
<1>3. ASSUME UNCHANGED <<rented, ledger, retired>> PROVE Balances'
  BY <1>3 DEF BalanceInv, PoorNeverPlay, RetiredExactlyWhenBroke, OverdraftBounded
<1>4. Balances'
  <2>1. CASE RunnerStep
    <3>1. ASSUME NEW a \in Agents, CreateAgent(a) PROVE Balances'
      BY <3>1, CreateKeepsBalances
    <3>2. ASSUME NEW c \in Callers, NEW n \in Nets, NEW net \in {n, -n}, Record(c, net)
          PROVE Balances'
      BY <3>2, RecordKeepsBalances
    <3>3. ASSUME NEW a \in Agents, NEW b \in Bands, SetBand(a, b) PROVE Balances'
      BY <1>3, <3>3 DEF SetBand
    <3>4. ASSUME NEW a \in rented, NEW why \in Bars, Bar(a, why) PROVE Balances'
      BY <1>3, <3>4 DEF Bar
    <3>5. ASSUME NEW c \in Callers, NEW a \in Active, Pick(c, a) PROVE Balances'
      BY <1>3, <3>5 DEF Pick
    <3>6. ASSUME NEW c \in Callers, Check(c) \/ RecordRefused(c) PROVE Balances'
      BY <1>3, <3>6 DEF Check, RecordRefused
    <3> HIDE DEF Balances
    <3> QED
      BY <2>1, <3>1, <3>2, <3>3, <3>4, <3>5, <3>6 DEF RunnerStep
  <2>2. CASE Tick
    BY <1>3, <2>2 DEF Tick
  <2>3. CASE UNCHANGED runnerVars
    BY <1>3, <2>3 DEF runnerVars
  <2> HIDE DEF Balances
  <2> QED
    BY <2>1, <2>2, <2>3 DEF Next
<1> QED
  BY <1>1, <1>2, <1>4 DEF BalanceInv

\* However many requests run side by side, and whatever bands agents are moved
\* to while they do, a balance never falls further below zero than a match in
\* the dearest band costs above one in the cheapest (runner.ts 343-348).
THEOREM OverdraftAlwaysBounded == Spec => []OverdraftBounded
<1>1. BalanceInv => OverdraftBounded
  BY DEF BalanceInv
<1> QED
  BY BalanceInit, BalanceStep, <1>1, PTL DEF Spec

\* Whoever a match breaks is retired by it, nobody else is, and nobody who has
\* been comes back (ledger.ts 103-117).
THEOREM RetiredAlwaysWhenBroke == Spec => []RetiredExactlyWhenBroke
<1>1. BalanceInv => RetiredExactlyWhenBroke
  BY DEF BalanceInv
<1> QED
  BY BalanceInit, BalanceStep, <1>1, PTL DEF Spec

\* Nothing is recorded for an agent that has retired, whose rental is over or
\* whose withdrawal is on its way, however stale the request's own checks
\* (runner.ts 343-363).
THEOREM StoppedAlwaysStand == Spec => StoppedBalancesStand
<1> DEFINE Stand == \A a \in rented :
             (a \in retired \/ barred[a] \cap {"ended", "withdrawing"} # {})
               => ledger'[a] = ledger[a]
<1>1. ASSUME BalanceInv, [Next]_runnerVars PROVE Stand
  <2>1. ASSUME UNCHANGED ledger PROVE Stand
    BY <2>1
  <2>2. ASSUME NEW x \in Agents, CreateAgent(x) PROVE Stand
    <3>1. x \notin rented /\ ledger' = [ledger EXCEPT ![x] = StartingBalance[x]]
      BY <2>2 DEF CreateAgent
    <3> QED
      BY <1>1, <3>1 DEF BalanceInv, RunnerTyped, TypeOK
  <2>3. ASSUME NEW c \in Callers, NEW n \in Nets, NEW net \in {n, -n}, Record(c, net)
        PROVE Stand
    <3>1. \A s \in Agents \ {games[c].a, games[c].b} : ledger'[s] = ledger[s]
      BY <1>1, <2>3, RecordMoves DEF BalanceInv
    <3>2. \A s \in {games[c].a, games[c].b} :
            s \notin retired /\ barred[s] \cap {"ended", "withdrawing"} = {}
      BY <2>3 DEF Record, StillOpen
    <3>3. rented \subseteq Agents
      BY <1>1 DEF BalanceInv, RunnerTyped, TypeOK
    <3> QED
      BY <3>1, <3>2, <3>3
  <2> HIDE DEF Stand
  <2>4. CASE RunnerStep
    BY <2>1, <2>2, <2>3, <2>4 DEF RunnerStep, SetBand, Bar, Pick, Check, RecordRefused
  <2>5. CASE Tick
    BY <2>1, <2>5 DEF Tick
  <2>6. CASE UNCHANGED runnerVars
    BY <2>1, <2>6 DEF runnerVars
  <2> QED
    BY <1>1, <2>4, <2>5, <2>6 DEF Next
<1>2. BalanceInv /\ [Next]_runnerVars
        => [\A a \in rented :
              (a \in retired \/ barred[a] \cap {"ended", "withdrawing"} # {})
                => ledger'[a] = ledger[a]]_runnerVars
  BY <1>1
<1> QED
  BY BalanceInit, BalanceStep, <1>2, PTL DEF Spec, StoppedBalancesStand
-----------------------------------------------------------------------------
(* What the outbox adds up to.                                             *)

\* What the ops of s at the places I move.
SumOf(s, I) == SumFunctionOnSet([i \in DOMAIN s |-> s[i].amount], I)

\* The settlements of s that pay an agent or are paid by it, and the ops that
\* open its vault, those in L left out.
Incoming(s, L, a) == {i \in DOMAIN s \ L : s[i].kind = "settle" /\ s[i].to = a}
Outgoing(s, L, a) == {i \in DOMAIN s \ L : s[i].kind = "settle" /\ s[i].from = a}
Openings(s, L, a) == {i \in DOMAIN s \ L : s[i].kind = "open_vault" /\ s[i].from = a}

LEMMA FinitePlaces ==
  ASSUME NEW s \in Seq(Op), NEW I, I \subseteq DOMAIN s
  PROVE  IsFiniteSet(I) /\ IsFiniteSet(DOMAIN s)
<1>1. Len(s) \in Nat /\ DOMAIN s = 1 .. Len(s)
  BY LenProperties
<1>2. IsFiniteSet(1 .. Len(s))
  BY <1>1, FS_Interval
<1> QED
  BY <1>1, <1>2, FS_Subset

LEMMA SumOfType ==
  ASSUME NEW s \in Seq(Op), NEW I, I \subseteq DOMAIN s
  PROVE  SumOf(s, I) \in Nat
<1> DEFINE f == [i \in DOMAIN s |-> s[i].amount]
<1>1. \A i \in DOMAIN s : s[i] \in Op
  BY ElementOfSeq, LenProperties
<1>2. \A i \in I : f[i] \in Nat
  BY <1>1 DEF Op
<1> QED
  BY <1>2, FinitePlaces, SumNat DEF SumOf

\* Ops rewritten without touching their amounts add up as before.
LEMMA SumOfSame ==
  ASSUME NEW s \in Seq(Op), NEW t, DOMAIN s \subseteq DOMAIN t, NEW I, I \subseteq DOMAIN s,
         \A i \in I : t[i].amount = s[i].amount
  PROVE  SumOf(t, I) = SumOf(s, I)
<1> DEFINE f == [i \in DOMAIN s |-> s[i].amount]
           g == [i \in DOMAIN t |-> t[i].amount]
<1>1. \A i \in I : g[i] = f[i]
  OBVIOUS
<1>2. IsFiniteSet(I)
  BY FinitePlaces
<1> HIDE DEF f, g
<1>3. SumFunctionOnSet(g, I) = SumFunctionOnSet(f, I)
  BY <1>1, <1>2, SumSame
<1> QED
  BY <1>3 DEF SumOf, f, g

\* One op less.
LEMMA SumOfWithout ==
  ASSUME NEW s \in Seq(Op), NEW I, I \subseteq DOMAIN s, NEW i \in I
  PROVE  SumOf(s, I) = SumOf(s, I \ {i}) + s[i].amount
<1> DEFINE f == [j \in DOMAIN s |-> s[j].amount]
<1>1. \A j \in DOMAIN s : s[j] \in Op
  BY ElementOfSeq, LenProperties
<1>2. \A j \in I : f[j] \in Int
  BY <1>1 DEF Op
<1>3. IsFiniteSet(I) /\ f[i] = s[i].amount
  BY FinitePlaces
<1> HIDE DEF f
<1>4. SumFunctionOnSet(f, I) = f[i] + SumFunctionOnSet(f, I \ {i})
  BY <1>2, <1>3, SumWithout
<1>5. SumOf(s, I) = SumFunctionOnSet(f, I) /\ SumOf(s, I \ {i}) = SumFunctionOnSet(f, I \ {i})
  BY DEF SumOf, f
<1>6. SumFunctionOnSet(f, I \ {i}) \in Int /\ f[i] \in Int
  BY <1>2, <1>3, FinitePlaces, SumInt
<1> QED
  BY <1>3, <1>4, <1>5, <1>6

LEMMA Appended ==
  ASSUME NEW s \in Seq(Op), NEW e \in Op
  PROVE  /\ Append(s, e) \in Seq(Op)
         /\ DOMAIN Append(s, e) = DOMAIN s \cup {Len(s) + 1} /\ Len(s) + 1 \notin DOMAIN s
         /\ \A i \in DOMAIN s : Append(s, e)[i] = s[i]
         /\ Append(s, e)[Len(s) + 1] = e
<1>1. Len(s) \in Nat /\ DOMAIN s = 1 .. Len(s)
  BY LenProperties
<1>2. /\ Append(s, e) \in Seq(Op) /\ Len(Append(s, e)) = Len(s) + 1
      /\ \A i \in 1 .. Len(s) : Append(s, e)[i] = s[i]
      /\ Append(s, e)[Len(s) + 1] = e
  BY AppendProperties
<1>3. DOMAIN Append(s, e) = 1 .. Len(s) + 1
  BY <1>2, LenProperties
<1>4. 1 .. Len(s) + 1 = 1 .. Len(s) \cup {Len(s) + 1} /\ Len(s) + 1 \notin 1 .. Len(s)
  BY <1>1
<1> QED
  BY <1>1, <1>2, <1>3, <1>4

\* One op more: it counts where it belongs.
LEMMA SumOfAppended ==
  ASSUME NEW s \in Seq(Op), NEW e \in Op, NEW I, I \subseteq DOMAIN s, NEW J,
         J = I \/ J = I \cup {Len(s) + 1}
  PROVE  SumOf(Append(s, e), J) = SumOf(s, I) + (IF J = I THEN 0 ELSE e.amount)
<1> DEFINE t == Append(s, e)
<1>1. /\ t \in Seq(Op) /\ DOMAIN t = DOMAIN s \cup {Len(s) + 1} /\ Len(s) + 1 \notin DOMAIN s
      /\ (\A i \in DOMAIN s : t[i] = s[i]) /\ t[Len(s) + 1] = e
  BY Appended
<1> HIDE DEF t
<1>2. SumOf(t, I) = SumOf(s, I)
  BY <1>1, SumOfSame
<1>3. SumOf(s, I) \in Nat
  BY SumOfType
<1>4. CASE J = I
  BY <1>2, <1>3, <1>4 DEF t
<1>5. CASE J # I
  <2>1. J = I \cup {Len(s) + 1} /\ Len(s) + 1 \in J /\ J \ {Len(s) + 1} = I /\ J \subseteq DOMAIN t
    BY <1>1, <1>5
  <2>2. SumOf(t, J) = SumOf(t, I) + e.amount
    BY <1>1, <2>1, SumOfWithout
  <2> QED
    BY <1>2, <1>5, <2>2 DEF t
<1> QED
  BY <1>4, <1>5

LEMMA SidesAppended ==
  ASSUME NEW s \in Seq(Op), NEW e \in Op, NEW L, L \subseteq DOMAIN s, NEW a
  PROVE  LET t == Append(s, e)
         IN  /\ SumOf(t, Incoming(t, L, a)) = SumOf(s, Incoming(s, L, a))
                  + (IF e.kind = "settle" /\ e.to = a THEN e.amount ELSE 0)
             /\ SumOf(t, Outgoing(t, L, a)) = SumOf(s, Outgoing(s, L, a))
                  + (IF e.kind = "settle" /\ e.from = a THEN e.amount ELSE 0)
             /\ SumOf(t, Openings(t, L, a)) = SumOf(s, Openings(s, L, a))
                  + (IF e.kind = "open_vault" /\ e.from = a THEN e.amount ELSE 0)
<1> DEFINE t == Append(s, e)
           n == Len(s) + 1
<1>1. /\ DOMAIN t = DOMAIN s \cup {n} /\ n \notin DOMAIN s
      /\ (\A i \in DOMAIN s : t[i] = s[i]) /\ t[n] = e
  BY Appended
<1> HIDE DEF t, n
<1>2. Incoming(t, L, a) = Incoming(s, L, a) \cup (IF e.kind = "settle" /\ e.to = a THEN {n} ELSE {})
  BY <1>1 DEF Incoming
<1>3. Outgoing(t, L, a) = Outgoing(s, L, a) \cup (IF e.kind = "settle" /\ e.from = a THEN {n} ELSE {})
  BY <1>1 DEF Outgoing
<1>4. Openings(t, L, a) = Openings(s, L, a) \cup (IF e.kind = "open_vault" /\ e.from = a THEN {n} ELSE {})
  BY <1>1 DEF Openings
<1>5. /\ Incoming(s, L, a) \subseteq DOMAIN s /\ Outgoing(s, L, a) \subseteq DOMAIN s
      /\ Openings(s, L, a) \subseteq DOMAIN s
  BY DEF Incoming, Outgoing, Openings
<1>6. ASSUME NEW I, I \subseteq DOMAIN s
      PROVE  SumOf(t, I \cup {n}) = SumOf(s, I) + e.amount /\ SumOf(t, I \cup {}) = SumOf(s, I) + 0
  <2>1. I \cup {n} # I
    BY <1>1, <1>6
  <2>2. SumOf(t, I \cup {n}) = SumOf(s, I) + e.amount
    BY <1>6, <2>1, SumOfAppended DEF t, n
  <2>3. SumOf(t, I) = SumOf(s, I) + 0
    BY <1>6, SumOfAppended DEF t
  <2>4. I \cup {} = I
    OBVIOUS
  <2> QED
    BY <2>2, <2>3, <2>4
<1>7. SumOf(t, Incoming(t, L, a)) = SumOf(s, Incoming(s, L, a))
                                      + (IF e.kind = "settle" /\ e.to = a THEN e.amount ELSE 0)
  BY <1>2, <1>5, <1>6
<1>8. SumOf(t, Outgoing(t, L, a)) = SumOf(s, Outgoing(s, L, a))
                                      + (IF e.kind = "settle" /\ e.from = a THEN e.amount ELSE 0)
  BY <1>3, <1>5, <1>6
<1>9. SumOf(t, Openings(t, L, a)) = SumOf(s, Openings(s, L, a))
                                      + (IF e.kind = "open_vault" /\ e.from = a THEN e.amount ELSE 0)
  BY <1>4, <1>5, <1>6
<1> QED
  BY <1>7, <1>8, <1>9 DEF t

\* Ops that stay what they are, in whatever state, add up as before.
LEMMA SidesSame ==
  ASSUME NEW s \in Seq(Op), NEW t, DOMAIN t = DOMAIN s, NEW L, NEW a,
         \A i \in DOMAIN s : /\ t[i].kind = s[i].kind /\ t[i].from = s[i].from
                             /\ t[i].to = s[i].to /\ t[i].amount = s[i].amount
  PROVE  /\ SumOf(t, Incoming(t, L, a)) = SumOf(s, Incoming(s, L, a))
         /\ SumOf(t, Outgoing(t, L, a)) = SumOf(s, Outgoing(s, L, a))
         /\ SumOf(t, Openings(t, L, a)) = SumOf(s, Openings(s, L, a))
<1>1. /\ Incoming(t, L, a) = Incoming(s, L, a) /\ Outgoing(t, L, a) = Outgoing(s, L, a)
      /\ Openings(t, L, a) = Openings(s, L, a)
  BY DEF Incoming, Outgoing, Openings
<1>2. /\ Incoming(s, L, a) \subseteq DOMAIN s /\ Outgoing(s, L, a) \subseteq DOMAIN s
      /\ Openings(s, L, a) \subseteq DOMAIN s
  BY DEF Incoming, Outgoing, Openings
<1> QED
  BY <1>1, <1>2, SumOfSame

LEMMA SidesType ==
  ASSUME NEW s \in Seq(Op), NEW L, NEW a
  PROVE  /\ SumOf(s, Incoming(s, L, a)) \in Nat
         /\ SumOf(s, Outgoing(s, L, a)) \in Nat
         /\ SumOf(s, Openings(s, L, a)) \in Nat
BY SumOfType DEF Incoming, Outgoing, Openings

\* An op that grows older stays what it is.
LEMMA OlderMoves ==
  ASSUME ops \in Seq(Op)
  PROVE  /\ DOMAIN Older = DOMAIN ops
         /\ \A i \in DOMAIN ops : /\ Older[i].kind = ops[i].kind /\ Older[i].from = ops[i].from
                                  /\ Older[i].to = ops[i].to /\ Older[i].amount = ops[i].amount
<1>1. \A i \in DOMAIN ops : ops[i] \in Op
  BY ElementOfSeq, LenProperties
<1>2. ASSUME NEW o \in Op, NEW n
      PROVE  LET p == [o EXCEPT !.age = n]
             IN  p.kind = o.kind /\ p.from = o.from /\ p.to = o.to /\ p.amount = o.amount
  BY DEF Op
<1>3. ASSUME NEW i \in DOMAIN ops
      PROVE  /\ Older[i].kind = ops[i].kind /\ Older[i].from = ops[i].from
             /\ Older[i].to = ops[i].to /\ Older[i].amount = ops[i].amount
  <2> DEFINE n == IF ops[i].age < OUTFLOW_WINDOW THEN ops[i].age + 1 ELSE ops[i].age
  <2>1. Older[i] = [ops[i] EXCEPT !.age = n]
    BY DEF Older
  <2> HIDE DEF n
  <2> QED
    BY <1>1, <1>2, <2>1
<1> QED
  BY <1>3 DEF Older

\* A recorded match moves its net from the loser to the winner, and queues just
\* that; a level one does neither.
LEMMA RecordQueues ==
  ASSUME RunnerTyped, CheckedFairly, NEW c \in Callers, NEW n \in Nets, NEW net \in {n, -n},
         Record(c, net)
  PROVE  \/ UNCHANGED <<ledger, ops, rented>>
         \/ \E loser, winner \in rented, x \in Nat :
              /\ loser # winner /\ rented' = rented
              /\ {loser, winner} = {games[c].a, games[c].b} /\ x <= Dearest
              /\ ops' = Append(ops, NewOp("settle", loser, winner, x))
              /\ ledger' = [ledger EXCEPT ![loser] = @ - x, ![winner] = @ + x]
<1> DEFINE a == games[c].a
           b == games[c].b
           Moved(loser, winner, x) ==
             /\ loser # winner /\ rented' = rented
             /\ {loser, winner} = {a, b} /\ x <= Dearest
             /\ ops' = Append(ops, NewOp("settle", loser, winner, x))
             /\ ledger' = [ledger EXCEPT ![loser] = @ - x, ![winner] = @ + x]
<1>0. SUFFICES UNCHANGED <<ledger, ops, rented>>
                 \/ \E loser, winner \in rented, x \in Nat : Moved(loser, winner, x)
  OBVIOUS
<1>1. games[c] # NoMatch /\ a # b /\ {a, b} \subseteq rented /\ rented' = rented
  BY DEF Record, RunnerTyped, SidesRented, CheckedFairly
<1>2. net \in Int /\ ops \in Seq(Op) /\ ledger \in [Agents -> Int] /\ rented \subseteq Agents
  BY RunnerArguments DEF RunnerTyped, TypeOK
<1>2a. net <= Dearest /\ -net <= Dearest
  <2>1. /\ games[c].worst \in Nat /\ games[c].worst <= Dearest /\ Dearest \in Nat
        /\ net <= games[c].worst /\ -net <= games[c].worst
    BY <1>1, BandsBounded DEF Record, RunnerTyped, TypeOK, Match, CheckedFairly
  <2> QED
    BY <1>2, <2>1
<1>3. /\ ledger' = [ledger EXCEPT ![a] = @ + net, ![b] = @ - net]
      /\ ops' = ops \o Queued(a, b, net)
  BY DEF Record
<1> HIDE DEF a, b
<1>4. a \in Agents /\ b \in Agents
  BY <1>1, <1>2
<1>5. CASE net > 0
  <2>1. NewOp("settle", b, a, net) \in Op /\ ops' = ops \o <<NewOp("settle", b, a, net)>>
    BY <1>2, <1>3, <1>4, <1>5, NewOpType DEF Queued
  <2>2. ops' = Append(ops, NewOp("settle", b, a, net))
    BY <1>2, <2>1, AppendIsConcat
  <2>3. ledger' = [ledger EXCEPT ![b] = @ - net, ![a] = @ + net]
    BY <1>1, <1>2, <1>3, <1>4
  <2>4. Moved(b, a, net)
    BY <1>1, <1>2a, <2>2, <2>3
  <2> HIDE DEF Moved
  <2> QED
    BY <1>1, <1>2, <1>5, <2>4
<1>6. CASE net < 0
  <2>1. NewOp("settle", a, b, -net) \in Op /\ ops' = ops \o <<NewOp("settle", a, b, -net)>>
    BY <1>2, <1>3, <1>4, <1>6, NewOpType DEF Queued
  <2>2. ops' = Append(ops, NewOp("settle", a, b, -net))
    BY <1>2, <2>1, AppendIsConcat
  <2>3. ledger' = [ledger EXCEPT ![a] = @ - (-net), ![b] = @ + (-net)]
    <3>1. ledger[a] \in Int /\ ledger[b] \in Int
      BY <1>2, <1>4
    <3>2. ledger[a] - (-net) = ledger[a] + net /\ ledger[b] + (-net) = ledger[b] - net
      BY <1>2, <3>1
    <3> QED
      BY <1>1, <1>2, <1>3, <1>4, <3>2
  <2>4. Moved(a, b, -net) /\ -net \in Nat
    BY <1>1, <1>2, <1>6, <1>2a, <2>2, <2>3
  <2> HIDE DEF Moved
  <2> QED
    BY <1>1, <2>4
<1>7. CASE net = 0
  <2>1. ops' = ops
    BY <1>2, <1>3, <1>7, ConcatEmptySeq DEF Queued
  <2>2. ledger' = ledger
    BY <1>2, <1>3, <1>4, <1>7
  <2> QED
    BY <1>1, <2>1, <2>2
<1> HIDE DEF Moved
<1> QED
  BY <1>2, <1>5, <1>6, <1>7

\* A new agent of the seed flow brings its balance, and the op that is to bring
\* its vault as much.
LEMMA CreateQueues ==
  ASSUME RunnerTyped, NEW a \in Agents, CreateAgent(a)
  PROVE  LET opening == Append(ops, NewOp("open_vault", a, a, StartingBalance[a]))
         IN  /\ a \notin rented /\ rented' = rented \cup {a}
             /\ ledger' = [ledger EXCEPT ![a] = StartingBalance[a]]
             /\ \/ ops' = opening
                \/ ops' = Append(opening, NewOp("register_owner", a, a, 0))
<1> DEFINE open == NewOp("open_vault", a, a, StartingBalance[a])
           named == NewOp("register_owner", a, a, 0)
<1>1. open \in Op /\ named \in Op /\ ops \in Seq(Op)
  BY NewOpType, RunnerArguments DEF RunnerTyped, TypeOK
<1>2. /\ a \notin rented /\ rented' = rented \cup {a}
      /\ ledger' = [ledger EXCEPT ![a] = StartingBalance[a]]
      /\ ops' = (ops \o <<open>>) \o (IF a \in Legacy THEN <<named>> ELSE <<>>)
  BY DEF CreateAgent
<1> HIDE DEF open, named
<1>3. ops \o <<open>> = Append(ops, open) /\ Append(ops, open) \in Seq(Op)
  BY <1>1, AppendIsConcat, AppendProperties
<1>4. /\ Append(ops, open) \o <<named>> = Append(Append(ops, open), named)
      /\ Append(ops, open) \o <<>> = Append(ops, open)
  BY <1>1, <1>3, AppendIsConcat, ConcatEmptySeq
<1> QED
  BY <1>2, <1>3, <1>4 DEF open, named

\* Settlements are between agents that exist: whoever is rented later has won
\* and lost nothing yet.
SettledAreRented ==
  \A i \in DOMAIN ops : ops[i].kind = "settle" => {ops[i].from, ops[i].to} \subseteq rented

Mirrored(a) ==
  ledger[a] = StartingBalance[a] + SumOf(ops, Incoming(ops, {}, a)) - SumOf(ops, Outgoing(ops, {}, a))
MirrorInv == SettledAreRented /\ \A a \in rented : Mirrored(a)

LEMMA MirrorRecord ==
  ASSUME RunnerTyped, MirrorInv, NEW loser \in rented, NEW winner \in rented, NEW x \in Nat,
         loser # winner, rented' = rented,
         ops' = Append(ops, NewOp("settle", loser, winner, x)),
         ledger' = [ledger EXCEPT ![loser] = @ - x, ![winner] = @ + x]
  PROVE  MirrorInv'
<1> DEFINE e == NewOp("settle", loser, winner, x)
<1>1. /\ rented \subseteq Agents /\ ops \in Seq(Op) /\ ledger \in [Agents -> Int]
      /\ StartingBalance \in [Agents -> Nat]
  BY RunnerArguments DEF RunnerTyped, TypeOK
<1>2. e \in Op /\ e.kind = "settle" /\ e.from = loser /\ e.to = winner /\ e.amount = x
  BY <1>1, NewOpType DEF NewOp
<1>3. ops' = Append(ops, e)
  OBVIOUS
<1> HIDE DEF e
<1>4. SettledAreRented'
  BY <1>1, <1>2, <1>3, Appended DEF SettledAreRented, MirrorInv
<1>5. ASSUME NEW a \in rented PROVE Mirrored(a)'
  <2>1. /\ SumOf(ops, Incoming(ops, {}, a))' = SumOf(ops, Incoming(ops, {}, a))
                                                 + (IF winner = a THEN x ELSE 0)
        /\ SumOf(ops, Outgoing(ops, {}, a))' = SumOf(ops, Outgoing(ops, {}, a))
                                                 + (IF loser = a THEN x ELSE 0)
    BY <1>1, <1>2, <1>3, SidesAppended
  <2>2. SumOf(ops, Incoming(ops, {}, a)) \in Nat /\ SumOf(ops, Outgoing(ops, {}, a)) \in Nat
    BY <1>1, SidesType
  <2>3. ledger'[a] = ledger[a] + (IF winner = a THEN x ELSE 0) - (IF loser = a THEN x ELSE 0)
    <3>1. a \in Agents /\ ledger[a] \in Int /\ loser \in Agents /\ winner \in Agents
      BY <1>1
    <3>2. CASE a = winner
      BY <1>1, <3>1, <3>2
    <3>3. CASE a = loser
      BY <1>1, <3>1, <3>3
    <3>4. CASE a # winner /\ a # loser
      BY <1>1, <3>1, <3>4
    <3> QED
      BY <3>2, <3>3, <3>4
  <2>4. Mirrored(a) /\ ledger[a] \in Int /\ StartingBalance[a] \in Nat
    BY <1>1 DEF MirrorInv
  <2> QED
    BY <2>1, <2>2, <2>3, <2>4 DEF Mirrored
<1> QED
  BY <1>4, <1>5 DEF MirrorInv

LEMMA MirrorCreate ==
  ASSUME RunnerTyped, MirrorInv, NEW a \in Agents, CreateAgent(a)
  PROVE  MirrorInv'
<1> DEFINE open == NewOp("open_vault", a, a, StartingBalance[a])
           named == NewOp("register_owner", a, a, 0)
           opening == Append(ops, open)
<1>1. /\ rented \subseteq Agents /\ ops \in Seq(Op) /\ ledger \in [Agents -> Int]
      /\ StartingBalance \in [Agents -> Nat]
  BY RunnerArguments DEF RunnerTyped, TypeOK
<1>2. open \in Op /\ open.kind # "settle" /\ named \in Op /\ named.kind # "settle"
  BY <1>1, NewOpType DEF NewOp
<1>3. /\ a \notin rented /\ rented' = rented \cup {a}
      /\ ledger' = [ledger EXCEPT ![a] = StartingBalance[a]]
      /\ ops' = opening \/ ops' = Append(opening, named)
  BY CreateQueues
<1> HIDE DEF open, named
<1>4. opening \in Seq(Op)
  BY <1>1, <1>2, Appended
<1>5. \A b : /\ SumOf(opening, Incoming(opening, {}, b)) = SumOf(ops, Incoming(ops, {}, b))
             /\ SumOf(opening, Outgoing(opening, {}, b)) = SumOf(ops, Outgoing(ops, {}, b))
  <2> TAKE b
  <2>1. SumOf(ops, Incoming(ops, {}, b)) \in Nat /\ SumOf(ops, Outgoing(ops, {}, b)) \in Nat
    BY <1>1, SidesType
  <2> QED
    BY <1>1, <1>2, <2>1, SidesAppended
<1>6. \A i \in DOMAIN opening : opening[i].kind = "settle" =>
         {opening[i].from, opening[i].to} \subseteq rented
  BY <1>1, <1>2, Appended DEF MirrorInv, SettledAreRented
<1> HIDE DEF opening
<1>7. \A b : /\ SumOf(ops, Incoming(ops, {}, b))' = SumOf(ops, Incoming(ops, {}, b))
             /\ SumOf(ops, Outgoing(ops, {}, b))' = SumOf(ops, Outgoing(ops, {}, b))
  <2> TAKE b
  <2>1. /\ SumOf(opening, Incoming(opening, {}, b)) \in Nat
        /\ SumOf(opening, Outgoing(opening, {}, b)) \in Nat
    BY <1>4, SidesType
  <2>2. CASE ops' = opening
    BY <1>5, <2>2
  <2>3. CASE ops' = Append(opening, named)
    BY <1>2, <1>4, <1>5, <2>1, <2>3, SidesAppended
  <2> QED
    BY <1>3, <2>2, <2>3
<1>8. SettledAreRented'
  <2>1. CASE ops' = opening
    BY <1>3, <1>6, <2>1 DEF SettledAreRented
  <2>2. CASE ops' = Append(opening, named)
    BY <1>2, <1>3, <1>4, <1>6, <2>2, Appended DEF SettledAreRented
  <2> QED
    BY <1>3, <2>1, <2>2
<1>9. ASSUME NEW b \in rented PROVE Mirrored(b)'
  BY <1>1, <1>3, <1>7 DEF MirrorInv, Mirrored
<1>10. Mirrored(a)'
  <2>1. Incoming(ops, {}, a) = {} /\ Outgoing(ops, {}, a) = {}
    BY <1>3 DEF MirrorInv, SettledAreRented, Incoming, Outgoing
  <2>2. SumOf(ops, {}) = 0
    BY SumOfNone DEF SumOf
  <2>3. ledger'[a] = StartingBalance[a] /\ StartingBalance[a] \in Nat
    BY <1>1, <1>3
  <2> QED
    BY <1>7, <2>1, <2>2, <2>3 DEF Mirrored
<1> QED
  BY <1>3, <1>8, <1>9, <1>10 DEF MirrorInv

LEMMA MirrorInit ==
  ASSUME Init
  PROVE  MirrorInv
<1>1. ops = <<>> /\ DOMAIN ops = {}
  BY DEF Init
<1>2. ASSUME NEW a \in rented PROVE Mirrored(a)
  <2>1. Incoming(ops, {}, a) = {} /\ Outgoing(ops, {}, a) = {} /\ SumOf(ops, {}) = 0
    BY <1>1, SumOfNone DEF Incoming, Outgoing, SumOf
  <2>2. ledger[a] = StartingBalance[a] /\ StartingBalance[a] \in Nat
    BY RunnerArguments DEF Init
  <2> QED
    BY <2>1, <2>2 DEF Mirrored
<1> QED
  BY <1>1, <1>2 DEF MirrorInv, SettledAreRented

LEMMA MirrorStep ==
  ASSUME BalanceInv, MirrorInv, [Next]_runnerVars
  PROVE  MirrorInv'
<1>1. RunnerTyped /\ CheckedFairly /\ ops \in Seq(Op)
  BY DEF BalanceInv, RunnerTyped, TypeOK
<1>2. ASSUME UNCHANGED <<ledger, ops, rented>> PROVE MirrorInv'
  BY <1>2 DEF MirrorInv, SettledAreRented, Mirrored
<1>3. ASSUME NEW a \in Agents, CreateAgent(a) PROVE MirrorInv'
  BY <1>1, <1>3, MirrorCreate
<1>4. ASSUME NEW c \in Callers, NEW n \in Nets, NEW net \in {n, -n}, Record(c, net)
      PROVE MirrorInv'
  <2>1. CASE UNCHANGED <<ledger, ops, rented>>
    BY <1>2, <2>1
  <2>2. CASE \E loser, winner \in rented, x \in Nat :
               /\ loser # winner /\ rented' = rented
               /\ {loser, winner} = {games[c].a, games[c].b} /\ x <= Dearest
               /\ ops' = Append(ops, NewOp("settle", loser, winner, x))
               /\ ledger' = [ledger EXCEPT ![loser] = @ - x, ![winner] = @ + x]
    BY <1>1, <2>2, MirrorRecord
  <2> QED
    BY <1>1, <1>4, <2>1, <2>2, RecordQueues
<1>5. CASE Tick
  <2>1. ops' = Older /\ UNCHANGED <<ledger, rented>>
    BY <1>5 DEF Tick
  <2>2. /\ DOMAIN ops' = DOMAIN ops
        /\ \A i \in DOMAIN ops : /\ ops'[i].kind = ops[i].kind /\ ops'[i].from = ops[i].from
                                 /\ ops'[i].to = ops[i].to /\ ops'[i].amount = ops[i].amount
    BY <1>1, <2>1, OlderMoves
  <2>3. SettledAreRented'
    BY <2>1, <2>2 DEF MirrorInv, SettledAreRented
  <2>4. ASSUME NEW a \in rented PROVE Mirrored(a)'
    BY <1>1, <2>1, <2>2, SidesSame DEF MirrorInv, Mirrored
  <2> QED
    BY <2>1, <2>3, <2>4 DEF MirrorInv
<1>6. CASE RunnerStep
  BY <1>2, <1>3, <1>4, <1>6 DEF RunnerStep, SetBand, Bar, Pick, Check, RecordRefused
<1> QED
  BY <1>2, <1>5, <1>6 DEF Next, runnerVars

\* A balance is what renting put in, plus the settlements queued to the agent,
\* less those queued from it, however many requests run side by side
\* (runner.ts 338-417): the outbox and the ledger tell the same story.
THEOREM OutboxAlwaysMirrors == Spec => []OutboxMirrorsLedger
<1>1. MirrorInv => OutboxMirrorsLedger
  <2>1. \A a : Won(a) = SumOf(ops, Incoming(ops, {}, a)) /\ Lost(a) = SumOf(ops, Outgoing(ops, {}, a))
    <3> TAKE a
    <3>1. /\ Incoming(ops, {}, a) = {i \in DOMAIN ops : ops[i].kind = "settle" /\ ops[i].to = a}
          /\ Outgoing(ops, {}, a) = {i \in DOMAIN ops : ops[i].kind = "settle" /\ ops[i].from = a}
      BY DEF Incoming, Outgoing
    <3> QED
      BY <3>1 DEF Won, Lost, SumOf, OpAmounts
  <2> QED
    BY <2>1 DEF MirrorInv, Mirrored, OutboxMirrorsLedger
<1> QED
  BY <1>1, MirrorInit, MirrorStep, BalanceInit, BalanceStep, PTL DEF Spec
-----------------------------------------------------------------------------
(* The outflow budget.                                                     *)

\* Division by a positive number keeps the order, and a sum's quotient is no
\* more than the quotient and the term.
LEMMA QuotientBounds ==
  ASSUME NEW x \in Int, NEW n \in Nat, NEW d \in Nat \ {0}
  PROVE  /\ x \div d \in Int /\ (x + n) \div d \in Int
         /\ x \div d <= (x + n) \div d /\ (x + n) \div d <= (x \div d) + n
<1> DEFINE p == x \div d
           q == (x + n) \div d
<1>1. p \in Int /\ q \in Int /\ x + n \in Int
  OBVIOUS
<1>2. d * p <= x /\ x < d * p + d
  OBVIOUS
<1>3. d * q <= x + n /\ x + n < d * q + d
  OBVIOUS
<1> HIDE DEF p, q
<1>4. ASSUME q < p PROVE FALSE
  <2>1. d * (q + 1) <= d * p
    BY <1>1, <1>4
  <2>2. d * (q + 1) = d * q + d
    BY <1>1
  <2>3. d * p \in Int /\ d * q \in Int
    BY <1>1
  <2> QED
    BY <1>1, <1>2, <1>3, <2>1, <2>2, <2>3
<1>5. ASSUME p + n < q PROVE FALSE
  <2>1. d * (p + n + 1) <= d * q
    BY <1>1, <1>5
  <2>2. d * (p + n + 1) = d * p + d * n + d
    BY <1>1
  <2>3. n <= d * n
    OBVIOUS
  <2>4. d * p \in Int /\ d * q \in Int /\ d * n \in Int
    BY <1>1
  <2> QED
    BY <1>1, <1>2, <1>3, <2>1, <2>2, <2>3, <2>4
<1>6. p <= q /\ q <= p + n
  BY <1>1, <1>4, <1>5
<1> QED
  BY <1>1, <1>6 DEF p, q

\* A budget grows with the balance, and by no more than the balance does.
LEMMA BudgetBounds ==
  ASSUME NEW x \in Int, NEW n \in Nat
  PROVE  /\ OutflowBudget(x) \in Nat /\ OutflowBudget(x + n) \in Nat
         /\ OutflowBudget(x) <= OutflowBudget(x + n)
         /\ OutflowBudget(x + n) <= OutflowBudget(x) + n
<1> DEFINE p == x \div OUTFLOW_BUDGET_DIVISOR
           q == (x + n) \div OUTFLOW_BUDGET_DIVISOR
<1>1. p \in Int /\ q \in Int /\ p <= q /\ q <= p + n
  BY QuotientBounds, RunnerAssumption
<1>2. OUTFLOW_BUDGET_FLOOR \in Nat
  BY RunnerAssumption
<1>3. /\ OutflowBudget(x) = Greater(OUTFLOW_BUDGET_FLOOR, p)
      /\ OutflowBudget(x + n) = Greater(OUTFLOW_BUDGET_FLOOR, q)
  BY DEF OutflowBudget
<1> HIDE DEF p, q
<1> QED
  BY <1>1, <1>2, <1>3 DEF Greater

\* The ops that count against an agent's budget.
Committed(s, a) ==
  {i \in DOMAIN s : /\ s[i].kind = "settle" /\ s[i].from = a
                    /\ s[i].status # "failed" /\ s[i].age < OUTFLOW_WINDOW}

LEMMA CommittedIs ==
  ASSUME NEW a, ops \in Seq(Op)
  PROVE  CommittedOutflow(a) = SumOf(ops, Committed(ops, a)) /\ CommittedOutflow(a) \in Nat
<1>1. CommittedOutflow(a) = SumOf(ops, Committed(ops, a))
  BY DEF CommittedOutflow, SumOf, Committed, OpAmounts
<1>2. Committed(ops, a) \subseteq DOMAIN ops
  BY DEF Committed
<1> QED
  BY <1>1, <1>2, SumOfType

\* The requests in the middle of a match of an agent's.
Playing(a) == {c \in Callers : games[c] # NoMatch /\ a \in {games[c].a, games[c].b}}

\* How far an agent may be committed: one match in the dearest band for every
\* request that has picked it already is still to come.
Reserve(n) == Cardinality(Callers) * Dearest - n * Dearest - Cheapest
Kept(a) == CommittedOutflow(a) <= OutflowBudget(ledger[a] + CommittedOutflow(a))
                                    + Reserve(Cardinality(Playing(a)))
BudgetInv == \A a \in rented : Kept(a)

\* A request fewer reserves a match more.
LEMMA ReserveBounds ==
  ASSUME NEW n \in Nat, NEW m \in Nat, n <= m, m <= Cardinality(Callers)
  PROVE  /\ Reserve(n) \in Int /\ Reserve(m) \in Int
         /\ Reserve(m) <= Reserve(n) /\ -Cheapest <= Reserve(m)
         /\ n < m => Reserve(m) + Dearest <= Reserve(n)
<1> DEFINE N == Cardinality(Callers)
<1>1. N \in Nat /\ Dearest \in Nat /\ Cheapest \in Nat
  BY FS_CardinalityType, RunnerAssumption, BandsBounded
<1> HIDE DEF N
<1>2. n * Dearest \in Nat /\ m * Dearest \in Nat /\ N * Dearest \in Nat
  BY <1>1
<1>3. n * Dearest <= m * Dearest /\ m * Dearest <= N * Dearest
  <2>1. ASSUME NEW k \in Nat, NEW l \in Nat, k <= l PROVE k * Dearest <= l * Dearest
    <3>1. l - k \in Nat /\ l = k + (l - k)
      BY <2>1
    <3>2. l * Dearest = k * Dearest + (l - k) * Dearest /\ (l - k) * Dearest \in Nat
      BY <1>1, <3>1
    <3>3. k * Dearest \in Nat
      BY <1>1
    <3> QED
      BY <3>2, <3>3
  <2> QED
    BY <1>1, <2>1 DEF N
<1>4. n < m => n * Dearest + Dearest <= m * Dearest
  <2>1. ASSUME n < m PROVE n * Dearest + Dearest <= m * Dearest
    <3>1. m - n - 1 \in Nat /\ m = n + 1 + (m - n - 1)
      BY <2>1
    <3>2. m * Dearest = n * Dearest + Dearest + (m - n - 1) * Dearest
      BY <1>1, <3>1
    <3>3. (m - n - 1) * Dearest \in Nat
      BY <1>1, <3>1
    <3> QED
      BY <1>1, <1>2, <3>2, <3>3
  <2> QED
    BY <2>1
<1>5. \A k \in Nat : Reserve(k) = N * Dearest - k * Dearest - Cheapest
  BY DEF Reserve, N
<1> DEFINE x == n * Dearest
           y == m * Dearest
           z == N * Dearest
<1>7. x \in Nat /\ y \in Nat /\ z \in Nat /\ x <= y /\ y <= z /\ (n < m => x + Dearest <= y)
  BY <1>2, <1>3, <1>4
<1>8. Reserve(n) = z - x - Cheapest /\ Reserve(m) = z - y - Cheapest
  BY <1>5
<1> HIDE DEF x, y, z
<1>9. /\ Reserve(n) \in Int /\ Reserve(m) \in Int /\ Reserve(m) <= Reserve(n) /\ -Cheapest <= Reserve(m)
      /\ n < m => Reserve(m) + Dearest <= Reserve(n)
  BY <1>1, <1>7, <1>8
<1> QED
  BY <1>9

LEMMA PlayingCounts ==
  ASSUME NEW a
  PROVE  /\ IsFiniteSet(Playing(a)) /\ Cardinality(Playing(a)) \in Nat
         /\ Cardinality(Playing(a)) <= Cardinality(Callers)
<1>1. Playing(a) \subseteq Callers
  BY DEF Playing
<1> QED
  BY <1>1, RunnerAssumption, FS_Subset, FS_CardinalityType

\* Whoever has just been rented is in no match and owes nothing: any budget is
\* above that.
LEMMA RoomAtFirst ==
  ASSUME NEW balance \in Int
  PROVE  0 <= OutflowBudget(balance) + Reserve(0)
<1>1. /\ Cardinality(Callers) \in Nat /\ Cardinality(Callers) >= 1
      /\ Cheapest \in Nat /\ Dearest \in Nat /\ Cheapest <= Dearest
  <2>1. PICK b \in Bands : TRUE
    BY RunnerAssumption
  <2>2. Cardinality(Callers) \in Nat /\ Cardinality(Callers) # 0
    BY RunnerAssumption, FS_CardinalityType, FS_EmptySet
  <2> QED
    BY <2>1, <2>2, BandsBounded, RunnerArguments
<1>2. Reserve(0) = Cardinality(Callers) * Dearest - Cheapest
  <2>1. Reserve(0) = Cardinality(Callers) * Dearest - 0 * Dearest - Cheapest
    BY DEF Reserve
  <2>2. 0 * Dearest = 0 /\ Cardinality(Callers) * Dearest \in Int
    BY <1>1
  <2> QED
    BY <1>1, <2>1, <2>2
<1>3. Dearest <= Cardinality(Callers) * Dearest /\ Cardinality(Callers) * Dearest \in Nat
  <2> DEFINE k == Cardinality(Callers) - 1
  <2>1. k \in Nat /\ Cardinality(Callers) = k + 1
    BY <1>1
  <2> HIDE DEF k
  <2>2. Cardinality(Callers) * Dearest = k * Dearest + Dearest /\ k * Dearest \in Nat
    BY <1>1, <2>1
  <2> QED
    BY <1>1, <2>2
<1>4. OutflowBudget(balance) \in Nat
  BY BudgetBounds
<1> QED
  BY <1>1, <1>2, <1>3, <1>4

\* Being in fewer matches, or being committed to less, keeps an agent within.
LEMMA KeptAfter ==
  ASSUME NEW a, ledger[a] \in Int, ledger'[a] \in Int, Kept(a),
         CommittedOutflow(a) \in Nat, CommittedOutflow(a)' \in Nat,
         CommittedOutflow(a)' <= CommittedOutflow(a), ledger'[a] >= ledger[a],
         Playing(a)' \subseteq Playing(a)
  PROVE  Kept(a)'
<1> DEFINE n == Cardinality(Playing(a))
           m == Cardinality(Playing(a)')
           C == CommittedOutflow(a)
           D == CommittedOutflow(a)'
           K == ledger[a]
           L == ledger'[a]
<1>1. n \in Nat /\ m \in Nat /\ m <= n /\ n <= Cardinality(Callers)
  BY PlayingCounts, FS_Subset, FS_CardinalityType
<1>2. Reserve(m) \in Int /\ Reserve(n) \in Int /\ Reserve(n) <= Reserve(m)
  BY <1>1, ReserveBounds
<1>3. C \in Nat /\ D \in Nat /\ K \in Int /\ L \in Int /\ D <= C /\ L >= K
  OBVIOUS
<1>4. C <= OutflowBudget(K + C) + Reserve(n)
  BY DEF Kept
<1>5. Kept(a)' <=> D <= OutflowBudget(L + D) + Reserve(m)
  BY DEF Kept, OutflowBudget, Greater, Reserve
<1> HIDE DEF n, m, C, D, K, L
<1> DEFINE d == C - D
           e == L - K
           b == OutflowBudget(K + D)
           f == OutflowBudget(K + C)
           g == OutflowBudget(L + D)
<1>6. d \in Nat /\ e \in Nat /\ K + D \in Int /\ K + C = (K + D) + d /\ L + D = (K + D) + e
  BY <1>3
<1>7. b \in Nat /\ f \in Nat /\ f <= b + d
  BY <1>6, BudgetBounds
<1>8. g \in Nat /\ b <= g
  BY <1>6, BudgetBounds
<1>9. d = C - D /\ C <= f + Reserve(n)
  BY <1>4
<1> HIDE DEF b, f, g, d, e
<1>10. D <= g + Reserve(m)
  BY <1>2, <1>3, <1>7, <1>8, <1>9
<1> QED
  BY <1>5, <1>10 DEF g

\* The loser of a match is committed to a match more, and has one less to come.
LEMMA KeptByLoser ==
  ASSUME NEW a, NEW x \in Nat, x <= Dearest, NEW c \in Playing(a),
         ledger[a] \in Int, ledger'[a] = ledger[a] - x, Kept(a),
         CommittedOutflow(a) \in Nat,
         CommittedOutflow(a)' \in {CommittedOutflow(a), CommittedOutflow(a) + x},
         Playing(a)' \subseteq Playing(a) \ {c}
  PROVE  Kept(a)'
<1> DEFINE n == Cardinality(Playing(a))
           m == Cardinality(Playing(a)')
           C == CommittedOutflow(a)
           D == CommittedOutflow(a)'
           K == ledger[a]
           L == ledger'[a]
<1>1. n \in Nat /\ m \in Nat /\ m < n /\ n <= Cardinality(Callers)
  <2>1. Cardinality(Playing(a) \ {c}) = n - 1 /\ IsFiniteSet(Playing(a) \ {c}) /\ n \in Nat
    BY PlayingCounts, OneLess
  <2>2. m <= Cardinality(Playing(a) \ {c}) /\ m \in Nat
    BY <2>1, FS_Subset, FS_CardinalityType
  <2> QED
    BY <2>1, <2>2, PlayingCounts
<1>2. Reserve(m) \in Int /\ Reserve(n) \in Int /\ Reserve(n) + Dearest <= Reserve(m) /\ Dearest \in Nat
  BY <1>1, ReserveBounds, BandsBounded
<1>3. C \in Nat /\ K \in Int /\ x \in Nat /\ x <= Dearest /\ L = K - x /\ D \in {C, C + x}
  OBVIOUS
<1>4. C <= OutflowBudget(K + C) + Reserve(n)
  BY DEF Kept
<1>5. Kept(a)' <=> D <= OutflowBudget(L + D) + Reserve(m)
  BY DEF Kept, OutflowBudget, Greater, Reserve
<1> HIDE DEF n, m, C, D, K, L
<1> DEFINE b == OutflowBudget(K + C - x)
           f == OutflowBudget(K + C)
<1>6. K + C - x \in Int /\ K + C = (K + C - x) + x
  BY <1>3
<1>7. b \in Nat /\ f \in Nat /\ f <= b + x
  BY <1>3, <1>6, BudgetBounds
<1>8. C <= f + Reserve(n)
  BY <1>4
<1>9. CASE D = C + x
  <2>1. L + D = K + C
    BY <1>3, <1>9
  <2> HIDE DEF b, f
  <2>2. D <= f + Reserve(m)
    BY <1>2, <1>3, <1>7, <1>8, <1>9
  <2> QED
    BY <1>5, <2>1, <2>2 DEF f
<1>10. CASE D = C
  <2>1. L + D = K + C - x
    BY <1>3, <1>10
  <2> HIDE DEF b, f
  <2>2. D <= b + Reserve(m)
    BY <1>2, <1>3, <1>7, <1>8, <1>10
  <2> QED
    BY <1>5, <2>1, <2>2 DEF b
<1> QED
  BY <1>3, <1>9, <1>10

\* A match is picked only for agents with room for it, so that one is within
\* its budget however many other requests have picked it.
LEMMA KeptByPick ==
  ASSUME NEW a, ledger[a] \in Int, CommittedOutflow(a) \in Nat, HasOutflowRoom(a),
         band[a] \in Bands, UNCHANGED <<ledger, ops>>
  PROVE  Kept(a)'
<1> DEFINE m == Cardinality(Playing(a)')
           C == CommittedOutflow(a)
           K == ledger[a]
           w == WorstMatch[band[a]]
<1>1. m \in Nat /\ m <= Cardinality(Callers)
  <2>1. Playing(a)' \subseteq Callers
    BY DEF Playing
  <2> QED
    BY <2>1, RunnerAssumption, FS_Subset, FS_CardinalityType
<1>2. Reserve(m) \in Int /\ -Cheapest <= Reserve(m)
  BY <1>1, ReserveBounds
<1>3. C \in Nat /\ K \in Int /\ w \in Nat /\ Cheapest \in Nat /\ Cheapest <= w
  BY BandsBounded, RunnerArguments
<1>4. C + w <= OutflowBudget(K)
  BY DEF HasOutflowRoom
<1>5. CommittedOutflow(a)' = C
  BY DEF CommittedOutflow, OpAmounts
<1>6. Kept(a)' <=> C <= OutflowBudget(K + C) + Reserve(m)
  BY <1>5 DEF Kept, OutflowBudget, Greater, Reserve
<1>7. OutflowBudget(K) \in Nat /\ OutflowBudget(K + C) \in Nat /\ OutflowBudget(K) <= OutflowBudget(K + C)
  BY <1>3, BudgetBounds
<1> DEFINE b == OutflowBudget(K)
           f == OutflowBudget(K + C)
<1> HIDE DEF m, C, K, w, b, f
<1>8. C <= f + Reserve(m)
  BY <1>2, <1>3, <1>4, <1>7 DEF b, f
<1> QED
  BY <1>6, <1>8 DEF f

\* What an op more commits, and what growing older does.
LEMMA CommittedAppended ==
  ASSUME NEW s \in Seq(Op), NEW e \in Op, NEW a
  PROVE  /\ SumOf(Append(s, e), Committed(Append(s, e), a))
              \in {SumOf(s, Committed(s, a)), SumOf(s, Committed(s, a)) + e.amount}
         /\ ~(e.kind = "settle" /\ e.from = a)
              => SumOf(Append(s, e), Committed(Append(s, e), a)) = SumOf(s, Committed(s, a))
<1> DEFINE t == Append(s, e)
           n == Len(s) + 1
<1>1. /\ DOMAIN t = DOMAIN s \cup {n} /\ n \notin DOMAIN s
      /\ (\A i \in DOMAIN s : t[i] = s[i]) /\ t[n] = e
  BY Appended
<1>2. SumOf(s, Committed(s, a)) \in Nat /\ Committed(s, a) \subseteq DOMAIN s
  BY SumOfType DEF Committed
<1> HIDE DEF t, n
<1>3. CASE n \in Committed(t, a)
  <2>1. Committed(t, a) = Committed(s, a) \cup {n} /\ Committed(t, a) # Committed(s, a)
    BY <1>1, <1>2, <1>3 DEF Committed
  <2>2. SumOf(t, Committed(t, a)) = SumOf(s, Committed(s, a)) + e.amount
    BY <1>2, <2>1, SumOfAppended DEF t, n
  <2>3. e.kind = "settle" /\ e.from = a
    BY <1>1, <1>3 DEF Committed
  <2> QED
    BY <2>2, <2>3 DEF t
<1>4. CASE n \notin Committed(t, a)
  <2>1. Committed(t, a) = Committed(s, a)
    BY <1>1, <1>4 DEF Committed
  <2>2. SumOf(t, Committed(t, a)) = SumOf(s, Committed(s, a)) + 0
    BY <1>2, <2>1, SumOfAppended DEF t
  <2> QED
    BY <1>2, <2>2 DEF t
<1> QED
  BY <1>3, <1>4

LEMMA CommittedOlder ==
  ASSUME ops \in Seq(Op), NEW a
  PROVE  SumOf(Older, Committed(Older, a)) <= SumOf(ops, Committed(ops, a))
<1>1. Older \in Seq(Op) /\ DOMAIN Older = DOMAIN ops
  BY OlderType, OlderMoves
<1>2. Committed(Older, a) \subseteq Committed(ops, a)
  <2> SUFFICES ASSUME NEW i \in Committed(Older, a) PROVE i \in Committed(ops, a)
    OBVIOUS
  <2>1. i \in DOMAIN ops /\ ops[i] \in Op
    BY <1>1, ElementOfSeq, LenProperties DEF Committed
  <2> DEFINE n == IF ops[i].age < OUTFLOW_WINDOW THEN ops[i].age + 1 ELSE ops[i].age
  <2>2. Older[i] = [ops[i] EXCEPT !.age = n]
    BY <2>1 DEF Older
  <2>3. n \in Nat /\ ops[i].age \in Nat /\ ops[i].age <= n
    BY <2>1 DEF Op
  <2> HIDE DEF n
  <2>4. /\ Older[i].kind = ops[i].kind /\ Older[i].from = ops[i].from
        /\ Older[i].status = ops[i].status /\ Older[i].age = n
    BY <2>1, <2>2 DEF Op
  <2>5. ops[i].age < OUTFLOW_WINDOW
    BY <2>3, <2>4, RunnerArguments DEF Committed
  <2> QED
    BY <2>1, <2>4, <2>5 DEF Committed
<1>3. SumOf(Older, Committed(Older, a)) = SumOf(ops, Committed(Older, a))
  <2>1. Committed(Older, a) \subseteq DOMAIN ops /\ \A i \in Committed(Older, a) : Older[i].amount = ops[i].amount
    BY <1>1, OlderMoves DEF Committed
  <2> QED
    BY <1>1, <2>1, SumOfSame
<1>4. SumOf(ops, Committed(Older, a)) <= SumOf(ops, Committed(ops, a))
  <2> DEFINE f == [i \in DOMAIN ops |-> ops[i].amount]
  <2>1. \A i \in DOMAIN ops : ops[i] \in Op
    BY ElementOfSeq, LenProperties
  <2>2. Committed(ops, a) \subseteq DOMAIN ops
    BY DEF Committed
  <2>3. \A i \in Committed(ops, a) : f[i] \in Nat
    BY <2>1, <2>2 DEF Op
  <2>4. IsFiniteSet(Committed(ops, a))
    BY <2>2, FinitePlaces
  <2> HIDE DEF f
  <2>5. SumFunctionOnSet(f, Committed(Older, a)) <= SumFunctionOnSet(f, Committed(ops, a))
    BY <1>2, <2>3, <2>4, SumOfFewer
  <2> QED
    BY <2>5 DEF SumOf, f
<1> QED
  BY <1>3, <1>4

LEMMA BudgetInit ==
  ASSUME Init
  PROVE  BudgetInv
<1> SUFFICES ASSUME NEW a \in rented PROVE Kept(a)
  BY DEF BudgetInv
<1>1. ledger[a] \in Int /\ ops \in Seq(Op)
  BY RunnerTypeInit DEF RunnerTyped, TypeOK
<1>2. Playing(a) = {}
  BY DEF Init, Playing
<1>3. Committed(ops, a) = {}
  BY DEF Init, Committed
<1>4. CommittedOutflow(a) = 0
  BY <1>1, <1>3, CommittedIs, SumOfNone DEF SumOf
<1>5. Cardinality(Playing(a)) = 0 /\ ledger[a] + CommittedOutflow(a) = ledger[a]
  BY <1>1, <1>2, <1>4, FS_EmptySet
<1> QED
  BY <1>1, <1>4, <1>5, RoomAtFirst DEF Kept

\* A match comes off the requests in hand, and goes to what its loser owes.
LEMMA BudgetRecord ==
  ASSUME BalanceInv, BalanceInv', BudgetInv, NEW c \in Callers, NEW n \in Nets, NEW net \in {n, -n},
         Record(c, net)
  PROVE  BudgetInv'
<1>1. /\ RunnerTyped /\ CheckedFairly /\ ops \in Seq(Op) /\ rented \subseteq Agents
      /\ ledger \in [Agents -> Int] /\ ops' \in Seq(Op) /\ ledger' \in [Agents -> Int]
  BY DEF BalanceInv, RunnerTyped, TypeOK
<1>2. \A s : Playing(s)' \subseteq Playing(s) \ {c}
  <2>1. games' = [games EXCEPT ![c] = NoMatch] /\ games \in [Callers -> Match \cup {NoMatch}]
    BY <1>1 DEF Record, RunnerTyped, TypeOK
  <2> QED
    BY <2>1 DEF Playing
<1>3. /\ games[c] # NoMatch /\ rented' = rented
      /\ \A s \in {games[c].a, games[c].b} : c \in Playing(s)
  BY DEF Record, Playing
<1>4. \A s : /\ CommittedOutflow(s) = SumOf(ops, Committed(ops, s)) /\ CommittedOutflow(s) \in Nat
             /\ CommittedOutflow(s)' = SumOf(ops', Committed(ops', s)) /\ CommittedOutflow(s)' \in Nat
  <2> TAKE s
  <2>1. CommittedOutflow(s)' = SumOf(ops', Committed(ops', s))
    BY DEF CommittedOutflow, SumOf, Committed, OpAmounts
  <2>2. Committed(ops', s) \subseteq DOMAIN ops'
    BY DEF Committed
  <2> QED
    BY <1>1, <2>1, <2>2, CommittedIs, SumOfType
<1>5. ASSUME NEW s \in rented, ledger'[s] >= ledger[s], CommittedOutflow(s)' <= CommittedOutflow(s)
      PROVE  Kept(s)'
  BY <1>1, <1>2, <1>4, <1>5, KeptAfter DEF BudgetInv
<1>6. CASE UNCHANGED <<ledger, ops, rented>>
  <2>1. ASSUME NEW s \in rented PROVE ledger'[s] >= ledger[s] /\ CommittedOutflow(s)' <= CommittedOutflow(s)
    <3>1. ledger'[s] = ledger[s] /\ CommittedOutflow(s)' = CommittedOutflow(s)
      BY <1>4, <1>6
    <3>2. ledger[s] \in Int /\ CommittedOutflow(s) \in Nat
      BY <1>1, <1>4
    <3> QED
      BY <3>1, <3>2
  <2> QED
    BY <1>3, <1>5, <2>1 DEF BudgetInv
<1>7. CASE \E loser, winner \in rented, x \in Nat :
             /\ loser # winner /\ rented' = rented
             /\ {loser, winner} = {games[c].a, games[c].b} /\ x <= Dearest
             /\ ops' = Append(ops, NewOp("settle", loser, winner, x))
             /\ ledger' = [ledger EXCEPT ![loser] = @ - x, ![winner] = @ + x]
  <2>1. PICK loser \in rented, winner \in rented, x \in Nat :
             /\ loser # winner
             /\ {loser, winner} = {games[c].a, games[c].b} /\ x <= Dearest
             /\ ops' = Append(ops, NewOp("settle", loser, winner, x))
             /\ ledger' = [ledger EXCEPT ![loser] = @ - x, ![winner] = @ + x]
    BY <1>7
  <2> DEFINE e == NewOp("settle", loser, winner, x)
  <2>2. e \in Op /\ e.kind = "settle" /\ e.from = loser /\ e.amount = x /\ ops' = Append(ops, e)
    BY <1>1, <2>1, NewOpType DEF NewOp
  <2> HIDE DEF e
  <2>3. ledger'[loser] = ledger[loser] - x /\ ledger'[winner] = ledger[winner] + x
        /\ \A s \in rented \ {loser, winner} : ledger'[s] = ledger[s]
    BY <1>1, <2>1
  <2>4. Kept(loser)'
    <3>1. CommittedOutflow(loser)' \in {CommittedOutflow(loser), CommittedOutflow(loser) + x}
      BY <1>1, <1>4, <2>2, CommittedAppended
    <3>2. Playing(loser)' \subseteq Playing(loser) \ {c} /\ c \in Playing(loser) /\ Kept(loser)
      BY <1>2, <1>3, <2>1 DEF BudgetInv
    <3>3. ledger[loser] \in Int /\ ledger'[loser] = ledger[loser] - x
          /\ CommittedOutflow(loser) \in Nat /\ x <= Dearest
      BY <1>1, <1>4, <2>1, <2>3
    <3> QED
      BY <3>1, <3>2, <3>3, KeptByLoser
  <2>5. ASSUME NEW s \in rented, s # loser PROVE Kept(s)'
    <3>1. CommittedOutflow(s)' = CommittedOutflow(s)
      BY <1>1, <1>4, <2>2, <2>5, CommittedAppended
    <3>2. ledger[s] \in Int /\ CommittedOutflow(s) \in Nat
      BY <1>1, <1>4
    <3>3. ledger'[s] >= ledger[s]
      <4>1. CASE s = winner
        BY <2>3, <3>2, <4>1
      <4>2. CASE s # winner
        BY <2>3, <2>5, <3>2, <4>2
      <4> QED
        BY <4>1, <4>2
    <3> QED
      BY <1>5, <3>1, <3>2, <3>3
  <2> QED
    BY <1>3, <2>4, <2>5 DEF BudgetInv
<1> QED
  <2>1. \/ UNCHANGED <<ledger, ops, rented>>
        \/ \E loser, winner \in rented, x \in Nat :
             /\ loser # winner /\ rented' = rented
             /\ {loser, winner} = {games[c].a, games[c].b} /\ x <= Dearest
             /\ ops' = Append(ops, NewOp("settle", loser, winner, x))
             /\ ledger' = [ledger EXCEPT ![loser] = @ - x, ![winner] = @ + x]
    BY <1>1, RecordQueues
  <2> QED
    BY <1>6, <1>7, <2>1

\* Renting opens a vault and settles nothing.
LEMMA BudgetCreate ==
  ASSUME BalanceInv, MirrorInv, BudgetInv, NEW x \in Agents, CreateAgent(x)
  PROVE  BudgetInv'
<1> DEFINE open == NewOp("open_vault", x, x, StartingBalance[x])
           named == NewOp("register_owner", x, x, 0)
           opening == Append(ops, open)
<1>1. /\ RunnerTyped /\ ops \in Seq(Op) /\ rented \subseteq Agents /\ SidesRented
      /\ ledger \in [Agents -> Int] /\ StartingBalance \in [Agents -> Nat]
  BY RunnerArguments DEF BalanceInv, RunnerTyped, TypeOK
<1>2. open \in Op /\ open.kind # "settle" /\ named \in Op /\ named.kind # "settle"
  BY <1>1, NewOpType DEF NewOp
<1>3. /\ x \notin rented /\ rented' = rented \cup {x}
      /\ ledger' = [ledger EXCEPT ![x] = StartingBalance[x]]
      /\ ops' = opening \/ ops' = Append(opening, named)
  BY <1>1, CreateQueues
<1>4. games' = games
  BY DEF CreateAgent
<1> HIDE DEF open, named
<1>5. opening \in Seq(Op) /\ Append(opening, named) \in Seq(Op)
  BY <1>1, <1>2, Appended
<1>6. \A s : SumOf(ops', Committed(ops', s)) = SumOf(ops, Committed(ops, s))
  <2> TAKE s
  <2>1. SumOf(opening, Committed(opening, s)) = SumOf(ops, Committed(ops, s))
    BY <1>1, <1>2, CommittedAppended
  <2> HIDE DEF opening
  <2>2. SumOf(Append(opening, named), Committed(Append(opening, named), s))
          = SumOf(opening, Committed(opening, s))
    BY <1>2, <1>5, CommittedAppended
  <2> QED
    BY <1>3, <2>1, <2>2
<1>7. \A s : CommittedOutflow(s)' = CommittedOutflow(s) /\ CommittedOutflow(s) \in Nat
  <2> TAKE s
  <2>1. CommittedOutflow(s)' = SumOf(ops', Committed(ops', s))
    BY DEF CommittedOutflow, SumOf, Committed, OpAmounts
  <2> QED
    BY <1>1, <1>6, <2>1, CommittedIs
<1>8. \A s : Playing(s)' = Playing(s)
  BY <1>4 DEF Playing
<1>9. ASSUME NEW s \in rented PROVE Kept(s)'
  <2>1. ledger'[s] = ledger[s]
    BY <1>1, <1>3
  <2> QED
    BY <1>7, <1>8, <2>1 DEF BudgetInv, Kept, OutflowBudget, Greater, Reserve
<1>10. Kept(x)'
  <2>1. Playing(x) = {}
    BY <1>1, <1>3 DEF Playing, SidesRented
  <2>2. Committed(ops, x) = {}
    BY <1>3 DEF Committed, MirrorInv, SettledAreRented
  <2>3. CommittedOutflow(x) = 0
    BY <1>1, <2>2, CommittedIs, SumOfNone DEF SumOf
  <2>4. ledger'[x] \in Int
    BY <1>1, <1>3
  <2>5. /\ CommittedOutflow(x)' = 0 /\ Playing(x)' = {}
        /\ Cardinality({}) = 0 /\ ledger'[x] + 0 = ledger'[x]
    BY <1>7, <1>8, <2>1, <2>3, <2>4, FS_EmptySet
  <2>6. Kept(x)' <=> 0 <= OutflowBudget(ledger'[x]) + Reserve(0)
    BY <2>5 DEF Kept, OutflowBudget, Greater, Reserve
  <2> QED
    BY <2>4, <2>6, RoomAtFirst
<1> QED
  BY <1>3, <1>9, <1>10 DEF BudgetInv

LEMMA BudgetStep ==
  ASSUME BalanceInv, BalanceInv', MirrorInv, BudgetInv, [Next]_runnerVars
  PROVE  BudgetInv'
<1>1. /\ RunnerTyped /\ ops \in Seq(Op) /\ rented \subseteq Agents
      /\ ledger \in [Agents -> Int] /\ band \in [Agents -> Bands]
      /\ games \in [Callers -> Match \cup {NoMatch}]
  BY DEF BalanceInv, RunnerTyped, TypeOK
<1>2. \A s : CommittedOutflow(s) = SumOf(ops, Committed(ops, s)) /\ CommittedOutflow(s) \in Nat
  BY <1>1, CommittedIs
<1>3. ASSUME UNCHANGED <<rented, ledger>>, \A s : Playing(s)' \subseteq Playing(s),
             \A s : CommittedOutflow(s)' \in Nat /\ CommittedOutflow(s)' <= CommittedOutflow(s)
      PROVE  BudgetInv'
  <2> SUFFICES ASSUME NEW s \in rented PROVE Kept(s)'
    BY <1>3 DEF BudgetInv
  <2>1. /\ ledger[s] \in Int /\ ledger'[s] \in Int /\ ledger'[s] >= ledger[s] /\ Kept(s)
        /\ CommittedOutflow(s) \in Nat
    BY <1>1, <1>2, <1>3 DEF BudgetInv
  <2> QED
    BY <1>3, <2>1, KeptAfter
<1>4. ASSUME UNCHANGED <<rented, ledger, ops>>, \A s : Playing(s)' \subseteq Playing(s)
      PROVE  BudgetInv'
  <2>1. \A s : CommittedOutflow(s)' = CommittedOutflow(s)
    BY <1>4 DEF CommittedOutflow, OpAmounts
  <2>2. \A s : CommittedOutflow(s)' \in Nat /\ CommittedOutflow(s)' <= CommittedOutflow(s)
    BY <1>2, <2>1
  <2> QED
    BY <1>3, <1>4, <2>2
<1>5. ASSUME UNCHANGED <<rented, ledger, ops, games>> PROVE BudgetInv'
  <2>1. \A s : Playing(s)' = Playing(s)
    BY <1>5 DEF Playing
  <2> QED
    BY <1>4, <1>5, <2>1
<1>6. ASSUME NEW c \in Callers, NEW x \in Active, Pick(c, x) PROVE BudgetInv'
  <2>1. PICK y \in Candidates(x) :
          games' = [games EXCEPT ![c] = [a |-> x, b |-> y, checked |-> FALSE, worst |-> 0]]
    BY <1>6 DEF Pick
  <2>2. x \in rented /\ y \in rented /\ HasOutflowRoom(x) /\ HasOutflowRoom(y)
        /\ UNCHANGED <<rented, ledger, ops>>
    BY <1>6 DEF Pick, Candidates
  <2>3. ASSUME NEW s \in {x, y} PROVE Kept(s)'
    <3>1. ledger[s] \in Int /\ CommittedOutflow(s) \in Nat /\ band[s] \in Bands /\ HasOutflowRoom(s)
      BY <1>1, <1>2, <2>2
    <3> QED
      BY <2>2, <3>1, KeptByPick
  <2>4. ASSUME NEW s \in rented \ {x, y} PROVE Kept(s)'
    <3>1. Playing(s)' \subseteq Playing(s)
      BY <1>1, <2>1 DEF Playing
    <3>2. CommittedOutflow(s)' = CommittedOutflow(s)
      BY <2>2 DEF CommittedOutflow, OpAmounts
    <3>3. /\ ledger[s] \in Int /\ ledger'[s] \in Int /\ ledger'[s] >= ledger[s] /\ Kept(s)
          /\ CommittedOutflow(s) \in Nat /\ CommittedOutflow(s)' \in Nat
          /\ CommittedOutflow(s)' <= CommittedOutflow(s)
      BY <1>1, <1>2, <2>2, <3>2 DEF BudgetInv
    <3> QED
      BY <3>1, <3>3, KeptAfter
  <2> QED
    BY <2>2, <2>3, <2>4 DEF BudgetInv
<1>7. ASSUME NEW c \in Callers, Check(c) PROVE BudgetInv'
  <2>1. /\ games[c] # NoMatch /\ UNCHANGED <<rented, ledger, ops>>
        /\ \/ games' = [games EXCEPT ![c] = NoMatch]
           \/ games' = [games EXCEPT ![c] = [a |-> games[c].a, b |-> games[c].b, checked |-> TRUE,
                                             worst |-> WorstMatch[band[games[c].a]]]]
    BY <1>7 DEF Check
  <2>2. \A s : Playing(s)' \subseteq Playing(s)
    BY <1>1, <2>1 DEF Playing
  <2> QED
    BY <1>4, <2>1, <2>2
<1>8. ASSUME NEW c \in Callers, RecordRefused(c) PROVE BudgetInv'
  <2>1. games' = [games EXCEPT ![c] = NoMatch] /\ UNCHANGED <<rented, ledger, ops>>
    BY <1>8 DEF RecordRefused
  <2>2. \A s : Playing(s)' \subseteq Playing(s)
    BY <1>1, <2>1 DEF Playing
  <2> QED
    BY <1>4, <2>1, <2>2
<1>9. CASE Tick
  <2>1. ops' = Older /\ UNCHANGED <<rented, ledger, games>>
    BY <1>9 DEF Tick
  <2>2. ASSUME NEW s PROVE CommittedOutflow(s)' \in Nat /\ CommittedOutflow(s)' <= CommittedOutflow(s)
    <3>1. CommittedOutflow(s)' = SumOf(ops', Committed(ops', s)) /\ Committed(ops', s) \subseteq DOMAIN ops'
      BY DEF CommittedOutflow, SumOf, Committed, OpAmounts
    <3>2. SumOf(Older, Committed(Older, s)) <= SumOf(ops, Committed(ops, s)) /\ Older \in Seq(Op)
      BY <1>1, CommittedOlder, OlderType
    <3> QED
      BY <1>2, <2>1, <3>1, <3>2, SumOfType
  <2>3. \A s : Playing(s)' = Playing(s)
    BY <2>1 DEF Playing
  <2> QED
    BY <1>3, <2>1, <2>2, <2>3
<1>10. ASSUME NEW x \in Agents, CreateAgent(x) PROVE BudgetInv'
  BY <1>10, BudgetCreate
<1>11. ASSUME NEW c \in Callers, NEW n \in Nets, NEW net \in {n, -n}, Record(c, net) PROVE BudgetInv'
  BY <1>11, BudgetRecord
<1>12. CASE RunnerStep
  BY <1>5, <1>6, <1>7, <1>8, <1>10, <1>11, <1>12 DEF RunnerStep, SetBand, Bar
<1> QED
  BY <1>5, <1>9, <1>12 DEF Next, runnerVars

\* However many requests run side by side, a vault is committed to pay in the
\* trailing window no more than its budget, and for each of them what one match
\* in the dearest band may exceed what the budget was asked about
\* (runner.ts 652-666).
THEOREM CommitmentsAlwaysWithinBudget == Spec => []CommitmentsWithinBudget
<1>1. BalanceInv /\ BudgetInv => CommitmentsWithinBudget
  <2> SUFFICES ASSUME BalanceInv, BudgetInv, NEW a \in rented
               PROVE  CommittedOutflow(a) <= OutflowBudget(ledger[a] + CommittedOutflow(a))
                                              + Cardinality(Callers) * Dearest - Cheapest
    BY DEF CommitmentsWithinBudget
  <2> DEFINE n == Cardinality(Playing(a))
             C == CommittedOutflow(a)
             b == OutflowBudget(ledger[a] + CommittedOutflow(a))
             N == Cardinality(Callers) * Dearest
  <2>1. ledger[a] \in Int /\ C \in Nat
    BY CommittedIs DEF BalanceInv, RunnerTyped, TypeOK
  <2>2. n \in Nat /\ n <= Cardinality(Callers) /\ Cardinality(Callers) \in Nat
    BY PlayingCounts, RunnerAssumption, FS_CardinalityType
  <2>3. Dearest \in Nat /\ Cheapest \in Nat
    BY BandsBounded
  <2>4. Reserve(n) = N - n * Dearest - Cheapest /\ n * Dearest \in Nat /\ N \in Nat
    BY <2>2, <2>3 DEF Reserve
  <2>5. C <= b + Reserve(n) /\ b \in Nat
    <3>1. ledger[a] + C \in Int
      BY <2>1
    <3> QED
      BY <3>1, BudgetBounds DEF BudgetInv, Kept
  <2> DEFINE d == n * Dearest
  <2>6. d \in Nat /\ Reserve(n) = N - d - Cheapest
    BY <2>4
  <2> HIDE DEF n, C, b, N, d
  <2>7. C <= b + N - Cheapest
    BY <2>1, <2>3, <2>4, <2>5, <2>6
  <2> QED
    BY <2>7 DEF C, b, N
<1> QED
  BY <1>1, BudgetInit, BudgetStep, MirrorInit, MirrorStep, BalanceInit, BalanceStep, PTL DEF Spec
-----------------------------------------------------------------------------
(* Part two: the worker and the chain.                                     *)

(* How the outbox changes: it grows, or the status or the age of an op     *)
(* does.                                                                   *)

LEMMA OpsTyped ==
  ASSUME TypeOK
  PROVE  /\ Len(ops) \in Nat /\ DOMAIN ops = 1 .. Len(ops)
         /\ \A i \in DOMAIN ops : ops[i] \in Op
BY ElementOfSeq, LenProperties DEF TypeOK

\* A step leaves what every op is, and to whom, as it was.
SameOps ==
  /\ DOMAIN ops' = DOMAIN ops
  /\ \A i \in DOMAIN ops : /\ ops'[i].kind = ops[i].kind /\ ops'[i].from = ops[i].from
                            /\ ops'[i].to = ops[i].to /\ ops'[i].amount = ops[i].amount

LEMMA StatusType ==
  ASSUME NEW o \in Op, NEW status \in Statuses
  PROVE  /\ [o EXCEPT !.status = status] \in Op
         /\ [o EXCEPT !.status = status].status = status
         /\ [o EXCEPT !.status = status].kind = o.kind
         /\ [o EXCEPT !.status = status].from = o.from
         /\ [o EXCEPT !.status = status].to = o.to
         /\ [o EXCEPT !.status = status].amount = o.amount
BY DEF Op

LEMMA MarkSame ==
  ASSUME TypeOK, NEW i \in DOMAIN ops, NEW status \in Statuses, Mark(i, status)
  PROVE  /\ ops' \in Seq(Op) /\ Len(ops') = Len(ops) /\ SameOps
         /\ ops'[i].status = status
         /\ \A j \in DOMAIN ops \ {i} : ops'[j] = ops[j]
<1> DEFINE marked == [ops[i] EXCEPT !.status = status]
<1>1. ops' = [ops EXCEPT ![i] = marked]
  BY DEF Mark
<1>2. /\ marked \in Op /\ marked.status = status /\ marked.kind = ops[i].kind
      /\ marked.from = ops[i].from /\ marked.to = ops[i].to /\ marked.amount = ops[i].amount
  BY OpsTyped, StatusType
<1> HIDE DEF marked
<1>3. /\ DOMAIN ops' = DOMAIN ops /\ ops' = [j \in DOMAIN ops' |-> ops'[j]]
      /\ ops'[i] = marked /\ \A j \in DOMAIN ops \ {i} : ops'[j] = ops[j]
  BY <1>1
<1>4. \A j \in DOMAIN ops : ops'[j] \in Op
  BY <1>2, <1>3, OpsTyped
<1>5. ops' \in Seq(Op) /\ Len(ops') = Len(ops)
  BY <1>3, <1>4, RewrittenOps DEF TypeOK
<1> QED
  BY <1>2, <1>3, <1>5 DEF SameOps

LEMMA OlderSame ==
  ASSUME TypeOK, ops' = Older
  PROVE  /\ ops' \in Seq(Op) /\ Len(ops') = Len(ops) /\ SameOps
         /\ \A i \in DOMAIN ops : ops'[i].status = ops[i].status
<1>1. ASSUME NEW i \in DOMAIN ops, NEW n
      PROVE  [ops[i] EXCEPT !.age = n].status = ops[i].status
  BY OpsTyped DEF Op
<1>2. \A i \in DOMAIN ops : ops'[i].status = ops[i].status
  <2> TAKE i \in DOMAIN ops
  <2> DEFINE n == IF ops[i].age < OUTFLOW_WINDOW THEN ops[i].age + 1 ELSE ops[i].age
  <2>1. ops'[i] = [ops[i] EXCEPT !.age = n]
    BY DEF Older
  <2> HIDE DEF n
  <2> QED
    BY <1>1, <2>1
<1>3. SameOps
  BY OlderMoves DEF SameOps, TypeOK
<1> QED
  BY <1>2, <1>3, OlderType DEF TypeOK

\* What is queued: settlements between agents that are rented, and the vault,
\* and perhaps the owner's record, of an agent that was not.
Queueable(o) ==
  /\ o.status = "pending"
  /\ o.kind = "settle" \/ o.from \in (rented' \ rented) \cap Seeded
  /\ o.kind = "register_owner" => o.from \in Legacy

LEMMA QueuedLater ==
  ASSUME TypeOK, NEW q \in Seq(Op), ops' = ops \o q
  PROVE  /\ Len(ops') = Len(ops) + Len(q) /\ DOMAIN ops' = 1 .. Len(ops')
         /\ \A i \in DOMAIN ops : i \in DOMAIN ops' /\ ops'[i] = ops[i]
         /\ \A i \in DOMAIN ops' \ DOMAIN ops :
              i - Len(ops) \in 1 .. Len(q) /\ ops'[i] = q[i - Len(ops)]
<1>1. ops \in Seq(Op) /\ Len(q) \in Nat /\ Len(ops) \in Nat /\ DOMAIN ops = 1 .. Len(ops)
  BY OpsTyped, LenProperties DEF TypeOK
<1>2. /\ ops' \in Seq(Op) /\ Len(ops') = Len(ops) + Len(q)
      /\ \A i \in 1 .. Len(ops) + Len(q) :
           ops'[i] = IF i <= Len(ops) THEN ops[i] ELSE q[i - Len(ops)]
  BY <1>1, ConcatProperties
<1>3. DOMAIN ops' = 1 .. Len(ops')
  BY <1>2, LenProperties
<1> QED
  BY <1>1, <1>2, <1>3

\* What one request, or one new agent, may do to the outbox.
Grows ==
  /\ Len(ops') \in {Len(ops), Len(ops) + 1, Len(ops) + 2}
  /\ DOMAIN ops' = 1 .. Len(ops')
  /\ \A i \in DOMAIN ops : i \in DOMAIN ops' /\ ops'[i] = ops[i]
  /\ \A i \in DOMAIN ops' \ DOMAIN ops :
       Queueable(ops'[i]) /\ (ops'[i].kind = "open_vault" => i = Len(ops) + 1)
  /\ rented \subseteq rented'

LEMMA NewOpFields ==
  ASSUME NEW kind, NEW f, NEW t, NEW x
  PROVE  LET o == NewOp(kind, f, t, x)
         IN  o.kind = kind /\ o.from = f /\ o.to = t /\ o.status = "pending"
BY DEF NewOp

LEMMA CreateGrows ==
  ASSUME RunnerTyped, NEW a \in Agents, CreateAgent(a)
  PROVE  Grows
<1> DEFINE open == NewOp("open_vault", a, a, StartingBalance[a])
           named == NewOp("register_owner", a, a, 0)
<1>1. /\ open \in Op /\ named \in Op
      /\ open.kind = "open_vault" /\ open.from = a /\ open.status = "pending"
      /\ named.kind = "register_owner" /\ named.from = a /\ named.status = "pending"
  BY NewOpType, NewOpFields, RunnerArguments
<1>2. a \in (rented' \ rented) \cap Seeded /\ rented \subseteq rented'
  BY DEF CreateAgent
<1>3. /\ a \in Legacy => ops' = ops \o (<<open>> \o <<named>>)
      /\ a \notin Legacy => ops' = ops \o <<open>>
  <2>1. ops' = (ops \o <<open>>) \o (IF a \in Legacy THEN <<named>> ELSE <<>>)
    BY DEF CreateAgent
  <2>2. ops \in Seq(Op) /\ <<open>> \in Seq(Op) /\ <<named>> \in Seq(Op)
    BY <1>1 DEF RunnerTyped, TypeOK
  <2> HIDE DEF open, named
  <2>4. (ops \o <<open>>) \o <<named>> = ops \o (<<open>> \o <<named>>)
    BY <2>2, ConcatAssociative
  <2>5. (ops \o <<open>>) \o <<>> = ops \o <<open>>
    BY <2>2, ConcatProperties, ConcatEmptySeq
  <2> QED
    BY <2>1, <2>4, <2>5
<1> HIDE DEF open, named
<1>4. CASE a \in Legacy
  <2> DEFINE q == <<open>> \o <<named>>
  <2>1. q \in Seq(Op) /\ Len(q) = 2 /\ q[1] = open /\ q[2] = named /\ ops' = ops \o q
    <3>1. /\ <<open>> \in Seq(Op) /\ Len(<<open>>) = 1 /\ <<open>>[1] = open
          /\ <<named>> \in Seq(Op) /\ Len(<<named>>) = 1 /\ <<named>>[1] = named
      BY <1>1
    <3> QED
      BY <1>3, <1>4, <3>1, ConcatProperties
  <2> HIDE DEF q
  <2>2. /\ Len(ops') = Len(ops) + 2 /\ DOMAIN ops' = 1 .. Len(ops')
        /\ \A i \in DOMAIN ops : i \in DOMAIN ops' /\ ops'[i] = ops[i]
        /\ \A i \in DOMAIN ops' \ DOMAIN ops :
             i - Len(ops) \in 1 .. 2 /\ ops'[i] = q[i - Len(ops)]
    BY <2>1, QueuedLater DEF RunnerTyped
  <2>3. Len(ops) \in Nat /\ DOMAIN ops = 1 .. Len(ops)
    BY OpsTyped DEF RunnerTyped
  <2>4. \A i \in DOMAIN ops' \ DOMAIN ops :
          (i = Len(ops) + 1 /\ ops'[i] = open) \/ ops'[i] = named
    BY <2>1, <2>2, <2>3
  <2> QED
    BY <1>1, <1>2, <1>4, <2>2, <2>4 DEF Grows, Queueable
<1>5. CASE a \notin Legacy
  <2> DEFINE q == <<open>>
  <2>1. q \in Seq(Op) /\ Len(q) = 1 /\ q[1] = open
    BY <1>1
  <2>5. ops' = ops \o q
    BY <1>3, <1>5
  <2> HIDE DEF q
  <2>2. /\ Len(ops') = Len(ops) + 1 /\ DOMAIN ops' = 1 .. Len(ops')
        /\ \A i \in DOMAIN ops : i \in DOMAIN ops' /\ ops'[i] = ops[i]
        /\ \A i \in DOMAIN ops' \ DOMAIN ops :
             i - Len(ops) \in 1 .. 1 /\ ops'[i] = q[i - Len(ops)]
    BY <2>1, <2>5, QueuedLater DEF RunnerTyped
  <2>3. Len(ops) \in Nat /\ DOMAIN ops = 1 .. Len(ops)
    BY OpsTyped DEF RunnerTyped
  <2>4. \A i \in DOMAIN ops' \ DOMAIN ops : i = Len(ops) + 1 /\ ops'[i] = open
    BY <2>1, <2>2, <2>3
  <2> QED
    BY <1>1, <1>2, <2>2, <2>4 DEF Grows, Queueable
<1> QED
  BY <1>4, <1>5

LEMMA RecordGrows ==
  ASSUME RunnerTyped, NEW c \in Callers, NEW n \in Nets, NEW net \in {n, -n}, Record(c, net)
  PROVE  Grows
<1> DEFINE q == Queued(games[c].a, games[c].b, net)
<1>1. games[c].a \in Agents /\ games[c].b \in Agents /\ net \in Int
  BY RunnerArguments DEF Record, RunnerTyped, TypeOK, Match
<1>2. q \in Seq(Op)
  BY <1>1, QueuedType
<1>3. ops' = ops \o q /\ rented' = rented
  BY DEF Record
<1>4. /\ Len(q) \in {0, 1}
      /\ \A i \in 1 .. Len(q) : q[i].kind = "settle" /\ q[i].status = "pending"
  <2>1. CASE net > 0
    BY <1>1, <2>1, NewOpFields DEF Queued
  <2>2. CASE net < 0
    BY <1>1, <2>2, NewOpFields DEF Queued
  <2>3. CASE net = 0
    BY <2>3 DEF Queued
  <2> QED
    BY <1>1, <2>1, <2>2, <2>3
<1> HIDE DEF q
<1>5. /\ Len(ops') = Len(ops) + Len(q) /\ DOMAIN ops' = 1 .. Len(ops')
      /\ \A i \in DOMAIN ops : i \in DOMAIN ops' /\ ops'[i] = ops[i]
      /\ \A i \in DOMAIN ops' \ DOMAIN ops :
           i - Len(ops) \in 1 .. Len(q) /\ ops'[i] = q[i - Len(ops)]
  BY <1>2, <1>3, QueuedLater DEF RunnerTyped
<1>6. Len(ops) \in Nat
  BY OpsTyped DEF RunnerTyped
<1>7. \A i \in DOMAIN ops' \ DOMAIN ops : ops'[i].kind = "settle" /\ ops'[i].status = "pending"
  BY <1>4, <1>5
<1>8. Len(ops') \in {Len(ops), Len(ops) + 1}
  BY <1>4, <1>5, <1>6
<1> QED
  BY <1>3, <1>5, <1>7, <1>8 DEF Grows, Queueable

LEMMA QueueStep ==
  ASSUME RunnerTyped, RunnerStep
  PROVE  Grows
<1>1. ASSUME UNCHANGED <<ops, rented>> PROVE Grows
  BY <1>1, OpsTyped DEF Grows, RunnerTyped
<1>2. ASSUME NEW a \in Agents, CreateAgent(a) PROVE Grows
  BY <1>2, CreateGrows
<1>3. ASSUME NEW c \in Callers, NEW n \in Nets, NEW net \in {n, -n}, Record(c, net) PROVE Grows
  BY <1>3, RecordGrows
<1> QED
  BY <1>1, <1>2, <1>3 DEF RunnerStep, SetBand, Bar, Pick, Check, RecordRefused
-----------------------------------------------------------------------------
(* The inductive invariant.                                                *)

\* What is in the outbox: one opening per agent, and only for agents of the
\* seed flow that are rented.
OpsInv ==
  /\ \A i, j \in DOMAIN ops :
       ops[i].kind = "open_vault" /\ ops[j].kind = "open_vault" /\ ops[i].from = ops[j].from
         => i = j
  /\ \A i \in DOMAIN ops : ops[i].kind # "settle" => ops[i].from \in rented \cap Seeded
  /\ \A i \in DOMAIN ops : ops[i].kind = "register_owner" => ops[i].from \in Legacy

\* What was sent could land when it was sent: the parties of a settlement had
\* their vaults, and a vault was one that can be opened.
Sendable(i) ==
  \/ ops[i].kind = "settle" /\ {ops[i].from, ops[i].to} \subseteq opened
  \/ ops[i].kind = "open_vault" /\ ops[i].from \notin Legacy

ChainInv ==
  /\ opened \cap Legacy = {}
  /\ \A a \in opened \cap Seeded :
       \E i \in landed : ops[i].kind = "open_vault" /\ ops[i].from = a
  /\ \A i \in landed \cup OnTheWay : Sendable(i)
  /\ \A i \in landed : ops[i].kind = "open_vault" => ops[i].from \in opened

\* What no instruction is left for: a party whose vault can never be opened.
Hopeless(i) ==
  CASE ops[i].kind = "settle" -> {ops[i].from, ops[i].to} \cap Legacy # {}
    [] ops[i].kind = "open_vault" -> ops[i].from \in Legacy
    [] OTHER -> TRUE

PassInv ==
  /\ \A i \in todo : ops[i].status = "pending"
  /\ awaiting => todo # {}
  /\ \A i \in DOMAIN ops : ops[i].status = "confirmed" => i \in landed
  /\ \A i \in DOMAIN ops : ops[i].status = "failed" => Hopeless(i)

ReportInv == OutboxTypeOK /\ SidesRented /\ OpsInv /\ ChainInv /\ PassInv

\* What has landed, or may land yet, is not hopeless.
LEMMA SendableNotHopeless ==
  ASSUME ChainInv, OpsInv, landed \subseteq DOMAIN ops, NEW i \in landed \cup OnTheWay
  PROVE  ~Hopeless(i)
BY DEF ChainInv, Sendable, Hopeless

LEMMA ReportFollows == ReportInv => StatusFollowsChain
BY SendableNotHopeless DEF ReportInv, PassInv, StatusFollowsChain, OutboxTypeOK

\* What the worker finds done has landed.
LEMMA DoneLanded ==
  ASSUME OpsInv, ChainInv, landed \subseteq DOMAIN ops, NEW i \in DOMAIN ops, ops[i] \in Op, Done(i)
  PROVE  i \in landed
<1>1. CASE ops[i].kind = "settle"
  BY <1>1 DEF Done
<1>2. CASE ops[i].kind = "open_vault"
  <2>1. ops[i].from \in opened \cap Seeded
    BY <1>2 DEF Done, OpsInv
  <2>2. PICK j \in landed : ops[j].kind = "open_vault" /\ ops[j].from = ops[i].from
    BY <2>1 DEF ChainInv
  <2> QED
    BY <1>2, <2>2 DEF OpsInv
<1>3. CASE ops[i].kind = "register_owner"
  BY <1>3 DEF Done, OpsInv, ChainInv
<1> QED
  BY <1>1, <1>2, <1>3 DEF Op

LEMMA HeadNext ==
  ASSUME OutboxTypeOK, todo # {}
  PROVE  head \in todo /\ head \in DOMAIN ops /\ \A i \in todo : head <= i
<1>1. todo \in SUBSET Nat
  BY OpsTyped DEF OutboxTypeOK
<1>2. PICK x \in todo : \A y \in todo : x <= y
  BY <1>1, LeastNatural
<1>3. head \in todo /\ \A y \in todo : head <= y
  BY <1>2 DEF head, Min
<1> QED
  BY <1>3 DEF OutboxTypeOK

LEMMA ReportInit == OutboxInit => ReportInv
<1> SUFFICES ASSUME OutboxInit PROVE ReportInv
  OBVIOUS
<1>1. RunnerTyped
  BY RunnerTypeInit DEF OutboxInit
<1>2. ops = <<>> /\ DOMAIN ops = {} /\ landed = {} /\ inflight = {} /\ OnTheWay = {} /\ todo = {}
  BY DEF OutboxInit, Init, OnTheWay
<1>3. vault \in [Agents -> Nat]
  BY RunnerArguments DEF OutboxInit, Init
<1>4. outflow \in [Agents -> [age: 0 .. WINDOW_SLOTS, spent: Nat]]
  BY OutboxAssumption, LimitsAssumption DEF OutboxInit
<1>5. OutboxTypeOK
  BY <1>1, <1>2, <1>3, <1>4 DEF RunnerTyped, OutboxTypeOK, OutboxInit
<1>6. OpsInv
  BY <1>2 DEF OpsInv
<1>7. ChainInv
  BY <1>2, RunnerAssumption DEF ChainInv, OutboxInit
<1>8. PassInv
  BY <1>2 DEF PassInv, OutboxInit
<1> QED
  BY <1>1, <1>5, <1>6, <1>7, <1>8 DEF ReportInv, RunnerTyped
-----------------------------------------------------------------------------
(* Every step preserves it.                                                *)

LEMMA WayInQueue ==
  ASSUME OutboxTypeOK
  PROVE  landed \cup OnTheWay \subseteq DOMAIN ops
BY DEF OutboxTypeOK, OnTheWay

\* A step that neither sends nor lands anything.
LEMMA ChainKept ==
  ASSUME OutboxTypeOK, ChainInv, UNCHANGED <<opened, landed>>, inflight' \subseteq inflight,
         \A i \in DOMAIN ops : /\ ops'[i].kind = ops[i].kind /\ ops'[i].from = ops[i].from
                               /\ ops'[i].to = ops[i].to
  PROVE  ChainInv'
<1>1. (landed \cup OnTheWay)' \subseteq landed \cup OnTheWay
  BY DEF OnTheWay
<1>2. \A i \in landed \cup OnTheWay : i \in DOMAIN ops /\ (Sendable(i) => Sendable(i)')
  BY WayInQueue DEF Sendable
<1>3. \A i \in (landed \cup OnTheWay)' : Sendable(i)'
  BY <1>1, <1>2 DEF ChainInv
<1>4. landed \subseteq DOMAIN ops
  BY DEF OutboxTypeOK
<1> QED
  BY <1>3, <1>4 DEF ChainInv

\* A request records a match, or somebody rents an agent.
LEMMA RequestKeeps ==
  ASSUME ReportInv, RunnerStep, UNCHANGED <<chainVars, passVars>>
  PROVE  ReportInv'
<1> USE DEF chainVars, passVars
<1>1. RunnerTyped /\ OutboxTypeOK
  BY DEF ReportInv, OutboxTypeOK, RunnerTyped
<1>2. Grows /\ TypeOK' /\ SidesRented'
  BY <1>1, QueueStep, RunnerTypeStep, SidesRentedStep
<1>3. \A i \in DOMAIN ops : i \in DOMAIN ops' /\ ops'[i] = ops[i]
  BY <1>2 DEF Grows
<1>4. \A i \in DOMAIN ops' \ DOMAIN ops :
        Queueable(ops'[i]) /\ (ops'[i].kind = "open_vault" => i = Len(ops) + 1)
  BY <1>2 DEF Grows
<1>5. OutboxTypeOK'
  BY <1>1, <1>2, <1>3 DEF OutboxTypeOK
<1>6. OpsInv'
  <2>1. ASSUME NEW i \in DOMAIN ops', NEW j \in DOMAIN ops',
               ops'[i].kind = "open_vault", ops'[j].kind = "open_vault",
               ops'[i].from = ops'[j].from
        PROVE  i = j
    <3>1. CASE i \in DOMAIN ops /\ j \in DOMAIN ops
      BY <1>3, <2>1, <3>1 DEF ReportInv, OpsInv
    <3>2. CASE i \notin DOMAIN ops /\ j \notin DOMAIN ops
      BY <1>4, <2>1, <3>2
    <3>3. ASSUME NEW k \in DOMAIN ops, ops[k].kind = "open_vault" PROVE ops[k].from \in rented
      BY <3>3 DEF ReportInv, OpsInv
    <3>4. ASSUME NEW k \in DOMAIN ops' \ DOMAIN ops, ops'[k].kind = "open_vault"
          PROVE  ops'[k].from \notin rented
      BY <1>4, <3>4 DEF Queueable
    <3> QED
      BY <1>3, <2>1, <3>1, <3>2, <3>3, <3>4
  <2>2. ASSUME NEW i \in DOMAIN ops', ops'[i].kind # "settle"
        PROVE  ops'[i].from \in rented' \cap Seeded
    BY <1>2, <1>3, <1>4, <2>2 DEF ReportInv, OpsInv, Queueable, Grows
  <2>3. ASSUME NEW i \in DOMAIN ops', ops'[i].kind = "register_owner" PROVE ops'[i].from \in Legacy
    BY <1>3, <1>4, <2>3 DEF ReportInv, OpsInv, Queueable
  <2> QED
    BY <2>1, <2>2, <2>3 DEF OpsInv
<1>7. ChainInv'
  BY <1>1, <1>3, ChainKept DEF ReportInv
<1>8. PassInv'
  <2>1. \A i \in todo' : i \in DOMAIN ops /\ ops'[i].status = "pending"
    BY <1>1, <1>3 DEF ReportInv, PassInv, OutboxTypeOK
  <2>2. ASSUME NEW i \in DOMAIN ops', ops'[i].status # "pending"
        PROVE  i \in DOMAIN ops /\ ops'[i] = ops[i]
    BY <1>3, <1>4, <2>2 DEF Queueable
  <2>3. \A i \in DOMAIN ops' : ops'[i].status = "confirmed" => i \in landed'
    BY <2>2 DEF ReportInv, PassInv
  <2>4. \A i \in DOMAIN ops' : ops'[i].status = "failed" => Hopeless(i)'
    BY <2>2 DEF ReportInv, PassInv, Hopeless
  <2> QED
    BY <2>1, <2>3, <2>4 DEF ReportInv, PassInv
<1> QED
  BY <1>2, <1>5, <1>6, <1>7, <1>8 DEF ReportInv

\* The worker writes that an op is confirmed or failed.
LEMMA MarkKeeps ==
  ASSUME ReportInv, todo # {}, NEW status \in {"confirmed", "failed"}, Mark(head, status),
         NextOp, OnlyOps, vaultless' \subseteq Legacy,
         status = "confirmed" => head \in landed, status = "failed" => Hopeless(head)
  PROVE  ReportInv'
<1> USE DEF chainVars
<1>1. OutboxTypeOK /\ TypeOK
  BY DEF ReportInv, OutboxTypeOK
<1>2. head \in todo /\ head \in DOMAIN ops
  BY <1>1, HeadNext
<1>3. /\ ops' \in Seq(Op) /\ SameOps /\ ops'[head].status = status
      /\ \A j \in DOMAIN ops \ {head} : ops'[j] = ops[j]
  BY <1>1, <1>2, MarkSame DEF Statuses
<1>4. todo' = todo \ {head} /\ awaiting' = FALSE
  BY DEF NextOp
<1>5. UNCHANGED <<rented, ledger, retired, band, barred, games, opened, vault, outflow, landed,
                  inflight>>
  BY DEF OnlyOps
<1>6. TypeOK' /\ SidesRented'
  BY <1>1, <1>3, <1>5 DEF TypeOK, ReportInv, SidesRented
<1>7. OutboxTypeOK'
  BY <1>1, <1>3, <1>4, <1>5, <1>6 DEF OutboxTypeOK, SameOps
<1>8. OpsInv'
  BY <1>3, <1>5 DEF SameOps, OpsInv, ReportInv
<1>9. ChainInv'
  BY <1>1, <1>3, <1>5, ChainKept DEF SameOps, ReportInv
<1>10. PassInv'
  <2>1. \A i \in todo' : ops'[i].status = "pending"
    BY <1>1, <1>3, <1>4 DEF ReportInv, PassInv, OutboxTypeOK
  <2>2. \A i \in DOMAIN ops : Hopeless(i) => Hopeless(i)'
    BY <1>3 DEF Hopeless, SameOps
  <2>3. \A i \in DOMAIN ops' : ops'[i].status = "confirmed" => i \in landed'
    BY <1>2, <1>3, <1>5 DEF ReportInv, PassInv, SameOps
  <2>4. \A i \in DOMAIN ops' : ops'[i].status = "failed" => Hopeless(i)'
    BY <1>2, <1>3, <2>2 DEF ReportInv, PassInv, SameOps
  <2> QED
    BY <1>4, <2>1, <2>3, <2>4 DEF PassInv
<1> QED
  BY <1>6, <1>7, <1>8, <1>9, <1>10 DEF ReportInv

\* The pass moves on without writing or sending, or something sent is dropped.
LEMMA QuietKeeps ==
  ASSUME ReportInv, UNCHANGED <<runnerVars, opened, vault, outflow, landed>>,
         inflight' \subseteq inflight, todo' \subseteq DOMAIN ops, vaultless' \subseteq Legacy,
         awaiting' \in BOOLEAN, awaiting' => todo' # {},
         \A i \in todo' : ops[i].status = "pending"
  PROVE  ReportInv'
<1> USE DEF runnerVars
<1>1. OutboxTypeOK'
  BY DEF ReportInv, OutboxTypeOK, TypeOK
<1>2. SidesRented' /\ OpsInv'
  BY DEF ReportInv, SidesRented, OpsInv
<1>3. ChainInv'
  BY ChainKept DEF ReportInv
<1>4. PassInv'
  <2>1. \A i \in DOMAIN ops : Hopeless(i) = Hopeless(i)'
    BY DEF Hopeless
  <2> QED
    BY <2>1 DEF ReportInv, PassInv
<1> QED
  BY <1>1, <1>2, <1>3, <1>4 DEF ReportInv

\* A transaction is sent.
LEMMA SendKeeps == ASSUME ReportInv, Send PROVE ReportInv'
<1>1. OutboxTypeOK /\ TypeOK
  BY DEF ReportInv, OutboxTypeOK
<1>2. head \in todo /\ head \in DOMAIN ops /\ ops[head] \in Op
  BY <1>1, HeadNext, OpsTyped DEF Send, AtHead
<1>3. Sendable(head)
  BY <1>2 DEF Send, Accepts, Sendable, Op
<1>4. \E copy \in {1, 2} : inflight' = inflight \cup {<<head, copy>>}
  BY DEF Send
<1>5. UNCHANGED <<runnerVars, opened, vault, outflow, landed, todo, vaultless>> /\ awaiting' = TRUE
  BY DEF Send
<1>6. OutboxTypeOK'
  BY <1>1, <1>2, <1>4, <1>5 DEF OutboxTypeOK, TypeOK, runnerVars
<1>7. SidesRented' /\ OpsInv'
  BY <1>5 DEF ReportInv, SidesRented, OpsInv, runnerVars
<1>8. ChainInv'
  <2>1. OnTheWay' \subseteq OnTheWay \cup {head}
    <3>1. PICK copy \in {1, 2} : inflight' = inflight \cup {<<head, copy>>}
      BY <1>4
    <3>2. ASSUME NEW t \in inflight' PROVE t[1] \in OnTheWay \cup {head}
      <4>1. CASE t \in inflight
        BY <4>1 DEF OnTheWay
      <4>2. CASE t = <<head, copy>>
        BY <4>2
      <4> QED
        BY <3>1, <4>1, <4>2
    <3> QED
      BY <3>2 DEF OnTheWay
  <2>2. \A i \in DOMAIN ops : Sendable(i) => Sendable(i)'
    BY <1>5 DEF Sendable, runnerVars
  <2>3. \A i \in (landed \cup OnTheWay)' : Sendable(i)'
    BY <1>1, <1>2, <1>3, <1>5, <2>1, <2>2, WayInQueue DEF ReportInv, ChainInv
  <2> QED
    BY <1>5, <2>3 DEF ReportInv, ChainInv, runnerVars
<1>9. PassInv'
  <2>1. \A i \in DOMAIN ops : Hopeless(i) = Hopeless(i)'
    BY <1>5 DEF Hopeless, runnerVars
  <2> QED
    BY <1>2, <1>5, <2>1 DEF ReportInv, PassInv, runnerVars
<1> QED
  BY <1>6, <1>7, <1>8, <1>9 DEF ReportInv
LEMMA ChargedSpent ==
  ASSUME OutboxTypeOK, NEW i \in DOMAIN ops
  PROVE  ChargedNow(i).spent \in Nat
<1>1. ops[i].amount \in Nat /\ ops[i].from \in Agents
  BY OpsTyped DEF OutboxTypeOK, Op
<1>2. outflow[ops[i].from].spent \in Nat
  BY <1>1 DEF OutboxTypeOK
<1> QED
  BY <1>1, <1>2 DEF ChargedNow, Charged

\* A transaction lands: a settlement between open vaults, or an opening.
LEMMA LandKeeps == ASSUME ReportInv, NEW t \in inflight, Land(t) PROVE ReportInv'
<1> DEFINE i == t[1]
<1>1. OutboxTypeOK /\ TypeOK
  BY DEF ReportInv, OutboxTypeOK
<1>2. i \in OnTheWay /\ i \in DOMAIN ops /\ ops[i] \in Op
  BY <1>1, WayInQueue, OpsTyped DEF OnTheWay
<1>3. /\ landed' = landed \cup {i} /\ inflight' \subseteq inflight
      /\ UNCHANGED <<runnerVars, passVars>>
  BY DEF Land
<1> HIDE DEF i
<1>4. OnTheWay' \subseteq OnTheWay
  BY <1>3 DEF OnTheWay
<1>5. /\ opened \subseteq opened' /\ opened' \subseteq opened \cup {ops[i].from}
      /\ opened' # opened => ops[i].kind = "open_vault"
      /\ ops[i].kind = "open_vault" =>
           ops[i].from \in opened' /\ ops[i].from \notin Legacy
  BY DEF Land, Accepts, i
<1>6. vault' \in [Agents -> Nat] /\ outflow' \in [Agents -> [age: 0 .. WINDOW_SLOTS, spent: Nat]]
  <2>1. /\ ops[i].from \in Agents /\ ops[i].to \in Agents /\ ops[i].amount \in Nat
        /\ WINDOW_SLOTS \in Nat
    BY <1>2, LimitsAssumption DEF Op
  <2>2. CASE ops[i].kind = "open_vault"
    <3>1. vault' = [vault EXCEPT ![ops[i].from] = ops[i].amount] /\ outflow' = outflow
      BY <2>2 DEF Land, i
    <3> QED
      BY <1>1, <2>1, <3>1 DEF OutboxTypeOK
  <2>3. CASE ops[i].kind = "settle"
    <3> DEFINE spent == ChargedNow(i).spent
               from == ops[i].from
               to == ops[i].to
               amount == ops[i].amount
               age == IF outflow[from].age >= WINDOW_SLOTS THEN 0 ELSE outflow[from].age
    <3>1. /\ vault' = [vault EXCEPT ![from] = @ - amount, ![to] = @ + amount]
          /\ outflow' = [outflow EXCEPT ![from] = [age |-> age, spent |-> spent]]
      BY <2>3 DEF Land, i
    <3>2. vault[from] >= amount
      BY <2>3 DEF Land, Accepts, VaultCovers, i
    <3>3. spent \in Nat
      BY <1>1, <1>2, ChargedSpent
    <3>4. age \in 0 .. WINDOW_SLOTS
      BY <1>1, <2>1 DEF OutboxTypeOK
    <3> HIDE DEF spent, age
    <3>5. vault' \in [Agents -> Nat]
      BY <1>1, <2>1, <3>1, <3>2 DEF OutboxTypeOK
    <3>6. [age |-> age, spent |-> spent] \in [age: 0 .. WINDOW_SLOTS, spent: Nat]
      BY <3>3, <3>4
    <3>7. outflow' \in [Agents -> [age: 0 .. WINDOW_SLOTS, spent: Nat]]
      BY <1>1, <2>1, <3>1, <3>6 DEF OutboxTypeOK
    <3> QED
      BY <3>5, <3>7
  <2> QED
    BY <2>2, <2>3 DEF Land, i
<1>7. OutboxTypeOK'
  BY <1>1, <1>2, <1>3, <1>5, <1>6
  DEF OutboxTypeOK, TypeOK, runnerVars, passVars, Op
<1>8. SidesRented' /\ OpsInv'
  BY <1>3 DEF ReportInv, SidesRented, OpsInv, runnerVars
<1>9. ChainInv'
  <2>1. \A k \in DOMAIN ops : Sendable(k) => Sendable(k)'
    BY <1>3, <1>5 DEF Sendable, runnerVars
  <2>2. \A k \in (landed \cup OnTheWay)' : Sendable(k)'
    BY <1>1, <1>2, <1>3, <1>4, <2>1, WayInQueue DEF ReportInv, ChainInv
  <2>3. opened' \cap Legacy = {}
    BY <1>5 DEF ReportInv, ChainInv
  <2>4. \A a \in opened' \cap Seeded :
          \E k \in landed' : ops[k].kind = "open_vault" /\ ops[k].from = a
    BY <1>3, <1>5 DEF ReportInv, ChainInv
  <2>5. \A k \in landed' : ops[k].kind = "open_vault" => ops[k].from \in opened'
    BY <1>3, <1>5 DEF ReportInv, ChainInv
  <2> QED
    BY <1>3, <2>2, <2>3, <2>4, <2>5 DEF ChainInv, runnerVars
<1>10. PassInv'
  <2>1. \A k \in DOMAIN ops : Hopeless(k) = Hopeless(k)'
    BY <1>3 DEF Hopeless, runnerVars
  <2> QED
    BY <1>3, <2>1 DEF ReportInv, PassInv, runnerVars, passVars
<1> QED
  BY <1>7, <1>8, <1>9, <1>10 DEF ReportInv

\* The clock moves.
LEMMA TickKeeps == ASSUME ReportInv, OutboxTick PROVE ReportInv'
<1>1. OutboxTypeOK /\ TypeOK
  BY DEF ReportInv, OutboxTypeOK
<1>2. /\ ops' \in Seq(Op) /\ SameOps
      /\ \A i \in DOMAIN ops : ops'[i].status = ops[i].status
  BY <1>1, OlderSame DEF OutboxTick
<1>3. UNCHANGED <<rented, ledger, retired, band, barred, games, opened, vault, landed, inflight,
                  todo, vaultless, awaiting>>
  BY DEF OutboxTick, passVars
<1>4. outflow' \in [Agents -> [age: 0 .. WINDOW_SLOTS, spent: Nat]]
  <2>1. ASSUME NEW a \in Agents PROVE OlderWindows[a] \in [age: 0 .. WINDOW_SLOTS, spent: Nat]
    <3> DEFINE n == IF outflow[a].age < WINDOW_SLOTS THEN outflow[a].age + 1 ELSE outflow[a].age
    <3>1. OlderWindows[a] = [outflow[a] EXCEPT !.age = n]
      BY DEF OlderWindows
    <3>2. outflow[a] \in [age: 0 .. WINDOW_SLOTS, spent: Nat] /\ WINDOW_SLOTS \in Nat
      BY <1>1, LimitsAssumption DEF OutboxTypeOK
    <3>3. n \in 0 .. WINDOW_SLOTS
      BY <3>2
    <3> HIDE DEF n
    <3> QED
      BY <3>1, <3>2, <3>3
  <2> QED
    BY <2>1 DEF OutboxTick, OlderWindows
<1>5. OutboxTypeOK'
  BY <1>1, <1>2, <1>3, <1>4 DEF OutboxTypeOK, TypeOK, SameOps
<1>6. SidesRented' /\ OpsInv'
  BY <1>2, <1>3 DEF ReportInv, SidesRented, OpsInv, SameOps
<1>7. ChainInv'
  BY <1>1, <1>2, <1>3, ChainKept DEF SameOps, ReportInv
<1>8. PassInv'
  <2>1. \A i \in DOMAIN ops : Hopeless(i) = Hopeless(i)'
    BY <1>2 DEF Hopeless, SameOps
  <2> QED
    BY <1>1, <1>2, <1>3, <2>1 DEF ReportInv, PassInv, SameOps, OutboxTypeOK
<1> QED
  BY <1>5, <1>6, <1>7, <1>8 DEF ReportInv
\* What the worker gives up on has no instruction left.
LEMMA UnsendableHopeless ==
  ASSUME OutboxTypeOK, NEW i \in DOMAIN ops, Unsendable(i)
  PROVE  Hopeless(i)
<1>1. ops[i] \in Op /\ vaultless \subseteq Legacy
  BY OpsTyped DEF OutboxTypeOK
<1> QED
  BY <1>1 DEF Unsendable, Hopeless, Op

LEMMA WorkerKeeps == ASSUME ReportInv, WorkerStep \/ Stop PROVE ReportInv'
<1>1. OutboxTypeOK /\ TypeOK
  BY DEF ReportInv, OutboxTypeOK
<1>2. /\ todo \subseteq DOMAIN ops /\ vaultless \subseteq Legacy
      /\ \A i \in todo : ops[i].status = "pending"
  BY <1>1 DEF ReportInv, PassInv, OutboxTypeOK
<1>3. CASE StartPass
  <2>1. todo' \subseteq DOMAIN ops /\ \A i \in todo' : ops[i].status = "pending"
    BY <1>3 DEF StartPass, Pending
  <2>2. vaultless' \subseteq Legacy
    BY <1>3 DEF StartPass, ReportInv, PassInv, Hopeless
  <2>3. UNCHANGED <<runnerVars, opened, vault, outflow, landed, inflight>> /\ awaiting' = FALSE
    BY <1>3 DEF StartPass, chainVars
  <2> QED
    BY <2>1, <2>2, <2>3, QuietKeeps
<1>4. CASE Unserved \/ Refused \/ Bounced \/ Stop
  <2>1. /\ todo' \subseteq todo /\ awaiting' = FALSE /\ inflight' \subseteq inflight
        /\ UNCHANGED <<runnerVars, opened, vault, outflow, landed, vaultless>>
    BY <1>4 DEF Unserved, Refused, Bounced, Stop, NextOp, chainVars
  <2> QED
    BY <1>2, <2>1, QuietKeeps
<1>5. CASE GiveUp
  <2>1. /\ todo # {} /\ Mark(head, "failed") /\ NextOp /\ OnlyOps /\ Unsendable(head)
        /\ vaultless' \subseteq vaultless \cup {ops[head].from}
        /\ vaultless' # vaultless => ops[head].kind = "open_vault"
    BY <1>5 DEF GiveUp, AtHead
  <2>2. Hopeless(head)
    BY <1>1, <2>1, HeadNext, UnsendableHopeless
  <2>3. vaultless' \subseteq Legacy
    BY <1>2, <2>1, <2>2 DEF Hopeless
  <2> QED
    BY <2>1, <2>2, <2>3, MarkKeeps
<1>6. CASE FindDone \/ Confirm
  <2>1. /\ todo # {} /\ Mark(head, "confirmed") /\ NextOp /\ OnlyOps /\ Done(head)
        /\ vaultless' = vaultless
    BY <1>6 DEF FindDone, Confirm, AtHead, ReportInv, PassInv
  <2>2. head \in landed
    BY <1>1, <2>1, HeadNext, OpsTyped, DoneLanded DEF ReportInv, OutboxTypeOK
  <2> QED
    BY <1>2, <2>1, <2>2, MarkKeeps
<1> QED
  BY <1>3, <1>4, <1>5, <1>6, SendKeeps DEF WorkerStep

LEMMA ReportStep == ReportInv /\ [OutboxNext]_vars => ReportInv'
<1> SUFFICES ASSUME ReportInv, [OutboxNext]_vars PROVE ReportInv'
  OBVIOUS
<1>1. OutboxTypeOK
  BY DEF ReportInv
<1>2. ASSUME NEW t \in inflight, Drop(t) PROVE ReportInv'
  BY <1>1, <1>2, QuietKeeps DEF Drop, ReportInv, PassInv, OutboxTypeOK, passVars
<1>3. CASE UNCHANGED vars
  BY <1>1, <1>3, QuietKeeps DEF vars, chainVars, passVars, ReportInv, PassInv, OutboxTypeOK
<1> QED
  BY <1>2, <1>3, RequestKeeps, WorkerKeeps, LandKeeps, TickKeeps DEF OutboxNext
-----------------------------------------------------------------------------
(* The theorems.                                                           *)

\* Every reachable state is well typed: in particular no vault goes below zero,
\* whatever lands and in whatever order.
THEOREM OutboxTypeCorrect == OutboxSpec => []OutboxTypeOK
<1>1. ReportInv => OutboxTypeOK
  BY DEF ReportInv
<1> QED
  BY ReportInit, ReportStep, <1>1, PTL DEF OutboxSpec

\* Through lost answers, late landings, second transactions and passes that die
\* anywhere, confirmed means landed, and failed means it never has and never
\* will (worker.ts 32-34).
THEOREM StatusAlwaysFollows == OutboxSpec => []StatusFollowsChain
  BY ReportInit, ReportStep, ReportFollows, PTL DEF OutboxSpec

\* The same, step by step: the worker implements OutboxPromise.
LEMMA PromiseInit == OutboxInit => Promise!Init
<1> SUFFICES ASSUME OutboxInit PROVE Promise!Init
  OBVIOUS
<1>1. ops = <<>> /\ Len(ops) = 0 /\ DOMAIN ops = {} /\ landed = {}
  BY DEF OutboxInit, Init
<1> QED
  BY <1>1 DEF Promise!Init

\* No op changes status: at most, some are queued.
LEMMA PromiseQueue ==
  ASSUME ReportInv, Grows, UNCHANGED landed
  PROVE  Promise!Next \/ UNCHANGED Promise!vars
<1>1. DOMAIN ops = 1 .. Len(ops) /\ Len(ops) \in Nat
  BY OpsTyped DEF ReportInv, OutboxTypeOK
<1>2. \A i \in DOMAIN ops' : (i \in DOMAIN ops /\ ops'[i] = ops[i]) \/ ops'[i].status = "pending"
  BY DEF Grows, Queueable
<1>3. \A i \in DOMAIN ops : i \in DOMAIN ops' /\ ops'[i] = ops[i]
  BY DEF Grows
<1>4. /\ {i \in DOMAIN ops' : ops'[i].status = "confirmed"}
           = {i \in DOMAIN ops : ops[i].status = "confirmed"}
      /\ {i \in DOMAIN ops' : ops'[i].status = "failed"}
           = {i \in DOMAIN ops : ops[i].status = "failed"}
  BY <1>2, <1>3
<1>5. Len(ops') \in {Len(ops), Len(ops) + 1, Len(ops) + 2}
  BY DEF Grows
<1> QED
  BY <1>4, <1>5 DEF Promise!Next, Promise!Queue, Promise!vars

LEMMA PromiseMark ==
  ASSUME ReportInv, todo # {}, NEW status \in {"confirmed", "failed"}, Mark(head, status),
         UNCHANGED landed,
         status = "confirmed" => head \in landed, status = "failed" => Hopeless(head)
  PROVE  Promise!Next
<1>1. OutboxTypeOK /\ TypeOK
  BY DEF ReportInv, OutboxTypeOK
<1>2. /\ head \in DOMAIN ops /\ DOMAIN ops = 1 .. Len(ops) /\ ops[head].status = "pending"
  BY <1>1, HeadNext, OpsTyped DEF ReportInv, PassInv
<1>3. /\ Len(ops') = Len(ops) /\ DOMAIN ops' = DOMAIN ops /\ ops'[head].status = status
      /\ \A j \in DOMAIN ops \ {head} : ops'[j] = ops[j]
  BY <1>1, <1>2, MarkSame DEF SameOps, Statuses
<1>4. CASE status = "confirmed"
  <2>1. /\ {i \in DOMAIN ops' : ops'[i].status = "confirmed"}
             = {i \in DOMAIN ops : ops[i].status = "confirmed"} \cup {head}
        /\ {i \in DOMAIN ops' : ops'[i].status = "failed"}
             = {i \in DOMAIN ops : ops[i].status = "failed"}
    BY <1>2, <1>3, <1>4
  <2>2. Promise!Report(head)
    BY <1>2, <1>3, <1>4, <2>1 DEF Promise!Report
  <2> QED
    BY <1>2, <2>2 DEF Promise!Next, Promise!Report
<1>5. CASE status = "failed"
  <2>1. /\ {i \in DOMAIN ops' : ops'[i].status = "confirmed"}
             = {i \in DOMAIN ops : ops[i].status = "confirmed"}
        /\ {i \in DOMAIN ops' : ops'[i].status = "failed"}
             = {i \in DOMAIN ops : ops[i].status = "failed"} \cup {head}
    BY <1>2, <1>3, <1>5
  <2>2. head \notin landed
    BY <1>1, <1>5, SendableNotHopeless DEF ReportInv, OutboxTypeOK
  <2>3. Promise!Abandon(head)
    BY <1>2, <1>3, <2>1, <2>2 DEF Promise!Abandon
  <2> QED
    BY <1>2, <2>3 DEF Promise!Next, Promise!Abandon
<1> QED
  BY <1>4, <1>5

LEMMA PromiseLand ==
  ASSUME ReportInv, NEW t \in inflight, Land(t)
  PROVE  Promise!Next
<1> DEFINE i == t[1]
<1>1. OutboxTypeOK /\ TypeOK
  BY DEF ReportInv, OutboxTypeOK
<1>2. i \in OnTheWay /\ i \in DOMAIN ops /\ DOMAIN ops = 1 .. Len(ops) /\ ops[i] \in Op
  BY <1>1, WayInQueue, OpsTyped DEF OnTheWay
<1>3. ops' = ops /\ landed' = landed \cup {i} /\ Accepts(i)
  BY DEF Land, runnerVars
<1> HIDE DEF i
<1>4. i \notin landed
  BY <1>2, <1>3 DEF Accepts, NoRecord, Op, ReportInv, ChainInv
<1>5. ops[i].status # "failed"
  BY <1>1, <1>2, SendableNotHopeless DEF ReportInv, PassInv, OutboxTypeOK
<1>6. Promise!Reach(i)
  BY <1>2, <1>3, <1>4, <1>5 DEF Promise!Reach
<1> QED
  BY <1>2, <1>6 DEF Promise!Next

LEMMA PromiseStep == ReportInv /\ [OutboxNext]_vars => [Promise!Next]_(Promise!vars)
<1> SUFFICES ASSUME ReportInv, [OutboxNext]_vars
             PROVE  Promise!Next \/ UNCHANGED Promise!vars
  OBVIOUS
<1>1. OutboxTypeOK /\ TypeOK /\ RunnerTyped
  BY DEF ReportInv, OutboxTypeOK, RunnerTyped
<1>2. ASSUME UNCHANGED <<ops, landed>> PROVE UNCHANGED Promise!vars
  BY <1>2 DEF Promise!vars
<1>3. CASE RunnerStep /\ UNCHANGED <<chainVars, passVars>>
  BY <1>1, <1>3, QueueStep, PromiseQueue DEF chainVars
<1>4. CASE GiveUp
  BY <1>1, <1>4, HeadNext, UnsendableHopeless, PromiseMark DEF GiveUp, AtHead, OnlyOps, chainVars
<1>5. CASE FindDone \/ Confirm
  <2>1. todo # {} /\ Mark(head, "confirmed") /\ UNCHANGED landed /\ Done(head)
    BY <1>5 DEF FindDone, Confirm, AtHead, OnlyOps, chainVars, ReportInv, PassInv
  <2>2. head \in landed
    BY <1>1, <2>1, HeadNext, OpsTyped, DoneLanded DEF ReportInv, OutboxTypeOK
  <2> QED
    BY <2>1, <2>2, PromiseMark
<1>6. CASE StartPass \/ Unserved \/ Refused \/ Send \/ Bounced \/ Stop \/ UNCHANGED vars
  BY <1>2, <1>6 DEF StartPass, Unserved, Refused, Send, Bounced, Stop, vars, runnerVars, chainVars
<1>7. ASSUME NEW t \in inflight, Drop(t) PROVE UNCHANGED Promise!vars
  BY <1>2, <1>7 DEF Drop, runnerVars
<1>8. CASE OutboxTick
  <2>1. /\ Len(ops') = Len(ops) /\ SameOps /\ landed' = landed
        /\ \A i \in DOMAIN ops : ops'[i].status = ops[i].status
    BY <1>1, <1>8, OlderSame DEF OutboxTick
  <2> QED
    BY <2>1 DEF SameOps, Promise!vars
<1> QED
  BY <1>3, <1>4, <1>5, <1>6, <1>7, <1>8, PromiseLand DEF OutboxNext, WorkerStep

\* What the worker does with the outbox, in the words of its promise: an op
\* reaches the chain at most once, is reported done only then, and is given up
\* on only if it never has reached it and never will.
THEOREM OutboxKeepsPromise == OutboxSpec => KeepsPromise
  BY PromiseInit, PromiseStep, ReportInit, ReportStep, PTL DEF OutboxSpec, KeepsPromise, Promise!Spec
-----------------------------------------------------------------------------
(* The chain is the ledger less what has not landed.                       *)

\* The worker and the chain leave balances and requests alone.
LEMMA BalanceFrame ==
  ASSUME BalanceInv, TypeOK', UNCHANGED <<rented, ledger, retired, band, barred, games>>
  PROVE  BalanceInv'
BY DEF BalanceInv, RunnerTyped, SidesRented, CheckedFairly, PoorNeverPlay,
   RetiredExactlyWhenBroke, OverdraftBounded

Follows(a) ==
  vault[a] + SumOf(ops, Openings(ops, landed, a)) + SumOf(ops, Incoming(ops, landed, a))
    = ledger[a] + SumOf(ops, Outgoing(ops, landed, a))

\* Who is not rented yet has no balance, and a vault that is not open holds
\* nothing: this is what the two bring when they come.
FollowInv ==
  /\ BalanceInv
  /\ \A a \in Agents \ rented : ledger[a] = 0
  /\ \A a \in Agents \ opened : vault[a] = 0
  /\ \A a \in Agents : Follows(a)

LEMMA FollowTyped ==
  ASSUME ReportInv
  PROVE  /\ ops \in Seq(Op) /\ landed \subseteq DOMAIN ops /\ rented \subseteq Agents
         /\ ledger \in [Agents -> Int] /\ vault \in [Agents -> Nat]
         /\ StartingBalance \in [Agents -> Nat]
         /\ \A a : /\ SumOf(ops, Openings(ops, landed, a)) \in Nat
                   /\ SumOf(ops, Incoming(ops, landed, a)) \in Nat
                   /\ SumOf(ops, Outgoing(ops, landed, a)) \in Nat
BY SidesType, RunnerArguments DEF ReportInv, OutboxTypeOK, TypeOK

\* A step that moves nothing and leaves the ops what they are.
LEMMA FollowSame ==
  ASSUME ReportInv, ReportInv', FollowInv, SameOps,
         UNCHANGED <<rented, ledger, retired, band, barred, games, opened, vault, landed>>
  PROVE  FollowInv'
<1>1. BalanceInv'
  BY BalanceFrame DEF FollowInv, ReportInv, OutboxTypeOK
<1>2. ASSUME NEW a \in Agents PROVE Follows(a)'
  <2>1. /\ SumOf(ops', Openings(ops', landed, a)) = SumOf(ops, Openings(ops, landed, a))
        /\ SumOf(ops', Incoming(ops', landed, a)) = SumOf(ops, Incoming(ops, landed, a))
        /\ SumOf(ops', Outgoing(ops', landed, a)) = SumOf(ops, Outgoing(ops, landed, a))
    BY FollowTyped, SidesSame DEF SameOps
  <2> QED
    BY <2>1 DEF FollowInv, Follows
<1> QED
  BY <1>1, <1>2 DEF FollowInv

LEMMA Level ==
  ASSUME NEW a, Follows(a), vault[a] \in Nat, ledger[a] \in Int,
         SumOf(ops, Openings(ops, landed, a)) \in Nat,
         SumOf(ops, Incoming(ops, landed, a)) \in Nat,
         SumOf(ops, Outgoing(ops, landed, a)) \in Nat,
         NEW opening \in Nat, NEW won \in Nat, NEW lost \in Nat
  PROVE  vault[a] + (SumOf(ops, Openings(ops, landed, a)) + opening)
                  + (SumOf(ops, Incoming(ops, landed, a)) + won)
           = (ledger[a] + opening + won - lost) + (SumOf(ops, Outgoing(ops, landed, a)) + lost)
BY DEF Follows

\* What is opened, won and lost by an op on its way is in the ledger.
LEMMA StillFollows ==
  ASSUME NEW a, Follows(a), vault[a] \in Nat, ledger[a] \in Int,
         SumOf(ops, Openings(ops, landed, a)) \in Nat,
         SumOf(ops, Incoming(ops, landed, a)) \in Nat,
         SumOf(ops, Outgoing(ops, landed, a)) \in Nat,
         NEW opening \in Nat, NEW won \in Nat, NEW lost \in Nat, vault' = vault, landed' = landed,
         SumOf(ops', Openings(ops', landed, a)) = SumOf(ops, Openings(ops, landed, a)) + opening,
         SumOf(ops', Incoming(ops', landed, a)) = SumOf(ops, Incoming(ops, landed, a)) + won,
         SumOf(ops', Outgoing(ops', landed, a)) = SumOf(ops, Outgoing(ops, landed, a)) + lost,
         ledger'[a] = ledger[a] + opening + won - lost
  PROVE  Follows(a)'
<1>1. vault[a] + (SumOf(ops, Openings(ops, landed, a)) + opening)
               + (SumOf(ops, Incoming(ops, landed, a)) + won)
        = (ledger[a] + opening + won - lost) + (SumOf(ops, Outgoing(ops, landed, a)) + lost)
  BY Level
<1>2. vault[a] + SumOf(ops', Openings(ops', landed, a)) + SumOf(ops', Incoming(ops', landed, a))
        = ledger'[a] + SumOf(ops', Outgoing(ops', landed, a))
  BY <1>1
<1> QED
  BY <1>2 DEF Follows

LEMMA FollowRecord ==
  ASSUME ReportInv, FollowInv, NEW loser \in rented, NEW winner \in rented, NEW x \in Nat,
         loser # winner, BalanceInv',
         rented' = rented, opened' = opened, vault' = vault, landed' = landed,
         ops' = Append(ops, NewOp("settle", loser, winner, x)),
         ledger' = [ledger EXCEPT ![loser] = @ - x, ![winner] = @ + x]
  PROVE  FollowInv'
<1> DEFINE e == NewOp("settle", loser, winner, x)
<1>1. e \in Op /\ e.kind = "settle" /\ e.from = loser /\ e.to = winner /\ e.amount = x
  BY FollowTyped, NewOpType DEF NewOp
<1>2. ops' = Append(ops, e)
  OBVIOUS
<1> HIDE DEF e
<1>3. ASSUME NEW a \in Agents PROVE Follows(a)'
  <2>1. /\ SumOf(ops', Openings(ops', landed, a)) = SumOf(ops, Openings(ops, landed, a)) + 0
        /\ SumOf(ops', Incoming(ops', landed, a)) = SumOf(ops, Incoming(ops, landed, a))
                                                      + (IF winner = a THEN x ELSE 0)
        /\ SumOf(ops', Outgoing(ops', landed, a)) = SumOf(ops, Outgoing(ops, landed, a))
                                                      + (IF loser = a THEN x ELSE 0)
    <3>1. ops \in Seq(Op) /\ landed \subseteq DOMAIN ops
      BY FollowTyped
    <3> QED
      BY <1>1, <1>2, <3>1, SidesAppended
  <2>2. ledger'[a] = ledger[a] + (IF winner = a THEN x ELSE 0) - (IF loser = a THEN x ELSE 0)
    <3>1. ledger[a] \in Int /\ loser \in Agents /\ winner \in Agents /\ ledger \in [Agents -> Int]
      BY FollowTyped
    <3>2. CASE a = winner
      BY <3>1, <3>2
    <3>3. CASE a = loser
      BY <3>1, <3>3
    <3>4. CASE a # winner /\ a # loser
      BY <3>1, <3>4
    <3> QED
      BY <3>2, <3>3, <3>4
  <2>3. Follows(a) /\ ledger[a] \in Int /\ vault[a] \in Nat
    BY FollowTyped DEF FollowInv
  <2>4. /\ SumOf(ops, Openings(ops, landed, a)) \in Nat /\ SumOf(ops, Incoming(ops, landed, a)) \in Nat
        /\ SumOf(ops, Outgoing(ops, landed, a)) \in Nat
    BY FollowTyped
  <2>5. (IF winner = a THEN x ELSE 0) \in Nat /\ (IF loser = a THEN x ELSE 0) \in Nat /\ 0 \in Nat
    OBVIOUS
  <2>6. ledger'[a] = ledger[a] + 0 + (IF winner = a THEN x ELSE 0) - (IF loser = a THEN x ELSE 0)
    BY <2>2, <2>3, <2>5
  <2> QED
    BY <2>1, <2>3, <2>4, <2>5, <2>6, StillFollows, Zenon
<1>4. \A a \in Agents \ rented : ledger'[a] = ledger[a]
  BY FollowTyped
<1> QED
  BY <1>3, <1>4 DEF FollowInv

LEMMA FollowCreate ==
  ASSUME ReportInv, FollowInv, NEW b \in Agents, CreateAgent(b),
         opened' = opened, vault' = vault, landed' = landed, BalanceInv'
  PROVE  FollowInv'
<1> DEFINE x == StartingBalance[b]
           open == NewOp("open_vault", b, b, x)
           named == NewOp("register_owner", b, b, 0)
           opening == Append(ops, open)
<1>1. x \in Nat
  BY FollowTyped
<1>2. /\ open \in Op /\ open.kind = "open_vault" /\ open.from = b /\ open.amount = x
      /\ named \in Op /\ named.kind = "register_owner"
  BY <1>1, NewOpType DEF NewOp
<1>3. /\ b \notin rented /\ rented' = rented \cup {b}
      /\ ledger' = [ledger EXCEPT ![b] = x]
      /\ ops' = opening \/ ops' = Append(opening, named)
  BY CreateQueues DEF FollowInv, BalanceInv
<1> HIDE DEF open, named, x
<1>4. opening \in Seq(Op) /\ landed \subseteq DOMAIN opening
  BY <1>2, FollowTyped, Appended
<1>5. \A a : /\ SumOf(opening, Openings(opening, landed, a)) = SumOf(ops, Openings(ops, landed, a))
                                                                + (IF b = a THEN x ELSE 0)
             /\ SumOf(opening, Incoming(opening, landed, a)) = SumOf(ops, Incoming(ops, landed, a)) + 0
             /\ SumOf(opening, Outgoing(opening, landed, a)) = SumOf(ops, Outgoing(ops, landed, a)) + 0
  BY <1>2, FollowTyped, SidesAppended
<1> HIDE DEF opening
<1>6. \A a : /\ SumOf(ops', Openings(ops', landed, a)) = SumOf(ops, Openings(ops, landed, a))
                                                           + (IF b = a THEN x ELSE 0)
             /\ SumOf(ops', Incoming(ops', landed, a)) = SumOf(ops, Incoming(ops, landed, a))
             /\ SumOf(ops', Outgoing(ops', landed, a)) = SumOf(ops, Outgoing(ops, landed, a))
  <2> TAKE a
  <2>1. /\ SumOf(opening, Openings(opening, landed, a)) \in Nat
        /\ SumOf(opening, Incoming(opening, landed, a)) \in Nat
        /\ SumOf(opening, Outgoing(opening, landed, a)) \in Nat
    BY <1>4, SidesType
  <2>2. /\ SumOf(ops, Incoming(ops, landed, a)) \in Nat /\ SumOf(ops, Outgoing(ops, landed, a)) \in Nat
    BY FollowTyped
  <2>3. CASE ops' = opening
    BY <1>5, <2>2, <2>3
  <2>4. CASE ops' = Append(opening, named)
    <3>1. /\ SumOf(ops', Openings(ops', landed, a)) = SumOf(opening, Openings(opening, landed, a)) + 0
          /\ SumOf(ops', Incoming(ops', landed, a)) = SumOf(opening, Incoming(opening, landed, a)) + 0
          /\ SumOf(ops', Outgoing(ops', landed, a)) = SumOf(opening, Outgoing(opening, landed, a)) + 0
      BY <1>2, <1>4, <2>4, SidesAppended
    <3> QED
      BY <1>5, <2>1, <2>2, <3>1
  <2> QED
    BY <1>3, <2>3, <2>4
<1>7. ASSUME NEW a \in Agents PROVE Follows(a)'
  <2>1. ledger'[a] = ledger[a] + (IF b = a THEN x ELSE 0)
    <3>1. ledger \in [Agents -> Int] /\ ledger[b] = 0 /\ ledger[a] \in Int
      BY <1>3, FollowTyped DEF FollowInv
    <3>2. CASE a = b
      BY <1>1, <1>3, <3>1, <3>2
    <3>3. CASE a # b
      BY <1>3, <3>1, <3>3
    <3> QED
      BY <3>2, <3>3
  <2>2. Follows(a) /\ ledger[a] \in Int /\ vault[a] \in Nat
    BY FollowTyped DEF FollowInv
  <2>3. /\ SumOf(ops, Openings(ops, landed, a)) \in Nat /\ SumOf(ops, Incoming(ops, landed, a)) \in Nat
        /\ SumOf(ops, Outgoing(ops, landed, a)) \in Nat
    BY FollowTyped
  <2>4. /\ (IF b = a THEN x ELSE 0) \in Nat /\ 0 \in Nat
        /\ SumOf(ops, Incoming(ops, landed, a)) + 0 = SumOf(ops, Incoming(ops, landed, a))
        /\ SumOf(ops, Outgoing(ops, landed, a)) + 0 = SumOf(ops, Outgoing(ops, landed, a))
    BY <1>1, <2>3
  <2>5. ledger'[a] = ledger[a] + (IF b = a THEN x ELSE 0) + 0 - 0
    BY <2>1, <2>2, <2>4
  <2> QED
    BY <1>6, <2>2, <2>3, <2>4, <2>5, StillFollows, Zenon
<1>8. \A a \in Agents \ rented' : ledger'[a] = 0
  BY <1>3, FollowTyped DEF FollowInv
<1> QED
  BY <1>7, <1>8 DEF FollowInv

\* An op lands: what was behind by it no longer is.
LEMMA FollowLand ==
  ASSUME ReportInv, ReportInv', FollowInv, NEW t \in inflight, Land(t)
  PROVE  FollowInv'
<1> DEFINE i == t[1]
           from == ops[i].from
           to == ops[i].to
           x == ops[i].amount
<1>1. i \in DOMAIN ops /\ ops[i] \in Op /\ OutboxTypeOK
  BY WayInQueue, OpsTyped DEF ReportInv, OutboxTypeOK, OnTheWay
<1>2. /\ landed' = landed \cup {i} /\ Accepts(i)
      /\ UNCHANGED <<rented, ledger, retired, band, barred, games, ops>>
  BY DEF Land, runnerVars
<1>3. from \in Agents /\ to \in Agents /\ x \in Nat
  BY <1>1 DEF Op
<1>4. i \notin landed
  BY <1>1, <1>2 DEF Accepts, NoRecord, Op, ReportInv, ChainInv
<1>5. BalanceInv'
  BY <1>2, BalanceFrame DEF FollowInv, ReportInv, OutboxTypeOK
<1>6. CASE ops[i].kind = "open_vault"
  <2>1. from \notin opened /\ opened' = opened \cup {from} /\ vault' = [vault EXCEPT ![from] = x]
    BY <1>2, <1>6 DEF Land, Accepts
  <2> HIDE DEF i, from, to, x
  <2>2. ASSUME NEW a \in Agents PROVE Follows(a)'
    <3>1. SumOf(ops, Openings(ops, landed, a)) = SumOf(ops, Openings(ops, landed', a))
                                                   + (IF from = a THEN x ELSE 0)
      <4>1. CASE from = a
        <5>1. i \in Openings(ops, landed, a)
          BY <1>1, <1>4, <1>6, <4>1 DEF Openings, from
        <5>2. Openings(ops, landed', a) = Openings(ops, landed, a) \ {i}
          BY <1>2 DEF Openings
        <5>3. Openings(ops, landed, a) \subseteq DOMAIN ops
          BY DEF Openings
        <5> QED
          BY <4>1, <5>1, <5>2, <5>3, FollowTyped, SumOfWithout DEF x
      <4>2. CASE from # a
        <5>1. Openings(ops, landed', a) = Openings(ops, landed, a)
          BY <1>2, <4>2 DEF Openings, from
        <5> QED
          BY <4>2, <5>1, FollowTyped
      <4> QED
        BY <4>1, <4>2
    <3>2. /\ Incoming(ops, landed', a) = Incoming(ops, landed, a)
          /\ Outgoing(ops, landed', a) = Outgoing(ops, landed, a)
      BY <1>2, <1>6 DEF Incoming, Outgoing
    <3>3. vault'[a] = vault[a] + (IF from = a THEN x ELSE 0)
      <4>1. vault \in [Agents -> Nat] /\ vault[from] = 0 /\ vault[a] \in Nat
        BY <1>3, <2>1, FollowTyped DEF FollowInv
      <4>2. CASE a = from
        BY <1>3, <2>1, <4>1, <4>2
      <4>3. CASE a # from
        BY <2>1, <4>1, <4>3
      <4> QED
        BY <4>2, <4>3
    <3>4. Follows(a) /\ ledger[a] \in Int /\ vault[a] \in Nat
      BY FollowTyped DEF FollowInv
    <3>5. SumOf(ops, Openings(ops, landed', a)) \in Nat
      BY FollowTyped, SidesType
    <3> QED
      BY <1>2, <1>3, <3>1, <3>2, <3>3, <3>4, <3>5, FollowTyped DEF Follows
  <2>3. \A a \in Agents \ opened' : vault'[a] = 0
    BY <2>1, FollowTyped DEF FollowInv
  <2> QED
    BY <1>2, <1>5, <2>2, <2>3 DEF FollowInv
<1>7. CASE ops[i].kind = "settle"
  <2>1. /\ {from, to} \subseteq opened /\ opened' = opened
        /\ vault' = [vault EXCEPT ![from] = @ - x, ![to] = @ + x]
    BY <1>2, <1>7 DEF Land, Accepts
  <2> HIDE DEF i, from, to, x
  <2>2. ASSUME NEW a \in Agents PROVE Follows(a)'
    <3>1. SumOf(ops, Incoming(ops, landed, a)) = SumOf(ops, Incoming(ops, landed', a))
                                                   + (IF to = a THEN x ELSE 0)
      <4>1. CASE to = a
        <5>1. i \in Incoming(ops, landed, a)
          BY <1>1, <1>4, <1>7, <4>1 DEF Incoming, to
        <5>2. Incoming(ops, landed', a) = Incoming(ops, landed, a) \ {i}
          BY <1>2 DEF Incoming
        <5>3. Incoming(ops, landed, a) \subseteq DOMAIN ops
          BY DEF Incoming
        <5> QED
          BY <4>1, <5>1, <5>2, <5>3, FollowTyped, SumOfWithout DEF x
      <4>2. CASE to # a
        <5>1. Incoming(ops, landed', a) = Incoming(ops, landed, a)
          BY <1>2, <4>2 DEF Incoming, to
        <5> QED
          BY <4>2, <5>1, FollowTyped
      <4> QED
        BY <4>1, <4>2
    <3>2. SumOf(ops, Outgoing(ops, landed, a)) = SumOf(ops, Outgoing(ops, landed', a))
                                                   + (IF from = a THEN x ELSE 0)
      <4>1. CASE from = a
        <5>1. i \in Outgoing(ops, landed, a)
          BY <1>1, <1>4, <1>7, <4>1 DEF Outgoing, from
        <5>2. Outgoing(ops, landed', a) = Outgoing(ops, landed, a) \ {i}
          BY <1>2 DEF Outgoing
        <5>3. Outgoing(ops, landed, a) \subseteq DOMAIN ops
          BY DEF Outgoing
        <5> QED
          BY <4>1, <5>1, <5>2, <5>3, FollowTyped, SumOfWithout DEF x
      <4>2. CASE from # a
        <5>1. Outgoing(ops, landed', a) = Outgoing(ops, landed, a)
          BY <1>2, <4>2 DEF Outgoing, from
        <5> QED
          BY <4>2, <5>1, FollowTyped
      <4> QED
        BY <4>1, <4>2
    <3>3. Openings(ops, landed', a) = Openings(ops, landed, a)
      BY <1>2, <1>7 DEF Openings
    <3>4. vault'[a] = vault[a] + (IF to = a THEN x ELSE 0) - (IF from = a THEN x ELSE 0)
      <4>1. vault \in [Agents -> Nat] /\ vault[a] \in Nat
        BY FollowTyped
      <4>2. CASE a = to /\ a = from
        BY <1>3, <2>1, <4>1, <4>2
      <4>3. CASE a = to /\ a # from
        BY <1>3, <2>1, <4>1, <4>3
      <4>4. CASE a # to /\ a = from
        BY <1>3, <2>1, <4>1, <4>4
      <4>5. CASE a # to /\ a # from
        BY <1>3, <2>1, <4>1, <4>5
      <4> QED
        BY <4>2, <4>3, <4>4, <4>5
    <3>5. Follows(a) /\ ledger[a] \in Int /\ vault[a] \in Nat
      BY FollowTyped DEF FollowInv
    <3>6. /\ SumOf(ops, Incoming(ops, landed', a)) \in Nat /\ SumOf(ops, Outgoing(ops, landed', a)) \in Nat
      BY FollowTyped, SidesType
    <3>7. (IF to = a THEN x ELSE 0) \in Nat /\ (IF from = a THEN x ELSE 0) \in Nat
      BY <1>3
    <3>8. ops' = ops /\ ledger' = ledger
      BY <1>2
    <3>9. SumOf(ops, Openings(ops, landed, a)) \in Nat
      BY FollowTyped
    <3>10. Openings(ops, landed', a) = Openings(ops', landed', a)
      BY <3>8
    <3> QED
      BY <3>1, <3>2, <3>3, <3>4, <3>5, <3>6, <3>7, <3>8, <3>9 DEF Follows
  <2>3. \A a \in Agents \ opened' : vault'[a] = 0
    BY <2>1, FollowTyped DEF FollowInv
  <2> QED
    BY <1>2, <1>5, <2>2, <2>3 DEF FollowInv
<1> QED
  BY <1>6, <1>7 DEF Land, i

\* At every moment each vault holds its ledger balance less what has not
\* landed yet, in whatever order, how late and how often ops are sent: no chip
\* is moved twice, lost, or moved elsewhere than the ledger says.
THEOREM VaultsAlwaysFollow == OutboxSpec => []VaultsFollowLedger
<1>1. OutboxInit => FollowInv
  <2> SUFFICES ASSUME OutboxInit PROVE FollowInv
    OBVIOUS
  <2>1. /\ ops = <<>> /\ DOMAIN ops = {} /\ vault = ledger /\ rented = Agents \ Seeded
        /\ opened = Agents \ Seeded /\ BalanceInv
        /\ ledger = [a \in Agents |-> IF a \in Seeded THEN 0 ELSE StartingBalance[a]]
    BY BalanceInit DEF OutboxInit, Init
  <2>2. ASSUME NEW a \in Agents PROVE Follows(a)
    <3>1. /\ Incoming(ops, landed, a) = {} /\ Outgoing(ops, landed, a) = {}
          /\ Openings(ops, landed, a) = {} /\ SumOf(ops, {}) = 0
      BY <2>1, SumOfNone DEF Incoming, Outgoing, Openings, SumOf
    <3>2. ledger[a] \in Int /\ vault[a] = ledger[a]
      BY <2>1, RunnerArguments
    <3>3. /\ SumOf(ops, Incoming(ops, landed, a)) = 0 /\ SumOf(ops, Outgoing(ops, landed, a)) = 0
          /\ SumOf(ops, Openings(ops, landed, a)) = 0
      BY <3>1
    <3> QED
      BY <3>2, <3>3 DEF Follows
  <2> QED
    BY <2>1, <2>2 DEF FollowInv
<1>2. ASSUME ReportInv, FollowInv, [OutboxNext]_vars PROVE FollowInv'
  <2>1. ReportInv'
    BY <1>2, ReportStep
  <2>2. OutboxTypeOK /\ TypeOK /\ RunnerTyped /\ CheckedFairly
    BY <1>2 DEF ReportInv, OutboxTypeOK, FollowInv, BalanceInv, RunnerTyped
  <2>3. ASSUME UNCHANGED <<rented, ledger, retired, band, barred, games, ops, opened, vault, landed>>
        PROVE  FollowInv'
    BY <1>2, <2>1, <2>3, FollowSame DEF SameOps
  <2>4. CASE RunnerStep /\ UNCHANGED <<chainVars, passVars>>
    <3>1. BalanceInv' /\ UNCHANGED <<opened, vault, landed>>
      BY <1>2, <2>4, BalanceStep DEF FollowInv, Next, chainVars
    <3>2. ASSUME UNCHANGED <<ledger, ops, rented>> PROVE FollowInv'
      BY <1>2, <3>1, <3>2 DEF FollowInv, Follows
    <3>3. ASSUME NEW a \in Agents, CreateAgent(a) PROVE FollowInv'
      BY <1>2, <3>1, <3>3, FollowCreate
    <3>4. ASSUME NEW c \in Callers, NEW n \in Nets, NEW net \in {n, -n}, Record(c, net)
          PROVE FollowInv'
      <4>1. CASE \E loser, winner \in rented, x \in Nat :
                   /\ loser # winner /\ rented' = rented
                   /\ ops' = Append(ops, NewOp("settle", loser, winner, x))
                   /\ ledger' = [ledger EXCEPT ![loser] = @ - x, ![winner] = @ + x]
        BY <1>2, <3>1, <4>1, FollowRecord
      <4> QED
        BY <2>2, <3>2, <3>4, <4>1, RecordQueues
    <3> QED
      BY <2>4, <3>2, <3>3, <3>4 DEF RunnerStep, SetBand, Bar, Pick, Check, RecordRefused
  <2>5. ASSUME NEW status \in Statuses, todo # {}, Mark(head, status), OnlyOps PROVE FollowInv'
    <3>1. SameOps
      BY <2>2, <2>5, HeadNext, MarkSame
    <3> QED
      BY <1>2, <2>1, <2>5, <3>1, FollowSame DEF OnlyOps, chainVars
  <2>6. CASE GiveUp
    BY <2>5, <2>6 DEF GiveUp, AtHead, Statuses
  <2>7. CASE FindDone \/ Confirm
    BY <1>2, <2>5, <2>7 DEF FindDone, Confirm, AtHead, Statuses, ReportInv, PassInv
  <2>8. CASE StartPass \/ Unserved \/ Refused \/ Send \/ Bounced \/ Stop \/ UNCHANGED vars
    BY <2>3, <2>8 DEF StartPass, Unserved, Refused, Send, Bounced, Stop, vars, runnerVars, chainVars
  <2>9. ASSUME NEW t \in inflight, Drop(t) PROVE FollowInv'
    BY <2>3, <2>9 DEF Drop, runnerVars
  <2>10. ASSUME NEW t \in inflight, Land(t) PROVE FollowInv'
    BY <1>2, <2>1, <2>10, FollowLand
  <2>11. CASE OutboxTick
    BY <1>2, <2>1, <2>2, <2>11, OlderSame, FollowSame DEF OutboxTick
  <2> QED
    BY <1>2, <2>4, <2>6, <2>7, <2>8, <2>9, <2>10, <2>11 DEF OutboxNext, WorkerStep
<1>3. ReportInv /\ FollowInv /\ [OutboxNext]_vars => FollowInv'
  BY <1>2
<1>4. FollowInv => VaultsFollowLedger
  <2> SUFFICES ASSUME FollowInv, NEW a \in Agents
               PROVE LET behind == DOMAIN ops \ landed
                         settles == {i \in behind : ops[i].kind = "settle"}
                     IN  vault[a] + Sum({i \in behind : ops[i].kind = "open_vault" /\ ops[i].from = a})
                                  + Sum({i \in settles : ops[i].to = a})
                           = ledger[a] + Sum({i \in settles : ops[i].from = a})
    BY DEF VaultsFollowLedger
  <2>1. /\ Openings(ops, landed, a)
             = {i \in DOMAIN ops \ landed : ops[i].kind = "open_vault" /\ ops[i].from = a}
        /\ Incoming(ops, landed, a)
             = {i \in {j \in DOMAIN ops \ landed : ops[j].kind = "settle"} : ops[i].to = a}
        /\ Outgoing(ops, landed, a)
             = {i \in {j \in DOMAIN ops \ landed : ops[j].kind = "settle"} : ops[i].from = a}
    BY DEF Openings, Incoming, Outgoing
  <2>2. \A S : Sum(S) = SumOf(ops, S)
    BY DEF Sum, SumOf, OpAmounts
  <2> QED
    BY <2>1, <2>2 DEF FollowInv, Follows
<1> QED
  BY <1>1, <1>3, <1>4, ReportInit, ReportStep, PTL DEF OutboxSpec
=============================================================================
