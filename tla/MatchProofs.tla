----------------------------- MODULE MatchProofs -----------------------------
(***************************************************************************)
(* No match moves more than maxNet, whatever the stakes, the number of     *)
(* rounds and the agents.                                                  *)
(*                                                                         *)
(* The bound on a net is not inductive: nothing in it says how a net came  *)
(* about.  Gains says it: a seat is up at most the dearest bet for every   *)
(* round it won, and down as much for every round the other won; and no    *)
(* round is played once a seat has won enough.  InTurn is what the choices *)
(* of a round are: those that have not decided it yet.                     *)
(***************************************************************************)
EXTENDS Match, SequenceTheorems, TLAPS

\* A seat, and what it chose.
Choice == [seat: Seat, action: Action]

Gains ==
  /\ nets["A"] + nets["B"] = 0
  /\ nets["A"] <= MaxBet * roundsWon["A"]
  /\ nets["B"] <= MaxBet * roundsWon["B"]

InTurn ==
  \/ sequence = <<>>
  \/ /\ nextLeader \in Seat /\ ~isMatchOver
     /\ \/ \E a \in {"call", "raise"} : sequence = <<Chosen(nextLeader, a)>>
        \/ sequence = <<Chosen(nextLeader, "call"), Chosen(other(nextLeader), "raise")>>

Tallied ==
  /\ roundNumber \in 1 .. MAX_ROUNDS + 1
  /\ nets \in [Seat -> Int] /\ roundsWon \in [Seat -> 0 .. ROUNDS_TO_WIN]
  /\ raiseCounts \in [Seat -> Nat] /\ raisedLastRound \in [Seat -> BOOLEAN]
  /\ nextLeader \in Seat \cup {NoSeat}

Logged ==
  round \in [leader: Seat \cup {NoSeat}, sequence: Seq(Choice),
             actions: [Seat -> Action], winner: Seat \cup {NoSeat}]

IInv == Tallied /\ Logged /\ Gains /\ InTurn /\ OneRaiseARound /\ EveryRoundIsWon /\ RaiseIsHeard
-----------------------------------------------------------------------------
\* A round moves no more than the dearest bet, and no less than nothing.
LEMMA BetBounded ==
  ASSUME MatchAssumption, NEW actions \in [Seat -> Action]
  PROVE  Bet(actions) \in 0 .. MaxBet /\ MaxBet \in Nat
  BY DEF MatchAssumption, Bet, MaxBet

\* Somebody wins a round unless both fold.
LEMMA WinnersSeats ==
  ASSUME NEW actions \in [Seat -> Action], NEW winner \in Winners(actions)
  PROVE  /\ winner \in Seat \cup {NoSeat}
         /\ winner = NoSeat => Folded(actions) = Seat
         /\ winner \in Seat => winner \notin Folded(actions)
  BY DEF Winners, Folded, Seat, NoSeat

\* A seat's share of the rounds, one round dearer.
LEMMA OneMore ==
  ASSUME NEW m \in Nat, NEW w \in Nat
  PROVE  m * (w + 1) = m * w + m /\ m * (w + 0) = m * w
  OBVIOUS

\* Half of the bound on nets after a round: the winner's gain is paid for by
\* the round it won, and the loser only loses.
LEMMA RoundGains ==
  ASSUME MatchAssumption, Tallied, Gains,
         NEW actions \in [Seat -> Action], NEW winner \in Winners(actions), NEW chosen,
         Advance(actions, winner, chosen)
  PROVE  Gains'
<1> DEFINE b == Bet(actions)
<1>1. b \in Nat /\ MaxBet \in Nat /\ b <= MaxBet
  BY BetBounded
<1>2. winner \in Seat \cup {NoSeat}
  BY WinnersSeats
<1>3. nets["A"] \in Int /\ nets["B"] \in Int /\ roundsWon["A"] \in Nat /\ roundsWon["B"] \in Nat
  BY MatchAssumption DEF Tallied, Seat, MatchAssumption
<1>4. /\ nets'["A"] = nets["A"] + Moved(winner, b)["A"]
      /\ nets'["B"] = nets["B"] + Moved(winner, b)["B"]
      /\ roundsWon'["A"] = roundsWon["A"] + (IF winner = "A" THEN 1 ELSE 0)
      /\ roundsWon'["B"] = roundsWon["B"] + (IF winner = "B" THEN 1 ELSE 0)
  BY DEF Advance, Seat
<1>5. MaxBet' = MaxBet
  BY DEF MaxBet
<1> DEFINE m == MaxBet
<1>6. /\ m * (roundsWon["A"] + 1) = m * roundsWon["A"] + m
      /\ m * (roundsWon["B"] + 1) = m * roundsWon["B"] + m
  BY <1>1, <1>3, OneMore
<1>7. /\ nets["A"] + nets["B"] = 0
      /\ nets["A"] <= m * roundsWon["A"] /\ nets["B"] <= m * roundsWon["B"]
  BY DEF Gains
<1>8. m * roundsWon["A"] \in Int /\ m * roundsWon["B"] \in Int
  BY <1>1, <1>3
<1>a. CASE winner = "A"
  <2>1. nets'["A"] = nets["A"] + b /\ nets'["B"] = nets["B"] - b
    BY <1>a, <1>1, <1>3, <1>4 DEF Moved, Seat, NoSeat
  <2>2. roundsWon'["A"] = roundsWon["A"] + 1 /\ roundsWon'["B"] = roundsWon["B"]
    BY <1>a, <1>3, <1>4
  <2>3. m * roundsWon'["A"] = m * roundsWon["A"] + m /\ m * roundsWon'["B"] = m * roundsWon["B"]
    BY <2>2, <1>6
  <2> HIDE DEF b, m
  <2> QED
    BY <2>1, <2>3, <1>1, <1>3, <1>5, <1>7, <1>8 DEF Gains, m, b
<1>b. CASE winner = "B"
  <2>1. nets'["B"] = nets["B"] + b /\ nets'["A"] = nets["A"] - b
    BY <1>b, <1>1, <1>3, <1>4 DEF Moved, Seat, NoSeat
  <2>2. roundsWon'["B"] = roundsWon["B"] + 1 /\ roundsWon'["A"] = roundsWon["A"]
    BY <1>b, <1>3, <1>4
  <2>3. m * roundsWon'["B"] = m * roundsWon["B"] + m /\ m * roundsWon'["A"] = m * roundsWon["A"]
    BY <2>2, <1>6
  <2> HIDE DEF b, m
  <2> QED
    BY <2>1, <2>3, <1>1, <1>3, <1>5, <1>7, <1>8 DEF Gains, m, b
<1>c. CASE winner = NoSeat
  <2>1. nets'["A"] = nets["A"] /\ nets'["B"] = nets["B"]
    BY <1>c, <1>3, <1>4 DEF Moved, Seat, NoSeat
  <2>2. roundsWon'["A"] = roundsWon["A"] /\ roundsWon'["B"] = roundsWon["B"]
    BY <1>c, <1>3, <1>4 DEF NoSeat
  <2> QED
    BY <2>1, <2>2, <1>5, <1>7 DEF Gains
<1> QED
  BY <1>2, <1>a, <1>b, <1>c DEF Seat

\* The rest of what a round leaves behind, when a match was not over before it.
LEMMA RoundTally ==
  ASSUME MatchAssumption, Tallied, ~isMatchOver,
         NEW actions \in [Seat -> Action], NEW winner \in Winners(actions),
         NEW chosen \in Seq(Choice),
         Advance(actions, winner, chosen)
  PROVE  Tallied' /\ Logged'
<1>1. roundNumber \in 1 .. MAX_ROUNDS /\ \A s \in Seat : roundsWon[s] \in 0 .. ROUNDS_TO_WIN - 1
  BY DEF Tallied, isMatchOver, NoMoreRounds, MatchAssumption
<1>2. winner \in Seat \cup {NoSeat}
  BY WinnersSeats
<1>3. roundNumber' \in 1 .. MAX_ROUNDS + 1
  BY <1>1 DEF Advance, MatchAssumption
<1>4. roundsWon' \in [Seat -> 0 .. ROUNDS_TO_WIN]
  BY <1>1 DEF Advance, MatchAssumption
<1>5. nets' \in [Seat -> Int]
  <2>1. Bet(actions) \in Int
    BY BetBounded
  <2>2. \A s \in Seat : Moved(winner, Bet(actions))[s] \in Int
    BY <2>1 DEF Moved
  <2>3. \A s \in Seat : nets[s] + Moved(winner, Bet(actions))[s] \in Int
    BY <2>2 DEF Tallied
  <2> QED
    BY <2>3 DEF Advance
<1>6. raiseCounts' \in [Seat -> Nat] /\ raisedLastRound' \in [Seat -> BOOLEAN]
  BY DEF Advance, Tallied
<1>7. nextLeader' \in Seat \cup {NoSeat}
  BY DEF Advance, Tallied, other, Seat
<1>8. Logged'
  BY <1>2 DEF Advance, Logged, Tallied, Choice
<1> QED
  BY <1>3, <1>4, <1>5, <1>6, <1>7, <1>8 DEF Tallied

\* In alternating play a round with one raise and not two folds keeps the
\* counts of raises and of rounds won.
LEMMA RoundCounts ==
  ASSUME Tallied, OneRaiseARound, EveryRoundIsWon,
         NEW actions \in [Seat -> Action], NEW winner \in Winners(actions), NEW chosen,
         Advance(actions, winner, chosen),
         nextLeader # NoSeat => /\ Folded(actions) # Seat
                                /\ ~(actions["A"] = "raise" /\ actions["B"] = "raise")
  PROVE  OneRaiseARound' /\ EveryRoundIsWon'
<1>1. nextLeader' # NoSeat => nextLeader # NoSeat
  BY DEF Advance
<1>2. SUFFICES ASSUME nextLeader # NoSeat PROVE OneRaiseARound' /\ EveryRoundIsWon'
  BY <1>1 DEF OneRaiseARound, EveryRoundIsWon
<1>3. winner \in Seat
  BY <1>2, WinnersSeats
<1>4. /\ roundNumber \in Int /\ roundNumber' = roundNumber + 1
      /\ \A s \in Seat : roundsWon[s] \in Int /\ raiseCounts[s] \in Int
  BY DEF Tallied, Advance
<1>5. /\ raiseCounts'["A"] = raiseCounts["A"] + (IF actions["A"] = "raise" THEN 1 ELSE 0)
      /\ raiseCounts'["B"] = raiseCounts["B"] + (IF actions["B"] = "raise" THEN 1 ELSE 0)
      /\ raisedLastRound'["A"] = (actions["A"] = "raise")
      /\ raisedLastRound'["B"] = (actions["B"] = "raise")
      /\ roundsWon'["A"] = roundsWon["A"] + (IF winner = "A" THEN 1 ELSE 0)
      /\ roundsWon'["B"] = roundsWon["B"] + (IF winner = "B" THEN 1 ELSE 0)
  BY DEF Advance, Seat
<1>6. OneRaiseARound'
  <2> DEFINE a == IF actions["A"] = "raise" THEN 1 ELSE 0
             b == IF actions["B"] = "raise" THEN 1 ELSE 0
  <2>1. a + b <= 1 /\ a \in Int /\ b \in Int
    BY <1>2
  <2>2. raiseCounts'["A"] = raiseCounts["A"] + a /\ raiseCounts'["B"] = raiseCounts["B"] + b
    BY <1>5
  <2>3. raiseCounts["A"] + raiseCounts["B"] < roundNumber
    BY <1>2 DEF OneRaiseARound
  <2>4. ~(raisedLastRound'["A"] /\ raisedLastRound'["B"])
    BY <1>2, <1>5
  <2>5. raiseCounts["A"] \in Int /\ raiseCounts["B"] \in Int
    BY <1>4 DEF Seat
  <2> HIDE DEF a, b
  <2>6. raiseCounts'["A"] + raiseCounts'["B"] < roundNumber'
    BY <1>4, <2>1, <2>2, <2>3, <2>5
  <2> QED
    BY <2>4, <2>6 DEF OneRaiseARound
<1>7. EveryRoundIsWon'
  BY <1>2, <1>3, <1>4, <1>5 DEF EveryRoundIsWon, Seat
<1> QED
  BY <1>6, <1>7

\* A resolved round keeps the invariant, if its choices were heard.
LEMMA RoundKeeps ==
  ASSUME MatchAssumption, IInv, ~isMatchOver,
         NEW actions \in [Seat -> Action],
         NEW chosen \in Seq(Choice),
         Resolve(actions, chosen),
         nextLeader # NoSeat => /\ Folded(actions) # Seat
                                /\ ~(actions["A"] = "raise" /\ actions["B"] = "raise"),
         RaiseIsHeard'
  PROVE  IInv'
<1>1. PICK winner \in Winners(actions) : Advance(actions, winner, chosen)
  BY DEF Resolve
<1>2. Gains'
  BY <1>1, RoundGains DEF IInv
<1>3. Tallied' /\ Logged'
  BY <1>1, RoundTally DEF IInv
<1>4. OneRaiseARound' /\ EveryRoundIsWon'
  BY <1>1, RoundCounts DEF IInv
<1>5. InTurn'
  BY DEF Resolve, InTurn
<1> QED
  BY <1>2, <1>3, <1>4, <1>5 DEF IInv
-----------------------------------------------------------------------------
LEMMA ChooseAtOnceKeeps ==
  ASSUME MatchAssumption, IInv, NEW a \in Action, NEW b \in Action, ChooseAtOnce(a, b)
  PROVE  IInv'
<1>1. PerSeat(a, b) \in [Seat -> Action]
  BY DEF PerSeat
<1>2. <<Chosen("A", a), Chosen("B", b)>> \in Seq(Choice)
  BY DEF Chosen, Seat, Choice
<1>3. round'.leader = NoSeat
  BY DEF ChooseAtOnce, Resolve, Advance
<1>4. RaiseIsHeard'
  BY <1>3 DEF RaiseIsHeard
<1> QED
  BY <1>1, <1>2, <1>4, RoundKeeps DEF ChooseAtOnce

\* The actions of a round in which the leader's are `first` and the other's `second`.
LEMMA SeatActions ==
  ASSUME NEW leader \in Seat, NEW first \in Action, NEW second \in Action
  PROVE  /\ seatActions(leader, first, second) \in [Seat -> Action]
         /\ other(leader) \in Seat /\ other(leader) # leader
         /\ first # "fold" \/ second # "fold" => Folded(seatActions(leader, first, second)) # Seat
         /\ first = "fold" => Folded(seatActions(leader, first, second)) # {}
         /\ first # "raise" \/ second # "raise" =>
              ~(/\ seatActions(leader, first, second)["A"] = "raise"
                /\ seatActions(leader, first, second)["B"] = "raise")
<1> DEFINE actions == seatActions(leader, first, second)
<1>1. actions \in [Seat -> Action]
  BY DEF seatActions
<1>2. /\ other(leader) \in Seat /\ other(leader) # leader
      /\ {leader, other(leader)} = {"A", "B"}
  BY DEF other, Seat
<1>3. actions[leader] = first /\ actions[other(leader)] = second
  BY <1>2 DEF seatActions
<1> HIDE DEF actions
<1>4. \A s \in Seat : s \in Folded(actions) <=> actions[s] = "fold"
  BY DEF Folded
<1>5. first # "fold" \/ second # "fold" => Folded(actions) # Seat
  BY <1>2, <1>3, <1>4
<1>6. first = "fold" => Folded(actions) # {}
  BY <1>3, <1>4
<1>7. first # "raise" \/ second # "raise" => ~(actions["A"] = "raise" /\ actions["B"] = "raise")
  BY <1>2, <1>3 DEF Seat
<1> QED
  BY <1>1, <1>2, <1>5, <1>6, <1>7 DEF actions

\* Short sequences, choice by choice.
LEMMA AppendToOne ==
  ASSUME NEW S, NEW x \in S, NEW y \in S
  PROVE  Append(<<x>>, y) = <<x, y>>
<1>1. <<x>> \in Seq(S) /\ <<x, y>> \in Seq(S) /\ Len(<<x>>) = 1 /\ Len(<<x, y>>) = 2
  OBVIOUS
<1>2. Append(<<x>>, y) \in Seq(S) /\ Len(Append(<<x>>, y)) = 2
  BY <1>1, AppendProperties
<1>3. \A i \in 1 .. 2 : Append(<<x>>, y)[i] = <<x, y>>[i]
  BY <1>1, AppendProperties
<1> QED
  BY <1>1, <1>2, <1>3, SeqEqual

LEMMA AppendToTwo ==
  ASSUME NEW S, NEW x \in S, NEW y \in S, NEW z \in S
  PROVE  Append(<<x, y>>, z) = <<x, y, z>>
<1>1. <<x, y>> \in Seq(S) /\ <<x, y, z>> \in Seq(S) /\ Len(<<x, y>>) = 2 /\ Len(<<x, y, z>>) = 3
  OBVIOUS
<1>2. Append(<<x, y>>, z) \in Seq(S) /\ Len(Append(<<x, y>>, z)) = 3
  BY <1>1, AppendProperties
<1>3. \A i \in 1 .. 3 : Append(<<x, y>>, z)[i] = <<x, y, z>>[i]
  BY <1>1, AppendProperties
<1> QED
  BY <1>1, <1>2, <1>3, SeqEqual

\* What a seat has chosen.
LEMMA Choices ==
  ASSUME NEW leader \in Seat, NEW action \in Action
  PROVE  /\ Chosen(leader, action) \in Choice
         /\ Chosen(other(leader), action) \in Choice
         /\ Chosen(leader, action).action = action
  BY DEF Chosen, other, Seat, Choice

LEMMA LeadKeeps ==
  ASSUME MatchAssumption, IInv, NEW action \in Action, Lead(action)
  PROVE  IInv'
<1>1. nextLeader \in Seat
  BY DEF Lead, IInv, Tallied
<1>2. <<Chosen(nextLeader, action)>> \in Seq(Choice)
  BY <1>1, Choices
<1>a. CASE action = "fold"
  <2> DEFINE actions == seatActions(nextLeader, "fold", NeverActed)
             chosen == <<Chosen(nextLeader, "fold")>>
  <2>1. Resolve(actions, chosen)
    BY <1>a DEF Lead
  <2>2. /\ actions \in [Seat -> Action] /\ Folded(actions) # Seat
        /\ ~(actions["A"] = "raise" /\ actions["B"] = "raise")
        /\ Folded(actions) # {}
    BY <1>1, SeatActions DEF NeverActed, Action
  <2>3. round'.actions = actions
    BY <2>1 DEF Resolve, Advance
  <2>4. Folded(round'.actions) # {}
    BY <2>2, <2>3
  <2>5. RaiseIsHeard'
    BY <2>4 DEF RaiseIsHeard, Folded
  <2> QED
    BY <1>a, <1>2, <2>1, <2>2, <2>5, RoundKeeps DEF Lead
<1>b. CASE action # "fold"
  <2>1. sequence' = <<Chosen(nextLeader, action)>> /\ UNCHANGED <<tally, round>>
    BY <1>b DEF Lead
  <2>2. action \in {"call", "raise"}
    BY <1>b DEF Action
  <2>3. ~isMatchOver /\ isMatchOver' = isMatchOver /\ MaxBet' = MaxBet
    BY <2>1 DEF Lead, tally, isMatchOver, NoMoreRounds, MaxBet
  <2>4. InTurn'
    BY <1>1, <2>1, <2>2, <2>3 DEF InTurn, tally, Chosen
  <2> QED
    BY <2>1, <2>3, <2>4 DEF IInv, Tallied, Logged, Gains, OneRaiseARound, EveryRoundIsWon,
                            RaiseIsHeard, tally
<1> QED
  BY <1>a, <1>b

\* A raise is heard if both seats choose from it on.
LEMMA Heard ==
  ASSUME NEW leader \in Seat, round'.leader = leader, NEW i \in 1 .. Len(round'.sequence),
         round'.sequence[i].action = "raise",
         \A s \in Seat : \E j \in i .. Len(round'.sequence) : round'.sequence[j].seat = s
  PROVE  RaiseIsHeard'
<1>1. other(round'.winner) \in Seat
  BY DEF other, Seat
<1> QED
  BY <1>1 DEF RaiseIsHeard

LEMMA ReplyKeeps ==
  ASSUME MatchAssumption, IInv, NEW reply \in Action, Reply(reply)
  PROVE  IInv'
<1>1. /\ nextLeader \in Seat /\ ~isMatchOver
      /\ \E a \in {"call", "raise"} : sequence = <<Chosen(nextLeader, a)>>
  <2>1. Len(sequence) = 1 /\ InTurn
    BY DEF Reply, IInv
  <2>2. Len(<<>>) = 0 /\ \A x, y : Len(<<x, y>>) = 2
    OBVIOUS
  <2> QED
    BY <2>1, <2>2 DEF InTurn
<1>2. PICK first \in {"call", "raise"} : sequence = <<Chosen(nextLeader, first)>>
  BY <1>1
<1> DEFINE second == Second(first, reply)
           responder == other(nextLeader)
           chosen == <<Chosen(nextLeader, first), Chosen(responder, second)>>
           actions == seatActions(nextLeader, first, second)
<1>3. sequence[1].action = first /\ Append(sequence, Chosen(responder, second)) = chosen
  <2>1. first \in Action /\ second \in Action
    BY DEF Action, Second
  <2>2. sequence[1] = Chosen(nextLeader, first)
    BY <1>2
  <2>3. Append(sequence, Chosen(responder, second)) = chosen
    <3>1. Chosen(nextLeader, first) \in Choice /\ Chosen(responder, second) \in Choice
      BY <1>1, <2>1, Choices
    <3> QED
      BY <1>2, <3>1, AppendToOne
  <2> QED
    BY <2>2, <2>3 DEF Chosen
<1>4. IF RaisedCall(first, second)
        THEN sequence' = chosen /\ UNCHANGED <<tally, round>>
        ELSE Resolve(actions, chosen)
  BY <1>3 DEF Reply
<1>5. second \in Action /\ ~(first = "raise" /\ second = "raise")
  BY DEF Second, Action
<1>a. CASE RaisedCall(first, second)
  <2>1. sequence' = <<Chosen(nextLeader, "call"), Chosen(responder, "raise")>>
    BY <1>a, <1>4 DEF RaisedCall
  <2>2. UNCHANGED <<tally, round>>
    BY <1>a, <1>4
  <2>3. nextLeader' = nextLeader /\ isMatchOver' = isMatchOver /\ MaxBet' = MaxBet
    BY <2>2 DEF tally, isMatchOver, NoMoreRounds, MaxBet
  <2>4. InTurn'
    BY <1>1, <2>1, <2>3 DEF InTurn, Chosen
  <2> QED
    BY <2>2, <2>3, <2>4 DEF IInv, Tallied, Logged, Gains, OneRaiseARound, EveryRoundIsWon,
                            RaiseIsHeard, tally
<1>b. CASE ~RaisedCall(first, second)
  <2>1. Resolve(actions, chosen)
    BY <1>b, <1>4
  <2>2. first \in Action /\ first # "fold"
    BY DEF Action
  <2>3. /\ actions \in [Seat -> Action] /\ Folded(actions) # Seat
        /\ ~(actions["A"] = "raise" /\ actions["B"] = "raise")
        /\ responder \in Seat /\ responder # nextLeader
    <3> HIDE DEF second
    <3> QED
      BY <1>1, <1>5, <2>2, SeatActions
  <2>4. chosen \in Seq(Choice)
    <3>1. Chosen(nextLeader, first) \in Choice /\ Chosen(responder, second) \in Choice
      BY <1>1, <1>5, <2>2, Choices
    <3> QED
      BY <3>1
  <2>5. /\ round'.sequence = chosen /\ round'.leader = nextLeader
    BY <2>1 DEF Resolve, Advance
  <2>6. RaiseIsHeard'
    <3>1. Len(chosen) = 2 /\ chosen[1] = Chosen(nextLeader, first)
          /\ chosen[2] = Chosen(responder, second)
      OBVIOUS
    <3>2. second # "raise"
      BY <1>b, <1>5 DEF RaisedCall
    <3>a. CASE first = "raise"
      <4>1. 1 \in 1 .. Len(round'.sequence) /\ round'.sequence[1].action = "raise"
        BY <2>5, <3>1, <3>a DEF Chosen
      <4>2. \A s \in Seat : \E j \in 1 .. Len(round'.sequence) : round'.sequence[j].seat = s
        <5>1. 1 \in 1 .. 2 /\ 2 \in 1 .. 2 /\ Len(round'.sequence) = 2
          BY <2>5, <3>1
        <5>2. round'.sequence[1].seat = nextLeader /\ round'.sequence[2].seat = responder
          BY <2>5, <3>1 DEF Chosen
        <5>3. \A s \in Seat : s = nextLeader \/ s = responder
          BY <1>1 DEF other, Seat
        <5> QED
          BY <5>1, <5>2, <5>3
      <4> QED
        BY <1>1, <2>5, <4>1, <4>2, Heard
    <3>b. CASE first = "call"
      <4>1. \A i \in 1 .. Len(round'.sequence) : round'.sequence[i].action # "raise"
        BY <2>5, <3>1, <3>2, <3>b DEF Chosen
      <4> QED
        BY <4>1 DEF RaiseIsHeard
    <3> QED
      BY <3>a, <3>b
  <2> QED
    BY <1>1, <2>1, <2>3, <2>4, <2>6, RoundKeeps
<1> QED
  BY <1>a, <1>b

LEMMA AnswerKeeps ==
  ASSUME MatchAssumption, IInv, NEW action \in Action, Answer(action)
  PROVE  IInv'
<1> DEFINE responder == other(nextLeader)
           answer == IF action = "fold" THEN "fold" ELSE "call"
           actions == seatActions(nextLeader, answer, "raise")
           chosen == <<Chosen(nextLeader, "call"), Chosen(responder, "raise"),
                       Chosen(nextLeader, answer)>>
<1>1. /\ nextLeader \in Seat /\ ~isMatchOver
      /\ sequence = <<Chosen(nextLeader, "call"), Chosen(responder, "raise")>>
  <2>1. Len(sequence) = 2 /\ InTurn
    BY DEF Answer, IInv
  <2>2. Len(<<>>) = 0 /\ \A x : Len(<<x>>) = 1
    OBVIOUS
  <2> QED
    BY <2>1, <2>2 DEF InTurn
<1>2. answer \in Action /\ answer # "raise" /\ "raise" \in Action /\ "call" \in Action
  BY DEF Action
<1>3. Resolve(actions, chosen)
  <2>1. Append(sequence, Chosen(nextLeader, answer)) = chosen
    <3>1. /\ Chosen(nextLeader, "call") \in Choice /\ Chosen(responder, "raise") \in Choice
          /\ Chosen(nextLeader, answer) \in Choice
      BY <1>1, <1>2, Choices
    <3> QED
      BY <1>1, <3>1, AppendToTwo
  <2> QED
    BY <2>1 DEF Answer
<1>4. /\ actions \in [Seat -> Action] /\ Folded(actions) # Seat
      /\ ~(actions["A"] = "raise" /\ actions["B"] = "raise")
      /\ responder \in Seat
  <2> HIDE DEF answer
  <2> QED
    BY <1>1, <1>2, SeatActions
<1>5. chosen \in Seq(Choice)
  BY <1>1, <1>2, Choices
<1>6. round'.sequence = chosen /\ round'.leader = nextLeader
  BY <1>3 DEF Resolve, Advance
<1>7. Len(chosen) = 3 /\ chosen[2] = Chosen(responder, "raise")
      /\ chosen[3] = Chosen(nextLeader, answer)
  OBVIOUS
<1>8. 2 \in 1 .. Len(round'.sequence) /\ round'.sequence[2].action = "raise"
  BY <1>6, <1>7 DEF Chosen
<1>9. \A s \in Seat : \E j \in 2 .. Len(round'.sequence) : round'.sequence[j].seat = s
  <2>1. 2 \in 2 .. 3 /\ 3 \in 2 .. 3 /\ Len(round'.sequence) = 3
    BY <1>6, <1>7
  <2>2. round'.sequence[2].seat = responder /\ round'.sequence[3].seat = nextLeader
    BY <1>6, <1>7 DEF Chosen
  <2>3. \A s \in Seat : s = nextLeader \/ s = responder
    BY <1>1 DEF other, Seat
  <2> QED
    BY <2>1, <2>2, <2>3
<1>10. RaiseIsHeard'
  BY <1>1, <1>6, <1>8, <1>9, Heard
<1> QED
  BY <1>1, <1>3, <1>4, <1>5, <1>10, RoundKeeps
-----------------------------------------------------------------------------
LEMMA InitIInv == MatchAssumption /\ Init => IInv
<1> SUFFICES ASSUME MatchAssumption, Init PROVE IInv
  OBVIOUS
<1>1. Tallied
  BY DEF MatchAssumption, Init, Tallied, PerSeat
<1>2. Logged
  BY DEF Init, Logged, NotPlayed, PerSeat, Action
<1>3. Gains
  <2>1. MaxBet \in Nat
    BY DEF MatchAssumption, MaxBet
  <2> QED
    BY <2>1 DEF Init, Gains, PerSeat, Seat
<1>4. InTurn /\ RaiseIsHeard
  BY DEF Init, InTurn, RaiseIsHeard, NotPlayed
<1>5. OneRaiseARound /\ EveryRoundIsWon
  BY DEF Init, OneRaiseARound, EveryRoundIsWon, PerSeat, Seat
<1> QED
  BY <1>1, <1>2, <1>3, <1>4, <1>5 DEF IInv

LEMMA StepIInv == MatchAssumption /\ IInv /\ [Next]_vars => IInv'
<1> SUFFICES ASSUME MatchAssumption, IInv, [Next]_vars PROVE IInv'
  OBVIOUS
<1>1. CASE \E a, b \in Action : ChooseAtOnce(a, b)
  BY <1>1, ChooseAtOnceKeeps
<1>2. CASE \E action \in Action : Lead(action)
  BY <1>2, LeadKeeps
<1>3. CASE \E action \in Action : Reply(action)
  BY <1>3, ReplyKeeps
<1>4. CASE \E action \in Action : Answer(action)
  BY <1>4, AnswerKeeps
<1>5. CASE UNCHANGED vars
  BY <1>5 DEF vars, tally, IInv, Tallied, Logged, Gains, MaxBet, InTurn, isMatchOver,
              NoMoreRounds, OneRaiseARound, EveryRoundIsWon, RaiseIsHeard
<1> QED
  BY <1>1, <1>2, <1>3, <1>4, <1>5 DEF Next

LEMMA IInvTypeOK == IInv => TypeOK
<1> SUFFICES ASSUME IInv PROVE TypeOK
  OBVIOUS
<1>1. sequence \in Seq(Choice) /\ Len(sequence) <= 2
  <2>1. CASE sequence = <<>>
    BY <2>1
  <2>2. CASE sequence # <<>>
    <3>1. nextLeader \in Seat
      BY <2>2 DEF IInv, InTurn
    <3>2. ASSUME NEW a \in {"call", "raise"}
          PROVE  Chosen(nextLeader, a) \in Choice /\ Chosen(other(nextLeader), a) \in Choice
      BY <3>1, Choices DEF Action
    <3>3. CASE \E a \in {"call", "raise"} : sequence = <<Chosen(nextLeader, a)>>
      <4>1. PICK a \in {"call", "raise"} : sequence = <<Chosen(nextLeader, a)>>
        BY <3>3
      <4>2. Chosen(nextLeader, a) \in Choice
        BY <3>2
      <4> QED
        BY <4>1, <4>2
    <3>4. CASE sequence = <<Chosen(nextLeader, "call"), Chosen(other(nextLeader), "raise")>>
      <4>1. Chosen(nextLeader, "call") \in Choice /\ Chosen(other(nextLeader), "raise") \in Choice
        BY <3>2
      <4> QED
        BY <3>4, <4>1
    <3> QED
      BY <2>2, <3>3, <3>4 DEF IInv, InTurn
  <2> QED
    BY <2>1, <2>2
<1> QED
  BY <1>1 DEF IInv, Tallied, Logged, TypeOK, Choice

LEMMA IInvNet == MatchAssumption /\ IInv => NetWithinMaxNet
<1> SUFFICES ASSUME MatchAssumption, IInv PROVE NetWithinMaxNet
  OBVIOUS
<1>1. MaxBet \in Nat
  BY DEF MatchAssumption, MaxBet
<1>2. \A s \in Seat : nets[s] \in Int /\ roundsWon[s] \in Nat /\ roundsWon[s] <= ROUNDS_TO_WIN
  BY DEF IInv, Tallied, MatchAssumption
<1>3. \A w \in Nat : w <= ROUNDS_TO_WIN => MaxBet * w <= maxNet
  <2> SUFFICES ASSUME NEW w \in Nat, w <= ROUNDS_TO_WIN PROVE MaxBet * w <= maxNet
    OBVIOUS
  <2>1. MaxBet * (ROUNDS_TO_WIN - w) >= 0
    BY <1>1 DEF MatchAssumption
  <2>2. MaxBet * (ROUNDS_TO_WIN - w) = ROUNDS_TO_WIN * MaxBet - MaxBet * w
    BY <1>1 DEF MatchAssumption
  <2>3. MaxBet * w \in Int /\ ROUNDS_TO_WIN * MaxBet \in Int
    BY <1>1 DEF MatchAssumption
  <2> QED
    BY <2>1, <2>2, <2>3 DEF maxNet
<1>4. maxNet \in Int
  BY <1>1 DEF maxNet, MatchAssumption
<1>5. /\ nets["A"] + nets["B"] = 0
      /\ nets["A"] <= MaxBet * roundsWon["A"] /\ nets["B"] <= MaxBet * roundsWon["B"]
  BY DEF IInv, Gains
<1>6. MaxBet * roundsWon["A"] \in Int /\ MaxBet * roundsWon["B"] \in Int
  BY <1>1, <1>2 DEF Seat
<1>7. nets["A"] <= maxNet /\ nets["B"] <= maxNet
  <2>1. MaxBet * roundsWon["A"] <= maxNet /\ MaxBet * roundsWon["B"] <= maxNet
    BY <1>2, <1>3 DEF Seat
  <2> QED
    BY <1>2, <1>4, <1>5, <1>6, <2>1 DEF Seat
<1> QED
  BY <1>2, <1>4, <1>5, <1>7 DEF NetWithinMaxNet, Seat
-----------------------------------------------------------------------------
LEMMA Inductive == Spec => []IInv
BY MatchAssumption, InitIInv, StepIInv, PTL DEF Spec

\* The tally, the log and the choices of a round stay what their types say:
\* no round is counted past the last, and no seat wins one more than it needs.
THEOREM MatchTypeOK == Spec => []TypeOK
BY Inductive, IInvTypeOK, PTL

\* Whatever the stakes and the agents, a match moves at most maxNet, from one
\* seat to the other: the bound the runner checks and the program is given.
THEOREM NetIsBounded == Spec => []NetWithinMaxNet
BY MatchAssumption, Inductive, IInvNet, PTL

\* One raise per round in alternating play.
THEOREM OneRaise == Spec => []OneRaiseARound
<1>1. IInv => OneRaiseARound
  BY DEF IInv
<1> QED
  BY <1>1, Inductive, PTL

\* Nobody loses a raised bet to a raise made after its last choice.
THEOREM RaisesHeard == Spec => []RaiseIsHeard
<1>1. IInv => RaiseIsHeard
  BY DEF IInv
<1> QED
  BY <1>1, Inductive, PTL

\* Every round of alternating play has a winner.
THEOREM RoundsAreWon == Spec => []EveryRoundIsWon
<1>1. IInv => EveryRoundIsWon
  BY DEF IInv
<1> QED
  BY <1>1, Inductive, PTL
=============================================================================
