------------------------------- MODULE Match -------------------------------
(***************************************************************************)
(* One match (src/engine.ts, src/round.ts).  Rounds are played until a     *)
(* seat has won enough of them or there are no more.  In alternating play  *)
(* one seat leads the round, the other replies, and the leader answers a   *)
(* raise of its call; in simultaneous play both choose at once.  What a    *)
(* seat chooses is its agent's business: any action, at any turn.          *)
(*                                                                         *)
(* Edges and the generator that draws them are left out: no edge makes a   *)
(* flip certain, so either seat may win one.                               *)
(***************************************************************************)
EXTENDS Integers, Sequences

CONSTANTS
  ante, baseBet, raisedBet,     \* the stakes
  MAX_ROUNDS, ROUNDS_TO_WIN

ASSUME MatchAssumption ==
  /\ ante \in Nat /\ baseBet \in Nat /\ raisedBet \in Nat
  /\ MAX_ROUNDS \in Nat \ {0} /\ ROUNDS_TO_WIN \in Nat \ {0}

VARIABLES
  roundNumber, nets, roundsWon,
  raiseCounts, raisedLastRound,
  nextLeader,               \* who leads the next round; NoSeat in simultaneous play
  sequence,                 \* what has been chosen in this round
  round                     \* the log's last line

tally == <<roundNumber, nets, roundsWon, raiseCounts, raisedLastRound, nextLeader>>
vars == <<tally, sequence, round>>

Seat == {"A", "B"}
NoSeat == "none"
Action == {"fold", "call", "raise"}

other(seat) == IF seat = "A" THEN "B" ELSE "A"
PerSeat(a, b) == [s \in Seat |-> IF s = "A" THEN a ELSE b]
NotPlayed ==
  [leader |-> NoSeat, sequence |-> <<>>, actions |-> PerSeat("fold", "fold"), winner |-> NoSeat]
seatActions(leader, first, second) == [s \in Seat |-> IF s = leader THEN first ELSE second]

\* The dearest a round can be.
MaxBet == LET m == IF ante > baseBet THEN ante ELSE baseBet
          IN  IF raisedBet > m THEN raisedBet ELSE m
maxNet == ROUNDS_TO_WIN * MaxBet

\* Playing on to the last round, and stopping when a seat has won.
NoMoreRounds == roundNumber > MAX_ROUNDS
isMatchOver == NoMoreRounds \/ \E s \in Seat : roundsWon[s] >= ROUNDS_TO_WIN

\* Alternating play draws the leader of the first round; simultaneous has none.
Init ==
  /\ roundNumber = 1
  /\ nets = PerSeat(0, 0) /\ roundsWon = PerSeat(0, 0)
  /\ raiseCounts = PerSeat(0, 0) /\ raisedLastRound = PerSeat(FALSE, FALSE)
  /\ nextLeader \in Seat \cup {NoSeat}
  /\ sequence = <<>> /\ round = NotPlayed
-----------------------------------------------------------------------------
Folded(actions) == {s \in Seat : actions[s] = "fold"}

\* resolveActions: what is bet, and who may win it: a lone folder's opponent,
\* either seat by the flip, nobody if both fold.
Bet(actions) ==
  IF Folded(actions) = Seat THEN 0
  ELSE IF Folded(actions) # {} THEN ante
  ELSE IF \E s \in Seat : actions[s] = "raise" THEN raisedBet ELSE baseBet

Winners(actions) ==
  IF Folded(actions) = Seat THEN {NoSeat} ELSE Seat \ Folded(actions)

\* What a round moves: from the loser to the winner; and made, not moved.
Minted(winner, bet) == [s \in Seat |-> IF s = winner THEN bet ELSE 0]
Moved(winner, bet) ==
  [s \in Seat |-> IF winner = NoSeat THEN 0 ELSE IF s = winner THEN bet ELSE -bet]

\* advanceState, and the log's line.
Advance(actions, winner, chosen) ==
  /\ nets' = [s \in Seat |-> nets[s] + Moved(winner, Bet(actions))[s]]
  /\ roundsWon' = [s \in Seat |-> roundsWon[s] + (IF s = winner THEN 1 ELSE 0)]
  /\ roundNumber' = roundNumber + 1
  /\ raiseCounts' = [s \in Seat |-> raiseCounts[s] + (IF actions[s] = "raise" THEN 1 ELSE 0)]
  /\ raisedLastRound' = [s \in Seat |-> actions[s] = "raise"]
  /\ nextLeader' = IF nextLeader = NoSeat THEN NoSeat ELSE other(nextLeader)
  /\ round' = [leader |-> nextLeader, sequence |-> chosen, actions |-> actions,
               winner |-> winner]

Resolve(actions, chosen) ==
  /\ \E winner \in Winners(actions) : Advance(actions, winner, chosen)
  /\ sequence' = <<>>

Chosen(seat, action) == [seat |-> seat, action |-> action]
-----------------------------------------------------------------------------
\* Simultaneous play: neither sees what the other has chosen.
ChooseAtOnce(a, b) ==
  /\ ~isMatchOver /\ nextLeader = NoSeat
  /\ Resolve(PerSeat(a, b), <<Chosen("A", a), Chosen("B", b)>>)

\* Alternating play.  After a fold the responder never acts, which counts as a
\* call, for the ante.
NeverActed == "call"

Lead(action) ==
  LET chosen == <<Chosen(nextLeader, action)>> IN
  /\ ~isMatchOver /\ nextLeader # NoSeat /\ sequence = <<>>
  /\ IF action = "fold"
       THEN Resolve(seatActions(nextLeader, "fold", NeverActed), chosen)
       ELSE sequence' = chosen /\ UNCHANGED <<tally, round>>

\* Whether the leader is asked again: never; when its call was raised.
NoAnswer(first, second) == FALSE
RaisedCall(first, second) == first = "call" /\ second = "raise"

\* One raise per round: a raise of a raise is a call.
Second(first, reply) == IF first = "raise" /\ reply = "raise" THEN "call" ELSE reply

Reply(reply) ==
  LET first == sequence[1].action
      second == Second(first, reply)
      chosen == Append(sequence, Chosen(other(nextLeader), second))
  IN
  /\ Len(sequence) = 1
  /\ IF RaisedCall(first, second)
       THEN sequence' = chosen /\ UNCHANGED <<tally, round>>
       ELSE Resolve(seatActions(nextLeader, first, second), chosen)

\* The leader whose call was raised folds or calls.
Answer(action) ==
  LET answer == IF action = "fold" THEN "fold" ELSE "call" IN
  /\ Len(sequence) = 2
  /\ Resolve(seatActions(nextLeader, answer, "raise"),
             Append(sequence, Chosen(nextLeader, answer)))
-----------------------------------------------------------------------------
Next ==
  \/ \E a, b \in Action : ChooseAtOnce(a, b)
  \/ \E action \in Action : Lead(action) \/ Reply(action) \/ Answer(action)

Spec == Init /\ [][Next]_vars
-----------------------------------------------------------------------------
\* Type correctness: the one type invariant.
TypeOK ==
  /\ roundNumber \in 1 .. MAX_ROUNDS + 1
  /\ nets \in [Seat -> Int] /\ roundsWon \in [Seat -> 0 .. ROUNDS_TO_WIN]
  /\ raiseCounts \in [Seat -> Nat] /\ raisedLastRound \in [Seat -> BOOLEAN]
  /\ nextLeader \in Seat \cup {NoSeat}
  /\ sequence \in Seq([seat: Seat, action: Action]) /\ Len(sequence) <= 2
  /\ round \in [leader: Seat \cup {NoSeat}, sequence: Seq([seat: Seat, action: Action]),
                actions: [Seat -> Action], winner: Seat \cup {NoSeat}]

\* No match moves more than maxNet, and what one seat is up the other is down:
\* what a vault is checked to cover, and what the settlement program is asked
\* to move, is a bound on what the engine can produce (round.ts 225-248).
NetWithinMaxNet ==
  /\ nets["A"] + nets["B"] = 0
  /\ \A s \in Seat : nets[s] \in -maxNet .. maxNet

\* At most one raise per round in alternating play, whoever asks for another
\* (round.ts 42-46): the dearest a round can be is the raised bet, once.
OneRaiseARound ==
  nextLeader # NoSeat =>
    /\ raiseCounts["A"] + raiseCounts["B"] < roundNumber
    /\ ~(raisedLastRound["A"] /\ raisedLastRound["B"])

\* In alternating play nobody pays a raise unheard: who loses the raised bet
\* raised it, or has chosen after the raise, and did not fold.
RaiseIsHeard ==
  LET chosen == round.sequence
      raised == {i \in 1 .. Len(chosen) : chosen[i].action = "raise"}
      loser == other(round.winner)
  IN  round.leader # NoSeat /\ raised # {} /\ Folded(round.actions) = {} =>
        \E i \in raised : \E j \in i .. Len(chosen) : chosen[j].seat = loser

\* In alternating play every round is won, so a match of enough rounds has a
\* winner: a fold is always a lone one (round.ts 190-193).
EveryRoundIsWon ==
  nextLeader # NoSeat => roundsWon["A"] + roundsWon["B"] = roundNumber - 1
=============================================================================
