---------------------------- MODULE TenancyProofs ----------------------------
(***************************************************************************)
(* One agent a wallet, one credit a rental, final standings, at most one   *)
(* match after the loop is switched off: for any number of tabs, agents,   *)
(* matches and ticks.                                                      *)
(*                                                                         *)
(* An agent is changed by two dozen actions, and what the theorems need of *)
(* each is the same: Follows, what a step leaves of an agent.  It is shown *)
(* once, action by action; two actions, renting and recording a match, do  *)
(* more and have lemmas of their own.  OnePlace, Final and Switched are    *)
(* what makes each property inductive.                                     *)
(***************************************************************************)
EXTENDS Tenancy, SequenceTheorems, FiniteSetTheorems, TLAPS

\* What a step leaves of an agent: credited at most once, and then for good
\* reason; in play afterwards only if it was, or was put back.
Follows(a, b) ==
  /\ \/ b.credits = a.credits
     \/ a.credits = 0 /\ b.credits = 1 /\ b.fate = "landed"
  /\ a.fate # "live" => b.fate = a.fate
  /\ a.putBack => b.putBack
  /\ b.retired = "no" => a.retired = "no" \/ b.putBack

\* Any step but a recorded match: not played for nor switched on, unless the
\* owner did it, and then all is forgotten.
Unspent(a, b) == b.spent => a.spent /\ (b.autoplay => a.autoplay)

Kept ==
  /\ agents' \in Seq(Agent) /\ Len(agents') = Len(agents)
  /\ \A i \in 1 .. Len(agents) : Follows(agents[i], agents'[i]) /\ Unspent(agents[i], agents'[i])

SomePutBack == \E i \in DOMAIN agents : agents[i].putBack

\* At most one agent in play, and none while a tab holds the lock to add one.
OnePlace ==
  /\ SomePutBack \/ \A i, j \in InPlay : i = j
  /\ \A t \in Tabs : tab[t] = "checked" => lock = t /\ (SomePutBack \/ InPlay = {})

\* A closed season is over, and no match being recorded is one of its matches.
Final ==
  /\ \A s \in closed : EndOf(s) <= now /\ frozen[s] = counted[s]
  /\ game.at = "locked" => SeasonOf(game.time) \notin closed

\* An agent the loop has played for since it was switched off is still off, and
\* the loop has no other match of its in hand.
Switched ==
  /\ game.at # "idle" => game.a \in DOMAIN agents
  /\ game.at = "due" => game.auto
  /\ \A i \in DOMAIN agents :
       agents[i].spent => ~agents[i].autoplay /\ ~(game.auto /\ game.a = i)
-----------------------------------------------------------------------------
\* What is in a longer range and not in the shorter.
LEMMA LastOne ==
  ASSUME NEW n \in Nat
  PROVE  /\ 1 .. n \subseteq 1 .. n + 1
         /\ \A k \in 1 .. n + 1 : k \in 1 .. n \/ k = n + 1
  OBVIOUS

\* A step keeps the agents when it changes none of them, or one as it may.
LEMMA NothingChanged ==
  ASSUME agents \in Seq(Agent), agents' = agents
  PROVE  Kept
<1>1. \A i \in 1 .. Len(agents) : agents[i] \in Agent
  BY ElementOfSeq
<1>2. \A i \in 1 .. Len(agents) : Follows(agents[i], agents'[i]) /\ Unspent(agents[i], agents'[i])
  BY <1>1 DEF Follows, Unspent, Agent
<1> QED
  BY <1>2 DEF Kept

LEMMA OneChanged ==
  ASSUME agents \in Seq(Agent), NEW i \in DOMAIN agents, NEW e \in Agent,
         Follows(agents[i], e), Unspent(agents[i], e),
         agents' = [agents EXCEPT ![i] = e]
  PROVE  Kept
<1>1. i \in 1 .. Len(agents)
  BY LenProperties
<1>2. /\ agents' \in Seq(Agent) /\ Len(agents') = Len(agents)
      /\ \A j \in 1 .. Len(agents) : agents'[j] = IF j = i THEN e ELSE agents[j]
  BY <1>1, ExceptSeq
<1>3. \A j \in 1 .. Len(agents) : agents[j] \in Agent
  BY ElementOfSeq
<1>4. \A j \in 1 .. Len(agents) : j # i => Follows(agents[j], agents'[j]) /\ Unspent(agents[j], agents'[j])
  BY <1>2, <1>3 DEF Follows, Unspent, Agent
<1>5. \A j \in 1 .. Len(agents) : j = i => Follows(agents[j], agents'[j]) /\ Unspent(agents[j], agents'[j])
  BY <1>2
<1> QED
  BY <1>2, <1>4, <1>5 DEF Kept

\* A season ends at a time.
LEMMA EndsNat ==
  ASSUME TenancyAssumption, NEW t \in Nat
  PROVE  /\ SEASON \in Nat \ {0}
         /\ SeasonOf(t) \in Nat
         /\ EndOf(SeasonOf(t)) \in Nat /\ EndOf(SeasonOf(t) + 1) \in Nat
         /\ t < EndOf(SeasonOf(t))
         /\ SeasonOf(t) * SEASON <= t
<1>1. SEASON \in Nat \ {0}
  BY DEF TenancyAssumption
<1>2. t \div SEASON \in Nat
  BY <1>1
<1>3. \A m \in Nat : m * SEASON \in Nat
  BY <1>1
<1>4. t < (t \div SEASON + 1) * SEASON
  BY <1>1, SMTT(30)
<1>5. (t \div SEASON) * SEASON <= t
  BY <1>1, SMTT(30)
<1> QED
  BY <1>1, <1>2, <1>3, <1>4, <1>5 DEF SeasonOf, EndOf

\* What becomes of a rental's transaction, and the owner submitting it.
LEMMA RentalKept ==
  ASSUME TypeOK, NEW i,
         RentalLands(i) \/ HeightPasses(i) \/ SubmitRental(i)
  PROVE  Kept
<1>1. agents \in Seq(Agent) /\ i \in DOMAIN agents
  BY DEF TypeOK, RentalLands, HeightPasses, SubmitRental
<1>2. agents[i] \in Agent
  BY <1>1, LenProperties, ElementOfSeq
<1> DEFINE a == agents[i]
<1>3. CASE RentalLands(i)
  <2> DEFINE e == [a EXCEPT !.fate = "landed"]
  <2>1. agents' = [agents EXCEPT ![i] = e]
    BY <1>1, <1>3 DEF RentalLands
  <2>2. e \in Agent /\ Follows(a, e) /\ Unspent(a, e)
    BY <1>2, <1>3 DEF RentalLands, Agent, Follows, Unspent
  <2> QED
    BY <1>1, <2>1, <2>2, OneChanged
<1>4. CASE HeightPasses(i)
  <2> DEFINE e == [a EXCEPT !.fate = "dead"]
  <2>1. agents' = [agents EXCEPT ![i] = e]
    BY <1>1, <1>4 DEF HeightPasses
  <2>2. e \in Agent /\ Follows(a, e) /\ Unspent(a, e)
    BY <1>2, <1>4 DEF HeightPasses, Agent, Follows, Unspent
  <2> QED
    BY <1>1, <2>1, <2>2, OneChanged
<1>5. CASE SubmitRental(i)
  <2> DEFINE e == [a EXCEPT !.rental = "submitted", !.replying = TRUE]
  <2>1. agents' = [agents EXCEPT ![i] = e]
    BY <1>1, <1>5 DEF SubmitRental
  <2>2. e \in Agent /\ Follows(a, e) /\ Unspent(a, e)
    BY <1>2, <1>5 DEF SubmitRental, Agent, Follows, Unspent
  <2> QED
    BY <1>1, <2>1, <2>2, OneChanged
<1> QED
  BY <1>3, <1>4, <1>5

\* The two ways a rental is settled.
LEMMA Confirming ==
  ASSUME agents \in Seq(Agent), NEW i \in DOMAIN agents, agents[i].fate = "landed",
         agents' = Confirmed(i)
  PROVE  Kept
<1>2. agents[i] \in Agent
  BY LenProperties, ElementOfSeq
<1> DEFINE a == agents[i]
           e == [a EXCEPT !.rental = "confirmed", !.credits = @ + Unrecorded(i)]
<1>3. agents' = [agents EXCEPT ![i] = e]
  BY DEF Confirmed
<1>4. a.credits \in Nat
  BY <1>2 DEF Agent
<1>5. Unrecorded(i) = 0 \/ (Unrecorded(i) = 1 /\ a.credits = 0)
  BY <1>4 DEF Unrecorded
<1>a. a.credits + Unrecorded(i) \in Nat
  BY <1>4, <1>5
<1>6. e \in Agent
  BY <1>2, <1>a DEF Agent
<1>7. /\ e.credits = a.credits + Unrecorded(i) /\ e.fate = "landed" /\ e.retired = a.retired
      /\ a.putBack => e.putBack
      /\ e.spent => a.spent
      /\ e.autoplay => a.autoplay
  BY <1>2 DEF Agent
<1> HIDE DEF e
<1>8. Follows(a, e) /\ Unspent(a, e)
  BY <1>4, <1>5, <1>7 DEF Follows, Unspent
<1> QED
  BY <1>3, <1>6, <1>8, OneChanged

LEMMA Expiring ==
  ASSUME agents \in Seq(Agent), NEW i, agents' = Expired(i)
  PROVE  Kept
<1>1. CASE i \in DOMAIN agents /\ agents[i].rental \notin {"confirmed", "expired"}
  <2>1. agents[i] \in Agent
    BY <1>1, LenProperties, ElementOfSeq
  <2> DEFINE a == agents[i]
             e == [a EXCEPT !.rental = "expired", !.retired = IF @ = "no" THEN "unpaid" ELSE @]
  <2>2. agents' = [agents EXCEPT ![i] = e]
    BY <1>1 DEF Expired
  <2>3. e \in Agent /\ Follows(a, e) /\ Unspent(a, e)
    BY <2>1 DEF Agent, Follows, Unspent
  <2> QED
    BY <1>1, <2>2, <2>3, OneChanged
<1>2. CASE i \notin DOMAIN agents \/ agents[i].rental \in {"confirmed", "expired"}
  <2>1. agents' = agents
    BY <1>2, LenProperties DEF Expired
  <2> QED
    BY <2>1, NothingChanged
<1> QED
  BY <1>1, <1>2

\* Whoever asks the chain after it.
LEMMA AnswersKept ==
  ASSUME TypeOK, NEW i \in Ids,
         \/ RequestConfirms(i)
         \/ \E answered \in BOOLEAN : Decline(i, answered) \/ SweepLooks(i, answered)
  PROVE  Kept
<1>1. agents \in Seq(Agent)
  BY DEF TypeOK
<1>2. CASE RequestConfirms(i)
  <2>1. agents[i] \in Agent /\ agents[i].fate = "landed" /\ i \in DOMAIN agents
    BY <1>1, <1>2, LenProperties, ElementOfSeq DEF RequestConfirms
  <2> DEFINE a == agents[i]
             e == [a EXCEPT !.rental = "confirmed", !.credits = @ + Unrecorded(i), !.replying = FALSE]
  <2>2. agents' = [agents EXCEPT ![i] = e]
    BY <1>1, <1>2, <2>1, LenProperties DEF RequestConfirms, Confirmed
  <2>3. a.credits \in Nat
    BY <2>1 DEF Agent
  <2>4. Unrecorded(i) = 0 \/ (Unrecorded(i) = 1 /\ a.credits = 0)
    BY <2>3 DEF Unrecorded
  <2>a. a.credits + Unrecorded(i) \in Nat
    BY <2>3, <2>4
  <2>5. e \in Agent
    BY <2>1, <2>a DEF Agent
  <2>6. /\ e.credits = a.credits + Unrecorded(i) /\ e.fate = "landed" /\ e.retired = a.retired
        /\ a.putBack => e.putBack
        /\ e.spent => a.spent
        /\ e.autoplay => a.autoplay
    BY <2>1 DEF Agent
  <2> HIDE DEF e
  <2>7. Follows(a, e) /\ Unspent(a, e)
    BY <2>1, <2>3, <2>4, <2>6 DEF Follows, Unspent
  <2> QED
    BY <1>1, <2>1, <2>2, <2>5, <2>7, OneChanged
<1>3. CASE \E answered \in BOOLEAN : Decline(i, answered) \/ SweepLooks(i, answered)
  <2>1. i \in DOMAIN agents
    BY <1>3 DEF Decline, SweepLooks
  <2>2. agents' = agents \/ (agents[i].fate = "landed" /\ agents' = Confirmed(i))
    BY <1>3 DEF Decline, SweepLooks
  <2> QED
    BY <1>1, <2>1, <2>2, NothingChanged, Confirming
<1> QED
  BY <1>2, <1>3

\* What the owner does to an agent but rent it.
LEMMA OwnerKept ==
  ASSUME TypeOK, TenancyAssumption, OwnerStep
  PROVE  Kept
<1>1. agents \in Seq(Agent)
  BY DEF TypeOK
<1>2. ASSUME NEW i \in Ids, WithdrawAll(i) \/ Withdrawn(i) \/ PutBack(i)
      PROVE  Kept
  <2>1. i \in DOMAIN agents /\ agents[i] \in Agent
    BY <1>1, <1>2, LenProperties, ElementOfSeq DEF WithdrawAll, Withdrawn, PutBack
  <2> DEFINE a == agents[i]
  <2>2. CASE WithdrawAll(i)
    <3> DEFINE e == [a EXCEPT !.out = "leaving", !.retired = IF @ = "no" THEN "withdrawn" ELSE @]
    <3>1. agents' = [agents EXCEPT ![i] = e]
      BY <1>1, <2>1, <2>2 DEF WithdrawAll
    <3>2. e \in Agent /\ Follows(a, e) /\ Unspent(a, e)
      BY <2>1 DEF Agent, Follows, Unspent
    <3> QED
      BY <1>1, <2>1, <3>1, <3>2, OneChanged
  <2>3. CASE Withdrawn(i)
    <3> DEFINE e == [a EXCEPT !.out = "left"]
    <3>1. agents' = [agents EXCEPT ![i] = e]
      BY <1>1, <2>1, <2>3 DEF Withdrawn
    <3>2. e \in Agent /\ Follows(a, e) /\ Unspent(a, e)
      BY <2>1 DEF Agent, Follows, Unspent
    <3> QED
      BY <1>1, <2>1, <3>1, <3>2, OneChanged
  <2>4. CASE PutBack(i)
    <3> DEFINE e == [a EXCEPT !.out = "no", !.putBack = TRUE,
                              !.retired = IF @ = "withdrawn" THEN "no" ELSE @]
    <3>1. agents' = [agents EXCEPT ![i] = e]
      BY <1>1, <2>1, <2>4 DEF PutBack
    <3>2. e \in Agent /\ Follows(a, e) /\ Unspent(a, e)
      BY <2>1 DEF Agent, Follows, Unspent
    <3> QED
      BY <1>1, <2>1, <3>1, <3>2, OneChanged
  <2> QED
    BY <1>2, <2>2, <2>3, <2>4
<1>3. ASSUME NEW i \in Ids, NEW asked \in {now - 1, now}, RenewAgent(i, asked)
      PROVE  Kept
  <2>1. i \in DOMAIN agents /\ agents[i] \in Agent
    BY <1>1, <1>3, LenProperties, ElementOfSeq DEF RenewAgent
  <2> DEFINE a == agents[i]
             e == [a EXCEPT !.ends = RenewedTo(i, asked)]
  <2>2. agents' = [agents EXCEPT ![i] = e]
    BY <1>1, <2>1, <1>3 DEF RenewAgent
  <2>3. asked \in Nat
    BY <1>3 DEF RenewAgent
  <2>4. RenewedTo(i, asked) \in Nat
    BY <2>3, EndsNat DEF RenewedTo
  <2>5. e \in Agent /\ Follows(a, e) /\ Unspent(a, e)
    BY <2>1, <2>4 DEF Agent, Follows, Unspent
  <2> QED
    BY <1>1, <2>1, <2>2, <2>5, OneChanged
<1>4. ASSUME NEW i \in Ids, NEW on \in BOOLEAN, SetAutoplay(i, on)
      PROVE  Kept
  <2>1. i \in DOMAIN agents /\ agents[i] \in Agent
    BY <1>1, <1>4, LenProperties, ElementOfSeq DEF SetAutoplay, InPlay
  <2> DEFINE a == agents[i]
             e == [a EXCEPT !.autoplay = on, !.spent = IF on THEN FALSE ELSE @]
  <2>2. agents' = [agents EXCEPT ![i] = e]
    BY <1>1, <2>1, <1>4 DEF SetAutoplay
  <2>5. e \in Agent /\ Follows(a, e) /\ Unspent(a, e)
    BY <2>1 DEF Agent, Follows, Unspent
  <2> QED
    BY <1>1, <2>1, <2>2, <2>5, OneChanged
<1> QED
  BY <1>2, <1>3, <1>4 DEF OwnerStep

\* The season's tick, which takes several agents at once.
LEMMA SeasonKept ==
  ASSUME TypeOK, SeasonStep
  PROVE  Kept
<1>1. agents \in Seq(Agent) /\ DOMAIN agents = 1 .. Len(agents) /\ Len(agents) \in Nat
  BY LenProperties DEF TypeOK
<1>2. \A i \in 1 .. Len(agents) : agents[i] \in Agent
  BY <1>1, ElementOfSeq
<1>3. CASE agents' = agents
  BY <1>1, <1>3, NothingChanged
<1>4. CASE LapseExpired \/ \E s \in Seasons : CloseSeason(s)
  <2>1. DOMAIN agents' = 1 .. Len(agents)
    BY <1>1, <1>4 DEF LapseExpired, CloseSeason
  <2>2. ASSUME NEW i \in 1 .. Len(agents)
        PROVE  /\ agents'[i] \in Agent
               /\ Follows(agents[i], agents'[i]) /\ Unspent(agents[i], agents'[i])
    <3>1. \/ agents'[i] = agents[i]
          \/ agents'[i] = [agents[i] EXCEPT !.retired = "lapsed", !.autoplay = FALSE]
          \/ agents'[i] = [agents[i] EXCEPT !.autoplay = FALSE]
      BY <1>1, <1>4 DEF LapseExpired, CloseSeason
    <3> QED
      BY <1>2, <3>1 DEF Agent, Follows, Unspent
  <2>3. agents' = [i \in 1 .. Len(agents) |-> agents'[i]]
    BY <1>1, <1>4 DEF LapseExpired, CloseSeason
  <2>4. agents' \in [1 .. Len(agents) -> Agent]
    BY <2>1, <2>2, <2>3
  <2>5. agents' \in Seq(Agent) /\ Len(agents') = Len(agents)
    BY <1>1, <2>1, <2>4
  <2> QED
    BY <2>2, <2>5 DEF Kept
<1> QED
  BY <1>3, <1>4 DEF SeasonStep, EnsureSeason

\* The loop stops an agent; the rest of its steps leave agents alone.
LEMMA StopsKept ==
  ASSUME TypeOK, TickStops
  PROVE  Kept
<1>1. agents \in Seq(Agent)
  BY DEF TypeOK
<1>2. CASE game.a \in DOMAIN agents
  <2> DEFINE a == agents[game.a]
             e == [a EXCEPT !.autoplay = @ /\ a.out = "leaving"]
  <2>1. a \in Agent
    BY <1>1, <1>2, LenProperties, ElementOfSeq
  <2>2. agents' = [agents EXCEPT ![game.a] = e]
    BY <1>2 DEF TickStops
  <2>3. (a.autoplay /\ a.out = "leaving") \in BOOLEAN
    BY <2>1 DEF Agent
  <2>4. e \in Agent /\ Follows(a, e) /\ Unspent(a, e)
    BY <2>1, <2>3 DEF Agent, Follows, Unspent
  <2> QED
    BY <1>1, <1>2, <2>2, <2>4, OneChanged
<1>3. CASE game.a \notin DOMAIN agents
  <2>1. agents' = agents
    BY <1>1, <1>3, LenProperties DEF TickStops
  <2> QED
    BY <1>1, <2>1, NothingChanged
<1> QED
  BY <1>2, <1>3

\* Every step but renting and recording.
LEMMA StepKept ==
  ASSUME TypeOK, TenancyAssumption, [Next]_vars,
         \A t \in Tabs : ~RentCreates(t), ~RecordCommits
  PROVE  Kept
<1>1. agents \in Seq(Agent)
  BY DEF TypeOK
<1>2. CASE agents' = agents
  BY <1>1, <1>2, NothingChanged
<1>3. CASE RentStep \/ SweepStep
  <2>1. CASE \E t \in Tabs : RentChecks(t) \/ RentFails(t)
    BY <1>2, <2>1 DEF RentChecks, RentFails
  <2>2. CASE \E i \in Ids : RentalLands(i) \/ HeightPasses(i) \/ SubmitRental(i)
    BY <2>2, RentalKept
  <2>3. CASE \E i \in Ids : RequestConfirms(i)
    BY <2>3, AnswersKept
  <2>4. CASE \E i \in Ids, answered \in BOOLEAN : Decline(i, answered) \/ SweepLooks(i, answered)
    BY <2>4, AnswersKept
  <2>5. CASE DeclineExpires \/ SweepEnds
    <3>1. agents' = agents \/ agents' = Expired(declining) \/ agents' = Expired(sweep)
      BY <2>5 DEF DeclineExpires, SweepEnds
    <3> QED
      BY <1>1, <3>1, NothingChanged, Expiring
  <2> QED
    BY <1>3, <2>1, <2>2, <2>3, <2>4, <2>5 DEF RentStep, SweepStep
<1>4. CASE PlayStep
  BY <1>2, <1>4, StopsKept DEF PlayStep, TickWaits, RecordStarts, TickReads, Plays
<1> QED
  BY <1>2, <1>3, <1>4, OwnerKept, SeasonKept DEF Next, TimePasses, vars

\* A new agent comes last, with nothing credited and nothing played.
LEMMA Created ==
  ASSUME TypeOK, TenancyAssumption, NEW t \in Tabs, RentCreates(t)
  PROVE  /\ agents' \in Seq(Agent) /\ Len(agents') = Len(agents) + 1
         /\ \A i \in 1 .. Len(agents) : agents'[i] = agents[i]
         /\ agents'[Len(agents) + 1].credits = 0
         /\ ~agents'[Len(agents) + 1].spent
<1> DEFINE e == [retired |-> "no", ends |-> EndOf(SeasonOf(now)), autoplay |-> FALSE,
                 rental |-> "prepared", fate |-> "live", replying |-> FALSE, credits |-> 0,
                 out |-> "no", putBack |-> FALSE, spent |-> FALSE]
<1>1. agents \in Seq(Agent) /\ now \in Nat
  BY DEF TypeOK
<1>2. EndOf(SeasonOf(now)) \in Nat
  BY <1>1, EndsNat
<1>3. e \in Agent
  BY <1>2 DEF Agent
<1>4. agents' = Append(agents, e)
  BY DEF RentCreates
<1>5. e.credits = 0 /\ ~e.spent
  OBVIOUS
<1> HIDE DEF e
<1> QED
  BY <1>1, <1>3, <1>4, <1>5, AppendProperties

\* A recorded match says only that the loop has played.
LEMMA Recorded ==
  ASSUME TypeOK, RecordCommits
  PROVE  /\ agents' \in Seq(Agent) /\ Len(agents') = Len(agents)
         /\ \A i \in 1 .. Len(agents) :
              /\ Follows(agents[i], agents'[i])
              /\ agents'[i].spent => agents[i].spent \/ ~agents[i].autoplay
              /\ agents'[i].autoplay => agents[i].autoplay
<1>1. agents \in Seq(Agent) /\ Len(agents) \in Nat /\ DOMAIN agents = 1 .. Len(agents)
  BY LenProperties DEF TypeOK
<1>2. \A i \in 1 .. Len(agents) : agents[i] \in Agent
  BY <1>1, ElementOfSeq
<1>3. CASE game.a \in 1 .. Len(agents)
  <2> DEFINE a == agents[game.a]
             spent == a.spent \/ (game.auto /\ ~a.autoplay)
             e == [a EXCEPT !.spent = spent]
  <2>1. agents' = [agents EXCEPT ![game.a] = e]
    BY <1>1, <1>3 DEF RecordCommits
  <2>2. spent \in BOOLEAN
    OBVIOUS
  <2> HIDE DEF spent
  <2>3. e \in Agent
    BY <1>2, <1>3, <2>2 DEF Agent
  <2> USE DEF spent
  <2>4. /\ Follows(a, e)
        /\ e.spent => a.spent \/ ~a.autoplay
        /\ e.autoplay => a.autoplay
    BY <1>2, <1>3 DEF Agent, Follows
  <2>5. /\ agents' \in Seq(Agent) /\ Len(agents') = Len(agents)
        /\ \A j \in 1 .. Len(agents) : agents'[j] = IF j = game.a THEN e ELSE agents[j]
    BY <1>1, <1>3, <2>1, <2>3, ExceptSeq
  <2> HIDE DEF e
  <2>6. \A j \in 1 .. Len(agents) : j # game.a => Follows(agents[j], agents'[j]) /\ agents'[j] = agents[j]
    BY <1>2, <2>5 DEF Follows, Agent
  <2> QED
    BY <2>4, <2>5, <2>6
<1>4. CASE game.a \notin 1 .. Len(agents)
  <2>1. agents' = agents
    BY <1>1, <1>4 DEF RecordCommits
  <2>2. \A i \in 1 .. Len(agents) : Follows(agents[i], agents'[i])
    BY <1>2, <2>1 DEF Follows, Agent
  <2> QED
    BY <1>1, <2>1, <2>2
<1> QED
  BY <1>3, <1>4

\* What any step leaves of those there are.
LEMMA StepFollows ==
  ASSUME TypeOK, TenancyAssumption, [Next]_vars
  PROVE  /\ agents' \in Seq(Agent)
         /\ \/ Len(agents') = Len(agents)
            \/ Len(agents') = Len(agents) + 1 /\ \E t \in Tabs : RentCreates(t)
         /\ \A i \in 1 .. Len(agents) : Follows(agents[i], agents'[i])
<1>1. CASE \E t \in Tabs : RentCreates(t)
  <2>1. agents \in Seq(Agent)
    BY DEF TypeOK
  <2>2. \A i \in 1 .. Len(agents) : agents[i] \in Agent
    BY <2>1, ElementOfSeq
  <2>3. PICK t \in Tabs : RentCreates(t)
    BY <1>1
  <2>4. \A i \in 1 .. Len(agents) : agents'[i] = agents[i]
    BY <2>3, Created
  <2>5. \A i \in 1 .. Len(agents) : Follows(agents[i], agents'[i])
    BY <2>2, <2>4 DEF Follows, Agent
  <2> QED
    BY <2>3, <2>5, Created
<1>2. CASE RecordCommits
  BY <1>2, Recorded
<1>3. CASE (\A t \in Tabs : ~RentCreates(t)) /\ ~RecordCommits
  BY <1>3, StepKept DEF Kept
<1> QED
  BY <1>1, <1>2, <1>3
-----------------------------------------------------------------------------
\* The seasons a behaviour can come to have rows for.
LEMMA SeasonReached ==
  ASSUME TypeOK, TenancyAssumption
  PROVE  /\ 0 \in Seasons /\ SeasonOf(now) \in Seasons
         /\ \A s \in Seasons : EndOf(s) <= now => s + 1 \in Seasons
         /\ \A s \in Seasons : s \in Nat
<1>1. bound \in Bounds /\ bound.ticks \in Nat /\ now \in Nat /\ now <= bound.ticks
  BY DEF TypeOK, TenancyAssumption
<1>2. SEASON \in Nat \ {0}
  BY DEF TenancyAssumption
<1> DEFINE q == bound.ticks \div SEASON
<1>3. q \in Nat
  BY <1>1, <1>2
<1>4. \A s \in 0 .. q + 1 : s \in Seasons
  BY <1>1 DEF Seasons
<1>5. \A b \in Bounds : b.ticks \div SEASON \in Nat
  BY <1>2 DEF TenancyAssumption
<1>6. \A s \in Seasons : s \in Nat
  BY <1>5 DEF Seasons
<1>7. bound.ticks < (q + 1) * SEASON
  BY <1>1, EndsNat DEF SeasonOf, EndOf
<1>8. now \div SEASON \in Nat /\ (now \div SEASON) * SEASON <= now
  BY <1>1, EndsNat DEF SeasonOf
<1> HIDE DEF q
<1>9. \A m, n, d \in Nat : d > 0 /\ m * d < n * d => m < n
  OBVIOUS
<1>10. \A s \in Nat : s * SEASON <= now => s <= q
  <2> TAKE s \in Nat
  <2> HAVE s * SEASON <= now
  <2>1. s * SEASON \in Nat /\ (q + 1) * SEASON \in Nat
    BY <1>2, <1>3
  <2>2. s * SEASON < (q + 1) * SEASON
    BY <1>1, <1>7, <2>1
  <2>3. s < q + 1
    BY <1>2, <1>3, <1>9, <2>2
  <2> QED
    BY <1>3, <2>3
<1>11. SeasonOf(now) \in Seasons
  BY <1>3, <1>4, <1>8, <1>10 DEF SeasonOf
<1>12. \A s \in Seasons : EndOf(s) <= now => s + 1 \in Seasons
  BY <1>3, <1>4, <1>6, <1>10 DEF EndOf
<1> QED
  BY <1>3, <1>4, <1>6, <1>11, <1>12

\* Which steps touch what.
LEMMA RentFrame ==
  ASSUME RentStep \/ SweepStep
  PROVE  UNCHANGED <<bound, now, playVars, seasonVars>>
<1>1. CASE RentStep
  BY <1>1 DEF RentStep, playVars, seasonVars, RentChecks, RentCreates, RentFails, RentalLands,
              HeightPasses, SubmitRental, RequestConfirms, Decline, DeclineExpires
<1>2. CASE SweepStep
  BY <1>2 DEF SweepStep, playVars, seasonVars, SweepLooks, SweepEnds
<1> QED
  BY <1>1, <1>2

LEMMA OwnerFrame ==
  ASSUME OwnerStep
  PROVE  UNCHANGED <<bound, now, rentVars, playVars, seasonVars>>
BY DEF OwnerStep, WithdrawAll, Withdrawn, PutBack, RenewAgent, SetAutoplay

LEMMA SeasonFrame ==
  ASSUME SeasonStep
  PROVE  UNCHANGED <<bound, now, rentVars, playVars>>
BY DEF SeasonStep, EnsureSeason, LapseExpired, CloseSeason, seasonVars

LEMMA PlayFrame ==
  ASSUME PlayStep
  PROVE  UNCHANGED <<bound, now, rentVars, seasonVars>>
BY DEF PlayStep, TickStops, TickWaits, RecordStarts, RecordCommits, TickReads, Plays

\* Types are those of the variables, whatever happens.
THEOREM TypeCorrect == Spec => []TypeOK
<1> USE TenancyAssumption
<1>1. Init => TypeOK
  <2> SUFFICES ASSUME Init PROVE TypeOK
    OBVIOUS
  <2>1. bound \in Bounds /\ bound.ticks \in Nat /\ SEASON \in Nat \ {0}
    BY DEF Init, TenancyAssumption
  <2>2. bound.ticks \div SEASON \in Nat
    BY <2>1
  <2>3. 0 \in 0 .. (bound.ticks \div SEASON) + 1
    BY <2>2
  <2>4. 0 \in Seasons
    BY <2>1, <2>3 DEF Seasons
  <2>5. agents \in Seq(Agent)
    BY EmptySeq DEF Init
  <2> QED
    BY <2>1, <2>4, <2>5 DEF Init, TypeOK, None
<1>2. TypeOK /\ [Next]_vars => TypeOK'
  <2> SUFFICES ASSUME TypeOK, [Next]_vars PROVE TypeOK'
    OBVIOUS
  <2>1. agents' \in Seq(Agent)
    BY StepFollows
  <2>2. CASE RentStep \/ SweepStep
    <3>1. UNCHANGED <<bound, now, playVars, seasonVars>>
      BY <2>2, RentFrame
    <3>2. lock' \in Tabs \cup {0} /\ tab' \in [Tabs -> {"idle", "checked"}]
      BY <2>2 DEF TypeOK, RentStep, SweepStep, rentVars, RentChecks, RentCreates, RentFails,
                  RentalLands, HeightPasses, SubmitRental, RequestConfirms, Decline,
                  DeclineExpires, SweepLooks, SweepEnds
    <3>3. {declining', sweep'} \subseteq Ids \cup {0}
      BY <2>2 DEF TypeOK, RentStep, SweepStep, rentVars, RentChecks, RentCreates, RentFails,
                  RentalLands, HeightPasses, SubmitRental, RequestConfirms, Decline,
                  DeclineExpires, SweepLooks, SweepEnds
    <3> QED
      BY <2>1, <3>1, <3>2, <3>3 DEF TypeOK, playVars, seasonVars
  <2>3. CASE OwnerStep
    BY <2>1, <2>3, OwnerFrame DEF TypeOK, rentVars, playVars, seasonVars
  <2>4. CASE SeasonStep
    <3>1. UNCHANGED <<bound, now, rentVars, playVars>>
      BY <2>4, SeasonFrame
    <3>2. known' \subseteq Seasons /\ closed' \subseteq known' /\ frozen' \in [Seasons -> Nat]
      <4>1. CASE EnsureSeason
        BY <4>1, SeasonReached DEF TypeOK, EnsureSeason
      <4>2. CASE LapseExpired
        BY <4>2 DEF TypeOK, LapseExpired, seasonVars
      <4>3. ASSUME NEW s \in Seasons, CloseSeason(s)
            PROVE  known' \subseteq Seasons /\ closed' \subseteq known' /\ frozen' \in [Seasons -> Nat]
        <5>1. s \in known /\ EndOf(s) <= now
          BY <4>3 DEF CloseSeason, Ended
        <5>2. s + 1 \in Seasons
          BY <5>1, SeasonReached
        <5> QED
          BY <4>3, <5>1, <5>2 DEF TypeOK, CloseSeason, KnownAfter
      <4> QED
        BY <2>4, <4>1, <4>2, <4>3 DEF SeasonStep
    <3> QED
      BY <2>1, <3>1, <3>2 DEF TypeOK, rentVars, playVars
  <2>5. CASE PlayStep
    <3>1. UNCHANGED <<bound, now, rentVars, seasonVars>>
      BY <2>5, PlayFrame
    <3> DEFINE Game == [at: {"idle", "due", "playing", "locked"}, a: Ids \cup {0},
                        time: Nat, auto: BOOLEAN]
    <3>a. game \in Game /\ None \in Game /\ now \in Nat
      BY DEF TypeOK, None
    <3>2. game' \in Game
      <4>1. CASE game' = None
        BY <3>a, <4>1
      <4>2. CASE RecordStarts
        <5>1. game' = None \/ game' = [game EXCEPT !.at = "locked", !.time = now]
          BY <4>2 DEF RecordStarts, UnderLock
        <5> QED
          BY <3>a, <5>1 DEF None
      <4>3. CASE \E i \in Ids : TickReads(i) \/ Plays(i)
        <5>1. PICK i \in Ids : TickReads(i) \/ Plays(i)
          BY <4>3
        <5>2. PICK at \in {"due", "playing"}, auto \in BOOLEAN :
                game' = [at |-> at, a |-> i, time |-> now, auto |-> auto]
          BY <5>1 DEF TickReads, Plays
        <5> QED
          BY <3>a, <5>2
      <4> QED
        BY <2>5, <4>1, <4>2, <4>3 DEF PlayStep, TickStops, TickWaits, RecordCommits
    <3>3. counted' \in [Seasons -> Nat]
      BY <2>5 DEF TypeOK, PlayStep, TickStops, TickWaits, RecordStarts, RecordCommits, TickReads,
                  Plays
    <3> QED
      BY <2>1, <3>1, <3>2, <3>3 DEF TypeOK, rentVars, seasonVars
  <2>6. CASE TimePasses
    <3>1. now' \in 0 .. bound.ticks
      BY <2>6 DEF TypeOK, TimePasses, TenancyAssumption
    <3> QED
      BY <2>1, <2>6, <3>1 DEF TypeOK, TimePasses, rentVars, playVars, seasonVars
  <2>7. CASE UNCHANGED vars
    BY <2>7 DEF TypeOK, vars
  <2> QED
    BY <2>2, <2>3, <2>4, <2>5, <2>6, <2>7 DEF Next
<1> QED
  BY <1>1, <1>2, PTL DEF Spec
-----------------------------------------------------------------------------
\* A deposit is credited once, and only for a transaction that landed, whoever
\* finds it and however often (rentals.ts 159-192).
THEOREM CreditedOnce == Spec => []OpeningCreditedOnce
<1> USE TenancyAssumption
<1>1. Init => OpeningCreditedOnce
  BY DEF Init, OpeningCreditedOnce
<1>2. TypeOK /\ OpeningCreditedOnce /\ [Next]_vars => OpeningCreditedOnce'
  <2> SUFFICES ASSUME TypeOK, OpeningCreditedOnce, [Next]_vars, NEW i \in DOMAIN agents'
               PROVE  agents'[i].credits <= 1 /\ (agents'[i].credits = 1 => agents'[i].fate = "landed")
    BY DEF OpeningCreditedOnce
  <2>1. /\ agents \in Seq(Agent) /\ Len(agents) \in Nat /\ DOMAIN agents = 1 .. Len(agents)
        /\ DOMAIN agents' = 1 .. Len(agents')
    BY StepFollows, LenProperties DEF TypeOK
  <2>2. CASE i \in 1 .. Len(agents)
    <3>1. agents[i] \in Agent /\ Follows(agents[i], agents'[i])
      BY <2>1, <2>2, StepFollows, ElementOfSeq
    <3>2. agents[i].credits <= 1 /\ (agents[i].credits = 1 => agents[i].fate = "landed")
      BY <2>1, <2>2 DEF OpeningCreditedOnce
    <3> QED
      BY <3>1, <3>2 DEF Follows, Agent
  <2>3. CASE i \notin 1 .. Len(agents)
    <3>a. i \in 1 .. Len(agents') /\ Len(agents') # Len(agents)
      BY <2>1, <2>3
    <3>b. Len(agents') = Len(agents) + 1 /\ \E t \in Tabs : RentCreates(t)
      BY <3>a, StepFollows
    <3>1. i = Len(agents) + 1 /\ \E t \in Tabs : RentCreates(t)
      BY <2>1, <2>3, <3>a, <3>b, LastOne
    <3>2. agents'[i].credits = 0
      BY <3>1, Created
    <3> QED
      BY <3>2
  <2> QED
    BY <2>2, <2>3
<1> QED
  BY <1>1, <1>2, TypeCorrect, PTL DEF Spec
-----------------------------------------------------------------------------
\* A closing closes what is over, and a match is recorded for a season that is
\* not.
LEMMA FinalStep ==
  ASSUME TypeOK, TenancyAssumption, Final, [Next]_vars
  PROVE  Final'
<1>1. closed \subseteq Seasons /\ \A s \in Seasons : s \in Nat
  BY SeasonReached DEF TypeOK
<1>2. now \in Nat /\ game.time \in Nat /\ counted \in [Seasons -> Nat] /\ frozen \in [Seasons -> Nat]
  BY DEF TypeOK
<1>3. \A s \in Seasons : EndOf(s) \in Nat
  BY <1>1 DEF EndOf, TenancyAssumption
<1>4. CASE UNCHANGED <<now, closed, frozen, game, counted>>
  BY <1>4 DEF Final, EndOf, SeasonOf
<1>5. CASE TimePasses
  BY <1>1, <1>2, <1>3, <1>5 DEF Final, TimePasses, playVars, seasonVars, EndOf, SeasonOf
<1>6. CASE PlayStep
  <2>1. UNCHANGED <<now, closed, frozen>>
    BY <1>6, PlayFrame DEF seasonVars
  <2>2. CASE RecordCommits
    <3>1. game.at = "locked" /\ game'.at = "idle"
      BY <2>2 DEF RecordCommits, None
    <3>2. SeasonOf(game.time) \notin closed
      BY <3>1 DEF Final
    <3>3. \A s \in closed : counted'[s] = counted[s]
      BY <1>1, <1>2, <2>2, <3>2 DEF RecordCommits
    <3> QED
      BY <2>1, <3>1, <3>3 DEF Final, EndOf
  <2>3. CASE RecordStarts
    <3>1. SeasonOf(now) \notin closed
      <4>1. now < EndOf(SeasonOf(now)) /\ EndOf(SeasonOf(now)) \in Nat
        BY <1>2, EndsNat
      <4>2. ~(EndOf(SeasonOf(now)) <= now)
        BY <1>2, <4>1
      <4> QED
        BY <4>2 DEF Final
    <3>2. game' = None \/ game' = [game EXCEPT !.at = "locked", !.time = now]
      BY <2>3 DEF RecordStarts, UnderLock
    <3>a. game \in [at: {"idle", "due", "playing", "locked"}, a: Ids \cup {0},
                    time: Nat, auto: BOOLEAN]
      BY DEF TypeOK
    <3>3. game'.at = "locked" => game'.time = now
      <4>1. None.at = "idle"
        BY DEF None
      <4>2. ASSUME game' = [game EXCEPT !.at = "locked", !.time = now]
            PROVE  game'.time = now
        BY <3>a, <4>2
      <4> QED
        BY <3>2, <4>1, <4>2
    <3>4. counted' = counted
      BY <2>3 DEF RecordStarts
    <3> QED
      BY <2>1, <3>1, <3>3, <3>4 DEF Final, EndOf, SeasonOf
  <2>4. CASE ~RecordCommits /\ ~RecordStarts
    <3>1. counted' = counted /\ game'.at # "locked"
      BY <1>6, <2>4 DEF PlayStep, TickStops, TickWaits, TickReads, Plays, None
    <3> QED
      BY <2>1, <3>1 DEF Final, EndOf, SeasonOf
  <2> QED
    BY <2>2, <2>3, <2>4
<1>7. ASSUME NEW s \in Seasons, CloseSeason(s)
      PROVE  Final'
  <2>1. EndOf(s) <= now /\ game.at # "locked"
    BY <1>7 DEF CloseSeason, Ended
  <2>2. now' = now /\ game' = game /\ counted' = counted /\ closed' = closed \cup {s}
    BY <1>7 DEF CloseSeason, playVars
  <2>3. frozen' = [frozen EXCEPT ![s] = counted[s]]
    BY <1>7 DEF CloseSeason
  <2>4. \A r \in closed' : EndOf(r) <= now /\ frozen'[r] = counted[r]
    BY <1>1, <1>2, <2>1, <2>2, <2>3 DEF Final
  <2> QED
    BY <2>1, <2>2, <2>4 DEF Final, EndOf
<1> QED
  BY <1>4, <1>5, <1>6, <1>7, RentFrame, OwnerFrame
  DEF Next, SeasonStep, EnsureSeason, LapseExpired, vars, playVars, seasonVars

\* Standings that are frozen are final: no match played across the boundary is
\* counted for a season already closed (seasons.ts 61-69).
THEOREM StandingsFinal == Spec => []FrozenStandingsAreFinal
<1> USE TenancyAssumption
<1>1. Init => Final
  BY DEF Init, Final, None
<1>2. TypeOK /\ Final /\ [Next]_vars => Final'
  BY FinalStep
<1>3. Final => FrozenStandingsAreFinal
  BY DEF Final, FrozenStandingsAreFinal
<1> QED
  BY <1>1, <1>2, <1>3, TypeCorrect, PTL DEF Spec
-----------------------------------------------------------------------------
\* A tab creates an agent under the lock it checked under, and nothing else
\* brings an agent into play but a withdrawal put back.
LEMMA PlaceStep ==
  ASSUME TypeOK, TenancyAssumption, OnePlace, [Next]_vars
  PROVE  OnePlace'
<1>1. /\ agents \in Seq(Agent) /\ Len(agents) \in Nat /\ DOMAIN agents = 1 .. Len(agents)
      /\ DOMAIN agents' = 1 .. Len(agents') /\ Len(agents') \in {Len(agents), Len(agents) + 1}
      /\ tab \in [Tabs -> {"idle", "checked"}]
  BY StepFollows, LenProperties DEF TypeOK
<1>2. \A i \in 1 .. Len(agents) : Follows(agents[i], agents'[i])
  BY StepFollows
<1>a. 1 .. Len(agents) \subseteq 1 .. Len(agents')
  BY <1>1, LastOne
<1>3. SomePutBack => SomePutBack'
  BY <1>1, <1>2, <1>a DEF SomePutBack, Follows
<1>4. SomePutBack' \/ \A i \in InPlay' : i \in 1 .. Len(agents) => i \in InPlay
  BY <1>1, <1>2 DEF SomePutBack, Follows, InPlay
<1>5. ASSUME NEW t \in Tabs, RentCreates(t)
      PROVE  OnePlace'
  <2>1. SomePutBack \/ InPlay = {}
    BY <1>5 DEF OnePlace, RentCreates
  <2>2. SomePutBack' \/ \A i \in InPlay' : i = Len(agents) + 1
    <3>1. \A i \in InPlay' : i \in 1 .. Len(agents) \/ i = Len(agents) + 1
      BY <1>1, LastOne DEF InPlay
    <3> QED
      BY <1>3, <1>4, <2>1, <3>1
  <2>3. \A u \in Tabs : tab'[u] = "checked" => u = t /\ FALSE
    BY <1>1, <1>5 DEF OnePlace, RentCreates
  <2> QED
    BY <2>2, <2>3 DEF OnePlace
<1>6. ASSUME NEW t \in Tabs, RentChecks(t)
      PROVE  OnePlace'
  <2>1. lock = 0 /\ InPlay = {} /\ InPlay' = {} /\ lock' = t
    BY <1>6 DEF RentChecks, LockFree, InPlay
  <2>2. \A u \in Tabs : tab'[u] = "checked" => u = t
    <3>1. \A u \in Tabs : tab[u] # "checked"
      BY <2>1 DEF OnePlace, TenancyAssumption
    <3> QED
      BY <1>1, <1>6, <3>1 DEF RentChecks
  <2> QED
    BY <2>1, <2>2 DEF OnePlace
<1>7. CASE \A t \in Tabs : ~RentCreates(t) /\ ~RentChecks(t)
  <2>1. Len(agents') = Len(agents)
    BY <1>7, StepFollows
  <2>2. SomePutBack' \/ InPlay' \subseteq InPlay
    BY <1>1, <1>4, <2>1 DEF InPlay
  <2>3. \/ lock' = lock /\ tab' = tab
        \/ \E t \in Tabs : RentFails(t)
    BY <1>7, OwnerFrame, SeasonFrame, PlayFrame
    DEF Next, TimePasses, vars, rentVars, RentStep, SweepStep, RentalLands, HeightPasses,
        SubmitRental, RequestConfirms, Decline, DeclineExpires, SweepLooks, SweepEnds
  <2>4. \A u \in Tabs : tab'[u] = "checked" => tab[u] = "checked" /\ lock' = u
    <3>1. CASE lock' = lock /\ tab' = tab
      BY <3>1 DEF OnePlace
    <3>2. ASSUME NEW t \in Tabs, RentFails(t)
          PROVE  \A u \in Tabs : tab'[u] # "checked"
      BY <1>1, <3>2 DEF OnePlace, RentFails
    <3> QED
      BY <2>3, <3>1, <3>2
  <2> QED
    BY <1>3, <2>2, <2>4 DEF OnePlace
<1> QED
  BY <1>5, <1>6, <1>7

\* A wallet has one agent in play, from whichever of its tabs it rents, unless
\* a withdrawal that had retired one was put back (server.ts 455-488).
THEOREM OneInPlay == Spec => []OneInPlayUnlessPutBack
<1> USE TenancyAssumption
<1>1. Init => OnePlace
  BY DEF Init, OnePlace, InPlay
<1>2. TypeOK /\ OnePlace /\ [Next]_vars => OnePlace'
  BY PlaceStep
<1>3. TypeOK /\ OnePlace => OneInPlayUnlessPutBack
  <2> SUFFICES ASSUME TypeOK, OnePlace, ~SomePutBack PROVE Cardinality(InPlay) <= 1
    BY DEF OneInPlayUnlessPutBack, SomePutBack
  <2>1. CASE InPlay = {}
    BY <2>1, FS_EmptySet
  <2>2. ASSUME NEW i \in InPlay PROVE Cardinality(InPlay) <= 1
    <3>1. InPlay = {i}
      BY DEF OnePlace
    <3> QED
      BY <3>1, FS_Singleton
  <2> QED
    BY <2>1, <2>2
<1> QED
  BY <1>1, <1>2, <1>3, TypeCorrect, PTL DEF Spec
-----------------------------------------------------------------------------
\* Only the owner switches an agent on, and the loop takes up only what is on.
LEMMA SwitchedStep ==
  ASSUME TypeOK, TenancyAssumption, Switched, [Next]_vars
  PROVE  Switched'
<1>1. /\ agents \in Seq(Agent) /\ Len(agents) \in Nat /\ DOMAIN agents = 1 .. Len(agents)
      /\ DOMAIN agents' = 1 .. Len(agents') /\ Len(agents') \in {Len(agents), Len(agents) + 1}
  BY StepFollows, LenProperties DEF TypeOK
<1>2. ASSUME NEW t \in Tabs, RentCreates(t)
      PROVE  Switched'
  <2>1. /\ \A i \in 1 .. Len(agents) : agents'[i] = agents[i]
        /\ ~agents'[Len(agents) + 1].spent /\ Len(agents') = Len(agents) + 1
    BY <1>2, Created
  <2>2. game' = game
    BY <1>2 DEF RentCreates, playVars
  <2> QED
    BY <1>1, <2>1, <2>2 DEF Switched
<1>3. CASE RecordCommits
  <2>1. game' = None
    BY <1>3 DEF RecordCommits
  <2>2. \A i \in 1 .. Len(agents) : agents'[i].spent => ~agents'[i].autoplay
    BY <1>1, <1>3, Recorded DEF Switched
  <2> QED
    BY <1>1, <1>3, <2>1, <2>2, Recorded DEF Switched, None
<1>4. CASE (\A t \in Tabs : ~RentCreates(t)) /\ ~RecordCommits
  <2>1. Len(agents') = Len(agents) /\ \A i \in 1 .. Len(agents) : Unspent(agents[i], agents'[i])
    BY <1>4, StepKept DEF Kept
  <2>2. CASE game' = game
    BY <1>1, <2>1, <2>2 DEF Switched, Unspent
  <2>3. CASE game' = None
    BY <1>1, <2>1, <2>3 DEF Switched, Unspent, None
  <2>4. CASE RecordStarts /\ game' = [game EXCEPT !.at = "locked", !.time = now]
    <3>1. game.at = "playing" /\ game'.a = game.a /\ game'.at = "locked" /\ (game'.auto => game.auto)
      BY <2>4 DEF TypeOK, RecordStarts
    <3> QED
      BY <1>1, <2>1, <3>1 DEF Switched, Unspent
  <2>5. ASSUME NEW i \in Ids, TickReads(i)
        PROVE  Switched'
    <3>1. i \in DOMAIN agents /\ agents[i].autoplay /\ game'.a = i /\ game'.auto /\ agents' = agents
      BY <2>5 DEF TickReads, DueAgents, InPlay
    <3> QED
      BY <1>1, <3>1 DEF Switched
  <2>6. ASSUME NEW i \in Ids, Plays(i)
        PROVE  Switched'
    <3>1. i \in DOMAIN agents /\ game'.a = i /\ agents' = agents /\ game'.at = "playing"
      BY <2>6 DEF Plays, Playable, InPlay
    <3>2. game'.auto => game.auto /\ game.a = i
      <4>1. game'.auto => game.at = "due"
        BY <2>6 DEF Plays
      <4>2. game.at = "due" => game.a = i
        BY <2>6 DEF Plays, None
      <4> QED
        BY <4>1, <4>2 DEF Switched
    <3> QED
      BY <1>1, <3>1, <3>2 DEF Switched
  <2> QED
    BY <1>4, <2>2, <2>3, <2>4, <2>5, <2>6, RentFrame, OwnerFrame, SeasonFrame
    DEF Next, TimePasses, PlayStep, TickStops, TickWaits, RecordStarts, UnderLock, vars, playVars
<1> QED
  BY <1>2, <1>3, <1>4

\* Once switched off, an agent plays at most the one match the loop's list
\* still has for it (autoplay.ts 200-216).
THEOREM AtMostOneAfterOff == Spec => OneMatchAfterOff
<1> USE TenancyAssumption
<1>1. Init => Switched
  BY DEF Init, Switched, None
<1>2. TypeOK /\ Switched /\ [Next]_vars => Switched'
  BY SwitchedStep
<1>3. TypeOK /\ Switched /\ [Next]_vars =>
        [counted' # counted /\ game.auto /\ ~agents[game.a].autoplay => ~agents[game.a].spent]_vars
  <2> SUFFICES ASSUME TypeOK, Switched, [Next]_vars, counted' # counted, game.auto
               PROVE  ~agents[game.a].spent
    OBVIOUS
  <2>1. RecordCommits
    BY RentFrame, OwnerFrame, SeasonFrame
    DEF Next, TimePasses, PlayStep, TickStops, TickWaits, RecordStarts, TickReads, Plays, vars, playVars
  <2>2. game.a \in DOMAIN agents
    BY <2>1 DEF RecordCommits, Switched
  <2> QED
    BY <2>2 DEF Switched
<1> QED
  BY <1>1, <1>2, <1>3, TypeCorrect, PTL DEF Spec, OneMatchAfterOff
=============================================================================
