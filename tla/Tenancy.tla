------------------------------ MODULE Tenancy ------------------------------
(***************************************************************************)
(* One wallet's agents, from renting to retiring.                          *)
(*                                                                         *)
(* A wallet rents in its browser, maybe in two tabs at once; the server    *)
(* creates the agent and prepares the transaction that pays for it, the    *)
(* owner signs it, declines it or says nothing, and a sweep asks the chain *)
(* what became of it (src/http/server.ts, src/db/rentals.ts).  A rental    *)
(* runs to the end of its season; a timer closes seasons, and an agent     *)
(* nobody renewed lapses a grace period later (src/db/seasons.ts).  In     *)
(* between the owner or the autoplay loop has it play (src/db/autoplay.ts, *)
(* src/db/runner.ts), and the owner may take everything out and so retire  *)
(* it (src/db/withdrawals.ts; Purse has the money).                        *)
(*                                                                         *)
(* Time is counted in ticks, SEASON of them to a season; season s runs     *)
(* from tick s * SEASON.  Names, bands, characters and limits are left     *)
(* out, and so are balances: a balance may be too low for a match whenever *)
(* the loop asks.  Opponents are other people's agents.                    *)
(***************************************************************************)
EXTENDS Integers, Sequences, FiniteSets

CONSTANTS
  Tabs,                     \* the wallet's requests to rent
  SEASON, GRACE,            \* SEASON_MS and GRACE_MS, in ticks
  Bounds                    \* agents, matches a season and ticks: a behaviour has one of these

ASSUME TenancyAssumption ==
  /\ GRACE \in Nat \ {0} /\ SEASON \in Nat /\ GRACE < SEASON
  /\ Bounds \subseteq [agents: Nat, matches: Nat, ticks: Nat]
  /\ 0 \notin Tabs           \* who holds the lock when nobody does

VARIABLES
  bound,                    \* this behaviour's bounds
  now,
  agents,                   \* the wallet's, in the order they were created
  lock, tab,                \* who holds the wallet's advisory lock; where each request is
  declining, sweep,         \* the agent whose vault a decline, or the sweep, found missing; or 0
  game,                     \* the agent the loop has read, or the match being played
  known, closed,            \* seasons with a row; seasons closed
  counted, frozen           \* matches recorded, and matches in the frozen standings, by season

rentVars == <<lock, tab, declining, sweep>>
playVars == <<game, counted>>
seasonVars == <<known, closed, frozen>>
vars == <<bound, now, agents, lock, tab, declining, sweep, game, known, closed,
          counted, frozen>>

Ids == UNION {1 .. b.agents : b \in Bounds}
Seasons == UNION {0 .. (b.ticks \div SEASON) + 1 : b \in Bounds}
SeasonOf(t) == t \div SEASON
EndOf(s) == (s + 1) * SEASON

Agent == [retired: {"no", "unpaid", "lapsed", "withdrawn"},
          ends: Nat,                                              \* rentalEndsAt
          autoplay: BOOLEAN,
          rental: {"prepared", "submitted", "confirmed", "expired"},
          fate: {"live", "landed", "dead"},                       \* of its transaction
          replying: BOOLEAN,                                      \* the submitting request waits
          credits: Nat,                                           \* its opening ledger rows
          out: {"no", "leaving", "left"},                        \* a withdrawal of the lot
          putBack: BOOLEAN, spent: BOOLEAN]                       \* history, see the properties

None == [at |-> "idle", a |-> 0, time |-> 0, auto |-> FALSE]

Init ==
  /\ bound \in Bounds
  /\ now = 0 /\ agents = <<>>
  /\ lock = 0 /\ tab = [t \in Tabs |-> "idle"]
  /\ declining = 0 /\ sweep = 0
  /\ game = None
  /\ known = {0} /\ closed = {}
  /\ counted = [s \in Seasons |-> 0] /\ frozen = [s \in Seasons |-> 0]

TimePasses ==
  /\ now < bound.ticks
  /\ now' = now + 1
  /\ UNCHANGED <<bound, agents, rentVars, playVars, seasonVars>>
-----------------------------------------------------------------------------
InPlay == {i \in DOMAIN agents : agents[i].retired = "no"}
Open(i, t) == agents[i].ends > t

\* The wallet's lock; and going without one.
NoLock(t) == TRUE
LockFree(t) == lock = 0

\* Under the wallet's lock: it has nobody in play.
RentChecks(t) ==
  /\ tab[t] = "idle" /\ LockFree(t)
  /\ InPlay = {} /\ Len(agents) < bound.agents
  /\ lock' = t /\ tab' = [tab EXCEPT ![t] = "checked"]
  /\ UNCHANGED <<bound, now, agents, declining, sweep, playVars, seasonVars>>

\* And still under it: the agent and its rental, committed together once the
\* transaction is built; or neither, when the RPC does not answer.
RentCreates(t) ==
  /\ tab[t] = "checked"
  /\ agents' = Append(agents,
       [retired |-> "no", ends |-> EndOf(SeasonOf(now)), autoplay |-> FALSE,
        rental |-> "prepared", fate |-> "live", replying |-> FALSE, credits |-> 0, out |-> "no",
        putBack |-> FALSE, spent |-> FALSE])
  /\ lock' = 0 /\ tab' = [tab EXCEPT ![t] = "idle"]
  /\ UNCHANGED <<bound, now, declining, sweep, playVars, seasonVars>>

RentFails(t) ==
  /\ tab[t] = "checked"
  /\ lock' = 0 /\ tab' = [tab EXCEPT ![t] = "idle"]
  /\ UNCHANGED <<bound, now, agents, declining, sweep, playVars, seasonVars>>

\* The transaction lands, whoever sent it: the owner has it from the moment it
\* is prepared.  Or its block height passes.
RentalLands(i) ==
  /\ i \in DOMAIN agents /\ agents[i].fate = "live"
  /\ agents' = [agents EXCEPT ![i].fate = "landed"]
  /\ UNCHANGED <<bound, now, rentVars, playVars, seasonVars>>

HeightPasses(i) ==
  /\ i \in DOMAIN agents /\ agents[i].fate = "live"
  /\ agents' = [agents EXCEPT ![i].fate = "dead"]
  /\ UNCHANGED <<bound, now, rentVars, playVars, seasonVars>>

SubmitRental(i) ==
  /\ i \in DOMAIN agents /\ agents[i].rental = "prepared"
  /\ agents' = [agents EXCEPT ![i].rental = "submitted", ![i].replying = TRUE]
  /\ UNCHANGED <<bound, now, rentVars, playVars, seasonVars>>

\* What confirming adds to the ledger: the deposit, unless it is recorded; and
\* the deposit whenever it is asked.
EveryTime(i) == 1
Unrecorded(i) == IF agents[i].rental = "confirmed" \/ agents[i].credits > 0 THEN 0 ELSE 1

\* The submitting request may get its answer late, or never.
\* confirmRental, under the rental's row lock: even one that has expired.  The
\* agent stays as it is.
Confirmed(i) ==
  [agents EXCEPT ![i].rental = "confirmed", ![i].credits = @ + Unrecorded(i)]

\* expireRental, under the same lock: a retirement of the agent with it.
Expired(i) ==
  IF agents[i].rental \in {"confirmed", "expired"} THEN agents
  ELSE [agents EXCEPT ![i].rental = "expired",
                      ![i].retired = IF @ = "no" THEN "unpaid" ELSE @]

RequestConfirms(i) ==
  /\ i \in DOMAIN agents /\ agents[i].replying /\ agents[i].fate = "landed"
  /\ agents' = [Confirmed(i) EXCEPT ![i].replying = FALSE]
  /\ UNCHANGED <<bound, now, rentVars, playVars, seasonVars>>

\* rejectRental: the owner said no in the page.  The chain is asked; nothing
\* is looked at again before the rental expires.  A read that fails looks like
\* a vault that is not there.
Decline(i, answered) ==
  /\ i \in DOMAIN agents /\ agents[i].rental = "prepared" /\ declining = 0
  /\ IF answered /\ agents[i].fate = "landed"
       THEN agents' = Confirmed(i) /\ UNCHANGED declining
       ELSE declining' = i /\ UNCHANGED agents
  /\ UNCHANGED <<bound, now, lock, tab, sweep, playVars, seasonVars>>

DeclineExpires ==
  /\ declining # 0
  /\ agents' = Expired(declining)
  /\ declining' = 0
  /\ UNCHANGED <<bound, now, lock, tab, sweep, playVars, seasonVars>>

\* sweepRentals: what it picks up (a prepared one only after a quarter of an
\* hour, by when its transaction is no longer live).
Waiting(i) == \/ agents[i].rental = "submitted"
              \/ agents[i].rental = "prepared" /\ agents[i].fate # "live"

SweepLooks(i, answered) ==
  /\ i \in DOMAIN agents /\ Waiting(i) /\ sweep = 0
  /\ IF answered /\ agents[i].fate = "landed"
       THEN agents' = Confirmed(i) /\ UNCHANGED sweep
       ELSE sweep' = i /\ UNCHANGED agents
  /\ UNCHANGED <<bound, now, lock, tab, declining, playVars, seasonVars>>

\* Not there at that look.  Can it still come?
SweepEnds ==
  /\ sweep # 0
  /\ agents' = IF agents[sweep].fate = "live" THEN agents ELSE Expired(sweep)
  /\ sweep' = 0
  /\ UNCHANGED <<bound, now, lock, tab, declining, playVars, seasonVars>>
-----------------------------------------------------------------------------
\* rentalStatus's canRenew, asked at time t.
CanRenew(i, t) ==
  /\ agents[i].retired = "no"
  /\ agents[i].ends <= EndOf(SeasonOf(t))
  /\ Open(i, t) \/ t < agents[i].ends + GRACE

\* An active rental into the next season, an expired one into this one.
RenewedTo(i, t) == EndOf(IF Open(i, t) THEN SeasonOf(t) + 1 ELSE SeasonOf(t))

\* The clock is read when the request arrives, the row under its lock, which a
\* closing or a match may hold meanwhile.
RenewAgent(i, asked) ==
  /\ i \in DOMAIN agents /\ asked \in {now - 1, now} \cap Nat
  /\ CanRenew(i, asked)
  /\ agents' = [agents EXCEPT ![i].ends = RenewedTo(i, asked)]
  /\ UNCHANGED <<bound, now, rentVars, playVars, seasonVars>>

\* Seasons that have a row, are open and are over; and those the calendar has.
EndedByCalendar == {s \in Seasons \ closed : EndOf(s) <= now}
Ended == {s \in known \ closed : EndOf(s) <= now}

\* What a closing leaves known: the next season; and nothing more.
KnownStill(s) == known
KnownAfter(s) == known \cup {s + 1}

\* closeSeason: every agent in play is locked first, so a match being recorded
\* is either in or still to ask.
CloseSeason(s) ==
  /\ s \in Ended /\ game.at # "locked"
  /\ closed' = closed \cup {s} /\ known' = KnownAfter(s)
  /\ frozen' = [frozen EXCEPT ![s] = counted[s]]
  /\ agents' = [i \in DOMAIN agents |->
                  IF i \in InPlay /\ agents[i].autoplay
                    THEN [agents[i] EXCEPT !.autoplay = FALSE]
                    ELSE agents[i]]
  /\ UNCHANGED <<bound, now, rentVars, playVars>>

\* Then the season now running has its row, and whoever's grace is over lapses.
EnsureSeason ==
  /\ Ended = {} /\ known' = known \cup {SeasonOf(now)}
  /\ UNCHANGED <<bound, now, agents, rentVars, playVars, closed, frozen>>

GraceOver(i) == i \in InPlay /\ agents[i].ends + GRACE <= now

LapseExpired ==
  /\ Ended = {} /\ \E i \in DOMAIN agents : GraceOver(i)
  /\ game.at = "locked" => ~GraceOver(game.a)
  /\ agents' = [i \in DOMAIN agents |->
                  IF GraceOver(i) THEN [agents[i] EXCEPT !.retired = "lapsed", !.autoplay = FALSE]
                  ELSE agents[i]]
  /\ UNCHANGED <<bound, now, rentVars, playVars, seasonVars>>
-----------------------------------------------------------------------------
\* The owner switches autoplay on or off.  Before the rental is paid for there
\* is nothing to play with, and the loop's first look would switch it off.
SetAutoplay(i, on) ==
  /\ i \in InPlay /\ agents[i].rental = "confirmed"
  /\ agents' = [agents EXCEPT ![i].autoplay = on,
                              ![i].spent = IF on THEN FALSE ELSE @]
  /\ UNCHANGED <<bound, now, rentVars, playVars, seasonVars>>

\* dueAgents, whose rows are read once a tick, long before their turn; and
\* without asking who wants it.
AllInPlay == {i \in InPlay : Open(i, now)}
DueAgents == {i \in InPlay : Open(i, now) /\ agents[i].autoplay}

TickReads(i) ==
  /\ game = None /\ i \in DueAgents
  /\ game' = [at |-> "due", a |-> i, time |-> now, auto |-> TRUE]
  /\ UNCHANGED <<bound, now, agents, rentVars, counted, seasonVars>>

\* checkAgent and stopAgent: a withdrawal on its way holds it, a balance too
\* low for a match or its floor switches autoplay off.
TickStops ==
  /\ game.at = "due"
  /\ agents' = [agents EXCEPT ![game.a].autoplay = @ /\ agents[game.a].out = "leaving"]
  /\ game' = None
  /\ UNCHANGED <<bound, now, rentVars, counted, seasonVars>>

\* The match is played, for the loop or by hand: runMatch's first checks.
Playable(i) == i \in InPlay /\ Open(i, now) /\ agents[i].rental = "confirmed"

Plays(i) ==
  /\ \/ game = None
     \/ game.at = "due" /\ game.a = i /\ agents[i].out # "leaving"
  /\ Playable(i) /\ counted[SeasonOf(now)] < bound.matches
  /\ game' = [at |-> "playing", a |-> i, time |-> now, auto |-> game.at = "due"]
  /\ UNCHANGED <<bound, now, agents, rentVars, counted, seasonVars>>

\* It cannot be played: the loop has it wait.
TickWaits ==
  /\ game.at = "due"
  /\ game' = None
  /\ UNCHANGED <<bound, now, agents, rentVars, counted, seasonVars>>

\* When a match counts: under the agents' locks; and when it was played.
AsPlayed(t) == game.time
UnderLock(t) == t

\* Both agents locked, all of it asked again at the time that counts.
RecordStarts ==
  /\ game.at = "playing"
  /\ game' = IF game.a \in InPlay /\ Open(game.a, now) /\ agents[game.a].out # "leaving"
               THEN [game EXCEPT !.at = "locked", !.time = UnderLock(now)]
               ELSE None
  /\ UNCHANGED <<bound, now, agents, rentVars, counted, seasonVars>>

RecordCommits ==
  /\ game.at = "locked"
  /\ counted' = [counted EXCEPT ![SeasonOf(game.time)] = @ + 1]
  /\ agents' = [agents EXCEPT ![game.a].spent = @ \/ (game.auto /\ ~agents[game.a].autoplay)]
  /\ game' = None
  /\ UNCHANGED <<bound, now, rentVars, seasonVars>>
-----------------------------------------------------------------------------
\* A withdrawal of the lot: submitted, it retires the agent, unless it lapsed.
\* A match being recorded has the agent's lock.
WithdrawAll(i) ==
  /\ i \in DOMAIN agents /\ agents[i].credits > 0 /\ agents[i].out = "no"
  /\ agents[i].retired \in {"no", "lapsed"}
  /\ ~(game.at = "locked" /\ game.a = i)
  /\ agents' = [agents EXCEPT ![i].out = "leaving",
                              ![i].retired = IF @ = "no" THEN "withdrawn" ELSE @]
  /\ UNCHANGED <<bound, now, rentVars, playVars, seasonVars>>

\* It lands, and there is nothing left to withdraw; or it never can, and the
\* retirement it caused is undone.
Withdrawn(i) ==
  /\ i \in DOMAIN agents /\ agents[i].out = "leaving"
  /\ agents' = [agents EXCEPT ![i].out = "left"]
  /\ UNCHANGED <<bound, now, rentVars, playVars, seasonVars>>

PutBack(i) ==
  /\ i \in DOMAIN agents /\ agents[i].out = "leaving"
  /\ agents' = [agents EXCEPT ![i].out = "no", ![i].putBack = TRUE,
                              ![i].retired = IF @ = "withdrawn" THEN "no" ELSE @]
  /\ UNCHANGED <<bound, now, rentVars, playVars, seasonVars>>
-----------------------------------------------------------------------------
RentStep ==
  \/ \E t \in Tabs : RentChecks(t) \/ RentCreates(t) \/ RentFails(t)
  \/ \E i \in Ids :
       RentalLands(i) \/ HeightPasses(i) \/ SubmitRental(i) \/ RequestConfirms(i)
  \/ \E i \in Ids, answered \in BOOLEAN : Decline(i, answered)
  \/ DeclineExpires

SweepStep ==
  \/ \E i \in Ids, answered \in BOOLEAN : SweepLooks(i, answered)
  \/ SweepEnds

SeasonStep == EnsureSeason \/ LapseExpired \/ (\E s \in Seasons : CloseSeason(s))

PlayStep ==
  \/ TickStops \/ TickWaits \/ RecordStarts \/ RecordCommits
  \/ \E i \in Ids : TickReads(i) \/ Plays(i)

OwnerStep ==
  \/ \E i \in Ids : WithdrawAll(i) \/ Withdrawn(i) \/ PutBack(i)
  \/ \E i \in Ids, asked \in {now - 1, now} : RenewAgent(i, asked)
  \/ \E i \in Ids, on \in BOOLEAN : SetAutoplay(i, on)

Next == TimePasses \/ RentStep \/ SweepStep \/ SeasonStep \/ PlayStep \/ OwnerStep

Spec == Init /\ [][Next]_vars

\* The sweep and the season's tick run on timers, a transaction of the database
\* ends, and block heights pass.  Nothing is assumed of the owner, of the loop
\* or of the clock.
FairSpec ==
  /\ Spec
  /\ WF_vars(SweepStep) /\ WF_vars(SeasonStep) /\ WF_vars(RecordStarts \/ RecordCommits)
  /\ \A i \in Ids : WF_vars(HeightPasses(i))
-----------------------------------------------------------------------------
\* Type correctness: the one type invariant.
TypeOK ==
  /\ bound \in Bounds /\ now \in 0 .. bound.ticks
  /\ agents \in Seq(Agent)
  /\ lock \in Tabs \cup {0} /\ tab \in [Tabs -> {"idle", "checked"}]
  /\ {declining, sweep} \subseteq Ids \cup {0}
  /\ game \in [at: {"idle", "due", "playing", "locked"}, a: Ids \cup {0},
               time: Nat, auto: BOOLEAN]
  /\ known \subseteq Seasons /\ closed \subseteq known
  /\ counted \in [Seasons -> Nat] /\ frozen \in [Seasons -> Nat]

\* A wallet has one agent in play, from whichever of its tabs it rents
\* (server.ts 455-488), unless a withdrawal that had retired one was put back.
OneInPlayUnlessPutBack ==
  Cardinality(InPlay) <= 1 \/ \E i \in DOMAIN agents : agents[i].putBack

\* A rental's deposit is credited once, and only when its transaction landed,
\* whichever of the submitting request, the sweep and a decline in the page
\* finds it, and however late (rentals.ts 159-192).
OpeningCreditedOnce ==
  \A i \in DOMAIN agents :
    /\ agents[i].credits <= 1
    /\ agents[i].credits = 1 => agents[i].fate = "landed"

\* Nothing is counted for a season once its standings are frozen: a match in
\* hand at the boundary is in them, or in the next season's, or refused
\* (seasons.ts 61-69).
FrozenStandingsAreFinal == \A s \in closed : frozen[s] = counted[s]

\* After autoplay was switched off, by anyone, the loop plays at most the one
\* match its list still has, until the owner switches it on (autoplay.ts 200-216).
OneMatchAfterOff ==
  [][counted' # counted /\ game.auto /\ ~agents[game.a].autoplay => ~agents[game.a].spent]_vars

\* Every rental is confirmed or expires, the owner never answering included
\* (rentals.ts 251-286).
Unresolved == {i \in DOMAIN agents : agents[i].rental \in {"prepared", "submitted"}}
RentalsResolve == (Unresolved # {}) ~> (Unresolved = {})

\* Every season is closed in the end, even one in which the server was never
\* up to write its row (seasons.ts 125-127, 165-175).
StillOpen == {s \in Seasons \ closed : EndOf(s) <= now}
EverySeasonCloses == (StillOpen # {}) ~> (StillOpen = {})

\* An agent not renewed within the grace lapses, and holds no wallet's place
\* (seasons.ts 138-155).
Overdue == {i \in DOMAIN agents : agents[i].retired = "no" /\ agents[i].ends + GRACE <= now}
UnrenewedLapse == (Overdue # {}) ~> (Overdue = {})

\* What only the timers can put right they do: rentals nobody answered for,
\* seasons that are over, agents nobody renewed.
TimersCatchUp == RentalsResolve /\ EverySeasonCloses /\ UnrenewedLapse
=============================================================================
