-------------------------------- MODULE Live --------------------------------
(***************************************************************************)
(* The live stream (src/http/live.ts): new matches as server-sent events.  *)
(*                                                                         *)
(* A match takes its seq when it is inserted and is seen when its          *)
(* transaction commits.  One loop, running while anybody listens, reads    *)
(* the matches after the last seq it has read and sends them to every open *)
(* stream.  A listener is added to the streams first; then the loop is     *)
(* started, if it is not running, the listener greeted, and what it missed *)
(* sent after it.  It may close at any await, and so may everyone.         *)
(*                                                                         *)
(* Events' contents, heartbeats and CORS are left out, and so is a match's *)
(* age: one recorded while a listener waits to be greeted is still playing *)
(* when it is.                                                             *)
(***************************************************************************)
EXTENDS Integers, Sequences, FiniteSetsExt, Functions

CONSTANTS
  Listeners, Address,       \* who may listen, and from where
  perAddress, maxStreams,
  RECENT, REPLAY,           \* matches kept in memory; matches a read returns at most
  Exhibitions,              \* the seqs of house exhibitions: nobody's chips, no counters
  Resumes,                  \* the Last-Event-IDs a listener may come with
  MaxMatches, MaxOpens

NoSeq == -1                 \* null: no Last-Event-ID, no last seq

ASSUME LiveAssumption ==
  /\ {RECENT, REPLAY, perAddress, maxStreams} \subseteq Nat \ {0}
  /\ Resumes \subseteq Nat \cup {NoSeq} /\ {MaxMatches, MaxOpens} \subseteq Nat
  /\ Exhibitions \subseteq Nat

VARIABLES
  inserted, committed,      \* seqs whose transaction is open; seqs everyone can see
  at, after,                \* where each listener's request is, and what it resumes from
  poll, last, recent,       \* the loop's timer, the last seq read, the latest matches read
  start, read,              \* where starting it, and a pass of it, are
  opens,
  owed                      \* matches a listener heard of while open and was not sent (history)

dbVars == <<inserted, committed>>
tailVars == <<poll, last, recent>>
vars == <<dbVars, at, after, tailVars, start, read, opens, owed>>

Seqs == 1 .. MaxMatches
Streams == {l \in Listeners : at[l] # "closed"}
Idle == [at |-> "idle", fresh |-> {}]
NotStarting == [at |-> "idle", latest |-> 0]

\* The `limit` lowest of a set of seqs; and the last `limit` of a list of them
\* (all of them, if nothing is let go).
Oldest(limit, S) == {s \in S : Cardinality({r \in S : r < s}) < limit}
InOrder(S) ==
  CHOOSE list \in [1 .. Cardinality(S) -> S] : \A i, j \in DOMAIN list : i < j => list[i] < list[j]
Whole(limit, list) == list
Latest(limit, list) == SubSeq(list, Max({1, Len(list) - limit + 1}), Len(list))

\* db/feed.ts: what the database shows now.
matchesAfter(seq, limit) == Oldest(limit, {s \in committed : s > seq})
latestSeq == Max(committed \cup {0})

Init ==
  /\ inserted = {} /\ committed = {}
  /\ at = [l \in Listeners |-> "closed"] /\ after = [l \in Listeners |-> NoSeq]
  /\ poll = FALSE /\ last = NoSeq /\ recent = <<>>
  /\ start = NotStarting /\ read = Idle
  /\ opens = 0 /\ owed = {}
-----------------------------------------------------------------------------
Insert ==
  LET s == Cardinality(inserted \cup committed) + 1 IN
  /\ s \in Seqs
  /\ inserted' = inserted \cup {s}
  /\ UNCHANGED <<committed, at, after, tailVars, start, read, opens, owed>>

\* A later seq has been read, or is the latest that was: no read looks here again.
Overtaken(s) == \E r \in {last, start.latest} \cup read.fresh : r > s

Commit(s) ==
  /\ s \in inserted
  /\ inserted' = inserted \ {s} /\ committed' = committed \cup {s}
  /\ owed' = owed \cup {<<l, s>> : l \in {l \in Streams : s > after[l] /\ ~Overtaken(s)}}
  /\ UNCHANGED <<at, after, tailVars, start, read, opens>>
-----------------------------------------------------------------------------
\* Where a listener is when it has been let in, before anything is read.
AddedFirst == IF poll THEN "greeting" ELSE "starting"

Open(l, from) ==
  /\ at[l] = "closed" /\ opens < MaxOpens
  /\ Cardinality(Streams) < maxStreams
  /\ Cardinality({m \in Streams : Address[m] = Address[l]}) < perAddress
  /\ at' = [at EXCEPT ![l] = AddedFirst] /\ after' = [after EXCEPT ![l] = from]
  /\ start' = IF ~poll /\ start.at = "idle" THEN [NotStarting EXCEPT !.at = "latest"] ELSE start
  /\ opens' = opens + 1
  /\ UNCHANGED <<dbVars, tailVars, read, owed>>

\* Whoever is dropped; and when the last one is, the loop stops.
Forget(gone) == owed' = {o \in owed : o[1] \notin gone}

StopsWith(gone) == Streams \ gone = {}

Drop(gone) ==
  /\ at' = [l \in Listeners |-> IF l \in gone THEN "closed" ELSE at[l]]
  /\ IF StopsWith(gone) THEN poll' = FALSE /\ last' = NoSeq ELSE UNCHANGED <<poll, last>>
  /\ Forget(gone)

Close(l) ==
  /\ l \in Streams
  /\ Drop({l})
  /\ UNCHANGED <<dbVars, after, recent, start, read, opens>>

\* start(): the latest seq, then the matches up to it, then, unless everyone
\* has gone, the timer.
StartReadsLatest ==
  /\ start.at = "latest"
  /\ start' = [at |-> "recent", latest |-> latestSeq]
  /\ UNCHANGED <<dbVars, at, after, tailVars, read, opens, owed>>

\* Is anyone still there to start for?  And not asking.
Anyway == TRUE
Watched == Streams # {}

\* More matches recorded meanwhile than memory keeps, and the oldest are not sent.
StartEnds ==
  LET from == Max({0, start.latest - RECENT}) IN
  /\ start.at = "recent"
  /\ recent' = InOrder(matchesAfter(from, RECENT))
  /\ last' = start.latest
  /\ poll' = (poll \/ Watched)
  /\ at' = [l \in Listeners |-> IF at[l] = "starting" THEN "greeting" ELSE at[l]]
  /\ start' = NotStarting
  /\ owed' = {o \in owed : after[o[1]] = NoSeq => o[2] > from}
  /\ UNCHANGED <<dbVars, after, read, opens>>

\* The database fails: everyone who waited for it is dropped.
StartFails ==
  /\ start.at # "idle"
  /\ Drop({l \in Listeners : at[l] = "starting"})
  /\ start' = NotStarting
  /\ UNCHANGED <<dbVars, after, recent, read, opens>>
-----------------------------------------------------------------------------
\* hello, once the counters are read; then the matches still playing, or those
\* the database has after the last one the listener saw.  Some of these may be
\* older ones, and a later one that the loop has passed is then not sent.
Greet(l) ==
  /\ at[l] = "greeting"
  /\ LET sent == IF after[l] = NoSeq THEN Range(recent) ELSE matchesAfter(after[l], REPLAY)
         cut == {s \in committed : s <= last /\ Cardinality(sent) = REPLAY}
     IN  owed' = owed \ ({l} \X (sent \cup IF after[l] = NoSeq THEN {} ELSE cut))
  /\ at' = [at EXCEPT ![l] = "live"]
  /\ UNCHANGED <<dbVars, after, tailVars, start, read, opens>>

GreetFails(l) ==
  /\ at[l] = "greeting"
  /\ Drop({l})
  /\ UNCHANGED <<dbVars, after, recent, start, read, opens>>
-----------------------------------------------------------------------------
\* A pass of the loop: what was recorded since the last, to everyone.
ReadFetches ==
  /\ poll /\ read = Idle /\ last # NoSeq
  /\ matchesAfter(last, REPLAY) # {}
  /\ read' = [at |-> "fetched", fresh |-> matchesAfter(last, REPLAY)]
  /\ UNCHANGED <<dbVars, at, after, tailVars, start, opens, owed>>

\* What was to be a listener's greeting may go out of memory before it.
Missed(now) ==
  {l \in Listeners : at[l] = "greeting" /\ after[l] = NoSeq} \X (Range(recent) \ Range(now))

\* The last seq a pass has read; and not of what it read, but of what there is.
Newest(fresh) == latestSeq
LastOf(fresh) == Max(fresh)

\* The counters are read first if any of it was staked.
ReadAdvances ==
  /\ read.at = "fetched"
  /\ IF last = NoSeq
       THEN read' = Idle /\ UNCHANGED <<last, recent, owed>>
       ELSE LET counted == ~(read.fresh \subseteq Exhibitions)
                sent == IF counted THEN {} ELSE Streams \X read.fresh
            IN  /\ last' = LastOf(read.fresh)
                /\ recent' = Latest(RECENT, recent \o InOrder(read.fresh))
                /\ read' = IF counted THEN [read EXCEPT !.at = "counting"] ELSE Idle
                /\ owed' = (owed \ sent) \ Missed(recent')
  /\ UNCHANGED <<dbVars, at, after, poll, start, opens>>

ReadSends ==
  /\ read.at = "counting"
  /\ owed' = owed \ (Streams \X read.fresh)
  /\ read' = Idle
  /\ UNCHANGED <<dbVars, at, after, tailVars, start, opens>>

\* The counters cannot be read: the matches are not sent, and `last` is past them.
ReadFails ==
  /\ read.at = "counting"
  /\ owed' = owed \ (Listeners \X read.fresh)
  /\ read' = Idle
  /\ UNCHANGED <<dbVars, at, after, tailVars, start, opens>>
-----------------------------------------------------------------------------
StartStep == StartReadsLatest \/ StartEnds \/ StartFails
ReadStep == ReadFetches \/ ReadAdvances \/ ReadSends \/ ReadFails
GreetStep(l) == Greet(l) \/ GreetFails(l)

Next ==
  \/ Insert
  \/ \E s \in Seqs : Commit(s)
  \/ \E l \in Listeners, from \in Resumes : Open(l, from)
  \/ \E l \in Listeners : Close(l) \/ GreetStep(l)
  \/ StartStep \/ ReadStep

Spec == Init /\ [][Next]_vars

\* The timer ticks and every await ends, one way or the other.  Nothing is
\* assumed of listeners or of the transactions that record matches.
FairSpec ==
  /\ Spec
  /\ WF_vars(StartStep) /\ WF_vars(ReadStep) /\ \A l \in Listeners : WF_vars(GreetStep(l))
-----------------------------------------------------------------------------
\* Type correctness: the one type invariant.
TypeOK ==
  /\ {inserted, committed} \subseteq SUBSET Seqs /\ inserted \cap committed = {}
  /\ recent \in Seq(Seqs) /\ Len(recent) <= RECENT
  /\ at \in [Listeners -> {"closed", "starting", "greeting", "live"}]
  /\ after \in [Listeners -> Resumes \cup {NoSeq}]
  /\ poll \in BOOLEAN /\ last \in Seqs \cup {0, NoSeq}
  /\ start \in [at: {"idle", "latest", "recent"}, latest: Seqs \cup {0}]
  /\ read \in [at: {"idle", "fetched", "counting"}, fresh: SUBSET Seqs]
  /\ opens \in Nat /\ owed \subseteq Listeners \X Seqs

\* The loop runs while somebody has been let in and is waiting or listening,
\* and only then: no open leaves it off, no close leaves it on (live.ts 40-42,
\* 124-152).
TailRunsIfWatched ==
  /\ poll => Streams # {} /\ last # NoSeq
  /\ (\E l \in Streams : at[l] # "starting") => poll
  /\ (\E l \in Streams : at[l] = "starting") => start.at # "idle"

\* No match falls between a listener's catch-up and the tail: recorded while
\* its stream is open, it is ahead of the loop, in the loop's hands, or among
\* what the listener is about to be greeted with (live.ts 100-101).
NothingFallsBetween ==
  \A o \in owed :
    \/ poll /\ o[2] > last
    \/ read.at # "idle" /\ o[2] \in read.fresh
    \/ at[o[1]] = "greeting" /\ (after[o[1]] = NoSeq => o[2] \in Range(recent))
    \/ at[o[1]] = "starting"

\* And it is sent in the end, unless it committed after a later one was read,
\* its counters could not be read, or the replay was full (live.ts 44-49).
EveryMatchIsSent == (owed # {}) ~> (owed = {})
=============================================================================
