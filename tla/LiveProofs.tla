----------------------------- MODULE LiveProofs -----------------------------
(***************************************************************************)
(* No match falls between a listener's catch-up and the loop, however many *)
(* listeners come and go and in whatever order matches commit.             *)
(*                                                                         *)
(* The property is not inductive. What keeps it is that there is one loop: *)
(* starting it and a timer are never both there, and a start that ends has *)
(* read as far as any pass still under way.  A match a listener waits for  *)
(* and a pass has gone by is then among what the pass read, or the loop    *)
(* has stopped and everybody who is there is about to be started for.      *)
(***************************************************************************)
EXTENDS Live, SequenceTheorems, Sums

\* Seqs are given in turn.
Numbered == \E n \in 0 .. MaxMatches : inserted \cup committed = 1 .. n

\* What was read was there, and what was fetched was something.
ReadIsSeen ==
  /\ last \in committed \cup {0, NoSeq} /\ start.latest \in committed \cup {0}
  /\ read.fresh \subseteq committed
  /\ read.at = "fetched" => read.fresh # {}

OneLoop ==
  /\ poll => start.at = "idle"
  /\ start.at = "recent" /\ read.at = "fetched" => \A r \in read.fresh : r <= start.latest

OwedIsOpen ==
  \A o \in owed : o[1] \in Streams /\ o[2] \in committed /\ o[2] > after[o[1]]

\* A pass has fetched every match still owed up to the last that it fetched.
NoGap ==
  poll /\ read.at = "fetched" =>
    \A o \in owed, r \in read.fresh : last < o[2] /\ o[2] < r => o[2] \in read.fresh

LiveInv == TypeOK /\ Numbered /\ ReadIsSeen /\ OneLoop /\ TailRunsIfWatched
TailInv == LiveInv /\ OwedIsOpen /\ NoGap /\ NothingFallsBetween
-----------------------------------------------------------------------------
(* Sets of seqs: the greatest, the lowest few, and all of them in order.   *)

LEMMA LiveArguments ==
  /\ RECENT \in Nat \ {0} /\ REPLAY \in Nat \ {0} /\ MaxMatches \in Nat /\ NoSeq \in Int
  /\ Resumes \cup {NoSeq} \subseteq Int
  /\ Seqs \subseteq Nat \ {0} /\ Seqs \subseteq Int /\ NoSeq \notin Nat
BY LiveAssumption DEF Seqs, NoSeq

LEMMA SeqsFinite ==
  ASSUME NEW S \in SUBSET Seqs
  PROVE  IsFiniteSet(S) /\ Cardinality(S) \in Nat
<1>1. IsFiniteSet(Seqs)
  <2>1. IsFiniteSet(1 .. MaxMatches)
    BY LiveArguments, FS_Interval
  <2> QED
    BY <2>1 DEF Seqs
<1>2. IsFiniteSet(S)
  BY <1>1, FS_Subset
<1> QED
  BY <1>2, FS_CardinalityType

LEMMA Greatest ==
  ASSUME NEW S \in SUBSET (Seqs \cup {0}), S # {}
  PROVE  Max(S) \in S /\ \A y \in S : y <= Max(S)
<1> DEFINE T == {MaxMatches - s : s \in S}
<1>1. \A s \in S : s \in Nat /\ s <= MaxMatches
  BY LiveArguments DEF Seqs
<1>2. T \subseteq Nat /\ T # {}
  <2>1. MaxMatches \in Nat
    BY LiveArguments
  <2>2. \A s \in S : MaxMatches - s \in Nat
    BY <1>1, <2>1
  <2> QED
    BY <2>2
<1>3. PICK t \in T : \A u \in T : t <= u
  BY <1>2, LeastNatural
<1>4. PICK x \in S : t = MaxMatches - x
  BY <1>3
<1>5. \A y \in S : x >= y
  <2> SUFFICES ASSUME NEW y \in S PROVE x >= y
    OBVIOUS
  <2>1. MaxMatches - y \in T
    OBVIOUS
  <2>2. MaxMatches - x <= MaxMatches - y
    BY <1>3, <1>4, <2>1
  <2> QED
    BY <1>1, <2>2, LiveArguments
<1>6. Max(S) \in S /\ \A y \in S : Max(S) >= y
  BY <1>5 DEF Max
<1> QED
  BY <1>1, <1>6

LEMMA MaxOfTwo ==
  ASSUME NEW a \in Int, NEW b \in Int
  PROVE  Max({a, b}) \in {a, b} /\ Max({a, b}) >= a /\ Max({a, b}) >= b
<1>1. \E x \in {a, b} : \A y \in {a, b} : x >= y
  BY a >= b \/ b >= a
<1>2. Max({a, b}) \in {a, b} /\ \A y \in {a, b} : Max({a, b}) >= y
  BY <1>1, Zenon DEF Max
<1> QED
  BY <1>2

LEMMA OldestWithin ==
  ASSUME NEW limit, NEW S
  PROVE  Oldest(limit, S) \subseteq S
BY DEF Oldest

\* Fewer are below one that is lower.
LEMMA FewerBelow ==
  ASSUME NEW S \in SUBSET Seqs, NEW x \in S, NEW r \in S, x <= r
  PROVE  Cardinality({y \in S : y < x}) <= Cardinality({y \in S : y < r})
<1>1. {y \in S : y < x} \subseteq {y \in S : y < r}
  <2>1. S \subseteq Nat
    BY LiveArguments
  <2>2. \A y \in S : y < x => y < r
    BY <2>1
  <2> QED
    BY <2>2
<1>2. IsFiniteSet({y \in S : y < r})
  BY SeqsFinite
<1> QED
  BY <1>1, <1>2, FS_Subset

LEMMA OldestDown ==
  ASSUME NEW limit \in Nat, NEW S \in SUBSET Seqs, NEW r \in Oldest(limit, S), NEW x \in S, x <= r
  PROVE  x \in Oldest(limit, S)
<1>1. /\ r \in S /\ Cardinality({y \in S : y < r}) < limit
  BY DEF Oldest
<1>2. Cardinality({y \in S : y < x}) <= Cardinality({y \in S : y < r})
  BY <1>1, FewerBelow
<1>3. Cardinality({y \in S : y < x}) \in Nat /\ Cardinality({y \in S : y < r}) \in Nat
  BY SeqsFinite
<1>4. Cardinality({y \in S : y < x}) < limit
  BY <1>1, <1>2, <1>3
<1> QED
  BY <1>4 DEF Oldest

\* A read returns no more than its limit, and its limit if it leaves any out.
LEMMA OldestFew ==
  ASSUME NEW limit \in Nat \ {0}, NEW S \in SUBSET Seqs
  PROVE  /\ Cardinality(Oldest(limit, S)) \in Nat
         /\ Cardinality(Oldest(limit, S)) <= limit
<1> DEFINE T == Oldest(limit, S)
<1>1. T \in SUBSET Seqs /\ T \subseteq S
  BY OldestWithin
<1>2. IsFiniteSet(T) /\ Cardinality(T) \in Nat
  BY <1>1, SeqsFinite
<1>3. CASE T = {}
  <2>1. Cardinality(T) = 0
    BY <1>3, FS_EmptySet
  <2> QED
    BY <2>1
<1>4. CASE T # {}
  <2>1. Max(T) \in T /\ \A y \in T : y <= Max(T)
    BY <1>1, <1>4, Greatest
  <2> DEFINE m == Max(T)
             below == {y \in S : y < m}
  <2>2. Cardinality(below) < limit /\ m \in S
    BY <2>1 DEF Oldest
  <2>3. IsFiniteSet(below) /\ Cardinality(below) \in Nat
    BY SeqsFinite
  <2> HIDE DEF T, m
  <2>4. T \subseteq below \cup {m}
    <3>1. S \subseteq Nat
      BY LiveArguments
    <3>2. \A y \in T : y \in S /\ y <= m
      BY <1>1, <2>1 DEF m
    <3>3. \A y \in S : y <= m => y < m \/ y = m
      BY <2>2, <3>1
    <3> QED
      BY <3>2, <3>3
  <2>5. m \notin below
    BY <2>2, LiveArguments
  <2>6. IsFiniteSet(below \cup {m}) /\ Cardinality(below \cup {m}) = Cardinality(below) + 1
    BY <2>3, <2>5, FS_AddElement
  <2>7. Cardinality(T) <= Cardinality(below \cup {m})
    BY <2>4, <2>6, FS_Subset
  <2> QED
    BY <1>2, <2>2, <2>3, <2>6, <2>7 DEF T
<1> QED
  BY <1>2, <1>3, <1>4

LEMMA OldestFull ==
  ASSUME NEW limit \in Nat \ {0}, NEW S \in SUBSET Seqs, NEW x \in S, x \notin Oldest(limit, S)
  PROVE  Cardinality(Oldest(limit, S)) = limit
<1> DEFINE T == Oldest(limit, S)
           out == S \ T
<1>1. out \subseteq Nat /\ out # {}
  BY LiveArguments
<1>2. PICK y \in out : \A z \in out : y <= z
  BY <1>1, LeastNatural
<1> DEFINE below == {z \in S : z < y}
<1>3. below \subseteq T
  BY <1>1, <1>2, LiveArguments
<1>4. Cardinality(below) >= limit
  <2>1. ~(Cardinality(below) < limit)
    BY <1>2 DEF Oldest
  <2>2. Cardinality(below) \in Nat
    BY SeqsFinite
  <2> QED
    BY <2>1, <2>2
<1>5. T \in SUBSET Seqs
  BY OldestWithin
<1>6. Cardinality(below) \in Nat /\ IsFiniteSet(T)
  BY <1>5, SeqsFinite
<1>7. Cardinality(below) <= Cardinality(T)
  BY <1>3, <1>6, FS_Subset
<1>8. Cardinality(T) \in Nat /\ Cardinality(T) <= limit
  BY OldestFew
<1> QED
  BY <1>4, <1>6, <1>7, <1>8

\* A set of n seqs can be listed in ascending order.
Ascending(list) == \A i, j \in DOMAIN list : i < j => list[i] < list[j]

LEMMA CanBeListed ==
  ASSUME NEW S \in SUBSET Seqs
  PROVE  \E list \in [1 .. Cardinality(S) -> S] : Ascending(list)
<1> DEFINE Listed(V) == \E list \in [1 .. Cardinality(V) -> V] : Ascending(list)
           Bad == {n \in Nat : \E V \in SUBSET Seqs : Cardinality(V) = n /\ ~Listed(V)}
<1> HIDE DEF Listed
<1>0. SUFFICES ASSUME Bad # {} PROVE FALSE
  <2>1. Cardinality(S) \in Nat
    BY SeqsFinite
  <2>2. ~Listed(S) => Cardinality(S) \in Bad
    BY <2>1
  <2>3. Listed(S)
    BY <1>0, <2>2
  <2> QED
    BY <2>3 DEF Listed
<1>1. PICK n \in Bad : \A k \in Bad : n <= k
  BY <1>0, LeastNatural
<1>2. PICK V \in SUBSET Seqs : Cardinality(V) = n /\ ~Listed(V)
  BY <1>1
<1>3. CASE V = {}
  <2>1. Cardinality(V) = 0
    BY <1>3, FS_EmptySet
  <2> DEFINE none == [i \in 1 .. 0 |-> 0]
  <2>2. none \in [1 .. Cardinality(V) -> V] /\ Ascending(none)
    BY <1>3, <2>1 DEF Ascending
  <2>3. Listed(V)
    BY <2>2 DEF Listed
  <2> QED
    BY <1>2, <2>3
<1>4. CASE V # {}
  <2> DEFINE m == Max(V)
             W == V \ {m}
  <2>1. m \in V /\ \A y \in V : y <= m
    BY <1>4, Greatest
  <2>2. IsFiniteSet(V)
    BY SeqsFinite
  <2>3. Cardinality(W) = n - 1 /\ Cardinality(W) \in Nat /\ n \in Nat
    BY <1>2, <2>1, <2>2, OneLess
  <2>4. Cardinality(W) \notin Bad
    BY <1>1, <2>3
  <2>5. Listed(W)
    BY <2>3, <2>4
  <2> HIDE DEF m, W
  <2>6. PICK list \in [1 .. Cardinality(W) -> W] : Ascending(list)
    BY <2>5 DEF Listed
  <2> DEFINE more == [i \in 1 .. n |-> IF i = n THEN m ELSE list[i]]
  <2>7. \A i \in 1 .. n : i # n => i \in 1 .. Cardinality(W)
    BY <2>3
  <2>8. W \subseteq V /\ \A y \in W : y < m
    BY <2>1, LiveArguments DEF W
  <2>9. more \in [1 .. Cardinality(V) -> V]
    BY <1>2, <2>1, <2>6, <2>7, <2>8
  <2>10. ASSUME NEW i \in 1 .. n, NEW j \in 1 .. n, i < j
         PROVE  more[i] < more[j]
    <3>1. i # n /\ i \in 1 .. Cardinality(W)
      BY <2>3, <2>7, <2>10
    <3>2. CASE j = n
      BY <2>6, <2>8, <3>1, <3>2
    <3>3. CASE j # n
      <4>1. j \in 1 .. Cardinality(W)
        BY <2>7, <3>3
      <4> QED
        BY <2>6, <2>10, <3>1, <3>3, <4>1 DEF Ascending
    <3> QED
      BY <3>2, <3>3
  <2>11. Ascending(more)
    BY <2>10 DEF Ascending
  <2>12. Listed(V)
    BY <2>9, <2>11 DEF Listed
  <2> QED
    BY <1>2, <2>12
<1> QED
  BY <1>3, <1>4

LEMMA Sorted ==
  ASSUME NEW S \in SUBSET Seqs
  PROVE  /\ InOrder(S) \in Seq(Seqs) /\ Len(InOrder(S)) = Cardinality(S)
         /\ Range(InOrder(S)) = S
<1> DEFINE n == Cardinality(S)
           list == InOrder(S)
<1>1. n \in Nat /\ IsFiniteSet(S)
  BY SeqsFinite
<1>2. list \in [1 .. n -> S] /\ Ascending(list)
  BY CanBeListed DEF InOrder, Ascending
<1> HIDE DEF list, n
<1>3. list \in Seq(Seqs) /\ Len(list) = n
  BY <1>1, <1>2
<1>4. IsFiniteSet(1 .. n) /\ Cardinality(1 .. n) = n
  <2>1. IsFiniteSet(1 .. n) /\ Cardinality(1 .. n) = IF 1 > n THEN 0 ELSE n - 1 + 1
    BY <1>1, FS_Interval
  <2> QED
    BY <1>1, <2>1
<1>5. list \in Injection(1 .. n, S)
  <2>1. ASSUME NEW i \in 1 .. n, NEW j \in 1 .. n, i < j
        PROVE  list[i] # list[j]
    <3>1. list[i] < list[j] /\ list[i] \in Int /\ list[j] \in Int
      BY <1>2, <2>1, LiveArguments DEF Ascending
    <3> QED
      BY <3>1
  <2>2. \A i, j \in 1 .. n : list[i] = list[j] => i = j
    BY <1>1, <2>1
  <2> QED
    BY <1>2, <2>2 DEF Injection, IsInjective
<1>6. list \in Surjection(1 .. n, S)
  BY <1>1, <1>4, <1>5, FS_Injection DEF n
<1>7. Range(list) = S
  BY <1>2, <1>6 DEF Surjection, Range
<1> QED
  BY <1>3, <1>7 DEF list, n

\* Of a list of seqs, the last of them.
LEMMA LatestType ==
  ASSUME NEW limit \in Nat \ {0}, NEW list \in Seq(Seqs)
  PROVE  Latest(limit, list) \in Seq(Seqs) /\ Len(Latest(limit, list)) <= limit
<1> DEFINE k == Len(list) - limit + 1
           m == Max({1, k})
<1>1. Len(list) \in Nat /\ \A i \in 1 .. Len(list) : list[i] \in Seqs
  OBVIOUS
<1>2. m \in Int /\ m >= 1 /\ m >= Len(list) - limit + 1
  <2>1. k \in Int
    BY <1>1
  <2> HIDE DEF k
  <2>2. 1 \in Int
    OBVIOUS
  <2>3. m \in {1, k} /\ m >= 1 /\ m >= k
    BY <2>1, <2>2, MaxOfTwo, Zenon
  <2> QED
    BY <2>1, <2>3 DEF k
<1> HIDE DEF m, k
<1>3. \A i \in m .. Len(list) : list[i] \in Seqs
  BY <1>1, <1>2
<1>4. /\ SubSeq(list, m, Len(list)) \in Seq(Seqs)
      /\ Len(SubSeq(list, m, Len(list))) = IF m <= Len(list) THEN Len(list) - m + 1 ELSE 0
  BY <1>1, <1>2, <1>3, SubSeqProperties
<1>5. Len(SubSeq(list, m, Len(list))) <= limit
  BY <1>1, <1>2, <1>4
<1> QED
  BY <1>4, <1>5 DEF Latest, m, k

\* What the database shows now.
LEMMA MatchesRead ==
  ASSUME TypeOK, NEW seq \in Int, NEW limit \in Nat \ {0}
  PROVE  /\ matchesAfter(seq, limit) \subseteq committed
         /\ matchesAfter(seq, limit) \in SUBSET Seqs
         /\ \A s \in matchesAfter(seq, limit) : s > seq
BY OldestWithin DEF matchesAfter, TypeOK

LEMMA LatestRead ==
  ASSUME TypeOK
  PROVE  /\ latestSeq \in committed \cup {0} /\ latestSeq \in Seqs \cup {0}
         /\ \A s \in committed : s <= latestSeq
<1>1. committed \cup {0} \in SUBSET (Seqs \cup {0}) /\ committed \cup {0} # {}
  BY DEF TypeOK
<1> QED
  BY <1>1, Greatest DEF latestSeq
-----------------------------------------------------------------------------
(* Type correctness, and the loop running while anybody is let in.         *)

LEMMA LiveInit == Init => TailInv
<1> SUFFICES ASSUME Init PROVE TailInv
  OBVIOUS
<1>1. TypeOK
  <2>1. recent \in Seq(Seqs) /\ Len(recent) <= RECENT
    BY LiveArguments DEF Init
  <2>2. /\ start \in [at: {"idle", "latest", "recent"}, latest: Seqs \cup {0}]
        /\ read \in [at: {"idle", "fetched", "counting"}, fresh: SUBSET Seqs]
    BY DEF Init, Idle, NotStarting
  <2> QED
    BY <2>1, <2>2 DEF Init, TypeOK
<1>2. Numbered
  <2>1. inserted \cup committed = 1 .. 0 /\ 0 \in 0 .. MaxMatches
    BY LiveArguments DEF Init
  <2> QED
    BY <2>1 DEF Numbered
<1>3. ReadIsSeen /\ OneLoop /\ TailRunsIfWatched
  BY DEF Init, ReadIsSeen, OneLoop, TailRunsIfWatched, Idle, NotStarting, Streams
<1> QED
  BY <1>1, <1>2, <1>3 DEF LiveInv, TailInv, Init, OwedIsOpen, NoGap, NothingFallsBetween

\* Dropping listeners, as three actions do.
LEMMA DropRuns ==
  ASSUME TypeOK, TailRunsIfWatched, NEW gone, Drop(gone)
  PROVE  /\ at' \in [Listeners -> {"closed", "starting", "greeting", "live"}]
         /\ Streams' = Streams \ gone /\ \A l \in Streams' : at'[l] = at[l]
         /\ poll' \in BOOLEAN /\ last' \in {last, NoSeq} /\ (poll' => poll /\ last' = last)
         /\ owed' \subseteq owed /\ \A o \in owed' : o[1] \notin gone
         /\ poll' => Streams' # {} /\ last' # NoSeq
         /\ (\E l \in Streams' : at'[l] # "starting") => poll'
<1>1. /\ at' = [l \in Listeners |-> IF l \in gone THEN "closed" ELSE at[l]]
      /\ owed' = {o \in owed : o[1] \notin gone}
  BY DEF Drop, Forget
<1>2. /\ at' \in [Listeners -> {"closed", "starting", "greeting", "live"}]
      /\ Streams' = Streams \ gone /\ \A l \in Streams' : at'[l] = at[l]
  BY <1>1 DEF TypeOK, Streams
<1>3. CASE Streams \ gone = {}
  BY <1>1, <1>2, <1>3 DEF Drop, StopsWith, TypeOK
<1>4. CASE Streams \ gone # {}
  <2>1. UNCHANGED <<poll, last>>
    BY <1>4 DEF Drop, StopsWith
  <2> QED
    BY <1>1, <1>2, <1>4, <2>1 DEF TypeOK, TailRunsIfWatched
<1> QED
  BY <1>3, <1>4

LEMMA LiveInsert ==
  ASSUME LiveInv, Insert
  PROVE  LiveInv'
<1> DEFINE s == Cardinality(inserted \cup committed) + 1
<1>1. /\ s \in Seqs /\ inserted' = inserted \cup {s}
      /\ UNCHANGED <<committed, at, after, poll, last, recent, start, read, opens, owed>>
  BY DEF Insert, tailVars
<1>2. PICK n \in 0 .. MaxMatches : inserted \cup committed = 1 .. n
  BY DEF LiveInv, Numbered
<1>3. s = n + 1 /\ n \in Nat
  <2>1. n \in Nat
    BY LiveArguments
  <2>2. Cardinality(1 .. n) = IF 1 > n THEN 0 ELSE n - 1 + 1
    BY <2>1, FS_Interval
  <2>3. Cardinality(1 .. n) = n
    BY <2>1, <2>2
  <2> QED
    BY <1>2, <2>1, <2>3
<1> HIDE DEF s
<1>4. s \notin committed /\ s \notin inserted
  <2>1. s \notin 1 .. n
    BY <1>3
  <2> QED
    BY <1>2, <2>1
<1>5. TypeOK'
  BY <1>1, <1>4 DEF LiveInv, TypeOK
<1>6. Numbered'
  <2>1. 1 .. s = (1 .. n) \cup {s}
    BY <1>3
  <2>2. inserted' \cup committed' = 1 .. s
    BY <1>1, <1>2, <2>1
  <2>3. s \in 0 .. MaxMatches
    BY <1>1, LiveArguments DEF Seqs
  <2> QED
    BY <2>2, <2>3 DEF Numbered
<1>7. ReadIsSeen' /\ OneLoop' /\ TailRunsIfWatched'
  BY <1>1 DEF LiveInv, ReadIsSeen, OneLoop, TailRunsIfWatched, Streams
<1> QED
  BY <1>5, <1>6, <1>7 DEF LiveInv

LEMMA LiveCommit ==
  ASSUME LiveInv, NEW s \in Seqs, Commit(s)
  PROVE  LiveInv'
<1>1. /\ s \in inserted /\ inserted' = inserted \ {s} /\ committed' = committed \cup {s}
      /\ UNCHANGED <<at, after, poll, last, recent, start, read, opens>>
      /\ owed' = owed \cup {<<l, s>> : l \in {k \in Streams : s > after[k] /\ ~Overtaken(s)}}
  BY DEF Commit, tailVars
<1>2. owed' \subseteq Listeners \X Seqs
  BY <1>1 DEF Streams, LiveInv, TypeOK
<1>3. TypeOK'
  BY <1>1, <1>2 DEF LiveInv, TypeOK
<1>4. inserted' \cup committed' = inserted \cup committed
  BY <1>1
<1>5. Numbered'
  BY <1>4 DEF LiveInv, Numbered
<1>6. ReadIsSeen' /\ OneLoop' /\ TailRunsIfWatched'
  BY <1>1 DEF LiveInv, ReadIsSeen, OneLoop, TailRunsIfWatched, Streams
<1> QED
  BY <1>3, <1>5, <1>6 DEF LiveInv

LEMMA LiveOpen ==
  ASSUME LiveInv, NEW l \in Listeners, NEW from \in Resumes, Open(l, from)
  PROVE  LiveInv'
<1>1. /\ at[l] = "closed" /\ at' = [at EXCEPT ![l] = AddedFirst] /\ after' = [after EXCEPT ![l] = from]
      /\ start' = IF ~poll /\ start.at = "idle" THEN [NotStarting EXCEPT !.at = "latest"] ELSE start
      /\ opens' = opens + 1
      /\ UNCHANGED <<inserted, committed, poll, last, recent, read, owed>>
  BY DEF Open, dbVars, tailVars
<1>2. AddedFirst = IF poll THEN "greeting" ELSE "starting"
  BY DEF AddedFirst
<1>3. start' = start \/ (~poll /\ start.at = "idle" /\ start' = [at |-> "latest", latest |-> 0])
  BY <1>1 DEF NotStarting
<1>4. TypeOK'
  BY <1>1, <1>2, <1>3 DEF LiveInv, TypeOK
<1>5. Numbered'
  BY <1>1 DEF LiveInv, Numbered
<1>6. ReadIsSeen' /\ OneLoop'
  BY <1>1, <1>3 DEF LiveInv, ReadIsSeen, OneLoop
<1>7. Streams' = Streams \cup {l} /\ at'[l] = AddedFirst /\ \A k \in Streams : at'[k] = at[k]
  BY <1>1, <1>2 DEF Streams, LiveInv, TypeOK
<1>8. TailRunsIfWatched'
  BY <1>1, <1>2, <1>3, <1>7 DEF LiveInv, TailRunsIfWatched, TypeOK
<1> QED
  BY <1>4, <1>5, <1>6, <1>8 DEF LiveInv

LEMMA LiveDrop ==
  ASSUME LiveInv, NEW gone, Drop(gone), UNCHANGED <<inserted, committed, after, recent, read, opens>>,
         \/ start' = start
         \/ start' = NotStarting /\ gone = {l \in Listeners : at[l] = "starting"}
  PROVE  LiveInv'
<1>1. /\ at' \in [Listeners -> {"closed", "starting", "greeting", "live"}]
      /\ Streams' = Streams \ gone /\ \A l \in Streams' : at'[l] = at[l]
      /\ poll' \in BOOLEAN /\ last' \in {last, NoSeq} /\ (poll' => poll /\ last' = last)
      /\ owed' \subseteq owed
      /\ poll' => Streams' # {} /\ last' # NoSeq
      /\ (\E l \in Streams' : at'[l] # "starting") => poll'
  BY DropRuns DEF LiveInv
<1>2. TypeOK'
  BY <1>1 DEF LiveInv, TypeOK, NotStarting
<1>3. Numbered'
  BY DEF LiveInv, Numbered
<1>4. ReadIsSeen'
  BY <1>1 DEF LiveInv, ReadIsSeen, NotStarting
<1>5. OneLoop'
  BY <1>1 DEF LiveInv, OneLoop, NotStarting
<1>6. (\E l \in Streams' : at'[l] = "starting") => start'.at # "idle"
  BY <1>1 DEF LiveInv, TailRunsIfWatched, Streams
<1>7. TailRunsIfWatched'
  BY <1>1, <1>6 DEF TailRunsIfWatched
<1> QED
  BY <1>2, <1>3, <1>4, <1>5, <1>7 DEF LiveInv

LEMMA LiveStart ==
  ASSUME LiveInv, StartReadsLatest \/ StartEnds
  PROVE  LiveInv'
<1>1. CASE StartReadsLatest
  <2>1. /\ start.at = "latest" /\ start' = [at |-> "recent", latest |-> latestSeq]
        /\ UNCHANGED <<inserted, committed, at, after, poll, last, recent, read, opens, owed>>
    BY <1>1 DEF StartReadsLatest, dbVars, tailVars
  <2>2. latestSeq \in committed \cup {0} /\ latestSeq \in Seqs \cup {0}
        /\ \A s \in committed : s <= latestSeq
    BY LatestRead DEF LiveInv
  <2>3. TypeOK' /\ Numbered'
    BY <2>1, <2>2 DEF LiveInv, TypeOK, Numbered
  <2>4. ReadIsSeen' /\ OneLoop' /\ TailRunsIfWatched'
    BY <2>1, <2>2 DEF LiveInv, ReadIsSeen, OneLoop, TailRunsIfWatched, Streams
  <2> QED
    BY <2>3, <2>4 DEF LiveInv
<1>2. CASE StartEnds
  <2> DEFINE from == Max({0, start.latest - RECENT})
             found == matchesAfter(from, RECENT)
  <2>1. /\ start.at = "recent" /\ recent' = InOrder(found) /\ last' = start.latest
        /\ poll' = (poll \/ Watched)
        /\ at' = [l \in Listeners |-> IF at[l] = "starting" THEN "greeting" ELSE at[l]]
        /\ start' = [at |-> "idle", latest |-> 0] /\ owed' \subseteq owed
        /\ UNCHANGED <<inserted, committed, after, read, opens>>
    BY <1>2 DEF StartEnds, dbVars, NotStarting
  <2>2. found \in SUBSET Seqs /\ Cardinality(found) <= RECENT
    BY LiveArguments, OldestFew, OldestWithin DEF matchesAfter, LiveInv, TypeOK
  <2> HIDE DEF found
  <2>3. recent' \in Seq(Seqs) /\ Len(recent') <= RECENT
    BY <2>1, <2>2, Sorted
  <2>4. TypeOK'
    BY <2>1, <2>3 DEF LiveInv, TypeOK, Watched
  <2>5. Numbered' /\ ReadIsSeen' /\ OneLoop'
    BY <2>1 DEF LiveInv, Numbered, ReadIsSeen, OneLoop, TypeOK
  <2>6. Streams' = Streams /\ \A l \in Streams' : at'[l] # "starting"
    BY <2>1 DEF Streams, LiveInv, TypeOK
  <2>7. last' # NoSeq
    BY <2>1, LiveArguments DEF LiveInv, TypeOK
  <2>8. TailRunsIfWatched'
    BY <2>1, <2>6, <2>7 DEF TailRunsIfWatched, Watched, LiveInv
  <2> QED
    BY <2>4, <2>5, <2>8 DEF LiveInv
<1> QED
  BY <1>1, <1>2

LEMMA LiveGreet ==
  ASSUME LiveInv, NEW l \in Listeners, Greet(l)
  PROVE  LiveInv'
<1>1. /\ at[l] = "greeting" /\ at' = [at EXCEPT ![l] = "live"] /\ owed' \subseteq owed
      /\ UNCHANGED <<inserted, committed, after, poll, last, recent, start, read, opens>>
  BY DEF Greet, dbVars, tailVars
<1>2. TypeOK' /\ Numbered' /\ ReadIsSeen' /\ OneLoop'
  BY <1>1 DEF LiveInv, TypeOK, Numbered, ReadIsSeen, OneLoop
<1>3. /\ Streams' = Streams /\ at'[l] = "live"
      /\ \A k \in Streams \ {l} : at'[k] = at[k]
  BY <1>1 DEF Streams, LiveInv, TypeOK
<1>4. TailRunsIfWatched'
  BY <1>1, <1>3 DEF LiveInv, TailRunsIfWatched, Streams
<1> QED
  BY <1>2, <1>4 DEF LiveInv

\* A pass of the loop: what it fetches was after the last seq read, and the
\* greatest of it is the last then.
LEMMA Fetches ==
  ASSUME LiveInv, ReadFetches
  PROVE  /\ poll /\ read.at = "idle" /\ last # NoSeq
         /\ read' = [at |-> "fetched", fresh |-> matchesAfter(last, REPLAY)]
         /\ matchesAfter(last, REPLAY) \in SUBSET Seqs /\ matchesAfter(last, REPLAY) \subseteq committed
         /\ matchesAfter(last, REPLAY) # {}
         /\ UNCHANGED <<inserted, committed, at, after, poll, last, recent, start, opens, owed>>
<1>1. last \in Int /\ REPLAY \in Nat \ {0}
  BY LiveArguments DEF LiveInv, TypeOK
<1> QED
  BY <1>1, MatchesRead DEF ReadFetches, Idle, dbVars, tailVars, LiveInv

LEMMA Advances ==
  ASSUME LiveInv, ReadAdvances, last # NoSeq
  PROVE  LET counted == ~(read.fresh \subseteq Exhibitions)
             sent == IF counted THEN {} ELSE Streams \X read.fresh
         IN  /\ last' \in read.fresh /\ \A r \in read.fresh : r <= last'
             /\ recent' \in Seq(Seqs) /\ Len(recent') <= RECENT
             /\ read' = (IF counted THEN [at |-> "counting", fresh |-> read.fresh] ELSE Idle)
             /\ owed' = (owed \ sent) \ Missed(recent')
<1> DEFINE counted == ~(read.fresh \subseteq Exhibitions)
           sent == IF counted THEN {} ELSE Streams \X read.fresh
<1>1. /\ last' = Max(read.fresh) /\ recent' = Latest(RECENT, recent \o InOrder(read.fresh))
      /\ read' = (IF counted THEN [read EXCEPT !.at = "counting"] ELSE Idle)
      /\ owed' = (owed \ sent) \ Missed(recent')
  BY DEF ReadAdvances, LastOf
<1>2. read.fresh \in SUBSET Seqs /\ read.fresh # {} /\ recent \in Seq(Seqs)
  BY DEF LiveInv, ReadIsSeen, TypeOK, ReadAdvances
<1>3. last' \in read.fresh /\ \A r \in read.fresh : r <= last'
  BY <1>1, <1>2, Greatest
<1>4. recent \o InOrder(read.fresh) \in Seq(Seqs)
  BY <1>2, Sorted, ConcatProperties
<1>5. recent' \in Seq(Seqs) /\ Len(recent') <= RECENT
  BY <1>1, <1>4, LatestType, LiveArguments
<1>6. read' = (IF counted THEN [at |-> "counting", fresh |-> read.fresh] ELSE Idle)
  BY <1>1 DEF LiveInv, TypeOK
<1> QED
  BY <1>1, <1>3, <1>5, <1>6

LEMMA LiveRead ==
  ASSUME LiveInv, ReadStep
  PROVE  LiveInv'
<1>1. CASE ReadFetches
  <2>1. TypeOK' /\ Numbered' /\ ReadIsSeen'
    BY <1>1, Fetches DEF LiveInv, TypeOK, Numbered, ReadIsSeen
  <2>2. OneLoop' /\ TailRunsIfWatched'
    BY <1>1, Fetches DEF LiveInv, OneLoop, TailRunsIfWatched, Streams
  <2> QED
    BY <2>1, <2>2 DEF LiveInv
<1>2. CASE ReadAdvances /\ last = NoSeq
  <2>1. /\ read' = Idle /\ UNCHANGED <<inserted, committed, at, after, poll, last, recent, start, opens, owed>>
    BY <1>2 DEF ReadAdvances, dbVars
  <2>2. TypeOK' /\ Numbered' /\ ReadIsSeen'
    BY <2>1 DEF LiveInv, TypeOK, Numbered, ReadIsSeen, Idle
  <2>3. OneLoop' /\ TailRunsIfWatched'
    BY <2>1 DEF LiveInv, OneLoop, TailRunsIfWatched, Streams, Idle
  <2> QED
    BY <2>2, <2>3 DEF LiveInv
<1>3. CASE ReadAdvances /\ last # NoSeq
  <2>1. /\ last' \in read.fresh /\ recent' \in Seq(Seqs) /\ Len(recent') <= RECENT
        /\ read' \in {[at |-> "counting", fresh |-> read.fresh], Idle} /\ owed' \subseteq owed
    BY <1>3, Advances
  <2>2. UNCHANGED <<inserted, committed, at, after, poll, start, opens>>
    BY <1>3 DEF ReadAdvances, dbVars
  <2>3. TypeOK' /\ Numbered' /\ ReadIsSeen'
    BY <2>1, <2>2 DEF LiveInv, TypeOK, Numbered, ReadIsSeen, Idle
  <2>4. last' # NoSeq
    BY <2>1, LiveArguments DEF LiveInv, TypeOK
  <2>5. OneLoop' /\ TailRunsIfWatched'
    BY <2>1, <2>2, <2>4 DEF LiveInv, OneLoop, TailRunsIfWatched, Streams, Idle
  <2> QED
    BY <2>3, <2>5 DEF LiveInv
<1>4. CASE ReadSends \/ ReadFails
  <2>1. /\ read' = Idle /\ owed' \subseteq owed
        /\ UNCHANGED <<inserted, committed, at, after, poll, last, recent, start, opens>>
    BY <1>4 DEF ReadSends, ReadFails, dbVars, tailVars
  <2>2. TypeOK' /\ Numbered' /\ ReadIsSeen'
    BY <2>1 DEF LiveInv, TypeOK, Numbered, ReadIsSeen, Idle
  <2>3. OneLoop' /\ TailRunsIfWatched'
    BY <2>1 DEF LiveInv, OneLoop, TailRunsIfWatched, Streams, Idle
  <2> QED
    BY <2>2, <2>3 DEF LiveInv
<1> QED
  BY <1>1, <1>2, <1>3, <1>4 DEF ReadStep

\* Who drops listeners, and whom.
LEMMA Drops ==
  ASSUME (\E l \in Listeners : Close(l) \/ GreetFails(l)) \/ StartFails
  PROVE  \E gone : /\ Drop(gone) /\ UNCHANGED <<inserted, committed, after, recent, read, opens>>
                   /\ \/ start' = start
                      \/ start' = NotStarting /\ gone = {k \in Listeners : at[k] = "starting"}
BY DEF Close, GreetFails, StartFails, dbVars

LEMMA LiveStep == LiveInv /\ [Next]_vars => LiveInv'
<1> SUFFICES ASSUME LiveInv, [Next]_vars PROVE LiveInv'
  OBVIOUS
<1>1. ASSUME (\E l \in Listeners : Close(l) \/ GreetFails(l)) \/ StartFails PROVE LiveInv'
  BY <1>1, Drops, LiveDrop
<1>2. CASE UNCHANGED vars
  BY <1>2 DEF vars, dbVars, tailVars, LiveInv, TypeOK, Numbered, ReadIsSeen, OneLoop,
              TailRunsIfWatched, Streams
<1> QED
  BY <1>1, <1>2, LiveInsert, LiveCommit, LiveOpen, LiveStart, LiveGreet, LiveRead
     DEF Next, StartStep, GreetStep

-----------------------------------------------------------------------------
(* What a listener is owed stays ahead of the loop, in its hands, or among *)
(* what the listener is greeted with.                                      *)

\* Where a match owed to a listener is.
Kept(o) ==
  \/ poll /\ o[2] > last
  \/ read.at # "idle" /\ o[2] \in read.fresh
  \/ at[o[1]] = "greeting" /\ (after[o[1]] = NoSeq => o[2] \in Range(recent))
  \/ at[o[1]] = "starting"

LEMMA KeptIs == NothingFallsBetween <=> \A o \in owed : Kept(o)
BY DEF NothingFallsBetween, Kept

LEMMA OwedTyped ==
  ASSUME TailInv, NEW o \in owed
  PROVE  /\ o[1] \in Listeners /\ o[1] \in Streams /\ o[2] \in Seqs /\ o[2] \in committed
         /\ o[2] \in Int /\ o = <<o[1], o[2]>> /\ o[2] > after[o[1]] /\ after[o[1]] \in Int
         /\ last \in Int /\ Kept(o)
<1>1. owed \subseteq Listeners \X Seqs /\ after \in [Listeners -> Resumes \cup {NoSeq}]
      /\ last \in Seqs \cup {0, NoSeq}
  BY DEF TailInv, LiveInv, TypeOK
<1>2. last \in Int
  BY <1>1, LiveArguments
<1>3. o[1] \in Listeners /\ o[2] \in Seqs /\ o = <<o[1], o[2]>>
  BY <1>1
<1>4. after[o[1]] \in Int
  BY <1>1, <1>3, LiveArguments
<1>5. o[2] \in Int
  BY <1>3, LiveArguments
<1> QED
  BY <1>2, <1>3, <1>4, <1>5, KeptIs DEF TailInv, OwedIsOpen

\* While no loop runs, whoever is there waits for it to start.
LEMMA NobodyElse ==
  ASSUME TailInv, ~poll, NEW l \in Streams
  PROVE  at[l] = "starting"
BY DEF TailInv, LiveInv, TailRunsIfWatched

TailKept == OwedIsOpen' /\ NoGap' /\ NothingFallsBetween'

\* Less is owed, and nothing that keeps the rest has changed.
LEMMA TailLess ==
  ASSUME TailInv, owed' \subseteq owed, committed \subseteq committed', read' = read,
         poll' = poll, last' = last, recent' = recent, after' = after,
         \A o \in owed' : o[1] \in Streams' /\ at'[o[1]] = at[o[1]]
  PROVE  TailKept
<1>1. OwedIsOpen'
  BY OwedTyped DEF OwedIsOpen
<1>2. NoGap'
  BY DEF NoGap, TailInv
<1>3. NothingFallsBetween'
  BY DEF NothingFallsBetween, TailInv
<1> QED
  BY <1>1, <1>2, <1>3 DEF TailKept

LEMMA TailDrop ==
  ASSUME TailInv, NEW gone, Drop(gone), UNCHANGED <<inserted, committed, after, recent, read, opens>>
  PROVE  TailKept
<1>1. /\ Streams' = Streams \ gone /\ \A l \in Streams' : at'[l] = at[l]
      /\ (poll' => poll /\ last' = last)
      /\ owed' \subseteq owed /\ \A o \in owed' : o[1] \notin gone
      /\ (\E l \in Streams' : at'[l] # "starting") => poll'
  BY DropRuns DEF TailInv, LiveInv
<1>2. \A o \in owed' : o[1] \in Streams' /\ at'[o[1]] = at[o[1]]
  BY <1>1, OwedTyped
<1>3. OwedIsOpen'
  BY <1>1, <1>2, OwedTyped DEF OwedIsOpen
<1>4. NoGap'
  BY <1>1 DEF NoGap, TailInv
<1>5. ASSUME NEW o \in owed' PROVE Kept(o)'
  <2>1. Kept(o) /\ at'[o[1]] = at[o[1]] /\ o[1] \in Streams'
    BY <1>1, <1>2, OwedTyped
  <2>2. CASE at[o[1]] = "starting"
    BY <2>1, <2>2 DEF Kept
  <2>3. CASE at[o[1]] # "starting"
    BY <1>1, <2>1, <2>3 DEF Kept
  <2> QED
    BY <2>2, <2>3
<1> QED
  BY <1>3, <1>4, <1>5 DEF TailKept, NothingFallsBetween, Kept

LEMMA TailCommit ==
  ASSUME TailInv, NEW s \in Seqs, Commit(s)
  PROVE  TailKept
<1> DEFINE new == {<<l, s>> : l \in {k \in Streams : s > after[k] /\ ~Overtaken(s)}}
<1>1. /\ s \in inserted /\ committed' = committed \cup {s} /\ owed' = owed \cup new
      /\ UNCHANGED <<at, after, poll, last, recent, start, read, opens>>
  BY DEF Commit, tailVars
<1>2. s \in Int /\ s \notin committed /\ last \in Int
      /\ last \in committed \cup {0, NoSeq} /\ read.fresh \subseteq committed /\ committed \subseteq Int
  BY <1>1, LiveArguments DEF TailInv, LiveInv, TypeOK, ReadIsSeen
<1>3. ASSUME NEW o \in new
      PROVE  /\ o[1] \in Streams /\ o[2] = s /\ s > after[o[1]] /\ s > last
             /\ \A r \in read.fresh : ~(s < r)
  <2>1. PICK l \in Streams : o = <<l, s>> /\ s > after[l] /\ ~Overtaken(s)
    BY <1>3
  <2>2. o[1] = l /\ o[2] = s
    BY <2>1
  <2>3. ~(last > s) /\ \A r \in read.fresh : ~(r > s)
    BY <2>1 DEF Overtaken
  <2>4. last # s
    BY <1>2, LiveArguments
  <2>5. s > last
    BY <1>2, <2>3, <2>4
  <2>6. \A r \in read.fresh : ~(s < r)
    BY <1>2, <2>3
  <2> QED
    BY <2>1, <2>2, <2>5, <2>6
<1> HIDE DEF new
<1>4. Streams' = Streams
  BY <1>1 DEF Streams
<1>5. OwedIsOpen'
  BY <1>1, <1>3, <1>4, OwedTyped DEF OwedIsOpen
<1>6. NoGap'
  BY <1>1, <1>3 DEF NoGap, TailInv
<1>7. ASSUME NEW o \in owed' PROVE Kept(o)'
  <2>1. CASE o \in owed
    BY <1>1, <2>1, OwedTyped DEF Kept
  <2>2. CASE o \in new
    BY <1>1, <1>3, <2>2, NobodyElse DEF Kept
  <2> QED
    BY <1>1, <2>1, <2>2
<1> QED
  BY <1>5, <1>6, <1>7 DEF TailKept, NothingFallsBetween, Kept

LEMMA StartTyped ==
  ASSUME TypeOK
  PROVE  start.latest \in Nat
<1>1. start.latest \in Seqs \cup {0}
  BY DEF TypeOK
<1>2. Seqs \cup {0} \subseteq Nat
  BY LiveArguments
<1> QED
  BY <1>1, <1>2

LEMMA TailStart ==
  ASSUME TailInv, StartEnds
  PROVE  TailKept
<1> DEFINE from == Max({0, start.latest - RECENT})
           found == matchesAfter(from, RECENT)
<1>1. /\ start.at = "recent" /\ recent' = InOrder(found) /\ last' = start.latest
      /\ poll' = (poll \/ Watched)
      /\ at' = [l \in Listeners |-> IF at[l] = "starting" THEN "greeting" ELSE at[l]]
      /\ owed' = {o \in owed : after[o[1]] = NoSeq => o[2] > from}
      /\ UNCHANGED <<inserted, committed, after, read, opens>>
  BY DEF StartEnds, dbVars
<1>2. ~poll /\ \A l \in Streams : at[l] = "starting"
  BY <1>1, NobodyElse DEF TailInv, LiveInv, OneLoop
<1>3. Streams' = Streams /\ \A l \in Streams : at'[l] = "greeting" /\ poll'
  BY <1>1, <1>2 DEF Streams, Watched
<1>4. OwedIsOpen'
  BY <1>1, <1>3, OwedTyped DEF OwedIsOpen
<1>5. start.latest \in Nat /\ RECENT \in Nat \ {0}
  BY StartTyped, LiveArguments DEF TailInv, LiveInv
<1>6. NoGap'
  <2> SUFFICES ASSUME read.at = "fetched", NEW o \in owed, NEW r \in read.fresh,
                      start.latest < o[2], o[2] < r
               PROVE  FALSE
    BY <1>1 DEF NoGap
  <2>1. r <= start.latest
    BY <1>1 DEF TailInv, LiveInv, OneLoop
  <2>2. r \in Int
    BY LiveArguments DEF TailInv, LiveInv, TypeOK
  <2> QED
    BY <1>5, <2>1, <2>2, OwedTyped
<1>7. from \in Int /\ from >= 0 /\ from >= start.latest - RECENT
  <2>1. start.latest - RECENT \in Int /\ 0 \in Int
    BY <1>5
  <2>2. from \in {0, start.latest - RECENT} /\ from >= 0 /\ from >= start.latest - RECENT
    BY <2>1, MaxOfTwo, Zenon
  <2> QED
    BY <2>1, <2>2
<1> HIDE DEF from
<1>8. Range(recent') = found
  BY <1>1, <1>5, <1>7, MatchesRead, Sorted DEF TailInv, LiveInv
<1>9. ASSUME NEW s \in committed, s > from, s <= start.latest
      PROVE  s \in found
  <2> DEFINE there == {r \in committed : r > from}
             below == {r \in there : r < s}
  <2>1. committed \subseteq Nat /\ committed \in SUBSET Seqs
    BY LiveArguments DEF TailInv, LiveInv, TypeOK
  <2>2. below \subseteq from + 1 .. s - 1
    <3> SUFFICES ASSUME NEW r \in below PROVE r \in from + 1 .. s - 1
      OBVIOUS
    <3>1. s \in Int /\ from \in Int /\ r \in Int
      BY <1>7, <2>1
    <3>2. r > from /\ r < s
      OBVIOUS
    <3>3. from + 1 <= r /\ r <= s - 1
      BY <3>1, <3>2
    <3> QED
      BY <3>1, <3>3
  <2>3. IsFiniteSet(from + 1 .. s - 1) /\ Cardinality(from + 1 .. s - 1) <= RECENT - 1
    <3>1. from + 1 \in Int /\ s - 1 \in Int
      BY <1>7, <2>1
    <3>2. /\ IsFiniteSet(from + 1 .. s - 1)
          /\ Cardinality(from + 1 .. s - 1)
               = IF from + 1 > s - 1 THEN 0 ELSE (s - 1) - (from + 1) + 1
      BY <3>1, FS_Interval
    <3> QED
      BY <1>5, <1>7, <1>9, <2>1, <3>2
  <2>4. Cardinality(below) <= Cardinality(from + 1 .. s - 1)
    BY <2>2, <2>3, FS_Subset
  <2>5. Cardinality(below) \in Nat /\ Cardinality(from + 1 .. s - 1) \in Nat
    BY <2>1, <2>3, SeqsFinite, FS_CardinalityType
  <2>6. Cardinality(below) < RECENT
    BY <1>5, <2>3, <2>4, <2>5
  <2> QED
    BY <1>9, <2>6 DEF matchesAfter, Oldest
<1> HIDE DEF found
<1>10. ASSUME NEW o \in owed' PROVE Kept(o)'
  <2>1. /\ o \in owed /\ at'[o[1]] = "greeting" /\ poll' /\ o[2] \in committed /\ o[2] \in Int
        /\ after' = after
    BY <1>1, <1>3, OwedTyped
  <2>2. CASE o[2] > last'
    BY <2>1, <2>2 DEF Kept
  <2>3. CASE ~(o[2] > last')
    <3>1. after[o[1]] = NoSeq => o[2] > from /\ o[2] <= start.latest
      BY <1>1, <1>5, <2>1, <2>3
    <3>2. after[o[1]] = NoSeq => o[2] \in Range(recent')
      BY <1>8, <1>9, <2>1, <3>1
    <3> QED
      BY <2>1, <3>2 DEF Kept
  <2> QED
    BY <2>2, <2>3
<1> QED
  BY <1>4, <1>6, <1>10 DEF TailKept, NothingFallsBetween, Kept
LEMMA TailGreet ==
  ASSUME TailInv, NEW l \in Listeners, Greet(l)
  PROVE  TailKept
<1> DEFINE sent == IF after[l] = NoSeq THEN Range(recent) ELSE matchesAfter(after[l], REPLAY)
           cut == {s \in committed : s <= last /\ Cardinality(sent) = REPLAY}
           gone == sent \cup IF after[l] = NoSeq THEN {} ELSE cut
<1>1. /\ at[l] = "greeting" /\ at' = [at EXCEPT ![l] = "live"] /\ owed' = owed \ ({l} \X gone)
      /\ UNCHANGED <<inserted, committed, after, poll, last, recent, start, read, opens>>
  BY DEF Greet, dbVars, tailVars
<1>2. Streams' = Streams /\ poll /\ \A k \in Listeners \ {l} : at'[k] = at[k]
  BY <1>1, NobodyElse DEF Streams, TailInv, LiveInv, TypeOK
<1>3. OwedIsOpen'
  BY <1>1, <1>2, OwedTyped DEF OwedIsOpen
<1>4. NoGap'
  BY <1>1 DEF NoGap, TailInv
<1>5. ASSUME NEW o \in owed', o[1] = l, after[l] # NoSeq, ~(o[2] > last)
      PROVE  FALSE
  <2> DEFINE there == {s \in committed : s > after[l]}
  <2>1. o \in owed /\ o[2] \notin gone
    BY <1>1, <1>5, OwedTyped
  <2>2. o[2] \in there /\ o[2] <= last /\ o[2] \in committed
    BY <1>5, <2>1, OwedTyped
  <2>3. sent = Oldest(REPLAY, there) /\ there \in SUBSET Seqs
    BY <1>5 DEF matchesAfter, TailInv, LiveInv, TypeOK
  <2>4. o[2] \notin Oldest(REPLAY, there)
    BY <2>1, <2>3
  <2>5. Cardinality(sent) = REPLAY
    BY <2>2, <2>3, <2>4, OldestFull, LiveArguments
  <2> QED
    BY <1>5, <2>1, <2>2, <2>5
<1> HIDE DEF sent, cut
<1>6. ASSUME NEW o \in owed' PROVE Kept(o)'
  <2>1. o \in owed /\ Kept(o) /\ o[1] \in Listeners /\ (o[1] = l => o[2] \notin gone)
    BY <1>1, OwedTyped
  <2>2. CASE o[1] # l
    BY <1>1, <1>2, <2>1, <2>2 DEF Kept
  <2>3. CASE o[1] = l /\ after[l] # NoSeq
    BY <1>1, <1>2, <1>5, <2>3 DEF Kept
  <2>4. CASE o[1] = l /\ after[l] = NoSeq
    BY <1>1, <2>1, <2>4 DEF Kept, sent
  <2> QED
    BY <2>2, <2>3, <2>4
<1> QED
  BY <1>3, <1>4, <1>6 DEF TailKept, NothingFallsBetween, Kept

LEMMA TailFetch ==
  ASSUME TailInv, ReadFetches
  PROVE  TailKept
<1>1. /\ read.at = "idle" /\ read' = [at |-> "fetched", fresh |-> matchesAfter(last, REPLAY)]
      /\ UNCHANGED <<inserted, committed, at, after, poll, last, recent, start, opens, owed>>
  BY Fetches DEF TailInv
<1>2. OwedIsOpen'
  BY <1>1 DEF OwedIsOpen, TailInv, Streams
<1>3. NoGap'
  <2> SUFFICES ASSUME NEW o \in owed, NEW r \in matchesAfter(last, REPLAY), last < o[2], o[2] < r
               PROVE  o[2] \in matchesAfter(last, REPLAY)
    BY <1>1 DEF NoGap
  <2> DEFINE there == {s \in committed : s > last}
  <2>1. matchesAfter(last, REPLAY) = Oldest(REPLAY, there) /\ there \in SUBSET Seqs
    BY DEF matchesAfter, TailInv, LiveInv, TypeOK
  <2>2. o[2] \in committed /\ o[2] \in Int /\ last \in Int
    BY OwedTyped
  <2>3. o[2] \in there
    BY <2>2
  <2>4. r \in Int /\ REPLAY \in Nat
    BY <2>1, OldestWithin, LiveArguments
  <2>5. o[2] <= r
    BY <2>2, <2>4
  <2> QED
    BY <2>1, <2>3, <2>4, <2>5, OldestDown
<1>4. NothingFallsBetween'
  BY <1>1 DEF NothingFallsBetween, TailInv
<1> QED
  BY <1>2, <1>3, <1>4 DEF TailKept

LEMMA TailAdvance ==
  ASSUME TailInv, ReadAdvances
  PROVE  TailKept
<1>1. /\ read.at = "fetched"
      /\ UNCHANGED <<inserted, committed, at, after, poll, start, opens>>
  BY DEF ReadAdvances, dbVars
<1>2. Streams' = Streams
  BY <1>1 DEF Streams
<1>3. CASE last = NoSeq
  <2>1. read' = Idle /\ UNCHANGED <<last, recent, owed>>
    BY <1>3 DEF ReadAdvances
  <2>2. ~poll
    BY <1>3 DEF TailInv, LiveInv, TailRunsIfWatched
  <2>3. OwedIsOpen' /\ NoGap'
    BY <1>1, <1>2, <2>1, <2>2 DEF OwedIsOpen, NoGap, TailInv
  <2>4. \A o \in owed : at[o[1]] = "starting"
    BY <2>2, OwedTyped, NobodyElse
  <2>5. NothingFallsBetween'
    BY <1>1, <2>1, <2>4 DEF NothingFallsBetween
  <2> QED
    BY <2>3, <2>5 DEF TailKept
<1>4. CASE last # NoSeq
  <2> DEFINE counted == ~(read.fresh \subseteq Exhibitions)
             sent == IF counted THEN {} ELSE Streams \X read.fresh
  <2>1. /\ last' \in read.fresh /\ \A r \in read.fresh : r <= last'
        /\ read' = (IF counted THEN [at |-> "counting", fresh |-> read.fresh] ELSE Idle)
        /\ owed' = (owed \ sent) \ Missed(recent')
    BY <1>4, Advances DEF TailInv
  <2>2. owed' \subseteq owed /\ read'.at # "fetched"
    BY <2>1 DEF Idle
  <2>3. OwedIsOpen'
    BY <1>1, <1>2, <2>2 DEF OwedIsOpen, TailInv
  <2>4. NoGap'
    BY <2>2 DEF NoGap
  <2>5. ASSUME NEW o \in owed', o[2] \in read.fresh
        PROVE  read'.at # "idle" /\ o[2] \in read'.fresh
    <3>1. o \in owed /\ o \notin sent /\ o[1] \in Streams /\ o = <<o[1], o[2]>>
      BY <2>1, OwedTyped
    <3>2. counted
      BY <2>5, <3>1
    <3> QED
      BY <2>1, <2>5, <3>2
  <2>6. ASSUME NEW o \in owed' PROVE Kept(o)'
    <3>1. /\ o \in owed /\ Kept(o) /\ o[2] \in Int /\ last \in Int /\ o[1] \in Listeners
          /\ o = <<o[1], o[2]>> /\ o \notin Missed(recent')
      BY <2>1, OwedTyped
    <3>2. CASE o[2] \in read.fresh
      BY <2>5, <3>2 DEF Kept
    <3>3. CASE poll /\ o[2] > last /\ o[2] \notin read.fresh
      <4>1. last' \in Int
        BY <2>1, LiveArguments DEF TailInv, LiveInv, TypeOK
      <4>2. ~(o[2] < last')
        BY <1>1, <2>1, <3>1, <3>3 DEF TailInv, NoGap
      <4>3. o[2] # last'
        BY <2>1, <3>3
      <4> QED
        BY <1>1, <3>1, <3>3, <4>1, <4>2, <4>3 DEF Kept
    <3>4. CASE at[o[1]] = "greeting" /\ (after[o[1]] = NoSeq => o[2] \in Range(recent))
      <4>1. after[o[1]] = NoSeq => o[2] \in Range(recent')
        BY <3>1, <3>4 DEF Missed
      <4> QED
        BY <1>1, <3>4, <4>1 DEF Kept
    <3>5. CASE at[o[1]] = "starting"
      BY <1>1, <3>5 DEF Kept
    <3> QED
      BY <3>1, <3>2, <3>3, <3>4, <3>5 DEF Kept
  <2> QED
    BY <2>3, <2>4, <2>6 DEF TailKept, NothingFallsBetween, Kept
<1> QED
  BY <1>3, <1>4

LEMMA TailSend ==
  ASSUME TailInv, ReadSends \/ ReadFails
  PROVE  TailKept
<1>1. /\ read' = Idle /\ owed' \subseteq owed \ (Streams \X read.fresh)
      /\ UNCHANGED <<inserted, committed, at, after, poll, last, recent, start, opens>>
  BY DEF ReadSends, ReadFails, dbVars, tailVars, Streams
<1>2. ASSUME NEW o \in owed'
      PROVE  /\ o \in owed /\ o[1] \in Streams /\ Kept(o) /\ o[2] \notin read.fresh
             /\ o[2] \in committed /\ o[2] > after[o[1]]
  BY <1>1, OwedTyped
<1>3. Streams' = Streams
  BY <1>1 DEF Streams
<1>4. OwedIsOpen' /\ NoGap'
  BY <1>1, <1>2, <1>3 DEF OwedIsOpen, NoGap, Idle
<1>5. \A o \in owed' : Kept(o)'
  BY <1>1, <1>2 DEF Kept
<1> QED
  BY <1>4, <1>5 DEF TailKept, NothingFallsBetween, Kept

LEMMA TailStep == TailInv /\ [Next]_vars => TailInv'
<1> SUFFICES ASSUME TailInv, [Next]_vars PROVE TailKept
  BY LiveStep DEF TailInv, TailKept
<1>1. CASE Insert \/ StartReadsLatest \/ UNCHANGED vars
  <2>1. UNCHANGED <<committed, at, after, poll, last, recent, read, owed>>
    BY <1>1 DEF Insert, StartReadsLatest, vars, dbVars, tailVars
  <2>2. \A o \in owed' : o[1] \in Streams' /\ at'[o[1]] = at[o[1]]
    BY <2>1, OwedTyped DEF Streams
  <2> QED
    BY <2>1, <2>2, TailLess
<1>2. ASSUME NEW l \in Listeners, NEW from \in Resumes, Open(l, from) PROVE TailKept
  <2>1. /\ at[l] = "closed" /\ at' = [at EXCEPT ![l] = AddedFirst]
        /\ after' = [after EXCEPT ![l] = from] /\ AddedFirst # "closed"
        /\ UNCHANGED <<inserted, committed, poll, last, recent, read, owed>>
    BY <1>2 DEF Open, dbVars, tailVars, AddedFirst
  <2>2. ASSUME NEW o \in owed
        PROVE  /\ o[1] \in Streams' /\ at'[o[1]] = at[o[1]] /\ after'[o[1]] = after[o[1]]
               /\ o[2] \in committed /\ o[2] > after[o[1]] /\ Kept(o)
    <3>1. o[1] \in Streams /\ o[1] # l /\ o[1] \in Listeners
      BY <2>1, OwedTyped DEF Streams
    <3> QED
      BY <2>1, <3>1, OwedTyped DEF Streams, TailInv, LiveInv, TypeOK
  <2>3. OwedIsOpen' /\ NoGap'
    BY <2>1, <2>2 DEF OwedIsOpen, NoGap, TailInv
  <2>4. \A o \in owed' : Kept(o)'
    BY <2>1, <2>2 DEF Kept
  <2> QED
    BY <2>3, <2>4 DEF TailKept, NothingFallsBetween, Kept
<1>3. CASE (\E l \in Listeners : Close(l) \/ GreetFails(l)) \/ StartFails
  BY <1>3, Drops, TailDrop
<1> QED
  BY <1>1, <1>2, <1>3, TailCommit, TailStart, TailGreet, TailFetch, TailAdvance, TailSend
     DEF Next, StartStep, ReadStep, GreetStep

\* No match recorded while a stream is open falls between what the listener is
\* caught up with and what the loop sends it: for any number of listeners and
\* matches, committed in any order, with the loop stopped and started again at
\* any await, and reads cut at any limit.
THEOREM NothingEverFallsBetween == Spec => []NothingFallsBetween
<1>1. TailInv => NothingFallsBetween
  BY DEF TailInv
<1> QED
  BY <1>1, LiveInit, TailStep, PTL DEF Spec
-----------------------------------------------------------------------------
\* The state is always well typed: the model's variables hold what
\* LiveStream's fields and the matches table can.
THEOREM TypeCorrect == Spec => []TypeOK
<1>1. LiveInv => TypeOK
  BY DEF LiveInv
<1>2. TailInv => LiveInv
  BY DEF TailInv
<1> QED
  BY <1>1, <1>2, LiveInit, LiveStep, PTL DEF Spec

\* The loop runs while somebody has been let in, and only then: opening,
\* closing and starting it meet in every order, for any number of listeners.
THEOREM TailAlwaysRunsIfWatched == Spec => []TailRunsIfWatched
<1>1. LiveInv => TailRunsIfWatched
  BY DEF LiveInv
<1>2. TailInv => LiveInv
  BY DEF TailInv
<1> QED
  BY <1>1, <1>2, LiveInit, LiveStep, PTL DEF Spec
=============================================================================
