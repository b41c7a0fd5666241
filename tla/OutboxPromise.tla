---------------------------- MODULE OutboxPromise ----------------------------
(***************************************************************************)
(* What the outbox promises, without passes, transactions or vaults: an op *)
(* queued reaches the chain at most once, is reported done only after it   *)
(* has, and is abandoned only if it never has and never will.              *)
(***************************************************************************)
EXTENDS Naturals

VARIABLES
  queued,      \* how many ops have been queued
  onChain,     \* those the chain has a record of
  done,        \* those reported confirmed
  abandoned    \* those given up on

vars == <<queued, onChain, done, abandoned>>

Init == queued = 0 /\ onChain = {} /\ done = {} /\ abandoned = {}

Queue ==
  /\ queued' \in {queued + 1, queued + 2}
  /\ UNCHANGED <<onChain, done, abandoned>>

Reach(i) ==
  /\ i \in 1 .. queued /\ i \notin onChain \cup abandoned
  /\ onChain' = onChain \cup {i}
  /\ UNCHANGED <<queued, done, abandoned>>

Report(i) ==
  /\ i \in onChain \ done
  /\ done' = done \cup {i}
  /\ UNCHANGED <<queued, onChain, abandoned>>

Abandon(i) ==
  /\ i \in 1 .. queued /\ i \notin onChain \cup done \cup abandoned
  /\ abandoned' = abandoned \cup {i}
  /\ UNCHANGED <<queued, onChain, done>>

Next == Queue \/ \E i \in 1 .. queued : Reach(i) \/ Report(i) \/ Abandon(i)

Spec == Init /\ [][Next]_vars
=============================================================================
