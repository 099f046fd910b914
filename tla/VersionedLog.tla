---------------------------- MODULE VersionedLog ----------------------------
(***************************************************************************)
(* What a transactional object promises its clients, with no files, caches *)
(* or garbage collection: a log of versions that only grows.  A client     *)
(* publishes a version only when the one it has in memory is the last, and *)
(* a client that holds an epoch publishes under that epoch only.           *)
(***************************************************************************)
EXTENDS Integers, Sequences

CONSTANTS Client, Vals, Initial

VARIABLES
  log,    \* the versions, oldest first
  view,   \* per client: the version in memory
  epoch,  \* per client: the epoch it holds, 0 for none
  acked   \* the versions whose author was told that they were written

vars == <<log, view, epoch, acked>>

NoVersion == [id |-> 0, val |-> Initial]
Version(n) == [id |-> n, val |-> log[n]]

Init ==
  /\ log = << >>
  /\ view = [c \in Client |-> NoVersion]
  /\ epoch = [c \in Client |-> 0]
  /\ acked = {}

\* Compare-and-set on the end of the log, and the fence.
Publish(c) ==
  /\ view[c].id = Len(log)
  /\ \E v \in Vals :
       /\ v.epoch >= view[c].val.epoch
       /\ epoch[c] > 0 => v.epoch = epoch[c]
       /\ log' = Append(log, v)
  /\ UNCHANGED <<view, epoch, acked>>

\* The author learns that its version is in; a claim takes its epoch.
Confirm(c) ==
  LET n == view[c].id + 1 IN
  /\ n \in 1 .. Len(log)
  /\ n \notin acked
  /\ view' = [view EXCEPT ![c] = Version(n)]
  /\ acked' = acked \cup {n}
  /\ \/ UNCHANGED epoch
     \/ /\ epoch[c] = 0
        /\ \A d \in Client : epoch[d] # log[n].epoch
        /\ epoch' = [epoch EXCEPT ![c] = log[n].epoch]
  /\ UNCHANGED log

\* A client moves forward to a version that exists.
Observe(c) ==
  /\ \E n \in 1 .. Len(log) :
       n >= view[c].id /\ view' = [view EXCEPT ![c] = Version(n)]
  /\ UNCHANGED <<log, epoch, acked>>

\* The clients of a process are gone, and their epochs with them.
Restart(S) ==
  /\ view' = [c \in Client |-> IF c \in S THEN NoVersion ELSE view[c]]
  /\ epoch' = [c \in Client |-> IF c \in S THEN 0 ELSE epoch[c]]
  /\ UNCHANGED <<log, acked>>

Next ==
  \/ \E c \in Client : Publish(c) \/ Confirm(c) \/ Observe(c)
  \/ \E S \in SUBSET Client : Restart(S)

Spec == Init /\ [][Next]_vars
====
