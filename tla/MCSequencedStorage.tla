------------------------- MODULE MCSequencedStorage -------------------------
(* Instances of SequencedStorage for TLC. *)
EXTENDS SequencedStorage, TLC

CONSTANTS c1, c2, g1, g2, s1, s2

\* The collector runs in the process of the first client, as an embedded one.
EmbeddedGc == (c1 :> s1) @@ (c2 :> s2) @@ (g1 :> s1)

\* Two processes, each with an embedded collector.
TwoGcs == (c1 :> s1) @@ (c2 :> s2) @@ (g1 :> s1) @@ (g2 :> s2)

\* Two fenceable objects. One claims the next epoch and takes checkpoints, the
\* other claims a given epoch and releases them.
Fencers == (c1 :> {"init", "checkpoint"}) @@ (c2 :> {"claim", "release"})

\* A writer that updates and one that takes over.
Takeover == (c1 :> {"update"}) @@ (c2 :> {"claim_exact"})

\* A writer that claims first, and a client that only reads.
WriterAndReader == (c1 :> {"init", "update"}) @@ (c2 :> {})

\* A writer that takes checkpoints and a client that releases them.
Pinners == (c1 :> {"checkpoint", "update"}) @@ (c2 :> {"release"})

\* The object has two versions, the second is `v`, and both clients have it in
\* memory; `ep` gives the epochs they hold.
Opened(v) == [id |-> 2, val |-> v]

OpenedInit(v, ep) ==
  /\ log = <<InitialVal, v>>
  /\ files = [i \in Ids |-> IF i <= 2 THEN log[i] ELSE Absent]
  /\ acks = [i \in Ids |-> IF i <= 2 THEN 1 ELSE 0]
  /\ boundary = 0
  /\ cache = [s \in Store |-> Opened(v)]
  /\ bcache = [s \in Store |-> 0]
  /\ pc = [c \in Client |-> "ready"]
  /\ op = [c \in Client |-> NoOp]
  /\ view = [c \in Client |-> Opened(v)]
  /\ epoch = ep
  /\ hand = [c \in Client |-> NoObject]
  /\ probes = [c \in Client |-> 0]
  /\ phase = [g \in Gc |-> "idle"]
  /\ last = [g \in Gc |-> 0]
  /\ old = [g \in Gc |-> {}]
  /\ base = [g \in Gc |-> 0]
  /\ floor = [c \in Client |-> 0]

\* Version 2 is pinned by a checkpoint.
PinnedInit == OpenedInit([epoch |-> 0, refs |-> {2}], [c \in Client |-> 0])
PinnedSpec == PinnedInit /\ [][Next]_vars

\* The first client has claimed epoch 1, and version 2 is pinned as well.
ClaimedInit == OpenedInit([epoch |-> 1, refs |-> {2}], (c1 :> 1) @@ (c2 :> 0))
ClaimedSpec == ClaimedInit /\ [][Next]_vars
====
