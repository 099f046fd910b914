------------------------- MODULE SequencedInvariant -------------------------
(* The inductive invariant of SequencedStorage, for any clients, collectors *)
(* and bounds, the proof of its type part, and what one step does to the      *)
(* version log and the stores.  SequencedStorageProofs has the other parts and *)
(* the theorems.                                                               *)
EXTENDS SequencedStorage, TLAPS

(***************************************************************************)
(* The inductive invariant.  An object is faithful when it has the content *)
(* its version was created with, unless the boundary has passed it.        *)
(***************************************************************************)
Faithful(o) == o.id <= Len(log) /\ (o.id > boundary => o.val = log[o.id])

LogInv == Len(log) <= MaxId /\ UnfencedHistoryIntact /\ EpochsNeverDecrease

StoreInv == \A s \in Store : Faithful(cache[s]) /\ bcache[s] <= boundary

\* What a client has in memory is a version that was really written.
ViewOK(c) ==
  /\ view[c].id <= Len(log)
  /\ view[c].val = IF view[c].id = 0 THEN InitialVal ELSE log[view[c].id]
  /\ epoch[c] <= view[c].val.epoch

Reading == {"probe", "list", "get", "check"}

\* Where a client is agrees with what it is doing and what it has loaded.
ControlOK(c) ==
  /\ pc[c] # "broken"
  /\ pc[c] = "down" \/ op[c].kind \in {"load", "create"} => view[c].id = 0
  /\ pc[c] = "ready" => view[c].id > 0
  /\ pc[c] \in {"write", "written"} => view[c].id > 0 \/ op[c].kind = "create"
  /\ pc[c] \in Reading => op[c].kind # "create"
  /\ pc[c] \in Reading => view[c].id > 0 \/ op[c].kind = "load"
  /\ op[c].kind \in Claims => epoch[c] = 0
  /\ epoch[c] > 0 /\ pc[c] # "fenced" => view[c].val.epoch = epoch[c]

\* A read that gets to its check with an object above the boundary has one
\* that is at least as new as the newest version at its start.
ReadOK(c) ==
  /\ pc[c] \in Reading => view[c].id <= floor[c] /\ floor[c] <= Len(log)
  /\ pc[c] \in {"probe", "get", "check"} => hand[c].id > 0
  /\ pc[c] \in {"probe", "check"} => Faithful(hand[c])
  /\ pc[c] = "get" => hand[c].id <= Len(log) /\ hand[c].id >= floor[c]
  /\ pc[c] = "check" /\ hand[c].id > boundary => hand[c].id >= floor[c]

ClientInv == \A c \in Client : ViewOK(c) /\ ControlOK(c) /\ ReadOK(c)

\* A pending write above the boundary is the only one of its id, has not been
\* acknowledged, and claims an epoch nobody else holds.
WriteInv ==
  \A c \in Client : pc[c] = "written" =>
    /\ hand[c].id = view[c].id + 1
    /\ Faithful(hand[c])
    /\ hand[c].val.epoch >= view[c].val.epoch
    /\ op[c].kind \in Claims => hand[c].val.epoch > view[c].val.epoch
    /\ op[c].kind \notin Claims => hand[c].val.epoch = view[c].val.epoch
    /\ hand[c].id > boundary =>
         /\ acks[hand[c].id] = 0
         /\ \A d \in Client \ {c} : pc[d] = "written" => hand[d].id # hand[c].id
         /\ op[c].kind \in Claims =>
              \A d \in Client \ {c} : epoch[d] # hand[c].val.epoch

AckInv == AckedOnce /\ \A i \in Ids : i > Len(log) => acks[i] = 0

GcInv ==
  \A g \in Gc :
    /\ phase[g] = "read" => last[g] <= Len(log) /\ \A i \in old[g] : i < last[g]
    /\ phase[g] \in {"advance", "put", "reread"} => \A i \in old[g] : i < Len(log)
    /\ phase[g] = "put" => base[g] <= boundary
    /\ phase[g] = "put" => \A t \in Ids : IsTarget(g, t) => base[g] < t
    /\ phase[g] = "delete" => \A i \in old[g] : i <= boundary

IndInv ==
  /\ TypeOK /\ LogInv /\ StoreInv /\ ClientInv
  /\ WriteInv /\ AckInv /\ GcInv /\ EpochHeldOnce

(***************************************************************************)
(* Checkpointed files, when there is one collector.  Only a version's own  *)
(* writer pins it, so a file that some version does not pin is not pinned  *)
(* by a later one; the manifest the collector reads is therefore enough,   *)
(* provided the boundary has not passed it (with two collectors it may).   *)
(***************************************************************************)
OneCollector == \A g, h \in Gc : g = h

PinsOnlyReleased ==
  \A j \in 1 .. Len(log) : \A r \in log[j].refs :
    r <= j /\ \A i \in 1 .. j : r <= i => r \in log[i].refs

CollectsUnpinned(g) ==
  /\ phase[g] = "read" => last[g] > boundary
  /\ phase[g] \in {"advance", "put", "reread", "delete"} =>
       \A i \in old[g] : i < Len(log) /\ i \notin log[Len(log)].refs

PinInv == PinsOnlyReleased /\ PinnedFilesSurvive /\ \A g \in Gc : CollectsUnpinned(g)

(***************************************************************************)
(* Types                                                                   *)
(***************************************************************************)
LEMMA ConstantTypes ==
  /\ Absent \notin Vals /\ InitialVal \in Vals /\ NoObject \in Objects
  /\ NoOp \in Ops
  /\ \A o \in Objects : o.id \in 0 .. MaxId /\ o.val \in Vals
  /\ \A i \in 0 .. MaxId, v \in Vals : [id |-> i, val |-> v] \in Objects
  BY MaxIdAssumption, MaxEpochAssumption, AbsentAssumption
     DEF InitialVal, Vals, NoObject, Objects, NoOp, Ops, Epochs

LEMMA CacheTypes ==
  ASSUME TypeOK, NEW s \in Store, NEW o \in Objects, NEW i, NEW b \in 0 .. MaxId
  PROVE  /\ maybe_cache_latest(s, o) \in [Store -> Objects]
         /\ invalidate_cached(s, i) \in [Store -> Objects]
         /\ invalidate_cached(s, i)[s] \in Objects
         /\ invalidate_cached_through(s, i) \in [Store -> Objects]
         /\ update_cache(s, b) \in [Store -> 0 .. MaxId]
         /\ check_cache(s, i) \in [Store -> 0 .. MaxId]
<1>1. cache \in [Store -> Objects] /\ bcache \in [Store -> 0 .. MaxId]
      /\ boundary \in 0 .. MaxId
  BY DEF TypeOK
<1>2. NoObject \in Objects
  BY ConstantTypes
<1> QED
  BY <1>1, <1>2 DEF maybe_cache_latest, invalidate_cached,
     invalidate_cached_through, update_cache, check_cache

LEMMA DirtyIsVal ==
  ASSUME TypeOK, NEW c \in Client, view[c].id + 1 \in Ids,
         Dirty(c).epoch \in Epochs
  PROVE  Dirty(c) \in Vals
<1> DEFINE v == view[c].val
           kind == op[c].kind
<1>1. v \in Vals /\ op[c].arg \in Nat
  BY Zenon DEF TypeOK, Objects, Ops
<1> USE DEF Vals, Epochs, Ids
<1>2. CASE kind = "create"
  BY <1>1, <1>2, MaxEpochAssumption DEF Dirty, InitialVal
<1>3. CASE kind \in Claims
  BY <1>1, <1>3 DEF Dirty, Claims
<1>4. CASE kind = "checkpoint"
  BY <1>1, <1>4 DEF Dirty
<1>5. CASE kind = "release"
  BY <1>1, <1>5, Zenon DEF Dirty
<1>6. CASE kind \in {"none", "load", "update", "refresh"}
  BY <1>1, <1>6 DEF Dirty
<1> QED
  BY <1>2, <1>3, <1>4, <1>5, <1>6 DEF TypeOK, Claims, Ops

LEMMA TypeInit == Init => TypeOK
  BY ConstantTypes, MaxIdAssumption, MaxEpochAssumption, MaxProbesAssumption
     DEF Init, TypeOK, PCs, Phases, Epochs

LEMMA TypeNext == TypeOK /\ [Next]_vars => TypeOK'
<1> SUFFICES ASSUME TypeOK, [Next]_vars PROVE TypeOK'
  OBVIOUS
<1> USE MaxIdAssumption, MaxProbesAssumption, StoreOfAssumption
<1>1. ASSUME NEW c \in Client, Load(c) PROVE TypeOK'
  <2>1. StoreOf[c] \in Store /\ cache[StoreOf[c]] \in Objects
    BY DEF TypeOK
  <2>2. op' \in [Client -> Ops]
    <3>1. \E x \in Ops : op' = [op EXCEPT ![c] = x]
      BY <1>1, Zenon DEF Load, Refresh, StartRead, Ops
    <3> QED
      BY <3>1 DEF TypeOK
  <2>3. pc' \in [Client -> PCs]
    <3>1. \E x \in PCs : pc' = [pc EXCEPT ![c] = x]
      BY <1>1, Zenon DEF Load, Refresh, StartRead, PCs
    <3> QED
      BY <3>1 DEF TypeOK
  <2>4. hand' \in [Client -> Objects]
    <3>1. hand' = [hand EXCEPT ![c] = cache[StoreOf[c]]]
      BY <1>1 DEF Load, Refresh, StartRead
    <3> QED
      BY <3>1, <2>1 DEF TypeOK
  <2>5. probes' \in [Client -> 0 .. MaxProbes - 1]
    <3>1. probes' = [probes EXCEPT ![c] = 0]
      BY <1>1 DEF Load, Refresh, StartRead
    <3> QED
      BY <3>1 DEF TypeOK
  <2>6. floor' \in [Client -> Nat]
    <3>1. floor' = [floor EXCEPT ![c] = Len(log)]
      BY <1>1, Zenon DEF Load, Refresh, StartRead
    <3> QED
      BY <3>1 DEF TypeOK
  <2> QED
    BY <1>1, <2>2, <2>3, <2>4, <2>5, <2>6, Zenon DEF TypeOK, Load, store, client, gc, history
<1>2. ASSUME NEW c \in Client, RefreshView(c) PROVE TypeOK'
  <2>1. StoreOf[c] \in Store /\ cache[StoreOf[c]] \in Objects
    BY DEF TypeOK
  <2>2. op' \in [Client -> Ops]
    <3>1. \E x \in Ops : op' = [op EXCEPT ![c] = x]
      BY <1>2, Zenon DEF RefreshView, Refresh, StartRead, Ops
    <3> QED
      BY <3>1 DEF TypeOK
  <2>3. pc' \in [Client -> PCs]
    <3>1. \E x \in PCs : pc' = [pc EXCEPT ![c] = x]
      BY <1>2, Zenon DEF RefreshView, Refresh, StartRead, PCs
    <3> QED
      BY <3>1 DEF TypeOK
  <2>4. hand' \in [Client -> Objects]
    <3>1. hand' = [hand EXCEPT ![c] = cache[StoreOf[c]]]
      BY <1>2 DEF RefreshView, Refresh, StartRead
    <3> QED
      BY <3>1, <2>1 DEF TypeOK
  <2>5. probes' \in [Client -> 0 .. MaxProbes - 1]
    <3>1. probes' = [probes EXCEPT ![c] = 0]
      BY <1>2 DEF RefreshView, Refresh, StartRead
    <3> QED
      BY <3>1 DEF TypeOK
  <2>6. floor' \in [Client -> Nat]
    <3>1. floor' = [floor EXCEPT ![c] = Len(log)]
      BY <1>2 DEF RefreshView, Refresh, StartRead
    <3> QED
      BY <3>1 DEF TypeOK
  <2> QED
    BY <1>2, <2>2, <2>3, <2>4, <2>5, <2>6, Zenon DEF TypeOK, RefreshView, store, client, gc, history
<1>3. ASSUME NEW c \in Client, StartMutation(c) PROVE TypeOK'
  <2>1. view[c].val.refs \subseteq Ids
    BY Zenon DEF TypeOK, Objects, Vals
  <2>2. \A m \in Mutations(c) : m \in Ops
    BY <2>1 DEF Mutations, Ops, Ids, Epochs
  <2>3. op' \in [Client -> Ops]
    <3>1. \E x \in Ops : op' = [op EXCEPT ![c] = x]
      BY <1>3, <2>2, Zenon DEF StartMutation, PCs
    <3> QED
      BY <3>1 DEF TypeOK
  <2>4. pc' \in [Client -> PCs]
    <3>1. \E x \in PCs : pc' = [pc EXCEPT ![c] = x]
      BY <1>3 DEF StartMutation, PCs
    <3> QED
      BY <3>1 DEF TypeOK
  <2> QED
    BY <1>3, <2>3, <2>4, Zenon DEF TypeOK, StartMutation, store, client, gc, history
<1>4. ASSUME NEW c \in Client, ProbeMissing(c) PROVE TypeOK'
  <2>1. pc' \in [Client -> PCs]
    <3>1. \E x \in PCs : pc' = [pc EXCEPT ![c] = x]
      BY <1>4 DEF ProbeMissing, PCs
    <3> QED
      BY <3>1 DEF TypeOK
  <2>2. probes' \in [Client -> 0 .. MaxProbes - 1]
    <3>1. probes' = [probes EXCEPT ![c] = 0]
      BY <1>4 DEF ProbeMissing, PCs
    <3> QED
      BY <3>1 DEF TypeOK
  <2> QED
    BY <1>4, <2>1, <2>2, Zenon DEF TypeOK, ProbeMissing, store, client, gc, history
<1>5. ASSUME NEW c \in Client, ProbeFound(c) PROVE TypeOK'
  <2> DEFINE next == [id |-> hand[c].id + 1, val |-> Get(hand[c].id + 1)]
  <2>1. StoreOf[c] \in Store /\ next \in Objects
    BY <1>5 DEF TypeOK, ProbeFound, Get, Objects, Ids
  <2>2. hand' \in [Client -> Objects]
    <3>1. hand' = [hand EXCEPT ![c] = next]
      BY <1>5, Zenon DEF ProbeFound, PCs
    <3> QED
      BY <3>1, <2>1 DEF TypeOK
  <2>3. cache' \in [Store -> Objects]
    <3>1. cache' = maybe_cache_latest(StoreOf[c], next)
      BY <1>5 DEF ProbeFound, PCs
    <3> QED
      BY <3>1, <2>1, CacheTypes, Zenon DEF TypeOK
  <2>4. pc' \in [Client -> PCs]
    <3>1. \E x \in PCs : pc' = [pc EXCEPT ![c] = x] \/ pc' = pc
      BY <1>5 DEF ProbeFound, PCs
    <3> QED
      BY <3>1, Zenon DEF TypeOK
  <2>5. probes' \in [Client -> 0 .. MaxProbes - 1]
    <3>1. \/ probes' = [probes EXCEPT ![c] = 0]
          \/ probes[c] + 1 # MaxProbes /\ probes' = [probes EXCEPT ![c] = probes[c] + 1]
      BY <1>5 DEF ProbeFound, PCs
    <3>2. probes \in [Client -> 0 .. MaxProbes - 1] /\ probes[c] \in 0 .. MaxProbes - 1
      BY DEF TypeOK
    <3> QED
      BY <3>1, <3>2
  <2> QED
    BY <1>5, <2>2, <2>3, <2>4, <2>5, Zenon DEF TypeOK, ProbeFound, store, client, gc, history
<1>6. ASSUME NEW c \in Client, ListFound(c) PROVE TypeOK'
  <2>1. StoreOf[c] \in Store /\ cache[StoreOf[c]] \in Objects
    BY DEF TypeOK
  <2>2. \A n \in Ids : [NoObject EXCEPT !.id = n] \in Objects
    BY ConstantTypes DEF NoObject, Objects, Ids
  <2>3. hand' \in [Client -> Objects]
    <3>1. \E x \in Objects : hand' = [hand EXCEPT ![c] = x]
      BY <1>6, <2>1, <2>2 DEF ListFound, PCs
    <3> QED
      BY <3>1 DEF TypeOK
  <2>4. pc' \in [Client -> PCs]
    <3>1. \E x \in PCs : pc' = [pc EXCEPT ![c] = x]
      BY <1>6 DEF ListFound, PCs
    <3> QED
      BY <3>1 DEF TypeOK
  <2> QED
    BY <1>6, <2>3, <2>4, Zenon DEF TypeOK, ListFound, store, client, gc, history
<1>7. ASSUME NEW c \in Client, ListEmpty(c) PROVE TypeOK'
  <2>1. StoreOf[c] \in Store /\ cache[StoreOf[c]] \in Objects
    BY DEF TypeOK
  <2>2. cache' \in [Store -> Objects]
    <3>1. cache' = invalidate_cached(StoreOf[c], cache[StoreOf[c]].id)
      BY <1>7 DEF ListEmpty, PCs, Ops
    <3> QED
      BY <3>1, <2>1, CacheTypes, Zenon DEF TypeOK
  <2>3. hand' \in [Client -> Objects]
    <3>1. hand' = [hand EXCEPT ![c] = NoObject]
      BY <1>7, Zenon DEF ListEmpty, PCs, Ops
    <3> QED
      BY <3>1, ConstantTypes DEF TypeOK
  <2>4. pc' \in [Client -> PCs]
    <3>1. \E x \in PCs : pc' = [pc EXCEPT ![c] = x]
      BY <1>7 DEF ListEmpty, PCs, Ops
    <3> QED
      BY <3>1 DEF TypeOK
  <2>5. op' \in [Client -> Ops]
    <3>1. \/ op' = [op EXCEPT ![c] = [kind |-> "create", arg |-> 0]]
          \/ op' = op
      BY <1>7 DEF ListEmpty, PCs, Ops
    <3>2. op \in [Client -> Ops]
      BY DEF TypeOK
    <3> QED
      BY <3>1, <3>2 DEF Ops
  <2>6. floor' \in [Client -> Nat]
    <3>1. floor' = [floor EXCEPT ![c] = 0]
      BY <1>7, Zenon DEF ListEmpty, PCs, Ops
    <3> QED
      BY <3>1, Zenon DEF TypeOK
  <2> QED
    BY <1>7, <2>2, <2>3, <2>4, <2>5, <2>6, Zenon DEF TypeOK, ListEmpty, store, client, gc, history
<1>8. ASSUME NEW c \in Client, GetMissing(c) PROVE TypeOK'
  <2>1. pc' \in [Client -> PCs]
    <3>1. \E x \in PCs : pc' = [pc EXCEPT ![c] = x]
      BY <1>8 DEF GetMissing, PCs
    <3> QED
      BY <3>1 DEF TypeOK
  <2> QED
    BY <1>8, <2>1, Zenon DEF TypeOK, GetMissing, store, client, gc, history
<1>9. ASSUME NEW c \in Client, GetFound(c) PROVE TypeOK'
  <2> DEFINE listed == [id |-> hand[c].id, val |-> Get(hand[c].id)]
  <2>1. StoreOf[c] \in Store /\ listed \in Objects
    BY <1>9, Zenon DEF TypeOK, GetFound, Get, Objects, Ids
  <2>2. hand' \in [Client -> Objects]
    <3>1. hand' = [hand EXCEPT ![c] = listed]
      BY <1>9, Zenon DEF GetFound, PCs
    <3> QED
      BY <3>1, <2>1 DEF TypeOK
  <2>3. cache' \in [Store -> Objects]
    <3>1. cache' = maybe_cache_latest(StoreOf[c], listed)
      BY <1>9 DEF GetFound, PCs
    <3> QED
      BY <3>1, <2>1, CacheTypes, Zenon DEF TypeOK
  <2>4. pc' \in [Client -> PCs]
    <3>1. \E x \in PCs : pc' = [pc EXCEPT ![c] = x]
      BY <1>9 DEF GetFound, PCs
    <3> QED
      BY <3>1 DEF TypeOK
  <2> QED
    BY <1>9, <2>2, <2>3, <2>4, Zenon DEF TypeOK, GetFound, store, client, gc, history
<1>10. ASSUME NEW c \in Client, ReadAccepted(c) PROVE TypeOK'
  <2> DEFINE kept == invalidate_cached(StoreOf[c], hand[c].id)
  <2>1. StoreOf[c] \in Store /\ hand[c] \in Objects
    BY DEF TypeOK
  <2>2. kept \in [Store -> Objects] /\ kept[StoreOf[c]] \in Objects
    BY <2>1, CacheTypes
  <2>3. bcache' \in [Store -> 0 .. MaxId]
    <3>1. bcache' = check_cache(StoreOf[c], hand[c].id)
      BY <1>10 DEF ReadAccepted, PCs
    <3> QED
      BY <3>1, <2>1, CacheTypes, Zenon DEF TypeOK
  <2>4. view' \in [Client -> Objects]
    <3>1. view' = [view EXCEPT ![c] = hand[c]]
      BY <1>10 DEF ReadAccepted, PCs
    <3> QED
      BY <3>1, <2>1 DEF TypeOK
  <2>5. pc' \in [Client -> PCs]
    <3>1. \E x \in PCs : pc' = [pc EXCEPT ![c] = x]
      BY <1>10, Zenon DEF ReadAccepted, PCs
    <3> QED
      BY <3>1 DEF TypeOK
  <2>6. op' \in [Client -> Ops]
    <3>1. op' = [op EXCEPT ![c] = NoOp] \/ op' = [op EXCEPT ![c] = op[c]]
      BY <1>10, Zenon DEF ReadAccepted, PCs
    <3> QED
      BY <3>1, ConstantTypes, Zenon DEF TypeOK
  <2>7. hand' \in [Client -> Objects]
    <3>1. hand' = [hand EXCEPT ![c] = NoObject]
      BY <1>10 DEF ReadAccepted, PCs
    <3> QED
      BY <3>1, ConstantTypes DEF TypeOK
  <2>8. floor' \in [Client -> Nat]
    <3>1. floor' = [floor EXCEPT ![c] = 0]
      BY <1>10 DEF ReadAccepted, PCs
    <3> QED
      BY <3>1 DEF TypeOK
  <2> QED
    BY <1>10, <2>3, <2>4, <2>5, <2>6, <2>7, <2>8, Zenon DEF TypeOK, ReadAccepted, store, client, gc, history
<1>11. ASSUME NEW c \in Client, ReadRejected(c) PROVE TypeOK'
  <2> DEFINE kept == invalidate_cached(StoreOf[c], hand[c].id)
  <2>1. StoreOf[c] \in Store /\ hand[c] \in Objects
    BY DEF TypeOK
  <2>2. kept \in [Store -> Objects] /\ kept[StoreOf[c]] \in Objects
    BY <2>1, CacheTypes
  <2>3. bcache' \in [Store -> 0 .. MaxId]
    <3>1. bcache' = check_cache(StoreOf[c], hand[c].id)
      BY <1>11, Zenon DEF ReadRejected, StartRead, PCs
    <3> QED
      BY <3>1, <2>1, CacheTypes, Zenon DEF TypeOK
  <2>4. cache' \in [Store -> Objects]
    <3>1. cache' = kept
      BY <1>11, Zenon DEF ReadRejected, StartRead, PCs
    <3> QED
      BY <3>1, <2>2, Zenon DEF TypeOK
  <2>5. pc' \in [Client -> PCs]
    <3>1. \E x \in PCs : pc' = [pc EXCEPT ![c] = x]
      BY <1>11, Zenon DEF ReadRejected, StartRead, PCs
    <3> QED
      BY <3>1 DEF TypeOK
  <2>6. hand' \in [Client -> Objects]
    <3>1. hand' = [hand EXCEPT ![c] = kept[StoreOf[c]]]
      BY <1>11 DEF ReadRejected, StartRead, PCs
    <3> QED
      BY <3>1, <2>2 DEF TypeOK
  <2>7. probes' \in [Client -> 0 .. MaxProbes - 1]
    <3>1. probes' = [probes EXCEPT ![c] = 0]
      BY <1>11 DEF ReadRejected, StartRead, PCs
    <3> QED
      BY <3>1 DEF TypeOK
  <2> QED
    BY <1>11, <2>3, <2>4, <2>5, <2>6, <2>7, Zenon DEF TypeOK, ReadRejected, store, client, gc, history
<1>12. ASSUME NEW c \in Client, GiveUp(c) PROVE TypeOK'
  <2>1. pc' \in [Client -> PCs]
    <3>1. \E x \in PCs : pc' = [pc EXCEPT ![c] = x]
      BY <1>12, Zenon DEF GiveUp, PCs
    <3> QED
      BY <3>1 DEF TypeOK
  <2>2. op' \in [Client -> Ops]
    <3>1. op' = [op EXCEPT ![c] = NoOp]
      BY <1>12 DEF GiveUp, PCs
    <3> QED
      BY <3>1, ConstantTypes DEF TypeOK
  <2> QED
    BY <1>12, <2>1, <2>2, Zenon DEF TypeOK, GiveUp, store, client, gc, history
<1>13. ASSUME NEW c \in Client, PutCreates(c) PROVE TypeOK'
  <2>1. StoreOf[c] \in Store /\ cache[StoreOf[c]] \in Objects
    BY DEF TypeOK
  <2> DEFINE new == [id |-> view[c].id + 1, val |-> Dirty(c)]
  <2>2. new.id \in Ids /\ new.val \in Vals /\ new \in Objects
    BY <1>13, DirtyIsVal DEF PutCreates, Writing, Objects, Ids
  <2>3. files' \in [Ids -> Vals \cup {Absent}]
    <3>1. files' = [files EXCEPT ![new.id] = new.val]
      BY <1>13, Zenon DEF PutCreates, PCs
    <3> QED
      BY <3>1, <2>2, Zenon DEF TypeOK
  <2>4. cache' \in [Store -> Objects]
    <3>1. cache' = maybe_cache_latest(StoreOf[c], new)
      BY <1>13 DEF PutCreates, PCs
    <3> QED
      BY <3>1, <2>1, <2>2, CacheTypes, Zenon DEF TypeOK
  <2>5. hand' \in [Client -> Objects]
    <3>1. hand' = [hand EXCEPT ![c] = new]
      BY <1>13 DEF PutCreates, PCs
    <3> QED
      BY <3>1, <2>2 DEF TypeOK
  <2>6. pc' \in [Client -> PCs]
    <3>1. \E x \in PCs : pc' = [pc EXCEPT ![c] = x]
      BY <1>13, Zenon DEF PutCreates, PCs
    <3> QED
      BY <3>1 DEF TypeOK
  <2>7. log' \in Seq(Vals)
    <3>1. log' = Append(log, new.val) \/ log' = log
      BY <1>13, Zenon DEF PutCreates, PCs
    <3>2. log \in Seq(Vals)
      BY Zenon DEF TypeOK
    <3> QED
      BY <3>1, <3>2, <2>2
  <2> QED
    BY <1>13, <2>3, <2>4, <2>5, <2>6, <2>7, Zenon DEF TypeOK, PutCreates, store, client, gc, history
<1>14. ASSUME NEW c \in Client, PutConflicts(c) PROVE TypeOK'
  <2>1. StoreOf[c] \in Store /\ cache[StoreOf[c]] \in Objects
    BY DEF TypeOK
  <2>2. pc' \in [Client -> PCs]
    <3>1. \E x \in PCs : pc' = [pc EXCEPT ![c] = x]
      BY <1>14, Zenon DEF PutConflicts, OnConflict, Refresh, StartRead, PCs
    <3> QED
      BY <3>1 DEF TypeOK
  <2>3. op' \in [Client -> Ops]
    <3>1. op' = [op EXCEPT ![c] = NoOp] \/ op' = op
      BY <1>14, Zenon DEF PutConflicts, OnConflict, Refresh, StartRead, PCs
    <3> QED
      BY <3>1, ConstantTypes, Zenon DEF TypeOK
  <2>4. hand' \in [Client -> Objects]
    <3>1. \/ hand' = [hand EXCEPT ![c] = NoObject]
          \/ hand' = [hand EXCEPT ![c] = cache[StoreOf[c]]]
      BY <1>14, Zenon DEF PutConflicts, OnConflict, Refresh, StartRead, PCs
    <3> QED
      BY <3>1, <2>1, ConstantTypes, Zenon DEF TypeOK
  <2>5. probes' \in [Client -> 0 .. MaxProbes - 1]
    <3>1. probes' = [probes EXCEPT ![c] = 0] \/ probes' = probes
      BY <1>14, Zenon DEF PutConflicts, OnConflict, Refresh, StartRead, PCs
    <3>2. probes \in [Client -> 0 .. MaxProbes - 1]
      BY DEF TypeOK
    <3> QED
      BY <3>1, <3>2
  <2>6. floor' \in [Client -> Nat]
    <3>1. floor' = [floor EXCEPT ![c] = Len(log)] \/ floor' = floor
      BY <1>14, Zenon DEF PutConflicts, OnConflict, Refresh, StartRead, PCs
    <3>2. floor \in [Client -> Nat] /\ Len(log) \in Nat
      BY DEF TypeOK
    <3> QED
      BY <3>1, <3>2, Zenon
  <2> QED
    BY <1>14, <2>2, <2>3, <2>4, <2>5, <2>6, Zenon DEF TypeOK, PutConflicts, store, client, gc, history
<1>15. ASSUME NEW c \in Client, WriteAccepted(c) PROVE TypeOK'
  <2> DEFINE kept == invalidate_cached(StoreOf[c], hand[c].id)
  <2>1. StoreOf[c] \in Store /\ hand[c] \in Objects
    BY DEF TypeOK
  <2>2. kept \in [Store -> Objects] /\ kept[StoreOf[c]] \in Objects
    BY <2>1, CacheTypes
  <2>3. hand[c].val.epoch \in Epochs
    BY <2>1, Zenon DEF Objects, Vals
  <2>4. bcache' \in [Store -> 0 .. MaxId]
    <3>1. bcache' = check_cache(StoreOf[c], hand[c].id)
      BY <1>15 DEF WriteAccepted, PCs
    <3> QED
      BY <3>1, <2>1, CacheTypes, Zenon DEF TypeOK
  <2>5. view' \in [Client -> Objects]
    <3>1. view' = [view EXCEPT ![c] = hand[c]]
      BY <1>15 DEF WriteAccepted, PCs
    <3> QED
      BY <3>1, <2>1 DEF TypeOK
  <2>6. epoch' \in [Client -> Epochs]
    <3>1. epoch' = [epoch EXCEPT ![c] = hand[c].val.epoch] \/ epoch' = [epoch EXCEPT ![c] = epoch[c]]
      BY <1>15, Zenon DEF WriteAccepted, PCs
    <3> QED
      BY <3>1, <2>3, Zenon DEF TypeOK
  <2>7. acks' \in [Ids -> Nat]
    <3>1. acks' = [acks EXCEPT ![hand[c].id] = acks[hand[c].id] + 1]
      BY <1>15 DEF WriteAccepted, PCs
    <3>2. acks \in [Ids -> Nat] /\ \A i \in Ids : acks[i] + 1 \in Nat
      BY DEF TypeOK
    <3> QED
      BY <3>1, <3>2, Zenon
  <2>8. pc' \in [Client -> PCs]
    <3>1. \E x \in PCs : pc' = [pc EXCEPT ![c] = x]
      BY <1>15 DEF WriteAccepted, PCs
    <3> QED
      BY <3>1 DEF TypeOK
  <2>9. op' \in [Client -> Ops]
    <3>1. op' = [op EXCEPT ![c] = NoOp]
      BY <1>15 DEF WriteAccepted, PCs
    <3> QED
      BY <3>1, ConstantTypes DEF TypeOK
  <2>10. hand' \in [Client -> Objects]
    <3>1. hand' = [hand EXCEPT ![c] = NoObject]
      BY <1>15 DEF WriteAccepted, PCs
    <3> QED
      BY <3>1, ConstantTypes DEF TypeOK
  <2> QED
    BY <1>15, <2>4, <2>5, <2>6, <2>7, <2>8, <2>9, <2>10, Zenon DEF TypeOK, WriteAccepted, store, client, gc, history
<1>16. ASSUME NEW c \in Client, WriteRejected(c) PROVE TypeOK'
  <2> DEFINE kept == invalidate_cached(StoreOf[c], hand[c].id)
  <2>1. StoreOf[c] \in Store /\ hand[c] \in Objects
    BY DEF TypeOK
  <2>2. kept \in [Store -> Objects] /\ kept[StoreOf[c]] \in Objects
    BY <2>1, CacheTypes
  <2>3. bcache' \in [Store -> 0 .. MaxId]
    <3>1. bcache' = check_cache(StoreOf[c], hand[c].id)
      BY <1>16, Zenon DEF WriteRejected, OnConflict, Refresh, StartRead, PCs
    <3> QED
      BY <3>1, <2>1, CacheTypes, Zenon DEF TypeOK
  <2>4. cache' \in [Store -> Objects]
    <3>1. cache' = kept
      BY <1>16, Zenon DEF WriteRejected, OnConflict, Refresh, StartRead, PCs
    <3> QED
      BY <3>1, <2>2 DEF TypeOK
  <2>5. pc' \in [Client -> PCs]
    <3>1. \E x \in PCs : pc' = [pc EXCEPT ![c] = x]
      BY <1>16, Zenon DEF WriteRejected, OnConflict, Refresh, StartRead, PCs
    <3> QED
      BY <3>1 DEF TypeOK
  <2>6. op' \in [Client -> Ops]
    <3>1. op' = [op EXCEPT ![c] = NoOp] \/ op' = op
      BY <1>16, Zenon DEF WriteRejected, OnConflict, Refresh, StartRead, PCs
    <3> QED
      BY <3>1, ConstantTypes, Zenon DEF TypeOK
  <2>7. hand' \in [Client -> Objects]
    <3>1. \/ hand' = [hand EXCEPT ![c] = NoObject]
          \/ hand' = [hand EXCEPT ![c] = kept[StoreOf[c]]]
      BY <1>16 DEF WriteRejected, OnConflict, Refresh, StartRead, PCs
    <3> QED
      BY <3>1, <2>2, ConstantTypes, Zenon DEF TypeOK
  <2>8. probes' \in [Client -> 0 .. MaxProbes - 1]
    <3>1. probes' = [probes EXCEPT ![c] = 0] \/ probes' = probes
      BY <1>16 DEF WriteRejected, OnConflict, Refresh, StartRead, PCs
    <3>2. probes \in [Client -> 0 .. MaxProbes - 1]
      BY DEF TypeOK
    <3> QED
      BY <3>1, <3>2
  <2>9. floor' \in [Client -> Nat]
    <3>1. floor' = [floor EXCEPT ![c] = Len(log)] \/ floor' = floor
      BY <1>16, Zenon DEF WriteRejected, OnConflict, Refresh, StartRead, PCs
    <3>2. floor \in [Client -> Nat] /\ Len(log) \in Nat
      BY DEF TypeOK
    <3> QED
      BY <3>1, <3>2
  <2> QED
    BY <1>16, <2>3, <2>4, <2>5, <2>6, <2>7, <2>8, <2>9, Zenon DEF TypeOK, WriteRejected, store, client, gc, history
<1>17. ASSUME NEW s \in Mortal, Crash(s) PROVE TypeOK'
  <2>1. NoObject \in Objects /\ NoOp \in Ops /\ 0 \in Epochs
    BY ConstantTypes, MaxEpochAssumption DEF Epochs
  <2>2. /\ cache' \in [Store -> Objects] /\ bcache' \in [Store -> 0 .. MaxId]
        /\ view' \in [Client -> Objects] /\ hand' \in [Client -> Objects]
        /\ op' \in [Client -> Ops]
    BY <1>17, <2>1 DEF TypeOK, Crash
  <2>3. pc' \in [Client -> PCs] /\ phase' \in [Gc -> Phases]
    BY <1>17, Zenon DEF TypeOK, Crash, PCs, Phases
  <2>4. /\ epoch' \in [Client -> Epochs] /\ probes' \in [Client -> 0 .. MaxProbes - 1]
        /\ floor' \in [Client -> Nat]
    BY <1>17, <2>1 DEF TypeOK, Crash
  <2>5. /\ last' \in [Gc -> 0 .. MaxId] /\ old' \in [Gc -> SUBSET Ids]
        /\ base' \in [Gc -> 0 .. MaxId]
    BY <1>17 DEF TypeOK, Crash
  <2> QED
    BY <1>17, <2>2, <2>3, <2>4, <2>5, Zenon DEF TypeOK, Crash
<1>18. ASSUME NEW g \in Gc, GcList(g) PROVE TypeOK'
  <2>1. \A n : Present \ {n} \in SUBSET Ids
    BY DEF Present
  <2>2. phase' \in [Gc -> Phases]
    <3>1. \E x \in Phases : phase' = [phase EXCEPT ![g] = x]
      BY <1>18 DEF GcList, Phases
    <3> QED
      BY <3>1 DEF TypeOK
  <2>3. last' \in [Gc -> 0 .. MaxId]
    <3>1. \E x \in Ids : last' = [last EXCEPT ![g] = x]
      BY <1>18, Zenon DEF GcList, Phases
    <3> QED
      BY <3>1 DEF TypeOK, Ids
  <2>4. old' \in [Gc -> SUBSET Ids]
    <3>1. \E x \in SUBSET Ids : old' = [old EXCEPT ![g] = x]
      BY <1>18, <2>1, Zenon DEF GcList, Phases
    <3> QED
      BY <3>1, Zenon DEF TypeOK
  <2> QED
    BY <1>18, <2>2, <2>3, <2>4, Zenon DEF TypeOK, GcList, store, client, gc, history
<1>19. ASSUME NEW g \in Gc, GcRead(g) PROVE TypeOK'
  <2>1. phase' \in [Gc -> Phases]
    <3>1. \E x \in Phases : phase' = [phase EXCEPT ![g] = x]
      BY <1>19, Zenon DEF GcRead, Phases
    <3> QED
      BY <3>1 DEF TypeOK
  <2>2. last' \in [Gc -> 0 .. MaxId]
    <3>1. last' = [last EXCEPT ![g] = 0]
      BY <1>19 DEF GcRead, Phases
    <3> QED
      BY <3>1 DEF TypeOK
  <2>3. old' \in [Gc -> SUBSET Ids]
    <3>1. \E x \in SUBSET old[g] : old' = [old EXCEPT ![g] = x]
      BY <1>19, Zenon DEF GcRead, Phases
    <3> QED
      BY <3>1 DEF TypeOK
  <2> QED
    BY <1>19, <2>1, <2>2, <2>3, Zenon DEF TypeOK, GcRead, store, client, gc, history
<1>20. ASSUME NEW g \in Gc, GcFinish(g) PROVE TypeOK'
  <2>1. phase' \in [Gc -> Phases]
    <3>1. \E x \in Phases : phase' = [phase EXCEPT ![g] = x]
      BY <1>20, Zenon DEF GcFinish, Phases
    <3> QED
      BY <3>1 DEF TypeOK
  <2>2. last' \in [Gc -> 0 .. MaxId]
    <3>1. last' = [last EXCEPT ![g] = 0]
      BY <1>20, Zenon DEF GcFinish, Phases
    <3> QED
      BY <3>1 DEF TypeOK
  <2>3. old' \in [Gc -> SUBSET Ids]
    <3>1. old' = [old EXCEPT ![g] = {}]
      BY <1>20, Zenon DEF GcFinish, Phases
    <3> QED
      BY <3>1, Zenon DEF TypeOK
  <2> QED
    BY <1>20, <2>1, <2>2, <2>3, Zenon DEF TypeOK, GcFinish, store, client, gc, history
<1>21. ASSUME NEW g \in Gc, GcCovered(g) PROVE TypeOK'
  <2>1. StoreOf[g] \in Store /\ Known(g) \in 0 .. MaxId
    BY Zenon DEF TypeOK, Known
  <2>2. \A i : invalidate_cached_through(StoreOf[g], i) \in [Store -> Objects]
    BY <2>1, CacheTypes, ConstantTypes, Zenon
  <2>3. \A t \in Ids : update_cache(StoreOf[g], t) \in [Store -> 0 .. MaxId]
    <3>1. Ids \subseteq 0 .. MaxId
      BY DEF Ids
    <3> QED
      BY <2>1, <3>1, CacheTypes, ConstantTypes, Zenon
  <2>4. bcache' \in [Store -> 0 .. MaxId]
    <3>1. bcache' = update_cache(StoreOf[g], Known(g))
      BY <1>21 DEF GcCovered, Phases
    <3> QED
      BY <3>1, <2>1, CacheTypes, Zenon DEF TypeOK
  <2>5. cache' \in [Store -> Objects]
    <3>1. \E t \in Ids : cache' = invalidate_cached_through(StoreOf[g], t)
      BY <1>21 DEF GcCovered, Phases
    <3> QED
      BY <3>1, <2>1, <2>2 DEF TypeOK
  <2>6. phase' \in [Gc -> Phases]
    <3>1. \E x \in Phases : phase' = [phase EXCEPT ![g] = x]
      BY <1>21 DEF GcCovered, Phases
    <3> QED
      BY <3>1 DEF TypeOK
  <2> QED
    BY <1>21, <2>4, <2>5, <2>6, Zenon DEF TypeOK, GcCovered, store, client, gc, history
<1>22. ASSUME NEW g \in Gc, GcAdvance(g) PROVE TypeOK'
  <2>1. StoreOf[g] \in Store /\ Known(g) \in 0 .. MaxId
    BY DEF TypeOK, Known
  <2>2. \A i : invalidate_cached_through(StoreOf[g], i) \in [Store -> Objects]
    BY <2>1, CacheTypes, ConstantTypes, Zenon
  <2>3. \A t \in Ids : update_cache(StoreOf[g], t) \in [Store -> 0 .. MaxId]
    <3>1. Ids \subseteq 0 .. MaxId
      BY DEF Ids
    <3> QED
      BY <2>1, <3>1, CacheTypes, ConstantTypes, Zenon
  <2>4. bcache' \in [Store -> 0 .. MaxId]
    <3>1. bcache' = update_cache(StoreOf[g], Known(g))
      BY <1>22, Zenon DEF GcAdvance, Phases
    <3> QED
      BY <3>1, <2>1, CacheTypes, Zenon DEF TypeOK
  <2>5. base' \in [Gc -> 0 .. MaxId]
    <3>1. base' = [base EXCEPT ![g] = Known(g)]
      BY <1>22, Zenon DEF GcAdvance, Phases
    <3> QED
      BY <3>1, <2>1, Zenon DEF TypeOK
  <2>6. phase' \in [Gc -> Phases]
    <3>1. \E x \in Phases : phase' = [phase EXCEPT ![g] = x]
      BY <1>22, Zenon DEF GcAdvance, Phases
    <3> QED
      BY <3>1 DEF TypeOK
  <2> QED
    BY <1>22, <2>4, <2>5, <2>6, Zenon DEF TypeOK, GcAdvance, store, client, gc, history
<1>23. ASSUME NEW g \in Gc, GcPut(g) PROVE TypeOK'
  <2>1. StoreOf[g] \in Store /\ Known(g) \in 0 .. MaxId
    BY DEF TypeOK, Known
  <2>2. \A i : invalidate_cached_through(StoreOf[g], i) \in [Store -> Objects]
    BY <2>1, CacheTypes, ConstantTypes, Zenon
  <2>3. \A t \in Ids : update_cache(StoreOf[g], t) \in [Store -> 0 .. MaxId]
    <3>1. Ids \subseteq 0 .. MaxId
      BY DEF Ids
    <3> QED
      BY <2>1, <3>1, CacheTypes, ConstantTypes, Zenon
  <2>4. boundary' \in 0 .. MaxId
    <3>1. boundary' \in Ids
      BY <1>23, Zenon DEF GcPut, Phases
    <3> QED
      BY <3>1 DEF TypeOK, Ids
  <2>5. bcache' \in [Store -> 0 .. MaxId]
    <3>1. \E t \in Ids : bcache' = update_cache(StoreOf[g], t)
      BY <1>23, Zenon DEF GcPut, Phases
    <3> QED
      BY <3>1, <2>3 DEF TypeOK
  <2>6. cache' \in [Store -> Objects]
    <3>1. \E t \in Ids : cache' = invalidate_cached_through(StoreOf[g], t)
      BY <1>23, Zenon DEF GcPut, Phases
    <3> QED
      BY <3>1, <2>1, <2>2 DEF TypeOK
  <2>7. base' \in [Gc -> 0 .. MaxId]
    <3>1. base' = [base EXCEPT ![g] = 0]
      BY <1>23, Zenon DEF GcPut, Phases
    <3> QED
      BY <3>1 DEF TypeOK
  <2>8. phase' \in [Gc -> Phases]
    <3>1. \E x \in Phases : phase' = [phase EXCEPT ![g] = x]
      BY <1>23, Zenon DEF GcPut, Phases
    <3> QED
      BY <3>1 DEF TypeOK
  <2> QED
    BY <1>23, <2>4, <2>5, <2>6, <2>7, <2>8, Zenon DEF TypeOK, GcPut, store, client, gc, history
<1>24. ASSUME NEW g \in Gc, GcPutFails(g) PROVE TypeOK'
  <2>1. base' \in [Gc -> 0 .. MaxId]
    <3>1. base' = [base EXCEPT ![g] = 0]
      BY <1>24 DEF GcPutFails, Phases
    <3> QED
      BY <3>1 DEF TypeOK
  <2>2. phase' \in [Gc -> Phases]
    <3>1. \E x \in Phases : phase' = [phase EXCEPT ![g] = x]
      BY <1>24, Zenon DEF GcPutFails, Phases
    <3> QED
      BY <3>1 DEF TypeOK
  <2> QED
    BY <1>24, <2>1, <2>2, Zenon DEF TypeOK, GcPutFails, store, client, gc, history
<1>25. ASSUME NEW g \in Gc, GcReread(g) PROVE TypeOK'
  <2>1. bcache' \in [Store -> 0 .. MaxId]
    <3>1. bcache' = update_cache(StoreOf[g], boundary)
      BY <1>25 DEF GcReread, Phases
    <3> QED
      BY <3>1, CacheTypes, Zenon DEF TypeOK
  <2>2. phase' \in [Gc -> Phases]
    <3>1. \E x \in Phases : phase' = [phase EXCEPT ![g] = x]
      BY <1>25 DEF GcReread, Phases
    <3> QED
      BY <3>1 DEF TypeOK
  <2> QED
    BY <1>25, <2>1, <2>2, Zenon DEF TypeOK, GcReread, store, client, gc, history
<1>26. ASSUME NEW g \in Gc, NEW i \in Ids, GcDelete(g, i) PROVE TypeOK'
  <2>1. files' \in [Ids -> Vals \cup {Absent}]
    <3>1. files' = [files EXCEPT ![i] = Absent]
      BY <1>26, Zenon DEF GcDelete
    <3> QED
      BY <3>1, Zenon DEF TypeOK
  <2>2. cache' \in [Store -> Objects]
    <3>1. cache' = invalidate_cached(StoreOf[g], i)
      BY <1>26, Zenon DEF GcDelete
    <3> QED
      BY <3>1, CacheTypes, Zenon DEF TypeOK
  <2>3. old' \in [Gc -> SUBSET Ids]
    <3>1. old' = [old EXCEPT ![g] = old[g] \ {i}]
      BY <1>26, Zenon DEF GcDelete
    <3> QED
      BY <3>1, Zenon DEF TypeOK
  <2> QED
    BY <1>26, <2>1, <2>2, <2>3, Zenon DEF TypeOK, GcDelete, store, client, gc, history
<1>27. CASE UNCHANGED vars
  BY <1>27, Zenon DEF TypeOK, vars
<1> QED
  BY <1>1, <1>2, <1>3, <1>4, <1>5, <1>6, <1>7, <1>8, <1>9, <1>10, <1>11, <1>12,
     <1>13, <1>14, <1>15, <1>16, <1>17, <1>18, <1>19, <1>20, <1>21, <1>22, <1>23,
     <1>24, <1>25, <1>26, <1>27, StoreOfAssumption, Zenon
     DEF Next, ClientNext, ReadStep, WriteStep, GcNext

(***************************************************************************)
(* Facts about single steps                                                *)
(***************************************************************************)
LEMMA LogFacts ==
  ASSUME TypeOK, LogInv
  PROVE  /\ Len(log) \in Nat /\ Len(log) <= MaxId
         /\ \A i \in 1 .. Len(log) : i \in Ids /\ log[i] \in Vals /\ log[i].epoch \in Nat
         /\ \A i \in 1 .. Len(log) : i > boundary => files[i] = log[i] /\ i \in Present
         /\ \A i \in Present : i <= Len(log)
         /\ Len(log) > 0 => Len(log) > boundary /\ Len(log) \in Present
         /\ boundary \in Nat
<1>1. log \in Seq(Vals) /\ Len(log) \in Nat /\ boundary \in 0 .. MaxId
  BY DEF TypeOK
<1>2. \A i \in 1 .. Len(log) : log[i] \in Vals
  BY <1>1
<1>3. \A i \in 1 .. Len(log) : i \in Ids /\ log[i].epoch \in Nat
  BY <1>1, <1>2, MaxIdAssumption DEF LogInv, Ids, Vals, Epochs
<1>4. \A i \in 1 .. Len(log) : i > boundary => files[i] = log[i] /\ i \in Present
  BY <1>1, <1>2, <1>3, ConstantTypes DEF LogInv, UnfencedHistoryIntact, Present
<1>5. \A i \in Present : i <= Len(log)
  BY <1>1, MaxIdAssumption DEF LogInv, UnfencedHistoryIntact, Present, Ids
<1>6. Len(log) > 0 => Len(log) > boundary
  BY <1>1, Zenon DEF LogInv, UnfencedHistoryIntact
<1> QED
  BY <1>1, <1>2, <1>3, <1>4, <1>5, <1>6 DEF LogInv

\* A write that creates a file appends a version, or is behind the boundary.
LEMMA CreateCases ==
  ASSUME IndInv, NEW c \in Client, PutCreates(c)
  PROVE  /\ [id |-> view[c].id + 1, val |-> Dirty(c)] \in Objects
         /\ view[c].id + 1 \in Ids /\ Dirty(c) \in Vals
         /\ \/ /\ view[c].id = Len(log) /\ view[c].id + 1 > boundary
               /\ log' = Append(log, Dirty(c))
            \/ /\ view[c].id + 1 <= Len(log) /\ view[c].id + 1 <= boundary
               /\ log' = log
<1>1. view[c].id + 1 \in Ids /\ Dirty(c) \in Vals
  BY DirtyIsVal, Zenon DEF IndInv, PutCreates, Writing
<1>2. view[c].id \in Nat /\ view[c].id <= Len(log) /\ files[view[c].id + 1] = Absent
  BY DEF IndInv, TypeOK, Objects, ClientInv, ViewOK, PutCreates
<1>3. /\ Len(log) \in Nat /\ boundary \in Nat
      /\ \A i \in 1 .. Len(log) : i > boundary => files[i] = log[i] /\ log[i] \in Vals
      /\ Len(log) > 0 => Len(log) > boundary
      /\ Len(log) = 0 => boundary = 0
  BY LogFacts DEF IndInv, LogInv, UnfencedHistoryIntact
<1>4. log' = IF view[c].id + 1 > Len(log) THEN Append(log, Dirty(c)) ELSE log
  BY Zenon DEF PutCreates
<1>5. view[c].id + 1 <= Len(log) => view[c].id + 1 <= boundary
  BY <1>2, <1>3, ConstantTypes
<1>6. view[c].id + 1 > Len(log) => view[c].id = Len(log) /\ view[c].id + 1 > boundary
  BY <1>2, <1>3
<1>7. [id |-> view[c].id + 1, val |-> Dirty(c)] \in Objects
  BY <1>1, ConstantTypes, MaxIdAssumption DEF Ids
<1> QED
  BY <1>1, <1>2, <1>3, <1>4, <1>5, <1>6, <1>7

\* No mutation lowers the epoch, and a claim raises it.
LEMMA DirtyEpoch ==
  ASSUME IndInv, NEW c \in Client, Writing(c)
  PROVE  /\ Dirty(c).epoch >= view[c].val.epoch
         /\ op[c].kind \in Claims => Dirty(c).epoch > view[c].val.epoch
         /\ op[c].kind \notin Claims => Dirty(c).epoch = view[c].val.epoch
<1> DEFINE v == view[c].val
           kind == op[c].kind
<1>1. v \in Vals /\ v.epoch \in Nat /\ op[c].arg \in Nat
  BY DEF IndInv, TypeOK, Objects, Ops, Vals, Epochs
<1>2. CASE kind = "create"
  BY <1>1, <1>2 DEF Dirty, InitialVal, Claims, IndInv, ClientInv, ControlOK, ViewOK
<1>3. CASE kind = "init"
  BY <1>1, <1>3 DEF Dirty, Vals, Claims
<1>4. CASE kind \in {"claim", "claim_exact"}
  BY <1>1, <1>4 DEF Dirty, Vals, Writing, ClaimFails, Claims
<1>5. CASE kind = "checkpoint"
  BY <1>1, <1>5 DEF Dirty, Vals, Claims
<1>6. CASE kind = "release"
  BY <1>1, <1>6 DEF Dirty, Vals, Claims
<1>7. CASE kind \in {"none", "load", "update", "refresh"}
  BY <1>1, <1>7 DEF Dirty, Claims
<1> QED
  BY <1>2, <1>3, <1>4, <1>5, <1>6, <1>7, Zenon DEF IndInv, TypeOK, Ops

\* The steps that touch neither the files, nor the boundary, nor the versions.
LEMMA Quiet ==
  ASSUME [Next]_vars
  PROVE  \/ \E c \in Client : PutCreates(c)
         \/ \E g \in Gc : GcPut(g)
         \/ \E g \in Gc, i \in Ids : GcDelete(g, i)
         \/ UNCHANGED <<files, boundary, log>>
<1>1. ASSUME NEW c \in Client, ClientNext(c)
      PROVE  PutCreates(c) \/ UNCHANGED <<files, boundary, log>>
  <2>1. CASE Load(c) \/ RefreshView(c) \/ StartMutation(c)
    BY <2>1, Zenon DEF Load, RefreshView, StartMutation, store, history
  <2>2. CASE ReadStep(c)
    BY <2>2, Zenon DEF ReadStep, ProbeMissing, ProbeFound, ListFound, ListEmpty,
       GetMissing, GetFound, ReadAccepted, ReadRejected, store, history
  <2>3. CASE WriteStep(c)
    BY <2>3, Zenon DEF WriteStep, GiveUp, PutConflicts, WriteAccepted, WriteRejected,
       store, history
  <2> QED
    BY <1>1, <2>1, <2>2, <2>3, Zenon DEF ClientNext
<1>2. ASSUME NEW g \in Gc, GcNext(g)
      PROVE  \/ GcPut(g) \/ \E i \in Ids : GcDelete(g, i)
             \/ UNCHANGED <<files, boundary, log>>
  BY <1>2, Zenon DEF GcNext, GcList, GcRead, GcFinish, GcCovered, GcAdvance, GcPutFails,
     GcReread, store, history
<1>3. ASSUME NEW s \in Mortal, Crash(s) PROVE UNCHANGED <<files, boundary, log>>
  BY <1>3, Zenon DEF Crash
<1> QED
  BY <1>1, <1>2, <1>3, Zenon DEF Next, vars

\* Versions are only appended and the boundary only rises.
Advances ==
  /\ Len(log) \in Nat /\ Len(log') \in Nat /\ Len(log) <= Len(log')
  /\ \A i \in 1 .. Len(log) : log'[i] = log[i]
  /\ boundary \in Nat /\ boundary' \in Nat /\ boundary <= boundary'

LEMMA StepAdvances ==
  ASSUME IndInv, TypeOK', [Next]_vars
  PROVE  Advances
<1>1. /\ log \in Seq(Vals) /\ Len(log) \in Nat /\ Len(log') \in Nat
      /\ boundary \in Nat /\ boundary' \in Nat
  BY DEF IndInv, TypeOK
<1>2. ASSUME NEW c \in Client, PutCreates(c) PROVE Advances
  <2>1. Dirty(c) \in Vals /\ (log' = Append(log, Dirty(c)) \/ log' = log)
    BY <1>2, CreateCases, Zenon
  <2>2. boundary' = boundary
    BY <1>2 DEF PutCreates
  <2> QED
    BY <1>1, <2>1, <2>2 DEF Advances
<1>3. ASSUME NEW g \in Gc, GcPut(g) PROVE Advances
  <2>1. PICK t \in Ids : IsTarget(g, t) /\ boundary' = t
    BY <1>3, Zenon DEF GcPut
  <2>2. base[g] < t /\ boundary = base[g] /\ log' = log
    BY <1>3, <2>1, Zenon DEF GcPut, IndInv, GcInv, history
  <2> QED
    BY <1>1, <2>1, <2>2 DEF Advances
<1>4. ASSUME log' = log, boundary' = boundary PROVE Advances
  <2>1. Len(log) <= Len(log) /\ boundary <= boundary
    BY <1>1
  <2> QED
    BY <1>1, <1>4, <2>1, Zenon DEF Advances
<1>5. ASSUME NEW g \in Gc, NEW i \in Ids, GcDelete(g, i) PROVE Advances
  BY <1>4, <1>5, Zenon DEF GcDelete, history
<1>6. CASE UNCHANGED <<files, boundary, log>>
  BY <1>4, <1>6, Zenon
<1> QED
  BY <1>2, <1>3, <1>5, <1>6, Quiet, Zenon

LEMMA FaithfulStays ==
  ASSUME Advances, NEW o, o.id \in Nat, Faithful(o)
  PROVE  Faithful(o)'
  BY DEF Advances, Faithful

\* What one step does to one client: nothing, a step of its own, or its crash.
Same(c) ==
  /\ pc'[c] = pc[c] /\ op'[c] = op[c] /\ view'[c] = view[c]
  /\ epoch'[c] = epoch[c] /\ hand'[c] = hand[c] /\ floor'[c] = floor[c]
Down(c) ==
  /\ pc'[c] = "down" /\ op'[c] = NoOp /\ view'[c] = NoObject /\ epoch'[c] = 0

LEMMA OtherClient ==
  ASSUME TypeOK, NEW c \in Client, NEW d \in Client, d # c, ClientNext(d)
  PROVE  Same(c)
<1>1. /\ DOMAIN pc = Client /\ DOMAIN op = Client /\ DOMAIN view = Client
      /\ DOMAIN epoch = Client /\ DOMAIN hand = Client /\ DOMAIN floor = Client
  BY Zenon DEF TypeOK
<1>2. CASE Load(d) \/ RefreshView(d) \/ StartMutation(d)
  BY <1>1, <1>2, Zenon DEF Load, RefreshView, StartMutation, Refresh, StartRead,
     history, Same
<1>3. CASE ReadStep(d)
  BY <1>1, <1>3, Zenon DEF ReadStep, ProbeMissing, ProbeFound, ListFound,
     ListEmpty, GetMissing, GetFound, ReadAccepted, ReadRejected, StartRead,
     history, Same
<1>4. CASE WriteStep(d)
  BY <1>1, <1>4, Zenon DEF WriteStep, GiveUp, PutCreates, PutConflicts,
     WriteAccepted, WriteRejected, OnConflict, Refresh, StartRead, history, Same
<1> QED
  BY <1>2, <1>3, <1>4, Zenon DEF ClientNext

LEMMA Frame ==
  ASSUME TypeOK, [Next]_vars, NEW c \in Client
  PROVE  Same(c) \/ ClientNext(c) \/ Down(c)
<1>1. ASSUME NEW d \in Client, d # c, ClientNext(d) PROVE Same(c)
  BY <1>1, OtherClient, Zenon
<1>2. ASSUME NEW g \in Gc, GcNext(g) PROVE Same(c)
  BY <1>2, Zenon DEF GcNext, GcList, GcRead, GcFinish, GcCovered, GcAdvance, GcPut,
     GcPutFails, GcReread, GcDelete, client, history, Same
<1>3. ASSUME NEW s \in Mortal, Crash(s) PROVE Same(c) \/ Down(c)
  BY <1>3, Zenon DEF Crash, Same, Down
<1>4. CASE UNCHANGED vars
  BY <1>4, Zenon DEF vars, Same
<1> QED
  BY <1>1, <1>2, <1>3, <1>4 DEF Next

(***************************************************************************)
(* Each part of the invariant is preserved                                 *)
(***************************************************************************)
\* The numbers a client's write compares.
LEMMA ViewId ==
  ASSUME TypeOK, NEW c \in Client
  PROVE  /\ view[c].id \in Nat
         /\ log \in Seq(Vals) /\ Len(log) \in Nat /\ boundary \in Nat
<1>1. view[c].id \in 0 .. MaxId /\ log \in Seq(Vals) /\ boundary \in 0 .. MaxId
  BY Zenon DEF TypeOK, Objects
<1> QED
  BY <1>1

LEMMA LogStep ==
  ASSUME IndInv, TypeOK', [Next]_vars
  PROVE  LogInv'
<1>1. TypeOK /\ LogInv /\ Advances
  BY StepAdvances, Zenon DEF IndInv
<1>2. ASSUME NEW c \in Client, PutCreates(c) PROVE LogInv'
  <2> DEFINE n == view[c].id + 1
  <2>1. /\ n \in Ids /\ n \in Nat /\ Dirty(c) \in Vals
        /\ \/ n = Len(log) + 1 /\ n > boundary /\ log' = Append(log, Dirty(c))
           \/ n <= Len(log) /\ n <= boundary /\ log' = log
    <3>1. view[c].id \in Nat /\ Len(log) \in Nat
      BY <1>1, ViewId, Zenon
    <3>2. /\ view[c].id + 1 \in Ids /\ Dirty(c) \in Vals
          /\ \/ /\ view[c].id = Len(log) /\ view[c].id + 1 > boundary
                /\ log' = Append(log, Dirty(c))
             \/ /\ view[c].id + 1 <= Len(log) /\ view[c].id + 1 <= boundary
                /\ log' = log
      BY <1>2, CreateCases, Zenon
    <3> QED
      BY <3>1, <3>2
  <2>2. /\ files \in [Ids -> Vals \cup {Absent}] /\ boundary \in Nat /\ boundary' = boundary
        /\ files' = [files EXCEPT ![n] = Dirty(c)]
        /\ log \in Seq(Vals) /\ Len(log) \in Nat /\ Len(log) <= MaxId
    BY <1>1, <1>2, LogFacts, Zenon DEF TypeOK, PutCreates
  <2>3. CASE n = Len(log) + 1 /\ n > boundary /\ log' = Append(log, Dirty(c))
    <3>1. Len(log') = Len(log) + 1 /\ Len(log') <= MaxId /\ log'[Len(log) + 1] = Dirty(c)
      BY <2>1, <2>2, <2>3, MaxIdAssumption DEF Ids
    <3>2. UnfencedHistoryIntact'
      BY <1>1, <2>1, <2>2, <2>3, <3>1, MaxIdAssumption
         DEF LogInv, UnfencedHistoryIntact, Ids
    <3>3. \A i \in 1 .. Len(log) : log[i].epoch <= Dirty(c).epoch
      <4>1. /\ view[c].id = Len(log) /\ Dirty(c).epoch >= view[c].val.epoch
            /\ Len(log) > 0 => view[c].val = log[Len(log)]
        <5>1. view[c].id \in Nat /\ Len(log) \in Nat /\ Dirty(c).epoch >= view[c].val.epoch
          BY <1>1, <1>2, ViewId, DirtyEpoch, Zenon DEF PutCreates
        <5>2. view[c].val = IF view[c].id = 0 THEN InitialVal ELSE log[view[c].id]
          BY Zenon DEF IndInv, ClientInv, ViewOK
        <5>3. view[c].id = Len(log)
          BY <2>3, <5>1
        <5>4. Len(log) > 0 => Len(log) # 0
          BY <5>1
        <5> QED
          BY <5>1, <5>2, <5>3, <5>4, Zenon
      <4>2. \A i \in 1 .. Len(log) : log[i].epoch <= log[Len(log)].epoch
        <5>1. \A i \in 1 .. Len(log) : i <= Len(log) /\ Len(log) \in 1 .. Len(log)
          BY <2>2
        <5> QED
          BY <1>1, <5>1, Zenon DEF LogInv, EpochsNeverDecrease
      <4>3. Dirty(c).epoch \in Nat
        BY <2>1 DEF Vals, Epochs
      <4>4. \A i \in 1 .. Len(log) : log[i].epoch \in Nat
        BY <1>1, LogFacts, Zenon
      <4>5. ASSUME NEW i \in 1 .. Len(log) PROVE log[i].epoch <= Dirty(c).epoch
        <5>1. Len(log) > 0 /\ Len(log) \in 1 .. Len(log)
          BY <2>2
        <5>2. /\ log[i].epoch \in Nat /\ log[Len(log)].epoch \in Nat
              /\ log[i].epoch <= log[Len(log)].epoch
              /\ Dirty(c).epoch >= log[Len(log)].epoch
          BY <4>1, <4>2, <4>4, <5>1, Zenon
        <5> QED
          BY <4>3, <5>2
      <4> QED
        BY <4>5, Zenon
    <3>4. EpochsNeverDecrease'
      <4>1. \A i \in 1 .. Len(log) : log'[i] = log[i] /\ log[i].epoch \in Nat
        BY <1>1, LogFacts, Zenon DEF Advances
      <4>2. Dirty(c).epoch <= Dirty(c).epoch
        BY <2>1 DEF Vals, Epochs
      <4>3. ASSUME NEW i \in 1 .. Len(log'), NEW j \in 1 .. Len(log'), i <= j
            PROVE  /\ j \in 1 .. Len(log) \/ j = Len(log) + 1
                   /\ i \in 1 .. Len(log) \/ i = Len(log) + 1
                   /\ j \in 1 .. Len(log) => i \in 1 .. Len(log)
        BY <2>2, <3>1, <4>3
      <4>4. \A i, j \in 1 .. Len(log) : i <= j => log[i].epoch <= log[j].epoch
        BY <1>1, Zenon DEF LogInv, EpochsNeverDecrease
      <4>5. ASSUME NEW i \in 1 .. Len(log'), NEW j \in 1 .. Len(log'), i <= j
            PROVE  log'[i].epoch <= log'[j].epoch
        BY <3>1, <3>3, <4>1, <4>2, <4>3, <4>4, <4>5, Zenon
      <4> QED
        BY <4>5, Zenon DEF EpochsNeverDecrease
    <3> QED
      BY <3>1, <3>2, <3>4, Zenon DEF LogInv
  <2>4. CASE n <= Len(log) /\ n <= boundary /\ log' = log
    BY <1>1, <2>1, <2>2, <2>4, MaxIdAssumption
       DEF LogInv, UnfencedHistoryIntact, EpochsNeverDecrease, Ids
  <2> QED
    BY <2>1, <2>3, <2>4, Zenon
<1>3. ASSUME NEW g \in Gc, GcPut(g) PROVE LogInv'
  <2>1. PICK t \in Ids : t \in old[g] /\ boundary' = t
    BY <1>3, Zenon DEF GcPut, IsTarget
  <2>2. t < Len(log) /\ files' = files /\ log' = log
    BY <1>3, <2>1, Zenon DEF GcPut, IndInv, GcInv, history
  <2>3. boundary \in Nat /\ boundary' \in Nat /\ boundary <= boundary'
    BY <1>1, Zenon DEF Advances
  <2>4. \A i \in Ids : i > boundary' => i > boundary
    BY <2>3 DEF Ids
  <2> QED
    BY <1>1, <2>1, <2>2, <2>4, Zenon DEF LogInv, UnfencedHistoryIntact, EpochsNeverDecrease
<1>4. ASSUME NEW g \in Gc, NEW i \in Ids, GcDelete(g, i) PROVE LogInv'
  <2>1. /\ i <= boundary /\ files' = [files EXCEPT ![i] = Absent]
        /\ boundary' = boundary /\ log' = log
    BY <1>4, Zenon DEF GcDelete, IndInv, GcInv, history
  <2>2. boundary \in 0 .. MaxId /\ files \in [Ids -> Vals \cup {Absent}]
    BY <1>1, Zenon DEF TypeOK
  <2>3. \A k \in Ids : k > boundary => k # i
    BY <2>1, <2>2 DEF Ids
  <2>4. \A k \in Ids : k > boundary => files'[k] = files[k]
    BY <2>1, <2>2, <2>3, Zenon
  <2> QED
    BY <1>1, <2>1, <2>4, Zenon DEF LogInv, UnfencedHistoryIntact, EpochsNeverDecrease
<1>5. CASE UNCHANGED <<files, boundary, log>>
  BY <1>1, <1>5, Zenon DEF LogInv, UnfencedHistoryIntact, EpochsNeverDecrease
<1> QED
  BY <1>2, <1>3, <1>4, <1>5, Quiet, Zenon

LEMMA StoreStep ==
  ASSUME IndInv, TypeOK', [Next]_vars
  PROVE  StoreInv'
<1> SUFFICES ASSUME NEW s \in Store
             PROVE  Faithful(cache[s])' /\ bcache'[s] <= boundary'
  BY Zenon DEF StoreInv
<1>1. TypeOK /\ LogInv /\ Advances
  BY StepAdvances, Zenon DEF IndInv
<1>2. /\ Faithful(cache[s]) /\ bcache[s] <= boundary
      /\ cache[s] \in Objects /\ cache[s].id \in Nat /\ bcache[s] \in Nat
  <2>1. /\ Faithful(cache[s]) /\ bcache[s] <= boundary
        /\ cache[s] \in Objects /\ cache[s].id \in 0 .. MaxId /\ bcache[s] \in 0 .. MaxId
    BY <1>1, ConstantTypes, Zenon DEF IndInv, StoreInv, TypeOK
  <2>2. cache[s].id \in Nat /\ bcache[s] \in Nat
    BY <2>1
  <2> QED
    BY <2>1, <2>2, Zenon
<1>3. cache'[s] = cache[s] => Faithful(cache[s])'
  <2>1. /\ cache[s].id <= Len(log)
        /\ cache[s].id > boundary => cache[s].val = log[cache[s].id]
    BY <1>2, Zenon DEF Faithful
  <2>2. cache[s].id <= Len(log') /\ (cache[s].id > boundary' => cache[s].val = log'[cache[s].id])
    BY <1>1, <1>2, <2>1 DEF Advances
  <2> QED
    BY <2>2, Zenon DEF Faithful
<1>4. cache'[s] = NoObject => Faithful(cache[s])'
  <2>1. Len(log') \in Nat /\ boundary' \in Nat
    BY <1>1, Zenon DEF Advances
  <2>2. 0 <= Len(log') /\ ~ (0 > boundary')
    BY <2>1
  <2>3. NoObject.id = 0
    BY DEF NoObject
  <2> QED
    BY <2>2, <2>3, Zenon DEF Faithful
<1>5. cache \in [Store -> Objects] /\ bcache \in [Store -> 0 .. MaxId]
  BY <1>1, Zenon DEF TypeOK
<1>6. /\ \A t \in Store : \A i : invalidate_cached(t, i)[s] \in {cache[s], NoObject}
      /\ \A t \in Store : \A i : invalidate_cached_through(t, i)[s] \in {cache[s], NoObject}
      /\ \A t \in Store : \A o : maybe_cache_latest(t, o)[s] \in {cache[s], o}
  BY <1>5, Zenon DEF invalidate_cached, invalidate_cached_through, maybe_cache_latest
<1>7. /\ \A t \in Store, b \in Nat : b <= boundary' => update_cache(t, b)[s] <= boundary'
      /\ \A t \in Store : \A i : check_cache(t, i)[s] <= boundary'
  <2>1. /\ boundary \in Nat /\ boundary' \in Nat /\ boundary <= boundary'
        /\ bcache[s] <= boundary /\ bcache[s] \in Nat
    BY <1>1, <1>2, Zenon DEF Advances
  <2>2. bcache[s] <= boundary'
    BY <2>1
  <2>3. \A t \in Store : \A b : update_cache(t, b)[s] \in {b, bcache[s]}
    BY <1>5, Zenon DEF update_cache
  <2> QED
    BY <2>1, <2>2, <2>3, Zenon DEF check_cache
<1>8. ASSUME NEW c \in Client, ClientNext(c) PROVE bcache'[s] <= boundary'
  <2>1. bcache' = bcache \/ \E i : bcache' = check_cache(StoreOf[c], i)
    <3>1. CASE Load(c) \/ RefreshView(c) \/ StartMutation(c)
      BY <3>1, Zenon DEF Load, RefreshView, StartMutation, store
    <3>2. CASE ReadStep(c)
      BY <3>2, Zenon DEF ReadStep, ProbeMissing, ProbeFound, ListFound, ListEmpty,
         GetMissing, GetFound, ReadAccepted, ReadRejected, store
    <3>3. CASE WriteStep(c)
      BY <3>3, Zenon DEF WriteStep, GiveUp, PutCreates, PutConflicts, WriteAccepted,
         WriteRejected, store
    <3> QED
      BY <1>8, <3>1, <3>2, <3>3, Zenon DEF ClientNext
  <2>2. bcache[s] <= boundary'
    <3>1. boundary \in Nat /\ boundary' \in Nat /\ boundary <= boundary'
      BY <1>1, Zenon DEF Advances
    <3> QED
      BY <1>2, <3>1
  <2> QED
    BY <1>7, <2>1, <2>2, StoreOfAssumption, Zenon
<1>9. ASSUME NEW c \in Client, ClientNext(c) PROVE Faithful(cache[s])'
  <2>1. StoreOf[c] \in Store
    BY StoreOfAssumption
  <2>2. CASE UNCHANGED cache
    BY <1>3, <2>2, Zenon
  <2>3. CASE ProbeFound(c)
    <3> DEFINE next == [id |-> hand[c].id + 1, val |-> Get(hand[c].id + 1)]
    <3>1. next.val # Absent /\ cache' = maybe_cache_latest(StoreOf[c], next)
      BY <2>3, Zenon DEF ProbeFound
    <3>2. next.id \in Present /\ next.val = files[next.id]
      BY <3>1, Zenon DEF Get, Present
    <3>3. next.id \in Nat /\ Faithful(next)
      BY <1>1, <3>2, LogFacts DEF Faithful, Present, Ids
    <3>4. next.id <= Len(log') /\ (next.id > boundary' => next.val = log'[next.id])
      BY <1>1, <3>3, FaithfulStays, Zenon DEF Faithful
    <3> QED
      BY <1>3, <1>6, <2>1, <3>1, <3>4, Zenon DEF Faithful
  <2>4. CASE GetFound(c)
    <3> DEFINE listed == [id |-> hand[c].id, val |-> Get(hand[c].id)]
    <3>1. listed.val # Absent /\ cache' = maybe_cache_latest(StoreOf[c], listed)
      BY <2>4, Zenon DEF GetFound
    <3>2. listed.id \in Present /\ listed.val = files[listed.id]
      BY <3>1, Zenon DEF Get, Present
    <3>3. listed.id \in Nat /\ Faithful(listed)
      BY <1>1, <3>2, LogFacts DEF Faithful, Present, Ids
    <3>4. listed.id <= Len(log') /\ (listed.id > boundary' => listed.val = log'[listed.id])
      BY <1>1, <3>3, FaithfulStays, Zenon DEF Faithful
    <3> QED
      BY <1>3, <1>6, <2>1, <3>1, <3>4, Zenon DEF Faithful
  <2>5. CASE PutCreates(c)
    <3> DEFINE new == [id |-> view[c].id + 1, val |-> Dirty(c)]
    <3>1. cache' = maybe_cache_latest(StoreOf[c], new) /\ boundary' = boundary
      BY <2>5, Zenon DEF PutCreates
    <3>2. new.id <= Len(log') /\ (new.id > boundary => new.val = log'[new.id])
      <4>1. /\ view[c].id \in Nat /\ Len(log) \in Nat /\ log \in Seq(Vals)
            /\ boundary \in Nat
        BY <1>1, ViewId, Zenon
      <4>2. /\ Dirty(c) \in Vals
            /\ \/ view[c].id = Len(log) /\ log' = Append(log, Dirty(c))
               \/ /\ view[c].id + 1 <= Len(log) /\ view[c].id + 1 <= boundary
                  /\ log' = log
        BY <2>5, CreateCases, Zenon
      <4>3. CASE view[c].id = Len(log) /\ log' = Append(log, Dirty(c))
        <5>1. Len(log') = Len(log) + 1 /\ log'[Len(log) + 1] = Dirty(c)
          BY <4>1, <4>2, <4>3
        <5>2. Len(log) + 1 <= Len(log) + 1
          BY <4>1
        <5> QED
          BY <4>3, <5>1, <5>2, Zenon
      <4>4. CASE view[c].id + 1 <= Len(log) /\ view[c].id + 1 <= boundary /\ log' = log
        <5>1. ~ (view[c].id + 1 > boundary)
          BY <4>1, <4>4
        <5> QED
          BY <4>4, <5>1, Zenon
      <4> QED
        BY <4>2, <4>3, <4>4, Zenon
    <3> QED
      BY <1>3, <1>6, <2>1, <3>1, <3>2, Zenon DEF Faithful
  <2>6. CASE ListEmpty(c) \/ ReadRejected(c) \/ WriteRejected(c)
    <3>1. \E i : cache' = invalidate_cached(StoreOf[c], i)
      BY <2>6, Zenon DEF ListEmpty, ReadRejected, WriteRejected
    <3>2. cache'[s] \in {cache[s], NoObject}
      BY <1>6, <2>1, <3>1, Zenon
    <3> QED
      BY <1>3, <1>4, <3>2, Zenon
  <2>7. CASE Load(c) \/ RefreshView(c) \/ StartMutation(c) \/ ProbeMissing(c)
             \/ ListFound(c) \/ GetMissing(c) \/ ReadAccepted(c)
    BY <2>2, <2>7, Zenon DEF Load, RefreshView, StartMutation, ProbeMissing, ListFound,
       GetMissing, ReadAccepted, store
  <2>8. CASE GiveUp(c) \/ PutConflicts(c) \/ WriteAccepted(c)
    BY <2>2, <2>8, Zenon DEF GiveUp, PutConflicts, WriteAccepted, store
  <2> QED
    BY <1>9, <2>3, <2>4, <2>5, <2>6, <2>7, <2>8, Zenon DEF ClientNext, ReadStep, WriteStep
<1>10. ASSUME NEW g \in Gc, GcNext(g)
       PROVE  Faithful(cache[s])' /\ bcache'[s] <= boundary'
  <2>1. StoreOf[g] \in Store
    BY StoreOfAssumption, Zenon
  <2>2. /\ \/ cache' = cache \/ \E i : cache' = invalidate_cached(StoreOf[g], i)
           \/ \E i : cache' = invalidate_cached_through(StoreOf[g], i)
    BY <1>10, Zenon DEF GcNext, GcList, GcRead, GcFinish, GcCovered, GcAdvance, GcPut,
       GcPutFails, GcReread, GcDelete, store
  <2>3. bcache' = bcache \/ \E b \in Nat : b <= boundary' /\ bcache' = update_cache(StoreOf[g], b)
    <3>1. Known(g) \in Nat /\ Known(g) <= boundary /\ boundary \in Nat
      <4>1. boundary \in 0 .. MaxId /\ bcache[StoreOf[g]] \in 0 .. MaxId
            /\ bcache[StoreOf[g]] <= boundary
        BY <1>1, <2>1, Zenon DEF IndInv, StoreInv, TypeOK
      <4>2. Known(g) = boundary \/ Known(g) = bcache[StoreOf[g]]
        BY Zenon DEF Known
      <4> QED
        BY <4>1, <4>2
    <3>2. CASE GcCovered(g) \/ GcAdvance(g)
      BY <3>1, <3>2, Zenon DEF GcCovered, GcAdvance
    <3>3. CASE GcPut(g)
      <4>1. PICK t \in Ids : boundary' = t /\ bcache' = update_cache(StoreOf[g], t)
        BY <3>3, Zenon DEF GcPut
      <4>2. t \in Nat /\ t <= t
        BY DEF Ids
      <4> QED
        BY <4>1, <4>2, Zenon
    <3>4. CASE GcReread(g)
      <4>1. boundary <= boundary
        BY <3>1
      <4> QED
        BY <3>1, <3>4, <4>1, Zenon DEF GcReread
    <3>5. CASE GcList(g) \/ GcRead(g) \/ GcFinish(g) \/ GcPutFails(g)
               \/ \E i \in Ids : GcDelete(g, i)
      BY <3>5, Zenon DEF GcList, GcRead, GcFinish, GcPutFails, GcDelete, store
    <3> QED
      BY <1>10, <3>2, <3>3, <3>4, <3>5, Zenon DEF GcNext
  <2> QED
    <3>1. boundary \in Nat /\ boundary' \in Nat /\ boundary <= boundary'
      BY <1>1, Zenon DEF Advances
    <3>2. bcache[s] <= boundary'
      BY <1>2, <3>1
    <3>3. Faithful(cache[s])'
      <4>1. cache'[s] \in {cache[s], NoObject}
        BY <1>6, <2>1, <2>2, Zenon
      <4> QED
        BY <1>3, <1>4, <4>1, Zenon
    <3> QED
      BY <1>7, <2>1, <2>3, <3>2, <3>3, Zenon
<1>11. ASSUME NEW t \in Mortal, Crash(t)
       PROVE  Faithful(cache[s])' /\ bcache'[s] <= boundary'
  <2>1. cache'[s] \in {cache[s], NoObject} /\ bcache'[s] \in {bcache[s], 0}
    BY <1>5, <1>11, Zenon DEF Crash
  <2> QED
    <3>1. boundary \in Nat /\ boundary' \in Nat /\ boundary <= boundary'
      BY <1>1, Zenon DEF Advances
    <3>2. bcache[s] <= boundary' /\ 0 <= boundary'
      BY <1>2, <3>1
    <3> QED
      BY <1>3, <1>4, <2>1, <3>2, Zenon
<1>12. CASE UNCHANGED vars
  BY <1>2, <1>3, <1>12, Zenon DEF vars
<1> QED
  BY <1>8, <1>9, <1>10, <1>11, <1>12, Zenon DEF Next

=============================================================================
