-------------------------- MODULE SequencedStorage --------------------------
(***************************************************************************)
(* The transactional object of slatedb-txn-obj: a datum (the manifest, the *)
(* compactions file) stored as files with consecutive ids, created with    *)
(* put-if-absent, next to a durable boundary that fences the ids at or     *)
(* below it.  Several clients load it, claim an epoch, update it and       *)
(* refresh it; garbage collectors advance the boundary and delete files.   *)
(*                                                                         *)
(* One await of the code is one step: a GET, a PUT, a LIST or a DELETE of  *)
(* the object store is atomic, and anything may happen between two of them.*)
(* A file's data is its epoch and the manifest ids its checkpoints pin.    *)
(***************************************************************************)
EXTENDS Integers, Sequences

CONSTANTS
  Client,     \* clients: a FenceableTransactionalObject or a plain one
  Gc,         \* garbage collector tasks (ManifestGcTask, CompactionsGcTask)
  Store,      \* ObjectStoreSequencedStorageProtocol instances: one per process
  StoreOf,    \* the instance each client and each collector uses
  Runs,       \* the mutations each client runs: its role
  Mortal,     \* bound: the instances whose process may crash
  MaxProbes,  \* MAX_PROBES, 4 in the code
  MaxId,      \* bound: the highest file id of the instance
  MaxEpoch,   \* bound: the highest epoch a client claims
  Absent      \* stands for a file that does not exist

ASSUME MaxIdAssumption == MaxId \in Nat
ASSUME MaxEpochAssumption == MaxEpoch \in Nat
ASSUME MaxProbesAssumption == MaxProbes \in Nat \ {0}
ASSUME StoreOfAssumption ==
  StoreOf \in [Client \cup Gc -> Store] /\ Mortal \subseteq Store

Ids == 1 .. MaxId
Epochs == 0 .. MaxEpoch
Vals == [epoch : Epochs, refs : SUBSET Ids]

ASSUME AbsentAssumption == Absent \notin Vals

(***************************************************************************)
(* An identified object: (id, value).  Id 0 is the None of the code.       *)
(***************************************************************************)
Objects == [id : 0 .. MaxId, val : Vals]
InitialVal == [epoch |-> 0, refs |-> {}]
NoObject == [id |-> 0, val |-> InitialVal]

(***************************************************************************)
(* Operations a client runs.  "claim" is init_with_epoch, exact or not.    *)
(***************************************************************************)
NoOp == [kind |-> "none", arg |-> 0]
Ops == [kind : {"none", "load", "create", "init", "claim", "claim_exact",
                "update", "refresh", "checkpoint", "release"},
        arg : Nat]

PCs == {"down", "probe", "list", "get", "check", "write", "written", "ready",
        "fenced", "broken"}

VARIABLES
  files,     \* the objects in the store's directory
  boundary,  \* the durable boundary file; 0 when missing
  cache,     \* per instance: `latest`, the newest object it knows
  bcache,    \* per instance: the boundary it has seen; 0 for None
  pc,        \* per client: where it is
  op,        \* per client: the operation it is running
  view,      \* per client: the object in memory (id and object)
  epoch,     \* per client: local_epoch; 0 for a plain object
  hand,      \* per client: the object a read or a write is handling
  probes,    \* per client: successors probed by the running read
  phase,     \* per collector: where its pass is
  last,      \* per collector: the last file it listed
  old,       \* per collector: the files listed, then those to delete
  base,      \* per collector: the boundary its update is conditional on
  log,       \* history: the value each id had when it was first created
  acks,      \* history: how often a write of each id was reported successful
  floor      \* history: Len(log) when the client's running read started

store == <<files, boundary, cache, bcache>>
client == <<pc, op, view, epoch, hand, probes>>
gc == <<phase, last, old, base>>
history == <<log, acks, floor>>
vars == <<files, boundary, cache, bcache, pc, op, view, epoch, hand, probes,
          phase, last, old, base, log, acks, floor>>

-----------------------------------------------------------------------------
(***************************************************************************)
(* The cache of an instance                                                *)
(***************************************************************************)
Get(i) == IF i \in Ids THEN files[i] ELSE Absent
Present == {i \in Ids : files[i] # Absent}

\* Faulty variant: the first listed file.
IsFirst(n) == n \in Present /\ \A i \in Present : n <= i

\* The last file of a LIST
IsLast(n) == n \in Present /\ \A i \in Present : i <= n

\* maybe_cache_latest: only a newer id replaces the cached object.
maybe_cache_latest(s, o) ==
  IF o.id > cache[s].id THEN [cache EXCEPT ![s] = o] ELSE cache

\* Faulty variant: a rejected object stays in the cache.
StaysCached(s, i) == cache

\* invalidate_cached: forgets the cached object if it is the one named.
invalidate_cached(s, i) ==
  IF cache[s].id = i THEN [cache EXCEPT ![s] = NoObject] ELSE cache

\* invalidate_cached_through
invalidate_cached_through(s, b) ==
  IF cache[s].id <= b THEN [cache EXCEPT ![s] = NoObject] ELSE cache

(***************************************************************************)
(* The boundary: BoundaryObject::check compares with the cached boundary   *)
(* first and reads the file only if that passes; update_cache never moves  *)
(* the cached boundary back, and a missing file leaves it alone.           *)
(***************************************************************************)
\* Faulty variant: the durable boundary is not consulted.
AboveCachedBoundary(s, i) == i > bcache[s]

AboveBoundary(s, i) == i > bcache[s] /\ i > boundary
update_cache(s, b) == IF b > bcache[s] THEN [bcache EXCEPT ![s] = b] ELSE bcache
check_cache(s, i) == IF i > bcache[s] THEN update_cache(s, boundary) ELSE bcache

-----------------------------------------------------------------------------
Phases == {"idle", "read", "advance", "put", "reread", "delete"}

Init ==
  /\ files = [i \in Ids |-> Absent]
  /\ boundary = 0
  /\ cache = [s \in Store |-> NoObject]
  /\ bcache = [s \in Store |-> 0]
  /\ pc = [c \in Client |-> "down"]
  /\ op = [c \in Client |-> NoOp]
  /\ view = [c \in Client |-> NoObject]
  /\ epoch = [c \in Client |-> 0]
  /\ hand = [c \in Client |-> NoObject]
  /\ probes = [c \in Client |-> 0]
  /\ phase = [g \in Gc |-> "idle"]
  /\ last = [g \in Gc |-> 0]
  /\ old = [g \in Gc |-> {}]
  /\ base = [g \in Gc |-> 0]
  /\ log = << >>
  /\ acks = [i \in Ids |-> 0]
  /\ floor = [c \in Client |-> 0]

-----------------------------------------------------------------------------
(***************************************************************************)
(* try_read_latest.  StartRead is its entry, at the beginning of a load or *)
(* a refresh and again after a rejected check: it takes the cached object  *)
(* `o` as the one to probe from.                                           *)
(***************************************************************************)
StartRead(c, o) ==
  /\ pc' = [pc EXCEPT ![c] = IF o.id = 0 THEN "list" ELSE "probe"]
  /\ hand' = [hand EXCEPT ![c] = o]
  /\ probes' = [probes EXCEPT ![c] = 0]

Refresh(c, o) ==
  /\ StartRead(c, o)
  /\ floor' = [floor EXCEPT ![c] = Len(log)]

\* A missing successor ends the probing: the object in hand is the latest.
ProbeMissing(c) ==
  /\ pc[c] = "probe"
  /\ Get(hand[c].id + 1) = Absent
  /\ pc' = [pc EXCEPT ![c] = "check"]
  /\ probes' = [probes EXCEPT ![c] = 0]
  /\ UNCHANGED <<store, op, view, epoch, hand, gc, history>>

\* Faulty variant: the LIST comes one probe late.
ProbeFoundLate(c) ==
  LET next == [id |-> hand[c].id + 1, val |-> Get(hand[c].id + 1)] IN
  /\ pc[c] = "probe"
  /\ next.val # Absent
  /\ hand' = [hand EXCEPT ![c] = next]
  /\ cache' = maybe_cache_latest(StoreOf[c], next)
  /\ IF probes[c] = MaxProbes
     THEN /\ probes' = [probes EXCEPT ![c] = 0]
          /\ pc' = [pc EXCEPT ![c] = "list"]
     ELSE /\ probes' = [probes EXCEPT ![c] = @ + 1]
          /\ UNCHANGED pc
  /\ UNCHANGED <<files, boundary, bcache, op, view, epoch, gc, history>>

\* A successor is taken in hand and cached; MAX_PROBES of them force a LIST.
ProbeFound(c) ==
  LET next == [id |-> hand[c].id + 1, val |-> Get(hand[c].id + 1)] IN
  /\ pc[c] = "probe"
  /\ next.val # Absent
  /\ hand' = [hand EXCEPT ![c] = next]
  /\ cache' = maybe_cache_latest(StoreOf[c], next)
  /\ IF probes[c] + 1 = MaxProbes
     THEN /\ probes' = [probes EXCEPT ![c] = 0]
          /\ pc' = [pc EXCEPT ![c] = "list"]
     ELSE /\ probes' = [probes EXCEPT ![c] = @ + 1]
          /\ UNCHANGED pc
  /\ UNCHANGED <<files, boundary, bcache, op, view, epoch, gc, history>>

\* LIST: the last file is reused from the cache or fetched.
ListFound(c) ==
  LET s == StoreOf[c] IN
  /\ pc[c] = "list"
  /\ \E n \in Ids :
       /\ IsLast(n)
       /\ IF cache[s].id = n
          THEN /\ hand' = [hand EXCEPT ![c] = cache[s]]
               /\ pc' = [pc EXCEPT ![c] = "check"]
          ELSE /\ hand' = [hand EXCEPT ![c] = [NoObject EXCEPT !.id = n]]
               /\ pc' = [pc EXCEPT ![c] = "get"]
  /\ UNCHANGED <<store, op, view, epoch, probes, gc, history>>

\* An empty LIST clears the cache.  A load finds nothing and may create the
\* object; a refresh fails with InvalidObjectState.
ListEmpty(c) ==
  LET s == StoreOf[c] IN
  /\ pc[c] = "list"
  /\ Present = {}
  /\ cache' = invalidate_cached(s, cache[s].id)
  /\ hand' = [hand EXCEPT ![c] = NoObject]
  /\ floor' = [floor EXCEPT ![c] = 0]
  /\ \/ /\ op[c].kind = "load"
        /\ pc' = [pc EXCEPT ![c] = "write"]
        /\ op' = [op EXCEPT ![c] = [kind |-> "create", arg |-> 0]]
     \/ /\ op[c].kind # "load"
        /\ pc' = [pc EXCEPT ![c] = "broken"]
        /\ UNCHANGED op
  /\ UNCHANGED <<files, boundary, bcache, view, epoch, probes, gc, log, acks>>

\* The listed file may be gone when it is fetched: the LIST is retried.
GetMissing(c) ==
  /\ pc[c] = "get"
  /\ Get(hand[c].id) = Absent
  /\ pc' = [pc EXCEPT ![c] = "list"]
  /\ UNCHANGED <<store, op, view, epoch, hand, probes, gc, history>>

GetFound(c) ==
  LET listed == [id |-> hand[c].id, val |-> Get(hand[c].id)] IN
  /\ pc[c] = "get"
  /\ listed.val # Absent
  /\ pc' = [pc EXCEPT ![c] = "check"]
  /\ hand' = [hand EXCEPT ![c] = listed]
  /\ cache' = maybe_cache_latest(StoreOf[c], listed)
  /\ UNCHANGED <<files, boundary, bcache, op, view, epoch, probes, gc, history>>

\* Faulty variant: the epoch is not compared.
ReadAcceptedUnfenced(c) ==
  LET done == op[c].kind \in {"load", "refresh"} IN
  /\ pc[c] = "check"
  /\ AboveBoundary(StoreOf[c], hand[c].id)
  /\ bcache' = check_cache(StoreOf[c], hand[c].id)
  /\ view' = [view EXCEPT ![c] = hand[c]]
  /\ pc' = [pc EXCEPT ![c] = IF done THEN "ready" ELSE "write"]
  /\ op' = [op EXCEPT ![c] = IF done THEN NoOp ELSE @]
  /\ hand' = [hand EXCEPT ![c] = NoObject]
  /\ floor' = [floor EXCEPT ![c] = 0]
  /\ UNCHANGED <<files, boundary, cache, epoch, probes, gc, log, acks>>

\* A version above the boundary is returned and becomes the view; a fenceable
\* object compares its epoch with the stored one (check_epoch).
ReadAccepted(c) ==
  LET stored == hand[c].val.epoch
      done == op[c].kind \in {"load", "refresh"}
      fenced == epoch[c] > 0 /\ epoch[c] < stored
      panic == epoch[c] > stored
  IN
  /\ pc[c] = "check"
  /\ AboveBoundary(StoreOf[c], hand[c].id)
  /\ bcache' = check_cache(StoreOf[c], hand[c].id)
  /\ view' = [view EXCEPT ![c] = hand[c]]
  /\ pc' = [pc EXCEPT ![c] = IF fenced THEN "fenced"
                             ELSE IF panic THEN "broken"
                             ELSE IF done THEN "ready" ELSE "write"]
  /\ op' = [op EXCEPT ![c] = IF fenced \/ done THEN NoOp ELSE @]
  /\ hand' = [hand EXCEPT ![c] = NoObject]
  /\ floor' = [floor EXCEPT ![c] = 0]
  /\ UNCHANGED <<files, boundary, cache, epoch, probes, gc, log, acks>>

\* A version behind the boundary is forgotten and the read starts over.
ReadRejected(c) ==
  LET kept == invalidate_cached(StoreOf[c], hand[c].id) IN
  /\ pc[c] = "check"
  /\ ~ AboveBoundary(StoreOf[c], hand[c].id)
  /\ bcache' = check_cache(StoreOf[c], hand[c].id)
  /\ cache' = kept
  /\ StartRead(c, kept[StoreOf[c]])
  /\ UNCHANGED <<files, boundary, op, view, epoch, gc, history>>

-----------------------------------------------------------------------------
(***************************************************************************)
(* Operations a client starts                                              *)
(***************************************************************************)
\* try_load / load
Load(c) ==
  /\ pc[c] = "down"
  /\ op' = [op EXCEPT ![c] = [kind |-> "load", arg |-> 0]]
  /\ Refresh(c, cache[StoreOf[c]])
  /\ UNCHANGED <<store, view, epoch, gc, log, acks>>

\* An explicit refresh of a loaded object
RefreshView(c) ==
  /\ pc[c] = "ready"
  /\ op' = [op EXCEPT ![c] = [kind |-> "refresh", arg |-> 0]]
  /\ Refresh(c, cache[StoreOf[c]])
  /\ UNCHANGED <<store, view, epoch, gc, log, acks>>

\* The mutations run by maybe_apply_update and by the init loops.  A fenceable
\* object claims its epoch once, before it is used.
Claims == {"init", "claim", "claim_exact"}
Mutations(c) ==
  [kind : {"update", "checkpoint"}, arg : {0}]
    \cup [kind : {"release"}, arg : view[c].val.refs]
    \cup [kind : {"init"}, arg : {0}]
    \cup [kind : {"claim", "claim_exact"}, arg : Epochs]

StartMutation(c) ==
  /\ pc[c] = "ready"
  /\ \E m \in Mutations(c) :
       /\ m.kind \in Runs[c]
       /\ m.kind \in Claims => epoch[c] = 0
       /\ op' = [op EXCEPT ![c] = m]
  /\ pc' = [pc EXCEPT ![c] = "write"]
  /\ UNCHANGED <<store, view, epoch, hand, probes, gc, history>>

\* The dirty value: every mutation starts from the object in memory.
Dirty(c) ==
  LET v == view[c].val IN
  CASE op[c].kind = "create" -> InitialVal
    [] op[c].kind = "init" -> [v EXCEPT !.epoch = @ + 1]
    [] op[c].kind \in {"claim", "claim_exact"} -> [v EXCEPT !.epoch = op[c].arg]
    [] op[c].kind = "checkpoint" -> [v EXCEPT !.refs = @ \cup {view[c].id + 1}]
    [] op[c].kind = "release" -> [v EXCEPT !.refs = @ \ {op[c].arg}]
    [] OTHER -> v

\* Faulty variants: an equal epoch is claimed again; only exact claims fail.
ClaimFailsBelow(c) ==
  LET stored == view[c].val.epoch IN
  \/ op[c].kind \in {"claim", "claim_exact"} /\ op[c].arg < stored
  \/ op[c].kind = "claim_exact" /\ op[c].arg # stored + 1
ClaimFailsExact(c) ==
  op[c].kind = "claim_exact" /\ op[c].arg # view[c].val.epoch + 1

\* init_with_epoch gives up when the stored epoch has reached the claimed one,
\* or, for an exact claim, is not the one just below it.
ClaimFails(c) ==
  LET stored == view[c].val.epoch IN
  \/ op[c].kind \in {"claim", "claim_exact"} /\ op[c].arg <= stored
  \/ op[c].kind = "claim_exact" /\ op[c].arg # stored + 1

\* delete_checkpoint changes nothing when the checkpoint is gone already.
NothingToDo(c) == op[c].kind = "release" /\ op[c].arg \notin view[c].val.refs

GiveUp(c) ==
  /\ pc[c] = "write"
  /\ ClaimFails(c) \/ NothingToDo(c)
  /\ pc' = [pc EXCEPT ![c] = IF ClaimFails(c) THEN "fenced" ELSE "ready"]
  /\ op' = [op EXCEPT ![c] = NoOp]
  /\ UNCHANGED <<store, view, epoch, hand, probes, gc, history>>

\* A conflict refreshes and retries; creating the object does not retry.
OnConflict(c, o) ==
  \/ /\ op[c].kind # "create"
     /\ Refresh(c, o)
     /\ UNCHANGED op
  \/ /\ op[c].kind = "create"
     /\ pc' = [pc EXCEPT ![c] = "down"]
     /\ op' = [op EXCEPT ![c] = NoOp]
     /\ hand' = [hand EXCEPT ![c] = NoObject]
     /\ UNCHANGED <<probes, floor>>

\* write_unchecked: put-if-absent of the next id.
Writing(c) ==
  /\ pc[c] = "write"
  /\ ~ ClaimFails(c) /\ ~ NothingToDo(c)
  /\ view[c].id + 1 \in Ids /\ Dirty(c).epoch \in Epochs

PutCreates(c) ==
  LET new == [id |-> view[c].id + 1, val |-> Dirty(c)] IN
  /\ Writing(c)
  /\ files[new.id] = Absent
  /\ files' = [files EXCEPT ![new.id] = new.val]
  /\ cache' = maybe_cache_latest(StoreOf[c], new)
  /\ hand' = [hand EXCEPT ![c] = new]
  /\ pc' = [pc EXCEPT ![c] = "written"]
  /\ log' = IF new.id > Len(log) THEN Append(log, new.val) ELSE log
  /\ UNCHANGED <<boundary, bcache, op, view, epoch, probes, gc, acks, floor>>

PutConflicts(c) ==
  /\ Writing(c)
  /\ files[view[c].id + 1] # Absent
  /\ OnConflict(c, cache[StoreOf[c]])
  /\ UNCHANGED <<store, view, epoch, gc, log, acks>>

\* The boundary check of a write: only now is it reported as successful.
WriteAccepted(c) ==
  /\ pc[c] = "written"
  /\ AboveBoundary(StoreOf[c], hand[c].id)
  /\ bcache' = check_cache(StoreOf[c], hand[c].id)
  /\ view' = [view EXCEPT ![c] = hand[c]]
  /\ epoch' = [epoch EXCEPT ![c] = IF op[c].kind \in Claims THEN hand[c].val.epoch ELSE @]
  /\ acks' = [acks EXCEPT ![hand[c].id] = @ + 1]
  /\ pc' = [pc EXCEPT ![c] = "ready"]
  /\ op' = [op EXCEPT ![c] = NoOp]
  /\ hand' = [hand EXCEPT ![c] = NoObject]
  /\ UNCHANGED <<files, boundary, cache, probes, gc, log, floor>>

\* A version created behind the boundary counts as a conflict.
WriteRejected(c) ==
  LET kept == invalidate_cached(StoreOf[c], hand[c].id) IN
  /\ pc[c] = "written"
  /\ ~ AboveBoundary(StoreOf[c], hand[c].id)
  /\ bcache' = check_cache(StoreOf[c], hand[c].id)
  /\ cache' = kept
  /\ OnConflict(c, kept[StoreOf[c]])
  /\ UNCHANGED <<files, boundary, view, epoch, gc, log, acks>>

\* A process stops: its clients, its collectors and its caches are gone.
Crash(s) ==
  /\ cache' = [cache EXCEPT ![s] = NoObject]
  /\ bcache' = [bcache EXCEPT ![s] = 0]
  /\ pc' = [c \in Client |-> IF StoreOf[c] = s THEN "down" ELSE pc[c]]
  /\ op' = [c \in Client |-> IF StoreOf[c] = s THEN NoOp ELSE op[c]]
  /\ view' = [c \in Client |-> IF StoreOf[c] = s THEN NoObject ELSE view[c]]
  /\ epoch' = [c \in Client |-> IF StoreOf[c] = s THEN 0 ELSE epoch[c]]
  /\ hand' = [c \in Client |-> IF StoreOf[c] = s THEN NoObject ELSE hand[c]]
  /\ probes' = [c \in Client |-> IF StoreOf[c] = s THEN 0 ELSE probes[c]]
  /\ floor' = [c \in Client |-> IF StoreOf[c] = s THEN 0 ELSE floor[c]]
  /\ phase' = [g \in Gc |-> IF StoreOf[g] = s THEN "idle" ELSE phase[g]]
  /\ last' = [g \in Gc |-> IF StoreOf[g] = s THEN 0 ELSE last[g]]
  /\ old' = [g \in Gc |-> IF StoreOf[g] = s THEN {} ELSE old[g]]
  /\ base' = [g \in Gc |-> IF StoreOf[g] = s THEN 0 ELSE base[g]]
  /\ UNCHANGED <<files, boundary, log, acks>>

-----------------------------------------------------------------------------
(***************************************************************************)
(* A garbage collection pass.  Which files are old enough is a question of *)
(* wall clocks: any set of the listed files may be.                        *)
(***************************************************************************)
\* The LIST; its last file is never a candidate.
GcList(g) ==
  /\ phase[g] = "idle"
  /\ \E n \in Ids :
       /\ IsLast(n)
       /\ last' = [last EXCEPT ![g] = n]
       /\ old' = [old EXCEPT ![g] = Present \ {n}]
  /\ phase' = [phase EXCEPT ![g] = "read"]
  /\ UNCHANGED <<store, client, base, history>>

\* Faulty variants: checkpoints are ignored; the boundary is not advanced.
GcReadUnpinned(g) ==
  /\ phase[g] = "read"
  /\ Get(last[g]) # Absent
  /\ \E o \in SUBSET old[g] :
       /\ old' = [old EXCEPT ![g] = o]
       /\ phase' = [phase EXCEPT ![g] = IF o = {} THEN "delete" ELSE "advance"]
  /\ last' = [last EXCEPT ![g] = 0]
  /\ UNCHANGED <<store, client, base, history>>
GcReadUnfenced(g) ==
  LET latest == Get(last[g]) IN
  /\ phase[g] = "read"
  /\ latest # Absent
  /\ \E o \in SUBSET (old[g] \ latest.refs) : old' = [old EXCEPT ![g] = o]
  /\ phase' = [phase EXCEPT ![g] = "delete"]
  /\ last' = [last EXCEPT ![g] = 0]
  /\ UNCHANGED <<store, client, base, history>>

\* The listed latest manifest is read for its checkpoints; files they pin and
\* young files are kept.
GcRead(g) ==
  LET latest == Get(last[g]) IN
  /\ phase[g] = "read"
  /\ latest # Absent
  /\ \E o \in SUBSET (old[g] \ latest.refs) :
       /\ old' = [old EXCEPT ![g] = o]
       /\ phase' = [phase EXCEPT ![g] = IF o = {} THEN "delete" ELSE "advance"]
  /\ last' = [last EXCEPT ![g] = 0]
  /\ UNCHANGED <<store, client, base, history>>

\* The pass ends: ManifestMissing, or the deletions are over; files the filter
\* keeps or whose deletion failed stay.
GcFinish(g) ==
  /\ \/ phase[g] = "read" /\ Get(last[g]) = Absent
     \/ phase[g] = "delete"
  /\ phase' = [phase EXCEPT ![g] = "idle"]
  /\ last' = [last EXCEPT ![g] = 0]
  /\ old' = [old EXCEPT ![g] = {}]
  /\ UNCHANGED <<store, client, base, history>>

IsTarget(g, t) == t \in old[g] /\ \A i \in old[g] : i <= t

\* BoundaryObject::advance, its loop: the boundary is known from the cache or
\* read; nothing is left to do when it covers the target.
Known(g) == IF bcache[StoreOf[g]] = 0 THEN boundary ELSE bcache[StoreOf[g]]

GcCovered(g) ==
  /\ phase[g] = "advance"
  /\ bcache' = update_cache(StoreOf[g], Known(g))
  /\ \E t \in Ids :
       /\ IsTarget(g, t) /\ Known(g) >= t
       /\ cache' = invalidate_cached_through(StoreOf[g], t)
  /\ phase' = [phase EXCEPT ![g] = "delete"]
  /\ UNCHANGED <<files, boundary, client, last, old, base, history>>

GcAdvance(g) ==
  /\ phase[g] = "advance"
  /\ bcache' = update_cache(StoreOf[g], Known(g))
  /\ \E t \in Ids : IsTarget(g, t) /\ Known(g) < t
  /\ base' = [base EXCEPT ![g] = Known(g)]
  /\ phase' = [phase EXCEPT ![g] = "put"]
  /\ UNCHANGED <<files, boundary, cache, client, last, old, history>>

\* Faulty variant: the update is unconditional.
GcPutBlind(g) ==
  /\ phase[g] = "put"
  /\ \E t \in Ids :
       /\ IsTarget(g, t)
       /\ boundary' = t
       /\ bcache' = update_cache(StoreOf[g], t)
       /\ cache' = invalidate_cached_through(StoreOf[g], t)
  /\ base' = [base EXCEPT ![g] = 0]
  /\ phase' = [phase EXCEPT ![g] = "delete"]
  /\ UNCHANGED <<files, client, last, old, history>>

\* The update is conditional on the version of what was known.
GcPut(g) ==
  /\ phase[g] = "put"
  /\ boundary = base[g]
  /\ \E t \in Ids :
       /\ IsTarget(g, t)
       /\ boundary' = t
       /\ bcache' = update_cache(StoreOf[g], t)
       /\ cache' = invalidate_cached_through(StoreOf[g], t)
  /\ base' = [base EXCEPT ![g] = 0]
  /\ phase' = [phase EXCEPT ![g] = "delete"]
  /\ UNCHANGED <<files, client, last, old, history>>

\* A lost race; then read_boundary, and the loop starts over.
GcPutFails(g) ==
  /\ phase[g] = "put"
  /\ boundary # base[g]
  /\ base' = [base EXCEPT ![g] = 0]
  /\ phase' = [phase EXCEPT ![g] = "reread"]
  /\ UNCHANGED <<store, client, last, old, history>>

GcReread(g) ==
  /\ phase[g] = "reread"
  /\ bcache' = update_cache(StoreOf[g], boundary)
  /\ phase' = [phase EXCEPT ![g] = "advance"]
  /\ UNCHANGED <<files, boundary, cache, client, last, old, base, history>>

\* The deletions run concurrently, in any order.
GcDelete(g, i) ==
  /\ phase[g] = "delete"
  /\ i \in old[g]
  /\ files' = [files EXCEPT ![i] = Absent]
  /\ cache' = invalidate_cached(StoreOf[g], i)
  /\ old' = [old EXCEPT ![g] = @ \ {i}]
  /\ UNCHANGED <<boundary, bcache, client, phase, last, base, history>>

-----------------------------------------------------------------------------
ReadStep(c) ==
  \/ ProbeMissing(c) \/ ProbeFound(c) \/ ListFound(c) \/ ListEmpty(c)
  \/ GetMissing(c) \/ GetFound(c) \/ ReadAccepted(c) \/ ReadRejected(c)

WriteStep(c) ==
  \/ GiveUp(c) \/ PutCreates(c) \/ PutConflicts(c)
  \/ WriteAccepted(c) \/ WriteRejected(c)

ClientNext(c) ==
  \/ Load(c) \/ RefreshView(c) \/ StartMutation(c)
  \/ ReadStep(c) \/ WriteStep(c)

GcNext(g) ==
  \/ GcList(g) \/ GcRead(g) \/ GcFinish(g)
  \/ GcCovered(g) \/ GcAdvance(g) \/ GcPut(g) \/ GcPutFails(g) \/ GcReread(g)
  \/ \E i \in Ids : GcDelete(g, i)

Next ==
  \/ \E c \in Client : ClientNext(c)
  \/ \E g \in Gc : GcNext(g)
  \/ \E s \in Mortal : Crash(s)

Spec == Init /\ [][Next]_vars

\* A client whose object store answers finishes its requests.
Fairness == \A c \in Client : WF_vars(ReadStep(c)) /\ WF_vars(WriteStep(c))
FairSpec == Spec /\ Fairness

-----------------------------------------------------------------------------
TypeOK ==
  /\ files \in [Ids -> Vals \cup {Absent}]
  /\ boundary \in 0 .. MaxId
  /\ cache \in [Store -> Objects]
  /\ bcache \in [Store -> 0 .. MaxId]
  /\ pc \in [Client -> PCs]
  /\ op \in [Client -> Ops]
  /\ view \in [Client -> Objects]
  /\ epoch \in [Client -> Epochs]
  /\ hand \in [Client -> Objects]
  /\ probes \in [Client -> 0 .. MaxProbes - 1]
  /\ phase \in [Gc -> Phases]
  /\ last \in [Gc -> 0 .. MaxId]
  /\ old \in [Gc -> SUBSET Ids]
  /\ base \in [Gc -> 0 .. MaxId]
  /\ log \in Seq(Vals)
  /\ acks \in [Ids -> Nat]
  /\ floor \in [Client -> Nat]

(***************************************************************************)
(* write creates a file and only then checks the boundary, so a file may   *)
(* be created twice: once, deleted, and again by a client that was paused. *)
(* At most one of those writes is reported as successful.                  *)
(***************************************************************************)
AckedOnce == \A i \in Ids : acks[i] <= 1

(***************************************************************************)
(* Above the boundary the files are consecutive, none is missing, and each *)
(* still has the content it was created with: no delete and no late writer *)
(* touches them, and the latest file is always one of them.                *)
(***************************************************************************)
UnfencedHistoryIntact ==
  /\ boundary < Len(log) \/ boundary = 0
  /\ \A i \in Ids : i > boundary =>
       files[i] = IF i <= Len(log) THEN log[i] ELSE Absent

(***************************************************************************)
(* Epoch fencing: epochs never decrease along the versions, so after a     *)
(* client has claimed an epoch no version carries an older one; and no two *)
(* clients ever hold the same epoch.                                       *)
(***************************************************************************)
EpochsNeverDecrease ==
  \A i, j \in 1 .. Len(log) : i <= j => log[i].epoch <= log[j].epoch

EpochHeldOnce ==
  \A c, d \in Client : c # d /\ epoch[c] = epoch[d] => epoch[c] = 0

(***************************************************************************)
(* A client that holds an epoch adds a version only while no version, up   *)
(* to and including its own, carries a newer epoch: after a takeover the   *)
(* former holder's writes lose the race for the id or are behind the       *)
(* boundary.                                                               *)
(***************************************************************************)
SupersededNeverWrites ==
  \A c \in Client :
    pc[c] = "written" /\ hand[c].id > boundary /\ epoch[c] > 0
      => \A i \in 1 .. hand[c].id : log[i].epoch <= epoch[c]

(***************************************************************************)
(* The panic of check_epoch ("the stored epoch is lower than the local     *)
(* epoch") and the InvalidObjectState of refresh are unreachable.          *)
(***************************************************************************)
NeverBroken == \A c \in Client : pc[c] # "broken"

(***************************************************************************)
(* A read that is about to return an object returns one at least as new as *)
(* every version that existed when the read started, although it may start *)
(* from a cached object and probe ids that collectors have deleted.        *)
(***************************************************************************)
ReadIsFresh ==
  \A c \in Client :
    pc[c] = "check" /\ AboveBoundary(StoreOf[c], hand[c].id)
      => hand[c].id >= floor[c]

(***************************************************************************)
(* A client never replaces its object by an older version of it.           *)
(***************************************************************************)
ViewNeverMovesBack ==
  [][\A c \in Client : pc'[c] # "down" => view'[c].id >= view[c].id]_vars

(***************************************************************************)
(* "Do not delete manifests which are still referenced by active           *)
(* checkpoints": the files pinned by the latest version are all there.     *)
(***************************************************************************)
PinnedFilesSurvive ==
  Len(log) > 0 => \A r \in log[Len(log)].refs : files[r] = log[r]

(***************************************************************************)
(* Seen by its clients, the object is a log: VersionedLog, where files,    *)
(* caches, boundary and collectors are invisible.                          *)
(***************************************************************************)
Abstract == INSTANCE VersionedLog WITH
  Initial <- InitialVal, acked <- {i \in Ids : acks[i] > 0}
ImplementsVersionedLog == Abstract!Spec

(***************************************************************************)
(* The retry loops end: a client that reads or writes comes to rest,       *)
(* unless the bound on ids or epochs stops it.                             *)
(***************************************************************************)
Resting(c) == pc[c] \in {"down", "ready", "fenced", "broken"}
AtBound(c) == pc[c] = "write" /\ ~ ENABLED WriteStep(c)
OperationsEnd == \A c \in Client : ~ Resting(c) ~> (Resting(c) \/ AtBound(c))
====
