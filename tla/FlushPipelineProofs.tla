------------------------- MODULE FlushPipelineProofs -------------------------
(* FlushPipeline never loses a durable row: the inductive invariant, for any  *)
(* settings, callers and bounds, and the theorems.  The tracker, the          *)
(* uploaders and the callers do not matter for this, however they interleave. *)
EXTENDS FlushPipeline, WellFoundedInduction, TLAPS

(***************************************************************************)
(* The inductive invariant                                                 *)
(***************************************************************************)
\* A manifest has the memtables of F up to last_l0, those up to
\* last_compacted_l0 in sorted runs and the others in L0, newest first.
IsTree(man, F) ==
  /\ DOMAIN man = DOMAIN NewManifest
  /\ man.last_l0 \in F \cup {0} /\ man.marker \in F \cup {0}
  /\ man.marker <= man.last_l0
  /\ man.sorted = {m \in F : m <= man.marker}
  /\ man.l0 \in Seq(Nat)
  /\ Range(man.l0) = {m \in F : man.marker < m /\ m <= man.last_l0}
  /\ \A i, j \in DOMAIN man.l0 : i < j => man.l0[i] > man.l0[j]

\* The immutable memtables, by name and recent_flushed_wal_id
Entries == [last : Nat, wal : Nat]

\* A queue of memtables has those of F after `last`, oldest first.
IsQueue(queue, F, last) ==
  /\ queue \in Seq(Entries)
  /\ \A i, j \in DOMAIN queue : i < j => queue[i].last < queue[j].last
  /\ {queue[i].last : i \in DOMAIN queue} = {m \in F : m > last}

\* Among n WAL files, one that has no row after `last`: replay may start behind
\* it once the memtables up to `last` are in L0.
IsStamp(w, last, ends, n) == w \in 0 .. n /\ (w > 0 => ends[w] <= last)

\* Rows reach the WAL buffer before the memtable, one at a time.
RowInv ==
  /\ seq \in Nat /\ appended \in Nat /\ seq <= appended /\ appended <= seq + 1
  /\ frozen \subseteq 1 .. seq

WalInv ==
  /\ walEnd \in Seq(Nat) /\ flushed \in 0 .. Len(walEnd)
  /\ \A i \in DOMAIN walEnd : 1 <= walEnd[i] /\ walEnd[i] <= appended
  /\ \A i, j \in DOMAIN walEnd : i < j => walEnd[i] < walEnd[j]

\* What is frozen is in the database state's L0 or below, or in imm_memtable.
ImmInv == IsQueue(imm, frozen, local.last_l0)

\* The database state is ahead of the stored manifest in what was flushed, and
\* behind it in what was compacted, unless it is known to be current.
TreeInv ==
  /\ IsTree(local, frozen) /\ IsTree(stored, frozen)
  /\ local.marker <= stored.marker
  /\ (idCurrent /\ dirtyCurrent => local.marker = stored.marker)
  /\ stored.last_l0 <= local.last_l0

\* What the manifest writer is about to store is the database state.
MwInv ==
  /\ DOMAIN mw = DOMAIN Idle
  /\ (mw.batch # << >> => Last(mw.batch) \in Nat /\ Last(mw.batch) <= local.last_l0)
  /\ (mw.pc = "put" => /\ IsTree(mw.dirty, frozen)
                       /\ mw.dirty.marker = local.marker
                       /\ mw.dirty.last_l0 = local.last_l0
                       /\ IsStamp(mw.dirty.replay_after, mw.dirty.last_l0, walEnd, flushed))

StampInv ==
  /\ \A i \in DOMAIN imm : IsStamp(imm[i].wal, imm[i].last, walEnd, flushed)
  /\ IsStamp(local.replay_after, local.last_l0, walEnd, flushed)
  /\ IsStamp(stored.replay_after, stored.last_l0, walEnd, flushed)

\* A durable row is in L0 or below, or in a WAL file.
DurableInv ==
  /\ durable \in Nat
  /\ (durable <= stored.last_l0 \/ (flushed > 0 /\ durable <= walEnd[flushed]))

IndInv == RowInv /\ WalInv /\ ImmInv /\ TreeInv /\ MwInv /\ StampInv /\ DurableInv

-----------------------------------------------------------------------------
(***************************************************************************)
(* Lemmas about operators                                                  *)
(***************************************************************************)
\* A bounded set of numbers has a greatest element: Max of it is one.
LEMMA MaxOfBounded ==
  ASSUME NEW n \in Nat, NEW S \in SUBSET (0 .. n), S # {}
  PROVE  Max(S) \in S /\ \A x \in S : x <= Max(S)
<1> DEFINE T == {n - x : x \in S}
           Less == {p \in Nat \X Nat : p[1] < p[2]}
<1>1. /\ \A x \in S : x \in 0 .. n /\ n - x \in Nat
      /\ \A x \in S : n - x \in T
      /\ \A t \in T : \E x \in S : t = n - x
  OBVIOUS
<1>2. T \subseteq Nat /\ T # {}
  BY <1>1, Zenon
<1>3. IsWellFoundedOn(Less, Nat)
  BY NatLessThanWellFounded DEF OpToRel
<1>4. \A x, y \in Nat : x < y => <<x, y>> \in Less
  OBVIOUS
<1> HIDE DEF T, Less
<1>5. PICK t \in T : \A y \in T : ~ (<<y, t>> \in Less)
  BY <1>2, <1>3, WFMin, Zenon
<1>6. ASSUME NEW y \in T
      PROVE  t <= y
  <2>1. y \in Nat /\ t \in Nat
    BY <1>2
  <2>2. ~ (y < t)
    BY <1>4, <1>5, <2>1, Zenon
  <2> QED BY <2>1, <2>2
<1>7. n - t \in S /\ \A x \in S : x <= n - t
  BY <1>1, <1>6
<1>8. \E x \in S : \A y \in S : x >= y
  BY <1>7, Zenon
<1>9. Max(S) \in S /\ \A y \in S : Max(S) >= y
  BY <1>8, Zenon DEF Max
<1> QED BY <1>9

\* A nonempty set of numbers has a least element.
LEMMA LeastOf ==
  ASSUME NEW S \in SUBSET Nat, S # {}
  PROVE  \E x \in S : \A y \in S : x <= y
<1> DEFINE Less == {p \in Nat \X Nat : p[1] < p[2]}
<1>1. IsWellFoundedOn(Less, Nat)
  BY NatLessThanWellFounded DEF OpToRel
<1>2. \A x, y \in Nat : x < y => <<x, y>> \in Less
  OBVIOUS
<1> HIDE DEF Less
<1>3. PICK t \in S : \A y \in S : ~ (<<y, t>> \in Less)
  BY <1>1, WFMin, Zenon
<1>4. ASSUME NEW y \in S
      PROVE  t <= y
  <2>1. y \in Nat /\ t \in Nat
    OBVIOUS
  <2>2. ~ (y < t)
    BY <1>2, <1>3, <2>1, Zenon
  <2> QED BY <2>1, <2>2
<1> QED BY <1>4

\* L0 as a sequence of numbers: those of F in an interval, descending
IsL0(s, F, low, high) ==
  /\ s \in Seq(Nat)
  /\ Range(s) = {m \in F : low < m /\ m <= high}
  /\ \A i, j \in DOMAIN s : i < j => s[i] > s[j]

\* The same, index by index
L0ByIndex(s, F, low, high) ==
  /\ s \in Seq(Nat) /\ Len(s) \in Nat /\ DOMAIN s = 1 .. Len(s)
  /\ \A i \in 1 .. Len(s) : s[i] \in F /\ s[i] \in Nat /\ low < s[i] /\ s[i] <= high
  /\ \A m \in F : low < m /\ m <= high => \E i \in 1 .. Len(s) : s[i] = m
  /\ \A i, j \in 1 .. Len(s) : i < j => s[i] > s[j]

LEMMA L0Elements ==
  ASSUME NEW F, NEW s, NEW low, NEW high, IsL0(s, F, low, high)
  PROVE  L0ByIndex(s, F, low, high)
<1>1. s \in Seq(Nat) /\ Len(s) \in Nat /\ DOMAIN s = 1 .. Len(s)
  BY DEF IsL0
<1>2. Range(s) = {m \in F : low < m /\ m <= high} /\ \A i, j \in DOMAIN s : i < j => s[i] > s[j]
  BY DEF IsL0
<1>3. \A i \in 1 .. Len(s) : s[i] \in Range(s) /\ s[i] \in Nat
  BY <1>1 DEF Range
<1>4. \A m \in Range(s) : \E i \in 1 .. Len(s) : s[i] = m
  BY <1>1 DEF Range
<1> QED BY <1>1, <1>2, <1>3, <1>4, Zenon DEF L0ByIndex

\* What is in front of the SST that was compacted last is newer than it, and is
\* all that is newer.
LEMMA FrontOfL0 ==
  ASSUME NEW F \in SUBSET (Nat \ {0}), NEW s, NEW low \in Nat, NEW high \in Nat,
         IsL0(s, F, low, high),
         NEW c \in Nat, c \in F \/ c = low, low <= c, c <= high,
         NEW p \in 0 .. Len(s), \A i \in 1 .. p : s[i] # c, p < Len(s) => s[p + 1] = c
  PROVE  IsL0(SubSeq(s, 1, p), F, c, high)
<1> DEFINE n == Len(s)
           t == SubSeq(s, 1, p)
<1>1. /\ s \in Seq(Nat) /\ n \in Nat
      /\ \A i \in 1 .. n : s[i] \in F /\ s[i] \in Nat /\ low < s[i] /\ s[i] <= high
      /\ \A m \in F : low < m /\ m <= high => \E i \in 1 .. n : s[i] = m
      /\ \A i, j \in 1 .. n : i < j => s[i] > s[j]
  <2>1. L0ByIndex(s, F, low, high)
    BY L0Elements, Zenon
  <2> QED BY <2>1, Zenon DEF L0ByIndex
<1>2. t \in Seq(Nat) /\ DOMAIN t = 1 .. p /\ \A i \in 1 .. p : t[i] = s[i]
  BY <1>1
<1> HIDE DEF t
<1>3. ASSUME NEW i \in 1 .. p
      PROVE  s[i] > c
  <2>1. i \in 1 .. n /\ s[i] \in Nat /\ low < s[i] /\ s[i] # c
    BY <1>1
  <2>2. CASE c = low
    BY <2>1, <2>2
  <2>3. CASE c \in F /\ low < c
    <3>1. PICK j \in 1 .. n : s[j] = c
      BY <1>1, <2>3
    <3>2. p < j
      BY <3>1
    <3> QED BY <1>1, <2>1, <3>1, <3>2
  <2> QED BY <2>2, <2>3
<1>4. ASSUME NEW m \in F, c < m, m <= high
      PROVE  \E i \in 1 .. p : s[i] = m
  <2>1. m \in Nat /\ low < m
    BY <1>4
  <2>2. PICK j \in 1 .. n : s[j] = m
    BY <1>1, <1>4, <2>1
  <2>3. ASSUME p < j PROVE FALSE
    <3>1. p < n /\ p + 1 \in 1 .. n /\ s[p + 1] = c
      BY <1>1, <2>3
    <3>2. CASE j = p + 1
      BY <1>4, <2>1, <2>2, <3>1, <3>2
    <3>3. CASE p + 1 < j
      <4>1. s[p + 1] > s[j]
        BY <1>1, <3>1, <3>3, Zenon
      <4> QED BY <1>4, <2>1, <2>2, <3>1, <4>1
    <3> QED BY <2>3, <3>2, <3>3
  <2> QED BY <2>2, <2>3
<1>5. Range(t) = {t[i] : i \in 1 .. p}
  BY <1>2 DEF Range
<1>6. ASSUME NEW i \in 1 .. p
      PROVE  t[i] \in F /\ c < t[i] /\ t[i] <= high
  <2>1. i \in 1 .. n /\ t[i] = s[i]
    BY <1>1, <1>2
  <2>2. s[i] \in F /\ s[i] \in Nat /\ s[i] <= high /\ s[i] > c
    BY <1>1, <1>3, <2>1
  <2> QED BY <2>1, <2>2
<1>7. \A m \in F : c < m /\ m <= high => \E i \in 1 .. p : t[i] = m
  BY <1>2, <1>4, Zenon
<1>8. Range(t) = {m \in F : c < m /\ m <= high}
  <2>1. \A m \in Range(t) : m \in F /\ c < m /\ m <= high
    BY <1>5, <1>6, Zenon
  <2>2. \A m \in F : c < m /\ m <= high => m \in Range(t)
    BY <1>5, <1>7, Zenon
  <2> QED BY <2>1, <2>2, Zenon
<1>9. ASSUME NEW i \in 1 .. p, NEW j \in 1 .. p, i < j
      PROVE  t[i] > t[j]
  <2>1. i \in 1 .. n /\ j \in 1 .. n
    BY <1>1
  <2> QED BY <1>1, <1>2, <1>9, <2>1, Zenon
<1> QED BY <1>2, <1>8, <1>9, Zenon DEF IsL0, t

\* merge_remote_manifest: the writer's tree without what the compactor took is
\* again a tree, compacted as far as the stored one.
IsMerge(man, mine, theirs, F) ==
  /\ IsTree(man, F) /\ man.marker = theirs.marker
  /\ man.last_l0 = mine.last_l0 /\ man.replay_after = mine.replay_after

LEMMA MergedTree ==
  ASSUME NEW F \in SUBSET (Nat \ {0}), NEW mine, NEW theirs,
         IsTree(mine, F), IsTree(theirs, F),
         mine.marker <= theirs.marker, theirs.last_l0 <= mine.last_l0
  PROVE  IsMerge(Merged(mine, theirs), mine, theirs, F)
<1> DEFINE n == Len(mine.l0)
           c == theirs.marker
           above == {k \in 0 .. n : \A i \in 1 .. k : mine.l0[i] # c}
           p == Max(above)
           man == Merged(mine, theirs)
           l0 == SubSeq(mine.l0, 1, p)
<1>1. /\ DOMAIN man = DOMAIN NewManifest
      /\ man.l0 = l0 /\ man.sorted = theirs.sorted /\ man.marker = c
      /\ man.last_l0 = mine.last_l0 /\ man.replay_after = mine.replay_after
  BY Zenon DEF IsTree, Merged, NewManifest
<1>2. /\ IsL0(mine.l0, F, mine.marker, mine.last_l0) /\ mine.l0 \in Seq(Nat)
      /\ mine.marker \in F \cup {0} /\ mine.last_l0 \in F \cup {0}
  BY DEF IsTree, IsL0
<1>3. /\ c \in F \cup {0} /\ theirs.last_l0 \in F \cup {0}
      /\ c <= theirs.last_l0 /\ theirs.sorted = {m \in F : m <= c}
  BY DEF IsTree
<1>4. n \in Nat /\ above \in SUBSET (0 .. n) /\ 0 \in above
  BY <1>2
<1>5. p \in above /\ \A k \in above : k <= p
  <2> HIDE DEF above
  <2> QED BY <1>4, MaxOfBounded, Zenon
<1>6. p \in 0 .. n /\ \A i \in 1 .. p : mine.l0[i] # c
  BY <1>5
<1>7. ASSUME p < n, mine.l0[p + 1] # c
      PROVE  FALSE
  <2> HIDE DEF p
  <2>1. \A i \in 1 .. p + 1 : mine.l0[i] # c
    BY <1>6, <1>7
  <2>2. p + 1 \in above
    BY <1>4, <1>6, <1>7, <2>1
  <2> QED BY <1>5, <1>6, <2>2
<1>8. /\ c \in Nat /\ mine.marker \in Nat /\ mine.last_l0 \in Nat /\ c <= mine.last_l0
      /\ c \in F \/ c = mine.marker
  <2>1. \A x \in F \cup {0} : x \in Nat
    OBVIOUS
  <2>2. c \in Nat /\ mine.marker \in Nat /\ mine.last_l0 \in Nat /\ theirs.last_l0 \in Nat
    BY <1>2, <1>3, <2>1, Zenon
  <2>3. c <= mine.last_l0 /\ (c = 0 => c = mine.marker)
    BY <1>3, <2>2
  <2> QED BY <1>3, <2>2, <2>3, Zenon
<1>9. IsL0(l0, F, c, mine.last_l0)
  <2> HIDE DEF p, c
  <2>1. p \in 0 .. Len(mine.l0) /\ (p < Len(mine.l0) => mine.l0[p + 1] = c)
    BY <1>6, <1>7, Zenon
  <2>2. mine.marker <= c
    BY Zenon DEF c
  <2> QED BY <1>2, <1>6, <1>8, <2>1, <2>2, FrontOfL0, Zenon
<1> HIDE DEF man, l0, c
<1>10. IsTree(man, F)
  BY <1>1, <1>2, <1>3, <1>8, <1>9 DEF IsTree, IsL0
<1> QED BY <1>1, <1>10, Zenon DEF IsMerge, man, c

\* The numbers a tree is made of
LEMMA TreeNumbers ==
  ASSUME NEW F \in SUBSET (Nat \ {0}), NEW man, IsTree(man, F)
  PROVE  /\ man.marker \in Nat /\ man.last_l0 \in Nat /\ man.marker <= man.last_l0
         /\ man.marker \in F \cup {0} /\ man.last_l0 \in F \cup {0}
         /\ IsL0(man.l0, F, man.marker, man.last_l0)
         /\ man.sorted = {m \in F : m <= man.marker}
         /\ DOMAIN man = DOMAIN NewManifest
<1>1. \A x \in F \cup {0} : x \in Nat
  OBVIOUS
<1> QED BY <1>1, Zenon DEF IsTree, IsL0

\* The same for a queue
QueueByIndex(queue, F, low) ==
  /\ queue \in Seq(Entries) /\ Len(queue) \in Nat /\ DOMAIN queue = 1 .. Len(queue)
  /\ \A i \in 1 .. Len(queue) :
       queue[i].last \in F /\ queue[i].last \in Nat /\ queue[i].last > low
  /\ \A m \in F : m > low => \E i \in 1 .. Len(queue) : queue[i].last = m
  /\ \A i, j \in 1 .. Len(queue) : i < j => queue[i].last < queue[j].last

LEMMA QueueElements ==
  ASSUME NEW F, NEW queue, NEW low, IsQueue(queue, F, low)
  PROVE  QueueByIndex(queue, F, low)
<1>1. /\ queue \in Seq(Entries)
      /\ \A i, j \in DOMAIN queue : i < j => queue[i].last < queue[j].last
      /\ {queue[i].last : i \in DOMAIN queue} = {m \in F : m > low}
  BY DEF IsQueue
<1>2. Len(queue) \in Nat /\ DOMAIN queue = 1 .. Len(queue)
  BY <1>1
<1>3. \A i \in DOMAIN queue : queue[i].last \in F /\ queue[i].last > low
  BY <1>1, Zenon
<1>4. \A m \in F : m > low => \E i \in DOMAIN queue : queue[i].last = m
  BY <1>1, Zenon
<1>5. \A i \in 1 .. Len(queue) : queue[i] \in Entries
  BY <1>1
<1>6. \A i \in 1 .. Len(queue) : queue[i].last \in Nat
  BY <1>5 DEF Entries
<1> QED BY <1>1, <1>2, <1>3, <1>4, <1>6, Zenon DEF QueueByIndex

\* The names of a batch, newest first, as they are put on L0
LEMMA BatchNames ==
  ASSUME NEW batch \in Seq(Entries)
  PROVE  /\ NewestFirst(batch) \in Seq(Nat)
         /\ Len(NewestFirst(batch)) = Len(batch)
         /\ \A i \in 1 .. Len(batch) :
              NewestFirst(batch)[i] = batch[(Len(batch) - i) + 1].last
<1> DEFINE k == Len(batch)
           s == NewestFirst(batch)
<1>1. k \in Nat /\ DOMAIN batch = 1 .. k /\ \A i \in 1 .. k : batch[i] \in Entries
  OBVIOUS
<1>2. \A e \in Entries : e.last \in Nat
  BY DEF Entries
<1>3. s = [i \in 1 .. k |-> batch[(k - i) + 1].last]
  BY <1>1, Zenon DEF NewestFirst
<1> HIDE DEF k, s
<1>4. \A i \in 1 .. k : (k - i) + 1 \in 1 .. k
  BY <1>1
<1>5. \A i \in 1 .. k : batch[(k - i) + 1].last \in Nat
  BY <1>1, <1>2, <1>4, Zenon
<1>6. s \in Seq(Nat) /\ Len(s) = k /\ \A i \in 1 .. k : s[i] = batch[(k - i) + 1].last
  BY <1>1, <1>3, <1>5
<1> QED BY <1>6, Zenon DEF k, s

\* L0 SSTs on top of older ones
LEMMA StackedL0 ==
  ASSUME NEW F \in SUBSET (Nat \ {0}), NEW s, NEW t,
         NEW low \in Nat, NEW mid \in Nat, NEW high \in Nat, low <= mid, mid <= high,
         IsL0(s, F, low, mid), IsL0(t, F, mid, high)
  PROVE  IsL0(t \o s, F, low, high)
<1> DEFINE p == Len(t)
           q == Len(s)
           u == t \o s
<1>1. /\ s \in Seq(Nat) /\ q \in Nat
      /\ \A i \in 1 .. q : s[i] \in F /\ s[i] \in Nat /\ low < s[i] /\ s[i] <= mid
      /\ \A m \in F : low < m /\ m <= mid => \E i \in 1 .. q : s[i] = m
      /\ \A i, j \in 1 .. q : i < j => s[i] > s[j]
  <2>1. L0ByIndex(s, F, low, mid)
    BY L0Elements, Zenon
  <2> QED BY <2>1, Zenon DEF L0ByIndex
<1>2. /\ t \in Seq(Nat) /\ p \in Nat
      /\ \A i \in 1 .. p : t[i] \in F /\ t[i] \in Nat /\ mid < t[i] /\ t[i] <= high
      /\ \A m \in F : mid < m /\ m <= high => \E i \in 1 .. p : t[i] = m
      /\ \A i, j \in 1 .. p : i < j => t[i] > t[j]
  <2>1. L0ByIndex(t, F, mid, high)
    BY L0Elements, Zenon
  <2> QED BY <2>1, Zenon DEF L0ByIndex
<1>3. u \in Seq(Nat) /\ Len(u) = p + q
  BY <1>1, <1>2
<1>4. \A i \in 1 .. p : u[i] = t[i]
  BY <1>1, <1>2
<1>5. \A i \in p + 1 .. p + q : u[i] = s[i - p]
  BY <1>1, <1>2
<1>6. DOMAIN u = 1 .. p + q
  BY <1>3
<1> HIDE DEF u, p, q
<1>7. ASSUME NEW i \in 1 .. p + q
      PROVE  u[i] \in F /\ low < u[i] /\ u[i] <= high
  <2>1. CASE i <= p
    <3>1. i \in 1 .. p
      BY <1>2, <2>1
    <3>2. u[i] \in F /\ u[i] \in Nat /\ mid < u[i] /\ u[i] <= high
      BY <1>2, <1>4, <3>1, Zenon
    <3> QED BY <3>2
  <2>2. CASE ~ (i <= p)
    <3>1. i \in p + 1 .. p + q /\ i - p \in 1 .. q
      BY <1>1, <1>2, <2>2
    <3>2. u[i] \in F /\ u[i] \in Nat /\ low < u[i] /\ u[i] <= mid
      BY <1>1, <1>5, <3>1, Zenon
    <3> QED BY <3>2
  <2> QED BY <2>1, <2>2
<1>8. ASSUME NEW m \in F, low < m, m <= high
      PROVE  \E i \in 1 .. p + q : u[i] = m
  <2>1. CASE m <= mid
    <3>1. PICK j \in 1 .. q : s[j] = m
      BY <1>1, <1>8, <2>1, Zenon
    <3>2. j + p \in p + 1 .. p + q /\ (j + p) - p = j /\ j + p \in 1 .. p + q
      BY <1>1, <1>2
    <3>3. u[j + p] = s[(j + p) - p]
      BY <1>5, <3>2, Zenon
    <3> QED BY <3>1, <3>2, <3>3, Zenon
  <2>2. CASE ~ (m <= mid)
    <3>1. mid < m
      BY <2>2
    <3>2. PICK j \in 1 .. p : t[j] = m
      BY <1>2, <1>8, <3>1, Zenon
    <3>3. j \in 1 .. p + q
      BY <1>1, <1>2
    <3> QED BY <1>4, <3>2, <3>3, Zenon
  <2> QED BY <2>1, <2>2, Zenon
<1>9. ASSUME NEW i \in 1 .. p + q, NEW j \in 1 .. p + q, i < j
      PROVE  u[i] > u[j]
  <2>1. CASE j <= p
    <3>1. i \in 1 .. p /\ j \in 1 .. p
      BY <1>2, <1>9, <2>1
    <3>2. t[i] > t[j]
      BY <1>2, <1>9, <3>1, Zenon
    <3> QED BY <1>4, <3>1, <3>2, Zenon
  <2>2. CASE i <= p /\ ~ (j <= p)
    <3>1. i \in 1 .. p /\ j \in p + 1 .. p + q /\ j - p \in 1 .. q
      BY <1>1, <1>2, <2>2
    <3>2. u[i] \in Nat /\ mid < u[i] /\ u[j] \in Nat /\ u[j] <= mid
      BY <1>1, <1>2, <1>4, <1>5, <3>1, Zenon
    <3> QED BY <3>2
  <2>3. CASE ~ (i <= p)
    <3>1. /\ i \in p + 1 .. p + q /\ j \in p + 1 .. p + q
          /\ i - p \in 1 .. q /\ j - p \in 1 .. q /\ i - p < j - p
      BY <1>1, <1>2, <1>9, <2>3
    <3>2. s[i - p] > s[j - p]
      BY <1>1, <3>1, Zenon
    <3> QED BY <1>5, <3>1, <3>2, Zenon
  <2> QED BY <1>2, <1>9, <2>1, <2>2, <2>3, Zenon
<1>10. Range(u) = {m \in F : low < m /\ m <= high}
  <2>1. \A m \in Range(u) : m \in F /\ low < m /\ m <= high
    BY <1>6, <1>7, Zenon DEF Range
  <2>2. \A m \in F : low < m /\ m <= high => m \in Range(u)
    BY <1>6, <1>8, Zenon DEF Range
  <2> QED BY <2>1, <2>2, Zenon
<1> QED BY <1>3, <1>6, <1>9, <1>10, Zenon DEF IsL0, u

\* The oldest memtables of a queue, newest first, are as L0 needs them.
LEMMA BatchL0 ==
  ASSUME NEW F \in SUBSET (Nat \ {0}), NEW queue, NEW low \in Nat, IsQueue(queue, F, low),
         NEW k \in 1 .. Len(queue), NEW batch, batch = SubSeq(queue, 1, k)
  PROVE  IsL0(NewestFirst(batch), F, low, queue[k].last)
<1> DEFINE n == Len(queue)
           high == queue[k].last
           t == NewestFirst(batch)
<1>1. /\ queue \in Seq(Entries) /\ n \in Nat /\ DOMAIN queue = 1 .. n
      /\ \A i \in 1 .. n : queue[i].last \in F /\ queue[i].last \in Nat /\ queue[i].last > low
      /\ \A m \in F : m > low => \E i \in 1 .. n : queue[i].last = m
      /\ \A i, j \in 1 .. n : i < j => queue[i].last < queue[j].last
  <2>1. QueueByIndex(queue, F, low)
    BY QueueElements, Zenon
  <2> QED BY <2>1, Zenon DEF QueueByIndex
<1>2. /\ batch \in Seq(Entries) /\ Len(batch) = k
      /\ \A i \in 1 .. k : batch[i] = queue[i]
  BY <1>1
<1>3. /\ t \in Seq(Nat) /\ Len(t) = k
      /\ \A i \in 1 .. k : t[i] = batch[(k - i) + 1].last
  BY <1>2, BatchNames, Zenon
<1>4. k \in Nat /\ DOMAIN t = 1 .. k
  BY <1>1, <1>3
<1>5. \A i \in 1 .. k : (k - i) + 1 \in 1 .. k /\ (k - i) + 1 \in 1 .. n
  BY <1>1
<1> HIDE DEF t, n, high
<1>6. \A i \in 1 .. k : t[i] = queue[(k - i) + 1].last
  BY <1>2, <1>3, <1>5, Zenon
<1>7. \A j \in 1 .. k : j \in 1 .. n /\ queue[j].last \in Nat /\ queue[j].last <= high
  <2> SUFFICES ASSUME NEW j \in 1 .. k
               PROVE  j \in 1 .. n /\ queue[j].last \in Nat /\ queue[j].last <= high
    OBVIOUS
  <2>1. j \in 1 .. n /\ k \in 1 .. n
    BY <1>1 DEF n
  <2>2. queue[j].last \in Nat /\ queue[k].last \in Nat
    BY <1>1, <2>1, Zenon
  <2>3. CASE j < k
    <3>1. queue[j].last < queue[k].last
      BY <1>1, <2>1, <2>3, Zenon
    <3> QED BY <2>1, <2>2, <3>1 DEF high
  <2>4. CASE j = k
    BY <2>1, <2>2, <2>4 DEF high
  <2> QED BY <2>1, <2>3, <2>4
<1>8. \A i \in 1 .. k : t[i] \in F /\ low < t[i] /\ t[i] <= high
  <2> SUFFICES ASSUME NEW i \in 1 .. k
               PROVE  t[i] \in F /\ low < t[i] /\ t[i] <= high
    OBVIOUS
  <2>1. t[i] \in F /\ t[i] \in Nat /\ t[i] > low /\ t[i] <= high
    BY <1>1, <1>5, <1>6, <1>7, Zenon
  <2> QED BY <2>1
<1>9. ASSUME NEW m \in F, low < m, m <= high
      PROVE  \E i \in 1 .. k : t[i] = m
  <2>1. m > low
    BY <1>9
  <2>2. PICK j \in 1 .. n : queue[j].last = m
    BY <1>1, <2>1, Zenon
  <2>3. ASSUME k < j PROVE FALSE
    <3>1. k \in 1 .. n
      BY DEF n
    <3>2. high < m /\ high \in Nat
      BY <1>1, <2>2, <2>3, <3>1, Zenon DEF high
    <3> QED BY <1>9, <3>2
  <2>4. (k - j) + 1 \in 1 .. k /\ (k - ((k - j) + 1)) + 1 = j
    BY <1>1, <1>4, <2>3
  <2>5. t[(k - j) + 1] = m
    BY <1>6, <2>2, <2>4, Zenon
  <2> QED BY <2>4, <2>5, Zenon
<1>10. ASSUME NEW i \in 1 .. k, NEW j \in 1 .. k, i < j
       PROVE  t[i] > t[j]
  <2>1. (k - j) + 1 < (k - i) + 1
    BY <1>4, <1>10
  <2>2. queue[(k - j) + 1].last < queue[(k - i) + 1].last
    BY <1>1, <1>5, <2>1, Zenon
  <2>3. t[j] < t[i] /\ t[j] \in Nat /\ t[i] \in Nat
    BY <1>1, <1>5, <1>6, <2>2, Zenon
  <2> QED BY <2>3
<1>11. Range(t) = {m \in F : low < m /\ m <= high}
  <2>1. \A m \in Range(t) : m \in F /\ low < m /\ m <= high
    BY <1>4, <1>8, Zenon DEF Range
  <2>2. \A m \in F : low < m /\ m <= high => m \in Range(t)
    BY <1>4, <1>9, Zenon DEF Range
  <2> QED BY <2>1, <2>2, Zenon
<1> QED BY <1>3, <1>4, <1>10, <1>11, Zenon DEF IsL0, t, high

\* A sequence without its first elements
LEMMA RestOfSeq ==
  ASSUME NEW S, NEW s \in Seq(S), NEW k \in 1 .. Len(s)
  PROVE  /\ SubSeq(s, k + 1, Len(s)) \in Seq(S)
         /\ Len(SubSeq(s, k + 1, Len(s))) = Len(s) - k
         /\ DOMAIN SubSeq(s, k + 1, Len(s)) = 1 .. Len(s) - k
         /\ \A i \in 1 .. Len(s) - k : SubSeq(s, k + 1, Len(s))[i] = s[i + k]
OBVIOUS

\* What is left of the queue
LEMMA RestOfQueue ==
  ASSUME NEW F \in SUBSET (Nat \ {0}), NEW queue, NEW low \in Nat, IsQueue(queue, F, low),
         NEW k \in 1 .. Len(queue)
  PROVE  IsQueue(SubSeq(queue, k + 1, Len(queue)), F, queue[k].last)
<1> DEFINE n == Len(queue)
           high == queue[k].last
           rest == SubSeq(queue, k + 1, n)
<1>1. /\ queue \in Seq(Entries) /\ n \in Nat /\ DOMAIN queue = 1 .. n
      /\ \A i \in 1 .. n : queue[i].last \in F /\ queue[i].last \in Nat /\ queue[i].last > low
      /\ \A m \in F : m > low => \E i \in 1 .. n : queue[i].last = m
      /\ \A i, j \in 1 .. n : i < j => queue[i].last < queue[j].last
  <2>1. QueueByIndex(queue, F, low)
    BY QueueElements, Zenon
  <2> QED BY <2>1, Zenon DEF QueueByIndex
<1>2. /\ rest \in Seq(Entries) /\ Len(rest) = n - k /\ DOMAIN rest = 1 .. n - k
      /\ \A i \in 1 .. n - k : rest[i] = queue[i + k]
  <2>1. queue \in Seq(Entries)
    BY <1>1, Zenon
  <2> QED BY <2>1, RestOfSeq, Zenon
<1>3. \A i \in 1 .. n - k : rest[i] = queue[i + k]
  BY <1>2, Zenon
<1>4. DOMAIN rest = 1 .. n - k
  BY <1>2, Zenon
<1>5. \A i \in 1 .. n - k : i + k \in 1 .. n /\ k < i + k
  BY <1>1
<1>6. k \in 1 .. n /\ high \in Nat /\ low < high
  BY <1>1
<1> HIDE DEF n, high, rest
<1>7. ASSUME NEW i \in 1 .. n - k, NEW j \in 1 .. n - k, i < j
      PROVE  rest[i].last < rest[j].last
  <2>1. i + k < j + k
    BY <1>6, <1>7
  <2> QED BY <1>1, <1>3, <1>5, <2>1, Zenon
<1>8. ASSUME NEW i \in 1 .. n - k
      PROVE  rest[i].last \in F /\ rest[i].last > high
  <2>1. rest[i].last \in F /\ rest[i].last \in Nat /\ high < rest[i].last
    BY <1>1, <1>3, <1>5, <1>6, Zenon DEF high
  <2> QED BY <1>6, <2>1
<1>9. ASSUME NEW m \in F, m > high
      PROVE  \E i \in 1 .. n - k : rest[i].last = m
  <2>1. m > low
    BY <1>6, <1>9
  <2>2. PICK j \in 1 .. n : queue[j].last = m
    BY <1>1, <2>1, Zenon
  <2>3. ASSUME j <= k PROVE FALSE
    <3>1. CASE j = k
      BY <1>6, <1>9, <2>2, <3>1 DEF high
    <3>2. CASE j < k
      <4>1. m < high
        BY <1>1, <1>6, <2>2, <3>2, Zenon DEF high
      <4> QED BY <1>6, <1>9, <4>1
    <3> QED BY <1>6, <2>3, <3>1, <3>2
  <2>4. j - k \in 1 .. n - k /\ (j - k) + k = j
    BY <1>1, <1>6, <2>3
  <2>5. rest[j - k] = queue[j]
    BY <1>3, <2>4, Zenon
  <2> QED BY <2>2, <2>4, <2>5, Zenon
<1>10. {rest[i].last : i \in DOMAIN rest} = {m \in F : m > high}
  <2>1. \A x \in {rest[i].last : i \in DOMAIN rest} : x \in F /\ x > high
    BY <1>4, <1>8, Zenon
  <2>2. \A m \in F : m > high => m \in {rest[i].last : i \in DOMAIN rest}
    BY <1>4, <1>9, Zenon
  <2> QED BY <2>1, <2>2, Zenon
<1> QED BY <1>2, <1>4, <1>7, <1>10, Zenon DEF IsQueue, rest, n, high

\* apply_uploaded_state: the oldest memtables of the queue go on top of L0.
IsApplied(new, rest, man, newest, F) ==
  /\ IsTree(new, F) /\ IsQueue(rest, F, new.last_l0)
  /\ new.marker = man.marker /\ new.last_l0 = newest.last /\ new.replay_after = newest.wal
  /\ man.last_l0 < newest.last /\ newest.last \in Nat

LEMMA AppliedTree ==
  ASSUME NEW F \in SUBSET (Nat \ {0}), NEW man, IsTree(man, F),
         NEW queue, IsQueue(queue, F, man.last_l0),
         NEW k \in 1 .. Len(queue), NEW batch, batch = SubSeq(queue, 1, k)
  PROVE  IsApplied(Applied(man, batch), SubSeq(queue, k + 1, Len(queue)), man, queue[k], F)
<1> DEFINE low == man.last_l0
           high == queue[k].last
           l0 == NewestFirst(batch) \o man.l0
           new == Applied(man, batch)
<1>1. /\ low \in Nat /\ man.marker \in Nat /\ man.marker <= low
      /\ man.marker \in F \cup {0}
      /\ man.sorted = {m \in F : m <= man.marker} /\ DOMAIN man = DOMAIN NewManifest
      /\ IsL0(man.l0, F, man.marker, low)
  BY TreeNumbers, Zenon
<1>2. /\ queue \in Seq(Entries)
      /\ high \in F /\ high \in Nat /\ high > low
  <2>1. QueueByIndex(queue, F, low)
    BY QueueElements, Zenon
  <2> QED BY <2>1, Zenon DEF QueueByIndex
<1>3. low < high /\ low <= high /\ man.marker <= high
  BY <1>1, <1>2
<1>4. batch # << >> /\ Last(batch) = queue[k]
  <2>1. batch \in Seq(Entries) /\ Len(batch) = k /\ batch[k] = queue[k]
    BY <1>2
  <2> QED BY <2>1 DEF Last
<1>5. /\ DOMAIN new = DOMAIN NewManifest
      /\ new.l0 = l0 /\ new.sorted = man.sorted /\ new.marker = man.marker
      /\ new.last_l0 = high /\ new.replay_after = queue[k].wal
  BY <1>1, <1>4, Zenon DEF Applied, NewManifest
<1>6. IsL0(NewestFirst(batch), F, low, high)
  BY <1>1, BatchL0, Zenon
<1>7. IsL0(l0, F, man.marker, high)
  <2> DEFINE t == NewestFirst(batch)
  <2> HIDE DEF t
  <2>1. IsL0(t, F, low, high)
    BY <1>6, Zenon DEF t
  <2>2. IsL0(t \o man.l0, F, man.marker, high)
    BY <1>1, <1>2, <1>3, <2>1, StackedL0, Zenon
  <2> QED BY <2>2, Zenon DEF t
<1> HIDE DEF new, l0, low, high
<1>8. IsTree(new, F)
  BY <1>1, <1>2, <1>3, <1>5, <1>7, Zenon DEF IsTree, IsL0
<1>9. IsQueue(SubSeq(queue, k + 1, Len(queue)), F, high)
  BY <1>1, RestOfQueue, Zenon DEF low, high
<1> QED BY <1>2, <1>3, <1>5, <1>8, <1>9, Zenon DEF IsApplied, new, low, high

\* The compactor moves the oldest L0 SSTs into sorted runs.
IsCompacted(new, man, F) ==
  /\ IsTree(new, F)
  /\ new.last_l0 = man.last_l0 /\ new.replay_after = man.replay_after
  /\ man.marker <= new.marker

LEMMA CompactedTree ==
  ASSUME NEW F \in SUBSET (Nat \ {0}), NEW man, IsTree(man, F),
         NEW n \in 0 .. Len(man.l0) - 1, NEW new,
         new = [man EXCEPT !.l0 = SubSeq(@, 1, n),
                           !.sorted = @ \cup {man.l0[i] : i \in n + 1 .. Len(man.l0)},
                           !.marker = man.l0[n + 1]]
  PROVE  IsCompacted(new, man, F)
<1> DEFINE s == man.l0
           p == Len(s)
           c == s[n + 1]
           from == {s[i] : i \in n + 1 .. p}
<1>1. /\ man.marker \in Nat /\ man.last_l0 \in Nat /\ man.marker <= man.last_l0
      /\ man.last_l0 \in F \cup {0}
      /\ IsL0(s, F, man.marker, man.last_l0)
      /\ man.sorted = {m \in F : m <= man.marker}
      /\ DOMAIN man = DOMAIN NewManifest
  BY TreeNumbers, Zenon
<1>2. /\ DOMAIN new = DOMAIN NewManifest
      /\ new.l0 = SubSeq(s, 1, n) /\ new.sorted = man.sorted \cup from /\ new.marker = c
      /\ new.last_l0 = man.last_l0 /\ new.replay_after = man.replay_after
  BY <1>1 DEF NewManifest
<1>3. /\ s \in Seq(Nat) /\ p \in Nat
      /\ \A i \in 1 .. p : s[i] \in F /\ s[i] \in Nat /\ man.marker < s[i] /\ s[i] <= man.last_l0
      /\ \A m \in F : man.marker < m /\ m <= man.last_l0 => \E i \in 1 .. p : s[i] = m
      /\ \A i, j \in 1 .. p : i < j => s[i] > s[j]
  <2>1. L0ByIndex(s, F, man.marker, man.last_l0)
    BY <1>1, L0Elements, Zenon
  <2> QED BY <2>1, Zenon DEF L0ByIndex
<1>4. n \in 0 .. p /\ n + 1 \in 1 .. p /\ \A i \in 1 .. n : i \in 1 .. p /\ i < n + 1
  BY <1>3
<1> HIDE DEF s, p, c, from
<1>5. c \in F /\ c \in Nat /\ man.marker < c /\ c <= man.last_l0
  BY <1>3, <1>4, Zenon DEF c
<1>6. \A i \in 1 .. n : s[i] # c
  <2> SUFFICES ASSUME NEW i \in 1 .. n PROVE s[i] # c
    OBVIOUS
  <2>1. s[i] \in Nat /\ s[i] > c
    BY <1>3, <1>4, Zenon DEF c
  <2> QED BY <1>5, <2>1
<1>7. IsL0(SubSeq(s, 1, n), F, c, man.last_l0)
  <2>1. man.marker <= c
    BY <1>1, <1>5
  <2>2. n < Len(s) => s[n + 1] = c
    BY DEF c
  <2> QED BY <1>1, <1>4, <1>5, <1>6, <2>1, <2>2, FrontOfL0, Zenon DEF p
<1>8. man.sorted \cup from = {m \in F : m <= c}
  <2>1. ASSUME NEW i \in n + 1 .. p
        PROVE  s[i] \in F /\ s[i] <= c
    <3>1. i \in 1 .. p
      BY <1>4
    <3>2. CASE i = n + 1
      BY <1>5, <3>2 DEF c
    <3>3. CASE i # n + 1
      <4>1. n + 1 < i
        BY <1>3, <1>4, <3>3
      <4>2. c > s[i] /\ s[i] \in F /\ s[i] \in Nat
        BY <1>3, <1>4, <3>1, <4>1, Zenon DEF c
      <4> QED BY <1>5, <4>2
    <3> QED BY <3>2, <3>3
  <2>2. ASSUME NEW m \in F, m <= c, ~ (m <= man.marker)
        PROVE  \E i \in n + 1 .. p : s[i] = m
    <3>1. man.marker < m /\ m <= man.last_l0
      BY <1>1, <1>5, <2>2
    <3>2. PICK j \in 1 .. p : s[j] = m
      BY <1>3, <3>1, Zenon
    <3>3. ASSUME j < n + 1 PROVE FALSE
      <4>1. m > c
        BY <1>3, <1>4, <3>2, <3>3, Zenon DEF c
      <4> QED BY <1>5, <2>2, <4>1
    <3>4. j \in n + 1 .. p
      BY <1>3, <1>4, <3>3
    <3> QED BY <3>2, <3>4, Zenon
  <2>3. ASSUME NEW m \in F, m <= man.marker
        PROVE  m <= c
    BY <1>1, <1>5, <2>3
  <2>4. \A m \in man.sorted \cup from : m \in F /\ m <= c
    BY <1>1, <2>1, <2>3, Zenon DEF from
  <2>5. \A m \in F : m <= c => m \in man.sorted \cup from
    BY <1>1, <2>2, Zenon DEF from
  <2> QED BY <2>4, <2>5
<1>9. IsTree(new, F)
  BY <1>1, <1>2, <1>5, <1>7, <1>8, Zenon DEF IsTree, IsL0
<1>10. man.marker <= new.marker
  BY <1>1, <1>2, <1>5
<1> QED BY <1>2, <1>9, <1>10, Zenon DEF IsCompacted

\* freeze_current_memtable: a newer memtable changes no tree and is the last of
\* the queue.
LEMMA FrozenTree ==
  ASSUME NEW F \in SUBSET (Nat \ {0}), NEW last \in Nat, \A m \in F \cup {0} : m < last,
         NEW man, IsTree(man, F)
  PROVE  IsTree(man, F \cup {last})
<1> DEFINE G == F \cup {last}
<1>1. /\ man.marker \in Nat /\ man.last_l0 \in Nat /\ man.marker <= man.last_l0
      /\ man.marker \in F \cup {0} /\ man.last_l0 \in F \cup {0}
      /\ IsL0(man.l0, F, man.marker, man.last_l0)
      /\ man.sorted = {m \in F : m <= man.marker}
      /\ DOMAIN man = DOMAIN NewManifest
  BY TreeNumbers, Zenon
<1>2. man.marker < last /\ man.last_l0 < last
  BY <1>1, Zenon
<1>3. ~ (last <= man.marker) /\ ~ (last <= man.last_l0)
  <2>1. man.marker \in Nat /\ man.last_l0 \in Nat
    BY <1>1, Zenon
  <2> QED
    BY <1>2, <2>1
<1>4. {m \in G : m <= man.marker} = {m \in F : m <= man.marker}
  BY <1>3, Zenon
<1>5. {m \in G : man.marker < m /\ m <= man.last_l0} = {m \in F : man.marker < m /\ m <= man.last_l0}
  BY <1>3, Zenon
<1>6. man.marker \in G \cup {0} /\ man.last_l0 \in G \cup {0}
  BY <1>1, Zenon
<1> HIDE DEF G
<1>7. IsTree(man, G)
  BY <1>1, <1>4, <1>5, <1>6 DEF IsTree, IsL0
<1> QED BY <1>7 DEF G

Longer(new, queue, e, F, low) ==
  /\ IsQueue(new, F, low)
  /\ \A i \in DOMAIN new : (i \in DOMAIN queue /\ new[i] = queue[i]) \/ new[i] = e

LEMMA FrozenQueue ==
  ASSUME NEW F \in SUBSET (Nat \ {0}), NEW last \in Nat, \A m \in F \cup {0} : m < last,
         NEW low \in F \cup {0}, NEW queue, IsQueue(queue, F, low),
         NEW e \in Entries, e.last = last
  PROVE  Longer(Append(queue, e), queue, e, F \cup {last}, low)
<1> DEFINE n == Len(queue)
           new == Append(queue, e)
           G == F \cup {last}
<1>1. /\ queue \in Seq(Entries) /\ n \in Nat /\ DOMAIN queue = 1 .. n
      /\ \A i \in 1 .. n : queue[i].last \in F /\ queue[i].last \in Nat /\ queue[i].last > low
      /\ \A m \in F : m > low => \E i \in 1 .. n : queue[i].last = m
      /\ \A i, j \in 1 .. n : i < j => queue[i].last < queue[j].last
  <2>1. QueueByIndex(queue, F, low)
    BY QueueElements, Zenon
  <2> QED BY <2>1, Zenon DEF QueueByIndex
<1>2. e \in Entries /\ e.last = last
  OBVIOUS
<1>3. /\ new \in Seq(Entries) /\ Len(new) = n + 1
      /\ \A i \in 1 .. n : new[i] = queue[i]
      /\ new[n + 1] = e
  BY <1>1, <1>2
<1>4. /\ DOMAIN new = 1 .. n + 1 /\ n + 1 \in 1 .. n + 1
      /\ \A i \in 1 .. n + 1 : i \in 1 .. n \/ i = n + 1
      /\ \A i \in 1 .. n : i \in 1 .. n + 1 /\ i < n + 1
  BY <1>1, <1>3
<1> HIDE DEF n, new
<1>5. ASSUME NEW i \in 1 .. n + 1, NEW j \in 1 .. n + 1, i < j
      PROVE  new[i].last < new[j].last
  <2>1. i \in 1 .. n
    BY <1>1, <1>4, <1>5
  <2>2. CASE j \in 1 .. n
    BY <1>1, <1>3, <1>5, <2>1, <2>2, Zenon
  <2>3. CASE j = n + 1
    <3>1. queue[i].last \in F
      BY <1>1, <2>1, Zenon
    <3>2. queue[i].last < last
      BY <3>1, Zenon
    <3> QED BY <1>2, <1>3, <2>1, <2>3, <3>2, Zenon
  <2> QED BY <1>4, <2>2, <2>3, Zenon
<1>6. low < last /\ last > low
  BY Zenon
<1>7. \A x \in {new[i].last : i \in DOMAIN new} : x \in G /\ x > low
  <2> SUFFICES ASSUME NEW i \in 1 .. n + 1 PROVE new[i].last \in G /\ new[i].last > low
    BY <1>4, Zenon
  <2>1. CASE i \in 1 .. n
    BY <1>1, <1>3, <2>1, Zenon
  <2>2. CASE i = n + 1
    BY <1>2, <1>3, <1>6, <2>2
  <2> QED BY <1>4, <2>1, <2>2, Zenon
<1>8. \A m \in G : m > low => m \in {new[i].last : i \in DOMAIN new}
  <2> SUFFICES ASSUME NEW m \in G, m > low PROVE \E i \in 1 .. n + 1 : new[i].last = m
    BY <1>4, Zenon
  <2>1. CASE m = last
    BY <1>2, <1>3, <1>4, <2>1, Zenon
  <2>2. CASE m \in F
    BY <1>1, <1>3, <1>4, <2>2, Zenon
  <2> QED BY <2>1, <2>2
<1>9. {new[i].last : i \in DOMAIN new} = {m \in G : m > low}
  BY <1>7, <1>8, Zenon
<1>10. \A i \in DOMAIN new : (i \in DOMAIN queue /\ new[i] = queue[i]) \/ new[i] = e
  BY <1>1, <1>3, <1>4, Zenon
<1> HIDE DEF G
<1>11. IsQueue(new, G, low)
  BY <1>3, <1>4, <1>5, <1>9, Zenon DEF IsQueue
<1> QED BY <1>10, <1>11, Zenon DEF Longer, new, G

\* WAL files stay as they are, and more are flushed.
LEMMA StampKept ==
  ASSUME NEW w, NEW last, NEW ends, NEW n \in Nat, NEW ends2, NEW n2 \in Nat,
         IsStamp(w, last, ends, n), n <= n2, \A i \in 1 .. n : ends2[i] = ends[i]
  PROVE  IsStamp(w, last, ends2, n2)
<1>1. w \in 0 .. n /\ (w > 0 => ends[w] <= last)
  BY DEF IsStamp
<1>2. w \in 0 .. n2 /\ (w > 0 => w \in 1 .. n)
  BY <1>1
<1> QED BY <1>1, <1>2 DEF IsStamp

\* freeze_current_wal: at most one file more, with rows after those of the others
LEMMA FrozenWalFile ==
  ASSUME RowInv, WalInv, NEW ends, ends = FrozenWal
  PROVE  /\ ends \in Seq(Nat) /\ Len(walEnd) <= Len(ends)
         /\ \A i \in 1 .. Len(walEnd) : ends[i] = walEnd[i]
         /\ \A i \in DOMAIN ends : 1 <= ends[i] /\ ends[i] <= appended
         /\ \A i, j \in DOMAIN ends : i < j => ends[i] < ends[j]
<1> DEFINE n == Len(walEnd)
<1>1. /\ walEnd \in Seq(Nat) /\ n \in Nat /\ DOMAIN walEnd = 1 .. n /\ appended \in Nat
      /\ \A i \in 1 .. n : walEnd[i] \in Nat /\ 1 <= walEnd[i] /\ walEnd[i] <= appended
      /\ \A i, j \in 1 .. n : i < j => walEnd[i] < walEnd[j]
  BY DEF RowInv, WalInv
<1>2. CASE ends = walEnd
  BY <1>1, <1>2
<1>3. CASE ends = Append(walEnd, appended) /\ appended > LastWalRow
  <2>1. /\ ends \in Seq(Nat) /\ Len(ends) = n + 1 /\ DOMAIN ends = 1 .. n + 1
        /\ \A i \in 1 .. n : ends[i] = walEnd[i]
        /\ ends[n + 1] = appended
    BY <1>1, <1>3
  <2>2. LastWalRow \in Nat /\ \A i \in 1 .. n : walEnd[i] <= LastWalRow
    <3>1. CASE walEnd = << >>
      BY <1>1, <3>1 DEF LastWalRow
    <3>2. CASE walEnd # << >>
      <4>1. n \in 1 .. n
        BY <1>1, <3>2
      <4>2. LastWalRow = walEnd[n] /\ walEnd[n] \in Nat
        BY <1>1, <3>2, <4>1, Zenon DEF LastWalRow, Last
      <4>3. ASSUME NEW i \in 1 .. n PROVE walEnd[i] <= walEnd[n]
        <5>1. walEnd[i] \in Nat
          BY <1>1, Zenon
        <5>2. CASE i < n
          <6>1. walEnd[i] < walEnd[n]
            BY <1>1, <4>1, <5>2, Zenon
          <6> QED BY <4>2, <5>1, <6>1
        <5>3. CASE i = n
          BY <4>2, <5>3
        <5>4. n \in Nat
          BY <1>1, Zenon
        <5>5. i < n \/ i = n
          BY <5>4
        <5> QED BY <5>2, <5>3, <5>5, Zenon
      <4> QED BY <4>2, <4>3, Zenon
    <3> QED BY <3>1, <3>2
  <2>3. \A i \in 1 .. n + 1 : i \in 1 .. n \/ i = n + 1
    BY <1>1
  <2> HIDE DEF n
  <2>4. 1 <= appended
    BY <1>1, <1>3, <2>2
  <2>5. \A i \in 1 .. n + 1 : 1 <= ends[i] /\ ends[i] <= appended
    BY <1>1, <2>1, <2>3, <2>4
  <2>6. ASSUME NEW i \in 1 .. n + 1, NEW j \in 1 .. n + 1, i < j
        PROVE  ends[i] < ends[j]
    <3>1. i \in 1 .. n
      BY <1>1, <2>6
    <3>2. CASE j \in 1 .. n
      BY <1>1, <2>1, <2>6, <3>1, <3>2, Zenon
    <3>3. CASE j = n + 1
      BY <1>1, <1>3, <2>1, <2>2, <3>1, <3>3
    <3> QED BY <2>3, <3>2, <3>3, Zenon
  <2>7. n <= Len(ends)
    BY <1>1, <2>1
  <2> QED BY <2>1, <2>5, <2>6, <2>7 DEF n
<1> QED BY <1>2, <1>3, Zenon DEF FrozenWal

-----------------------------------------------------------------------------
(***************************************************************************)
(* The steps                                                               *)
(***************************************************************************)
\* The memtables are positive numbers, and LastFrozen is the greatest.
LEMMA FrozenNumbers ==
  ASSUME RowInv
  PROVE  /\ frozen \in SUBSET (Nat \ {0})
         /\ LastFrozen \in Nat /\ \A m \in frozen \cup {0} : m <= LastFrozen
<1> DEFINE S == frozen \cup {0}
<1>1. seq \in Nat /\ S \in SUBSET (0 .. seq) /\ S # {} /\ frozen \in SUBSET (Nat \ {0})
  BY DEF RowInv
<1>2. Max(S) \in S /\ \A x \in S : x <= Max(S)
  <2> HIDE DEF S
  <2> QED BY <1>1, MaxOfBounded, Zenon
<1>3. LastFrozen = Max(S)
  BY DEF LastFrozen
<1> HIDE DEF S
<1>4. \A x \in S : x \in Nat
  BY <1>1
<1> QED BY <1>1, <1>2, <1>3, <1>4, Zenon DEF S

\* The initial state
LEMMA InitOK == Init => IndInv
<1> SUFFICES ASSUME Init PROVE IndInv
  OBVIOUS
<1>1. /\ appended = 0 /\ seq = 0 /\ walEnd = << >> /\ flushed = 0 /\ durable = 0
      /\ frozen = {} /\ imm = << >> /\ mw = Idle
      /\ local = NewManifest /\ stored = NewManifest
  BY Zenon DEF Init
<1>2. RowInv
  BY <1>1 DEF RowInv
<1>3. WalInv
  BY <1>1 DEF WalInv
<1>4. /\ NewManifest.marker = 0 /\ NewManifest.last_l0 = 0 /\ NewManifest.replay_after = 0
      /\ NewManifest.sorted = {} /\ NewManifest.l0 = << >>
  BY DEF NewManifest
<1>5. TreeInv
  <2>1. Range(<< >>) = {} /\ 0 <= 0 /\ << >> \in Seq(Nat) /\ DOMAIN << >> = {}
    BY DEF Range
  <2>2. IsTree(NewManifest, {})
    BY <1>4, <2>1, Zenon DEF IsTree
  <2> QED BY <1>1, <1>4, <2>1, <2>2, Zenon DEF TreeInv
<1>6. ImmInv
  <2>1. << >> \in Seq(Entries) /\ DOMAIN << >> = {}
    OBVIOUS
  <2> QED BY <1>1, <2>1, Zenon DEF ImmInv, IsQueue
<1>7. MwInv
  BY <1>1, Zenon DEF MwInv, Idle
<1>8. StampInv
  <2>1. IsStamp(0, 0, << >>, 0) /\ DOMAIN << >> = {}
    BY DEF IsStamp
  <2> QED BY <1>1, <1>4, <2>1, Zenon DEF StampInv
<1>9. DurableInv
  <2>1. 0 \in Nat /\ 0 <= 0
    OBVIOUS
  <2> QED BY <1>1, <1>4, <2>1, Zenon DEF DurableInv
<1> QED BY <1>2, <1>3, <1>5, <1>6, <1>7, <1>8, <1>9, Zenon DEF IndInv

\* What the invariant is about
data == <<seq, appended, frozen, walEnd, flushed, durable, imm, manifests>>

\* Callers, the tracker, the uploaders and the readers
LEMMA DataStep ==
  ASSUME IndInv, UNCHANGED data
  PROVE  (RowInv /\ WalInv /\ ImmInv /\ TreeInv /\ StampInv /\ DurableInv)'
<1>1. /\ seq' = seq /\ appended' = appended /\ frozen' = frozen /\ walEnd' = walEnd
      /\ flushed' = flushed /\ durable' = durable /\ imm' = imm /\ local' = local
      /\ stored' = stored /\ idCurrent' = idCurrent /\ dirtyCurrent' = dirtyCurrent
  BY DEF data, manifests
<1>2. RowInv' /\ WalInv'
  BY <1>1, Zenon DEF IndInv, RowInv, WalInv
<1>3. ImmInv' /\ TreeInv'
  BY <1>1, Zenon DEF IndInv, ImmInv, TreeInv
<1>4. StampInv' /\ DurableInv'
  BY <1>1, Zenon DEF IndInv, StampInv, DurableInv
<1> QED BY <1>2, <1>3, <1>4, Zenon

LEMMA QuietStep ==
  ASSUME IndInv, UNCHANGED <<data, mw>>
  PROVE  IndInv'
<1>1. /\ mw' = mw /\ frozen' = frozen /\ walEnd' = walEnd /\ flushed' = flushed
      /\ local' = local
  BY DEF data, manifests
<1>2. MwInv'
  BY <1>1, Zenon DEF IndInv, MwInv
<1> QED BY <1>2, DataStep, Zenon DEF IndInv

\* The manifest writer goes on to something else than a put.
LEMMA WriterMoves ==
  ASSUME IndInv, UNCHANGED data,
         DOMAIN mw' = DOMAIN Idle, mw'.pc # "put", mw'.batch \in {mw.batch, << >>}
  PROVE  IndInv'
<1>1. local' = local
  BY DEF data, manifests
<1>2. MwInv'
  BY <1>1, Zenon DEF IndInv, MwInv
<1> QED BY <1>2, DataStep, Zenon DEF IndInv

\* What no WAL file and no freeze changes
LEMMA StampsKept ==
  ASSUME WalInv, flushed' \in Nat, flushed <= flushed',
         \A i \in 1 .. flushed : walEnd'[i] = walEnd[i]
  PROVE  \A w, last : IsStamp(w, last, walEnd, flushed) => IsStamp(w, last, walEnd', flushed')
<1>1. flushed \in Nat
  BY DEF WalInv
<1> QED BY <1>1, StampKept, Zenon

\* write_batch up to the WAL append
LEMMA AppendRowStep == IndInv /\ AppendRow => IndInv'
<1> SUFFICES ASSUME IndInv, AppendRow PROVE IndInv'
  OBVIOUS
<1>1. RowInv /\ WalInv /\ ImmInv /\ TreeInv /\ MwInv /\ StampInv /\ DurableInv
  BY Zenon DEF IndInv
<1>2. /\ appended = seq /\ appended' = seq + 1
      /\ seq' = seq /\ frozen' = frozen /\ walEnd' = walEnd
      /\ flushed' = flushed /\ durable' = durable /\ imm' = imm /\ local' = local
      /\ stored' = stored /\ idCurrent' = idCurrent /\ dirtyCurrent' = dirtyCurrent
      /\ mw' = mw
  BY Zenon DEF AppendRow, manifests, mwriter
<1>3. seq \in Nat /\ frozen \subseteq 1 .. seq
  BY <1>1, Zenon DEF RowInv
<1>4. RowInv'
  <2>1. seq <= seq + 1 /\ seq + 1 <= seq + 1 /\ seq + 1 \in Nat
    BY <1>3
  <2> QED BY <1>2, <1>3, <2>1, Zenon DEF RowInv
<1>5. WalInv'
  <2>1. /\ walEnd \in Seq(Nat) /\ flushed \in 0 .. Len(walEnd)
        /\ \A i \in DOMAIN walEnd : 1 <= walEnd[i] /\ walEnd[i] <= appended
        /\ \A i, j \in DOMAIN walEnd : i < j => walEnd[i] < walEnd[j]
    BY <1>1, Zenon DEF WalInv
  <2>2. ASSUME NEW i \in DOMAIN walEnd PROVE walEnd[i] <= seq + 1
    <3>1. walEnd[i] \in Nat
      BY <2>1
    <3>2. walEnd[i] <= seq
      BY <1>2, <2>1, Zenon
    <3> QED BY <1>3, <3>1, <3>2
  <2> QED BY <1>2, <2>1, <2>2, Zenon DEF WalInv
<1>6. ImmInv' /\ TreeInv'
  BY <1>1, <1>2, Zenon DEF ImmInv, TreeInv
<1>7. MwInv' /\ StampInv' /\ DurableInv'
  BY <1>1, <1>2, Zenon DEF MwInv, StampInv, DurableInv
<1> QED BY <1>4, <1>5, <1>6, <1>7, Zenon DEF IndInv

\* A memtable that is not empty is frozen, while the WAL files stay as they are
\* or another is frozen too: no tree changes, and the new memtable has all rows
\* of the WAL files that were flushed.
LEMMA FreezeStep ==
  ASSUME IndInv, NEW last \in Nat, Freeze(last), \A i \in 1 .. flushed : walEnd[i] <= last,
         flushed' = flushed, \A i \in 1 .. flushed : walEnd'[i] = walEnd[i],
         UNCHANGED <<durable, manifests, mw>>
  PROVE  ImmInv' /\ TreeInv' /\ MwInv' /\ StampInv' /\ DurableInv'
<1>1. RowInv /\ WalInv /\ ImmInv /\ TreeInv /\ MwInv /\ StampInv /\ DurableInv
  BY Zenon DEF IndInv
<1>2. /\ durable' = durable /\ local' = local /\ stored' = stored
      /\ idCurrent' = idCurrent /\ dirtyCurrent' = dirtyCurrent /\ mw' = mw
  BY Zenon DEF manifests
<1>3. flushed \in Nat
  BY <1>1 DEF WalInv
<1>4. \A w, l : IsStamp(w, l, walEnd, flushed) => IsStamp(w, l, walEnd', flushed')
  <2>1. flushed' \in Nat /\ flushed <= flushed'
    BY <1>3
  <2> QED BY <1>1, <2>1, StampsKept, Zenon
<1>5. DurableInv'
  <2>1. flushed > 0 => flushed \in 1 .. flushed
    BY <1>3
  <2> QED BY <1>1, <1>2, <2>1, Zenon DEF DurableInv
<1>6. /\ IsStamp(local.replay_after, local.last_l0, walEnd', flushed')
      /\ IsStamp(stored.replay_after, stored.last_l0, walEnd', flushed')
      /\ \A i \in DOMAIN imm : IsStamp(imm[i].wal, imm[i].last, walEnd', flushed')
  BY <1>1, <1>4, Zenon DEF StampInv
<1>7. CASE UNCHANGED <<imm, frozen>>
  <2>1. ImmInv' /\ TreeInv'
    BY <1>1, <1>2, <1>7, Zenon DEF ImmInv, TreeInv
  <2>2. MwInv'
    BY <1>1, <1>2, <1>4, <1>7, Zenon DEF MwInv
  <2>3. StampInv'
    BY <1>2, <1>6, <1>7, Zenon DEF StampInv
  <2> QED BY <1>5, <2>1, <2>2, <2>3, Zenon
<1>8. CASE /\ last > LastFrozen
           /\ imm' = Append(imm, [last |-> last, wal |-> flushed])
           /\ frozen' = frozen \cup {last}
  <2>1. /\ frozen \in SUBSET (Nat \ {0})
        /\ LastFrozen \in Nat /\ \A m \in frozen \cup {0} : m <= LastFrozen
    BY <1>1, FrozenNumbers, Zenon
  <2>2. \A m \in frozen \cup {0} : m < last
    BY <1>8, <2>1
  <2>3. \A man : IsTree(man, frozen) => IsTree(man, frozen')
    BY <1>8, <2>1, <2>2, FrozenTree, Zenon
  <2>4. TreeInv'
    BY <1>1, <1>2, <2>3, Zenon DEF TreeInv
  <2>5. MwInv'
    BY <1>1, <1>2, <1>4, <2>3, Zenon DEF MwInv
  <2>6. local.last_l0 \in frozen \cup {0}
    BY <1>1, Zenon DEF TreeInv, IsTree
  <2>7. /\ IsQueue(imm', frozen', local.last_l0)
        /\ \A i \in DOMAIN imm' : \/ i \in DOMAIN imm /\ imm'[i] = imm[i]
                                  \/ imm'[i] = [last |-> last, wal |-> flushed]
    <3>1. IsQueue(imm, frozen, local.last_l0)
      BY <1>1, Zenon DEF ImmInv
    <3> DEFINE e == [last |-> last, wal |-> flushed]
    <3>2. e \in Entries /\ e.last = last
      BY <1>3 DEF Entries
    <3> HIDE DEF e
    <3>3. Longer(Append(imm, e), imm, e, frozen \cup {last}, local.last_l0)
      BY <2>1, <2>2, <2>6, <3>1, <3>2, FrozenQueue, Zenon
    <3> QED BY <1>8, <3>3, Zenon DEF Longer, e
  <2>8. ImmInv'
    BY <1>2, <2>7, Zenon DEF ImmInv
  <2>9. StampInv'
    <3>1. IsStamp(flushed, last, walEnd', flushed')
      <4>1. flushed \in 0 .. flushed /\ (flushed > 0 => flushed \in 1 .. flushed)
        BY <1>3
      <4>2. IsStamp(flushed, last, walEnd, flushed)
        BY <4>1, Zenon DEF IsStamp
      <4> QED BY <1>4, <4>2, Zenon
    <3>2. [last |-> last, wal |-> flushed].last = last /\ [last |-> last, wal |-> flushed].wal = flushed
      OBVIOUS
    <3>3. \A i \in DOMAIN imm' : IsStamp(imm'[i].wal, imm'[i].last, walEnd', flushed')
      BY <1>6, <2>7, <3>1, <3>2, Zenon
    <3> QED BY <1>2, <1>6, <3>3, Zenon DEF StampInv
  <2> QED BY <1>5, <2>4, <2>5, <2>8, <2>9, Zenon
<1> QED BY <1>7, <1>8, Zenon DEF Freeze

\* The rest of write_batch
LEMMA CommitRowStep == IndInv /\ CommitRow => IndInv'
<1> SUFFICES ASSUME IndInv, CommitRow PROVE IndInv'
  OBVIOUS
<1>1. RowInv /\ WalInv /\ ImmInv /\ TreeInv /\ MwInv /\ StampInv /\ DurableInv
  BY Zenon DEF IndInv
<1>2. /\ appended' = seq + 1 /\ seq' = seq + 1 /\ walEnd' = walEnd
      /\ flushed' = flushed /\ durable' = durable /\ local' = local
      /\ stored' = stored /\ idCurrent' = idCurrent /\ dirtyCurrent' = dirtyCurrent
      /\ mw' = mw
  BY Zenon DEF CommitRow, manifests, mwriter
<1>3. /\ seq \in Nat /\ seq + 1 \in Nat /\ appended \in Nat /\ appended <= seq + 1
      /\ frozen \subseteq 1 .. seq
  BY <1>1 DEF RowInv
<1>4. \A i \in DOMAIN walEnd : 1 <= walEnd[i] /\ walEnd[i] <= seq + 1
  <2> SUFFICES ASSUME NEW i \in DOMAIN walEnd PROVE 1 <= walEnd[i] /\ walEnd[i] <= seq + 1
    BY Zenon
  <2>1. walEnd[i] \in Nat /\ 1 <= walEnd[i] /\ walEnd[i] <= appended
    BY <1>1 DEF WalInv
  <2> QED BY <1>3, <2>1
<1>5. WalInv'
  BY <1>1, <1>2, <1>4, Zenon DEF WalInv
<1>6. frozen' \subseteq frozen \cup {seq + 1}
  BY Zenon DEF CommitRow, Freeze
<1>7. RowInv'
  <2>1. frozen' \subseteq 1 .. seq + 1
    BY <1>3, <1>6
  <2>2. seq + 1 <= seq + 1 /\ seq + 1 <= (seq + 1) + 1
    BY <1>3
  <2> QED BY <1>2, <1>3, <2>1, <2>2, Zenon DEF RowInv
<1>8. ImmInv' /\ TreeInv' /\ MwInv' /\ StampInv' /\ DurableInv'
  <2>1. CASE Freeze(seq + 1)
    <3>1. 1 .. flushed \subseteq DOMAIN walEnd
      BY <1>1 DEF WalInv
    <3>2. \A i \in 1 .. flushed : walEnd[i] <= seq + 1
      BY <1>4, <3>1, Zenon
    <3>3. UNCHANGED <<durable, manifests, mw>>
      BY <1>2, Zenon DEF manifests
    <3> QED BY <1>2, <1>3, <2>1, <3>2, <3>3, FreezeStep, Zenon
  <2>2. CASE UNCHANGED <<imm, frozen, tq>>
    <3>1. ImmInv' /\ TreeInv'
      BY <1>1, <1>2, <2>2, Zenon DEF ImmInv, TreeInv
    <3>2. MwInv' /\ StampInv' /\ DurableInv'
      BY <1>1, <1>2, <2>2, Zenon DEF MwInv, StampInv, DurableInv
    <3> QED BY <3>1, <3>2
  <2> QED BY <2>1, <2>2, Zenon DEF CommitRow
<1> QED BY <1>5, <1>7, <1>8, Zenon DEF IndInv

\* flush_batch_writer
LEMMA BatchWriterFlushStep == IndInv /\ BatchWriterFlush => IndInv'
<1> SUFFICES ASSUME IndInv, BatchWriterFlush PROVE IndInv'
  OBVIOUS
<1>1. RowInv /\ WalInv
  BY Zenon DEF IndInv
<1>2. /\ appended = seq /\ appended' = appended /\ seq' = seq /\ walEnd' = FrozenWal
      /\ flushed' = flushed /\ UNCHANGED <<durable, manifests, mw>> /\ Freeze(seq)
  BY Zenon DEF BatchWriterFlush, mwriter
<1>3. /\ seq \in Nat /\ appended \in Nat /\ seq <= appended /\ appended <= seq + 1
      /\ frozen \subseteq 1 .. seq
  BY <1>1, Zenon DEF RowInv
<1>4. walEnd \in Seq(Nat) /\ flushed \in 0 .. Len(walEnd) /\ Len(walEnd) \in Nat
  BY <1>1 DEF WalInv
<1>5. /\ walEnd' \in Seq(Nat) /\ Len(walEnd) <= Len(walEnd')
      /\ \A i \in 1 .. Len(walEnd) : walEnd'[i] = walEnd[i]
      /\ \A i \in DOMAIN walEnd' : 1 <= walEnd'[i] /\ walEnd'[i] <= appended
      /\ \A i, j \in DOMAIN walEnd' : i < j => walEnd'[i] < walEnd'[j]
  BY <1>1, <1>2, FrozenWalFile, Zenon
<1>6. Len(walEnd') \in Nat
  BY <1>5
<1>7. flushed \in 0 .. Len(walEnd')
  <2>1. Len(walEnd) <= Len(walEnd')
    BY <1>5, Zenon
  <2> QED BY <1>4, <1>6, <2>1
<1>8. WalInv'
  BY <1>2, <1>5, <1>7, Zenon DEF WalInv
<1>9. RowInv'
  <2>1. frozen' = frozen \/ (seq > LastFrozen /\ frozen' = frozen \cup {seq})
    BY <1>2, Zenon DEF Freeze
  <2>2. LastFrozen \in Nat
    BY <1>1, FrozenNumbers, Zenon
  <2>3. frozen' \subseteq 1 .. seq
    <3>1. seq \in Nat /\ frozen \subseteq 1 .. seq
      BY <1>3, Zenon
    <3>2. seq > LastFrozen => seq \in 1 .. seq
      BY <2>2, <3>1
    <3> QED BY <2>1, <3>1, <3>2, Zenon
  <2> QED BY <1>2, <1>3, <2>3, Zenon DEF RowInv
<1>10. ImmInv' /\ TreeInv' /\ MwInv' /\ StampInv' /\ DurableInv'
  <2>1. 1 .. flushed \subseteq 1 .. Len(walEnd) /\ 1 .. Len(walEnd) = DOMAIN walEnd
    BY <1>4
  <2>2. \A i \in 1 .. flushed : walEnd[i] <= seq
    BY <1>1, <1>2, <2>1, Zenon DEF WalInv
  <2>3. \A i \in 1 .. flushed : walEnd'[i] = walEnd[i]
    BY <1>5, <2>1, Zenon
  <2> QED BY <1>2, <1>3, <2>2, <2>3, FreezeStep, Zenon
<1> QED BY <1>8, <1>9, <1>10, Zenon DEF IndInv

\* freeze_current_wal, the write of a WAL file, and its listener
LEMMA FreezeWalStep == IndInv /\ FreezeWal => IndInv'
<1> SUFFICES ASSUME IndInv, FreezeWal PROVE IndInv'
  OBVIOUS
<1>1. RowInv /\ WalInv /\ ImmInv /\ TreeInv /\ MwInv /\ StampInv /\ DurableInv
  BY Zenon DEF IndInv
<1>2. /\ appended' = appended /\ seq' = seq /\ walEnd' = FrozenWal /\ frozen' = frozen
      /\ flushed' = flushed /\ durable' = durable /\ local' = local /\ imm' = imm
      /\ stored' = stored /\ idCurrent' = idCurrent /\ dirtyCurrent' = dirtyCurrent
      /\ mw' = mw
  BY Zenon DEF FreezeWal, manifests, mwriter
<1>3. walEnd \in Seq(Nat) /\ flushed \in 0 .. Len(walEnd) /\ Len(walEnd) \in Nat
  BY <1>1 DEF WalInv
<1>4. /\ walEnd' \in Seq(Nat) /\ Len(walEnd) <= Len(walEnd')
      /\ \A i \in 1 .. Len(walEnd) : walEnd'[i] = walEnd[i]
      /\ \A i \in DOMAIN walEnd' : 1 <= walEnd'[i] /\ walEnd'[i] <= appended
      /\ \A i, j \in DOMAIN walEnd' : i < j => walEnd'[i] < walEnd'[j]
  BY <1>1, <1>2, FrozenWalFile, Zenon
<1>5. WalInv'
  <2>1. Len(walEnd') \in Nat /\ Len(walEnd) <= Len(walEnd')
    <3>1. walEnd' \in Seq(Nat) /\ Len(walEnd) <= Len(walEnd')
      BY <1>4, Zenon
    <3> QED BY <3>1
  <2>2. flushed \in 0 .. Len(walEnd')
    BY <1>3, <2>1
  <2> QED BY <1>2, <1>4, <2>2, Zenon DEF WalInv
<1>6. RowInv' /\ ImmInv' /\ TreeInv'
  BY <1>1, <1>2, Zenon DEF RowInv, ImmInv, TreeInv
<1>7. /\ flushed \in Nat /\ flushed' \in Nat /\ flushed <= flushed'
      /\ 1 .. flushed \subseteq 1 .. Len(walEnd)
      /\ (flushed > 0 => flushed \in 1 .. Len(walEnd))
  <2>1. flushed' = flushed
    BY <1>2, Zenon
  <2> QED BY <1>3, <2>1
<1>8. \A i \in 1 .. flushed : walEnd'[i] = walEnd[i]
  BY <1>4, <1>7, Zenon
<1>9. \A w, l : IsStamp(w, l, walEnd, flushed) => IsStamp(w, l, walEnd', flushed')
  BY <1>1, <1>7, <1>8, StampsKept, Zenon
<1>10. MwInv'
  BY <1>1, <1>2, <1>9, Zenon DEF MwInv
<1>11. StampInv'
  BY <1>1, <1>2, <1>9, Zenon DEF StampInv
<1>12. DurableInv'
  BY <1>1, <1>2, <1>4, <1>7, Zenon DEF DurableInv
<1> QED BY <1>5, <1>6, <1>10, <1>11, <1>12, Zenon DEF IndInv

LEMMA FlushWalStep == IndInv /\ FlushWal => IndInv'
<1> SUFFICES ASSUME IndInv, FlushWal PROVE IndInv'
  OBVIOUS
<1>1. RowInv /\ WalInv /\ ImmInv /\ TreeInv /\ MwInv /\ StampInv /\ DurableInv
  BY Zenon DEF IndInv
<1>2. /\ appended' = appended /\ seq' = seq /\ walEnd' = walEnd /\ frozen' = frozen
      /\ durable' = durable /\ local' = local /\ imm' = imm
      /\ stored' = stored /\ idCurrent' = idCurrent /\ dirtyCurrent' = dirtyCurrent
      /\ mw' = mw
  BY Zenon DEF FlushWal, manifests, mwriter
<1>3. flushed < Len(walEnd) /\ flushed' = flushed + 1
  BY Zenon DEF FlushWal
<1>4. /\ walEnd \in Seq(Nat) /\ flushed \in 0 .. Len(walEnd)
      /\ Len(walEnd) \in Nat /\ DOMAIN walEnd = 1 .. Len(walEnd)
  BY <1>1 DEF WalInv
<1>5. /\ flushed + 1 \in 1 .. Len(walEnd) /\ flushed \in Nat /\ flushed < flushed + 1
      /\ (flushed > 0 => flushed \in 1 .. Len(walEnd))
      /\ flushed + 1 \in 0 .. Len(walEnd) /\ flushed <= flushed + 1 /\ flushed + 1 \in Nat
      /\ flushed + 1 > 0
  BY <1>3, <1>4
<1>6. WalInv'
  BY <1>1, <1>2, <1>3, <1>5, Zenon DEF WalInv
<1>7. RowInv' /\ ImmInv' /\ TreeInv'
  BY <1>1, <1>2, Zenon DEF RowInv, ImmInv, TreeInv
<1>8. \A w, l : IsStamp(w, l, walEnd, flushed) => IsStamp(w, l, walEnd', flushed')
  BY <1>1, <1>2, <1>3, <1>5, StampsKept, Zenon
<1>9. MwInv'
  BY <1>1, <1>2, <1>8, Zenon DEF MwInv
<1>10. StampInv'
  BY <1>1, <1>2, <1>8, Zenon DEF StampInv
<1>11. DurableInv'
  <2>1. CASE durable <= stored.last_l0
    BY <1>1, <1>2, <2>1, Zenon DEF DurableInv
  <2>2. CASE flushed > 0 /\ durable <= walEnd[flushed]
    <3>1. walEnd[flushed] \in Nat /\ walEnd[flushed + 1] \in Nat
      BY <1>4, <1>5, <2>2
    <3>2. walEnd[flushed] < walEnd[flushed + 1]
      BY <1>1, <1>4, <1>5, <2>2, Zenon DEF WalInv
    <3>3. durable \in Nat
      BY <1>1, Zenon DEF DurableInv
    <3>4. durable <= walEnd[flushed + 1]
      BY <2>2, <3>1, <3>2, <3>3
    <3> QED BY <1>2, <1>3, <1>5, <3>3, <3>4, Zenon DEF DurableInv
  <2> QED BY <1>1, <2>1, <2>2, Zenon DEF DurableInv
<1> QED BY <1>6, <1>7, <1>9, <1>10, <1>11, Zenon DEF IndInv

LEMMA NotifyWalStep == IndInv /\ NotifyWal => IndInv'
<1> SUFFICES ASSUME IndInv, NotifyWal PROVE IndInv'
  OBVIOUS
<1>1. RowInv /\ WalInv /\ ImmInv /\ TreeInv /\ MwInv /\ StampInv /\ DurableInv
  BY Zenon DEF IndInv
<1>2. /\ appended' = appended /\ seq' = seq /\ walEnd' = walEnd /\ frozen' = frozen
      /\ flushed' = flushed /\ local' = local /\ imm' = imm
      /\ stored' = stored /\ idCurrent' = idCurrent /\ dirtyCurrent' = dirtyCurrent
      /\ mw' = mw
  BY Zenon DEF NotifyWal, writer, manifests, mwriter
<1>3. flushed > 0 /\ durable' = walEnd[flushed]
  BY Zenon DEF NotifyWal, WalNotified
<1>4. RowInv' /\ WalInv' /\ ImmInv' /\ TreeInv'
  BY <1>1, <1>2, Zenon DEF RowInv, WalInv, ImmInv, TreeInv
<1>5. MwInv' /\ StampInv'
  BY <1>1, <1>2, Zenon DEF MwInv, StampInv
<1>6. DurableInv'
  <2>1. walEnd[flushed] \in Nat
    BY <1>1, <1>3 DEF WalInv
  <2>2. walEnd[flushed] <= walEnd[flushed]
    BY <2>1
  <2> QED BY <1>2, <1>3, <2>1, <2>2, Zenon DEF DurableInv
<1> QED BY <1>4, <1>5, <1>6, Zenon DEF IndInv

-----------------------------------------------------------------------------
(***************************************************************************)
(* The manifest writer and the compactor                                   *)
(***************************************************************************)
\* Records of the manifest writer
LEMMA WriterRecord ==
  ASSUME DOMAIN mw = DOMAIN Idle, NEW pc
  PROVE  /\ DOMAIN At(mw, pc) = DOMAIN Idle
         /\ At(mw, pc).pc = pc /\ At(mw, pc).batch = mw.batch /\ At(mw, pc).dirty = mw.dirty
         /\ DOMAIN At(Idle, pc) = DOMAIN Idle
         /\ At(Idle, pc).pc = pc /\ At(Idle, pc).batch = << >>
BY DEF At, Idle

\* The steps that only move the manifest writer
LEMMA MovingSteps ==
  ASSUME IndInv, TakeCommand \/ Wake \/ WriteCheckpoints \/ NothingReady \/ Conflict
  PROVE  IndInv'
<1>1. DOMAIN mw = DOMAIN Idle
  BY Zenon DEF IndInv, MwInv
<1>2. UNCHANGED data
  BY Zenon DEF TakeCommand, Wake, WriteCheckpoints, NothingReady, Conflict, data, manifests, writer
<1>3. \A pc : /\ DOMAIN At(mw, pc) = DOMAIN Idle
              /\ At(mw, pc).pc = pc /\ At(mw, pc).batch = mw.batch
  BY <1>1, WriterRecord, Zenon
<1>4. ASSUME NEW pc, pc # "put", mw' = At(mw, pc)
      PROVE  IndInv'
  BY <1>2, <1>3, <1>4, WriterMoves, Zenon
<1>5. \A sound : Goto(sound, "work") # "put" /\ Goto(sound, "idle") # "put"
  BY DEF Goto
<1>6. CASE TakeCommand
  BY <1>4, <1>5, <1>6, Zenon DEF TakeCommand
<1>7. CASE Wake
  BY <1>4, <1>7 DEF Wake
<1>8. CASE NothingReady
  BY <1>4, <1>5, <1>8, Zenon DEF NothingReady
<1>9. CASE WriteCheckpoints
  <2>1. PICK cs : mw' = [At(mw, "load") EXCEPT !.ckpts = cs]
    BY <1>9, Zenon DEF WriteCheckpoints
  <2>2. DOMAIN mw' = DOMAIN Idle /\ mw'.pc # "put" /\ mw'.batch = mw.batch
    BY <1>1, <2>1, Zenon DEF At, Idle
  <2> QED BY <1>2, <2>2, WriterMoves, Zenon
<1>10. CASE Conflict
  <2>1. mw' = [At(mw, "load") EXCEPT !.dirty = NewManifest]
    BY <1>10, Zenon DEF Conflict
  <2>2. DOMAIN mw' = DOMAIN Idle /\ mw'.pc # "put" /\ mw'.batch = mw.batch
    BY <1>1, <2>1 DEF At, Idle
  <2> QED BY <1>2, <2>2, WriterMoves, Zenon
<1> QED BY <1>6, <1>7, <1>8, <1>9, <1>10, Zenon

\* The steps that give up what the manifest writer was doing
LEMMA ClosingSteps ==
  ASSUME IndInv, StartFinal \/ FencedClose
  PROVE  IndInv'
<1>1. UNCHANGED data
  BY Zenon DEF StartFinal, FencedClose, data, manifests, writer
<1>2. CASE StartFinal
  <2>1. mw' = [Idle EXCEPT !.pc = "prepare", !.ckpts = pend, !.final = TRUE]
    BY <1>2, Zenon DEF StartFinal
  <2>2. DOMAIN mw' = DOMAIN Idle /\ mw'.pc # "put" /\ mw'.batch = << >>
    BY <2>1, Zenon DEF Idle
  <2> QED BY <1>1, <2>2, WriterMoves, Zenon
<1>3. CASE FencedClose
  <2>1. mw' = At(Idle, "closed")
    BY <1>3, Zenon DEF FencedClose, CloseWriter
  <2>2. DOMAIN mw' = DOMAIN Idle /\ mw'.pc # "put" /\ mw'.batch = << >>
    BY <2>1 DEF At, Idle
  <2> QED BY <1>1, <2>2, WriterMoves, Zenon
<1> QED BY <1>2, <1>3

\* The database state is merged with the stored manifest, by a poll or before
\* a put: the tree is as far as before in what was flushed, and as far as the
\* stored one in what was compacted.
LEMMA MergeStep ==
  ASSUME IndInv, local' = Merged(local, stored), NEW pc, pc # "put", mw' = At(mw, pc),
         UNCHANGED <<writer, durable, imm, stored>>
  PROVE  IndInv'
<1>1. RowInv /\ WalInv /\ ImmInv /\ TreeInv /\ MwInv /\ StampInv /\ DurableInv
  BY Zenon DEF IndInv
<1>2. /\ appended' = appended /\ seq' = seq /\ walEnd' = walEnd /\ frozen' = frozen
      /\ flushed' = flushed /\ imm' = imm /\ durable' = durable /\ stored' = stored
  BY Zenon DEF writer
<1>3. frozen \in SUBSET (Nat \ {0})
  BY <1>1, FrozenNumbers, Zenon
<1>4. /\ IsTree(local', frozen) /\ local'.marker = stored.marker
      /\ local'.last_l0 = local.last_l0 /\ local'.replay_after = local.replay_after
  <2>1. /\ IsTree(local, frozen) /\ IsTree(stored, frozen)
        /\ local.marker <= stored.marker /\ stored.last_l0 <= local.last_l0
    BY <1>1, Zenon DEF TreeInv
  <2>2. IsMerge(Merged(local, stored), local, stored, frozen)
    BY <1>3, <2>1, MergedTree, Zenon
  <2> QED BY <2>2, Zenon DEF IsMerge
<1>5. DOMAIN mw' = DOMAIN Idle /\ mw'.pc # "put" /\ mw'.batch = mw.batch
  <2>1. DOMAIN mw = DOMAIN Idle
    BY <1>1, Zenon DEF MwInv
  <2>2. DOMAIN At(mw, pc) = DOMAIN Idle /\ At(mw, pc).pc = pc /\ At(mw, pc).batch = mw.batch
    BY <2>1, WriterRecord, Zenon
  <2> QED BY <2>2, Zenon
<1>6. RowInv' /\ WalInv' /\ DurableInv'
  BY <1>1, <1>2, Zenon DEF RowInv, WalInv, DurableInv
<1>7. ImmInv' /\ StampInv'
  BY <1>1, <1>2, <1>4, Zenon DEF ImmInv, StampInv
<1>8. MwInv'
  BY <1>1, <1>4, <1>5, Zenon DEF MwInv
<1>9. TreeInv'
  <2>1. stored.marker \in Nat
    BY <1>1, <1>3, TreeNumbers, Zenon DEF TreeInv
  <2>2. stored.marker <= stored.marker
    BY <2>1
  <2> QED BY <1>1, <1>2, <1>4, <2>2, Zenon DEF TreeInv
<1> QED BY <1>6, <1>7, <1>8, <1>9, Zenon DEF IndInv

\* apply_uploaded_state: a batch of uploaded memtables leaves imm_memtable for
\* L0.  The WAL files they make superfluous have no newer row.
LEMMA RetireBatchStep == IndInv /\ RetireBatch => IndInv'
<1> SUFFICES ASSUME IndInv, RetireBatch PROVE IndInv'
  OBVIOUS
<1> DEFINE n == Len(imm)
           K == {k \in 0 .. n : \A i \in 1 .. k : Retirable(imm[i].last)}
           k == Max(K)
           batch == SubSeq(imm, 1, k)
<1>1. RowInv /\ WalInv /\ ImmInv /\ TreeInv /\ MwInv /\ StampInv /\ DurableInv
  BY Zenon DEF IndInv
<1>2. /\ appended' = appended /\ seq' = seq /\ walEnd' = walEnd /\ frozen' = frozen
      /\ flushed' = flushed /\ durable' = durable
      /\ stored' = stored /\ idCurrent' = idCurrent /\ dirtyCurrent' = dirtyCurrent
  BY Zenon DEF RetireBatch, writer
<1>3. /\ NextBatch # << >> /\ local' = Applied(local, NextBatch)
      /\ imm' = SubSeq(imm, Len(NextBatch) + 1, Len(imm))
  BY Zenon DEF RetireBatch
<1>4. NextBatch = batch
  BY Zenon DEF NextBatch
<1>5. QueueByIndex(imm, frozen, local.last_l0)
  BY <1>1, QueueElements, Zenon DEF ImmInv
<1>6. imm \in Seq(Entries) /\ n \in Nat /\ DOMAIN imm = 1 .. n
  BY <1>5, Zenon DEF QueueByIndex
<1>7. k \in 0 .. n
  <2>1. K \in SUBSET (0 .. n) /\ 0 \in K
    BY <1>6
  <2> HIDE DEF K
  <2> QED BY <1>6, <2>1, MaxOfBounded, Zenon
<1> HIDE DEF k
<1>8. /\ k \in 1 .. n /\ batch \in Seq(Entries) /\ Len(batch) = k /\ batch[k] = imm[k]
      /\ DOMAIN batch = 1 .. k /\ k \in 1 .. k
  <2>1. batch # << >>
    BY <1>3, <1>4, Zenon
  <2> QED BY <1>6, <1>7, <2>1
<1> HIDE DEF batch
<1>9. IsApplied(local', imm', local, imm[k], frozen)
  <2>1. frozen \in SUBSET (Nat \ {0})
    BY <1>1, FrozenNumbers, Zenon
  <2>2. IsTree(local, frozen) /\ IsQueue(imm, frozen, local.last_l0)
    BY <1>1, Zenon DEF TreeInv, ImmInv
  <2>3. IsApplied(Applied(local, batch), SubSeq(imm, k + 1, Len(imm)), local, imm[k], frozen)
    BY <1>8, <2>1, <2>2, AppliedTree, Zenon DEF batch
  <2> QED BY <1>3, <1>4, <1>8, <2>3, Zenon
<1>10. /\ IsTree(local', frozen) /\ IsQueue(imm', frozen, local'.last_l0)
       /\ local'.marker = local.marker /\ local'.last_l0 = imm[k].last
       /\ local'.replay_after = imm[k].wal
       /\ local.last_l0 < local'.last_l0 /\ local'.last_l0 \in Nat
  BY <1>9, Zenon DEF IsApplied
<1>11. RowInv' /\ WalInv' /\ DurableInv'
  BY <1>1, <1>2, Zenon DEF RowInv, WalInv, DurableInv
<1>12. ImmInv'
  BY <1>2, <1>10, Zenon DEF ImmInv
<1>13. TreeInv'
  <2>1. stored.last_l0 \in Nat /\ local.last_l0 \in Nat
    BY <1>1, FrozenNumbers, TreeNumbers, Zenon DEF TreeInv
  <2>2. stored.last_l0 <= local.last_l0
    BY <1>1, Zenon DEF TreeInv
  <2>3. local.last_l0 < local'.last_l0 /\ local'.last_l0 \in Nat
    BY <1>10, Zenon
  <2>4. stored.last_l0 <= local'.last_l0
    BY <2>1, <2>2, <2>3
  <2> QED BY <1>1, <1>2, <1>10, <2>4, Zenon DEF TreeInv
<1>14. MwInv'
  <2>1. PICK cs : mw' = [At(mw, "prepare") EXCEPT !.batch = Names(NextBatch), !.ckpts = cs]
    BY Zenon DEF RetireBatch
  <2>2. DOMAIN mw = DOMAIN Idle
    BY <1>1, Zenon DEF MwInv
  <2>3. DOMAIN mw' = DOMAIN Idle /\ mw'.pc # "put" /\ mw'.batch = Names(batch)
    BY <1>4, <2>1, <2>2, Zenon DEF At, Idle
  <2>4. Last(Names(batch)) = imm[k].last
    <3>1. Len(Names(batch)) = k
      BY <1>8 DEF Names
    <3>2. Names(batch)[k] = batch[k].last
      BY <1>8, Zenon DEF Names
    <3> QED BY <1>8, <3>1, <3>2, Zenon DEF Last
  <2>5. local'.last_l0 <= local'.last_l0
    BY <1>10
  <2>6. Last(mw'.batch) \in Nat /\ Last(mw'.batch) <= local'.last_l0
    BY <1>10, <2>3, <2>4, <2>5, Zenon
  <2> QED BY <2>3, <2>6, Zenon DEF MwInv, Last
<1>15. StampInv'
  <2>1. IsStamp(imm[k].wal, imm[k].last, walEnd, flushed)
    BY <1>1, <1>6, <1>8, Zenon DEF StampInv
  <2>2. \A i \in 1 .. n - k : imm'[i] = imm[i + k] /\ i + k \in 1 .. n
    <3>1. \A i \in 1 .. n - k : imm'[i] = imm[i + k]
      BY <1>3, <1>4, <1>6, <1>8, RestOfSeq, Zenon
    <3>2. \A i \in 1 .. n - k : i + k \in 1 .. n
      BY <1>6, <1>7
    <3> QED BY <3>1, <3>2, Zenon
  <2>3. DOMAIN imm' = 1 .. n - k
    BY <1>3, <1>4, <1>6, <1>8, RestOfSeq, Zenon
  <2>4. \A i \in DOMAIN imm' : IsStamp(imm'[i].wal, imm'[i].last, walEnd, flushed)
    BY <1>1, <1>6, <2>2, <2>3, Zenon DEF StampInv
  <2> QED BY <1>1, <1>2, <1>10, <2>1, <2>4, Zenon DEF StampInv
<1> QED BY <1>11, <1>12, <1>13, <1>14, <1>15, Zenon DEF IndInv

\* A manifest with another next_wal_sst_id, recent_snapshot_min_seq or other
\* checkpoints has the same tree.
IsCopy(new, man, F) ==
  /\ IsTree(new, F) /\ new.marker = man.marker
  /\ new.last_l0 = man.last_l0 /\ new.replay_after = man.replay_after

LEMMA SameTree ==
  ASSUME NEW F, NEW man, IsTree(man, F), NEW w, NEW r, NEW cs, NEW new, NEW other,
         new = [man EXCEPT !.next_wal = w, !.recent = r], other = [new EXCEPT !.ckpts = cs]
  PROVE  IsCopy(new, man, F) /\ IsCopy(other, man, F)
<1>1. DOMAIN man = DOMAIN NewManifest
  BY Zenon DEF IsTree
<1>2. /\ DOMAIN new = DOMAIN NewManifest
      /\ new.l0 = man.l0 /\ new.sorted = man.sorted /\ new.marker = man.marker
      /\ new.last_l0 = man.last_l0 /\ new.replay_after = man.replay_after
  BY <1>1 DEF NewManifest
<1>3. /\ DOMAIN other = DOMAIN NewManifest
      /\ other.l0 = man.l0 /\ other.sorted = man.sorted /\ other.marker = man.marker
      /\ other.last_l0 = man.last_l0 /\ other.replay_after = man.replay_after
  BY <1>1 DEF NewManifest
<1>4. IsTree(new, F)
  BY <1>2, Zenon DEF IsTree
<1>5. IsTree(other, F)
  BY <1>3, Zenon DEF IsTree
<1> QED BY <1>2, <1>3, <1>4, <1>5, Zenon DEF IsCopy

\* prepare_local_manifest_for_write
LEMMA PrepareStep == IndInv /\ Prepare => IndInv'
<1> SUFFICES ASSUME IndInv, Prepare PROVE IndInv'
  OBVIOUS
<1>1. RowInv /\ WalInv /\ ImmInv /\ TreeInv /\ MwInv /\ StampInv /\ DurableInv
  BY Zenon DEF IndInv
<1>2. /\ appended' = appended /\ seq' = seq /\ walEnd' = walEnd /\ frozen' = frozen
      /\ flushed' = flushed /\ durable' = durable /\ imm' = imm
      /\ stored' = stored /\ idCurrent' = idCurrent /\ dirtyCurrent' = dirtyCurrent
  BY Zenon DEF Prepare, writer
<1>3. PICK w, r, cs, pc :
        /\ local' = [local EXCEPT !.next_wal = w, !.recent = r]
        /\ mw' = [At(mw, pc) EXCEPT !.dirty = [local' EXCEPT !.ckpts = cs]]
  BY Zenon DEF Prepare
<1> DEFINE other == [local' EXCEPT !.ckpts = cs]
<1>4. IsTree(local, frozen)
  BY <1>1, Zenon DEF TreeInv
<1>5. /\ IsTree(local', frozen) /\ IsTree(other, frozen)
      /\ local'.marker = local.marker /\ other.marker = local.marker
      /\ local'.last_l0 = local.last_l0 /\ other.last_l0 = local.last_l0
      /\ local'.replay_after = local.replay_after /\ other.replay_after = local.replay_after
  <2>1. IsCopy(local', local, frozen) /\ IsCopy(other, local, frozen)
    BY <1>3, <1>4, SameTree, Zenon
  <2> QED BY <2>1, Zenon DEF IsCopy
<1> HIDE DEF other
<1>6. DOMAIN mw' = DOMAIN Idle /\ mw'.batch = mw.batch /\ mw'.dirty = other
  <2>1. DOMAIN mw = DOMAIN Idle
    BY <1>1, Zenon DEF MwInv
  <2>2. mw' = [At(mw, pc) EXCEPT !.dirty = other]
    BY <1>3, Zenon DEF other
  <2> QED BY <2>1, <2>2 DEF At, Idle
<1>7. RowInv' /\ WalInv' /\ DurableInv'
  BY <1>1, <1>2, Zenon DEF RowInv, WalInv, DurableInv
<1>8. ImmInv' /\ TreeInv'
  BY <1>1, <1>2, <1>5, Zenon DEF ImmInv, TreeInv
<1>9. StampInv'
  BY <1>1, <1>2, <1>5, Zenon DEF StampInv
<1>10. MwInv'
  <2>1. IsStamp(other.replay_after, other.last_l0, walEnd', flushed')
    BY <1>1, <1>2, <1>5, Zenon DEF StampInv
  <2> QED BY <1>1, <1>2, <1>5, <1>6, <2>1, Zenon DEF MwInv
<1> QED BY <1>7, <1>8, <1>9, <1>10, Zenon DEF IndInv

\* The put has been stored, whether the manifest writer learns of it or not.
\* What was not retired in time is still in the WAL, and what becomes durable
\* with it is in L0.
LEMMA StoreStep ==
  ASSUME IndInv, mw.pc = "put", stored' = mw.dirty, ~ (idCurrent' /\ dirtyCurrent'),
         durable' \in Nat, durable' = durable \/ durable' <= local.last_l0,
         DOMAIN mw' = DOMAIN Idle, mw'.pc # "put", mw'.batch = << >>,
         UNCHANGED <<writer, imm, local>>
  PROVE  IndInv'
<1>1. RowInv /\ WalInv /\ ImmInv /\ TreeInv /\ MwInv /\ StampInv /\ DurableInv
  BY Zenon DEF IndInv
<1>2. /\ appended' = appended /\ seq' = seq /\ walEnd' = walEnd /\ frozen' = frozen
      /\ flushed' = flushed /\ imm' = imm /\ local' = local
  BY Zenon DEF writer
<1>3. /\ IsTree(stored', frozen) /\ stored'.marker = local.marker
      /\ stored'.last_l0 = local.last_l0
      /\ IsStamp(stored'.replay_after, stored'.last_l0, walEnd, flushed)
  BY <1>1, Zenon DEF MwInv
<1>4. RowInv' /\ WalInv' /\ ImmInv'
  BY <1>1, <1>2, Zenon DEF RowInv, WalInv, ImmInv
<1>5. StampInv'
  BY <1>1, <1>2, <1>3, Zenon DEF StampInv
<1>6. MwInv'
  BY Zenon DEF MwInv
<1>7. /\ local.marker \in Nat /\ local.last_l0 \in Nat /\ stored.last_l0 \in Nat
      /\ stored.last_l0 <= local.last_l0
  BY <1>1, FrozenNumbers, TreeNumbers, Zenon DEF TreeInv
<1>8. TreeInv'
  <2>1. local.marker <= local.marker /\ local.last_l0 <= local.last_l0
    BY <1>7
  <2> QED BY <1>1, <1>2, <1>3, <2>1, Zenon DEF TreeInv
<1>9. DurableInv'
  <2>1. durable \in Nat /\ (durable <= stored.last_l0 => durable <= local.last_l0)
    <3>1. durable \in Nat
      BY <1>1, Zenon DEF DurableInv
    <3> QED BY <1>7, <3>1
  <2> QED BY <1>1, <1>2, <1>3, <2>1, Zenon DEF DurableInv
<1> QED BY <1>4, <1>5, <1>6, <1>8, <1>9, Zenon DEF IndInv

\* Max of two numbers is one of them.
LEMMA MaxOfTwo ==
  ASSUME NEW a \in Nat, NEW b \in Nat
  PROVE  Max({a, b}) \in {a, b}
<1>1. a + b \in Nat /\ {a, b} \in SUBSET (0 .. a + b) /\ {a, b} # {}
  OBVIOUS
<1> QED BY <1>1, MaxOfBounded, Zenon

\* finish_ready_batch, the last put, and a put that fails or seems to
LEMMA PutSteps ==
  ASSUME IndInv, PutSucceeds \/ FinalPut \/ PutFails
  PROVE  IndInv'
<1>1. MwInv /\ durable \in Nat
  BY Zenon DEF IndInv, DurableInv
<1>2. mw.pc = "put" /\ UNCHANGED <<writer, imm, local>>
  BY Zenon DEF PutSucceeds, FinalPut, PutFails
<1>3. /\ \A pc : /\ DOMAIN At(Idle, pc) = DOMAIN Idle
                 /\ At(Idle, pc).pc = pc /\ At(Idle, pc).batch = << >>
      /\ Idle.pc = "idle" /\ Idle.batch = << >>
  BY DEF At, Idle
<1>4. CASE PutSucceeds
  <2>1. stored' = mw.dirty /\ dirtyCurrent' = FALSE /\ mw' = At(Idle, "work")
    BY <1>4, Zenon DEF PutSucceeds
  <2>2. durable' \in Nat /\ (durable' = durable \/ durable' <= local.last_l0)
    <3>1. CASE mw.batch = << >>
      BY <1>1, <1>4, <3>1, Zenon DEF PutSucceeds
    <3>2. CASE mw.batch # << >>
      <4> DEFINE through == Last(mw.batch)
      <4>1. through \in Nat /\ through <= local.last_l0
        BY <1>1, <3>2, Zenon DEF MwInv
      <4>2. durable' = Max({durable, through})
        BY <1>4, <3>2, Zenon DEF PutSucceeds
      <4> HIDE DEF through
      <4>3. durable' \in {durable, through}
        BY <1>1, <4>1, <4>2, MaxOfTwo, Zenon
      <4> QED BY <1>1, <4>1, <4>3, Zenon
    <3> QED BY <3>1, <3>2
  <2>3. DOMAIN mw' = DOMAIN Idle /\ mw'.pc # "put" /\ mw'.batch = << >>
    BY <1>3, <2>1
  <2> QED BY <1>2, <2>1, <2>2, <2>3, StoreStep, Zenon
<1>5. CASE FinalPut
  <2>1. /\ stored' = mw.dirty /\ dirtyCurrent' = FALSE /\ mw' = At(Idle, "closed")
        /\ durable' = durable
    BY <1>5, Zenon DEF FinalPut, CloseWriter
  <2>2. DOMAIN mw' = DOMAIN Idle /\ mw'.pc # "put" /\ mw'.batch = << >>
    BY <1>3, <2>1
  <2> QED BY <1>1, <1>2, <2>1, <2>2, StoreStep, Zenon
<1>6. CASE PutFails
  <2>1. (mw' = At(Idle, "closed") \/ mw' = Idle) /\ UNCHANGED <<durable, dirtyCurrent>>
    BY <1>6, Zenon DEF PutFails, CloseWriter
  <2>2. DOMAIN mw' = DOMAIN Idle /\ mw'.pc # "put" /\ mw'.batch = << >>
    BY <1>3, <2>1
  <2>3. CASE stored' = mw.dirty /\ idCurrent' = FALSE
    BY <1>1, <1>2, <2>1, <2>2, <2>3, StoreStep, Zenon
  <2>4. CASE UNCHANGED <<stored, idCurrent>>
    <3>1. UNCHANGED data
      BY <1>2, <2>1, <2>4, Zenon DEF data, writer, manifests
    <3> QED BY <2>2, <3>1, WriterMoves, Zenon
  <2> QED BY <1>6, <2>3, <2>4, Zenon DEF PutFails
<1> QED BY <1>4, <1>5, <1>6, Zenon

\* The compactor
LEMMA CompactStep == IndInv /\ Compact => IndInv'
<1> SUFFICES ASSUME IndInv, Compact PROVE IndInv'
  OBVIOUS
<1>1. RowInv /\ WalInv /\ ImmInv /\ TreeInv /\ MwInv /\ StampInv /\ DurableInv
  BY Zenon DEF IndInv
<1>2. /\ appended' = appended /\ seq' = seq /\ walEnd' = walEnd /\ frozen' = frozen
      /\ flushed' = flushed /\ durable' = durable /\ imm' = imm /\ local' = local
      /\ mw' = mw /\ idCurrent' = FALSE
  BY Zenon DEF Compact, writer, mwriter
<1>3. PICK n \in 0 .. Len(stored.l0) - 1 :
        stored' = [stored EXCEPT !.l0 = SubSeq(@, 1, n),
                                 !.sorted = @ \cup {stored.l0[i] : i \in n + 1 .. Len(stored.l0)},
                                 !.marker = stored.l0[n + 1]]
  BY Zenon DEF Compact
<1>4. frozen \in SUBSET (Nat \ {0}) /\ IsTree(stored, frozen) /\ IsTree(local, frozen)
  BY <1>1, FrozenNumbers, Zenon DEF TreeInv
<1>5. IsCompacted(stored', stored, frozen)
  BY <1>3, <1>4, CompactedTree, Zenon
<1>6. /\ IsTree(stored', frozen) /\ stored'.last_l0 = stored.last_l0
      /\ stored'.replay_after = stored.replay_after /\ stored.marker <= stored'.marker
  BY <1>5, Zenon DEF IsCompacted
<1>7. local.marker <= stored'.marker
  <2>1. local.marker \in Nat /\ stored.marker \in Nat /\ stored'.marker \in Nat
    BY <1>4, <1>6, TreeNumbers, Zenon
  <2>2. local.marker <= stored.marker /\ stored.marker <= stored'.marker
    BY <1>1, <1>6, Zenon DEF TreeInv
  <2> QED BY <2>1, <2>2
<1>8. TreeInv'
  BY <1>1, <1>2, <1>6, <1>7, Zenon DEF TreeInv
<1>9. RowInv' /\ WalInv' /\ ImmInv' /\ MwInv'
  BY <1>1, <1>2, Zenon DEF RowInv, WalInv, ImmInv, MwInv
<1>10. StampInv' /\ DurableInv'
  BY <1>1, <1>2, <1>6, Zenon DEF StampInv, DurableInv
<1> QED BY <1>8, <1>9, <1>10, Zenon DEF IndInv

\* The tracker, the uploaders, the readers and most steps of callers
LEMMA OtherSteps ==
  ASSUME IndInv,
         \/ \E f \in Flush : FlushSend(f)
         \/ \E c \in Ckpt : CheckpointSend(c)
         \/ TrackerStep \/ TrackerRefuses \/ UploadStep \/ SampleReaders
         \/ \E x \in Reader : OpenReader(x) \/ DropReader(x)
         \/ Close \/ StartCompaction \/ Quiescent \/ UNCHANGED vars
  PROVE  IndInv'
<1> DEFINE Same == UNCHANGED <<writer, durable, imm, mwriter, manifests>>
<1>1. ASSUME Same PROVE IndInv'
  <2>1. UNCHANGED <<data, mw>>
    BY <1>1, Zenon DEF data, writer, mwriter
  <2> QED BY <2>1, QuietStep, Zenon
<1>2. CASE (\E f \in Flush : FlushSend(f)) \/ (\E c \in Ckpt : CheckpointSend(c))
  BY <1>1, <1>2, Zenon DEF FlushSend, CheckpointSend
<1>3. CASE TrackerStep \/ TrackerRefuses
  BY <1>1, <1>3, Zenon DEF TrackerStep, TrackerRefuses
<1>4. CASE UploadStep
  BY <1>1, <1>4, Zenon DEF UploadStep, ReadBoundary, Upload
<1>5. CASE SampleReaders \/ StartCompaction \/ Close
  BY <1>1, <1>5, Zenon DEF SampleReaders, StartCompaction, Close
<1>6. CASE \E x \in Reader : OpenReader(x) \/ DropReader(x)
  BY <1>1, <1>6, Zenon DEF OpenReader, DropReader
<1>7. CASE Quiescent \/ UNCHANGED vars
  BY <1>1, <1>7, Zenon DEF Quiescent, vars
<1> QED BY <1>2, <1>3, <1>4, <1>5, <1>6, <1>7, Zenon

\* Every step of every task keeps the invariant.
LEMMA NextOK == IndInv /\ [Next]_vars => IndInv'
<1> SUFFICES ASSUME IndInv, [Next]_vars PROVE IndInv'
  OBVIOUS
<1>1. CASE AppendRow \/ CommitRow \/ WalStep
  BY <1>1, AppendRowStep, CommitRowStep, FreezeWalStep, FlushWalStep, NotifyWalStep, Zenon
     DEF WalStep
<1>2. CASE (\E f \in Flush : FlushCall(f)) \/ (\E c \in Ckpt : CheckpointAll(c))
  <2>1. BatchWriterFlush
    BY <1>2, Zenon DEF FlushCall, CheckpointAll
  <2> QED BY <2>1, BatchWriterFlushStep, Zenon
<1>3. CASE WriterStep \/ Poll
  <2>1. CASE TakeCommand \/ Wake \/ WriteCheckpoints \/ NothingReady \/ Conflict
    BY <2>1, MovingSteps, Zenon
  <2>2. CASE StartFinal \/ FencedClose
    BY <2>2, ClosingSteps, Zenon
  <2>3. CASE Load \/ Poll
    <3>1. PICK pc \in {"work", "prepare"} : mw' = At(mw, pc)
      BY <2>3, Zenon DEF Load, Poll
    <3>2. local' = Merged(local, stored) /\ UNCHANGED <<writer, durable, imm, stored>>
      BY <2>3, Zenon DEF Load, Poll
    <3>3. pc # "put"
      OBVIOUS
    <3> QED BY <3>1, <3>2, <3>3, MergeStep, Zenon
  <2>4. CASE PutSucceeds \/ FinalPut
    BY <2>4, PutSteps, Zenon
  <2>5. CASE RetireBatch \/ Prepare
    BY <2>5, RetireBatchStep, PrepareStep, Zenon
  <2>6. CASE SampleReaders
    BY <2>6, OtherSteps, Zenon
  <2> QED BY <1>3, <2>1, <2>2, <2>3, <2>4, <2>5, <2>6, Zenon DEF WriterStep
<1>4. CASE PutFails
  BY <1>4, PutSteps, Zenon
<1>5. CASE Compact
  BY <1>5, CompactStep, Zenon
<1>6. CASE \/ \E f \in Flush : FlushSend(f)
           \/ \E c \in Ckpt : CheckpointSend(c)
           \/ TrackerStep \/ TrackerRefuses \/ UploadStep
           \/ \E x \in Reader : OpenReader(x) \/ DropReader(x)
           \/ Close \/ StartCompaction \/ Quiescent \/ UNCHANGED vars
  BY <1>6, OtherSteps, Zenon
<1> QED BY <1>1, <1>2, <1>3, <1>4, <1>5, <1>6, Zenon DEF Next

-----------------------------------------------------------------------------
(***************************************************************************)
(* The theorems                                                            *)
(***************************************************************************)
\* Whatever the settings and however the tasks interleave, fail and stop, the
\* database state and the stored manifest hold each retired memtable once, and
\* replay_after_wal_id is behind no WAL file with a row that is not in L0.
THEOREM PipelineInvariant == Spec => []IndInv
<1>1. Init => IndInv
  BY InitOK
<1>2. IndInv /\ [Next]_vars => IndInv'
  BY NextOK
<1> QED BY <1>1, <1>2, PTL DEF Spec

\* The tree part of TreeIntact, of the stored manifest and of the database state
\* that readers use meanwhile: merge_remote_manifest and apply_uploaded_state
\* lose, repeat and reorder nothing.
THEOREM TreesInOrder == Spec => [](InOrder(stored) /\ InOrder(local))
<1>1. ASSUME IndInv, NEW man \in {stored, local} PROVE InOrder(man)
  <2> DEFINE n == Len(man.l0)
  <2>1. frozen \in SUBSET (Nat \ {0}) /\ IsTree(man, frozen)
    BY <1>1, FrozenNumbers, Zenon DEF IndInv, TreeInv
  <2>2. /\ man.marker \in Nat /\ man.last_l0 \in Nat /\ man.marker <= man.last_l0
        /\ man.sorted = {m \in frozen : m <= man.marker}
        /\ Range(man.l0) = {m \in frozen : man.marker < m /\ m <= man.last_l0}
        /\ \A i, j \in DOMAIN man.l0 : i < j => man.l0[i] > man.l0[j]
    BY <2>1, TreeNumbers, Zenon DEF IsTree
  <2>3. \A m \in frozen : m \in Nat
    BY <2>1
  <2>4. Tables(man) = {m \in frozen : m <= man.last_l0}
    <3>1. \A m \in frozen : m <= man.last_l0 <=>
            m <= man.marker \/ (man.marker < m /\ m <= man.last_l0)
      BY <2>2, <2>3
    <3> QED BY <2>2, <3>1, Zenon DEF Tables
  <2>5. ASSUME NEW i \in DOMAIN man.l0, NEW m \in man.sorted
        PROVE  man.l0[i] > m
    <3>1. man.l0[i] \in Range(man.l0)
      BY Zenon DEF Range
    <3>2. man.l0[i] \in frozen /\ man.marker < man.l0[i] /\ m \in frozen /\ m <= man.marker
      BY <2>2, <3>1, Zenon
    <3> QED BY <2>2, <2>3, <3>2
  <2> QED BY <2>2, <2>4, <2>5, Zenon DEF InOrder
<1>2. IndInv => InOrder(stored) /\ InOrder(local)
  BY <1>1, Zenon
<1> QED BY <1>2, PipelineInvariant, PTL

\* A row up to last_l0_seq is in the oldest memtable that reaches it, and that
\* one is in the tree.
LEMMA RowInTree ==
  ASSUME IndInv, NEW s \in Nat, 1 <= s, s <= stored.last_l0
  PROVE  \E m \in Tables(stored) : s \in RowsOf(m)
<1> DEFINE S == {m \in frozen : s <= m}
<1>1. frozen \in SUBSET (Nat \ {0}) /\ IsTree(stored, frozen)
  BY FrozenNumbers, Zenon DEF IndInv, TreeInv
<1>2. /\ stored.marker \in Nat /\ stored.last_l0 \in Nat
      /\ stored.last_l0 \in frozen \cup {0}
      /\ stored.sorted = {m \in frozen : m <= stored.marker}
      /\ Range(stored.l0) = {m \in frozen : stored.marker < m /\ m <= stored.last_l0}
  BY <1>1, TreeNumbers, Zenon DEF IsTree
<1>3. stored.last_l0 # 0
  BY <1>2
<1>4. S \in SUBSET Nat /\ stored.last_l0 \in S
  BY <1>1, <1>2, <1>3, Zenon
<1>5. PICK m \in S : \A y \in S : m <= y
  <2> HIDE DEF S
  <2>1. S # {}
    BY <1>4, Zenon
  <2> QED BY <1>4, <2>1, LeastOf, Zenon
<1>6. m \in frozen /\ m \in Nat /\ s <= m /\ m <= stored.last_l0
  BY <1>1, <1>4, <1>5, Zenon
<1>7. m \in Tables(stored)
  <2>1. m <= stored.marker \/ stored.marker < m
    BY <1>2, <1>6
  <2> QED BY <1>2, <1>6, <2>1, Zenon DEF Tables
<1>8. ASSUME NEW n \in frozen, n < m PROVE n < s
  <2>1. n \in Nat
    BY <1>1
  <2>2. ~ (s <= n)
    <3>1. ~ (m <= n)
      BY <1>6, <1>8, <2>1
    <3> QED BY <1>5, <3>1, Zenon
  <2> QED BY <2>1, <2>2
<1>9. s \in 1 .. m
  BY <1>6
<1>10. s \in RowsOf(m)
  BY <1>8, <1>9, Zenon DEF RowsOf
<1> QED BY <1>7, <1>10, Zenon

\* A later row that a flushed WAL file has is replayed.
LEMMA RowInWal ==
  ASSUME IndInv, NEW s \in Nat, stored.last_l0 < s, flushed > 0, s <= walEnd[flushed]
  PROVE  \E i \in stored.replay_after + 1 .. flushed : s \in WalRows(i)
<1> DEFINE S == {i \in 1 .. flushed : s <= walEnd[i]}
           w == stored.replay_after
<1>1. RowInv /\ WalInv /\ TreeInv /\ StampInv
  BY Zenon DEF IndInv
<1>2. /\ walEnd \in Seq(Nat) /\ flushed \in 0 .. Len(walEnd) /\ Len(walEnd) \in Nat
      /\ DOMAIN walEnd = 1 .. Len(walEnd)
  BY <1>1 DEF WalInv
<1>3. /\ flushed \in Nat /\ flushed \in 1 .. flushed
      /\ \A i \in 1 .. flushed : i \in DOMAIN walEnd /\ walEnd[i] \in Nat /\ i \in Nat
  BY <1>2
<1>4. w \in 0 .. flushed /\ (w > 0 => walEnd[w] <= stored.last_l0)
  BY <1>1, Zenon DEF StampInv, IsStamp
<1>5. stored.last_l0 \in Nat
  BY <1>1, FrozenNumbers, TreeNumbers, Zenon DEF TreeInv
<1>6. S \in SUBSET Nat /\ flushed \in S
  BY <1>3
<1>7. PICK i \in S : \A y \in S : i <= y
  <2> HIDE DEF S
  <2>1. S # {}
    BY <1>6, Zenon
  <2> QED BY <1>6, <2>1, LeastOf, Zenon
<1>8. i \in 1 .. flushed /\ s <= walEnd[i]
  BY <1>7, Zenon
<1> HIDE DEF w
<1>9. ~ (i <= w)
  <2> SUFFICES ASSUME i <= w PROVE FALSE
    BY Zenon
  <2>1. w \in 1 .. flushed /\ w > 0 /\ (i < w \/ i = w)
    BY <1>3, <1>4, <1>8
  <2>2. walEnd[i] <= walEnd[w]
    <3>1. CASE i = w
      BY <1>3, <2>1, <3>1
    <3>2. CASE i < w
      <4>1. walEnd[i] < walEnd[w]
        BY <1>1, <1>3, <1>8, <2>1, <3>2, Zenon DEF WalInv
      <4> QED BY <1>3, <1>8, <2>1, <4>1
    <3> QED BY <2>1, <3>1, <3>2, Zenon
  <2>3. walEnd[i] \in Nat /\ walEnd[w] \in Nat /\ walEnd[w] <= stored.last_l0
    BY <1>3, <1>4, <1>8, <2>1, Zenon
  <2> QED BY <1>5, <1>8, <2>2, <2>3
<1>10. i \in w + 1 .. flushed
  BY <1>3, <1>4, <1>8, <1>9
<1>11. s \in WalRows(i)
  <2>1. walEnd[i] \in Nat
    BY <1>3, <1>8, Zenon
  <2>2. CASE i = 1
    <3>1. s \in 1 .. walEnd[i]
      BY <1>5, <1>8, <2>1
    <3> QED BY <2>2, <3>1, Zenon DEF WalRows
  <2>3. CASE i # 1
    <3>1. i - 1 \in 1 .. flushed /\ ~ (i <= i - 1)
      BY <1>3, <1>8, <2>3
    <3>2. ~ (s <= walEnd[i - 1])
      BY <1>7, <3>1, Zenon
    <3>3. walEnd[i - 1] \in Nat
      BY <1>3, <3>1, Zenon
    <3>4. s \in walEnd[i - 1] + 1 .. walEnd[i]
      BY <1>8, <2>1, <3>2, <3>3
    <3> QED BY <2>3, <3>4, Zenon DEF WalRows
  <2> QED BY <2>2, <2>3, Zenon
<1> QED BY <1>10, <1>11, Zenon DEF w

\* What the database status reports as durable survives a crash at any point.
THEOREM DurableRows == Spec => []DurableRecoverable
<1>1. ASSUME IndInv PROVE DurableRecoverable
  <2> SUFFICES ASSUME NEW s \in 1 .. durable PROVE s \in Rows(stored, flushed)
    BY Zenon DEF DurableRecoverable
  <2>1. /\ durable \in Nat
        /\ durable <= stored.last_l0 \/ (flushed > 0 /\ durable <= walEnd[flushed])
    BY <1>1, Zenon DEF IndInv, DurableInv
  <2>2. stored.last_l0 \in Nat
    BY <1>1, FrozenNumbers, TreeNumbers, Zenon DEF IndInv, TreeInv
  <2>3. s \in Nat /\ 1 <= s /\ s <= durable
    BY <2>1
  <2>4. CASE s <= stored.last_l0
    <3>1. \E m \in Tables(stored) : s \in RowsOf(m)
      BY <1>1, <2>3, <2>4, RowInTree, Zenon
    <3>2. s \in TableRows(stored)
      BY <3>1, Zenon DEF TableRows
    <3> QED BY <3>2, Zenon DEF Rows
  <2>5. CASE ~ (s <= stored.last_l0)
    <3>1. stored.last_l0 < s /\ s > stored.last_l0 /\ ~ (durable <= stored.last_l0)
      BY <2>1, <2>2, <2>3, <2>5
    <3>2. flushed > 0 /\ durable <= walEnd[flushed]
      BY <2>1, <3>1, Zenon
    <3>3. walEnd[flushed] \in Nat
      BY <1>1, <3>2 DEF IndInv, WalInv
    <3>4. s <= walEnd[flushed]
      BY <2>1, <2>3, <3>2, <3>3
    <3>5. \E i \in stored.replay_after + 1 .. flushed : s \in WalRows(i)
      BY <1>1, <2>3, <3>1, <3>2, <3>4, RowInWal, Zenon
    <3>6. s \in UNION {WalRows(i) : i \in stored.replay_after + 1 .. flushed}
      BY <3>5
    <3>7. s \in Replayed(stored, flushed)
      <4> DEFINE W == UNION {WalRows(i) : i \in stored.replay_after + 1 .. flushed}
      <4>1. Replayed(stored, flushed) = {r \in W : r > stored.last_l0}
        BY Zenon DEF Replayed
      <4> HIDE DEF W
      <4> QED BY <3>1, <3>6, <4>1, Zenon DEF W
    <3> QED BY <3>7, Zenon DEF Rows
  <2> QED BY <2>4, <2>5, Zenon
<1> QED BY <1>1, PipelineInvariant, PTL

\* Only a put and the compactor change the stored manifest.
LEMMA StoredSteps ==
  ASSUME [Next]_vars
  PROVE  stored' = stored \/ PutSucceeds \/ FinalPut \/ PutFails \/ Compact
<1>1. CASE AppendRow \/ CommitRow \/ WalStep
  BY <1>1, Zenon DEF WalStep, AppendRow, CommitRow, FreezeWal, FlushWal, NotifyWal, manifests
<1>2. CASE (\E f \in Flush : FlushCall(f)) \/ (\E c \in Ckpt : CheckpointAll(c))
  BY <1>2, Zenon DEF FlushCall, CheckpointAll, BatchWriterFlush, manifests
<1>3. CASE WriterStep \/ Poll
  <2>1. CASE TakeCommand \/ Wake \/ WriteCheckpoints \/ NothingReady \/ Conflict
    BY <2>1, Zenon DEF TakeCommand, Wake, WriteCheckpoints, NothingReady, Conflict, manifests
  <2>2. CASE StartFinal \/ FencedClose \/ SampleReaders
    BY <2>2, Zenon DEF StartFinal, FencedClose, SampleReaders, manifests
  <2>3. CASE Load \/ Poll \/ RetireBatch \/ Prepare
    BY <2>3, Zenon DEF Load, Poll, RetireBatch, Prepare
  <2> QED BY <1>3, <2>1, <2>2, <2>3, Zenon DEF WriterStep
<1>4. CASE \/ \E f \in Flush : FlushSend(f)
           \/ \E c \in Ckpt : CheckpointSend(c)
           \/ \E x \in Reader : OpenReader(x) \/ DropReader(x)
           \/ Close \/ StartCompaction
  BY <1>4, Zenon DEF FlushSend, CheckpointSend, OpenReader, DropReader, Close, StartCompaction,
                     manifests
<1>5. CASE TrackerStep \/ TrackerRefuses \/ UploadStep
  BY <1>5, Zenon DEF TrackerStep, TrackerRefuses, UploadStep, ReadBoundary, Upload, manifests
<1>6. CASE Quiescent \/ UNCHANGED vars
  BY <1>6, Zenon DEF Quiescent, vars, manifests
<1> QED BY <1>1, <1>2, <1>3, <1>4, <1>5, <1>6, Zenon DEF Next

\* Neither the writer nor the compactor undoes what the other has stored.
THEOREM StoredOnlyAdvances == Spec => ManifestAdvances
<1> DEFINE Advances == stored.last_l0 <= stored'.last_l0 /\ stored.marker <= stored'.marker
<1>1. ASSUME IndInv, [Next]_vars PROVE Advances
  <2>1. TreeInv /\ MwInv /\ frozen \in SUBSET (Nat \ {0})
    BY <1>1, FrozenNumbers, Zenon DEF IndInv
  <2>2. /\ IsTree(stored, frozen)
        /\ stored.marker \in Nat /\ stored.last_l0 \in Nat /\ stored.last_l0 <= local.last_l0
    BY <2>1, TreeNumbers, Zenon DEF TreeInv
  <2>3. stored.marker <= stored.marker /\ stored.last_l0 <= stored.last_l0
    BY <2>2
  <2>4. CASE stored' = stored
    BY <2>3, <2>4, Zenon
  <2>5. CASE PutSucceeds \/ FinalPut \/ PutFails
    <3>1. \/ stored' = stored
          \/ mw.pc = "put" /\ stored' = mw.dirty /\ idCurrent /\ dirtyCurrent
      BY <2>5, Zenon DEF PutSucceeds, FinalPut, PutFails
    <3>2. CASE mw.pc = "put" /\ stored' = mw.dirty /\ idCurrent /\ dirtyCurrent
      <4>1. stored'.marker = local.marker /\ stored'.last_l0 = local.last_l0
        BY <2>1, <3>2, Zenon DEF MwInv
      <4>2. local.marker = stored.marker
        BY <2>1, <3>2, Zenon DEF TreeInv
      <4> QED BY <2>2, <2>3, <4>1, <4>2, Zenon
    <3> QED BY <2>4, <3>1, <3>2, Zenon
  <2>6. CASE Compact
    <3>1. PICK n \in 0 .. Len(stored.l0) - 1 :
            stored' = [stored EXCEPT !.l0 = SubSeq(@, 1, n),
                                     !.sorted = @ \cup {stored.l0[i] : i \in n + 1 .. Len(stored.l0)},
                                     !.marker = stored.l0[n + 1]]
      BY <2>6, Zenon DEF Compact
    <3>2. IsCompacted(stored', stored, frozen)
      BY <2>1, <2>2, <3>1, CompactedTree, Zenon
    <3> QED BY <2>3, <3>2, Zenon DEF IsCompacted
  <2> QED BY <1>1, <2>4, <2>5, <2>6, StoredSteps, Zenon
<1> QED BY <1>1, PipelineInvariant, PTL DEF Spec, ManifestAdvances

====
