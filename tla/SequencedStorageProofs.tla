----------------------- MODULE SequencedStorageProofs -----------------------
(* The parts of the inductive invariant of SequencedStorage about clients,     *)
(* writes and collectors, the theorems that follow from it, and that           *)
(* SequencedStorage implements VersionedLog.                                   *)
EXTENDS SequencedInvariant

(***************************************************************************)
(* What one step does to the view, the control state and the reads of a    *)
(* client, and to the writes it has pending                                *)
(***************************************************************************)
LEMMA ClientTypes ==
  ASSUME TypeOK, NEW c \in Client
  PROVE  /\ view[c] \in Objects /\ view[c].id \in Nat /\ view[c].val.epoch \in Nat
         /\ hand[c] \in Objects /\ hand[c].id \in Nat /\ hand[c].val.epoch \in Nat
         /\ epoch[c] \in Nat /\ floor[c] \in Nat /\ Len(log) \in Nat
         /\ op[c].kind \in {"none", "load", "create", "init", "claim",
              "claim_exact", "update", "refresh", "checkpoint", "release"}
         /\ pc[c] \in PCs /\ op[c] \in Ops /\ epoch[c] \in Epochs
  BY DEF TypeOK, Objects, Vals, Epochs, Ops

\* An object that passes the check of a read or of a write.
LEMMA Checked ==
  ASSUME IndInv, NEW c \in Client, AboveBoundary(StoreOf[c], hand[c].id),
         pc[c] \in {"check", "written"}
  PROVE  /\ hand[c].id > 0 /\ hand[c].id > boundary /\ hand[c].id <= Len(log)
         /\ hand[c].id \in Ids
         /\ hand[c].val = log[hand[c].id]
         /\ view[c].id <= hand[c].id
         /\ view[c].val.epoch <= hand[c].val.epoch
         /\ epoch[c] <= hand[c].val.epoch
<1>1. TypeOK /\ LogInv /\ ViewOK(c) /\ ControlOK(c) /\ ReadOK(c)
  BY DEF IndInv, ClientInv
<1>2. /\ view[c].id \in Nat /\ hand[c].id \in Nat /\ floor[c] \in Nat
      /\ view[c].val.epoch \in Nat /\ hand[c].val.epoch \in Nat /\ epoch[c] \in Nat
  BY <1>1, ClientTypes
<1>3. /\ Len(log) \in Nat /\ Len(log) <= MaxId /\ boundary \in Nat
  BY <1>1, LogFacts
<1>4. hand[c].id > boundary /\ hand[c].id > 0
  BY <1>2, <1>3 DEF AboveBoundary
<1>5. Faithful(hand[c]) /\ view[c].id <= hand[c].id
  <2>1. CASE pc[c] = "check"
    <3>1. Faithful(hand[c]) /\ view[c].id <= floor[c] /\ floor[c] <= hand[c].id
      <4>1. Faithful(hand[c]) /\ view[c].id <= floor[c] /\ hand[c].id >= floor[c]
        BY <1>1, <1>4, <2>1, Zenon DEF ReadOK, Reading
      <4> QED
        BY <1>2, <4>1
    <3> QED
      BY <1>2, <3>1
  <2>2. CASE pc[c] = "written"
    <3>1. Faithful(hand[c]) /\ hand[c].id = view[c].id + 1
      BY <2>2, Zenon DEF IndInv, WriteInv
    <3> QED
      BY <1>2, <3>1
  <2> QED
    BY <2>1, <2>2, Zenon
<1>6. hand[c].id <= Len(log) /\ hand[c].val = log[hand[c].id]
  BY <1>4, <1>5 DEF Faithful
<1>7. view[c].id > 0 => log[view[c].id].epoch <= log[hand[c].id].epoch
  <2>1. hand[c].id \in 1 .. Len(log) /\ (view[c].id > 0 => view[c].id \in 1 .. Len(log))
    BY <1>2, <1>3, <1>4, <1>5, <1>6
  <2> QED
    BY <1>1, <1>5, <2>1, Zenon DEF LogInv, EpochsNeverDecrease
<1>8. view[c].val.epoch <= hand[c].val.epoch
  <2>1. view[c].val = IF view[c].id = 0 THEN InitialVal ELSE log[view[c].id]
    BY <1>1, Zenon DEF ViewOK
  <2>2. CASE view[c].id = 0
    <3>1. view[c].val.epoch = 0
      BY <2>1, <2>2 DEF InitialVal
    <3> QED
      BY <1>2, <3>1
  <2>3. CASE view[c].id # 0
    <3>1. view[c].id > 0
      BY <1>2, <2>3
    <3> QED
      BY <1>6, <1>7, <2>1, <2>3, <3>1, Zenon
  <2> QED
    BY <2>2, <2>3, Zenon
<1>9. epoch[c] <= hand[c].val.epoch
  <2>1. epoch[c] <= view[c].val.epoch
    BY <1>1, Zenon DEF ViewOK
  <2> QED
    BY <1>2, <1>8, <2>1
<1>10. hand[c].id \in Ids
  BY <1>2, <1>3, <1>4, <1>6, MaxIdAssumption DEF Ids
<1> QED
  BY <1>4, <1>5, <1>6, <1>8, <1>9, <1>10, Zenon

LEMMA ViewStep ==
  ASSUME IndInv, TypeOK', [Next]_vars, NEW c \in Client
  PROVE  ViewOK(c)'
<1>1. TypeOK /\ LogInv /\ Advances /\ ViewOK(c)
  BY StepAdvances DEF IndInv, ClientInv
<1>2. /\ view[c].id \in Nat /\ hand[c].id \in Nat
      /\ view[c].val.epoch \in Nat /\ hand[c].val.epoch \in Nat /\ epoch[c] \in Nat
  BY <1>1, ClientTypes, Zenon
<1>3. CASE view'[c] = view[c] /\ epoch'[c] = epoch[c]
  <2>1. /\ view[c].id <= Len(log) /\ epoch[c] <= view[c].val.epoch
        /\ view[c].val = IF view[c].id = 0 THEN InitialVal ELSE log[view[c].id]
    BY <1>1, Zenon DEF ViewOK
  <2>2. /\ view[c].id <= Len(log')
        /\ view[c].id # 0 => log'[view[c].id] = log[view[c].id]
    BY <1>1, <1>2, <2>1 DEF Advances
  <2> QED
    BY <1>3, <2>1, <2>2, Zenon DEF ViewOK
<1>4. CASE Down(c)
  BY <1>1, <1>4 DEF Down, ViewOK, NoObject, InitialVal, Advances
<1>5. CASE ReadAccepted(c)
  <2>1. view'[c] = hand[c] /\ epoch'[c] = epoch[c] /\ log' = log
    BY <1>1, <1>5, Zenon DEF ReadAccepted, TypeOK
  <2>2. /\ hand[c].id > 0 /\ hand[c].id <= Len(log) /\ hand[c].val = log[hand[c].id]
        /\ epoch[c] <= hand[c].val.epoch
    BY <1>5, Checked, Zenon DEF ReadAccepted
  <2> QED
    BY <1>2, <2>1, <2>2 DEF ViewOK
<1>6. CASE WriteAccepted(c)
  <2>1. view'[c] = hand[c] /\ epoch'[c] \in {epoch[c], hand[c].val.epoch} /\ log' = log
    BY <1>1, <1>6 DEF WriteAccepted, TypeOK
  <2>2. /\ hand[c].id > 0 /\ hand[c].id <= Len(log) /\ hand[c].val = log[hand[c].id]
        /\ epoch[c] <= hand[c].val.epoch
    BY <1>6, Checked, Zenon DEF WriteAccepted
  <2> QED
    BY <1>2, <2>1, <2>2 DEF ViewOK
<1>7. ClientNext(c) => \/ ReadAccepted(c) \/ WriteAccepted(c)
                       \/ view' = view /\ epoch' = epoch
  BY DEF ClientNext, ReadStep, WriteStep, Load, RefreshView, StartMutation,
     ProbeMissing, ProbeFound, ListFound, ListEmpty, GetMissing, GetFound,
     ReadRejected, GiveUp, PutCreates, PutConflicts, WriteRejected
<1> QED
  BY <1>1, <1>3, <1>4, <1>5, <1>6, <1>7, Frame DEF Same

LEMMA ControlStep ==
  ASSUME IndInv, TypeOK', [Next]_vars, NEW c \in Client
  PROVE  ControlOK(c)'
<1>1. TypeOK /\ LogInv /\ ControlOK(c) /\ ViewOK(c) /\ ReadOK(c)
  BY Zenon DEF IndInv, ClientInv
<1>2. /\ DOMAIN pc = Client /\ DOMAIN op = Client /\ DOMAIN view = Client
      /\ DOMAIN epoch = Client
      /\ view[c].id \in Nat /\ hand[c].id \in Nat /\ epoch[c] \in Nat
      /\ op[c].kind \in {"none", "load", "create", "init", "claim",
              "claim_exact", "update", "refresh", "checkpoint", "release"}
  BY <1>1, ClientTypes, Zenon DEF TypeOK
<1>3. CASE Same(c)
  BY <1>1, <1>3 DEF Same, ControlOK
<1>4. CASE Down(c)
  BY <1>4 DEF Down, ControlOK, NoObject, NoOp, Claims, Reading
<1>5. CASE Load(c) \/ RefreshView(c)
  <2>1. view' = view /\ epoch' = epoch /\ pc'[c] \in {"list", "probe"}
    BY <1>2, <1>5, Zenon DEF Load, RefreshView, Refresh, StartRead
  <2>2. \/ op'[c].kind = "load" /\ pc[c] = "down"
        \/ op'[c].kind = "refresh" /\ pc[c] = "ready"
    BY <1>2, <1>5 DEF Load, RefreshView
  <2> QED
    BY <1>1, <1>2, <2>1, <2>2, Zenon DEF ControlOK, Claims, Reading
<1>6. CASE StartMutation(c)
  <2>1. /\ view' = view /\ epoch' = epoch /\ pc'[c] = "write" /\ pc[c] = "ready"
        /\ op'[c] \in Mutations(c)
        /\ op'[c].kind \in Claims => epoch[c] = 0
    BY <1>2, <1>6, Zenon DEF StartMutation
  <2>2. op'[c].kind \notin {"load", "create"}
    BY <2>1, Zenon DEF Mutations
  <2> QED
    BY <1>1, <1>2, <2>1, <2>2, Zenon DEF ControlOK, Reading
<1>7. CASE ProbeMissing(c) \/ ListFound(c) \/ GetMissing(c) \/ GetFound(c)
  <2>1. /\ view' = view /\ epoch' = epoch /\ op' = op
        /\ pc[c] \in Reading /\ pc'[c] \in Reading
    BY <1>2, <1>7, Zenon DEF ProbeMissing, ListFound, GetMissing, GetFound, Reading
  <2> QED
    BY <1>1, <1>2, <2>1, Zenon DEF ControlOK, Reading
<1>8. CASE ProbeFound(c) \/ ReadRejected(c)
  <2>1. /\ view' = view /\ epoch' = epoch /\ op' = op
        /\ pc[c] \in Reading /\ pc'[c] \in Reading
    BY <1>2, <1>8, Zenon DEF ProbeFound, ReadRejected, StartRead, Reading
  <2> QED
    BY <1>1, <1>2, <2>1 DEF ControlOK, Reading
<1>9. CASE ListEmpty(c)
  <2>1. Len(log) = 0
    BY <1>1, <1>9, LogFacts DEF ListEmpty
  <2>2. view[c].id = 0
    BY <1>1, <1>2, <2>1 DEF ViewOK
  <2>3. op[c].kind = "load" /\ pc[c] \in Reading
    BY <1>1, <1>2, <1>9, <2>2 DEF ControlOK, ListEmpty, Reading
  <2>4. /\ view' = view /\ epoch' = epoch /\ pc'[c] = "write"
        /\ op'[c].kind = "create"
    BY <1>2, <1>9, <2>3 DEF ListEmpty
  <2> QED
    BY <1>1, <1>2, <2>2, <2>3, <2>4, Zenon DEF ControlOK, Claims, Reading
<1>10. CASE ReadAccepted(c)
  <2>1. /\ hand[c].id > 0 /\ ~ (epoch[c] > hand[c].val.epoch)
        /\ hand[c].val.epoch \in Nat
    BY <1>1, <1>2, <1>10, Checked, ClientTypes DEF ReadAccepted
  <2>2. view'[c] = hand[c] /\ epoch' = epoch /\ pc[c] = "check"
    BY <1>2, <1>10, Zenon DEF ReadAccepted
  <2>3. /\ \/ pc'[c] = "fenced" /\ op'[c] = NoOp
           \/ pc'[c] = "ready" /\ op'[c] = NoOp
           \/ /\ pc'[c] = "write" /\ op'[c] = op[c]
              /\ op[c].kind \notin {"load", "refresh"}
        /\ epoch[c] > 0 /\ pc'[c] # "fenced" => epoch[c] = hand[c].val.epoch
    BY <1>2, <1>10, <2>1 DEF ReadAccepted
  <2>4. /\ op[c].kind \in Claims => epoch[c] = 0
        /\ op[c].kind # "create"
    BY <1>1, <2>2, Zenon DEF ControlOK, Reading
  <2>5. NoOp.kind = "none" /\ NoOp.kind \notin Claims
    BY DEF NoOp, Claims
  <2> QED
    BY <2>1, <2>2, <2>3, <2>4, <2>5, Zenon DEF ControlOK, Reading
<1>11. CASE GiveUp(c)
  <2>1. /\ view' = view /\ epoch' = epoch /\ op'[c] = NoOp /\ pc[c] = "write"
        /\ pc'[c] \in {"fenced", "ready"}
        /\ op[c].kind # "create"
    BY <1>2, <1>11, Zenon DEF GiveUp, ClaimFails, NothingToDo
  <2> QED
    BY <1>1, <1>2, <2>1 DEF ControlOK, NoOp, Claims, Reading
<1>12. CASE PutCreates(c)
  <2>1. /\ view' = view /\ epoch' = epoch /\ op' = op /\ pc[c] = "write"
        /\ pc'[c] = "written"
    BY <1>2, <1>12, Zenon DEF PutCreates, Writing
  <2> QED
    BY <1>1, <2>1, Zenon DEF ControlOK, Reading
<1>13. CASE PutConflicts(c) \/ WriteRejected(c)
  <2>1. /\ view' = view /\ epoch' = epoch /\ pc[c] \in {"write", "written"}
        /\ \/ op' = op /\ op[c].kind # "create" /\ pc'[c] \in {"list", "probe"}
           \/ op[c].kind = "create" /\ op'[c] = NoOp /\ pc'[c] = "down"
    BY <1>2, <1>13, Zenon DEF PutConflicts, WriteRejected, OnConflict, Refresh,
       StartRead, Writing
  <2> QED
    BY <1>1, <1>2, <2>1 DEF ControlOK, NoOp, Claims, Reading
<1>14. CASE WriteAccepted(c)
  <2>1. hand[c].id > 0
    BY <1>14, Checked, Zenon DEF WriteAccepted
  <2>2. /\ view'[c] = hand[c] /\ op'[c] = NoOp /\ pc'[c] = "ready"
        /\ pc[c] = "written"
        /\ epoch'[c] = IF op[c].kind \in Claims THEN hand[c].val.epoch ELSE epoch[c]
    BY <1>2, <1>14, Zenon DEF WriteAccepted
  <2>3. op[c].kind \notin Claims => hand[c].val.epoch = view[c].val.epoch
    BY <2>2, Zenon DEF IndInv, WriteInv
  <2>4. epoch'[c] > 0 => hand[c].val.epoch = epoch'[c]
    BY <1>1, <2>2, <2>3, Zenon DEF ControlOK
  <2> QED
    BY <1>2, <2>1, <2>2, <2>4 DEF ControlOK, NoOp, Claims, Reading
<1> QED
  BY <1>1, <1>3, <1>4, <1>5, <1>6, <1>7, <1>8, <1>9, <1>10, <1>11, <1>12, <1>13,
     <1>14, Frame, Zenon DEF ClientNext, ReadStep, WriteStep

LEMMA ReadingStep ==
  ASSUME IndInv, TypeOK', [Next]_vars, NEW c \in Client
  PROVE  ReadOK(c)'
<1>1. TypeOK /\ LogInv /\ Advances /\ ControlOK(c) /\ ViewOK(c) /\ ReadOK(c)
  BY StepAdvances, Zenon DEF IndInv, ClientInv
<1>2. /\ DOMAIN pc = Client /\ DOMAIN op = Client /\ DOMAIN view = Client
      /\ DOMAIN hand = Client /\ DOMAIN floor = Client
      /\ view[c].id \in Nat /\ hand[c].id \in Nat /\ floor[c] \in Nat
      /\ Len(log) \in Nat /\ boundary \in Nat
  BY <1>1, ClientTypes, LogFacts, Zenon DEF TypeOK
<1>3. StoreOf[c] \in Store /\ cache[StoreOf[c]] \in Objects
      /\ cache[StoreOf[c]].id \in Nat /\ Faithful(cache[StoreOf[c]])
  BY <1>1, StoreOfAssumption DEF TypeOK, Objects, IndInv, StoreInv
<1>4. CASE Same(c)
  <2>1. Faithful(hand[c]) => Faithful(hand[c])'
    BY <1>1, <1>2, <1>4 DEF Faithful, Advances, Same
  <2> QED
    BY <1>1, <1>2, <1>4, <2>1 DEF Same, ReadOK, Advances
<1>5. CASE pc'[c] \notin Reading
  BY <1>5, Zenon DEF ReadOK, Reading
<1>6. ASSUME log' = log, boundary' = boundary, view' = view,
             view[c].id <= floor'[c], floor'[c] <= Len(log),
             \/ pc'[c] = "list"
             \/ /\ pc'[c] = "probe" /\ hand'[c].id > 0
                /\ Faithful(hand'[c])
      PROVE  ReadOK(c)'
  BY <1>6, Zenon DEF ReadOK, Reading, Faithful
<1>7. CASE Load(c) \/ RefreshView(c)
  <2>1. /\ log' = log /\ boundary' = boundary /\ view' = view /\ floor'[c] = Len(log)
        /\ \/ pc'[c] = "list"
           \/ pc'[c] = "probe" /\ hand'[c] = cache[StoreOf[c]] /\ hand'[c].id # 0
    BY <1>2, <1>7, Zenon DEF Load, RefreshView, Refresh, StartRead, store
  <2> QED
    BY <1>1, <1>2, <1>3, <1>6, <2>1 DEF ViewOK
<1>8. CASE ProbeMissing(c)
  <2>1. /\ log' = log /\ boundary' = boundary /\ view' = view /\ floor' = floor
        /\ hand' = hand /\ pc'[c] = "check" /\ pc[c] = "probe"
        /\ Get(hand[c].id + 1) = Absent
    BY <1>2, <1>8, Zenon DEF ProbeMissing, store, history
  <2>2. /\ view[c].id <= floor[c] /\ floor[c] <= Len(log) /\ hand[c].id > 0
        /\ Faithful(hand[c])
    BY <1>1, <2>1, Zenon DEF ReadOK, Reading
  <2>3. hand[c].id > boundary => hand[c].id >= Len(log)
    <3> SUFFICES ASSUME hand[c].id > boundary, hand[c].id < Len(log) PROVE FALSE
      BY <1>2
    <3>1. hand[c].id + 1 \in 1 .. Len(log) /\ hand[c].id + 1 > boundary
      BY <1>2
    <3>2. /\ files[hand[c].id + 1] = log[hand[c].id + 1] /\ hand[c].id + 1 \in Ids
          /\ log[hand[c].id + 1] \in Vals
      BY <1>1, <3>1, LogFacts, Zenon
    <3> QED
      BY <2>1, <3>2, ConstantTypes, Zenon DEF Get
  <2> QED
    BY <1>2, <2>1, <2>2, <2>3 DEF ReadOK, Reading, Faithful
<1>9. CASE ProbeFound(c)
  <2>1. /\ log' = log /\ boundary' = boundary /\ view' = view /\ floor' = floor
        /\ pc'[c] \in {"probe", "list"} /\ pc[c] = "probe"
        /\ hand'[c].id = hand[c].id + 1 /\ hand'[c].val = Get(hand[c].id + 1)
        /\ Get(hand[c].id + 1) # Absent
    BY <1>2, <1>9, Zenon DEF ProbeFound, history
  <2>2. view[c].id <= floor[c] /\ floor[c] <= Len(log)
    BY <1>1, <2>1, Zenon DEF ReadOK, Reading
  <2>3. hand[c].id + 1 \in Present /\ Get(hand[c].id + 1) = files[hand[c].id + 1]
    BY <2>1, Zenon DEF Get, Present
  <2>4. /\ hand[c].id + 1 <= Len(log)
        /\ hand[c].id + 1 > boundary => files[hand[c].id + 1] = log[hand[c].id + 1]
    BY <1>1, <1>2, <2>3, LogFacts
  <2> QED
    BY <1>2, <1>6, <2>1, <2>2, <2>3, <2>4 DEF Faithful
<1>10. CASE ListFound(c)
  <2>1. /\ log' = log /\ boundary' = boundary /\ view' = view /\ floor' = floor
        /\ pc[c] = "list"
    BY <1>2, <1>10 DEF ListFound, store, history
  <2>2. PICK n \in Ids :
          /\ IsLast(n)
          /\ \/ /\ hand'[c] = cache[StoreOf[c]] /\ hand'[c].id = n /\ pc'[c] = "check"
             \/ hand'[c].id = n /\ pc'[c] = "get"
    BY <1>2, <1>10, Zenon DEF ListFound, NoObject
  <2>3. view[c].id <= floor[c] /\ floor[c] <= Len(log)
    BY <1>1, <2>1, Zenon DEF ReadOK, Reading
  <2>4. n <= Len(log) /\ n >= Len(log) /\ n > 0 /\ n \in Nat
    BY <1>1, <1>2, <2>2, LogFacts DEF IsLast, Ids
  <2> QED
    BY <1>2, <1>3, <2>1, <2>2, <2>3, <2>4 DEF ReadOK, Reading, Faithful
<1>11. CASE GetMissing(c)
  <2>1. /\ log' = log /\ boundary' = boundary /\ view' = view /\ floor' = floor
        /\ pc[c] = "get" /\ pc'[c] = "list"
    BY <1>2, <1>11, Zenon DEF GetMissing, store, history
  <2> QED
    BY <1>1, <1>6, <2>1, Zenon DEF ReadOK, Reading
<1>12. CASE GetFound(c)
  <2>1. /\ log' = log /\ boundary' = boundary /\ view' = view /\ floor' = floor
        /\ pc[c] = "get" /\ pc'[c] = "check"
        /\ hand'[c].id = hand[c].id /\ hand'[c].val = Get(hand[c].id)
        /\ Get(hand[c].id) # Absent
    BY <1>2, <1>12, Zenon DEF GetFound, history
  <2>2. /\ view[c].id <= floor[c] /\ floor[c] <= Len(log) /\ hand[c].id > 0
        /\ hand[c].id >= floor[c]
    BY <1>1, <2>1, Zenon DEF ReadOK, Reading
  <2>3. hand[c].id \in Present /\ Get(hand[c].id) = files[hand[c].id]
    BY <2>1, Zenon DEF Get, Present
  <2>4. /\ hand[c].id <= Len(log)
        /\ hand[c].id > boundary => files[hand[c].id] = log[hand[c].id]
    BY <1>1, <1>2, <2>3, LogFacts
  <2> QED
    BY <1>2, <2>1, <2>2, <2>3, <2>4, Zenon DEF ReadOK, Reading, Faithful
<1>13. ASSUME NEW i PROVE LET o == invalidate_cached(StoreOf[c], i)[StoreOf[c]]
                          IN o.id \in Nat /\ Faithful(o)
  <2>1. invalidate_cached(StoreOf[c], i)[StoreOf[c]] \in {cache[StoreOf[c]], NoObject}
    BY <1>1, <1>3, Zenon DEF TypeOK, invalidate_cached
  <2>2. NoObject.id \in Nat /\ Faithful(NoObject)
    BY <1>2 DEF NoObject, Faithful
  <2> QED
    BY <1>3, <2>1, <2>2, Zenon
<1>14. CASE ReadRejected(c)
  <2>1. /\ log' = log /\ boundary' = boundary /\ view' = view /\ floor' = floor
        /\ pc[c] = "check"
        /\ \/ pc'[c] = "list"
           \/ /\ pc'[c] = "probe" /\ hand'[c].id # 0
              /\ hand'[c] = invalidate_cached(StoreOf[c], hand[c].id)[StoreOf[c]]
    BY <1>2, <1>14, Zenon DEF ReadRejected, StartRead, history
  <2>2. view[c].id <= floor[c] /\ floor[c] <= Len(log)
    BY <1>1, <2>1, Zenon DEF ReadOK, Reading
  <2> QED
    BY <1>6, <1>13, <2>1, <2>2
<1>15. CASE PutConflicts(c) /\ op[c].kind # "create"
  <2>1. /\ log' = log /\ boundary' = boundary /\ view' = view /\ floor'[c] = Len(log)
        /\ \/ pc'[c] = "list"
           \/ pc'[c] = "probe" /\ hand'[c] = cache[StoreOf[c]] /\ hand'[c].id # 0
    BY <1>2, <1>15, Zenon DEF PutConflicts, OnConflict, Refresh, StartRead, store
  <2> QED
    BY <1>1, <1>2, <1>3, <1>6, <2>1 DEF ViewOK
<1>16. CASE WriteRejected(c) /\ op[c].kind # "create"
  <2>1. /\ log' = log /\ boundary' = boundary /\ view' = view /\ floor'[c] = Len(log)
        /\ \/ pc'[c] = "list"
           \/ /\ pc'[c] = "probe" /\ hand'[c].id # 0
              /\ hand'[c] = invalidate_cached(StoreOf[c], hand[c].id)[StoreOf[c]]
    BY <1>2, <1>16, Zenon DEF WriteRejected, OnConflict, Refresh, StartRead
  <2> QED
    BY <1>1, <1>2, <1>6, <1>13, <2>1 DEF ViewOK
<1>17. CASE \/ ListEmpty(c) \/ ReadAccepted(c) \/ StartMutation(c) \/ GiveUp(c)
            \/ PutCreates(c) \/ WriteAccepted(c)
            \/ PutConflicts(c) /\ op[c].kind = "create"
            \/ WriteRejected(c) /\ op[c].kind = "create"
  <2>1. pc'[c] \in {"write", "broken", "fenced", "ready", "written", "down"}
    BY <1>2, <1>17, Zenon DEF ListEmpty, ReadAccepted, StartMutation, GiveUp, PutCreates,
       WriteAccepted, PutConflicts, WriteRejected, OnConflict
  <2> QED
    BY <1>5, <2>1, Zenon DEF Reading
<1>18. CASE Down(c)
  BY <1>5, <1>18, Zenon DEF Down, Reading
<1> QED
  BY <1>1, <1>4, <1>7, <1>8, <1>9, <1>10, <1>11, <1>12, <1>14, <1>15, <1>16,
     <1>17, <1>18, Frame, Zenon DEF ClientNext, ReadStep, WriteStep

LEMMA PendingSteps ==
  ASSUME TypeOK, NEW c \in Client, ClientNext(c)
  PROVE  /\ pc'[c] = "written" => PutCreates(c)
         /\ acks' # acks => WriteAccepted(c)
         /\ epoch' # epoch => WriteAccepted(c) /\ op[c].kind \in Claims
<1>1. DOMAIN pc = Client /\ epoch \in [Client -> Epochs]
  BY Zenon DEF TypeOK
<1>2. CASE Load(c) \/ RefreshView(c) \/ StartMutation(c)
  BY <1>1, <1>2, Zenon DEF Load, RefreshView, StartMutation, Refresh, StartRead, history
<1>3. CASE ReadStep(c)
  BY <1>1, <1>3, Zenon DEF ReadStep, ProbeMissing, ProbeFound, ListFound, ListEmpty,
     GetMissing, GetFound, ReadAccepted, ReadRejected, StartRead, history
<1>4. CASE GiveUp(c) \/ PutCreates(c) \/ PutConflicts(c) \/ WriteRejected(c)
  BY <1>1, <1>4, Zenon DEF GiveUp, PutCreates, PutConflicts, WriteRejected, OnConflict,
     Refresh, StartRead, history
<1>5. CASE WriteAccepted(c)
  BY <1>1, <1>5, Zenon DEF WriteAccepted
<1> QED
  BY <1>2, <1>3, <1>4, <1>5, Zenon DEF ClientNext, WriteStep

LEMMA AckSteps ==
  ASSUME TypeOK, [Next]_vars
  PROVE  acks' = acks \/ \E c \in Client : WriteAccepted(c)
<1>1. ASSUME NEW g \in Gc, GcNext(g) PROVE acks' = acks
  BY <1>1, Zenon DEF GcNext, GcList, GcRead, GcFinish, GcCovered, GcAdvance, GcPut,
     GcPutFails, GcReread, GcDelete, history
<1>2. ASSUME NEW s \in Mortal, Crash(s) PROVE acks' = acks
  BY <1>2, Zenon DEF Crash
<1> QED
  BY <1>1, <1>2, PendingSteps, Zenon DEF Next, vars

\* Two claims pending above the boundary, or one and an epoch that is held,
\* are for different epochs: the epochs rise along the versions.
LEMMA PendingClaims ==
  ASSUME IndInv, NEW c \in Client, NEW d \in Client, c # d,
         pc[c] = "written", hand[c].id > boundary, op[c].kind \in Claims,
         pc[d] = "written", hand[d].id > boundary, op[d].kind \in Claims
  PROVE  hand[c].val.epoch # hand[d].val.epoch
<1>1. TypeOK /\ LogInv
  BY Zenon DEF IndInv
<1>2. ASSUME NEW x \in Client, NEW y \in Client, hand[x].id < hand[y].id,
             pc[x] = "written", hand[x].id > boundary,
             pc[y] = "written", hand[y].id > boundary, op[y].kind \in Claims
      PROVE  hand[x].val.epoch < hand[y].val.epoch
  <2>1. /\ hand[x].id \in Nat /\ hand[y].id \in Nat /\ view[y].id \in Nat
        /\ hand[x].val.epoch \in Nat /\ hand[y].val.epoch \in Nat
        /\ view[y].val.epoch \in Nat /\ boundary \in Nat /\ Len(log) \in Nat
    BY <1>1, ClientTypes, LogFacts, Zenon
  <2>2. /\ hand[y].id = view[y].id + 1 /\ view[y].val.epoch < hand[y].val.epoch
        /\ Faithful(hand[x])
    BY <1>2, <2>1, Zenon DEF IndInv, WriteInv
  <2>3. view[y].id > 0 /\ view[y].id <= Len(log) /\ view[y].val = log[view[y].id]
    <3>1. /\ view[y].id <= Len(log)
          /\ view[y].val = IF view[y].id = 0 THEN InitialVal ELSE log[view[y].id]
      BY Zenon DEF IndInv, ClientInv, ViewOK
    <3>2. view[y].id > 0 /\ view[y].id # 0
      <4>1. /\ hand[x].id \in Nat /\ view[y].id \in Nat /\ boundary \in Nat
            /\ boundary < hand[x].id /\ hand[x].id < view[y].id + 1
        <5>1. hand[x].id > boundary /\ hand[x].id < view[y].id + 1
          BY <1>2, <2>2, Zenon
        <5>2. hand[x].id \in Nat /\ view[y].id \in Nat /\ boundary \in Nat
          BY <2>1, Zenon
        <5> QED
          BY <5>1, <5>2
      <4> QED
        BY <4>1
    <3> QED
      BY <3>1, <3>2, Zenon
  <2>4. /\ hand[x].id \in 1 .. Len(log) /\ view[y].id \in 1 .. Len(log)
        /\ hand[x].id <= view[y].id
        /\ hand[x].val = log[hand[x].id]
    <3>1. hand[x].id <= Len(log) /\ hand[x].val = log[hand[x].id]
      BY <1>2, <2>2, Zenon DEF Faithful
    <3>2. /\ hand[x].id \in 1 .. Len(log) /\ view[y].id \in 1 .. Len(log)
          /\ hand[x].id <= view[y].id
      <4>1. /\ hand[x].id > boundary /\ hand[x].id < view[y].id + 1
            /\ hand[x].id <= Len(log) /\ view[y].id > 0 /\ view[y].id <= Len(log)
        BY <1>2, <2>2, <2>3, <3>1, Zenon
      <4>2. /\ hand[x].id \in Nat /\ view[y].id \in Nat /\ boundary \in Nat
            /\ Len(log) \in Nat
        BY <2>1, Zenon
      <4> QED
        BY <4>1, <4>2
    <3> QED
      BY <3>1, <3>2, Zenon
  <2>5. log[hand[x].id].epoch <= log[view[y].id].epoch
    BY <1>1, <2>4, Zenon DEF LogInv, EpochsNeverDecrease
  <2>6. hand[x].val.epoch <= view[y].val.epoch
    BY <2>3, <2>4, <2>5, Zenon
  <2>7. /\ hand[x].val.epoch \in Nat /\ view[y].val.epoch \in Nat /\ hand[y].val.epoch \in Nat
        /\ view[y].val.epoch < hand[y].val.epoch
    BY <2>1, <2>2, Zenon
  <2> QED
    BY <2>6, <2>7
<1>3. /\ hand[c].id \in Nat /\ hand[d].id \in Nat /\ hand[c].id # hand[d].id
      /\ hand[c].val.epoch \in Nat /\ hand[d].val.epoch \in Nat
  BY <1>1, ClientTypes, Zenon DEF IndInv, WriteInv
<1> QED
  BY <1>2, <1>3

(***************************************************************************)
(* Writes, collectors and the theorems                                     *)
(***************************************************************************)
LEMMA WriteInvStep ==
  ASSUME IndInv, TypeOK', [Next]_vars
  PROVE  WriteInv'
<1>1. TypeOK /\ LogInv /\ WriteInv /\ Advances
  BY StepAdvances, Zenon DEF IndInv
<1> SUFFICES ASSUME NEW c \in Client, pc'[c] = "written"
             PROVE  /\ hand'[c].id = view'[c].id + 1
                    /\ Faithful(hand[c])'
                    /\ hand'[c].val.epoch >= view'[c].val.epoch
                    /\ op'[c].kind \in Claims => hand'[c].val.epoch > view'[c].val.epoch
                    /\ op'[c].kind \notin Claims => hand'[c].val.epoch = view'[c].val.epoch
                    /\ hand'[c].id > boundary' =>
                         /\ acks'[hand'[c].id] = 0
                         /\ \A d \in Client \ {c} :
                              pc'[d] = "written" => hand'[d].id # hand'[c].id
                         /\ op'[c].kind \in Claims =>
                              \A d \in Client \ {c} : epoch'[d] # hand'[c].val.epoch
  BY Zenon DEF WriteInv
<1>2. /\ DOMAIN pc = Client /\ DOMAIN op = Client /\ DOMAIN view = Client
      /\ DOMAIN hand = Client /\ epoch \in [Client -> Epochs]
      /\ acks \in [Ids -> Nat] /\ boundary \in Nat /\ Len(log) \in Nat
      /\ \A d \in Client : /\ view[d].id \in Nat /\ hand[d].id \in Nat
                           /\ view[d].val.epoch \in Nat /\ hand[d].val.epoch \in Nat
                           /\ epoch[d] \in Nat
  BY <1>1, ClientTypes, LogFacts, Zenon DEF TypeOK
<1>3. CASE Same(c)
  <2>1. /\ pc[c] = "written" /\ hand'[c] = hand[c] /\ view'[c] = view[c]
        /\ op'[c] = op[c]
    BY <1>3, Zenon DEF Same
  <2>2. /\ hand[c].id = view[c].id + 1 /\ Faithful(hand[c])
        /\ hand[c].val.epoch >= view[c].val.epoch
        /\ op[c].kind \in Claims => hand[c].val.epoch > view[c].val.epoch
        /\ op[c].kind \notin Claims => hand[c].val.epoch = view[c].val.epoch
        /\ hand[c].id > boundary =>
             /\ acks[hand[c].id] = 0
             /\ \A d \in Client \ {c} : pc[d] = "written" => hand[d].id # hand[c].id
             /\ op[c].kind \in Claims =>
                  \A d \in Client \ {c} : epoch[d] # hand[c].val.epoch
    BY <1>1, <2>1, Zenon DEF WriteInv
  <2>3. Faithful(hand[c])'
    <3>1. hand[c].id <= Len(log') /\ (hand[c].id > boundary' => hand[c].val = log'[hand[c].id])
      BY <1>1, <1>2, <2>2, FaithfulStays, Zenon DEF Faithful
    <3> QED
      BY <2>1, <3>1, Zenon DEF Faithful
  <2>4. ASSUME hand[c].id > boundary' PROVE acks'[hand[c].id] = 0
    <3>1. hand[c].id > boundary
      <4>1. boundary \in Nat /\ boundary' \in Nat /\ boundary <= boundary' /\ hand[c].id \in Nat
        BY <1>1, <1>2, Zenon DEF Advances
      <4> QED
        BY <2>4, <4>1
    <3>2. ASSUME NEW d \in Client, WriteAccepted(d) PROVE acks'[hand[c].id] = 0
      <4>1. d # c
        BY <1>2, <3>2, Zenon DEF WriteAccepted
      <4>2. acks' = [acks EXCEPT ![hand[d].id] = acks[hand[d].id] + 1]
            /\ pc[d] = "written"
        BY <3>2, Zenon DEF WriteAccepted
      <4>3. hand[d].id # hand[c].id
        BY <2>2, <3>1, <4>1, <4>2, Zenon
      <4> QED
        BY <1>2, <2>2, <3>1, <4>2, <4>3
    <3> QED
      BY <1>1, <2>2, <3>1, <3>2, AckSteps, Zenon
  <2>5. ASSUME hand[c].id > boundary', NEW d \in Client \ {c}, pc'[d] = "written"
        PROVE  hand'[d].id # hand[c].id
    <3>1. hand[c].id > boundary
      BY <1>1, <1>2, <2>5 DEF Advances
    <3>2. CASE Same(d)
      BY <2>2, <2>5, <3>1, <3>2, Zenon DEF Same
    <3>3. CASE PutCreates(d)
      <4>1. hand'[d].id = view[d].id + 1
        BY <1>2, <3>3, Zenon DEF PutCreates
      <4>2. view[d].id = Len(log) \/ view[d].id + 1 <= boundary
        BY <3>3, CreateCases, Zenon
      <4>3. hand[c].id <= Len(log)
        BY <2>2, Zenon DEF Faithful
      <4> QED
        BY <1>2, <3>1, <4>1, <4>2, <4>3
    <3> QED
      BY <1>1, <2>5, <3>2, <3>3, Frame, PendingSteps, Zenon DEF Down
  <2>6. ASSUME hand[c].id > boundary', op[c].kind \in Claims, NEW d \in Client \ {c}
        PROVE  epoch'[d] # hand[c].val.epoch
    <3>1. hand[c].id > boundary /\ epoch[d] # hand[c].val.epoch
      <4>1. boundary \in Nat /\ boundary' \in Nat /\ boundary <= boundary' /\ hand[c].id \in Nat
        BY <1>1, <1>2, Zenon DEF Advances
      <4>2. hand[c].id > boundary
        BY <2>6, <4>1
      <4> QED
        BY <2>2, <2>6, <4>2, Zenon
    <3>2. CASE Same(d)
      BY <3>1, <3>2, Zenon DEF Same
    <3>3. CASE Down(d)
      <4>1. hand[c].val.epoch # 0
        BY <1>2, <2>2, <2>6
      <4> QED
        BY <3>3, <4>1, Zenon DEF Down
    <3>4. CASE WriteAccepted(d) /\ op[d].kind \in Claims
      <4>1. epoch'[d] = hand[d].val.epoch /\ pc[d] = "written"
        BY <1>2, <3>4, Zenon DEF WriteAccepted
      <4>2. hand[d].id > boundary
        BY <3>4, Checked, Zenon DEF WriteAccepted
      <4> QED
        BY <2>1, <2>6, <3>1, <3>4, <4>1, <4>2, PendingClaims, Zenon
    <3> QED
      BY <1>1, <3>1, <3>2, <3>3, <3>4, Frame, PendingSteps, Zenon
  <2> QED
    BY <1>2, <2>1, <2>2, <2>3, <2>4, <2>5, <2>6, Zenon
<1>4. CASE PutCreates(c)
  <2> DEFINE new == [id |-> view[c].id + 1, val |-> Dirty(c)]
  <2>1. /\ hand'[c] = new /\ view' = view /\ op' = op /\ epoch' = epoch
        /\ acks' = acks /\ boundary' = boundary /\ Writing(c)
    BY <1>2, <1>4, Zenon DEF PutCreates
  <2>2. /\ Dirty(c) \in Vals /\ new.id \in Ids
        /\ \/ /\ view[c].id = Len(log) /\ log' = Append(log, Dirty(c))
           \/ /\ new.id <= Len(log) /\ new.id <= boundary /\ log' = log
    BY <1>4, CreateCases, Zenon
  <2>3. /\ Dirty(c).epoch \in Nat /\ Dirty(c).epoch >= view[c].val.epoch
        /\ op[c].kind \in Claims => Dirty(c).epoch > view[c].val.epoch
        /\ op[c].kind \notin Claims => Dirty(c).epoch = view[c].val.epoch
    BY <2>1, <2>2, DirtyEpoch DEF Vals, Epochs
  <2>4. Faithful(hand[c])'
    <3>1. log \in Seq(Vals)
      BY <1>1, Zenon DEF TypeOK
    <3> QED
      BY <1>2, <2>1, <2>2, <3>1 DEF Faithful
  <2>5. ASSUME new.id > boundary
        PROVE  /\ acks[new.id] = 0
               /\ \A d \in Client \ {c} : pc'[d] = "written" => hand'[d].id # new.id
               /\ op[c].kind \in Claims =>
                    \A d \in Client \ {c} : epoch[d] # Dirty(c).epoch
    <3>1. view[c].id = Len(log) /\ new.id = Len(log) + 1
      BY <1>2, <2>2, <2>5
    <3>2. acks[new.id] = 0
      BY <1>2, <2>2, <3>1 DEF IndInv, AckInv
    <3>3. ASSUME NEW d \in Client \ {c}, pc'[d] = "written"
          PROVE  hand'[d].id # new.id
      <4>1. Same(d)
        BY <1>1, <1>4, <3>3, OtherClient, Zenon DEF ClientNext, WriteStep
      <4>2. hand[d].id <= Len(log)
        BY <1>1, <3>3, <4>1, Zenon DEF Same, WriteInv, Faithful
      <4> QED
        BY <1>2, <3>1, <4>1, <4>2 DEF Same
    <3>4. ASSUME op[c].kind \in Claims, NEW d \in Client \ {c}
          PROVE  epoch[d] # Dirty(c).epoch
      <4>1. ViewOK(c) /\ ViewOK(d)
        BY DEF IndInv, ClientInv
      <4>2. view[d].val.epoch <= view[c].val.epoch
        <5>1. CASE view[d].id = 0
          BY <1>2, <4>1, <5>1 DEF ViewOK, InitialVal
        <5>2. CASE view[d].id > 0
          <6>1. view[d].id \in 1 .. Len(log) /\ Len(log) \in 1 .. Len(log)
            BY <1>2, <4>1, <5>2 DEF ViewOK
          <6>2. log[view[d].id].epoch <= log[Len(log)].epoch
            BY <1>1, <1>2, <6>1 DEF LogInv, EpochsNeverDecrease
          <6>3. view[d].id # 0 /\ Len(log) # 0
            BY <1>2, <5>2, <6>1
          <6> QED
            BY <3>1, <4>1, <6>2, <6>3, Zenon DEF ViewOK
        <5>3. view[d].id = 0 \/ view[d].id > 0
          BY <1>2
        <5> QED
          BY <5>1, <5>2, <5>3, Zenon
      <4>3. epoch[d] <= view[d].val.epoch /\ Dirty(c).epoch > view[c].val.epoch
        BY <2>3, <3>4, <4>1, Zenon DEF ViewOK
      <4> QED
        BY <1>2, <2>3, <4>2, <4>3
    <3> QED
      BY <3>2, <3>3, <3>4, Zenon
  <2> QED
    BY <2>1, <2>3, <2>4, <2>5
<1> QED
  BY <1>1, <1>3, <1>4, Frame, PendingSteps, Zenon DEF Down

LEMMA AckStep ==
  ASSUME IndInv, TypeOK', [Next]_vars
  PROVE  AckInv'
<1>1. TypeOK /\ AckInv /\ Advances /\ acks \in [Ids -> Nat]
  BY StepAdvances, Zenon DEF IndInv, TypeOK
<1>2. CASE acks' = acks
  BY <1>1, <1>2 DEF AckInv, AckedOnce, Advances, Ids
<1>3. ASSUME NEW c \in Client, WriteAccepted(c) PROVE AckInv'
  <2>1. /\ acks' = [acks EXCEPT ![hand[c].id] = acks[hand[c].id] + 1]
        /\ log' = log /\ pc[c] = "written"
    BY <1>3, Zenon DEF WriteAccepted
  <2>2. hand[c].id \in Ids /\ hand[c].id > boundary /\ hand[c].id <= Len(log)
    BY <1>3, Checked, Zenon DEF WriteAccepted
  <2>3. acks[hand[c].id] = 0
    BY <2>1, <2>2, Zenon DEF IndInv, WriteInv
  <2> QED
    BY <1>1, <2>1, <2>2, <2>3 DEF AckInv, AckedOnce, Advances, Ids
<1> QED
  BY <1>1, <1>2, <1>3, AckSteps, Zenon

LEMMA EpochStep ==
  ASSUME IndInv, TypeOK', [Next]_vars
  PROVE  EpochHeldOnce'
<1>1. TypeOK /\ EpochHeldOnce /\ epoch \in [Client -> Epochs]
  BY Zenon DEF IndInv, TypeOK
<1>2. ASSUME NEW c \in Client, WriteAccepted(c), op[c].kind \in Claims
      PROVE  EpochHeldOnce'
  <2>1. epoch' = [epoch EXCEPT ![c] = hand[c].val.epoch] /\ pc[c] = "written"
    BY <1>2, Zenon DEF WriteAccepted
  <2>2. hand[c].id > boundary
    BY <1>2, Checked, Zenon DEF WriteAccepted
  <2>3. \A d \in Client \ {c} : epoch[d] # hand[c].val.epoch
    BY <1>2, <2>1, <2>2, Zenon DEF IndInv, WriteInv
  <2> QED
    BY <1>1, <2>1, <2>3, Zenon DEF EpochHeldOnce
<1>3. CASE \A c \in Client : epoch'[c] \in {epoch[c], 0}
  BY <1>1, <1>3, Zenon DEF EpochHeldOnce
<1>4. ASSUME NEW g \in Gc, GcNext(g) PROVE epoch' = epoch
  BY <1>4, Zenon DEF GcNext, GcList, GcRead, GcFinish, GcCovered, GcAdvance, GcPut,
     GcPutFails, GcReread, GcDelete, client
<1>5. ASSUME NEW s \in Mortal, Crash(s) PROVE \A c \in Client : epoch'[c] \in {epoch[c], 0}
  BY <1>5, Zenon DEF Crash
<1> QED
  BY <1>1, <1>2, <1>3, <1>4, <1>5, PendingSteps, Zenon DEF Next, vars

LEMMA GcStep ==
  ASSUME IndInv, TypeOK', [Next]_vars
  PROVE  GcInv'
<1>1. TypeOK /\ LogInv /\ GcInv /\ Advances
  BY StepAdvances, Zenon DEF IndInv
<1> DEFINE OK(g) ==
      /\ phase[g] = "read" => last[g] <= Len(log) /\ \A i \in old[g] : i < last[g]
      /\ phase[g] \in {"advance", "put", "reread"} => \A i \in old[g] : i < Len(log)
      /\ phase[g] = "put" => base[g] <= boundary
      /\ phase[g] = "put" => \A t \in Ids : IsTarget(g, t) => base[g] < t
      /\ phase[g] = "delete" => \A i \in old[g] : i <= boundary
<1> SUFFICES ASSUME NEW g \in Gc PROVE OK(g)'
  BY Zenon DEF GcInv
<1>2. /\ DOMAIN phase = Gc /\ DOMAIN last = Gc /\ DOMAIN old = Gc /\ DOMAIN base = Gc
      /\ last[g] \in Nat /\ old[g] \subseteq Ids /\ base[g] \in Nat /\ boundary \in Nat
      /\ Len(log) \in Nat /\ \A i \in old[g] : i \in Nat
  <2>1. /\ DOMAIN phase = Gc /\ DOMAIN last = Gc /\ DOMAIN old = Gc /\ DOMAIN base = Gc
        /\ last[g] \in 0 .. MaxId /\ old[g] \subseteq Ids /\ base[g] \in 0 .. MaxId
        /\ boundary \in 0 .. MaxId /\ log \in Seq(Vals)
    BY <1>1, Zenon DEF TypeOK
  <2>2. last[g] \in Nat /\ base[g] \in Nat /\ boundary \in Nat /\ Len(log) \in Nat
    BY <2>1
  <2>3. Ids \subseteq Nat
    BY DEF Ids
  <2> QED
    BY <2>1, <2>2, <2>3, Zenon
<1>3. OK(g)
  BY <1>1, Zenon DEF GcInv
<1>4. CASE /\ phase'[g] = phase[g] /\ last'[g] = last[g]
           /\ old'[g] = old[g] /\ base'[g] = base[g]
  <2>1. \A t : IsTarget(g, t)' <=> IsTarget(g, t)
    BY <1>4, Zenon DEF IsTarget
  <2>2. Len(log) <= Len(log') /\ Len(log') \in Nat /\ boundary <= boundary' /\ boundary' \in Nat
    BY <1>1, Zenon DEF Advances
  <2> QED
    BY <1>2, <1>3, <1>4, <2>1, <2>2
<1>5. CASE phase'[g] = "idle"
  BY <1>5, Zenon
<1>6. CASE GcList(g)
  <2>1. PICK n \in Ids : /\ IsLast(n) /\ last'[g] = n /\ old'[g] = Present \ {n}
                         /\ phase'[g] = "read" /\ log' = log
    BY <1>2, <1>6, Zenon DEF GcList, history
  <2>2. n <= Len(log) /\ \A i \in Present \ {n} : i < n
    BY <1>1, <2>1, LogFacts DEF IsLast, Present, Ids
  <2> QED
    BY <2>1, <2>2, Zenon
<1>7. CASE GcRead(g)
  <2>1. /\ phase[g] = "read" /\ log' = log /\ old'[g] \subseteq old[g]
        /\ phase'[g] = "advance" \/ (phase'[g] = "delete" /\ old'[g] = {})
    BY <1>2, <1>7, Zenon DEF GcRead, history
  <2> QED
    BY <1>2, <1>3, <2>1
<1>8. CASE GcFinish(g)
  BY <1>2, <1>5, <1>8, Zenon DEF GcFinish
<1>9. Known(g) \in Nat /\ Known(g) <= boundary
  <2>1. boundary \in 0 .. MaxId /\ bcache[StoreOf[g]] \in 0 .. MaxId
        /\ bcache[StoreOf[g]] <= boundary
    BY <1>1, StoreOfAssumption, Zenon DEF IndInv, StoreInv, TypeOK
  <2>2. Known(g) = boundary \/ Known(g) = bcache[StoreOf[g]]
    BY Zenon DEF Known
  <2> QED
    BY <2>1, <2>2
<1>10. CASE GcCovered(g)
  <2>1. PICK t \in Ids : IsTarget(g, t) /\ Known(g) >= t
    BY <1>10, Zenon DEF GcCovered
  <2>2. old' = old /\ boundary' = boundary /\ phase'[g] = "delete"
    BY <1>2, <1>10, Zenon DEF GcCovered
  <2> QED
    BY <1>2, <1>9, <2>1, <2>2 DEF IsTarget, Ids
<1>11. CASE GcAdvance(g)
  <2>1. PICK t \in Ids : IsTarget(g, t) /\ Known(g) < t
    BY <1>11, Zenon DEF GcAdvance
  <2>2. /\ old' = old /\ boundary' = boundary /\ phase'[g] = "put" /\ log' = log
        /\ base'[g] = Known(g) /\ phase[g] = "advance"
    BY <1>2, <1>11, Zenon DEF GcAdvance, history
  <2>3. \A u \in Ids : IsTarget(g, u)' => u = t
    BY <2>1, <2>2 DEF IsTarget, Ids
  <2> QED
    BY <1>2, <1>3, <1>9, <2>1, <2>2, <2>3, Zenon
<1>12. CASE GcPut(g)
  <2>1. PICK t \in Ids : IsTarget(g, t) /\ boundary' = t
    BY <1>12, Zenon DEF GcPut
  <2>2. old' = old /\ phase'[g] = "delete"
    BY <1>2, <1>12, Zenon DEF GcPut
  <2> QED
    BY <2>1, <2>2, Zenon DEF IsTarget
<1>13. CASE GcPutFails(g)
  <2>1. phase[g] = "put" /\ phase'[g] = "reread" /\ old' = old /\ log' = log
    BY <1>2, <1>13, Zenon DEF GcPutFails, history
  <2> QED
    BY <1>3, <2>1, Zenon
<1>14. CASE GcReread(g)
  <2>1. phase[g] = "reread" /\ phase'[g] = "advance" /\ old' = old /\ log' = log
    BY <1>2, <1>14, Zenon DEF GcReread, history
  <2> QED
    BY <1>3, <2>1, Zenon
<1>15. ASSUME NEW j \in Ids, GcDelete(g, j) PROVE OK(g)'
  <2>1. /\ phase[g] = "delete" /\ phase'[g] = "delete" /\ old'[g] \subseteq old[g]
        /\ boundary' = boundary
    BY <1>2, <1>15, Zenon DEF GcDelete
  <2> QED
    BY <1>3, <2>1, Zenon
<1>16. ASSUME NEW c \in Client, ClientNext(c) PROVE UNCHANGED gc
  <2>1. CASE Load(c) \/ RefreshView(c) \/ StartMutation(c)
    BY <2>1, Zenon DEF Load, RefreshView, StartMutation
  <2>2. CASE ReadStep(c)
    BY <2>2, Zenon DEF ReadStep, ProbeMissing, ProbeFound, ListFound, ListEmpty,
       GetMissing, GetFound, ReadAccepted, ReadRejected
  <2>3. CASE WriteStep(c)
    BY <2>3, Zenon DEF WriteStep, GiveUp, PutCreates, PutConflicts, WriteAccepted,
       WriteRejected
  <2> QED
    BY <1>16, <2>1, <2>2, <2>3, Zenon DEF ClientNext
<1>17. ASSUME NEW h \in Gc, h # g, GcNext(h) PROVE OK(g)'
  BY <1>2, <1>4, <1>17, Zenon DEF GcNext, GcList, GcRead, GcFinish, GcCovered, GcAdvance,
     GcPut, GcPutFails, GcReread, GcDelete
<1>18. ASSUME NEW s \in Mortal, Crash(s) PROVE OK(g)'
  BY <1>2, <1>4, <1>5, <1>18, Zenon DEF Crash
<1>19. ASSUME GcNext(g) PROVE OK(g)'
  BY <1>6, <1>7, <1>8, <1>10, <1>11, <1>12, <1>13, <1>14, <1>15, <1>19, Zenon DEF GcNext
<1>20. CASE UNCHANGED gc
  BY <1>4, <1>20, Zenon DEF gc
<1> QED
  BY <1>16, <1>17, <1>18, <1>19, <1>20, Zenon DEF Next, vars, gc

(***************************************************************************)
(* The theorems                                                            *)
(***************************************************************************)
LEMMA InvInit == Init => IndInv
<1> SUFFICES ASSUME Init PROVE IndInv
  OBVIOUS
<1>1. TypeOK
  BY TypeInit, Zenon
<1>2. Len(log) = 0 /\ boundary = 0 /\ MaxId \in Nat
  BY MaxIdAssumption, Zenon DEF Init
<1>3. LogInv /\ AckInv
  BY <1>2, MaxIdAssumption DEF Init, LogInv, UnfencedHistoryIntact, EpochsNeverDecrease,
     AckInv, AckedOnce, Ids
<1>4. StoreInv
  BY <1>2 DEF Init, StoreInv, Faithful, NoObject
<1>5. ASSUME NEW c \in Client PROVE ViewOK(c) /\ ControlOK(c) /\ ReadOK(c)
  <2>1. /\ pc[c] = "down" /\ op[c].kind = "none" /\ view[c].id = 0 /\ epoch[c] = 0
        /\ view[c].val = InitialVal
    BY Zenon DEF Init, NoObject, NoOp
  <2>2. ViewOK(c)
    BY <1>2, <2>1 DEF ViewOK, InitialVal
  <2>3. ControlOK(c)
    BY <2>1 DEF ControlOK, Reading, Claims
  <2> QED
    BY <2>1, <2>2, <2>3, Zenon DEF ReadOK, Reading
<1>6. WriteInv /\ GcInv /\ EpochHeldOnce
  BY Zenon DEF Init, WriteInv, GcInv, EpochHeldOnce
<1> QED
  BY <1>1, <1>3, <1>4, <1>5, <1>6, Zenon DEF IndInv, ClientInv

LEMMA InvNext == IndInv /\ [Next]_vars => IndInv'
<1> SUFFICES ASSUME IndInv, [Next]_vars PROVE IndInv'
  OBVIOUS
<1>1. TypeOK'
  BY TypeNext, Zenon DEF IndInv
<1>2. ClientInv'
  BY <1>1, ViewStep, ControlStep, ReadingStep DEF ClientInv
<1> QED
  BY <1>1, <1>2, LogStep, StoreStep, WriteInvStep, AckStep, GcStep, EpochStep, Zenon
     DEF IndInv

\* The inductive invariant holds in every reachable state.
THEOREM Invariance == Spec => []IndInv
<1>1. Init => IndInv
  BY InvInit
<1>2. IndInv /\ [Next]_vars => IndInv'
  BY InvNext
<1> QED
  BY <1>1, <1>2, PTL DEF Spec

\* Every variable keeps its type.
THEOREM TypeCorrect == Spec => []TypeOK
<1>1. IndInv => TypeOK
  BY Zenon DEF IndInv
<1> QED
  BY <1>1, Invariance, PTL

\* A version id is acknowledged to at most one writer, however many clients
\* write, whatever collectors delete, and after any crashes.
THEOREM AtMostOneWriterPerVersion == Spec => []AckedOnce
<1>1. IndInv => AckedOnce
  BY DEF IndInv, AckInv
<1> QED
  BY <1>1, Invariance, PTL

\* Above the boundary no version is lost or changed.
THEOREM LiveHistory == Spec => []UnfencedHistoryIntact
<1>1. IndInv => UnfencedHistoryIntact
  BY Zenon DEF IndInv, LogInv
<1> QED
  BY <1>1, Invariance, PTL

\* Fencing: epochs never decrease along the versions.
THEOREM EpochsMonotonic == Spec => []EpochsNeverDecrease
<1>1. IndInv => EpochsNeverDecrease
  BY DEF IndInv, LogInv
<1> QED
  BY <1>1, Invariance, PTL

\* Fencing: an epoch has at most one holder.
THEOREM OneHolderPerEpoch == Spec => []EpochHeldOnce
<1>1. IndInv => EpochHeldOnce
  BY Zenon DEF IndInv
<1> QED
  BY <1>1, Invariance, PTL

\* Fencing: a client whose epoch was superseded adds no version.
THEOREM SupersededStop == Spec => []SupersededNeverWrites
<1>1. IndInv => SupersededNeverWrites
  <2> SUFFICES ASSUME IndInv, NEW c \in Client, pc[c] = "written",
                      hand[c].id > boundary, epoch[c] > 0,
                      NEW i \in 1 .. hand[c].id
               PROVE  log[i].epoch <= epoch[c]
    BY Zenon DEF SupersededNeverWrites
  <2>1. TypeOK /\ LogInv /\ Len(log) \in Nat /\ boundary \in Nat /\ hand[c].id \in Nat
    BY ClientTypes, LogFacts, Zenon DEF IndInv
  <2>2. /\ Faithful(hand[c])
        /\ op[c].kind \notin Claims => hand[c].val.epoch = view[c].val.epoch
    BY Zenon DEF IndInv, WriteInv
  <2>3. op[c].kind \notin Claims /\ view[c].val.epoch = epoch[c]
    BY DEF IndInv, ClientInv, ControlOK
  <2>4. hand[c].id \in 1 .. Len(log) /\ hand[c].val = log[hand[c].id]
    BY <2>1, <2>2 DEF Faithful
  <2>5. log[i].epoch <= log[hand[c].id].epoch
    BY <2>1, <2>4 DEF LogInv, EpochsNeverDecrease
  <2> QED
    BY <2>2, <2>3, <2>4, <2>5, Zenon
<1> QED
  BY <1>1, Invariance, PTL

\* check_epoch never panics and refresh never finds the object gone.
THEOREM NoPanic == Spec => []NeverBroken
<1>1. IndInv => NeverBroken
  BY DEF IndInv, ClientInv, ControlOK, NeverBroken
<1> QED
  BY <1>1, Invariance, PTL

\* A read returns a version at least as new as the newest at its start.
THEOREM FreshReads == Spec => []ReadIsFresh
<1>1. IndInv => ReadIsFresh
  <2> SUFFICES ASSUME IndInv, NEW c \in Client, pc[c] = "check",
                      AboveBoundary(StoreOf[c], hand[c].id)
               PROVE  hand[c].id >= floor[c]
    BY Zenon DEF ReadIsFresh
  <2>1. hand[c].id > boundary
    BY Zenon DEF AboveBoundary
  <2> QED
    BY <2>1, Zenon DEF IndInv, ClientInv, ReadOK
<1> QED
  BY <1>1, Invariance, PTL

\* What a step does to the version a client has in memory.
LEMMA ViewChanges ==
  ASSUME IndInv, [Next]_vars, NEW c \in Client
  PROVE  pc'[c] # "down" => view'[c].id >= view[c].id
<1>1. TypeOK /\ view[c].id \in Nat /\ view \in [Client -> Objects]
  BY ClientTypes, Zenon DEF IndInv, TypeOK
<1>2. CASE ReadAccepted(c)
  BY <1>1, <1>2, Checked, Zenon DEF ReadAccepted
<1>3. CASE WriteAccepted(c)
  BY <1>1, <1>3, Checked, Zenon DEF WriteAccepted
<1>4. ClientNext(c) => ReadAccepted(c) \/ WriteAccepted(c) \/ view' = view
  BY DEF ClientNext, ReadStep, WriteStep, Load, RefreshView, StartMutation,
     ProbeMissing, ProbeFound, ListFound, ListEmpty, GetMissing, GetFound,
     ReadRejected, GiveUp, PutCreates, PutConflicts, WriteRejected
<1> QED
  BY <1>1, <1>2, <1>3, <1>4, Frame DEF Same, Down

\* A running client never goes back to an older version.
THEOREM ViewsMoveForward == Spec => ViewNeverMovesBack
<1>1. IndInv /\ [Next]_vars =>
        [\A c \in Client : pc'[c] # "down" => view'[c].id >= view[c].id]_vars
  BY ViewChanges, Zenon
<1> QED
  BY <1>1, Invariance, PTL DEF Spec, ViewNeverMovesBack

(***************************************************************************)
(* Checkpointed files survive one collector                                *)
(***************************************************************************)
\* A mutation pins nothing but the version it writes.
LEMMA DirtyPins ==
  ASSUME IndInv, NEW c \in Client
  PROVE  \A r \in Dirty(c).refs : r = view[c].id + 1 \/ r \in view[c].val.refs
<1> DEFINE v == view[c].val
           kind == op[c].kind
<1>1. v \in Vals
  BY DEF IndInv, TypeOK, Objects
<1>2. CASE kind = "create"
  BY <1>2, Zenon DEF Dirty, InitialVal
<1>3. CASE kind \in Claims
  BY <1>1, <1>3, Zenon DEF Dirty, Vals, Claims
<1>4. CASE kind = "checkpoint"
  BY <1>1, <1>4, Zenon DEF Dirty, Vals
<1>5. CASE kind = "release"
  BY <1>1, <1>5, Zenon DEF Dirty, Vals
<1>6. CASE kind \in {"none", "load", "update", "refresh"}
  BY <1>1, <1>6, Zenon DEF Dirty
<1> QED
  BY <1>2, <1>3, <1>4, <1>5, <1>6, Zenon DEF IndInv, TypeOK, Claims, Ops

\* The version a write appends pins files the version before it pins, or itself.
LEMMA AppendedPins ==
  ASSUME IndInv, NEW c \in Client, PutCreates(c), view[c].id = Len(log)
  PROVE  \A r \in Dirty(c).refs :
           r = Len(log) + 1 \/ (Len(log) > 0 /\ r \in log[Len(log)].refs)
<1>1. view[c].val = IF view[c].id = 0 THEN InitialVal ELSE log[view[c].id]
  BY Zenon DEF IndInv, ClientInv, ViewOK
<1>2. Len(log) \in Nat
  BY DEF IndInv, TypeOK
<1> QED
  BY <1>1, <1>2, DirtyPins DEF InitialVal

\* A collector's step leaves the versions alone; the others leave it alone or
\* stop it.
LEMMA CollectorFrame ==
  ASSUME IndInv, [Next]_vars, NEW g \in Gc, OneCollector
  PROVE  \/ GcNext(g) /\ log' = log
         \/ phase'[g] = "idle" /\ boundary' = boundary
         \/ /\ phase'[g] = phase[g] /\ last'[g] = last[g] /\ old'[g] = old[g]
            /\ boundary' = boundary
<1>1. ASSUME NEW c \in Client, ClientNext(c) PROVE UNCHANGED <<gc, boundary>>
  <2>1. CASE Load(c) \/ RefreshView(c) \/ StartMutation(c)
    BY <2>1, Zenon DEF Load, RefreshView, StartMutation, store
  <2>2. CASE ReadStep(c)
    BY <2>2, Zenon DEF ReadStep, ProbeMissing, ProbeFound, ListFound, ListEmpty,
       GetMissing, GetFound, ReadAccepted, ReadRejected, store
  <2>3. CASE WriteStep(c)
    BY <2>3, Zenon DEF WriteStep, GiveUp, PutCreates, PutConflicts, WriteAccepted,
       WriteRejected, store
  <2> QED
    BY <1>1, <2>1, <2>2, <2>3, Zenon DEF ClientNext
<1>2. ASSUME NEW h \in Gc, GcNext(h) PROVE h = g /\ log' = log
  BY <1>2, Zenon DEF OneCollector, GcNext, GcList, GcRead, GcFinish, GcCovered,
     GcAdvance, GcPut, GcPutFails, GcReread, GcDelete, history
<1>3. ASSUME NEW s \in Mortal, Crash(s)
      PROVE  /\ boundary' = boundary
             /\ \/ phase'[g] = "idle"
                \/ phase'[g] = phase[g] /\ last'[g] = last[g] /\ old'[g] = old[g]
  BY <1>3, Zenon DEF Crash
<1> QED
  BY <1>1, <1>2, <1>3, Zenon DEF Next, vars, gc

\* Creating a version keeps the pinned files and what collectors rely on.
LEMMA CreateKeepsPins ==
  ASSUME IndInv, PinInv, NEW c \in Client, PutCreates(c)
  PROVE  PinInv'
<1>1. /\ TypeOK /\ LogInv /\ Len(log) \in Nat /\ boundary \in Nat /\ log \in Seq(Vals)
      /\ files \in [Ids -> Vals \cup {Absent}]
  BY LogFacts, Zenon DEF IndInv, TypeOK
<1>2. /\ files[view[c].id + 1] = Absent
      /\ files' = [files EXCEPT ![view[c].id + 1] = Dirty(c)]
      /\ boundary' = boundary /\ phase' = phase /\ last' = last /\ old' = old
  BY Zenon DEF PutCreates, gc
<1>3. view[c].id + 1 \in Ids /\ Dirty(c) \in Vals /\ view[c].id \in Nat
  BY <1>1, CreateCases DEF TypeOK, Objects
<1>4. /\ PinsOnlyReleased
      /\ \A j \in 1 .. Len(log) : \A r \in log[j].refs : r \in Ids
  BY <1>1, LogFacts, Zenon DEF PinInv, Vals
<1>5. \A r \in Ids : files[r] # Absent => files'[r] = files[r]
  BY <1>1, <1>2, <1>3, Zenon
<1>6. \A r \in Ids : Len(log) > 0 /\ r \in log[Len(log)].refs =>
        r <= Len(log) /\ files'[r] = log[r]
  <2> SUFFICES ASSUME NEW r \in Ids, Len(log) > 0, r \in log[Len(log)].refs
               PROVE  r <= Len(log) /\ files'[r] = log[r]
    BY Zenon
  <2>1. files[r] = log[r]
    BY Zenon DEF PinInv, PinnedFilesSurvive
  <2>2. r <= Len(log) /\ r \in 1 .. Len(log)
    BY <1>1, <1>4 DEF PinsOnlyReleased, Ids
  <2>3. files[r] # Absent
    BY <1>1, <2>1, <2>2, LogFacts, ConstantTypes, Zenon
  <2> QED
    BY <1>5, <2>1, <2>2, <2>3, Zenon
<1>7. CASE log' = log
  <2>1. PinsOnlyReleased' /\ \A g \in Gc : CollectsUnpinned(g)'
    BY <1>2, <1>7, Zenon DEF PinInv, PinsOnlyReleased, CollectsUnpinned
  <2>2. PinnedFilesSurvive'
    BY <1>1, <1>4, <1>6, <1>7 DEF PinnedFilesSurvive
  <2> QED
    BY <2>1, <2>2, Zenon DEF PinInv
<1>8. CASE view[c].id = Len(log) /\ log' = Append(log, Dirty(c))
  <2> DEFINE n == Len(log)
  <2>1. /\ Len(log') = n + 1 /\ log'[n + 1] = Dirty(c)
        /\ \A i \in 1 .. n : log'[i] = log[i]
    BY <1>1, <1>3, <1>8
  <2>2. \A r \in Dirty(c).refs :
          r \in Ids /\ (r = n + 1 \/ (n > 0 /\ r \in log[n].refs))
    BY <1>3, <1>8, AppendedPins, Zenon DEF Vals
  <2>3. PinsOnlyReleased'
    <3> SUFFICES ASSUME NEW j \in 1 .. n + 1, NEW r \in log'[j].refs
                 PROVE  r <= j /\ \A i \in 1 .. j : r <= i => r \in log'[i].refs
      BY <2>1, Zenon DEF PinsOnlyReleased
    <3>1. CASE j \in 1 .. n
      <4>1. r \in log[j].refs
        BY <2>1, <3>1, Zenon
      <4>2. r <= j /\ \A i \in 1 .. j : r <= i => r \in log[i].refs
        BY <1>4, <3>1, <4>1, Zenon DEF PinsOnlyReleased
      <4>3. \A i \in 1 .. j : i \in 1 .. n
        BY <1>1, <3>1
      <4> QED
        BY <2>1, <4>2, <4>3, Zenon
    <3>2. CASE j = n + 1 /\ r = n + 1
      <4>1. \A i \in 1 .. j : r <= i => i = j
        BY <1>1, <3>2
      <4> QED
        BY <1>1, <3>2, <4>1
    <3>3. CASE j = n + 1 /\ n > 0 /\ r \in log[n].refs
      <4>1. n \in 1 .. n
        BY <1>1, <3>3
      <4>2. r <= n /\ \A i \in 1 .. n : r <= i => r \in log[i].refs
        BY <1>4, <3>3, <4>1, Zenon DEF PinsOnlyReleased
      <4>3. r \in Int
        BY <1>4, <3>3, <4>1 DEF Ids
      <4>4. \A i \in 1 .. j : i \in 1 .. n \/ i = j
        BY <1>1, <3>3
      <4> QED
        BY <1>1, <2>1, <3>3, <4>2, <4>3, <4>4
    <3> QED
      BY <1>1, <2>1, <2>2, <3>1, <3>2, <3>3
  <2>4. PinnedFilesSurvive'
    <3> SUFFICES ASSUME NEW r \in Dirty(c).refs PROVE files'[r] = log'[r]
      BY <2>1, Zenon DEF PinnedFilesSurvive
    <3>1. CASE r = n + 1
      BY <1>1, <1>2, <1>3, <1>8, <2>1, <3>1, Zenon
    <3>2. CASE n > 0 /\ r \in log[n].refs
      <4>1. r \in 1 .. n /\ files'[r] = log[r]
        BY <1>1, <1>6, <2>2, <3>2 DEF Ids
      <4> QED
        BY <2>1, <4>1, Zenon
    <3> QED
      BY <2>2, <3>1, <3>2, Zenon
  <2>5. ASSUME NEW g \in Gc PROVE CollectsUnpinned(g)'
    <3>1. CollectsUnpinned(g) /\ \A i \in old[g] : i \in Ids /\ i \in Nat
      BY <1>1 DEF PinInv, TypeOK, Ids
    <3>2. phase[g] \in {"advance", "put", "reread", "delete"} =>
            \A i \in old[g] : i < n + 1 /\ i \notin Dirty(c).refs
      BY <1>1, <2>2, <3>1 DEF CollectsUnpinned
    <3> QED
      BY <1>2, <2>1, <3>1, <3>2, Zenon DEF CollectsUnpinned
  <2> QED
    BY <2>3, <2>4, <2>5, Zenon DEF PinInv
<1>9. \/ /\ view[c].id = Len(log) /\ view[c].id + 1 > boundary
         /\ log' = Append(log, Dirty(c))
      \/ /\ view[c].id + 1 <= Len(log) /\ view[c].id + 1 <= boundary
         /\ log' = log
  BY CreateCases, Zenon
<1> QED
  BY <1>7, <1>8, <1>9, Zenon

\* What the collector has chosen to delete is pinned by no version to come.
LEMMA CollectorKeepsPins ==
  ASSUME IndInv, PinInv, NEW g \in Gc, GcNext(g), log' = log
  PROVE  CollectsUnpinned(g)'
<1>1. /\ TypeOK /\ LogInv /\ Len(log) \in Nat /\ boundary \in Nat
      /\ DOMAIN phase = Gc /\ DOMAIN last = Gc /\ DOMAIN old = Gc
      /\ old[g] \subseteq Ids /\ last[g] \in Nat
  <2>1. TypeOK /\ LogInv
    BY DEF IndInv
  <2>2. Len(log) \in Nat /\ boundary \in Nat
    BY <2>1, LogFacts
  <2>3. /\ DOMAIN phase = Gc /\ DOMAIN last = Gc /\ DOMAIN old = Gc
        /\ old[g] \subseteq Ids /\ last[g] \in Nat
    BY <2>1 DEF TypeOK
  <2> QED BY <2>1, <2>2, <2>3
<1>2. CollectsUnpinned(g)
  BY Zenon DEF PinInv
<1>3. CASE GcList(g)
  <2>1. PICK n \in Ids : /\ IsLast(n) /\ last'[g] = n /\ phase'[g] = "read"
                         /\ boundary' = boundary
    BY <1>1, <1>3, Zenon DEF GcList, store
  <2>2. n > boundary
    <3>1. n \in Present /\ n <= Len(log) /\ Len(log) > 0
      BY <1>1, <2>1, LogFacts DEF IsLast, Ids
    <3>2. Len(log) > boundary /\ Len(log) <= n
      BY <1>1, <2>1, <3>1, LogFacts, Zenon DEF IsLast
    <3> QED
      BY <1>1, <3>2 DEF Ids
  <2> QED
    BY <2>1, <2>2, Zenon DEF CollectsUnpinned
<1>4. CASE GcRead(g)
  <2>1. /\ phase[g] = "read" /\ phase'[g] \in {"advance", "delete"}
        /\ \A i \in old'[g] : i \in old[g] /\ i \notin Get(last[g]).refs
    BY <1>1, <1>4, Zenon DEF GcRead
  <2>2. last[g] > boundary /\ last[g] \in 1 .. Len(log) /\ \A i \in old[g] : i < last[g]
    BY <1>1, <1>2, <2>1 DEF CollectsUnpinned, IndInv, GcInv
  <2>3. Get(last[g]) = log[last[g]]
    BY <1>1, <2>2, LogFacts, Zenon DEF Get
  <2>4. ASSUME NEW i \in old'[g] PROVE i < Len(log) /\ i \notin log[Len(log)].refs
    <3>1. i \in Nat /\ i < last[g] /\ i \notin log[last[g]].refs
      BY <1>1, <2>1, <2>2, <2>3 DEF Ids
    <3>2. last[g] \in 1 .. Len(log) /\ Len(log) \in 1 .. Len(log)
      BY <1>1, <2>2
    <3>3. i \in log[Len(log)].refs /\ i <= last[g] => i \in log[last[g]].refs
      BY <3>2, Zenon DEF PinInv, PinsOnlyReleased
    <3> QED
      BY <1>1, <3>1, <3>2, <3>3
  <2> QED
    BY <2>1, <2>4, Zenon DEF CollectsUnpinned
<1>5. CASE GcFinish(g)
  BY <1>1, <1>5, Zenon DEF GcFinish, CollectsUnpinned
<1>6. CASE \/ GcCovered(g) \/ GcAdvance(g) \/ GcPut(g) \/ GcPutFails(g) \/ GcReread(g)
           \/ \E i \in Ids : GcDelete(g, i)
  <2>1. /\ phase[g] \in {"advance", "put", "reread", "delete"}
        /\ phase'[g] \in {"advance", "put", "reread", "delete"}
        /\ old'[g] \subseteq old[g]
    BY <1>1, <1>6, Zenon DEF GcCovered, GcAdvance, GcPut, GcPutFails, GcReread, GcDelete
  <2> QED
    BY <1>2, <2>1, Zenon DEF CollectsUnpinned
<1> QED
  BY <1>3, <1>4, <1>5, <1>6, Zenon DEF GcNext

LEMMA PinStep ==
  ASSUME IndInv, PinInv, OneCollector, [Next]_vars
  PROVE  PinInv'
<1>1. ASSUME NEW c \in Client, PutCreates(c) PROVE PinInv'
  BY <1>1, CreateKeepsPins, Zenon
<1>2. ASSUME log' = log PROVE \A g \in Gc : CollectsUnpinned(g)'
  <2> SUFFICES ASSUME NEW g \in Gc PROVE CollectsUnpinned(g)'
    OBVIOUS
  <2>1. CollectsUnpinned(g)
    BY Zenon DEF PinInv
  <2> QED
    BY <1>2, <2>1, CollectorFrame, CollectorKeepsPins, Zenon DEF CollectsUnpinned
<1>3. ASSUME log' = log PROVE PinsOnlyReleased'
  BY <1>3, Zenon DEF PinInv, PinsOnlyReleased
<1>4. ASSUME UNCHANGED <<files, log>> PROVE PinInv'
  BY <1>2, <1>3, <1>4, Zenon DEF PinInv, PinnedFilesSurvive
<1>5. ASSUME NEW g \in Gc, NEW i \in Ids, GcDelete(g, i) PROVE PinInv'
  <2>1. /\ phase[g] = "delete" /\ i \in old[g] /\ log' = log
        /\ files' = [files EXCEPT ![i] = Absent]
    BY <1>5, Zenon DEF GcDelete, history
  <2>2. i \notin log[Len(log)].refs /\ PinnedFilesSurvive
    BY <2>1, Zenon DEF PinInv, CollectsUnpinned
  <2>3. \A r : r # i => files'[r] = files[r]
    BY <2>1 DEF IndInv, TypeOK
  <2>4. PinnedFilesSurvive'
    BY <2>1, <2>2, <2>3, Zenon DEF PinnedFilesSurvive
  <2> QED
    BY <1>2, <1>3, <2>1, <2>4, Zenon DEF PinInv
<1>6. ASSUME NEW g \in Gc, GcPut(g) PROVE UNCHANGED <<files, log>>
  BY <1>6 DEF GcPut, history
<1> QED
  BY <1>1, <1>4, <1>5, <1>6, Quiet, Zenon

\* With one collector, whatever it overlaps with and however often its process
\* crashes, the files pinned by checkpoints of the latest manifest are intact.
THEOREM PinnedFilesKept == ASSUME OneCollector PROVE Spec => []PinnedFilesSurvive
<1>1. Init => PinInv
  BY DEF Init, PinInv, PinsOnlyReleased, PinnedFilesSurvive, CollectsUnpinned
<1>2. IndInv /\ PinInv /\ [Next]_vars => PinInv'
  BY PinStep
<1>3. PinInv => PinnedFilesSurvive
  BY Zenon DEF PinInv
<1> QED
  BY <1>1, <1>2, <1>3, Invariance, PTL DEF Spec

(***************************************************************************)
(* SequencedStorage implements VersionedLog.                               *)
(***************************************************************************)
acked == {i \in Ids : acks[i] > 0}

LEMMA AbstractInit == Init => Abstract!Init
  BY DEF Init, Abstract!Init, Abstract!NoVersion, NoObject

\* A file created at the end of the log publishes a version.
LEMMA CreatePublishes ==
  ASSUME IndInv, NEW c \in Client, PutCreates(c)
  PROVE  Abstract!Publish(c) \/ UNCHANGED Abstract!vars
<1>1. /\ view' = view /\ epoch' = epoch /\ acks' = acks /\ Writing(c)
      /\ pc[c] = "write"
  BY Zenon DEF PutCreates, Writing
<1>2. CASE log' = log
  BY <1>1, <1>2, Zenon DEF Abstract!vars
<1>3. CASE view[c].id = Len(log) /\ log' = Append(log, Dirty(c))
  <2>1. /\ Dirty(c) \in Vals /\ Dirty(c).epoch >= view[c].val.epoch
        /\ op[c].kind \notin Claims => Dirty(c).epoch = view[c].val.epoch
    BY <1>1, CreateCases, DirtyEpoch, Zenon
  <2>2. epoch[c] > 0 => op[c].kind \notin Claims /\ view[c].val.epoch = epoch[c]
    BY <1>1 DEF IndInv, ClientInv, ControlOK
  <2> QED
    BY <1>1, <1>3, <2>1, <2>2, Zenon DEF Abstract!Publish
<1> QED
  BY <1>2, <1>3, CreateCases, Zenon

\* The accepted check of a write confirms it.
LEMMA AcceptConfirms ==
  ASSUME IndInv, NEW c \in Client, WriteAccepted(c)
  PROVE  Abstract!Confirm(c)
<1>1. TypeOK
  BY Zenon DEF IndInv
<1>2. /\ hand[c].id > boundary /\ hand[c].id \in Ids /\ hand[c].id > 0
      /\ hand[c].id <= Len(log) /\ hand[c].val = log[hand[c].id]
      /\ pc[c] = "written"
  BY Checked, Zenon DEF WriteAccepted
<1>3. /\ hand[c].id = view[c].id + 1 /\ acks[hand[c].id] = 0
      /\ op[c].kind \in Claims => /\ hand[c].val.epoch > view[c].val.epoch
                                  /\ \A d \in Client \ {c} : epoch[d] # hand[c].val.epoch
  BY <1>2, Zenon DEF IndInv, WriteInv
<1>4. /\ view' = [view EXCEPT ![c] = hand[c]] /\ log' = log
      /\ acks' = [acks EXCEPT ![hand[c].id] = acks[hand[c].id] + 1]
      /\ epoch' = [epoch EXCEPT ![c] = IF op[c].kind \in Claims
                                       THEN hand[c].val.epoch ELSE epoch[c]]
  BY Zenon DEF WriteAccepted
<1>5. /\ acks \in [Ids -> Nat] /\ epoch \in [Client -> Epochs]
      /\ hand[c].id \in Nat /\ view[c].id \in Nat /\ Len(log) \in Nat
      /\ hand[c].val.epoch \in Nat /\ view[c].val.epoch \in Nat
      /\ hand[c] = [id |-> hand[c].id, val |-> hand[c].val]
  BY <1>1, ClientTypes, Zenon DEF TypeOK, Objects
<1>6. hand[c] = Abstract!Version(view[c].id + 1)
  BY <1>2, <1>3, <1>5, Zenon DEF Abstract!Version
<1>7. acked' = acked \cup {view[c].id + 1} /\ view[c].id + 1 \notin acked
  BY <1>2, <1>3, <1>4, <1>5 DEF acked
<1>8. \/ epoch' = epoch
      \/ /\ epoch[c] = 0
         /\ \A d \in Client : epoch[d] # log[view[c].id + 1].epoch
         /\ epoch' = [epoch EXCEPT ![c] = log[view[c].id + 1].epoch]
  <2>1. CASE op[c].kind \in Claims
    <3>1. epoch[c] = 0
      BY <2>1, Zenon DEF IndInv, ClientInv, ControlOK
    <3>2. hand[c].val.epoch # 0
      BY <1>3, <1>5, <2>1
    <3> QED
      BY <1>2, <1>3, <1>4, <2>1, <3>1, <3>2, Zenon
  <2>2. CASE op[c].kind \notin Claims
    BY <1>4, <1>5, <2>2, Zenon
  <2> QED
    BY <2>1, <2>2, Zenon
<1>9. view[c].id + 1 \in 1 .. Len(log)
  BY <1>2, <1>3, <1>5
<1> QED
  BY <1>4, <1>6, <1>7, <1>8, <1>9, Zenon DEF Abstract!Confirm, acked

\* The accepted check of a read moves the client forward.
LEMMA ReadObserves ==
  ASSUME IndInv, NEW c \in Client, ReadAccepted(c)
  PROVE  Abstract!Observe(c)
<1>1. /\ hand[c].id > 0 /\ hand[c].id <= Len(log) /\ hand[c].val = log[hand[c].id]
      /\ view[c].id <= hand[c].id
  BY Checked, Zenon DEF ReadAccepted
<1>2. /\ view' = [view EXCEPT ![c] = hand[c]]
      /\ log' = log /\ epoch' = epoch /\ acks' = acks
  BY Zenon DEF ReadAccepted
<1>3. /\ hand[c].id \in Nat /\ view[c].id \in Nat /\ Len(log) \in Nat
      /\ hand[c] = [id |-> hand[c].id, val |-> hand[c].val]
  BY ClientTypes, Zenon DEF IndInv, Objects
<1>4. hand[c] = Abstract!Version(hand[c].id)
  BY <1>1, <1>3, Zenon DEF Abstract!Version
<1>5. hand[c].id \in 1 .. Len(log) /\ hand[c].id >= view[c].id
  BY <1>1, <1>3
<1> QED
  BY <1>2, <1>4, <1>5, Zenon DEF Abstract!Observe

LEMMA AbstractStep == IndInv /\ [Next]_vars => [Abstract!Next]_(Abstract!vars)
<1> SUFFICES ASSUME IndInv, [Next]_vars
             PROVE  Abstract!Next \/ UNCHANGED Abstract!vars
  BY Zenon
<1>1. ASSUME NEW c \in Client, ClientNext(c)
      PROVE  \/ PutCreates(c) \/ WriteAccepted(c) \/ ReadAccepted(c)
             \/ UNCHANGED <<log, view, epoch, acks>>
  <2>1. CASE Load(c) \/ RefreshView(c) \/ StartMutation(c)
    BY <2>1, Zenon DEF Load, RefreshView, StartMutation, history
  <2>2. CASE ReadStep(c)
    BY <2>2, Zenon DEF ReadStep, ProbeMissing, ProbeFound, ListFound, ListEmpty,
       GetMissing, GetFound, ReadRejected, history
  <2>3. CASE WriteStep(c)
    BY <2>3, Zenon DEF WriteStep, GiveUp, PutConflicts, WriteRejected, history
  <2> QED
    BY <1>1, <2>1, <2>2, <2>3, Zenon DEF ClientNext
<1>2. ASSUME NEW g \in Gc, GcNext(g) PROVE UNCHANGED <<log, view, epoch, acks>>
  BY <1>2, Zenon DEF GcNext, GcList, GcRead, GcFinish, GcCovered, GcAdvance, GcPut,
     GcPutFails, GcReread, GcDelete, client, history
<1>3. ASSUME NEW s \in Mortal, Crash(s) PROVE Abstract!Next
  <2> DEFINE S == {c \in Client : StoreOf[c] = s}
  <2>1. /\ view' = [c \in Client |-> IF c \in S THEN NoObject ELSE view[c]]
        /\ epoch' = [c \in Client |-> IF c \in S THEN 0 ELSE epoch[c]]
        /\ log' = log /\ acks' = acks
    BY <1>3, Zenon DEF Crash
  <2>2. Abstract!Restart(S)
    BY <2>1, Zenon DEF Abstract!Restart, Abstract!NoVersion, NoObject
  <2> QED
    BY <2>2, Zenon DEF Abstract!Next
<1>4. UNCHANGED <<log, view, epoch, acks>> => UNCHANGED Abstract!vars
  BY DEF Abstract!vars
<1> QED
  BY <1>1, <1>2, <1>3, <1>4, CreatePublishes, AcceptConfirms, ReadObserves, Zenon
     DEF Next, vars, Abstract!Next

\* Every behaviour of the files, caches, boundary and collectors is, for the
\* clients, a behaviour of the log: compare-and-set, fencing and forward reads.
THEOREM Refinement == Spec => ImplementsVersionedLog
<1>1. Init => Abstract!Init
  BY AbstractInit
<1>2. IndInv /\ [Next]_vars => [Abstract!Next]_(Abstract!vars)
  BY AbstractStep
<1> QED
  BY <1>1, <1>2, Invariance, PTL DEF Spec, ImplementsVersionedLog, Abstract!Spec

=============================================================================
