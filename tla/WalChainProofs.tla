--------------------------- MODULE WalChainProofs ---------------------------
(***************************************************************************)
(* Proofs about WalChain, for any number of writers, rows, passes and      *)
(* faults: the form of the state, the links of the appended rows, and      *)
(* which rows a repair can take out of the verification.                   *)
(***************************************************************************)
EXTENDS WalChain, NatMinMax, FiniteSetTheorems, TLAPS

\* Processes that follow the lock of appendWal.
Lockers == Procs \ {Old}

IsRow(r) ==
  /\ r = [op |-> r.op, payload |-> r.payload, prev |-> r.prev, hash |-> r.hash,
          canon |-> r.canon, exempt |-> r.exempt]
  /\ r.op \in Ops /\ r.payload \in {"written", "edited"}
  /\ r.canon \in {1, 2} /\ r.exempt \in BOOLEAN

TableInv ==
  /\ nextId \in Nat /\ nextId >= 1 /\ nextId <= MaxRows + 1
  /\ \A i \in Ids : i \in Nat /\ 1 <= i /\ i < nextId
  /\ \A i \in Ids : IsRow(wal[i])

ProcInv ==
  /\ pc \in [Procs -> {"idle", "locked", "read"}]
  /\ DOMAIN tip = Procs

\* The lock excludes, and while it is held the newest row, if appendWal wrote
\* it, is the row that was read.
LockInv ==
  /\ \A p, q \in Lockers : pc[p] # "idle" /\ pc[q] # "idle" => p = q
  /\ pc[Upgrade] # "idle" => check.pc = "audit"
  /\ \A p \in Lockers :
       (pc[p] = "read" /\ nextId - 1 \in Ids /\ wal[nextId - 1].canon = 2)
         => tip[p] = wal[nextId - 1].hash

IsCheck(c) ==
  c = [pc |-> c.pc, mode |-> c.mode, from |-> c.from, last |-> c.last,
       expected |-> c.expected, at |-> c.at, flagged |-> c.flagged,
       known |-> c.known, verdict |-> c.verdict]

\* What a repair pass knows of the row it is about to flag.
CheckInv ==
  /\ IsCheck(check)
  /\ check.pc \in {"idle", "scan", "look", "flag", "audit"}
  /\ check.mode \in Modes /\ check.verdict \in {"none", "valid", "broken"}
  /\ restart \in Nat /\ restart < nextId
  /\ check.flagged \subseteq 1 .. restart /\ Cardinality(check.flagged) <= MaxFlags
  /\ check.pc \in {"look", "flag", "audit"} => Cardinality(check.flagged) < MaxFlags
  /\ check.pc \in {"flag", "audit"} => check.at \in 1 .. restart
  /\ (check.pc = "flag" /\ check.at \in Ids)
       => wal[check.at].hash = <<"bogus", check.at>>

\* Rows of the old writer are known by op and version.
RowInv ==
  \A i \in Ids :
    (wal[i].op = "palace_mcp_write" /\ wal[i].canon = 1)
      => wal[i].hash = <<"bogus", i>>

IInv == /\ TableInv /\ ProcInv /\ LockInv /\ CheckInv /\ RowInv
        /\ Linked /\ RepairIsTargeted

-----------------------------------------------------------------------------
(* What the steps do to the table.                                         *)

SameRow(r, s) == r.op = s.op /\ r.prev = s.prev /\ r.hash = s.hash /\ r.canon = s.canon

\* A new row gets the next id and leaves the others alone.
LEMMA InsertKeeps ==
  ASSUME TableInv, NEW row, IsRow(row), Insert(row)
  PROVE  /\ TableInv' /\ nextId' = nextId + 1 /\ Ids' = Ids \cup {nextId}
         /\ nextId \notin Ids /\ wal'[nextId] = row
         /\ \A i \in Ids : wal'[i] = wal[i]
<1>1. nextId' = nextId + 1 /\ Ids' = Ids \cup {nextId} /\ nextId <= MaxRows
  BY DEF Insert, Ids
<1>2. nextId \notin Ids
  BY DEF TableInv
<1>3. wal'[nextId] = row /\ \A i \in Ids : wal'[i] = wal[i]
  BY <1>1, <1>2 DEF Insert, Ids
<1>4. TableInv'
  BY <1>1, <1>2, <1>3, WalAssumption DEF TableInv
<1> QED BY <1>1, <1>2, <1>3, <1>4

\* Rows that go leave the others alone.
LEMMA KeepKeeps ==
  ASSUME TableInv, NEW S \in SUBSET Ids, Keep(S), nextId' = nextId
  PROVE  TableInv' /\ Ids' = S /\ \A i \in S : wal'[i] = wal[i]
<1>1. Ids' = S /\ \A i \in S : wal'[i] = wal[i]
  BY DEF Keep, Ids
<1> QED BY <1>1 DEF TableInv

\* Where no row is added and no row changes its links, the links stay.
LEMMA ShrinkKeeps ==
  ASSUME TableInv, TableInv', nextId' = nextId, Ids' \subseteq Ids,
         \A i \in Ids' : SameRow(wal'[i], wal[i])
  PROVE  /\ Linked => Linked'
         /\ RowInv => RowInv'
<1>1. Linked => Linked'
  BY DEF Linked, SameRow
<1>2. RowInv => RowInv'
  BY DEF RowInv, SameRow
<1> QED BY <1>1, <1>2

\* The hash appendWal reads is that of the newest row.
LEMMA TipIsLast ==
  ASSUME TableInv, nextId - 1 \in Ids
  PROVE  TipHash = wal[nextId - 1].hash
<1>1. \A y \in Ids : nextId - 1 >= y
  BY DEF TableInv
<1>2. Max(Ids) \in Ids /\ \A y \in Ids : Max(Ids) >= y
  BY <1>1 DEF Max
<1>3. Max(Ids) = nextId - 1
  BY <1>1, <1>2 DEF TableInv
<1> QED BY <1>3 DEF TipHash

\* A row that is written by Row is a row.
LEMMA RowIsRow ==
  ASSUME NEW op \in Ops, NEW prev, NEW hash, NEW canon \in {1, 2}
  PROVE  LET r == Row(op, prev, hash, canon) IN
           IsRow(r) /\ r.op = op /\ r.prev = prev /\ r.hash = hash
             /\ r.canon = canon /\ ~r.exempt
BY DEF Row, IsRow

-----------------------------------------------------------------------------
(* The steps of the writers.                                               *)

\* Taking the lock, reading the tip and rolling back change no row.
LEMMA WriterSteps ==
  ASSUME IInv, NEW p \in Procs, Lock(p) \/ ReadTip(p) \/ Rollback(p)
  PROVE  IInv'
<1> USE WalAssumption DEF Lockers, Procs
<1>1. UNCHANGED <<wal, nextId, altered, restart>> /\ Ids' = Ids
  BY DEF Lock, ReadTip, Rollback, Ids
<1>2. TableInv' /\ RowInv' /\ Linked' /\ RepairIsTargeted'
  BY <1>1 DEF IInv, TableInv, RowInv, Linked, RepairIsTargeted
<1>3. ProcInv'
  BY DEF IInv, ProcInv, Lock, ReadTip, Rollback, Leaves
<1>4. CheckInv'
  <2>1. CASE UNCHANGED check
    BY <1>1, <2>1 DEF IInv, CheckInv, IsCheck
  <2>2. CASE check' = Idle
    <3>1. Cardinality({}) = 0
      BY FS_EmptySet
    <3> QED BY <1>1, <2>2, <3>1 DEF IInv, CheckInv, IsCheck, Idle, Modes
  <2> QED BY <2>1, <2>2 DEF Lock, ReadTip, Rollback
<1>5. LockInv'
  <2>1. CASE Lock(p)
    BY <1>1, <2>1 DEF IInv, LockInv, ProcInv, Lock, LockFree, Wants
  <2>2. CASE ReadTip(p)
    <3>1. nextId - 1 \in Ids => TipHash = wal[nextId - 1].hash
      BY TipIsLast DEF IInv
    <3> QED BY <1>1, <2>2, <3>1 DEF IInv, LockInv, ProcInv, ReadTip
  <2>3. CASE Rollback(p)
    BY <1>1, <2>3 DEF IInv, LockInv, ProcInv, Rollback, Leaves
  <2> QED BY <2>1, <2>2, <2>3
<1> QED BY <1>2, <1>3, <1>4, <1>5 DEF IInv

\* An insert by anyone: the facts about rows that do not depend on who it is.
LEMMA InsertSteps ==
  ASSUME IInv, NEW row, IsRow(row), Insert(row), ~row.exempt, restart' = restart,
         row.canon = 2 \/ row.op # "palace_mcp_write" \/ row.hash = <<"bogus", nextId>>,
         (row.canon = 2 /\ nextId - 1 \in Ids /\ wal[nextId - 1].canon = 2)
           => row.prev = wal[nextId - 1].hash
  PROVE  TableInv' /\ RowInv' /\ Linked' /\ RepairIsTargeted'
<1>1. /\ TableInv' /\ nextId' = nextId + 1 /\ Ids' = Ids \cup {nextId}
      /\ nextId \notin Ids /\ wal'[nextId] = row
      /\ \A i \in Ids : wal'[i] = wal[i]
  BY InsertKeeps DEF IInv
<1>2. RowInv'
  BY <1>1 DEF IInv, RowInv
<1>3. RepairIsTargeted'
  BY <1>1 DEF IInv, RepairIsTargeted
<1>4. \A i \in Ids : i \in Nat /\ i < nextId
  BY DEF IInv, TableInv
<1>5. Linked'
  <2> SUFFICES ASSUME NEW i \in Ids', i + 1 \in Ids', wal'[i].canon = 2,
                      wal'[i + 1].canon = 2
               PROVE  wal'[i + 1].prev = wal'[i].hash
    BY DEF Linked
  <2>1. CASE i + 1 = nextId
    BY <1>1, <1>4, <2>1 DEF IInv, TableInv
  <2>2. CASE i + 1 # nextId
    BY <1>1, <1>4, <2>2 DEF IInv, TableInv, Linked
  <2> QED BY <2>1, <2>2
<1> QED BY <1>1, <1>2, <1>3, <1>5

\* The insert of appendWal, which links to the newest row or to none.
LEMMA AppendStep ==
  ASSUME IInv, NEW p \in Procs, NEW op \in Ops \ {"workspace_genesis"}, Append(p, op)
  PROVE  IInv'
<1> DEFINE row == Row(op, tip[p], Hash(tip[p], op, "written"), 2)
<1> USE WalAssumption DEF Lockers, Procs
<1>1. IsRow(row) /\ row.prev = tip[p] /\ row.canon = 2 /\ ~row.exempt
  BY RowIsRow
<1>2. Insert(row) /\ restart' = restart /\ p \in Lockers /\ pc[p] = "read"
  BY DEF Append
<1>3. (nextId - 1 \in Ids /\ wal[nextId - 1].canon = 2) => row.prev = wal[nextId - 1].hash
  BY <1>1, <1>2 DEF IInv, LockInv
<1> HIDE DEF row
<1>4. TableInv' /\ RowInv' /\ Linked' /\ RepairIsTargeted'
  BY <1>1, <1>2, <1>3, InsertSteps
<1>5. ProcInv'
  BY DEF IInv, ProcInv, Append, Leaves
<1>6. LockInv'
  <2>1. \A q \in Lockers : pc'[q] = "idle"
    BY <1>2 DEF IInv, LockInv, ProcInv, Append, Leaves
  <2> QED BY <2>1 DEF LockInv
<1>7. CheckInv'
  <2>1. nextId' = nextId + 1 /\ \A i \in Ids : wal'[i] = wal[i]
    BY <1>1, <1>2, InsertKeeps DEF IInv
  <2>2. Ids' = Ids \cup {nextId} /\ nextId \in Nat
    BY <1>1, <1>2, InsertKeeps DEF IInv, TableInv
  <2>3. CASE p # Upgrade
    <3>1. check' = check
      BY <2>3 DEF Append
    <3>2. check.at \in 1 .. restart => check.at # nextId
      BY DEF IInv, CheckInv
    <3> QED BY <1>2, <2>1, <2>2, <3>1, <3>2 DEF IInv, CheckInv, IsCheck
  <2>4. CASE p = Upgrade
    <3>1. check' = Resumed /\ check.pc = "audit"
      BY <1>2, <2>4 DEF Append, IInv, LockInv
    <3>2. check.flagged \subseteq 1 .. restart /\ restart \in Nat
      BY DEF IInv, CheckInv
    <3>3. Cardinality(check.flagged) < MaxFlags /\ check.at \in 1 .. restart
      BY <3>1 DEF IInv, CheckInv
    <3>4. IsFiniteSet(check.flagged)
      <4>1. IsFiniteSet(1 .. restart)
        BY <3>2, FS_Interval
      <4> QED BY <3>2, <4>1, FS_Subset
    <3>5. Cardinality(check.flagged \cup {check.at}) <= MaxFlags
      <4>1. Cardinality(check.flagged) \in Nat
        BY <3>4, FS_CardinalityType
      <4>2. Cardinality(check.flagged \cup {check.at})
              \in {Cardinality(check.flagged), Cardinality(check.flagged) + 1}
        BY <3>4, FS_AddElement
      <4> QED BY <3>3, <4>1, <4>2
    <3>6. /\ check'.pc = "scan" /\ check'.flagged = check.flagged \cup {check.at}
          /\ check'.mode = check.mode /\ check'.verdict = check.verdict
          /\ IsCheck(check')
      BY <3>1 DEF IInv, CheckInv, IsCheck, Resumed
    <3>7. restart < nextId'
      BY <2>1, <2>2 DEF IInv, CheckInv
    <3> QED BY <1>2, <3>2, <3>3, <3>5, <3>6, <3>7 DEF IInv, CheckInv
  <2> QED BY <2>3, <2>4
<1> QED BY <1>4, <1>5, <1>6, <1>7 DEF IInv

-----------------------------------------------------------------------------
(* The steps of others.                                                    *)

\* A row that appendWal did not write enters the table: no process that holds
\* the lock has to have read it.
LEMMA ForeignInsert ==
  ASSUME IInv, NEW row, IsRow(row), Insert(row), UNCHANGED <<check, restart>>,
         row.canon = 1
  PROVE  /\ CheckInv'
         /\ \A p \in Lockers :
              (pc[p] = "read" /\ nextId' - 1 \in Ids' /\ wal'[nextId' - 1].canon = 2)
                => tip[p] = wal'[nextId' - 1].hash
<1>1. /\ nextId' = nextId + 1 /\ Ids' = Ids \cup {nextId}
      /\ wal'[nextId] = row /\ \A i \in Ids : wal'[i] = wal[i]
  BY InsertKeeps DEF IInv
<1>2. nextId \in Nat /\ restart \in Nat /\ restart < nextId
  BY DEF IInv, TableInv, CheckInv
<1>3. check.at \in 1 .. restart => check.at # nextId
  BY <1>2
<1>4. CheckInv'
  BY <1>1, <1>2, <1>3 DEF IInv, CheckInv, IsCheck
<1>5. nextId' - 1 = nextId
  BY <1>1, <1>2
<1> QED BY <1>1, <1>4, <1>5

\* The old writer and init keep the invariant.
LEMMA ForeignSteps ==
  ASSUME IInv, OldReads \/ OldWrites \/ WriteGenesis
  PROVE  IInv'
<1> USE WalAssumption DEF Lockers, Procs
<1>1. CASE OldReads
  <2>1. UNCHANGED <<wal, nextId, check, altered, restart>> /\ Ids' = Ids
    BY <1>1 DEF OldReads, Ids
  <2>2. TableInv' /\ RowInv' /\ Linked' /\ RepairIsTargeted' /\ CheckInv'
    BY <2>1 DEF IInv, TableInv, RowInv, Linked, RepairIsTargeted, CheckInv, IsCheck
  <2>3. ProcInv' /\ LockInv'
    BY <1>1, <2>1 DEF IInv, ProcInv, LockInv, OldReads
  <2> QED BY <2>2, <2>3 DEF IInv
<1>2. CASE OldWrites
  <2> DEFINE row == Row("palace_mcp_write", tip[Old], <<"bogus", nextId>>, 1)
  <2>1. IsRow(row) /\ row.canon = 1 /\ ~row.exempt /\ row.hash = <<"bogus", nextId>>
    BY RowIsRow DEF Ops
  <2>2. Insert(row) /\ UNCHANGED <<check, restart>>
    BY <1>2 DEF OldWrites
  <2> HIDE DEF row
  <2>3. TableInv' /\ RowInv' /\ Linked' /\ RepairIsTargeted'
    BY <2>1, <2>2, InsertSteps
  <2>4. ProcInv'
    BY <1>2 DEF IInv, ProcInv, OldWrites, Leaves
  <2>5. CheckInv'
        /\ \A p \in Lockers :
             (pc[p] = "read" /\ nextId' - 1 \in Ids' /\ wal'[nextId' - 1].canon = 2)
               => tip[p] = wal'[nextId' - 1].hash
    BY <2>1, <2>2, ForeignInsert
  <2>6. \A p \in Lockers : pc'[p] = pc[p] /\ tip'[p] = tip[p]
    BY <1>2 DEF IInv, ProcInv, OldWrites, Leaves
  <2>7. LockInv'
    BY <2>2, <2>5, <2>6 DEF IInv, LockInv
  <2> QED BY <2>3, <2>4, <2>5, <2>7 DEF IInv
<1>3. CASE WriteGenesis
  <2> DEFINE row == Row("workspace_genesis", Zeros, <<"genesis", nextId>>, 1)
  <2>1. IsRow(row) /\ row.canon = 1 /\ ~row.exempt /\ row.op = "workspace_genesis"
    BY RowIsRow DEF Ops
  <2>2. Insert(row) /\ UNCHANGED <<pc, tip, check, restart>>
    BY <1>3 DEF WriteGenesis
  <2> HIDE DEF row
  <2>3. TableInv' /\ RowInv' /\ Linked' /\ RepairIsTargeted'
    BY <2>1, <2>2, InsertSteps
  <2>4. ProcInv'
    BY <2>2 DEF IInv, ProcInv
  <2>5. CheckInv'
        /\ \A p \in Lockers :
             (pc[p] = "read" /\ nextId' - 1 \in Ids' /\ wal'[nextId' - 1].canon = 2)
               => tip[p] = wal'[nextId' - 1].hash
    BY <2>1, <2>2, ForeignInsert
  <2>6. LockInv'
    BY <2>2, <2>5 DEF IInv, LockInv
  <2> QED BY <2>3, <2>4, <2>5, <2>6 DEF IInv
<1> QED BY <1>1, <1>2, <1>3

\* Where rows only go or change in other fields, the invariant stays.
LEMMA RowsChange ==
  ASSUME IInv, TableInv', nextId' = nextId, Ids' \subseteq Ids,
         \A i \in Ids' : SameRow(wal'[i], wal[i]),
         \A i \in Ids' : wal'[i].exempt => i <= restart /\ wal[i].hash = <<"bogus", i>>,
         UNCHANGED <<pc, tip, restart>>, CheckInv', pc[Upgrade] # "idle" => check'.pc = "audit"
  PROVE  IInv'
<1>1. Linked' /\ RowInv'
  BY ShrinkKeeps DEF IInv
<1>2. RepairIsTargeted'
  BY DEF RepairIsTargeted, SameRow
<1>3. ProcInv' /\ LockInv'
  BY DEF IInv, ProcInv, LockInv, SameRow
<1> QED BY <1>1, <1>2, <1>3 DEF IInv

\* Retention, edits and removals keep the invariant.
LEMMA RowSteps ==
  ASSUME IInv, NEW i \in Ids, Retain(i) \/ Edit(i) \/ Remove(i)
  PROVE  IInv'
<1>1. UNCHANGED <<nextId, pc, tip, check, restart>>
  BY DEF Retain, Edit, Remove
<1>2. CASE Retain(i) \/ Remove(i)
  <2>1. PICK S \in SUBSET Ids : Keep(S)
    BY <1>2 DEF Retain, Remove
  <2>2. TableInv' /\ Ids' = S /\ \A j \in S : wal'[j] = wal[j]
    BY <1>1, <2>1, KeepKeeps DEF IInv
  <2>3. \A j \in Ids' : wal'[j].exempt => j <= restart /\ wal[j].hash = <<"bogus", j>>
    BY <2>2 DEF IInv, RepairIsTargeted
  <2>4. \A j \in Ids' : SameRow(wal'[j], wal[j])
    BY <2>2 DEF SameRow
  <2>5. CheckInv'
    BY <1>1, <2>2 DEF IInv, CheckInv, IsCheck
  <2>6. pc[Upgrade] # "idle" => check'.pc = "audit"
    BY <1>1 DEF IInv, LockInv
  <2> QED BY <1>1, <2>2, <2>3, <2>4, <2>5, <2>6, RowsChange
<1>3. CASE Edit(i)
  <2>1. Ids' = Ids /\ \A j \in Ids : j # i => wal'[j] = wal[j]
    BY <1>3 DEF Edit, Ids
  <2>2. wal'[i] = [wal[i] EXCEPT !.payload = "edited"]
    BY <1>3 DEF Edit, Ids
  <2>3. IsRow(wal[i])
    BY DEF IInv, TableInv
  <2>4. IsRow(wal'[i]) /\ SameRow(wal'[i], wal[i]) /\ wal'[i].exempt = wal[i].exempt
    BY <2>2, <2>3 DEF IsRow, SameRow
  <2>5. \A j \in Ids : /\ IsRow(wal'[j]) /\ SameRow(wal'[j], wal[j])
                        /\ wal'[j].exempt = wal[j].exempt
    BY <2>1, <2>4 DEF IInv, TableInv, SameRow
  <2>6. TableInv'
    BY <1>1, <2>1, <2>5 DEF IInv, TableInv
  <2>7. \A j \in Ids' : wal'[j].exempt => j <= restart /\ wal[j].hash = <<"bogus", j>>
    BY <2>1, <2>5 DEF IInv, RepairIsTargeted
  <2>8. CheckInv'
    BY <1>1, <2>1, <2>5 DEF IInv, CheckInv, IsCheck, SameRow
  <2>9. pc[Upgrade] # "idle" => check'.pc = "audit"
    BY <1>1 DEF IInv, LockInv
  <2> QED BY <1>1, <2>1, <2>5, <2>6, <2>7, <2>8, <2>9, RowsChange
<1> QED BY <1>2, <1>3

-----------------------------------------------------------------------------
(* The steps of a verification and of a repair pass.                       *)

\* A step that writes neither rows nor processes has to keep CheckInv only.
LEMMA CheckOnly ==
  ASSUME IInv, UNCHANGED <<wal, nextId, pc, tip>>, CheckInv', restart' >= restart,
         check.pc # "audit"
  PROVE  IInv'
<1>1. Ids' = Ids
  BY DEF Ids
<1>2. TableInv' /\ RowInv' /\ Linked' /\ ProcInv'
  BY <1>1 DEF IInv, TableInv, RowInv, Linked, ProcInv
<1>3. RepairIsTargeted'
  <2>1. restart \in Nat /\ restart' \in Nat /\ \A i \in Ids : i \in Nat
    BY DEF IInv, CheckInv, TableInv
  <2> QED BY <1>1, <2>1 DEF IInv, RepairIsTargeted
<1>4. LockInv'
  BY <1>1 DEF IInv, LockInv
<1> QED BY <1>2, <1>3, <1>4 DEF IInv

\* A pass starts, goes on by a batch, and looks at the row it stopped at.
LEMMA VerifySteps ==
  ASSUME IInv, (\E mode \in Modes : Start(mode)) \/ VerifyBatch \/ LookAtRow
  PROVE  IInv'
<1>1. UNCHANGED <<wal, nextId, pc, tip>> /\ Ids' = Ids
  BY DEF Start, VerifyBatch, LookAtRow, Ids
<1>2. nextId \in Nat /\ nextId >= 1 /\ restart \in Nat /\ restart < nextId
  BY DEF IInv, TableInv, CheckInv
<1>3. CASE \E mode \in Modes : Start(mode)
  <2>1. PICK mode \in Modes : Start(mode)
    BY <1>3
  <2>2. restart' \in Nat /\ restart' < nextId /\ restart' >= restart
    <3>1. restart' = (nextId - 1) \/ restart' = restart
      BY <2>1 DEF Start
    <3> QED BY <1>2, <3>1
  <2>3. /\ check'.pc = "scan" /\ check'.flagged = {} /\ check'.mode = mode
        /\ check'.verdict = "none" /\ IsCheck(check')
    BY <2>1 DEF Start, Idle, IsCheck
  <2>4. Cardinality({}) = 0
    BY FS_EmptySet
  <2>5. CheckInv'
    BY <1>1, <2>2, <2>3, <2>4, WalAssumption DEF CheckInv
  <2>6. check.pc # "audit"
    BY <2>1 DEF Start
  <2> QED BY <1>1, <2>2, <2>5, <2>6, CheckOnly
<1>4. CASE VerifyBatch
  <2>1. restart' = restart /\ check.pc = "scan"
    BY <1>4 DEF VerifyBatch
  <2>2. IsCheck(check)
    BY DEF IInv, CheckInv
  <2>3. /\ IsCheck(check') /\ check'.mode = check.mode
        /\ check'.flagged = check.flagged
        /\ check'.verdict \in {check.verdict, "valid", "broken"}
        /\ \/ check'.pc = "look" /\ Cardinality(check.flagged) < MaxFlags
           \/ check'.pc \in {"idle", "scan"}
    BY <1>4, <2>1, <2>2 DEF VerifyBatch, Ends, IsCheck
  <2>4. CheckInv'
    BY <1>1, <2>1, <2>3 DEF IInv, CheckInv
  <2> QED BY <1>1, <1>2, <2>1, <2>4, CheckOnly
<1>5. CASE LookAtRow
  <2>1. restart' = restart /\ check.pc = "look"
    BY <1>5 DEF LookAtRow
  <2>2. CASE IsStraggler(check.at)
    <3>1. check' = [check EXCEPT !.pc = "flag"]
      BY <1>5, <2>2 DEF LookAtRow
    <3>2. /\ check.at \in 1 .. restart
          /\ wal[check.at].hash = <<"bogus", check.at>>
      BY <1>2, <2>2 DEF IInv, TableInv, RowInv, IsStraggler
    <3>3. IsCheck(check)
      BY DEF IInv, CheckInv
    <3>4. /\ IsCheck(check') /\ check'.pc = "flag" /\ check'.at = check.at
          /\ check'.flagged = check.flagged /\ check'.mode = check.mode
          /\ check'.verdict = check.verdict
      BY <3>1, <3>3 DEF IsCheck
    <3>5. CheckInv'
      BY <1>1, <2>1, <3>2, <3>4 DEF IInv, CheckInv
    <3> QED BY <1>1, <1>2, <2>1, <3>5, CheckOnly
  <2>3. CASE ~IsStraggler(check.at)
    <3>1. Ends("broken", check.at)
      BY <1>5, <2>3 DEF LookAtRow
    <3>2. IsCheck(check)
      BY DEF IInv, CheckInv
    <3>3. /\ IsCheck(check') /\ check'.pc = "idle" /\ check'.verdict = "broken"
          /\ check'.flagged = check.flagged /\ check'.mode = check.mode
      BY <3>1, <3>2 DEF Ends, IsCheck
    <3>4. CheckInv'
      BY <1>1, <2>1, <3>3 DEF IInv, CheckInv
    <3> QED BY <1>1, <1>2, <2>1, <3>4, CheckOnly
  <2> QED BY <2>2, <2>3
<1> QED BY <1>3, <1>4, <1>5

\* The flag goes to the row the pass has looked at.
LEMMA FlagStep ==
  ASSUME IInv, FlagRow
  PROVE  IInv'
<1>1. UNCHANGED <<nextId, pc, tip, restart>> /\ check.pc = "flag"
  BY DEF FlagRow
<1>2. Ids' = Ids
  BY DEF FlagRow, Ids
<1>3. \A i \in Ids : wal'[i] = IF i = check.at THEN [wal[i] EXCEPT !.exempt = TRUE]
                                               ELSE wal[i]
  BY DEF FlagRow, Ids
<1>4. \A i \in Ids : IsRow(wal'[i]) /\ SameRow(wal'[i], wal[i])
  <2> SUFFICES ASSUME NEW i \in Ids
               PROVE  IsRow(wal'[i]) /\ SameRow(wal'[i], wal[i])
    OBVIOUS
  <2>1. IsRow(wal[i])
    BY DEF IInv, TableInv
  <2> QED BY <1>3, <2>1 DEF IsRow, SameRow
<1>5. TableInv'
  BY <1>1, <1>2, <1>4 DEF IInv, TableInv
<1>6. check.at \in 1 .. restart
  BY <1>1 DEF IInv, CheckInv
<1>7. \A i \in Ids' : wal'[i].exempt => i <= restart /\ wal[i].hash = <<"bogus", i>>
  <2> SUFFICES ASSUME NEW i \in Ids, wal'[i].exempt
               PROVE  i <= restart /\ wal[i].hash = <<"bogus", i>>
    BY <1>2
  <2>1. CASE i = check.at
    <3>1. restart \in Nat /\ wal[check.at].hash = <<"bogus", check.at>>
      BY <1>1, <2>1 DEF IInv, CheckInv
    <3> QED BY <1>6, <2>1, <3>1
  <2>2. CASE i # check.at
    BY <1>3, <2>2 DEF IInv, RepairIsTargeted
  <2> QED BY <2>1, <2>2
<1>8. /\ IsCheck(check') /\ check'.pc = "audit" /\ check'.at = check.at
      /\ check'.flagged = check.flagged /\ check'.mode = check.mode
      /\ check'.verdict = check.verdict
  BY DEF IInv, CheckInv, IsCheck, FlagRow
<1>9. CheckInv'
  BY <1>1, <1>6, <1>8 DEF IInv, CheckInv
<1> QED BY <1>1, <1>2, <1>4, <1>5, <1>7, <1>8, <1>9, RowsChange

-----------------------------------------------------------------------------
(* The theorems.                                                           *)

\* The chain that init has started satisfies the invariant.
THEOREM WalInit == Init => IInv
<1> SUFFICES ASSUME Init PROVE IInv
  OBVIOUS
<1>1. Ids = {1} /\ nextId = 2 /\ wal[1] = Row("workspace_genesis", Zeros, <<"genesis", 1>>, 1)
  BY DEF Init, Ids
<1>2. IsRow(wal[1]) /\ wal[1].op = "workspace_genesis" /\ ~wal[1].exempt
  BY <1>1, RowIsRow DEF Ops
<1>3. TableInv
  BY <1>1, <1>2, WalAssumption DEF TableInv
<1>4. RowInv /\ Linked /\ RepairIsTargeted
  BY <1>1, <1>2 DEF RowInv, Linked, RepairIsTargeted
<1>5. ProcInv /\ LockInv
  BY WalAssumption DEF Init, ProcInv, LockInv, Lockers, Procs
<1>6. CheckInv
  <2>1. Cardinality({}) = 0
    BY FS_EmptySet
  <2> QED BY <1>1, <2>1, WalAssumption DEF Init, Idle, CheckInv, IsCheck, Modes
<1> QED BY <1>3, <1>4, <1>5, <1>6 DEF IInv

\* Every step keeps the invariant.
THEOREM WalNext == IInv /\ [Next]_vars => IInv'
<1> SUFFICES ASSUME IInv, [Next]_vars PROVE IInv'
  OBVIOUS
<1>1. CASE Write
  BY <1>1, WriterSteps, AppendStep DEF Write
<1>2. CASE Disturb
  BY <1>2, ForeignSteps, RowSteps DEF Disturb
<1>3. CASE Check
  BY <1>3, VerifySteps, FlagStep DEF Check
<1>4. CASE UNCHANGED vars
  <2>1. Ids' = Ids
    BY <1>4 DEF Ids, vars
  <2> QED BY <1>4, <2>1 DEF vars, IInv, TableInv, ProcInv, LockInv, CheckInv, IsCheck,
             RowInv, Linked, RepairIsTargeted
<1> QED BY <1>1, <1>2, <1>3, <1>4 DEF Next

\* The inductive invariant holds in every reachable state.
THEOREM WalInvariant == Spec => []IInv
BY WalInit, WalNext, PTL DEF Spec

\* The table and the state of a pass keep their form.
THEOREM WalTypes == Spec => []TypeOK
<1>1. IInv => TypeOK
  <2> SUFFICES ASSUME IInv PROVE TypeOK
    OBVIOUS
  <2>1. Ids \subseteq 1 .. (nextId - 1) /\ nextId \in 1 .. (MaxRows + 1)
    BY WalAssumption DEF IInv, TableInv
  <2>2. \A i \in Ids : /\ wal[i].op \in Ops /\ wal[i].payload \in {"written", "edited"}
                        /\ wal[i].canon \in {1, 2} /\ wal[i].exempt \in BOOLEAN
    BY DEF IInv, TableInv, IsRow
  <2> QED BY <2>1, <2>2 DEF IInv, ProcInv, CheckInv, TypeOK
<1> QED BY <1>1, WalInvariant, PTL

\* Two rows that appendWal wrote one after the other are linked, whatever the
\* number of writers and however their transactions overlap (issue #71).
THEOREM ChainIsLinked == Spec => []Linked
<1>1. IInv => Linked
  BY DEF IInv
<1> QED BY <1>1, WalInvariant, PTL

\* Only rows of the old writer from before the restart are ever taken out of
\* the verification.
THEOREM RepairsAreTargeted == Spec => []RepairIsTargeted
<1>1. IInv => RepairIsTargeted
  BY DEF IInv
<1> QED BY <1>1, WalInvariant, PTL

-----------------------------------------------------------------------------
(* Hashes do not repeat.  The rows since the table was last found empty    *)
(* are kept in E, the removed ones too: a new row could otherwise get the  *)
(* hash of one that is gone.                                               *)

\* What appendWal hashes, and what the others write instead.
Seal(i, r) ==
  IF r.canon = 2 THEN r.hash = Hash(r.prev, r.op, "written") /\ r.op # "workspace_genesis"
                 ELSE r.hash \in {<<"bogus", i>>, <<"genesis", i>>}

\* The rows of the table are among those of E, and the newest of E is there.
EpochRows(E) ==
  /\ DOMAIN E \subseteq 1 .. (nextId - 1)
  /\ Ids \subseteq DOMAIN E /\ \A i \in Ids : SameRow(wal[i], E[i])
  /\ Ids # {} => \A i \in DOMAIN E : \E j \in Ids : i <= j

\* Every row has a hash of its own and links to an earlier one.
Sealed(E) ==
  /\ \A i \in DOMAIN E : Seal(i, E[i])
  /\ \A i, j \in DOMAIN E : E[i].hash = E[j].hash => i = j
  /\ \A i \in DOMAIN E : E[i].canon = 2 =>
       E[i].prev = Zeros \/ \E j \in DOMAIN E : j < i /\ E[i].prev = E[j].hash

\* No row links to the hash that the holder of the lock has read.
TipIsFree(E) ==
  \A p \in Lockers : pc[p] = "read" =>
    /\ tip[p] = Zeros \/ \E j \in DOMAIN E : tip[p] = E[j].hash
    /\ \A i \in DOMAIN E : E[i].canon = 2 => E[i].prev # tip[p]

EpochInv == \E E : EpochRows(E) /\ Sealed(E) /\ TipIsFree(E)

\* The tags of the hashes.
LEMMA HashesDiffer ==
  ASSUME NEW i, NEW r, Seal(i, r)
  PROVE  /\ r.hash # Zeros /\ r.hash # Undefined /\ Zeros # Undefined
         /\ \A j : j # i => r.hash # <<"bogus", j>> /\ r.hash # <<"genesis", j>>
BY DEF Seal, Hash, Zeros, Undefined

\* Greatest and least elements are where they should be.
LEMMA MaxIs ==
  ASSUME NEW n \in Nat, NEW S \in SUBSET (1 .. n), S # {}
  PROVE  Max(S) \in S /\ \A k \in S : k <= Max(S)
<1>1. PICK m \in S : \A k \in S : k <= m
  BY IntervalMax
<1>2. \A k \in S : m >= k
  BY <1>1
<1>3. Max(S) \in S /\ \A k \in S : Max(S) >= k
  BY <1>2 DEF Max
<1> QED BY <1>3

LEMMA MinIs ==
  ASSUME NEW S \in SUBSET Nat, S # {}
  PROVE  Min(S) \in S /\ \A k \in S : Min(S) <= k
<1>1. PICK m \in S : \A k \in S : m <= k
  BY NatMin
<1> QED BY <1>1 DEF Min

\* A new row, of a locker or of another.
LEMMA EpochInsert ==
  ASSUME IInv, TableInv', NEW E, EpochRows(E), Sealed(E), TipIsFree(E),
         NEW row, IsRow(row), Insert(row), Seal(nextId, row),
         NEW p \in Procs,
         \A q \in Lockers : pc'[q] = "read" => pc[q] = "read" /\ tip'[q] = tip[q],
         \/ row.canon = 1
         \/ /\ row.canon = 2 /\ p \in Lockers /\ pc[p] = "read" /\ row.prev = tip[p]
            /\ \A q \in Lockers : pc'[q] = "idle"
  PROVE  EpochInv'
<1>1. PICK n : n = nextId
  OBVIOUS
<1>2. n \in Nat /\ n \notin DOMAIN E /\ \A i \in DOMAIN E : i \in Nat /\ i < n
  BY <1>1 DEF IInv, TableInv, EpochRows
<1>3. PICK F : F = [i \in DOMAIN E \cup {n} |-> IF i = n THEN row ELSE E[i]]
  OBVIOUS
<1>4. /\ DOMAIN F = DOMAIN E \cup {n} /\ F[n] = row
      /\ \A i \in DOMAIN E : F[i] = E[i] /\ i # n
  BY <1>2, <1>3
<1>5. /\ nextId' = n + 1 /\ Ids' = Ids \cup {n} /\ wal'[n] = row
      /\ \A i \in Ids : wal'[i] = wal[i]
  BY <1>1, InsertKeeps DEF IInv
<1>6. EpochRows(F)'
  <2>1. DOMAIN F \subseteq 1 .. (nextId' - 1)
    <3>1. n \in 1 .. n /\ \A i \in DOMAIN E : i \in 1 .. n
      BY <1>1, <1>2 DEF EpochRows, IInv, TableInv
    <3>2. nextId' - 1 = n
      BY <1>2, <1>5
    <3> QED BY <1>4, <3>1, <3>2
  <2>2. \A i \in Ids' : i \in DOMAIN F /\ SameRow(wal'[i], F[i])
    BY <1>4, <1>5 DEF EpochRows, SameRow
  <2>3. \A i \in DOMAIN F : i <= n
    BY <1>2, <1>4
  <2> QED BY <1>5, <2>1, <2>2, <2>3 DEF EpochRows
<1>7. \A i \in DOMAIN E : E[i].hash # row.hash
  <2> SUFFICES ASSUME NEW i \in DOMAIN E, E[i].hash = row.hash PROVE FALSE
    OBVIOUS
  <2>1. Seal(i, E[i]) /\ i # n /\ Seal(n, row)
    BY <1>1, <1>2 DEF Sealed
  <2>2. CASE row.canon = 1
    <3>1. row.hash \in {<<"bogus", n>>, <<"genesis", n>>}
      BY <2>1, <2>2 DEF Seal
    <3>2. E[i].hash # <<"bogus", n>> /\ E[i].hash # <<"genesis", n>>
      BY <2>1, HashesDiffer
    <3> QED BY <3>1, <3>2
  <2>3. CASE row.canon = 2
    <3>1. row.hash = Hash(tip[p], row.op, "written") /\ pc[p] = "read" /\ p \in Lockers
      BY <2>1, <2>3 DEF Seal
    <3>2. E[i].canon = 2
      BY <2>1, <3>1 DEF Seal, Hash
    <3>3. E[i].prev = tip[p]
      BY <2>1, <3>1, <3>2 DEF Seal, Hash
    <3> QED BY <3>1, <3>2, <3>3 DEF TipIsFree
  <2> QED BY <2>2, <2>3
<1>8. Sealed(F)'
  <2>1. \A i \in DOMAIN F : Seal(i, F[i])
    BY <1>1, <1>4 DEF Sealed
  <2>2. \A i, j \in DOMAIN F : F[i].hash = F[j].hash => i = j
    BY <1>4, <1>7 DEF Sealed
  <2>3. \A i \in DOMAIN E : E[i].canon = 2 =>
          F[i].prev = Zeros \/ \E j \in DOMAIN F : j < i /\ F[i].prev = F[j].hash
    BY <1>4 DEF Sealed
  <2>4. row.canon = 2 => row.prev = Zeros \/ \E j \in DOMAIN F : j < n /\ row.prev = F[j].hash
    BY <1>2, <1>4 DEF TipIsFree
  <2>5. \A i \in DOMAIN F : F[i].canon = 2 =>
          F[i].prev = Zeros \/ \E j \in DOMAIN F : j < i /\ F[i].prev = F[j].hash
    BY <1>4, <2>3, <2>4
  <2> QED BY <2>1, <2>2, <2>5 DEF Sealed
<1>9. TipIsFree(F)'
  <2>1. CASE row.canon = 1
    BY <1>4, <2>1 DEF TipIsFree
  <2>2. CASE row.canon = 2
    BY <2>2 DEF TipIsFree
  <2> QED BY <2>1, <2>2
<1> QED BY <1>6, <1>8, <1>9 DEF EpochInv

\* The holder of the lock reads the hash of the newest row, to which nothing
\* links; if the table is empty a new epoch begins.
LEMMA EpochRead ==
  ASSUME IInv, EpochInv, NEW p \in Lockers, ReadTip(p)
  PROVE  EpochInv'
<1> USE WalAssumption
<1>1. UNCHANGED <<wal, nextId>> /\ Ids' = Ids /\ pc[p] = "locked"
  BY DEF ReadTip, Ids
<1>2. \A q \in Lockers : q # p => pc'[q] = "idle"
  BY <1>1 DEF ReadTip, IInv, LockInv, ProcInv, Lockers
<1>3. tip'[p] = TipHash
  BY DEF ReadTip, IInv, ProcInv, Lockers
<1>4. CASE Ids = {}
  <2>1. PICK F : F = [i \in {} |-> Zeros]
    OBVIOUS
  <2>2. DOMAIN F = {} /\ TipHash = Zeros
    BY <1>4, <2>1 DEF TipHash
  <2> QED BY <1>1, <1>2, <1>3, <1>4, <2>2 DEF EpochInv, EpochRows, Sealed, TipIsFree
<1>5. CASE Ids # {}
  <2>1. PICK E : EpochRows(E) /\ Sealed(E) /\ TipIsFree(E)
    BY DEF EpochInv
  <2>2. PICK m : m = Max(Ids)
    OBVIOUS
  <2>3. Ids \in SUBSET (1 .. (nextId - 1)) /\ nextId - 1 \in Nat
    BY DEF IInv, TableInv
  <2>4. m \in Ids /\ \A k \in Ids : k <= m
    BY <1>5, <2>2, <2>3, MaxIs
  <2>5. TipHash = E[m].hash /\ m \in DOMAIN E
    BY <1>5, <2>1, <2>2, <2>4 DEF TipHash, EpochRows, SameRow
  <2>6. ASSUME NEW i \in DOMAIN E, E[i].canon = 2, E[i].prev = E[m].hash
        PROVE  FALSE
    <3>1. E[m].hash # Zeros
      BY <2>1, <2>5, HashesDiffer DEF Sealed
    <3>2. PICK j \in DOMAIN E : j < i /\ E[i].prev = E[j].hash
      BY <2>1, <2>6, <3>1 DEF Sealed
    <3>3. j = m
      BY <2>1, <2>5, <2>6, <3>2 DEF Sealed
    <3>4. PICK k \in Ids : i <= k
      BY <1>5, <2>1 DEF EpochRows
    <3>5. i \in Nat /\ j \in Nat /\ k \in Nat /\ m \in Nat
      BY <2>1, <2>3, <2>4, <3>2 DEF EpochRows
    <3> QED BY <2>4, <3>2, <3>3, <3>4, <3>5
  <2>7. TipIsFree(E)'
    BY <1>2, <1>3, <2>5, <2>6 DEF TipIsFree
  <2> QED BY <1>1, <2>1, <2>7 DEF EpochInv, EpochRows, Sealed
<1> QED BY <1>4, <1>5

\* Rows go or change in other fields, and nobody reads.
LEMMA EpochShrinks ==
  ASSUME IInv, EpochInv, nextId' = nextId, Ids' \subseteq Ids,
         \A i \in Ids' : SameRow(wal'[i], wal[i]),
         Ids' # {} => \A i \in Ids : \E j \in Ids' : i <= j,
         \A q \in Lockers : pc'[q] = "read" => pc[q] = "read" /\ tip'[q] = tip[q]
  PROVE  EpochInv'
<1>1. PICK E : EpochRows(E) /\ Sealed(E) /\ TipIsFree(E)
  BY DEF EpochInv
<1>2. Ids' # {} => \A i \in DOMAIN E : \E j \in Ids' : i <= j
  <2> SUFFICES ASSUME Ids' # {}, NEW i \in DOMAIN E PROVE \E j \in Ids' : i <= j
    OBVIOUS
  <2>1. PICK k \in Ids : i <= k
    BY <1>1 DEF EpochRows
  <2>2. PICK j \in Ids' : k <= j
    BY <2>1
  <2>3. i \in Nat /\ j \in Nat /\ k \in Nat
    BY <1>1, <2>1, <2>2 DEF EpochRows, IInv, TableInv
  <2> QED BY <2>1, <2>2, <2>3
<1>3. EpochRows(E)'
  BY <1>1, <1>2 DEF EpochRows, SameRow
<1> QED BY <1>1, <1>3 DEF EpochInv, Sealed, TipIsFree

\* Removing a row that is not the newest one leaves the newest one.
LEMMA RemoveLeavesNewest ==
  ASSUME IInv, NEW i \in Ids, Remove(i)
  PROVE  /\ Ids' = Ids \ {i} /\ \A j \in Ids' : wal'[j] = wal[j]
         /\ \E m \in Ids' : i < m /\ \A k \in Ids : k <= m
<1>1. Ids \in SUBSET (1 .. (nextId - 1)) /\ nextId - 1 \in Nat /\ Ids # {}
  BY DEF IInv, TableInv
<1>2. Ids' = Ids \ {i} /\ \A j \in Ids' : wal'[j] = wal[j]
  BY DEF Remove, Keep, Ids
<1>3. PICK m : m = Max(Ids)
  OBVIOUS
<1>4. m \in Ids /\ \A k \in Ids : k <= m
  BY <1>1, <1>3, MaxIs
<1>5. i # m
  BY <1>3 DEF Remove
<1>6. i < m
  BY <1>1, <1>4, <1>5
<1> QED BY <1>2, <1>4, <1>5, <1>6

LEMMA EpochNext ==
  ASSUME IInv, IInv', EpochInv, [Next]_vars
  PROVE  EpochInv'
<1> USE WalAssumption DEF Lockers, Procs
<1>0. \A i \in Ids : i \in Nat /\ i <= i
  BY DEF IInv, TableInv
<1>1. ASSUME NEW p \in Procs, Lock(p) \/ Rollback(p) PROVE EpochInv'
  <2>1. UNCHANGED <<wal, nextId>> /\ Ids' = Ids
    BY <1>1 DEF Lock, Rollback, Ids
  <2>2. \A q \in Lockers : pc'[q] = "read" => pc[q] = "read" /\ tip'[q] = tip[q]
    BY <1>1 DEF Lock, Rollback, Leaves, IInv, ProcInv
  <2> QED BY <1>0, <2>1, <2>2, EpochShrinks DEF SameRow
<1>2. ASSUME NEW p \in Procs, ReadTip(p) PROVE EpochInv'
  <2>1. p \in Lockers
    BY <1>2 DEF ReadTip
  <2> QED BY <1>2, <2>1, EpochRead
<1>3. ASSUME NEW p \in Procs, NEW op \in Ops \ {"workspace_genesis"}, Append(p, op)
      PROVE  EpochInv'
  <2>1. PICK row : row = Row(op, tip[p], Hash(tip[p], op, "written"), 2)
    OBVIOUS
  <2>2. IsRow(row) /\ row.op = op /\ row.prev = tip[p] /\ row.canon = 2
        /\ row.hash = Hash(tip[p], op, "written")
    BY <2>1, RowIsRow
  <2>3. Seal(nextId, row)
    BY <2>2 DEF Seal
  <2>4. Insert(row) /\ p \in Lockers /\ pc[p] = "read"
    BY <1>3, <2>1 DEF Append
  <2>5. \A q \in Lockers : pc'[q] = "idle"
    BY <1>3, <2>4 DEF Append, Leaves, IInv, LockInv, ProcInv
  <2>6. PICK E : EpochRows(E) /\ Sealed(E) /\ TipIsFree(E)
    BY DEF EpochInv
  <2>7. \A q \in Lockers : pc'[q] = "read" => pc[q] = "read" /\ tip'[q] = tip[q]
    BY <2>5
  <2>8. TableInv'
    BY DEF IInv
  <2> HIDE DEF Lockers, Procs
  <2> QED BY <2>2, <2>3, <2>4, <2>5, <2>6, <2>7, <2>8, EpochInsert
<1>4. CASE OldReads
  <2>1. UNCHANGED <<wal, nextId>> /\ Ids' = Ids
    BY <1>4 DEF OldReads, Ids
  <2>2. \A q \in Lockers : pc'[q] = pc[q] /\ tip'[q] = tip[q]
    BY <1>4 DEF OldReads, IInv, ProcInv
  <2> QED BY <1>0, <2>1, <2>2, EpochShrinks DEF SameRow
<1>5. CASE OldWrites \/ WriteGenesis
  <2>1. PICK row : \/ OldWrites /\ row = Row("palace_mcp_write", tip[Old], <<"bogus", nextId>>, 1)
                   \/ WriteGenesis /\ row = Row("workspace_genesis", Zeros, <<"genesis", nextId>>, 1)
    BY <1>5
  <2>2. IsRow(row) /\ row.canon = 1 /\ row.hash \in {<<"bogus", nextId>>, <<"genesis", nextId>>}
    BY <2>1, RowIsRow DEF Ops
  <2>3. Seal(nextId, row)
    BY <2>2 DEF Seal
  <2>4. Insert(row)
    BY <2>1 DEF OldWrites, WriteGenesis
  <2>5. \A q \in Lockers : pc'[q] = pc[q] /\ tip'[q] = tip[q]
    BY <1>5 DEF OldWrites, WriteGenesis, Leaves, IInv, ProcInv
  <2>6. PICK E : EpochRows(E) /\ Sealed(E) /\ TipIsFree(E)
    BY DEF EpochInv
  <2>7. TableInv' /\ Old \in Procs
    BY DEF IInv
  <2> HIDE DEF Lockers, Procs
  <2> QED BY <2>2, <2>3, <2>4, <2>5, <2>6, <2>7, EpochInsert
<1>6. ASSUME NEW i \in Ids, Retain(i) PROVE EpochInv'
  <2>1. UNCHANGED <<nextId, pc, tip>> /\ Ids' = {j \in Ids : j > i} /\ \A j \in Ids' : wal'[j] = wal[j]
    BY <1>6 DEF Retain, Keep, Ids
  <2>2. ASSUME NEW k \in Ids, Ids' # {} PROVE \E j \in Ids' : k <= j
    <3>1. PICK j \in Ids' : TRUE
      BY <2>2
    <3>2. CASE k > i
      BY <1>0, <2>1, <3>2
    <3>3. CASE ~(k > i)
      BY <1>0, <2>1, <3>1, <3>3
    <3> QED BY <3>2, <3>3
  <2> QED BY <2>1, <2>2, EpochShrinks DEF SameRow
<1>7. ASSUME NEW i \in Ids, Remove(i) PROVE EpochInv'
  <2>1. UNCHANGED <<nextId, pc, tip>>
    BY <1>7 DEF Remove
  <2>2. Ids' \subseteq Ids /\ \A j \in Ids' : SameRow(wal'[j], wal[j])
    BY <1>7, RemoveLeavesNewest DEF SameRow
  <2>3. \A k \in Ids : \E j \in Ids' : k <= j
    BY <1>7, RemoveLeavesNewest
  <2> QED BY <2>1, <2>2, <2>3, EpochShrinks
<1>8. ASSUME NEW i \in Ids, Edit(i) PROVE EpochInv'
  <2>1. UNCHANGED <<nextId, pc, tip>> /\ Ids' = Ids
    BY <1>8 DEF Edit, Ids
  <2>2. \A j \in Ids : wal'[j] = IF j = i THEN [wal[j] EXCEPT !.payload = "edited"] ELSE wal[j]
    BY <1>8 DEF Edit, Ids
  <2>3. \A j \in Ids : IsRow(wal[j])
    BY DEF IInv, TableInv
  <2>4. \A j \in Ids : SameRow(wal'[j], wal[j])
    BY <2>2, <2>3 DEF SameRow, IsRow
  <2> QED BY <1>0, <2>1, <2>4, EpochShrinks
<1>9. CASE (\E mode \in Modes : Start(mode)) \/ VerifyBatch \/ LookAtRow \/ UNCHANGED vars
  <2>1. UNCHANGED <<wal, nextId, pc, tip>> /\ Ids' = Ids
    BY <1>9 DEF Start, VerifyBatch, LookAtRow, vars, Ids
  <2> QED BY <1>0, <2>1, EpochShrinks DEF SameRow
<1>10. CASE FlagRow
  <2>1. UNCHANGED <<nextId, pc, tip>> /\ Ids' = Ids
    BY <1>10 DEF FlagRow, Ids
  <2>2. \A j \in Ids : wal'[j] = IF j = check.at THEN [wal[j] EXCEPT !.exempt = TRUE] ELSE wal[j]
    BY <1>10 DEF FlagRow, Ids
  <2>3. \A j \in Ids : IsRow(wal[j])
    BY DEF IInv, TableInv
  <2>4. \A j \in Ids : SameRow(wal'[j], wal[j])
    BY <2>2, <2>3 DEF SameRow, IsRow
  <2> QED BY <1>0, <2>1, <2>4, EpochShrinks
<1> QED BY <1>1, <1>2, <1>3, <1>4, <1>5, <1>6, <1>7, <1>8, <1>9, <1>10 DEF Next, Write, Disturb, Check

-----------------------------------------------------------------------------
(* What a pass that says "valid" has seen.                                 *)

\* A row that lost the row it links to links to none before it, for hashes do
\* not repeat.
AlteredInv ==
  /\ altered = [edited |-> altered.edited, parted |-> altered.parted]
  /\ altered.edited \cup altered.parted \subseteq 1 .. (nextId - 1)
  /\ \A i \in Ids : i \in altered.edited <=> wal[i].payload = "edited"
  /\ \A i \in Ids : i \in altered.parted =>
       wal[i].prev # Zeros /\ \A b \in Ids : b < i => wal[i].prev # wal[b].hash

\* Row i shows nothing that was altered when the pass c began.
Clear(c, i) ==
  /\ i \notin c.known.edited
  /\ i \in c.known.parted => \A j \in Ids : j < c.from \/ j >= i

\* The rows behind the cursor are clear, the hash the pass carries is none to
\* which a row with a lost predecessor links, and without one the range begins
\* at the cursor.
ScanInv(c) ==
  /\ c.known.edited \subseteq altered.edited /\ c.known.parted \subseteq altered.parted
  /\ c.from \in Nat /\ c.last \in Nat
  /\ c.verdict = "valid" => \A i \in Ids : c.from <= i /\ wal[i].canon = 2 => Clear(c, i)
  /\ c.pc # "idle" =>
       /\ c.verdict = "none"
       /\ \A i \in Ids : c.from <= i /\ i <= c.last /\ wal[i].canon = 2 => Clear(c, i)
       /\ IF c.expected = Undefined
          THEN c.last < c.from
          ELSE \A i \in Ids : c.last < i /\ i \in c.known.parted => wal[i].prev # c.expected

\* The rows of the table have hashes of their own.
LEMMA RowsAreSealed ==
  ASSUME EpochInv
  PROVE  /\ \A i \in Ids : Seal(i, wal[i])
         /\ \A i, j \in Ids : wal[i].hash = wal[j].hash => i = j
<1>1. PICK E : EpochRows(E) /\ Sealed(E)
  BY DEF EpochInv
<1>2. \A i \in Ids : i \in DOMAIN E /\ SameRow(wal[i], E[i]) /\ Seal(i, E[i])
  BY <1>1 DEF EpochRows, Sealed
<1>3. \A i \in Ids : Seal(i, wal[i])
  BY <1>2 DEF Seal, SameRow
<1>4. \A i, j \in Ids : wal[i].hash = wal[j].hash => i = j
  BY <1>1, <1>2 DEF Sealed, SameRow
<1> QED BY <1>3, <1>4

\* Rows that stay keep what was altered, where nothing new was.
LEMMA AlteredFrame ==
  ASSUME IInv, AlteredInv, altered' = altered, nextId' \in Nat, nextId' >= nextId,
         \A i \in Ids' : \/ i \in Ids /\ SameRow(wal'[i], wal[i]) /\ wal'[i].payload = wal[i].payload
                         \/ i = nextId /\ wal'[i].payload = "written"
  PROVE  AlteredInv'
<1>1. nextId \in Nat /\ \A i \in Ids : i \in Nat /\ i < nextId
  BY DEF IInv, TableInv
<1>2. nextId \notin altered.edited \cup altered.parted
  BY <1>1 DEF AlteredInv
<1>3. altered.edited \cup altered.parted \subseteq 1 .. (nextId' - 1)
  BY <1>1 DEF AlteredInv
<1>4. \A i \in Ids' : i \in altered.edited <=> wal'[i].payload = "edited"
  BY <1>2 DEF AlteredInv
<1>5. \A i \in Ids' : i \in altered.parted =>
        wal'[i].prev # Zeros /\ \A b \in Ids' : b < i => wal'[i].prev # wal'[b].hash
  BY <1>1, <1>2 DEF AlteredInv, SameRow
<1> QED BY <1>3, <1>4, <1>5 DEF AlteredInv

LEMMA AlteredNext ==
  ASSUME IInv, IInv', EpochInv, AlteredInv, [Next]_vars
  PROVE  AlteredInv'
<1>0. /\ nextId \in Nat /\ \A i \in Ids : i \in Nat /\ i < nextId
      /\ \A i \in Ids : IsRow(wal[i])
  BY DEF IInv, TableInv
<1>1. ASSUME NEW i \in Ids, Edit(i) PROVE AlteredInv'
  <2>1. Ids' = Ids /\ nextId' = nextId
    BY <1>1 DEF Edit, Ids
  <2>2. \A j \in Ids : wal'[j] = IF j = i THEN [wal[j] EXCEPT !.payload = "edited"] ELSE wal[j]
    BY <1>1 DEF Edit, Ids
  <2>3. /\ wal'[i].payload = "edited" /\ (\A j \in Ids : SameRow(wal'[j], wal[j]))
        /\ \A j \in Ids : j # i => wal'[j] = wal[j]
    BY <1>0, <2>2 DEF SameRow, IsRow
  <2>4. altered' = [altered EXCEPT !.edited = altered.edited \cup {i}]
    BY <1>1 DEF Edit
  <2>5. altered' = [edited |-> altered.edited \cup {i}, parted |-> altered.parted]
    BY <2>4 DEF AlteredInv
  <2>6. altered'.edited \cup altered'.parted \subseteq 1 .. (nextId' - 1)
    BY <1>0, <2>1, <2>5 DEF AlteredInv, IInv, TableInv
  <2>7. \A j \in Ids' : j \in altered'.edited <=> wal'[j].payload = "edited"
    BY <2>1, <2>3, <2>5 DEF AlteredInv
  <2>8. \A j \in Ids' : j \in altered'.parted =>
          wal'[j].prev # Zeros /\ \A b \in Ids' : b < j => wal'[j].prev # wal'[b].hash
    BY <2>1, <2>3, <2>5 DEF AlteredInv, SameRow
  <2> QED BY <2>5, <2>6, <2>7, <2>8 DEF AlteredInv
<1>2. ASSUME NEW i \in Ids, Remove(i) PROVE AlteredInv'
  <2>1. PICK lost \in SUBSET Ids :
          /\ altered' = [altered EXCEPT !.parted = altered.parted \cup lost]
          /\ \A j \in lost : wal[j].prev = wal[i].hash
    <3> DEFINE S == {j \in Ids : j = NextOf(i) /\ LinkedTo(j, i)}
    <3>1. altered' = [altered EXCEPT !.parted = altered.parted \cup S]
      BY <1>2 DEF Remove
    <3>2. S \in SUBSET Ids /\ \A j \in S : wal[j].prev = wal[i].hash
      BY DEF LinkedTo
    <3> HIDE DEF S
    <3> QED BY <3>1, <3>2
  <2>2. altered' = [edited |-> altered.edited, parted |-> altered.parted \cup lost]
    BY <2>1 DEF AlteredInv
  <2>3. nextId' = nextId /\ Ids' = Ids \ {i} /\ \A j \in Ids' : wal'[j] = wal[j]
    BY <1>2, RemoveLeavesNewest DEF Remove
  <2>4. altered'.edited \cup altered'.parted \subseteq 1 .. (nextId' - 1)
    BY <1>0, <2>1, <2>2, <2>3 DEF AlteredInv, IInv, TableInv
  <2>5. \A j \in lost : /\ wal[j].prev # Zeros
                        /\ \A b \in Ids : b # i => wal[j].prev # wal[b].hash
    BY <2>1, RowsAreSealed, HashesDiffer
  <2>6. \A j \in Ids' : j \in altered'.parted =>
          wal'[j].prev # Zeros /\ \A b \in Ids' : b < j => wal'[j].prev # wal'[b].hash
    BY <2>2, <2>3, <2>5 DEF AlteredInv
  <2>7. \A j \in Ids' : j \in altered'.edited <=> wal'[j].payload = "edited"
    BY <2>2, <2>3 DEF AlteredInv
  <2> QED BY <2>2, <2>4, <2>6, <2>7 DEF AlteredInv
<1>3. ASSUME NEW row, Insert(row), IsRow(row), row.payload = "written", altered' = altered
      PROVE  AlteredInv'
  <2>1. nextId' = nextId + 1 /\ Ids' = Ids \cup {nextId} /\ wal'[nextId] = row
        /\ \A i \in Ids : wal'[i] = wal[i]
    BY <1>3, InsertKeeps DEF IInv
  <2> QED BY <1>0, <1>3, <2>1, AlteredFrame DEF SameRow
<1>4. ASSUME NEW p \in Procs, NEW op \in Ops \ {"workspace_genesis"}, Append(p, op)
      PROVE  AlteredInv'
  <2>1. PICK row : row = Row(op, tip[p], Hash(tip[p], op, "written"), 2)
    OBVIOUS
  <2>2. IsRow(row) /\ row.payload = "written"
    BY <2>1, RowIsRow DEF Row
  <2> QED BY <1>3, <1>4, <2>1, <2>2 DEF Append
<1>5. CASE OldWrites \/ WriteGenesis
  <2>1. PICK row : \/ OldWrites /\ row = Row("palace_mcp_write", tip[Old], <<"bogus", nextId>>, 1)
                   \/ WriteGenesis /\ row = Row("workspace_genesis", Zeros, <<"genesis", nextId>>, 1)
    BY <1>5
  <2>2. IsRow(row) /\ row.payload = "written"
    <3>1. CASE row = Row("palace_mcp_write", tip[Old], <<"bogus", nextId>>, 1)
      BY <3>1, RowIsRow DEF Ops, Row
    <3>2. CASE row = Row("workspace_genesis", Zeros, <<"genesis", nextId>>, 1)
      BY <3>2, RowIsRow DEF Ops, Row
    <3> QED BY <2>1, <3>1, <3>2
  <2>3. Insert(row) /\ altered' = altered
    BY <2>1 DEF OldWrites, WriteGenesis
  <2> QED BY <1>3, <2>2, <2>3
<1>6. ASSUME NEW i \in Ids, Retain(i) PROVE AlteredInv'
  <2>1. UNCHANGED <<nextId, altered>> /\ Ids' \subseteq Ids /\ \A j \in Ids' : wal'[j] = wal[j]
    BY <1>6 DEF Retain, Keep, Ids
  <2> QED BY <1>0, <2>1, AlteredFrame DEF SameRow
<1>7. CASE FlagRow
  <2>1. UNCHANGED <<nextId, altered>> /\ Ids' = Ids
    BY <1>7 DEF FlagRow, Ids
  <2>2. \A j \in Ids : wal'[j] = IF j = check.at THEN [wal[j] EXCEPT !.exempt = TRUE] ELSE wal[j]
    BY <1>7 DEF FlagRow, Ids
  <2>3. \A j \in Ids : SameRow(wal'[j], wal[j]) /\ wal'[j].payload = wal[j].payload
    BY <1>0, <2>2 DEF SameRow, IsRow
  <2> QED BY <1>0, <2>1, <2>3, AlteredFrame
<1>8. CASE UNCHANGED <<wal, nextId, altered>>
  <2>1. Ids' = Ids
    BY <1>8 DEF Ids
  <2> QED BY <1>0, <1>8, <2>1, AlteredFrame DEF SameRow
<1>9. CASE \/ (\E mode \in Modes : Start(mode)) \/ VerifyBatch \/ LookAtRow \/ OldReads
           \/ \E p \in Procs : Lock(p) \/ ReadTip(p) \/ Rollback(p)
           \/ UNCHANGED vars
  BY <1>8, <1>9 DEF Start, VerifyBatch, LookAtRow, OldReads, Lock, ReadTip, Rollback, vars
<1> QED BY <1>1, <1>2, <1>4, <1>5, <1>6, <1>7, <1>9 DEF Next, Write, Disturb, Check

\* The rows of one statement are the first behind the cursor, and all of them
\* if they are fewer than a batch.
LEMMA BatchIs ==
  ASSUME IInv, check.last \in Nat
  PROVE  /\ Batch \subseteq {i \in Ids : i > check.last} /\ IsFiniteSet(Batch)
         /\ \A i \in Batch, k \in Ids : check.last < k /\ k < i => k \in Batch
         /\ Cardinality(Batch) < BatchSize => \A k \in Ids : check.last < k => k \in Batch
         /\ ~(Cardinality(Batch) < BatchSize) => Batch # {}
<1> USE WalAssumption
<1>0. Ids \in SUBSET (1 .. (nextId - 1)) /\ nextId - 1 \in Nat /\ \A i \in Ids : i \in Nat
  BY DEF IInv, TableInv
<1>1. ASSUME NEW S \in SUBSET Ids PROVE IsFiniteSet(S) /\ Cardinality(S) \in Nat
  <2>1. IsFiniteSet(1 .. (nextId - 1))
    BY <1>0, FS_Interval
  <2> QED BY <1>0, <2>1, FS_Subset, FS_CardinalityType
<1> DEFINE Before(i) == {j \in Ids : j > check.last /\ j < i}
<1>2. \A i : i \in Batch <=> i \in Ids /\ i > check.last /\ Cardinality(Before(i)) < BatchSize
  BY DEF Batch
<1>3. \A i : Before(i) \in SUBSET Ids
  OBVIOUS
<1>4. ASSUME NEW i \in Batch, NEW k \in Ids, check.last < k, k < i PROVE k \in Batch
  <2>1. i \in Ids /\ Cardinality(Before(i)) < BatchSize
    BY <1>2
  <2>2. Before(k) \subseteq Before(i)
    <3> SUFFICES ASSUME NEW j \in Before(k) PROVE j \in Before(i)
      OBVIOUS
    <3>1. j \in Ids /\ j > check.last /\ j < k
      OBVIOUS
    <3>2. j \in Nat /\ k \in Nat /\ i \in Nat
      BY <1>0, <2>1, <3>1
    <3> QED BY <1>4, <3>1, <3>2
  <2> HIDE DEF Before
  <2>3. Cardinality(Before(k)) <= Cardinality(Before(i))
    BY <1>1, <1>3, <2>2, FS_Subset
  <2>4. Cardinality(Before(k)) \in Nat /\ Cardinality(Before(i)) \in Nat
    BY <1>1, <1>3
  <2> QED BY <1>0, <1>2, <1>4, <2>1, <2>3, <2>4
<1>5. ASSUME Cardinality(Batch) < BatchSize, NEW k \in Ids, check.last < k PROVE k \in Batch
  <2> DEFINE Out == {i \in Ids : check.last < i /\ i \notin Batch}
  <2> SUFFICES ASSUME Out # {} PROVE FALSE
    BY <1>5
  <2>1. Out \in SUBSET Nat
    BY <1>0
  <2>2. PICK m \in Out : \A i \in Out : m <= i
    <3> HIDE DEF Out
    <3> QED BY <2>1, NatMin
  <2>3. Before(m) \subseteq Batch
    <3> SUFFICES ASSUME NEW j \in Before(m), j \notin Batch PROVE FALSE
      OBVIOUS
    <3>1. j \in Ids /\ check.last < j /\ j < m /\ m \in Nat /\ j \in Nat
      BY <1>0
    <3>2. m <= j
      BY <2>2, <3>1
    <3> QED BY <3>1, <3>2
  <2>4. m \in Ids /\ m > check.last /\ ~(Cardinality(Before(m)) < BatchSize)
    BY <1>0, <1>2
  <2> HIDE DEF Before, Out
  <2>5. Batch \in SUBSET Ids
    BY <1>2
  <2>6. Cardinality(Before(m)) <= Cardinality(Batch)
    BY <1>1, <2>3, <2>5, FS_Subset
  <2>7. Cardinality(Before(m)) \in Nat /\ Cardinality(Batch) \in Nat
    BY <1>1, <1>3, <2>5
  <2> QED BY <1>5, <2>4, <2>6, <2>7
<1>6. Batch = {} => Cardinality(Batch) < BatchSize
  BY FS_EmptySet
<1>7. IsFiniteSet(Batch)
  BY <1>1 DEF Batch
<1> QED BY <1>2, <1>4, <1>5, <1>6, <1>7

\* Rows come and go around the pass.
LEMMA ScanFrame ==
  ASSUME IInv, AlteredInv, ScanInv(check), check' = check,
         altered.edited \subseteq altered'.edited, altered.parted \subseteq altered'.parted,
         \A i \in Ids' : (i \in Ids /\ SameRow(wal'[i], wal[i])) \/ i = nextId
  PROVE  ScanInv(check)'
<1>1. nextId \in Nat /\ \A i \in Ids : i \in Nat /\ i < nextId
  BY DEF IInv, TableInv
<1>2. nextId \notin check.known.edited \cup check.known.parted
  BY <1>1 DEF AlteredInv, ScanInv
<1>3. \A i \in Ids' : (i \in Ids => Clear(check, i)) => Clear(check, i)'
  BY <1>1, <1>2 DEF Clear
<1> QED BY <1>1, <1>2, <1>3 DEF ScanInv, SameRow

\* The rows of a batch in which nothing is broken are clear.
LEMMA BatchIsClear ==
  ASSUME IInv, EpochInv, AlteredInv, ScanInv(check), check.pc = "scan", Broken(Batch) = {},
         NEW i \in Batch, wal[i].canon = 2
  PROVE  Clear(check, i)
<1>1. check.last \in Nat /\ check.from \in Nat
  BY DEF ScanInv
<1>2. /\ i \in Ids /\ i > check.last /\ Batch \subseteq Ids
      /\ \A k \in Ids : check.last < k /\ k < i => k \in Batch
  BY <1>1, BatchIs
<1>3. ~HashFails(i) /\ ~LinkFails(i, Batch)
  BY DEF Broken
<1>4. Seal(i, wal[i]) /\ IsRow(wal[i]) /\ i \in Nat /\ \A k \in Ids : k \in Nat
  BY <1>2, RowsAreSealed DEF IInv, TableInv
<1>5. ~wal[i].exempt
  <2>1. wal[i].hash # <<"bogus", i>>
    BY <1>4 DEF Seal, Hash
  <2> QED BY <1>2, <1>4, <2>1 DEF IInv, RepairIsTargeted, IsRow
<1>6. wal[i].payload = "written"
  BY <1>3, <1>4, <1>5 DEF HashFails, Seal, Hash
<1>7. i \notin check.known.edited
  BY <1>2, <1>6 DEF AlteredInv, ScanInv
<1>8. ASSUME i \in check.known.parted, NEW j \in Ids PROVE j < check.from \/ j >= i
  <2> DEFINE before == {k \in Batch : k < i}
  <2>1. i \in altered.parted
    BY <1>8 DEF ScanInv
  <2>2. before = {}
    <3> SUFFICES ASSUME before # {} PROVE FALSE
      OBVIOUS
    <3>1. before \in SUBSET (1 .. (nextId - 1)) /\ nextId - 1 \in Nat
      BY <1>2 DEF IInv, TableInv
    <3>2. PICK b : b = Max(before)
      OBVIOUS
    <3>3. b \in before
      BY <3>1, <3>2, MaxIs
    <3>4. b \in Ids /\ b < i
      BY <1>2, <3>3
    <3>5. Expected(i, Batch) = wal[b].hash
      BY <3>2 DEF Expected
    <3>6. wal[b].hash # Undefined
      BY <3>4, RowsAreSealed, HashesDiffer
    <3>7. wal[i].prev = wal[b].hash
      BY <1>3, <3>5, <3>6 DEF LinkFails
    <3> QED BY <1>2, <2>1, <3>4, <3>7 DEF AlteredInv
  <2>3. Expected(i, Batch) = check.expected
    BY <2>2 DEF Expected
  <2>4. check.expected = Undefined
    BY <1>2, <1>3, <1>8, <2>3 DEF LinkFails, ScanInv
  <2>5. check.last < check.from
    BY <2>4 DEF ScanInv
  <2>6. ~(check.last < j /\ j < i)
    BY <1>2, <2>2
  <2> QED BY <1>1, <1>4, <2>5, <2>6
<1> QED BY <1>7, <1>8 DEF Clear

\* The pass starts, and goes on by a batch.
\* The range of a pass begins at a row, or before all of them.
LEMMA StartsAtARow ==
  ASSUME IInv, NEW mode \in Modes, Start(mode)
  PROVE  FromId(mode) = 0 \/ FromId(mode) \in Ids
<1>1. Ids \in SUBSET (1 .. (nextId - 1)) /\ nextId - 1 \in Nat /\ Ids \in SUBSET Nat
  BY DEF IInv, TableInv
<1>2. CASE mode = "full"
  BY <1>2 DEF FromId
<1>3. CASE mode = "oldest"
  <2>1. Ids # {}
    BY <1>3 DEF Start
  <2> QED BY <1>1, <1>3, <2>1, MinIs DEF FromId
<1>4. CASE mode \notin {"full", "oldest"}
  <2> DEFINE older == {i \in Ids : Cardinality({j \in Ids : j > i}) = Window - 1}
  <2>1. FromId(mode) = IF older = {} THEN 0 ELSE Max(older)
    BY <1>4 DEF FromId, Anchor
  <2>2. older \in SUBSET (1 .. (nextId - 1)) /\ older \subseteq Ids
    BY <1>1
  <2> HIDE DEF older
  <2>3. older # {} => Max(older) \in older
    BY <1>1, <2>2, MaxIs
  <2> QED BY <2>1, <2>2, <2>3
<1> QED BY <1>2, <1>3, <1>4

LEMMA ScanStart ==
  ASSUME IInv, AlteredInv, NEW mode \in Modes, Start(mode)
  PROVE  ScanInv(check)'
<1>1. UNCHANGED <<wal, altered>> /\ Ids' = Ids
  BY DEF Start, Ids
<1>2. Ids \in SUBSET (1 .. (nextId - 1)) /\ nextId - 1 \in Nat /\ Ids \in SUBSET Nat
  BY DEF IInv, TableInv
<1>3. PICK from : from = FromId(mode)
  OBVIOUS
<1>4. from = 0 \/ from \in Ids
  BY <1>3, StartsAtARow
<1>5. /\ check'.pc = "scan" /\ check'.from = from /\ check'.known = altered /\ check'.verdict = "none"
      /\ check'.last = (IF from = 0 THEN 0 ELSE from - 1)
      /\ check'.expected = (IF from = 0 THEN Zeros ELSE Undefined)
  BY <1>3 DEF Start, Idle
<1>6. from \in Nat /\ check'.last \in Nat /\ \A i \in Ids : i \in Nat /\ i >= 1
  <2>1. \A i \in Ids : i \in Nat /\ i >= 1
    BY <1>2
  <2>2. from \in Nat /\ (from # 0 => from - 1 \in Nat)
    BY <1>4, <2>1
  <2> QED BY <1>5, <2>1, <2>2
<1>7. Zeros # Undefined
  BY DEF Zeros, Undefined
<1>8. CASE from = 0
  BY <1>1, <1>5, <1>6, <1>7, <1>8 DEF ScanInv, AlteredInv
<1>9. CASE from # 0
  BY <1>1, <1>5, <1>6, <1>9 DEF ScanInv
<1> QED BY <1>8, <1>9

LEMMA ScanBatch ==
  ASSUME IInv, EpochInv, AlteredInv, ScanInv(check), VerifyBatch
  PROVE  ScanInv(check)'
<1>0. UNCHANGED <<wal, altered>> /\ Ids' = Ids /\ check.pc = "scan" /\ IsCheck(check)
  BY DEF VerifyBatch, Ids, IInv, CheckInv
<1>1. check.last \in Nat /\ check.from \in Nat /\ \A i \in Ids : i \in Nat
  BY DEF ScanInv, IInv, TableInv
<1>2. PICK rows : rows = Batch
  OBVIOUS
<1>3. /\ rows \subseteq {i \in Ids : i > check.last}
      /\ \A i \in rows, k \in Ids : check.last < k /\ k < i => k \in rows
      /\ Cardinality(rows) < BatchSize => \A k \in Ids : check.last < k => k \in rows
      /\ ~(Cardinality(rows) < BatchSize) => rows # {}
  BY <1>1, <1>2, BatchIs
<1>4. CASE Broken(rows) # {}
  <2>1. /\ check'.from = check.from /\ check'.last = check.last /\ check'.known = check.known
        /\ check'.expected = check.expected
        /\ \/ check'.pc = "look" /\ check'.verdict = check.verdict
           \/ check'.pc = "idle" /\ check'.verdict = "broken"
    BY <1>0, <1>2, <1>4 DEF VerifyBatch, Ends, IsCheck
  <2> QED BY <1>0, <2>1 DEF ScanInv, Clear
<1>5. CASE Broken(rows) = {}
  <2>1. \A i \in rows : wal[i].canon = 2 => Clear(check, i)
    BY <1>0, <1>2, <1>5, BatchIsClear
  <2>2. CASE Cardinality(rows) < BatchSize
    <3>1. /\ check'.from = check.from /\ check'.last = check.last /\ check'.known = check.known
          /\ check'.pc = "idle" /\ check'.verdict = "valid"
      BY <1>0, <1>2, <1>5, <2>2 DEF VerifyBatch, Ends, IsCheck
    <3>2. \A i \in Ids : check.from <= i /\ wal[i].canon = 2 => Clear(check, i)
      BY <1>0, <1>1, <1>3, <2>1, <2>2 DEF ScanInv
    <3> QED BY <1>0, <3>1, <3>2 DEF ScanInv, Clear
  <2>3. CASE ~(Cardinality(rows) < BatchSize)
    <3>1. PICK m : m = Max(rows)
      OBVIOUS
    <3>2. m \in rows /\ \A k \in rows : k <= m
      <4>1. rows \in SUBSET (1 .. (nextId - 1)) /\ nextId - 1 \in Nat
        BY <1>3 DEF IInv, TableInv
      <4> QED BY <1>3, <2>3, <3>1, <4>1, MaxIs
    <3>3. m \in Ids /\ m \in Nat /\ m > check.last
      BY <1>1, <1>3, <3>2
    <3>4. /\ check'.from = check.from /\ check'.last = m /\ check'.known = check.known
          /\ check'.pc = "scan" /\ check'.verdict = check.verdict /\ check'.expected = wal[m].hash
      BY <1>0, <1>2, <1>5, <2>3, <3>1 DEF VerifyBatch, IsCheck
    <3>5. wal[m].hash # Undefined
      BY <3>3, RowsAreSealed, HashesDiffer
    <3>6. \A i \in Ids : check.from <= i /\ i <= m /\ wal[i].canon = 2 => Clear(check, i)
      <4> SUFFICES ASSUME NEW i \in Ids, check.from <= i, i <= m, wal[i].canon = 2
                   PROVE  Clear(check, i)
        OBVIOUS
      <4>1. CASE i <= check.last
        BY <1>0, <4>1 DEF ScanInv
      <4>2. CASE ~(i <= check.last)
        <5>1. i \in Nat /\ check.last < i /\ (i = m \/ i < m)
          BY <1>1, <3>3, <4>2
        <5>2. i \in rows
          BY <1>3, <3>2, <5>1
        <5> QED BY <2>1, <5>2
      <4> QED BY <4>1, <4>2
    <3>7. \A i \in Ids : m < i /\ i \in check.known.parted => wal[i].prev # wal[m].hash
      BY <3>3 DEF ScanInv, AlteredInv
    <3> QED BY <1>0, <3>3, <3>4, <3>5, <3>6, <3>7 DEF ScanInv, Clear
  <2> QED BY <2>2, <2>3
<1> QED BY <1>4, <1>5

TamperInv == EpochInv /\ AlteredInv /\ ScanInv(check)

\* A step that leaves the cursor, the range and what was known, or forgets all.
LEMMA ScanKeeps ==
  ASSUME IInv, AlteredInv, ScanInv(check), UNCHANGED altered, Ids' = Ids,
         \A i \in Ids : SameRow(wal'[i], wal[i]),
         \/ /\ check'.from = check.from /\ check'.last = check.last /\ check'.known = check.known
            /\ check'.expected = check.expected
            /\ \/ check'.pc = check.pc /\ check'.verdict = check.verdict
               \/ check.pc # "idle" /\ check'.pc # "idle" /\ check'.verdict = check.verdict
               \/ check'.pc = "idle" /\ check'.verdict = "broken"
         \/ check' = Idle
  PROVE  ScanInv(check)'
<1>1. CASE check' = Idle
  BY <1>1 DEF ScanInv, Idle
<1>2. CASE check' # Idle
  BY <1>2 DEF ScanInv, Clear, SameRow
<1> QED BY <1>1, <1>2

LEMMA ScanNext ==
  ASSUME IInv, IInv', TamperInv, AlteredInv', [Next]_vars
  PROVE  ScanInv(check)'
<1> USE DEF TamperInv
<1>0. /\ nextId \in Nat /\ \A i \in Ids : i \in Nat /\ i < nextId
      /\ IsCheck(check) /\ \A i \in Ids : IsRow(wal[i])
  BY DEF IInv, TableInv, CheckInv
<1>1. ASSUME NEW p \in Procs, Lock(p) \/ ReadTip(p) \/ Rollback(p) PROVE ScanInv(check)'
  <2>1. UNCHANGED <<wal, altered>> /\ Ids' = Ids /\ (check' = check \/ check' = Idle)
    BY <1>1 DEF Lock, ReadTip, Rollback, Ids
  <2> QED BY <2>1, ScanKeeps DEF SameRow
<1>2. ASSUME NEW row, Insert(row), IsRow(row), altered' = altered, check' = check
      PROVE  ScanInv(check)'
  <2>1. Ids' = Ids \cup {nextId} /\ \A i \in Ids : wal'[i] = wal[i]
    BY <1>2, InsertKeeps DEF IInv
  <2> QED BY <1>2, <2>1, ScanFrame DEF SameRow
<1>3. ASSUME NEW p \in Procs, NEW op \in Ops \ {"workspace_genesis"}, Append(p, op)
      PROVE  ScanInv(check)'
  <2>1. PICK row : row = Row(op, tip[p], Hash(tip[p], op, "written"), 2)
    OBVIOUS
  <2>2. IsRow(row) /\ Insert(row) /\ altered' = altered
    BY <1>3, <2>1, RowIsRow DEF Append
  <2>3. CASE p # Upgrade
    BY <1>2, <1>3, <2>2, <2>3 DEF Append
  <2>4. CASE p = Upgrade
    <3>1. check' = Resumed /\ pc[Upgrade] = "read"
      BY <1>3, <2>4 DEF Append
    <3>2. check.pc = "audit" /\ check.at \in 1 .. restart /\ restart \in Nat
      BY <3>1 DEF IInv, LockInv, CheckInv
    <3>3. check.at \in Nat /\ check.at - 1 \in Nat /\ check.at - 1 < check.at
      BY <3>2
    <3>4. /\ check'.pc = "scan" /\ check'.from = check.at /\ check'.last = check.at - 1
          /\ check'.expected = Undefined /\ check'.known = check.known
          /\ check'.verdict = check.verdict
      BY <1>0, <3>1 DEF Resumed, IsCheck
    <3>5. Ids' = Ids \cup {nextId} /\ \A i \in Ids : wal'[i] = wal[i]
      BY <2>2, InsertKeeps DEF IInv
    <3>6. \A i \in Ids' : i \in Nat
      BY <1>0, <3>5
    <3>7. check.verdict = "none"
      BY <3>2 DEF ScanInv
    <3> QED BY <2>2, <3>3, <3>4, <3>6, <3>7 DEF ScanInv
  <2> QED BY <2>3, <2>4
<1>4. CASE OldWrites \/ WriteGenesis
  <2>1. PICK row : \/ OldWrites /\ row = Row("palace_mcp_write", tip[Old], <<"bogus", nextId>>, 1)
                   \/ WriteGenesis /\ row = Row("workspace_genesis", Zeros, <<"genesis", nextId>>, 1)
    BY <1>4
  <2>2. IsRow(row)
    BY <2>1, RowIsRow DEF Ops
  <2>3. Insert(row) /\ altered' = altered /\ check' = check
    BY <2>1 DEF OldWrites, WriteGenesis
  <2> QED BY <1>2, <2>2, <2>3
<1>5. ASSUME NEW i \in Ids, Retain(i) \/ Remove(i) \/ Edit(i) PROVE ScanInv(check)'
  <2>1. check' = check /\ \A j \in Ids' : j \in Ids /\ SameRow(wal'[j], wal[j])
    <3>1. CASE Edit(i)
      BY <1>0, <3>1 DEF Edit, Ids, SameRow, IsRow
    <3>2. CASE Retain(i) \/ Remove(i)
      BY <3>2 DEF Retain, Remove, Keep, Ids, SameRow
    <3> QED BY <1>5, <3>1, <3>2
  <2>2. altered.edited \subseteq altered'.edited /\ altered.parted \subseteq altered'.parted
    BY <1>5 DEF Retain, Remove, Edit, AlteredInv
  <2> QED BY <2>1, <2>2, ScanFrame
<1>6. ASSUME NEW mode \in Modes, Start(mode) PROVE ScanInv(check)'
  BY <1>6, ScanStart
<1>7. CASE VerifyBatch
  BY <1>7, ScanBatch
<1>8. CASE LookAtRow \/ OldReads \/ UNCHANGED vars
  <2>1. UNCHANGED <<wal, altered>> /\ Ids' = Ids
    BY <1>8 DEF LookAtRow, OldReads, vars, Ids
  <2>2. /\ check'.from = check.from /\ check'.last = check.last /\ check'.known = check.known
        /\ check'.expected = check.expected
        /\ \/ check'.pc = check.pc /\ check'.verdict = check.verdict
           \/ check.pc # "idle" /\ check'.pc # "idle" /\ check'.verdict = check.verdict
           \/ check'.pc = "idle" /\ check'.verdict = "broken"
    BY <1>0, <1>8 DEF LookAtRow, Ends, vars, IsCheck, OldReads
  <2> QED BY <2>1, <2>2, ScanKeeps DEF SameRow
<1>9. CASE FlagRow
  <2>1. UNCHANGED altered /\ Ids' = Ids
    BY <1>9 DEF FlagRow, Ids
  <2>2. \A j \in Ids : wal'[j] = IF j = check.at THEN [wal[j] EXCEPT !.exempt = TRUE] ELSE wal[j]
    BY <1>9 DEF FlagRow, Ids
  <2>3. \A j \in Ids : SameRow(wal'[j], wal[j])
    BY <1>0, <2>2 DEF SameRow, IsRow
  <2>4. /\ check'.from = check.from /\ check'.last = check.last /\ check'.known = check.known
        /\ check'.expected = check.expected /\ check'.verdict = check.verdict
        /\ check.pc # "idle" /\ check'.pc # "idle"
    BY <1>0, <1>9 DEF FlagRow, IsCheck
  <2> QED BY <2>1, <2>3, <2>4, ScanKeeps
<1> QED BY <1>1, <1>3, <1>4, <1>5, <1>6, <1>7, <1>8, <1>9 DEF Next, Write, Disturb, Check

\* What the detection rests on holds in every reachable state.
THEOREM TamperAlways == Spec => []TamperInv
<1>1. Init => TamperInv
  <2> SUFFICES ASSUME Init PROVE TamperInv
    OBVIOUS
  <2>1. Ids = {1} /\ nextId = 2 /\ wal[1] = Row("workspace_genesis", Zeros, <<"genesis", 1>>, 1)
    BY DEF Init, Ids
  <2>2. /\ wal[1].payload = "written" /\ wal[1].canon = 1 /\ wal[1].hash = <<"genesis", 1>>
    BY <2>1 DEF Row
  <2>3. EpochRows(wal) /\ Sealed(wal) /\ TipIsFree(wal)
    <3>1. DOMAIN wal = {1}
      BY <2>1 DEF Ids
    <3>2. \A p \in Lockers : pc[p] = "idle"
      BY DEF Init, Lockers
    <3> QED BY <2>1, <2>2, <3>1, <3>2 DEF EpochRows, Sealed, TipIsFree, Seal, SameRow
  <2>4. EpochInv
    BY <2>3 DEF EpochInv
  <2>5. AlteredInv
    BY <2>1, <2>2 DEF Init, AlteredInv
  <2>6. ScanInv(check)
    BY DEF Init, Idle, ScanInv
  <2> QED BY <2>4, <2>5, <2>6 DEF TamperInv
<1>2. IInv /\ IInv' /\ TamperInv /\ [Next]_vars => TamperInv'
  BY EpochNext, AlteredNext, ScanNext DEF TamperInv
<1> QED BY <1>1, <1>2, WalInvariant, PTL DEF Spec

\* A pass that says "valid" has in its range no row of appendWal that was edited
\* when the pass began, and none whose predecessor was taken out, but at the
\* beginning of the range: for any number of writers, batches and faults
\* (verifyWalChain, verifyBatch, repairMcpStragglers).
THEOREM TamperingStaysDetected == Spec => []TamperingIsDetected
<1>1. TamperInv => TamperingIsDetected
  BY DEF TamperInv, ScanInv, Clear, TamperingIsDetected
<1> QED BY <1>1, TamperAlways, PTL

-----------------------------------------------------------------------------
(* What a pass that says "broken" has seen, if only appends, edits and     *)
(* removals happened.                                                      *)

Quiet == count.retained = 0 /\ count.stragglers = 0 /\ count.inits = 0

\* Row j is the first behind l, and row m the newest.
First(j, l) == l < j /\ \A k \in Ids : l < k => j <= k
Newest(m) == \A k \in Ids : k <= m

Lost == altered.edited \cup altered.parted

\* Rows link to their neighbours, or have lost what they link to.
Orderly ==
  /\ Ids # {} /\ pc[Old] = "idle"
  /\ \A i \in Ids : wal[i].canon = 1 => wal[i].op = "workspace_genesis"
  /\ \A j \in Ids : First(j, 0) => wal[j].prev = Zeros \/ j \in Lost
  /\ \A i, j \in Ids : First(j, i) => wal[j].prev = wal[i].hash \/ j \in Lost
  /\ \A p \in Lockers : pc[p] = "read" => \A m \in Ids : Newest(m) => tip[p] = wal[m].hash

\* The hash that the pass c carries is the one that the next row links to.
PassIsOrderly(c) ==
  /\ c.pc \in {"idle", "scan", "look"} /\ c.last \in Nat /\ c.last < nextId
  /\ c.pc = "scan" /\ c.expected # Undefined =>
       /\ \A j \in Ids : First(j, c.last) => wal[j].prev = c.expected \/ j \in Lost
       /\ \A m \in Ids : Newest(m) /\ m <= c.last => c.expected = wal[m].hash
  /\ c.pc = "look" \/ c.verdict = "broken" => c.at \in Lost

CauseInv ==
  /\ count \in [Events \cup {"checks"} -> Nat]
  /\ Quiet => Orderly /\ PassIsOrderly(check)

LEMMA CountNext ==
  ASSUME count \in [Events \cup {"checks"} -> Nat], [Next]_vars
  PROVE  /\ count' \in [Events \cup {"checks"} -> Nat] /\ (Quiet' => Quiet)
         /\ OldReads \/ WriteGenesis \/ (\E i \in Ids : Retain(i)) => ~Quiet'
<1>1. ASSUME NEW e \in Events \cup {"checks"}, NEW n, Happens(e, n)
      PROVE  /\ count' \in [Events \cup {"checks"} -> Nat] /\ count'[e] # 0
             /\ \A d \in Events : count'[d] = 0 => count[d] = 0
  BY <1>1 DEF Happens
<1>2. {"stragglers", "altered", "retained", "inits"} = Events
  BY DEF Events
<1>3. UNCHANGED count \/ \E e \in Events \cup {"checks"}, n \in {MaxStragglers, MaxAltered, MaxRetained, MaxInits, MaxChecks} : Happens(e, n)
  BY DEF Next, Write, Disturb, Check, Lock, ReadTip, Append, Rollback, OldReads, OldWrites,
         WriteGenesis, Retain, Edit, Remove, Start, VerifyBatch, LookAtRow, FlagRow, vars, Events
<1>4. count' \in [Events \cup {"checks"} -> Nat] /\ (Quiet' => Quiet)
  BY <1>1, <1>2, <1>3 DEF Quiet
<1>5. OldReads => count'["stragglers"] # 0
  BY <1>1, <1>2 DEF OldReads
<1>6. WriteGenesis => count'["inits"] # 0
  BY <1>1, <1>2 DEF WriteGenesis
<1>7. (\E i \in Ids : Retain(i)) => count'["retained"] # 0
  BY <1>1, <1>2 DEF Retain
<1> QED BY <1>4, <1>5, <1>6, <1>7 DEF Quiet

\* A row that appendWal wrote is broken only when it was altered.
LEMMA BrokenIsLost ==
  ASSUME IInv, TamperInv, Orderly, PassIsOrderly(check), check.pc = "scan",
         NEW i \in Broken(Batch)
  PROVE  i \in Lost
<1>1. check.last \in Nat
  BY DEF PassIsOrderly
<1>2. /\ i \in Ids /\ i > check.last /\ Batch \subseteq {k \in Ids : k > check.last} /\ i \in Batch
      /\ \A k \in Ids : check.last < k /\ k < i => k \in Batch
  BY <1>1, BatchIs DEF Broken
<1>3. Seal(i, wal[i]) /\ IsRow(wal[i]) /\ \A k \in Ids : k \in Nat
  BY <1>2, RowsAreSealed DEF IInv, TableInv, TamperInv
<1>4. CASE HashFails(i)
  <2>1. wal[i].canon = 2
    BY <1>2, <1>3, <1>4 DEF Orderly, HashFails, IsRow
  <2>2. wal[i].payload = "edited"
    BY <1>3, <1>4, <2>1 DEF HashFails, Seal, IsRow
  <2> QED BY <1>2, <2>2 DEF TamperInv, AlteredInv, Lost
<1>5. CASE LinkFails(i, Batch)
  <2> DEFINE before == {k \in Batch : k < i}
  <2>1. CASE before = {}
    <3>1. Expected(i, Batch) = check.expected
      BY <2>1 DEF Expected
    <3>2. \A k \in Ids : ~(check.last < k /\ k < i)
      BY <1>2, <2>1
    <3>3. First(i, check.last)
      BY <1>1, <1>2, <1>3, <3>2 DEF First
    <3> QED BY <1>2, <1>5, <3>1, <3>3 DEF LinkFails, PassIsOrderly
  <2>2. CASE before # {}
    <3>1. before \in SUBSET (1 .. (nextId - 1)) /\ nextId - 1 \in Nat
      BY <1>2 DEF IInv, TableInv
    <3>2. PICK b : b = Max(before)
      OBVIOUS
    <3>3. b \in before /\ \A k \in before : k <= b
      BY <2>2, <3>1, <3>2, MaxIs
    <3>4. b \in Ids /\ b < i /\ check.last < b
      BY <1>2, <3>3
    <3>5. Expected(i, Batch) = wal[b].hash
      BY <2>2, <3>2 DEF Expected
    <3>6. ASSUME NEW k \in Ids, b < k PROVE i <= k
      <4>1. k \in Nat /\ b \in Nat /\ i \in Nat
        BY <1>2, <1>3, <3>4
      <4>2. k < i => k \in before
        BY <1>1, <1>2, <3>4, <3>6, <4>1
      <4> QED BY <3>3, <3>6, <4>1, <4>2
    <3>7. First(i, b)
      BY <3>4, <3>6 DEF First
    <3> QED BY <1>2, <1>5, <3>4, <3>5, <3>7 DEF LinkFails, Orderly
  <2> QED BY <2>1, <2>2
<1> QED BY <1>2, <1>4, <1>5 DEF Broken

\* The table has a newest row.
LEMMA SomeNewest ==
  ASSUME IInv, Ids # {}
  PROVE  \E m \in Ids : Newest(m)
<1>1. Ids \in SUBSET (1 .. (nextId - 1)) /\ nextId - 1 \in Nat
  BY DEF IInv, TableInv
<1> QED BY <1>1, IntervalMax DEF Newest

\* A new row links to the newest one.
LEMMA CauseAppend ==
  ASSUME IInv, IInv', Orderly, PassIsOrderly(check), altered' = altered,
         NEW p \in Procs, NEW op \in Ops \ {"workspace_genesis"}, Append(p, op)
  PROVE  Orderly' /\ PassIsOrderly(check)'
<1> USE WalAssumption DEF Lockers, Procs
<1>1. PICK n, row : n = nextId /\ row = Row(op, tip[p], Hash(tip[p], op, "written"), 2)
  OBVIOUS
<1>2. IsRow(row) /\ Insert(row) /\ row.canon = 2 /\ row.prev = tip[p]
  BY <1>1, RowIsRow DEF Append
<1>3. /\ nextId' = n + 1 /\ Ids' = Ids \cup {n} /\ wal'[n] = row /\ n \in Nat /\ n >= 1
      /\ \A i \in Ids : wal'[i] = wal[i] /\ i \in Nat /\ 1 <= i /\ i < n
  BY <1>1, <1>2, InsertKeeps DEF IInv, TableInv
<1>4. p \in Lockers /\ pc[p] = "read" /\ \A q \in Lockers : pc'[q] = "idle"
  BY DEF Append, Leaves, IInv, LockInv, ProcInv
<1>5. pc'[Old] = "idle"
  BY <1>4 DEF Append, Leaves, IInv, ProcInv, Orderly
<1>6. p # Upgrade /\ check' = check
  BY <1>4 DEF Append, IInv, LockInv, PassIsOrderly
<1>7. \A j, l \in Nat : j \in Ids /\ First(j, l)' => First(j, l)
  BY <1>3 DEF First
<1>8. \A l \in Nat : First(n, l)' => \A k \in Ids : ~(l < k)
  BY <1>3 DEF First
<1>9. PICK top \in Ids : Newest(top)
  BY SomeNewest DEF Orderly
<1>10. tip[p] = wal[top].hash
  BY <1>4, <1>9 DEF Orderly
<1>11. \A l \in Nat : First(n, l)' => Newest(l) /\ top <= l
  BY <1>3, <1>8, <1>9 DEF Newest
<1>12. Orderly'
  <2>1. \A j \in Ids' : First(j, 0)' => wal'[j].prev = Zeros \/ j \in Lost'
    <3> SUFFICES ASSUME NEW j \in Ids', First(j, 0)' PROVE wal'[j].prev = Zeros \/ j \in Lost'
      OBVIOUS
    <3>1. j # n
      BY <1>3, <1>8, <1>9
    <3> QED BY <1>3, <1>7, <3>1 DEF Orderly, Lost
  <2>2. ASSUME NEW i \in Ids', NEW j \in Ids', First(j, i)'
        PROVE  wal'[j].prev = wal'[i].hash \/ j \in Lost'
    <3>1. i \in Nat /\ j \in Nat /\ i # n
      BY <1>3, <2>2 DEF First
    <3>2. CASE j = n
      <4>1. i = top
        <5>1. top <= i /\ Newest(i) /\ i \in Ids
          BY <1>3, <1>11, <2>2, <3>1, <3>2
        <5> QED BY <1>3, <1>9, <5>1 DEF Newest
      <4> QED BY <1>2, <1>3, <1>10, <3>2, <4>1
    <3>3. CASE j # n
      BY <1>3, <1>7, <2>2, <3>1, <3>3 DEF Orderly, Lost
    <3> QED BY <3>2, <3>3
  <2>3. \A i \in Ids' : wal'[i].canon = 1 => wal'[i].op = "workspace_genesis"
    BY <1>2, <1>3 DEF Orderly
  <2> QED BY <1>3, <1>4, <1>5, <2>1, <2>2, <2>3 DEF Orderly
<1>13. PassIsOrderly(check)'
  <2>1. PICK l \in Nat : l = check.last /\ l < n
    BY <1>1 DEF PassIsOrderly
  <2>2. ASSUME check.pc = "scan", check.expected # Undefined, NEW j \in Ids', First(j, l)'
        PROVE  wal'[j].prev = check.expected \/ j \in Lost'
    <3>1. CASE j = n
      <4>1. top <= l
        BY <1>11, <2>2, <3>1
      <4> QED BY <1>2, <1>3, <1>9, <1>10, <2>1, <2>2, <3>1, <4>1 DEF PassIsOrderly
    <3>2. CASE j # n
      <4>1. j \in Ids /\ j \in Nat /\ First(j, l)
        BY <1>3, <1>7, <2>2, <3>2
      <4> QED BY <1>3, <2>1, <2>2, <4>1 DEF PassIsOrderly, Lost
    <3> QED BY <3>1, <3>2
  <2>3. ASSUME NEW m \in Ids', Newest(m)', m <= l PROVE FALSE
    <3>1. n <= m
      BY <1>3, <2>3 DEF Newest
    <3> QED BY <1>3, <2>1, <2>3, <3>1
  <2>4. l < nextId'
    BY <1>3, <2>1
  <2> QED BY <1>3, <1>6, <2>1, <2>2, <2>3, <2>4 DEF PassIsOrderly, Lost
<1> QED BY <1>12, <1>13

\* The row behind one that is removed has lost what it links to.
LEMMA CauseRemove ==
  ASSUME IInv, AlteredInv, Orderly, PassIsOrderly(check), NEW i \in Ids, Remove(i)
  PROVE  Orderly' /\ PassIsOrderly(check)'
<1>1. UNCHANGED <<nextId, pc, tip, check>>
  BY DEF Remove
<1>2. Ids' = Ids \ {i} /\ \A j \in Ids' : wal'[j] = wal[j]
  BY RemoveLeavesNewest
<1>3. PICK top \in Ids' : i < top /\ \A k \in Ids : k <= top
  BY RemoveLeavesNewest
<1>4. \A j \in Ids : j \in Nat
  BY DEF IInv, TableInv
<1>5. Lost \subseteq Lost'
  BY DEF Remove, Lost, AlteredInv
<1>6. ASSUME NEW j \in Ids, First(j, i) PROVE j \in Lost'
  <2>1. j = NextOf(i)
    <3> DEFINE S == {k \in Ids : k > i}
    <3>1. j \in S /\ \A k \in S : j <= k
      BY <1>4, <1>6 DEF First
    <3>2. S \in SUBSET Nat /\ S # {}
      BY <1>4, <3>1
    <3> HIDE DEF S
    <3>3. Min(S) \in S /\ \A k \in S : Min(S) <= k
      BY <3>2, MinIs
    <3>4. Min(S) = j
      <4>1. Min(S) \in Nat /\ j \in Nat /\ Min(S) <= j /\ j <= Min(S)
        BY <3>1, <3>2, <3>3
      <4> QED BY <4>1
    <3> QED BY <3>4 DEF NextOf, S
  <2>2. CASE wal[j].prev = wal[i].hash
    <3> DEFINE S == {k \in Ids : k = NextOf(i) /\ LinkedTo(k, i)}
    <3>1. altered' = [altered EXCEPT !.parted = altered.parted \cup S]
      BY DEF Remove
    <3>2. j \in S
      BY <2>1, <2>2 DEF LinkedTo
    <3> HIDE DEF S
    <3> QED BY <3>1, <3>2 DEF Lost, AlteredInv
  <2>3. CASE wal[j].prev # wal[i].hash
    BY <1>5, <1>6, <2>3 DEF Orderly
  <2> QED BY <2>2, <2>3
<1>7. ASSUME NEW j \in Ids', NEW l \in Nat, First(j, l)', ~First(j, l)
      PROVE  j \in Lost'
  <2>1. l < j /\ j # i /\ j \in Nat /\ i \in Nat /\ j \in Ids /\ \A k \in Ids : k # i /\ l < k => j <= k
    BY <1>2, <1>4, <1>7 DEF First
  <2>2. l < i /\ i < j
    BY <1>4, <1>7, <2>1 DEF First
  <2>3. First(j, i)
    BY <1>4, <2>1, <2>2 DEF First
  <2> QED BY <1>6, <2>1, <2>3
<1>8. \A m \in Ids' : Newest(m)' => Newest(m)
  <2> SUFFICES ASSUME NEW m \in Ids', Newest(m)', NEW k \in Ids PROVE k <= m
    BY DEF Newest
  <2>1. top <= m /\ k <= top /\ m \in Nat /\ k \in Nat /\ top \in Nat
    BY <1>2, <1>3, <1>4 DEF Newest
  <2> QED BY <2>1
<1>9. Orderly'
  <2>1. \A j \in Ids' : First(j, 0)' => wal'[j].prev = Zeros \/ j \in Lost'
    BY <1>2, <1>5, <1>7 DEF Orderly
  <2>2. \A j, k \in Ids' : First(j, k)' => wal'[j].prev = wal'[k].hash \/ j \in Lost'
    BY <1>2, <1>4, <1>5, <1>7 DEF Orderly
  <2>3. Ids' # {} /\ pc'[Old] = "idle"
    BY <1>1, <1>3 DEF Orderly
  <2>4. \A p \in Lockers : pc'[p] = "read" => \A m \in Ids' : Newest(m)' => tip'[p] = wal'[m].hash
    BY <1>1, <1>2, <1>8 DEF Orderly
  <2>5. \A j \in Ids' : wal'[j].canon = 1 => wal'[j].op = "workspace_genesis"
    BY <1>2 DEF Orderly
  <2> QED BY <2>1, <2>2, <2>3, <2>4, <2>5 DEF Orderly
<1>10. PassIsOrderly(check)'
  BY <1>1, <1>2, <1>5, <1>7, <1>8 DEF PassIsOrderly
<1> QED BY <1>9, <1>10

LEMMA CauseStart ==
  ASSUME IInv, AlteredInv, Orderly, NEW mode \in Modes, Start(mode)
  PROVE  PassIsOrderly(check)'
<1>1. UNCHANGED <<wal, nextId, altered>> /\ Ids' = Ids
  BY DEF Start, Ids
<1>2. nextId \in Nat /\ nextId >= 1 /\ \A i \in Ids : i \in Nat /\ 1 <= i /\ i < nextId
  BY DEF IInv, TableInv
<1>3. PICK from : from = FromId(mode)
  OBVIOUS
<1>4. from = 0 \/ from \in Ids
  BY <1>3, StartsAtARow
<1>5. /\ check'.pc = "scan" /\ check'.verdict = "none"
      /\ check'.last = (IF from = 0 THEN 0 ELSE from - 1)
      /\ check'.expected = (IF from = 0 THEN Zeros ELSE Undefined)
  BY <1>3 DEF Start, Idle
<1>6. check'.last \in Nat /\ check'.last < nextId
  BY <1>2, <1>4, <1>5
<1>7. CASE from = 0
  <2>1. \A j \in Ids : First(j, 0) => wal[j].prev = Zeros \/ j \in Lost
    BY DEF Orderly
  <2>2. \A m \in Ids : ~(m <= 0)
    BY <1>2
  <2>3. \A j \in Ids' : First(j, 0)' => First(j, 0)
    BY <1>1 DEF First
  <2>4. check'.last = 0 /\ check'.expected = Zeros
    BY <1>5, <1>7
  <2>5. \A j \in Ids' : First(j, check.last)' => First(j, 0)
    BY <1>1, <2>4 DEF First
  <2> QED BY <1>1, <1>5, <1>6, <2>1, <2>2, <2>4, <2>5 DEF PassIsOrderly, Lost
<1>8. CASE from # 0
  <2>1. check'.expected = Undefined
    BY <1>5, <1>8
  <2> QED BY <1>1, <1>5, <1>6, <2>1 DEF PassIsOrderly
<1> QED BY <1>7, <1>8

LEMMA CauseBatch ==
  ASSUME IInv, TamperInv, Orderly, PassIsOrderly(check), VerifyBatch
  PROVE  PassIsOrderly(check)'
<1>0. /\ UNCHANGED <<wal, nextId, altered>> /\ Ids' = Ids /\ Lost' = Lost
      /\ check.pc = "scan" /\ IsCheck(check) /\ check.verdict = "none"
  BY DEF VerifyBatch, Ids, IInv, CheckInv, TamperInv, ScanInv, Lost
<1>1. check.last \in Nat /\ nextId \in Nat /\ \A i \in Ids : i \in Nat /\ i < nextId
  BY DEF PassIsOrderly, IInv, TableInv
<1>2. PICK rows : rows = Batch
  OBVIOUS
<1>3. rows \subseteq Ids /\ (~(Cardinality(rows) < BatchSize) => rows # {})
  BY <1>1, <1>2, BatchIs
<1>4. CASE Broken(rows) # {}
  <2>1. PICK b : b = Min(Broken(rows))
    OBVIOUS
  <2>2. Broken(rows) \in SUBSET Nat
    BY <1>1, <1>3 DEF Broken
  <2>3. b \in Broken(rows)
    BY <1>4, <2>1, <2>2, MinIs
  <2>4. b \in Lost
    BY <1>0, <1>2, <2>3, BrokenIsLost
  <2>5. check'.at = b /\ check'.last = check.last /\ check'.pc \in {"look", "idle"}
    BY <1>0, <1>2, <1>4, <2>1 DEF VerifyBatch, Ends, IsCheck
  <2> QED BY <1>0, <2>4, <2>5 DEF PassIsOrderly
<1>5. CASE Broken(rows) = {} /\ Cardinality(rows) < BatchSize
  <2>1. check'.pc = "idle" /\ check'.verdict = "valid" /\ check'.last = check.last
    BY <1>0, <1>2, <1>5 DEF VerifyBatch, Ends, IsCheck
  <2> QED BY <1>0, <2>1 DEF PassIsOrderly
<1>6. CASE Broken(rows) = {} /\ ~(Cardinality(rows) < BatchSize)
  <2>1. PICK m : m = Max(rows)
    OBVIOUS
  <2>2. m \in rows
    <3>1. rows \in SUBSET (1 .. (nextId - 1)) /\ nextId - 1 \in Nat
      BY <1>3 DEF IInv, TableInv
    <3> QED BY <1>3, <1>6, <2>1, <3>1, MaxIs
  <2>3. m \in Ids /\ m \in Nat /\ m < nextId
    BY <1>1, <1>3, <2>2
  <2>4. /\ check'.last = m /\ check'.pc = "scan" /\ check'.verdict = "none"
        /\ check'.expected = wal[m].hash
    BY <1>0, <1>2, <1>6, <2>1 DEF VerifyBatch, IsCheck
  <2>5. \A j \in Ids : First(j, m) => wal[j].prev = wal[m].hash \/ j \in Lost
    BY <2>3 DEF Orderly
  <2>6. \A k \in Ids : Newest(k) /\ k <= m => k = m
    BY <1>1, <2>3 DEF Newest
  <2>7. \A j \in Ids' : First(j, check.last)' => First(j, m)
    BY <1>0, <2>4 DEF First
  <2>8. \A j \in Ids' : Newest(j)' => Newest(j)
    BY <1>0 DEF Newest
  <2> QED BY <1>0, <2>3, <2>4, <2>5, <2>6, <2>7, <2>8 DEF PassIsOrderly
<1> QED BY <1>4, <1>5, <1>6

\* A step that neither moves rows nor reads the tip.
LEMMA CauseFrame ==
  ASSUME Orderly, Ids' = Ids, \A i \in Ids : SameRow(wal'[i], wal[i]), Lost \subseteq Lost',
         pc'[Old] = "idle",
         \A p \in Lockers : pc'[p] = "read" => pc[p] = "read" /\ tip'[p] = tip[p]
  PROVE  /\ Orderly'
         /\ nextId' = nextId /\ check' = check /\ PassIsOrderly(check) => PassIsOrderly(check)'
<1>1. \A j, l : First(j, l)' <=> First(j, l)
  BY DEF First
<1>2. \A m : Newest(m)' <=> Newest(m)
  BY DEF Newest
<1>3. Orderly'
  BY <1>1, <1>2 DEF Orderly, SameRow
<1>4. ASSUME nextId' = nextId, check' = check, PassIsOrderly(check) PROVE PassIsOrderly(check)'
  BY <1>1, <1>2, <1>4 DEF PassIsOrderly, SameRow
<1> QED BY <1>3, <1>4

LEMMA CauseWriter ==
  ASSUME IInv, Orderly, PassIsOrderly(check), NEW p \in Procs, Lock(p) \/ ReadTip(p) \/ Rollback(p)
  PROVE  Orderly' /\ PassIsOrderly(check)'
<1> USE WalAssumption DEF Lockers, Procs
<1>1. UNCHANGED <<wal, nextId, altered>> /\ Ids' = Ids /\ Lost' = Lost
  BY DEF Lock, ReadTip, Rollback, Ids, Lost
<1>2. p # Old /\ pc'[Old] = "idle"
  <2>1. p # Old
    BY DEF Lock, ReadTip, Rollback, Wants, Orderly
  <2> QED BY <2>1 DEF Lock, ReadTip, Rollback, Leaves, Orderly, IInv, ProcInv
<1>3. PassIsOrderly(check)'
  <2>1. CASE check' = check
    <3>1. \A j, l : First(j, l)' <=> First(j, l)
      BY <1>1 DEF First
    <3>2. \A m : Newest(m)' <=> Newest(m)
      BY <1>1 DEF Newest
    <3> QED BY <1>1, <2>1, <3>1, <3>2 DEF PassIsOrderly
  <2>2. CASE check' = Idle
    <3>1. 0 < nextId /\ nextId \in Nat
      BY DEF IInv, TableInv
    <3> QED BY <1>1, <2>2, <3>1 DEF PassIsOrderly, Idle
  <2> QED BY <2>1, <2>2 DEF Lock, ReadTip, Rollback
<1>4. CASE Lock(p) \/ Rollback(p)
  <2>1. \A q \in Lockers : pc'[q] = "read" => pc[q] = "read" /\ tip'[q] = tip[q]
    BY <1>2, <1>4 DEF Lock, Rollback, Leaves, IInv, ProcInv
  <2> QED BY <1>1, <1>2, <1>3, <2>1, CauseFrame DEF SameRow
<1>5. CASE ReadTip(p)
  <2>1. \A q \in Lockers : pc'[q] = "read" => q = p
    BY <1>2, <1>5 DEF ReadTip, IInv, LockInv, ProcInv
  <2>2. tip'[p] = TipHash
    BY <1>5 DEF ReadTip, IInv, ProcInv
  <2>3. \A m \in Ids : Newest(m) => TipHash = wal[m].hash
    <3>1. SUFFICES ASSUME NEW m \in Ids, Newest(m) PROVE Max(Ids) = m
      BY DEF TipHash
    <3>2. Ids \in SUBSET (1 .. (nextId - 1)) /\ nextId - 1 \in Nat
      BY DEF IInv, TableInv
    <3>3. PICK top : top = Max(Ids)
      OBVIOUS
    <3>4. top \in Ids /\ \A k \in Ids : k <= top
      BY <3>1, <3>2, <3>3, MaxIs
    <3>5. m \in Nat /\ top \in Nat /\ m <= top /\ top <= m
      BY <3>1, <3>2, <3>4 DEF Newest
    <3> QED BY <3>3, <3>5
  <2>4. \A j, l : First(j, l)' <=> First(j, l)
    BY <1>1 DEF First
  <2>5. \A m : Newest(m)' <=> Newest(m)
    BY <1>1 DEF Newest
  <2> QED BY <1>1, <1>2, <1>3, <2>1, <2>2, <2>3, <2>4, <2>5 DEF Orderly
<1> QED BY <1>4, <1>5

LEMMA CauseEdit ==
  ASSUME IInv, AlteredInv, Orderly, PassIsOrderly(check), NEW i \in Ids, Edit(i)
  PROVE  Orderly' /\ PassIsOrderly(check)'
<1>1. Ids' = Ids /\ UNCHANGED <<nextId, pc, tip, check>>
  BY DEF Edit, Ids
<1>2. \A j \in Ids : IsRow(wal[j])
  BY DEF IInv, TableInv
<1>3. \A j \in Ids : SameRow(wal'[j], wal[j])
  BY <1>2 DEF Edit, Ids, SameRow, IsRow
<1>4. Lost \subseteq Lost'
  BY DEF Edit, Lost, AlteredInv
<1>5. pc'[Old] = "idle"
  BY <1>1 DEF Orderly
<1> QED BY <1>1, <1>3, <1>4, <1>5, CauseFrame

LEMMA CauseNext ==
  ASSUME IInv, IInv', TamperInv, CauseInv, [Next]_vars
  PROVE  CauseInv'
<1>1. count' \in [Events \cup {"checks"} -> Nat] /\ (Quiet' => Quiet)
  BY CountNext DEF CauseInv
<1>2. SUFFICES ASSUME Quiet' PROVE Orderly' /\ PassIsOrderly(check)'
  BY <1>1 DEF CauseInv
<1>3. Orderly /\ PassIsOrderly(check)
  BY <1>1, <1>2 DEF CauseInv
<1>4. ~OldReads /\ ~WriteGenesis /\ ~(\E i \in Ids : Retain(i)) /\ ~OldWrites /\ ~FlagRow
  BY <1>2, <1>3, CountNext DEF CauseInv, OldWrites, FlagRow, Orderly, PassIsOrderly
<1>5. ASSUME NEW p \in Procs, Lock(p) \/ ReadTip(p) \/ Rollback(p)
      PROVE  Orderly' /\ PassIsOrderly(check)'
  BY <1>3, <1>5, CauseWriter
<1>6. ASSUME NEW p \in Procs, NEW op \in Ops \ {"workspace_genesis"}, Append(p, op)
      PROVE  Orderly' /\ PassIsOrderly(check)'
  <2>1. altered' = altered
    BY <1>6 DEF Append
  <2> QED BY <1>3, <1>6, <2>1, CauseAppend
<1>7. ASSUME NEW i \in Ids, Edit(i) \/ Remove(i) PROVE Orderly' /\ PassIsOrderly(check)'
  BY <1>3, <1>7, CauseEdit, CauseRemove DEF TamperInv
<1>8. ASSUME Ids' = Ids, UNCHANGED <<wal, pc, tip, altered>> PROVE Orderly'
  <2>1. Lost' = Lost /\ pc'[Old] = "idle"
    BY <1>3, <1>8 DEF Lost, Orderly
  <2> QED BY <1>3, <1>8, <2>1, CauseFrame DEF SameRow
<1>9. ASSUME NEW mode \in Modes, Start(mode) PROVE Orderly' /\ PassIsOrderly(check)'
  <2>1. Ids' = Ids /\ UNCHANGED <<wal, pc, tip, altered>>
    BY <1>9 DEF Start, Ids
  <2> QED BY <1>3, <1>8, <1>9, <2>1, CauseStart DEF TamperInv
<1>10. CASE VerifyBatch
  <2>1. Ids' = Ids /\ UNCHANGED <<wal, pc, tip, altered>>
    BY <1>10 DEF VerifyBatch, Ids
  <2> QED BY <1>3, <1>8, <1>10, <2>1, CauseBatch
<1>11. CASE LookAtRow
  <2>1. Ids' = Ids /\ UNCHANGED <<wal, pc, tip, altered, nextId>> /\ Lost' = Lost
    BY <1>11 DEF LookAtRow, Ids, Lost
  <2>2. ~IsStraggler(check.at)
    BY <1>3 DEF IsStraggler, Orderly
  <2>3. check.at \in Lost /\ IsCheck(check)
    BY <1>3, <1>11 DEF LookAtRow, PassIsOrderly, IInv, CheckInv
  <2>4. check'.pc = "idle" /\ check'.at = check.at /\ check'.last = check.last
    BY <1>11, <2>2, <2>3 DEF LookAtRow, Ends, IsCheck
  <2>5. PassIsOrderly(check)'
    BY <1>3, <2>1, <2>3, <2>4 DEF PassIsOrderly
  <2> QED BY <1>8, <2>1, <2>5
<1>12. CASE UNCHANGED vars
  <2>1. Ids' = Ids /\ UNCHANGED <<wal, pc, tip, altered, nextId, check>> /\ Lost' = Lost
    BY <1>12 DEF vars, Ids, Lost
  <2>2. pc'[Old] = "idle"
    BY <1>3, <2>1 DEF Orderly
  <2> QED BY <1>3, <2>1, <2>2, CauseFrame DEF SameRow
<1> QED BY <1>4, <1>5, <1>6, <1>7, <1>9, <1>10, <1>11, <1>12 DEF Next, Write, Disturb, Check

\* Appends that run beside a pass raise no alarm: a pass that says "broken" names
\* a row that was edited or has lost the row it links to, unless retention, an
\* old writer or a second init came in between (appendWal, verifyBatch).
THEOREM AlarmsStayCaused == Spec => []AlarmsHaveCause
<1>1. Init => CauseInv
  <2> SUFFICES ASSUME Init PROVE CauseInv
    OBVIOUS
  <2>1. Ids = {1} /\ nextId = 2 /\ wal[1] = Row("workspace_genesis", Zeros, <<"genesis", 1>>, 1)
    BY DEF Init, Ids
  <2>2. /\ wal[1].prev = Zeros /\ wal[1].canon = 1 /\ wal[1].op = "workspace_genesis"
    BY <2>1 DEF Row
  <2>3. pc[Old] = "idle" /\ \A p \in Lockers : pc[p] = "idle"
    BY DEF Init, Procs, Lockers
  <2>4. Orderly
    BY <2>1, <2>2, <2>3 DEF Orderly, First
  <2>5. PassIsOrderly(check)
    BY <2>1 DEF Init, Idle, PassIsOrderly
  <2>6. count \in [Events \cup {"checks"} -> Nat]
    BY DEF Init
  <2> QED BY <2>4, <2>5, <2>6 DEF CauseInv
<1>2. IInv /\ IInv' /\ TamperInv /\ CauseInv /\ [Next]_vars => CauseInv'
  BY CauseNext
<1>3. CauseInv => AlarmsHaveCause
  BY DEF CauseInv, Quiet, PassIsOrderly, Lost, AlarmsHaveCause
<1> QED BY <1>1, <1>2, <1>3, WalInvariant, TamperAlways, PTL DEF Spec

=============================================================================
