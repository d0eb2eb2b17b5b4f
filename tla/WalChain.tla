------------------------------ MODULE WalChain ------------------------------
(***************************************************************************)
(* The write-ahead log of the palace: a hash chain in one table, appended  *)
(* to by every process of a workspace (wal.ts, appendWal), checked by      *)
(* `nexaas verify-wal', the conformance gate and the repair pass of an     *)
(* upgrade (verifyWalChain, repairMcpStragglers), trimmed by the retention *)
(* timer of the worker, and started by `nexaas init'.                      *)
(*                                                                         *)
(* A hash is ideal: Hash is injective.  The id of a row is its place in    *)
(* the order of inserts; created_at has the same order, since appendWal    *)
(* takes both under the lock.  The insert of appendWal and its commit are  *)
(* one step.  Old is a palace MCP server from before issue #235 that an    *)
(* upgrade has not restarted yet: it takes no lock and its hash is bogus.  *)
(***************************************************************************)
EXTENDS Naturals, FiniteSets, FiniteSetsExt

CONSTANTS Writers,       \* processes that call appendWal
          Upgrade,       \* the process that runs the repair pass
          Old,           \* the palace MCP server from before the upgrade
          BatchSize,     \* VERIFY_BATCH_SIZE
          Window,        \* rows of the default window
          MaxFlags,      \* maxFlags of a repair pass
          MaxRows, MaxChecks, MaxStragglers, MaxAltered, MaxRetained, MaxInits,
          MaxEvents      \* of the last four together

ASSUME WalAssumption ==
  /\ Upgrade \notin Writers /\ Old \notin Writers /\ Upgrade # Old
  /\ {BatchSize, Window, MaxFlags, MaxRows, MaxChecks, MaxStragglers,
      MaxAltered, MaxRetained, MaxInits, MaxEvents} \subseteq Nat
  /\ BatchSize > 0 /\ Window > 0 /\ MaxRows > 0

VARIABLES
  wal,       \* the rows of the table, by id
  nextId,    \* the id the next row gets
  pc, tip,   \* appendWal of each process: how far it is, the hash it read
  check,     \* the verification or repair pass that runs, and its verdict
  altered,   \* rows edited in the table, or whose predecessor was removed
  restart,   \* the last id when a repair pass took its cutoff
  count      \* how often each bounded event has happened

vars == <<wal, nextId, pc, tip, check, altered, restart, count>>

Procs == Writers \cup {Upgrade, Old}
Ids == DOMAIN wal
Ops == {"workspace_genesis", "palace_mcp_write", "other"}
Modes == {"default", "full", "oldest", "repair"}
Zeros == <<"zeros">>              \* GENESIS_HASH
Undefined == <<"undefined">>

Hash(prev, op, payload) == <<prev, op, payload>>

Row(op, prev, hash, canon) ==
  [op |-> op, payload |-> "written", prev |-> prev, hash |-> hash,
   canon |-> canon, exempt |-> FALSE]

Insert(row) == /\ nextId <= MaxRows
               /\ wal' = [i \in Ids \cup {nextId} |-> IF i = nextId THEN row ELSE wal[i]]
               /\ nextId' = nextId + 1

Events == {"stragglers", "altered", "retained", "inits"}
Total == count.stragglers + count.altered + count.retained + count.inits

Happens(event, max) == /\ count[event] < max
                       /\ event \in Events => Total < MaxEvents
                       /\ count' = [count EXCEPT ![event] = @ + 1]

TipHash == IF Ids = {} THEN Zeros ELSE wal[Max(Ids)].hash

Idle == [pc |-> "idle", mode |-> "default", from |-> 0, last |-> 0,
         expected |-> Undefined, at |-> 0, flagged |-> {},
         known |-> [edited |-> {}, parted |-> {}], verdict |-> "none"]

-----------------------------------------------------------------------------
(* appendWal.  The audit entry of a repair pass is an append of Upgrade.    *)

Wants(p) == IF p = Upgrade THEN check.pc = "audit" ELSE p \in Writers

\* Slip: The lock is not taken (the code before issue #71).
LockNotTaken == TRUE

LockFree == \A q \in Procs \ {Old} : pc[q] = "idle"

Lock(p) ==
  /\ Wants(p) /\ pc[p] = "idle" /\ LockFree
  /\ pc' = [pc EXCEPT ![p] = "locked"]
  /\ UNCHANGED <<wal, nextId, tip, check, altered, restart, count>>

ReadTip(p) ==
  /\ p # Old /\ pc[p] = "locked"
  /\ tip' = [tip EXCEPT ![p] = TipHash]
  /\ pc' = [pc EXCEPT ![p] = "read"]
  /\ UNCHANGED <<wal, nextId, check, altered, restart, count>>

Leaves(p) == /\ pc' = [pc EXCEPT ![p] = "idle"]
             /\ tip' = [tip EXCEPT ![p] = Zeros]

\* Where a repair pass goes on when its audit entry is written: at the row
\* it has just flagged, whose prev_hash is then not compared.
Resumed == [check EXCEPT !.pc = "scan", !.from = check.at, !.last = check.at - 1,
                         !.expected = Undefined,
                         !.flagged = @ \cup {check.at}]

Append(p, op) ==
  /\ p # Old /\ pc[p] = "read"
  /\ Insert(Row(op, tip[p], Hash(tip[p], op, "written"), 2))
  /\ Leaves(p)
  /\ check' = IF p = Upgrade THEN Resumed ELSE check
  /\ UNCHANGED <<altered, restart, count>>

\* The transaction fails or the process dies: a rollback.  A repair pass
\* throws out of repairMcpStragglers.
Rollback(p) ==
  /\ p # Old /\ pc[p] \in {"locked", "read"}
  /\ Leaves(p)
  /\ check' = IF p = Upgrade THEN Idle ELSE check
  /\ UNCHANGED <<wal, nextId, altered, restart, count>>

\* The writer from before the upgrade: no lock, and a hash of nothing in the row.
OldReads ==
  /\ pc[Old] = "idle" /\ Happens("stragglers", MaxStragglers)
  /\ tip' = [tip EXCEPT ![Old] = TipHash]
  /\ pc' = [pc EXCEPT ![Old] = "read"]
  /\ UNCHANGED <<wal, nextId, check, altered, restart>>

OldWrites ==
  /\ pc[Old] = "read"
  /\ Insert(Row("palace_mcp_write", tip[Old], <<"bogus", nextId>>, 1))
  /\ Leaves(Old)
  /\ UNCHANGED <<check, altered, restart, count>>

\* `nexaas init': the anchor of the chain, unless the table has one.
WriteGenesis ==
  /\ Happens("inits", MaxInits)
  /\ \A i \in Ids : wal[i].op # "workspace_genesis"
  /\ Insert(Row("workspace_genesis", Zeros, <<"genesis", nextId>>, 1))
  /\ UNCHANGED <<pc, tip, check, altered, restart>>

-----------------------------------------------------------------------------
(* Rows go and rows change.                                                *)

Keep(ids) == wal' = [i \in ids |-> wal[i]]

\* The retention timer: the rows that are old enough are the oldest ones.
Retain(last) ==
  /\ last \in Ids /\ Happens("retained", MaxRetained)
  /\ Keep({i \in Ids : i > last})
  /\ UNCHANGED <<nextId, pc, tip, check, altered, restart>>

\* What the chain is there to show: a row edited in the table, and a row
\* taken out of it (the last row leaves no trace in a chain and is left out).
Edit(i) ==
  /\ i \in Ids /\ Happens("altered", MaxAltered)
  /\ wal' = [wal EXCEPT ![i].payload = "edited"]
  /\ altered' = [altered EXCEPT !.edited = @ \cup {i}]
  /\ UNCHANGED <<nextId, pc, tip, check, restart>>

NextOf(i) == Min({j \in Ids : j > i})
LinkedTo(j, i) == wal[j].prev = wal[i].hash

Remove(i) ==
  /\ i \in Ids /\ i # Max(Ids) /\ Happens("altered", MaxAltered)
  /\ Keep(Ids \ {i})
  /\ altered' = [altered EXCEPT !.parted =
                   @ \cup {j \in Ids : j = NextOf(i) /\ LinkedTo(j, i)}]
  /\ UNCHANGED <<nextId, pc, tip, check, restart>>

-----------------------------------------------------------------------------
(* verifyWalChain and its callers.                                         *)

\* The anchor statement: the row Window - 1 behind the newest one.
Anchor == LET older == {i \in Ids : Cardinality({j \in Ids : j > i}) = Window - 1}
          IN  IF older = {} THEN 0 ELSE Max(older)

FromId(mode) ==
  CASE mode = "full"   -> 0
    [] mode = "oldest" -> Min(Ids)
    [] OTHER           -> Anchor

Start(mode) ==
  /\ mode = "oldest" => Ids # {}
  /\ check.pc = "idle" /\ Happens("checks", MaxChecks)
  /\ LET from == FromId(mode) IN
       check' = [Idle EXCEPT !.pc = "scan", !.mode = mode, !.from = from,
                             !.last = IF from = 0 THEN 0 ELSE from - 1,
                             !.expected = IF from = 0 THEN Zeros ELSE Undefined,
                             !.known = altered]
  /\ restart' = IF mode = "repair" THEN nextId - 1 ELSE restart
  /\ UNCHANGED <<wal, nextId, pc, tip, altered>>

\* The rows of one statement: the first BatchSize after the cursor.
Batch == {i \in Ids : /\ i > check.last
                      /\ Cardinality({j \in Ids : j > check.last /\ j < i}) < BatchSize}

\* Slip: The cursor moves on without the hash that links the batches.
ExpectedInBatch(i, rows) ==
  LET before == {j \in rows : j < i}
  IN  IF before = {} THEN Undefined ELSE wal[Max(before)].hash

Expected(i, rows) ==
  LET before == {j \in rows : j < i}
  IN  IF before = {} THEN check.expected ELSE wal[Max(before)].hash

LinkFails(i, rows) == /\ Expected(i, rows) # Undefined
                      /\ wal[i].prev # Expected(i, rows)

\* Slip: The anchor of init is checked like any other row.
HashFailsAnchor(i) == /\ ~wal[i].exempt
                      /\ wal[i].hash # Hash(wal[i].prev, wal[i].op, wal[i].payload)

\* No hash of a version 1 row of the model is canonical (Old, init).
HashFails(i) == /\ ~wal[i].exempt /\ wal[i].op # "workspace_genesis"
                /\ wal[i].hash # Hash(wal[i].prev, wal[i].op, wal[i].payload)

Broken(rows) == {i \in rows : LinkFails(i, rows) \/ HashFails(i)}

Ends(verdict, at) == check' = [check EXCEPT !.pc = "idle", !.verdict = verdict, !.at = at]

VerifyBatch ==
  /\ check.pc = "scan"
  /\ LET rows == Batch IN
       IF Broken(rows) # {}
         THEN IF check.mode = "repair" /\ Cardinality(check.flagged) < MaxFlags
                THEN check' = [check EXCEPT !.pc = "look", !.at = Min(Broken(rows))]
                ELSE Ends("broken", Min(Broken(rows)))
         ELSE IF Cardinality(rows) < BatchSize
                THEN Ends("valid", 0)
                ELSE check' = [check EXCEPT !.last = Max(rows),
                                            !.expected = wal[Max(rows)].hash]
  /\ UNCHANGED <<wal, nextId, pc, tip, altered, restart, count>>

\* repairMcpStragglers: the conditions on the row the verifier stopped at.
IsStraggler(i) == /\ i \in Ids
                  /\ wal[i].op = "palace_mcp_write"
                  /\ ~wal[i].exempt
                  /\ wal[i].canon = 1
                  /\ i <= restart

LookAtRow ==
  /\ check.pc = "look"
  /\ IF IsStraggler(check.at) THEN check' = [check EXCEPT !.pc = "flag"]
                              ELSE Ends("broken", check.at)
  /\ UNCHANGED <<wal, nextId, pc, tip, altered, restart, count>>

FlagRow ==
  /\ check.pc = "flag"
  /\ wal' = [i \in Ids |-> IF i = check.at THEN [wal[i] EXCEPT !.exempt = TRUE]
                                           ELSE wal[i]]
  /\ check' = [check EXCEPT !.pc = "audit"]
  /\ UNCHANGED <<nextId, pc, tip, altered, restart, count>>

-----------------------------------------------------------------------------
(* A chain that init has started.                                          *)

Init ==
  /\ wal = [i \in {1} |-> Row("workspace_genesis", Zeros, <<"genesis", 1>>, 1)]
  /\ nextId = 2
  /\ pc = [p \in Procs |-> "idle"]
  /\ tip = [p \in Procs |-> Zeros]
  /\ check = Idle
  /\ altered = [edited |-> {}, parted |-> {}]
  /\ restart = 0
  /\ count = [e \in Events \cup {"checks"} |-> 0]

Write == \E p \in Procs : \/ Lock(p)
                          \/ ReadTip(p)
                          \/ \E op \in Ops \ {"workspace_genesis"} : Append(p, op)
                          \/ Rollback(p)

Disturb == \/ OldReads
           \/ OldWrites
           \/ WriteGenesis
           \/ \E i \in Ids : Retain(i) \/ Edit(i) \/ Remove(i)

Check == \/ \E mode \in Modes : Start(mode)
         \/ VerifyBatch
         \/ LookAtRow
         \/ FlagRow

Next == Write \/ Disturb \/ Check

Spec == Init /\ [][Next]_vars

-----------------------------------------------------------------------------
(* Properties.                                                             *)

\* The form of the table and of the pass that runs.  Wrong when an id is given
\* out twice, or when a pass flags more rows than it may.
TypeOK ==
  /\ Ids \subseteq 1 .. (nextId - 1) /\ nextId \in 1 .. (MaxRows + 1)
  /\ \A i \in Ids : /\ wal[i].op \in Ops /\ wal[i].payload \in {"written", "edited"}
                    /\ wal[i].canon \in {1, 2} /\ wal[i].exempt \in BOOLEAN
  /\ pc \in [Procs -> {"idle", "locked", "read"}]
  /\ check.pc \in {"idle", "scan", "look", "flag", "audit"}
  /\ check.mode \in Modes /\ check.verdict \in {"none", "valid", "broken"}
  /\ check.flagged \subseteq 1 .. restart /\ Cardinality(check.flagged) <= MaxFlags
  /\ restart < nextId

\* The lock of appendWal (issue #71): two appended rows in a row are linked,
\* however the appends of any number of processes overlap, whatever is
\* deleted or written around them.
Linked ==
  \A i \in Ids : (i + 1 \in Ids /\ wal[i].canon = 2 /\ wal[i + 1].canon = 2)
                   => wal[i + 1].prev = wal[i].hash

\* What the chain is for: a pass that says "valid" has no row in its range
\* that appendWal wrote and that somebody had edited when the pass began, and
\* no row that has lost the row it links to, unless the range begins there.
\* It holds across batches, appends and retention while the pass runs, and no
\* repair hides an edited row.
TamperingIsDetected ==
  check.verdict = "valid" =>
    \A i \in Ids :
      (i >= check.from /\ wal[i].canon = 2) =>
        /\ i \notin check.known.edited
        /\ i \in check.known.parted => \A j \in Ids : j < check.from \/ j >= i

\* A pass that says "broken" names a row that was edited or has lost its
\* predecessor, unless retention, an old writer or a second init touched the
\* chain: appends that run at the same time raise no false alarm.
AlarmsHaveCause ==
  (check.verdict = "broken" /\ count.retained = 0 /\ count.stragglers = 0
     /\ count.inits = 0)
    => check.at \in altered.edited \cup altered.parted

\* "nothing after the new code took over is ever exempted": the rows taken out
\* of the verification are those of the old writer, from before the restart.
RepairIsTargeted ==
  \A i \in Ids : wal[i].exempt =>
    i <= restart /\ wal[i].hash = <<"bogus", i>>

=============================================================================
