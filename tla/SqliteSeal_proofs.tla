------------------------- MODULE SqliteSeal_proofs -------------------------
(***************************************************************************)
(* Proofs about the sealing of a SQLite store (SqliteSeal): a start that   *)
(* succeeds has left no plaintext in a cell, the debt of erasing it from   *)
(* the pages is never forgotten, and no value that does not open is        *)
(* touched. For any columns, rows, keys, batch size and number of starts.  *)
(***************************************************************************)
EXTENDS SqliteSeal, FiniteSetTheorems, WellFoundedInduction, TLAPS

-----------------------------------------------------------------------------
(* The inductive invariant. *)

\* The cell holds no plaintext, or a keyless process wrote it since it was walked.
Clean(i, r) == value[i][r] = Plain => <<i, r>> \in late

CleanItem(i) == \A r \in Rows : Clean(i, r)

\* An item that is walked is clean up to its cursor; on any other the walk starts
\* at the first row.
Walked ==
  \A i \in 1..Items :
    IF item[i].state = "sealing"
    THEN \A r \in Rows : r <= item[i].cursor => Clean(i, r)
    ELSE item[i].cursor = 0

\* How far this start has come: the sealed items it looked through are clean, the
\* items it is done with are sealed, and it walks the one it is at.
Progress ==
  /\ proc.pc # "down" => proc.key \in Keys
  /\ \A i \in 1..Items :
       /\ Finished(i) /\ proc.pc = "reopen" /\ i < proc.item => CleanItem(i)
       /\ Finished(i) /\ proc.pc \in {"item", "batch", "finish"} => CleanItem(i)
       /\ proc.pc \in {"item", "batch", "finish"} /\ i < proc.item => Finished(i)
  /\ proc.pc \in {"batch", "finish"} =>
       proc.item \in 1..Items /\ item[proc.item].state = "sealing"
  /\ proc.pc = "finish" => CleanItem(proc.item)

\* The compaction of a start comes before everything else, that of the
\* background job after it.
Compactions ==
  /\ proc.after = "serve" => proc.pc \in {"owed", "scrub", "vacuum", "serving"}
  /\ proc.pc \in {"owed", "scrub", "vacuum"} /\ proc.after = "none" => proc.item = 1
  /\ proc.pc \in {"owed", "scrub", "vacuum", "reopen"} /\ proc.after = "none" => ~proc.sealed

ServesClean ==
  proc.pc \in {"truncate", "zero", "compact", "serving"} \/ proc.after = "serve" =>
    \A i \in 1..Items : CleanItem(i)

SealInv == TypeOK /\ Walked /\ Progress /\ Compactions /\ ServesClean

\* Wherever this start replaces plaintext or erases what is left of it, the
\* store's record says that the scrub is owed.
Debt ==
  /\ rec.scrubbed => "free" \notin residue
  /\ Started /\ ~tainted /\ residue # {} => Owed
  /\ proc.pc \in {"batch", "finish", "scrub", "vacuum", "truncate", "zero", "compact"} => Owed
  /\ proc.pc = "item" /\ proc.sealed => Owed
  /\ proc.pc = "compact" => "free" \notin residue

SqliteInv == SealInv /\ Debt

-----------------------------------------------------------------------------
(* Batches. *)

\* A finite set of natural numbers has a least and a greatest one.
LEMMA LeastAndGreatest ==
  ASSUME NEW S, \A x \in S : x \in Nat, IsFiniteSet(S), S # {}
  PROVE  /\ \E x \in S : \A y \in S : x <= y
         /\ \E x \in S : \A y \in S : y <= x
<1> DEFINE Below(x) == {y \in S : y < x}
           Above(x) == {y \in S : x < y}
           R == StrictSubsetOrdering(S)
<1>1. IsWellFoundedOn(R, FiniteSubsetsOf(S)) /\ FiniteSubsetsOf(S) = SUBSET S
  BY FS_StrictSubsetOrderingWellFounded, FS_FiniteSubsetsOfFinite
<1>2. ASSUME NEW F, F \subseteq SUBSET S, F # {}
      PROVE  \E X \in F : \A Y \in F : ~(Y \subseteq X /\ Y # X)
  <2>1. F \subseteq FiniteSubsetsOf(S)
    BY <1>1, <1>2
  <2>2. PICK X \in F : \A Y \in F : <<Y, X>> \notin R
    <3> HIDE DEF R
    <3> QED
      BY <1>1, <1>2, <2>1, WFMin
  <2> QED
    BY <1>2, <2>2 DEF StrictSubsetOrdering
<1>3. \E x \in S : \A y \in S : x <= y
  <2> DEFINE Q == {Below(x) : x \in S}
  <2>1. Q \subseteq SUBSET S /\ Q # {}
    OBVIOUS
  <2> HIDE DEF Q
  <2>2. PICK X \in Q : \A Y \in Q : ~(Y \subseteq X /\ Y # X)
    BY <1>2, <2>1
  <2>3. PICK x \in S : X = Below(x)
    BY DEF Q
  <2>4. ASSUME NEW y \in S, y < x
        PROVE  FALSE
    <3>1. Below(y) \subseteq Below(x) /\ y \in Below(x) /\ y \notin Below(y)
      BY <2>4
    <3>2. Below(y) \in Q
      BY DEF Q
    <3> QED
      BY <2>2, <2>3, <3>1, <3>2
  <2> QED
    BY <2>4
<1>4. \E x \in S : \A y \in S : y <= x
  <2> DEFINE Q == {Above(x) : x \in S}
  <2>1. Q \subseteq SUBSET S /\ Q # {}
    OBVIOUS
  <2> HIDE DEF Q
  <2>2. PICK X \in Q : \A Y \in Q : ~(Y \subseteq X /\ Y # X)
    BY <1>2, <2>1
  <2>3. PICK x \in S : X = Above(x)
    BY DEF Q
  <2>4. ASSUME NEW y \in S, x < y
        PROVE  FALSE
    <3>1. Above(y) \subseteq Above(x) /\ y \in Above(x) /\ y \notin Above(y)
      BY <2>4
    <3>2. Above(y) \in Q
      BY DEF Q
    <3> QED
      BY <2>2, <2>3, <3>1, <3>2
  <2> QED
    BY <2>4
<1> QED
  BY <1>3, <1>4

RowsAbove(i) == {r \in Present(i) : r > item[i].cursor}

\* A batch is the rows above the cursor up to its last one, and all of them when
\* it is not full.
LEMMA BatchFacts ==
  ASSUME TypeOK, NEW i \in 1..Items
  PROVE  /\ NextRows(i) \subseteq RowsAbove(i)
         /\ NextRows(i) # {} =>
              /\ Max(NextRows(i)) \in NextRows(i)
              /\ \A r \in RowsAbove(i) : r <= Max(NextRows(i)) => r \in NextRows(i)
         /\ Cardinality(NextRows(i)) < Batch => NextRows(i) = RowsAbove(i)
<1> DEFINE above == RowsAbove(i)
           Below(r) == {s \in above : s < r}
           rows == NextRows(i)
<1>1. (\A r \in above : r \in Nat) /\ above \subseteq Rows /\ IsFiniteSet(above)
  <2>1. above \subseteq Rows
    BY DEF RowsAbove, Present
  <2> QED
    BY <2>1, BoundAssumption, FS_Subset
<1>2. rows = {r \in above : Cardinality(Below(r)) < Batch}
  BY DEF NextRows, RowsAbove
<1>3. \A r \in above : IsFiniteSet(Below(r)) /\ Cardinality(Below(r)) \in Nat
  <2> HIDE DEF above
  <2>1. \A r \in above : Below(r) \in SUBSET above
    OBVIOUS
  <2> HIDE DEF Below
  <2> QED
    BY <1>1, <2>1, FS_Subset, FS_CardinalityType
<1>0. Batch \in Nat
  BY BoundAssumption
<1> HIDE DEF above, rows
<1>4. ASSUME NEW r \in rows, NEW s \in above, s <= r
      PROVE  s \in rows
  <2>1. Below(s) \in SUBSET Below(r)
    BY <1>1, <1>2, <1>4
  <2>2. Cardinality(Below(s)) <= Cardinality(Below(r))
    <3> HIDE DEF Below
    <3> QED
      BY <1>2, <1>3, <2>1, FS_Subset
  <2>3. Cardinality(Below(r)) < Batch
    BY <1>2
  <2>4. Cardinality(Below(s)) < Batch
    <3> HIDE DEF Below
    <3> QED
      BY <1>0, <1>2, <1>3, <2>2, <2>3
  <2> QED
    BY <1>2, <2>4
<1>5. ASSUME rows # {}
      PROVE  Max(rows) \in rows /\ \A r \in rows : r <= Max(rows)
  <2>1. (\A r \in rows : r \in Nat) /\ IsFiniteSet(rows)
    <3>1. rows \in SUBSET above
      BY <1>2
    <3> QED
      BY <1>1, <3>1, FS_Subset
  <2>2. PICK x \in rows : \A y \in rows : x >= y
    BY <1>5, <2>1, LeastAndGreatest
  <2>3. Max(rows) \in rows /\ \A y \in rows : Max(rows) >= y
    BY <2>2 DEF Max
  <2> QED
    BY <2>1, <2>3
<1>6. ASSUME Cardinality(rows) < Batch
      PROVE  rows = above
  <2>1. SUFFICES ASSUME above \ rows # {}
                 PROVE  FALSE
    BY <1>2
  <2>2. (\A r \in above \ rows : r \in Nat) /\ IsFiniteSet(above \ rows)
    <3>1. above \ rows \in SUBSET above
      OBVIOUS
    <3> QED
      BY <1>1, <3>1, FS_Subset
  <2>3. PICK r \in above \ rows : \A s \in above \ rows : r <= s
    BY <2>1, <2>2, LeastAndGreatest
  <2>4. Below(r) \in SUBSET rows
    BY <1>1, <2>3
  <2>5. IsFiniteSet(rows) /\ Cardinality(rows) \in Nat
    <3>1. rows \in SUBSET above
      BY <1>2
    <3> QED
      BY <1>1, <3>1, FS_Subset, FS_CardinalityType
  <2>6. Cardinality(Below(r)) <= Cardinality(rows)
    <3> HIDE DEF Below
    <3> QED
      BY <2>4, <2>5, FS_Subset
  <2>7. Cardinality(Below(r)) < Batch
    <3> HIDE DEF Below
    <3> QED
      BY <1>0, <1>3, <1>6, <2>3, <2>5, <2>6
  <2> QED
    BY <1>2, <2>3, <2>7
<1> QED
  BY <1>2, <1>4, <1>5, <1>6 DEF above, rows

-----------------------------------------------------------------------------
(* Steps by which cells change: the others leave them alone. *)

\* The compaction of a start or a job, and what finish_store does.
Compacting ==
  \/ PendingCheckpoint \/ PendingScrub \/ PendingVacuum
  \/ FinishCheckpoint \/ FinishScrub \/ FinishCompact

Surroundings ==
  \/ Rotate \/ DayPasses
  \/ \E c \in Clients : ClientOpen(c) \/ ClientRefresh(c)

LEMMA StepCases ==
  ASSUME Next
  PROVE  \/ Compacting \/ Surroundings
         \/ \E delivered \in BOOLEAN : Start(delivered)
         \/ Stop \/ Reopen \/ StartItem \/ SealBatch \/ FinishItem \/ Migrated \/ StartJob
         \/ \E r \in Rows : Write(r)
         \/ \E c \in Clients, i \in 1..Items, r \in Rows : ClientWrite(c, i, r)
BY DEF Next, ProcessNext, ClientNext, Compacting, Surroundings

ProcType ==
  [pc: {"down", "unhealthy", "owed", "scrub", "vacuum", "reopen", "item", "batch",
        "finish", "truncate", "zero", "compact", "serving"},
   key: 0..MaxKey, delivered: BOOLEAN, item: 1..(Items + 1),
   after: {"none", "serve"}, sealed: BOOLEAN, unreadable: BOOLEAN,
   wasRetired: BOOLEAN, job: BOOLEAN]

\* What compacting leaves alone, and where the process goes from it.
LEMMA CompactingFacts ==
  ASSUME TypeOK, Compacting
  PROVE  /\ item' = item /\ value' = value /\ late' = late /\ tainted' = tainted
         /\ UNCHANGED World
         /\ proc.pc \in {"owed", "scrub", "vacuum"} =>
              \/ proc' = [proc EXCEPT !.pc = "scrub"] /\ Owed /\ proc.pc = "owed"
              \/ proc' = [proc EXCEPT !.pc = "vacuum"] /\ (Owed \/ proc.pc = "scrub")
              \/ proc' = [proc EXCEPT !.pc = "serving"] /\ proc.after = "serve"
              \/ proc' = [proc EXCEPT !.pc = "reopen"] /\ proc.after = "none"
         /\ proc.pc \notin {"owed", "scrub", "vacuum"} =>
              /\ proc.pc \in {"truncate", "zero", "compact"}
              /\ \/ \E pc \in {"zero", "compact", "serving"} : proc' = [proc EXCEPT !.pc = pc]
                 \/ ServeOwing
<1>1. CASE PendingCheckpoint
  BY <1>1 DEF PendingCheckpoint, NextAfterCompaction, Go, World, Cells, TypeOK
<1>2. CASE PendingScrub
  BY <1>2 DEF PendingScrub, NextAfterCompaction, Go, World, Cells, TypeOK
<1>3. CASE PendingVacuum
  BY <1>3 DEF PendingVacuum, NextAfterCompaction, Go, World, Cells, TypeOK
<1>4. CASE FinishCheckpoint
  BY <1>4 DEF FinishCheckpoint, Go, World, Cells, TypeOK
<1>5. CASE FinishScrub
  BY <1>5 DEF FinishScrub, Go, World, Cells, TypeOK
<1>6. CASE FinishCompact
  BY <1>6 DEF FinishCompact, Go, World, Cells, TypeOK
<1> QED
  BY <1>1, <1>2, <1>3, <1>4, <1>5, <1>6 DEF Compacting

RecType ==
  [state: {"none", "ok", "vacuum_pending"}, kcv: 0..MaxKey, scrubbed: BOOLEAN, tried: BOOLEAN]

\* The shape of every variable is kept; the cursor stays at a row.
LEMMA SqliteTypes ==
  ASSUME SqliteInv, [Next]_vars
  PROVE  TypeOK'
<1>1. TypeOK /\ Walked /\ Progress
  BY DEF SqliteInv, SealInv
<1>0. /\ proc \in ProcType /\ rec \in RecType /\ site \in Sites
      /\ current \in 1..MaxKey /\ MaxKey \in Nat /\ Items \in Nat
      /\ residue \subseteq {"wal", "free", "fragments"}
  BY <1>1, BoundAssumption DEF TypeOK, ProcType, RecType, Keys
<1>u. CASE UNCHANGED vars
  BY <1>1, <1>u DEF TypeOK, vars
<1>2. CASE Compacting
  <2>1. /\ item' = item /\ value' = value /\ late' = late /\ tainted' = tainted
        /\ UNCHANGED World
    BY <1>1, <1>2, CompactingFacts
  <2>2. proc' \in ProcType
    <3>1. CASE proc.pc \in {"owed", "scrub", "vacuum"}
      BY <1>0, <1>1, <1>2, <3>1, CompactingFacts DEF ProcType
    <3>2. CASE proc.pc \notin {"owed", "scrub", "vacuum"}
      <4>1. \/ \E pc \in {"zero", "compact", "serving"} : proc' = [proc EXCEPT !.pc = pc]
            \/ proc' = [proc EXCEPT !.pc = "serving", !.job = site.gated]
        BY <1>1, <1>2, <3>2, CompactingFacts DEF ServeOwing
      <4>2. site.gated \in BOOLEAN
        BY <1>0 DEF Sites
      <4> QED
        BY <1>0, <4>1, <4>2 DEF ProcType
    <3> QED
      BY <3>1, <3>2
  <2>3. residue' \subseteq {"wal", "free", "fragments"}
    BY <1>0, <1>2 DEF Compacting, PendingCheckpoint, PendingScrub, PendingVacuum, FinishCheckpoint,
       FinishScrub, FinishCompact, Checkpoint, FreePagesZeroed, Vacuum
  <2>4. rec' \in RecType
    BY <1>0, <1>2 DEF Compacting, PendingCheckpoint, PendingScrub, PendingVacuum, FinishCheckpoint,
       FinishScrub, FinishCompact, Vacuum, StillOwed, RecType
  <2> QED
    BY <1>1, <2>1, <2>2, <2>3, <2>4 DEF TypeOK, World, ProcType, RecType
<1>3. CASE Surroundings
  <2>1. CASE Rotate
    BY <1>0, <1>1, <2>1 DEF Rotate, TypeOK, Keys
  <2>2. CASE DayPasses
    <3>1. rec' \in RecType
      BY <1>0, <2>2 DEF DayPasses, RecType
    <3> QED
      BY <1>1, <2>2, <3>1 DEF DayPasses, TypeOK, World, RecType
  <2>3. CASE \E c \in Clients : ClientOpen(c) \/ ClientRefresh(c)
    BY <1>1, <2>3 DEF ClientOpen, ClientRefresh, TypeOK
  <2> QED
    BY <1>3, <2>1, <2>2, <2>3 DEF Surroundings
<1>4. ASSUME NEW delivered \in BOOLEAN, Start(delivered)
      PROVE  TypeOK'
  <2>1. proc' \in ProcType
    <3>1. current \in 0..MaxKey /\ 1 \in 1..(Items + 1)
      BY <1>0
    <3> DEFINE pc == IF Writable(KeyState(delivered)) THEN "owed" ELSE "unhealthy"
               retired == KeyState(delivered) = "retired"
    <3>2. proc' = [Down EXCEPT !.key = current, !.delivered = delivered,
                               !.pc = pc, !.wasRetired = retired]
      BY <1>4 DEF Start
    <3>3. pc \in {"owed", "unhealthy"} /\ retired \in BOOLEAN
      OBVIOUS
    <3> HIDE DEF pc, retired
    <3> QED
      BY <3>1, <3>2, <3>3 DEF Down, ProcType
  <2>2. rec' \in RecType
    <3>1. current \in 0..MaxKey
      BY <1>0
    <3> QED
      BY <1>0, <1>4, <3>1 DEF Start, KcvRecorded, RecType
  <2>3. late' \subseteq (1..Items) \X Rows
    BY <1>1, <1>4 DEF Start, Skipped, TypeOK
  <2>4. starts' \in 0..MaxStarts
    BY <1>1, <1>4, BoundAssumption DEF Start, TypeOK
  <2> QED
    BY <1>1, <1>4, <2>1, <2>2, <2>3, <2>4 DEF Start, TypeOK, ProcType, RecType
<1>5. CASE Stop
  <2>1. Down \in ProcType
    BY <1>0 DEF Down, ProcType
  <2> QED
    BY <1>1, <1>5, <2>1 DEF Stop, TypeOK, World, ProcType
<1>6. CASE Reopen
  <2>1. proc' \in ProcType
    <3>1. 1 \in 1..(Items + 1) /\ (proc.item <= Items => proc.item + 1 \in 1..(Items + 1))
      BY <1>0 DEF ProcType
    <3>2. \/ proc' = [proc EXCEPT !.pc = "item", !.item = 1]
          \/ proc.item <= Items /\ proc' = [proc EXCEPT !.item = proc.item + 1]
      <4>1. proc.item \in Int
        BY <1>0 DEF ProcType
      <4> QED
        BY <1>0, <1>6, <4>1 DEF Reopen
    <3> QED
      BY <1>0, <3>1, <3>2 DEF ProcType
  <2>2. item' \in [1..Items -> [state: {"none", "pending", "sealing", "sealed"}, cursor: {0} \cup Rows]]
    BY <1>1, <1>6 DEF Reopen, TypeOK, ItemRow
  <2> QED
    BY <1>1, <1>6, <2>1, <2>2 DEF Reopen, TypeOK, World, Cells, ProcType
<1>7. CASE StartItem
  <2>1. proc' \in ProcType
    BY <1>0, <1>7 DEF StartItem, Go, ProcType
  <2>2. item' \in [1..Items -> [state: {"none", "pending", "sealing", "sealed"}, cursor: {0} \cup Rows]]
    BY <1>1, <1>7 DEF StartItem, TypeOK
  <2>3. rec' \in RecType
    BY <1>0, <1>7 DEF StartItem, MarkScrubOwed, Owed, RecType
  <2>4. tainted' \in BOOLEAN
    BY <1>1, <1>7 DEF StartItem, TypeOK
  <2> QED
    BY <1>1, <1>7, <2>1, <2>2, <2>3, <2>4 DEF StartItem, TypeOK, World, ProcType, RecType
<1>8. CASE SealBatch
  <2> DEFINE i == proc.item
             rows == NextRows(i)
  <2>0. i \in 1..Items /\ proc.key \in Keys
    BY <1>1, <1>8 DEF Progress, SealBatch
  <2>1. proc' \in ProcType
    BY <1>0, <1>8 DEF SealBatch, ProcType
  <2>2. rows # {} => Max(rows) \in Rows
    BY <1>1, <2>0, BatchFacts DEF RowsAbove, Present
  <2>3. item' = [item EXCEPT ![i].cursor = IF rows = {} THEN @ ELSE Max(rows)]
    BY <1>8 DEF SealBatch
  <2>4. item' \in [1..Items -> [state: {"none", "pending", "sealing", "sealed"}, cursor: {0} \cup Rows]]
    <3> HIDE DEF rows, i
    <3> QED
      BY <1>1, <2>0, <2>2, <2>3 DEF TypeOK
  <2>5. value' = Sealed(i, rows)
    BY <1>8 DEF SealBatch
  <2>6. value' \in [1..Items -> [Rows -> Forms]]
    <3>1. \A r \in Rows : Resealed(value[i][r]) \in Forms
      BY <1>1, <2>0 DEF Resealed, TypeOK, Forms
    <3> HIDE DEF rows, i
    <3> QED
      BY <1>1, <2>0, <2>5, <3>1 DEF Sealed, TypeOK
  <2>7. residue' \subseteq {"wal", "free", "fragments"}
    BY <1>0, <1>8 DEF SealBatch, Rewritten
  <2>8. rec' = rec /\ late' = late /\ tainted' = tainted /\ UNCHANGED World
    BY <1>8 DEF SealBatch
  <2> QED
    BY <1>1, <2>1, <2>4, <2>6, <2>7, <2>8 DEF TypeOK, World, ProcType
<1>9. CASE FinishItem
  <2>0. proc.item \in 1..Items /\ proc.key \in Keys
    BY <1>1, <1>9 DEF Progress, FinishItem
  <2>1. proc' \in ProcType
    <3>1. proc.item + 1 \in 1..(Items + 1)
      BY <1>0, <2>0
    <3>2. proc' = [proc EXCEPT !.pc = "item", !.item = proc.item + 1]
      BY <1>9 DEF FinishItem
    <3> QED
      BY <1>0, <3>1, <3>2 DEF ProcType
  <2>2. item' \in [1..Items -> [state: {"none", "pending", "sealing", "sealed"}, cursor: {0} \cup Rows]]
    BY <1>1, <1>9 DEF FinishItem, TypeOK, ItemRow
  <2>3. rec' \in RecType
    <3>1. proc.key \in 0..MaxKey
      BY <1>0 DEF ProcType
    <3>2. rec' = rec \/ rec' = KcvRecorded(proc.key)
      BY <1>9 DEF FinishItem
    <3> QED
      BY <1>0, <3>1, <3>2 DEF KcvRecorded, RecType
  <2> QED
    BY <1>1, <1>9, <2>1, <2>2, <2>3 DEF FinishItem, TypeOK, World, Cells, ProcType, RecType
<1>10. CASE Migrated
  <2>1. proc' \in ProcType
    <3> DEFINE job == site.gated /\ Owed
    <3>1. \/ proc' = [proc EXCEPT !.pc = "truncate"]
          \/ proc' = [proc EXCEPT !.pc = "serving", !.job = job]
      BY <1>10 DEF Migrated, Go, Serve
    <3>2. job \in BOOLEAN
      OBVIOUS
    <3> HIDE DEF job
    <3> QED
      BY <1>0, <3>1, <3>2 DEF ProcType
  <2> QED
    BY <1>1, <1>10, <2>1 DEF Migrated, TypeOK, World, Cells, ProcType
<1>11. CASE StartJob
  <2>1. proc' \in ProcType
    BY <1>0, <1>11 DEF StartJob, ProcType
  <2> QED
    BY <1>1, <1>11, <2>1 DEF StartJob, TypeOK, World, Cells, ProcType
<1>12. ASSUME NEW r \in Rows, Write(r)
       PROVE  TypeOK'
  <2>1. proc.key \in Forms
    BY <1>1, <1>12 DEF Write, Progress, Forms
  <2>2. value' \in [1..Items -> [Rows -> Forms]]
    BY <1>1, <1>12, <2>1 DEF Write, TypeOK
  <2> QED
    BY <1>1, <1>12, <2>2 DEF Write, TypeOK, World
<1>13. ASSUME NEW c \in Clients, NEW i \in 1..Items, NEW r \in Rows, ClientWrite(c, i, r)
       PROVE  TypeOK'
  <2>1. value' \in [1..Items -> [Rows -> Forms]]
    BY <1>1, <1>13 DEF ClientWrite, TypeOK, Forms
  <2> QED
    BY <1>1, <1>13, <2>1 DEF ClientWrite, TypeOK
<1> QED
  BY <1>u, <1>2, <1>3, <1>4, <1>5, <1>6, <1>7, <1>8, <1>9, <1>10, <1>11, <1>12, <1>13, StepCases

-----------------------------------------------------------------------------
(* The walk: no plaintext behind the cursor. *)

\* No key is plaintext, nor is what a process with a key makes of a value.
LEMMA ResealedIsSealed ==
  ASSUME NEW v, proc.key \in Keys
  PROVE  Resealed(v) # Plain
BY BoundAssumption DEF Resealed, Keys, Plain, Held

\* A clean cell stays clean, but that a start forgets what keyless processes wrote.
LEMMA StillClean ==
  ASSUME SqliteInv, [Next]_vars, NEW i \in 1..Items, NEW r \in Rows, Clean(i, r),
         ~ \E delivered \in BOOLEAN : Start(delivered)
  PROVE  Clean(i, r)'
<1>1. TypeOK /\ Progress
  BY DEF SqliteInv, SealInv
<1>2. SUFFICES late \subseteq late' /\ (value'[i][r] = Plain => value[i][r] = Plain \/ <<i, r>> \in late')
  BY DEF Clean
<1>3. CASE UNCHANGED <<value, late>>
  BY <1>3
<1>4. CASE SealBatch
  <2>1. proc.key \in Keys /\ late' = late /\ value' = Sealed(proc.item, NextRows(proc.item))
    BY <1>1, <1>4 DEF SealBatch, Progress
  <2>2. Resealed(value[i][r]) # Plain
    BY <2>1, ResealedIsSealed
  <2> QED
    BY <1>1, <2>1, <2>2 DEF Sealed, TypeOK
<1>5. ASSUME NEW s \in Rows, Write(s)
      PROVE  late' = late /\ (value'[i][r] = Plain => value[i][r] = Plain)
  <2>1. proc.key \in Keys /\ late' = late
    BY <1>1, <1>5 DEF Write, Progress
  <2>2. proc.key # Plain
    BY <2>1, BoundAssumption DEF Keys, Plain
  <2> QED
    BY <1>1, <1>5, <2>1, <2>2 DEF Write, TypeOK
<1>6. ASSUME NEW c \in Clients, NEW j \in 1..Items, NEW s \in Rows, ClientWrite(c, j, s)
      PROVE  late \subseteq late' /\ (value'[i][r] = Plain => value[i][r] = Plain \/ <<i, r>> \in late')
  BY <1>1, <1>6 DEF ClientWrite, TypeOK
<1>7. CASE Compacting
  BY <1>1, <1>7, CompactingFacts
<1>8. CASE Surroundings
  BY <1>8 DEF Surroundings, Rotate, DayPasses, ClientOpen, ClientRefresh
<1>9. CASE Stop \/ Reopen \/ StartItem \/ FinishItem \/ Migrated \/ StartJob
  BY <1>9 DEF Stop, Reopen, StartItem, FinishItem, Migrated, StartJob, Cells
<1> QED
  BY <1>3, <1>4, <1>5, <1>6, <1>7, <1>8, <1>9, StepCases DEF vars

WalkInv == Walked /\ Progress /\ Compactions /\ ServesClean

\* A step that moves neither an item nor the process keeps them as they are.
LEMMA WalkUndisturbed ==
  ASSUME SqliteInv, item' = item, proc' = proc,
         \A i \in 1..Items, r \in Rows : Clean(i, r) => Clean(i, r)'
  PROVE  WalkInv'
<1>1. TypeOK /\ Walked /\ Progress /\ Compactions /\ ServesClean
  BY DEF SqliteInv, SealInv
<1>2. \A i \in 1..Items : CleanItem(i) => CleanItem(i)'
  BY DEF CleanItem
<1>3. Walked'
  BY <1>1 DEF Walked
<1>4. Progress'
  <2>1. proc.pc = "finish" => CleanItem(proc.item)'
    BY <1>1, <1>2 DEF Progress
  <2>2. proc'.pc = "finish" => CleanItem(proc.item)'
    BY <2>1
  <2> QED
    BY <1>1, <1>2, <2>2 DEF Progress, Finished, CleanItem, Clean
<1>5. Compactions'
  BY <1>1 DEF Compactions
<1>6. ServesClean'
  BY <1>1, <1>2 DEF ServesClean
<1> QED
  BY <1>3, <1>4, <1>5, <1>6 DEF WalkInv

\* Compacting comes before the walk or after it.
LEMMA CompactingKeepsWalk ==
  ASSUME SqliteInv, Compacting
  PROVE  WalkInv'
<1>1. TypeOK /\ Walked /\ Progress /\ Compactions /\ ServesClean
  BY DEF SqliteInv, SealInv
<1>2. item' = item /\ value' = value /\ late' = late
  BY <1>1, CompactingFacts
<1>3. \A i \in 1..Items : CleanItem(i) => CleanItem(i)'
  BY <1>2 DEF CleanItem, Clean
<1>4. Walked'
  BY <1>1, <1>2 DEF Walked, Clean
<1>5. proc \in ProcType /\ Items \in Nat
  BY <1>1, BoundAssumption DEF TypeOK, ProcType
<1>6. CASE proc.pc \in {"owed", "scrub", "vacuum"}
  <2>1. \/ \E pc \in {"scrub", "vacuum"} : proc' = [proc EXCEPT !.pc = pc]
        \/ proc' = [proc EXCEPT !.pc = "serving"] /\ proc.after = "serve"
        \/ proc' = [proc EXCEPT !.pc = "reopen"] /\ proc.after = "none"
    BY <1>1, <1>6, CompactingFacts
  <2>2. Progress'
    BY <1>1, <1>5, <1>6, <2>1 DEF Progress, Compactions, ProcType
  <2>3. Compactions'
    BY <1>1, <1>5, <1>6, <2>1 DEF Compactions, ProcType
  <2>4. ServesClean'
    BY <1>1, <1>3, <1>5, <1>6, <2>1 DEF ServesClean, ProcType
  <2> QED
    BY <1>4, <2>2, <2>3, <2>4 DEF WalkInv
<1>7. CASE proc.pc \notin {"owed", "scrub", "vacuum"}
  <2>1. /\ proc.pc \in {"truncate", "zero", "compact"}
        /\ \/ \E pc \in {"zero", "compact", "serving"} : proc' = [proc EXCEPT !.pc = pc]
           \/ proc' = [proc EXCEPT !.pc = "serving", !.job = site.gated]
    BY <1>1, <1>7, CompactingFacts DEF ServeOwing
  <2>2. /\ proc'.pc \in {"zero", "compact", "serving"}
        /\ proc'.key = proc.key /\ proc'.after = proc.after
    BY <1>5, <2>1 DEF ProcType
  <2>3. Progress'
    BY <1>1, <2>1, <2>2 DEF Progress
  <2>4. Compactions'
    BY <1>1, <1>5, <2>1, <2>2 DEF Compactions, ProcType
  <2>5. ServesClean'
    BY <1>1, <1>3, <2>1, <2>2 DEF ServesClean
  <2> QED
    BY <1>4, <2>3, <2>4, <2>5 DEF WalkInv
<1> QED
  BY <1>6, <1>7

\* A batch leaves what it walked clean, and a short one the whole item.
LEMMA BatchKeepsWalk ==
  ASSUME SqliteInv, SealBatch, [Next]_vars
  PROVE  WalkInv'
<1>1. TypeOK /\ Walked /\ Progress /\ Compactions /\ ServesClean
  BY DEF SqliteInv, SealInv
<1>0. PICK i \in 1..Items : i = proc.item
  BY <1>1 DEF SealBatch, Progress
<1> DEFINE rows == NextRows(i)
<1>2. item[i].state = "sealing" /\ proc.pc = "batch" /\ proc.key \in Keys
  BY <1>0, <1>1 DEF SealBatch, Progress
<1>3. /\ value' = Sealed(i, rows) /\ late' = late
      /\ item' = [item EXCEPT ![i].cursor = IF rows = {} THEN @ ELSE Max(rows)]
      /\ proc'.pc = IF Cardinality(rows) < Batch THEN "finish" ELSE "batch"
      /\ proc'.item = i /\ proc'.key = proc.key /\ proc'.after = proc.after
  BY <1>0, <1>1 DEF SealBatch, TypeOK
<1>4. \A j \in 1..Items, r \in Rows : Clean(j, r) => Clean(j, r)'
  <2>1. ~ \E delivered \in BOOLEAN : Start(delivered)
    BY <1>2 DEF Start
  <2> QED
    BY <2>1, StillClean
<1>5. /\ rows \subseteq RowsAbove(i)
      /\ rows # {} => /\ Max(rows) \in rows
                      /\ \A r \in RowsAbove(i) : r <= Max(rows) => r \in rows
      /\ Cardinality(rows) < Batch => rows = RowsAbove(i)
  BY <1>1, <1>2, BatchFacts
<1>6. /\ \A j \in 1..Items : item'[j].state = item[j].state
      /\ \A j \in 1..Items : j # i => item'[j] = item[j]
      /\ item'[i].cursor = IF rows = {} THEN item[i].cursor ELSE Max(rows)
  <2> HIDE DEF rows
  <2> QED
    BY <1>1, <1>2, <1>3 DEF TypeOK
<1>7. \A r \in rows : Clean(i, r)'
  <2> SUFFICES ASSUME NEW r \in rows
               PROVE  value'[i][r] # Plain
    BY DEF Clean
  <2>1. Resealed(value[i][r]) # Plain
    BY <1>2, ResealedIsSealed
  <2>2. r \in Rows
    BY <1>5 DEF RowsAbove, Present
  <2> HIDE DEF rows
  <2> QED
    BY <1>1, <1>2, <1>3, <2>1, <2>2 DEF Sealed, TypeOK
<1>8. \A r \in Rows : r \notin Present(i) => Clean(i, r)
  BY DEF Present, Clean, Absent, Plain
<1>9. \A r \in Rows : r <= item[i].cursor => Clean(i, r)
  BY <1>1, <1>2 DEF Walked
<1>10. \A r \in Rows : r \in RowsAbove(i) \/ Clean(i, r)
  <2>1. \A r \in Rows : r \in Nat
    BY BoundAssumption
  <2>2. item[i].cursor \in {0} \cup Rows
    BY <1>1 DEF TypeOK
  <2> QED
    BY <1>8, <1>9, <2>1, <2>2 DEF RowsAbove
<1> HIDE DEF rows
<1>11. \A r \in Rows : r <= item'[i].cursor => Clean(i, r)'
  BY <1>2, <1>4, <1>5, <1>6, <1>7, <1>9, <1>10
<1>12. proc'.pc = "finish" => CleanItem(i)'
  BY <1>2, <1>3, <1>4, <1>5, <1>7, <1>10 DEF CleanItem
<1>13. Walked'
  <2> SUFFICES ASSUME NEW j \in 1..Items
               PROVE  IF item'[j].state = "sealing"
                      THEN \A r \in Rows : r <= item'[j].cursor => Clean(j, r)'
                      ELSE item'[j].cursor = 0
    BY DEF Walked
  <2>1. CASE j = i
    BY <1>2, <1>6, <1>11, <2>1
  <2>2. CASE j # i
    <3>1. item'[j] = item[j]
      BY <1>6, <2>2
    <3> QED
      BY <1>1, <1>4, <3>1 DEF Walked
  <2> QED
    BY <2>1, <2>2
<1>14. Progress'
  <2>1. \A j \in 1..Items : Finished(j)' <=> Finished(j)
    BY <1>6 DEF Finished
  <2>2. \A j \in 1..Items : Finished(j) => CleanItem(j)
    BY <1>1, <1>2 DEF Progress
  <2>3. \A j \in 1..Items : Finished(j)' => CleanItem(j)'
    BY <1>4, <2>1, <2>2 DEF CleanItem
  <2>4. \A j \in 1..Items : j < i => Finished(j)'
    BY <1>0, <1>1, <1>2, <2>1 DEF Progress
  <2>5. proc'.item = i /\ proc'.pc \in {"batch", "finish"} /\ item'[i].state = "sealing"
    BY <1>2, <1>3, <1>6
  <2> QED
    BY <1>2, <1>3, <1>12, <2>3, <2>4, <2>5 DEF Progress, CleanItem, Clean
<1>15. Compactions' /\ ServesClean'
  BY <1>1, <1>2, <1>3 DEF Compactions, ServesClean
<1> QED
  BY <1>13, <1>14, <1>15 DEF WalkInv

\* What a start looks through, walks and finishes.
LEMMA WalkKept ==
  ASSUME SqliteInv, [Next]_vars
  PROVE  WalkInv'
<1>1. TypeOK /\ Walked /\ Progress /\ Compactions /\ ServesClean
  BY DEF SqliteInv, SealInv
<1>2. proc \in ProcType /\ Items \in Nat /\ (\A r \in Rows : r \in Nat \ {0})
  BY <1>1, BoundAssumption DEF TypeOK, ProcType
<1>3. CASE Compacting
  BY <1>3, CompactingKeepsWalk
<1>4. CASE SealBatch
  BY <1>4, BatchKeepsWalk
<1>5. ASSUME NEW delivered \in BOOLEAN, Start(delivered)
      PROVE  WalkInv'
  <2>1. /\ item' = item /\ value' = value
        /\ late' = Skipped
        /\ proc'.pc \in {"owed", "unhealthy"} /\ proc'.key = current
        /\ proc'.item = 1 /\ proc'.after = "none" /\ ~proc'.sealed
    BY <1>5 DEF Start, Down
  <2>2. Walked'
    <3>1. \A i \in 1..Items, r \in Rows :
            item[i].state = "sealing" /\ r <= item[i].cursor /\ Clean(i, r) => Clean(i, r)'
      BY <1>1, <2>1 DEF Clean, Skipped, TypeOK
    <3> QED
      BY <1>1, <2>1, <3>1 DEF Walked
  <2>3. Progress'
    BY <1>1, <2>1 DEF Progress, TypeOK
  <2> QED
    BY <2>1, <2>2, <2>3 DEF WalkInv, Compactions, ServesClean
<1>6. ASSUME proc.pc # "down", Stop \/ Reopen \/ StartItem \/ FinishItem \/ Migrated \/ StartJob
      PROVE  WalkInv'
  <2>0. \A i \in 1..Items, r \in Rows : Clean(i, r) => Clean(i, r)'
    <3>1. ~ \E delivered \in BOOLEAN : Start(delivered)
      BY <1>6 DEF Start
    <3> QED
      BY <3>1, StillClean
  <2>1. \A i \in 1..Items : CleanItem(i) => CleanItem(i)'
    BY <2>0 DEF CleanItem
  <2>2. ASSUME item' = item
        PROVE  Walked'
    BY <1>1, <2>0, <2>2 DEF Walked
  <2>3. CASE Stop
    <3>1. item' = item /\ proc' = Down
      BY <2>3 DEF Stop
    <3> QED
      BY <1>2, <2>2, <3>1 DEF WalkInv, Progress, Compactions, ServesClean, Down
  <2>4. CASE Reopen
    <3> DEFINE j == proc.item
    <3>0. proc.pc = "reopen" /\ proc.after = "none" /\ ~proc.sealed /\ j \in 1..(Items + 1)
      BY <1>1, <1>2, <2>4 DEF Reopen, Compactions, ProcType
    <3>1. CASE j > Items
      <4>1. item' = item /\ proc' = [proc EXCEPT !.pc = "item", !.item = 1]
        BY <2>4, <3>1 DEF Reopen
      <4>2. \A i \in 1..Items : Finished(i) => CleanItem(i)'
        BY <1>1, <1>2, <2>1, <3>0, <3>1 DEF Progress
      <4>3. Progress'
        BY <1>1, <1>2, <3>0, <4>1, <4>2 DEF Progress, Finished, ProcType
      <4> QED
        BY <1>2, <2>2, <3>0, <4>1, <4>3 DEF WalkInv, Compactions, ServesClean, ProcType
    <3>2. CASE ~(j > Items)
      <4>1. /\ item' = [item EXCEPT ![j] =
                 IF Finished(j) /\ \E r \in Rows : value[j][r] = Plain THEN ItemRow("pending", 0)
                 ELSE @]
            /\ proc' = [proc EXCEPT !.item = j + 1] /\ j \in 1..Items
        BY <1>2, <2>4, <3>0, <3>2 DEF Reopen
      <4>2. /\ \A i \in 1..Items : i # j => item'[i] = item[i]
            /\ item'[j] = ItemRow("pending", 0) \/ item'[j] = item[j]
            /\ item'[j] = ItemRow("pending", 0) \/ ~Finished(j) \/ CleanItem(j)
        BY <1>1, <4>1 DEF TypeOK, CleanItem, Clean
      <4>3. Walked'
        <5>1. \A i \in 1..Items : item'[i] = item[i] \/ item'[i] = ItemRow("pending", 0)
          BY <4>2
        <5> QED
          BY <1>1, <2>0, <5>1 DEF Walked, ItemRow
      <4>4. \A i \in 1..Items : i < j + 1 /\ Finished(i)' => CleanItem(i)'
        <5> SUFFICES ASSUME NEW i \in 1..Items, i < j + 1, Finished(i)'
                     PROVE  CleanItem(i)
          BY <2>1
        <5>1. CASE i = j
          BY <4>2, <5>1 DEF Finished, ItemRow
        <5>2. CASE i # j
          BY <1>1, <1>2, <3>0, <4>1, <4>2, <5>2 DEF Finished, Progress
        <5> QED
          BY <5>1, <5>2
      <4>5. proc'.pc = "reopen" /\ proc'.item = j + 1 /\ proc'.after = "none" /\ ~proc'.sealed
            /\ proc'.key = proc.key
        BY <1>2, <3>0, <4>1 DEF ProcType
      <4>6. Progress'
        BY <1>1, <1>6, <4>4, <4>5 DEF Progress
      <4> QED
        BY <4>3, <4>5, <4>6 DEF WalkInv, Compactions, ServesClean
    <3> QED
      BY <3>1, <3>2
  <2>5. CASE StartItem
    <3> DEFINE j == proc.item
    <3>0. proc.pc = "item" /\ j \in 1..Items /\ proc.after # "serve"
      BY <1>1, <1>2, <2>5 DEF StartItem, Compactions, ProcType
    <3>1. \A i \in 1..Items : Finished(i) => CleanItem(i)'
      BY <1>1, <2>1, <3>0 DEF Progress
    <3>2. CASE Finished(j)
      <4>1. item' = item /\ proc' = [proc EXCEPT !.item = j + 1]
        BY <2>5, <3>2 DEF StartItem
      <4>2. \A i \in 1..Items : i < j + 1 => Finished(i)
        BY <1>1, <1>2, <3>0, <3>2 DEF Progress
      <4>3. Progress'
        BY <1>1, <1>2, <3>0, <3>1, <4>1, <4>2 DEF Progress, Finished, ProcType
      <4> QED
        BY <1>2, <2>2, <3>0, <4>1, <4>3 DEF WalkInv, Compactions, ServesClean, ProcType
    <3>3. CASE ~Finished(j)
      <4>1. item' = [item EXCEPT ![j].state = "sealing"] /\ proc' = [proc EXCEPT !.pc = "batch"]
        BY <2>5, <3>3 DEF StartItem, Go
      <4>2. /\ \A i \in 1..Items : i # j => item'[i] = item[i]
            /\ item'[j].state = "sealing" /\ item'[j].cursor = item[j].cursor
        BY <1>1, <3>0, <4>1 DEF TypeOK
      <4>3. \A r \in Rows : r <= item[j].cursor => Clean(j, r)
        BY <1>1, <1>2, <3>0 DEF Walked
      <4>4. Walked'
        <5> SUFFICES ASSUME NEW i \in 1..Items
                     PROVE  IF item'[i].state = "sealing"
                            THEN \A r \in Rows : r <= item'[i].cursor => Clean(i, r)'
                            ELSE item'[i].cursor = 0
          BY DEF Walked
        <5>1. CASE i = j
          BY <2>0, <4>2, <4>3, <5>1
        <5>2. CASE i # j
          <6>1. item'[i] = item[i]
            BY <4>2, <5>2
          <6> QED
            BY <1>1, <2>0, <6>1 DEF Walked
        <5> QED
          BY <5>1, <5>2
      <4>5. proc'.pc = "batch" /\ proc'.item = j /\ proc'.after = proc.after /\ proc'.key = proc.key
        BY <1>2, <4>1 DEF ProcType
      <4>6. \A i \in 1..Items : Finished(i)' <=> Finished(i)
        BY <3>3, <4>2 DEF Finished
      <4>7. Progress'
        BY <1>1, <3>0, <3>1, <4>2, <4>5, <4>6 DEF Progress
      <4> QED
        BY <3>0, <4>4, <4>5, <4>7 DEF WalkInv, Compactions, ServesClean
    <3> QED
      BY <3>2, <3>3
  <2>6. CASE FinishItem
    <3> DEFINE j == proc.item
    <3>0. proc.pc = "finish" /\ j \in 1..Items /\ proc.after # "serve" /\ CleanItem(j)
      BY <1>1, <2>6 DEF FinishItem, Compactions, Progress
    <3>1. /\ item' = [item EXCEPT ![j] = ItemRow("sealed", 0)]
          /\ proc' = [proc EXCEPT !.pc = "item", !.item = j + 1]
      BY <2>6 DEF FinishItem
    <3>2. /\ \A i \in 1..Items : i # j => item'[i] = item[i]
          /\ item'[j] = ItemRow("sealed", 0)
      BY <1>1, <3>0, <3>1 DEF TypeOK
    <3>3. Walked'
      <4> SUFFICES ASSUME NEW i \in 1..Items
                   PROVE  IF item'[i].state = "sealing"
                          THEN \A r \in Rows : r <= item'[i].cursor => Clean(i, r)'
                          ELSE item'[i].cursor = 0
        BY DEF Walked
      <4>1. CASE i = j
        BY <3>2, <4>1 DEF ItemRow
      <4>2. CASE i # j
        <5>1. item'[i] = item[i]
          BY <3>2, <4>2
        <5> QED
          BY <1>1, <2>0, <5>1 DEF Walked
      <4> QED
        BY <4>1, <4>2
    <3>4. proc'.pc = "item" /\ proc'.item = j + 1 /\ proc'.after = proc.after /\ proc'.key = proc.key
      BY <1>2, <3>1 DEF ProcType
    <3>5. \A i \in 1..Items : Finished(i)' => CleanItem(i)'
      BY <1>1, <2>1, <3>0, <3>2 DEF Progress, Finished
    <3>6. \A i \in 1..Items : i < j + 1 => Finished(i)'
      BY <1>1, <1>2, <3>0, <3>2 DEF Progress, Finished, ItemRow
    <3>7. Progress'
      BY <1>1, <3>0, <3>4, <3>5, <3>6 DEF Progress
    <3> QED
      BY <3>0, <3>3, <3>4, <3>7 DEF WalkInv, Compactions, ServesClean
  <2>7. CASE Migrated
    <3>0. proc.pc = "item" /\ proc.after # "serve" /\ item' = item
      BY <1>1, <2>7 DEF Migrated, Compactions
    <3>1. \A i \in 1..Items : CleanItem(i)'
      BY <1>1, <1>2, <2>1, <2>7, <3>0 DEF Progress, Migrated, ProcType
    <3>2. proc'.pc \in {"truncate", "serving"} /\ proc'.key = proc.key /\ proc'.after = proc.after
      BY <1>2, <2>7 DEF Migrated, Go, Serve, ProcType
    <3> QED
      BY <1>1, <1>6, <2>2, <3>0, <3>1, <3>2 DEF WalkInv, Progress, Compactions, ServesClean
  <2>8. CASE StartJob
    <3>0. proc.pc = "serving" /\ item' = item
      BY <2>8 DEF StartJob
    <3>1. \A i \in 1..Items : CleanItem(i)'
      BY <1>1, <2>1, <3>0 DEF ServesClean
    <3>2. proc'.pc = "owed" /\ proc'.after = "serve" /\ proc'.key = proc.key
      BY <1>2, <2>8 DEF StartJob, ProcType
    <3> QED
      BY <1>1, <1>6, <2>2, <3>0, <3>1, <3>2 DEF WalkInv, Progress, Compactions, ServesClean
  <2> QED
    BY <1>6, <2>3, <2>4, <2>5, <2>6, <2>7, <2>8
<1>7. ASSUME item' = item, proc' = proc, ~ \E delivered \in BOOLEAN : Start(delivered)
      PROVE  WalkInv'
  <2>1. \A i \in 1..Items, r \in Rows : Clean(i, r) => Clean(i, r)'
    BY <1>7, StillClean
  <2> QED
    BY <1>7, <2>1, WalkUndisturbed
<1>8. CASE UNCHANGED vars
  BY <1>5, <1>7, <1>8 DEF vars
<1>9. CASE Surroundings
  <2>1. item' = item /\ proc' = proc
    BY <1>9 DEF Surroundings, Rotate, DayPasses, ClientOpen, ClientRefresh
  <2> QED
    BY <1>5, <1>7, <2>1
<1>10. ASSUME NEW r \in Rows, Write(r)
       PROVE  WalkInv'
  <2>1. item' = item /\ proc' = proc
    BY <1>10 DEF Write
  <2> QED
    BY <1>5, <1>7, <2>1
<1>11. ASSUME NEW c \in Clients, NEW i \in 1..Items, NEW r \in Rows, ClientWrite(c, i, r)
       PROVE  WalkInv'
  <2>1. item' = item /\ proc' = proc
    BY <1>11 DEF ClientWrite
  <2> QED
    BY <1>5, <1>7, <2>1
<1>12. CASE Stop \/ Reopen \/ StartItem \/ FinishItem \/ Migrated \/ StartJob
  <2>1. proc.pc # "down"
    BY <1>12 DEF Stop, Reopen, StartItem, FinishItem, Migrated, StartJob
  <2> QED
    BY <1>6, <1>12, <2>1
<1> QED
  BY <1>3, <1>4, <1>5, <1>8, <1>9, <1>10, <1>11, <1>12, StepCases

-----------------------------------------------------------------------------
(* The debt: what compacting erases and what it records. *)

\* Recording a key changes no debt.
LEMMA KcvOwesTheSame ==
  ASSUME rec \in RecType, NEW kcv, rec' = KcvRecorded(kcv)
  PROVE  Owed' = Owed /\ rec'.scrubbed = rec.scrubbed
BY DEF KcvRecorded, Owed, RecType

\* Compacting takes plaintext away and leaves the debt, but for a VACUUM that
\* leaves nothing.
LEMMA CompactingKeepsDebt ==
  ASSUME SqliteInv, Compacting
  PROVE  Debt'
<1>1. TypeOK /\ Progress /\ Compactions /\ Debt
  BY DEF SqliteInv, SealInv
<1>2. proc \in ProcType /\ rec \in RecType /\ residue \subseteq {"wal", "free", "fragments"}
  BY <1>1 DEF TypeOK, ProcType, RecType
<1>3. item' = item /\ tainted' = tainted /\ (Started' <=> Started)
  BY <1>1, CompactingFacts DEF Started
<1>4. CASE PendingCheckpoint
  <2>1. rec' = rec /\ residue' \subseteq residue
    BY <1>4 DEF PendingCheckpoint, Checkpoint
  <2>2. \/ proc'.pc \in {"scrub", "vacuum"} /\ Owed
        \/ proc'.pc \in {"serving", "reopen"}
    BY <1>2, <1>4 DEF PendingCheckpoint, NextAfterCompaction, Go, ProcType
  <2> QED
    BY <1>1, <1>3, <2>1, <2>2 DEF Debt, Owed
<1>5. CASE PendingScrub
  <2>1. Owed /\ proc.pc = "scrub"
    BY <1>1, <1>5 DEF PendingScrub, Debt
  <2>2. Owed' /\ (rec'.scrubbed => rec.scrubbed \/ "free" \notin residue') /\ residue' \subseteq residue
    BY <1>2, <1>5, <2>1 DEF PendingScrub, FreePagesZeroed, Owed, RecType
  <2>3. proc'.pc \in {"vacuum", "serving", "reopen"}
    BY <1>2, <1>5 DEF PendingScrub, NextAfterCompaction, Go, ProcType
  <2> QED
    BY <1>1, <2>2, <2>3 DEF Debt
<1>6. CASE PendingVacuum
  <2>1. Owed /\ proc.pc = "vacuum"
    BY <1>1, <1>6 DEF PendingVacuum, Debt
  <2>2. \/ Owed' /\ rec'.scrubbed = rec.scrubbed /\ ("free" \in residue' => "free" \in residue)
        \/ residue' = {} /\ ~rec'.scrubbed
    BY <1>2, <1>6, <2>1 DEF PendingVacuum, Vacuum, Owed, RecType
  <2>3. proc'.pc \in {"serving", "reopen"}
    BY <1>2, <1>6 DEF PendingVacuum, NextAfterCompaction, Go, ProcType
  <2> QED
    BY <1>1, <2>2, <2>3 DEF Debt
<1>7. CASE FinishCheckpoint
  <2>1. Owed /\ proc.pc = "truncate"
    BY <1>1, <1>7 DEF FinishCheckpoint, Debt
  <2>2. Owed' /\ (rec'.scrubbed => rec.scrubbed) /\ residue' \subseteq residue
    BY <1>2, <1>7, <2>1 DEF FinishCheckpoint, Checkpoint, StillOwed, Owed, RecType
  <2>3. proc'.pc \in {"zero", "serving"}
    BY <1>2, <1>7 DEF FinishCheckpoint, Go, ServeOwing, ProcType
  <2> QED
    BY <1>1, <2>2, <2>3 DEF Debt
<1>8. CASE FinishScrub
  <2>1. Owed /\ proc.pc = "zero"
    BY <1>1, <1>8 DEF FinishScrub, Debt
  <2>2. \/ rec' = rec /\ residue' = FreePagesZeroed /\ proc'.pc = "compact"
        \/ Owed' /\ ~rec'.scrubbed /\ proc'.pc = "serving"
    BY <1>2, <1>8 DEF FinishScrub, StillOwed, ServeOwing, Go, Owed, RecType, ProcType
  <2> QED
    BY <1>1, <2>1, <2>2 DEF Debt, FreePagesZeroed, Owed
<1>9. CASE FinishCompact
  <2>1. Owed /\ proc.pc = "compact" /\ "free" \notin residue
    BY <1>1, <1>9 DEF FinishCompact, Debt
  <2>2. \/ Owed' /\ "free" \notin residue'
        \/ residue' = {} /\ ~rec'.scrubbed
    BY <1>2, <1>9, <2>1 DEF FinishCompact, Vacuum, StillOwed, Owed, RecType
  <2>3. proc'.pc = "serving"
    BY <1>2, <1>9 DEF FinishCompact, Go, ServeOwing, ProcType
  <2> QED
    BY <1>1, <2>2, <2>3 DEF Debt
<1> QED
  BY <1>4, <1>5, <1>6, <1>7, <1>8, <1>9 DEF Compacting

\* The debt is recorded before a batch makes it, and kept by everything else.
LEMMA DebtKept ==
  ASSUME SqliteInv, [Next]_vars
  PROVE  Debt'
<1>1. TypeOK /\ Progress /\ Compactions /\ Debt
  BY DEF SqliteInv, SealInv
<1>2. proc \in ProcType /\ rec \in RecType /\ residue \subseteq {"wal", "free", "fragments"}
  BY <1>1 DEF TypeOK, ProcType, RecType
<1>u. CASE UNCHANGED vars
  BY <1>1, <1>u DEF vars, Debt, Started, Owed
<1>3. CASE Compacting
  BY <1>3, CompactingKeepsDebt
<1>4. CASE Surroundings
  <2>1. item' = item /\ residue' = residue /\ proc' = proc /\ tainted' = tainted
    BY <1>4 DEF Surroundings, Rotate, DayPasses, ClientOpen, ClientRefresh
  <2>2. rec' = rec \/ rec' = [rec EXCEPT !.tried = FALSE]
    BY <1>4 DEF Surroundings, Rotate, DayPasses, ClientOpen, ClientRefresh
  <2>3. Owed' = Owed /\ rec'.scrubbed = rec.scrubbed
    BY <1>2, <2>2 DEF Owed, RecType
  <2> QED
    BY <1>1, <2>1, <2>3 DEF Debt, Started
<1>5. ASSUME NEW delivered \in BOOLEAN, Start(delivered)
      PROVE  Debt'
  <2>1. item' = item /\ residue' = residue /\ tainted' = tainted
    BY <1>5 DEF Start
  <2>2. rec' = rec \/ rec' = KcvRecorded(current)
    BY <1>5 DEF Start
  <2>3. Owed' = Owed /\ rec'.scrubbed = rec.scrubbed
    BY <1>2, <2>2, KcvOwesTheSame DEF Owed
  <2>4. proc'.pc \in {"owed", "unhealthy"}
    BY <1>5 DEF Start, Down
  <2> QED
    BY <1>1, <2>1, <2>3, <2>4 DEF Debt, Started
<1>6. CASE Stop
  BY <1>1, <1>6 DEF Stop, Down, Debt, Started, Owed
<1>7. CASE Reopen
  <2>1. rec' = rec /\ residue' = residue /\ tainted' = tainted
    BY <1>7 DEF Reopen, Cells
  <2>2. Started' => Started
    <3>1. CASE item' = item
      BY <3>1 DEF Started
    <3>2. CASE Finished(proc.item) /\ proc.item <= Items
      <4>1. proc.item \in 1..Items
        BY <1>2, <3>2, BoundAssumption DEF ProcType
      <4> QED
        BY <3>2, <4>1 DEF Started, Finished
    <3>3. CASE ~Finished(proc.item) \/ proc.item > Items
      <4>1. \A i \in 1..Items : item'[i] = item[i]
        BY <1>1, <1>7, <3>3 DEF Reopen, TypeOK
      <4> QED
        BY <4>1 DEF Started
    <3>4. proc.item > Items \/ proc.item <= Items
      BY <1>2, BoundAssumption DEF ProcType
    <3> QED
      BY <3>1, <3>2, <3>3, <3>4
  <2>3. proc'.pc \in {"reopen", "item"} /\ ~proc'.sealed
    BY <1>1, <1>2, <1>7 DEF Reopen, Compactions, ProcType
  <2> QED
    BY <1>1, <2>1, <2>2, <2>3 DEF Debt, Owed
<1>8. CASE StartItem
  <2>1. CASE Finished(proc.item)
    <3>1. item' = item /\ rec' = rec /\ residue' = residue /\ tainted' = tainted
      BY <1>8, <2>1 DEF StartItem
    <3>2. proc'.pc = "item" /\ proc.pc = "item" /\ proc'.sealed = proc.sealed
      BY <1>2, <1>8, <2>1 DEF StartItem, ProcType
    <3> QED
      BY <1>1, <3>1, <3>2 DEF Debt, Started, Owed
  <2>2. CASE ~Finished(proc.item)
    <3>1. Owed' /\ ~rec'.scrubbed
      BY <1>2, <1>8, <2>2 DEF StartItem, MarkScrubOwed, Owed, RecType
    <3>2. proc'.pc = "batch"
      BY <1>2, <1>8, <2>2 DEF StartItem, Go, ProcType
    <3> QED
      BY <3>1, <3>2 DEF Debt
  <2> QED
    BY <2>1, <2>2
<1>9. CASE SealBatch
  <2>1. Owed /\ rec' = rec /\ residue' \in {residue, residue \cup {"wal"}}
    BY <1>1, <1>9 DEF SealBatch, Rewritten, Debt
  <2>2. proc'.pc \in {"batch", "finish"}
    BY <1>2, <1>9 DEF SealBatch, ProcType
  <2> QED
    BY <1>1, <2>1, <2>2 DEF Debt, Owed
<1>10. CASE FinishItem
  <2>1. Owed /\ residue' = residue
    BY <1>1, <1>10 DEF FinishItem, Debt
  <2>2. rec' = rec \/ rec' = KcvRecorded(proc.key)
    BY <1>10 DEF FinishItem
  <2>3. Owed' = Owed /\ rec'.scrubbed = rec.scrubbed
    BY <1>2, <2>2, KcvOwesTheSame DEF Owed
  <2>4. proc'.pc = "item"
    BY <1>2, <1>10 DEF FinishItem, ProcType
  <2> QED
    BY <1>1, <2>1, <2>3, <2>4 DEF Debt
<1>11. CASE Migrated
  <2>1. item' = item /\ rec' = rec /\ residue' = residue /\ tainted' = tainted
    BY <1>11 DEF Migrated, Cells
  <2>2. \/ proc'.pc = "serving"
        \/ proc'.pc = "truncate" /\ Owed
    <3>1. CASE proc.sealed
      <4>1. proc' = [proc EXCEPT !.pc = "truncate"] /\ proc.pc = "item"
        BY <1>11, <3>1 DEF Migrated, Go
      <4> QED
        BY <1>1, <1>2, <3>1, <4>1 DEF Debt, ProcType
    <3>2. CASE ~proc.sealed
      <4> DEFINE job == site.gated /\ Owed
      <4>1. proc' = [proc EXCEPT !.pc = "serving", !.job = job]
        BY <1>11, <3>2 DEF Migrated, Serve
      <4> HIDE DEF job
      <4> QED
        BY <1>2, <4>1 DEF ProcType
    <3> QED
      BY <3>1, <3>2
  <2> QED
    BY <1>1, <2>1, <2>2 DEF Debt, Started, Owed
<1>12. CASE StartJob
  <2>1. item' = item /\ rec' = rec /\ residue' = residue /\ tainted' = tainted
    BY <1>12 DEF StartJob, Cells
  <2>2. proc'.pc = "owed"
    BY <1>2, <1>12 DEF StartJob, ProcType
  <2> QED
    BY <1>1, <2>1, <2>2 DEF Debt, Started, Owed
<1>13. ASSUME NEW r \in Rows, Write(r)
       PROVE  Debt'
  BY <1>1, <1>13 DEF Write, Debt, Started, Owed
<1>14. ASSUME NEW c \in Clients, NEW i \in 1..Items, NEW r \in Rows, ClientWrite(c, i, r)
       PROVE  Debt'
  BY <1>1, <1>14 DEF ClientWrite, Debt, Started, Owed
<1> QED
  BY <1>u, <1>3, <1>4, <1>5, <1>6, <1>7, <1>8, <1>9, <1>10, <1>11, <1>12, <1>13, <1>14, StepCases

-----------------------------------------------------------------------------
(* The theorems. *)

\* A store of an older version meets the invariant.
LEMMA SqliteInit ==
  ASSUME Init
  PROVE  SqliteInv
<1>1. TypeOK
  <2>1. current \in Keys /\ starts \in 0..MaxStarts /\ proc \in ProcType
    BY BoundAssumption DEF Init, Keys, Down, ProcType
  <2>2. value \in [1..Items -> [Rows -> {Absent, Foreign, Plain}]]
    BY BoundAssumption DEF Init
  <2>3. value \in [1..Items -> [Rows -> Forms]]
    BY <2>2 DEF Forms
  <2>4. rec \in RecType
    BY BoundAssumption DEF Init, NoStoreRow, RecType
  <2> QED
    BY <2>1, <2>3, <2>4 DEF Init, TypeOK, ItemRow, ProcType, RecType
<1>2. Walked /\ Progress /\ Compactions /\ ServesClean
  BY DEF Init, Walked, ItemRow, Progress, Compactions, ServesClean, Finished, Down
<1>3. Debt
  BY DEF Init, Debt, Started, ItemRow, NoStoreRow, Down
<1> QED
  BY <1>1, <1>2, <1>3 DEF SqliteInv, SealInv

\* Every state a store reaches meets it.
THEOREM SqliteInvariant == Spec => []SqliteInv
<1>1. Init => SqliteInv
  BY SqliteInit
<1>2. SqliteInv /\ [Next]_vars => SqliteInv'
  <2> SUFFICES ASSUME SqliteInv, [Next]_vars
               PROVE  SqliteInv'
    OBVIOUS
  <2> QED
    BY SqliteTypes, WalkKept, DebtKept DEF SqliteInv, SealInv, WalkInv
<1> QED
  BY <1>1, <1>2, PTL DEF Spec

\* Once a migration replaced plaintext, no crash, lack of room or second start
\* between its batches and finish_store makes the store's row report it clean, or
\* its free pages scrubbed, while any of that plaintext is left on disk.
THEOREM ScrubDebtAlwaysRecorded == Spec => []ScrubDebtRecorded
<1>1. SqliteInv => ScrubDebtRecorded
  BY DEF SqliteInv, Debt, ScrubDebtRecorded
<1> QED
  BY <1>1, SqliteInvariant, PTL

\* Every variable keeps its shape, and a store that serves holds no plaintext but
\* what a keyless process wrote beside it, wherever earlier starts were killed.
THEOREM ServedAlwaysSealed == Spec => []ServedIsSealed
<1>1. SqliteInv => ServedIsSealed
  BY DEF SqliteInv, SealInv, ServesClean, CleanItem, Clean, ServedIsSealed
<1> QED
  BY <1>1, SqliteInvariant, PTL

\* No step of open_store, of the migration or of a compaction replaces an envelope
\* that opens under none of the keys this process holds.
THEOREM UnreadableAlwaysKept == Spec => UnreadableKept
<1> DEFINE Kept ==
      \A i \in 1..Items, r \in Rows :
        value[i][r] \in (Keys \cup {Foreign}) \ Held /\ value'[i][r] # value[i][r] =>
          proc.pc = "serving" \/ value'[i][r] = Plain
<1>1. SqliteInv /\ [Next]_vars => [Kept]_vars
  <2> SUFFICES ASSUME SqliteInv, Next,
                      NEW i \in 1..Items, NEW r \in Rows,
                      value[i][r] \in (Keys \cup {Foreign}) \ Held,
                      value'[i][r] # value[i][r], proc.pc # "serving"
               PROVE  value'[i][r] = Plain
    OBVIOUS
  <2>1. TypeOK
    BY DEF SqliteInv, SealInv
  <2>2. CASE SealBatch
    <3>1. value[i][r] # Plain
      BY BoundAssumption DEF Keys, Foreign, Plain
    <3>2. Resealed(value[i][r]) = value[i][r]
      BY <3>1 DEF Resealed
    <3> QED
      BY <2>1, <2>2, <3>2 DEF SealBatch, Sealed, TypeOK
  <2>3. ASSUME NEW c \in Clients, NEW j \in 1..Items, NEW s \in Rows, ClientWrite(c, j, s)
        PROVE  value'[i][r] = Plain
    BY <2>1, <2>3 DEF ClientWrite, TypeOK
  <2>4. CASE Compacting
    BY <2>1, <2>4, CompactingFacts
  <2>5. CASE value' = value
    BY <2>5
  <2>6. CASE Surroundings
    BY <2>6 DEF Surroundings, Rotate, DayPasses, ClientOpen, ClientRefresh
  <2> QED
    BY <2>2, <2>3, <2>4, <2>5, <2>6, StepCases DEF Start, Stop, Reopen, StartItem, FinishItem,
       Migrated, StartJob, Write, Cells
<1> QED
  BY <1>1, SqliteInvariant, PTL DEF Spec, UnreadableKept
=============================================================================
