------------------------------ MODULE SqliteSeal ------------------------------
(***************************************************************************)
(* A SQLite store that seals its columns per value (crypto's               *)
(* content_sqlite.rs and plugin_keys/sql.rs): the migration that seals     *)
(* what an older version left in plaintext, in resumable batches; the      *)
(* record of the key that sealed the store; and the debt of erasing the    *)
(* plaintext those batches leave on free pages, in the WAL and in partly   *)
(* used pages.                                                             *)
(*                                                                         *)
(* One keyed process at a time opens and serves the store, killed at any   *)
(* step; keyless processes that opened it earlier write beside it. Keys    *)
(* are 1, 2, ... in the order the master key was replaced. A batch holds   *)
(* the write lock from its read to its commit, so it is one step.          *)
(***************************************************************************)
EXTENDS Integers, FiniteSets, FiniteSetsExt

CONSTANTS
  Items,      \* the planned columns are 1..Items, in the order of the plans
  Rows,       \* the stable keys of a column's rows
  Legacy,     \* what an older version may have left in the columns
  Batch,      \* BATCH_SIZE
  MaxKey,     \* bound: the newest master key
  MaxStarts,  \* bound: starts of the keyed process
  Clients     \* processes without a key

VARIABLES
  current,  \* the newest key
  value,    \* per item and row, what the cell holds
  item,     \* per item, its row of the state table
  rec,      \* the store's row of the state table
  residue,  \* where plaintext of replaced cells is still on disk
  site,     \* what does not change: whether the store is too large to compact at
            \* its start, and whether its owner hands that to a background job
  proc,     \* the keyed process
  client,   \* per keyless process, where it stands
  late,     \* cells a keyless process wrote, until a start that walks them
  tainted,  \* whether one did since a migration last marked the scrub as owed
  starts

vars == <<current, value, item, rec, residue, site, proc, client, late, tainted, starts>>
Cells == <<value, late, tainted>>
World == <<current, site, client, starts>>

Keys == 1..MaxKey
Absent == -2   \* no such row, or NULL
Foreign == -1  \* an envelope that opens under no key
Plain == 0
Forms == {Absent, Foreign, Plain} \cup Keys

ASSUME BoundAssumption ==
  /\ Items \in Nat \ {0} /\ Batch \in Nat \ {0}
  /\ MaxKey \in Nat \ {0} /\ MaxStarts \in Nat
  /\ Rows \subseteq Nat \ {0} /\ IsFiniteSet(Rows)
  /\ Legacy \subseteq [1..Items -> [Rows -> {Absent, Foreign, Plain}]]

NoStoreRow == [state |-> "none", kcv |-> 0, scrubbed |-> FALSE, tried |-> FALSE]
Down ==
  [pc |-> "down", key |-> 0, delivered |-> FALSE, item |-> 1, after |-> "none",
   sealed |-> FALSE, unreadable |-> FALSE, wasRetired |-> FALSE, job |-> FALSE]

\* item_row, set_item.
ItemRow(state, cursor) == [state |-> state, cursor |-> cursor]

\* VacuumPolicy and the size of the store.
Sites == [large: BOOLEAN, gated: BOOLEAN]

Init ==
  /\ current = 1
  /\ value \in Legacy
  /\ item = [i \in 1..Items |-> ItemRow("none", 0)]
  /\ rec = NoStoreRow
  /\ residue = {"free", "fragments"}
  /\ site \in Sites
  /\ proc = Down
  /\ client = [c \in Clients |-> "down"]
  /\ late = {}
  /\ tainted = FALSE
  /\ starts = 0

\* The master key is replaced; its predecessors stay with Core.
Rotate ==
  /\ current < MaxKey
  /\ current' = current + 1
  /\ UNCHANGED <<value, item, rec, residue, site, proc, client, late, tainted, starts>>

\* Core delivers the key with its predecessors, RYU_MASTER_KEY is the key alone.
Held == IF proc.delivered THEN 1..proc.key ELSE {proc.key}
Go(pc) == proc' = [proc EXCEPT !.pc = pc]

-----------------------------------------------------------------------------
(* open_store: the key check. *)

\* An unfinished item is walked from its cursor, the others are looked through.
Skipped == {c \in late : item[c[1]].state = "sealing" /\ c[2] <= item[c[1]].cursor}

\* record_store_kcv.
KcvRecorded(kcv) == [rec EXCEPT !.kcv = kcv, !.state = IF @ = "none" THEN "ok" ELSE @]

\* check_store_key: how the key recorded relates to the one this process holds.
KeyState(delivered) ==
  CASE rec.kcv = 0 -> "recorded"
    [] rec.kcv = current -> "current"
    [] rec.kcv \in 1..(current - 1) /\ delivered -> "retired"
    [] OTHER -> "mismatch"
Writable(keyState) == keyState # "mismatch"

\* A store that records no key records this one.
Start(delivered) ==
  /\ proc.pc = "down"
  /\ starts < MaxStarts
  /\ starts' = starts + 1
  /\ late' = Skipped
  /\ rec' = IF KeyState(delivered) = "recorded" THEN KcvRecorded(current) ELSE rec
  /\ proc' = [Down EXCEPT
       !.key = current, !.delivered = delivered,
       !.pc = IF Writable(KeyState(delivered)) THEN "owed" ELSE "unhealthy",
       !.wasRetired = KeyState(delivered) = "retired"]
  /\ UNCHANGED <<current, value, item, residue, site, client, tainted>>

\* Closed, killed or gone: a background job goes with it.
Stop ==
  /\ proc.pc # "down"
  /\ proc' = Down
  /\ UNCHANGED <<value, item, rec, residue, late, tainted, World>>

-----------------------------------------------------------------------------
(* run_pending_vacuum, at a start and as the background job. *)

Owed == rec.state = "vacuum_pending"

\* What follows when the compaction ends here, whatever came of it.
NextAfterCompaction == IF proc.after = "serve" THEN Go("serving") ELSE Go("reopen")

\* wal_checkpoint(TRUNCATE): blocked by a reader, it fails.
Checkpoint == residue' = residue \ {"wal"}

PendingCheckpoint ==
  /\ proc.pc = "owed"
  /\ \/ /\ ~Owed \/ rec.tried
        /\ NextAfterCompaction
        /\ UNCHANGED residue
     \/ /\ Owed /\ ~rec.tried
        /\ Checkpoint
        /\ Go(IF rec.scrubbed THEN "vacuum" ELSE "scrub")
     \/ /\ Owed /\ ~rec.tried
        /\ NextAfterCompaction
        /\ UNCHANGED residue
  /\ UNCHANGED <<item, rec, Cells, World>>

\* scrub_freelist: every free page is overwritten.
FreePagesZeroed == residue \ {"free"}

\* Done and recorded, out of room, or cut short by an error.
PendingScrub ==
  /\ proc.pc = "scrub"
  /\ \/ /\ residue' = FreePagesZeroed
        /\ rec' = [rec EXCEPT !.scrubbed = TRUE, !.tried = FALSE]
        /\ Go("vacuum")
     \/ /\ rec' = [rec EXCEPT !.tried = TRUE]
        /\ NextAfterCompaction
        /\ UNCHANGED residue
     \/ /\ residue' \in {residue, FreePagesZeroed}
        /\ NextAfterCompaction
        /\ UNCHANGED rec
  /\ UNCHANGED <<item, Cells, World>>

\* VACUUM rebuilds the store through the WAL; clean only once that is truncated.
Vacuum ==
  \/ residue' = {} /\ rec' = [rec EXCEPT !.state = "ok", !.scrubbed = FALSE, !.tried = FALSE]
  \/ residue' = (residue \ {"free", "fragments"}) \cup {"wal"} /\ UNCHANGED rec

\* The size gate is for owners that defer, at their start; the job has none.
Gated == site.large /\ site.gated /\ proc.after # "serve"

PendingVacuum ==
  /\ proc.pc = "vacuum"
  /\ NextAfterCompaction
  /\ IF Gated
     THEN UNCHANGED <<residue, rec>>
     ELSE \/ Vacuum
          \/ rec' = [rec EXCEPT !.tried = TRUE] /\ UNCHANGED residue
  /\ UNCHANGED <<item, Cells, World>>

\* The retry of an attempt that found no room waits for a day.
DayPasses ==
  /\ rec.tried
  /\ rec' = [rec EXCEPT !.tried = FALSE]
  /\ UNCHANGED <<value, item, residue, proc, late, tainted, World>>

-----------------------------------------------------------------------------
(* reopen_plaintext_items and migrate_columns. *)

Finished(i) == item[i].state = "sealed"

\* Mutant: what is recorded as sealed is not looked through again.
ReopenTrusting ==
  /\ proc.pc = "reopen"
  /\ proc' = [proc EXCEPT !.pc = "item", !.item = 1]
  /\ UNCHANGED <<item, rec, residue, Cells, World>>

\* A sealed item in which a keyless process left plaintext is walked again.
Reopen ==
  /\ proc.pc = "reopen"
  /\ IF proc.item > Items
     THEN /\ proc' = [proc EXCEPT !.pc = "item", !.item = 1]
          /\ UNCHANGED item
     ELSE /\ proc' = [proc EXCEPT !.item = @ + 1]
          /\ item' = [item EXCEPT ![proc.item] =
               IF Finished(proc.item) /\ \E r \in Rows : value[proc.item][r] = Plain
               THEN ItemRow("pending", 0)
               ELSE @]
  /\ UNCHANGED <<rec, residue, Cells, World>>

\* Mutant: the debt is left to finish_store.
MarkScrubOwedLater == rec

\* mark_scrub_owed: in the transaction that starts an item.
MarkScrubOwed ==
  [rec EXCEPT !.state = "vacuum_pending", !.scrubbed = FALSE, !.tried = Owed /\ @]

StartItem ==
  /\ proc.pc = "item"
  /\ proc.item <= Items
  /\ IF Finished(proc.item)
     THEN /\ proc' = [proc EXCEPT !.item = @ + 1]
          /\ UNCHANGED <<item, rec, tainted>>
     ELSE /\ rec' = MarkScrubOwed
          /\ item' = [item EXCEPT ![proc.item].state = "sealing"]
          /\ tainted' = FALSE
          /\ Go("batch")
  /\ UNCHANGED <<value, residue, late, World>>

Present(i) == {r \in Rows : value[i][r] # Absent}

\* The next Batch rows above the cursor, in key order.
NextRows(i) ==
  LET above == {r \in Present(i) : r > item[i].cursor}
  IN {r \in above : Cardinality({s \in above : s < r}) < Batch}

\* Mutant: what does not open is taken for plaintext.
ResealedAnyway(v) == IF v = Absent THEN v ELSE proc.key

\* reseal_value: plaintext, and what opens under a retired key, is sealed anew.
Resealed(v) == IF v = Plain \/ v \in Held THEN proc.key ELSE v

Sealed(i, rows) ==
  [value EXCEPT ![i] = [r \in Rows |-> IF r \in rows THEN Resealed(value[i][r]) ELSE value[i][r]]]

\* secure_delete zeroes a replaced cell in its page, not in the WAL.
Rewritten(plaintext) == IF plaintext THEN residue \cup {"wal"} ELSE residue

SealBatch ==
  /\ proc.pc = "batch"
  /\ LET i == proc.item
         rows == NextRows(i)
     IN /\ value' = Sealed(i, rows)
        /\ item' = [item EXCEPT ![i].cursor = IF rows = {} THEN @ ELSE Max(rows)]
        /\ residue' = Rewritten(\E r \in rows : value[i][r] = Plain)
        /\ proc' = [proc EXCEPT
             !.pc = IF Cardinality(rows) < Batch THEN "finish" ELSE "batch",
             !.sealed = @ \/ value' # value,
             !.unreadable = @ \/ \E r \in rows : value'[i][r] # proc.key]
  /\ UNCHANGED <<rec, late, tainted, World>>

\* The last item moves the record of a store under a retired key to this one.
FinishItem ==
  /\ proc.pc = "finish"
  /\ item' = [item EXCEPT ![proc.item] = ItemRow("sealed", 0)]
  /\ rec' = IF /\ proc.wasRetired
               /\ ~proc.unreadable
               /\ \A i \in 1..Items : item'[i].state = "sealed"
            THEN KcvRecorded(proc.key)
            ELSE rec
  /\ proc' = [proc EXCEPT !.pc = "item", !.item = @ + 1]
  /\ UNCHANGED <<residue, Cells, World>>

-----------------------------------------------------------------------------
(* finish_store, when something was sealed. *)

\* A large store of an owner that defers gets a background job.
Serve == proc' = [proc EXCEPT !.pc = "serving", !.job = site.gated /\ Owed]

Migrated ==
  /\ proc.pc = "item"
  /\ proc.item > Items
  /\ IF proc.sealed THEN Go("truncate") ELSE Serve
  /\ UNCHANGED <<item, rec, residue, Cells, World>>

StillOwed(scrubbed) ==
  rec' = [rec EXCEPT !.state = "vacuum_pending", !.scrubbed = scrubbed, !.tried = FALSE]

ServeOwing == proc' = [proc EXCEPT !.pc = "serving", !.job = site.gated]

FinishCheckpoint ==
  /\ proc.pc = "truncate"
  /\ \/ Checkpoint /\ Go("zero") /\ UNCHANGED rec
     \/ StillOwed(FALSE) /\ ServeOwing /\ UNCHANGED residue
  /\ UNCHANGED <<item, Cells, World>>

FinishScrub ==
  /\ proc.pc = "zero"
  /\ \/ residue' = FreePagesZeroed /\ Go("compact") /\ UNCHANGED rec
     \/ residue' \in {residue, FreePagesZeroed} /\ StillOwed(FALSE) /\ ServeOwing
  /\ UNCHANGED <<item, Cells, World>>

FinishCompact ==
  /\ proc.pc = "compact"
  /\ \/ /\ ~site.large
        /\ Vacuum
        /\ IF rec'.state = "ok" THEN Go("serving") ELSE ServeOwing
     \/ StillOwed(TRUE) /\ ServeOwing /\ UNCHANGED residue
  /\ UNCHANGED <<item, Cells, World>>

-----------------------------------------------------------------------------
(* Serving, the background compaction, and processes without a key. *)

Write(r) ==
  /\ proc.pc = "serving"
  /\ \E i \in 1..Items : value' = [value EXCEPT ![i][r] = proc.key]
  /\ UNCHANGED <<item, rec, residue, proc, late, tainted, World>>

\* compact_deferred, under the connection lock: nothing is served meanwhile.
StartJob ==
  /\ proc.pc = "serving"
  /\ proc.job
  /\ proc' = [proc EXCEPT !.pc = "owed", !.after = "serve", !.job = FALSE]
  /\ UNCHANGED <<item, rec, residue, Cells, World>>

ClientOpen(c) ==
  /\ client[c] = "down"
  /\ client' = [client EXCEPT ![c] = IF rec.kcv = 0 THEN "compat" ELSE "unhealthy"]
  /\ UNCHANGED <<current, value, item, rec, residue, site, proc, late, tainted, starts>>

\* refresh_compat: before a write, not in its transaction.
ClientRefresh(c) ==
  /\ client[c] = "compat"
  /\ client' = [client EXCEPT ![c] = IF rec.kcv = 0 THEN "writing" ELSE "unhealthy"]
  /\ UNCHANGED <<current, value, item, rec, residue, site, proc, late, tainted, starts>>

ClientWrite(c, i, r) ==
  /\ client[c] = "writing"
  /\ client' = [client EXCEPT ![c] = "compat"]
  /\ value' = [value EXCEPT ![i][r] = Plain]
  /\ late' = late \cup {<<i, r>>}
  /\ tainted' = TRUE
  /\ residue' = residue \cup {"fragments"}
  /\ UNCHANGED <<current, item, rec, site, proc, starts>>

ProcessNext ==
  \/ \E delivered \in BOOLEAN : Start(delivered)
  \/ Stop
  \/ PendingCheckpoint \/ PendingScrub \/ PendingVacuum
  \/ Reopen \/ StartItem \/ SealBatch \/ FinishItem \/ Migrated
  \/ FinishCheckpoint \/ FinishScrub \/ FinishCompact
  \/ StartJob
  \/ \E r \in Rows : Write(r)

ClientNext(c) ==
  \/ ClientOpen(c) \/ ClientRefresh(c)
  \/ \E i \in 1..Items, r \in Rows : ClientWrite(c, i, r)

Next ==
  \/ Rotate \/ DayPasses
  \/ ProcessNext
  \/ \E c \in Clients : ClientNext(c)

Spec == Init /\ [][Next]_vars

-----------------------------------------------------------------------------
(* Properties. *)

\* The shape of every variable.
TypeOK ==
  /\ current \in Keys
  /\ value \in [1..Items -> [Rows -> Forms]]
  /\ item \in [1..Items -> [state: {"none", "pending", "sealing", "sealed"}, cursor: {0} \cup Rows]]
  /\ rec \in [state: {"none", "ok", "vacuum_pending"}, kcv: 0..MaxKey,
              scrubbed: BOOLEAN, tried: BOOLEAN]
  /\ residue \subseteq {"wal", "free", "fragments"}
  /\ site \in Sites
  /\ proc \in [pc: {"down", "unhealthy", "owed", "scrub", "vacuum", "reopen", "item", "batch",
                    "finish", "truncate", "zero", "compact", "serving"},
               key: 0..MaxKey, delivered: BOOLEAN, item: 1..(Items + 1),
               after: {"none", "serve"}, sealed: BOOLEAN, unreadable: BOOLEAN,
               wasRetired: BOOLEAN, job: BOOLEAN]
  /\ client \in [Clients -> {"down", "compat", "writing", "unhealthy"}]
  /\ late \subseteq (1..Items) \X Rows
  /\ tainted \in BOOLEAN
  /\ starts \in 0..MaxStarts

Started == \E i \in 1..Items : item[i].state # "none"

\* "A crash before finish_store still leaves the scrub owed": once a migration
\* replaced plaintext, the store is not reported clean while any of it is left,
\* nor the free pages as scrubbed.
ScrubDebtRecorded ==
  Started /\ ~tainted =>
    /\ residue # {} => Owed
    /\ rec.scrubbed => "free" \notin residue

\* A start that succeeded, whatever was killed before it, has sealed every
\* value, but for those a keyless process wrote beside it.
ServedIsSealed ==
  /\ TypeOK
  /\ proc.pc = "serving" =>
       \A i \in 1..Items, r \in Rows : value[i][r] = Plain => <<i, r>> \in late

\* "Values that do not open are counted and left alone": opening the store
\* replaces no envelope this process cannot open.
UnreadableKept ==
  [][\A i \in 1..Items, r \in Rows :
       value[i][r] \in (Keys \cup {Foreign}) \ Held /\ value'[i][r] # value[i][r] =>
         proc.pc = "serving" \/ value'[i][r] = Plain]_vars
=============================================================================
