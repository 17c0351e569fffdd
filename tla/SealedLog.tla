------------------------------- MODULE SealedLog -------------------------------
(***************************************************************************)
(* RYU-SL01, crypto's append-only sealed logs (sealed_log.rs): one log     *)
(* with its writer, reopened after the process was killed or the power     *)
(* failed, and compacted into a sealed file once it is closed.             *)
(*                                                                         *)
(* The bytes after the header are cells: the records, and at the end what  *)
(* an interrupted or failed write left. When the power fails, the bytes    *)
(* not yet synced are cut anywhere, and what was cut may read as a part of *)
(* a frame, as zeros or as a whole frame with a wrong body. Keys are       *)
(* 1, 2, ... in the order the master key was replaced; the writer is the   *)
(* process that owns the log, and it holds the retired keys.               *)
(***************************************************************************)
EXTENDS SealedFile, FiniteSetsExt

CONSTANTS
  MaxRecords,  \* bound: appends
  MaxKey,      \* bound: the newest master key
  MaxCrashes,  \* bound: kills and power failures
  MaxFaults    \* bound: writes that fail

VARIABLES
  log,      \* the log file
  synced,   \* how many of its cells are on stable storage
  current,  \* the newest key
  proc,     \* the process that owns the log
  temp,     \* <dest>.sealing
  dest,     \* the sealed file, and the one its directory has on stable storage
  acked,    \* the records a sync covered
  glued,    \* whether a frame was written behind the rest of a failed one
  appends, crashes, faults

vars == <<log, synced, current, proc, temp, dest, acked, glued, appends, crashes, faults>>
LogFile == <<log, synced, acked, glued, appends>>
Files == <<temp, dest>>

Keys == 1..MaxKey
NoFile == [written |-> NewFile(0), size |-> 0, ids |-> <<>>]
Down == [pc |-> "down", key |-> 0, next |-> 0, todo |-> <<>>]

Init ==
  /\ log = [header |-> "none", cells |-> <<>>]
  /\ synced = 0
  /\ current = 1
  /\ proc = Down
  /\ temp = NoFile
  /\ dest = [file |-> NoFile, stable |-> NoFile]
  /\ acked = {}
  /\ glued = FALSE
  /\ appends = 0 /\ crashes = 0 /\ faults = 0

Record(key, index, id) == [kind |-> "record", key |-> key, index |-> index, id |-> id]
Torn(kind) == [kind |-> kind, key |-> 0, index |-> 0, id |-> 0]

-----------------------------------------------------------------------------
(* Scanning. *)

\* A record opens under its key and at its place.
OpensAt(cells, key, i) ==
  cells[i].kind = "record" /\ cells[i].key = key /\ cells[i].index = i - 1

\* scan_with: the committed records, and how the log ends after them.
Committed(cells, key) ==
  Max({n \in 0..Len(cells) : \A i \in 1..n : OpensAt(cells, key, i)})
TailOf(cells, key) ==
  LET n == Committed(cells, key)
  IN CASE n = Len(cells) -> "clean"
       [] n + 1 = Len(cells) /\ cells[n + 1].kind \in {"short", "zeros"} -> "short"
       [] n + 1 = Len(cells) /\ cells[n + 1].kind \in {"record", "garbage"} -> "final"
       [] OTHER -> "error"

\* Mutant: whatever does not open at the end is a torn tail.
OpeningKeysTrusting(cells) == {key \in 1..current : TailOf(cells, key) # "error"}

\* open_log: a first record that does not open means a wrong key.
OpeningKeys(cells) ==
  {key \in 1..current :
     TailOf(cells, key) \notin {"error", IF Committed(cells, key) = 0 THEN "final" ELSE "none"}}

\* The current key is tried first, then the retired ones.
OpenKey(cells) == Max(OpeningKeys(cells))
CanOpen == log.header = "whole" /\ OpeningKeys(log.cells) # {}

\* open_recovering.
Recovered == SubSeq(log.cells, 1, Committed(log.cells, OpenKey(log.cells)))
RecoveredIds == [i \in DOMAIN Recovered |-> Recovered[i].id]

-----------------------------------------------------------------------------
(* SealedLogWriter. *)

\* create: the file is there before its header is synced.
Create ==
  /\ proc.pc = "down"
  /\ log.header = "none" /\ dest.file = NoFile
  /\ log' = [log EXCEPT !.header = "short"]
  /\ proc' = [Down EXCEPT !.pc = "create", !.key = current]
  /\ UNCHANGED <<synced, current, Files, acked, glued, appends, crashes, faults>>

CreateSync ==
  /\ proc.pc = "create"
  /\ log' = [log EXCEPT !.header = "whole"]
  /\ proc' = [proc EXCEPT !.pc = "open"]
  /\ UNCHANGED <<synced, current, Files, acked, glued, appends, crashes, faults>>

\* Mutant: the tail stays where it is.
OpenAppendKeepingTail ==
  /\ proc.pc = "down"
  /\ CanOpen
  /\ OpenKey(log.cells) = current
  /\ synced' = Len(log.cells)
  /\ proc' = [Down EXCEPT !.pc = "open", !.key = current, !.next = Len(Recovered)]
  /\ UNCHANGED <<log, current, Files, acked, glued, appends, crashes, faults>>

\* open_append: a torn tail is truncated; a log under a retired key is refused.
OpenAppend ==
  /\ proc.pc = "down"
  /\ CanOpen
  /\ OpenKey(log.cells) = current
  /\ log' = [log EXCEPT !.cells = Recovered]
  /\ synced' = IF Recovered = log.cells THEN synced ELSE Len(Recovered)
  /\ proc' = [Down EXCEPT !.pc = "open", !.key = current, !.next = Len(Recovered)]
  /\ UNCHANGED <<current, Files, acked, glued, appends, crashes, faults>>

\* What a frame behind the rest of another one reads as, with it.
Behind(cells, cell) ==
  IF cells # <<>> /\ Last(cells).kind \in {"short", "broken"}
  THEN {[cells EXCEPT ![Len(cells)] = Torn(kind)] :
          kind \in IF Last(cells).kind = "short" THEN {"short", "garbage", "broken"} ELSE {"broken"}}
  ELSE {Append(cells, cell)}

Glue(whole) ==
  glued' = (glued \/ (Len(log'.cells) = Len(log.cells) /\ (whole \/ log'.cells # log.cells)))

\* append: one write_all.
AppendRecord ==
  /\ proc.pc = "open"
  /\ appends < MaxRecords
  /\ appends' = appends + 1
  /\ \E cells \in Behind(log.cells, Record(proc.key, proc.next, appends')) :
       log' = [log EXCEPT !.cells = cells]
  /\ Glue(TRUE)
  /\ proc' = [proc EXCEPT !.next = @ + 1, !.todo = Append(@, appends')]
  /\ UNCHANGED <<synced, current, Files, acked, crashes, faults>>

\* It fails (the disk is full) with a part of the frame written, or none.
AppendFails ==
  /\ proc.pc = "open"
  /\ faults < MaxFaults
  /\ faults' = faults + 1
  /\ \E cells \in {log.cells} \cup Behind(log.cells, Torn("short")) : log' = [log EXCEPT !.cells = cells]
  /\ Glue(FALSE)
  /\ UNCHANGED <<synced, current, proc, Files, acked, appends, crashes>>

Sync ==
  /\ proc.pc = "open"
  /\ synced' = Len(log.cells)
  /\ acked' = acked \cup ToSet(proc.todo)
  /\ proc' = [proc EXCEPT !.todo = <<>>]
  /\ UNCHANGED <<log, current, Files, glued, appends, crashes, faults>>

Close ==
  /\ proc.pc = "open"
  /\ proc' = Down
  /\ UNCHANGED <<current, LogFile, Files, crashes, faults>>

-----------------------------------------------------------------------------
(* compact_to_sealed_file. *)

\* The i-th record is i bytes long.
Plaintext(id) == [byte \in 1..id |-> <<id, byte>>]

\* read_log, strictly, and a new temporary file in the place of a stale one.
Compact ==
  /\ proc.pc = "down"
  /\ CanOpen
  /\ TailOf(log.cells, OpenKey(log.cells)) = "clean"
  /\ proc' = [Down EXCEPT !.pc = "seal", !.todo = RecoveredIds]
  /\ temp' = [written |-> NewFile(current), size |-> HeaderLen, ids |-> RecoveredIds]
  /\ UNCHANGED <<current, LogFile, dest, crashes, faults>>

\* The file as far as it is written; finish has synced all of it.
Written(w) == [temp EXCEPT !.written = w, !.size = Size(w)]

SealRecord ==
  /\ proc.pc = "seal"
  /\ proc.todo # <<>>
  /\ temp' = Written(WritePlain(temp.written, Plaintext(Head(proc.todo))))
  /\ proc' = [proc EXCEPT !.todo = Tail(@)]
  /\ UNCHANGED <<current, LogFile, dest, crashes, faults>>

SealFinish ==
  /\ proc.pc = "seal"
  /\ proc.todo = <<>>
  /\ temp' = Written(Finish(temp.written))
  /\ proc' = [proc EXCEPT !.pc = "rename"]
  /\ UNCHANGED <<current, LogFile, dest, crashes, faults>>

SealFails ==
  /\ proc.pc = "seal"
  /\ faults < MaxFaults
  /\ faults' = faults + 1
  /\ temp' = NoFile
  /\ proc' = Down
  /\ UNCHANGED <<current, LogFile, dest, crashes>>

Rename ==
  /\ proc.pc = "rename"
  /\ dest' = [dest EXCEPT !.file = temp]
  /\ temp' = NoFile
  /\ proc' = [proc EXCEPT !.pc = "publish"]
  /\ UNCHANGED <<current, LogFile, crashes, faults>>

\* sync_parent_dir (a failure of it, which the code ignores, is left out).
Publish ==
  /\ proc.pc = "publish"
  /\ dest' = [dest EXCEPT !.stable = dest.file]
  /\ proc' = [proc EXCEPT !.pc = "compacted"]
  /\ UNCHANGED <<current, LogFile, temp, crashes, faults>>

\* "The log itself is left for the caller to delete."
DeleteLog ==
  /\ proc.pc = "compacted"
  /\ log' = [header |-> "none", cells |-> <<>>]
  /\ synced' = 0
  /\ proc' = Down
  /\ UNCHANGED <<current, Files, acked, glued, appends, crashes, faults>>

-----------------------------------------------------------------------------
(* The surroundings. *)

Rotate ==
  /\ proc.pc = "down"
  /\ current < MaxKey
  /\ current' = current + 1
  /\ UNCHANGED <<proc, LogFile, Files, crashes, faults>>

\* Killed, perhaps within the write of a frame or of the header.
Kill ==
  /\ proc.pc # "down"
  /\ crashes < MaxCrashes
  /\ crashes' = crashes + 1
  /\ proc' = Down
  /\ \E cells \in {log.cells} \cup (IF proc.pc = "open" THEN Behind(log.cells, Torn("short")) ELSE {}),
        header \in {log.header} \cup (IF proc.pc = "create" THEN {"whole"} ELSE {}) :
       log' = [header |-> header, cells |-> cells]
  /\ Glue(FALSE)
  /\ UNCHANGED <<synced, current, Files, acked, appends, faults>>

\* Every prefix of what was not synced, and what the cut may have left.
AfterPowerLoss ==
  UNION {{SubSeq(log.cells, 1, n)} \cup
         (IF n = Len(log.cells) THEN {}
          ELSE {Append(SubSeq(log.cells, 1, n), Torn(kind)) : kind \in {"short", "zeros", "garbage"}}) :
         n \in synced..Len(log.cells)}

PowerFails ==
  /\ crashes < MaxCrashes
  /\ crashes' = crashes + 1
  /\ proc' = Down
  /\ \E cells \in AfterPowerLoss,
        header \in {log.header} \cup (IF proc.pc = "create" THEN {"none", "whole"} ELSE {}) :
       log' = [header |-> header, cells |-> cells]
  /\ synced' = Len(log'.cells)
  /\ IF proc.pc = "rename"
     THEN temp' = temp
     ELSE \E size \in 0..temp.size : temp' = [temp EXCEPT !.size = size]
  /\ \E file \in {dest.file, dest.stable} : dest' = [file |-> file, stable |-> file]
  /\ UNCHANGED <<current, acked, glued, appends, faults>>

Next ==
  \/ Create \/ CreateSync \/ OpenAppend \/ AppendRecord \/ AppendFails \/ Sync \/ Close
  \/ Compact \/ SealRecord \/ SealFinish \/ SealFails \/ Rename \/ Publish \/ DeleteLog
  \/ Rotate \/ Kill \/ PowerFails

Spec == Init /\ [][Next]_vars

-----------------------------------------------------------------------------
(* Properties. *)

Cells ==
  [kind : {"record"}, key : Keys, index : 0..MaxRecords, id : 1..MaxRecords] \cup
    {Torn(kind) : kind \in {"short", "zeros", "garbage", "broken"}}

\* Every variable keeps its type, and the next index counts no record that was
\* not appended (sealed_log.rs next_index).
TypeOK ==
  /\ log.header \in {"none", "short", "whole"}
  /\ \A i \in DOMAIN log.cells : log.cells[i] \in Cells
  /\ synced \in 0..Len(log.cells)
  /\ current \in Keys
  /\ proc.pc \in {"down", "create", "open", "seal", "rename", "publish", "compacted"}
  /\ proc.key \in 0..current /\ proc.next \in 0..appends
  /\ ToSet(proc.todo) \subseteq 1..appends
  /\ acked \subseteq 1..appends
  /\ appends \in 0..MaxRecords /\ crashes \in 0..MaxCrashes /\ faults \in 0..MaxFaults

\* A record that sync returned for is read back, whatever was killed, torn or
\* replaced since: from the log (open_recovering), or once the log was deleted
\* from the file it was compacted into. The exception is a frame written behind
\* the rest of a failed append, which makes the log unreadable.
SyncedSurvive ==
  glued \/ acked = {} \/
    IF log.header = "none"
    THEN acked \subseteq ToSet(dest.file.ids)
    ELSE CanOpen /\ acked \subseteq ToSet(RecoveredIds)

\* A log never gets stuck while it holds a record: after any crash open_append
\* or compact_to_sealed_file opens it. What is refused for good is a file cut
\* within its header, or one whose only record was cut to a wrong body.
Reopens ==
  proc.pc = "down" /\ log.header = "whole" /\ ~glued =>
    CanOpen \/ (Len(log.cells) = 1 /\ log.cells[1].kind = "garbage" /\ acked = {})

\* The bytes of a list of records.
Bytes(ids) == FlattenSeq([i \in DOMAIN ids |-> Plaintext(ids[i])])

\* What was published opens, and any range of it reads as the log did.
Compacted ==
  dest.file # NoFile =>
    LET f == dest.file
        all == Bytes(f.ids)
    IN /\ Opens(f.written, f.size, 1..current)
       /\ PlaintextLen(f.size) = Len(all)
       /\ \A start \in 0..Len(all), len \in 1..(Len(all) + 1) :
            ReadRange(f.written, f.size, start, len) =
              SubSeq(all, start + 1, Least(start + len, Len(all)))

Finished(f) ==
  /\ f.written.chunks # <<>> /\ Last(f.written.chunks).last
  /\ f.size = Size(f.written)

\* What compaction publishes opens, and reads as the concatenation of the log's
\* records over any range (compact_to_sealed_file, read_range). No prefix of a
\* sealed file opens: what a crash left of <dest>.sealing, cut anywhere, is
\* never taken for a whole file.
WholeOrRefused ==
  /\ TypeOK
  /\ Compacted
  /\ ~Finished(temp) => ~Opens(temp.written, temp.size, 1..current)
=============================================================================
