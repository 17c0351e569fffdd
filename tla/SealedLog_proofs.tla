---------------------------- MODULE SealedLog_proofs ----------------------------
(***************************************************************************)
(* What a sealed log keeps, for any number of records, keys, crashes and   *)
(* failed writes: a record that a sync returned for is read back, and a    *)
(* log that holds a record can be opened again.                            *)
(***************************************************************************)
EXTENDS SealedLog, TLAPS

-----------------------------------------------------------------------------
(* How the cells of a log are opened. *)

CellKinds == {"record", "short", "zeros", "garbage", "broken"}
Cell == [kind : CellKinds, key : Nat, index : Nat, id : Nat]

\* The first m cells are the records of a log under the key, and one torn cell
\* may follow them.
Shaped(cells, key, m) ==
  /\ m \in 0..Len(cells) /\ Len(cells) <= m + 1
  /\ \A i \in 1..m : OpensAt(cells, key, i)
  /\ m < Len(cells) => \E kind \in {"short", "zeros", "garbage"} : cells[m + 1] = Torn(kind)

\* Nothing is committed, and what is there is no part of a frame.
Unreadable(cells) == Len(cells) = 1 /\ cells[1].kind = "garbage"

\* A record with the id is among the first n cells.
KeptIn(cells, id, n) == \E i \in 1..n : cells[i].kind = "record" /\ cells[i].id = id

\* A torn cell is no record.
LEMMA TornIsTorn == ASSUME NEW kind PROVE Torn(kind).kind = kind
BY DEF Torn

\* What is committed is found: all that opens, up to the first cell that does not.
LEMMA CommittedIs ==
  ASSUME NEW cells \in Seq(Cell), NEW key, NEW m \in 0..Len(cells),
         \A i \in 1..m : OpensAt(cells, key, i),
         m < Len(cells) => ~OpensAt(cells, key, m + 1)
  PROVE  Committed(cells, key) = m
<1> DEFINE S == {n \in 0..Len(cells) : \A i \in 1..n : OpensAt(cells, key, i)}
<1>1. m \in S
  OBVIOUS
<1>2. ASSUME NEW n \in S PROVE n <= m
  <2>1. n \in Nat /\ n <= Len(cells) /\ m \in Nat
    OBVIOUS
  <2>2. ASSUME n > m PROVE FALSE
    <3>1. m + 1 \in 1..n /\ m < Len(cells)
      BY <2>1, <2>2
    <3> QED
      BY <3>1
  <2> QED
    BY <2>1, <2>2
<1>3. S \subseteq Nat
  OBVIOUS
<1>4. Max(S) = m
  <2> HIDE DEF S
  <2>1. \A x \in S : (\A y \in S : x >= y) <=> x = m
    BY <1>1, <1>2, <1>3
  <2> QED
    BY <1>1, <2>1 DEF Max
<1> QED
  BY <1>4 DEF Committed

\* The records of a shaped log are its committed ones.
LEMMA ShapeCommits ==
  ASSUME NEW cells \in Seq(Cell), NEW key, NEW m, Shaped(cells, key, m)
  PROVE  /\ Committed(cells, key) = m
         /\ \A i \in 1..Len(cells) : cells[i].kind = "record" => i <= m
<1>1. m \in 0..Len(cells) /\ Len(cells) \in Nat
  BY DEF Shaped
<1>2. m < Len(cells) => cells[m + 1].kind # "record"
  BY TornIsTorn DEF Shaped
<1>3. m < Len(cells) => ~OpensAt(cells, key, m + 1)
  BY <1>2 DEF OpensAt
<1>4. Committed(cells, key) = m
  BY <1>1, <1>3, CommittedIs DEF Shaped
<1>5. ASSUME NEW i \in 1..Len(cells), cells[i].kind = "record" PROVE i <= m
  <2>1. Len(cells) <= m + 1
    BY DEF Shaped
  <2>2. i = m + 1 => m < Len(cells)
    BY <1>1, <2>1
  <2> QED
    BY <1>1, <1>2, <1>5, <2>1, <2>2
<1> QED
  BY <1>4, <1>5

\* Without a record, a log has its shape under every key.
LEMMA EmptyShape ==
  ASSUME NEW cells \in Seq(Cell), NEW key, NEW other, Shaped(cells, key, 0)
  PROVE  Shaped(cells, other, 0)
BY DEF Shaped

\* Under the key of its records a log is clean or torn, and refused if all it has
\* is garbage.
LEMMA ShapeTail ==
  ASSUME NEW cells \in Seq(Cell), NEW key, NEW m, Shaped(cells, key, m)
  PROVE  /\ TailOf(cells, key) # "error"
         /\ TailOf(cells, key) = "clean" <=> m = Len(cells)
         /\ (TailOf(cells, key) = "final" /\ m = 0) <=> (m = 0 /\ Unreadable(cells))
<1>1. Committed(cells, key) = m
  BY ShapeCommits
<1>2. m \in Nat /\ Len(cells) \in Nat /\ m <= Len(cells) /\ Len(cells) <= m + 1
  BY DEF Shaped
<1>3. CASE m = Len(cells)
  <2>1. TailOf(cells, key) = "clean"
    BY <1>1, <1>3 DEF TailOf
  <2>2. m = 0 => ~Unreadable(cells)
    BY <1>3 DEF Unreadable
  <2> QED
    BY <1>3, <2>1, <2>2
<1>4. CASE m < Len(cells)
  <2>1. m + 1 = Len(cells) /\ m # Len(cells)
    BY <1>2, <1>4
  <2>2. PICK kind \in {"short", "zeros", "garbage"} : cells[m + 1] = Torn(kind)
    BY <1>4 DEF Shaped
  <2>3. cells[m + 1].kind = kind
    BY <2>2, TornIsTorn
  <2>4. TailOf(cells, key) = IF kind = "garbage" THEN "final" ELSE "short"
    BY <1>1, <2>1, <2>2, <2>3 DEF TailOf
  <2>5. m = 0 => (Unreadable(cells) <=> kind = "garbage")
    BY <2>1, <2>3 DEF Unreadable
  <2> QED
    BY <2>1, <2>2, <2>4, <2>5
<1> QED
  BY <1>2, <1>3, <1>4

\* Under another key than its records' a log is refused.
LEMMA WrongKey ==
  ASSUME NEW cells \in Seq(Cell), NEW key, NEW m, Shaped(cells, key, m), m # 0,
         NEW other, other # key
  PROVE  Committed(cells, other) = 0 /\ TailOf(cells, other) \in {"error", "final"}
<1>1. m \in Nat /\ Len(cells) \in Nat /\ 1 <= m /\ m <= Len(cells)
  BY DEF Shaped
<1>2. cells[1].kind = "record" /\ cells[1].key = key
  BY <1>1 DEF Shaped, OpensAt
<1>3. ~OpensAt(cells, other, 1)
  BY <1>2 DEF OpensAt
<1>4. Committed(cells, other) = 0
  BY <1>1, <1>3, CommittedIs
<1>5. TailOf(cells, other) \in {"error", "final"}
  BY <1>1, <1>2, <1>4 DEF TailOf
<1> QED
  BY <1>4, <1>5

\* The keys that open a shaped log: that of its records, or any if it has none.
LEMMA ShapeOpens ==
  ASSUME NEW cells \in Seq(Cell), NEW key \in 1..current, current \in Nat, NEW m,
         Shaped(cells, key, m)
  PROVE  IF m = 0 /\ Unreadable(cells)
         THEN OpeningKeys(cells) = {}
         ELSE /\ OpeningKeys(cells) # {}
              /\ OpenKey(cells) \in 1..current
              /\ Shaped(cells, OpenKey(cells), m)
<1> DEFINE Refuses(k) ==
             TailOf(cells, k) \in {"error", IF Committed(cells, k) = 0 THEN "final" ELSE "none"}
<1>0. OpeningKeys(cells) = {k \in 1..current : ~Refuses(k)}
  BY DEF OpeningKeys
<1>1. ASSUME NEW k, Shaped(cells, k, m) PROVE Refuses(k) <=> (m = 0 /\ Unreadable(cells))
  <2>1. /\ TailOf(cells, k) # "error"
        /\ (TailOf(cells, k) = "final" /\ m = 0) <=> (m = 0 /\ Unreadable(cells))
        /\ Committed(cells, k) = m
    BY <1>1, ShapeTail, ShapeCommits
  <2>2. TailOf(cells, k) \in {"clean", "short", "final", "error"}
    BY DEF TailOf
  <2> QED
    BY <2>1, <2>2
<1>2. CASE m # 0
  <2>1. ASSUME NEW k \in 1..current, k # key PROVE Refuses(k)
    BY <1>2, <2>1, WrongKey
  <2>2. OpeningKeys(cells) = {key}
    BY <1>0, <1>1, <1>2, <2>1
  <2>3. Max({key}) = key
    BY DEF Max
  <2> QED
    BY <1>2, <2>2, <2>3 DEF OpenKey
<1>3. CASE m = 0
  <2>1. ASSUME NEW k PROVE Shaped(cells, k, m)
    BY <1>3, EmptyShape
  <2>2. CASE Unreadable(cells)
    BY <1>0, <1>1, <1>3, <2>1, <2>2
  <2>3. CASE ~Unreadable(cells)
    <3>1. OpeningKeys(cells) = 1..current
      BY <1>0, <1>1, <2>1, <2>3
    <3>2. Max(1..current) = current
      <4>1. \A x \in 1..current : (\A y \in 1..current : x >= y) <=> x = current
        OBVIOUS
      <4>2. current \in 1..current
        OBVIOUS
      <4> QED
        BY <4>1, <4>2 DEF Max
    <3> QED
      BY <2>1, <2>3, <3>1, <3>2 DEF OpenKey
  <2> QED
    BY <2>2, <2>3
<1> QED
  BY <1>2, <1>3

\* What recovery reads of a log.
LEMMA RecoveredIs ==
  ASSUME log.cells \in Seq(Cell), current \in Nat, NEW key \in 1..current, NEW m,
         Shaped(log.cells, key, m), ~(m = 0 /\ Unreadable(log.cells))
  PROVE  /\ OpeningKeys(log.cells) # {}
         /\ OpenKey(log.cells) \in 1..current
         /\ Shaped(log.cells, OpenKey(log.cells), m)
         /\ Recovered \in Seq(Cell)
         /\ Len(Recovered) = m
         /\ \A i \in 1..m : Recovered[i] = log.cells[i]
         /\ ToSet(RecoveredIds) = {log.cells[i].id : i \in 1..m}
<1>1. /\ OpeningKeys(log.cells) # {}
      /\ OpenKey(log.cells) \in 1..current
      /\ Shaped(log.cells, OpenKey(log.cells), m)
  BY ShapeOpens
<1>2. Recovered = SubSeq(log.cells, 1, m) /\ m \in 0..Len(log.cells)
  BY <1>1, ShapeCommits DEF Recovered, Shaped
<1>3. /\ Recovered \in Seq(Cell)
      /\ Len(Recovered) = m
      /\ \A i \in 1..m : Recovered[i] = log.cells[i]
  BY <1>2
<1>4. DOMAIN Recovered = 1..m
  BY <1>3
<1>5. RecoveredIds = [i \in 1..m |-> log.cells[i].id]
  BY <1>3, <1>4 DEF RecoveredIds
<1>6. ToSet(RecoveredIds) = {log.cells[i].id : i \in 1..m}
  BY <1>5 DEF ToSet
<1> QED
  BY <1>1, <1>3, <1>6

-----------------------------------------------------------------------------
(* The inductive invariant. *)

IsFile(f) == f = [written |-> f.written, size |-> f.size, ids |-> f.ids]

Types ==
  /\ log = [header |-> log.header, cells |-> log.cells]
  /\ log.cells \in Seq(Cell)
  /\ synced \in 0..Len(log.cells)
  /\ current \in Nat \ {0} /\ appends \in Nat
  /\ proc = [pc |-> proc.pc, key |-> proc.key, next |-> proc.next, todo |-> proc.todo]
  /\ dest = [file |-> dest.file, stable |-> dest.stable]
  /\ IsFile(temp) /\ IsFile(dest.file) /\ IsFile(dest.stable)

\* The cells are records under one key that Core has, and a torn one at most.
OneKey == \E key \in 1..current, m \in Nat : Shaped(log.cells, key, m)

\* The writer's next index is the number of records; behind them there may be the
\* rest of a frame it failed to write. What it has to sync is in the log.
Writer ==
  proc.pc = "open" =>
    /\ log.header = "whole"
    /\ proc.key \in 1..current /\ proc.next \in Nat
    /\ Shaped(log.cells, proc.key, proc.next)
    /\ proc.next < Len(log.cells) => Last(log.cells).kind = "short"
    /\ proc.todo \in Seq(Nat)
    /\ \A id \in ToSet(proc.todo) : KeptIn(log.cells, id, Len(log.cells))

\* A log has cells once its header is whole, and a new one is made only where no
\* record was acknowledged.
Headers ==
  /\ log.header \in {"none", "short", "whole"}
  /\ log.header # "whole" => log.cells = <<>> /\ proc.pc \in {"down", "create"}
  /\ proc.pc = "create" =>
       log.header = "short" /\ proc.key \in 1..current /\ proc.next = 0 /\ proc.todo = <<>>
  /\ log.header = "short" => acked = {}

\* Acknowledged records are among the synced cells, or in the published file,
\* whichever of its versions a power failure leaves.
SyncedKept ==
  IF log.header = "none"
  THEN acked \subseteq ToSet(dest.file.ids) /\ acked \subseteq ToSet(dest.stable.ids)
  ELSE \A id \in acked : KeptIn(log.cells, id, synced)

\* What is compacted is what the log holds, until the log is deleted.
Published ==
  /\ proc.pc \in {"seal", "rename", "publish", "compacted"} => CanOpen
  /\ proc.pc \in {"seal", "rename"} => temp.ids = RecoveredIds
  /\ proc.pc \in {"publish", "compacted"} => dest.file.ids = RecoveredIds
  /\ proc.pc = "compacted" => dest.stable = dest.file

\* Until a frame is written behind the rest of another.
LogInv == ~glued => Types /\ OneKey /\ Writer /\ Headers /\ SyncedKept /\ Published

-----------------------------------------------------------------------------
(* The invariant implies the properties. *)

\* The invariant with a key and a number of records.
LEMMA Shape ==
  ASSUME LogInv, ~glued
  PROVE  \E key \in 1..current, m \in Nat :
           /\ Shaped(log.cells, key, m)
           /\ log.cells \in Seq(Cell) /\ current \in Nat \ {0}
           /\ synced \in 0..Len(log.cells)
           /\ m \in 0..Len(log.cells)
BY DEF LogInv, Types, OneKey, Shaped

\* An acknowledged record is committed.
LEMMA KeptIsCommitted ==
  ASSUME NEW cells \in Seq(Cell), NEW key, NEW m, Shaped(cells, key, m), NEW id,
         NEW n \in 0..Len(cells), KeptIn(cells, id, n)
  PROVE  KeptIn(cells, id, m) /\ m # 0 /\ id \in {cells[i].id : i \in 1..m}
<1>1. PICK i \in 1..n : cells[i].kind = "record" /\ cells[i].id = id
  BY DEF KeptIn
<1>2. i \in 1..Len(cells) /\ m \in 0..Len(cells)
  BY <1>1 DEF Shaped
<1>3. i <= m
  BY <1>1, <1>2, ShapeCommits
<1>4. i \in 1..m
  BY <1>2, <1>3
<1> QED
  BY <1>1, <1>4 DEF KeptIn

\* SyncedSurvive, in the form a deletion of the log needs as well.
LEMMA AckedRecovered ==
  ASSUME LogInv, ~glued, log.header # "none", acked # {}
  PROVE  CanOpen /\ acked \subseteq ToSet(RecoveredIds)
<1>1. PICK key \in 1..current, m \in Nat :
        /\ Shaped(log.cells, key, m)
        /\ log.cells \in Seq(Cell) /\ current \in Nat \ {0}
        /\ synced \in 0..Len(log.cells)
        /\ m \in 0..Len(log.cells)
  BY Shape
<1>2. \A id \in acked : KeptIn(log.cells, id, synced)
  BY DEF LogInv, SyncedKept
<1>3. \A id \in acked : m # 0 /\ id \in {log.cells[i].id : i \in 1..m}
  BY <1>1, <1>2, KeptIsCommitted
<1>4. m # 0
  BY <1>3
<1>5. log.header = "whole"
  BY DEF LogInv, Headers
<1> QED
  BY <1>1, <1>3, <1>4, <1>5, RecoveredIs DEF CanOpen

\* Synced records survive.
LEMMA Survives == ASSUME LogInv PROVE SyncedSurvive
BY AckedRecovered DEF SyncedSurvive, LogInv, SyncedKept

\* The log opens.
LEMMA Openable == ASSUME LogInv PROVE Reopens
<1> SUFFICES ASSUME proc.pc = "down", log.header = "whole", ~glued
             PROVE  CanOpen \/ (Len(log.cells) = 1 /\ log.cells[1].kind = "garbage" /\ acked = {})
  BY DEF Reopens
<1>1. PICK key \in 1..current, m \in Nat :
        /\ Shaped(log.cells, key, m)
        /\ log.cells \in Seq(Cell) /\ current \in Nat \ {0}
        /\ synced \in 0..Len(log.cells)
        /\ m \in 0..Len(log.cells)
  BY Shape
<1>2. CASE ~(m = 0 /\ Unreadable(log.cells))
  BY <1>1, <1>2, RecoveredIs DEF CanOpen
<1>3. CASE m = 0 /\ Unreadable(log.cells)
  <2>1. \A id \in acked : KeptIn(log.cells, id, synced)
    BY DEF LogInv, SyncedKept
  <2>2. acked = {}
    BY <1>1, <1>3, <2>1, KeptIsCommitted
  <2> QED
    BY <1>3, <2>2 DEF Unreadable
<1> QED
  BY <1>2, <1>3

-----------------------------------------------------------------------------
(* The invariant is kept. *)

\* A log without cells.
LEMMA NoCells ==
  ASSUME NEW key PROVE <<>> \in Seq(Cell) /\ Len(<<>>) = 0 /\ Shaped(<<>>, key, 0)
BY DEF Shaped

\* At first there is no log.
LEMMA InitLogInv == Init => LogInv
<1> SUFFICES ASSUME Init PROVE LogInv
  OBVIOUS
<1>1. IsFile(NoFile) /\ NoFile.ids = <<>>
  BY DEF NoFile, IsFile
<1>2. Types
  BY <1>1, NoCells DEF Init, Types, Down
<1>3. OneKey
  BY NoCells DEF Init, OneKey
<1>4. Writer /\ Headers /\ SyncedKept /\ Published
  BY DEF Init, Down, Writer, Headers, SyncedKept, Published
<1> QED
  BY <1>2, <1>3, <1>4 DEF LogInv

\* What a log holds is the log's alone.
LEMMA SameLog ==
  ASSUME log' = log, current' = current
  PROVE  RecoveredIds' = RecoveredIds /\ CanOpen' = CanOpen
BY DEF RecoveredIds, Recovered, OpenKey, OpeningKeys, CanOpen

\* A step that leaves the log alone, and no writer with it.
LEMMA LogStays ==
  ASSUME LogInv, ~glued, UNCHANGED <<current, LogFile>>, log.header = "whole",
         proc'.pc \notin {"open", "create"}
  PROVE  /\ OneKey' /\ Writer' /\ Headers' /\ SyncedKept'
         /\ RecoveredIds' = RecoveredIds /\ CanOpen' = CanOpen
<1>1. log' = log /\ synced' = synced /\ acked' = acked /\ current' = current
  BY DEF LogFile
<1>2. OneKey'
  BY <1>1 DEF LogInv, OneKey
<1>3. Writer' /\ Headers'
  BY <1>1 DEF LogInv, Writer, Headers
<1>4. SyncedKept'
  BY <1>1 DEF LogInv, SyncedKept
<1> QED
  BY <1>1, <1>2, <1>3, <1>4, SameLog

\* A new log: nothing was acknowledged before.
LEMMA CreateInv == ASSUME LogInv, ~glued', Create PROVE LogInv'
<1>1. /\ ~glued /\ log.header = "none" /\ dest.file = NoFile
      /\ log' = [log EXCEPT !.header = "short"]
      /\ proc' = [Down EXCEPT !.pc = "create", !.key = current]
      /\ UNCHANGED <<synced, current, temp, dest, acked, glued, appends>>
  BY DEF Create, Files
<1>2. Types /\ OneKey /\ Writer /\ Headers /\ SyncedKept /\ Published
  BY <1>1 DEF LogInv
<1>3. log' = [header |-> "short", cells |-> log.cells]
  BY <1>1, <1>2 DEF Types
<1>4. proc' = [pc |-> "create", key |-> current, next |-> 0, todo |-> <<>>]
  BY <1>1 DEF Down
<1>5. acked = {}
  BY <1>1, <1>2 DEF SyncedKept, NoFile, ToSet
<1>6. Types'
  BY <1>1, <1>2, <1>3, <1>4 DEF Types
<1>7. OneKey' /\ Headers' /\ SyncedKept'
  <2>1. log'.header = "short" /\ log'.cells = log.cells
    BY <1>3
  <2>2. proc'.pc = "create" /\ proc'.key = current /\ proc'.next = 0 /\ proc'.todo = <<>>
    BY <1>4
  <2>3. log.cells = <<>> /\ current \in 1..current /\ acked' = {} /\ current' = current
    BY <1>1, <1>2, <1>5 DEF Headers, Types
  <2>4. Headers'
    BY <2>1, <2>2, <2>3 DEF Headers
  <2> QED
    BY <1>2, <2>1, <2>3, <2>4 DEF OneKey, SyncedKept
<1>8. Writer' /\ Published'
  BY <1>4 DEF Writer, Published
<1> QED
  BY <1>6, <1>7, <1>8 DEF LogInv

\* Its header is synced.
LEMMA CreateSyncInv == ASSUME LogInv, ~glued', CreateSync PROVE LogInv'
<1>1. /\ ~glued /\ proc.pc = "create"
      /\ log' = [log EXCEPT !.header = "whole"]
      /\ proc' = [proc EXCEPT !.pc = "open"]
      /\ UNCHANGED <<synced, current, temp, dest, acked, glued, appends>>
  BY DEF CreateSync, Files
<1>2. Types /\ OneKey /\ Writer /\ Headers /\ SyncedKept /\ Published
  BY <1>1 DEF LogInv
<1>3. log' = [header |-> "whole", cells |-> log.cells]
  BY <1>1, <1>2 DEF Types
<1>4. proc' = [pc |-> "open", key |-> proc.key, next |-> proc.next, todo |-> proc.todo]
  BY <1>1, <1>2 DEF Types
<1>5. log.cells = <<>> /\ proc.key \in 1..current /\ proc.next = 0 /\ proc.todo = <<>>
  BY <1>1, <1>2 DEF Headers
<1>6. Types'
  BY <1>1, <1>2, <1>3, <1>4 DEF Types
<1>7. OneKey'
  BY <1>1, <1>2, <1>3 DEF OneKey
<1>8. Writer'
  <2>1. Shaped(<<>>, proc.key, 0) /\ ToSet(<<>>) = {} /\ <<>> \in Seq(Nat) /\ Len(<<>>) = 0
    BY NoCells DEF ToSet
  <2>2. /\ log'.header = "whole" /\ log'.cells = <<>> /\ current' = current
        /\ proc'.key = proc.key /\ proc'.next = 0 /\ proc'.todo = <<>>
    BY <1>1, <1>3, <1>4, <1>5
  <2> QED
    BY <1>5, <2>1, <2>2 DEF Writer
<1>9. Headers' /\ Published'
  BY <1>3, <1>4 DEF Headers, Published
<1>10. SyncedKept'
  BY <1>1, <1>2, <1>3 DEF SyncedKept, Headers
<1> QED
  BY <1>6, <1>7, <1>8, <1>9, <1>10 DEF LogInv

\* Reopened: the torn tail is cut off, and the writer goes on behind the records.
LEMMA OpenAppendInv == ASSUME LogInv, ~glued', OpenAppend PROVE LogInv'
<1>1. /\ ~glued /\ proc.pc = "down" /\ CanOpen /\ OpenKey(log.cells) = current
      /\ log' = [log EXCEPT !.cells = Recovered]
      /\ synced' = IF Recovered = log.cells THEN synced ELSE Len(Recovered)
      /\ proc' = [Down EXCEPT !.pc = "open", !.key = current, !.next = Len(Recovered)]
      /\ UNCHANGED <<current, temp, dest, acked, glued, appends>>
  BY DEF OpenAppend, Files
<1>2. Types /\ OneKey /\ Writer /\ Headers /\ SyncedKept /\ Published
  BY <1>1 DEF LogInv
<1>3. PICK key \in 1..current, m \in Nat :
        /\ Shaped(log.cells, key, m)
        /\ log.cells \in Seq(Cell) /\ current \in Nat \ {0}
        /\ synced \in 0..Len(log.cells)
        /\ m \in 0..Len(log.cells)
  BY <1>1, Shape
<1>4. log' = [header |-> "whole", cells |-> Recovered]
  BY <1>1, <1>2 DEF Types, CanOpen
<1>5. proc' = [pc |-> "open", key |-> current, next |-> Len(Recovered), todo |-> <<>>]
  BY <1>1 DEF Down
<1>6. ~(m = 0 /\ Unreadable(log.cells))
  BY <1>1, <1>3, ShapeOpens DEF CanOpen
<1>7. /\ Shaped(log.cells, current, m)
      /\ Recovered \in Seq(Cell)
      /\ Len(Recovered) = m
      /\ \A i \in 1..m : Recovered[i] = log.cells[i]
  BY <1>1, <1>3, <1>6, RecoveredIs
<1>8. Shaped(Recovered, current, m)
  <2>1. ASSUME NEW i \in 1..m PROVE OpensAt(Recovered, current, i)
    BY <1>7, <2>1 DEF Shaped, OpensAt
  <2> QED
    BY <1>3, <1>7, <2>1 DEF Shaped
<1>9. Types'
  <2>1. synced' \in 0..Len(Recovered)
    BY <1>1, <1>3, <1>7
  <2>2. log'.header = "whole" /\ log'.cells = Recovered
    BY <1>4
  <2> QED
    BY <1>1, <1>2, <1>4, <1>5, <1>7, <2>1, <2>2 DEF Types
<1>10. OneKey'
  BY <1>1, <1>3, <1>4, <1>8 DEF OneKey
<1>11. Writer'
  <2>1. ToSet(<<>>) = {} /\ <<>> \in Seq(Nat)
    BY DEF ToSet
  <2>2. /\ log'.header = "whole" /\ log'.cells = Recovered /\ current' = current
        /\ proc'.key = current /\ proc'.next = m /\ proc'.todo = <<>>
    <3>1. proc'.key = current /\ proc'.next = Len(Recovered) /\ proc'.todo = <<>>
      BY <1>5
    <3> QED
      BY <1>1, <1>4, <1>7, <3>1
  <2>3. current \in 1..current /\ m \in Nat
    BY <1>3
  <2> QED
    BY <1>7, <1>8, <2>1, <2>2, <2>3 DEF Writer
<1>12. Headers' /\ Published'
  BY <1>4, <1>5 DEF Headers, Published
<1>13. SyncedKept'
  <2>1. SUFFICES ASSUME NEW id \in acked PROVE KeptIn(Recovered, id, synced')
    BY <1>1, <1>4 DEF SyncedKept
  <2>2. KeptIn(log.cells, id, synced)
    BY <1>1, <1>2 DEF SyncedKept, CanOpen
  <2>3. CASE Recovered = log.cells
    BY <1>1, <2>2, <2>3
  <2>4. CASE Recovered # log.cells
    <3>1. KeptIn(log.cells, id, m)
      BY <1>3, <2>2, KeptIsCommitted
    <3> QED
      BY <1>1, <1>3, <1>7, <2>4, <3>1 DEF KeptIn
  <2> QED
    BY <2>3, <2>4
<1> QED
  BY <1>9, <1>10, <1>11, <1>12, <1>13 DEF LogInv

\* What is behind a whole record, unless it is glued to the rest of a failed one.
LEMMA BehindIs ==
  ASSUME NEW cells \in Seq(Cell), NEW cell \in Cell, NEW new \in Behind(cells, cell)
  PROVE  \/ new = Append(cells, cell) /\ (cells # <<>> => Last(cells).kind # "short")
         \/ cells # <<>> /\ Len(new) = Len(cells)
<1>1. CASE cells # <<>> /\ Last(cells).kind \in {"short", "broken"}
  BY <1>1 DEF Behind
<1>2. CASE ~(cells # <<>> /\ Last(cells).kind \in {"short", "broken"})
  BY <1>2 DEF Behind
<1> QED
  BY <1>1, <1>2

\* Records stay where they are when another cell follows them.
LEMMA AppendKeeps ==
  ASSUME NEW cells \in Seq(Cell), NEW cell \in Cell
  PROVE  /\ Append(cells, cell) \in Seq(Cell)
         /\ Len(Append(cells, cell)) = Len(cells) + 1
         /\ \A i \in 1..Len(cells) : Append(cells, cell)[i] = cells[i]
         /\ Append(cells, cell)[Len(cells) + 1] = cell
         /\ \A id : \A n \in 0..Len(cells) :
              KeptIn(cells, id, n) => KeptIn(Append(cells, cell), id, n)
         /\ \A key, m : Shaped(cells, key, m) /\ m = Len(cells) =>
              \A i \in 1..m : OpensAt(Append(cells, cell), key, i)
<1>1. /\ Append(cells, cell) \in Seq(Cell)
      /\ Len(Append(cells, cell)) = Len(cells) + 1
      /\ \A i \in 1..Len(cells) : Append(cells, cell)[i] = cells[i]
      /\ Append(cells, cell)[Len(cells) + 1] = cell
  OBVIOUS
<1>2. ASSUME NEW id, NEW n \in 0..Len(cells), KeptIn(cells, id, n)
      PROVE  KeptIn(Append(cells, cell), id, n)
  BY <1>1, <1>2 DEF KeptIn
<1>3. ASSUME NEW key, NEW m, Shaped(cells, key, m), m = Len(cells), NEW i \in 1..m
      PROVE  OpensAt(Append(cells, cell), key, i)
  BY <1>1, <1>3 DEF Shaped, OpensAt
<1> QED
  BY <1>1, <1>2, <1>3

\* One frame more, behind whole records.
LEMMA AppendRecordInv == ASSUME LogInv, ~glued', AppendRecord PROVE LogInv'
<1> DEFINE cell == Record(proc.key, proc.next, appends')
<1>1. /\ proc.pc = "open" /\ appends' = appends + 1
      /\ glued' = (glued \/ (Len(log'.cells) = Len(log.cells) /\ (TRUE \/ log'.cells # log.cells)))
      /\ proc' = [proc EXCEPT !.next = @ + 1, !.todo = Append(@, appends')]
      /\ UNCHANGED <<synced, current, temp, dest, acked>>
  BY DEF AppendRecord, Files, Glue
<1>2. ~glued /\ Len(log'.cells) # Len(log.cells)
  BY <1>1
<1>3. PICK cells \in Behind(log.cells, cell) : log' = [log EXCEPT !.cells = cells]
  BY DEF AppendRecord
<1>4. Types /\ OneKey /\ Writer /\ Headers /\ SyncedKept /\ Published
  BY <1>2 DEF LogInv
<1>5. /\ log.header = "whole"
      /\ proc.key \in 1..current /\ proc.next \in Nat
      /\ Shaped(log.cells, proc.key, proc.next)
      /\ proc.next < Len(log.cells) => Last(log.cells).kind = "short"
      /\ proc.todo \in Seq(Nat)
      /\ \A id \in ToSet(proc.todo) : KeptIn(log.cells, id, Len(log.cells))
  BY <1>1, <1>4 DEF Writer
<1>6. log.cells \in Seq(Cell) /\ current \in Nat /\ appends' \in Nat /\ synced \in 0..Len(log.cells)
  BY <1>1, <1>4 DEF Types
<1>7. cell = [kind |-> "record", key |-> proc.key, index |-> proc.next, id |-> appends']
  BY DEF Record
<1>8. cell \in Cell
  <2>1. proc.key \in Nat
    BY <1>5, <1>6
  <2> QED
    BY <1>5, <1>6, <1>7, <2>1 DEF Cell, CellKinds
<1>9. log' = [header |-> "whole", cells |-> cells]
  BY <1>3, <1>4, <1>5 DEF Types
<1>10. /\ cells = Append(log.cells, cell)
       /\ log.cells # <<>> => Last(log.cells).kind # "short"
  BY <1>2, <1>6, <1>8, <1>9, BehindIs
<1> HIDE DEF cell
<1>11. proc.next = Len(log.cells)
  BY <1>5, <1>6, <1>10 DEF Shaped
<1>12. /\ cells \in Seq(Cell)
       /\ Len(cells) = Len(log.cells) + 1
       /\ cells[Len(log.cells) + 1] = cell
       /\ \A id : \A n \in 0..Len(log.cells) : KeptIn(log.cells, id, n) => KeptIn(cells, id, n)
       /\ \A i \in 1..proc.next : OpensAt(cells, proc.key, i)
  BY <1>5, <1>6, <1>8, <1>10, <1>11, AppendKeeps
<1>13. Shaped(cells, proc.key, proc.next + 1)
  <2>1. OpensAt(cells, proc.key, proc.next + 1)
    BY <1>5, <1>7, <1>11, <1>12 DEF OpensAt
  <2> QED
    BY <1>5, <1>6, <1>11, <1>12, <2>1 DEF Shaped
<1>14. KeptIn(cells, appends', Len(cells))
  BY <1>6, <1>7, <1>12 DEF KeptIn
<1>15. /\ log'.header = "whole" /\ log'.cells = cells
       /\ proc'.pc = "open" /\ proc'.key = proc.key /\ proc'.next = proc.next + 1
       /\ proc'.todo = Append(proc.todo, appends')
       /\ proc' = [pc |-> proc'.pc, key |-> proc'.key, next |-> proc'.next, todo |-> proc'.todo]
  <2>1. proc' = [pc |-> "open", key |-> proc.key, next |-> proc.next + 1,
                 todo |-> Append(proc.todo, appends')]
    BY <1>1, <1>4 DEF Types
  <2> QED
    BY <1>9, <2>1
<1>16. Types'
  <2>1. synced' \in 0..Len(cells)
    BY <1>1, <1>6, <1>12
  <2> QED
    BY <1>1, <1>4, <1>6, <1>9, <1>12, <1>15, <2>1 DEF Types
<1>17. OneKey' /\ Headers' /\ Published'
  BY <1>1, <1>5, <1>13, <1>15 DEF OneKey, Headers, Published
<1>18. Writer'
  <2>1. proc'.todo \in Seq(Nat)
    BY <1>5, <1>6, <1>15
  <2>2. ToSet(proc'.todo) \subseteq ToSet(proc.todo) \cup {appends'}
    BY <1>5, <1>6, <1>15 DEF ToSet
  <2>3. ASSUME NEW id \in ToSet(proc.todo) PROVE KeptIn(cells, id, Len(cells))
    <3>1. KeptIn(cells, id, Len(log.cells))
      BY <1>5, <1>6, <1>12
    <3> QED
      BY <1>6, <1>12, <3>1 DEF KeptIn
  <2>4. \A id \in ToSet(proc'.todo) : KeptIn(cells, id, Len(cells))
    BY <1>14, <2>2, <2>3
  <2>5. proc'.next = Len(cells) /\ proc'.next \in Nat /\ proc'.key \in 1..current'
    BY <1>1, <1>5, <1>11, <1>12, <1>15
  <2> QED
    BY <1>13, <1>15, <2>1, <2>4, <2>5 DEF Writer
<1>19. SyncedKept'
  BY <1>1, <1>4, <1>5, <1>6, <1>12, <1>15 DEF SyncedKept
<1> QED
  BY <1>16, <1>17, <1>18, <1>19 DEF LogInv

\* A failed append and a kill leave the log as it is, or with a part of a frame.
LEMMA PartOfFrame ==
  ASSUME LogInv, ~glued, log.header = "whole", proc.pc = "open",
         NEW cells \in Behind(log.cells, Torn("short")),
         ~(Len(cells) = Len(log.cells) /\ cells # log.cells)
  PROVE  /\ cells \in Seq(Cell) /\ Len(log.cells) <= Len(cells)
         /\ Shaped(cells, proc.key, proc.next)
         /\ proc.next < Len(cells) => Last(cells).kind = "short"
         /\ \A id : \A n \in 0..Len(log.cells) : KeptIn(log.cells, id, n) => KeptIn(cells, id, n)
<1>1. /\ proc.key \in 1..current /\ proc.next \in Nat
      /\ Shaped(log.cells, proc.key, proc.next)
      /\ proc.next < Len(log.cells) => Last(log.cells).kind = "short"
  BY DEF LogInv, Writer
<1>2. log.cells \in Seq(Cell)
  BY DEF LogInv, Types
<1>3. Torn("short") \in Cell /\ Torn("short").kind = "short"
  <2>1. Torn("short") = [kind |-> "short", key |-> 0, index |-> 0, id |-> 0]
    BY DEF Torn
  <2> QED
    BY <2>1 DEF Cell, CellKinds
<1>4. CASE cells = log.cells
  BY <1>1, <1>2, <1>4
<1>5. CASE cells # log.cells
  <2>1. /\ cells = Append(log.cells, Torn("short"))
        /\ log.cells # <<>> => Last(log.cells).kind # "short"
    BY <1>2, <1>3, <1>5, BehindIs
  <2>2. proc.next = Len(log.cells)
    BY <1>1, <1>2, <2>1 DEF Shaped
  <2>3. /\ cells \in Seq(Cell)
        /\ Len(cells) = Len(log.cells) + 1
        /\ cells[Len(log.cells) + 1] = Torn("short")
        /\ \A id : \A n \in 0..Len(log.cells) : KeptIn(log.cells, id, n) => KeptIn(cells, id, n)
        /\ \A i \in 1..proc.next : OpensAt(cells, proc.key, i)
    BY <1>1, <1>2, <1>3, <2>1, <2>2, AppendKeeps
  <2>4. Shaped(cells, proc.key, proc.next)
    BY <1>1, <1>2, <2>2, <2>3 DEF Shaped
  <2>5. Last(cells).kind = "short"
    BY <1>2, <1>3, <2>3 DEF Last
  <2> QED
    BY <1>2, <2>3, <2>4, <2>5
<1> QED
  BY <1>4, <1>5

\* A failed append.
LEMMA AppendFailsInv == ASSUME LogInv, ~glued', AppendFails PROVE LogInv'
<1>1. /\ proc.pc = "open"
      /\ glued' = (glued \/ (Len(log'.cells) = Len(log.cells) /\ (FALSE \/ log'.cells # log.cells)))
      /\ UNCHANGED <<synced, current, proc, temp, dest, acked, appends>>
  BY DEF AppendFails, Files, Glue
<1>2. ~glued /\ ~(Len(log'.cells) = Len(log.cells) /\ log'.cells # log.cells)
  BY <1>1
<1>3. PICK cells \in {log.cells} \cup Behind(log.cells, Torn("short")) :
        log' = [log EXCEPT !.cells = cells]
  BY DEF AppendFails
<1>4. Types /\ OneKey /\ Writer /\ Headers /\ SyncedKept /\ Published
  BY <1>2 DEF LogInv
<1>5. log' = [header |-> log.header, cells |-> cells]
  BY <1>3, <1>4 DEF Types
<1>6. log.header = "whole"
  BY <1>1, <1>4 DEF Writer
<1>7. CASE cells = log.cells
  <2>1. log' = log
    BY <1>4, <1>5, <1>7 DEF Types
  <2>2. UNCHANGED <<log, synced, current, proc, temp, dest, acked, appends>>
    BY <1>1, <2>1
  <2>3. /\ Types' /\ OneKey' /\ Writer' /\ Headers' /\ SyncedKept'
    BY <1>4, <2>2 DEF Types, OneKey, Writer, Headers, SyncedKept
  <2>4. Published'
    BY <1>1, <2>2 DEF Published
  <2> QED
    BY <2>3, <2>4 DEF LogInv
<1>8. CASE cells # log.cells
  <2>1. /\ cells \in Seq(Cell) /\ Len(log.cells) <= Len(cells)
        /\ Shaped(cells, proc.key, proc.next)
        /\ proc.next < Len(cells) => Last(cells).kind = "short"
        /\ \A id : \A n \in 0..Len(log.cells) : KeptIn(log.cells, id, n) => KeptIn(cells, id, n)
    BY <1>1, <1>2, <1>3, <1>5, <1>6, <1>8, PartOfFrame
  <2>2. log'.header = "whole" /\ log'.cells = cells
    BY <1>5, <1>6
  <2>3. /\ synced \in 0..Len(log.cells) /\ synced \in 0..Len(cells)
        /\ Len(log.cells) \in Nat /\ Len(cells) \in Nat
    BY <1>4, <2>1 DEF Types
  <2>4. Types'
    BY <1>1, <1>4, <1>5, <2>1, <2>2, <2>3 DEF Types
  <2>5. OneKey' /\ Headers' /\ Published'
    BY <1>1, <1>4, <2>1, <2>2 DEF OneKey, Writer, Headers, Published
  <2>6. ASSUME NEW id \in ToSet(proc.todo) PROVE KeptIn(cells, id, Len(cells))
    <3>1. KeptIn(log.cells, id, Len(log.cells))
      BY <1>1, <1>4 DEF Writer
    <3>2. KeptIn(cells, id, Len(log.cells))
      BY <2>1, <2>3, <3>1
    <3> QED
      BY <2>1, <2>3, <3>2 DEF KeptIn
  <2>7. Writer'
    BY <1>1, <1>4, <2>1, <2>2, <2>6 DEF Writer
  <2>8. SyncedKept'
    BY <1>1, <1>4, <1>6, <2>1, <2>2, <2>3 DEF SyncedKept
  <2> QED
    BY <2>4, <2>5, <2>7, <2>8 DEF LogInv
<1> QED
  BY <1>7, <1>8

\* A sync acknowledges what is in the log.
LEMMA SyncInv == ASSUME LogInv, ~glued', Sync PROVE LogInv'
<1>1. /\ ~glued /\ proc.pc = "open" /\ synced' = Len(log.cells)
      /\ acked' = acked \cup ToSet(proc.todo)
      /\ proc' = [proc EXCEPT !.todo = <<>>]
      /\ UNCHANGED <<log, current, temp, dest, appends>>
  BY DEF Sync, Files
<1>2. Types /\ OneKey /\ Writer /\ Headers /\ SyncedKept /\ Published
  BY <1>1 DEF LogInv
<1>3. proc' = [pc |-> "open", key |-> proc.key, next |-> proc.next, todo |-> <<>>]
  BY <1>1, <1>2 DEF Types
<1>4. log.header = "whole" /\ synced \in 0..Len(log.cells) /\ Len(log.cells) \in Nat
  BY <1>1, <1>2 DEF Writer, Types
<1>5. Types'
  BY <1>1, <1>2, <1>3, <1>4 DEF Types
<1>6. ToSet(<<>>) = {} /\ <<>> \in Seq(Nat)
  BY DEF ToSet
<1>7. Writer'
  <2>1. proc'.key = proc.key /\ proc'.next = proc.next /\ proc'.todo = <<>>
    BY <1>3
  <2> QED
    BY <1>1, <1>2, <1>6, <2>1 DEF Writer
<1>8. OneKey' /\ Headers' /\ Published'
  BY <1>1, <1>2, <1>3, <1>4 DEF OneKey, Headers, Published
<1>9. ASSUME NEW id \in acked' PROVE KeptIn(log.cells, id, Len(log.cells))
  <2>1. CASE id \in acked
    <3>1. KeptIn(log.cells, id, synced)
      BY <1>2, <1>4, <2>1 DEF SyncedKept
    <3> QED
      BY <1>4, <3>1 DEF KeptIn
  <2>2. CASE id \in ToSet(proc.todo)
    BY <1>1, <1>2, <2>2 DEF Writer
  <2> QED
    BY <1>1, <1>9, <2>1, <2>2
<1>10. SyncedKept'
  BY <1>1, <1>4, <1>9 DEF SyncedKept
<1> QED
  BY <1>5, <1>7, <1>8, <1>10 DEF LogInv

\* The writer is closed.
LEMMA CloseInv == ASSUME LogInv, ~glued', Close PROVE LogInv'
<1>1. /\ ~glued /\ proc.pc = "open" /\ proc' = Down
      /\ UNCHANGED <<current, LogFile, temp, dest>>
  BY DEF Close, Files, LogFile
<1>2. Types /\ log.header = "whole"
  BY <1>1 DEF LogInv, Writer
<1>3. OneKey' /\ Writer' /\ Headers' /\ SyncedKept'
  BY <1>1, <1>2, LogStays DEF Down
<1>4. Types' /\ Published'
  BY <1>1, <1>2 DEF Types, Published, Down, LogFile
<1> QED
  BY <1>3, <1>4 DEF LogInv

\* While a log is compacted it is there and opens.
LEMMA CompactingOpens ==
  ASSUME LogInv, ~glued, proc.pc \in {"seal", "rename", "publish", "compacted"}
  PROVE  log.header = "whole" /\ CanOpen
BY DEF LogInv, Published, CanOpen

\* A sealed file is begun with what recovery reads.
LEMMA CompactInv == ASSUME LogInv, ~glued', Compact PROVE LogInv'
<1>1. /\ ~glued /\ CanOpen
      /\ proc' = [Down EXCEPT !.pc = "seal", !.todo = RecoveredIds]
      /\ temp' = [written |-> NewFile(current), size |-> HeaderLen, ids |-> RecoveredIds]
      /\ UNCHANGED <<current, LogFile, dest>>
  BY DEF Compact, LogFile
<1>2. Types /\ log.header = "whole"
  BY <1>1 DEF LogInv, CanOpen
<1>3. proc' = [pc |-> "seal", key |-> 0, next |-> 0, todo |-> RecoveredIds]
  BY <1>1 DEF Down
<1>4. /\ OneKey' /\ Writer' /\ Headers' /\ SyncedKept'
      /\ RecoveredIds' = RecoveredIds /\ CanOpen' = CanOpen
  BY <1>1, <1>2, <1>3, LogStays
<1>5. IsFile(temp)' /\ temp'.ids = RecoveredIds
  BY <1>1 DEF IsFile
<1>6. Types'
  BY <1>1, <1>2, <1>3, <1>5 DEF Types, LogFile
<1>7. Published'
  BY <1>1, <1>3, <1>4, <1>5 DEF Published
<1> QED
  BY <1>4, <1>6, <1>7 DEF LogInv

\* Writing on the file leaves the records it is made of.
LEMMA WrittenIds ==
  ASSUME IsFile(temp), NEW w PROVE IsFile(Written(w)) /\ Written(w).ids = temp.ids
<1>1. PICK size : size = Size(w)
  OBVIOUS
<1>2. Written(w) = [temp EXCEPT !.written = w, !.size = size]
  BY <1>1 DEF Written
<1>3. PICK written, old, ids : temp = [written |-> written, size |-> old, ids |-> ids]
  BY DEF IsFile
<1>4. Written(w) = [written |-> w, size |-> size, ids |-> ids] /\ temp.ids = ids
  BY <1>2, <1>3
<1> QED
  BY <1>4 DEF IsFile

\* A record is sealed, or the last chunk is.
LEMMA SealingInv ==
  ASSUME LogInv, ~glued', SealRecord \/ SealFinish PROVE LogInv'
<1>1. /\ ~glued /\ proc.pc = "seal"
      /\ \E w : temp' = Written(w)
      /\ UNCHANGED <<current, LogFile, dest>>
  BY DEF SealRecord, SealFinish, LogFile
<1>2. Types /\ Published
  BY <1>1 DEF LogInv
<1>3. /\ proc' = [pc |-> proc'.pc, key |-> proc'.key, next |-> proc'.next, todo |-> proc'.todo]
      /\ proc'.pc \in {"seal", "rename"}
  <2>1. CASE SealRecord
    <3>1. proc' = [pc |-> proc.pc, key |-> proc.key, next |-> proc.next, todo |-> Tail(proc.todo)]
      BY <1>2, <2>1 DEF SealRecord, Types
    <3> QED
      BY <1>1, <3>1
  <2>2. CASE SealFinish
    <3>1. proc' = [pc |-> "rename", key |-> proc.key, next |-> proc.next, todo |-> proc.todo]
      BY <1>2, <2>2 DEF SealFinish, Types
    <3> QED
      BY <3>1
  <2> QED
    BY <2>1, <2>2
<1>4. log.header = "whole" /\ CanOpen
  BY <1>1, CompactingOpens
<1>5. /\ OneKey' /\ Writer' /\ Headers' /\ SyncedKept'
      /\ RecoveredIds' = RecoveredIds /\ CanOpen' = CanOpen
  BY <1>1, <1>3, <1>4, LogStays
<1>6. IsFile(temp)' /\ temp'.ids = temp.ids
  BY <1>1, <1>2, WrittenIds DEF Types, IsFile
<1>7. Types'
  BY <1>1, <1>2, <1>3, <1>6 DEF Types, LogFile
<1>8. Published'
  BY <1>1, <1>2, <1>3, <1>4, <1>5, <1>6 DEF Published
<1> QED
  BY <1>5, <1>7, <1>8 DEF LogInv

\* The compaction gives up.
LEMMA SealFailsInv == ASSUME LogInv, ~glued', SealFails PROVE LogInv'
<1>1. /\ ~glued /\ proc.pc = "seal" /\ temp' = NoFile /\ proc' = Down
      /\ UNCHANGED <<current, LogFile, dest>>
  BY DEF SealFails, LogFile
<1>2. Types
  BY <1>1 DEF LogInv
<1>3. log.header = "whole"
  BY <1>1, CompactingOpens
<1>4. OneKey' /\ Writer' /\ Headers' /\ SyncedKept'
  BY <1>1, <1>3, LogStays DEF Down
<1>5. IsFile(temp)'
  BY <1>1 DEF NoFile, IsFile
<1>6. Types' /\ Published'
  BY <1>1, <1>2, <1>5 DEF Types, Published, Down, LogFile
<1> QED
  BY <1>4, <1>6 DEF LogInv

\* The file gets its name.
LEMMA RenameInv == ASSUME LogInv, ~glued', Rename PROVE LogInv'
<1>1. /\ ~glued /\ proc.pc = "rename"
      /\ dest' = [dest EXCEPT !.file = temp] /\ temp' = NoFile
      /\ proc' = [proc EXCEPT !.pc = "publish"]
      /\ UNCHANGED <<current, LogFile>>
  BY DEF Rename, LogFile
<1>2. Types /\ Published
  BY <1>1 DEF LogInv
<1>3. proc' = [pc |-> "publish", key |-> proc.key, next |-> proc.next, todo |-> proc.todo]
  BY <1>1, <1>2 DEF Types
<1>4. dest' = [file |-> temp, stable |-> dest.stable]
  BY <1>1, <1>2 DEF Types
<1>5. log.header = "whole" /\ CanOpen
  BY <1>1, CompactingOpens
<1>6. /\ OneKey' /\ Writer' /\ Headers' /\ SyncedKept'
      /\ RecoveredIds' = RecoveredIds /\ CanOpen' = CanOpen
  BY <1>1, <1>3, <1>5, LogStays
<1>7. IsFile(temp)' /\ dest'.file = temp /\ dest'.stable = dest.stable
  BY <1>1, <1>4 DEF NoFile, IsFile
<1>8. Types'
  BY <1>1, <1>2, <1>3, <1>4, <1>7 DEF Types, LogFile, IsFile
<1>9. Published'
  BY <1>1, <1>2, <1>3, <1>5, <1>6, <1>7 DEF Published
<1> QED
  BY <1>6, <1>8, <1>9 DEF LogInv

\* Its name is on stable storage.
LEMMA PublishInv == ASSUME LogInv, ~glued', Publish PROVE LogInv'
<1>1. /\ ~glued /\ proc.pc = "publish"
      /\ dest' = [dest EXCEPT !.stable = dest.file]
      /\ proc' = [proc EXCEPT !.pc = "compacted"]
      /\ UNCHANGED <<current, LogFile, temp>>
  BY DEF Publish, LogFile
<1>2. Types /\ Published
  BY <1>1 DEF LogInv
<1>3. proc' = [pc |-> "compacted", key |-> proc.key, next |-> proc.next, todo |-> proc.todo]
  BY <1>1, <1>2 DEF Types
<1>4. dest' = [file |-> dest.file, stable |-> dest.file]
  BY <1>1, <1>2 DEF Types
<1>5. log.header = "whole" /\ CanOpen
  BY <1>1, CompactingOpens
<1>6. /\ OneKey' /\ Writer' /\ Headers' /\ SyncedKept'
      /\ RecoveredIds' = RecoveredIds /\ CanOpen' = CanOpen
  BY <1>1, <1>3, <1>5, LogStays
<1>7. dest'.file = dest.file /\ dest'.stable = dest.file
  BY <1>4
<1>8. Types'
  BY <1>1, <1>2, <1>3, <1>4, <1>7 DEF Types, LogFile, IsFile
<1>9. Published'
  BY <1>1, <1>2, <1>3, <1>5, <1>6, <1>7 DEF Published
<1> QED
  BY <1>6, <1>8, <1>9 DEF LogInv

\* The log goes once the file has all of it, for good.
LEMMA DeleteLogInv == ASSUME LogInv, ~glued', DeleteLog PROVE LogInv'
<1>1. /\ ~glued /\ proc.pc = "compacted"
      /\ log' = [header |-> "none", cells |-> <<>>]
      /\ synced' = 0 /\ proc' = Down
      /\ UNCHANGED <<current, temp, dest, acked, appends>>
  BY DEF DeleteLog, Files
<1>2. Types /\ Published
  BY <1>1 DEF LogInv
<1>3. log.header = "whole" /\ CanOpen
  BY <1>1, CompactingOpens
<1>4. acked \subseteq ToSet(RecoveredIds)
  BY <1>1, <1>3, AckedRecovered
<1>5. acked \subseteq ToSet(dest.file.ids) /\ dest.stable = dest.file
  BY <1>1, <1>2, <1>4 DEF Published
<1>6. Types'
  BY <1>1, <1>2, NoCells DEF Types, Down
<1>7. OneKey'
  <2>1. 1 \in 1..current' /\ 0 \in Nat
    BY <1>1, <1>2 DEF Types
  <2>2. Shaped(log'.cells, 1, 0)
    BY <1>1, NoCells
  <2> QED
    BY <2>1, <2>2 DEF OneKey
<1>8. Writer' /\ Headers' /\ SyncedKept' /\ Published'
  BY <1>1, <1>5 DEF Writer, Headers, SyncedKept, Published, Down
<1> QED
  BY <1>6, <1>7, <1>8 DEF LogInv

\* A new master key: the log stays under the one it has.
LEMMA RotateInv == ASSUME LogInv, ~glued', Rotate PROVE LogInv'
<1>1. /\ ~glued /\ proc.pc = "down" /\ current' = current + 1
      /\ UNCHANGED <<proc, log, synced, acked, appends, temp, dest>>
  BY DEF Rotate, LogFile, Files
<1>2. Types /\ OneKey /\ Writer /\ Headers /\ SyncedKept /\ Published
  BY <1>1 DEF LogInv
<1>3. Types'
  BY <1>1, <1>2 DEF Types
<1>4. OneKey'
  <2>1. 1..current \subseteq 1..current'
    BY <1>1, <1>2 DEF Types
  <2> QED
    BY <1>1, <1>2, <2>1 DEF OneKey
<1>5. Writer' /\ Headers' /\ SyncedKept' /\ Published'
  BY <1>1, <1>2 DEF Writer, Headers, SyncedKept, Published
<1> QED
  BY <1>3, <1>4, <1>5 DEF LogInv

\* Killed.
LEMMA KillInv == ASSUME LogInv, ~glued', Kill PROVE LogInv'
<1>1. /\ glued' = (glued \/ (Len(log'.cells) = Len(log.cells) /\ (FALSE \/ log'.cells # log.cells)))
      /\ proc' = Down
      /\ UNCHANGED <<synced, current, temp, dest, acked, appends>>
  BY DEF Kill, Files, Glue
<1>2. ~glued /\ ~(Len(log'.cells) = Len(log.cells) /\ log'.cells # log.cells)
  BY <1>1
<1>3. PICK cells \in {log.cells} \cup (IF proc.pc = "open" THEN Behind(log.cells, Torn("short")) ELSE {}),
           header \in {log.header} \cup (IF proc.pc = "create" THEN {"whole"} ELSE {}) :
        log' = [header |-> header, cells |-> cells]
  BY DEF Kill
<1>4. Types /\ OneKey /\ Writer /\ Headers /\ SyncedKept /\ Published
  BY <1>2 DEF LogInv
<1>5. log'.header = header /\ log'.cells = cells
  BY <1>3
<1>6. /\ log.cells \in Seq(Cell) /\ synced \in 0..Len(log.cells) /\ Len(log.cells) \in Nat
      /\ proc.pc = "open" => log.header = "whole"
      /\ header # log.header => log.header = "short" /\ header = "whole" /\ proc.pc = "create"
  BY <1>3, <1>4 DEF Types, Writer, Headers
<1>7. /\ cells \in Seq(Cell) /\ Len(log.cells) <= Len(cells)
      /\ \E key \in 1..current, m \in Nat : Shaped(cells, key, m)
      /\ \A id : \A n \in 0..Len(log.cells) : KeptIn(log.cells, id, n) => KeptIn(cells, id, n)
      /\ cells # log.cells => proc.pc = "open"
  <2>1. CASE cells = log.cells
    BY <1>4, <1>6, <2>1 DEF OneKey
  <2>2. CASE cells # log.cells
    <3>1. proc.pc = "open" /\ cells \in Behind(log.cells, Torn("short"))
      BY <1>3, <2>2
    <3>2. proc.key \in 1..current /\ proc.next \in Nat
      BY <1>4, <3>1 DEF Writer
    <3> QED
      BY <1>2, <1>5, <1>6, <2>2, <3>1, <3>2, PartOfFrame
  <2> QED
    BY <2>1, <2>2
<1>8. Types'
  <2>1. synced' \in 0..Len(cells)
    BY <1>1, <1>6, <1>7
  <2>2. log' = [header |-> log'.header, cells |-> log'.cells]
    BY <1>3, <1>5
  <2> QED
    BY <1>1, <1>4, <1>5, <1>7, <2>1, <2>2 DEF Types, Down
<1>9. OneKey'
  BY <1>1, <1>5, <1>7 DEF OneKey
<1>10. Headers'
  <2>1. proc'.pc = "down"
    BY <1>1 DEF Down
  <2>2. header # "whole" => header = log.header /\ cells = <<>>
    BY <1>4, <1>6, <1>7 DEF Headers
  <2> QED
    BY <1>1, <1>4, <1>5, <1>6, <2>1, <2>2 DEF Headers
<1>11. SyncedKept'
  BY <1>1, <1>4, <1>5, <1>6, <1>7 DEF SyncedKept, Headers
<1>12. Writer' /\ Published'
  BY <1>1 DEF Writer, Published, Down
<1> QED
  BY <1>8, <1>9, <1>10, <1>11, <1>12 DEF LogInv

\* A log cut anywhere behind n cells keeps them, and they are records unless all is kept.
LEMMA CutIs ==
  ASSUME NEW cells \in Seq(Cell), NEW key, NEW m, Shaped(cells, key, m), NEW n \in 0..Len(cells),
         NEW cut, \/ cut = SubSeq(cells, 1, n)
                  \/ /\ n # Len(cells)
                     /\ \E kind \in {"short", "zeros", "garbage"} :
                          cut = Append(SubSeq(cells, 1, n), Torn(kind))
  PROVE  /\ cut \in Seq(Cell) /\ n <= Len(cut)
         /\ \E k \in Nat : Shaped(cut, key, k)
         /\ \A id : \A i \in 0..n : KeptIn(cells, id, i) => KeptIn(cut, id, Len(cut))
<1> DEFINE prefix == SubSeq(cells, 1, n)
<1>1. /\ prefix \in Seq(Cell) /\ Len(prefix) = n
      /\ \A i \in 1..n : prefix[i] = cells[i]
  OBVIOUS
<1>2. m \in Nat /\ n \in Nat /\ Len(cells) \in Nat /\ m <= Len(cells) /\ Len(cells) <= m + 1 /\ n <= Len(cells)
  BY DEF Shaped
<1>3. ASSUME NEW kind \in {"short", "zeros", "garbage"} PROVE Torn(kind) \in Cell
  <2>1. Torn(kind) = [kind |-> kind, key |-> 0, index |-> 0, id |-> 0]
    BY DEF Torn
  <2> QED
    BY <2>1 DEF Cell, CellKinds
<1>4. n = Len(cells) => prefix = cells
  BY <1>1, <1>2
<1>5. cut = prefix \/ (n # Len(cells) /\ \E kind \in {"short", "zeros", "garbage"} :
                         cut = Append(prefix, Torn(kind)))
  OBVIOUS
<1> HIDE DEF prefix
<1>6. /\ cut \in Seq(Cell) /\ n <= Len(cut) /\ Len(cut) <= n + 1
      /\ \A i \in 1..n : cut[i] = cells[i]
      /\ n < Len(cut) => n # Len(cells) /\ \E kind \in {"short", "zeros", "garbage"} : cut[n + 1] = Torn(kind)
  <2>1. CASE cut = prefix
    BY <1>1, <1>2, <2>1
  <2>2. CASE cut # prefix
    <3>1. PICK kind \in {"short", "zeros", "garbage"} : cut = Append(prefix, Torn(kind))
      BY <1>5, <2>2
    <3>2. Torn(kind) \in Cell
      BY <1>3
    <3>3. PICK torn \in Cell : torn = Torn(kind)
      BY <3>2
    <3>4. /\ cut \in Seq(Cell) /\ Len(cut) = n + 1 /\ cut[n + 1] = torn
          /\ \A i \in 1..n : cut[i] = cells[i]
      BY <1>1, <1>2, <3>1, <3>3
    <3> QED
      BY <1>2, <1>5, <2>2, <3>3, <3>4
  <2> QED
    BY <2>1, <2>2
<1>7. \E k \in Nat : Shaped(cut, key, k)
  <2>1. CASE n <= m
    <3>1. ASSUME NEW i \in 1..n PROVE OpensAt(cut, key, i)
      <4>1. i \in 1..m
        BY <1>2, <2>1
      <4>2. OpensAt(cells, key, i)
        BY <4>1 DEF Shaped
      <4> QED
        BY <1>6, <4>2 DEF OpensAt
    <3>2. Len(cut) \in Nat
      BY <1>6
    <3>3. Shaped(cut, key, n)
      BY <1>2, <1>6, <3>1, <3>2 DEF Shaped
    <3> QED
      BY <1>2, <3>3
  <2>2. CASE ~(n <= m)
    <3>1. n = Len(cells)
      BY <1>2, <2>2
    <3>2. cut = cells
      BY <1>4, <1>5, <3>1
    <3> QED
      BY <1>2, <3>2
  <2> QED
    BY <2>1, <2>2
<1>8. ASSUME NEW id, NEW i \in 0..n, KeptIn(cells, id, i) PROVE KeptIn(cut, id, Len(cut))
  <2>1. PICK j \in 1..i : cells[j].kind = "record" /\ cells[j].id = id
    BY <1>8 DEF KeptIn
  <2>2. j \in 1..n /\ j \in 1..Len(cut)
    BY <1>2, <1>6, <2>1
  <2> QED
    BY <1>6, <2>1, <2>2 DEF KeptIn
<1> QED
  BY <1>6, <1>7, <1>8

\* The power fails: what is synced stays, and one of the two files.
LEMMA PowerFailsInv == ASSUME LogInv, ~glued', PowerFails PROVE LogInv'
<1>1. /\ ~glued /\ proc' = Down
      /\ synced' = Len(log'.cells)
      /\ UNCHANGED <<current, acked, appends>>
  BY DEF PowerFails
<1>2. Types /\ OneKey /\ Writer /\ Headers /\ SyncedKept /\ Published
  BY <1>1 DEF LogInv
<1>3. PICK cells \in AfterPowerLoss,
           header \in {log.header} \cup (IF proc.pc = "create" THEN {"none", "whole"} ELSE {}) :
        log' = [header |-> header, cells |-> cells]
  BY DEF PowerFails
<1>4. log'.header = header /\ log'.cells = cells
  BY <1>3
<1>5. /\ log.cells \in Seq(Cell) /\ synced \in 0..Len(log.cells) /\ Len(log.cells) \in Nat
      /\ current \in Nat
  BY <1>2 DEF Types
<1>6. PICK key \in 1..current, m \in Nat : Shaped(log.cells, key, m)
  BY <1>2 DEF OneKey
<1>7. \E n \in synced..Len(log.cells) :
        \/ cells = SubSeq(log.cells, 1, n)
        \/ /\ n # Len(log.cells)
           /\ \E kind \in {"short", "zeros", "garbage"} :
                cells = Append(SubSeq(log.cells, 1, n), Torn(kind))
  BY <1>3 DEF AfterPowerLoss
<1>8. PICK n \in synced..Len(log.cells) :
        \/ cells = SubSeq(log.cells, 1, n)
        \/ /\ n # Len(log.cells)
           /\ \E kind \in {"short", "zeros", "garbage"} :
                cells = Append(SubSeq(log.cells, 1, n), Torn(kind))
  BY <1>7
<1>9. n \in 0..Len(log.cells) /\ synced \in 0..n
  BY <1>5
<1>10. /\ cells \in Seq(Cell) /\ n <= Len(cells)
       /\ \E k \in Nat : Shaped(cells, key, k)
       /\ \A id : \A i \in 0..n : KeptIn(log.cells, id, i) => KeptIn(cells, id, Len(cells))
  BY <1>5, <1>6, <1>8, <1>9, CutIs
<1>11. log.cells = <<>> => cells = <<>>
  <2>1. SubSeq(<<>>, 1, 0) = <<>> /\ Len(<<>>) = 0
    OBVIOUS
  <2> QED
    BY <1>8, <1>9, <2>1
<1>12. dest' = [file |-> dest'.file, stable |-> dest'.file] /\ dest'.stable = dest'.file
       /\ dest'.file \in {dest.file, dest.stable}
  <2>1. PICK file \in {dest.file, dest.stable} : dest' = [file |-> file, stable |-> file]
    BY DEF PowerFails
  <2> QED
    BY <2>1
<1>13. IsFile(temp)'
  <2>1. CASE temp' = temp
    BY <1>2, <2>1 DEF Types, IsFile
  <2>2. CASE temp' # temp
    <3>1. PICK size : temp' = [temp EXCEPT !.size = size]
      BY <2>2 DEF PowerFails
    <3>2. PICK written, old, ids : temp = [written |-> written, size |-> old, ids |-> ids]
      BY <1>2 DEF Types, IsFile
    <3>3. temp' = [written |-> written, size |-> size, ids |-> ids]
      BY <3>1, <3>2
    <3> QED
      BY <3>3 DEF IsFile
  <2> QED
    BY <2>1, <2>2
<1>14. Types'
  <2>1. log' = [header |-> log'.header, cells |-> log'.cells]
    BY <1>3, <1>4
  <2>2. Len(cells) \in Nat /\ synced' \in 0..Len(cells)
    BY <1>1, <1>4, <1>10
  <2>3. IsFile(dest'.file) /\ IsFile(dest'.stable)
    BY <1>2, <1>12 DEF Types
  <2> QED
    BY <1>1, <1>2, <1>4, <1>10, <1>12, <1>13, <2>1, <2>2, <2>3 DEF Types, Down, IsFile
<1>15. OneKey'
  BY <1>1, <1>4, <1>6, <1>10 DEF OneKey
<1>16. header # log.header => log.header = "short" /\ header \in {"none", "whole"} /\ acked = {} /\ log.cells = <<>>
  BY <1>2, <1>3 DEF Headers
<1>17. Headers'
  <2>1. proc'.pc = "down"
    BY <1>1 DEF Down
  <2>2. header # "whole" => cells = <<>>
    BY <1>2, <1>11, <1>16 DEF Headers
  <2>3. header \in {"none", "short", "whole"} /\ (header = "short" => acked = {})
    BY <1>2, <1>16 DEF Headers
  <2> QED
    BY <1>1, <1>4, <2>1, <2>2, <2>3 DEF Headers
<1>18. SyncedKept'
  <2>1. CASE header # log.header
    BY <1>1, <1>4, <1>16, <2>1 DEF SyncedKept
  <2>2. CASE header = log.header /\ header = "none"
    BY <1>1, <1>2, <1>4, <1>12, <2>2 DEF SyncedKept
  <2>3. CASE header = log.header /\ header # "none"
    BY <1>1, <1>2, <1>4, <1>9, <1>10, <2>3 DEF SyncedKept
  <2> QED
    BY <2>1, <2>2, <2>3
<1>19. Writer' /\ Published'
  BY <1>1 DEF Writer, Published, Down
<1> QED
  BY <1>14, <1>15, <1>17, <1>18, <1>19 DEF LogInv

\* Every step keeps the invariant.
LEMMA NextLogInv == ASSUME LogInv, [Next]_vars PROVE LogInv'
<1>1. CASE glued'
  BY <1>1 DEF LogInv
<1>2. CASE ~glued' /\ Next
  BY <1>2, CreateInv, CreateSyncInv, OpenAppendInv, AppendRecordInv, AppendFailsInv, SyncInv, CloseInv,
     CompactInv, SealingInv, SealFailsInv, RenameInv, PublishInv, DeleteLogInv, RotateInv, KillInv,
     PowerFailsInv DEF Next
<1>3. CASE UNCHANGED vars
  <2>1. UNCHANGED <<log, synced, current, proc, temp, dest, acked, glued, appends>>
    BY <1>3 DEF vars
  <2>2. RecoveredIds' = RecoveredIds /\ CanOpen' = CanOpen
    BY <2>1, SameLog
  <2>3. /\ Types' = Types /\ OneKey' = OneKey /\ Writer' = Writer /\ Headers' = Headers
        /\ SyncedKept' = SyncedKept
    BY <2>1 DEF Types, OneKey, Writer, Headers, SyncedKept, IsFile
  <2>4. Published' = Published
    BY <2>1, <2>2 DEF Published
  <2> QED
    BY <2>1, <2>3, <2>4 DEF LogInv
<1> QED
  BY <1>1, <1>2, <1>3

\* The invariant holds in every state.
THEOREM LogInvAlways == Spec => []LogInv
BY InitLogInv, NextLogInv, PTL DEF Spec

\* A record that sync returned for is read back, whatever was killed, torn,
\* replaced or compacted since (sync, open_recovering, compact_to_sealed_file).
THEOREM SyncedAlwaysSurvive == Spec => []SyncedSurvive
BY LogInvAlways, Survives, PTL

\* A log never gets stuck while it holds a record: after any crash open_append
\* or compact_to_sealed_file opens it.
THEOREM AlwaysReopens == Spec => []Reopens
BY LogInvAlways, Openable, PTL
=============================================================================
