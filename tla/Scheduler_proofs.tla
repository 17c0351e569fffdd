--------------------------- MODULE Scheduler_proofs ---------------------------
(***************************************************************************)
(* Theorems about Scheduler, for any schedules, workers and proofs, and    *)
(* any number of failed writes and kills: its four safety properties       *)
(* follow from one inductive invariant.                                    *)
(***************************************************************************)
EXTENDS Scheduler, TLAPS

-----------------------------------------------------------------------------
(* The inductive invariant. *)

\* Ids are minted before anything knows them.
Known == DOMAIN mem \cup DOMAIN disk \cup quiet \cup gone \subseteq minted

\* A schedule whose creation is under way is nowhere yet, and is created once.
Unborn ==
  \A w \in Workers : flight[w].pc = "insert" =>
    /\ flight[w].item \in minted \cap Schedules
    /\ flight[w].item \notin DOMAIN mem \cup DOMAIN disk \cup quiet \cup gone
    /\ \A v \in Workers \ {w} : flight[v].pc = "insert" => flight[v].item # flight[w].item

\* A schedule somebody is enabling is not quiet any more.
Stirred ==
  \A w \in Workers : flight[w].pc \in {"authorize", "activate"} => flight[w].item \notin quiet

\* The loop has an item in hand or none, and not in the batch as well.
InHand ==
  /\ loop.pc \in {"sleep", "next"} <=> loop.item = None
  /\ loop.item \notin DOMAIN loop.batch

\* Past the check, the permission held when the item was taken in hand.
Permitted ==
  /\ loop.pc = "check" => loop.proof # None
  /\ loop.pc \in {"recheck", "running"} =>
       IF loop.proof = None THEN LocalOwner ELSE loop.proof \notin loop.before

\* A schedule executed since it became due is in no batch, is in hand only to
\* be recorded, and is due only while it is in hand.
Executed(s) ==
  /\ s \notin DOMAIN loop.batch
  /\ loop.item = s => loop.pc \in {"running", "record"}
  /\ s \in DOMAIN mem /\ mem[s].due => loop.item = s

Once == \A s \in Schedules : ran[s] <= 1 /\ (ran[s] # 0 => Executed(s))

ScheduleInv ==
  /\ TypeOK
  /\ Known
  /\ Unborn
  /\ Stirred
  /\ PausedAndDeletedStay
  /\ InHand
  /\ Permitted
  /\ Once

-----------------------------------------------------------------------------
(* Tables of schedules. *)

LEMMA FieldSet ==
  ASSUME NEW t, IsTable(t), NEW s \in DOMAIN t, NEW b \in BOOLEAN, NEW p \in Proofs \cup {None}
  PROVE  /\ IsTable([t EXCEPT ![s].due = b])
         /\ IsTable([t EXCEPT ![s].active = b])
         /\ IsTable([t EXCEPT ![s].proof = p])
         /\ IsTable([t EXCEPT ![s].active = b, ![s].due = FALSE])
BY DEF IsTable, Schedule

\* persist_state leaves the new table in memory, and the new or the old on disk.
LEMMA PersistKeeps ==
  ASSUME TypeOK, NEW t, IsTable(t), NEW ok \in BOOLEAN, Persist(t, ok)
  PROVE  /\ mem' = t /\ IsTable(mem') /\ IsTable(disk')
         /\ disk' = IF ok THEN t ELSE disk
         /\ faults' \in 0..MaxFaults
<1>1. faults \in 0..MaxFaults BY DEF TypeOK
<1>2. faults' \in 0..MaxFaults BY <1>1, SchedulerAssumption DEF Persist
<1>. QED BY <1>2 DEF Persist, TypeOK

-----------------------------------------------------------------------------
(* Initially. *)

LEMMA InitInv == Init => ScheduleInv
<1> SUFFICES ASSUME Init PROVE ScheduleInv
  OBVIOUS
<1>1. PICK legacy \in SUBSET Schedules :
        /\ mem = [s \in legacy |-> [active |-> TRUE, due |-> FALSE, proof |-> None]]
        /\ minted = legacy
        /\ ran = [s \in Schedules |-> 0]
  BY DEF Init
<1> USE DEF Init, IdleLoop, NoBatch, Returned
<1>2. TypeOK
  <2>1. IsTable(mem) /\ IsTable(disk) BY <1>1 DEF IsTable, Schedule
  <2>2. IsTable(loop.batch) BY DEF IsTable
  <2>3. faults \in 0..MaxFaults /\ crashes \in 0..MaxCrashes BY SchedulerAssumption
  <2>. QED BY <1>1, <2>1, <2>2, <2>3 DEF TypeOK
<1>3. Known /\ Unborn /\ Stirred BY <1>1 DEF Known, Unborn, Stirred
<1>4. PausedAndDeletedStay BY DEF PausedAndDeletedStay
<1>5. InHand /\ Permitted BY DEF InHand, Permitted
<1>6. Once BY <1>1 DEF Once
<1>. QED BY <1>2, <1>3, <1>4, <1>5, <1>6 DEF ScheduleInv

-----------------------------------------------------------------------------
(* The loop. *)

\* A step that only moves the loop.
LEMMA LoopMoves ==
  ASSUME ScheduleInv,
         UNCHANGED <<mem, disk, flight, minted, revoked, quiet, gone, ran, faults, crashes>>,
         DOMAIN loop' = {"pc", "batch", "item", "proof", "before"},
         loop'.pc \in {"sleep", "next", "check", "recheck", "running", "record"},
         IsTable(loop'.batch),
         loop'.item \in Schedules \cup {None}, loop'.proof \in Proofs \cup {None},
         loop'.before \subseteq revoked,
         InHand', Permitted', Once'
  PROVE  ScheduleInv'
<1>1. TypeOK' BY DEF ScheduleInv, TypeOK
<1>2. Known' /\ Unborn' /\ Stirred' /\ PausedAndDeletedStay'
  BY DEF ScheduleInv, Known, Unborn, Stirred, PausedAndDeletedStay
<1>. QED BY <1>1, <1>2 DEF ScheduleInv

LEMMA TickInv == ScheduleInv /\ Tick => ScheduleInv'
<1> SUFFICES ASSUME ScheduleInv, Tick PROVE ScheduleInv'
  OBVIOUS
<1> USE DEF History
<1> DEFINE due == {s \in DOMAIN mem : mem[s].active /\ mem[s].due}
<1>1. loop' = [pc |-> "next", batch |-> [s \in due |-> mem[s]], item |-> None, proof |-> None, before |-> {}]
  BY DEF Tick, LoopStep, IdleLoop
<1>2. IsTable([s \in due |-> mem[s]]) BY DEF ScheduleInv, TypeOK, IsTable
<1>3. None \notin Schedules /\ due \subseteq Schedules
  BY SchedulerAssumption DEF ScheduleInv, TypeOK, IsTable
<1>4. InHand' BY <1>1, <1>3 DEF InHand
<1>5. Permitted' BY <1>1 DEF Permitted
<1>6. Once'
  <2>1. loop.item = None BY DEF Tick, ScheduleInv, InHand
  <2>2. ASSUME NEW s \in Schedules, ran[s] # 0
        PROVE  s \notin due
    BY <2>1, <2>2, <1>3 DEF ScheduleInv, Once, Executed
  <2>. QED BY <1>1, <1>3, <2>1, <2>2 DEF Tick, ScheduleInv, Once, Executed
<1>. QED
  BY <1>1, <1>2, <1>4, <1>5, <1>6, LoopMoves DEF Tick

LEMMA BatchDoneInv == ScheduleInv /\ BatchDone => ScheduleInv'
<1> SUFFICES ASSUME ScheduleInv, BatchDone PROVE ScheduleInv'
  OBVIOUS
<1> USE DEF History
<1>1. loop' = [pc |-> "sleep", batch |-> NoBatch, item |-> None, proof |-> None, before |-> {}]
  BY DEF BatchDone, LoopStep, IdleLoop
<1>2. IsTable(NoBatch) /\ DOMAIN NoBatch = {} BY DEF IsTable, NoBatch
<1>3. None \notin Schedules BY SchedulerAssumption
<1>4. InHand' /\ Permitted' BY <1>1, <1>2 DEF InHand, Permitted
<1>5. loop.item = None BY DEF BatchDone, ScheduleInv, InHand
<1>6. Once' BY <1>1, <1>2, <1>3, <1>5 DEF BatchDone, ScheduleInv, Once, Executed
<1>. QED BY <1>1, <1>2, <1>4, <1>6, LoopMoves DEF BatchDone

LEMMA TakeItemInv ==
  ASSUME ScheduleInv, NEW s \in Schedules, TakeItem(s)
  PROVE  ScheduleInv'
<1> USE DEF History
<1>1. s \in DOMAIN loop.batch BY DEF TakeItem
<1>2. /\ loop'.pc = FirstStep(loop.batch[s].proof)
      /\ loop'.batch = Without(loop.batch, s)
      /\ loop'.item = s
      /\ loop'.proof = loop.batch[s].proof
      /\ loop'.before = revoked
      /\ DOMAIN loop' = {"pc", "batch", "item", "proof", "before"}
  BY DEF TakeItem, LoopStep
<1>3. IsTable(loop'.batch) /\ DOMAIN loop'.batch = DOMAIN loop.batch \ {s}
  BY <1>2 DEF ScheduleInv, TypeOK, IsTable, Without
<1>4. loop'.proof \in Proofs \cup {None}
  BY <1>1, <1>2 DEF ScheduleInv, TypeOK, IsTable, Schedule
<1>5. loop'.pc \in {"check", "recheck", "record"} BY <1>2 DEF FirstStep
<1>6. s # None BY SchedulerAssumption
<1>7. InHand' BY <1>2, <1>3, <1>5, <1>6 DEF InHand
<1>8. Permitted' BY <1>2 DEF Permitted, FirstStep
<1>9. Once'
  <2>1. loop.item = None BY DEF TakeItem, ScheduleInv, InHand
  <2>2. ran[s] = 0 BY <1>1 DEF ScheduleInv, Once, Executed
  <2>3. ASSUME NEW x \in Schedules, ran[x] # 0 PROVE Executed(x)'
    BY <1>2, <1>3, <2>1, <2>2, <2>3, SchedulerAssumption
    DEF TakeItem, ScheduleInv, Once, Executed
  <2>. QED BY <2>3 DEF TakeItem, ScheduleInv, Once
<1>. QED BY <1>2, <1>3, <1>4, <1>5, <1>7, <1>8, <1>9, LoopMoves DEF TakeItem

LEMMA CheckProofInv ==
  ASSUME ScheduleInv, NEW reached \in BOOLEAN, CheckProof(reached)
  PROVE  ScheduleInv'
<1> USE DEF History
<1>1. /\ loop'.pc = IF reached /\ loop.proof \notin revoked THEN "recheck" ELSE "record"
      /\ loop'.batch = loop.batch /\ loop'.item = loop.item
      /\ loop'.proof = loop.proof /\ loop'.before = loop.before
      /\ DOMAIN loop' = {"pc", "batch", "item", "proof", "before"}
  BY DEF CheckProof, LoopStep, ScheduleInv, TypeOK
<1>2. InHand' BY <1>1 DEF CheckProof, ScheduleInv, InHand
<1>3. Permitted' BY <1>1 DEF CheckProof, ScheduleInv, Permitted, TypeOK
<1>4. Once' BY <1>1 DEF CheckProof, ScheduleInv, Once, Executed
<1>. QED BY <1>1, <1>2, <1>3, <1>4, LoopMoves DEF CheckProof, ScheduleInv, TypeOK

LEMMA RecheckInv == ScheduleInv /\ Recheck => ScheduleInv'
<1> SUFFICES ASSUME ScheduleInv, Recheck PROVE ScheduleInv'
  OBVIOUS
<1> DEFINE s == loop.item
           unchanged == s \in DOMAIN mem /\ mem[s].active /\ mem[s].proof = loop.proof
<1>1. /\ loop'.pc = IF unchanged THEN "running" ELSE "record"
      /\ loop'.batch = loop.batch /\ loop'.item = s
      /\ loop'.proof = loop.proof /\ loop'.before = loop.before
      /\ DOMAIN loop' = {"pc", "batch", "item", "proof", "before"}
  BY DEF Recheck, LoopStep, ScheduleInv, TypeOK
<1>2. s \in Schedules /\ ran[s] = 0 /\ s \notin DOMAIN loop.batch
  BY DEF Recheck, ScheduleInv, TypeOK, InHand, Once, Executed
<1>3. ran' = IF unchanged THEN [ran EXCEPT ![s] = 1] ELSE ran
  BY <1>2 DEF Recheck
<1>4. TypeOK'
  <2>1. ran' \in [Schedules -> Nat] BY <1>3 DEF ScheduleInv, TypeOK
  <2>2. loop'.pc \in {"running", "record"} BY <1>1
  <2>3. UNCHANGED <<mem, disk, flight, minted, revoked, quiet, gone, faults, crashes>>
    BY DEF Recheck
  <2> HIDE DEF s, unchanged
  <2>. QED BY <1>1, <1>2, <2>1, <2>2, <2>3 DEF ScheduleInv, TypeOK, s
<1>5. Known' /\ Unborn' /\ Stirred' /\ PausedAndDeletedStay'
  BY DEF Recheck, ScheduleInv, Known, Unborn, Stirred, PausedAndDeletedStay
<1>6. InHand' BY <1>1 DEF Recheck, ScheduleInv, InHand
<1>7. Permitted' BY <1>1 DEF Recheck, ScheduleInv, Permitted
<1>8. Once'
  <2>1. ASSUME NEW x \in Schedules PROVE (ran[x] <= 1 /\ (ran[x] # 0 => Executed(x)))'
    <3>1. CASE x = s
      BY <1>1, <1>2, <1>3, <3>1 DEF ScheduleInv, TypeOK, Executed
    <3>2. CASE x # s
      <4>1. ran'[x] = ran[x] BY <1>3, <3>2 DEF ScheduleInv, TypeOK
      <4>. QED BY <1>1, <3>2, <4>1 DEF Recheck, ScheduleInv, Once, Executed
    <3>. QED BY <3>1, <3>2
  <2>. QED BY <2>1 DEF Once
<1>. QED BY <1>4, <1>5, <1>6, <1>7, <1>8 DEF ScheduleInv

LEMMA RunEndsInv == ScheduleInv /\ RunEnds => ScheduleInv'
<1> SUFFICES ASSUME ScheduleInv, RunEnds PROVE ScheduleInv'
  OBVIOUS
<1> USE DEF History
<1>1. /\ loop'.pc = "record"
      /\ loop'.batch = loop.batch /\ loop'.item = loop.item
      /\ loop'.proof = loop.proof /\ loop'.before = loop.before
      /\ DOMAIN loop' = {"pc", "batch", "item", "proof", "before"}
  BY DEF RunEnds, LoopStep, ScheduleInv, TypeOK
<1>2. InHand' BY <1>1 DEF RunEnds, ScheduleInv, InHand
<1>3. Permitted' BY <1>1 DEF Permitted
<1>4. Once' BY <1>1 DEF RunEnds, ScheduleInv, Once, Executed
<1>. QED BY <1>1, <1>2, <1>3, <1>4, LoopMoves DEF RunEnds, ScheduleInv, TypeOK

\* What a step leaves of the properties when it replaces the table in memory by
\* t and perhaps the one on disk: t holds no new schedule, makes none active
\* that is quiet, and none due.
LEMMA TableStep ==
  ASSUME ScheduleInv, NEW t, NEW ok \in BOOLEAN,
         IsTable(t), Persist(t, ok),
         DOMAIN t \subseteq DOMAIN mem,
         \A s \in DOMAIN t : /\ t[s].active => mem[s].active \/ s \notin quiet
                             /\ t[s].due => mem[s].due,
         UNCHANGED <<revoked, gone, ran, crashes>>,
         minted' = minted,
         \A s \in Schedules : s \in quiet' \ quiet => ok /\ (s \in DOMAIN t => ~t[s].active),
         quiet \subseteq quiet', quiet' \subseteq quiet \cup DOMAIN mem
  PROVE  /\ Known' /\ PausedAndDeletedStay'
         /\ IsTable(mem') /\ IsTable(disk') /\ faults' \in 0..MaxFaults
         /\ DOMAIN mem' \subseteq DOMAIN mem /\ DOMAIN disk' \subseteq DOMAIN mem \cup DOMAIN disk
         /\ \A s \in DOMAIN mem' : mem'[s].due => mem[s].due
<1>1. /\ mem' = t /\ IsTable(mem') /\ IsTable(disk')
      /\ disk' = IF ok THEN t ELSE disk
      /\ faults' \in 0..MaxFaults
  BY PersistKeeps DEF ScheduleInv
<1>2. Known' BY <1>1 DEF ScheduleInv, Known
<1>3. PausedAndDeletedStay'
  <2>1. ASSUME NEW s \in quiet', s \in DOMAIN t PROVE ~t[s].active
    BY <2>1 DEF ScheduleInv, PausedAndDeletedStay, TypeOK, IsTable
  <2>2. ASSUME NEW s \in quiet', s \in DOMAIN disk, ~ok PROVE ~disk[s].active
    BY <2>2 DEF ScheduleInv, PausedAndDeletedStay, TypeOK, IsTable
  <2>. QED BY <1>1, <2>1, <2>2 DEF ScheduleInv, PausedAndDeletedStay
<1>. QED BY <1>1, <1>2, <1>3

\* The creations under way stay unborn when only schedules in memory go
\* anywhere and no creation begins.
LEMMA StaysUnborn ==
  ASSUME ScheduleInv,
         DOMAIN mem' \subseteq DOMAIN mem, DOMAIN disk' \subseteq DOMAIN mem \cup DOMAIN disk,
         quiet' \subseteq quiet \cup DOMAIN mem, gone' \subseteq gone \cup DOMAIN mem,
         minted \subseteq minted',
         \A w \in Workers : flight'[w].pc = "insert" => flight'[w] = flight[w]
  PROVE  Unborn'
<1>1. \A w \in Workers : flight'[w].pc = "insert" =>
        flight[w].pc = "insert" /\ flight'[w].item = flight[w].item
  OBVIOUS
<1>. QED BY <1>1 DEF ScheduleInv, Unborn

\* A step outside the loop makes nothing due.
LEMMA OnceKept ==
  ASSUME ScheduleInv, loop' = loop, ran' = ran,
         \A s \in DOMAIN mem' : mem'[s].due => s \in DOMAIN mem /\ mem[s].due
  PROVE  Once'
BY DEF ScheduleInv, Once, Executed

\* A request that ends, or begins a manual run, or leaves the others alone.
LEMMA StirredKept ==
  ASSUME ScheduleInv, quiet' \subseteq quiet,
         \A w \in Workers : flight'[w].pc \in {"authorize", "activate"} =>
           flight[w].pc \in {"authorize", "activate"} /\ flight'[w].item = flight[w].item
  PROVE  Stirred'
BY DEF ScheduleInv, Stirred

LEMMA RecordRunInv ==
  ASSUME ScheduleInv, NEW ok \in BOOLEAN, RecordRun(ok)
  PROVE  ScheduleInv'
<1> USE DEF History
<1> DEFINE s == loop.item
<1>1. /\ loop'.pc = "next"
      /\ loop'.batch = loop.batch /\ loop'.item = None
      /\ loop'.proof = None /\ loop'.before = {}
      /\ DOMAIN loop' = {"pc", "batch", "item", "proof", "before"}
  BY DEF RecordRun, LoopStep, ScheduleInv, TypeOK
<1>2. UNCHANGED <<flight, minted, revoked, quiet, gone, ran, crashes>> BY DEF RecordRun
<1>3. s \in Schedules /\ None \notin Schedules
  BY SchedulerAssumption DEF RecordRun, ScheduleInv, TypeOK, InHand
<1>4. /\ Known' /\ PausedAndDeletedStay'
      /\ IsTable(mem') /\ IsTable(disk') /\ faults' \in 0..MaxFaults
      /\ DOMAIN mem' \subseteq DOMAIN mem /\ DOMAIN disk' \subseteq DOMAIN mem \cup DOMAIN disk
      /\ \A x \in DOMAIN mem' : mem'[x].due => mem[x].due /\ x # s
  <2>1. CASE s \in DOMAIN mem
    <3>1. Persist(Recorded(s), ok) BY <2>1 DEF RecordRun
    <3>2. IsTable(Recorded(s)) BY <2>1, FieldSet DEF Recorded, ScheduleInv, TypeOK
    <3>3. /\ DOMAIN Recorded(s) = DOMAIN mem
          /\ \A x \in DOMAIN mem : /\ Recorded(s)[x].active = mem[x].active
                                   /\ Recorded(s)[x].due = IF x = s THEN FALSE ELSE mem[x].due
      BY DEF Recorded, ScheduleInv, TypeOK, IsTable, Schedule
    <3>4. mem' = Recorded(s) BY <3>1 DEF Persist
    <3> HIDE DEF s
    <3>. QED BY <1>2, <3>1, <3>2, <3>3, <3>4, TableStep
  <2>2. CASE s \notin DOMAIN mem
    <3>1. UNCHANGED <<mem, disk, faults>> BY <2>2 DEF RecordRun
    <3>. QED BY <1>2, <2>2, <3>1 DEF ScheduleInv, TypeOK, Known, PausedAndDeletedStay
  <2>. QED BY <2>1, <2>2
<1>5. TypeOK'
  <2>1. IsTable(loop'.batch) BY <1>1 DEF ScheduleInv, TypeOK
  <2> HIDE DEF s
  <2>. QED BY <1>1, <1>2, <1>4, <2>1 DEF ScheduleInv, TypeOK
<1>6. Unborn' /\ Stirred' BY <1>2, <1>4, StaysUnborn, StirredKept
<1>7. InHand' /\ Permitted' BY <1>1, <1>3 DEF InHand, Permitted, ScheduleInv, TypeOK, IsTable
<1>8. Once' BY <1>1, <1>2, <1>3, <1>4 DEF ScheduleInv, Once, Executed
<1>. QED BY <1>4, <1>5, <1>6, <1>7, <1>8 DEF ScheduleInv

-----------------------------------------------------------------------------
(* The requests. *)

\* What a request that moves one worker leaves to prove.
LEMMA RequestInv ==
  ASSUME ScheduleInv, NEW w \in Workers,
         NEW x \in [pc: {"idle", "insert", "authorize", "activate", "manual"},
                    item: Schedules \cup {None}, proof: Proofs \cup {None}],
         Move(w, x),
         UNCHANGED <<loop, revoked, ran, crashes>>,
         IsTable(mem'), IsTable(disk'), faults' \in 0..MaxFaults,
         quiet' \subseteq quiet, gone' = gone,
         minted \subseteq minted', minted' \subseteq Schedules \cup Proofs,
         Known', PausedAndDeletedStay', Unborn',
         x.pc \in {"authorize", "activate"} =>
           x.item \notin quiet' \/ (flight[w].pc \in {"authorize", "activate"} /\ x.item = flight[w].item),
         \A s \in DOMAIN mem' : mem'[s].due => s \in DOMAIN mem /\ mem[s].due
  PROVE  ScheduleInv'
<1>1. flight' = [flight EXCEPT ![w] = x] BY DEF Move
<1>2. TypeOK' BY <1>1 DEF ScheduleInv, TypeOK
<1>3. Stirred' BY <1>1 DEF ScheduleInv, TypeOK, Stirred
<1>4. InHand' /\ Permitted' BY DEF ScheduleInv, InHand, Permitted
<1>5. Once' BY OnceKept
<1>. QED BY <1>2, <1>3, <1>4, <1>5 DEF ScheduleInv

LEMMA CreateIssueInv ==
  ASSUME ScheduleInv, NEW w \in Workers, NEW s \in Schedules, NEW proof \in Proofs \cup {None},
         CreateIssue(w, s, proof)
  PROVE  ScheduleInv'
<1> USE DEF History
<1> DEFINE x == [pc |-> "insert", item |-> s, proof |-> proof]
<1>1. /\ Move(w, x) /\ flight[w].pc = "idle"
      /\ s \notin minted /\ minted' = minted \cup ({s, proof} \ {None})
      /\ UNCHANGED <<mem, disk, loop, revoked, quiet, gone, ran, faults, crashes>>
  BY DEF CreateIssue, Begin
<1>2. s # None BY SchedulerAssumption
<1>3. Known' BY <1>1 DEF ScheduleInv, Known
<1>4. PausedAndDeletedStay' BY <1>1 DEF ScheduleInv, PausedAndDeletedStay
<1>5. Unborn'
  <2>1. flight' = [flight EXCEPT ![w] = x] BY <1>1 DEF Move
  <2>2. flight'[w].pc = "insert" /\ flight'[w].item = s BY <2>1 DEF ScheduleInv, TypeOK
  <2>3. \A v \in Workers \ {w} : flight'[v] = flight[v] BY <2>1 DEF ScheduleInv, TypeOK
  <2>4. s \notin DOMAIN mem \cup DOMAIN disk \cup quiet \cup gone BY <1>1 DEF ScheduleInv, Known
  <2>5. \A v \in Workers \ {w} : flight[v].pc = "insert" => flight[v].item # s
    BY <1>1 DEF ScheduleInv, Unborn
  <2>. QED BY <1>1, <1>2, <2>2, <2>3, <2>4, <2>5 DEF ScheduleInv, Unborn
<1>6. minted' \subseteq Schedules \cup Proofs BY <1>1 DEF ScheduleInv, TypeOK
<1>. QED BY <1>1, <1>3, <1>4, <1>5, <1>6, RequestInv DEF ScheduleInv, TypeOK

LEMMA CreateInsertInv ==
  ASSUME ScheduleInv, NEW w \in Workers, NEW ok \in BOOLEAN, CreateInsert(w, ok)
  PROVE  ScheduleInv'
<1> USE DEF History
<1> DEFINE s == flight[w].item
           new == [active |-> TRUE, due |-> FALSE, proof |-> flight[w].proof]
           t == Put(mem, s, new)
<1>1. /\ Move(w, Returned) /\ flight[w].pc = "insert" /\ Persist(t, ok)
      /\ UNCHANGED <<loop, minted, revoked, quiet, gone, ran, crashes>>
  BY DEF CreateInsert
<1>2. /\ s \in minted \cap Schedules
      /\ s \notin DOMAIN mem \cup DOMAIN disk \cup quiet \cup gone
      /\ \A v \in Workers \ {w} : flight[v].pc = "insert" => flight[v].item # s
  BY <1>1 DEF ScheduleInv, Unborn
<1>3. new \in Schedule BY DEF ScheduleInv, TypeOK, Schedule
<1>4. IsTable(t) /\ DOMAIN t = DOMAIN mem \cup {s}
      /\ \A x \in DOMAIN mem \cup {s} : t[x] = IF x = s THEN new ELSE mem[x]
  <2>1. IsTable(mem) /\ s \in Schedules BY <1>2 DEF ScheduleInv, TypeOK
  <2> HIDE DEF s, new
  <2>. QED BY <2>1, <1>3 DEF IsTable, Put
<1>5. /\ mem' = t /\ IsTable(disk') /\ disk' = (IF ok THEN t ELSE disk) /\ faults' \in 0..MaxFaults
  BY <1>1, <1>4, PersistKeeps DEF ScheduleInv
<1> HIDE DEF t, s
<1>6. Known' BY <1>1, <1>2, <1>4, <1>5 DEF ScheduleInv, Known
<1>7. PausedAndDeletedStay' BY <1>1, <1>2, <1>4, <1>5 DEF ScheduleInv, PausedAndDeletedStay
<1>8. Unborn'
  <2>1. /\ flight'[w].pc = "idle"
        /\ \A v \in Workers \ {w} : flight'[v] = flight[v]
    BY <1>1 DEF ScheduleInv, TypeOK, Move, Returned
  <2>. QED BY <1>1, <1>2, <1>4, <1>5, <2>1 DEF ScheduleInv, Unborn
<1>9. \A x \in DOMAIN mem' : mem'[x].due => x \in DOMAIN mem /\ mem[x].due
  BY <1>4, <1>5
<1>. QED BY <1>1, <1>4, <1>5, <1>6, <1>7, <1>8, <1>9, RequestInv DEF Returned, ScheduleInv, TypeOK

LEMMA EnableIssueInv ==
  ASSUME ScheduleInv, NEW w \in Workers, NEW s \in Schedules, NEW proof \in Proofs \cup {None},
         EnableIssue(w, s, proof)
  PROVE  ScheduleInv'
<1> DEFINE x == [pc |-> IF proof = None THEN "activate" ELSE "authorize", item |-> s, proof |-> proof]
<1>1. /\ Move(w, x) /\ flight[w].pc = "idle"
      /\ minted' = minted \cup ({proof} \ {None}) /\ quiet' = quiet \ {s}
      /\ UNCHANGED <<mem, disk, loop, revoked, gone, ran, faults, crashes>>
  BY DEF EnableIssue, Begin
<1>2. Known' BY <1>1 DEF ScheduleInv, Known
<1>3. PausedAndDeletedStay' BY <1>1 DEF ScheduleInv, PausedAndDeletedStay
<1>4. Unborn'
  <2>1. flight'[w].pc # "insert" /\ \A v \in Workers \ {w} : flight'[v] = flight[v]
    BY <1>1 DEF ScheduleInv, TypeOK, Move
  <2>. QED BY <1>1, <2>1, StaysUnborn
<1>5. minted' \subseteq Schedules \cup Proofs BY <1>1 DEF ScheduleInv, TypeOK
<1>. QED BY <1>1, <1>2, <1>3, <1>4, <1>5, RequestInv DEF ScheduleInv, TypeOK

LEMMA EnableAuthorizeInv ==
  ASSUME ScheduleInv, NEW w \in Workers, NEW ok \in BOOLEAN, EnableAuthorize(w, ok)
  PROVE  ScheduleInv'
<1> USE DEF History
<1> DEFINE s == flight[w].item
           t == [mem EXCEPT ![s].proof = flight[w].proof]
<1>1. /\ flight[w].pc = "authorize"
      /\ UNCHANGED <<loop, minted, revoked, quiet, gone, ran, crashes>>
  BY DEF EnableAuthorize
<1>2. PICK x \in [pc: {"idle", "insert", "authorize", "activate", "manual"},
                  item: Schedules \cup {None}, proof: Proofs \cup {None}] :
        Move(w, x) /\ x.pc \in {"idle", "activate"} /\ (x.pc = "activate" => x.item = s)
  BY DEF EnableAuthorize, Returned, ScheduleInv, TypeOK
<1>3. /\ Known' /\ PausedAndDeletedStay'
      /\ IsTable(mem') /\ IsTable(disk') /\ faults' \in 0..MaxFaults
      /\ DOMAIN mem' \subseteq DOMAIN mem /\ DOMAIN disk' \subseteq DOMAIN mem \cup DOMAIN disk
      /\ \A y \in DOMAIN mem' : mem'[y].due => mem[y].due
  <2>1. CASE s \in DOMAIN mem
    <3>1. Persist(t, ok) BY <2>1 DEF EnableAuthorize
    <3>2. IsTable(t) BY <2>1, FieldSet DEF ScheduleInv, TypeOK
    <3>3. DOMAIN t = DOMAIN mem
          /\ \A y \in DOMAIN mem : t[y].active = mem[y].active /\ t[y].due = mem[y].due
      BY DEF ScheduleInv, TypeOK, IsTable, Schedule
    <3> HIDE DEF t
    <3>. QED BY <1>1, <3>1, <3>2, <3>3, TableStep
  <2>2. CASE s \notin DOMAIN mem
    <3>1. UNCHANGED <<mem, disk, faults>> BY <2>2 DEF EnableAuthorize
    <3>. QED BY <1>1, <3>1 DEF ScheduleInv, TypeOK, Known, PausedAndDeletedStay
  <2>. QED BY <2>1, <2>2
<1>4. Unborn'
  <2>1. flight'[w].pc # "insert" /\ \A v \in Workers \ {w} : flight'[v] = flight[v]
    BY <1>2 DEF ScheduleInv, TypeOK, Move
  <2>. QED BY <1>1, <1>3, <2>1, StaysUnborn
<1>5. \A y \in DOMAIN mem' : mem'[y].due => y \in DOMAIN mem /\ mem[y].due BY <1>3
<1> HIDE DEF s, t
<1>. QED
  BY <1>1, <1>2, <1>3, <1>4, <1>5, RequestInv DEF ScheduleInv, TypeOK, s

LEMMA EnableActivateInv ==
  ASSUME ScheduleInv, NEW w \in Workers, NEW ok \in BOOLEAN, EnableActivate(w, ok)
  PROVE  ScheduleInv'
<1> USE DEF History
<1> DEFINE s == flight[w].item
           t == [mem EXCEPT ![s].active = TRUE, ![s].due = FALSE]
<1>1. /\ flight[w].pc = "activate" /\ Move(w, Returned)
      /\ UNCHANGED <<loop, minted, revoked, quiet, gone, ran, crashes>>
  BY DEF EnableActivate
<1>2. s \notin quiet BY <1>1 DEF ScheduleInv, Stirred
<1>3. /\ Known' /\ PausedAndDeletedStay'
      /\ IsTable(mem') /\ IsTable(disk') /\ faults' \in 0..MaxFaults
      /\ DOMAIN mem' \subseteq DOMAIN mem /\ DOMAIN disk' \subseteq DOMAIN mem \cup DOMAIN disk
      /\ \A y \in DOMAIN mem' : mem'[y].due => mem[y].due
  <2>1. CASE s \in DOMAIN mem
    <3>1. Persist(t, ok) BY <2>1 DEF EnableActivate
    <3>2. IsTable(t) BY <2>1, FieldSet DEF ScheduleInv, TypeOK
    <3>3. DOMAIN t = DOMAIN mem
          /\ \A y \in DOMAIN mem : (t[y].active => mem[y].active \/ y = s) /\ (t[y].due => mem[y].due)
      BY DEF ScheduleInv, TypeOK, IsTable, Schedule
    <3> HIDE DEF t
    <3>. QED BY <1>1, <1>2, <3>1, <3>2, <3>3, TableStep
  <2>2. CASE s \notin DOMAIN mem
    <3>1. UNCHANGED <<mem, disk, faults>> BY <2>2 DEF EnableActivate
    <3>. QED BY <1>1, <3>1 DEF ScheduleInv, TypeOK, Known, PausedAndDeletedStay
  <2>. QED BY <2>1, <2>2
<1>4. Unborn'
  <2>1. flight'[w].pc # "insert" /\ \A v \in Workers \ {w} : flight'[v] = flight[v]
    BY <1>1 DEF ScheduleInv, TypeOK, Move, Returned
  <2>. QED BY <1>1, <1>3, <2>1, StaysUnborn
<1>5. \A y \in DOMAIN mem' : mem'[y].due => y \in DOMAIN mem /\ mem[y].due BY <1>3
<1> HIDE DEF s, t
<1>. QED
  BY <1>1, <1>3, <1>4, <1>5, RequestInv DEF ScheduleInv, TypeOK, Returned

LEMMA PauseInv ==
  ASSUME ScheduleInv, NEW s \in Schedules, NEW ok \in BOOLEAN, Pause(s, ok)
  PROVE  ScheduleInv'
<1> DEFINE t == [mem EXCEPT ![s].active = FALSE]
<1>1. /\ s \in DOMAIN mem /\ Persist(t, ok)
      /\ quiet' = IF ok /\ ~Enabling(s) THEN quiet \cup {s} ELSE quiet
      /\ UNCHANGED <<loop, flight, minted, revoked, gone, ran, crashes>>
  BY DEF Pause
<1>2. IsTable(t) BY <1>1, FieldSet DEF ScheduleInv, TypeOK
<1>3. /\ DOMAIN t = DOMAIN mem /\ ~t[s].active
      /\ \A y \in DOMAIN mem : (t[y].active => mem[y].active) /\ (t[y].due => mem[y].due)
  BY <1>1 DEF ScheduleInv, TypeOK, IsTable, Schedule
<1> HIDE DEF t
<1>4. /\ Known' /\ PausedAndDeletedStay'
      /\ IsTable(mem') /\ IsTable(disk') /\ faults' \in 0..MaxFaults
      /\ DOMAIN mem' \subseteq DOMAIN mem /\ DOMAIN disk' \subseteq DOMAIN mem \cup DOMAIN disk
      /\ \A y \in DOMAIN mem' : mem'[y].due => mem[y].due
  BY <1>1, <1>2, <1>3, TableStep
<1>5. TypeOK' BY <1>1, <1>4 DEF ScheduleInv, TypeOK
<1>6. Unborn' BY <1>1, <1>4, StaysUnborn
<1>7. Stirred' BY <1>1 DEF ScheduleInv, Stirred, Enabling
<1>8. InHand' /\ Permitted' BY <1>1 DEF ScheduleInv, InHand, Permitted
<1>9. Once' BY <1>1, <1>4, OnceKept
<1>. QED BY <1>4, <1>5, <1>6, <1>7, <1>8, <1>9 DEF ScheduleInv

LEMMA DeleteInv ==
  ASSUME ScheduleInv, NEW s \in Schedules, NEW ok \in BOOLEAN, Delete(s, ok)
  PROVE  ScheduleInv'
<1> DEFINE t == Without(mem, s)
<1>1. /\ s \in DOMAIN mem /\ Persist(t, ok)
      /\ gone' = IF ok THEN gone \cup {s} ELSE gone
      /\ UNCHANGED <<loop, flight, minted, revoked, quiet, ran, crashes>>
  BY DEF Delete
<1>2. IsTable(t) /\ DOMAIN t = DOMAIN mem \ {s} /\ \A y \in DOMAIN mem \ {s} : t[y] = mem[y]
  BY DEF Without, ScheduleInv, TypeOK, IsTable
<1> HIDE DEF t
<1>3. /\ mem' = t /\ IsTable(mem') /\ IsTable(disk') /\ faults' \in 0..MaxFaults
      /\ disk' = IF ok THEN t ELSE disk
  BY <1>1, <1>2, PersistKeeps DEF ScheduleInv
<1>4. Known' BY <1>1, <1>2, <1>3 DEF ScheduleInv, Known
<1>5. PausedAndDeletedStay' BY <1>1, <1>2, <1>3 DEF ScheduleInv, PausedAndDeletedStay
<1>6. TypeOK' BY <1>1, <1>3 DEF ScheduleInv, TypeOK
<1>7. Unborn' BY <1>1, <1>2, <1>3, StaysUnborn
<1>8. Stirred' BY <1>1 DEF ScheduleInv, Stirred
<1>9. InHand' /\ Permitted' BY <1>1 DEF ScheduleInv, InHand, Permitted
<1>10. Once' BY <1>1, <1>2, <1>3, OnceKept
<1>. QED BY <1>4, <1>5, <1>6, <1>7, <1>8, <1>9, <1>10 DEF ScheduleInv

LEMMA ManualRunInv ==
  ASSUME ScheduleInv, NEW w \in Workers, NEW s \in Schedules, ManualRun(w, s)
  PROVE  ScheduleInv'
<1> USE DEF History
<1>1. /\ Move(w, [pc |-> "manual", item |-> s, proof |-> None])
      /\ UNCHANGED <<mem, disk, loop, minted, revoked, quiet, gone, ran, faults, crashes>>
  BY DEF ManualRun
<1>2. Known' /\ PausedAndDeletedStay' BY <1>1 DEF ScheduleInv, Known, PausedAndDeletedStay
<1>3. Unborn'
  <2>1. flight'[w].pc # "insert" /\ \A v \in Workers \ {w} : flight'[v] = flight[v]
    BY <1>1 DEF ScheduleInv, TypeOK, Move
  <2>. QED BY <1>1, <2>1, StaysUnborn
<1>. QED BY <1>1, <1>2, <1>3, RequestInv DEF ScheduleInv, TypeOK

LEMMA ManualRunEndsInv ==
  ASSUME ScheduleInv, NEW w \in Workers, NEW success \in BOOLEAN, NEW ok \in BOOLEAN,
         ManualRunEnds(w, success, ok)
  PROVE  ScheduleInv'
<1> USE DEF History
<1> DEFINE s == flight[w].item
<1>1. /\ Move(w, Returned)
      /\ UNCHANGED <<loop, minted, revoked, quiet, gone, ran, crashes>>
  BY DEF ManualRunEnds
<1>2. /\ Known' /\ PausedAndDeletedStay'
      /\ IsTable(mem') /\ IsTable(disk') /\ faults' \in 0..MaxFaults
      /\ DOMAIN mem' \subseteq DOMAIN mem /\ DOMAIN disk' \subseteq DOMAIN mem \cup DOMAIN disk
      /\ \A y \in DOMAIN mem' : mem'[y].due => mem[y].due
  <2>1. CASE success /\ s \in DOMAIN mem
    <3>1. Persist(Recorded(s), ok) BY <2>1 DEF ManualRunEnds
    <3>2. IsTable(Recorded(s)) BY <2>1, FieldSet DEF Recorded, ScheduleInv, TypeOK
    <3>3. DOMAIN Recorded(s) = DOMAIN mem
          /\ \A y \in DOMAIN mem : /\ Recorded(s)[y].active = mem[y].active
                                   /\ Recorded(s)[y].due => mem[y].due
      BY DEF Recorded, ScheduleInv, TypeOK, IsTable, Schedule
    <3> HIDE DEF s
    <3>. QED BY <1>1, <3>1, <3>2, <3>3, TableStep
  <2>2. CASE ~(success /\ s \in DOMAIN mem)
    <3>1. UNCHANGED <<mem, disk, faults>> BY <2>2 DEF ManualRunEnds
    <3>. QED BY <1>1, <3>1 DEF ScheduleInv, TypeOK, Known, PausedAndDeletedStay
  <2>. QED BY <2>1, <2>2
<1>3. Unborn'
  <2>1. flight'[w].pc # "insert" /\ \A v \in Workers \ {w} : flight'[v] = flight[v]
    BY <1>1 DEF ScheduleInv, TypeOK, Move, Returned
  <2>. QED BY <1>1, <1>2, <2>1, StaysUnborn
<1>4. \A y \in DOMAIN mem' : mem'[y].due => y \in DOMAIN mem /\ mem[y].due BY <1>2
<1> HIDE DEF s
<1>. QED
  BY <1>1, <1>2, <1>3, <1>4, RequestInv DEF ScheduleInv, TypeOK, Returned

-----------------------------------------------------------------------------
(* The environment. *)

LEMMA BecomesDueInv ==
  ASSUME ScheduleInv, NEW s \in Schedules, BecomesDue(s)
  PROVE  ScheduleInv'
<1>1. /\ s \in DOMAIN mem
      /\ mem' = [mem EXCEPT ![s].due = TRUE]
      /\ disk' = [x \in DOMAIN disk |-> IF x = s THEN [disk[s] EXCEPT !.due = TRUE] ELSE disk[x]]
      /\ ran' = [ran EXCEPT ![s] = 0]
      /\ UNCHANGED <<loop, flight, minted, revoked, quiet, gone, faults, crashes>>
  BY DEF BecomesDue
<1>2. /\ IsTable(mem') /\ DOMAIN mem' = DOMAIN mem
      /\ \A x \in DOMAIN mem : mem'[x].active = mem[x].active /\ (x # s => mem'[x] = mem[x])
  <2>1. IsTable(mem) BY DEF ScheduleInv, TypeOK
  <2>2. IsTable(mem') BY <1>1, <2>1, FieldSet
  <2>. QED BY <1>1, <2>1, <2>2 DEF IsTable, Schedule
<1>3. /\ IsTable(disk') /\ DOMAIN disk' = DOMAIN disk
      /\ \A x \in DOMAIN disk : disk'[x].active = disk[x].active
  <2>1. \A x \in DOMAIN disk : x \in Schedules /\ disk[x] \in Schedule
    BY DEF ScheduleInv, TypeOK, IsTable
  <2>2. \A x \in DOMAIN disk : [disk[x] EXCEPT !.due = TRUE] \in Schedule
                              /\ [disk[x] EXCEPT !.due = TRUE].active = disk[x].active
    BY <2>1 DEF Schedule
  <2>. QED BY <1>1, <2>1, <2>2 DEF IsTable
<1>4. TypeOK'
  <2>1. ran' \in [Schedules -> Nat] BY <1>1 DEF ScheduleInv, TypeOK
  <2>. QED BY <1>1, <1>2, <1>3, <2>1 DEF ScheduleInv, TypeOK
<1>5. Known' /\ PausedAndDeletedStay'
  BY <1>1, <1>2, <1>3 DEF ScheduleInv, Known, PausedAndDeletedStay
<1>6. Unborn' /\ Stirred' BY <1>1, <1>2, <1>3 DEF ScheduleInv, Unborn, Stirred
<1>7. InHand' /\ Permitted' BY <1>1 DEF ScheduleInv, InHand, Permitted
<1>8. Once'
  <2>1. \A x \in Schedules : ran'[x] = IF x = s THEN 0 ELSE ran[x]
    BY <1>1 DEF ScheduleInv, TypeOK
  <2>. QED BY <1>1, <1>2, <2>1 DEF ScheduleInv, Once, Executed
<1>. QED BY <1>4, <1>5, <1>6, <1>7, <1>8 DEF ScheduleInv

LEMMA RevokeInv ==
  ASSUME ScheduleInv, NEW proof \in Proofs, Revoke(proof)
  PROVE  ScheduleInv'
<1> USE DEF Revoke, History
<1>1. TypeOK' BY DEF ScheduleInv, TypeOK
<1>2. Known' /\ PausedAndDeletedStay' BY DEF ScheduleInv, Known, PausedAndDeletedStay
<1>3. Unborn' /\ Stirred' BY DEF ScheduleInv, Unborn, Stirred
<1>4. InHand' /\ Permitted' BY DEF ScheduleInv, InHand, Permitted
<1>5. Once' BY OnceKept
<1>. QED BY <1>1, <1>2, <1>3, <1>4, <1>5 DEF ScheduleInv

LEMMA RestartInv == ScheduleInv /\ Restart => ScheduleInv'
<1> SUFFICES ASSUME ScheduleInv, Restart PROVE ScheduleInv'
  OBVIOUS
<1> USE DEF Restart, IdleLoop, NoBatch, Returned
<1>1. TypeOK'
  <2>1. crashes' \in 0..MaxCrashes BY SchedulerAssumption DEF ScheduleInv, TypeOK
  <2>2. IsTable(loop'.batch) BY DEF IsTable
  <2>3. loop'.before \subseteq revoked' BY DEF ScheduleInv, TypeOK
  <2>. QED BY <2>1, <2>2, <2>3 DEF ScheduleInv, TypeOK
<1>2. Known' /\ PausedAndDeletedStay' BY DEF ScheduleInv, Known, PausedAndDeletedStay
<1>3. Unborn' /\ Stirred' BY DEF Unborn, Stirred
<1>4. InHand' /\ Permitted' BY DEF InHand, Permitted
<1>5. Once' BY DEF Once
<1>. QED BY <1>1, <1>2, <1>3, <1>4, <1>5 DEF ScheduleInv

LEMMA StutterInv == ScheduleInv /\ UNCHANGED vars => ScheduleInv'
BY DEF vars, ScheduleInv, TypeOK, Known, Unborn, Stirred, PausedAndDeletedStay,
       InHand, Permitted, Once, Executed

LEMMA NextInv == ScheduleInv /\ [Next]_vars => ScheduleInv'
<1> SUFFICES ASSUME ScheduleInv, [Next]_vars PROVE ScheduleInv'
  OBVIOUS
<1>1. CASE LoopNext
  BY <1>1, TickInv, BatchDoneInv, TakeItemInv, CheckProofInv, RecheckInv, RunEndsInv,
     RecordRunInv DEF LoopNext
<1>2. CASE RequestNext
  BY <1>2, CreateIssueInv, EnableIssueInv, CreateInsertInv, EnableAuthorizeInv,
     EnableActivateInv, PauseInv, DeleteInv, ManualRunInv, ManualRunEndsInv DEF RequestNext
<1>3. CASE \/ \E s \in Schedules : BecomesDue(s)
           \/ \E proof \in Proofs : Revoke(proof)
           \/ Restart
  BY <1>3, BecomesDueInv, RevokeInv, RestartInv
<1>4. CASE UNCHANGED vars BY <1>4, StutterInv
<1>. QED BY <1>1, <1>2, <1>3, <1>4 DEF Next

LEMMA InvAlways == Spec => []ScheduleInv
<1>. QED BY InitInv, NextInv, PTL DEF Spec

-----------------------------------------------------------------------------
(* The theorems. *)

\* A pause or a deletion that was acknowledged holds, in memory and in
\* checks.json, against runs under way, other requests, failed writes and kills
\* (set_schedule_active, delete_schedule, record_schedule_run).
THEOREM PausesAndDeletionsStay == Spec => []PausedAndDeletedStay
<1>1. ScheduleInv => PausedAndDeletedStay BY DEF ScheduleInv
<1>. QED BY <1>1, InvAlways, PTL

\* The loop goes on with an execution only under a permission that held when it
\* took the schedule in hand (run_scheduled_list, AuthorizationClient::check).
THEOREM RunsAlwaysAuthorized == Spec => []RunsAreAuthorized
<1>1. ScheduleInv => RunsAreAuthorized BY DEF ScheduleInv, Permitted, RunsAreAuthorized
<1>. QED BY <1>1, InvAlways, PTL

\* Every variable keeps its type, and the loop executes a schedule at most once
\* each time it becomes due (due_schedules, record_schedule_run).
THEOREM OncePerDueTimeAlways == Spec => []OncePerDueTime
<1>1. ScheduleInv => OncePerDueTime BY DEF ScheduleInv, Once, OncePerDueTime
<1>. QED BY <1>1, InvAlways, PTL

\* No execution starts for a schedule that is paused or deleted by then, however
\* old the batch is that it comes from (the second read in run_scheduled_list).
THEOREM NeverRunsAfterPause == Spec => NoRunAfterPause
<1> DEFINE A == loop'.pc = "running" /\ loop.pc # "running" => loop'.item \notin quiet \cup gone
<1>1. ScheduleInv /\ [Next]_vars => [A]_vars
  <2> SUFFICES ASSUME ScheduleInv, Next PROVE A
    OBVIOUS
  <2>1. CASE Recheck
    <3>1. loop'.pc = "running" => /\ loop'.item \in DOMAIN mem
                                  /\ mem[loop'.item].active
      BY <2>1 DEF Recheck, LoopStep, ScheduleInv, TypeOK
    <3>. QED BY <3>1 DEF ScheduleInv, PausedAndDeletedStay
  <2>2. CASE Tick
    <3>1. loop'.pc = "next" BY <2>2 DEF Tick, LoopStep, IdleLoop
    <3>. QED BY <3>1
  <2>3. CASE BatchDone BY <2>3 DEF BatchDone, LoopStep, IdleLoop
  <2>4. ASSUME NEW s \in Schedules, TakeItem(s) PROVE A
    <3>1. loop'.pc = FirstStep(loop.batch[s].proof) BY <2>4 DEF TakeItem, LoopStep
    <3>. QED BY <3>1 DEF FirstStep
  <2>5. CASE (\E reached \in BOOLEAN : CheckProof(reached)) \/ \E ok \in BOOLEAN : RecordRun(ok)
    BY <2>5 DEF CheckProof, RecordRun, LoopStep, ScheduleInv, TypeOK
  <2>6. CASE RunEnds BY <2>6 DEF RunEnds
  <2>7. CASE RequestNext
    BY <2>7 DEF RequestNext, CreateIssue, EnableIssue, CreateInsert, EnableAuthorize,
                EnableActivate, Pause, Delete, ManualRun, ManualRunEnds
  <2>8. CASE \/ \E s \in Schedules : BecomesDue(s)
             \/ \E proof \in Proofs : Revoke(proof)
             \/ Restart
    BY <2>8 DEF BecomesDue, Revoke, Restart, IdleLoop
  <2>. QED BY <2>1, <2>2, <2>3, <2>4, <2>5, <2>6, <2>7, <2>8 DEF Next, LoopNext
<1>. QED BY <1>1, InvAlways, PTL DEF Spec, NoRunAfterPause
=============================================================================
