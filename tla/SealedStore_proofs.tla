-------------------------- MODULE SealedStore_proofs --------------------------
(***************************************************************************)
(* Theorems about SealedStore, for any keys, processes, saves and evidence *)
(* files, and any number of starts: all six of its properties follow from  *)
(* one inductive invariant.                                                *)
(***************************************************************************)
EXTENDS SealedStore, TLAPS

-----------------------------------------------------------------------------
(* The inductive invariant. *)

\* ReadState is behind it: it has decided how to seal.
Opened(p) == proc[p].pc \in {"claim", "settle", "up", "run", "check", "replace", "remove"}

\* The keys Core holds. A recorded key, or one a process was given, is among them.
CoreKeys == {current} \cup retired

Custodial ==
  /\ record \in CoreKeys \cup {None}
  /\ \A p \in Procs : proc[p].key \in CoreKeys \cup {None}

\* Until two processes have met, at most one is up.
Alone ==
  overlapped \/ \A p, q \in Procs : proc[p].pc # "down" /\ proc[q].pc # "down" => p = q

\* What a process decided agrees with what it saw and holds.
Decided(p) ==
  /\ proc[p].seen # None => record # None
  /\ ~Opened(p) => proc[p].seal = "compat" /\ proc[p].saving = None /\ proc[p].copy = None
  /\ proc[p].seal = "sealing" => proc[p].key # None /\ (proc[p].pc = "claim" \/ record # None)
  /\ proc[p].pc = "claim" => proc[p].seal = "sealing"
  /\ Opened(p) /\ proc[p].seal = "compat" => proc[p].seen = None
  /\ proc[p].seal = "unhealthy" /\ proc[p].key # None => proc[p].seen \notin Held(p) \cup {None}

\* Where a save or a copy under way stands.
UnderWay(p) ==
  /\ proc[p].saving # None => proc[p].pc \in {"check", "replace"} /\ proc[p].saving \in proc[p].mem
  /\ proc[p].pc \in {"check", "replace"} => proc[p].seal # "unhealthy"
  /\ proc[p].copy # None => proc[p].seal = "sealing" /\ proc[p].pc # "claim"

\* What the one process that is up knows of the directory.
KnowsAlone(p) ==
  /\ proc[p].old # {} => {record, proc[p].seen} \subseteq Held(p) \cup {None}
  /\ proc[p].pc # "record" /\ proc[p].seal = "compat" => record = proc[p].seen
  /\ Opened(p) /\ proc[p].seal # "unhealthy" => acked \subseteq proc[p].mem
  /\ Opened(p) /\ proc[p].seal = "sealing" => state.form \in Held(p) \/ state.form \notin Keys
  /\ Opened(p) /\ proc[p].seal = "compat" => state.form \notin Keys

ProcInv(p) ==
  /\ Decided(p)
  /\ UnderWay(p)
  /\ ~overlapped /\ proc[p].pc # "down" => KnowsAlone(p)

\* What memory and checks.json hold was saved by somebody.
Made == state.content \subseteq used /\ \A p \in Procs : proc[p].mem \subseteq used

SealInv ==
  /\ TypeOK
  /\ Made
  /\ Custodial
  /\ Alone
  /\ RecordedBeforeSealed
  /\ AckedSavesSurvive
  /\ \A p \in Procs : ProcInv(p)

-----------------------------------------------------------------------------
(* What the steps have in common. *)

\* A process is not affected by a step of another, which is up: then either the
\* two have met, or this one is down.
LEMMA OthersKept ==
  ASSUME NEW p \in Procs, NEW q \in Procs, p # q, SealInv,
         proc'[q] = proc[q],
         overlapped => overlapped',
         record # None => record' # None,
         proc[p].pc # "down" \/ overlapped'
           \/ \A r \in Procs : proc[r].pc = "down"
  PROVE  ProcInv(q)'
<1>1. Decided(q)' BY DEF SealInv, ProcInv, Decided, Opened, Held
<1>2. UnderWay(q)' BY DEF SealInv, ProcInv, UnderWay
<1>3. ~overlapped' => proc'[q].pc = "down" BY DEF SealInv, Alone
<1>. QED BY <1>1, <1>2, <1>3 DEF ProcInv

\* A step of p alone that keeps the variables' types, what Core holds and what
\* p knows.
LEMMA StepKept ==
  ASSUME SealInv, NEW p \in Procs, NEW x \in Process,
         Step(p, x),
         UNCHANGED Custody, UNCHANGED <<record, state, acked, overlapped, starts>>,
         TypeOK',
         proc[p].pc # "down",
         x.key \in {proc[p].key, None},
         used \subseteq used',
         x.mem \subseteq used',
         RecordedBeforeSealed',
         ProcInv(p)'
  PROVE  SealInv'
<1>1. proc'[p] = x /\ \A q \in Procs \ {p} : proc'[q] = proc[q]
  BY DEF SealInv, TypeOK, Step
<1>2. Custodial' BY <1>1 DEF SealInv, Custodial, CoreKeys, Custody
<1>3. Alone' BY <1>1 DEF SealInv, Alone
<1>4. AckedSavesSurvive' BY DEF SealInv, AckedSavesSurvive
<1>5. Made' BY <1>1 DEF SealInv, Made
<1>6. \A q \in Procs : ProcInv(q)'
  BY <1>1, OthersKept
<1>. QED BY <1>2, <1>3, <1>4, <1>5, <1>6 DEF SealInv

-----------------------------------------------------------------------------
(* Keys, and the first steps of a process. *)

LEMMA InitInv == Init => SealInv
<1> SUFFICES ASSUME Init PROVE SealInv
  OBVIOUS
<1> USE DEF Init, Down
<1>1. TypeOK
  <2>1. proc \in [Procs -> Process] BY DEF Process
  <2>2. state \in [form : Forms, content : SUBSET Updates] /\ evid \in [Evid -> Forms]
    BY DEF Forms
  <2>3. starts \in 0..MaxStarts BY KeyAssumption
  <2>. QED BY <2>1, <2>2, <2>3 DEF TypeOK
<1>2. \A p \in Procs : ProcInv(p)
  BY DEF ProcInv, Decided, UnderWay, Opened
<1>3. RecordedBeforeSealed
  BY KeyAssumption DEF RecordedBeforeSealed, AnySealed
<1>. QED
  BY <1>1, <1>2, <1>3
  DEF SealInv, Made, Custodial, Alone, AckedSavesSurvive

LEMMA RotateKeeps ==
  ASSUME SealInv, NEW k \in Keys, Rotate(k)
  PROVE  SealInv'
<1> USE DEF Rotate
<1>1. TypeOK' BY DEF SealInv, TypeOK
<1>2. Custodial' BY DEF SealInv, Custodial, CoreKeys
<1>3. \A p \in Procs : ProcInv(p)'
  BY DEF SealInv, ProcInv, Decided, UnderWay, KnowsAlone, Opened, Held
<1>. QED
  BY <1>1, <1>2, <1>3
  DEF SealInv, Made, Alone, RecordedBeforeSealed, AnySealed, AckedSavesSurvive

LEMMA StartKeeps ==
  ASSUME SealInv, NEW p \in Procs, NEW source \in {"delivered", "master", "none"},
         Start(p, source)
  PROVE  SealInv'
<1> DEFINE x == [Down EXCEPT
                   !.pc = "record",
                   !.key = IF source = "none" THEN None ELSE current,
                   !.old = IF source = "delivered" THEN retired ELSE {}]
<1>1. /\ proc' = [proc EXCEPT ![p] = x]
      /\ UNCHANGED <<current, retired, record, state, evid, used, acked, gone>>
      /\ overlapped' = (overlapped \/ \E q \in Procs : proc[q].pc # "down")
      /\ starts < MaxStarts /\ starts' = starts + 1
      /\ proc[p].pc = "down"
  BY DEF Start, Step, Custody, Disk
<1>2. /\ x.pc = "record" /\ x.seen = None /\ x.sealed = FALSE /\ x.seal = "compat"
      /\ x.mem = {} /\ x.saving = None /\ x.copy = None
      /\ x.key = (IF source = "none" THEN None ELSE current)
      /\ x.old = (IF source = "delivered" THEN retired ELSE {})
  BY DEF Down
<1>3. x \in Process BY DEF SealInv, TypeOK, Process, Down
<1> HIDE DEF x
<1>4. proc'[p] = x /\ \A q \in Procs \ {p} : proc'[q] = proc[q]
  BY <1>1 DEF SealInv, TypeOK
<1>5. TypeOK'
  <2>1. starts' \in 0..MaxStarts BY <1>1, KeyAssumption DEF SealInv, TypeOK
  <2>2. overlapped' \in BOOLEAN BY <1>1
  <2>. QED BY <1>1, <1>3, <2>1, <2>2 DEF SealInv, TypeOK
<1>6. Custodial' BY <1>1, <1>2, <1>4 DEF SealInv, Custodial, CoreKeys
<1>7. Alone'
  <2>1. ~overlapped' => \A q \in Procs : proc[q].pc = "down" BY <1>1
  <2>. QED BY <2>1, <1>4 DEF Alone
<1>8. ProcInv(p)'
  <2>1. Decided(p)' /\ UnderWay(p)' BY <1>2, <1>4 DEF Decided, UnderWay, Opened
  <2>2. KnowsAlone(p)'
    BY <1>1, <1>2, <1>4 DEF KnowsAlone, Opened, Held, SealInv, Custodial, CoreKeys
  <2>. QED BY <2>1, <2>2 DEF ProcInv
<1>9. \A q \in Procs : ProcInv(q)'
  BY <1>1, <1>4, <1>8, OthersKept
<1>10. AckedSavesSurvive' /\ RecordedBeforeSealed'
  BY <1>1 DEF SealInv, AckedSavesSurvive, RecordedBeforeSealed, AnySealed
<1>11. Made' BY <1>1, <1>2, <1>4 DEF SealInv, Made
<1>. QED BY <1>5, <1>6, <1>7, <1>9, <1>10, <1>11 DEF SealInv

LEMMA ReadRecordKeeps ==
  ASSUME SealInv, NEW p \in Procs, ReadRecord(p)
  PROVE  SealInv'
<1> DEFINE x == [proc[p] EXCEPT !.pc = "read", !.seen = record]
<1>1. /\ proc[p].pc = "record" /\ Step(p, x)
      /\ UNCHANGED <<Custody, Disk, used, acked, gone, overlapped, starts>>
  BY DEF ReadRecord
<1>2. proc[p] \in Process /\ x \in Process
  <2>1. proc[p] \in Process /\ record \in Keys \cup {None} BY DEF SealInv, TypeOK
  <2>. QED BY <2>1 DEF Process
<1>3. /\ x.pc = "read" /\ x.seen = record /\ x.key = proc[p].key /\ x.old = proc[p].old
      /\ x.seal = proc[p].seal /\ x.mem = proc[p].mem /\ x.saving = proc[p].saving
      /\ x.copy = proc[p].copy
  BY <1>2 DEF Process
<1> HIDE DEF x
<1>4. proc'[p] = x BY <1>1 DEF SealInv, TypeOK, Step
<1>5. TypeOK' BY <1>1, <1>2 DEF SealInv, TypeOK, Step, Custody, Disk
<1>6. RecordedBeforeSealed'
  BY <1>1 DEF SealInv, RecordedBeforeSealed, AnySealed, Disk
<1>7. ProcInv(p)'
  <2>1. Decided(p)' /\ UnderWay(p)'
    BY <1>1, <1>3, <1>4 DEF SealInv, ProcInv, Decided, UnderWay, Opened, Disk
  <2>2. ~overlapped' => KnowsAlone(p)'
    BY <1>1, <1>3, <1>4 DEF SealInv, ProcInv, KnowsAlone, Opened, Held, Disk
  <2>. QED BY <2>1, <2>2 DEF ProcInv
<1>. QED
  BY <1>1, <1>2, <1>3, <1>5, <1>6, <1>7, StepKept DEF Custody, Disk, SealInv, Made

LEMMA EndKeeps ==
  ASSUME SealInv, NEW p \in Procs, proc[p].pc # "down", Step(p, Down),
         UNCHANGED <<Custody, Disk, used, acked, gone, overlapped, starts>>
  PROVE  SealInv'
<1>1. proc'[p] = Down /\ Down \in Process
  BY DEF SealInv, TypeOK, Step, Down, Process
<1>2. /\ Down.pc = "down" /\ Down.key = None /\ Down.old = {} /\ Down.seen = None
      /\ Down.seal = "compat" /\ Down.mem = {} /\ Down.saving = None /\ Down.copy = None
  BY DEF Down
<1>3. TypeOK' BY <1>1 DEF SealInv, TypeOK, Step, Custody, Disk
<1>4. RecordedBeforeSealed' BY DEF SealInv, RecordedBeforeSealed, AnySealed, Disk
<1>5. ProcInv(p)' BY <1>1, <1>2 DEF ProcInv, Decided, UnderWay, KnowsAlone, Opened
<1>. QED BY <1>1, <1>2, <1>3, <1>4, <1>5, StepKept DEF Custody, Disk

LEMMA ReadStateKeeps ==
  ASSUME SealInv, NEW p \in Procs, ReadState(p)
  PROVE  SealInv'
<1> DEFINE sealed == state.form \in Keys
           seal == StoreState(p, sealed \/ AnySealed)
           x == [proc[p] EXCEPT
                   !.pc = IF seal = "sealing" /\ proc[p].seen = None THEN "claim" ELSE "settle",
                   !.seal = seal,
                   !.sealed = sealed,
                   !.mem = IF sealed /\ seal # "sealing" THEN {} ELSE state.content]
<1>1. /\ proc[p].pc = "read"
      /\ UNCHANGED <<Custody, Disk, used, acked, gone, overlapped, starts>>
  BY DEF ReadState
<1>2. CASE sealed /\ seal = "sealing" /\ state.form \notin Held(p)
  <2>1. Step(p, Down) BY <1>2 DEF ReadState
  <2>. QED BY <1>1, <2>1, EndKeeps
<1>3. CASE ~(sealed /\ seal = "sealing" /\ state.form \notin Held(p))
  <2>1. Step(p, x) BY <1>3 DEF ReadState
  <2>2. /\ proc[p] \in Process
        /\ state \in [form : Forms, content : SUBSET Updates]
    BY DEF SealInv, TypeOK
  <2>3. /\ seal \in {"sealing", "compat", "unhealthy"}
        /\ seal = "sealing" =>
             proc[p].key # None /\ proc[p].seen \in Held(p) \cup {None}
        /\ seal = "compat" => proc[p].seen = None /\ ~sealed
        /\ seal = "unhealthy" /\ proc[p].key # None => proc[p].seen \notin Held(p) \cup {None}
    BY DEF StoreState
  <2>. HIDE DEF seal
  <2>4. /\ x.pc = IF seal = "sealing" /\ proc[p].seen = None THEN "claim" ELSE "settle"
        /\ x.seal = seal /\ x.sealed = sealed
        /\ x.mem = IF sealed /\ seal # "sealing" THEN {} ELSE state.content
        /\ x.seen = proc[p].seen /\ x.key = proc[p].key /\ x.old = proc[p].old
        /\ x.saving = proc[p].saving /\ x.copy = proc[p].copy
    BY <2>2 DEF Process
  <2>5. x \in Process
    <3>1. sealed \in BOOLEAN OBVIOUS
    <3>. HIDE DEF sealed
    <3>2. x.pc \in {"claim", "settle"} /\ x.mem \subseteq Updates BY <2>2, <2>4
    <3>. QED BY <2>2, <2>3, <3>1, <3>2 DEF Process
  <2>. HIDE DEF x
  <2>6. proc'[p] = x BY <2>1 DEF SealInv, TypeOK, Step
  <2>7. TypeOK' BY <1>1, <2>1, <2>5 DEF SealInv, TypeOK, Step, Custody, Disk
  <2>8. RecordedBeforeSealed'
    BY <1>1 DEF SealInv, RecordedBeforeSealed, AnySealed, Disk
  <2>9. ProcInv(p)'
    <3>1. ProcInv(p) /\ AckedSavesSurvive /\ proc'[p] = x
          /\ UNCHANGED <<record, state, acked, overlapped>>
      BY <1>1, <2>6 DEF SealInv, Disk
    <3>2. Decided(p)'
      BY <1>1, <2>3, <2>4, <3>1 DEF ProcInv, Decided, Opened, Held
    <3>3. UnderWay(p)' BY <1>1, <2>4, <3>1 DEF ProcInv, UnderWay, Decided, Opened
    <3>4. ~overlapped' => KnowsAlone(p)'
      <4> SUFFICES ASSUME ~overlapped' PROVE KnowsAlone(p)'
        OBVIOUS
      <4>1. KnowsAlone(p) /\ proc[p].seal = "compat"
        BY <1>1, <3>1 DEF ProcInv, Decided, Opened
      <4>2. acked \subseteq state.content BY <3>1 DEF AckedSavesSurvive
      <4>3. Held(p)' = Held(p) BY <2>4, <3>1 DEF Held
      <4>4. proc'[p].seal # "unhealthy" => proc'[p].mem = state.content
        BY <2>3, <2>4, <3>1
      <4>5. proc'[p].seal = "sealing" => state.form \in Held(p) \/ state.form \notin Keys
        BY <1>3, <2>4, <3>1
      <4>. QED
        BY <1>1, <2>3, <2>4, <3>1, <4>1, <4>2, <4>3, <4>4, <4>5 DEF KnowsAlone, Opened
    <3>. QED BY <3>2, <3>3, <3>4 DEF ProcInv
  <2>. QED
    BY <1>1, <2>1, <2>2, <2>4, <2>5, <2>7, <2>8, <2>9, StepKept DEF Custody, Disk, SealInv, Made
<1>. QED BY <1>2, <1>3

LEMMA WriteRecordKeeps ==
  ASSUME SealInv, NEW p \in Procs, WriteRecord(p)
  PROVE  SealInv'
<1> DEFINE x == [proc[p] EXCEPT !.pc = "settle"]
<1>1. /\ proc[p].pc = "claim" /\ record' = proc[p].key /\ proc' = [proc EXCEPT ![p] = x]
      /\ UNCHANGED <<current, retired, state, evid, used, acked, gone, overlapped, starts>>
  BY DEF WriteRecord, Step, Custody
<1>2. proc[p] \in Process BY DEF SealInv, TypeOK
<1>3. /\ x \in Process
      /\ x.pc = "settle" /\ x.seen = proc[p].seen /\ x.key = proc[p].key /\ x.old = proc[p].old
      /\ x.seal = proc[p].seal /\ x.mem = proc[p].mem /\ x.saving = proc[p].saving
      /\ x.copy = proc[p].copy
  BY <1>2 DEF Process
<1> HIDE DEF x
<1>4. proc'[p] = x /\ \A q \in Procs \ {p} : proc'[q] = proc[q]
  BY <1>1 DEF SealInv, TypeOK
<1>5. proc[p].key # None /\ proc[p].seal = "sealing"
  BY <1>1 DEF SealInv, ProcInv, Decided
<1>6. TypeOK' BY <1>1, <1>2, <1>3 DEF SealInv, TypeOK, Process
<1>7. Custodial' BY <1>1, <1>3, <1>4 DEF SealInv, Custodial, CoreKeys
<1>8. Alone' BY <1>1, <1>4 DEF SealInv, Alone
<1>9. ProcInv(p)'
  <2>1. Decided(p)' /\ UnderWay(p)'
    BY <1>1, <1>3, <1>4, <1>5 DEF SealInv, ProcInv, Decided, UnderWay, Opened
  <2>2. ~overlapped' => KnowsAlone(p)'
    BY <1>1, <1>3, <1>4, <1>5 DEF SealInv, ProcInv, KnowsAlone, Opened, Held
  <2>. QED BY <2>1, <2>2 DEF ProcInv
<1>10. \A q \in Procs : ProcInv(q)'
  BY <1>1, <1>4, <1>5, <1>9, OthersKept
<1>11. RecordedBeforeSealed' /\ AckedSavesSurvive' /\ Made'
  BY <1>1, <1>3, <1>4, <1>5 DEF SealInv, RecordedBeforeSealed, AckedSavesSurvive, Made
<1>. QED BY <1>6, <1>7, <1>8, <1>10, <1>11 DEF SealInv

-----------------------------------------------------------------------------
(* Steps of a process that has opened the directory. *)

\* Where such a process may go without a look at the directory.
Onward(r, x) ==
  /\ r.pc \in {"settle", "up", "run", "check", "replace", "remove"}
  /\ x.pc \in {"settle", "up", "run", "check", "replace", "remove"}
  /\ x.key = r.key /\ x.old = r.old /\ x.seen = r.seen /\ x.seal = r.seal
  /\ x.copy # None => x.seal = "sealing"
  /\ r.mem \subseteq x.mem
  /\ x.saving # None => x.pc \in {"check", "replace"} /\ x.saving \in x.mem
  /\ x.pc \in {"check", "replace"} => x.seal # "unhealthy"

LEMMA OnwardKeeps ==
  ASSUME SealInv, NEW p \in Procs, NEW x \in Process, Onward(proc[p], x), Step(p, x),
         UNCHANGED <<Custody, record, state, acked, overlapped, starts>>,
         evid' \in [Evid -> Forms], gone' \subseteq Evid,
         AnySealed' => AnySealed \/ record # None,
         used \subseteq used', used' \subseteq Updates, x.mem \subseteq used'
  PROVE  SealInv'
<1>1. proc'[p] = x BY DEF SealInv, TypeOK, Step
<1>2. UNCHANGED <<current, retired>> BY DEF Custody
<1>3. TypeOK' BY <1>2 DEF SealInv, TypeOK, Step
<1>4. RecordedBeforeSealed' BY DEF SealInv, RecordedBeforeSealed
<1>5. ProcInv(p)'
  <2>1. ProcInv(p) BY DEF SealInv
  <2>2. Decided(p)' BY <1>1, <2>1 DEF ProcInv, Decided, Opened, Held, Onward
  <2>3. UnderWay(p)' BY <1>1, <2>1 DEF UnderWay, Onward
  <2>4. ~overlapped' => KnowsAlone(p)'
    BY <1>1, <2>1 DEF ProcInv, KnowsAlone, Opened, Held, Onward
  <2>. QED BY <2>2, <2>3, <2>4 DEF ProcInv
<1>. QED BY <1>2, <1>3, <1>4, <1>5, StepKept DEF Onward, Custody

LEMMA PersistFromWhere ==
  ASSUME NEW p \in Procs, proc[p] \in Process
  PROVE  /\ PersistFrom(p) \in {"replace", "check", "up"}
         /\ proc[p].seal = "unhealthy" <=> PersistFrom(p) = "up"
BY DEF PersistFrom, Process

LEMMA SettleKeeps ==
  ASSUME SealInv, NEW p \in Procs, Settle(p)
  PROVE  SealInv'
<1>1. PICK to \in {PersistFrom(p), "up"} :
        Step(p, [proc[p] EXCEPT !.pc = to])
  BY DEF Settle
<1> DEFINE x == [proc[p] EXCEPT !.pc = to]
<1>2. /\ proc[p].pc = "settle" /\ Step(p, x)
      /\ UNCHANGED <<Custody, Disk, used, acked, gone, overlapped, starts>>
  BY <1>1 DEF Settle
<1>3. proc[p] \in Process BY DEF SealInv, TypeOK
<1>4. to \in {"replace", "check", "up"} /\ (to # "up" => proc[p].seal # "unhealthy")
  BY <1>3, PersistFromWhere
<1>5. x \in Process /\ x.mem = proc[p].mem BY <1>3, <1>4 DEF Process
<1>6. Onward(proc[p], x)
  <2>1. UnderWay(p) BY DEF SealInv, ProcInv
  <2>. QED BY <1>2, <1>3, <1>4, <2>1 DEF Onward, UnderWay, Process
<1> HIDE DEF x
<1>. QED
  BY <1>2, <1>3, <1>5, <1>6, OnwardKeeps DEF Disk, SealInv, TypeOK, Made, AnySealed

LEMMA BeginRunKeeps ==
  ASSUME SealInv, NEW p \in Procs, BeginRun(p)
  PROVE  SealInv'
<1> DEFINE x == [proc[p] EXCEPT !.pc = "run"]
<1>1. /\ proc[p].pc = "up" /\ Step(p, x)
      /\ UNCHANGED <<Custody, Disk, used, acked, gone, overlapped, starts>>
  BY DEF BeginRun
<1>2. proc[p] \in Process BY DEF SealInv, TypeOK
<1>3. x \in Process /\ x.mem = proc[p].mem BY <1>2 DEF Process
<1>4. Onward(proc[p], x)
  <2>1. UnderWay(p) BY DEF SealInv, ProcInv
  <2>. QED BY <1>1, <1>2, <2>1 DEF Onward, UnderWay, Process
<1> HIDE DEF x
<1>. QED
  BY <1>1, <1>2, <1>3, <1>4, OnwardKeeps DEF Disk, SealInv, TypeOK, Made, AnySealed

LEMMA WriteEvidenceKeeps ==
  ASSUME SealInv, NEW p \in Procs, NEW e \in Evid, WriteEvidence(p, e)
  PROVE  SealInv'
<1>1. /\ proc[p].pc = "run" /\ proc' = proc
      /\ evid' = [evid EXCEPT ![e] = IF proc[p].seal = "sealing" THEN proc[p].key ELSE "plain"]
      /\ UNCHANGED <<Custody, record, state, used, acked, gone, overlapped, starts>>
  BY DEF WriteEvidence
<1>2. proc[p] \in Process /\ evid \in [Evid -> Forms] BY DEF SealInv, TypeOK
<1>3. proc[p].seal = "sealing" => proc[p].key # None /\ record # None
  BY <1>1 DEF SealInv, ProcInv, Decided
<1>4. evid' \in [Evid -> Forms]
  <2>1. proc[p].seal = "sealing" => proc[p].key \in Keys BY <1>2, <1>3 DEF Process
  <2>. QED BY <1>1, <1>2, <2>1 DEF Forms
<1>5. AnySealed' => AnySealed \/ record # None
  BY <1>1, <1>2, <1>3, KeyAssumption DEF AnySealed
<1>6. Step(p, proc[p]) BY <1>1 DEF Step, SealInv, TypeOK
<1>7. Onward(proc[p], proc[p])
  BY <1>1 DEF Onward, SealInv, ProcInv, UnderWay
<1>. QED
  BY <1>1, <1>2, <1>4, <1>5, <1>6, <1>7, OnwardKeeps DEF SealInv, TypeOK, Made

LEMMA SaveKeeps ==
  ASSUME SealInv, NEW p \in Procs, NEW u \in Updates, Save(p, u)
  PROVE  SealInv'
<1> DEFINE saving == IF PersistFrom(p) = "up" THEN None ELSE u
           x == [proc[p] EXCEPT !.pc = PersistFrom(p), !.mem = proc[p].mem \cup {u},
                   !.saving = saving]
<1>1. /\ proc[p].pc = "run" /\ Step(p, x) /\ used' = used \cup {u}
      /\ UNCHANGED <<Custody, Disk, acked, gone, overlapped, starts>>
  BY DEF Save
<1>2. proc[p] \in Process BY DEF SealInv, TypeOK
<1>3. /\ PersistFrom(p) \in {"replace", "check", "up"}
      /\ proc[p].seal = "unhealthy" <=> PersistFrom(p) = "up"
  BY <1>2, PersistFromWhere
<1>4. saving \in {u, None} /\ (saving # None => PersistFrom(p) # "up")
  BY <1>3
<1> HIDE DEF saving
<1>5. x \in Process /\ x.mem = proc[p].mem \cup {u} BY <1>2, <1>3, <1>4 DEF Process
<1>6. Onward(proc[p], x)
  <2>1. UnderWay(p) BY DEF SealInv, ProcInv
  <2>. QED BY <1>1, <1>2, <1>3, <1>4, <2>1 DEF Onward, UnderWay, Process
<1> HIDE DEF x
<1>. QED
  BY <1>1, <1>2, <1>5, <1>6, OnwardKeeps DEF Disk, SealInv, TypeOK, Made, AnySealed

LEMMA CheckKeeps ==
  ASSUME SealInv, NEW p \in Procs, Check(p)
  PROVE  SealInv'
<1>1. /\ proc[p].pc = "check"
      /\ UNCHANGED <<Custody, Disk, used, acked, gone, overlapped, starts>>
  BY DEF Check
<1>2. proc[p] \in Process /\ UnderWay(p) BY DEF SealInv, TypeOK, ProcInv
<1>3. CASE ~SealedSinceOpen
  <2> DEFINE x == [proc[p] EXCEPT !.pc = "replace"]
  <2>1. Step(p, x) BY <1>3 DEF Check
  <2>2. x \in Process /\ x.mem = proc[p].mem BY <1>2 DEF Process
  <2>3. Onward(proc[p], x) BY <1>1, <1>2 DEF Onward, UnderWay, Process
  <2> HIDE DEF x
  <2>. QED
    BY <1>1, <1>2, <2>1, <2>2, <2>3, OnwardKeeps DEF Disk, SealInv, TypeOK, Made, AnySealed
<1>4. CASE SealedSinceOpen /\ proc[p].saving = None
  <2>1. Step(p, Down) BY <1>4 DEF Check
  <2>. QED BY <1>1, <2>1, EndKeeps
<1>5. CASE SealedSinceOpen /\ proc[p].saving # None
  <2> DEFINE x == [proc[p] EXCEPT !.pc = "up", !.saving = None]
  <2>1. Step(p, x) BY <1>5 DEF Check
  <2>2. x \in Process /\ x.mem = proc[p].mem BY <1>2 DEF Process
  <2>3. Onward(proc[p], x) BY <1>1, <1>2 DEF Onward, UnderWay, Process
  <2> HIDE DEF x
  <2>. QED
    BY <1>1, <1>2, <2>1, <2>2, <2>3, OnwardKeeps DEF Disk, SealInv, TypeOK, Made, AnySealed
<1>. QED BY <1>3, <1>4, <1>5

LEMMA ReplaceKeeps ==
  ASSUME SealInv, NEW p \in Procs, Replace(p)
  PROVE  SealInv'
<1> DEFINE to == IF proc[p].saving = None THEN "up" ELSE "remove"
           x == [proc[p] EXCEPT !.pc = to, !.saving = None]
<1>1. /\ proc[p].pc = "replace" /\ proc' = [proc EXCEPT ![p] = x]
      /\ state' = [form |-> IF proc[p].seal = "sealing" THEN proc[p].key ELSE "plain",
                   content |-> proc[p].mem]
      /\ acked' = acked \cup ({proc[p].saving} \ {None})
      /\ UNCHANGED <<current, retired, record, evid, used, gone, overlapped, starts>>
  BY DEF Replace, Step, Custody
<1>2. proc[p] \in Process /\ ProcInv(p) /\ proc[p].mem \subseteq used
  BY DEF SealInv, TypeOK, Made
<1>3. proc[p].seal # "unhealthy" /\ (proc[p].saving # None => proc[p].saving \in proc[p].mem)
  BY <1>1, <1>2 DEF ProcInv, UnderWay
<1>4. proc[p].seal = "sealing" => proc[p].key \in Keys /\ record # None
  BY <1>1, <1>2 DEF ProcInv, Decided, Process
<1>5. to \in {"up", "remove"} OBVIOUS
<1> HIDE DEF to
<1>6. /\ x \in Process
      /\ x.pc = to /\ x.saving = None /\ x.seen = proc[p].seen /\ x.key = proc[p].key
      /\ x.old = proc[p].old /\ x.seal = proc[p].seal /\ x.mem = proc[p].mem
      /\ x.copy = proc[p].copy
  BY <1>2, <1>5 DEF Process
<1> HIDE DEF x
<1>7. proc'[p] = x /\ \A q \in Procs \ {p} : proc'[q] = proc[q]
  BY <1>1 DEF SealInv, TypeOK
<1>8. TypeOK'
  <2>1. state' \in [form : Forms, content : SUBSET Updates]
    BY <1>1, <1>2, <1>4 DEF Forms, Process
  <2>2. acked' \subseteq used' BY <1>1, <1>2, <1>3 DEF SealInv, TypeOK
  <2>. QED BY <1>1, <1>6, <2>1, <2>2 DEF SealInv, TypeOK
<1>9. Custodial' BY <1>1, <1>6, <1>7 DEF SealInv, Custodial, CoreKeys
<1>10. Alone' BY <1>1, <1>7 DEF SealInv, Alone
<1>11. RecordedBeforeSealed'
  BY <1>1, <1>4, KeyAssumption DEF SealInv, RecordedBeforeSealed, AnySealed
<1>12. ~overlapped => acked' \subseteq proc[p].mem
  BY <1>1, <1>2, <1>3 DEF ProcInv, KnowsAlone, Opened
<1>13. AckedSavesSurvive' BY <1>1, <1>12 DEF AckedSavesSurvive
<1>14. Made' BY <1>1, <1>2, <1>6, <1>7 DEF SealInv, Made
<1>15. ProcInv(p)'
  <2>1. Decided(p)' BY <1>1, <1>2, <1>4, <1>5, <1>6, <1>7 DEF ProcInv, Decided, Opened, Held
  <2>2. UnderWay(p)' BY <1>2, <1>5, <1>6, <1>7 DEF ProcInv, UnderWay
  <2>3. ~overlapped' => KnowsAlone(p)'
    <3> SUFFICES ASSUME ~overlapped' PROVE KnowsAlone(p)'
      OBVIOUS
    <3>1. KnowsAlone(p) BY <1>1, <1>2 DEF ProcInv
    <3>2. Held(p)' = Held(p) BY <1>6, <1>7 DEF Held
    <3>3. proc[p].seal = "sealing" => state'.form \in Held(p)
      BY <1>1, <1>4, KeyAssumption DEF Held
    <3>4. proc[p].seal = "compat" => state'.form \notin Keys BY <1>1, KeyAssumption
    <3>. QED
      BY <1>1, <1>5, <1>6, <1>7, <1>12, <3>1, <3>2, <3>3, <3>4 DEF KnowsAlone, Opened
  <2>. QED BY <2>1, <2>2, <2>3 DEF ProcInv
<1>16. \A q \in Procs : ProcInv(q)'
  BY <1>1, <1>7, <1>15, OthersKept
<1>. QED BY <1>8, <1>9, <1>10, <1>11, <1>13, <1>14, <1>16 DEF SealInv

LEMMA RemoveEvidenceKeeps ==
  ASSUME SealInv, NEW p \in Procs, NEW E \in SUBSET Evid, RemoveEvidence(p, E)
  PROVE  SealInv'
<1> DEFINE x == [proc[p] EXCEPT !.pc = "up"]
<1>1. /\ proc[p].pc = "remove" /\ Step(p, x)
      /\ evid' = [e \in Evid |-> IF e \in E THEN "absent" ELSE evid[e]]
      /\ gone' = gone \cup E
      /\ UNCHANGED <<Custody, record, state, used, acked, overlapped, starts>>
  BY DEF RemoveEvidence
<1>2. proc[p] \in Process /\ evid \in [Evid -> Forms] /\ gone \subseteq Evid
  BY DEF SealInv, TypeOK
<1>3. x \in Process /\ x.mem = proc[p].mem BY <1>2 DEF Process
<1>4. Onward(proc[p], x)
  <2>1. UnderWay(p) BY DEF SealInv, ProcInv
  <2>. QED BY <1>1, <1>2, <2>1 DEF Onward, UnderWay, Process
<1>5. evid' \in [Evid -> Forms] /\ gone' \subseteq Evid BY <1>1, <1>2 DEF Forms
<1>6. AnySealed' => AnySealed BY <1>1, KeyAssumption DEF AnySealed
<1> HIDE DEF x
<1>. QED
  BY <1>1, <1>2, <1>3, <1>4, <1>5, <1>6, OnwardKeeps DEF SealInv, TypeOK, Made

LEMMA SealCopyKeeps ==
  ASSUME SealInv, NEW p \in Procs, NEW e \in Evid, SealCopy(p, e)
  PROVE  SealInv'
<1> DEFINE x == [proc[p] EXCEPT !.copy = e]
<1>1. /\ Serving(p) /\ proc[p].seal = "sealing" /\ Step(p, x)
      /\ UNCHANGED <<Custody, Disk, used, acked, gone, overlapped, starts>>
  BY DEF SealCopy
<1>2. proc[p] \in Process /\ UnderWay(p) BY DEF SealInv, TypeOK, ProcInv
<1>3. x \in Process /\ x.mem = proc[p].mem BY <1>2 DEF Process
<1>4. Onward(proc[p], x) BY <1>1, <1>2 DEF Onward, UnderWay, Serving, Process
<1> HIDE DEF x
<1>. QED
  BY <1>1, <1>2, <1>3, <1>4, OnwardKeeps DEF Disk, SealInv, TypeOK, Made, AnySealed

LEMMA SealReplaceKeeps ==
  ASSUME SealInv, NEW p \in Procs, SealReplace(p)
  PROVE  SealInv'
<1> DEFINE x == [proc[p] EXCEPT !.copy = None]
<1>1. /\ proc[p].copy # None /\ Step(p, x)
      /\ evid' = [evid EXCEPT ![proc[p].copy] = proc[p].key]
      /\ UNCHANGED <<Custody, record, state, used, acked, gone, overlapped, starts>>
  BY DEF SealReplace
<1>2. /\ proc[p] \in Process /\ evid \in [Evid -> Forms]
      /\ UnderWay(p) /\ Decided(p)
  BY DEF SealInv, TypeOK, ProcInv
<1>3. x \in Process /\ x.mem = proc[p].mem BY <1>2 DEF Process
<1>4. proc[p].seal = "sealing" /\ proc[p].pc # "claim" /\ Opened(p)
  BY <1>1, <1>2 DEF UnderWay, Decided
<1>5. proc[p].key \in Keys /\ record # None BY <1>2, <1>4 DEF Decided, Process
<1>6. Onward(proc[p], x) BY <1>2, <1>4 DEF Onward, UnderWay, Opened, Process
<1>7. evid' \in [Evid -> Forms] BY <1>1, <1>2, <1>5 DEF Forms
<1> HIDE DEF x
<1>. QED
  BY <1>1, <1>2, <1>3, <1>5, <1>6, <1>7, OnwardKeeps DEF SealInv, TypeOK, Made

LEMMA KillKeeps ==
  ASSUME SealInv, NEW p \in Procs, Kill(p)
  PROVE  SealInv'
BY EndKeeps DEF Kill

-----------------------------------------------------------------------------
(* The invariant holds in every state. *)

LEMMA StepKeeps == SealInv /\ [Next]_vars => SealInv'
<1> SUFFICES ASSUME SealInv, [Next]_vars PROVE SealInv'
  OBVIOUS
<1>1. CASE UNCHANGED vars
  BY <1>1 DEF vars, SealInv, TypeOK, Made, Custodial, CoreKeys, Alone, RecordedBeforeSealed,
    AnySealed, AckedSavesSurvive, ProcInv, Decided, UnderWay, KnowsAlone, Opened, Held
<1>2. CASE \E k \in Keys : Rotate(k) BY <1>2, RotateKeeps
<1>3. CASE \E p \in Procs, source \in {"delivered", "master", "none"} : Start(p, source)
  BY <1>3, StartKeeps
<1>4. CASE \E p \in Procs : ReadRecord(p) BY <1>4, ReadRecordKeeps
<1>5. CASE \E p \in Procs : ReadState(p) BY <1>5, ReadStateKeeps
<1>6. CASE \E p \in Procs : WriteRecord(p) BY <1>6, WriteRecordKeeps
<1>7. CASE \E p \in Procs : Settle(p) BY <1>7, SettleKeeps
<1>8. CASE \E p \in Procs : BeginRun(p) BY <1>8, BeginRunKeeps
<1>9. CASE \E p \in Procs, e \in Evid : WriteEvidence(p, e) BY <1>9, WriteEvidenceKeeps
<1>10. CASE \E p \in Procs, e \in Evid : SealCopy(p, e) BY <1>10, SealCopyKeeps
<1>11. CASE \E p \in Procs, E \in SUBSET Evid : RemoveEvidence(p, E)
  BY <1>11, RemoveEvidenceKeeps
<1>12. CASE \E p \in Procs, u \in Updates : Save(p, u) BY <1>12, SaveKeeps
<1>13. CASE \E p \in Procs : Check(p) BY <1>13, CheckKeeps
<1>14. CASE \E p \in Procs : Replace(p) BY <1>14, ReplaceKeeps
<1>15. CASE \E p \in Procs : SealReplace(p) BY <1>15, SealReplaceKeeps
<1>16. CASE \E p \in Procs : Kill(p) BY <1>16, KillKeeps
<1>. QED
  BY <1>1, <1>2, <1>3, <1>4, <1>5, <1>6, <1>7, <1>8, <1>9, <1>10, <1>11, <1>12, <1>13,
    <1>14, <1>15, <1>16
  DEF Next

LEMMA SealInvHolds == Spec => []SealInv
<1>1. Init => SealInv BY InitInv
<1>2. SealInv /\ [Next]_vars => SealInv' BY StepKeeps
<1>. QED BY <1>1, <1>2, PTL DEF Spec

-----------------------------------------------------------------------------
(* The theorems. *)

\* Every variable of the sealed directory keeps its type.
THEOREM SealTypeCorrect == Spec => []TypeOK
<1>1. SealInv => TypeOK BY DEF SealInv
<1>. QED BY <1>1, SealInvHolds, PTL

\* The record is on disk before anything sealed is (Store::open_with_keys),
\* whichever processes start, meet and are killed.
THEOREM SealsAreRecorded == Spec => []RecordedBeforeSealed
<1>1. SealInv => RecordedBeforeSealed BY DEF SealInv
<1>. QED BY <1>1, SealInvHolds, PTL

\* Acknowledged saves survive kills, key replacements and starts with, without
\* and with only the current key, while processes follow one another.
THEOREM AckedSavesAlwaysSurvive == Spec => []AckedSavesSurvive
<1>1. SealInv => AckedSavesSurvive BY DEF SealInv
<1>. QED BY <1>1, SealInvHolds, PTL

\* A process with the retired keys is not refused (PluginKeys::store_state).
THEOREM DeliveredKeysAlwaysServe == Spec => []DeliveredKeysServe
<1>1. SealInv => DeliveredKeysServe
  <2> SUFFICES ASSUME SealInv, NEW p \in Procs, proc[p].pc # "down",
                      proc[p].seal = "unhealthy", proc[p].key # None,
                      proc[p].old # {}, ~overlapped
               PROVE  FALSE
    BY DEF DeliveredKeysServe
  <2>1. proc[p].seen \in Held(p) \cup {None}
    BY DEF SealInv, ProcInv, KnowsAlone
  <2>2. proc[p].seen \notin Held(p) \cup {None} BY DEF SealInv, ProcInv, Decided
  <2>. QED BY <2>1, <2>2
<1>. QED BY <1>1, SealInvHolds, PTL

\* Only Replace changes checks.json.
LEMMA OnlyReplaceWrites ==
  ASSUME [Next]_vars, state' # state
  PROVE  \E p \in Procs : Replace(p)
BY DEF Next, vars, Rotate, Start, ReadRecord, ReadState, WriteRecord, Settle, BeginRun,
  WriteEvidence, SealCopy, RemoveEvidence, Save, Check, SealReplace, Kill, Disk

\* "Never write plaintext over it" (Store::persist_state): what replaces a sealed
\* state can open it, but for a process another one overlapped.
THEOREM UnreadableAlwaysKept == Spec => UnreadableKept
<1>1. SealInv /\ [Next]_vars =>
        [state.form \in Keys /\ state' # state =>
           \E p \in Procs :
             /\ proc[p].pc = "replace"
             /\ \/ state.form \in Held(p)
                \/ overlapped /\ (proc[p].seal = "sealing" \/ OpenedUnsealed(p))]_vars
  <2> SUFFICES ASSUME SealInv, [Next]_vars, state.form \in Keys, state' # state
               PROVE  \E p \in Procs :
                        /\ proc[p].pc = "replace"
                        /\ \/ state.form \in Held(p)
                           \/ overlapped /\ (proc[p].seal = "sealing" \/ OpenedUnsealed(p))
    OBVIOUS
  <2>1. PICK p \in Procs : Replace(p) BY OnlyReplaceWrites
  <2>2. proc[p].pc = "replace" BY <2>1 DEF Replace
  <2>3. ProcInv(p) /\ proc[p] \in Process BY DEF SealInv, TypeOK
  <2>4. proc[p].seal \in {"sealing", "compat"} BY <2>2, <2>3 DEF ProcInv, UnderWay, Process
  <2>5. proc[p].seal = "compat" => proc[p].seen = None
    BY <2>2, <2>3 DEF ProcInv, Decided, Opened
  <2>6. ~overlapped => state.form \in Held(p)
    BY <2>2, <2>3, <2>4 DEF ProcInv, KnowsAlone, Opened
  <2>. QED BY <2>2, <2>4, <2>5, <2>6 DEF OpenedUnsealed
<1>. QED BY <1>1, SealInvHolds, PTL DEF Spec, UnreadableKept

\* Only WriteEvidence adds plaintext evidence: what is sealed in place is sealed.
LEMMA OnlyWritingAddsPlaintext ==
  ASSUME SealInv, [Next]_vars, NEW e \in Evid, evid[e] = "absent", evid'[e] = "plain"
  PROVE  \E p \in Procs : WriteEvidence(p, e)
<1>1. evid' # evid OBVIOUS
<1>2. CASE \E p \in Procs, f \in Evid : WriteEvidence(p, f)
  BY <1>2 DEF SealInv, TypeOK, WriteEvidence
<1>3. CASE \E p \in Procs, E \in SUBSET Evid : RemoveEvidence(p, E)
  BY <1>3 DEF RemoveEvidence
<1>4. CASE \E p \in Procs : SealReplace(p)
  <2>1. PICK p \in Procs : SealReplace(p) BY <1>4
  <2>2. proc[p].copy # None /\ evid' = [evid EXCEPT ![proc[p].copy] = proc[p].key]
    BY <2>1 DEF SealReplace
  <2>3. proc[p].key \in Keys
    BY <2>2 DEF SealInv, TypeOK, Process, ProcInv, Decided, UnderWay
  <2>. QED BY <2>2, <2>3, KeyAssumption DEF SealInv, TypeOK
<1>. QED
  BY <1>1, <1>2, <1>3, <1>4
  DEF Next, vars, Rotate, Start, ReadRecord, ReadState, WriteRecord, Settle, BeginRun,
    SealCopy, Save, Check, Replace, Kill, Disk

\* Evidence written in plaintext after sealing is recorded is written by a process
\* that opened the directory before (evidence.rs write_private).
THEOREM LatePlaintextAlwaysOpenedBefore == Spec => LatePlaintextIsOpenedBefore
<1>1. SealInv /\ [Next]_vars =>
        [record # None =>
           \A e \in Evid : evid[e] = "absent" /\ evid'[e] = "plain" =>
             \E p \in Procs : proc[p].pc = "run" /\ OpenedUnsealed(p) /\ overlapped]_vars
  <2> SUFFICES ASSUME SealInv, [Next]_vars, record # None, NEW e \in Evid,
                      evid[e] = "absent", evid'[e] = "plain"
               PROVE  \E p \in Procs : proc[p].pc = "run" /\ OpenedUnsealed(p) /\ overlapped
    OBVIOUS
  <2>1. PICK p \in Procs : WriteEvidence(p, e) BY OnlyWritingAddsPlaintext
  <2>2. /\ proc[p].pc = "run" /\ proc[p].seal # "unhealthy"
        /\ evid' = [evid EXCEPT ![e] = IF proc[p].seal = "sealing" THEN proc[p].key ELSE "plain"]
    BY <2>1 DEF WriteEvidence
  <2>3. ProcInv(p) /\ proc[p] \in Process BY DEF SealInv, TypeOK
  <2>4. proc[p].seal = "sealing" => proc[p].key \in Keys
    BY <2>2, <2>3 DEF ProcInv, Decided, Process
  <2>5. proc[p].seal = "compat"
    BY <2>2, <2>3, <2>4, KeyAssumption DEF SealInv, TypeOK, Process
  <2>6. proc[p].seen = None BY <2>2, <2>3, <2>5 DEF ProcInv, Decided, Opened
  <2>7. overlapped BY <2>2, <2>3, <2>5, <2>6 DEF ProcInv, KnowsAlone
  <2>. QED BY <2>2, <2>5, <2>6, <2>7 DEF OpenedUnsealed
<1>. QED BY <1>1, SealInvHolds, PTL DEF Spec, LatePlaintextIsOpenedBefore
=============================================================================
