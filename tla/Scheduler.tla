------------------------------ MODULE Scheduler ------------------------------
(***************************************************************************)
(* Recurring test lists: the sidecar's schedule loop (main.rs), the check  *)
(* every recurring execution goes through (service.rs), and the requests   *)
(* that create, enable, pause, delete and run schedules meanwhile.         *)
(*                                                                         *)
(* The loop works on a snapshot of the due schedules, one after another,   *)
(* awaiting Core's authorization and a whole list run in between. A change *)
(* that cannot be persisted stays in memory. What a list run does to the   *)
(* store is modelled in ChecksStore; here it only passes or fails.         *)
(***************************************************************************)
EXTENDS Naturals, FiniteSets

CONSTANTS
  Schedules,     \* schedule ids ever minted
  Workers,       \* API requests in flight at once
  Proofs,        \* execution proofs Core issues, each once
  None,          \* a schedule without a proof
  HasAuthority,  \* Core's authorization endpoint is configured
  LocalOwner,    \* the tenant is this node's own user, not a managed one
  MaxFaults,     \* bound: failed writes of checks.json
  MaxCrashes     \* bound: sidecar kills

ASSUME SchedulerAssumption ==
  /\ None \notin Proofs \cup Schedules
  /\ HasAuthority \in BOOLEAN /\ LocalOwner \in BOOLEAN
  /\ MaxFaults \in Nat /\ MaxCrashes \in Nat

VARIABLES
  mem,           \* the schedules behind the RwLock
  disk,          \* the schedules checks.json holds
  loop,          \* where the schedule loop stands
  flight,        \* API requests between two steps
  minted,        \* schedule ids and proofs handed out
  revoked,       \* proofs Core no longer allows
  quiet,         \* schedules whose pause was acknowledged, not enabled since
  gone,          \* schedules whose deletion was acknowledged
  ran,           \* loop runs of a schedule since it became due
  faults, crashes

vars == <<mem, disk, loop, flight, minted, revoked, quiet, gone, ran, faults, crashes>>
History == <<quiet, gone, ran>>

\* `due`: next_run_at has passed.
Schedule == [active: BOOLEAN, due: BOOLEAN, proof: Proofs \cup {None}]

Put(f, x, v) == [y \in DOMAIN f \cup {x} |-> IF y = x THEN v ELSE f[y]]
Without(f, x) == [y \in DOMAIN f \ {x} |-> f[y]]

\* `batch`: the due schedules still to be executed, as they were snapshotted;
\* `item`, `proof`: the one in hand; `before`: the proofs already revoked when
\* it was taken in hand.
NoBatch == [s \in {} |-> None]
IdleLoop == [pc |-> "sleep", batch |-> NoBatch, item |-> None, proof |-> None, before |-> {}]
Returned == [pc |-> "idle", item |-> None, proof |-> None]

\* Schedules kept from an earlier version carry no proof.
Init ==
  /\ \E legacy \in SUBSET Schedules :
       /\ mem = [s \in legacy |-> [active |-> TRUE, due |-> FALSE, proof |-> None]]
       /\ minted = legacy
       /\ ran = [s \in Schedules |-> 0]
  /\ disk = mem
  /\ loop = IdleLoop
  /\ flight = [w \in Workers |-> Returned]
  /\ revoked = {}
  /\ quiet = {}
  /\ gone = {}
  /\ faults = 0
  /\ crashes = 0

\* persist_state.
Persist(schedules, ok) ==
  /\ mem' = schedules
  /\ IF ok
     THEN disk' = schedules /\ UNCHANGED faults
     ELSE faults < MaxFaults /\ faults' = faults + 1 /\ UNCHANGED disk

Move(w, x) == flight' = [flight EXCEPT ![w] = x]

-----------------------------------------------------------------------------
(* schedule_loop. *)

LoopStep(x) == loop' = x

\* The 15-second ticker fires: due_schedules.
Tick ==
  /\ loop.pc = "sleep"
  /\ LET due == {s \in DOMAIN mem : mem[s].active /\ mem[s].due}
     IN LoopStep([IdleLoop EXCEPT !.pc = "next", !.batch = [s \in due |-> mem[s]]])
  /\ UNCHANGED <<mem, disk, flight, minted, revoked, History, faults, crashes>>

BatchDone ==
  /\ loop.pc = "next"
  /\ DOMAIN loop.batch = {}
  /\ LoopStep(IdleLoop)
  /\ UNCHANGED <<mem, disk, flight, minted, revoked, History, faults, crashes>>

\* Where an execution goes before its targets are looked up.
FirstStep(proof) ==
  CASE proof # None /\ HasAuthority -> "check"
    [] proof = None /\ LocalOwner -> "recheck"
    [] OTHER -> "record"

TakeItem(s) ==
  /\ loop.pc = "next"
  /\ s \in DOMAIN loop.batch
  /\ LoopStep([pc |-> FirstStep(loop.batch[s].proof), batch |-> Without(loop.batch, s),
               item |-> s, proof |-> loop.batch[s].proof, before |-> revoked])
  /\ UNCHANGED <<mem, disk, flight, minted, revoked, History, faults, crashes>>

\* Mutant: a permission that cannot be checked is taken as granted.
CheckProofFailsOpen(reached) ==
  /\ loop.pc = "check"
  /\ LoopStep([loop EXCEPT
       !.pc = IF ~reached \/ loop.proof \notin revoked THEN "recheck" ELSE "record"])
  /\ UNCHANGED <<mem, disk, flight, minted, revoked, History, faults, crashes>>

\* Mutant: a denied execution is skipped, not recorded.
CheckProofDropsDenied(reached) ==
  /\ loop.pc = "check"
  /\ LoopStep([loop EXCEPT
       !.pc = IF reached /\ loop.proof \notin revoked THEN "recheck" ELSE "next"])
  /\ UNCHANGED <<mem, disk, flight, minted, revoked, History, faults, crashes>>

\* AuthorizationClient::check. Core denies a revoked proof; it may also be
\* unreachable or too slow.
CheckProof(reached) ==
  /\ loop.pc = "check"
  /\ LoopStep([loop EXCEPT
       !.pc = IF reached /\ loop.proof \notin revoked THEN "recheck" ELSE "record"])
  /\ UNCHANGED <<mem, disk, flight, minted, revoked, History, faults, crashes>>

\* Mutant: the snapshot the batch was made from is trusted.
RecheckTrustsBatch ==
  /\ loop.pc = "recheck"
  /\ LoopStep([loop EXCEPT !.pc = "running"])
  /\ ran' = [ran EXCEPT ![loop.item] = ran[loop.item] + 1]
  /\ UNCHANGED <<mem, disk, flight, minted, revoked, quiet, gone, faults, crashes>>

\* The store is read again after the await: still there, active, same proof.
Recheck ==
  /\ loop.pc = "recheck"
  /\ LET s == loop.item
         unchanged == s \in DOMAIN mem /\ mem[s].active /\ mem[s].proof = loop.proof
     IN /\ LoopStep([loop EXCEPT !.pc = IF unchanged THEN "running" ELSE "record"])
        /\ ran' = IF unchanged THEN [ran EXCEPT ![s] = ran[s] + 1] ELSE ran
  /\ UNCHANGED <<mem, disk, flight, minted, revoked, quiet, gone, faults, crashes>>

\* run_list_for answers, with its runs or an error.
RunEnds ==
  /\ loop.pc = "running"
  /\ LoopStep([loop EXCEPT !.pc = "record"])
  /\ UNCHANGED <<mem, disk, flight, minted, revoked, History, faults, crashes>>

\* Mutant: the snapshot, active when it was taken, is written back.
RecordedFromBatch(s) == [mem EXCEPT ![s].due = FALSE, ![s].active = TRUE]

\* record_schedule_run: the next run is set on the record as it is now.
Recorded(s) == [mem EXCEPT ![s].due = FALSE]

\* Mutant: a failed save leaves the schedule as it was.
RecordRunRollsBack(ok) ==
  /\ loop.pc = "record"
  /\ LoopStep([loop EXCEPT !.pc = "next", !.item = None, !.proof = None, !.before = {}])
  /\ IF loop.item \in DOMAIN mem /\ ok
     THEN Persist(Recorded(loop.item), ok)
     ELSE UNCHANGED <<mem, disk, faults>>
  /\ UNCHANGED <<flight, minted, revoked, History, crashes>>

\* Whatever the result was; an error of the save is only logged.
RecordRun(ok) ==
  /\ loop.pc = "record"
  /\ LoopStep([loop EXCEPT !.pc = "next", !.item = None, !.proof = None, !.before = {}])
  /\ IF loop.item \in DOMAIN mem
     THEN Persist(Recorded(loop.item), ok)
     ELSE UNCHANGED <<mem, disk, faults>>
  /\ UNCHANGED <<flight, minted, revoked, History, crashes>>

-----------------------------------------------------------------------------
(* API requests. *)

Enabling(s) == \E w \in Workers : flight[w].pc \in {"authorize", "activate"} /\ flight[w].item = s

\* authorization::issue answers with a proof, with none (local use), or denies.
Issued(proof) ==
  IF HasAuthority THEN proof \in Proofs \ minted ELSE LocalOwner /\ proof = None

Begin(w) == flight[w].pc = "idle"

\* The proof is issued first, then the schedule goes in.
CreateIssue(w, s, proof) ==
  /\ Begin(w)
  /\ s \in Schedules \ minted
  /\ Issued(proof)
  /\ minted' = minted \cup ({s, proof} \ {None})
  /\ Move(w, [pc |-> "insert", item |-> s, proof |-> proof])
  /\ UNCHANGED <<mem, disk, loop, revoked, History, faults, crashes>>

CreateInsert(w, ok) ==
  /\ flight[w].pc = "insert"
  /\ Persist(Put(mem, flight[w].item,
                 [active |-> TRUE, due |-> FALSE, proof |-> flight[w].proof]), ok)
  /\ Move(w, Returned)
  /\ UNCHANGED <<loop, minted, revoked, History, crashes>>

\* Enabling: a fresh proof, stored under one lock, the flag set under another.
EnableIssue(w, s, proof) ==
  /\ Begin(w)
  /\ s \in minted \cap Schedules
  /\ Issued(proof)
  /\ minted' = minted \cup ({proof} \ {None})
  /\ Move(w, [pc |-> IF proof = None THEN "activate" ELSE "authorize", item |-> s, proof |-> proof])
  /\ quiet' = quiet \ {s}
  /\ UNCHANGED <<mem, disk, loop, revoked, gone, ran, faults, crashes>>

\* authorize_schedule_for; its error ends the request.
EnableAuthorize(w, ok) ==
  /\ flight[w].pc = "authorize"
  /\ LET s == flight[w].item
     IN IF s \in DOMAIN mem
        THEN /\ Persist([mem EXCEPT ![s].proof = flight[w].proof], ok)
             /\ Move(w, IF ok THEN [flight[w] EXCEPT !.pc = "activate"] ELSE Returned)
        ELSE Move(w, Returned) /\ UNCHANGED <<mem, disk, faults>>
  /\ UNCHANGED <<loop, minted, revoked, History, crashes>>

\* set_schedule_active(true): the next run is one interval away.
EnableActivate(w, ok) ==
  /\ flight[w].pc = "activate"
  /\ LET s == flight[w].item
     IN IF s \in DOMAIN mem
        THEN Persist([mem EXCEPT ![s].active = TRUE, ![s].due = FALSE], ok)
        ELSE UNCHANGED <<mem, disk, faults>>
  /\ Move(w, Returned)
  /\ UNCHANGED <<loop, minted, revoked, History, crashes>>

\* set_schedule_active(false): the next run stays as it was.
Pause(s, ok) ==
  /\ s \in DOMAIN mem
  /\ Persist([mem EXCEPT ![s].active = FALSE], ok)
  /\ quiet' = IF ok /\ ~Enabling(s) THEN quiet \cup {s} ELSE quiet
  /\ UNCHANGED <<loop, flight, minted, revoked, gone, ran, crashes>>

Delete(s, ok) ==
  /\ s \in DOMAIN mem
  /\ Persist(Without(mem, s), ok)
  /\ gone' = IF ok THEN gone \cup {s} ELSE gone
  /\ UNCHANGED <<loop, flight, minted, revoked, quiet, ran, crashes>>

\* run_schedule: by hand, paused or not, with no execution proof.
ManualRun(w, s) ==
  /\ Begin(w)
  /\ s \in DOMAIN mem
  /\ Move(w, [pc |-> "manual", item |-> s, proof |-> None])
  /\ UNCHANGED <<mem, disk, loop, minted, revoked, History, faults, crashes>>

\* Its error, or the schedule being gone, is the answer and is not recorded.
ManualRunEnds(w, success, ok) ==
  /\ flight[w].pc = "manual"
  /\ IF success /\ flight[w].item \in DOMAIN mem
     THEN Persist(Recorded(flight[w].item), ok)
     ELSE UNCHANGED <<mem, disk, faults>>
  /\ Move(w, Returned)
  /\ UNCHANGED <<loop, minted, revoked, History, crashes>>

-----------------------------------------------------------------------------
(* Environment. *)

\* next_run_at passes; a paused schedule's does too.
BecomesDue(s) ==
  /\ s \in DOMAIN mem
  /\ ~mem[s].due
  /\ mem' = [mem EXCEPT ![s].due = TRUE]
  /\ disk' = [x \in DOMAIN disk |-> IF x = s THEN [disk[s] EXCEPT !.due = TRUE] ELSE disk[x]]
  /\ ran' = [ran EXCEPT ![s] = 0]
  /\ UNCHANGED <<loop, flight, minted, revoked, quiet, gone, faults, crashes>>

\* Core withdraws the run permission a proof stands for.
Revoke(proof) ==
  /\ proof \in minted \ revoked
  /\ revoked' = revoked \cup {proof}
  /\ UNCHANGED <<mem, disk, loop, flight, minted, History, faults, crashes>>

\* Killed and started again: requests and the batch are lost.
Restart ==
  /\ crashes < MaxCrashes
  /\ crashes' = crashes + 1
  /\ mem' = disk
  /\ loop' = IdleLoop
  /\ flight' = [w \in Workers |-> Returned]
  /\ ran' = [s \in Schedules |-> 0]
  /\ UNCHANGED <<disk, minted, revoked, quiet, gone, faults>>

LoopNext ==
  \/ Tick
  \/ BatchDone
  \/ \E s \in Schedules : TakeItem(s)
  \/ \E reached \in BOOLEAN : CheckProof(reached)
  \/ Recheck
  \/ RunEnds
  \/ \E ok \in BOOLEAN : RecordRun(ok)

RequestNext ==
  \/ \E w \in Workers, s \in Schedules, proof \in Proofs \cup {None} :
       CreateIssue(w, s, proof) \/ EnableIssue(w, s, proof)
  \/ \E w \in Workers, ok \in BOOLEAN :
       CreateInsert(w, ok) \/ EnableAuthorize(w, ok) \/ EnableActivate(w, ok)
  \/ \E s \in Schedules, ok \in BOOLEAN : Pause(s, ok) \/ Delete(s, ok)
  \/ \E w \in Workers, s \in Schedules : ManualRun(w, s)
  \/ \E w \in Workers, success, ok \in BOOLEAN : ManualRunEnds(w, success, ok)

Next ==
  \/ LoopNext
  \/ RequestNext
  \/ \E s \in Schedules : BecomesDue(s)
  \/ \E proof \in Proofs : Revoke(proof)
  \/ Restart

Spec == Init /\ [][Next]_vars

\* The ticker fires while the sidecar lives, and every await of the loop ends:
\* the authorization client, the target requests and the browser lane all have
\* timeouts. Nothing else is assumed: no request, no permission, no write.
FairSpec == Spec /\ WF_vars(LoopNext)

-----------------------------------------------------------------------------
(* Properties. *)

IsTable(f) == DOMAIN f \subseteq Schedules /\ f \in [DOMAIN f -> Schedule]

\* The shape of the store, the loop and the requests.
TypeOK ==
  /\ IsTable(mem) /\ IsTable(disk)
  /\ DOMAIN loop = {"pc", "batch", "item", "proof", "before"}
  /\ loop.pc \in {"sleep", "next", "check", "recheck", "running", "record"}
  /\ IsTable(loop.batch)
  /\ loop.item \in Schedules \cup {None} /\ loop.proof \in Proofs \cup {None}
  /\ loop.before \subseteq revoked
  /\ flight \in [Workers -> [pc: {"idle", "insert", "authorize", "activate", "manual"},
                             item: Schedules \cup {None}, proof: Proofs \cup {None}]]
  /\ minted \subseteq Schedules \cup Proofs
  /\ revoked \subseteq minted \cap Proofs
  /\ quiet \subseteq Schedules /\ gone \subseteq Schedules
  /\ ran \in [Schedules -> Nat]
  /\ faults \in 0..MaxFaults /\ crashes \in 0..MaxCrashes

\* An acknowledged pause or deletion sticks: neither the record of a run that
\* was already going, nor another request, nor a restart brings the schedule
\* back until somebody enables it again.
PausedAndDeletedStay ==
  \A schedules \in {mem, disk} :
    /\ \A s \in quiet \cap DOMAIN schedules : ~schedules[s].active
    /\ gone \cap DOMAIN schedules = {}

\* "Every recurring execution revalidates": none starts, off a batch that may
\* be minutes old, for a schedule paused or deleted before it got there.
NoRunAfterPause ==
  [][loop'.pc = "running" /\ loop.pc # "running" => loop'.item \notin quiet \cup gone]_vars

\* No execution goes on with a permission that Core had already withdrawn when
\* it was taken in hand, nor without one outside local use.
RunsAreAuthorized ==
  loop.pc = "running" =>
    IF loop.proof = None THEN LocalOwner ELSE loop.proof \notin loop.before

\* Between two kills, the loop executes a schedule at most once each time it
\* becomes due, whatever manual runs, failures and edits come between.
OncePerDueTime == TypeOK /\ \A s \in Schedules : ran[s] <= 1

\* A schedule due and active is executed or given up, then rescheduled: one
\* failing, denied or slow schedule never starves the others or itself.
Waiting(s) == s \in DOMAIN mem /\ mem[s].active /\ mem[s].due
DueIsServed == \A s \in Schedules : Waiting(s) ~> ~Waiting(s)
=============================================================================
