----------------------------- MODULE ChecksStore -----------------------------
(***************************************************************************)
(* One process serving one Checks data directory: the store in memory      *)
(* behind its write lock, `checks.json`, the evidence directory, and the   *)
(* asynchronous requests (project, list and single-test runs, explorations,*)
(* list creation) that read the store, await, and come back to it.         *)
(*                                                                         *)
(* A write that cannot be persisted returns an error but leaves the change *)
(* in memory. The process may be killed between any two steps.             *)
(***************************************************************************)
EXTENDS StoreState

CONSTANTS
  Workers,       \* requests in flight at once
  Captures,      \* what the browser lane may retain for a test, as file kinds
  Verdicts,      \* results a test may have
  MaxFaults,     \* bound: failed writes of checks.json
  MaxCrashes     \* bound: process kills

VARIABLES
  mem,           \* the state behind the RwLock
  disk,          \* what checks.json holds
  files,         \* the evidence files on disk
  old,           \* of those, the files older than the sweep's grace period
  flight,        \* per worker, where its request stands
  cleanup,       \* file removal a writer still has to do, the lock held
  minted,        \* ids handed out so far
  acked,         \* <<run, project>> of the runs whose save returned Ok, until the
                 \* deletion of the project is asked for
  faults, crashes

vars == <<mem, disk, files, old, flight, cleanup, minted, acked, faults, crashes>>

Ids == Projects \cup RunIds \cup Explorations \cup AgentRuns \cup Lists

ASSUME InputAssumption ==
  /\ Captures \subseteq {{}, {"png"}, Kinds}
  /\ Verdicts \subseteq {"passed", "open"}
  /\ MaxFaults \in Nat
  /\ MaxCrashes \in Nat

\* One project execution still to do: all its tests, or the named ones.
Job == [project: Projects, all: BOOLEAN, tests: SUBSET Tests]

Idle ==
  [pc |-> "idle", ctx |-> None, project |-> None, run |-> None,
   todo |-> {}, items |-> [t \in {} |-> None], jobs |-> {}, list |-> None, new |-> None]

NoCleanup == [held |-> FALSE, remove |-> {}, sweep |-> FALSE]
Unlocked == ~cleanup.held

Init ==
  /\ mem = EmptyStore
  /\ disk = EmptyStore
  /\ files = {}
  /\ old = {}
  /\ flight = [w \in Workers |-> Idle]
  /\ cleanup = NoCleanup
  /\ minted = {}
  /\ acked = {}
  /\ faults = 0
  /\ crashes = 0

-----------------------------------------------------------------------------
(* persist_state: memory already holds `st` when the file is replaced. *)

\* Mutant: what is written is the state before the change.
PersistStale(st, ok) ==
  /\ mem' = st
  /\ IF ok
     THEN disk' = mem /\ UNCHANGED faults
     ELSE /\ faults < MaxFaults
          /\ faults' = faults + 1
          /\ UNCHANGED disk

Persist(st, ok) ==
  /\ mem' = st
  /\ IF ok
     THEN disk' = st /\ UNCHANGED faults
     ELSE /\ faults < MaxFaults
          /\ faults' = faults + 1
          /\ UNCHANGED disk

Discard(F) == files' = files \ F /\ old' = old \ F

\* The files of a run that no store record owns yet.
FilesOfRun(r) == {f \in files : f[1] = r}

Return(w) == flight' = [flight EXCEPT ![w] = Idle]

-----------------------------------------------------------------------------
(* Operations that hold the lock once. *)

\* Mutant: the id of a deleted project may be given again.
CreateProjectAgain(p, ok) ==
  /\ Unlocked
  /\ p \in Projects \ DOMAIN mem.projects
  /\ minted' = minted \cup {p}
  /\ Persist(AddProject(mem, p), ok)
  /\ UNCHANGED <<files, old, flight, cleanup, acked, crashes>>

CreateProject(p, ok) ==
  /\ Unlocked
  /\ p \in Projects \ minted
  /\ minted' = minted \cup {p}
  /\ Persist(AddProject(mem, p), ok)
  /\ UNCHANGED <<files, old, flight, cleanup, acked, crashes>>

\* Files go only after the state that does not name them is on disk.
DeleteProject(p, ok) ==
  /\ Unlocked
  /\ p \in DOMAIN mem.projects
  /\ Persist(DropProject(mem, p), ok)
  /\ cleanup' = IF ok
                THEN [held |-> TRUE, sweep |-> FALSE,
                      remove |-> {f \in files : /\ f[1] \in RunsOf(mem, p)
                                               /\ <<f[1], f[2]>> \in EvidenceOf(mem)}]
                ELSE NoCleanup
  /\ acked' = {a \in acked : a[2] # p}
  /\ UNCHANGED <<files, old, flight, minted, crashes>>

SaveAgentRun(a, p, ok) ==
  /\ Unlocked
  /\ a \in AgentRuns \ minted
  /\ p \in DOMAIN mem.projects
  /\ minted' = minted \cup {a}
  /\ Persist(AddAgentRun(mem, a, p), ok)
  /\ UNCHANGED <<files, old, flight, cleanup, acked, crashes>>

\* A bundle already healed in memory returns early and writes nothing.
Heal(r, t, ok) ==
  /\ Unlocked
  /\ r \in DOMAIN mem.runs
  /\ t \in DOMAIN mem.runs[r].items
  /\ mem.runs[r].items[t].outcome = "open"
  /\ Persist(HealFailure(mem, r, t), ok)
  /\ UNCHANGED <<files, old, flight, cleanup, minted, acked, crashes>>

\* The ids must be the caller's; the edit then drops those that are gone.
UpdateList(l, P, requested, T, ok) ==
  /\ Unlocked
  /\ l \in DOMAIN mem.lists
  /\ P \subseteq ProjectsOfTenant(mem, mem.lists[l].tenant)
  /\ T \subseteq TestsOfTenant(mem, mem.lists[l].tenant)
  /\ Persist(EditList(mem, l, P, requested, T), ok)
  /\ UNCHANGED <<files, old, flight, cleanup, minted, acked, crashes>>

-----------------------------------------------------------------------------
(* Creating a list: a snapshot, then the lock. *)

CreateListSnapshot(w, c, l) ==
  /\ Unlocked
  /\ flight[w].pc = "idle"
  /\ l \in Lists \ minted
  /\ minted' = minted \cup {l}
  /\ flight' = [flight EXCEPT ![w] =
        [Idle EXCEPT !.pc = "insertList", !.ctx = c, !.list = l,
                     !.new = ListOfAll(mem, c)]]
  /\ UNCHANGED <<mem, disk, files, old, cleanup, acked, faults, crashes>>

CreateListInsert(w, ok) ==
  /\ Unlocked
  /\ flight[w].pc = "insertList"
  /\ Persist([mem EXCEPT !.lists = Put(mem.lists, flight[w].list, flight[w].new)], ok)
  /\ Return(w)
  /\ UNCHANGED <<files, old, cleanup, minted, acked, crashes>>

-----------------------------------------------------------------------------
(* Starting executions. *)

StartExplore(w, p) ==
  /\ Unlocked
  /\ flight[w].pc = "idle"
  /\ p \in DOMAIN mem.projects
  /\ flight' = [flight EXCEPT ![w] =
        [Idle EXCEPT !.pc = "explore", !.ctx = TenantOf[p], !.project = p]]
  /\ UNCHANGED <<mem, disk, files, old, cleanup, minted, acked, faults, crashes>>

Begin(w, c, jobs) ==
  flight' = [flight EXCEPT ![w] = [Idle EXCEPT !.pc = "next", !.ctx = c, !.jobs = jobs]]

WholeProject(p) == [project |-> p, all |-> TRUE, tests |-> {}]

StartProjectRun(w, p) ==
  /\ Unlocked
  /\ flight[w].pc = "idle"
  /\ p \in DOMAIN mem.projects
  /\ Begin(w, TenantOf[p], {WholeProject(p)})
  /\ UNCHANGED <<mem, disk, files, old, cleanup, minted, acked, faults, crashes>>

\* run_list_for reads one snapshot: named tests grouped by project, else the
\* named projects, else every project of the tenant.
ListJobs(st, c, l) ==
  LET list == st.lists[l]
      live == list.tests \cap TestsOfTenant(st, c)
  IN CASE list.tests # {} ->
            {[project |-> p, all |-> FALSE, tests |-> live \cap TestsOf(p)] :
               p \in {ProjectOf[t] : t \in live}}
       [] list.tests = {} /\ list.projects # {} -> {WholeProject(p) : p \in list.projects}
       [] OTHER -> {WholeProject(p) : p \in ProjectsOfTenant(st, c)}

StartListRun(w, l) ==
  /\ Unlocked
  /\ flight[w].pc = "idle"
  /\ l \in DOMAIN mem.lists
  /\ Begin(w, mem.lists[l].tenant, ListJobs(mem, mem.lists[l].tenant, l))
  /\ UNCHANGED <<mem, disk, files, old, cleanup, minted, acked, faults, crashes>>

\* run_test_for: one test, no exploration.
StartTestRun(w, t, r) ==
  /\ Unlocked
  /\ flight[w].pc = "idle"
  /\ t \in DOMAIN mem.tests
  /\ r \in RunIds \ minted
  /\ minted' = minted \cup {r}
  /\ flight' = [flight EXCEPT ![w] =
        [Idle EXCEPT !.pc = "capture", !.ctx = TenantOf[ProjectOf[t]],
                     !.project = ProjectOf[t], !.run = r, !.todo = {t}]]
  /\ UNCHANGED <<mem, disk, files, old, cleanup, acked, faults, crashes>>

-----------------------------------------------------------------------------
(* run_project_with_tests_for. *)

\* The next project of the request; a project that is gone fails the whole
\* request, whatever jobs remain.
NextJob(w, r) ==
  /\ Unlocked
  /\ flight[w].pc = "next"
  /\ \E job \in flight[w].jobs :
       LET p == job.project
           live == p \in ProjectsOfTenant(mem, flight[w].ctx)
       IN IF live
          THEN /\ r \in RunIds \ minted
               /\ minted' = minted \cup {r}
               /\ flight' = [flight EXCEPT ![w] =
                    [flight[w] EXCEPT
                       !.pc = "runExplore", !.project = p, !.run = r,
                       !.todo = IF job.all THEN TestsOf(p) ELSE job.tests,
                       !.items = Idle.items, !.jobs = flight[w].jobs \ {job}]]
          ELSE Return(w) /\ UNCHANGED minted
  /\ UNCHANGED <<mem, disk, files, old, cleanup, acked, faults, crashes>>

ListRunDone(w) ==
  /\ flight[w].pc = "next"
  /\ flight[w].jobs = {}
  /\ Return(w)
  /\ UNCHANGED <<mem, disk, files, old, cleanup, minted, acked, faults, crashes>>

\* A failed exploration is ignored by a run and is the answer of an explore
\* request.
ExploreFails(w) ==
  /\ flight[w].pc \in {"explore", "runExplore"}
  /\ IF flight[w].pc = "explore"
     THEN Return(w)
     ELSE flight' = [flight EXCEPT ![w].pc = "capture"]
  /\ UNCHANGED <<mem, disk, files, old, cleanup, minted, acked, faults, crashes>>

\* save_exploration_for; its error ends the request before any test ran.
ExploreSucceeds(w, e, ok) ==
  /\ Unlocked
  /\ flight[w].pc \in {"explore", "runExplore"}
  /\ e \in Explorations \ minted
  /\ minted' = minted \cup {e}
  /\ IF flight[w].project \in DOMAIN mem.projects
     THEN /\ Persist(AddExploration(mem, e, flight[w].project), ok)
          /\ IF ok /\ flight[w].pc = "runExplore"
             THEN flight' = [flight EXCEPT ![w].pc = "capture"]
             ELSE Return(w)
     ELSE Return(w) /\ UNCHANGED <<mem, disk, faults>>
  /\ UNCHANGED <<files, old, cleanup, acked, crashes>>

\* One test: fetched, perhaps captured by the browser and written. A failed
\* write removes both files and the record claims neither (kinds = {}).
CaptureTest(w, t, kinds, outcome) ==
  /\ flight[w].pc = "capture"
  /\ t \in flight[w].todo
  /\ files' = files \cup ({flight[w].run} \X {t} \X kinds)
  /\ flight' = [flight EXCEPT ![w] =
        [flight[w] EXCEPT
           !.todo = flight[w].todo \ {t},
           !.items = Put(flight[w].items, t, [kinds |-> kinds, outcome |-> outcome])]]
  /\ UNCHANGED <<mem, disk, old, cleanup, minted, acked, faults, crashes>>

\* An unreachable target, or the request's future dropped at an await: the
\* PendingEvidence guard removes what the run wrote.
AbortRun(w) ==
  /\ flight[w].pc \in {"runExplore", "capture"}
  /\ flight[w].pc = "capture" => flight[w].todo # {}
  /\ Discard(FilesOfRun(flight[w].run))
  /\ Return(w)
  /\ UNCHANGED <<mem, disk, cleanup, minted, acked, faults, crashes>>

\* After a successful save a list request goes on with its other projects.
Continue(w) == flight' = [flight EXCEPT ![w] = [flight[w] EXCEPT !.pc = "next", !.run = None]]

\* save_run_for and save_run: prune, persist, then (still under the lock)
\* remove the pruned files and sweep.
SaveRun(w, ok) ==
  /\ Unlocked
  /\ flight[w].pc = "capture"
  /\ flight[w].todo = {}
  /\ LET r == flight[w].run
         p == flight[w].project
         inserted == InsertRun(mem, r, p, flight[w].items)
         pruned == Pruned(inserted, files)
     IN IF p \in DOMAIN mem.projects
        THEN /\ Persist(ClearFlags(inserted, pruned), ok)
             /\ IF ok
                THEN /\ cleanup' = [held |-> TRUE, sweep |-> TRUE,
                           remove |-> {f \in files : <<f[1], f[2]>> \in pruned}]
                     /\ acked' = acked \cup {<<r, p>>}
                     /\ Continue(w)
                ELSE Return(w) /\ UNCHANGED <<cleanup, acked>>
             /\ UNCHANGED <<files, old>>
        ELSE /\ Discard(FilesOfRun(r))
             /\ Return(w)
             /\ UNCHANGED <<mem, disk, cleanup, acked, faults>>
  /\ UNCHANGED <<minted, crashes>>

\* Mutant: the sweep has no grace period.
SweepableAtOnce == {f \in files : <<f[1], f[2]>> \notin EvidenceOf(mem)}

\* sweep_unreferenced: past the grace period and owned by no stored run.
Sweepable == {f \in old : <<f[1], f[2]>> \notin EvidenceOf(mem)}

\* Mutant: pruned files are left to the sweep.
ToRemoveSweepOnly == IF cleanup.sweep THEN Sweepable ELSE {}

ToRemove == cleanup.remove \cup IF cleanup.sweep THEN Sweepable ELSE {}

FinishCleanup ==
  /\ cleanup.held
  /\ Discard(ToRemove)
  /\ cleanup' = NoCleanup
  /\ UNCHANGED <<mem, disk, flight, minted, acked, faults, crashes>>

-----------------------------------------------------------------------------
(* Environment. *)

InFlightFiles == {f \in files : \E w \in Workers : flight[w].pc = "capture" /\ f[1] = flight[w].run}

\* A day passes. A run finishes within the grace period of its files.
Age ==
  /\ old # files \ InFlightFiles
  /\ old' = files \ InFlightFiles
  /\ UNCHANGED <<mem, disk, files, flight, cleanup, minted, acked, faults, crashes>>

\* Killed, perhaps part way through removing files; Store::open reads back
\* what checks.json holds. No guard runs.
CrashAndReopen ==
  /\ crashes < MaxCrashes
  /\ crashes' = crashes + 1
  /\ \E F \in SUBSET ToRemove : Discard(F)
  /\ mem' = disk
  /\ flight' = [w \in Workers |-> Idle]
  /\ cleanup' = NoCleanup
  /\ UNCHANGED <<disk, minted, acked, faults>>

WorkerNext(w) ==
  \/ \E c \in Tenants, l \in Lists : CreateListSnapshot(w, c, l)
  \/ \E ok \in BOOLEAN : CreateListInsert(w, ok)
  \/ \E p \in Projects : StartExplore(w, p) \/ StartProjectRun(w, p)
  \/ \E l \in Lists : StartListRun(w, l)
  \/ \E t \in Tests, r \in RunIds : StartTestRun(w, t, r)
  \/ \E r \in RunIds : NextJob(w, r)
  \/ ListRunDone(w)
  \/ ExploreFails(w)
  \/ \E e \in Explorations, ok \in BOOLEAN : ExploreSucceeds(w, e, ok)
  \/ \E t \in Tests, kinds \in Captures, outcome \in Verdicts :
       CaptureTest(w, t, kinds, outcome)
  \/ AbortRun(w)
  \/ \E ok \in BOOLEAN : SaveRun(w, ok)

Next ==
  \/ \E p \in Projects, ok \in BOOLEAN : CreateProject(p, ok) \/ DeleteProject(p, ok)
  \/ \E a \in AgentRuns, p \in Projects, ok \in BOOLEAN : SaveAgentRun(a, p, ok)
  \/ \E r \in RunIds, t \in Tests, ok \in BOOLEAN : Heal(r, t, ok)
  \/ \E l \in Lists, P \in SUBSET Projects, T \in SUBSET Tests, requested, ok \in BOOLEAN :
       UpdateList(l, P, requested, T, ok)
  \/ \E w \in Workers : WorkerNext(w)
  \/ FinishCleanup
  \/ Age
  \/ CrashAndReopen

Spec == Init /\ [][Next]_vars

-----------------------------------------------------------------------------
(* Properties. *)

Flight ==
  [pc: {"idle", "insertList", "explore", "next", "runExplore", "capture"},
   ctx: Tenants \cup {None}, project: Projects \cup {None}, run: RunIds \cup {None},
   todo: SUBSET Tests, items: Items,
   jobs: SUBSET Job, list: Lists \cup {None},
   new: List \cup {None}]

\* The shape of every variable: the store's records, the directory, the lock
\* and the requests in flight.
TypeOK ==
  /\ IsStore(mem)
  /\ IsStore(disk)
  /\ files \subseteq Files
  /\ old \subseteq files
  /\ flight \in [Workers -> Flight]
  /\ cleanup \in [held: BOOLEAN, remove: SUBSET Files, sweep: BOOLEAN]
  /\ minted \subseteq Ids
  /\ acked \subseteq RunIds \X Projects
  /\ faults \in 0..MaxFaults
  /\ crashes \in 0..MaxCrashes

States == {mem, disk}

\* No record, in memory or in the checks.json a restart would load, says a
\* screenshot or DOM snapshot is available when its file is gone: pruning,
\* project deletion, the sweep, aborted runs, failed saves and kills included.
ClaimedFilesExist == Claims(mem) \subseteq files /\ Claims(disk) \subseteq files

\* After any save the records claim no more than the retention limits allow:
\* only the newest MaxRuns runs, and no more than MaxBytes in total.
ClaimsWithinLimits ==
  \A st \in States :
    /\ Cardinality(Claims(st)) <= MaxBytes
    /\ \A e \in EvidenceOf(st) : HasFiles(st, e) => Cardinality(NewerRuns(st, e[1])) < MaxRuns

\* A file whose evidence record exists but no longer claims it: pruning never
\* looks at it again (no flag) and the sweep skips it (referenced).
Stranded(st) == {f \in files : <<f[1], f[2]>> \in EvidenceOf(st)} \ Claims(st)

\* Until a kill or a failed write, only the removal a writer is about to do
\* separates the evidence directory from what the records claim.
NothingStranded == faults = 0 /\ crashes = 0 => Stranded(mem) \subseteq cleanup.remove

\* A run, exploration or agent run never outlives its project, however a
\* deletion interleaves with the saves of requests in flight; the latest-run
\* and latest-exploration links resolve to records of the same project.
RecordsHaveProjects ==
  \A st \in States :
    LET live == DOMAIN st.projects
    IN /\ \A r \in DOMAIN st.runs :
            /\ st.runs[r].project \in live
            /\ \A t \in DOMAIN st.runs[r].items : ProjectOf[t] = st.runs[r].project
       /\ \A e \in DOMAIN st.explorations : st.explorations[e] \in live
       /\ \A a \in DOMAIN st.agentRuns : st.agentRuns[a] \in live
       /\ DOMAIN st.tests = {t \in Tests : ProjectOf[t] \in live}
       /\ \A p \in live :
            /\ st.projects[p].latest # None => st.projects[p].latest \in RunsOf(st, p)
            /\ LET e == st.projects[p].exploration
               IN e # None => e \in DOMAIN st.explorations /\ st.explorations[e] = p

\* A test's status is backed by a stored run that executed it: "passed" by a
\* passing item, "attention" by one with an open bundle. Healing any bundle of
\* the test makes it idle again.
StatusWitnessed ==
  \A st \in States : \A t \in DOMAIN st.tests :
    LET test == st.tests[t]
        witness == IF test.status = "passed" THEN "passed" ELSE "open"
    IN IF test.status = "idle"
       THEN test.latest = None
       ELSE /\ test.latest \in DOMAIN st.runs
            /\ t \in DOMAIN st.runs[test.latest].items
            /\ st.runs[test.latest].items[t].outcome = witness

\* A run whose save returned Ok is still in checks.json, across kills, failed
\* writes and the saves of other requests, until its project is deleted.
AckedRunsSurvive == \A a \in acked : a[1] \in DOMAIN disk.runs

\* Lists hold only ids of their own tenant, and a request, list runs with
\* their later jobs included, works only on projects of its caller's tenant.
TenantsIsolated ==
  /\ \A st \in States : \A l \in DOMAIN st.lists :
       LET list == st.lists[l]
       IN /\ \A p \in list.projects : TenantOf[p] = list.tenant
          /\ \A t \in list.tests : TenantOf[ProjectOf[t]] = list.tenant
  /\ \A w \in Workers :
       /\ flight[w].project # None => TenantOf[flight[w].project] = flight[w].ctx
       /\ \A job \in flight[w].jobs : TenantOf[job.project] = flight[w].ctx

-----------------------------------------------------------------------------
(* Refinement. *)

\* Only a restart would bring back a project that checks.json still has.
Standing(p) ==
  CASE p \in DOMAIN disk.projects -> "live"
    [] p \notin DOMAIN disk.projects /\ p \in DOMAIN mem.projects -> "pending"
    [] p \notin DOMAIN disk.projects \cup DOMAIN mem.projects /\ p \in minted -> "dead"
    [] OTHER -> "unborn"

Recorded(run) ==
  [project |-> run.project, outcomes |-> [t \in DOMAIN run.items |-> run.items[t].outcome]]

Ledger ==
  INSTANCE RunLedger WITH
    status <- [p \in Projects |-> Standing(p)],
    ledger <- [r \in DOMAIN disk.runs |-> Recorded(disk.runs[r])]

\* checks.json is such a ledger through every operation, failed write and kill:
\* no deleted project or run comes back, no recorded run is lost or rewritten.
LedgerKept == Ledger!Spec
=============================================================================
