----------------------------- MODULE StoreState -----------------------------
(***************************************************************************)
(* The value `checks.json` holds (StoreState in model.rs) and the pure     *)
(* changes the Store's operations make to it under the write lock.         *)
(* Modules that drive these changes (one process, two processes sharing    *)
(* the directory) decide when each happens and what reaches the disk.      *)
(*                                                                         *)
(* A run has one evidence item per test it executed, so the pair           *)
(* <<run, test>> is the evidence id and <<run, test, kind>> is one file of *)
(* the evidence directory.                                                 *)
(***************************************************************************)
EXTENDS Naturals, FiniteSets

CONSTANTS
  Projects,      \* project ids ever minted (random, never reused)
  Tenants,       \* owner/organisation pairs
  TenantOf,      \* the tenant a project is created for
  Tests,         \* test ids, numbered in plan order
  ProjectOf,     \* the project a test is created with
  RunIds,
  Explorations,
  AgentRuns,
  Lists,
  None,          \* a missing id
  MaxRuns,       \* MAX_RETAINED_EVIDENCE_RUNS
  MaxBytes       \* MAX_RETAINED_EVIDENCE_BYTES, one unit per file

ASSUME IdAssumption ==
  /\ TenantOf \in [Projects -> Tenants]
  /\ Tests \subseteq Nat
  /\ ProjectOf \in [Tests -> Projects]
  /\ None \notin RunIds \cup Explorations \cup Lists \cup Projects

\* Ids name their kind ("project-...").
ASSUME KindAssumption ==
  Projects \cap (RunIds \cup Explorations \cup AgentRuns \cup Lists) = {}

ASSUME LimitAssumption == MaxRuns \in Nat \ {0} /\ MaxBytes \in Nat

Kinds == {"png", "dom"}
Files == RunIds \X Tests \X Kinds
Evidence == RunIds \X Tests

TestsOf(p) == {t \in Tests : ProjectOf[t] = p}

\* An evidence record: which files it says are available, and whether its test
\* passed, has an open failure bundle or a healed one.
Item == [kinds: SUBSET Kinds, outcome: {"passed", "open", "healed"}]
Items == UNION {[T -> Item] : T \in SUBSET Tests}

\* `at` orders runs as the runs vector does: its head is the run saved last.
Run == [project: Projects, at: Nat, items: Items]

\* A vector of records, as a partial function from their ids.
IsTable(f, D, V) == DOMAIN f \subseteq D /\ f \in [DOMAIN f -> V]

ProjectRow == [latest: RunIds \cup {None}, exploration: Explorations \cup {None}]
TestRow == [status: {"idle", "passed", "attention"}, latest: RunIds \cup {None}]
List == [tenant: Tenants, projects: SUBSET Projects, tests: SUBSET Tests]

IsStore(st) ==
  /\ DOMAIN st = {"projects", "tests", "runs", "explorations", "agentRuns", "lists", "saves"}
  /\ IsTable(st.projects, Projects, ProjectRow)
  /\ IsTable(st.tests, Tests, TestRow)
  /\ IsTable(st.runs, RunIds, Run)
  /\ IsTable(st.explorations, Explorations, Projects)
  /\ IsTable(st.agentRuns, AgentRuns, Projects)
  /\ IsTable(st.lists, Lists, List)
  /\ st.saves \in Nat

EmptyStore ==
  LET empty == [x \in {} |-> None]
  IN [projects |-> empty, tests |-> empty, runs |-> empty,
      explorations |-> empty, agentRuns |-> empty, lists |-> empty,
      saves |-> 0]

Put(f, x, v) == [y \in DOMAIN f \cup {x} |-> IF y = x THEN v ELSE f[y]]
Keep(f, S) == [y \in DOMAIN f \cap S |-> f[y]]

-----------------------------------------------------------------------------
(* What a state says about evidence files. *)

EvidenceOf(st) == {e \in Evidence : e[1] \in DOMAIN st.runs /\ e[2] \in DOMAIN st.runs[e[1]].items}

\* The files the records of `st` say are available.
Claims(st) ==
  {f \in Files : /\ <<f[1], f[2]>> \in EvidenceOf(st)
                 /\ f[3] \in st.runs[f[1]].items[f[2]].kinds}

HasFiles(st, e) == st.runs[e[1]].items[e[2]].kinds # {}

NewerRuns(st, r) == {q \in DOMAIN st.runs : st.runs[q].at > st.runs[r].at}

\* Walk order of over_budget: newest run first, plan order within a run.
Before(st, e, f) ==
  \/ st.runs[e[1]].at > st.runs[f[1]].at
  \/ e[1] = f[1] /\ e[2] < f[2]

RetainedBytes(files, E) == Cardinality({f \in files : <<f[1], f[2]>> \in E})

\* The ids the newest-first walk keeps: each that still fits beside the kept
\* ids before it. An id that does not fit is skipped and the walk goes on.
WithinBudget(st, files, E) ==
  CHOOSE K \in SUBSET E :
    \A e \in E :
      e \in K <=> RetainedBytes(files, {k \in K : Before(st, k, e)} \cup {e}) <= MaxBytes

\* Mutant: the run count admits one run too many.
PrunedOffByOne(st, files) ==
  LET claiming == {e \in EvidenceOf(st) : HasFiles(st, e)}
      retained == {e \in claiming : Cardinality(NewerRuns(st, e[1])) <= MaxRuns}
  IN claiming \ WithinBudget(st, files, retained)

\* prune_evidence: what loses its files, of the records that claim any.
Pruned(st, files) ==
  LET claiming == {e \in EvidenceOf(st) : HasFiles(st, e)}
      retained == {e \in claiming : Cardinality(NewerRuns(st, e[1])) < MaxRuns}
  IN claiming \ WithinBudget(st, files, retained)

\* Mutant: only the screenshot flag is cleared.
ClearScreenshotFlags(st, E) ==
  [st EXCEPT !.runs = [r \in DOMAIN st.runs |->
    [st.runs[r] EXCEPT !.items = [t \in DOMAIN st.runs[r].items |->
      IF <<r, t>> \in E
      THEN [st.runs[r].items[t] EXCEPT !.kinds = @ \ {"png"}]
      ELSE st.runs[r].items[t]]]]]

ClearFlags(st, E) ==
  [st EXCEPT !.runs = [r \in DOMAIN st.runs |->
    [st.runs[r] EXCEPT !.items = [t \in DOMAIN st.runs[r].items |->
      IF <<r, t>> \in E
      THEN [st.runs[r].items[t] EXCEPT !.kinds = {}]
      ELSE st.runs[r].items[t]]]]]

-----------------------------------------------------------------------------
(* Changes made under the write lock. *)

AddProject(st, p) ==
  [st EXCEPT !.projects = Put(st.projects, p, [latest |-> None, exploration |-> None]),
             !.tests = [t \in DOMAIN st.tests \cup TestsOf(p) |->
                IF t \in TestsOf(p) THEN [status |-> "idle", latest |-> None] ELSE st.tests[t]]]

RunsOf(st, p) == {r \in DOMAIN st.runs : st.runs[r].project = p}

\* Mutant: agent run records are forgotten.
DropProjectKeepsAgentRuns(st, p) ==
  [st EXCEPT
    !.projects = Keep(st.projects, Projects \ {p}),
    !.tests = Keep(st.tests, Tests \ TestsOf(p)),
    !.runs = Keep(st.runs, RunIds \ RunsOf(st, p)),
    !.explorations = Keep(st.explorations, {e \in DOMAIN st.explorations : st.explorations[e] # p})]

\* Only the caller's own lists lose the project; nothing edits their test ids.
DropProject(st, p) ==
  [st EXCEPT
    !.projects = Keep(st.projects, Projects \ {p}),
    !.tests = Keep(st.tests, Tests \ TestsOf(p)),
    !.runs = Keep(st.runs, RunIds \ RunsOf(st, p)),
    !.explorations = Keep(st.explorations, {e \in DOMAIN st.explorations : st.explorations[e] # p}),
    !.agentRuns = Keep(st.agentRuns, {a \in DOMAIN st.agentRuns : st.agentRuns[a] # p}),
    !.lists = [l \in DOMAIN st.lists |->
      IF st.lists[l].tenant = TenantOf[p]
      THEN [st.lists[l] EXCEPT !.projects = st.lists[l].projects \ {p}]
      ELSE st.lists[l]]]

\* Mutant: the project's link takes the wrong id.
AddExplorationMislinked(st, e, p) ==
  [st EXCEPT !.explorations = Put(st.explorations, e, p),
             !.projects[p].exploration = p]

AddExploration(st, e, p) ==
  [st EXCEPT !.explorations = Put(st.explorations, e, p),
             !.projects[p].exploration = e]

AddAgentRun(st, a, p) == [st EXCEPT !.agentRuns = Put(st.agentRuns, a, p)]

\* The part of save_run before pruning: project and test fields, then the
\* record at the head of the vector.
InsertRun(st, r, p, items) ==
  [st EXCEPT
    !.projects[p].latest = r,
    !.tests = [t \in DOMAIN st.tests |->
      IF t \in TestsOf(p) \cap DOMAIN items
      THEN [status |-> IF items[t].outcome = "passed" THEN "passed" ELSE "attention", latest |-> r]
      ELSE st.tests[t]],
    !.runs = Put(st.runs, r, [project |-> p, at |-> st.saves, items |-> items]),
    !.saves = st.saves + 1]

\* Mutant: the test keeps pointing at the failure that was healed.
HealFailureKeepsStatus(st, r, t) == [st EXCEPT !.runs[r].items[t].outcome = "healed"]

\* Mutant: the healed failure is rewritten as a pass.
HealFailureRewrites(st, r, t) ==
  [st EXCEPT !.runs[r].items[t].outcome = "passed",
             !.tests = [u \in DOMAIN st.tests |->
                IF u = t THEN [status |-> "idle", latest |-> None] ELSE st.tests[u]]]

\* heal_failure: the bundle is healed and its test, if it still exists, must
\* be run again, whichever run is its latest.
HealFailure(st, r, t) ==
  [st EXCEPT !.runs[r].items[t].outcome = "healed",
             !.tests = [u \in DOMAIN st.tests |->
                IF u = t THEN [status |-> "idle", latest |-> None] ELSE st.tests[u]]]

\* The lists, and the two id sets, a caller of tenant c can see.
ProjectsOfTenant(st, c) == {p \in DOMAIN st.projects : TenantOf[p] = c}
TestsOfTenant(st, c) == {t \in DOMAIN st.tests : TenantOf[ProjectOf[t]] = c}

\* Mutant: the snapshot is not scoped to the caller.
ListOfEveryone(st, c) == [tenant |-> c, projects |-> DOMAIN st.projects, tests |-> DOMAIN st.tests]

\* create_list_for adds everything the caller saw in its earlier snapshot.
ListOfAll(st, c) ==
  [tenant |-> c, projects |-> ProjectsOfTenant(st, c), tests |-> TestsOfTenant(st, c)]

\* update_list: unknown ids are dropped; without requested test ids the list
\* keeps the ones it had, live or not.
EditList(st, l, P, requested, T) ==
  [st EXCEPT !.lists[l] =
    [tenant |-> st.lists[l].tenant, projects |-> P \cap DOMAIN st.projects,
     tests |-> IF requested THEN T \cap DOMAIN st.tests ELSE st.lists[l].tests]]
=============================================================================
