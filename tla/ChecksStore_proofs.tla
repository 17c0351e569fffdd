------------------------- MODULE ChecksStore_proofs -------------------------
(***************************************************************************)
(* Theorems about ChecksStore for every value of its constants. The shape  *)
(* of its state; no record claims an evidence file that is gone. An        *)
(* acknowledged run stays in checks.json, ChecksStore implements           *)
(* RunLedger, and the records agree with one another. What they claim of   *)
(* the evidence stays within the limits, and until a kill or a failed      *)
(* write no file is left that its record no longer claims.                 *)
(***************************************************************************)
EXTENDS ChecksStore, TLAPS, FiniteSetTheorems, FunctionTheorems

-----------------------------------------------------------------------------
(* What the changes of StoreState do to the claims. *)

\* Operations that leave the run records alone change no claim.
LEMMA SameRunsSameClaims ==
  ASSUME NEW a, NEW b, a.runs = b.runs
  PROVE  /\ EvidenceOf(a) = EvidenceOf(b)
         /\ Claims(a) = Claims(b)
BY DEF Claims, EvidenceOf

\* Only ids of stored runs are claimed.
LEMMA ClaimsAreOfStoredRuns ==
  ASSUME NEW st, NEW f \in Claims(st)
  PROVE  f \in Files /\ f[1] \in DOMAIN st.runs /\ <<f[1], f[2]>> \in EvidenceOf(st)
BY DEF Claims, EvidenceOf, Evidence, Files

\* Clearing flags touches no result.
LEMMA ClearFlagsOutcome ==
  ASSUME NEW st, IsStore(st), NEW E,
         NEW r \in DOMAIN st.runs, NEW t \in DOMAIN st.runs[r].items
  PROVE  ClearFlags(st, E).runs[r].items[t].outcome = st.runs[r].items[t].outcome
<1> DEFINE new == ClearFlags(st, E)
<1>1. new.runs = [q \in DOMAIN st.runs |->
    [st.runs[q] EXCEPT !.items = [u \in DOMAIN st.runs[q].items |->
      IF <<q, u>> \in E
      THEN [st.runs[q].items[u] EXCEPT !.kinds = {}]
      ELSE st.runs[q].items[u]]]]
  BY DEF ClearFlags, IsStore
<1>2. st.runs[r] \in Run /\ st.runs[r].items[t] \in Item
  BY DEF IsStore, IsTable, Run, Items
<1>3. new.runs[r].items = [u \in DOMAIN st.runs[r].items |->
                            IF <<r, u>> \in E
                            THEN [st.runs[r].items[u] EXCEPT !.kinds = {}]
                            ELSE st.runs[r].items[u]]
  BY <1>1, <1>2 DEF Run
<1>4. new.runs[r].items[t] = IF <<r, t>> \in E
                             THEN [st.runs[r].items[t] EXCEPT !.kinds = {}]
                             ELSE st.runs[r].items[t]
  BY <1>3
<1>5. [st.runs[r].items[t] EXCEPT !.kinds = {}].outcome = st.runs[r].items[t].outcome
  BY <1>2 DEF Item
<1> SUFFICES new.runs[r].items[t].outcome = st.runs[r].items[t].outcome
  OBVIOUS
<1> HIDE DEF new
<1> QED
  BY <1>4, <1>5

\* The run table after flags are cleared.
LEMMA ClearFlagsRuns ==
  ASSUME NEW st, IsStore(st), NEW E
  PROVE  LET new == ClearFlags(st, E)
         IN /\ DOMAIN new.runs = DOMAIN st.runs
            /\ \A r \in DOMAIN st.runs :
                 /\ new.runs[r].project = st.runs[r].project
                 /\ new.runs[r].at = st.runs[r].at
                 /\ DOMAIN new.runs[r].items = DOMAIN st.runs[r].items
                 /\ \A t \in DOMAIN st.runs[r].items :
                      /\ new.runs[r].items[t].outcome = st.runs[r].items[t].outcome
                      /\ new.runs[r].items[t].kinds =
                           IF <<r, t>> \in E THEN {} ELSE st.runs[r].items[t].kinds
<1> DEFINE new == ClearFlags(st, E)
<1>1. new.runs = [r \in DOMAIN st.runs |->
    [st.runs[r] EXCEPT !.items = [t \in DOMAIN st.runs[r].items |->
      IF <<r, t>> \in E
      THEN [st.runs[r].items[t] EXCEPT !.kinds = {}]
      ELSE st.runs[r].items[t]]]]
  BY DEF ClearFlags, IsStore
<1>2. ASSUME NEW r \in DOMAIN st.runs
      PROVE  /\ st.runs[r] \in Run
             /\ \A t \in DOMAIN st.runs[r].items : st.runs[r].items[t] \in Item
  BY DEF IsStore, IsTable, Run, Items
<1>3. ASSUME NEW r \in DOMAIN st.runs
      PROVE  /\ new.runs[r].project = st.runs[r].project
             /\ new.runs[r].at = st.runs[r].at
             /\ new.runs[r].items = [t \in DOMAIN st.runs[r].items |->
                  IF <<r, t>> \in E
                  THEN [st.runs[r].items[t] EXCEPT !.kinds = {}]
                  ELSE st.runs[r].items[t]]
  BY <1>1, <1>2 DEF Run
<1>4. ASSUME NEW r \in DOMAIN st.runs, NEW t \in DOMAIN st.runs[r].items
      PROVE  /\ new.runs[r].items[t].outcome = st.runs[r].items[t].outcome
             /\ new.runs[r].items[t].kinds =
                  IF <<r, t>> \in E THEN {} ELSE st.runs[r].items[t].kinds
  <2>1. new.runs[r].items[t] =
          IF <<r, t>> \in E
          THEN [st.runs[r].items[t] EXCEPT !.kinds = {}]
          ELSE st.runs[r].items[t]
    BY <1>3
  <2>2. /\ [st.runs[r].items[t] EXCEPT !.kinds = {}].kinds = {}
        /\ [st.runs[r].items[t] EXCEPT !.kinds = {}].outcome = st.runs[r].items[t].outcome
    <3> HIDE DEF new
    <3> QED  BY <1>2 DEF Item
  <2> HIDE DEF new
  <2> QED
    BY <2>1, <2>2
<1> QED
  BY <1>1, <1>3, <1>4

\* Clearing flags withdraws exactly the claims of the cleared ids.
LEMMA ClearFlagsClaims ==
  ASSUME NEW st, IsStore(st), NEW E
  PROVE  /\ EvidenceOf(ClearFlags(st, E)) = EvidenceOf(st)
         /\ Claims(ClearFlags(st, E)) = {f \in Claims(st) : <<f[1], f[2]>> \notin E}
BY ClearFlagsRuns DEF Claims, EvidenceOf, Evidence, Files

\* A saved run adds the claims of its own items and no other.
LEMMA InsertRunClaims ==
  ASSUME NEW st, IsStore(st), NEW r, r \notin DOMAIN st.runs, NEW p, NEW items
  PROVE  Claims(InsertRun(st, r, p, items)) =
           Claims(st) \cup
           {f \in Files : f[1] = r /\ f[2] \in DOMAIN items /\ f[3] \in items[f[2]].kinds}
<1>1. InsertRun(st, r, p, items).runs =
        Put(st.runs, r, [project |-> p, at |-> st.saves, items |-> items])
  BY DEF InsertRun, IsStore
<1> QED
  BY <1>1 DEF Claims, EvidenceOf, Evidence, Files, Put

\* Deleting a project withdraws the claims of its runs and no other.
LEMMA DropProjectClaims ==
  ASSUME NEW st, IsStore(st), NEW p
  PROVE  Claims(DropProject(st, p)) = {f \in Claims(st) : f[1] \notin RunsOf(st, p)}
<1>1. DropProject(st, p).runs = Keep(st.runs, RunIds \ RunsOf(st, p))
  BY DEF DropProject, IsStore
<1> QED
  BY <1>1 DEF Claims, EvidenceOf, Evidence, Files, Keep, RunsOf, IsStore, IsTable

\* Healing a bundle leaves every claim as it was.
LEMMA HealFailureClaims ==
  ASSUME NEW st, IsStore(st), NEW r \in DOMAIN st.runs, NEW t \in DOMAIN st.runs[r].items
  PROVE  Claims(HealFailure(st, r, t)) = Claims(st)
<1> DEFINE new == HealFailure(st, r, t)
<1>1. new.runs = [st.runs EXCEPT ![r].items[t].outcome = "healed"]
  BY DEF HealFailure, IsStore
<1>2. ASSUME NEW q \in DOMAIN st.runs
      PROVE  /\ st.runs[q] \in Run
             /\ \A u \in DOMAIN st.runs[q].items : st.runs[q].items[u] \in Item
  BY DEF IsStore, IsTable, Run, Items
<1>3. ASSUME NEW q \in DOMAIN st.runs
      PROVE  /\ DOMAIN new.runs[q].items = DOMAIN st.runs[q].items
             /\ \A u \in DOMAIN st.runs[q].items :
                  new.runs[q].items[u].kinds = st.runs[q].items[u].kinds
  BY <1>1, <1>2 DEF Run, Item
<1>4. DOMAIN new.runs = DOMAIN st.runs
  BY <1>1
<1> QED
  BY <1>3, <1>4 DEF Claims, EvidenceOf, Evidence, Files

\* What pruning takes away is evidence the state records.
LEMMA PrunedIsStored ==
  ASSUME NEW st, NEW F
  PROVE  Pruned(st, F) \subseteq EvidenceOf(st)
BY DEF Pruned

-----------------------------------------------------------------------------
(* Each keeps the shape of the stored state. *)

\* A table with one more entry, or another one at a key, is a table.
LEMMA PutTable ==
  ASSUME NEW f, NEW D, NEW V, IsTable(f, D, V), NEW x \in D, NEW v \in V
  PROVE  IsTable(Put(f, x, v), D, V)
BY DEF IsTable, Put

\* So is what is left of one.
LEMMA KeepTable ==
  ASSUME NEW f, NEW D, NEW V, IsTable(f, D, V), NEW S
  PROVE  IsTable(Keep(f, S), D, V)
BY DEF IsTable, Keep

\* The first start finds nothing stored.
LEMMA EmptyStoreShape == IsStore(EmptyStore)
BY DEF IsStore, EmptyStore, IsTable

\* A new project keeps the shape of the stored state.
LEMMA AddProjectShape ==
  ASSUME NEW st, IsStore(st), NEW p \in Projects
  PROVE  IsStore(AddProject(st, p))
<1> DEFINE new == AddProject(st, p)
<1>1. /\ new.projects = Put(st.projects, p, [latest |-> None, exploration |-> None])
      /\ new.tests = [t \in DOMAIN st.tests \cup TestsOf(p) |->
            IF t \in TestsOf(p) THEN [status |-> "idle", latest |-> None] ELSE st.tests[t]]
      /\ new.runs = st.runs /\ new.explorations = st.explorations
      /\ new.agentRuns = st.agentRuns /\ new.lists = st.lists /\ new.saves = st.saves
      /\ DOMAIN new = DOMAIN st
  BY DEF AddProject, IsStore
<1>2. IsTable(new.projects, Projects, ProjectRow)
  <2>1. [latest |-> None, exploration |-> None] \in ProjectRow
    BY DEF ProjectRow
  <2>2. IsTable(st.projects, Projects, ProjectRow)
    BY DEF IsStore
  <2> QED
    BY <1>1, <2>1, <2>2, PutTable
<1>3. IsTable(new.tests, Tests, TestRow)
  BY <1>1 DEF IsStore, IsTable, TestsOf, TestRow
<1> QED
  BY <1>1, <1>2, <1>3 DEF IsStore

\* So does deleting one with everything it owns.
LEMMA DropProjectShape ==
  ASSUME NEW st, IsStore(st), NEW p
  PROVE  IsStore(DropProject(st, p))
<1> DEFINE new == DropProject(st, p)
<1>1. /\ new.projects = Keep(st.projects, Projects \ {p})
      /\ new.tests = Keep(st.tests, Tests \ TestsOf(p))
      /\ new.runs = Keep(st.runs, RunIds \ RunsOf(st, p))
      /\ new.explorations =
           Keep(st.explorations, {e \in DOMAIN st.explorations : st.explorations[e] # p})
      /\ new.agentRuns = Keep(st.agentRuns, {a \in DOMAIN st.agentRuns : st.agentRuns[a] # p})
      /\ new.lists = [l \in DOMAIN st.lists |->
            IF st.lists[l].tenant = TenantOf[p]
            THEN [st.lists[l] EXCEPT !.projects = st.lists[l].projects \ {p}]
            ELSE st.lists[l]]
      /\ new.saves = st.saves
      /\ DOMAIN new = DOMAIN st
  BY DEF DropProject, IsStore
<1>2. IsTable(new.lists, Lists, List)
  BY <1>1 DEF IsStore, IsTable, List
<1>3. \A S : /\ IsTable(Keep(st.projects, S), Projects, ProjectRow)
             /\ IsTable(Keep(st.tests, S), Tests, TestRow)
             /\ IsTable(Keep(st.runs, S), RunIds, Run)
             /\ IsTable(Keep(st.explorations, S), Explorations, Projects)
             /\ IsTable(Keep(st.agentRuns, S), AgentRuns, Projects)
  BY KeepTable DEF IsStore
<1> QED
  BY <1>1, <1>2, <1>3 DEF IsStore

\* So does a stored exploration.
LEMMA AddExplorationShape ==
  ASSUME NEW st, IsStore(st), NEW e \in Explorations, NEW p \in DOMAIN st.projects
  PROVE  IsStore(AddExploration(st, e, p))
<1> DEFINE new == AddExploration(st, e, p)
<1>1. /\ new.projects = [st.projects EXCEPT ![p].exploration = e]
      /\ new.explorations = Put(st.explorations, e, p)
      /\ new.tests = st.tests /\ new.runs = st.runs
      /\ new.agentRuns = st.agentRuns /\ new.lists = st.lists /\ new.saves = st.saves
      /\ DOMAIN new = DOMAIN st
  BY DEF AddExploration, IsStore
<1>2. IsTable(new.projects, Projects, ProjectRow)
  BY <1>1 DEF IsStore, IsTable, ProjectRow
<1>3. IsTable(new.explorations, Explorations, Projects)
  <2>1. p \in Projects
    BY DEF IsStore, IsTable
  <2>2. IsTable(st.explorations, Explorations, Projects)
    BY DEF IsStore
  <2> QED
    BY <1>1, <2>1, <2>2, PutTable
<1> QED
  BY <1>1, <1>2, <1>3 DEF IsStore

\* So does a stored agent run.
LEMMA AddAgentRunShape ==
  ASSUME NEW st, IsStore(st), NEW a \in AgentRuns, NEW p \in Projects
  PROVE  IsStore(AddAgentRun(st, a, p))
BY PutTable DEF AddAgentRun, IsStore

\* So does a saved run.
LEMMA InsertRunShape ==
  ASSUME NEW st, IsStore(st), NEW r \in RunIds, NEW p \in DOMAIN st.projects,
         NEW items \in Items
  PROVE  IsStore(InsertRun(st, r, p, items))
<1> DEFINE new == InsertRun(st, r, p, items)
<1>1. /\ new.projects = [st.projects EXCEPT ![p].latest = r]
      /\ new.tests = [t \in DOMAIN st.tests |->
            IF t \in TestsOf(p) \cap DOMAIN items
            THEN [status |-> IF items[t].outcome = "passed" THEN "passed" ELSE "attention",
                  latest |-> r]
            ELSE st.tests[t]]
      /\ new.runs = Put(st.runs, r, [project |-> p, at |-> st.saves, items |-> items])
      /\ new.saves = st.saves + 1
      /\ new.explorations = st.explorations /\ new.agentRuns = st.agentRuns
      /\ new.lists = st.lists
      /\ DOMAIN new = DOMAIN st
  BY DEF InsertRun, IsStore
<1>2. IsTable(new.projects, Projects, ProjectRow)
  BY <1>1 DEF IsStore, IsTable, ProjectRow
<1>3. IsTable(new.tests, Tests, TestRow)
  BY <1>1 DEF IsStore, IsTable, TestRow
<1>4. [project |-> p, at |-> st.saves, items |-> items] \in Run
  BY DEF IsStore, IsTable, Run
<1>5. IsTable(new.runs, RunIds, Run)
  BY <1>1, <1>4, PutTable DEF IsStore
<1> QED
  BY <1>1, <1>2, <1>3, <1>5 DEF IsStore

\* A table of items maps tests to items, and is one by that alone.
LEMMA ItemsShape ==
  ASSUME NEW items
  PROVE  items \in Items
         <=> IsTable(items, Tests, Item)
BY DEF IsTable, Items

\* So does clearing the flags of removed evidence.
LEMMA ClearFlagsShape ==
  ASSUME NEW st, IsStore(st), NEW E
  PROVE  IsStore(ClearFlags(st, E))
<1> DEFINE clear(r) == [t \in DOMAIN st.runs[r].items |->
                          IF <<r, t>> \in E
                          THEN [st.runs[r].items[t] EXCEPT !.kinds = {}]
                          ELSE st.runs[r].items[t]]
           new == ClearFlags(st, E)
<1>1. /\ new.runs = [r \in DOMAIN st.runs |-> [st.runs[r] EXCEPT !.items = clear(r)]]
      /\ new.projects = st.projects /\ new.tests = st.tests
      /\ new.explorations = st.explorations /\ new.agentRuns = st.agentRuns
      /\ new.lists = st.lists /\ new.saves = st.saves
      /\ DOMAIN new = DOMAIN st
  BY DEF ClearFlags, IsStore
<1>2. ASSUME NEW r \in DOMAIN st.runs
      PROVE  [st.runs[r] EXCEPT !.items = clear(r)] \in Run
  <2>1. st.runs[r] \in Run
    BY DEF IsStore, IsTable
  <2>2. IsTable(st.runs[r].items, Tests, Item)
    BY <2>1, ItemsShape DEF Run
  <2>3. \A i \in Item : [i EXCEPT !.kinds = {}] \in Item
    BY DEF Item
  <2>4. IsTable(clear(r), Tests, Item)
    BY <2>2, <2>3 DEF IsTable
  <2>5. clear(r) \in Items
    BY <2>4, ItemsShape
  <2> HIDE DEF clear
  <2> QED
    BY <2>1, <2>5 DEF Run
<1>3. IsTable(new.runs, RunIds, Run)
  <2>1. DOMAIN st.runs \subseteq RunIds
    BY DEF IsStore, IsTable
  <2>2. new.runs \in [DOMAIN st.runs -> Run]
    <3> DEFINE table == [r \in DOMAIN st.runs |-> [st.runs[r] EXCEPT !.items = clear(r)]]
    <3>1. new.runs = table
      BY <1>1
    <3>2. table \in [DOMAIN st.runs -> Run]
      <4> HIDE DEF clear
      <4> QED
        BY <1>2
    <3> QED
      BY <3>1, <3>2
  <2> HIDE DEF new
  <2> QED
    BY <2>1, <2>2 DEF IsTable
<1> QED
  BY <1>1, <1>3 DEF IsStore

\* So does healing a failed bundle.
LEMMA HealFailureShape ==
  ASSUME NEW st, IsStore(st), NEW r \in DOMAIN st.runs, NEW t \in DOMAIN st.runs[r].items
  PROVE  IsStore(HealFailure(st, r, t))
<1> DEFINE new == HealFailure(st, r, t)
           healed == [st.runs[r].items EXCEPT ![t].outcome = "healed"]
<1>1. /\ new.runs = [st.runs EXCEPT ![r].items = healed]
      /\ new.tests = [u \in DOMAIN st.tests |->
            IF u = t THEN [status |-> "idle", latest |-> None] ELSE st.tests[u]]
      /\ new.projects = st.projects
      /\ new.explorations = st.explorations /\ new.agentRuns = st.agentRuns
      /\ new.lists = st.lists /\ new.saves = st.saves
      /\ DOMAIN new = DOMAIN st
  BY DEF HealFailure, IsStore
<1>2. /\ st.runs[r] \in Run
      /\ IsTable(st.runs[r].items, Tests, Item)
  BY ItemsShape DEF IsStore, IsTable, Run
<1>3. IsTable(healed, Tests, Item)
  BY <1>2 DEF IsTable, Item
<1>4. healed \in Items
  BY <1>3, ItemsShape
<1>5. [st.runs[r] EXCEPT !.items = healed] \in Run
  <2> HIDE DEF healed
  <2> QED
    BY <1>2, <1>4 DEF Run
<1>6. IsTable(new.runs, RunIds, Run)
  <2> HIDE DEF healed
  <2> QED
    BY <1>1, <1>5 DEF IsStore, IsTable
<1>7. IsTable(new.tests, Tests, TestRow)
  BY <1>1 DEF IsStore, IsTable, TestRow
<1> QED
  BY <1>1, <1>6, <1>7 DEF IsStore

\* So does editing a list.
LEMMA EditListShape ==
  ASSUME NEW st, IsStore(st), NEW l \in DOMAIN st.lists, NEW P, NEW requested, NEW T
  PROVE  IsStore(EditList(st, l, P, requested, T))
<1> DEFINE new == EditList(st, l, P, requested, T)
           edited == [tenant |-> st.lists[l].tenant, projects |-> P \cap DOMAIN st.projects,
                      tests |-> IF requested THEN T \cap DOMAIN st.tests ELSE st.lists[l].tests]
<1>1. st.lists[l] \in List
  BY DEF IsStore, IsTable
<1>2. edited \in List
  BY <1>1 DEF List, IsStore, IsTable
<1>3. /\ new.lists = [st.lists EXCEPT ![l] = edited]
      /\ new.projects = st.projects /\ new.tests = st.tests /\ new.runs = st.runs
      /\ new.explorations = st.explorations /\ new.agentRuns = st.agentRuns
      /\ new.saves = st.saves
      /\ DOMAIN new = DOMAIN st
  BY DEF EditList, IsStore
<1>4. IsTable(new.lists, Lists, List)
  <2> HIDE DEF edited
  <2> QED
    BY <1>2, <1>3 DEF IsStore, IsTable
<1> QED
  BY <1>3, <1>4 DEF IsStore

-----------------------------------------------------------------------------
(* The inductive invariant. *)

Executing(w) == flight[w].pc \in {"runExplore", "capture"}

\* What a request carries between its steps.
Request ==
  {x \in Flight :
    /\ x.pc = "insertList" => x.list \in Lists /\ x.new \in List
    /\ x.pc \in {"runExplore", "capture"} => x.project \in Projects /\ x.run \in RunIds}

\* Removal happens under the lock, after the state that does not claim the
\* files reached the disk.
RemovalIsDurable ==
  /\ cleanup.held => mem = disk
  /\ ~cleanup.held => cleanup = NoCleanup
  /\ cleanup.remove \cap (Claims(mem) \cup Claims(disk)) = {}

\* A run id names one thing ever: an execution, a stored run, files.
RunIdsAreFresh ==
  /\ DOMAIN mem.runs \cup DOMAIN disk.runs \subseteq minted
  /\ \A f \in files \cup cleanup.remove : f[1] \in minted
  /\ \A w \in Workers : Executing(w) => flight[w].run \in minted

\* Until a run is saved its worker alone writes or removes its files.
RunOwnsItsFiles ==
  \A w \in Workers : Executing(w) =>
    LET r == flight[w].run
    IN /\ r \notin DOMAIN mem.runs \cup DOMAIN disk.runs
       /\ \A f \in old \cup cleanup.remove : f[1] # r
       /\ flight[w].pc = "runExplore" => \A f \in files : f[1] # r
       /\ \A t \in DOMAIN flight[w].items :
            \A k \in flight[w].items[t].kinds : <<r, t, k>> \in files
       /\ \A v \in Workers : Executing(v) /\ v # w => flight[v].run # r

TypeInv == TypeOK /\ flight \in [Workers -> Request]

EvidenceInv ==
  /\ ClaimedFilesExist
  /\ RemovalIsDurable
  /\ RunIdsAreFresh
  /\ RunOwnsItsFiles

IInv == TypeInv /\ EvidenceInv

-----------------------------------------------------------------------------
(* Type correctness. *)

LEMMA IdleIsRequest == Idle \in Request
<1>1. [t \in {} |-> None] \in Items
  BY ItemsShape DEF IsTable
<1> QED
  BY <1>1 DEF Idle, Request, Flight

\* A request that takes one step is still a request.
LEMMA OneRequest ==
  ASSUME flight \in [Workers -> Request], NEW w \in Workers, NEW x \in Request
  PROVE  [flight EXCEPT ![w] = x] \in [Workers -> Request]
OBVIOUS

\* Memory takes the new state and the disk takes it or keeps its own.
LEMMA PersistType ==
  ASSUME TypeInv, NEW st, IsStore(st), NEW ok \in BOOLEAN, Persist(st, ok)
  PROVE  IsStore(mem') /\ IsStore(disk') /\ faults' \in 0..MaxFaults
BY InputAssumption DEF TypeInv, TypeOK, Persist

LEMMA DiscardType ==
  ASSUME TypeInv, NEW F, Discard(F)
  PROVE  files' \subseteq Files /\ old' \subseteq files'
BY DEF TypeInv, TypeOK, Discard

\* Operations of one lock acquisition, which no request carries.
LEMMA StoreOperationsType ==
  ASSUME TypeInv, NEW ok \in BOOLEAN
  PROVE  /\ \A p \in Projects : CreateProject(p, ok) \/ DeleteProject(p, ok) => TypeInv'
         /\ \A a \in AgentRuns, p \in Projects : SaveAgentRun(a, p, ok) => TypeInv'
         /\ \A r \in RunIds, t \in Tests : Heal(r, t, ok) => TypeInv'
         /\ \A l \in Lists, P \in SUBSET Projects, T \in SUBSET Tests, requested \in BOOLEAN :
              UpdateList(l, P, requested, T, ok) => TypeInv'
<1>1. ASSUME NEW p \in Projects, CreateProject(p, ok)
      PROVE  TypeInv'
  <2>1. IsStore(AddProject(mem, p))
    BY AddProjectShape DEF TypeInv, TypeOK
  <2>2. IsStore(mem') /\ IsStore(disk') /\ faults' \in 0..MaxFaults
    BY <1>1, <2>1, PersistType DEF CreateProject
  <2> QED
    BY <1>1, <2>2 DEF TypeInv, TypeOK, CreateProject, Ids
<1>2. ASSUME NEW p \in Projects, DeleteProject(p, ok)
      PROVE  TypeInv'
  <2>1. IsStore(DropProject(mem, p))
    BY DropProjectShape DEF TypeInv, TypeOK
  <2>2. IsStore(mem') /\ IsStore(disk') /\ faults' \in 0..MaxFaults
    BY <1>2, <2>1, PersistType DEF DeleteProject
  <2>3. cleanup' \in [held: BOOLEAN, remove: SUBSET Files, sweep: BOOLEAN]
    BY <1>2 DEF DeleteProject, NoCleanup, TypeInv, TypeOK
  <2> QED
    BY <1>2, <2>2, <2>3 DEF TypeInv, TypeOK, DeleteProject
<1>3. ASSUME NEW a \in AgentRuns, NEW p \in Projects, SaveAgentRun(a, p, ok)
      PROVE  TypeInv'
  <2>1. IsStore(AddAgentRun(mem, a, p))
    BY AddAgentRunShape DEF TypeInv, TypeOK
  <2>2. IsStore(mem') /\ IsStore(disk') /\ faults' \in 0..MaxFaults
    BY <1>3, <2>1, PersistType DEF SaveAgentRun
  <2> QED
    BY <1>3, <2>2 DEF TypeInv, TypeOK, SaveAgentRun, Ids
<1>4. ASSUME NEW r \in RunIds, NEW t \in Tests, Heal(r, t, ok)
      PROVE  TypeInv'
  <2>1. IsStore(HealFailure(mem, r, t))
    BY <1>4, HealFailureShape DEF TypeInv, TypeOK, Heal
  <2>2. IsStore(mem') /\ IsStore(disk') /\ faults' \in 0..MaxFaults
    BY <1>4, <2>1, PersistType DEF Heal
  <2> QED
    BY <1>4, <2>2 DEF TypeInv, TypeOK, Heal
<1>5. ASSUME NEW l \in Lists, NEW P \in SUBSET Projects, NEW T \in SUBSET Tests,
             NEW requested \in BOOLEAN, UpdateList(l, P, requested, T, ok)
      PROVE  TypeInv'
  <2>1. IsStore(EditList(mem, l, P, requested, T))
    BY <1>5, EditListShape DEF TypeInv, TypeOK, UpdateList
  <2>2. IsStore(mem') /\ IsStore(disk') /\ faults' \in 0..MaxFaults
    BY <1>5, <2>1, PersistType DEF UpdateList
  <2> QED
    BY <1>5, <2>2 DEF TypeInv, TypeOK, UpdateList
<1> QED
  BY <1>1, <1>2, <1>3, <1>4, <1>5

\* The projects of a list are minted for its tenant; their jobs are jobs.
LEMMA ListJobsType ==
  ASSUME NEW st, IsStore(st), NEW c, NEW l \in DOMAIN st.lists
  PROVE  ListJobs(st, c, l) \subseteq Job
<1>1. st.lists[l] \in List
  BY DEF IsStore, IsTable
<1>2. \A t \in TestsOfTenant(st, c) : t \in Tests
  BY DEF TestsOfTenant, IsStore, IsTable
<1>3. ProjectsOfTenant(st, c) \subseteq Projects
  BY DEF ProjectsOfTenant, IsStore, IsTable
<1>4. \A P \in SUBSET Projects : {WholeProject(p) : p \in P} \subseteq Job
  <2>1. \A p \in Projects : WholeProject(p) \in Job
    BY DEF WholeProject, Job
  <2> QED
    BY <2>1
<1> DEFINE live == st.lists[l].tests \cap TestsOfTenant(st, c)
<1>5. {[project |-> p, all |-> FALSE, tests |-> live \cap TestsOf(p)] :
          p \in {ProjectOf[t] : t \in live}} \subseteq Job
  <2>1. \A t \in live : t \in Tests /\ ProjectOf[t] \in Projects
    BY <1>2, IdAssumption
  <2>2. \A p : live \cap TestsOf(p) \in SUBSET Tests
    BY <2>1
  <2> HIDE DEF live
  <2>3. ASSUME NEW t \in live
        PROVE  [project |-> ProjectOf[t], all |-> FALSE,
                tests |-> live \cap TestsOf(ProjectOf[t])] \in Job
    BY <2>1, <2>2 DEF Job
  <2> QED
    BY <2>3
<1> QED
  BY <1>1, <1>3, <1>4, <1>5 DEF ListJobs, List

\* Requests that only start, read or end.
LEMMA RequestStepsType ==
  ASSUME TypeInv, NEW w \in Workers
  PROVE  /\ \A c \in Tenants, l \in Lists : CreateListSnapshot(w, c, l) => TypeInv'
         /\ \A p \in Projects : StartExplore(w, p) \/ StartProjectRun(w, p) => TypeInv'
         /\ \A l \in Lists : StartListRun(w, l) => TypeInv'
         /\ \A t \in Tests, r \in RunIds : StartTestRun(w, t, r) => TypeInv'
         /\ ListRunDone(w) => TypeInv'
<1> DEFINE Rest == UNCHANGED <<mem, disk, files, old, cleanup, acked, faults, crashes>>
<1>1. ASSUME Rest, minted' \subseteq Ids, flight' \in [Workers -> Request]
      PROVE  TypeInv'
  BY <1>1 DEF TypeInv, TypeOK, Request
<1>2. /\ minted \subseteq Ids
      /\ flight \in [Workers -> Request]
  BY DEF TypeInv, TypeOK
<1>3. [t \in {} |-> None] \in Items
  BY IdleIsRequest DEF Idle, Request, Flight
<1>4. ASSUME NEW c \in Tenants, NEW l \in Lists, CreateListSnapshot(w, c, l)
      PROVE  TypeInv'
  <2>1. ListOfAll(mem, c) \in List
    BY DEF ListOfAll, List, ProjectsOfTenant, TestsOfTenant, TypeInv, TypeOK, IsStore, IsTable
  <2>2. [Idle EXCEPT !.pc = "insertList", !.ctx = c, !.list = l, !.new = ListOfAll(mem, c)]
          \in Request
    BY <1>3, <2>1 DEF Idle, Request, Flight
  <2> QED
    BY <1>1, <1>2, <1>4, <2>2, OneRequest DEF CreateListSnapshot, Ids
<1>5. ASSUME NEW p \in Projects, StartExplore(w, p)
      PROVE  TypeInv'
  <2>1. [Idle EXCEPT !.pc = "explore", !.ctx = TenantOf[p], !.project = p] \in Request
    BY <1>3, IdAssumption DEF Idle, Request, Flight
  <2> QED
    BY <1>1, <1>2, <1>5, <2>1, OneRequest DEF StartExplore
<1>6. ASSUME NEW c \in Tenants, NEW jobs \in SUBSET Job, Begin(w, c, jobs)
      PROVE  flight' \in [Workers -> Request]
  <2>1. [Idle EXCEPT !.pc = "next", !.ctx = c, !.jobs = jobs] \in Request
    BY <1>3 DEF Idle, Request, Flight
  <2> QED
    BY <1>2, <1>6, <2>1, OneRequest DEF Begin
<1>7. ASSUME NEW p \in Projects, StartProjectRun(w, p)
      PROVE  TypeInv'
  <2>1. TenantOf[p] \in Tenants /\ {WholeProject(p)} \in SUBSET Job
    BY IdAssumption DEF WholeProject, Job
  <2> QED
    BY <1>1, <1>2, <1>6, <1>7, <2>1 DEF StartProjectRun
<1>8. ASSUME NEW l \in Lists, StartListRun(w, l)
      PROVE  TypeInv'
  <2>1. mem.lists[l].tenant \in Tenants
    BY <1>8 DEF StartListRun, TypeInv, TypeOK, IsStore, IsTable, List
  <2>2. ListJobs(mem, mem.lists[l].tenant, l) \in SUBSET Job
    BY <1>8, ListJobsType DEF StartListRun, TypeInv, TypeOK
  <2> QED
    BY <1>1, <1>2, <1>6, <1>8, <2>1, <2>2 DEF StartListRun
<1>9. ASSUME NEW t \in Tests, NEW r \in RunIds, StartTestRun(w, t, r)
      PROVE  TypeInv'
  <2>1. [Idle EXCEPT !.pc = "capture", !.ctx = TenantOf[ProjectOf[t]],
                     !.project = ProjectOf[t], !.run = r, !.todo = {t}] \in Request
    <3>1. ProjectOf[t] \in Projects /\ TenantOf[ProjectOf[t]] \in Tenants
      BY IdAssumption
    <3> QED
      BY <1>3, <3>1 DEF Idle, Request, Flight
  <2> QED
    BY <1>1, <1>2, <1>9, <2>1, OneRequest DEF StartTestRun, Ids
<1>10. ASSUME ListRunDone(w)
       PROVE  TypeInv'
  BY <1>1, <1>2, <1>10, IdleIsRequest, OneRequest DEF ListRunDone, Return
<1> QED
  BY <1>4, <1>5, <1>7, <1>8, <1>9, <1>10

\* The steps of an execution.
LEMMA ExecutionStepsType ==
  ASSUME TypeInv, NEW w \in Workers
  PROVE  /\ \A r \in RunIds : NextJob(w, r) => TypeInv'
         /\ ExploreFails(w) => TypeInv'
         /\ \A e \in Explorations, ok \in BOOLEAN : ExploreSucceeds(w, e, ok) => TypeInv'
         /\ \A t \in Tests, kinds \in Captures, outcome \in Verdicts :
              CaptureTest(w, t, kinds, outcome) => TypeInv'
         /\ AbortRun(w) => TypeInv'
         /\ \A ok \in BOOLEAN : CreateListInsert(w, ok) \/ SaveRun(w, ok) => TypeInv'
<1>1. /\ minted \subseteq Ids
      /\ flight \in [Workers -> Request]
      /\ flight[w] \in Request
      /\ DOMAIN mem.projects \subseteq Projects
      /\ IsStore(mem)
  BY DEF TypeInv, TypeOK, IsStore, IsTable
<1>2. Return(w) => flight' \in [Workers -> Request]
  BY <1>1, IdleIsRequest, OneRequest DEF Return
<1>3. [t \in {} |-> None] \in Items
  BY IdleIsRequest DEF Idle, Request, Flight
<1>4. ASSUME NEW r \in RunIds, NextJob(w, r)
      PROVE  TypeInv'
  <2>1. PICK job \in flight[w].jobs :
          \/ Return(w) /\ UNCHANGED minted
          \/ /\ minted' = minted \cup {r}
             /\ flight' = [flight EXCEPT ![w] =
                  [flight[w] EXCEPT
                     !.pc = "runExplore", !.project = job.project, !.run = r,
                     !.todo = IF job.all THEN TestsOf(job.project) ELSE job.tests,
                     !.items = Idle.items, !.jobs = flight[w].jobs \ {job}]]
    BY <1>4 DEF NextJob
  <2>2. job \in Job
    BY <1>1 DEF Request, Flight
  <2>3. (IF job.all THEN TestsOf(job.project) ELSE job.tests) \in SUBSET Tests
    BY <2>2 DEF Job, TestsOf
  <2>4. Idle.items \in Items
    BY IdleIsRequest DEF Request, Flight
  <2>5. ASSUME NEW todo \in SUBSET Tests, NEW items \in Items
        PROVE  [flight[w] EXCEPT
                  !.pc = "runExplore", !.project = job.project, !.run = r,
                  !.todo = todo, !.items = items, !.jobs = flight[w].jobs \ {job}] \in Request
    BY <1>1, <2>2 DEF Request, Flight, Job
  <2>6. flight' \in [Workers -> Request]
    <3> DEFINE todo == IF job.all THEN TestsOf(job.project) ELSE job.tests
               x == [flight[w] EXCEPT
                      !.pc = "runExplore", !.project = job.project, !.run = r,
                      !.todo = todo, !.items = Idle.items, !.jobs = flight[w].jobs \ {job}]
    <3>1. x \in Request
      BY <2>3, <2>4, <2>5
    <3>2. Return(w) \/ flight' = [flight EXCEPT ![w] = x]
      BY <2>1
    <3> HIDE DEF x
    <3> QED
      BY <1>1, <1>2, <3>1, <3>2, OneRequest
  <2> QED
    BY <1>4, <1>1, <2>1, <2>6 DEF NextJob, TypeInv, TypeOK, Request, Ids
<1>5. ASSUME flight[w].pc = "runExplore"
      PROVE  [flight EXCEPT ![w].pc = "capture"] \in [Workers -> Request]
  <2>1. [flight[w] EXCEPT !.pc = "capture"] \in Request
    BY <1>1, <1>5 DEF Request, Flight
  <2> QED
    BY <1>1, <2>1
<1>6. ASSUME ExploreFails(w)
      PROVE  TypeInv'
  <2>1. flight' \in [Workers -> Request]
    BY <1>2, <1>5, <1>6 DEF ExploreFails
  <2> QED
    BY <1>6, <2>1 DEF ExploreFails, TypeInv, TypeOK, Request
<1>7. ASSUME NEW e \in Explorations, NEW ok \in BOOLEAN, ExploreSucceeds(w, e, ok)
      PROVE  TypeInv'
  <2>1. flight' \in [Workers -> Request]
    BY <1>2, <1>5, <1>7 DEF ExploreSucceeds
  <2>2. IsStore(mem') /\ IsStore(disk') /\ faults' \in 0..MaxFaults
    <3>1. CASE flight[w].project \in DOMAIN mem.projects
      <4>1. IsStore(AddExploration(mem, e, flight[w].project))
        BY <1>1, <3>1, AddExplorationShape
      <4> QED
        BY <1>7, <3>1, <4>1, PersistType DEF ExploreSucceeds
    <3>2. CASE flight[w].project \notin DOMAIN mem.projects
      BY <1>7, <3>2 DEF ExploreSucceeds, TypeInv, TypeOK
    <3> QED
      BY <3>1, <3>2
  <2> QED
    BY <1>7, <2>1, <2>2 DEF ExploreSucceeds, TypeInv, TypeOK, Request, Ids
<1>8. ASSUME NEW t \in Tests, NEW kinds \in Captures, NEW outcome \in Verdicts,
             CaptureTest(w, t, kinds, outcome)
      PROVE  TypeInv'
  <2>1. [kinds |-> kinds, outcome |-> outcome] \in Item
    BY InputAssumption DEF Item, Kinds
  <2>2. flight[w].items \in Items
    BY <1>1 DEF Request, Flight
  <2>3. Put(flight[w].items, t, [kinds |-> kinds, outcome |-> outcome]) \in Items
    BY <2>1, <2>2, ItemsShape, PutTable
  <2>4. ASSUME NEW items \in Items
        PROVE  [flight[w] EXCEPT !.todo = flight[w].todo \ {t}, !.items = items] \in Request
    BY <1>1 DEF Request, Flight
  <2>5. flight' \in [Workers -> Request]
    <3> DEFINE x == [flight[w] EXCEPT !.todo = flight[w].todo \ {t},
                      !.items = Put(flight[w].items, t, [kinds |-> kinds, outcome |-> outcome])]
    <3>1. x \in Request
      BY <2>3, <2>4
    <3>2. flight' = [flight EXCEPT ![w] = x]
      BY <1>8 DEF CaptureTest
    <3> HIDE DEF x
    <3> QED
      BY <1>1, <3>1, <3>2, OneRequest
  <2>6. flight[w].run \in RunIds
    BY <1>1, <1>8 DEF CaptureTest, Request
  <2>7. files' \subseteq Files
    BY <1>8, <2>6, InputAssumption DEF CaptureTest, Files, Kinds, TypeInv, TypeOK
  <2> QED
    BY <1>8, <2>5, <2>7 DEF CaptureTest, TypeInv, TypeOK, Request
<1>9. ASSUME AbortRun(w)
      PROVE  TypeInv'
  BY <1>2, <1>9, DiscardType DEF AbortRun, TypeInv, TypeOK, Request
<1>10. ASSUME NEW ok \in BOOLEAN, CreateListInsert(w, ok)
       PROVE  TypeInv'
  <2>1. flight[w].list \in Lists /\ flight[w].new \in List
    BY <1>1, <1>10 DEF CreateListInsert, Request
  <2> DEFINE lists == Put(mem.lists, flight[w].list, flight[w].new)
  <2>2. IsTable(lists, Lists, List)
    BY <1>1, <2>1, PutTable DEF IsStore
  <2>3. IsStore([mem EXCEPT !.lists = lists])
    <3> HIDE DEF lists
    <3> QED
      BY <1>1, <2>2 DEF IsStore
  <2>4. IsStore(mem') /\ IsStore(disk') /\ faults' \in 0..MaxFaults
    BY <1>10, <2>3, PersistType DEF CreateListInsert
  <2> QED
    BY <1>2, <1>10, <2>4 DEF CreateListInsert, TypeInv, TypeOK, Request
<1>11. ASSUME NEW ok \in BOOLEAN, SaveRun(w, ok)
       PROVE  TypeInv'
  <2> DEFINE r == flight[w].run
             p == flight[w].project
             inserted == InsertRun(mem, r, p, flight[w].items)
             pruned == Pruned(inserted, files)
  <2>1. r \in RunIds /\ flight[w].items \in Items
    BY <1>1, <1>11 DEF SaveRun, Request, Flight
  <2>2. CASE p \in DOMAIN mem.projects
    <3>1. IsStore(inserted)
      BY <1>1, <2>1, <2>2, InsertRunShape
    <3>2. IsStore(ClearFlags(inserted, pruned))
      BY <3>1, ClearFlagsShape
    <3>3. /\ Persist(ClearFlags(inserted, pruned), ok)
          /\ IF ok
             THEN /\ cleanup' = [held |-> TRUE, sweep |-> TRUE,
                        remove |-> {f \in files : <<f[1], f[2]>> \in pruned}]
                  /\ acked' = acked \cup {<<r, p>>}
                  /\ Continue(w)
             ELSE Return(w) /\ UNCHANGED <<cleanup, acked>>
          /\ UNCHANGED <<files, old, minted, crashes>>
      BY <1>11, <2>2 DEF SaveRun
    <3>4. IsStore(mem') /\ IsStore(disk') /\ faults' \in 0..MaxFaults
      BY <3>2, <3>3, PersistType
    <3>5. [flight[w] EXCEPT !.pc = "next", !.run = None] \in Request
      BY <1>1 DEF Request, Flight
    <3>6. flight' \in [Workers -> Request]
      BY <1>1, <1>2, <3>3, <3>5 DEF Continue
    <3>7. acked' \subseteq RunIds \X Projects
      BY <1>1, <2>1, <2>2, <3>3 DEF TypeInv, TypeOK
    <3>8. cleanup' \in [held: BOOLEAN, remove: SUBSET Files, sweep: BOOLEAN]
      <4> DEFINE gone == {f \in files : <<f[1], f[2]>> \in pruned}
      <4>1. gone \subseteq Files
        BY DEF TypeInv, TypeOK
      <4>2. cleanup' = cleanup \/ cleanup' = [held |-> TRUE, remove |-> gone, sweep |-> TRUE]
        BY <3>3
      <4>3. cleanup \in [held: BOOLEAN, remove: SUBSET Files, sweep: BOOLEAN]
        BY DEF TypeInv, TypeOK
      <4>4. [held |-> TRUE, remove |-> gone, sweep |-> TRUE]
              \in [held: BOOLEAN, remove: SUBSET Files, sweep: BOOLEAN]
        BY <4>1
      <4> HIDE DEF gone
      <4> QED
        BY <4>2, <4>3, <4>4, Zenon
    <3> QED
      BY <3>3, <3>4, <3>6, <3>7, <3>8 DEF TypeInv, TypeOK, Request
  <2>3. CASE p \notin DOMAIN mem.projects
    BY <1>2, <1>11, <2>3, DiscardType DEF SaveRun, TypeInv, TypeOK, Request
  <2> QED
    BY <2>2, <2>3
<1> QED
  BY <1>4, <1>6, <1>7, <1>8, <1>9, <1>10, <1>11

LEMMA TypeInit == Init => TypeInv
<1>1. IsStore(EmptyStore)
  BY EmptyStoreShape
<1>2. Idle \in Request
  BY IdleIsRequest
<1> QED
  BY <1>1, <1>2, InputAssumption DEF Init, TypeInv, TypeOK, NoCleanup, Request

LEMMA TypeNext == TypeInv /\ [Next]_vars => TypeInv'
<1> SUFFICES ASSUME TypeInv, [Next]_vars
             PROVE  TypeInv'
  OBVIOUS
<1>1. ASSUME NEW w \in Workers, WorkerNext(w)
      PROVE  TypeInv'
  BY <1>1, RequestStepsType, ExecutionStepsType DEF WorkerNext
<1>2. ASSUME FinishCleanup
      PROVE  TypeInv'
  BY <1>2, DiscardType DEF FinishCleanup, NoCleanup, TypeInv, TypeOK
<1>3. ASSUME Age
      PROVE  TypeInv'
  BY <1>3 DEF Age, TypeInv, TypeOK
<1>4. ASSUME CrashAndReopen
      PROVE  TypeInv'
  <2>1. files' \subseteq Files /\ old' \subseteq files'
    BY <1>4, DiscardType DEF CrashAndReopen
  <2>2. flight' \in [Workers -> Request] /\ flight' \in [Workers -> Flight]
    BY <1>4, IdleIsRequest DEF CrashAndReopen, Request
  <2>3. crashes' \in 0..MaxCrashes
    BY <1>4, InputAssumption DEF CrashAndReopen, TypeInv, TypeOK
  <2> QED
    BY <1>4, <2>1, <2>2, <2>3 DEF CrashAndReopen, NoCleanup, TypeInv, TypeOK
<1>5. CASE UNCHANGED vars
  BY <1>5 DEF vars, TypeInv, TypeOK
<1> QED
  BY <1>1, <1>2, <1>3, <1>4, <1>5, StoreOperationsType DEF Next

\* Every variable keeps its shape: the stored tables stay keyed by ids of their
\* own kind, files stay files of runs and tests, the lock and the requests in
\* flight stay well formed, whatever the sizes and limits.
THEOREM TypeCorrect == Spec => []TypeOK
<1>1. TypeInv => TypeOK
  BY DEF TypeInv
<1> QED
  BY <1>1, TypeInit, TypeNext, PTL DEF Spec

-----------------------------------------------------------------------------
(* Claimed files exist. *)

\* Requests carry on or end, none begins or records a result.
Narrows ==
  \A w \in Workers : Executing(w)' =>
    /\ Executing(w)
    /\ flight'[w].run = flight[w].run
    /\ flight'[w].items = flight[w].items
    /\ flight'[w].pc = "runExplore" => flight[w].pc = "runExplore"

\* A step that leaves the files and the lock alone, and after which no state
\* records or claims more than it did, disturbs nothing.
LEMMA NarrowStep ==
  ASSUME EvidenceInv, Narrows, UNCHANGED <<files, old, cleanup>>, minted \subseteq minted',
         cleanup.held => mem' = disk',
         Claims(mem') \cup Claims(disk') \subseteq Claims(mem) \cup Claims(disk),
         DOMAIN mem'.runs \cup DOMAIN disk'.runs \subseteq DOMAIN mem.runs \cup DOMAIN disk.runs
  PROVE  EvidenceInv'
<1>1. ClaimedFilesExist'
  BY DEF EvidenceInv, ClaimedFilesExist
<1>2. RemovalIsDurable'
  BY DEF EvidenceInv, RemovalIsDurable
<1>3. RunIdsAreFresh'
  BY DEF EvidenceInv, RunIdsAreFresh, Narrows
<1>4. RunOwnsItsFiles'
  BY DEF EvidenceInv, RunOwnsItsFiles, Narrows
<1> QED
  BY <1>1, <1>2, <1>3, <1>4 DEF EvidenceInv

\* The same for a change of the store under the lock.
LEMMA NarrowPersist ==
  ASSUME IInv, Unlocked, NEW st, NEW ok \in BOOLEAN, Persist(st, ok),
         Claims(st) \subseteq Claims(mem), DOMAIN st.runs \subseteq DOMAIN mem.runs,
         Narrows, UNCHANGED <<files, old, cleanup>>, minted \subseteq minted'
  PROVE  EvidenceInv'
<1>1. mem' = st /\ (disk' = st \/ disk' = disk)
  BY DEF Persist
<1>2. Claims(mem') \cup Claims(disk') \subseteq Claims(mem) \cup Claims(disk)
  BY <1>1
<1>3. DOMAIN mem'.runs \cup DOMAIN disk'.runs \subseteq DOMAIN mem.runs \cup DOMAIN disk.runs
  BY <1>1
<1> QED
  BY <1>2, <1>3, NarrowStep DEF IInv, Unlocked

\* And for a request that moves without touching the store.
LEMMA NarrowRequest ==
  ASSUME IInv, NEW w \in Workers, NEW x, flight' = [flight EXCEPT ![w] = x],
         x.pc \notin {"runExplore", "capture"}, UNCHANGED <<mem, disk, files, old, cleanup>>,
         minted \subseteq minted'
  PROVE  EvidenceInv'
<1>1. Narrows
  BY DEF Narrows, Executing, IInv, TypeInv, TypeOK
<1> QED
  BY <1>1, NarrowStep DEF IInv, EvidenceInv, RemovalIsDurable

\* An execution begins with a run id nothing has yet.
LEMMA BeginRun ==
  ASSUME IInv, NEW w \in Workers, NEW x, flight' = [flight EXCEPT ![w] = x],
         x.run \notin minted, DOMAIN x.items = {}, minted' = minted \cup {x.run},
         UNCHANGED <<mem, disk, files, old, cleanup>>
  PROVE  EvidenceInv'
<1>1. \A v \in Workers : flight'[v] = IF v = w THEN x ELSE flight[v]
  BY DEF IInv, TypeInv, TypeOK
<1>2. /\ \A f \in files \cup old \cup cleanup.remove : f[1] # x.run
      /\ x.run \notin DOMAIN mem.runs \cup DOMAIN disk.runs
      /\ \A v \in Workers : Executing(v) => flight[v].run # x.run
  BY DEF IInv, TypeInv, TypeOK, EvidenceInv, RunIdsAreFresh
<1>3. ClaimedFilesExist' /\ RemovalIsDurable'
  BY DEF IInv, EvidenceInv, ClaimedFilesExist, RemovalIsDurable
<1>4. RunIdsAreFresh'
  BY <1>1 DEF IInv, EvidenceInv, RunIdsAreFresh, Executing
<1>5. RunOwnsItsFiles'
  BY <1>1, <1>2 DEF IInv, EvidenceInv, RunOwnsItsFiles, Executing
<1> QED
  BY <1>3, <1>4, <1>5 DEF EvidenceInv

\* The operations of one lock acquisition.
LEMMA StoreOperationsEvidence ==
  ASSUME IInv, NEW ok \in BOOLEAN
  PROVE  /\ \A p \in Projects : CreateProject(p, ok) \/ DeleteProject(p, ok) => EvidenceInv'
         /\ \A a \in AgentRuns, p \in Projects : SaveAgentRun(a, p, ok) => EvidenceInv'
         /\ \A r \in RunIds, t \in Tests : Heal(r, t, ok) => EvidenceInv'
         /\ \A l \in Lists, P \in SUBSET Projects, T \in SUBSET Tests, requested \in BOOLEAN :
              UpdateList(l, P, requested, T, ok) => EvidenceInv'
<1>1. IsStore(mem)
  BY DEF IInv, TypeInv, TypeOK
<1>2. ASSUME UNCHANGED flight
      PROVE  Narrows
  BY <1>2 DEF Narrows, Executing
<1>3. ASSUME NEW st, st.runs = mem.runs
      PROVE  Claims(st) \subseteq Claims(mem) /\ DOMAIN st.runs \subseteq DOMAIN mem.runs
  BY <1>3, SameRunsSameClaims
<1>4. ASSUME NEW p \in Projects, CreateProject(p, ok)
      PROVE  EvidenceInv'
  <2>1. AddProject(mem, p).runs = mem.runs
    BY <1>1 DEF AddProject, IsStore
  <2> QED
    BY <1>2, <1>3, <1>4, <2>1, NarrowPersist DEF CreateProject
<1>5. ASSUME NEW a \in AgentRuns, NEW p \in Projects, SaveAgentRun(a, p, ok)
      PROVE  EvidenceInv'
  <2>1. AddAgentRun(mem, a, p).runs = mem.runs
    BY <1>1 DEF AddAgentRun, IsStore
  <2> QED
    BY <1>2, <1>3, <1>5, <2>1, NarrowPersist DEF SaveAgentRun
<1>6. ASSUME NEW r \in RunIds, NEW t \in Tests, Heal(r, t, ok)
      PROVE  EvidenceInv'
  <2>1. r \in DOMAIN mem.runs /\ t \in DOMAIN mem.runs[r].items
    BY <1>6 DEF Heal
  <2>2. Claims(HealFailure(mem, r, t)) \subseteq Claims(mem)
    BY <1>1, <2>1, HealFailureClaims
  <2>3. DOMAIN HealFailure(mem, r, t).runs \subseteq DOMAIN mem.runs
    BY <1>1 DEF HealFailure, IsStore
  <2> QED
    BY <1>2, <1>6, <2>2, <2>3, NarrowPersist DEF Heal
<1>7. ASSUME NEW l \in Lists, NEW P \in SUBSET Projects, NEW T \in SUBSET Tests,
             NEW requested \in BOOLEAN, UpdateList(l, P, requested, T, ok)
      PROVE  EvidenceInv'
  <2>1. EditList(mem, l, P, requested, T).runs = mem.runs
    BY <1>1 DEF EditList, IsStore
  <2> QED
    BY <1>2, <1>3, <1>7, <2>1, NarrowPersist DEF UpdateList
<1>8. ASSUME NEW p \in Projects, DeleteProject(p, ok)
      PROVE  EvidenceInv'
  <2> DEFINE st == DropProject(mem, p)
             gone == {f \in files : f[1] \in RunsOf(mem, p) /\ <<f[1], f[2]>> \in EvidenceOf(mem)}
  <2>1. Claims(st) = {f \in Claims(mem) : f[1] \notin RunsOf(mem, p)}
    BY <1>1, DropProjectClaims
  <2>2. DOMAIN st.runs \subseteq DOMAIN mem.runs
    BY <1>1 DEF DropProject, IsStore, Keep
  <2>3. /\ ~cleanup.held
        /\ Persist(st, ok)
        /\ cleanup' = IF ok THEN [held |-> TRUE, sweep |-> FALSE, remove |-> gone] ELSE NoCleanup
        /\ UNCHANGED <<files, old, flight, minted>>
    BY <1>8 DEF DeleteProject, Unlocked
  <2> HIDE DEF st
  <2>4. CASE ~ok
    <3>1. cleanup' = cleanup
      BY <2>3, <2>4 DEF IInv, EvidenceInv, RemovalIsDurable
    <3> QED
      BY <1>2, <2>1, <2>2, <2>3, <3>1, NarrowPersist DEF Unlocked
  <2>5. CASE ok
    <3>1. /\ mem' = st /\ disk' = st
          /\ cleanup' = [held |-> TRUE, sweep |-> FALSE, remove |-> gone]
      BY <2>3, <2>5 DEF Persist
    <3>2. RunsOf(mem, p) \subseteq DOMAIN mem.runs
      BY DEF RunsOf
    <3>3. ClaimedFilesExist'
      BY <2>1, <2>3, <3>1 DEF IInv, EvidenceInv, ClaimedFilesExist
    <3>4. RemovalIsDurable'
      BY <2>1, <3>1 DEF RemovalIsDurable
    <3>5. RunIdsAreFresh'
      BY <2>2, <2>3, <3>1 DEF IInv, EvidenceInv, RunIdsAreFresh, Executing
    <3>6. RunOwnsItsFiles'
      BY <2>2, <2>3, <3>1, <3>2 DEF IInv, EvidenceInv, RunOwnsItsFiles, Executing
    <3> QED
      BY <3>3, <3>4, <3>5, <3>6 DEF EvidenceInv
  <2> QED
    BY <2>4, <2>5
<1> QED
  BY <1>4, <1>5, <1>6, <1>7, <1>8

\* Requests that only start, read or end.
LEMMA RequestStepsEvidence ==
  ASSUME IInv, NEW w \in Workers
  PROVE  /\ \A c \in Tenants, l \in Lists : CreateListSnapshot(w, c, l) => EvidenceInv'
         /\ \A p \in Projects : StartExplore(w, p) \/ StartProjectRun(w, p) => EvidenceInv'
         /\ \A l \in Lists : StartListRun(w, l) => EvidenceInv'
         /\ \A t \in Tests, r \in RunIds : StartTestRun(w, t, r) => EvidenceInv'
         /\ ListRunDone(w) => EvidenceInv'
<1>1. ASSUME NEW c \in Tenants, NEW l \in Lists, CreateListSnapshot(w, c, l)
      PROVE  EvidenceInv'
  <2> DEFINE x == [Idle EXCEPT !.pc = "insertList", !.ctx = c, !.list = l,
                               !.new = ListOfAll(mem, c)]
  <2>1. x.pc = "insertList"
    BY DEF Idle
  <2>2. flight' = [flight EXCEPT ![w] = x] /\ minted \subseteq minted'
    BY <1>1 DEF CreateListSnapshot
  <2> HIDE DEF x
  <2> QED
    BY <1>1, <2>1, <2>2, NarrowRequest DEF CreateListSnapshot
<1>2. ASSUME NEW p \in Projects, StartExplore(w, p)
      PROVE  EvidenceInv'
  <2> DEFINE x == [Idle EXCEPT !.pc = "explore", !.ctx = TenantOf[p], !.project = p]
  <2>1. x.pc = "explore"
    BY DEF Idle
  <2>2. flight' = [flight EXCEPT ![w] = x]
    BY <1>2 DEF StartExplore
  <2> HIDE DEF x
  <2> QED
    BY <1>2, <2>1, <2>2, NarrowRequest DEF StartExplore
<1>3. ASSUME NEW c, NEW jobs, Begin(w, c, jobs),
             UNCHANGED <<mem, disk, files, old, cleanup, minted>>
      PROVE  EvidenceInv'
  <2> DEFINE x == [Idle EXCEPT !.pc = "next", !.ctx = c, !.jobs = jobs]
  <2>1. x.pc = "next"
    BY DEF Idle
  <2>2. flight' = [flight EXCEPT ![w] = x]
    BY <1>3 DEF Begin
  <2> HIDE DEF x
  <2> QED
    BY <1>3, <2>1, <2>2, NarrowRequest
<1>4. ASSUME NEW p \in Projects, StartProjectRun(w, p)
      PROVE  EvidenceInv'
  BY <1>3, <1>4 DEF StartProjectRun
<1>5. ASSUME NEW l \in Lists, StartListRun(w, l)
      PROVE  EvidenceInv'
  BY <1>3, <1>5 DEF StartListRun
<1>6. ASSUME NEW t \in Tests, NEW r \in RunIds, StartTestRun(w, t, r)
      PROVE  EvidenceInv'
  <2> DEFINE x == [Idle EXCEPT !.pc = "capture", !.ctx = TenantOf[ProjectOf[t]],
                               !.project = ProjectOf[t], !.run = r, !.todo = {t}]
  <2>1. x.run = r /\ DOMAIN x.items = {}
    BY DEF Idle
  <2>2. flight' = [flight EXCEPT ![w] = x] /\ r \notin minted /\ minted' = minted \cup {r}
    BY <1>6 DEF StartTestRun
  <2> HIDE DEF x
  <2> QED
    BY <1>6, <2>1, <2>2, BeginRun DEF StartTestRun
<1>7. ASSUME ListRunDone(w)
      PROVE  EvidenceInv'
  <2>1. Idle.pc = "idle" /\ flight' = [flight EXCEPT ![w] = Idle]
    BY <1>7 DEF ListRunDone, Return, Idle
  <2> QED
    BY <1>7, <2>1, NarrowRequest DEF ListRunDone
<1> QED
  BY <1>1, <1>2, <1>4, <1>5, <1>6, <1>7

\* A run that is not stored may remove what it wrote and end.
LEMMA DiscardOwnFiles ==
  ASSUME IInv, NEW w \in Workers, Executing(w), Return(w), Discard(FilesOfRun(flight[w].run)),
         UNCHANGED <<mem, disk, cleanup, minted>>
  PROVE  EvidenceInv'
<1> DEFINE r == flight[w].run
<1>1. /\ files' = {f \in files : f[1] # r}
      /\ old' \subseteq old
      /\ r \notin DOMAIN mem.runs \cup DOMAIN disk.runs
  BY DEF Discard, FilesOfRun, IInv, EvidenceInv, RunOwnsItsFiles
<1>2. \A v \in Workers : Executing(v)' =>
        /\ v # w /\ Executing(v) /\ flight'[v] = flight[v] /\ flight[v].run # r
  BY DEF Executing, Return, Idle, IInv, TypeInv, TypeOK, EvidenceInv, RunOwnsItsFiles
<1>3. ClaimedFilesExist'
  <2>1. \A f \in Claims(mem) \cup Claims(disk) : f[1] # r
    BY <1>1, ClaimsAreOfStoredRuns
  <2> QED
    BY <1>1, <2>1 DEF IInv, EvidenceInv, ClaimedFilesExist
<1>4. RemovalIsDurable'
  BY DEF IInv, EvidenceInv, RemovalIsDurable
<1>5. RunIdsAreFresh'
  BY <1>1, <1>2 DEF IInv, EvidenceInv, RunIdsAreFresh
<1>6. RunOwnsItsFiles'
  <2>1. \A v \in Workers : \A u, k : Executing(v)' /\ <<flight[v].run, u, k>> \in files
          => <<flight[v].run, u, k>> \in files'
    BY <1>1, <1>2
  <2> QED
    BY <1>1, <1>2, <2>1 DEF IInv, EvidenceInv, RunOwnsItsFiles
<1> QED
  BY <1>3, <1>4, <1>5, <1>6 DEF EvidenceInv

\* The steps of an execution before its save.
LEMMA ExecutionStepsEvidence ==
  ASSUME IInv, NEW w \in Workers
  PROVE  /\ \A r \in RunIds : NextJob(w, r) => EvidenceInv'
         /\ ExploreFails(w) => EvidenceInv'
         /\ \A e \in Explorations, ok \in BOOLEAN : ExploreSucceeds(w, e, ok) => EvidenceInv'
         /\ \A t \in Tests, kinds \in Captures, outcome \in Verdicts :
              CaptureTest(w, t, kinds, outcome) => EvidenceInv'
         /\ AbortRun(w) => EvidenceInv'
         /\ \A ok \in BOOLEAN : CreateListInsert(w, ok) => EvidenceInv'
<1>1. /\ IsStore(mem)
      /\ flight \in [Workers -> Request]
      /\ flight[w] \in Request
  BY DEF IInv, TypeInv, TypeOK
<1>2. Idle.pc = "idle"
  BY DEF Idle
<1>3. ASSUME Return(w) \/ flight' = [flight EXCEPT ![w].pc = "capture"],
             flight[w].pc = "runExplore" \/ Return(w)
      PROVE  Narrows
  BY <1>1, <1>2, <1>3 DEF Narrows, Executing, Return, Request, Flight
<1>4. ASSUME NEW r \in RunIds, NextJob(w, r)
      PROVE  EvidenceInv'
  <2>1. CASE Return(w) /\ UNCHANGED minted
    BY <1>2, <1>4, <2>1, NarrowRequest DEF NextJob, Return
  <2>2. ASSUME NEW p, NEW todo, NEW jobs,
               r \notin minted, minted' = minted \cup {r},
               flight' = [flight EXCEPT ![w] =
                 [flight[w] EXCEPT !.pc = "runExplore", !.project = p, !.run = r,
                                   !.todo = todo, !.items = Idle.items, !.jobs = jobs]]
        PROVE  EvidenceInv'
    <3> DEFINE x == [flight[w] EXCEPT !.pc = "runExplore", !.project = p, !.run = r,
                                      !.todo = todo, !.items = Idle.items, !.jobs = jobs]
    <3>1. DOMAIN Idle.items = {}
      BY DEF Idle
    <3>2. x.run = r /\ x.items = Idle.items
      BY <1>1 DEF Request, Flight
    <3>3. flight' = [flight EXCEPT ![w] = x]
      BY <2>2
    <3>4. UNCHANGED <<mem, disk, files, old, cleanup>>
      BY <1>4 DEF NextJob
    <3> HIDE DEF x
    <3> QED
      BY <2>2, <3>1, <3>2, <3>3, <3>4, BeginRun
  <2> QED
    BY <1>4, <2>1, <2>2 DEF NextJob
<1>5. ASSUME ExploreFails(w)
      PROVE  EvidenceInv'
  <2>1. Narrows
    BY <1>3, <1>5 DEF ExploreFails
  <2> QED
    BY <1>5, <2>1, NarrowStep DEF ExploreFails, IInv, EvidenceInv, RemovalIsDurable
<1>6. ASSUME NEW e \in Explorations, NEW ok \in BOOLEAN, ExploreSucceeds(w, e, ok)
      PROVE  EvidenceInv'
  <2>1. Narrows
    BY <1>3, <1>6 DEF ExploreSucceeds
  <2>2. CASE flight[w].project \in DOMAIN mem.projects
    <3> DEFINE st == AddExploration(mem, e, flight[w].project)
    <3>1. st.runs = mem.runs
      BY <1>1 DEF AddExploration, IsStore
    <3>2. Claims(st) \subseteq Claims(mem) /\ DOMAIN st.runs \subseteq DOMAIN mem.runs
      BY <3>1, SameRunsSameClaims
    <3>3. /\ Unlocked /\ Persist(st, ok) /\ minted \subseteq minted'
          /\ UNCHANGED <<files, old, cleanup>>
      BY <1>6, <2>2 DEF ExploreSucceeds
    <3> HIDE DEF st
    <3> QED
      BY <2>1, <3>2, <3>3, NarrowPersist
  <2>3. CASE flight[w].project \notin DOMAIN mem.projects
    BY <1>6, <2>1, <2>3, NarrowStep
       DEF ExploreSucceeds, IInv, EvidenceInv, RemovalIsDurable
  <2> QED
    BY <2>2, <2>3
<1>7. ASSUME NEW t \in Tests, NEW kinds \in Captures, NEW outcome \in Verdicts,
             CaptureTest(w, t, kinds, outcome)
      PROVE  EvidenceInv'
  <2> DEFINE r == flight[w].run
             added == {r} \X {t} \X kinds
             item == [kinds |-> kinds, outcome |-> outcome]
  <2>1. /\ flight[w].pc = "capture" /\ files' = files \cup added
        /\ UNCHANGED <<mem, disk, old, cleanup, minted>>
    BY <1>7 DEF CaptureTest
  <2>2. /\ flight'[w].pc = "capture" /\ flight'[w].run = r
        /\ flight'[w].items = Put(flight[w].items, t, item)
    BY <1>1, <1>7 DEF CaptureTest, Request, Flight
  <2>3. \A v \in Workers : v # w => flight'[v] = flight[v]
    BY <1>1, <1>7 DEF CaptureTest
  <2>4. \A f \in added : f[1] = r
    OBVIOUS
  <2>5. Executing(w) /\ r \in minted
    BY <2>1 DEF Executing, IInv, EvidenceInv, RunIdsAreFresh
  <2>6. \A v \in Workers : Executing(v)' <=> Executing(v)
    BY <2>1, <2>2, <2>3 DEF Executing
  <2>7. ClaimedFilesExist' /\ RemovalIsDurable'
    BY <2>1 DEF IInv, EvidenceInv, ClaimedFilesExist, RemovalIsDurable
  <2>8. RunIdsAreFresh'
    BY <2>1, <2>2, <2>3, <2>4, <2>5, <2>6 DEF IInv, EvidenceInv, RunIdsAreFresh
  <2>9. RunOwnsItsFiles'
    <3> SUFFICES ASSUME NEW v \in Workers, Executing(v)'
                 PROVE  (LET q == flight[v].run
                         IN /\ q \notin DOMAIN mem.runs \cup DOMAIN disk.runs
                            /\ \A f \in old \cup cleanup.remove : f[1] # q
                            /\ flight[v].pc = "runExplore" => \A f \in files : f[1] # q
                            /\ \A u \in DOMAIN flight[v].items :
                                 \A k \in flight[v].items[u].kinds : <<q, u, k>> \in files
                            /\ \A x \in Workers : Executing(x) /\ x # v => flight[x].run # q)'
      BY DEF RunOwnsItsFiles
    <3>1. CASE v = w
      <4>1. \A u \in DOMAIN flight'[w].items :
              \A k \in flight'[w].items[u].kinds : <<r, u, k>> \in files'
        <5>1. \A k \in kinds : <<r, t, k>> \in added
          OBVIOUS
        <5>2. \A u \in DOMAIN flight[w].items :
                \A k \in flight[w].items[u].kinds : <<r, u, k>> \in files
          BY <2>5 DEF IInv, EvidenceInv, RunOwnsItsFiles
        <5> HIDE DEF added
        <5> QED
          BY <2>1, <2>2, <5>1, <5>2 DEF Put
      <4> QED
        BY <2>1, <2>2, <2>3, <2>5, <2>6, <3>1, <4>1 DEF IInv, EvidenceInv, RunOwnsItsFiles
    <3>2. CASE v # w
      <4>1. flight[v].run # r
        BY <2>5, <2>6, <3>2 DEF IInv, EvidenceInv, RunOwnsItsFiles
      <4> HIDE DEF added
      <4> QED
        BY <2>1, <2>2, <2>3, <2>4, <2>5, <2>6, <3>2, <4>1 DEF IInv, EvidenceInv, RunOwnsItsFiles
    <3> QED
      BY <3>1, <3>2
  <2> QED
    BY <2>7, <2>8, <2>9 DEF EvidenceInv
<1>8. ASSUME NEW ok \in BOOLEAN, CreateListInsert(w, ok)
      PROVE  EvidenceInv'
  <2> DEFINE st == [mem EXCEPT !.lists = Put(mem.lists, flight[w].list, flight[w].new)]
  <2>1. st.runs = mem.runs
    BY <1>1 DEF IsStore
  <2>2. Claims(st) \subseteq Claims(mem) /\ DOMAIN st.runs \subseteq DOMAIN mem.runs
    BY <2>1, SameRunsSameClaims
  <2>3. Unlocked /\ Persist(st, ok) /\ Return(w) /\ UNCHANGED <<files, old, cleanup, minted>>
    BY <1>8 DEF CreateListInsert
  <2> HIDE DEF st
  <2> QED
    BY <1>3, <2>2, <2>3, NarrowPersist
<1>9. ASSUME AbortRun(w)
      PROVE  EvidenceInv'
  <2>1. Executing(w) /\ Return(w) /\ Discard(FilesOfRun(flight[w].run))
    BY <1>9 DEF AbortRun, Executing
  <2> QED
    BY <1>9, <2>1, DiscardOwnFiles DEF AbortRun
<1> QED
  BY <1>4, <1>5, <1>6, <1>7, <1>8, <1>9

\* What a finished run records is there when its record is inserted.
LEMMA InsertedClaimsExist ==
  ASSUME IInv, NEW w \in Workers, flight[w].pc = "capture", NEW p
  PROVE  Claims(InsertRun(mem, flight[w].run, p, flight[w].items)) \subseteq files
<1> DEFINE r == flight[w].run
           items == flight[w].items
           inserted == InsertRun(mem, r, p, items)
<1>1. /\ IsStore(mem)
      /\ r \notin DOMAIN mem.runs
      /\ \A t \in DOMAIN items : \A k \in items[t].kinds : <<r, t, k>> \in files
      /\ Claims(mem) \subseteq files
  BY DEF IInv, TypeInv, TypeOK, EvidenceInv, RunOwnsItsFiles, Executing, ClaimedFilesExist
<1>2. Claims(inserted) = Claims(mem) \cup
        {f \in Files : f[1] = r /\ f[2] \in DOMAIN items /\ f[3] \in items[f[2]].kinds}
  BY <1>1, InsertRunClaims
<1>3. \A f \in Files : f = <<f[1], f[2], f[3]>>
  BY DEF Files
<1>4. ASSUME NEW f \in Files, f[1] = r, f[2] \in DOMAIN items, f[3] \in items[f[2]].kinds
      PROVE  f \in files
  BY <1>1, <1>3, <1>4
<1> QED
  BY <1>1, <1>2, <1>4

\* A save whose project still exists.
LEMMA SaveStoredEvidence ==
  ASSUME IInv, NEW w \in Workers, NEW ok \in BOOLEAN, SaveRun(w, ok),
         flight[w].project \in DOMAIN mem.projects
  PROVE  EvidenceInv'
<1> DEFINE r == flight[w].run
           p == flight[w].project
           items == flight[w].items
           inserted == InsertRun(mem, r, p, items)
           pruned == Pruned(inserted, files)
           st == ClearFlags(inserted, pruned)
           gone == {f \in files : <<f[1], f[2]>> \in pruned}
<1>1. /\ ~cleanup.held /\ flight[w].pc = "capture"
      /\ Persist(st, ok)
      /\ IF ok
         THEN cleanup' = [held |-> TRUE, sweep |-> TRUE, remove |-> gone] /\ Continue(w)
         ELSE Return(w) /\ UNCHANGED cleanup
      /\ UNCHANGED <<files, old, minted>>
  BY DEF SaveRun, Unlocked
<1>2. /\ IsStore(mem)
      /\ flight \in [Workers -> Request]
      /\ r \in RunIds /\ items \in Items
      /\ r \in minted /\ r \notin DOMAIN mem.runs \cup DOMAIN disk.runs
      /\ \A t \in DOMAIN items : \A k \in items[t].kinds : <<r, t, k>> \in files
      /\ \A v \in Workers : Executing(v) /\ v # w => flight[v].run # r
  BY <1>1 DEF IInv, TypeInv, TypeOK, Request, Flight, EvidenceInv, RunIdsAreFresh,
              RunOwnsItsFiles, Executing
<1>3. IsStore(inserted)
  BY <1>2, InsertRunShape
<1>4. DOMAIN inserted.runs = DOMAIN mem.runs \cup {r}
  BY <1>2 DEF InsertRun, IsStore, Put
<1>5. DOMAIN st.runs = DOMAIN mem.runs \cup {r}
  BY <1>3, <1>4, ClearFlagsRuns
<1>6. Claims(inserted) \subseteq files
  BY <1>1, InsertedClaimsExist
<1>7. Claims(st) = {f \in Claims(inserted) : <<f[1], f[2]>> \notin pruned}
  BY <1>3, ClearFlagsClaims
<1>8. \A f \in gone : f[1] \in DOMAIN mem.runs \cup {r}
  BY <1>4, PrunedIsStored DEF EvidenceOf
<1>9. \A v \in Workers : Executing(v)' =>
        v # w /\ Executing(v) /\ flight'[v] = flight[v] /\ flight[v].run # r
  <2>1. flight[w] \in Flight
    BY <1>2 DEF Request
  <2>2. [flight[w] EXCEPT !.pc = "next", !.run = None].pc = "next" /\ Idle.pc = "idle"
    BY <2>1 DEF Flight, Idle
  <2>3. flight'[w].pc \in {"idle", "next"}
    BY <1>1, <1>2, <2>2 DEF Return, Continue
  <2>4. \A v \in Workers : v # w => flight'[v] = flight[v]
    BY <1>1, <1>2 DEF Return, Continue
  <2> QED
    BY <1>2, <2>3, <2>4 DEF Executing
<1>10. /\ ok => cleanup'.held /\ cleanup'.remove = gone
       /\ ~ok => cleanup' = NoCleanup
  BY <1>1 DEF IInv, EvidenceInv, RemovalIsDurable
<1>11. NoCleanup.remove = {} /\ ~NoCleanup.held
  BY DEF NoCleanup
<1> HIDE DEF st, pruned, inserted
<1>12. mem' = st /\ (disk' = st \/ (~ok /\ disk' = disk))
  BY <1>1 DEF Persist
<1>13. ClaimedFilesExist'
  BY <1>1, <1>6, <1>7, <1>12 DEF IInv, EvidenceInv, ClaimedFilesExist
<1>14. RemovalIsDurable'
  <2>1. CASE ok
    <3>1. gone \cap Claims(st) = {}
      BY <1>7
    <3> HIDE DEF gone
    <3> QED
      BY <1>12, <1>10, <2>1, <3>1 DEF RemovalIsDurable
  <2>2. CASE ~ok
    BY <1>10, <1>11, <2>2 DEF RemovalIsDurable
  <2> QED
    BY <2>1, <2>2
<1>15. \A f \in cleanup'.remove : f \in files /\ f[1] \in DOMAIN mem.runs \cup {r}
  <2>1. CASE ok
    BY <1>8, <1>10, <2>1
  <2>2. CASE ~ok
    BY <1>10, <1>11, <2>2
  <2> QED
    BY <2>1, <2>2
<1>16. DOMAIN mem'.runs \cup DOMAIN disk'.runs \subseteq DOMAIN mem.runs \cup DOMAIN disk.runs \cup {r}
  BY <1>5, <1>12
<1>17. RunIdsAreFresh'
  BY <1>1, <1>2, <1>9, <1>15, <1>16 DEF IInv, EvidenceInv, RunIdsAreFresh
<1>18. RunOwnsItsFiles'
  BY <1>1, <1>2, <1>9, <1>15, <1>16 DEF IInv, EvidenceInv, RunOwnsItsFiles
<1> QED
  BY <1>13, <1>14, <1>17, <1>18 DEF EvidenceInv

LEMMA SaveRunEvidence ==
  ASSUME IInv, NEW w \in Workers, NEW ok \in BOOLEAN, SaveRun(w, ok)
  PROVE  EvidenceInv'
<1>1. CASE flight[w].project \in DOMAIN mem.projects
  BY <1>1, SaveStoredEvidence
<1>2. CASE flight[w].project \notin DOMAIN mem.projects
  <2>1. /\ Executing(w) /\ Return(w) /\ Discard(FilesOfRun(flight[w].run))
        /\ UNCHANGED <<mem, disk, cleanup, minted>>
    BY <1>2 DEF SaveRun, Executing
  <2> QED
    BY <2>1, DiscardOwnFiles
<1> QED
  BY <1>1, <1>2

\* What a writer removes under the lock is claimed by no state and belongs to
\* no execution; the sweep takes only unrecorded files.
LEMMA RemovableFiles ==
  ASSUME IInv
  PROVE  /\ ToRemove \cap (Claims(mem) \cup Claims(disk)) = {}
         /\ \A w \in Workers : Executing(w) => \A f \in ToRemove : f[1] # flight[w].run
         /\ ~cleanup.held => ToRemove = {}
<1>1. Sweepable \cap Claims(mem) = {}
  BY ClaimsAreOfStoredRuns DEF Sweepable
<1>2. cleanup.sweep => Claims(disk) = Claims(mem)
  BY DEF IInv, EvidenceInv, RemovalIsDurable, NoCleanup
<1>3. cleanup.remove \cap (Claims(mem) \cup Claims(disk)) = {}
  BY DEF IInv, EvidenceInv, RemovalIsDurable
<1>4. ToRemove \cap (Claims(mem) \cup Claims(disk)) = {}
  BY <1>1, <1>2, <1>3 DEF ToRemove
<1>5. ToRemove \subseteq cleanup.remove \cup old
  BY DEF ToRemove, Sweepable
<1>6. ASSUME NEW w \in Workers, Executing(w), NEW f \in ToRemove
      PROVE  f[1] # flight[w].run
  BY <1>5, <1>6 DEF IInv, EvidenceInv, RunOwnsItsFiles
<1>7. ~cleanup.held => ToRemove = {}
  BY DEF IInv, EvidenceInv, RemovalIsDurable, NoCleanup, ToRemove
<1> QED
  BY <1>4, <1>6, <1>7

\* Removal, the passing of a day, and a kill.
LEMMA EnvironmentEvidence ==
  ASSUME IInv
  PROVE  /\ FinishCleanup => EvidenceInv'
         /\ Age => EvidenceInv'
         /\ CrashAndReopen => EvidenceInv'
<1>1. ASSUME NEW F \in SUBSET ToRemove, Discard(F), cleanup' = NoCleanup,
             UNCHANGED <<disk, minted>>, mem' = mem \/ mem' = disk,
             \A w \in Workers : Executing(w)' => Executing(w) /\ flight'[w] = flight[w]
      PROVE  EvidenceInv'
  <2>1. /\ files' = files \ F /\ old' \subseteq old
        /\ NoCleanup.remove = {} /\ ~NoCleanup.held
    BY <1>1 DEF Discard, NoCleanup
  <2>2. ClaimedFilesExist'
    BY <1>1, <2>1, RemovableFiles DEF IInv, EvidenceInv, ClaimedFilesExist
  <2>3. RemovalIsDurable'
    BY <1>1, <2>1 DEF RemovalIsDurable
  <2>4. RunIdsAreFresh'
    BY <1>1, <2>1 DEF IInv, EvidenceInv, RunIdsAreFresh
  <2>5. \A w \in Workers : \A t, k : Executing(w) /\ <<flight[w].run, t, k>> \in files
          => <<flight[w].run, t, k>> \in files'
    BY <1>1, <2>1, RemovableFiles
  <2>6. RunOwnsItsFiles'
    BY <1>1, <2>1, <2>5 DEF IInv, EvidenceInv, RunOwnsItsFiles
  <2> QED
    BY <2>2, <2>3, <2>4, <2>6 DEF EvidenceInv
<1>2. ASSUME FinishCleanup
      PROVE  EvidenceInv'
  BY <1>1, <1>2 DEF FinishCleanup, Executing
<1>3. ASSUME Age
      PROVE  EvidenceInv'
  <2>1. UNCHANGED <<mem, disk, files, flight, cleanup, minted>> /\ old' = files \ InFlightFiles
    BY <1>3 DEF Age
  <2>2. ClaimedFilesExist' /\ RemovalIsDurable'
    BY <2>1 DEF IInv, EvidenceInv, ClaimedFilesExist, RemovalIsDurable
  <2>3. RunIdsAreFresh'
    BY <2>1 DEF IInv, EvidenceInv, RunIdsAreFresh, Executing
  <2>4. ASSUME NEW w \in Workers, Executing(w), NEW f \in old'
        PROVE  f[1] # flight[w].run
    <3>1. f \in files /\ f \notin InFlightFiles
      BY <2>1, <2>4
    <3>2. CASE flight[w].pc = "capture"
      BY <3>1, <3>2 DEF InFlightFiles
    <3>3. CASE flight[w].pc = "runExplore"
      BY <2>4, <3>1, <3>3 DEF IInv, EvidenceInv, RunOwnsItsFiles
    <3> QED
      BY <2>4, <3>2, <3>3 DEF Executing
  <2>5. RunOwnsItsFiles'
    BY <2>1, <2>4 DEF IInv, EvidenceInv, RunOwnsItsFiles, Executing
  <2> QED
    BY <2>2, <2>3, <2>5 DEF EvidenceInv
<1>4. ASSUME CrashAndReopen
      PROVE  EvidenceInv'
  <2>1. \A w \in Workers : ~Executing(w)'
    BY <1>4 DEF CrashAndReopen, Executing, Idle
  <2> QED
    BY <1>1, <1>4, <2>1 DEF CrashAndReopen
<1> QED
  BY <1>2, <1>3, <1>4

LEMMA EvidenceInit == Init => EvidenceInv
<1> SUFFICES ASSUME Init
             PROVE  EvidenceInv
  OBVIOUS
<1>1. DOMAIN mem.runs = {} /\ DOMAIN disk.runs = {} /\ files = {} /\ old = {}
  BY DEF Init, EmptyStore
<1>2. Claims(mem) = {} /\ Claims(disk) = {}
  BY <1>1 DEF Claims, EvidenceOf
<1>3. \A w \in Workers : ~Executing(w)
  BY DEF Init, Executing, Idle
<1>4. cleanup = NoCleanup /\ ~NoCleanup.held /\ NoCleanup.remove = {}
  BY DEF Init, NoCleanup
<1> QED
  BY <1>1, <1>2, <1>3, <1>4
     DEF EvidenceInv, ClaimedFilesExist, RemovalIsDurable, RunIdsAreFresh, RunOwnsItsFiles

LEMMA EvidenceNext == IInv /\ [Next]_vars => IInv'
<1> SUFFICES ASSUME IInv, [Next]_vars
             PROVE  EvidenceInv'
  BY TypeNext DEF IInv
<1>1. ASSUME NEW w \in Workers, WorkerNext(w)
      PROVE  EvidenceInv'
  BY <1>1, RequestStepsEvidence, ExecutionStepsEvidence, SaveRunEvidence DEF WorkerNext
<1>2. CASE UNCHANGED vars
  <2>1. Narrows
    BY <1>2 DEF vars, Narrows, Executing
  <2> QED
    BY <1>2, <2>1, NarrowStep DEF vars, IInv, EvidenceInv, RemovalIsDurable
<1> QED
  BY <1>1, <1>2, StoreOperationsEvidence, EnvironmentEvidence DEF Next

\* No stored record, in memory or in the checks.json a restart loads, claims an
\* evidence file that is gone: whatever the retention limits, the number of
\* concurrent requests, the order of their saves, aborts and project deletions,
\* failed writes of checks.json and kills.
THEOREM ClaimedFilesAlwaysExist == Spec => []ClaimedFilesExist
<1>1. Init => IInv
  BY TypeInit, EvidenceInit DEF IInv
<1>2. IInv => ClaimedFilesExist
  BY DEF IInv, EvidenceInv
<1> QED
  BY <1>1, <1>2, EvidenceNext, PTL DEF Spec

-----------------------------------------------------------------------------
(* Acknowledged runs: the inductive invariant. *)

Remembers(st, a) == a[1] \in DOMAIN st.runs /\ st.runs[a[1]].project = a[2]

\* Memory has to know the run as well: the next save writes memory to the disk.
\* It has to know it under the project it was acknowledged for, since a
\* deletion drops runs by their project.
AckedKnown == \A a \in acked : Remembers(mem, a) /\ Remembers(disk, a)

\* The runs of `st` that are kept as they are in `new`, but for their items.
KeepsRuns(st, new) ==
  \A r \in DOMAIN st.runs :
    r \in DOMAIN new.runs /\ new.runs[r].project = st.runs[r].project

-----------------------------------------------------------------------------
(* What the changes keep. *)

LEMMA HealKeepsRuns ==
  ASSUME NEW st, IsStore(st), NEW r \in DOMAIN st.runs, NEW t
  PROVE  KeepsRuns(st, HealFailure(st, r, t))
<1>1. HealFailure(st, r, t).runs = [st.runs EXCEPT ![r].items[t].outcome = "healed"]
  BY DEF HealFailure, IsStore
<1>2. \A q \in DOMAIN st.runs : st.runs[q] \in Run
  BY DEF IsStore, IsTable
<1> QED
  BY <1>1, <1>2 DEF KeepsRuns, Run

LEMMA InsertKeepsRuns ==
  ASSUME NEW st, IsStore(st), NEW r, r \notin DOMAIN st.runs, NEW p, NEW items
  PROVE  LET new == InsertRun(st, r, p, items)
         IN KeepsRuns(st, new) /\ r \in DOMAIN new.runs /\ new.runs[r].project = p
<1>1. InsertRun(st, r, p, items).runs =
        Put(st.runs, r, [project |-> p, at |-> st.saves, items |-> items])
  BY DEF InsertRun, IsStore
<1> QED
  BY <1>1 DEF KeepsRuns, Put

\* Only the runs of the deleted project go.
LEMMA DropKeepsRuns ==
  ASSUME NEW st, IsStore(st), NEW p, NEW a, Remembers(st, a), a[2] # p
  PROVE  Remembers(DropProject(st, p), a)
<1>1. DropProject(st, p).runs = Keep(st.runs, RunIds \ RunsOf(st, p))
  BY DEF DropProject, IsStore
<1>2. a[1] \in RunIds /\ a[1] \notin RunsOf(st, p)
  BY DEF Remembers, IsStore, IsTable, RunsOf
<1> QED
  BY <1>1, <1>2 DEF Remembers, Keep

-----------------------------------------------------------------------------
(* Steps. *)

\* A change that keeps the runs, whether its write succeeds or not.
LEMMA PersistKeepsAcked ==
  ASSUME AckedKnown, NEW st, NEW ok \in BOOLEAN, Persist(st, ok),
         KeepsRuns(mem, st), acked' = acked
  PROVE  AckedKnown'
<1>1. mem' = st /\ (disk' = st \/ disk' = disk)
  BY DEF Persist
<1>2. \A a \in acked : Remembers(st, a)
  BY DEF AckedKnown, KeepsRuns, Remembers
<1> QED
  BY <1>1, <1>2 DEF AckedKnown

LEMMA StoreOperationsAcked ==
  ASSUME IInv, AckedKnown, NEW ok \in BOOLEAN
  PROVE  /\ \A p \in Projects : CreateProject(p, ok) \/ DeleteProject(p, ok) => AckedKnown'
         /\ \A a \in AgentRuns, p \in Projects : SaveAgentRun(a, p, ok) => AckedKnown'
         /\ \A r \in RunIds, t \in Tests : Heal(r, t, ok) => AckedKnown'
         /\ \A l \in Lists, P \in SUBSET Projects, T \in SUBSET Tests, requested \in BOOLEAN :
              UpdateList(l, P, requested, T, ok) => AckedKnown'
<1>1. IsStore(mem) /\ IsStore(disk)
  BY DEF IInv, TypeInv, TypeOK
<1>2. ASSUME NEW st, st.runs = mem.runs
      PROVE  KeepsRuns(mem, st)
  BY <1>2 DEF KeepsRuns
<1>3. ASSUME NEW p \in Projects, CreateProject(p, ok)
      PROVE  AckedKnown'
  <2>1. AddProject(mem, p).runs = mem.runs
    BY <1>1 DEF AddProject, IsStore
  <2> QED
    BY <1>2, <1>3, <2>1, PersistKeepsAcked DEF CreateProject
<1>4. ASSUME NEW p \in Projects, DeleteProject(p, ok)
      PROVE  AckedKnown'
  <2>1. /\ mem' = DropProject(mem, p)
        /\ disk' = mem' \/ disk' = disk
        /\ acked' = {a \in acked : a[2] # p}
    BY <1>4 DEF DeleteProject, Persist
  <2>2. \A a \in acked' : Remembers(DropProject(mem, p), a)
    BY <1>1, <2>1, DropKeepsRuns DEF AckedKnown
  <2> QED
    BY <2>1, <2>2 DEF AckedKnown
<1>5. ASSUME NEW a \in AgentRuns, NEW p \in Projects, SaveAgentRun(a, p, ok)
      PROVE  AckedKnown'
  <2>1. AddAgentRun(mem, a, p).runs = mem.runs
    BY <1>1 DEF AddAgentRun, IsStore
  <2> QED
    BY <1>2, <1>5, <2>1, PersistKeepsAcked DEF SaveAgentRun
<1>6. ASSUME NEW r \in RunIds, NEW t \in Tests, Heal(r, t, ok)
      PROVE  AckedKnown'
  <2>1. KeepsRuns(mem, HealFailure(mem, r, t))
    BY <1>1, <1>6, HealKeepsRuns DEF Heal
  <2> QED
    BY <1>6, <2>1, PersistKeepsAcked DEF Heal
<1>7. ASSUME NEW l \in Lists, NEW P \in SUBSET Projects, NEW T \in SUBSET Tests,
             NEW requested \in BOOLEAN, UpdateList(l, P, requested, T, ok)
      PROVE  AckedKnown'
  <2>1. EditList(mem, l, P, requested, T).runs = mem.runs
    BY <1>1 DEF EditList, IsStore
  <2> QED
    BY <1>2, <1>7, <2>1, PersistKeepsAcked DEF UpdateList
<1> QED
  BY <1>3, <1>4, <1>5, <1>6, <1>7

\* A save acknowledges its run when both memory and disk have it; a run id is
\* fresh, so that no acknowledged run is overwritten.
LEMMA SaveRunAcked ==
  ASSUME IInv, AckedKnown, NEW w \in Workers, NEW ok \in BOOLEAN, SaveRun(w, ok)
  PROVE  AckedKnown'
<1> DEFINE r == flight[w].run
           p == flight[w].project
           items == flight[w].items
           inserted == InsertRun(mem, r, p, items)
           st == ClearFlags(inserted, Pruned(inserted, files))
<1>1. CASE p \in DOMAIN mem.projects
  <2>1. /\ IsStore(mem)
        /\ r \in RunIds /\ items \in Items
        /\ r \notin DOMAIN mem.runs
    BY DEF SaveRun, IInv, TypeInv, TypeOK, Request, Flight, EvidenceInv, RunOwnsItsFiles,
           Executing
  <2>2. /\ Persist(st, ok)
        /\ acked' = acked \/ (ok /\ acked' = acked \cup {<<r, p>>})
    BY <1>1 DEF SaveRun
  <2>3. IsStore(inserted)
    BY <1>1, <2>1, InsertRunShape
  <2>4. KeepsRuns(mem, inserted) /\ r \in DOMAIN inserted.runs /\ inserted.runs[r].project = p
    BY <2>1, InsertKeepsRuns
  <2>5. KeepsRuns(inserted, st)
    BY <2>3, ClearFlagsRuns DEF KeepsRuns
  <2>6. KeepsRuns(mem, st) /\ Remembers(st, <<r, p>>)
    <3> HIDE DEF inserted, st
    <3> QED
      BY <2>4, <2>5 DEF KeepsRuns, Remembers
  <2> HIDE DEF st, inserted
  <2>7. CASE acked' = acked
    BY <2>2, <2>6, <2>7, PersistKeepsAcked
  <2>8. CASE ok /\ acked' = acked \cup {<<r, p>>}
    <3>1. mem' = st /\ disk' = st
      BY <2>2, <2>8 DEF Persist
    <3>2. \A a \in acked : Remembers(st, a)
      BY <2>6 DEF AckedKnown, KeepsRuns, Remembers
    <3> QED
      BY <2>6, <2>8, <3>1, <3>2 DEF AckedKnown
  <2> QED
    BY <2>2, <2>7, <2>8
<1>2. CASE p \notin DOMAIN mem.projects
  BY <1>2 DEF SaveRun, AckedKnown, Remembers
<1> QED
  BY <1>1, <1>2

LEMMA WorkerAcked ==
  ASSUME IInv, AckedKnown, NEW w \in Workers, WorkerNext(w)
  PROVE  AckedKnown'
<1>1. IsStore(mem)
  BY DEF IInv, TypeInv, TypeOK
<1>2. ASSUME UNCHANGED <<mem, disk, acked>>
      PROVE  AckedKnown'
  BY <1>2 DEF AckedKnown, Remembers
<1>3. ASSUME NEW ok \in BOOLEAN, CreateListInsert(w, ok)
      PROVE  AckedKnown'
  <2> DEFINE st == [mem EXCEPT !.lists = Put(mem.lists, flight[w].list, flight[w].new)]
  <2>1. st.runs = mem.runs
    BY <1>1 DEF IsStore
  <2>2. KeepsRuns(mem, st) /\ Persist(st, ok) /\ acked' = acked
    BY <1>3, <2>1 DEF CreateListInsert, KeepsRuns
  <2> HIDE DEF st
  <2> QED
    BY <2>2, PersistKeepsAcked
<1>4. ASSUME NEW e \in Explorations, NEW ok \in BOOLEAN, ExploreSucceeds(w, e, ok)
      PROVE  AckedKnown'
  <2> DEFINE st == AddExploration(mem, e, flight[w].project)
  <2>1. st.runs = mem.runs
    BY <1>1 DEF AddExploration, IsStore
  <2>2. acked' = acked /\ (Persist(st, ok) \/ UNCHANGED <<mem, disk>>)
    BY <1>4 DEF ExploreSucceeds
  <2> HIDE DEF st
  <2>3. KeepsRuns(mem, st)
    BY <2>1 DEF KeepsRuns
  <2> QED
    BY <1>2, <2>2, <2>3, PersistKeepsAcked
<1> QED
  BY <1>2, <1>3, <1>4, SaveRunAcked
     DEF WorkerNext, CreateListSnapshot, StartExplore, StartProjectRun, StartListRun,
         StartTestRun, NextJob, ListRunDone, ExploreFails, CaptureTest, AbortRun

LEMMA AckedInit == Init => AckedKnown
BY DEF Init, AckedKnown

LEMMA AckedNext == IInv /\ AckedKnown /\ [Next]_vars => AckedKnown'
<1> SUFFICES ASSUME IInv, AckedKnown, [Next]_vars
             PROVE  AckedKnown'
  OBVIOUS
<1>1. ASSUME FinishCleanup \/ Age \/ UNCHANGED vars
      PROVE  AckedKnown'
  BY <1>1 DEF FinishCleanup, Age, vars, AckedKnown, Remembers
<1>2. ASSUME CrashAndReopen
      PROVE  AckedKnown'
  BY <1>2 DEF CrashAndReopen, AckedKnown
<1> QED
  BY <1>1, <1>2, StoreOperationsAcked, WorkerAcked DEF Next

\* A run whose save returned Ok is in checks.json until the deletion of its
\* project is asked for: whatever other requests save, however often a write
\* fails or the process is killed.
THEOREM AckedRunsAlwaysSurvive == Spec => []AckedRunsSurvive
<1>1. AckedKnown => AckedRunsSurvive
  BY DEF AckedKnown, Remembers, AckedRunsSurvive
<1>2. Init => IInv
  BY TypeInit, EvidenceInit DEF IInv
<1> QED
  BY <1>1, <1>2, AckedInit, AckedNext, EvidenceNext, PTL DEF Spec

-----------------------------------------------------------------------------
(* The ledger: the inductive invariant. *)

\* The same run, of which at most open failures have been healed.
SameRun(was, is) ==
  /\ is.project = was.project
  /\ DOMAIN is.items = DOMAIN was.items
  /\ \A t \in DOMAIN was.items :
       \/ is.items[t].outcome = was.items[t].outcome
       \/ was.items[t].outcome = "open" /\ is.items[t].outcome = "healed"

\* No run is without its project.
Rooted(st) == \A r \in DOMAIN st.runs : st.runs[r].project \in DOMAIN st.projects

\* `new` follows `st`: it has the runs of `st` that kept their projects.
Follows(st, new) ==
  \A r \in DOMAIN st.runs :
    /\ st.runs[r].project \in DOMAIN new.projects => r \in DOMAIN new.runs
    /\ r \in DOMAIN new.runs => SameRun(st.runs[r], new.runs[r])

\* What a restart would load is behind memory, never beside it: the next save
\* replaces one by the other.
LedgerInv ==
  /\ Rooted(mem) /\ Rooted(disk)
  /\ Follows(disk, mem)
  /\ DOMAIN mem.projects \cup DOMAIN disk.projects \subseteq minted

\* A change leaves `new` in memory: no project has come back, and neither has
\* a run that only checks.json still has.
Advances(new) ==
  /\ Rooted(new) /\ Follows(mem, new)
  /\ DOMAIN new.runs \cap DOMAIN disk.runs \subseteq DOMAIN mem.runs
  /\ DOMAIN new.projects \subseteq minted'
  /\ DOMAIN new.projects \cap minted \subseteq DOMAIN mem.projects
  /\ minted \subseteq minted'
  /\ Projects \cap minted' \subseteq minted \cup DOMAIN new.projects

\* A step as the ledger sees it.
Quiet ==
  /\ UNCHANGED <<mem, disk>>
  /\ minted \subseteq minted' /\ Projects \cap minted' \subseteq minted

LedgerStep ==
  \/ Quiet
  \/ \E st : \E ok \in BOOLEAN : Persist(st, ok) /\ Advances(st)
  \/ mem' = disk /\ UNCHANGED <<disk, minted>>

-----------------------------------------------------------------------------
(* Following. *)

LEMMA SameRunTransitive ==
  ASSUME NEW a, NEW b, NEW c, SameRun(a, b), SameRun(b, c)
  PROVE  SameRun(a, c)
BY DEF SameRun

LEMMA SameRunsFollow ==
  ASSUME NEW st, NEW new, new.runs = st.runs
  PROVE  Follows(st, new)
BY DEF Follows, SameRun

\* Following is transitive as long as nothing comes back in between.
LEMMA FollowsTransitive ==
  ASSUME NEW a, NEW b, NEW c, NEW ids, Rooted(a), Follows(a, b), Follows(b, c),
         DOMAIN c.runs \cap DOMAIN a.runs \subseteq DOMAIN b.runs,
         DOMAIN a.projects \subseteq ids, DOMAIN c.projects \cap ids \subseteq DOMAIN b.projects
  PROVE  Follows(a, c)
<1> SUFFICES ASSUME NEW r \in DOMAIN a.runs
             PROVE  /\ a.runs[r].project \in DOMAIN c.projects => r \in DOMAIN c.runs
                    /\ r \in DOMAIN c.runs => SameRun(a.runs[r], c.runs[r])
  BY DEF Follows
<1>1. r \in DOMAIN b.runs => SameRun(a.runs[r], b.runs[r])
  BY DEF Follows
<1>2. CASE a.runs[r].project \in DOMAIN c.projects
  <2>1. r \in DOMAIN b.runs
    BY <1>2 DEF Rooted, Follows
  <2>2. b.runs[r].project = a.runs[r].project
    BY <1>1, <2>1 DEF SameRun
  <2>3. r \in DOMAIN c.runs /\ SameRun(b.runs[r], c.runs[r])
    BY <1>2, <2>1, <2>2 DEF Follows
  <2> QED
    BY <1>1, <2>1, <2>3, SameRunTransitive
<1>3. CASE a.runs[r].project \notin DOMAIN c.projects
  <2>1. r \in DOMAIN c.runs => r \in DOMAIN b.runs /\ SameRun(b.runs[r], c.runs[r])
    BY DEF Follows
  <2> QED
    BY <1>1, <1>3, <2>1, SameRunTransitive
<1> QED
  BY <1>2, <1>3

LEMMA LedgerInvStep ==
  ASSUME LedgerInv, LedgerStep
  PROVE  LedgerInv'
<1>1. CASE Quiet
  BY <1>1 DEF Quiet, LedgerInv, Rooted, Follows
<1>2. ASSUME NEW st, NEW ok \in BOOLEAN, Persist(st, ok), Advances(st)
      PROVE  LedgerInv'
  <2>1. mem' = st /\ (disk' = st \/ disk' = disk)
    BY <1>2 DEF Persist
  <2>2. Follows(disk, st)
    BY <1>2, FollowsTransitive DEF LedgerInv, Advances
  <2>3. Follows(st, st)
    BY SameRunsFollow
  <2>4. /\ Rooted(st) /\ Rooted(disk)
        /\ DOMAIN st.projects \subseteq minted' /\ DOMAIN disk.projects \subseteq minted'
    BY <1>2 DEF LedgerInv, Advances
  <2> QED
    BY <2>1, <2>2, <2>3, <2>4 DEF LedgerInv
<1>3. CASE mem' = disk /\ UNCHANGED <<disk, minted>>
  BY <1>3, SameRunsFollow DEF LedgerInv
<1> QED
  BY <1>1, <1>2, <1>3 DEF LedgerStep

-----------------------------------------------------------------------------
(* What the changes keep. *)

\* A change that leaves projects and runs alone.
LEMMA SameRecordsAdvance ==
  ASSUME LedgerInv, NEW new,
         DOMAIN new.projects = DOMAIN mem.projects, new.runs = mem.runs,
         minted \subseteq minted', Projects \cap minted' \subseteq minted
  PROVE  Advances(new)
BY SameRunsFollow DEF Advances, LedgerInv, Rooted

LEMMA AddProjectAdvances ==
  ASSUME IInv, LedgerInv, NEW p \in Projects \ minted, minted' = minted \cup {p}
  PROVE  Advances(AddProject(mem, p))
<1> DEFINE new == AddProject(mem, p)
<1>1. IsStore(mem)
  BY DEF IInv, TypeInv, TypeOK
<1>2. new.runs = mem.runs /\ DOMAIN new.projects = DOMAIN mem.projects \cup {p}
  BY <1>1 DEF AddProject, IsStore, Put
<1> SUFFICES Advances(new)
  OBVIOUS
<1> HIDE DEF new
<1>3. Rooted(new) /\ Follows(mem, new)
  BY <1>2, SameRunsFollow DEF LedgerInv, Rooted
<1> QED
  BY <1>1, <1>2, <1>3 DEF Advances, LedgerInv

LEMMA DropProjectAdvances ==
  ASSUME IInv, LedgerInv, NEW p \in DOMAIN mem.projects, minted' = minted
  PROVE  Advances(DropProject(mem, p))
<1> DEFINE new == DropProject(mem, p)
<1>1. IsStore(mem)
  BY DEF IInv, TypeInv, TypeOK
<1>2. /\ new.runs = Keep(mem.runs, RunIds \ RunsOf(mem, p))
      /\ DOMAIN new.projects = DOMAIN mem.projects \ {p}
  BY <1>1 DEF DropProject, IsStore, IsTable, Keep
<1>3. /\ DOMAIN new.runs = {r \in DOMAIN mem.runs : mem.runs[r].project # p}
      /\ \A r \in DOMAIN new.runs : new.runs[r] = mem.runs[r]
  BY <1>1, <1>2 DEF IsStore, IsTable, Keep, RunsOf
<1> SUFFICES Advances(new)
  OBVIOUS
<1> HIDE DEF new
<1>4. Rooted(new) /\ Follows(mem, new)
  BY <1>2, <1>3 DEF LedgerInv, Rooted, Follows, SameRun
<1> QED
  BY <1>1, <1>2, <1>3, <1>4 DEF Advances, LedgerInv

LEMMA HealAdvances ==
  ASSUME IInv, LedgerInv, NEW r \in DOMAIN mem.runs, NEW t \in DOMAIN mem.runs[r].items,
         mem.runs[r].items[t].outcome = "open", minted' = minted
  PROVE  Advances(HealFailure(mem, r, t))
<1> DEFINE new == HealFailure(mem, r, t)
           healed == [mem.runs[r].items EXCEPT ![t].outcome = "healed"]
<1>1. IsStore(mem)
  BY DEF IInv, TypeInv, TypeOK
<1>2. new.runs = [mem.runs EXCEPT ![r].items = healed] /\ new.projects = mem.projects
  BY <1>1 DEF HealFailure, IsStore
<1>3. \A q \in DOMAIN mem.runs : mem.runs[q] \in Run /\ IsTable(mem.runs[q].items, Tests, Item)
  BY <1>1, ItemsShape DEF IsStore, IsTable, Run
<1>4. /\ DOMAIN healed = DOMAIN mem.runs[r].items
      /\ \A u \in DOMAIN healed :
           healed[u].outcome = IF u = t THEN "healed" ELSE mem.runs[r].items[u].outcome
  BY <1>3 DEF IsTable, Item
<1>5. /\ DOMAIN new.runs = DOMAIN mem.runs
      /\ \A q \in DOMAIN mem.runs : q # r => new.runs[q] = mem.runs[q]
      /\ new.runs[r].project = mem.runs[r].project
      /\ new.runs[r].items = healed
  <2> HIDE DEF healed, new
  <2> QED
    BY <1>2, <1>3 DEF Run
<1> SUFFICES Advances(new)
  OBVIOUS
<1> HIDE DEF new, healed
<1>6. \A q \in DOMAIN mem.runs : SameRun(mem.runs[q], new.runs[q])
  BY <1>4, <1>5 DEF SameRun
<1>7. Rooted(new) /\ Follows(mem, new)
  BY <1>2, <1>5, <1>6 DEF LedgerInv, Rooted, Follows, SameRun
<1> QED
  BY <1>1, <1>2, <1>7 DEF Advances, LedgerInv

\* Pruning withdraws files, never results.
LEMMA ClearFlagsSameRuns ==
  ASSUME NEW st, IsStore(st), NEW E
  PROVE  LET new == ClearFlags(st, E)
         IN /\ DOMAIN new.runs = DOMAIN st.runs
            /\ \A r \in DOMAIN st.runs : SameRun(st.runs[r], new.runs[r])
<1>1. DOMAIN ClearFlags(st, E).runs = DOMAIN st.runs
  BY ClearFlagsRuns
<1>2. ASSUME NEW r \in DOMAIN st.runs
      PROVE  SameRun(st.runs[r], ClearFlags(st, E).runs[r])
  <2>1. /\ ClearFlags(st, E).runs[r].project = st.runs[r].project
        /\ DOMAIN ClearFlags(st, E).runs[r].items = DOMAIN st.runs[r].items
    BY ClearFlagsRuns
  <2>2. ASSUME NEW t \in DOMAIN st.runs[r].items
        PROVE  ClearFlags(st, E).runs[r].items[t].outcome = st.runs[r].items[t].outcome
    BY ClearFlagsOutcome
  <2> QED
    BY <2>1, <2>2 DEF SameRun
<1> QED
  BY <1>1, <1>2

\* save_run: the run is new, under a project that is still there.
LEMMA SaveAdvances ==
  ASSUME IInv, LedgerInv, NEW r \in RunIds, r \notin DOMAIN mem.runs \cup DOMAIN disk.runs,
         NEW p \in DOMAIN mem.projects,
         NEW items \in Items, NEW E, minted' = minted
  PROVE  Advances(ClearFlags(InsertRun(mem, r, p, items), E))
<1> DEFINE inserted == InsertRun(mem, r, p, items)
           new == ClearFlags(inserted, E)
<1>1. IsStore(mem) /\ IsStore(inserted)
  BY InsertRunShape DEF IInv, TypeInv, TypeOK
<1>2. /\ inserted.runs = Put(mem.runs, r, [project |-> p, at |-> mem.saves, items |-> items])
      /\ DOMAIN inserted.projects = DOMAIN mem.projects
  BY <1>1 DEF InsertRun, IsStore
<1>3. /\ DOMAIN inserted.runs = DOMAIN mem.runs \cup {r}
      /\ inserted.runs[r].project = p
      /\ \A q \in DOMAIN mem.runs : inserted.runs[q] = mem.runs[q]
  BY <1>2 DEF Put
<1> SUFFICES Advances(new)
  OBVIOUS
<1> HIDE DEF inserted
<1>4. new.projects = inserted.projects
  BY <1>1 DEF ClearFlags, IsStore
<1>5. /\ DOMAIN new.runs = DOMAIN inserted.runs
      /\ \A q \in DOMAIN inserted.runs : SameRun(inserted.runs[q], new.runs[q])
  BY <1>1, ClearFlagsSameRuns
<1> HIDE DEF new
<1>6. Rooted(new)
  BY <1>2, <1>3, <1>4, <1>5 DEF LedgerInv, Rooted, SameRun
<1>7. Follows(mem, new)
  BY <1>3, <1>5 DEF Follows
<1> QED
  BY <1>2, <1>3, <1>4, <1>5, <1>6, <1>7 DEF Advances, LedgerInv

-----------------------------------------------------------------------------
(* Steps. *)

LEMMA StoreOperationsLedger ==
  ASSUME IInv, LedgerInv, NEW ok \in BOOLEAN
  PROVE  /\ \A p \in Projects : CreateProject(p, ok) \/ DeleteProject(p, ok) => LedgerStep
         /\ \A a \in AgentRuns, p \in Projects : SaveAgentRun(a, p, ok) => LedgerStep
         /\ \A r \in RunIds, t \in Tests : Heal(r, t, ok) => LedgerStep
         /\ \A l \in Lists, P \in SUBSET Projects, T \in SUBSET Tests, requested \in BOOLEAN :
              UpdateList(l, P, requested, T, ok) => LedgerStep
<1>1. IsStore(mem)
  BY DEF IInv, TypeInv, TypeOK
<1>2. ASSUME NEW st, Persist(st, ok), Advances(st)
      PROVE  LedgerStep
  BY <1>2 DEF LedgerStep
<1>3. ASSUME NEW p \in Projects, CreateProject(p, ok)
      PROVE  LedgerStep
  BY <1>2, <1>3, AddProjectAdvances DEF CreateProject
<1>4. ASSUME NEW p \in Projects, DeleteProject(p, ok)
      PROVE  LedgerStep
  BY <1>2, <1>4, DropProjectAdvances DEF DeleteProject
<1>5. ASSUME NEW a \in AgentRuns, NEW p \in Projects, SaveAgentRun(a, p, ok)
      PROVE  LedgerStep
  <2>1. /\ AddAgentRun(mem, a, p).projects = mem.projects
        /\ AddAgentRun(mem, a, p).runs = mem.runs
    BY <1>1 DEF AddAgentRun, IsStore
  <2>2. minted' = minted \cup {a} /\ a \notin Projects
    BY <1>5, KindAssumption DEF SaveAgentRun
  <2>3. Advances(AddAgentRun(mem, a, p))
    BY <2>1, <2>2, SameRecordsAdvance
  <2> QED
    BY <1>2, <1>5, <2>3 DEF SaveAgentRun
<1>6. ASSUME NEW r \in RunIds, NEW t \in Tests, Heal(r, t, ok)
      PROVE  LedgerStep
  BY <1>2, <1>6, HealAdvances DEF Heal
<1>7. ASSUME NEW l \in Lists, NEW P \in SUBSET Projects, NEW T \in SUBSET Tests,
             NEW requested \in BOOLEAN, UpdateList(l, P, requested, T, ok)
      PROVE  LedgerStep
  <2>1. /\ EditList(mem, l, P, requested, T).projects = mem.projects
        /\ EditList(mem, l, P, requested, T).runs = mem.runs
    BY <1>1 DEF EditList, IsStore
  <2>2. Advances(EditList(mem, l, P, requested, T))
    BY <1>7, <2>1, SameRecordsAdvance DEF UpdateList
  <2> QED
    BY <1>2, <1>7, <2>2 DEF UpdateList
<1> QED
  BY <1>3, <1>4, <1>5, <1>6, <1>7

LEMMA SaveRunLedger ==
  ASSUME IInv, LedgerInv, NEW w \in Workers, NEW ok \in BOOLEAN, SaveRun(w, ok)
  PROVE  LedgerStep
<1> DEFINE r == flight[w].run
           p == flight[w].project
           items == flight[w].items
           inserted == InsertRun(mem, r, p, items)
           pruned == Pruned(inserted, files)
           st == ClearFlags(inserted, pruned)
<1>1. CASE p \in DOMAIN mem.projects
  <2>1. r \in RunIds /\ r \notin DOMAIN mem.runs \cup DOMAIN disk.runs /\ items \in Items
    BY DEF SaveRun, IInv, TypeInv, TypeOK, Request, Flight, EvidenceInv, RunOwnsItsFiles,
           Executing
  <2>2. Persist(st, ok) /\ minted' = minted
    BY <1>1 DEF SaveRun
  <2>3. Advances(st)
    BY <1>1, <2>1, <2>2, SaveAdvances
  <2> HIDE DEF st
  <2> QED
    BY <2>2, <2>3 DEF LedgerStep
<1>2. CASE p \notin DOMAIN mem.projects
  BY <1>2 DEF SaveRun, LedgerStep, Quiet
<1> QED
  BY <1>1, <1>2

LEMMA WorkerLedger ==
  ASSUME IInv, LedgerInv, NEW w \in Workers, WorkerNext(w)
  PROVE  LedgerStep
<1>1. IsStore(mem)
  BY DEF IInv, TypeInv, TypeOK
<1>2. ASSUME NEW ok \in BOOLEAN, CreateListInsert(w, ok)
      PROVE  LedgerStep
  <2> DEFINE st == [mem EXCEPT !.lists = Put(mem.lists, flight[w].list, flight[w].new)]
  <2>1. st.projects = mem.projects /\ st.runs = mem.runs
    BY <1>1 DEF IsStore
  <2>2. Persist(st, ok) /\ minted' = minted
    BY <1>2 DEF CreateListInsert
  <2> HIDE DEF st
  <2>3. Advances(st)
    BY <2>1, <2>2, SameRecordsAdvance
  <2> QED
    BY <2>2, <2>3 DEF LedgerStep
<1>3. ASSUME NEW e \in Explorations, NEW ok \in BOOLEAN, ExploreSucceeds(w, e, ok)
      PROVE  LedgerStep
  <2> DEFINE st == AddExploration(mem, e, flight[w].project)
  <2>1. DOMAIN st.projects = DOMAIN mem.projects /\ st.runs = mem.runs
    BY <1>1 DEF AddExploration, IsStore
  <2>2. /\ Persist(st, ok) \/ UNCHANGED <<mem, disk>>
        /\ minted' = minted \cup {e} /\ e \notin Projects
    BY <1>3, KindAssumption DEF ExploreSucceeds
  <2> HIDE DEF st
  <2>3. Advances(st)
    BY <2>1, <2>2, SameRecordsAdvance
  <2> QED
    BY <2>2, <2>3 DEF LedgerStep, Quiet
<1>4. ASSUME NEW id \in RunIds \cup Lists,
             UNCHANGED <<mem, disk>>, minted' = minted \/ minted' = minted \cup {id}
      PROVE  LedgerStep
  BY <1>4, KindAssumption DEF LedgerStep, Quiet
<1>5. ASSUME UNCHANGED <<mem, disk, minted>>
      PROVE  LedgerStep
  BY <1>5 DEF LedgerStep, Quiet
<1>6. ASSUME NEW c \in Tenants, NEW l \in Lists, CreateListSnapshot(w, c, l)
      PROVE  LedgerStep
  BY <1>4, <1>6 DEF CreateListSnapshot
<1>7. ASSUME NEW t \in Tests, NEW r \in RunIds, StartTestRun(w, t, r)
      PROVE  LedgerStep
  BY <1>4, <1>7 DEF StartTestRun
<1>8. ASSUME NEW r \in RunIds, NextJob(w, r)
      PROVE  LedgerStep
  BY <1>4, <1>8 DEF NextJob
<1> QED
  BY <1>2, <1>3, <1>5, <1>6, <1>7, <1>8, SaveRunLedger
     DEF WorkerNext, StartExplore, StartProjectRun, StartListRun, ListRunDone, ExploreFails,
         CaptureTest, AbortRun

LEMMA EveryStepLedger ==
  ASSUME IInv, LedgerInv, [Next]_vars
  PROVE  LedgerStep
<1>1. ASSUME FinishCleanup \/ Age \/ UNCHANGED vars
      PROVE  LedgerStep
  BY <1>1 DEF FinishCleanup, Age, vars, LedgerStep, Quiet
<1>2. ASSUME CrashAndReopen
      PROVE  LedgerStep
  BY <1>2 DEF CrashAndReopen, LedgerStep
<1> QED
  BY <1>1, <1>2, StoreOperationsLedger, WorkerLedger DEF Next

-----------------------------------------------------------------------------
(* The refinement. *)

Runs == [r \in DOMAIN disk.runs |-> Recorded(disk.runs[r])]

\* Where a project stands, by where its record is.
LEMMA StandingCases ==
  ASSUME NEW p
  PROVE  /\ p \in DOMAIN disk.projects => Standing(p) = "live"
         /\ p \notin DOMAIN disk.projects /\ p \in DOMAIN mem.projects => Standing(p) = "pending"
         /\ p \notin DOMAIN disk.projects \cup DOMAIN mem.projects =>
              Standing(p) = IF p \in minted THEN "dead" ELSE "unborn"
BY DEF Standing

LEMMA StandingCasesPrime ==
  ASSUME NEW p
  PROVE  /\ p \in DOMAIN disk'.projects => Standing(p)' = "live"
         /\ p \notin DOMAIN disk'.projects /\ p \in DOMAIN mem'.projects =>
              Standing(p)' = "pending"
         /\ p \notin DOMAIN disk'.projects \cup DOMAIN mem'.projects =>
              Standing(p)' = IF p \in minted' THEN "dead" ELSE "unborn"
BY DEF Standing

\* Memory changes and checks.json does not: a failed write, or a restart.
LEMMA UnwrittenRefines ==
  ASSUME LedgerInv, disk' = disk,
         \/ Quiet
         \/ \E st : mem' = st /\ Advances(st)
         \/ mem' = disk /\ minted' = minted
  PROVE  Ledger!Unwritten
<1>1. ASSUME NEW p \in Projects
      PROVE  \/ Standing(p)' = Standing(p)
             \/ Standing(p) = "unborn" /\ Standing(p)' = "pending"
             \/ Standing(p) = "pending" /\ Standing(p)' = "dead"
  BY <1>1, StandingCases, StandingCasesPrime DEF LedgerInv, Quiet, Advances
<1>2. Runs' = Runs
  BY DEF Runs, Recorded
<1> QED
  BY <1>1, <1>2 DEF Ledger!Unwritten, Runs

\* checks.json is replaced by what memory holds after a change.
LEMMA ReplacedRefines ==
  ASSUME IsStore(disk), IsStore(disk)', LedgerInv, LedgerInv', mem' = disk',
         Advances(disk')
  PROVE  Ledger!Replaced
<1>1. ASSUME NEW p \in Projects
      PROVE  \/ Standing(p)' = Standing(p)
             \/ Standing(p) \in {"unborn", "pending"} /\ Standing(p)' = "live"
             \/ Standing(p) \in {"pending", "live"} /\ Standing(p)' = "dead"
  BY <1>1, StandingCases, StandingCasesPrime DEF LedgerInv, Advances
<1>2. \A r \in DOMAIN disk.runs : disk.runs[r].project \in Projects
  BY DEF IsStore, IsTable, Run
<1>3. \A r \in DOMAIN disk'.runs : disk'.runs[r].project \in Projects
  BY DEF IsStore, IsTable, Run
<1>4. Follows(disk, disk')
  BY FollowsTransitive DEF LedgerInv, Advances
<1>5. ASSUME NEW r \in DOMAIN disk.runs, NEW p, disk.runs[r].project = p
      PROVE  IF Standing(p)' = "dead"
             THEN r \notin DOMAIN disk'.runs
             ELSE r \in DOMAIN disk'.runs /\ SameRun(disk.runs[r], disk'.runs[r])
  <2>1. p \in DOMAIN disk.projects /\ p \in minted'
    BY <1>5 DEF LedgerInv, Rooted, Advances
  <2>2. CASE p \in DOMAIN disk'.projects
    BY <1>4, <1>5, <2>2, StandingCasesPrime DEF Follows
  <2>3. CASE p \notin DOMAIN disk'.projects
    <3>1. Standing(p)' = "dead"
      BY <2>1, <2>3, StandingCasesPrime
    <3>2. r \in DOMAIN disk'.runs => disk'.runs[r].project = p
      BY <1>4, <1>5 DEF Follows, SameRun
    <3>3. r \notin DOMAIN disk'.runs
      BY <2>3, <3>2 DEF LedgerInv, Rooted
    <3> QED
      BY <3>1, <3>3
  <2> QED
    BY <2>2, <2>3
<1>6. ASSUME NEW r \in DOMAIN disk'.runs, NEW p, disk'.runs[r].project = p
      PROVE  Standing(p)' = "live"
  BY <1>6, StandingCasesPrime DEF LedgerInv, Rooted
<1>7. ASSUME NEW r \in DOMAIN disk.runs, NEW q \in DOMAIN disk'.runs,
             SameRun(disk.runs[r], disk'.runs[q])
      PROVE  /\ Recorded(disk'.runs[q]).project = Recorded(disk.runs[r]).project
             /\ Ledger!Healed(Recorded(disk.runs[r]).outcomes, Recorded(disk'.runs[q]).outcomes)
  BY <1>7 DEF SameRun, Recorded, Ledger!Healed
<1> QED
  BY <1>1, <1>2, <1>3, <1>5, <1>6, <1>7 DEF Ledger!Replaced, Recorded

LEMMA LedgerInit == Init => LedgerInv /\ Ledger!Init
BY DEF Init, EmptyStore, LedgerInv, Rooted, Follows, Standing, Ledger!Init

\* Every step of the store is one of the ledger, and keeps the invariant.
LEMMA LedgerNext ==
  ASSUME IInv, IInv', LedgerInv, [Next]_vars
  PROVE  LedgerInv' /\ [Ledger!Next]_Ledger!vars
<1>1. LedgerStep
  BY EveryStepLedger
<1>2. LedgerInv'
  BY <1>1, LedgerInvStep
<1>3. IsStore(disk) /\ IsStore(disk)'
  BY DEF IInv, TypeInv, TypeOK
<1>4. ASSUME Quiet \/ (mem' = disk /\ UNCHANGED <<disk, minted>>)
      PROVE  Ledger!Next
  <2>1. disk' = disk
    BY <1>4 DEF Quiet
  <2>2. Ledger!Unwritten
    BY <1>4, <2>1, UnwrittenRefines
  <2> QED
    BY <2>2 DEF Ledger!Next
<1>5. ASSUME NEW st, NEW ok \in BOOLEAN, Persist(st, ok), Advances(st)
      PROVE  Ledger!Next
  <2>1. mem' = st /\ (disk' = st \/ disk' = disk)
    BY <1>5 DEF Persist
  <2>2. CASE disk' = disk
    BY <1>5, <2>1, <2>2, UnwrittenRefines DEF Ledger!Next
  <2>3. CASE disk' = st
    BY <1>2, <1>3, <1>5, <2>1, <2>3, ReplacedRefines DEF Ledger!Next
  <2> QED
    BY <2>1, <2>2, <2>3
<1>6. Ledger!Next
  BY <1>1, <1>4, <1>5 DEF LedgerStep
<1> QED
  BY <1>2, <1>6

\* ChecksStore implements RunLedger: checks.json never brings back a deleted
\* project or run, and keeps each recorded run and its results (but for
\* healing) as long as its project lives, for any requests in flight, failed
\* writes and kills.
THEOREM LedgerAlwaysKept == Spec => LedgerKept
<1>1. Init => IInv
  BY TypeInit, EvidenceInit DEF IInv
<1>2. IInv /\ [Next]_vars => IInv'
  BY EvidenceNext
<1>3. IInv /\ IInv' /\ LedgerInv /\ [Next]_vars => LedgerInv' /\ [Ledger!Next]_Ledger!vars
  BY LedgerNext
<1> QED
  BY <1>1, <1>2, <1>3, LedgerInit, PTL DEF Spec, LedgerKept, Ledger!Spec

-----------------------------------------------------------------------------
(* Records that agree: the inductive invariant. *)

\* RecordsHaveProjects, of one state.
Anchored(st) ==
  /\ \A r \in DOMAIN st.runs :
       /\ st.runs[r].project \in DOMAIN st.projects
       /\ \A t \in DOMAIN st.runs[r].items : ProjectOf[t] = st.runs[r].project
  /\ \A e \in DOMAIN st.explorations : st.explorations[e] \in DOMAIN st.projects
  /\ \A a \in DOMAIN st.agentRuns : st.agentRuns[a] \in DOMAIN st.projects
  /\ DOMAIN st.tests = {t \in Tests : ProjectOf[t] \in DOMAIN st.projects}
  /\ \A p \in DOMAIN st.projects :
       /\ st.projects[p].latest # None => st.projects[p].latest \in RunsOf(st, p)
       /\ st.projects[p].exploration # None =>
            /\ st.projects[p].exploration \in DOMAIN st.explorations
            /\ st.explorations[st.projects[p].exploration] = p

\* StatusWitnessed, of one test.
Backed(st, t) ==
  LET test == st.tests[t]
  IN IF test.status = "idle"
     THEN test.latest = None
     ELSE /\ test.latest \in DOMAIN st.runs
          /\ t \in DOMAIN st.runs[test.latest].items
          /\ st.runs[test.latest].items[t].outcome = IF test.status = "passed" THEN "passed" ELSE "open"

Witnessed(st) == \A t \in DOMAIN st.tests : Backed(st, t)

\* A list of its own tenant.
Owned(list) ==
  /\ \A p \in list.projects : TenantOf[p] = list.tenant
  /\ \A t \in list.tests : TenantOf[ProjectOf[t]] = list.tenant

ListsOwned(st) == \A l \in DOMAIN st.lists : Owned(st.lists[l])

Sound(st) == Anchored(st) /\ Witnessed(st) /\ ListsOwned(st)

\* A request carries only tests of its projects, fresh results, and ids of its
\* caller's tenant.
Proper(x) ==
  /\ \A job \in x.jobs : job.tests \subseteq TestsOf(job.project) /\ TenantOf[job.project] = x.ctx
  /\ x.project # None => TenantOf[x.project] = x.ctx
  /\ x.pc \in {"runExplore", "capture"} =>
       /\ x.todo \cup DOMAIN x.items \subseteq TestsOf(x.project)
       /\ \A t \in DOMAIN x.items : x.items[t].outcome \in {"passed", "open"}
  /\ x.pc = "insertList" => Owned(x.new)

\* An exploration's id is new when it is saved, so that no link changes its target.
RecordsInv ==
  /\ Sound(mem) /\ Sound(disk)
  /\ DOMAIN mem.explorations \cup DOMAIN disk.explorations \subseteq minted
  /\ \A w \in Workers : Proper(flight[w])

-----------------------------------------------------------------------------
(* What the changes keep. *)

LEMMA EmptySound == Sound(EmptyStore)
BY DEF Sound, Anchored, Witnessed, ListsOwned, EmptyStore, IdAssumption

\* A change that touches only the lists.
LEMMA ListChangeSound ==
  ASSUME NEW st, NEW new, Sound(st), ListsOwned(new),
         new.projects = st.projects, new.tests = st.tests, new.runs = st.runs,
         new.explorations = st.explorations, new.agentRuns = st.agentRuns
  PROVE  Sound(new)
BY DEF Sound, Anchored, Witnessed, Backed, RunsOf

LEMMA AddProjectSound ==
  ASSUME NEW st, IsStore(st), Sound(st), NEW p \in Projects, p \notin DOMAIN st.projects
  PROVE  Sound(AddProject(st, p))
<1> DEFINE new == AddProject(st, p)
<1>1. /\ new.projects = Put(st.projects, p, [latest |-> None, exploration |-> None])
      /\ new.tests = [t \in DOMAIN st.tests \cup TestsOf(p) |->
            IF t \in TestsOf(p) THEN [status |-> "idle", latest |-> None] ELSE st.tests[t]]
      /\ new.runs = st.runs /\ new.explorations = st.explorations
      /\ new.agentRuns = st.agentRuns /\ new.lists = st.lists
  BY DEF AddProject, IsStore
<1>2. /\ DOMAIN new.projects = DOMAIN st.projects \cup {p}
      /\ new.projects[p].latest = None /\ new.projects[p].exploration = None
      /\ \A q \in DOMAIN st.projects : new.projects[q] = st.projects[q]
  BY <1>1 DEF Put
<1> SUFFICES Sound(new)
  OBVIOUS
<1> HIDE DEF new
<1>3. DOMAIN new.tests = {t \in Tests : ProjectOf[t] \in DOMAIN new.projects}
  BY <1>1, <1>2 DEF Sound, Anchored, TestsOf
<1>4. Anchored(new)
  BY <1>1, <1>2, <1>3 DEF Sound, Anchored, RunsOf
<1>5. ASSUME NEW t \in DOMAIN new.tests PROVE Backed(new, t)
  <2>1. CASE t \in TestsOf(p) BY <1>1, <2>1 DEF Backed
  <2>2. CASE t \notin TestsOf(p) BY <1>1, <2>2 DEF Backed, Sound, Witnessed
  <2>. QED BY <2>1, <2>2
<1>. QED BY <1>1, <1>4, <1>5 DEF Sound, Witnessed, ListsOwned

\* With a project go its runs, and no test of another project was backed by one.
LEMMA DropProjectSound ==
  ASSUME NEW st, IsStore(st), Sound(st), NEW p \in Projects
  PROVE  Sound(DropProject(st, p))
<1> DEFINE new == DropProject(st, p)
<1>1. /\ new.projects = Keep(st.projects, Projects \ {p})
      /\ new.tests = Keep(st.tests, Tests \ TestsOf(p))
      /\ new.runs = Keep(st.runs, RunIds \ RunsOf(st, p))
      /\ new.explorations =
           Keep(st.explorations, {e \in DOMAIN st.explorations : st.explorations[e] # p})
      /\ new.agentRuns = Keep(st.agentRuns, {a \in DOMAIN st.agentRuns : st.agentRuns[a] # p})
      /\ new.lists = [l \in DOMAIN st.lists |->
            IF st.lists[l].tenant = TenantOf[p]
            THEN [st.lists[l] EXCEPT !.projects = st.lists[l].projects \ {p}]
            ELSE st.lists[l]]
  BY DEF DropProject, IsStore
<1>2. /\ DOMAIN new.projects = DOMAIN st.projects \ {p}
      /\ \A q \in DOMAIN new.projects : new.projects[q] = st.projects[q]
  BY <1>1 DEF Keep, IsStore, IsTable
<1>3. /\ DOMAIN new.runs = {r \in DOMAIN st.runs : st.runs[r].project # p}
      /\ \A r \in DOMAIN new.runs : new.runs[r] = st.runs[r]
  BY <1>1 DEF Keep, RunsOf, IsStore, IsTable
<1>4. /\ DOMAIN new.tests = {t \in DOMAIN st.tests : ProjectOf[t] # p}
      /\ \A t \in DOMAIN new.tests : new.tests[t] = st.tests[t]
  BY <1>1 DEF Keep, TestsOf, IsStore, IsTable
<1>5. /\ DOMAIN new.explorations = {e \in DOMAIN st.explorations : st.explorations[e] # p}
      /\ \A e \in DOMAIN new.explorations : new.explorations[e] = st.explorations[e]
      /\ DOMAIN new.agentRuns = {a \in DOMAIN st.agentRuns : st.agentRuns[a] # p}
      /\ \A a \in DOMAIN new.agentRuns : new.agentRuns[a] = st.agentRuns[a]
  BY <1>1 DEF Keep
<1>6. \A l \in DOMAIN st.lists :
        /\ new.lists[l].tenant = st.lists[l].tenant
        /\ new.lists[l].projects \subseteq st.lists[l].projects
        /\ new.lists[l].tests = st.lists[l].tests
  BY <1>1 DEF IsStore, IsTable, List
<1>7. DOMAIN new.lists = DOMAIN st.lists BY <1>1
<1> SUFFICES Sound(new)
  OBVIOUS
<1> HIDE DEF new
<1>8. Anchored(new)
  BY <1>2, <1>3, <1>4, <1>5 DEF Sound, Anchored, RunsOf
<1>9. ASSUME NEW t \in DOMAIN new.tests PROVE Backed(new, t)
  <2>1. Backed(st, t) /\ ProjectOf[t] # p BY <1>4 DEF Sound, Witnessed
  <2>2. ASSUME NEW r \in DOMAIN st.runs, t \in DOMAIN st.runs[r].items PROVE r \in DOMAIN new.runs
    BY <1>3, <2>1, <2>2 DEF Sound, Anchored
  <2>. QED BY <1>3, <1>4, <2>1, <2>2 DEF Backed
<1>10. ListsOwned(new) BY <1>6, <1>7 DEF Sound, ListsOwned, Owned
<1>. QED BY <1>8, <1>9, <1>10 DEF Sound, Witnessed

LEMMA AddExplorationSound ==
  ASSUME NEW st, IsStore(st), Sound(st), NEW e, e \notin DOMAIN st.explorations, NEW p \in DOMAIN st.projects
  PROVE  Sound(AddExploration(st, e, p))
<1> DEFINE new == AddExploration(st, e, p)
<1>1. /\ new.projects = [st.projects EXCEPT ![p].exploration = e]
      /\ new.explorations = Put(st.explorations, e, p)
      /\ new.tests = st.tests /\ new.runs = st.runs
      /\ new.agentRuns = st.agentRuns /\ new.lists = st.lists
  BY DEF AddExploration, IsStore
<1>2. /\ DOMAIN new.projects = DOMAIN st.projects
      /\ \A q \in DOMAIN st.projects :
           /\ new.projects[q].latest = st.projects[q].latest
           /\ new.projects[q].exploration = IF q = p THEN e ELSE st.projects[q].exploration
  BY <1>1 DEF IsStore, IsTable, ProjectRow
<1>3. /\ DOMAIN new.explorations = DOMAIN st.explorations \cup {e}
      /\ new.explorations[e] = p
      /\ \A x \in DOMAIN st.explorations : new.explorations[x] = st.explorations[x]
  BY <1>1 DEF Put
<1> SUFFICES Sound(new)
  OBVIOUS
<1> HIDE DEF new
<1>4. Anchored(new)
  BY <1>1, <1>2, <1>3 DEF Sound, Anchored, RunsOf
<1>. QED BY <1>1, <1>4 DEF Sound, Witnessed, Backed, ListsOwned

LEMMA AddAgentRunSound ==
  ASSUME NEW st, IsStore(st), Sound(st), NEW a, NEW p \in DOMAIN st.projects
  PROVE  Sound(AddAgentRun(st, a, p))
<1> DEFINE new == AddAgentRun(st, a, p)
<1>1. /\ new.agentRuns = Put(st.agentRuns, a, p)
      /\ new.projects = st.projects /\ new.tests = st.tests /\ new.runs = st.runs
      /\ new.explorations = st.explorations /\ new.lists = st.lists
  BY DEF AddAgentRun, IsStore
<1> SUFFICES Sound(new)
  OBVIOUS
<1> HIDE DEF new
<1>2. Anchored(new)
  BY <1>1 DEF Sound, Anchored, RunsOf, Put
<1>. QED BY <1>1, <1>2 DEF Sound, Witnessed, Backed, ListsOwned

\* save_run: fresh results of tests of its own project.
LEMMA InsertRunSound ==
  ASSUME NEW st, IsStore(st), Sound(st), NEW r \in RunIds, r \notin DOMAIN st.runs,
         NEW p \in DOMAIN st.projects,
         NEW items, DOMAIN items \subseteq TestsOf(p),
         \A t \in DOMAIN items : items[t].outcome \in {"passed", "open"}
  PROVE  Sound(InsertRun(st, r, p, items))
<1> DEFINE new == InsertRun(st, r, p, items)
<1>1. /\ new.projects = [st.projects EXCEPT ![p].latest = r]
      /\ new.tests = [t \in DOMAIN st.tests |->
            IF t \in TestsOf(p) \cap DOMAIN items
            THEN [status |-> IF items[t].outcome = "passed" THEN "passed" ELSE "attention",
                  latest |-> r]
            ELSE st.tests[t]]
      /\ new.runs = Put(st.runs, r, [project |-> p, at |-> st.saves, items |-> items])
      /\ new.explorations = st.explorations /\ new.agentRuns = st.agentRuns
      /\ new.lists = st.lists
  BY DEF InsertRun, IsStore
<1>2. /\ DOMAIN new.projects = DOMAIN st.projects
      /\ \A q \in DOMAIN st.projects :
           /\ new.projects[q].exploration = st.projects[q].exploration
           /\ new.projects[q].latest = IF q = p THEN r ELSE st.projects[q].latest
  BY <1>1 DEF IsStore, IsTable, ProjectRow
<1>3. /\ DOMAIN new.runs = DOMAIN st.runs \cup {r}
      /\ new.runs[r].project = p /\ new.runs[r].items = items
      /\ \A q \in DOMAIN st.runs : new.runs[q] = st.runs[q]
  BY <1>1 DEF Put
<1>4. /\ DOMAIN new.tests = DOMAIN st.tests
      /\ \A t \in DOMAIN st.tests \cap DOMAIN items :
           /\ new.tests[t].status = IF items[t].outcome = "passed" THEN "passed" ELSE "attention"
           /\ new.tests[t].latest = r
      /\ \A t \in DOMAIN st.tests \ DOMAIN items : new.tests[t] = st.tests[t]
  BY <1>1
<1> SUFFICES Sound(new)
  OBVIOUS
<1> HIDE DEF new
<1>5. Anchored(new)
  BY <1>1, <1>2, <1>3, <1>4 DEF Sound, Anchored, RunsOf, TestsOf
<1>6. ASSUME NEW t \in DOMAIN new.tests PROVE Backed(new, t)
  <2>1. CASE t \in DOMAIN items BY <1>3, <1>4, <2>1 DEF Backed
  <2>2. CASE t \notin DOMAIN items
    BY <1>3, <1>4, <2>2 DEF Backed, Sound, Witnessed
  <2>. QED BY <2>1, <2>2
<1>. QED BY <1>1, <1>5, <1>6 DEF Sound, Witnessed, ListsOwned

LEMMA ClearFlagsSound ==
  ASSUME NEW st, IsStore(st), Sound(st), NEW E
  PROVE  Sound(ClearFlags(st, E))
<1> DEFINE new == ClearFlags(st, E)
<1>1. /\ new.projects = st.projects /\ new.tests = st.tests
      /\ new.explorations = st.explorations /\ new.agentRuns = st.agentRuns
      /\ new.lists = st.lists
  BY DEF ClearFlags, IsStore
<1>2. /\ DOMAIN new.runs = DOMAIN st.runs
      /\ \A r \in DOMAIN st.runs :
           /\ new.runs[r].project = st.runs[r].project
           /\ DOMAIN new.runs[r].items = DOMAIN st.runs[r].items
           /\ \A t \in DOMAIN st.runs[r].items :
                new.runs[r].items[t].outcome = st.runs[r].items[t].outcome
  BY ClearFlagsSameRuns, ClearFlagsOutcome DEF SameRun
<1> SUFFICES Sound(new)
  OBVIOUS
<1> HIDE DEF new
<1>3. Anchored(new) BY <1>1, <1>2 DEF Sound, Anchored, RunsOf
<1>4. Witnessed(new) BY <1>1, <1>2 DEF Sound, Witnessed, Backed
<1>. QED BY <1>1, <1>3, <1>4 DEF Sound, ListsOwned

\* heal_failure: the test the bundle is of becomes idle, and no other test has
\* the item as its witness.
LEMMA HealFailureSound ==
  ASSUME NEW st, IsStore(st), Sound(st), NEW r \in DOMAIN st.runs, NEW t \in DOMAIN st.runs[r].items
  PROVE  Sound(HealFailure(st, r, t))
<1> DEFINE new == HealFailure(st, r, t)
           healed == [st.runs[r].items EXCEPT ![t].outcome = "healed"]
<1>1. /\ new.runs = [st.runs EXCEPT ![r].items = healed]
      /\ new.tests = [u \in DOMAIN st.tests |->
            IF u = t THEN [status |-> "idle", latest |-> None] ELSE st.tests[u]]
      /\ new.projects = st.projects
      /\ new.explorations = st.explorations /\ new.agentRuns = st.agentRuns
      /\ new.lists = st.lists
  BY DEF HealFailure, IsStore
<1>2. \A q \in DOMAIN st.runs : st.runs[q] \in Run
  BY DEF IsStore, IsTable
<1>3. DOMAIN healed = DOMAIN st.runs[r].items
      /\ \A u \in DOMAIN healed : u # t => healed[u] = st.runs[r].items[u]
  OBVIOUS
<1>4. /\ DOMAIN new.runs = DOMAIN st.runs
      /\ \A q \in DOMAIN st.runs :
           /\ new.runs[q].project = st.runs[q].project
           /\ new.runs[q].items = IF q = r THEN healed ELSE st.runs[q].items
  <2> HIDE DEF healed, new
  <2>. QED BY <1>1, <1>2 DEF Run
<1>5. /\ DOMAIN new.tests = DOMAIN st.tests
      /\ \A u \in DOMAIN st.tests :
           IF u = t THEN new.tests[u].status = "idle" /\ new.tests[u].latest = None
                    ELSE new.tests[u] = st.tests[u]
  BY <1>1
<1> SUFFICES Sound(new)
  OBVIOUS
<1> HIDE DEF new, healed
<1>6. \A q \in DOMAIN st.runs : DOMAIN new.runs[q].items = DOMAIN st.runs[q].items
  BY <1>3, <1>4
<1>7. Anchored(new) BY <1>1, <1>4, <1>5, <1>6 DEF Sound, Anchored, RunsOf
<1>8. ASSUME NEW u \in DOMAIN new.tests PROVE Backed(new, u)
  <2>1. CASE u = t BY <1>5, <2>1 DEF Backed
  <2>2. CASE u # t
    <3>1. \A q \in DOMAIN st.runs : u \in DOMAIN st.runs[q].items =>
            new.runs[q].items[u] = st.runs[q].items[u]
      BY <1>3, <1>4, <2>2
    <3>2. new.tests[u] = st.tests[u] /\ Backed(st, u)
      BY <1>5, <2>2 DEF Sound, Witnessed
    <3>. QED BY <1>4, <1>6, <3>1, <3>2 DEF Backed
  <2>. QED BY <2>1, <2>2
<1>. QED BY <1>1, <1>7, <1>8 DEF Sound, Witnessed, ListsOwned

-----------------------------------------------------------------------------
(* Steps. *)

LEMMA PersistRecords ==
  ASSUME RecordsInv, NEW st, NEW ok \in BOOLEAN, Persist(st, ok), Sound(st),
         minted \subseteq minted', DOMAIN st.explorations \subseteq minted',
         \A w \in Workers : Proper(flight'[w])
  PROVE  RecordsInv'
<1>1. mem' = st /\ (disk' = st \/ disk' = disk)
  BY DEF Persist
<1>. QED BY <1>1 DEF RecordsInv

\* A step that only moves one request.
LEMMA RequestRecords ==
  ASSUME TypeInv, RecordsInv, UNCHANGED <<mem, disk>>, minted \subseteq minted',
         NEW w \in Workers, NEW x, Proper(x), flight' = [flight EXCEPT ![w] = x]
  PROVE  RecordsInv'
<1>1. \A v \in Workers : Proper(flight'[v])
  BY DEF RecordsInv, TypeInv
<1>. QED BY <1>1 DEF RecordsInv

LEMMA IdleProper ==
  ASSUME NEW w \in Workers, TypeInv, RecordsInv, Return(w)
  PROVE  Proper(Idle) /\ \A v \in Workers : Proper(flight'[v])
<1>1. Proper(Idle) BY DEF Proper, Idle
<1>. QED BY <1>1 DEF Return, RecordsInv, TypeInv

LEMMA StoreOperationsRecords ==
  ASSUME IInv, LedgerInv, RecordsInv, NEW ok \in BOOLEAN
  PROVE  /\ \A p \in Projects : CreateProject(p, ok) \/ DeleteProject(p, ok) => RecordsInv'
         /\ \A a \in AgentRuns, p \in Projects : SaveAgentRun(a, p, ok) => RecordsInv'
         /\ \A r \in RunIds, t \in Tests : Heal(r, t, ok) => RecordsInv'
         /\ \A l \in Lists, P \in SUBSET Projects, T \in SUBSET Tests, requested \in BOOLEAN :
              UpdateList(l, P, requested, T, ok) => RecordsInv'
<1>1. IsStore(mem) /\ Sound(mem) /\ DOMAIN mem.explorations \subseteq minted
      /\ \A w \in Workers : Proper(flight[w])
  BY DEF IInv, TypeInv, TypeOK, RecordsInv
<1>2. ASSUME NEW p \in Projects, CreateProject(p, ok) PROVE RecordsInv'
  <2>1. Sound(AddProject(mem, p))
    BY <1>1, <1>2, AddProjectSound DEF CreateProject, LedgerInv
  <2>2. AddProject(mem, p).explorations = mem.explorations
    BY <1>1 DEF AddProject, IsStore
  <2>. QED BY <1>1, <1>2, <2>1, <2>2, PersistRecords DEF CreateProject
<1>3. ASSUME NEW p \in Projects, DeleteProject(p, ok) PROVE RecordsInv'
  <2>1. Sound(DropProject(mem, p)) BY <1>1, DropProjectSound
  <2>2. DOMAIN DropProject(mem, p).explorations \subseteq DOMAIN mem.explorations
    BY <1>1 DEF DropProject, IsStore, Keep
  <2>. QED BY <1>1, <1>3, <2>1, <2>2, PersistRecords DEF DeleteProject
<1>4. ASSUME NEW a \in AgentRuns, NEW p \in Projects, SaveAgentRun(a, p, ok) PROVE RecordsInv'
  <2>1. Sound(AddAgentRun(mem, a, p)) BY <1>1, <1>4, AddAgentRunSound DEF SaveAgentRun
  <2>2. AddAgentRun(mem, a, p).explorations = mem.explorations
    BY <1>1 DEF AddAgentRun, IsStore
  <2>. QED BY <1>1, <1>4, <2>1, <2>2, PersistRecords DEF SaveAgentRun
<1>5. ASSUME NEW r \in RunIds, NEW t \in Tests, Heal(r, t, ok) PROVE RecordsInv'
  <2>1. Sound(HealFailure(mem, r, t)) BY <1>1, <1>5, HealFailureSound DEF Heal
  <2>2. HealFailure(mem, r, t).explorations = mem.explorations
    BY <1>1 DEF HealFailure, IsStore
  <2>. QED BY <1>1, <1>5, <2>1, <2>2, PersistRecords DEF Heal
<1>6. ASSUME NEW l \in Lists, NEW P \in SUBSET Projects, NEW T \in SUBSET Tests,
             NEW requested \in BOOLEAN, UpdateList(l, P, requested, T, ok)
      PROVE  RecordsInv'
  <2> DEFINE new == EditList(mem, l, P, requested, T)
             edited == [tenant |-> mem.lists[l].tenant, projects |-> P \cap DOMAIN mem.projects,
                        tests |-> IF requested THEN T \cap DOMAIN mem.tests ELSE mem.lists[l].tests]
  <2>1. /\ l \in DOMAIN mem.lists
        /\ P \subseteq ProjectsOfTenant(mem, mem.lists[l].tenant)
        /\ T \subseteq TestsOfTenant(mem, mem.lists[l].tenant)
    BY <1>6 DEF UpdateList
  <2>2. /\ new.lists = [mem.lists EXCEPT ![l] = edited]
        /\ new.projects = mem.projects /\ new.tests = mem.tests /\ new.runs = mem.runs
        /\ new.explorations = mem.explorations /\ new.agentRuns = mem.agentRuns
    BY <1>1 DEF EditList, IsStore
  <2>3. Owned(edited)
    BY <1>1, <2>1 DEF Owned, Sound, ListsOwned, ProjectsOfTenant, TestsOfTenant
  <2>4. Persist(new, ok) /\ flight' = flight /\ minted' = minted BY <1>6 DEF UpdateList
  <2> HIDE DEF new, edited
  <2>5. ListsOwned(new) BY <1>1, <2>2, <2>3 DEF Sound, ListsOwned
  <2>6. Sound(new) BY <1>1, <2>2, <2>5, ListChangeSound
  <2>. QED BY <1>1, <2>2, <2>4, <2>6, PersistRecords
<1>. QED BY <1>2, <1>3, <1>4, <1>5, <1>6

\* What run_list_for makes of a list of the caller's tenant.
LEMMA ListJobsProper ==
  ASSUME NEW st, IsStore(st), ListsOwned(st), NEW l \in DOMAIN st.lists,
         NEW job \in ListJobs(st, st.lists[l].tenant, l)
  PROVE  job.tests \subseteq TestsOf(job.project) /\ TenantOf[job.project] = st.lists[l].tenant
<1> DEFINE c == st.lists[l].tenant
           live == st.lists[l].tests \cap TestsOfTenant(st, c)
<1>1. \/ job \in {[project |-> p, all |-> FALSE, tests |-> live \cap TestsOf(p)] :
                    p \in {ProjectOf[t] : t \in live}}
      \/ job \in {WholeProject(p) : p \in st.lists[l].projects}
      \/ job \in {WholeProject(p) : p \in ProjectsOfTenant(st, c)}
  BY DEF ListJobs
<1>2. CASE job \in {[project |-> p, all |-> FALSE, tests |-> live \cap TestsOf(p)] :
                      p \in {ProjectOf[t] : t \in live}}
  <2>1. PICK p \in {ProjectOf[t] : t \in live} :
          job = [project |-> p, all |-> FALSE, tests |-> live \cap TestsOf(p)]
    BY <1>2
  <2>. QED BY <2>1 DEF TestsOfTenant
<1>3. CASE job \in {WholeProject(p) : p \in st.lists[l].projects}
  BY <1>3 DEF ListsOwned, Owned, WholeProject
<1>4. CASE job \in {WholeProject(p) : p \in ProjectsOfTenant(st, c)}
  BY <1>4 DEF ProjectsOfTenant, WholeProject
<1>. QED BY <1>1, <1>2, <1>3, <1>4

LEMMA RequestStepsRecords ==
  ASSUME IInv, RecordsInv, NEW w \in Workers
  PROVE  /\ \A c \in Tenants, l \in Lists : CreateListSnapshot(w, c, l) => RecordsInv'
         /\ \A p \in Projects : StartExplore(w, p) \/ StartProjectRun(w, p) => RecordsInv'
         /\ \A l \in Lists : StartListRun(w, l) => RecordsInv'
         /\ \A t \in Tests, r \in RunIds : StartTestRun(w, t, r) => RecordsInv'
         /\ ListRunDone(w) => RecordsInv'
<1> USE DEF Idle
<1>1. TypeInv /\ IsStore(mem) /\ Sound(mem) BY DEF IInv, TypeInv, TypeOK, RecordsInv
<1>2. ASSUME NEW c \in Tenants, NEW l \in Lists, CreateListSnapshot(w, c, l) PROVE RecordsInv'
  <2> DEFINE x == [Idle EXCEPT !.pc = "insertList", !.ctx = c, !.list = l, !.new = ListOfAll(mem, c)]
  <2>1. Owned(ListOfAll(mem, c))
    BY DEF Owned, ListOfAll, ProjectsOfTenant, TestsOfTenant
  <2>2. Proper(x) BY <2>1 DEF Proper
  <2>3. flight' = [flight EXCEPT ![w] = x] /\ UNCHANGED <<mem, disk>> /\ minted \subseteq minted'
    BY <1>2 DEF CreateListSnapshot
  <2> HIDE DEF x
  <2>. QED BY <1>1, <2>2, <2>3, RequestRecords
<1>3. ASSUME NEW p \in Projects, StartExplore(w, p) PROVE RecordsInv'
  <2> DEFINE x == [Idle EXCEPT !.pc = "explore", !.ctx = TenantOf[p], !.project = p]
  <2>1. Proper(x) BY DEF Proper
  <2>2. flight' = [flight EXCEPT ![w] = x] /\ UNCHANGED <<mem, disk>> /\ minted \subseteq minted'
    BY <1>3 DEF StartExplore
  <2> HIDE DEF x
  <2>. QED BY <1>1, <2>1, <2>2, RequestRecords
<1>4. ASSUME NEW c, NEW jobs, Begin(w, c, jobs), UNCHANGED <<mem, disk, minted>>,
             \A job \in jobs : job.tests \subseteq TestsOf(job.project) /\ TenantOf[job.project] = c
      PROVE  RecordsInv'
  <2> DEFINE x == [Idle EXCEPT !.pc = "next", !.ctx = c, !.jobs = jobs]
  <2>1. Proper(x) BY <1>4 DEF Proper
  <2>2. flight' = [flight EXCEPT ![w] = x] BY <1>4 DEF Begin
  <2> HIDE DEF x
  <2>. QED BY <1>1, <1>4, <2>1, <2>2, RequestRecords
<1>5. ASSUME NEW p \in Projects, StartProjectRun(w, p) PROVE RecordsInv'
  BY <1>4, <1>5 DEF StartProjectRun, WholeProject
<1>6. ASSUME NEW l \in Lists, StartListRun(w, l) PROVE RecordsInv'
  BY <1>1, <1>4, <1>6, ListJobsProper DEF StartListRun, Sound
<1>7. ASSUME NEW t \in Tests, NEW r \in RunIds, StartTestRun(w, t, r) PROVE RecordsInv'
  <2> DEFINE x == [Idle EXCEPT !.pc = "capture", !.ctx = TenantOf[ProjectOf[t]],
                     !.project = ProjectOf[t], !.run = r, !.todo = {t}]
  <2>1. Proper(x) BY DEF Proper, TestsOf
  <2>2. flight' = [flight EXCEPT ![w] = x] /\ UNCHANGED <<mem, disk>> /\ minted \subseteq minted'
    BY <1>7 DEF StartTestRun
  <2> HIDE DEF x
  <2>. QED BY <1>1, <2>1, <2>2, RequestRecords
<1>8. ASSUME ListRunDone(w) PROVE RecordsInv'
  BY <1>1, <1>8, IdleProper, RequestRecords DEF ListRunDone, Return
<1>. QED BY <1>2, <1>3, <1>5, <1>6, <1>7, <1>8

LEMMA ExecutionStepsRecords ==
  ASSUME IInv, RecordsInv, NEW w \in Workers
  PROVE  /\ \A r \in RunIds : NextJob(w, r) => RecordsInv'
         /\ ExploreFails(w) => RecordsInv'
         /\ \A e \in Explorations, ok \in BOOLEAN : ExploreSucceeds(w, e, ok) => RecordsInv'
         /\ \A t \in Tests, kinds \in Captures, outcome \in Verdicts :
              CaptureTest(w, t, kinds, outcome) => RecordsInv'
         /\ AbortRun(w) => RecordsInv'
         /\ \A ok \in BOOLEAN : CreateListInsert(w, ok) \/ SaveRun(w, ok) => RecordsInv'
<1>1. /\ TypeInv /\ IsStore(mem) /\ Sound(mem) /\ Proper(flight[w]) /\ flight[w] \in Flight
      /\ flight \in [Workers -> Flight]
      /\ \A v \in Workers : Proper(flight[v])
  BY DEF IInv, TypeInv, TypeOK, RecordsInv
<1>2. ASSUME Return(w), UNCHANGED <<mem, disk>>, minted \subseteq minted' PROVE RecordsInv'
  BY <1>1, <1>2, IdleProper, RequestRecords DEF Return
<1>3. ASSUME NEW r \in RunIds, NextJob(w, r) PROVE RecordsInv'
  <2>1. UNCHANGED <<mem, disk>> BY <1>3 DEF NextJob
  <2>2. PICK job \in flight[w].jobs :
          \/ Return(w) /\ UNCHANGED minted
          \/ /\ minted' = minted \cup {r}
             /\ flight' = [flight EXCEPT ![w] =
                  [flight[w] EXCEPT
                     !.pc = "runExplore", !.project = job.project, !.run = r,
                     !.todo = IF job.all THEN TestsOf(job.project) ELSE job.tests,
                     !.items = Idle.items, !.jobs = flight[w].jobs \ {job}]]
    BY <1>3 DEF NextJob
  <2> DEFINE todo == IF job.all THEN TestsOf(job.project) ELSE job.tests
             x == [flight[w] EXCEPT
                     !.pc = "runExplore", !.project = job.project, !.run = r,
                     !.todo = todo, !.items = Idle.items, !.jobs = flight[w].jobs \ {job}]
  <2>3. todo \subseteq TestsOf(job.project) /\ TenantOf[job.project] = flight[w].ctx
    BY <1>1 DEF Proper
  <2>4. DOMAIN Idle.items = {} BY DEF Idle
  <2>5. /\ x.pc = "runExplore" /\ x.project = job.project /\ x.ctx = flight[w].ctx
        /\ x.jobs \subseteq flight[w].jobs /\ x.todo = todo /\ x.items = Idle.items
    <3> HIDE DEF todo
    <3>. QED BY <1>1 DEF Flight
  <2>6. Proper(x)
    <3> HIDE DEF x, todo
    <3>. QED BY <1>1, <2>3, <2>4, <2>5 DEF Proper
  <2>7. CASE Return(w) /\ UNCHANGED minted BY <1>2, <2>1, <2>7
  <2>8. CASE minted' = minted \cup {r} /\ flight' = [flight EXCEPT ![w] = x]
    <3> HIDE DEF x
    <3>. QED BY <1>1, <2>1, <2>6, <2>8, RequestRecords
  <2>. QED BY <2>2, <2>7, <2>8
<1>4. ASSUME flight[w].pc = "runExplore"
      PROVE  Proper([flight[w] EXCEPT !.pc = "capture"])
  BY <1>1, <1>4 DEF Proper, Flight
<1>5. ASSUME ExploreFails(w) PROVE RecordsInv'
  <2>1. CASE flight[w].pc = "explore" BY <1>2, <1>5, <2>1 DEF ExploreFails
  <2>2. CASE flight[w].pc = "runExplore"
    <3>1. flight' = [flight EXCEPT ![w] = [flight[w] EXCEPT !.pc = "capture"]]
          /\ UNCHANGED <<mem, disk, minted>>
      BY <1>1, <1>5, <2>2 DEF ExploreFails
    <3>. QED BY <1>1, <1>4, <2>2, <3>1, RequestRecords
  <2>. QED BY <1>5, <2>1, <2>2 DEF ExploreFails
<1>6. ASSUME NEW e \in Explorations, NEW ok \in BOOLEAN, ExploreSucceeds(w, e, ok) PROVE RecordsInv'
  <2> DEFINE p == flight[w].project
             st == AddExploration(mem, e, p)
  <2>1. e \notin minted /\ minted' = minted \cup {e} BY <1>6 DEF ExploreSucceeds
  <2>2. CASE p \in DOMAIN mem.projects
    <3>1. \A v \in Workers : Proper(flight'[v])
      <4>1. CASE Return(w) BY <1>1, <4>1, IdleProper
      <4>2. CASE flight[w].pc = "runExplore" /\ flight' = [flight EXCEPT ![w].pc = "capture"]
        BY <1>1, <1>4, <4>2
      <4>. QED BY <1>6, <2>2, <4>1, <4>2 DEF ExploreSucceeds
    <3>2. Sound(st) BY <1>1, <2>1, <2>2, AddExplorationSound DEF RecordsInv
    <3>3. DOMAIN st.explorations \subseteq minted'
      BY <1>1, <2>1 DEF AddExploration, IsStore, Put, RecordsInv
    <3>4. Persist(st, ok) BY <1>6, <2>2 DEF ExploreSucceeds
    <3> HIDE DEF st
    <3>. QED BY <2>1, <3>1, <3>2, <3>3, <3>4, PersistRecords
  <2>3. CASE p \notin DOMAIN mem.projects
    BY <1>2, <1>6, <2>1, <2>3 DEF ExploreSucceeds
  <2>. QED BY <2>2, <2>3
<1>7. ASSUME NEW t \in Tests, NEW kinds \in Captures, NEW outcome \in Verdicts,
             CaptureTest(w, t, kinds, outcome)
      PROVE  RecordsInv'
  <2> DEFINE items == Put(flight[w].items, t, [kinds |-> kinds, outcome |-> outcome])
             x == [flight[w] EXCEPT !.todo = flight[w].todo \ {t}, !.items = items]
  <2>1. /\ flight[w].pc = "capture" /\ t \in flight[w].todo
        /\ flight' = [flight EXCEPT ![w] = x] /\ UNCHANGED <<mem, disk, minted>>
    BY <1>7 DEF CaptureTest
  <2>2. /\ DOMAIN items = DOMAIN flight[w].items \cup {t}
        /\ \A u \in DOMAIN items :
             items[u].outcome = IF u = t THEN outcome ELSE flight[w].items[u].outcome
    BY DEF Put
  <2>3. /\ x.pc = "capture" /\ x.project = flight[w].project /\ x.ctx = flight[w].ctx
        /\ x.jobs = flight[w].jobs /\ x.todo \subseteq flight[w].todo /\ x.items = items
    <3> HIDE DEF items
    <3>. QED BY <1>1, <2>1 DEF Flight
  <2>4. outcome \in {"passed", "open"} BY InputAssumption
  <2> HIDE DEF x, items
  <2>5. Proper(x) BY <1>1, <2>1, <2>2, <2>3, <2>4 DEF Proper
  <2>. QED BY <1>1, <2>1, <2>5, RequestRecords
<1>8. ASSUME AbortRun(w) PROVE RecordsInv'
  BY <1>2, <1>8 DEF AbortRun
<1>9. ASSUME NEW ok \in BOOLEAN, CreateListInsert(w, ok) PROVE RecordsInv'
  <2> DEFINE new == [mem EXCEPT !.lists = Put(mem.lists, flight[w].list, flight[w].new)]
  <2>1. /\ flight[w].pc = "insertList" /\ Persist(new, ok) /\ Return(w) /\ minted' = minted
    BY <1>9 DEF CreateListInsert
  <2>2. /\ new.lists = Put(mem.lists, flight[w].list, flight[w].new)
        /\ new.projects = mem.projects /\ new.tests = mem.tests /\ new.runs = mem.runs
        /\ new.explorations = mem.explorations /\ new.agentRuns = mem.agentRuns
    BY <1>1 DEF IsStore
  <2> HIDE DEF new
  <2>3. ListsOwned(new) BY <1>1, <2>1, <2>2 DEF Sound, ListsOwned, Put, Proper
  <2>4. Sound(new) BY <1>1, <2>2, <2>3, ListChangeSound
  <2>5. \A v \in Workers : Proper(flight'[v]) BY <1>1, <2>1, IdleProper
  <2>. QED BY <2>1, <2>2, <2>4, <2>5, PersistRecords DEF RecordsInv
<1>10. ASSUME NEW ok \in BOOLEAN, SaveRun(w, ok) PROVE RecordsInv'
  <2> DEFINE r == flight[w].run
             p == flight[w].project
             items == flight[w].items
             inserted == InsertRun(mem, r, p, items)
             st == ClearFlags(inserted, Pruned(inserted, files))
  <2>1. /\ r \in RunIds /\ r \notin DOMAIN mem.runs /\ items \in Items
        /\ flight[w].pc = "capture" /\ flight[w].todo = {} /\ minted' = minted
    BY <1>10 DEF SaveRun, IInv, TypeInv, TypeOK, Request, Flight, EvidenceInv, RunOwnsItsFiles,
           Executing
  <2>2. CASE p \in DOMAIN mem.projects
    <3>1. Persist(st, ok) /\ (Return(w) \/ Continue(w)) BY <1>10, <2>2 DEF SaveRun
    <3>2. DOMAIN items \subseteq TestsOf(p) /\ \A t \in DOMAIN items : items[t].outcome \in {"passed", "open"}
      BY <1>1, <2>1 DEF Proper
    <3>3. IsStore(inserted) BY <1>1, <2>1, <2>2, InsertRunShape
    <3>4. Sound(inserted) BY <1>1, <2>1, <2>2, <3>2, InsertRunSound
    <3>5. Sound(st)
      <4> HIDE DEF inserted
      <4>. QED BY <3>3, <3>4, ClearFlagsSound
    <3>6. st.explorations = mem.explorations
      <4>1. inserted.explorations = mem.explorations BY <1>1 DEF InsertRun, IsStore
      <4> HIDE DEF inserted
      <4>. QED BY <3>3, <4>1 DEF ClearFlags, IsStore
    <3>7. \A v \in Workers : Proper(flight'[v])
      <4>1. CASE Return(w) BY <1>1, <4>1, IdleProper
      <4>2. CASE Continue(w)
        <5>1. Proper([flight[w] EXCEPT !.pc = "next", !.run = None])
          BY <1>1 DEF Proper, Flight
        <5>. QED BY <1>1, <4>2, <5>1 DEF Continue
      <4>. QED BY <3>1, <4>1, <4>2
    <3> HIDE DEF st
    <3>. QED BY <2>1, <3>1, <3>5, <3>6, <3>7, PersistRecords DEF RecordsInv
  <2>3. CASE p \notin DOMAIN mem.projects
    BY <1>2, <1>10, <2>3 DEF SaveRun
  <2>. QED BY <2>2, <2>3
<1>. QED BY <1>3, <1>5, <1>6, <1>7, <1>8, <1>9, <1>10

LEMMA RecordsInit == Init => RecordsInv
<1>1. Proper(Idle) BY DEF Proper, Idle
<1>. QED BY <1>1, EmptySound DEF Init, RecordsInv, EmptyStore

LEMMA RecordsNext == IInv /\ LedgerInv /\ RecordsInv /\ [Next]_vars => RecordsInv'
<1> SUFFICES ASSUME IInv, LedgerInv, RecordsInv, [Next]_vars PROVE RecordsInv'
  OBVIOUS
<1>1. CASE FinishCleanup \/ Age \/ UNCHANGED vars
  BY <1>1 DEF FinishCleanup, Age, vars, RecordsInv
<1>2. CASE CrashAndReopen
  <2>1. Proper(Idle) BY DEF Proper, Idle
  <2>. QED BY <1>2, <2>1 DEF CrashAndReopen, RecordsInv
<1>3. ASSUME NEW w \in Workers, WorkerNext(w) PROVE RecordsInv'
  BY <1>3, RequestStepsRecords, ExecutionStepsRecords DEF WorkerNext
<1>. QED BY <1>1, <1>2, <1>3, StoreOperationsRecords DEF Next

LEMMA RecordsAlways == Spec => []RecordsInv
<1>1. Init => IInv
  BY TypeInit, EvidenceInit DEF IInv
<1>2. IInv /\ [Next]_vars => IInv'
  BY EvidenceNext
<1>3. IInv /\ IInv' /\ LedgerInv /\ [Next]_vars => LedgerInv'
  BY LedgerNext
<1>. QED BY <1>1, <1>2, <1>3, LedgerInit, RecordsInit, RecordsNext, PTL DEF Spec

-----------------------------------------------------------------------------
(* The theorems about the records. *)

\* No run, exploration or agent run is without its project, in memory or in
\* checks.json, however a deletion interleaves with the saves of requests in
\* flight; every run has only tests of its project, and the latest-run and
\* latest-exploration links lead to records of the same project (delete_project,
\* save_run, save_exploration_for).
THEOREM RecordsAlwaysHaveProjects == Spec => []RecordsHaveProjects
<1>1. RecordsInv => RecordsHaveProjects
  BY DEF RecordsInv, Sound, Anchored, RecordsHaveProjects, States
<1>. QED BY <1>1, RecordsAlways, PTL

\* The status a test shows is that of an item of a stored run which executed it,
\* after any deletions, heals, prunings and saves in between (save_run,
\* heal_failure).
THEOREM StatusAlwaysWitnessed == Spec => []StatusWitnessed
<1>1. RecordsInv => StatusWitnessed
  BY DEF RecordsInv, Sound, Witnessed, Backed, StatusWitnessed, States
<1>. QED BY <1>1, RecordsAlways, PTL

\* Lists hold ids of their own tenant only, and a request works on projects of
\* its caller's tenant only, the later jobs of a list run included
\* (create_list_for, update_list, run_list_for).
THEOREM TenantsAlwaysIsolated == Spec => []TenantsIsolated
<1>1. RecordsInv => TenantsIsolated
  BY DEF RecordsInv, Sound, ListsOwned, Owned, Proper, TenantsIsolated, States
<1>. QED BY <1>1, RecordsAlways, PTL

-----------------------------------------------------------------------------
(* Finite sets. *)

\* What grows inside a finite set stops growing somewhere: a set of its subsets
\* has one that no other contains.
LEMMA LargestSubset ==
  ASSUME NEW E, IsFiniteSet(E), NEW Q, Q \subseteq SUBSET E, Q # {}
  PROVE  \E D \in Q : \A C \in Q : D \subseteq C => C = D
<1> DEFINE Rest == {E \ D : D \in Q}
           R == StrictSubsetOrdering(E)
<1>1. Rest \subseteq FiniteSubsetsOf(E) /\ Rest # {}
  <2>1. FiniteSubsetsOf(E) = SUBSET E
    BY FS_FiniteSubsetsOfFinite
  <2>2. PICK D : D \in Q
    OBVIOUS
  <2>3. E \ D \in Rest
    BY <2>2
  <2>4. Rest \subseteq SUBSET E
    OBVIOUS
  <2> HIDE DEF Rest
  <2>. QED BY <2>1, <2>3, <2>4
<1>2. IsWellFoundedOn(R, FiniteSubsetsOf(E))
  BY FS_StrictSubsetOrderingWellFounded
<1>3. PICK X \in Rest : \A Y \in Rest : <<Y, X>> \notin R
  <2> HIDE DEF Rest, R
  <2>. QED BY <1>1, <1>2, WFMin
<1>4. PICK D \in Q : X = E \ D
  BY <1>3
<1>5. ASSUME NEW C \in Q, D \subseteq C, C # D
      PROVE  FALSE
  <2>1. E \ C \in Rest
    BY <1>5
  <2>2. E \ C \subseteq X /\ E \ C # X
    BY <1>4, <1>5
  <2>3. <<E \ C, X>> \in R
    BY <1>4, <2>2 DEF StrictSubsetOrdering
  <2>. QED BY <1>3, <2>1, <2>3
<1>. QED BY <1>5

\* A finite set has a first and a last element in a strict order.
Ordered(S, R) ==
  /\ \A x \in S : <<x, x>> \notin R
  /\ \A x, y, z \in S : <<x, y>> \in R /\ <<y, z>> \in R => <<x, z>> \in R

LEMMA FirstElement ==
  ASSUME NEW S, IsFiniteSet(S), S # {}, NEW R, Ordered(S, R)
  PROVE  \E x \in S : \A y \in S : <<y, x>> \notin R
<1> DEFINE After(x) == {y \in S : <<x, y>> \in R} \cup {x}
           Q == {After(x) : x \in S}
<1>1. Q \subseteq SUBSET S /\ Q # {}
  OBVIOUS
<1>2. PICK D \in Q : \A C \in Q : D \subseteq C => C = D
  <2> HIDE DEF Q
  <2>. QED BY <1>1, LargestSubset
<1>3. PICK x \in S : D = After(x)
  BY <1>2
<1>4. ASSUME NEW y \in S, <<y, x>> \in R
      PROVE  FALSE
  <2>1. After(x) \subseteq After(y) /\ After(y) \in Q
    BY <1>4 DEF Ordered
  <2>2. After(y) = After(x)
    BY <1>2, <1>3, <2>1
  <2>3. y \in After(x)
    BY <2>2
  <2>4. y = x \/ <<x, y>> \in R
    BY <2>3
  <2>. QED BY <1>4, <2>4 DEF Ordered
<1>. QED BY <1>4

-----------------------------------------------------------------------------
(* The newest-first walk of over_budget. *)

\* The evidence of K the walk visits before e.
Ahead(st, K, e) == {k \in K : Before(st, k, e)}

\* The walk keeps e if it still fits beside what it kept of K before.
Fits(st, F, K, e) == RetainedBytes(F, Ahead(st, K, e) \cup {e}) <= MaxBytes

WalkOrder(st, E) == {ef \in E \X E : Before(st, ef[1], ef[2])}

\* Runs are numbered in the order of their saves.
Numbered(st) ==
  /\ \A r \in DOMAIN st.runs : st.runs[r].at < st.saves
  /\ \A q, r \in DOMAIN st.runs : st.runs[q].at = st.runs[r].at => q = r

\* The walk visits evidence in a strict order, and any two one after the other.
LEMMA WalkIsOrdered ==
  ASSUME NEW st, IsStore(st), NEW E, E \subseteq EvidenceOf(st)
  PROVE  /\ \A x \in E : ~Before(st, x, x)
         /\ \A x, y, z \in E : Before(st, x, y) /\ Before(st, y, z) => Before(st, x, z)
         /\ Numbered(st) => \A x, y \in E : x = y \/ Before(st, x, y) \/ Before(st, y, x)
<1>1. \A r \in DOMAIN st.runs : st.runs[r].at \in Nat
  BY DEF IsStore, IsTable, Run
<1>2. \A e \in E : e = <<e[1], e[2]>> /\ e[1] \in DOMAIN st.runs /\ e[2] \in Nat
  <2>1. E \subseteq RunIds \X Tests /\ \A e \in E : e[1] \in DOMAIN st.runs
    BY DEF EvidenceOf, Evidence
  <2>2. \A e \in RunIds \X Tests : e = <<e[1], e[2]>> /\ e[2] \in Tests
    OBVIOUS
  <2>. QED BY <2>1, <2>2, IdAssumption
<1>3. \A x \in E : ~Before(st, x, x)
  BY <1>1, <1>2 DEF Before
<1>4. \A x, y, z \in E : Before(st, x, y) /\ Before(st, y, z) => Before(st, x, z)
  BY <1>1, <1>2 DEF Before
<1>5. ASSUME Numbered(st), NEW x \in E, NEW y \in E
      PROVE  x = y \/ Before(st, x, y) \/ Before(st, y, x)
  <2>1. CASE x[1] = y[1]
    BY <1>2, <2>1 DEF Before
  <2>2. CASE x[1] # y[1]
    BY <1>1, <1>2, <1>5, <2>2 DEF Before, Numbered
  <2>. QED BY <2>1, <2>2
<1>. QED BY <1>3, <1>4, <1>5

LEMMA FirstOfWalk ==
  ASSUME NEW st, IsStore(st), NEW E, IsFiniteSet(E), E \subseteq EvidenceOf(st), E # {}
  PROVE  /\ \E e \in E : \A f \in E : ~Before(st, f, e)
         /\ \E e \in E : \A f \in E : ~Before(st, e, f)
<1> DEFINE Back == {ef \in E \X E : Before(st, ef[2], ef[1])}
<1>1. /\ \A x \in E : \A y \in E : <<x, y>> \in WalkOrder(st, E) <=> Before(st, x, y)
      /\ \A x \in E : \A y \in E : <<x, y>> \in Back <=> Before(st, y, x)
  BY DEF WalkOrder
<1>2. Ordered(E, WalkOrder(st, E)) /\ Ordered(E, Back)
  <2> HIDE DEF Back
  <2>1. \A x \in E : ~Before(st, x, x)
    BY WalkIsOrdered
  <2>2. \A x, y, z \in E : Before(st, x, y) /\ Before(st, y, z) => Before(st, x, z)
    BY WalkIsOrdered
  <2>3. Ordered(E, WalkOrder(st, E))
    BY <1>1, <2>1, <2>2 DEF Ordered
  <2>4. Ordered(E, Back)
    BY <1>1, <2>1, <2>2 DEF Ordered
  <2>. QED BY <2>3, <2>4
<1>3. \E e \in E : \A f \in E : <<f, e>> \notin WalkOrder(st, E)
  BY <1>2, FirstElement
<1>4. \E e \in E : \A f \in E : <<f, e>> \notin Back
  <2> HIDE DEF Back
  <2>. QED BY <1>2, FirstElement
<1>5. \E e \in E : \A f \in E : ~Before(st, f, e)
  BY <1>1, <1>3
<1>6. \E e \in E : \A f \in E : ~Before(st, e, f)
  <2> HIDE DEF Back
  <2>. QED BY <1>1, <1>4
<1>. QED BY <1>5, <1>6

\* The walk ends: what it keeps of finitely many evidence records is defined.
LEMMA WalkEnds ==
  ASSUME NEW st, IsStore(st), NEW F, NEW E, IsFiniteSet(E), E \subseteq EvidenceOf(st)
  PROVE  /\ WithinBudget(st, F, E) \in SUBSET E
         /\ \A e \in E : e \in WithinBudget(st, F, E) <=> Fits(st, F, WithinBudget(st, F, E), e)
<1> DEFINE Walked(K, D) == \A e \in D : e \in K <=> Fits(st, F, K, e)
           Begun(D) == /\ \A e \in D, f \in E : Before(st, f, e) => f \in D
                       /\ \E K \in SUBSET D : Walked(K, D)
           Q == {D \in SUBSET E : Begun(D)}
<1>1. {} \in Q
  OBVIOUS
<1>2. PICK D \in Q : \A C \in Q : D \subseteq C => C = D
  <2>1. Q \subseteq SUBSET E /\ Q # {}
    BY <1>1
  <2> HIDE DEF Q
  <2>. QED BY <2>1, LargestSubset
<1>3. PICK K \in SUBSET D : Walked(K, D)
  BY <1>2
<1>4. D = E
  <2> SUFFICES ASSUME D # E PROVE FALSE
    OBVIOUS
  <2>1. D \subseteq E /\ \A e \in D, f \in E : Before(st, f, e) => f \in D
    BY <1>2
  <2>2. IsFiniteSet(E \ D) /\ E \ D # {} /\ E \ D \subseteq EvidenceOf(st)
    BY <2>1, FS_Difference
  <2>3. PICK x \in E \ D : \A f \in E \ D : ~Before(st, f, x)
    BY <2>2, FirstOfWalk
  <2> DEFINE L == IF Fits(st, F, K, x) THEN K \cup {x} ELSE K
  <2>4. \A e \in D : ~Before(st, x, e)
    BY <2>1, <2>3
  <2>5. \A e \in D \cup {x} : Ahead(st, L, e) = Ahead(st, K, e)
    BY <2>1, <2>3, <2>4, WalkIsOrdered DEF Ahead
  <2>6. \A e \in D \cup {x} : Fits(st, F, L, e) = Fits(st, F, K, e)
    BY <2>5 DEF Fits
  <2>7. Walked(L, D \cup {x})
    BY <1>3, <2>3, <2>6
  <2>8. \A e \in D \cup {x}, f \in E : Before(st, f, e) => f \in D \cup {x}
    BY <2>1, <2>3
  <2>9. L \in SUBSET (D \cup {x}) /\ D \cup {x} \in SUBSET E
    BY <2>1, <2>3
  <2>10. D \cup {x} \in Q
    <3> HIDE DEF L, Walked
    <3>. QED BY <2>7, <2>8, <2>9
  <2>. QED BY <1>2, <2>3, <2>10
<1>5. \E M \in SUBSET E : \A e \in E :
        e \in M <=> RetainedBytes(F, {k \in M : Before(st, k, e)} \cup {e}) <= MaxBytes
  BY <1>3, <1>4 DEF Fits, Ahead
<1>. QED BY <1>5 DEF WithinBudget, Fits, Ahead

-----------------------------------------------------------------------------
(* Counting files. *)

LEMMA FilesOfFew ==
  ASSUME NEW F, F \subseteq Files, NEW K, IsFiniteSet(K), \A f \in F : <<f[1], f[2]>> \in K
  PROVE  IsFiniteSet(F)
<1> DEFINE g == [f \in F |-> <<<<f[1], f[2]>>, f[3]>>]
<1>1. IsFiniteSet(Kinds)
  <2>1. Kinds = {"png"} \cup {"dom"}
    BY DEF Kinds
  <2>. QED BY <2>1, FS_Singleton, FS_Union
<1>2. IsFiniteSet(K \X Kinds)
  BY <1>1, FS_Product
<1>3. \A f \in F : f = <<f[1], f[2], f[3]>> /\ f[3] \in Kinds
  BY DEF Files
<1>4. g \in [F -> K \X Kinds]
  BY <1>3
<1>5. \A a, b \in F : g[a] = g[b] => a = b
  BY <1>3
<1>6. g \in Injection(F, K \X Kinds)
  <2> HIDE DEF g
  <2>. QED BY <1>4, <1>5, Fun_IsInj
<1>. QED
  <2> HIDE DEF g
  <2>. QED BY <1>2, <1>6, FS_Injection

\* What the walk keeps is within the byte budget.
LEMMA WalkKeepsBudget ==
  ASSUME NEW st, IsStore(st), Numbered(st), NEW F, NEW E, IsFiniteSet(E), E \subseteq EvidenceOf(st)
  PROVE  RetainedBytes(F, WithinBudget(st, F, E)) <= MaxBytes
<1> DEFINE K == WithinBudget(st, F, E)
<1>1. K \in SUBSET E /\ \A e \in E : e \in K <=> Fits(st, F, K, e)
  BY WalkEnds
<1> HIDE DEF K
<1>2. CASE K = {}
  <2>1. {f \in F : <<f[1], f[2]>> \in K} = {}
    BY <1>2
  <2>2. RetainedBytes(F, K) = 0
    BY <2>1, FS_EmptySet DEF RetainedBytes
  <2>. QED BY <2>2, LimitAssumption DEF K
<1>3. CASE K # {}
  <2>1. IsFiniteSet(K) /\ K \subseteq EvidenceOf(st)
    BY <1>1, FS_Subset
  <2>2. PICK e \in K : \A f \in K : ~Before(st, e, f)
    BY <1>3, <2>1, FirstOfWalk
  <2>3. Ahead(st, K, e) \cup {e} = K
    BY <2>1, <2>2, WalkIsOrdered DEF Ahead
  <2>. QED BY <1>1, <2>2, <2>3 DEF Fits, K
<1>. QED BY <1>2, <1>3

-----------------------------------------------------------------------------
(* The inductive invariant. *)

Finite(st) ==
  /\ IsFiniteSet(DOMAIN st.runs)
  /\ \A r \in DOMAIN st.runs : IsFiniteSet(DOMAIN st.runs[r].items)

Limited(st) ==
  /\ Cardinality(Claims(st)) <= MaxBytes
  /\ \A e \in EvidenceOf(st) : HasFiles(st, e) => Cardinality(NewerRuns(st, e[1])) < MaxRuns

\* The limits hold of a store whose runs can be counted, in the order of their
\* saves.
Frugal(st) == Finite(st) /\ Numbered(st) /\ Limited(st)

\* A request will record each file its run wrote: a test is captured once.
Filed(x, F) ==
  /\ IsFiniteSet(DOMAIN x.items)
  /\ x.pc \in {"runExplore", "capture"} =>
       /\ x.todo \cap DOMAIN x.items = {}
       /\ \A f \in F : f[1] = x.run => f[2] \in DOMAIN x.items /\ f[3] \in x.items[f[2]].kinds

RetentionInv ==
  /\ Frugal(mem) /\ Frugal(disk)
  /\ \A w \in Workers : Filed(flight[w], files)
  /\ NothingStranded

-----------------------------------------------------------------------------
(* What the changes keep. *)

LEMMA FiniteEvidence ==
  ASSUME NEW st, Finite(st)
  PROVE  IsFiniteSet(EvidenceOf(st)) /\ IsFiniteSet(Claims(st))
<1> DEFINE tests == [r \in DOMAIN st.runs |-> DOMAIN st.runs[r].items]
           All == {tests[r] : r \in DOMAIN st.runs}
           Some == UNION All
<1>1. tests \in Surjection(DOMAIN st.runs, All)
  <2>1. tests \in [DOMAIN st.runs -> All]
    OBVIOUS
  <2>. QED BY <2>1 DEF Surjection
<1>2. IsFiniteSet(All)
  <2> HIDE DEF tests, All
  <2>. QED BY <1>1, FS_Surjection DEF Finite
<1>3. \A T \in All : IsFiniteSet(T)
  BY DEF Finite
<1>4. IsFiniteSet(Some)
  <2> HIDE DEF tests, All
  <2>. QED BY <1>2, <1>3, FS_UNION
<1>5. IsFiniteSet((DOMAIN st.runs) \X Some)
  <2> HIDE DEF tests, All, Some
  <2>1. IsFiniteSet(DOMAIN st.runs)
    BY DEF Finite
  <2>. QED BY <1>4, <2>1, FS_Product
<1>6. EvidenceOf(st) \subseteq (DOMAIN st.runs) \X Some
  <2>1. \A e \in EvidenceOf(st) :
          e = <<e[1], e[2]>> /\ e[1] \in DOMAIN st.runs /\ e[2] \in DOMAIN st.runs[e[1]].items
    BY DEF EvidenceOf, Evidence
  <2>2. \A r \in DOMAIN st.runs : DOMAIN st.runs[r].items \subseteq Some
    OBVIOUS
  <2> HIDE DEF tests, All, Some
  <2>. QED BY <2>1, <2>2
<1>7. IsFiniteSet(EvidenceOf(st))
  <2> HIDE DEF tests, All, Some
  <2>. QED BY <1>5, <1>6, FS_Subset
<1>8. Claims(st) \subseteq Files /\ \A f \in Claims(st) : <<f[1], f[2]>> \in EvidenceOf(st)
  BY DEF Claims
<1>. QED BY <1>7, <1>8, FilesOfFew

\* A change that only takes records and claims away.
LEMMA ShrinkFrugal ==
  ASSUME NEW st, IsStore(st), Frugal(st), NEW new, new.saves = st.saves,
         DOMAIN new.runs \subseteq DOMAIN st.runs,
         \A r \in DOMAIN new.runs :
           /\ new.runs[r].at = st.runs[r].at
           /\ DOMAIN new.runs[r].items = DOMAIN st.runs[r].items
           /\ \A t \in DOMAIN st.runs[r].items :
                new.runs[r].items[t].kinds = st.runs[r].items[t].kinds
  PROVE  Frugal(new)
<1>1. Finite(new)
  BY FS_Subset DEF Frugal, Finite
<1>2. Numbered(new)
  BY DEF Frugal, Numbered
<1>3. EvidenceOf(new) \subseteq EvidenceOf(st) /\ Claims(new) \subseteq Claims(st)
  BY DEF EvidenceOf, Claims, Evidence, Files
<1>4. Cardinality(Claims(new)) <= MaxBytes
  <2>1. IsFiniteSet(Claims(st)) /\ IsFiniteSet(Claims(new))
    BY <1>1, FiniteEvidence DEF Frugal
  <2>2. Cardinality(Claims(new)) <= Cardinality(Claims(st))
    BY <1>3, <2>1, FS_Subset
  <2>3. Cardinality(Claims(st)) \in Nat /\ Cardinality(Claims(new)) \in Nat
    BY <2>1, FS_CardinalityType
  <2>. QED BY <2>2, <2>3, LimitAssumption DEF Frugal, Limited
<1>5. ASSUME NEW e \in EvidenceOf(new), HasFiles(new, e)
      PROVE  Cardinality(NewerRuns(new, e[1])) < MaxRuns
  <2>1. e[1] \in DOMAIN new.runs /\ e[2] \in DOMAIN new.runs[e[1]].items
    BY DEF EvidenceOf
  <2>2. HasFiles(st, e) /\ e \in EvidenceOf(st)
    BY <1>3, <1>5, <2>1 DEF HasFiles
  <2>3. NewerRuns(new, e[1]) \subseteq NewerRuns(st, e[1])
    BY <2>1 DEF NewerRuns
  <2>4. IsFiniteSet(NewerRuns(st, e[1])) /\ IsFiniteSet(NewerRuns(new, e[1]))
    <3>1. NewerRuns(st, e[1]) \subseteq DOMAIN st.runs
      BY DEF NewerRuns
    <3>2. IsFiniteSet(NewerRuns(st, e[1]))
      BY <3>1, FS_Subset DEF Frugal, Finite
    <3>. QED BY <2>3, <3>2, FS_Subset
  <2>5. Cardinality(NewerRuns(new, e[1])) <= Cardinality(NewerRuns(st, e[1]))
    BY <2>3, <2>4, FS_Subset
  <2>6. /\ Cardinality(NewerRuns(st, e[1])) \in Nat
        /\ Cardinality(NewerRuns(new, e[1])) \in Nat
    BY <2>4, FS_CardinalityType
  <2>. QED BY <2>2, <2>5, <2>6, LimitAssumption DEF Frugal, Limited
<1>. QED BY <1>1, <1>2, <1>4, <1>5 DEF Frugal, Limited

LEMMA SameRunsFrugal ==
  ASSUME NEW st, IsStore(st), Frugal(st), NEW new, new.runs = st.runs, new.saves = st.saves
  PROVE  Frugal(new)
BY ShrinkFrugal

LEMMA DropProjectFrugal ==
  ASSUME NEW st, IsStore(st), Frugal(st), NEW p
  PROVE  Frugal(DropProject(st, p))
<1> DEFINE new == DropProject(st, p)
<1>1. new.runs = Keep(st.runs, RunIds \ RunsOf(st, p)) /\ new.saves = st.saves
  BY DEF DropProject, IsStore
<1> HIDE DEF new
<1>2. DOMAIN new.runs \subseteq DOMAIN st.runs /\ \A r \in DOMAIN new.runs : new.runs[r] = st.runs[r]
  BY <1>1 DEF Keep
<1>3. Frugal(new)
  BY <1>1, <1>2, ShrinkFrugal
<1>. QED BY <1>3 DEF new

LEMMA HealFailureFrugal ==
  ASSUME NEW st, IsStore(st), Frugal(st), NEW r \in DOMAIN st.runs, NEW t \in DOMAIN st.runs[r].items
  PROVE  /\ Frugal(HealFailure(st, r, t))
         /\ EvidenceOf(HealFailure(st, r, t)) = EvidenceOf(st)
<1> DEFINE new == HealFailure(st, r, t)
<1>1. new.runs = [st.runs EXCEPT ![r].items[t].outcome = "healed"] /\ new.saves = st.saves
  BY DEF HealFailure, IsStore
<1>2. ASSUME NEW q \in DOMAIN st.runs
      PROVE  /\ st.runs[q] \in Run
             /\ \A u \in DOMAIN st.runs[q].items : st.runs[q].items[u] \in Item
  BY DEF IsStore, IsTable, Run, Items
<1> HIDE DEF new
<1>3. DOMAIN new.runs = DOMAIN st.runs
  BY <1>1
<1>4. \A q \in DOMAIN st.runs :
        /\ new.runs[q].at = st.runs[q].at
        /\ DOMAIN new.runs[q].items = DOMAIN st.runs[q].items
        /\ \A u \in DOMAIN st.runs[q].items :
             new.runs[q].items[u].kinds = st.runs[q].items[u].kinds
  BY <1>1, <1>2 DEF Run, Item
<1>5. Frugal(new)
  BY <1>1, <1>3, <1>4, ShrinkFrugal
<1>6. EvidenceOf(new) = EvidenceOf(st)
  BY <1>3, <1>4 DEF EvidenceOf
<1>. QED BY <1>5, <1>6 DEF new

\* A saved run, with what pruning then takes away, is within both limits again.
LEMMA SaveFrugal ==
  ASSUME NEW st, IsStore(st), Frugal(st), NEW r \in RunIds, r \notin DOMAIN st.runs,
         NEW p \in DOMAIN st.projects, NEW items \in Items, IsFiniteSet(DOMAIN items),
         NEW F, Claims(InsertRun(st, r, p, items)) \subseteq F, F \subseteq Files
  PROVE  LET inserted == InsertRun(st, r, p, items)
         IN Frugal(ClearFlags(inserted, Pruned(inserted, F)))
<1> DEFINE inserted == InsertRun(st, r, p, items)
           pruned == Pruned(inserted, F)
           new == ClearFlags(inserted, pruned)
<1>1. IsStore(inserted)
  BY InsertRunShape
<1>2. /\ inserted.runs = Put(st.runs, r, [project |-> p, at |-> st.saves, items |-> items])
      /\ inserted.saves = st.saves + 1
  BY DEF InsertRun, IsStore
<1>3. /\ DOMAIN new.runs = DOMAIN inserted.runs
      /\ \A q \in DOMAIN inserted.runs :
           /\ new.runs[q].at = inserted.runs[q].at
           /\ DOMAIN new.runs[q].items = DOMAIN inserted.runs[q].items
           /\ \A t \in DOMAIN inserted.runs[q].items :
                new.runs[q].items[t].kinds =
                  IF <<q, t>> \in pruned THEN {} ELSE inserted.runs[q].items[t].kinds
  BY <1>1, ClearFlagsRuns
<1>4. new.saves = inserted.saves
  BY <1>1 DEF ClearFlags, IsStore
<1>5. /\ EvidenceOf(new) = EvidenceOf(inserted)
      /\ Claims(new) = {f \in Claims(inserted) : <<f[1], f[2]>> \notin pruned}
      /\ Claims(inserted) \subseteq F
  BY <1>1, ClearFlagsClaims
<1> HIDE DEF new, inserted
<1>6. Finite(inserted)
  <2>1. IsFiniteSet(DOMAIN st.runs \cup {r})
    BY FS_AddElement DEF Frugal, Finite
  <2>. QED BY <1>2, <2>1 DEF Frugal, Finite, Put
<1>7. Numbered(inserted)
  <2>1. st.saves \in Nat /\ \A q \in DOMAIN st.runs : st.runs[q].at \in Nat /\ st.runs[q].at < st.saves
    BY DEF IsStore, IsTable, Run, Frugal, Numbered
  <2>. QED BY <1>2, <2>1 DEF Frugal, Numbered, Put
<1>8. Finite(new) /\ Numbered(new)
  BY <1>3, <1>4, <1>6, <1>7 DEF Finite, Numbered
<1> DEFINE claiming == {e \in EvidenceOf(inserted) : HasFiles(inserted, e)}
           retained == {e \in claiming : Cardinality(NewerRuns(inserted, e[1])) < MaxRuns}
           K == WithinBudget(inserted, F, retained)
<1>9. pruned = claiming \ K
  BY DEF Pruned
<1>10. retained \subseteq EvidenceOf(inserted) /\ IsFiniteSet(retained)
  <2>1. retained \subseteq EvidenceOf(inserted)
    OBVIOUS
  <2>2. IsFiniteSet(EvidenceOf(inserted))
    BY <1>6, FiniteEvidence
  <2> HIDE DEF retained
  <2>. QED BY <2>1, <2>2, FS_Subset
<1>11. K \subseteq retained /\ RetainedBytes(F, K) <= MaxBytes
  <2> HIDE DEF retained
  <2>. QED BY <1>1, <1>7, <1>10, WalkEnds, WalkKeepsBudget
<1> HIDE DEF pruned, K
<1>12. Cardinality(Claims(new)) <= MaxBytes
  <2> DEFINE kept == {f \in F : <<f[1], f[2]>> \in K}
  <2>1. Claims(new) \subseteq kept
    <3>1. ASSUME NEW f \in Claims(new) PROVE <<f[1], f[2]>> \in claiming
      <4>1. f \in Claims(inserted) /\ <<f[1], f[2]>> \in EvidenceOf(inserted)
        BY <1>5, ClaimsAreOfStoredRuns
      <4>2. HasFiles(inserted, <<f[1], f[2]>>)
        BY <4>1 DEF Claims, HasFiles
      <4>. QED BY <4>1, <4>2
    <3> HIDE DEF claiming
    <3>. QED BY <1>5, <1>9, <3>1
  <2>2. IsFiniteSet(K)
    <3> HIDE DEF retained
    <3>. QED BY <1>10, <1>11, FS_Subset
  <2>3. IsFiniteSet(kept)
    BY <2>2, FilesOfFew
  <2>4. Cardinality(kept) <= MaxBytes
    BY <1>11 DEF RetainedBytes
  <2> HIDE DEF kept
  <2>5. Cardinality(Claims(new)) <= Cardinality(kept) /\ IsFiniteSet(Claims(new))
    BY <2>1, <2>3, FS_Subset
  <2>6. Cardinality(kept) \in Nat /\ Cardinality(Claims(new)) \in Nat
    BY <2>3, <2>5, FS_CardinalityType
  <2>. QED BY <2>4, <2>5, <2>6, LimitAssumption
<1>13. ASSUME NEW e \in EvidenceOf(new), HasFiles(new, e)
       PROVE  Cardinality(NewerRuns(new, e[1])) < MaxRuns
  <2>1. /\ e \in EvidenceOf(inserted) /\ e = <<e[1], e[2]>>
        /\ e[1] \in DOMAIN inserted.runs /\ e[2] \in DOMAIN inserted.runs[e[1]].items
    BY <1>5 DEF EvidenceOf, Evidence
  <2>2. e \notin pruned /\ HasFiles(inserted, e)
    BY <1>3, <1>13, <2>1 DEF HasFiles
  <2>3. e \in K
    BY <1>9, <2>1, <2>2
  <2>4. Cardinality(NewerRuns(inserted, e[1])) < MaxRuns
    BY <1>11, <2>3
  <2>5. NewerRuns(new, e[1]) = NewerRuns(inserted, e[1])
    BY <1>3, <2>1 DEF NewerRuns
  <2>. QED BY <2>4, <2>5
<1>14. Frugal(new)
  BY <1>8, <1>12, <1>13 DEF Frugal, Limited
<1>. QED BY <1>14 DEF new, pruned, inserted

-----------------------------------------------------------------------------
(* Steps. *)

LEMMA IdleFiled == \A F : Filed(Idle, F)
<1>1. DOMAIN Idle.items = {} /\ Idle.pc = "idle"
  BY DEF Idle
<1>. QED BY <1>1, FS_EmptySet DEF Filed

\* A request that leaves `x`, and one that returns.
LEMMA OneFiled ==
  ASSUME TypeInv, RetentionInv, NEW w \in Workers, NEW x, Filed(x, files),
         flight' = [flight EXCEPT ![w] = x]
  PROVE  \A v \in Workers : Filed(flight'[v], files)
BY DEF TypeInv, RetentionInv

LEMMA ReturnFiled ==
  ASSUME TypeInv, RetentionInv, NEW w \in Workers, Return(w)
  PROVE  \A v \in Workers : Filed(flight'[v], files)
BY IdleFiled, OneFiled DEF Return

\* Without the lock nothing is stranded.
LEMMA UnlockedKept ==
  ASSUME IInv, RetentionInv, Unlocked, faults = 0, crashes = 0
  PROVE  Stranded(mem) = {}
BY DEF IInv, EvidenceInv, RemovalIsDurable, NoCleanup, Unlocked, RetentionInv, NothingStranded

\* A change under the lock; one that could not be written may strand files.
LEMMA PersistRetention ==
  ASSUME IInv, RetentionInv, Unlocked, NEW st, NEW ok \in BOOLEAN, Persist(st, ok), Frugal(st),
         UNCHANGED <<files, crashes>>, \A w \in Workers : Filed(flight'[w], files),
         ok /\ Stranded(mem) = {} => Stranded(st) \subseteq cleanup'.remove
  PROVE  RetentionInv'
<1>1. mem' = st /\ (disk' = st \/ disk' = disk)
  BY DEF Persist
<1>2. Frugal(mem)' /\ Frugal(disk)'
  BY <1>1 DEF RetentionInv
<1>3. NothingStranded'
  <2> SUFFICES ASSUME faults' = 0, crashes' = 0 PROVE Stranded(mem)' \subseteq cleanup'.remove
    BY DEF NothingStranded
  <2>1. ok /\ faults = 0 /\ crashes = 0
    BY DEF Persist, IInv, TypeInv, TypeOK
  <2>2. Stranded(st) \subseteq cleanup'.remove
    BY <2>1, UnlockedKept
  <2>3. Stranded(mem)' = Stranded(st)
    BY <1>1 DEF Stranded
  <2>. QED BY <2>2, <2>3
<1>. QED BY <1>2, <1>3 DEF RetentionInv

\* One that keeps the runs.
LEMMA SameRunsRetention ==
  ASSUME IInv, RetentionInv, Unlocked, NEW st, NEW ok \in BOOLEAN, Persist(st, ok),
         st.runs = mem.runs, st.saves = mem.saves,
         UNCHANGED <<files, crashes>>, \A w \in Workers : Filed(flight'[w], files)
  PROVE  RetentionInv'
<1>1. IsStore(mem) /\ Frugal(mem)
  BY DEF IInv, TypeInv, TypeOK, RetentionInv
<1>2. Frugal(st)
  BY <1>1, SameRunsFrugal
<1>3. Stranded(st) = Stranded(mem)
  BY SameRunsSameClaims DEF Stranded
<1>. QED BY <1>2, <1>3, PersistRetention

\* A request that moves without touching the store.
LEMMA RequestRetention ==
  ASSUME RetentionInv, UNCHANGED <<mem, disk, files, cleanup, faults, crashes>>,
         \A w \in Workers : Filed(flight'[w], files)
  PROVE  RetentionInv'
BY DEF RetentionInv, NothingStranded, Stranded

LEMMA StoreOperationsRetention ==
  ASSUME IInv, RetentionInv, NEW ok \in BOOLEAN
  PROVE  /\ \A p \in Projects : CreateProject(p, ok) \/ DeleteProject(p, ok) => RetentionInv'
         /\ \A a \in AgentRuns, p \in Projects : SaveAgentRun(a, p, ok) => RetentionInv'
         /\ \A r \in RunIds, t \in Tests : Heal(r, t, ok) => RetentionInv'
         /\ \A l \in Lists, P \in SUBSET Projects, T \in SUBSET Tests, requested \in BOOLEAN :
              UpdateList(l, P, requested, T, ok) => RetentionInv'
<1>1. /\ IsStore(mem) /\ Frugal(mem) /\ files \subseteq Files
      /\ \A w \in Workers : Filed(flight[w], files)
  BY DEF IInv, TypeInv, TypeOK, RetentionInv
<1>2. ASSUME NEW p \in Projects, CreateProject(p, ok) PROVE RetentionInv'
  <2>1. AddProject(mem, p).runs = mem.runs /\ AddProject(mem, p).saves = mem.saves
    BY <1>1 DEF AddProject, IsStore
  <2>. QED BY <1>1, <1>2, <2>1, SameRunsRetention DEF CreateProject
<1>3. ASSUME NEW a \in AgentRuns, NEW p \in Projects, SaveAgentRun(a, p, ok) PROVE RetentionInv'
  <2>1. AddAgentRun(mem, a, p).runs = mem.runs /\ AddAgentRun(mem, a, p).saves = mem.saves
    BY <1>1 DEF AddAgentRun, IsStore
  <2>. QED BY <1>1, <1>3, <2>1, SameRunsRetention DEF SaveAgentRun
<1>4. ASSUME NEW l \in Lists, NEW P \in SUBSET Projects, NEW T \in SUBSET Tests,
             NEW requested \in BOOLEAN, UpdateList(l, P, requested, T, ok)
      PROVE  RetentionInv'
  <2>1. /\ EditList(mem, l, P, requested, T).runs = mem.runs
        /\ EditList(mem, l, P, requested, T).saves = mem.saves
    BY <1>1 DEF EditList, IsStore
  <2>. QED BY <1>1, <1>4, <2>1, SameRunsRetention DEF UpdateList
<1>5. ASSUME NEW r \in RunIds, NEW t \in Tests, Heal(r, t, ok) PROVE RetentionInv'
  <2> DEFINE st == HealFailure(mem, r, t)
  <2>1. r \in DOMAIN mem.runs /\ t \in DOMAIN mem.runs[r].items
    BY <1>5 DEF Heal
  <2>2. Frugal(st) /\ EvidenceOf(st) = EvidenceOf(mem) /\ Claims(st) = Claims(mem)
    BY <1>1, <2>1, HealFailureFrugal, HealFailureClaims
  <2>3. /\ Unlocked /\ Persist(st, ok) /\ UNCHANGED <<files, flight, cleanup, crashes>>
    BY <1>5 DEF Heal
  <2> HIDE DEF st
  <2>4. Stranded(st) = Stranded(mem)
    BY <2>2 DEF Stranded
  <2>. QED BY <1>1, <2>2, <2>3, <2>4, PersistRetention
<1>6. ASSUME NEW p \in Projects, DeleteProject(p, ok) PROVE RetentionInv'
  <2> DEFINE st == DropProject(mem, p)
  <2>1. Frugal(st)
    BY <1>1, DropProjectFrugal
  <2>2. Stranded(st) \subseteq Stranded(mem)
    <3>1. Claims(st) = {f \in Claims(mem) : f[1] \notin RunsOf(mem, p)}
      BY <1>1, DropProjectClaims
    <3>2. st.runs = Keep(mem.runs, RunIds \ RunsOf(mem, p))
      BY <1>1 DEF DropProject, IsStore
    <3> HIDE DEF st
    <3>3. DOMAIN st.runs = DOMAIN mem.runs \cap (RunIds \ RunsOf(mem, p))
          /\ \A r \in DOMAIN st.runs : st.runs[r] = mem.runs[r]
      BY <3>2 DEF Keep
    <3>4. \A e \in EvidenceOf(st) : e \in EvidenceOf(mem) /\ e[1] \notin RunsOf(mem, p)
      BY <3>3 DEF EvidenceOf
    <3>5. ASSUME NEW f \in Stranded(st) PROVE f \in Stranded(mem)
      <4>1. f \in files /\ <<f[1], f[2]>> \in EvidenceOf(st) /\ f \notin Claims(st)
        BY <3>5 DEF Stranded
      <4>2. <<f[1], f[2]>> \in EvidenceOf(mem) /\ f[1] \notin RunsOf(mem, p)
        BY <3>4, <4>1
      <4>. QED BY <3>1, <4>1, <4>2 DEF Stranded
    <3>. QED BY <3>5
  <2>3. Unlocked /\ Persist(st, ok) /\ UNCHANGED <<files, flight, crashes>>
    BY <1>6 DEF DeleteProject
  <2> HIDE DEF st
  <2>. QED BY <1>1, <2>1, <2>2, <2>3, PersistRetention
<1>. QED BY <1>2, <1>3, <1>4, <1>5, <1>6

\* Nothing is on disk under a run id not yet handed out.
LEMMA BornFiled ==
  ASSUME IInv, NEW x, x.run \notin minted, DOMAIN x.items = {}
  PROVE  Filed(x, files)
<1>1. \A f \in files : f[1] # x.run
  BY DEF IInv, EvidenceInv, RunIdsAreFresh
<1>. QED BY <1>1, FS_EmptySet DEF Filed

LEMMA RequestStepsRetention ==
  ASSUME IInv, RetentionInv, NEW w \in Workers
  PROVE  /\ \A c \in Tenants, l \in Lists : CreateListSnapshot(w, c, l) => RetentionInv'
         /\ \A p \in Projects : StartExplore(w, p) \/ StartProjectRun(w, p) => RetentionInv'
         /\ \A l \in Lists : StartListRun(w, l) => RetentionInv'
         /\ \A t \in Tests, r \in RunIds : StartTestRun(w, t, r) => RetentionInv'
         /\ \A r \in RunIds : NextJob(w, r) => RetentionInv'
         /\ ListRunDone(w) => RetentionInv'
<1>1. TypeInv /\ flight[w] \in Flight
  BY DEF IInv, TypeInv, TypeOK
<1>2. DOMAIN Idle.items = {}
  BY DEF Idle
<1>3. ASSUME NEW x, DOMAIN x.items = {}, x.pc \notin {"runExplore", "capture"}
      PROVE  Filed(x, files)
  BY <1>3, FS_EmptySet DEF Filed
<1>4. ASSUME NEW x, Filed(x, files), flight' = [flight EXCEPT ![w] = x],
             UNCHANGED <<mem, disk, files, cleanup, faults, crashes>>
      PROVE  RetentionInv'
  BY <1>1, <1>4, OneFiled, RequestRetention
<1>5. ASSUME NEW c \in Tenants, NEW l \in Lists, CreateListSnapshot(w, c, l) PROVE RetentionInv'
  <2> DEFINE x == [Idle EXCEPT !.pc = "insertList", !.ctx = c, !.list = l, !.new = ListOfAll(mem, c)]
  <2>1. x.items = Idle.items /\ x.pc = "insertList"
    BY DEF Idle
  <2>2. flight' = [flight EXCEPT ![w] = x]
    BY <1>5 DEF CreateListSnapshot
  <2> HIDE DEF x
  <2>. QED BY <1>2, <1>3, <1>4, <1>5, <2>1, <2>2 DEF CreateListSnapshot
<1>6. ASSUME NEW p \in Projects, StartExplore(w, p) PROVE RetentionInv'
  <2> DEFINE x == [Idle EXCEPT !.pc = "explore", !.ctx = TenantOf[p], !.project = p]
  <2>1. x.items = Idle.items /\ x.pc = "explore"
    BY DEF Idle
  <2>2. flight' = [flight EXCEPT ![w] = x]
    BY <1>6 DEF StartExplore
  <2> HIDE DEF x
  <2>. QED BY <1>2, <1>3, <1>4, <1>6, <2>1, <2>2 DEF StartExplore
<1>7. ASSUME NEW c, NEW jobs, Begin(w, c, jobs),
             UNCHANGED <<mem, disk, files, cleanup, faults, crashes>>
      PROVE  RetentionInv'
  <2> DEFINE x == [Idle EXCEPT !.pc = "next", !.ctx = c, !.jobs = jobs]
  <2>1. x.items = Idle.items /\ x.pc = "next"
    BY DEF Idle
  <2>2. flight' = [flight EXCEPT ![w] = x]
    BY <1>7 DEF Begin
  <2> HIDE DEF x
  <2>. QED BY <1>2, <1>3, <1>4, <1>7, <2>1, <2>2
<1>8. ASSUME NEW p \in Projects, StartProjectRun(w, p) PROVE RetentionInv'
  BY <1>7, <1>8 DEF StartProjectRun
<1>9. ASSUME NEW l \in Lists, StartListRun(w, l) PROVE RetentionInv'
  BY <1>7, <1>9 DEF StartListRun
<1>10. ASSUME NEW t \in Tests, NEW r \in RunIds, StartTestRun(w, t, r) PROVE RetentionInv'
  <2> DEFINE x == [Idle EXCEPT !.pc = "capture", !.ctx = TenantOf[ProjectOf[t]],
                               !.project = ProjectOf[t], !.run = r, !.todo = {t}]
  <2>1. x.items = Idle.items /\ x.run = r
    BY DEF Idle
  <2>2. flight' = [flight EXCEPT ![w] = x] /\ r \notin minted
    BY <1>10 DEF StartTestRun
  <2> HIDE DEF x
  <2>3. Filed(x, files)
    BY <1>2, <2>1, <2>2, BornFiled
  <2>. QED BY <1>4, <1>10, <2>2, <2>3 DEF StartTestRun
<1>11. ASSUME NEW r \in RunIds, NextJob(w, r) PROVE RetentionInv'
  <2>1. UNCHANGED <<mem, disk, files, cleanup, faults, crashes>>
    BY <1>11 DEF NextJob
  <2>2. CASE Return(w)
    BY <1>4, <2>1, <2>2, IdleFiled DEF Return
  <2>3. ASSUME NEW p, NEW todo, NEW jobs, r \notin minted,
               flight' = [flight EXCEPT ![w] =
                 [flight[w] EXCEPT !.pc = "runExplore", !.project = p, !.run = r,
                                   !.todo = todo, !.items = Idle.items, !.jobs = jobs]]
        PROVE  RetentionInv'
    <3> DEFINE x == [flight[w] EXCEPT !.pc = "runExplore", !.project = p, !.run = r,
                                      !.todo = todo, !.items = Idle.items, !.jobs = jobs]
    <3>1. x.run = r /\ x.items = Idle.items
      BY <1>1 DEF Flight
    <3>2. flight' = [flight EXCEPT ![w] = x]
      BY <2>3
    <3> HIDE DEF x
    <3>3. Filed(x, files)
      BY <1>2, <2>3, <3>1, BornFiled
    <3>. QED BY <1>4, <2>1, <3>2, <3>3
  <2>. QED BY <1>11, <2>2, <2>3 DEF NextJob
<1>12. ASSUME ListRunDone(w) PROVE RetentionInv'
  BY <1>4, <1>12, IdleFiled DEF ListRunDone, Return
<1>. QED BY <1>5, <1>6, <1>8, <1>9, <1>10, <1>11, <1>12

\* The steps of an execution before its save.
LEMMA ExecutionStepsRetention ==
  ASSUME IInv, RetentionInv, NEW w \in Workers
  PROVE  /\ \A ok \in BOOLEAN : CreateListInsert(w, ok) => RetentionInv'
         /\ ExploreFails(w) => RetentionInv'
         /\ \A e \in Explorations, ok \in BOOLEAN : ExploreSucceeds(w, e, ok) => RetentionInv'
         /\ \A t \in Tests, kinds \in Captures, outcome \in Verdicts :
              CaptureTest(w, t, kinds, outcome) => RetentionInv'
         /\ AbortRun(w) => RetentionInv'
<1>1. /\ TypeInv /\ IsStore(mem) /\ flight[w] \in Flight
      /\ \A v \in Workers : Filed(flight[v], files)
  BY DEF IInv, TypeInv, TypeOK, RetentionInv
<1>2. ASSUME flight[w].pc = "runExplore", flight' = [flight EXCEPT ![w].pc = "capture"]
      PROVE  \A v \in Workers : Filed(flight'[v], files)
  <2> DEFINE x == [flight[w] EXCEPT !.pc = "capture"]
  <2>1. x.items = flight[w].items /\ x.todo = flight[w].todo /\ x.run = flight[w].run
    BY <1>1 DEF Flight
  <2>2. flight' = [flight EXCEPT ![w] = x]
    BY <1>2
  <2> HIDE DEF x
  <2>3. Filed(x, files)
    BY <1>1, <1>2, <2>1 DEF Filed
  <2>. QED BY <1>1, <2>2, <2>3, OneFiled
<1>3. ASSUME NEW ok \in BOOLEAN, CreateListInsert(w, ok) PROVE RetentionInv'
  <2> DEFINE st == [mem EXCEPT !.lists = Put(mem.lists, flight[w].list, flight[w].new)]
  <2>1. st.runs = mem.runs /\ st.saves = mem.saves
    BY <1>1 DEF IsStore
  <2>2. Unlocked /\ Persist(st, ok) /\ Return(w) /\ UNCHANGED <<files, crashes>>
    BY <1>3 DEF CreateListInsert
  <2> HIDE DEF st
  <2>. QED BY <1>1, <2>1, <2>2, ReturnFiled, SameRunsRetention
<1>4. ASSUME ExploreFails(w) PROVE RetentionInv'
  <2>1. \A v \in Workers : Filed(flight'[v], files)
    BY <1>1, <1>2, <1>4, ReturnFiled DEF ExploreFails
  <2>. QED BY <1>4, <2>1, RequestRetention DEF ExploreFails
<1>5. ASSUME NEW e \in Explorations, NEW ok \in BOOLEAN, ExploreSucceeds(w, e, ok)
      PROVE  RetentionInv'
  <2>1. \A v \in Workers : Filed(flight'[v], files)
    BY <1>1, <1>2, <1>5, ReturnFiled DEF ExploreSucceeds
  <2>2. CASE flight[w].project \in DOMAIN mem.projects
    <3> DEFINE st == AddExploration(mem, e, flight[w].project)
    <3>1. st.runs = mem.runs /\ st.saves = mem.saves
      BY <1>1 DEF AddExploration, IsStore
    <3>2. Unlocked /\ Persist(st, ok) /\ UNCHANGED <<files, crashes>>
      BY <1>5, <2>2 DEF ExploreSucceeds
    <3> HIDE DEF st
    <3>. QED BY <2>1, <3>1, <3>2, SameRunsRetention
  <2>3. CASE flight[w].project \notin DOMAIN mem.projects
    BY <1>5, <2>1, <2>3, RequestRetention DEF ExploreSucceeds
  <2>. QED BY <2>2, <2>3
<1>6. ASSUME NEW t \in Tests, NEW kinds \in Captures, NEW outcome \in Verdicts,
             CaptureTest(w, t, kinds, outcome)
      PROVE  RetentionInv'
  <2> DEFINE r == flight[w].run
             item == [kinds |-> kinds, outcome |-> outcome]
             added == {r} \X {t} \X kinds
  <2>1. /\ flight[w].pc = "capture" /\ t \in flight[w].todo /\ files' = files \cup added
        /\ UNCHANGED <<mem, disk, cleanup, faults, crashes>>
    BY <1>6 DEF CaptureTest
  <2>2. /\ flight'[w].pc = "capture" /\ flight'[w].run = r
        /\ flight'[w].todo = flight[w].todo \ {t}
        /\ flight'[w].items = Put(flight[w].items, t, item)
    BY <1>1, <1>6 DEF CaptureTest, Flight, TypeInv
  <2>3. \A v \in Workers : v # w => flight'[v] = flight[v]
    BY <1>1, <1>6 DEF CaptureTest, TypeInv
  <2>4. /\ r \notin DOMAIN mem.runs
        /\ \A v \in Workers : Executing(v) /\ v # w => flight[v].run # r
    BY <2>1 DEF IInv, EvidenceInv, RunOwnsItsFiles, Executing
  <2>5. \A f \in added : f[1] = r /\ f[2] = t /\ f[3] \in kinds
    OBVIOUS
  <2> HIDE DEF added
  <2>6. Filed(flight'[w], files')
    <3>1. IsFiniteSet(DOMAIN Put(flight[w].items, t, item))
      <4>1. IsFiniteSet(DOMAIN flight[w].items \cup {t})
        BY <1>1, FS_AddElement DEF Filed
      <4>. QED BY <4>1 DEF Put
    <3>2. /\ t \notin DOMAIN flight[w].items
          /\ flight[w].todo \cap DOMAIN flight[w].items = {}
          /\ \A f \in files : f[1] = r =>
               f[2] \in DOMAIN flight[w].items /\ f[3] \in flight[w].items[f[2]].kinds
      BY <1>1, <2>1 DEF Filed
    <3>3. /\ DOMAIN flight'[w].items = DOMAIN flight[w].items \cup {t}
          /\ flight'[w].items[t].kinds = kinds
          /\ \A u \in DOMAIN flight[w].items : flight'[w].items[u] = flight[w].items[u]
      BY <2>2, <3>2 DEF Put
    <3>. QED BY <2>1, <2>2, <2>5, <3>1, <3>2, <3>3 DEF Filed
  <2>7. \A v \in Workers : Filed(flight'[v], files')
    <3>1. ASSUME NEW v \in Workers, v # w PROVE Filed(flight[v], files')
      BY <1>1, <2>1, <2>4, <2>5, <3>1 DEF Filed, Executing
    <3>. QED BY <2>3, <2>6, <3>1
  <2>8. Stranded(mem)' \subseteq Stranded(mem)
    <3>1. \A e \in EvidenceOf(mem) : e[1] # r
      BY <2>4 DEF EvidenceOf
    <3>2. \A f \in added : <<f[1], f[2]>> \notin EvidenceOf(mem)
      BY <2>5, <3>1
    <3>. QED BY <2>1, <3>2 DEF Stranded
  <2>. QED BY <2>1, <2>7, <2>8 DEF RetentionInv, NothingStranded
<1>7. ASSUME AbortRun(w) PROVE RetentionInv'
  <2>1. /\ files' \subseteq files /\ Return(w)
        /\ UNCHANGED <<mem, disk, cleanup, faults, crashes>>
    BY <1>7 DEF AbortRun, Discard
  <2>2. \A v \in Workers : Filed(flight'[v], files)
    BY <1>1, <2>1, ReturnFiled
  <2>3. \A v \in Workers : Filed(flight'[v], files')
    BY <2>1, <2>2 DEF Filed
  <2>. QED BY <2>1, <2>3 DEF RetentionInv, NothingStranded, Stranded
<1>. QED BY <1>3, <1>4, <1>5, <1>6, <1>7

LEMMA SaveRunRetention ==
  ASSUME IInv, RetentionInv, NEW w \in Workers, NEW ok \in BOOLEAN, SaveRun(w, ok)
  PROVE  RetentionInv'
<1> DEFINE r == flight[w].run
           p == flight[w].project
           items == flight[w].items
           inserted == InsertRun(mem, r, p, items)
           pruned == Pruned(inserted, files)
           st == ClearFlags(inserted, pruned)
           gone == {f \in files : <<f[1], f[2]>> \in pruned}
<1>1. /\ TypeInv /\ IsStore(mem) /\ Frugal(mem) /\ files \subseteq Files
      /\ flight[w] \in Flight /\ flight[w].pc = "capture" /\ r \in RunIds
      /\ Unlocked
      /\ \A v \in Workers : Filed(flight[v], files)
  BY DEF IInv, TypeInv, TypeOK, Request, RetentionInv, SaveRun
<1>2. r \notin DOMAIN mem.runs
  BY <1>1 DEF IInv, EvidenceInv, RunOwnsItsFiles, Executing
<1>3. CASE p \notin DOMAIN mem.projects
  <2>1. /\ files' \subseteq files /\ Return(w)
        /\ UNCHANGED <<mem, disk, cleanup, faults, crashes>>
    BY <1>3 DEF SaveRun, Discard
  <2>2. \A v \in Workers : Filed(flight'[v], files)
    BY <1>1, <2>1, ReturnFiled
  <2>3. \A v \in Workers : Filed(flight'[v], files')
    BY <2>1, <2>2 DEF Filed
  <2>. QED BY <2>1, <2>3 DEF RetentionInv, NothingStranded, Stranded
<1>4. CASE p \in DOMAIN mem.projects
  <2>1. /\ Persist(st, ok)
        /\ IF ok
           THEN cleanup' = [held |-> TRUE, sweep |-> TRUE, remove |-> gone] /\ Continue(w)
           ELSE Return(w)
        /\ UNCHANGED <<files, crashes>>
    BY <1>4 DEF SaveRun
  <2>2. \A v \in Workers : Filed(flight'[v], files)
    <3> DEFINE x == [flight[w] EXCEPT !.pc = "next", !.run = None]
    <3>1. x.items = items /\ x.pc = "next"
      BY <1>1 DEF Flight
    <3>2. Continue(w) => flight' = [flight EXCEPT ![w] = x]
      BY DEF Continue
    <3> HIDE DEF x
    <3>3. Filed(x, files)
      BY <1>1, <3>1 DEF Filed
    <3>4. CASE Continue(w)
      BY <1>1, <3>2, <3>3, <3>4, OneFiled
    <3>5. CASE Return(w)
      BY <1>1, <3>5, ReturnFiled
    <3>. QED BY <2>1, <3>4, <3>5
  <2>3. Claims(inserted) \subseteq files
    BY <1>1, InsertedClaimsExist
  <2>4. items \in Items /\ IsFiniteSet(DOMAIN items)
    BY <1>1 DEF Flight, Filed
  <2>5. Frugal(st)
    BY <1>1, <1>2, <1>4, <2>3, <2>4, SaveFrugal
  <2>6. IsStore(inserted)
    BY <1>1, <1>4, <2>4, InsertRunShape
  <2>7. /\ EvidenceOf(st) = EvidenceOf(inserted)
        /\ Claims(st) = {f \in Claims(inserted) : <<f[1], f[2]>> \notin pruned}
    BY <2>6, ClearFlagsClaims
  <2>8. Claims(inserted) = Claims(mem) \cup
          {f \in Files : f[1] = r /\ f[2] \in DOMAIN items /\ f[3] \in items[f[2]].kinds}
    BY <1>1, <1>2, InsertRunClaims
  <2>9. \A e \in EvidenceOf(inserted) :
          e \in EvidenceOf(mem) \/ e[1] = r
    <3>1. inserted.runs = Put(mem.runs, r, [project |-> p, at |-> mem.saves, items |-> items])
      BY <1>1 DEF InsertRun, IsStore
    <3> HIDE DEF inserted
    <3>. QED BY <3>1 DEF EvidenceOf, Put
  <2> HIDE DEF st, pruned, inserted
  <2>10. ok /\ Stranded(mem) = {} => Stranded(st) \subseteq cleanup'.remove
    <3> SUFFICES ASSUME ok, Stranded(mem) = {}, NEW f \in Stranded(st)
                 PROVE  f \in cleanup'.remove
      OBVIOUS
    <3>1. f \in files /\ f \in Files /\ <<f[1], f[2]>> \in EvidenceOf(inserted) /\ f \notin Claims(st)
      BY <1>1, <2>7 DEF Stranded
    <3>2. f \in Claims(inserted)
      <4>1. CASE f[1] = r
        <5>1. f[2] \in DOMAIN items /\ f[3] \in items[f[2]].kinds
          BY <1>1, <3>1, <4>1 DEF Filed
        <5>. QED BY <2>8, <3>1, <4>1, <5>1
      <4>2. CASE f[1] # r
        <5>1. <<f[1], f[2]>> \in EvidenceOf(mem)
          BY <2>9, <3>1, <4>2
        <5>2. f \in Claims(mem)
          BY <3>1, <5>1 DEF Stranded
        <5>. QED BY <2>8, <5>2
      <4>. QED BY <4>1, <4>2
    <3>3. f \in gone
      BY <2>7, <3>1, <3>2
    <3> HIDE DEF gone
    <3>. QED BY <2>1, <3>3
  <2>. QED BY <1>1, <2>1, <2>2, <2>5, <2>10, PersistRetention
<1>. QED BY <1>3, <1>4

LEMMA EnvironmentRetention ==
  ASSUME IInv, RetentionInv
  PROVE  /\ FinishCleanup => RetentionInv'
         /\ Age => RetentionInv'
         /\ CrashAndReopen => RetentionInv'
<1>1. ASSUME FinishCleanup PROVE RetentionInv'
  <2>1. /\ files' = files \ ToRemove /\ cleanup.remove \subseteq ToRemove
        /\ UNCHANGED <<mem, disk, flight, faults, crashes>>
    BY <1>1 DEF FinishCleanup, Discard, ToRemove
  <2>2. Stranded(mem)' = Stranded(mem) \ ToRemove
    BY <2>1 DEF Stranded
  <2>3. NothingStranded'
    BY <2>1, <2>2 DEF RetentionInv, NothingStranded
  <2>4. \A w \in Workers : Filed(flight[w], files')
    BY <2>1 DEF RetentionInv, Filed
  <2>. QED BY <2>1, <2>3, <2>4 DEF RetentionInv
<1>2. ASSUME Age PROVE RetentionInv'
  <2>1. UNCHANGED <<mem, disk, files, flight, cleanup, faults, crashes>>
    BY <1>2 DEF Age
  <2>. QED BY <2>1 DEF RetentionInv, NothingStranded, Stranded
<1>3. ASSUME CrashAndReopen PROVE RetentionInv'
  <2>1. crashes' # 0 /\ mem' = disk /\ disk' = disk
    BY <1>3 DEF CrashAndReopen, IInv, TypeInv, TypeOK
  <2>2. \A w \in Workers : Filed(flight'[w], files')
    BY <1>3, IdleFiled DEF CrashAndReopen
  <2>. QED BY <2>1, <2>2 DEF RetentionInv, NothingStranded
<1>. QED BY <1>1, <1>2, <1>3

LEMMA RetentionInit == Init => RetentionInv
<1> SUFFICES ASSUME Init PROVE RetentionInv
  OBVIOUS
<1>1. DOMAIN EmptyStore.runs = {}
  BY DEF EmptyStore
<1>2. EvidenceOf(EmptyStore) = {} /\ Claims(EmptyStore) = {}
  BY <1>1 DEF EvidenceOf, Claims
<1>3. Frugal(EmptyStore)
  BY <1>1, <1>2, FS_EmptySet, LimitAssumption DEF Frugal, Finite, Numbered, Limited
<1>4. Stranded(mem) = {}
  BY DEF Init, Stranded
<1>. QED BY <1>3, <1>4, IdleFiled DEF Init, RetentionInv, NothingStranded

LEMMA RetentionNext == IInv /\ RetentionInv /\ [Next]_vars => RetentionInv'
<1> SUFFICES ASSUME IInv, RetentionInv, [Next]_vars PROVE RetentionInv'
  OBVIOUS
<1>1. ASSUME NEW w \in Workers, WorkerNext(w) PROVE RetentionInv'
  BY <1>1, RequestStepsRetention, ExecutionStepsRetention, SaveRunRetention DEF WorkerNext
<1>2. CASE UNCHANGED vars
  BY <1>2 DEF vars, RetentionInv, NothingStranded, Stranded
<1>. QED BY <1>1, <1>2, StoreOperationsRetention, EnvironmentRetention DEF Next

LEMMA RetentionAlways == Spec => []RetentionInv
<1>1. Init => IInv
  BY TypeInit, EvidenceInit DEF IInv
<1>2. IInv /\ [Next]_vars => IInv'
  BY EvidenceNext
<1>. QED BY <1>1, <1>2, RetentionInit, RetentionNext, PTL DEF Spec

-----------------------------------------------------------------------------
(* The theorems. *)

\* Only the newest MaxRuns runs claim evidence, and no more than MaxBytes of it,
\* in memory and in checks.json, after any saves, deletions, heals, failed writes
\* and kills (prune_evidence, over_budget). That over_budget's walk has a result
\* at all, within the budget, is proved by induction over the evidence it visits.
THEOREM ClaimsAlwaysWithinLimits == Spec => []ClaimsWithinLimits
<1>1. RetentionInv => ClaimsWithinLimits
  BY DEF RetentionInv, Frugal, Limited, ClaimsWithinLimits, States
<1>. QED BY <1>1, RetentionAlways, PTL

\* Until a kill or a failed write of checks.json, a file whose record no longer
\* claims it is one that a writer holding the lock is about to remove, whatever
\* requests abort, overlap or lose their project (save_run, remove_evidence).
THEOREM NothingStaysStranded == Spec => []NothingStranded
<1>1. RetentionInv => NothingStranded
  BY DEF RetentionInv
<1>. QED BY <1>1, RetentionAlways, PTL
=============================================================================
