------------------------- MODULE SharedStore_proofs -------------------------
(***************************************************************************)
(* Proofs about several processes over one data directory (SharedStore):   *)
(* the evidence of a run in flight is never removed, and what overlapping  *)
(* processes lose of each other, processes that follow one another keep.   *)
(***************************************************************************)
EXTENDS SharedStore, TLAPS

-----------------------------------------------------------------------------
(* What the changes of StoreState do to the claims. These lemmas and the next
   ones are ChecksStore_proofs' too: each module is checked on its own. *)

\* Operations that leave the run records alone change no claim.
LEMMA SameRunsSameClaims ==
  ASSUME NEW a, NEW b, a.runs = b.runs
  PROVE  /\ EvidenceOf(a) = EvidenceOf(b)
         /\ Claims(a) = Claims(b)
BY DEF Claims, EvidenceOf

\* Only ids of stored runs are claimed.
LEMMA ClaimsAreOfStoredRuns ==
  ASSUME NEW st, NEW f \in Claims(st)
  PROVE  f \in Files /\ f[1] \in DOMAIN st.runs /\ <<f[1], f[2]>> \in EvidenceOf(st)
BY DEF Claims, EvidenceOf, Evidence, Files

\* The run table after flags are cleared.
LEMMA ClearFlagsRuns ==
  ASSUME NEW st, IsStore(st), NEW E
  PROVE  LET new == ClearFlags(st, E)
         IN /\ DOMAIN new.runs = DOMAIN st.runs
            /\ \A r \in DOMAIN st.runs :
                 /\ new.runs[r].project = st.runs[r].project
                 /\ new.runs[r].at = st.runs[r].at
                 /\ DOMAIN new.runs[r].items = DOMAIN st.runs[r].items
                 /\ \A t \in DOMAIN st.runs[r].items :
                      /\ new.runs[r].items[t].outcome = st.runs[r].items[t].outcome
                      /\ new.runs[r].items[t].kinds =
                           IF <<r, t>> \in E THEN {} ELSE st.runs[r].items[t].kinds
<1> DEFINE new == ClearFlags(st, E)
<1>1. new.runs = [r \in DOMAIN st.runs |->
    [st.runs[r] EXCEPT !.items = [t \in DOMAIN st.runs[r].items |->
      IF <<r, t>> \in E
      THEN [st.runs[r].items[t] EXCEPT !.kinds = {}]
      ELSE st.runs[r].items[t]]]]
  BY DEF ClearFlags, IsStore
<1>2. ASSUME NEW r \in DOMAIN st.runs
      PROVE  /\ st.runs[r] \in Run
             /\ \A t \in DOMAIN st.runs[r].items : st.runs[r].items[t] \in Item
  BY DEF IsStore, IsTable, Run, Items
<1>3. ASSUME NEW r \in DOMAIN st.runs
      PROVE  /\ new.runs[r].project = st.runs[r].project
             /\ new.runs[r].at = st.runs[r].at
             /\ new.runs[r].items = [t \in DOMAIN st.runs[r].items |->
                  IF <<r, t>> \in E
                  THEN [st.runs[r].items[t] EXCEPT !.kinds = {}]
                  ELSE st.runs[r].items[t]]
  BY <1>1, <1>2 DEF Run
<1>4. ASSUME NEW r \in DOMAIN st.runs, NEW t \in DOMAIN st.runs[r].items
      PROVE  /\ new.runs[r].items[t].outcome = st.runs[r].items[t].outcome
             /\ new.runs[r].items[t].kinds =
                  IF <<r, t>> \in E THEN {} ELSE st.runs[r].items[t].kinds
  <2>1. new.runs[r].items[t] =
          IF <<r, t>> \in E
          THEN [st.runs[r].items[t] EXCEPT !.kinds = {}]
          ELSE st.runs[r].items[t]
    BY <1>3
  <2>2. /\ [st.runs[r].items[t] EXCEPT !.kinds = {}].kinds = {}
        /\ [st.runs[r].items[t] EXCEPT !.kinds = {}].outcome = st.runs[r].items[t].outcome
    <3> HIDE DEF new
    <3> QED  BY <1>2 DEF Item
  <2> HIDE DEF new
  <2> QED
    BY <2>1, <2>2
<1> QED
  BY <1>1, <1>3, <1>4

\* Clearing flags withdraws exactly the claims of the cleared ids.
LEMMA ClearFlagsClaims ==
  ASSUME NEW st, IsStore(st), NEW E
  PROVE  /\ EvidenceOf(ClearFlags(st, E)) = EvidenceOf(st)
         /\ Claims(ClearFlags(st, E)) = {f \in Claims(st) : <<f[1], f[2]>> \notin E}
BY ClearFlagsRuns DEF Claims, EvidenceOf, Evidence, Files

\* A saved run adds the claims of its own items and no other.
LEMMA InsertRunClaims ==
  ASSUME NEW st, IsStore(st), NEW r, r \notin DOMAIN st.runs, NEW p, NEW items
  PROVE  Claims(InsertRun(st, r, p, items)) =
           Claims(st) \cup
           {f \in Files : f[1] = r /\ f[2] \in DOMAIN items /\ f[3] \in items[f[2]].kinds}
<1>1. InsertRun(st, r, p, items).runs =
        Put(st.runs, r, [project |-> p, at |-> st.saves, items |-> items])
  BY DEF InsertRun, IsStore
<1> QED
  BY <1>1 DEF Claims, EvidenceOf, Evidence, Files, Put

\* Deleting a project withdraws the claims of its runs and no other.
LEMMA DropProjectClaims ==
  ASSUME NEW st, IsStore(st), NEW p
  PROVE  Claims(DropProject(st, p)) = {f \in Claims(st) : f[1] \notin RunsOf(st, p)}
<1>1. DropProject(st, p).runs = Keep(st.runs, RunIds \ RunsOf(st, p))
  BY DEF DropProject, IsStore
<1> QED
  BY <1>1 DEF Claims, EvidenceOf, Evidence, Files, Keep, RunsOf, IsStore, IsTable

\* What pruning takes away is evidence the state records.
LEMMA PrunedIsStored ==
  ASSUME NEW st, NEW F
  PROVE  Pruned(st, F) \subseteq EvidenceOf(st)
BY DEF Pruned

-----------------------------------------------------------------------------
(* Each keeps the shape of the stored state. *)

\* A table with one more entry, or another one at a key, is a table.
LEMMA PutTable ==
  ASSUME NEW f, NEW D, NEW V, IsTable(f, D, V), NEW x \in D, NEW v \in V
  PROVE  IsTable(Put(f, x, v), D, V)
BY DEF IsTable, Put

\* So is what is left of one.
LEMMA KeepTable ==
  ASSUME NEW f, NEW D, NEW V, IsTable(f, D, V), NEW S
  PROVE  IsTable(Keep(f, S), D, V)
BY DEF IsTable, Keep

\* The first start finds nothing stored.
LEMMA EmptyStoreShape == IsStore(EmptyStore)
BY DEF IsStore, EmptyStore, IsTable

\* A new project keeps the shape of the stored state.
LEMMA AddProjectShape ==
  ASSUME NEW st, IsStore(st), NEW p \in Projects
  PROVE  IsStore(AddProject(st, p))
<1> DEFINE new == AddProject(st, p)
<1>1. /\ new.projects = Put(st.projects, p, [latest |-> None, exploration |-> None])
      /\ new.tests = [t \in DOMAIN st.tests \cup TestsOf(p) |->
            IF t \in TestsOf(p) THEN [status |-> "idle", latest |-> None] ELSE st.tests[t]]
      /\ new.runs = st.runs /\ new.explorations = st.explorations
      /\ new.agentRuns = st.agentRuns /\ new.lists = st.lists /\ new.saves = st.saves
      /\ DOMAIN new = DOMAIN st
  BY DEF AddProject, IsStore
<1>2. IsTable(new.projects, Projects, ProjectRow)
  <2>1. [latest |-> None, exploration |-> None] \in ProjectRow
    BY DEF ProjectRow
  <2>2. IsTable(st.projects, Projects, ProjectRow)
    BY DEF IsStore
  <2> QED
    BY <1>1, <2>1, <2>2, PutTable
<1>3. IsTable(new.tests, Tests, TestRow)
  BY <1>1 DEF IsStore, IsTable, TestsOf, TestRow
<1> QED
  BY <1>1, <1>2, <1>3 DEF IsStore

\* So does deleting one with everything it owns.
LEMMA DropProjectShape ==
  ASSUME NEW st, IsStore(st), NEW p
  PROVE  IsStore(DropProject(st, p))
<1> DEFINE new == DropProject(st, p)
<1>1. /\ new.projects = Keep(st.projects, Projects \ {p})
      /\ new.tests = Keep(st.tests, Tests \ TestsOf(p))
      /\ new.runs = Keep(st.runs, RunIds \ RunsOf(st, p))
      /\ new.explorations =
           Keep(st.explorations, {e \in DOMAIN st.explorations : st.explorations[e] # p})
      /\ new.agentRuns = Keep(st.agentRuns, {a \in DOMAIN st.agentRuns : st.agentRuns[a] # p})
      /\ new.lists = [l \in DOMAIN st.lists |->
            IF st.lists[l].tenant = TenantOf[p]
            THEN [st.lists[l] EXCEPT !.projects = st.lists[l].projects \ {p}]
            ELSE st.lists[l]]
      /\ new.saves = st.saves
      /\ DOMAIN new = DOMAIN st
  BY DEF DropProject, IsStore
<1>2. IsTable(new.lists, Lists, List)
  BY <1>1 DEF IsStore, IsTable, List
<1>3. \A S : /\ IsTable(Keep(st.projects, S), Projects, ProjectRow)
             /\ IsTable(Keep(st.tests, S), Tests, TestRow)
             /\ IsTable(Keep(st.runs, S), RunIds, Run)
             /\ IsTable(Keep(st.explorations, S), Explorations, Projects)
             /\ IsTable(Keep(st.agentRuns, S), AgentRuns, Projects)
  BY KeepTable DEF IsStore
<1> QED
  BY <1>1, <1>2, <1>3 DEF IsStore

\* So does a stored exploration.
LEMMA AddExplorationShape ==
  ASSUME NEW st, IsStore(st), NEW e \in Explorations, NEW p \in DOMAIN st.projects
  PROVE  IsStore(AddExploration(st, e, p))
<1> DEFINE new == AddExploration(st, e, p)
<1>1. /\ new.projects = [st.projects EXCEPT ![p].exploration = e]
      /\ new.explorations = Put(st.explorations, e, p)
      /\ new.tests = st.tests /\ new.runs = st.runs
      /\ new.agentRuns = st.agentRuns /\ new.lists = st.lists /\ new.saves = st.saves
      /\ DOMAIN new = DOMAIN st
  BY DEF AddExploration, IsStore
<1>2. IsTable(new.projects, Projects, ProjectRow)
  BY <1>1 DEF IsStore, IsTable, ProjectRow
<1>3. IsTable(new.explorations, Explorations, Projects)
  <2>1. p \in Projects
    BY DEF IsStore, IsTable
  <2>2. IsTable(st.explorations, Explorations, Projects)
    BY DEF IsStore
  <2> QED
    BY <1>1, <2>1, <2>2, PutTable
<1> QED
  BY <1>1, <1>2, <1>3 DEF IsStore

\* So does a saved run.
LEMMA InsertRunShape ==
  ASSUME NEW st, IsStore(st), NEW r \in RunIds, NEW p \in DOMAIN st.projects,
         NEW items \in Items
  PROVE  IsStore(InsertRun(st, r, p, items))
<1> DEFINE new == InsertRun(st, r, p, items)
<1>1. /\ new.projects = [st.projects EXCEPT ![p].latest = r]
      /\ new.tests = [t \in DOMAIN st.tests |->
            IF t \in TestsOf(p) \cap DOMAIN items
            THEN [status |-> IF items[t].outcome = "passed" THEN "passed" ELSE "attention",
                  latest |-> r]
            ELSE st.tests[t]]
      /\ new.runs = Put(st.runs, r, [project |-> p, at |-> st.saves, items |-> items])
      /\ new.saves = st.saves + 1
      /\ new.explorations = st.explorations /\ new.agentRuns = st.agentRuns
      /\ new.lists = st.lists
      /\ DOMAIN new = DOMAIN st
  BY DEF InsertRun, IsStore
<1>2. IsTable(new.projects, Projects, ProjectRow)
  BY <1>1 DEF IsStore, IsTable, ProjectRow
<1>3. IsTable(new.tests, Tests, TestRow)
  BY <1>1 DEF IsStore, IsTable, TestRow
<1>4. [project |-> p, at |-> st.saves, items |-> items] \in Run
  BY DEF IsStore, IsTable, Run
<1>5. IsTable(new.runs, RunIds, Run)
  BY <1>1, <1>4, PutTable DEF IsStore
<1> QED
  BY <1>1, <1>2, <1>3, <1>5 DEF IsStore

\* A table of items maps tests to items, and is one by that alone.
LEMMA ItemsShape ==
  ASSUME NEW items
  PROVE  items \in Items
         <=> IsTable(items, Tests, Item)
BY DEF IsTable, Items

\* So does clearing the flags of removed evidence.
LEMMA ClearFlagsShape ==
  ASSUME NEW st, IsStore(st), NEW E
  PROVE  IsStore(ClearFlags(st, E))
<1> DEFINE clear(r) == [t \in DOMAIN st.runs[r].items |->
                          IF <<r, t>> \in E
                          THEN [st.runs[r].items[t] EXCEPT !.kinds = {}]
                          ELSE st.runs[r].items[t]]
           new == ClearFlags(st, E)
<1>1. /\ new.runs = [r \in DOMAIN st.runs |-> [st.runs[r] EXCEPT !.items = clear(r)]]
      /\ new.projects = st.projects /\ new.tests = st.tests
      /\ new.explorations = st.explorations /\ new.agentRuns = st.agentRuns
      /\ new.lists = st.lists /\ new.saves = st.saves
      /\ DOMAIN new = DOMAIN st
  BY DEF ClearFlags, IsStore
<1>2. ASSUME NEW r \in DOMAIN st.runs
      PROVE  [st.runs[r] EXCEPT !.items = clear(r)] \in Run
  <2>1. st.runs[r] \in Run
    BY DEF IsStore, IsTable
  <2>2. IsTable(st.runs[r].items, Tests, Item)
    BY <2>1, ItemsShape DEF Run
  <2>3. \A i \in Item : [i EXCEPT !.kinds = {}] \in Item
    BY DEF Item
  <2>4. IsTable(clear(r), Tests, Item)
    BY <2>2, <2>3 DEF IsTable
  <2>5. clear(r) \in Items
    BY <2>4, ItemsShape
  <2> HIDE DEF clear
  <2> QED
    BY <2>1, <2>5 DEF Run
<1>3. IsTable(new.runs, RunIds, Run)
  <2>1. DOMAIN st.runs \subseteq RunIds
    BY DEF IsStore, IsTable
  <2>2. new.runs \in [DOMAIN st.runs -> Run]
    <3> DEFINE table == [r \in DOMAIN st.runs |-> [st.runs[r] EXCEPT !.items = clear(r)]]
    <3>1. new.runs = table
      BY <1>1
    <3>2. table \in [DOMAIN st.runs -> Run]
      <4> HIDE DEF clear
      <4> QED
        BY <1>2
    <3> QED
      BY <3>1, <3>2
  <2> HIDE DEF new
  <2> QED
    BY <2>1, <2>2 DEF IsTable
<1> QED
  BY <1>1, <1>3 DEF IsStore

-----------------------------------------------------------------------------
(* The inductive invariant. *)

Shape == TypeOK /\ mem = [x \in Processes |-> mem[x]]

\* A run in flight has an id of its own, and a process that is open.
RunsOwned ==
  \A x \in Processes :
    IF run[x].pc = "idle" THEN run[x] = NoRun
    ELSE /\ Open(x)
         /\ run[x].project \in Projects
         /\ run[x].run \in RunIds \cap minted
         /\ \A y \in Processes : run[y].run = run[x].run => y = x

\* Run id `r` is in a place from which a removal of its files can start: an
\* image that has its record, a removal that is due, a file the sweep may take.
Exposed(r) ==
  \/ r \in DOMAIN disk.runs
  \/ \E x \in Processes : r \in DOMAIN mem[x].runs
  \/ \E x \in Processes : \E f \in cleanup[x].remove : f[1] = r
  \/ \E f \in old : f[1] = r

\* Run ids are handed out before anything knows them, and a run in flight is
\* known only to its process.
RunsFresh ==
  /\ \A r \in RunIds : Exposed(r) => r \in minted
  /\ \A f \in files : f[1] \in minted
  /\ \A x \in Processes : run[x].pc # "idle" => ~Exposed(run[x].run)
  /\ \A x \in Processes : run[x].pc \in {"explore", "explored"} =>
       \A f \in files : f[1] # run[x].run

JobFiles(job) == {job.run} \X TestsOf(job.project) \X job.kinds

Captured == \A x \in Processes : run[x].pc = "captured" => JobFiles(run[x]) \subseteq files

\* Removals are due only in a process that is open, and never of a file its
\* image claims.
CleanupsApart ==
  \A x \in Processes :
    /\ ~cleanup[x].held => cleanup[x] = NoCleanup
    /\ cleanup[x].held => Open(x)
    /\ cleanup[x].remove \cap Claims(mem[x]) = {}

\* Whoever has the store open together has met.
OpenHaveMet ==
  \A x, y \in Processes : Open(x) /\ Open(y) /\ x # y => {x, y} \in met

Holds(st, a) == a[1] \in DOMAIN st.runs /\ st.runs[a[1]].project = a[2]

Alone(x) == \A pair \in met : x \notin pair

\* What a process saved alone is in every image that is still written.
SavedAlone ==
  \A a \in acked : Alone(a[3]) =>
    Holds(disk, a) /\ \A x \in Processes : Open(x) => Holds(mem[x], a)

\* While no two processes ever met, the open one's image is what the file
\* holds, and each claim has its file.
OneAtATime ==
  met = {} => /\ \A x \in Processes : Open(x) => mem[x] = disk
              /\ Claims(disk) \subseteq files

SharedInv ==
  /\ Shape
  /\ RunsOwned
  /\ RunsFresh
  /\ Captured
  /\ CleanupsApart
  /\ OpenHaveMet
  /\ SavedAlone
  /\ OneAtATime
  /\ OnlyOverlapHidesSidecar

-----------------------------------------------------------------------------
(* The steps, by what they do to the store. *)

Ports == Sidecars \cup {None}

\* The files a step of process x may remove.
Removable(x) == ToRemove(x) \cup FilesOfRun(run[x].run)

Loses(x) == \E F \in SUBSET Removable(x) : Discard(F)

\* A sidecar goes on to the next part of its life.
Moves(x) ==
  /\ x \in Sidecars
  /\ Open(x)
  /\ \E q \in {"bound", "serving", "draining", "withdrawing"} :
       phase' = [phase EXCEPT ![x] = q] /\ (q = "serving" => handoff' = x)
  /\ port' \in Ports
  /\ handoff' \in {handoff, x}
  /\ UNCHANGED <<store, met>>

\* A process ends, orderly or killed.
Ends(x) ==
  /\ Open(x)
  /\ Loses(x)
  /\ Gone(x)
  /\ \/ handoff' = handoff
     \/ handoff' = None /\ x \in Sidecars

\* A process uses the store.
Uses(x) ==
  \/ \E p \in Projects : CreateProject(x, p) \/ DeleteProject(x, p)
  \/ \E p \in Projects, r \in RunIds : StartRun(x, p, r)
  \/ \E e \in Explorations : ExploreSucceeds(x, e)
  \/ \E kinds \in Captures : Capture(x, kinds)
  \/ AbortRun(x)
  \/ SaveRun(x)
  \/ FinishCleanup(x)

LEMMA ExitEnds ==
  ASSUME NEW x \in Processes, Open(x), Exit(x), handoff' = handoff \/ (handoff' = None /\ x \in Sidecars)
  PROVE  Ends(x)
BY DEF Ends, Exit, Loses, Removable

\* Every step is one of these.
LEMMA StepKinds ==
  ASSUME [Next]_vars, TypeOK
  PROVE  \/ UNCHANGED vars
         \/ \E x \in Processes : Moves(x) \/ Start(x) \/ Ends(x) \/ Uses(x)
         \/ Age
<1> USE DEF Ports
<1>1. ASSUME NEW s \in Sidecars, SidecarNext(s)
      PROVE  Moves(s) \/ Ends(s) \/ Uses(s)
  <2>0. s \in Processes
    BY DEF Processes
  <2>1. CASE Bind(s)
    BY <2>0, <2>1, ExitEnds DEF Bind, Moves, Open, TypeOK
  <2>2. CASE Publish(s)
    BY <2>0, <2>2 DEF Publish, Moves, Open, TypeOK, store
  <2>3. CASE PublishFails(s)
    BY <2>0, <2>3, ExitEnds DEF PublishFails, Open
  <2>4. CASE Shutdown(s)
    BY <2>0, <2>4 DEF Shutdown, Moves, Open, TypeOK
  <2>5. CASE WithdrawRead(s)
    BY <2>0, <2>5, ExitEnds DEF WithdrawRead, Moves, Open, TypeOK
  <2>6. CASE WithdrawRemove(s)
    BY <2>0, <2>6, ExitEnds DEF WithdrawRemove, Open
  <2>7. CASE \E p \in Projects : CreateProject(s, p) \/ DeleteProject(s, p)
    BY <2>7 DEF Uses
  <2> QED
    BY <1>1, <2>1, <2>2, <2>3, <2>4, <2>5, <2>6, <2>7 DEF SidecarNext
<1>2. ASSUME NEW c \in Clients, ClientEnds(c)
      PROVE  Ends(c)
  BY <1>2, ExitEnds DEF ClientEnds, Open, Processes
<1>3. ASSUME NEW x \in Processes, ProcessNext(x)
      PROVE  Start(x) \/ Ends(x) \/ Uses(x)
  <2>1. CASE Kill(x)
    <3>1. Loses(x)
      BY <2>1 DEF Kill, Loses, Removable
    <3> QED
      BY <2>1, <3>1 DEF Kill, Ends
  <2>2. CASE ~Kill(x)
    BY <1>3, <2>2 DEF ProcessNext, Uses
  <2> QED
    BY <2>1, <2>2
<1>4. CASE \E s \in Sidecars : SidecarNext(s)
  BY <1>1, <1>4 DEF Processes
<1>5. CASE \E c \in Clients : ClientEnds(c)
  BY <1>2, <1>5 DEF Processes
<1>6. CASE \E x \in Processes : ProcessNext(x)
  BY <1>3, <1>6
<1> QED
  BY <1>4, <1>5, <1>6 DEF Next

-----------------------------------------------------------------------------
(* What is written. *)

\* The image save_run writes, when evidence `E` is pruned.
SavedImage(x, E) ==
  ClearFlags(InsertRun(mem[x], run[x].run, run[x].project, ItemsOf(run[x])), E)

\* A save adds its run and its files to what the image knew, and nothing else.
LEMMA SavedImageFacts ==
  ASSUME SharedInv, NEW x \in Processes, run[x].pc = "captured",
         run[x].project \in DOMAIN mem[x].projects, NEW E
  PROVE  /\ IsStore(SavedImage(x, E))
         /\ DOMAIN SavedImage(x, E).runs = DOMAIN mem[x].runs \cup {run[x].run}
         /\ \A r \in DOMAIN mem[x].runs :
              SavedImage(x, E).runs[r].project = mem[x].runs[r].project
         /\ SavedImage(x, E).runs[run[x].run].project = run[x].project
         /\ Claims(SavedImage(x, E)) \subseteq
              {f \in Claims(mem[x]) \cup JobFiles(run[x]) : <<f[1], f[2]>> \notin E}
<1> DEFINE job == run[x]
           st == mem[x]
           items == ItemsOf(job)
           inserted == InsertRun(st, job.run, job.project, items)
<1>1. /\ IsStore(st)
      /\ job.run \in RunIds /\ job.run \notin DOMAIN st.runs
      /\ job.kinds \subseteq Kinds
  BY DEF SharedInv, Shape, TypeOK, RunsOwned, RunsFresh, Exposed
<1>2. items = [t \in TestsOf(job.project) |-> [kinds |-> job.kinds, outcome |-> "passed"]]
  BY DEF ItemsOf
<1>3. items \in Items
  <2>1. IsTable(items, Tests, Item)
    BY <1>1, <1>2 DEF IsTable, Item, TestsOf
  <2> QED
    BY <2>1, ItemsShape
<1>4. IsStore(inserted)
  BY <1>1, <1>3, InsertRunShape
<1>5. inserted.runs = Put(st.runs, job.run,
                          [project |-> job.project, at |-> st.saves, items |-> items])
  BY <1>1 DEF InsertRun, IsStore
<1>6. /\ DOMAIN inserted.runs = DOMAIN st.runs \cup {job.run}
      /\ \A r \in DOMAIN st.runs : inserted.runs[r].project = st.runs[r].project
      /\ inserted.runs[job.run].project = job.project
  BY <1>1, <1>5 DEF Put
<1>7. Claims(inserted) \subseteq Claims(st) \cup JobFiles(job)
  <2>1. Claims(inserted) = Claims(st) \cup
          {f \in Files : f[1] = job.run /\ f[2] \in DOMAIN items /\ f[3] \in items[f[2]].kinds}
    <3> HIDE DEF items, st, job
    <3> QED  BY <1>1, InsertRunClaims DEF inserted
  <2>2. ASSUME NEW f \in Files, f[1] = job.run, f[2] \in DOMAIN items, f[3] \in items[f[2]].kinds
        PROVE  f \in JobFiles(job)
    <3>1. f = <<f[1], f[2], f[3]>>
      BY DEF Files
    <3>2. f[2] \in TestsOf(job.project) /\ f[3] \in job.kinds
      BY <1>2, <2>2
    <3> QED
      BY <2>2, <3>1, <3>2 DEF JobFiles
  <2> QED
    BY <2>1, <2>2
<1>8. SavedImage(x, E) = ClearFlags(inserted, E)
  BY DEF SavedImage
<1> HIDE DEF inserted, items, st, job
<1>9. IsStore(ClearFlags(inserted, E))
  BY <1>4, ClearFlagsShape
<1>10. /\ DOMAIN ClearFlags(inserted, E).runs = DOMAIN inserted.runs
       /\ \A r \in DOMAIN inserted.runs :
            ClearFlags(inserted, E).runs[r].project = inserted.runs[r].project
  BY <1>4, ClearFlagsRuns
<1>11. Claims(ClearFlags(inserted, E)) = {f \in Claims(inserted) : <<f[1], f[2]>> \notin E}
  BY <1>4, ClearFlagsClaims
<1> QED
  BY <1>6, <1>7, <1>8, <1>9, <1>10, <1>11 DEF st, job

\* What a process writes besides: the runs of its image, or fewer.
LEMMA ChangedImageFacts ==
  ASSUME NEW st, IsStore(st), NEW p \in Projects, NEW e \in Explorations
  PROVE  /\ IsStore(AddProject(st, p)) /\ AddProject(st, p).runs = st.runs
         /\ p \in DOMAIN st.projects =>
              IsStore(AddExploration(st, e, p)) /\ AddExploration(st, e, p).runs = st.runs
BY AddProjectShape, AddExplorationShape DEF IsStore, AddProject, AddExploration

LEMMA DroppedImageFacts ==
  ASSUME NEW st, IsStore(st), NEW p \in Projects
  PROVE  /\ IsStore(DropProject(st, p))
         /\ DOMAIN DropProject(st, p).runs = DOMAIN st.runs \ RunsOf(st, p)
         /\ \A r \in DOMAIN DropProject(st, p).runs : DropProject(st, p).runs[r] = st.runs[r]
         /\ Claims(DropProject(st, p)) = {f \in Claims(st) : f[1] \notin RunsOf(st, p)}
<1>1. DropProject(st, p).runs = Keep(st.runs, RunIds \ RunsOf(st, p))
  BY DEF DropProject, IsStore
<1> QED
  BY <1>1, DropProjectShape, DropProjectClaims DEF Keep, RunsOf, IsStore, IsTable

-----------------------------------------------------------------------------
(* The shape of every variable. *)

LEMMA SharedShape ==
  ASSUME SharedInv, [Next]_vars
  PROVE  Shape'
<1> USE DEF Processes
<1>1. TypeOK /\ Shape
  BY DEF SharedInv, Shape
<1>2. CASE UNCHANGED vars
  BY <1>1, <1>2 DEF Shape, TypeOK, vars, store, life
<1>3. ASSUME NEW x \in Processes, Moves(x)
      PROVE  Shape'
  <2>1. phase' \in [Processes -> {"new", "open", "bound", "serving", "draining", "withdrawing", "ended"}]
    <3>1. PICK q \in {"bound", "serving", "draining", "withdrawing"} : phase' = [phase EXCEPT ![x] = q]
      BY <1>3 DEF Moves
    <3> QED
      BY <1>1, <3>1 DEF TypeOK
  <2>2. /\ port' \in Sidecars \cup {None} /\ handoff' \in Sidecars \cup {None}
        /\ mem' = mem /\ disk' = disk /\ files' = files /\ old' = old /\ run' = run
        /\ cleanup' = cleanup /\ minted' = minted /\ acked' = acked /\ met' = met
    BY <1>1, <1>3 DEF Moves, TypeOK, Ports, store
  <2> QED
    BY <1>1, <2>1, <2>2 DEF Shape, TypeOK
<1>4. ASSUME NEW x \in Processes, Start(x)
      PROVE  Shape'
  <2>1. /\ phase' \in [Processes -> {"new", "open", "bound", "serving", "draining", "withdrawing", "ended"}]
        /\ mem' = [mem EXCEPT ![x] = disk]
        /\ \A pair \in met' : pair \subseteq Processes
    BY <1>1, <1>4 DEF Start, TypeOK
  <2>2. (\A y \in Processes : IsStore(mem'[y])) /\ mem' = [y \in Processes |-> mem'[y]]
    BY <1>1, <2>1 DEF Shape, TypeOK
  <2> QED
    BY <1>1, <1>4, <2>1, <2>2 DEF Start, Shape, TypeOK
<1>5. ASSUME NEW x \in Processes, Ends(x)
      PROVE  Shape'
  <2>1. files' \subseteq Files /\ old' \subseteq files'
    BY <1>1, <1>5 DEF Ends, Loses, Discard, TypeOK
  <2>2. (\A y \in Processes : IsStore(mem'[y])) /\ mem' = [y \in Processes |-> mem'[y]]
    BY <1>1, <1>5, EmptyStoreShape DEF Ends, Gone, Shape, TypeOK
  <2> QED
    BY <1>1, <1>5, <2>1, <2>2 DEF Ends, Gone, Shape, TypeOK, NoRun, NoCleanup
<1>6. ASSUME NEW x \in Processes, Uses(x)
      PROVE  Shape'
  <2>0. /\ mem = [y \in Processes |-> mem[y]] /\ \A y \in Processes : IsStore(mem[y])
        /\ DOMAIN mem[x].projects \subseteq Projects
    BY <1>1 DEF Shape, TypeOK, IsStore, IsTable
  <2>p. ASSUME NEW st, IsStore(st), Persist(x, st)
        PROVE  /\ mem' = [y \in Processes |-> mem'[y]]
               /\ \A y \in Processes : IsStore(mem'[y])
               /\ IsStore(disk')
    BY <2>0, <2>p DEF Persist
  <2>1. ASSUME NEW p \in Projects, CreateProject(x, p)
        PROVE  Shape'
    <3>1. Persist(x, AddProject(mem[x], p)) /\ IsStore(AddProject(mem[x], p))
      BY <2>0, <2>1, AddProjectShape DEF CreateProject
    <3>2. mem' = [y \in Processes |-> mem'[y]] /\ (\A y \in Processes : IsStore(mem'[y])) /\ IsStore(disk')
      BY <2>p, <3>1
    <3> QED
      BY <1>1, <2>1, <3>2 DEF CreateProject, Shape, TypeOK, life
  <2>2. ASSUME NEW p \in Projects, DeleteProject(x, p)
        PROVE  Shape'
    <3>1. Persist(x, DropProject(mem[x], p)) /\ IsStore(DropProject(mem[x], p))
      BY <2>0, <2>2, DropProjectShape DEF DeleteProject
    <3>2. mem' = [y \in Processes |-> mem'[y]] /\ (\A y \in Processes : IsStore(mem'[y])) /\ IsStore(disk')
      BY <2>p, <3>1
    <3>3. cleanup' \in [Processes -> [held: BOOLEAN, remove: SUBSET Files, sweep: BOOLEAN]]
      BY <1>1, <2>2 DEF DeleteProject, TypeOK
    <3> QED
      BY <1>1, <2>2, <3>2, <3>3 DEF DeleteProject, Shape, TypeOK, life
  <2>3. ASSUME NEW p \in Projects, NEW r \in RunIds, StartRun(x, p, r)
        PROVE  Shape'
    BY <1>1, <2>3 DEF StartRun, Shape, TypeOK, life
  <2>4. ASSUME NEW e \in Explorations, ExploreSucceeds(x, e)
        PROVE  Shape'
    <3>0. /\ minted' \subseteq Projects \cup RunIds \cup Explorations
          /\ run' \in [Processes -> [pc: {"idle", "explore", "explored", "captured"},
                            project: Projects \cup {None}, run: RunIds \cup {None},
                            kinds: SUBSET Kinds]]
      BY <1>1, <2>4 DEF ExploreSucceeds, TypeOK, NoRun
    <3>1. CASE run[x].project \in DOMAIN mem[x].projects
      <4>1. Persist(x, AddExploration(mem[x], e, run[x].project))
            /\ IsStore(AddExploration(mem[x], e, run[x].project))
        BY <2>0, <2>4, <3>1, AddExplorationShape DEF ExploreSucceeds
      <4>2. mem' = [y \in Processes |-> mem'[y]] /\ (\A y \in Processes : IsStore(mem'[y])) /\ IsStore(disk')
        BY <2>p, <4>1
      <4> QED
        BY <1>1, <2>4, <3>0, <3>1, <4>2 DEF ExploreSucceeds, Shape, TypeOK, life
    <3>2. CASE run[x].project \notin DOMAIN mem[x].projects
      BY <1>1, <2>4, <3>0, <3>2 DEF ExploreSucceeds, Shape, TypeOK, life
    <3> QED
      BY <3>1, <3>2
  <2>5. ASSUME NEW kinds \in Captures, Capture(x, kinds)
        PROVE  Shape'
    <3>1. kinds \subseteq Kinds
      BY ProcessAssumption DEF Kinds
    <3>2. run' \in [Processes -> [pc: {"idle", "explore", "explored", "captured"},
                            project: Projects \cup {None}, run: RunIds \cup {None},
                            kinds: SUBSET Kinds]]
      BY <1>1, <2>5, <3>1 DEF Capture, TypeOK
    <3>3. run[x].run \in RunIds
      BY <1>1, <2>5 DEF SharedInv, RunsOwned, Capture
    <3>4. files' \subseteq Files /\ old' \subseteq files'
      BY <1>1, <2>5, <3>1, <3>3 DEF Capture, TypeOK, Files, TestsOf
    <3> QED
      BY <1>1, <2>5, <3>2, <3>4 DEF Capture, Shape, TypeOK, life
  <2>6. CASE AbortRun(x)
    BY <1>1, <2>6 DEF AbortRun, Discard, Shape, TypeOK, life, NoRun
  <2>7. CASE SaveRun(x)
    <3> DEFINE job == run[x]
               pruned == Pruned(InsertRun(mem[x], job.run, job.project, ItemsOf(job)), files)
    <3>0. /\ run' \in [Processes -> [pc: {"idle", "explore", "explored", "captured"},
                            project: Projects \cup {None}, run: RunIds \cup {None},
                            kinds: SUBSET Kinds]]
          /\ minted' = minted /\ phase' = phase /\ port' = port /\ handoff' = handoff /\ met' = met
      BY <1>1, <2>7 DEF SaveRun, TypeOK, NoRun, life
    <3>1. CASE job.project \in DOMAIN mem[x].projects
      <4>1. IsStore(SavedImage(x, pruned))
        BY <2>7, <3>1, SavedImageFacts DEF SaveRun
      <4>2. Persist(x, SavedImage(x, pruned))
        BY <2>7, <3>1 DEF SaveRun, SavedImage
      <4>3. mem' = [y \in Processes |-> mem'[y]] /\ (\A y \in Processes : IsStore(mem'[y])) /\ IsStore(disk')
        BY <2>p, <4>1, <4>2
      <4>4. /\ cleanup' = [cleanup EXCEPT ![x] =
                 [held |-> TRUE, sweep |-> TRUE,
                  remove |-> {f \in files : <<f[1], f[2]>> \in pruned}]]
            /\ acked' = acked \cup {<<job.run, job.project, x>>}
            /\ files' = files /\ old' = old
        BY <2>7, <3>1 DEF SaveRun
      <4>5. job.run \in RunIds /\ job.project \in Projects
        BY <2>7 DEF SharedInv, RunsOwned, SaveRun
      <4> HIDE DEF pruned, job
      <4>6. cleanup' \in [Processes -> [held: BOOLEAN, remove: SUBSET Files, sweep: BOOLEAN]]
        BY <1>1, <4>4 DEF TypeOK
      <4>7. acked' \subseteq RunIds \X Projects \X Processes
        BY <1>1, <4>4, <4>5 DEF TypeOK
      <4> QED
        BY <1>1, <3>0, <4>3, <4>4, <4>6, <4>7 DEF Shape, TypeOK
    <3>2. CASE job.project \notin DOMAIN mem[x].projects
      <4>1. /\ Discard(FilesOfRun(job.run))
            /\ mem' = mem /\ disk' = disk /\ cleanup' = cleanup /\ acked' = acked
        BY <2>7, <3>2 DEF SaveRun
      <4> QED
        BY <1>1, <3>0, <4>1 DEF Discard, Shape, TypeOK
    <3> QED
      BY <3>1, <3>2
  <2>8. CASE FinishCleanup(x)
    BY <1>1, <2>8 DEF FinishCleanup, Discard, Shape, TypeOK, life, NoCleanup
  <2> QED
    BY <1>6, <2>1, <2>2, <2>3, <2>4, <2>5, <2>6, <2>7, <2>8 DEF Uses
<1>7. CASE Age
  BY <1>1, <1>7 DEF Age, Shape, TypeOK, life
<1> QED
  BY <1>1, <1>2, <1>3, <1>4, <1>5, <1>6, <1>7, StepKinds

-----------------------------------------------------------------------------
(* Lives. *)

\* Who is open after a step.
LEMMA OpenAfter ==
  ASSUME Shape, NEW x \in Processes, NEW y \in Processes
  PROVE  /\ Moves(x) => (Open(y)' <=> Open(y))
         /\ Start(x) => (Open(y)' <=> Open(y) \/ y = x)
         /\ Ends(x) => (Open(y)' <=> Open(y) /\ y # x)
         /\ Uses(x) => (Open(y)' <=> Open(y))
         /\ Uses(x) => UNCHANGED life
<1> USE DEF Open, Shape, TypeOK
<1>1. Moves(x) => (Open(y)' <=> Open(y))
  BY DEF Moves
<1>2. Start(x) => (Open(y)' <=> Open(y) \/ y = x)
  BY DEF Start
<1>3. Ends(x) => (Open(y)' <=> Open(y) /\ y # x)
  BY DEF Ends, Gone
<1>4. Uses(x) => UNCHANGED life
  BY DEF Uses, CreateProject, DeleteProject, StartRun, ExploreSucceeds, Capture, AbortRun,
         SaveRun, FinishCleanup
<1>5. Uses(x) => (Open(y)' <=> Open(y))
  BY <1>4 DEF life
<1> QED
  BY <1>1, <1>2, <1>3, <1>4, <1>5

\* Only a process that is open uses the store.
LEMMA UsersAreOpen ==
  ASSUME RunsOwned, CleanupsApart, NEW x \in Processes, Uses(x)
  PROVE  Open(x)
<1>1. CASE \E p \in Projects : CreateProject(x, p) \/ DeleteProject(x, p)
  BY <1>1 DEF CreateProject, DeleteProject, Open
<1>2. CASE \E p \in Projects, r \in RunIds : StartRun(x, p, r)
  BY <1>2 DEF StartRun, MayRun, Open
<1>3. CASE run[x].pc # "idle"
  BY <1>3 DEF RunsOwned
<1>4. CASE FinishCleanup(x)
  BY <1>4 DEF FinishCleanup, CleanupsApart
<1> QED
  BY <1>1, <1>2, <1>3, <1>4 DEF Uses, ExploreSucceeds, Capture, AbortRun, SaveRun

-----------------------------------------------------------------------------
(* Runs in flight. *)

\* What a step does to the runs: it leaves them, drops the one of its process,
\* takes it further under the same id, or starts one under a new id.
RunDropped(x) == run' = [run EXCEPT ![x] = NoRun]

RunGoesOn(x) ==
  /\ run[x].pc # "idle"
  /\ run'[x].pc # "idle" /\ run'[x].project = run[x].project /\ run'[x].run = run[x].run
  /\ run'[x].pc \in {"explore", "explored"} => run[x].pc \in {"explore", "explored"}
  /\ \A y \in Processes \ {x} : run'[y] = run[y]

RunStarts(x) ==
  \E p \in Projects, r \in RunIds \ minted :
    /\ run[x].pc = "idle"
    /\ Open(x)
    /\ run' = [run EXCEPT ![x] = [pc |-> "explore", project |-> p, run |-> r, kinds |-> {}]]
    /\ r \in minted'

LEMMA RunSteps ==
  ASSUME Shape, RunsOwned, NEW x \in Processes
  PROVE  /\ Moves(x) \/ Start(x) => run' = run /\ minted' = minted
         /\ Ends(x) => RunDropped(x) /\ minted' = minted
         /\ Uses(x) => /\ run' = run \/ RunDropped(x) \/ RunGoesOn(x) \/ RunStarts(x)
                       /\ minted \subseteq minted'
<1>1. Moves(x) \/ Start(x) => run' = run /\ minted' = minted
  BY DEF Moves, Start, store
<1>2. Ends(x) => RunDropped(x) /\ minted' = minted
  BY DEF Ends, Gone, RunDropped
<1>3. ASSUME Uses(x)
      PROVE  /\ run' = run \/ RunDropped(x) \/ RunGoesOn(x) \/ RunStarts(x)
             /\ minted \subseteq minted'
  <2>0. run \in [Processes -> [pc: {"idle", "explore", "explored", "captured"},
                               project: Projects \cup {None}, run: RunIds \cup {None},
                               kinds: SUBSET Kinds]]
    BY DEF Shape, TypeOK
  <2>1. CASE \E p \in Projects : CreateProject(x, p) \/ DeleteProject(x, p)
    BY <2>1 DEF CreateProject, DeleteProject
  <2>2. CASE \E p \in Projects, r \in RunIds : StartRun(x, p, r)
    BY <2>2 DEF StartRun, MayRun, RunStarts, Open
  <2>3. ASSUME NEW e \in Explorations, ExploreSucceeds(x, e)
        PROVE  (RunDropped(x) \/ RunGoesOn(x)) /\ minted \subseteq minted'
    BY <2>0, <2>3 DEF ExploreSucceeds, RunDropped, RunGoesOn
  <2>4. ASSUME NEW kinds \in Captures, Capture(x, kinds)
        PROVE  RunGoesOn(x) /\ minted \subseteq minted'
    BY <2>0, <2>4 DEF Capture, RunGoesOn
  <2>5. CASE AbortRun(x) \/ SaveRun(x)
    BY <2>5 DEF AbortRun, SaveRun, RunDropped
  <2>6. CASE FinishCleanup(x)
    BY <2>6 DEF FinishCleanup
  <2> QED
    BY <1>3, <2>1, <2>2, <2>3, <2>4, <2>5, <2>6 DEF Uses
<1> QED
  BY <1>1, <1>2, <1>3

LEMMA SharedOwned ==
  ASSUME SharedInv, [Next]_vars
  PROVE  RunsOwned'
<1>1. Shape /\ RunsOwned /\ CleanupsApart /\ TypeOK
  BY DEF SharedInv, Shape
<1>2. run \in [Processes -> [pc: {"idle", "explore", "explored", "captured"},
                             project: Projects \cup {None}, run: RunIds \cup {None},
                             kinds: SUBSET Kinds]]
  BY <1>1 DEF TypeOK
<1>3. None \notin RunIds
  BY IdAssumption
<1>4. CASE UNCHANGED vars \/ Age
  BY <1>1, <1>4 DEF RunsOwned, Open, Age, vars, store, life
<1>5. ASSUME NEW x \in Processes, Moves(x) \/ Start(x)
      PROVE  RunsOwned'
  <2>1. run' = run /\ minted' = minted
    BY <1>1, <1>5, RunSteps
  <2>2. \A y \in Processes : Open(y) => Open(y)'
    BY <1>1, <1>5, OpenAfter
  <2> QED
    BY <1>1, <2>1, <2>2 DEF RunsOwned
<1>6. ASSUME NEW x \in Processes, Ends(x) \/ Uses(x)
      PROVE  RunsOwned'
  <2>1. \A y \in Processes \ {x} : Open(y) => Open(y)'
    BY <1>1, <1>6, OpenAfter
  <2>2. Uses(x) => Open(x) /\ Open(x)'
    BY <1>1, UsersAreOpen, OpenAfter
  <2>3. minted \subseteq minted'
    BY <1>1, <1>6, RunSteps
  <2>4. CASE RunDropped(x)
    <3>1. \A y \in Processes : run'[y] = IF y = x THEN NoRun ELSE run[y]
      BY <1>2, <2>4 DEF RunDropped
    <3>2. NoRun.pc = "idle" /\ NoRun.run = None
      BY DEF NoRun
    <3> SUFFICES ASSUME NEW y \in Processes, y # x, run[y].pc # "idle"
                 PROVE  /\ Open(y)'
                        /\ run'[y].project \in Projects
                        /\ run'[y].run \in RunIds \cap minted'
                        /\ \A z \in Processes : run'[z].run = run'[y].run => z = y
      BY <1>1, <3>1, <3>2 DEF RunsOwned
    <3>3. run'[y] = run[y]
      BY <3>1
    <3>4. Open(y) /\ run[y].project \in Projects /\ run[y].run \in RunIds \cap minted
      BY <1>1 DEF RunsOwned
    <3>5. ASSUME NEW z \in Processes, run'[z].run = run'[y].run
          PROVE  z = y
      BY <1>1, <1>3, <3>1, <3>2, <3>3, <3>4, <3>5 DEF RunsOwned
    <3> QED
      BY <2>1, <2>3, <3>3, <3>4, <3>5
  <2>5. CASE Uses(x) /\ run' = run
    BY <1>1, <2>1, <2>2, <2>3, <2>5 DEF RunsOwned
  <2>6. CASE Uses(x) /\ RunGoesOn(x)
    BY <1>1, <2>1, <2>2, <2>3, <2>6 DEF RunsOwned, RunGoesOn
  <2>7. CASE Uses(x) /\ RunStarts(x)
    <3>1. PICK p \in Projects, r \in RunIds \ minted :
            /\ run' = [run EXCEPT ![x] = [pc |-> "explore", project |-> p, run |-> r, kinds |-> {}]]
            /\ r \in minted'
      BY <2>7 DEF RunStarts
    <3>2. /\ run'[x].pc = "explore" /\ run'[x].project = p /\ run'[x].run = r
          /\ \A y \in Processes \ {x} : run'[y] = run[y]
      BY <1>2, <3>1
    <3>3. \A y \in Processes \ {x} : run[y].run # r
      BY <1>1, <1>3 DEF RunsOwned, NoRun
    <3> QED
      BY <1>1, <2>1, <2>2, <2>3, <2>7, <3>1, <3>2, <3>3 DEF RunsOwned
  <2> QED
    BY <1>1, <1>6, <2>4, <2>5, <2>6, <2>7, RunSteps
<1> QED
  BY <1>1, <1>4, <1>5, <1>6, StepKinds

-----------------------------------------------------------------------------
(* What is known of a run. *)

\* Nothing but a save and the passing of time exposes a run.
LEMMA ExposedAfter ==
  ASSUME SharedInv, NEW r \in RunIds, Exposed(r)'
  PROVE  /\ UNCHANGED vars => Exposed(r)
         /\ \A x \in Processes :
              /\ Moves(x) \/ Start(x) \/ Ends(x) => Exposed(r)
              /\ Uses(x) => Exposed(r) \/ (SaveRun(x) /\ r = run[x].run)
         /\ Age => Exposed(r) \/ \E f \in files \ InFlightFiles : f[1] = r
<1>1. Shape /\ TypeOK /\ RunsOwned
  BY DEF SharedInv, Shape
<1>2. UNCHANGED vars => Exposed(r)
  BY DEF vars, store, life, Exposed
<1>3. Age => Exposed(r) \/ \E f \in files \ InFlightFiles : f[1] = r
  BY DEF Age, Exposed
<1>4. ASSUME NEW x \in Processes
      PROVE  Moves(x) \/ Start(x) \/ Ends(x) => Exposed(r)
  <2>1. Moves(x) => Exposed(r)
    BY DEF Moves, store, Exposed
  <2>2. Start(x) => Exposed(r)
    BY <1>1 DEF Start, Exposed, Shape
  <2>3. ASSUME Ends(x)
        PROVE  Exposed(r)
    <3>1. /\ \A y \in Processes : mem'[y] = mem[y] \/ mem'[y] = EmptyStore
          /\ \A y \in Processes : cleanup'[y] = cleanup[y] \/ cleanup'[y] = NoCleanup
          /\ old' \subseteq old /\ disk' = disk
      BY <1>1, <2>3 DEF Ends, Loses, Discard, Gone, Shape, TypeOK
    <3>2. DOMAIN EmptyStore.runs = {} /\ NoCleanup.remove = {}
      BY DEF EmptyStore, NoCleanup
    <3> QED
      BY <3>1, <3>2 DEF Exposed
  <2> QED
    BY <2>1, <2>2, <2>3
<1>5. ASSUME NEW x \in Processes, Uses(x)
      PROVE  Exposed(r) \/ (SaveRun(x) /\ r = run[x].run)
  <2>0. /\ mem = [y \in Processes |-> mem[y]]
        /\ \A y \in Processes : IsStore(mem[y])
        /\ cleanup = [y \in Processes |-> cleanup[y]]
    BY <1>1 DEF Shape, TypeOK
  <2>p. ASSUME NEW st, Persist(x, st), DOMAIN st.runs \subseteq DOMAIN mem[x].runs,
               old' \subseteq old,
               \A y \in Processes : \A f \in cleanup'[y].remove :
                 f \in cleanup[y].remove \/ f[1] \in DOMAIN mem[x].runs
        PROVE  Exposed(r)
    <3>1. \A y \in Processes : mem'[y] = IF y = x THEN st ELSE mem[y]
      BY <2>0, <2>p DEF Persist
    <3> QED
      BY <2>p, <3>1 DEF Exposed, Persist
  <2>1. ASSUME NEW p \in Projects, CreateProject(x, p)
        PROVE  Exposed(r)
    <3>1. AddProject(mem[x], p).runs = mem[x].runs
      BY <2>0 DEF AddProject, IsStore
    <3> QED
      BY <2>1, <2>p, <3>1 DEF CreateProject
  <2>2. ASSUME NEW p \in Projects, DeleteProject(x, p)
        PROVE  Exposed(r)
    <3>1. DOMAIN DropProject(mem[x], p).runs \subseteq DOMAIN mem[x].runs
      BY <2>0, DroppedImageFacts
    <3> DEFINE gone == {f \in files : /\ f[1] \in RunsOf(mem[x], p)
                                     /\ <<f[1], f[2]>> \in EvidenceOf(mem[x])}
    <3>2. cleanup' = [cleanup EXCEPT ![x] = [held |-> TRUE, sweep |-> FALSE, remove |-> gone]]
      BY <2>2 DEF DeleteProject
    <3>5. \A f \in gone : f[1] \in RunsOf(mem[x], p)
      OBVIOUS
    <3> HIDE DEF gone
    <3>6. cleanup'[x].remove = gone /\ \A y \in Processes \ {x} : cleanup'[y] = cleanup[y]
      BY <2>0, <3>2
    <3>4. /\ \A y \in Processes \ {x} : cleanup'[y] = cleanup[y]
          /\ \A f \in cleanup'[x].remove : f[1] \in RunsOf(mem[x], p)
      BY <3>5, <3>6
    <3>3. \A y \in Processes : \A f \in cleanup'[y].remove :
                 f \in cleanup[y].remove \/ f[1] \in DOMAIN mem[x].runs
      BY <3>4 DEF RunsOf
    <3> QED
      BY <2>2, <2>p, <3>1, <3>3 DEF DeleteProject
  <2>3. CASE \E p \in Projects, q \in RunIds : StartRun(x, p, q)
    BY <2>3 DEF StartRun, Exposed
  <2>4. ASSUME NEW e \in Explorations, ExploreSucceeds(x, e)
        PROVE  Exposed(r)
    <3>1. CASE run[x].project \in DOMAIN mem[x].projects
      <4>1. AddExploration(mem[x], e, run[x].project).runs = mem[x].runs
        BY <2>0 DEF AddExploration, IsStore
      <4> QED
        BY <2>4, <2>p, <3>1, <4>1 DEF ExploreSucceeds
    <3>2. CASE run[x].project \notin DOMAIN mem[x].projects
      BY <2>4, <3>2 DEF ExploreSucceeds, Exposed
    <3> QED
      BY <3>1, <3>2
  <2>5. CASE \E kinds \in Captures : Capture(x, kinds)
    BY <2>5 DEF Capture, Exposed
  <2>6. CASE AbortRun(x)
    BY <2>6 DEF AbortRun, Discard, Exposed
  <2>7. CASE SaveRun(x)
    <3> DEFINE job == run[x]
               inserted == InsertRun(mem[x], job.run, job.project, ItemsOf(job))
               pruned == Pruned(inserted, files)
               gone == {f \in files : <<f[1], f[2]>> \in pruned}
    <3>1. CASE job.project \in DOMAIN mem[x].projects
      <4>1. Persist(x, SavedImage(x, pruned))
        BY <2>7, <3>1 DEF SaveRun, SavedImage
      <4>2. DOMAIN SavedImage(x, pruned).runs = DOMAIN mem[x].runs \cup {job.run}
        BY <2>7, <3>1, SavedImageFacts DEF SaveRun
      <4>3. \A y \in Processes : mem'[y] = IF y = x THEN SavedImage(x, pruned) ELSE mem[y]
        BY <2>0, <4>1 DEF Persist
      <4>4. DOMAIN inserted.runs = DOMAIN mem[x].runs \cup {job.run}
        BY <2>0 DEF InsertRun, IsStore, Put
      <4>5. \A f \in gone : f[1] \in DOMAIN inserted.runs
        BY PrunedIsStored DEF EvidenceOf
      <4>6. cleanup' = [cleanup EXCEPT ![x] = [held |-> TRUE, sweep |-> TRUE, remove |-> gone]]
        BY <2>7, <3>1 DEF SaveRun
      <4>7. old' = old
        BY <2>7, <3>1 DEF SaveRun
      <4>8. disk' = SavedImage(x, pruned)
        BY <4>1 DEF Persist
      <4> HIDE DEF job, inserted, pruned, gone
      <4>11. cleanup'[x].remove = gone /\ \A y \in Processes \ {x} : cleanup'[y] = cleanup[y]
        BY <2>0, <4>6
      <4>9. \A y \in Processes : \A f \in cleanup'[y].remove :
              f \in cleanup[y].remove \/ f[1] \in DOMAIN mem[x].runs \cup {job.run}
        BY <4>4, <4>5, <4>11
      <4>10. Exposed(r) \/ r = job.run
        BY <4>2, <4>3, <4>7, <4>8, <4>9 DEF Exposed
      <4> QED
        BY <2>7, <4>10 DEF job
    <3>2. CASE job.project \notin DOMAIN mem[x].projects
      BY <2>7, <3>2 DEF SaveRun, Discard, Exposed
    <3> QED
      BY <3>1, <3>2
  <2>8. CASE FinishCleanup(x)
    <3>1. \A y \in Processes : cleanup'[y] = cleanup[y] \/ cleanup'[y].remove = {}
      BY <2>0, <2>8 DEF FinishCleanup, NoCleanup
    <3> QED
      BY <2>8, <3>1 DEF FinishCleanup, Discard, Exposed
  <2> QED
    BY <1>5, <2>1, <2>2, <2>3, <2>4, <2>5, <2>6, <2>7, <2>8 DEF Uses
<1> QED
  BY <1>2, <1>3, <1>4, <1>5

\* Files are written by the run they are of, when its tests are executed.
LEMMA FilesAfter ==
  ASSUME NEW f \in files', f \notin files, [Next]_vars, TypeOK
  PROVE  \E x \in Processes, kinds \in Captures :
           Capture(x, kinds) /\ f[1] = run[x].run
<1>1. ~(UNCHANGED vars \/ Age)
  BY DEF vars, store, Age
<1>2. PICK x \in Processes : Moves(x) \/ Start(x) \/ Ends(x) \/ Uses(x)
  BY <1>1, StepKinds
<1>3. ~(Moves(x) \/ Start(x) \/ Ends(x))
  BY DEF Moves, store, Start, Ends, Loses, Discard
<1>4. PICK kinds \in Captures : Capture(x, kinds)
  BY <1>2, <1>3 DEF Uses, CreateProject, DeleteProject, StartRun, ExploreSucceeds, AbortRun,
     SaveRun, FinishCleanup, Discard
<1> QED
  BY <1>4 DEF Capture

LEMMA SharedFresh ==
  ASSUME SharedInv, [Next]_vars
  PROVE  RunsFresh'
<1>1. Shape /\ RunsOwned /\ RunsFresh /\ CleanupsApart /\ TypeOK
  BY DEF SharedInv, Shape
<1>0. run \in [Processes -> [pc: {"idle", "explore", "explored", "captured"},
                             project: Projects \cup {None}, run: RunIds \cup {None},
                             kinds: SUBSET Kinds]]
  BY <1>1 DEF TypeOK
<1>2. minted \subseteq minted'
  BY <1>1, StepKinds, RunSteps DEF Age, vars, store
<1>3. \A y \in Processes : run[y].pc # "idle" => run[y].run \in RunIds \cap minted
  BY <1>1 DEF RunsOwned
<1>4. ASSUME NEW r \in RunIds, Exposed(r)'
      PROVE  r \in minted'
  <2>1. \/ Exposed(r)
        \/ \E x \in Processes : SaveRun(x) /\ r = run[x].run
        \/ \E f \in files : f[1] = r
    BY <1>1, <1>4, StepKinds, ExposedAfter
  <2> QED
    BY <1>1, <1>2, <1>3, <2>1 DEF RunsFresh, SaveRun
<1>5. ASSUME NEW f \in files'
      PROVE  f[1] \in minted'
  <2>1. CASE f \notin files
    BY <1>1, <1>2, <1>3, <2>1, FilesAfter DEF Capture
  <2> QED
    BY <1>1, <1>2, <2>1 DEF RunsFresh
\* Who is in flight after the step was in flight before, or has a new id.
<1>6. ASSUME NEW y \in Processes, run'[y].pc # "idle"
      PROVE  \/ /\ run[y].pc # "idle" /\ run'[y].run = run[y].run
                /\ ~SaveRun(y)
                /\ run'[y].pc \in {"explore", "explored"} => run[y].pc \in {"explore", "explored"}
             \/ run'[y].run \in RunIds \ minted
  <2>1. CASE UNCHANGED vars \/ Age
    BY <1>6, <2>1, <1>0 DEF vars, store, Age, SaveRun, NoRun
  <2>2. ASSUME NEW x \in Processes, Moves(x) \/ Start(x)
        PROVE  run' = run
    BY <1>1, <2>2, RunSteps
  <2>3. ASSUME NEW x \in Processes, RunDropped(x)
        PROVE  x # y /\ run'[y] = run[y]
    BY <1>0, <1>6, <2>3 DEF RunDropped, NoRun
  <2>4. SaveRun(y) => FALSE
    BY <1>0, <1>6 DEF SaveRun, NoRun
  <2>5. ASSUME NEW x \in Processes, RunStarts(x)
        PROVE  run'[y] = run[y] \/ run'[y].run \in RunIds \ minted
    BY <1>0, <2>5 DEF RunStarts
  <2>6. ASSUME NEW x \in Processes, RunGoesOn(x)
        PROVE  /\ run[y].pc # "idle" /\ run'[y].run = run[y].run
               /\ run'[y].pc \in {"explore", "explored"} => run[y].pc \in {"explore", "explored"}
    BY <1>6, <2>6 DEF RunGoesOn
  <2>7. ASSUME NEW x \in Processes, Moves(x) \/ Start(x) \/ Ends(x) \/ Uses(x)
        PROVE  run' = run \/ RunDropped(x) \/ RunGoesOn(x) \/ RunStarts(x)
    BY <1>1, <2>7, RunSteps
  <2> QED
    BY <1>1, <1>6, <2>1, <2>2, <2>3, <2>4, <2>5, <2>6, <2>7, StepKinds
<1>7. ASSUME NEW y \in Processes, run'[y].pc # "idle",
             NEW r \in RunIds, r = run'[y].run
      PROVE  ~Exposed(r)'
  <2>1. ~Exposed(r)
    BY <1>1, <1>6, <1>7 DEF RunsFresh
  <2>2. ASSUME NEW x \in Processes, SaveRun(x), r = run[x].run
        PROVE  FALSE
    <3>1. run[x].pc # "idle"
      BY <2>2 DEF SaveRun
    <3>2. run[y].run = run[x].run /\ ~SaveRun(y)
      BY <1>3, <1>6, <1>7, <2>2, <3>1
    <3> QED
      BY <1>1, <2>2, <3>1, <3>2 DEF RunsOwned
  <2>3. ASSUME Age, NEW f \in files \ InFlightFiles, f[1] = r
        PROVE  FALSE
    <3>1. run' = run
      BY <2>3 DEF Age
    <3>2. run[y].pc # "idle" /\ r = run[y].run
      BY <1>7, <3>1
    <3>3. run[y].pc = "captured"
      BY <1>1, <2>3, <3>2 DEF RunsFresh, TypeOK
    <3> QED
      BY <2>3, <3>2, <3>3 DEF InFlightFiles
  <2> SUFFICES ASSUME Exposed(r)'
               PROVE  FALSE
    OBVIOUS
  <2>4. \/ Exposed(r)
        \/ \E x \in Processes : SaveRun(x) /\ r = run[x].run
        \/ Age /\ \E f \in files \ InFlightFiles : f[1] = r
    BY <1>1, StepKinds, ExposedAfter
  <2> QED
    BY <2>1, <2>2, <2>3, <2>4
<1>8. ASSUME NEW y \in Processes, run'[y].pc \in {"explore", "explored"}, NEW f \in files'
      PROVE  f[1] # run'[y].run
  <2>1. CASE f \in files
    BY <1>1, <1>6, <1>8, <2>1 DEF RunsFresh
  <2>2. CASE f \notin files
    <3>1. PICK x \in Processes, kinds \in Captures : Capture(x, kinds) /\ f[1] = run[x].run
      BY <1>1, <2>2, FilesAfter
    <3>2. run[x].pc # "idle" /\ run'[x].pc = "captured"
      BY <1>0, <3>1 DEF Capture
    <3>3. run'[y] = run[y] /\ x # y
      BY <1>0, <1>8, <3>1, <3>2 DEF Capture
    <3> QED
      BY <1>1, <3>1, <3>2, <3>3 DEF RunsOwned
  <2> QED
    BY <2>1, <2>2
<1>9. ASSUME NEW y \in Processes, run'[y].pc # "idle"
      PROVE  ~Exposed(run[y].run)'
  <2>1. PICK r \in RunIds : r = run'[y].run
    BY <1>3, <1>6, <1>9
  <2>2. ~Exposed(r)'
    BY <1>7, <1>9, <2>1
  <2> QED
    BY <2>1, <2>2 DEF Exposed
<1> QED
  BY <1>4, <1>5, <1>8, <1>9 DEF RunsFresh

-----------------------------------------------------------------------------
(* The files of a run in flight. *)

\* A file that goes is removable by the process that removes it; a process that
\* finishes a removal spares its own run, any other drops it.
LEMMA FilesLost ==
  ASSUME [Next]_vars, TypeOK, NEW f \in files, f \notin files'
  PROVE  \E x \in Processes :
           /\ Ends(x) \/ Uses(x)
           /\ \/ f \in Removable(x) /\ RunDropped(x)
              \/ f \in ToRemove(x)
<1>1. ~(UNCHANGED vars \/ Age)
  BY DEF vars, store, Age
<1>2. PICK x \in Processes : Moves(x) \/ Start(x) \/ Ends(x) \/ Uses(x)
  BY <1>1, StepKinds
<1>3. ~(Moves(x) \/ Start(x))
  BY DEF Moves, store, Start
<1>4. CASE Ends(x)
  BY <1>4 DEF Ends, Loses, Discard, Gone, RunDropped
<1>5. CASE Uses(x)
  <2>1. AbortRun(x) \/ SaveRun(x) \/ FinishCleanup(x)
    BY <1>5 DEF Uses, CreateProject, DeleteProject, StartRun, ExploreSucceeds, Capture
  <2>2. CASE AbortRun(x) \/ SaveRun(x)
    BY <1>5, <2>2 DEF AbortRun, SaveRun, Discard, RunDropped, Removable
  <2>3. CASE FinishCleanup(x)
    BY <1>5, <2>3 DEF FinishCleanup, Discard
  <2> QED
    BY <2>1, <2>2, <2>3
<1> QED
  BY <1>2, <1>3, <1>4, <1>5

LEMMA SharedCaptured ==
  ASSUME SharedInv, [Next]_vars
  PROVE  Captured'
<1>1. Shape /\ RunsOwned /\ RunsFresh /\ Captured /\ TypeOK
  BY DEF SharedInv, Shape
<1>0. run \in [Processes -> [pc: {"idle", "explore", "explored", "captured"},
                             project: Projects \cup {None}, run: RunIds \cup {None},
                             kinds: SUBSET Kinds]]
  BY <1>1 DEF TypeOK
<1> SUFFICES ASSUME NEW y \in Processes, run'[y].pc = "captured"
             PROVE  JobFiles(run'[y]) \subseteq files'
  BY DEF Captured, JobFiles
<1>2. CASE run'[y] = run[y]
  <2> SUFFICES ASSUME NEW f \in JobFiles(run[y]), f \notin files'
               PROVE  FALSE
    BY <1>2
  <2>1. f \in files /\ f[1] = run[y].run /\ run[y].pc = "captured"
    BY <1>1, <1>2 DEF Captured, JobFiles
  <2>2. ~Exposed(f[1])
    BY <1>1, <2>1 DEF RunsFresh
  <2>3. PICK x \in Processes : \/ f \in Removable(x) /\ RunDropped(x)
                               \/ f \in ToRemove(x)
    BY <1>1, <2>1, FilesLost
  <2>4. f \notin ToRemove(x)
    BY <2>2 DEF ToRemove, Sweepable, Exposed
  <2>5. f \in FilesOfRun(run[x].run) /\ RunDropped(x)
    BY <2>3, <2>4 DEF Removable
  <2>6. x = y
    BY <1>1, <2>1, <2>5 DEF FilesOfRun, RunsOwned
  <2>7. run'[y] = NoRun
    BY <1>0, <2>5, <2>6 DEF RunDropped
  <2> QED
    BY <1>2, <2>1, <2>7 DEF NoRun
<1>3. CASE run'[y] # run[y]
  <2>1. PICK x \in Processes : Uses(x) /\ (RunGoesOn(x) \/ RunStarts(x)) /\ x = y
    <3>1. ~(UNCHANGED vars \/ Age)
      BY <1>3 DEF vars, store, Age
    <3>2. PICK x \in Processes : Moves(x) \/ Start(x) \/ Ends(x) \/ Uses(x)
      BY <1>1, <3>1, StepKinds
    <3>3. ~RunDropped(x)
      BY <1>0, <1>3 DEF RunDropped, NoRun
    <3>4. Uses(x) /\ (RunGoesOn(x) \/ RunStarts(x))
      BY <1>1, <1>3, <3>2, <3>3, RunSteps
    <3>5. x = y
      BY <1>0, <1>3, <3>4 DEF RunGoesOn, RunStarts
    <3> QED
      BY <3>4, <3>5
  <2>2. ~RunStarts(y)
    BY <1>0 DEF RunStarts
  <2>3. PICK kinds \in Captures : Capture(y, kinds)
    <3>1. ~(\E p \in Projects, r \in RunIds : StartRun(y, p, r))
      BY <1>0 DEF StartRun
    <3>2. ~(\E e \in Explorations : ExploreSucceeds(y, e))
      BY <1>0 DEF ExploreSucceeds, NoRun
    <3>3. ~(AbortRun(y) \/ SaveRun(y))
      BY <1>0 DEF AbortRun, SaveRun, NoRun
    <3>4. ~FinishCleanup(y) /\ ~\E p \in Projects : CreateProject(y, p) \/ DeleteProject(y, p)
      BY <1>3 DEF FinishCleanup, CreateProject, DeleteProject
    <3> QED
      BY <2>1, <3>1, <3>2, <3>3, <3>4 DEF Uses
  <2>4. run'[y].run = run[y].run /\ run'[y].project = run[y].project /\ run'[y].kinds = kinds
    BY <1>0, <2>3 DEF Capture
  <2> QED
    BY <2>3, <2>4 DEF Capture, JobFiles
<1> QED
  BY <1>2, <1>3

-----------------------------------------------------------------------------
(* Who met whom. *)

LEMMA MetGrows ==
  ASSUME [Next]_vars, Shape
  PROVE  met \subseteq met'
BY StepKinds, OpenAfter DEF Shape, vars, life, Moves, Start, Ends, Gone, Age

LEMMA SharedMet ==
  ASSUME SharedInv, [Next]_vars
  PROVE  OpenHaveMet'
<1>1. Shape /\ OpenHaveMet /\ TypeOK
  BY DEF SharedInv, Shape
<1>2. met \subseteq met'
  BY <1>1, MetGrows
<1>3. CASE UNCHANGED vars \/ Age
  BY <1>1, <1>3 DEF OpenHaveMet, Open, vars, life, Age
<1>4. ASSUME NEW x \in Processes, Moves(x) \/ Ends(x) \/ Uses(x)
      PROVE  OpenHaveMet'
  <2>1. \A y \in Processes : Open(y)' => Open(y)
    BY <1>1, <1>4, OpenAfter
  <2> QED
    BY <1>1, <1>2, <2>1 DEF OpenHaveMet
<1>5. ASSUME NEW x \in Processes, Start(x)
      PROVE  OpenHaveMet'
  <2>1. \A y \in Processes : Open(y)' => Open(y) \/ y = x
    BY <1>1, <1>5, OpenAfter
  <2>2. \A y \in Processes : Open(y) => {x, y} \in met' /\ {y, x} \in met'
    BY <1>5 DEF Start
  <2> QED
    BY <1>1, <1>2, <2>1, <2>2 DEF OpenHaveMet
<1> QED
  BY <1>1, <1>3, <1>4, <1>5, StepKinds

LEMMA SharedHides ==
  ASSUME SharedInv, [Next]_vars
  PROVE  OnlyOverlapHidesSidecar'
<1>1. Shape /\ OpenHaveMet /\ OnlyOverlapHidesSidecar /\ TypeOK
  BY DEF SharedInv, Shape
<1>2. met \subseteq met'
  BY <1>1, MetGrows
<1>0. Sidecars \subseteq Processes /\ phase = [x \in Processes |-> phase[x]]
  BY <1>1 DEF Processes, TypeOK
<1> SUFFICES ASSUME NEW s \in Sidecars, phase'[s] = "serving", handoff' # s
             PROVE  \E z \in Sidecars \ {s} : {s, z} \in met'
  BY DEF OnlyOverlapHidesSidecar
<1>3. CASE phase[s] = "serving" /\ handoff # s
  BY <1>1, <1>2, <1>3 DEF OnlyOverlapHidesSidecar
<1>4. CASE phase[s] # "serving"
  <2>1. ~(UNCHANGED vars \/ Age)
    BY <1>4 DEF vars, life, Age
  <2>2. PICK x \in Processes : Moves(x) \/ Start(x) \/ Ends(x) \/ Uses(x)
    BY <1>1, <2>1, StepKinds
  <2>3. ~(Start(x) \/ Ends(x) \/ Uses(x))
    BY <1>0, <1>1, <1>4, OpenAfter DEF Start, Ends, Gone, life
  <2>4. phase'[s] = "serving" /\ s = x => handoff' = s
    <3>1. PICK q \in {"bound", "serving", "draining", "withdrawing"} :
            phase' = [phase EXCEPT ![x] = q] /\ (q = "serving" => handoff' = x)
      BY <2>2, <2>3 DEF Moves
    <3> QED
      BY <1>0, <3>1
  <2>5. s = x
    BY <1>0, <1>4, <2>2, <2>3 DEF Moves
  <2> QED
    BY <2>4, <2>5
<1>5. CASE phase[s] = "serving" /\ handoff = s
  <2>1. PICK x \in Processes : Moves(x) \/ Start(x) \/ Ends(x) \/ Uses(x)
    BY <1>1, <1>5, StepKinds DEF vars, life, Age
  <2>2. ~Start(x) /\ ~Uses(x)
    BY <1>1, <1>5, OpenAfter DEF Start, life
  <2>3. Open(x) /\ Open(s)
    BY <1>5, <2>1, <2>2 DEF Moves, Ends, Open
  <2>4. x # s
    BY <1>0, <1>5, <2>1, <2>2 DEF Moves, Ends, Gone
  <2>5. x \in Sidecars
    BY <2>1, <2>2, <1>5 DEF Moves, Ends
  <2> QED
    BY <1>0, <1>1, <1>2, <2>3, <2>4, <2>5 DEF OpenHaveMet
<1> QED
  BY <1>3, <1>4, <1>5

-----------------------------------------------------------------------------
(* What processes write of each other's runs. *)

\* What becomes of the images: they stay, a process begins with what the file
\* holds, ends without one, or writes one of its own.
Writes(x, st) ==
  /\ Persist(x, st)
  /\ Unlocked(x)
  /\ Uses(x)

\* A write that leaves the run records alone.
WritesSameRuns(x, st) == Writes(x, st) /\ st.runs = mem[x].runs /\ UNCHANGED <<acked, files, cleanup>>

\* The write of a deletion, and the write of a save.
WritesDeletion(x, p) == Writes(x, DropProject(mem[x], p)) /\ DeleteProject(x, p)

WritesRun(x, E) ==
  /\ Writes(x, SavedImage(x, E))
  /\ run[x].pc = "captured"
  /\ run[x].project \in DOMAIN mem[x].projects
  /\ acked' = acked \cup {<<run[x].run, run[x].project, x>>}
  /\ files' = files
  /\ cleanup' = [cleanup EXCEPT ![x] =
       [held |-> TRUE, sweep |-> TRUE, remove |-> {f \in files : <<f[1], f[2]>> \in E}]]

LEMMA UseSteps ==
  ASSUME Shape, NEW x \in Processes, Uses(x)
  PROVE  \/ mem' = mem /\ disk' = disk /\ acked' = acked
            /\ (cleanup' = cleanup \/ cleanup' = [cleanup EXCEPT ![x] = NoCleanup])
         \/ \E st : WritesSameRuns(x, st)
         \/ \E p \in Projects : WritesDeletion(x, p)
         \/ \E E : WritesRun(x, E)
<1>0. IsStore(mem[x])
  BY DEF Shape, TypeOK
<1>1. ASSUME NEW p \in Projects, CreateProject(x, p)
      PROVE  WritesSameRuns(x, AddProject(mem[x], p))
  <2>1. AddProject(mem[x], p).runs = mem[x].runs
    BY <1>0 DEF AddProject, IsStore
  <2> QED
    BY <1>1, <2>1 DEF CreateProject, WritesSameRuns, Writes
<1>2. ASSUME NEW p \in Projects, DeleteProject(x, p)
      PROVE  WritesDeletion(x, p)
  BY <1>2 DEF DeleteProject, WritesDeletion, Writes
<1>3. ASSUME NEW p \in Projects, NEW r \in RunIds, StartRun(x, p, r)
      PROVE  mem' = mem /\ disk' = disk /\ acked' = acked /\ cleanup' = cleanup
  BY <1>3 DEF StartRun
<1>4. ASSUME NEW e \in Explorations, ExploreSucceeds(x, e)
      PROVE  \/ mem' = mem /\ disk' = disk /\ acked' = acked /\ cleanup' = cleanup
             \/ WritesSameRuns(x, AddExploration(mem[x], e, run[x].project))
  <2>1. AddExploration(mem[x], e, run[x].project).runs = mem[x].runs
    BY <1>0 DEF AddExploration, IsStore
  <2> QED
    BY <1>4, <2>1 DEF ExploreSucceeds, WritesSameRuns, Writes
<1>5. ASSUME NEW kinds \in Captures, Capture(x, kinds)
      PROVE  mem' = mem /\ disk' = disk /\ acked' = acked /\ cleanup' = cleanup
  BY <1>5 DEF Capture
<1>6. CASE AbortRun(x) \/ FinishCleanup(x)
  BY <1>6 DEF AbortRun, FinishCleanup
<1>7. CASE SaveRun(x)
  <2> DEFINE pruned == Pruned(InsertRun(mem[x], run[x].run, run[x].project, ItemsOf(run[x])), files)
  <2>1. CASE run[x].project \in DOMAIN mem[x].projects
    <3>1. WritesRun(x, pruned)
      BY <1>7, <2>1 DEF SaveRun, SavedImage, WritesRun, Writes, Uses
    <3> QED
      BY <3>1
  <2>2. CASE run[x].project \notin DOMAIN mem[x].projects
    BY <1>7, <2>2 DEF SaveRun
  <2> QED
    BY <2>1, <2>2
<1> QED
  BY <1>1, <1>2, <1>3, <1>4, <1>5, <1>6, <1>7 DEF Uses

LEMMA SharedCleanups ==
  ASSUME SharedInv, [Next]_vars
  PROVE  CleanupsApart'
<1>1. Shape /\ RunsOwned /\ CleanupsApart /\ TypeOK
  BY DEF SharedInv, Shape
<1>0. /\ cleanup \in [Processes -> [held: BOOLEAN, remove: SUBSET Files, sweep: BOOLEAN]]
      /\ mem = [y \in Processes |-> mem[y]]
      /\ \A y \in Processes : IsStore(mem[y])
  BY <1>1 DEF Shape, TypeOK
<1>2. NoCleanup.held = FALSE /\ NoCleanup.remove = {}
  BY DEF NoCleanup
<1>3. CASE UNCHANGED vars \/ Age
  BY <1>1, <1>3 DEF CleanupsApart, Open, vars, store, life, Age
<1>4. ASSUME NEW x \in Processes, Moves(x)
      PROVE  CleanupsApart'
  <2>1. \A y \in Processes : Open(y)' <=> Open(y)
    BY <1>1, <1>4, OpenAfter
  <2> QED
    BY <1>1, <1>4, <2>1 DEF CleanupsApart, Moves, store
<1>5. ASSUME NEW x \in Processes, Start(x)
      PROVE  CleanupsApart'
  <2>1. \A y \in Processes : Open(y) => Open(y)'
    BY <1>1, <1>5, OpenAfter
  <2>2. cleanup' = cleanup /\ \A y \in Processes \ {x} : mem'[y] = mem[y]
    BY <1>0, <1>5 DEF Start
  <2>3. cleanup[x].remove = {}
    BY <1>1, <1>2, <1>5 DEF CleanupsApart, Start, Open
  <2> QED
    BY <1>1, <2>1, <2>2, <2>3 DEF CleanupsApart
<1>6. ASSUME NEW x \in Processes, Ends(x)
      PROVE  CleanupsApart'
  <2>1. \A y \in Processes \ {x} : Open(y) => Open(y)'
    BY <1>1, <1>6, OpenAfter
  <2>2. /\ cleanup'[x] = NoCleanup
        /\ \A y \in Processes \ {x} : mem'[y] = mem[y] /\ cleanup'[y] = cleanup[y]
    BY <1>0, <1>6 DEF Ends, Gone
  <2> QED
    BY <1>1, <1>2, <2>1, <2>2 DEF CleanupsApart
<1>7. ASSUME NEW x \in Processes, Uses(x)
      PROVE  CleanupsApart'
  <2>1. (\A y \in Processes : Open(y)' <=> Open(y)) /\ Open(x)
    BY <1>1, <1>7, OpenAfter, UsersAreOpen
  <2>2. SUFFICES /\ \A y \in Processes \ {x} : mem'[y] = mem[y] /\ cleanup'[y] = cleanup[y]
                 /\ ~cleanup'[x].held => cleanup'[x] = NoCleanup
                 /\ cleanup'[x].remove \cap Claims(mem'[x]) = {}
    BY <1>1, <2>1 DEF CleanupsApart
  <2>3. CASE mem' = mem /\ (cleanup' = cleanup \/ cleanup' = [cleanup EXCEPT ![x] = NoCleanup])
    BY <1>0, <1>1, <1>2, <2>3 DEF CleanupsApart
  <2>4. ASSUME NEW st, Writes(x, st)
        PROVE  /\ \A y \in Processes \ {x} : mem'[y] = mem[y]
               /\ mem'[x] = st
               /\ cleanup[x] = NoCleanup
    BY <1>0, <1>1, <2>4 DEF Writes, Persist, Unlocked, CleanupsApart
  <2>5. CASE \E st : WritesSameRuns(x, st)
    BY <1>2, <2>4, <2>5 DEF WritesSameRuns
  <2>6. ASSUME NEW p \in Projects, WritesDeletion(x, p)
        PROVE  /\ \A y \in Processes \ {x} : mem'[y] = mem[y] /\ cleanup'[y] = cleanup[y]
               /\ ~cleanup'[x].held => cleanup'[x] = NoCleanup
               /\ cleanup'[x].remove \cap Claims(mem'[x]) = {}
    <3> DEFINE gone == {f \in files : /\ f[1] \in RunsOf(mem[x], p)
                                     /\ <<f[1], f[2]>> \in EvidenceOf(mem[x])}
    <3>1. cleanup' = [cleanup EXCEPT ![x] = [held |-> TRUE, sweep |-> FALSE, remove |-> gone]]
      BY <2>6 DEF WritesDeletion, DeleteProject
    <3>2. Claims(DropProject(mem[x], p)) = {f \in Claims(mem[x]) : f[1] \notin RunsOf(mem[x], p)}
      BY <1>0, DroppedImageFacts
    <3>3. gone \cap Claims(DropProject(mem[x], p)) = {}
      BY <3>2
    <3> HIDE DEF gone
    <3>4. /\ cleanup'[x].held /\ cleanup'[x].remove = gone
          /\ \A y \in Processes \ {x} : cleanup'[y] = cleanup[y]
      BY <1>0, <3>1
    <3> QED
      BY <2>4, <2>6, <3>3, <3>4 DEF WritesDeletion
  <2>7. ASSUME NEW E, WritesRun(x, E)
        PROVE  /\ \A y \in Processes \ {x} : mem'[y] = mem[y] /\ cleanup'[y] = cleanup[y]
               /\ ~cleanup'[x].held => cleanup'[x] = NoCleanup
               /\ cleanup'[x].remove \cap Claims(mem'[x]) = {}
    <3> DEFINE gone == {f \in files : <<f[1], f[2]>> \in E}
    <3>1. cleanup' = [cleanup EXCEPT ![x] = [held |-> TRUE, sweep |-> TRUE, remove |-> gone]]
      BY <2>7 DEF WritesRun
    <3>2. \A f \in Claims(SavedImage(x, E)) : <<f[1], f[2]>> \notin E
      BY <2>7, SavedImageFacts DEF WritesRun
    <3>3. gone \cap Claims(SavedImage(x, E)) = {}
      BY <3>2
    <3> HIDE DEF gone
    <3>4. /\ cleanup'[x].held /\ cleanup'[x].remove = gone
          /\ \A y \in Processes \ {x} : cleanup'[y] = cleanup[y]
      BY <1>0, <3>1
    <3> QED
      BY <2>4, <2>7, <3>3, <3>4 DEF WritesRun
  <2> QED
    BY <1>1, <1>7, <2>3, <2>5, <2>6, <2>7, UseSteps
<1> QED
  BY <1>1, <1>3, <1>4, <1>5, <1>6, <1>7, StepKinds

LEMMA SharedSavedAlone ==
  ASSUME SharedInv, [Next]_vars
  PROVE  SavedAlone'
<1>1. /\ Shape /\ RunsOwned /\ RunsFresh /\ CleanupsApart /\ TypeOK
      /\ OpenHaveMet /\ SavedAlone
  BY DEF SharedInv, Shape
<1>0. /\ mem = [y \in Processes |-> mem[y]]
      /\ \A y \in Processes : IsStore(mem[y])
  BY <1>1 DEF Shape, TypeOK
<1>2. \A y \in Processes : Alone(y)' => Alone(y)
  BY <1>1, MetGrows DEF Alone
<1>a. \A a \in acked : a[1] \in RunIds /\ a[2] \in Projects /\ a[3] \in Processes
  BY <1>1 DEF TypeOK
<1>3. CASE UNCHANGED vars \/ Age
  BY <1>1, <1>3 DEF SavedAlone, Alone, Holds, Open, vars, store, life, Age
<1>4. ASSUME NEW x \in Processes, Moves(x)
      PROVE  SavedAlone'
  <2>1. \A y \in Processes : Open(y)' <=> Open(y)
    BY <1>1, <1>4, OpenAfter
  <2> QED
    BY <1>1, <1>4, <2>1 DEF SavedAlone, Alone, Holds, Moves, store
<1>5. ASSUME NEW x \in Processes, Start(x) \/ Ends(x)
      PROVE  SavedAlone'
  <2>1. \A y \in Processes : Open(y)' => /\ Open(y) \/ (Start(x) /\ y = x)
                                         /\ Ends(x) => y # x
    BY <1>1, <1>5, OpenAfter
  <2>2. acked' = acked /\ disk' = disk /\ \A y \in Processes \ {x} : mem'[y] = mem[y]
    BY <1>0, <1>5 DEF Start, Ends, Gone
  <2>3. Start(x) => mem'[x] = disk
    BY <1>0 DEF Start
  <2>4. \A y \in Processes : Open(y)' => mem'[y] = disk \/ (Open(y) /\ mem'[y] = mem[y])
    BY <1>5, <2>1, <2>2, <2>3
  <2> QED
    BY <1>1, <1>2, <1>a, <2>2, <2>4 DEF SavedAlone, Holds
<1>6. ASSUME NEW x \in Processes, Uses(x)
      PROVE  SavedAlone'
  <2>1. (\A y \in Processes : Open(y)' <=> Open(y)) /\ Open(x) /\ met' = met
    BY <1>1, <1>6, OpenAfter, UsersAreOpen DEF life
  <2>2. CASE mem' = mem /\ disk' = disk /\ acked' = acked
    BY <1>1, <2>1, <2>2 DEF SavedAlone, Alone, Holds
  \* An image that keeps what the others keep.
  <2>3. ASSUME NEW st, Writes(x, st), acked' \subseteq acked,
               \A a \in acked' : Holds(mem[x], a) => Holds(st, a)
        PROVE  SavedAlone'
    <3>1. disk' = st /\ \A y \in Processes : mem'[y] = IF y = x THEN st ELSE mem[y]
      BY <1>0, <2>3 DEF Writes, Persist
    <3> SUFFICES ASSUME NEW a \in acked', Alone(a[3])'
                 PROVE  Holds(disk', a) /\ \A y \in Processes : Open(y)' => Holds(mem'[y], a)
      BY DEF SavedAlone, Holds
    <3>2. a \in acked /\ Alone(a[3])
      BY <1>2, <1>a, <2>3
    <3>3. \A y \in Processes : Open(y) => Holds(mem[y], a)
      BY <1>1, <3>2 DEF SavedAlone
    <3>4. Holds(st, a)
      BY <2>1, <2>3, <3>3
    <3> QED
      BY <2>1, <3>1, <3>3, <3>4
  <2>4. ASSUME NEW st, WritesSameRuns(x, st)
        PROVE  SavedAlone'
    <3>1. Writes(x, st) /\ acked' = acked /\ st.runs = mem[x].runs
      BY <2>4 DEF WritesSameRuns
    <3>2. \A a \in acked' : Holds(mem[x], a) => Holds(st, a)
      BY <3>1 DEF Holds
    <3> QED
      BY <2>3, <3>1, <3>2
  <2>5. ASSUME NEW p \in Projects, WritesDeletion(x, p)
        PROVE  SavedAlone'
    <3>1. Writes(x, DropProject(mem[x], p)) /\ acked' = {a \in acked : a[2] # p}
      BY <2>5 DEF WritesDeletion, DeleteProject
    <3>2. \A a \in acked' : Holds(mem[x], a) => Holds(DropProject(mem[x], p), a)
      BY <1>0, <3>1, DroppedImageFacts DEF Holds, RunsOf
    <3> QED
      BY <2>3, <3>1, <3>2
  <2>6. ASSUME NEW E, WritesRun(x, E)
        PROVE  SavedAlone'
    <3> DEFINE new == <<run[x].run, run[x].project, x>>
               st == SavedImage(x, E)
    <3>1. /\ disk' = st /\ \A y \in Processes : mem'[y] = IF y = x THEN st ELSE mem[y]
          /\ acked' = acked \cup {new}
      BY <1>0, <2>6 DEF WritesRun, Writes, Persist
    <3>2. /\ DOMAIN st.runs = DOMAIN mem[x].runs \cup {run[x].run}
          /\ \A r \in DOMAIN mem[x].runs : st.runs[r].project = mem[x].runs[r].project
          /\ st.runs[run[x].run].project = run[x].project
      BY <2>6, SavedImageFacts DEF WritesRun
    <3>3. Holds(st, new)
      BY <3>2 DEF Holds
    <3>4. \A a \in acked : Holds(mem[x], a) => Holds(st, a)
      BY <3>2 DEF Holds
    <3> HIDE DEF st
    <3> SUFFICES ASSUME NEW a \in acked', Alone(a[3])'
                 PROVE  Holds(disk', a) /\ \A y \in Processes : Open(y)' => Holds(mem'[y], a)
      BY DEF SavedAlone, Holds
    <3>5. CASE a \in acked
      <4>1. \A y \in Processes : Open(y) => Holds(mem[y], a)
        BY <1>1, <1>2, <1>a, <3>5 DEF SavedAlone
      <4> QED
        BY <2>1, <3>1, <3>4, <3>5, <4>1
    <3>6. CASE a = new
      <4>1. Alone(x)
        BY <1>2, <3>6
      <4>2. \A y \in Processes : Open(y) => y = x
        BY <1>1, <2>1, <4>1 DEF OpenHaveMet, Alone
      <4> QED
        BY <2>1, <3>1, <3>3, <3>6, <4>2
    <3> QED
      BY <3>1, <3>5, <3>6
  <2> QED
    BY <1>1, <1>6, <2>2, <2>4, <2>5, <2>6, UseSteps
<1> QED
  BY <1>1, <1>3, <1>4, <1>5, <1>6, StepKinds

-----------------------------------------------------------------------------
(* One process at a time. *)

\* A process whose image is what the file holds removes no file that is claimed.
LEMMA RemovesUnclaimed ==
  ASSUME SharedInv, NEW x \in Processes, mem[x] = disk, NEW f \in Removable(x)
  PROVE  f \notin Claims(disk)
<1>1. Shape /\ TypeOK /\ RunsOwned /\ RunsFresh /\ CleanupsApart
  BY DEF SharedInv, Shape
<1> SUFFICES ASSUME f \in Claims(disk)
             PROVE  FALSE
  OBVIOUS
<1>2. f[1] \in RunIds /\ f[1] \in DOMAIN disk.runs /\ <<f[1], f[2]>> \in EvidenceOf(disk)
  BY ClaimsAreOfStoredRuns DEF Files
<1>3. f \notin ToRemove(x)
  BY <1>1, <1>2 DEF ToRemove, Sweepable, CleanupsApart
<1>4. f[1] = run[x].run
  BY <1>3 DEF Removable, FilesOfRun
<1>5. run[x].pc # "idle"
  BY <1>1, <1>2, <1>4, IdAssumption DEF RunsOwned, NoRun
<1> QED
  BY <1>1, <1>2, <1>4, <1>5 DEF RunsFresh, Exposed

LEMMA SharedOneAtATime ==
  ASSUME SharedInv, [Next]_vars
  PROVE  OneAtATime'
<1>1. /\ Shape /\ RunsOwned /\ CleanupsApart /\ TypeOK
      /\ OpenHaveMet /\ OneAtATime
  BY DEF SharedInv, Shape
<1>0. /\ mem = [y \in Processes |-> mem[y]]
      /\ \A y \in Processes : IsStore(mem[y])
  BY <1>1 DEF Shape, TypeOK
<1> SUFFICES ASSUME met' = {}
             PROVE  /\ \A y \in Processes : Open(y)' => mem'[y] = disk'
                    /\ Claims(disk') \subseteq files'
  BY DEF OneAtATime, Claims, EvidenceOf
<1>2. met = {} /\ (\A y \in Processes : Open(y) => mem[y] = disk) /\ Claims(disk) \subseteq files
  BY <1>1, MetGrows DEF OneAtATime
\* What is claimed is not removed.
<1>3. Claims(disk) \subseteq files'
  <2> SUFFICES ASSUME NEW f \in Claims(disk), f \notin files'
               PROVE  FALSE
    OBVIOUS
  <2>1. PICK x \in Processes : /\ Ends(x) \/ Uses(x)
                               /\ f \in Removable(x)
    BY <1>1, <1>2, FilesLost DEF Removable
  <2>2. Open(x)
    BY <1>1, <2>1, UsersAreOpen DEF Ends
  <2> QED
    BY <1>2, <2>1, <2>2, RemovesUnclaimed
<1>4. CASE UNCHANGED vars \/ Age
  BY <1>2, <1>3, <1>4 DEF Open, vars, store, life, Age
<1>5. ASSUME NEW x \in Processes, Moves(x) \/ Start(x) \/ Ends(x)
      PROVE  disk' = disk /\ \A y \in Processes : Open(y)' => mem'[y] = disk
  <2>1. CASE Moves(x)
    BY <1>1, <1>2, <2>1, OpenAfter DEF Moves, store
  <2>2. CASE Start(x)
    BY <1>0, <1>1, <1>2, <2>2, OpenAfter DEF Start
  <2>3. CASE Ends(x)
    BY <1>0, <1>1, <1>2, <2>3, OpenAfter DEF Ends, Gone
  <2> QED
    BY <1>5, <2>1, <2>2, <2>3
<1>6. ASSUME NEW x \in Processes, Uses(x)
      PROVE  /\ \A y \in Processes : Open(y)' => mem'[y] = disk'
             /\ Claims(disk') \subseteq files'
  <2>1. /\ \A y \in Processes : Open(y)' <=> Open(y)
        /\ mem[x] = disk
        /\ \A y \in Processes : Open(y) => y = x
    BY <1>1, <1>2, <1>6, OpenAfter, UsersAreOpen DEF OpenHaveMet
  <2>2. CASE mem' = mem /\ disk' = disk
    BY <1>2, <1>3, <2>1, <2>2
  <2>3. ASSUME NEW st, Writes(x, st), Claims(st) \subseteq files'
        PROVE  /\ \A y \in Processes : Open(y)' => mem'[y] = disk'
               /\ Claims(disk') \subseteq files'
    BY <1>0, <2>1, <2>3 DEF Writes, Persist
  <2>4. ASSUME NEW st, WritesSameRuns(x, st)
        PROVE  Writes(x, st) /\ Claims(st) \subseteq files'
    BY <1>3, <2>1, <2>4, SameRunsSameClaims DEF WritesSameRuns
  <2>5. ASSUME NEW p \in Projects, WritesDeletion(x, p)
        PROVE  Writes(x, DropProject(mem[x], p)) /\ Claims(DropProject(mem[x], p)) \subseteq files'
    BY <1>0, <1>3, <2>1, <2>5, DroppedImageFacts DEF WritesDeletion
  <2>6. ASSUME NEW E, WritesRun(x, E)
        PROVE  Writes(x, SavedImage(x, E)) /\ Claims(SavedImage(x, E)) \subseteq files'
    <3>1. Claims(SavedImage(x, E)) \subseteq Claims(mem[x]) \cup JobFiles(run[x])
      BY <2>6, SavedImageFacts DEF WritesRun
    <3>2. JobFiles(run[x]) \subseteq files /\ files' = files
      BY <2>6 DEF SharedInv, Captured, WritesRun
    <3> QED
      BY <1>3, <2>1, <2>6, <3>1, <3>2 DEF WritesRun
  <2>7. CASE \E st : WritesSameRuns(x, st)
    BY <2>3, <2>4, <2>7
  <2>8. CASE \E p \in Projects : WritesDeletion(x, p)
    BY <2>3, <2>5, <2>8
  <2>9. CASE \E E : WritesRun(x, E)
    BY <2>3, <2>6, <2>9
  <2> QED
    BY <1>1, <1>6, <2>2, <2>7, <2>8, <2>9, UseSteps
<1> QED
  BY <1>1, <1>3, <1>4, <1>5, <1>6, StepKinds

-----------------------------------------------------------------------------
(* The theorems. *)

LEMMA SharedInitially ==
  ASSUME Init
  PROVE  SharedInv
<1> USE DEF Init
<1>0. /\ \A x \in Processes : /\ phase[x] = "new" /\ mem[x] = EmptyStore
                              /\ run[x] = NoRun /\ cleanup[x] = NoCleanup
      /\ disk = EmptyStore /\ files = {} /\ old = {} /\ minted = {} /\ acked = {} /\ met = {}
  OBVIOUS
<1>1. Shape
  <2>1. NoRun \in [pc: {"idle", "explore", "explored", "captured"},
                   project: Projects \cup {None}, run: RunIds \cup {None}, kinds: SUBSET Kinds]
    BY DEF NoRun
  <2>2. NoCleanup \in [held: BOOLEAN, remove: SUBSET Files, sweep: BOOLEAN]
    BY DEF NoCleanup
  <2> QED
    BY <2>1, <2>2, EmptyStoreShape DEF Shape, TypeOK
<1>2. DOMAIN EmptyStore.runs = {} /\ Claims(EmptyStore) = {}
  BY DEF EmptyStore, Claims, EvidenceOf
<1>3. NoRun.pc = "idle" /\ NoCleanup.held = FALSE /\ NoCleanup.remove = {}
  BY DEF NoRun, NoCleanup
<1>4. RunsOwned
  BY <1>0, <1>3 DEF RunsOwned
<1>5. RunsFresh
  BY <1>0, <1>2, <1>3 DEF RunsFresh, Exposed
<1>6. Captured /\ CleanupsApart /\ OpenHaveMet /\ SavedAlone
  BY <1>0, <1>2, <1>3 DEF Captured, CleanupsApart, OpenHaveMet, SavedAlone, Open
<1>7. OneAtATime
  BY <1>0, <1>2 DEF OneAtATime, Open
<1>8. OnlyOverlapHidesSidecar
  BY <1>0 DEF OnlyOverlapHidesSidecar, Processes
<1> QED
  BY <1>1, <1>4, <1>5, <1>6, <1>7, <1>8 DEF SharedInv

LEMMA SharedStep ==
  ASSUME SharedInv, [Next]_vars
  PROVE  SharedInv'
BY SharedShape, SharedOwned, SharedFresh, SharedCaptured, SharedCleanups, SharedMet,
   SharedSavedAlone, SharedOneAtATime, SharedHides DEF SharedInv

LEMMA SharedAlways == Spec => []SharedInv
<1>1. Init => SharedInv
  BY SharedInitially
<1>2. SharedInv /\ [Next]_vars => SharedInv'
  BY SharedStep
<1> QED
  BY <1>1, <1>2, PTL DEF Spec

\* Whatever other processes prune, delete, sweep or abandon, each by its own
\* image of the store, the evidence of a run about to be saved is on disk.
THEOREM InFlightAlwaysKept == Spec => []InFlightFilesKept
<1>1. SharedInv => InFlightFilesKept
  BY DEF SharedInv, Shape, Captured, JobFiles, InFlightFilesKept
<1> QED
  BY <1>1, SharedAlways, PTL

\* A save that returned Ok is undone by no process that came after its own: only
\* one that had loaded the store before can write an image without the run.
THEOREM RunsLostOnlyToOverlap == Spec => []OnlyOverlapLosesRuns
<1>1. SharedInv => OnlyOverlapLosesRuns
  BY DEF SharedInv, SavedAlone, Alone, Holds, OnlyOverlapLosesRuns, Lost
<1> QED
  BY <1>1, SharedAlways, PTL

\* Processes that follow one another leave every claimed file on disk, wherever
\* in a save or a deletion one of them is killed.
THEOREM EvidenceLostOnlyToOverlap == Spec => []OnlyOverlapLosesEvidence
<1>1. SharedInv => OnlyOverlapLosesEvidence
  BY DEF SharedInv, OneAtATime, OnlyOverlapLosesEvidence
<1> QED
  BY <1>1, SharedAlways, PTL

\* The handoff names the sidecar that serves, unless another one overlapped it.
THEOREM HiddenOnlyByOverlap == Spec => []OnlyOverlapHidesSidecar
<1>1. SharedInv => OnlyOverlapHidesSidecar
  BY DEF SharedInv
<1> QED
  BY <1>1, SharedAlways, PTL
=============================================================================
