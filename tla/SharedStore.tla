----------------------------- MODULE SharedStore -----------------------------
(***************************************************************************)
(* Several processes over one Checks data directory: sidecars, which a     *)
(* restart may let overlap, and client processes (`ryu-checks mcp` and the *)
(* CLI), which open the store when they start and use it themselves        *)
(* whenever no sidecar answers. Every process keeps its own image of       *)
(* `checks.json` and every save replaces the file by that image.           *)
(*                                                                         *)
(* A process is one process life, and its name the token it publishes. All *)
(* are in the same sealing state (SealedStore has the others), writes of   *)
(* checks.json succeed (ChecksStore has the failed ones), and a process    *)
(* executes one run at a time.                                             *)
(***************************************************************************)
EXTENDS StoreState

CONSTANTS
  Sidecars,
  Clients,
  Captures,      \* what the browser lane may retain for a test, as file kinds
  SlowProbe      \* whether a health probe may time out although a sidecar serves

VARIABLES
  phase,         \* per process, how far its life has come
  mem,           \* per process, its image of the store
  run,           \* per process, the run it executes
  cleanup,       \* per process, file removal it still has to do
  disk,          \* what checks.json holds
  files,         \* the evidence files on disk
  old,           \* of those, the files older than the sweep's grace period
  port,          \* the sidecar that is bound to the sidecar port
  handoff,       \* the sidecar whose handoff file is in place
  minted,        \* ids handed out so far
  acked,         \* <<run, project, process>> of the saves that returned Ok, until
                 \* the deletion of the project is asked for
  met            \* pairs of processes that had the store open at once

store == <<mem, disk, files, old, run, cleanup, minted, acked>>
life == <<phase, port, handoff, met>>
vars == <<store, life>>

Processes == Sidecars \cup Clients

ASSUME ProcessAssumption ==
  /\ Sidecars \cap Clients = {}
  /\ None \notin Processes
  /\ Captures \subseteq {{}, {"png"}, Kinds}
  /\ SlowProbe \in BOOLEAN

NoRun == [pc |-> "idle", project |-> None, run |-> None, kinds |-> {}]
NoCleanup == [held |-> FALSE, remove |-> {}, sweep |-> FALSE]

Open(x) == phase[x] \notin {"new", "ended"}

Init ==
  /\ phase = [x \in Processes |-> "new"]
  /\ mem = [x \in Processes |-> EmptyStore]
  /\ run = [x \in Processes |-> NoRun]
  /\ cleanup = [x \in Processes |-> NoCleanup]
  /\ disk = EmptyStore
  /\ files = {}
  /\ old = {}
  /\ port = None
  /\ handoff = None
  /\ minted = {}
  /\ acked = {}
  /\ met = {}

-----------------------------------------------------------------------------
(* The life of a process. *)

\* Store::open: the image is what the file holds now, and is never reloaded.
Start(x) ==
  /\ phase[x] = "new"
  /\ phase' = [phase EXCEPT ![x] = "open"]
  /\ mem' = [mem EXCEPT ![x] = disk]
  /\ met' = met \cup {{x, y} : y \in {y \in Processes : Open(y)}}
  /\ UNCHANGED <<run, cleanup, disk, files, old, port, handoff, minted, acked>>

FilesOfRun(r) == {f \in files : f[1] = r}
Discard(F) == files' = files \ F /\ old' = old \ F

\* What is left of process x, whichever way it ends.
Gone(x) ==
  /\ phase' = [phase EXCEPT ![x] = "ended"]
  /\ mem' = [mem EXCEPT ![x] = EmptyStore]
  /\ run' = [run EXCEPT ![x] = NoRun]
  /\ cleanup' = [cleanup EXCEPT ![x] = NoCleanup]
  /\ port' = IF port = x THEN None ELSE port
  /\ UNCHANGED <<disk, minted, acked, met>>

\* The runtime drops the schedule loop where it awaits: the pending guard
\* removes the files of its run.
Exit(x) ==
  /\ ~cleanup[x].held
  /\ Discard(FilesOfRun(run[x].run))
  /\ Gone(x)

\* The schedule loop runs since the store is open; only now is the port taken.
Bind(s) ==
  /\ phase[s] = "open"
  /\ IF port = None
     THEN /\ port' = s
          /\ phase' = [phase EXCEPT ![s] = "bound"]
          /\ UNCHANGED <<store, handoff, met>>
     ELSE Exit(s) /\ UNCHANGED handoff

\* Mutant: a handoff that is there is kept.
PublishIfAbsent(s) ==
  /\ phase[s] = "bound"
  /\ handoff' = IF handoff = None THEN s ELSE handoff
  /\ phase' = [phase EXCEPT ![s] = "serving"]
  /\ UNCHANGED <<store, port, met>>

Publish(s) ==
  /\ phase[s] = "bound"
  /\ handoff' = s
  /\ phase' = [phase EXCEPT ![s] = "serving"]
  /\ UNCHANGED <<store, port, met>>

PublishFails(s) ==
  /\ phase[s] = "bound"
  /\ Exit(s)
  /\ UNCHANGED handoff

\* The listener closes first; requests in flight are still answered.
Shutdown(s) ==
  /\ phase[s] = "serving"
  /\ phase' = [phase EXCEPT ![s] = "draining"]
  /\ port' = None
  /\ UNCHANGED <<store, handoff, met>>

\* withdraw reads the handoff, and removes the file when it read its own.
WithdrawRead(s) ==
  /\ phase[s] = "draining"
  /\ IF handoff = s
     THEN phase' = [phase EXCEPT ![s] = "withdrawing"] /\ UNCHANGED <<store, port, met>>
     ELSE Exit(s)
  /\ UNCHANGED handoff

WithdrawRemove(s) ==
  /\ phase[s] = "withdrawing"
  /\ handoff' = None
  /\ Exit(s)

ClientEnds(c) ==
  /\ phase[c] = "open"
  /\ run[c].pc = "idle"
  /\ Exit(c)
  /\ UNCHANGED handoff

-----------------------------------------------------------------------------
(* What a process does to the store, on its own image. *)

\* Mutant: what is written is the image before the change.
PersistStale(x, st) == mem' = [mem EXCEPT ![x] = st] /\ disk' = mem[x]

\* persist_state of process x.
Persist(x, st) == mem' = [mem EXCEPT ![x] = st] /\ disk' = st

Unlocked(x) == ~cleanup[x].held

CreateProject(s, p) ==
  /\ phase[s] \in {"serving", "draining"}
  /\ Unlocked(s)
  /\ p \in Projects \ minted
  /\ minted' = minted \cup {p}
  /\ Persist(s, AddProject(mem[s], p))
  /\ UNCHANGED <<files, old, run, cleanup, acked, life>>

DeleteProject(s, p) ==
  /\ phase[s] \in {"serving", "draining"}
  /\ Unlocked(s)
  /\ p \in DOMAIN mem[s].projects
  /\ Persist(s, DropProject(mem[s], p))
  /\ cleanup' = [cleanup EXCEPT ![s] =
        [held |-> TRUE, sweep |-> FALSE,
         remove |-> {f \in files : /\ f[1] \in RunsOf(mem[s], p)
                                   /\ <<f[1], f[2]>> \in EvidenceOf(mem[s])}]]
  /\ acked' = {a \in acked : a[2] # p}
  /\ UNCHANGED <<files, old, run, minted, life>>

\* SidecarClient::connect: no handoff, a port nobody listens on, or a probe
\* that takes too long. A sidecar that answers gets the call instead.
NoSidecarAnswers == handoff = None \/ port = None \/ SlowProbe

\* Who may start a run: a sidecar, whose schedule loop runs as long as it has the
\* store open, and a client that is on its own.
MayRun(x) ==
  IF x \in Sidecars THEN Open(x) ELSE phase[x] = "open" /\ NoSidecarAnswers

StartRun(x, p, r) ==
  /\ MayRun(x)
  /\ Unlocked(x)
  /\ run[x].pc = "idle"
  /\ p \in DOMAIN mem[x].projects
  /\ r \in RunIds \ minted
  /\ minted' = minted \cup {r}
  /\ run' = [run EXCEPT ![x] = [pc |-> "explore", project |-> p, run |-> r, kinds |-> {}]]
  /\ UNCHANGED <<mem, disk, files, old, cleanup, acked, life>>

\* An exploration that cannot be saved, because its project is gone, ends the run.
ExploreSucceeds(x, e) ==
  /\ run[x].pc = "explore"
  /\ Unlocked(x)
  /\ e \in Explorations \ minted
  /\ minted' = minted \cup {e}
  /\ IF run[x].project \in DOMAIN mem[x].projects
     THEN /\ Persist(x, AddExploration(mem[x], e, run[x].project))
          /\ run' = [run EXCEPT ![x].pc = "explored"]
     ELSE /\ run' = [run EXCEPT ![x] = NoRun]
          /\ UNCHANGED <<mem, disk>>
  /\ UNCHANGED <<files, old, cleanup, acked, life>>

\* The tests are executed and their files written, whether the exploration
\* succeeded or failed.
Capture(x, kinds) ==
  /\ run[x].pc \in {"explore", "explored"}
  /\ run' = [run EXCEPT ![x].pc = "captured", ![x].kinds = kinds]
  /\ files' = files \cup ({run[x].run} \X TestsOf(run[x].project) \X kinds)
  /\ UNCHANGED <<mem, disk, old, cleanup, minted, acked, life>>

\* An error or a dropped request before the evidence is handed over: the
\* pending guard removes what was written.
AbortRun(x) ==
  /\ run[x].pc # "idle"
  /\ Discard(FilesOfRun(run[x].run))
  /\ run' = [run EXCEPT ![x] = NoRun]
  /\ UNCHANGED <<mem, disk, cleanup, minted, acked, life>>

ItemsOf(job) ==
  [t \in TestsOf(job.project) |-> [kinds |-> job.kinds, outcome |-> "passed"]]

\* save_run_for and save_run on the image of x; the directory is everyone's.
SaveRun(x) ==
  /\ run[x].pc = "captured"
  /\ Unlocked(x)
  /\ LET job == run[x]
         inserted == InsertRun(mem[x], job.run, job.project, ItemsOf(job))
         pruned == Pruned(inserted, files)
     IN IF job.project \in DOMAIN mem[x].projects
        THEN /\ Persist(x, ClearFlags(inserted, pruned))
             /\ cleanup' = [cleanup EXCEPT ![x] =
                  [held |-> TRUE, sweep |-> TRUE,
                   remove |-> {f \in files : <<f[1], f[2]>> \in pruned}]]
             /\ acked' = acked \cup {<<job.run, job.project, x>>}
             /\ UNCHANGED <<files, old>>
        ELSE Discard(FilesOfRun(job.run)) /\ UNCHANGED <<mem, disk, cleanup, acked>>
  /\ run' = [run EXCEPT ![x] = NoRun]
  /\ UNCHANGED <<minted, life>>

\* Mutant: the sweep has no grace period.
SweepableAtOnce(x) == {f \in files : <<f[1], f[2]>> \notin EvidenceOf(mem[x])}

\* What x takes for unreferenced: old files its own image does not know.
Sweepable(x) == {f \in old : <<f[1], f[2]>> \notin EvidenceOf(mem[x])}

ToRemove(x) == cleanup[x].remove \cup IF cleanup[x].sweep THEN Sweepable(x) ELSE {}

FinishCleanup(x) ==
  /\ cleanup[x].held
  /\ Discard(ToRemove(x))
  /\ cleanup' = [cleanup EXCEPT ![x] = NoCleanup]
  /\ UNCHANGED <<mem, disk, run, minted, acked, life>>

-----------------------------------------------------------------------------
(* Environment. *)

\* Files of a run a live process has captured and not yet saved.
InFlightFiles ==
  {f \in files : \E x \in Processes : run[x].pc = "captured" /\ f[1] = run[x].run}

\* A day passes. A run finishes within the grace period of its files, and no
\* process is a day between its write and the removals that follow it.
Age ==
  /\ \A x \in Processes : Unlocked(x)
  /\ old # files \ InFlightFiles
  /\ old' = files \ InFlightFiles
  /\ UNCHANGED <<mem, disk, files, run, cleanup, minted, acked, life>>

\* Neither the pending guard nor withdraw runs.
Kill(x) ==
  /\ Open(x)
  /\ \E F \in SUBSET ToRemove(x) : Discard(F)
  /\ Gone(x)
  /\ UNCHANGED handoff

SidecarNext(s) ==
  \/ Bind(s) \/ Publish(s) \/ PublishFails(s)
  \/ Shutdown(s) \/ WithdrawRead(s) \/ WithdrawRemove(s)
  \/ \E p \in Projects : CreateProject(s, p) \/ DeleteProject(s, p)

ProcessNext(x) ==
  \/ Start(x)
  \/ \E p \in Projects, r \in RunIds : StartRun(x, p, r)
  \/ \E e \in Explorations : ExploreSucceeds(x, e)
  \/ \E kinds \in Captures : Capture(x, kinds)
  \/ AbortRun(x)
  \/ SaveRun(x)
  \/ FinishCleanup(x)
  \/ Kill(x)

Next ==
  \/ \E s \in Sidecars : SidecarNext(s)
  \/ \E c \in Clients : ClientEnds(c)
  \/ \E x \in Processes : ProcessNext(x)
  \/ Age

Spec == Init /\ [][Next]_vars

-----------------------------------------------------------------------------
(* Properties. *)

\* The shape of every variable; an image is a well-formed store whoever wrote
\* the file it was loaded from.
TypeOK ==
  /\ phase \in [Processes -> {"new", "open", "bound", "serving", "draining", "withdrawing", "ended"}]
  /\ \A x \in Processes : IsStore(mem[x])
  /\ IsStore(disk)
  /\ run \in [Processes -> [pc: {"idle", "explore", "explored", "captured"},
                            project: Projects \cup {None}, run: RunIds \cup {None},
                            kinds: SUBSET Kinds]]
  /\ cleanup \in [Processes -> [held: BOOLEAN, remove: SUBSET Files, sweep: BOOLEAN]]
  /\ files \subseteq Files
  /\ old \subseteq files
  /\ port \in Sidecars \cup {None}
  /\ handoff \in Sidecars \cup {None}
  /\ minted \subseteq Projects \cup RunIds \cup Explorations
  /\ acked \subseteq RunIds \X Projects \X Processes
  /\ \A pair \in met : pair \subseteq Processes

\* Whatever the other processes prune, delete or sweep, by images that do not
\* know the run, the evidence of a run that is about to be saved is there.
InFlightFilesKept ==
  /\ TypeOK
  /\ \A x \in Processes : run[x].pc = "captured" =>
       {run[x].run} \X TestsOf(run[x].project) \X run[x].kinds \subseteq files

Lost(a) == a[1] \notin DOMAIN disk.runs

\* An acknowledged run is lost only to a process that had the store open at
\* the same time as the one that saved it: processes that follow one another,
\* by exit or by a kill, keep each other's runs.
OnlyOverlapLosesRuns ==
  \A a \in acked : Lost(a) => \E pair \in met : a[3] \in pair

\* Processes that follow one another, by exit or by a kill at any point of a save,
\* never leave a record that claims a file which is gone.
OnlyOverlapLosesEvidence == met = {} => Claims(disk) \subseteq files

\* Clients find a serving sidecar, also after kills that left a stale
\* handoff, unless another sidecar had the store open together with it.
OnlyOverlapHidesSidecar ==
  \A s \in Sidecars : phase[s] = "serving" /\ handoff # s =>
    \E z \in Sidecars \ {s} : {s, z} \in met

=============================================================================
