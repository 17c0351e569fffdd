----------------------------- MODULE SealedStore -----------------------------
(***************************************************************************)
(* At-rest sealing of one Checks data directory over the life of its keys: *)
(* `checks.json`, the record `checks.seal.json` of the key that sealed it, *)
(* and the evidence files, as the sidecar and client processes (`mcp`,     *)
(* `run`) open, classify, seal, replace and remove them.                   *)
(*                                                                         *)
(* The content of checks.json is the set of updates it holds. A file is    *)
(* replaced by a rename, so it is old or new after a kill, never partial.  *)
(* All processes are run by Core (RYU_PLUGIN_DATA_DIR is set): none makes  *)
(* a standalone root of its own.                                           *)
(***************************************************************************)
EXTENDS Naturals, FiniteSets

CONSTANTS
  Keys,          \* the plugin subkeys of successive master keys
  Sidecars,      \* processes Core may deliver keys to
  Clients,       \* `mcp` and `run` processes, which hold a key only through RYU_MASTER_KEY
  Updates,       \* saves, each adding something of its own
  Evid,          \* evidence files
  None,
  MaxRetired,    \* MAX_RETIRED_KEYS
  MaxStarts      \* bound: process starts

ASSUME KeyAssumption ==
  /\ Keys # {}
  /\ {"plain", "absent", None} \cap Keys = {}
  /\ Sidecars \cap Clients = {}
  /\ MaxRetired \in Nat
  /\ MaxStarts \in Nat

VARIABLES
  current, retired,   \* the master key and its predecessors, as Core holds them
  record,             \* checks.seal.json: the recorded key check value
  state,              \* checks.json
  evid,               \* evidence files: absent, plaintext, or sealed under a key
  proc,               \* the processes
  used,               \* updates attempted so far
  acked,              \* updates whose save returned Ok
  gone,               \* evidence files removed by a save
  overlapped,         \* history: two processes had the directory open together
  starts

vars == <<current, retired, record, state, evid, proc, used, acked, gone, overlapped, starts>>

Procs == Sidecars \cup Clients
Forms == Keys \cup {"plain", "absent"}

Down ==
  [pc |-> "down", key |-> None, old |-> {}, seen |-> None, sealed |-> FALSE,
   seal |-> "compat", mem |-> {}, saving |-> None, copy |-> None]

\* The keys a process can open with: it seals under the first only.
Held(p) == ({proc[p].key} \cup proc[p].old) \ {None}

AnySealed == \E e \in Evid : evid[e] \in Keys

Init ==
  /\ current \in Keys
  /\ retired = {}
  /\ record = None
  /\ state \in [form: {"plain", "absent"}, content: {{}}]
  /\ evid \in [Evid -> {"plain", "absent"}]
  /\ proc = [p \in Procs |-> Down]
  /\ used = {}
  /\ acked = {}
  /\ gone = {}
  /\ overlapped = FALSE
  /\ starts = 0

Step(p, x) == proc' = [proc EXCEPT ![p] = x]
Disk == <<record, state, evid>>
Custody == <<current, retired>>

-----------------------------------------------------------------------------
(* Keys. *)

\* retire (custody): the replaced master key stays able to open, up to the
\* limit; processes keep what they were started with.
Rotate(k) ==
  /\ k \notin retired \cup {current}
  /\ Cardinality(retired) < MaxRetired
  /\ current' = k
  /\ retired' = retired \cup {current}
  /\ UNCHANGED <<record, state, evid, proc, used, acked, gone, overlapped, starts>>

\* PluginKeys::resolve. Core delivers the subkey with its retired
\* predecessors; RYU_MASTER_KEY gives the same subkey and no predecessor; an
\* older Core, or a client, may give nothing.
Start(p, source) ==
  /\ proc[p].pc = "down"
  /\ starts < MaxStarts
  /\ starts' = starts + 1
  /\ overlapped' = (overlapped \/ \E q \in Procs : proc[q].pc # "down")
  /\ source = "delivered" => p \in Sidecars
  /\ Step(p, [Down EXCEPT
       !.pc = "record",
       !.key = IF source = "none" THEN None ELSE current,
       !.old = IF source = "delivered" THEN retired ELSE {}])
  /\ UNCHANGED <<Custody, Disk, used, acked, gone>>

-----------------------------------------------------------------------------
(* Store::open_with_keys. *)

ReadRecord(p) ==
  /\ proc[p].pc = "record"
  /\ Step(p, [proc[p] EXCEPT !.pc = "read", !.seen = record])
  /\ UNCHANGED <<Custody, Disk, used, acked, gone, overlapped, starts>>

\* Mutant: only the current key is matched against the record.
StoreStateCurrentOnly(p, holdsSealed) ==
  IF proc[p].key # None
  THEN IF proc[p].seen \in {proc[p].key, None} THEN "sealing" ELSE "unhealthy"
  ELSE IF proc[p].seen # None \/ holdsSealed THEN "unhealthy" ELSE "compat"

\* Mutant: without a key only sealed files are looked for, not the record.
StoreStateByFiles(p, holdsSealed) ==
  IF proc[p].key # None
  THEN IF proc[p].seen \in Held(p) \cup {None} THEN "sealing" ELSE "unhealthy"
  ELSE IF holdsSealed THEN "unhealthy" ELSE "compat"

\* PluginKeys::store_state.
StoreState(p, holdsSealed) ==
  IF proc[p].key # None
  THEN IF proc[p].seen \in Held(p) \cup {None} THEN "sealing" ELSE "unhealthy"
  ELSE IF proc[p].seen # None \/ holdsSealed THEN "unhealthy" ELSE "compat"

\* Mutant: sealing starts before the record is written.
ReadStateUnrecorded(p) ==
  /\ proc[p].pc = "read"
  /\ LET sealed == state.form \in Keys
         seal == StoreState(p, sealed \/ AnySealed)
     IN IF sealed /\ seal = "sealing" /\ state.form \notin Held(p)
        THEN Step(p, Down)
        ELSE Step(p, [proc[p] EXCEPT
               !.pc = IF seal = "sealing" /\ proc[p].seen = None /\ sealed
                      THEN "claim" ELSE "settle",
               !.seal = seal,
               !.sealed = sealed,
               !.mem = IF sealed /\ seal # "sealing" THEN {} ELSE state.content])
  /\ UNCHANGED <<Custody, Disk, used, acked, gone, overlapped, starts>>

\* Mutant: a state only a retired key opens counts as empty.
ReadStateForgetsRetired(p) ==
  /\ proc[p].pc = "read"
  /\ LET sealed == state.form \in Keys
         seal == StoreState(p, sealed \/ AnySealed)
     IN Step(p, [proc[p] EXCEPT
               !.pc = IF seal = "sealing" /\ proc[p].seen = None THEN "claim" ELSE "settle",
               !.seal = seal,
               !.sealed = sealed,
               !.mem = IF sealed /\ state.form # proc[p].key THEN {} ELSE state.content])
  /\ UNCHANGED <<Custody, Disk, used, acked, gone, overlapped, starts>>

\* A sealed state that fails to open ends the process; one that no key is
\* usable for is kept and an empty state served.
ReadState(p) ==
  /\ proc[p].pc = "read"
  /\ LET sealed == state.form \in Keys
         seal == StoreState(p, sealed \/ AnySealed)
     IN IF sealed /\ seal = "sealing" /\ state.form \notin Held(p)
        THEN Step(p, Down)
        ELSE Step(p, [proc[p] EXCEPT
               !.pc = IF seal = "sealing" /\ proc[p].seen = None THEN "claim" ELSE "settle",
               !.seal = seal,
               !.sealed = sealed,
               !.mem = IF sealed /\ seal # "sealing" THEN {} ELSE state.content])
  /\ UNCHANGED <<Custody, Disk, used, acked, gone, overlapped, starts>>

\* The record is written before anything is sealed.
WriteRecord(p) ==
  /\ proc[p].pc = "claim"
  /\ record' = proc[p].key
  /\ Step(p, [proc[p] EXCEPT !.pc = "settle"])
  /\ UNCHANGED <<Custody, state, evid, used, acked, gone, overlapped, starts>>

\* Mutant: an unhealthy store is written like one never sealed.
PersistFromUnrefused(p) == IF proc[p].seal = "compat" THEN "check" ELSE "replace"

\* Where persist_state goes first: compat mode checks, an unhealthy store
\* refuses.
PersistFrom(p) ==
  CASE proc[p].seal = "sealing" -> "replace"
    [] proc[p].seal = "compat" -> "check"
    [] proc[p].seal = "unhealthy" -> "up"

\* A plaintext state is rewritten sealed, a missing one is created.
Settle(p) ==
  /\ proc[p].pc = "settle"
  /\ LET exists == state.form # "absent"
         legacy == proc[p].seal = "sealing" /\ ~proc[p].sealed /\ exists
     IN Step(p, [proc[p] EXCEPT !.pc = IF legacy \/ ~exists THEN PersistFrom(p) ELSE "up"])
  /\ UNCHANGED <<Custody, Disk, used, acked, gone, overlapped, starts>>

-----------------------------------------------------------------------------
(* Runs and saves. *)

Serving(p) == proc[p].pc \in {"up", "run", "remove"} \/ proc[p].saving # None

\* A client goes to the sidecar while one answers, and stops on an unhealthy
\* store; otherwise it runs on its own store.
BeginRun(p) ==
  /\ proc[p].pc = "up"
  /\ p \in Clients => /\ \A s \in Sidecars : ~Serving(s)
                      /\ proc[p].seal # "unhealthy"
  /\ Step(p, [proc[p] EXCEPT !.pc = "run"])
  /\ UNCHANGED <<Custody, Disk, used, acked, gone, overlapped, starts>>

\* write_private: sealed or plaintext by how the store opened.
WriteEvidence(p, e) ==
  /\ proc[p].pc = "run"
  /\ proc[p].seal # "unhealthy"
  /\ evid[e] = "absent"
  /\ e \notin gone
  /\ evid' = [evid EXCEPT ![e] = IF proc[p].seal = "sealing" THEN proc[p].key ELSE "plain"]
  /\ UNCHANGED <<Custody, record, state, proc, used, acked, gone, overlapped, starts>>

\* The update is in memory before it is persisted, and stays if that fails.
Save(p, u) ==
  /\ proc[p].pc = "run"
  /\ u \in Updates \ used
  /\ used' = used \cup {u}
  /\ Step(p, [proc[p] EXCEPT !.pc = PersistFrom(p), !.mem = proc[p].mem \cup {u},
       !.saving = IF PersistFrom(p) = "up" THEN None ELSE u])
  /\ UNCHANGED <<Custody, Disk, acked, gone, overlapped, starts>>

\* sealed_since_open: refused while opening, the process ends; refused in a
\* save, the request fails.
SealedSinceOpen == record # None \/ state.form \in Keys

Check(p) ==
  /\ proc[p].pc = "check"
  /\ Step(p, IF ~SealedSinceOpen
             THEN [proc[p] EXCEPT !.pc = "replace"]
             ELSE IF proc[p].saving = None
                  THEN Down
                  ELSE [proc[p] EXCEPT !.pc = "up", !.saving = None])
  /\ UNCHANGED <<Custody, Disk, used, acked, gone, overlapped, starts>>

\* write_private_file: temp file, then rename.
Replace(p) ==
  /\ proc[p].pc = "replace"
  /\ state' = [form |-> IF proc[p].seal = "sealing" THEN proc[p].key ELSE "plain",
               content |-> proc[p].mem]
  /\ acked' = acked \cup ({proc[p].saving} \ {None})
  /\ Step(p, [proc[p] EXCEPT !.pc = IF proc[p].saving = None THEN "up" ELSE "remove",
                            !.saving = None])
  /\ UNCHANGED <<Custody, record, evid, used, gone, overlapped, starts>>

\* A save whose state is on disk removes evidence (pruned, deleted or swept).
RemoveEvidence(p, E) ==
  /\ proc[p].pc = "remove"
  /\ evid' = [e \in Evid |-> IF e \in E THEN "absent" ELSE evid[e]]
  /\ gone' = gone \cup E
  /\ Step(p, [proc[p] EXCEPT !.pc = "up"])
  /\ UNCHANGED <<Custody, record, state, used, acked, overlapped, starts>>

-----------------------------------------------------------------------------
(* seal_legacy_files, on the sidecar's background thread. *)

SealCopy(p, e) ==
  /\ p \in Sidecars
  /\ Serving(p)
  /\ proc[p].seal = "sealing"
  /\ proc[p].copy = None
  /\ evid[e] = "plain"
  /\ Step(p, [proc[p] EXCEPT !.copy = e])
  /\ UNCHANGED <<Custody, Disk, used, acked, gone, overlapped, starts>>

\* The verified copy is renamed over the original's name.
SealReplace(p) ==
  /\ proc[p].copy # None
  /\ evid' = [evid EXCEPT ![proc[p].copy] = proc[p].key]
  /\ Step(p, [proc[p] EXCEPT !.copy = None])
  /\ UNCHANGED <<Custody, record, state, used, acked, gone, overlapped, starts>>

Kill(p) ==
  /\ proc[p].pc # "down"
  /\ Step(p, Down)
  /\ UNCHANGED <<Custody, Disk, used, acked, gone, overlapped, starts>>

Next ==
  \/ \E k \in Keys : Rotate(k)
  \/ \E p \in Procs :
       \/ \E source \in {"delivered", "master", "none"} : Start(p, source)
       \/ ReadRecord(p) \/ ReadState(p) \/ WriteRecord(p) \/ Settle(p)
       \/ BeginRun(p)
       \/ \E e \in Evid : WriteEvidence(p, e) \/ SealCopy(p, e)
       \/ \E E \in SUBSET {e \in Evid : evid[e] # "absent"} : RemoveEvidence(p, E)
       \/ \E u \in Updates : Save(p, u)
       \/ Check(p) \/ Replace(p)
       \/ SealReplace(p)
       \/ Kill(p)

Spec == Init /\ [][Next]_vars

-----------------------------------------------------------------------------
(* Properties. *)

Process ==
  [pc: {"down", "record", "read", "claim", "settle", "up", "run", "check", "replace",
       "remove"},
   key: Keys \cup {None}, old: SUBSET Keys, seen: Keys \cup {None}, sealed: BOOLEAN,
   seal: {"sealing", "compat", "unhealthy"}, mem: SUBSET Updates,
   saving: Updates \cup {None}, copy: Evid \cup {None}]

\* The shape of custody, the directory and the processes.
TypeOK ==
  /\ current \in Keys /\ retired \subseteq Keys \ {current}
  /\ record \in Keys \cup {None}
  /\ state \in [form: Forms, content: SUBSET Updates]
  /\ evid \in [Evid -> Forms]
  /\ proc \in [Procs -> Process]
  /\ used \subseteq Updates /\ acked \subseteq used
  /\ gone \subseteq Evid /\ overlapped \in BOOLEAN
  /\ starts \in 0..MaxStarts

\* The directory never holds sealed data without the record: a process with no
\* key tells a sealed store by it even when it finds no sealed file, across
\* kills part way through a first open and a concurrent second process.
RecordedBeforeSealed == state.form \in Keys \/ AnySealed => record # None

\* A process that opened the directory, with no key, before anything was sealed
\* in it, and so takes it for one that is never sealed.
OpenedUnsealed(p) == proc[p].seal = "compat" /\ proc[p].seen = None

\* "Never write plaintext over it": a state sealed under a key is replaced only
\* by a process that can open it. Neither a mismatch, a missing key nor an
\* older Core overwrites what it cannot read; the exception is a process that
\* opened the directory before another sealed it under a key it was not given,
\* and, if it has no key at all, was past its check by then.
UnreadableKept ==
  [][state.form \in Keys /\ state' # state =>
       \E p \in Procs :
         /\ proc[p].pc = "replace"
         /\ \/ state.form \in Held(p)
            \/ overlapped /\ (proc[p].seal = "sealing" \/ OpenedUnsealed(p))]_vars

\* A save that returned Ok stays in checks.json across kills, key replacements
\* and starts with, without and with only the current key, while processes
\* follow one another (SharedStore has those that do not).
AckedSavesSurvive == overlapped \/ acked \subseteq state.content

\* Once the store records a sealing key, plaintext evidence is added to it only
\* by a process that opened it before: each later one recognises it, with a
\* key or without.
LatePlaintextIsOpenedBefore ==
  [][record # None =>
       \A e \in Evid : evid[e] = "absent" /\ evid'[e] = "plain" =>
         \E p \in Procs : proc[p].pc = "run" /\ OpenedUnsealed(p) /\ overlapped]_vars

\* Data sealed before a key replacement "stays readable": a process Core gives
\* the retired keys is not refused, however many replacements lie between the
\* recorded key, the key of the state and its own. A process that got its key
\* without its predecessors may be, and so may one whose directory a process
\* with a newer key recorded while it was opening it.
DeliveredKeysServe ==
  \A p \in Procs :
    proc[p].pc # "down" /\ proc[p].seal = "unhealthy" /\ proc[p].key # None =>
      proc[p].old = {} \/ overlapped
=============================================================================
