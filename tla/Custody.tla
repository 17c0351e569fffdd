-------------------------------- MODULE Custody --------------------------------
(***************************************************************************)
(* The custody of the master key of one data folder (crypto's custody.rs   *)
(* and the ladder of lib.rs): the keychain slot, the key file, the legacy  *)
(* memory key, the recorded key check value and the retired keys; the      *)
(* resolution of a starting process; and the commands that adopt, import   *)
(* and retire keys. A key stands for its key check value.                  *)
(*                                                                         *)
(* Processes that start may overlap, in one another's every step, and any  *)
(* of them may be killed between two writes. The commands run with the     *)
(* other processes stopped, as they ask for.                               *)
(***************************************************************************)
EXTENDS Naturals, FiniteSets, SequencesExt

CONSTANTS
  Keys,       \* master keys
  None,       \* no key
  Procs,      \* processes
  Setups,     \* [records, allowFile, keychain]: what hosts want and how they find
              \* the keychain ("on", "readonly" or "away")
  Full,       \* MAX_RETIRED_KEYS
  MaxOps      \* bound: starts and commands

Finds == {"on", "readonly", "away"}
Commands == {"install", "carry", "retire"}

\* A key is 32 bytes: there are many, but not infinitely many.
ASSUME CustodyAssumption ==
  /\ IsFiniteSet(Keys)
  /\ None \notin Keys \cup Commands \cup {"start"}
  /\ Setups \subseteq [records: BOOLEAN, allowFile: BOOLEAN, keychain: Finds]
  /\ Full \in Nat /\ MaxOps \in Nat

VARIABLES
  chain,   \* the keychain slot
  file,    \* secrets/master.key
  legacy,  \* secrets/memory.key
  record,  \* state/master-key.kcv
  index,   \* state/retired-keys.json: per key the custody of its copy
  copies,  \* per custody, the retired keys it holds
  sealed,  \* the keys data is sealed under
  known,   \* every key seen so far: a fresh one is none of them
  overwritten,  \* keys of the keychain slot that a starting process replaced
  proc,    \* per process, what it is doing
  ops

vars == <<chain, file, legacy, record, index, copies, sealed, known, overwritten, proc, ops>>
Slots == <<chain, file, legacy>>
Vault == <<index, copies>>

Custodies == {"keychain", "file"}
Down ==
  [pc |-> "down", op |-> None, host |-> None, env |-> None, seen |-> None,
   key |-> None, source |-> None, todo |-> <<>>, index |-> <<>>, opens |-> {}]

\* A new folder, or one an older version left: its memory key, perhaps beside
\* the one it kept in the keychain, with data under either.
Init ==
  /\ legacy \in Keys \cup {None}
  /\ chain \in IF legacy = None THEN {None} ELSE Keys \cup {None}
  /\ sealed \in IF legacy = None THEN {{}} ELSE SUBSET ({legacy, chain} \ {None}) \ {{}}
  /\ known = {legacy, chain} \ {None}
  /\ file = None
  /\ record = None
  /\ index = [k \in {} |-> "file"]
  /\ copies = [c \in Custodies |-> {}]
  /\ overwritten = {}
  /\ proc = [p \in Procs |-> Down]
  /\ ops = 0

-----------------------------------------------------------------------------
(* What a process sees. *)

Reads(keychain) == keychain \in {"on", "readonly"}

\* RetiredVault::load: the copy of a retired key is there, and reachable.
Loads(k, keychain) == k \in copies[index[k]] /\ (index[k] = "file" \/ Reads(keychain))
Loadable(keychain) == {k \in DOMAIN index : Loads(k, keychain)}

\* The candidates outside the vault, and the first place candidates() has one from.
Live(env, keychain) ==
  ({env, file, legacy} \cup (IF Reads(keychain) THEN {chain} ELSE {})) \ {None}
FirstSlot(k, env, keychain) ==
  CASE k = env -> "env"
    [] k # env /\ Reads(keychain) /\ k = chain -> "keychain"
    [] k # env /\ ~(Reads(keychain) /\ k = chain) -> IF k = file THEN "file" ELSE "legacy"
Candidates(env, keychain) == Live(env, keychain) \cup Loadable(keychain)

\* probe_master_key tries a sample of the sealed data: Core's.
Passes(k) == k \in sealed
MayFail(k) == sealed \ {k} # {}

Go(p, pc) == proc' = [proc EXCEPT ![p].pc = pc]

\* global_cipher: it seals under one key and opens with the retired ones too.
Serve(p, k, opens) ==
  proc' = [proc EXCEPT ![p] =
    [Down EXCEPT !.pc = "up", !.key = k, !.opens = opens, !.source = proc[p].source]]
Running(p) == proc[p].pc # "down"

-----------------------------------------------------------------------------
(* Resolution: the ladder. *)

\* read_kcv_record. The operator may set RYU_MASTER_KEY, to an unknown key too.
Start(p, host, env) ==
  /\ ~Running(p)
  /\ \A q \in Procs : proc[q].op \in {None, "start"}
  /\ ops < MaxOps
  /\ ops' = ops + 1
  /\ known' = known \cup ({env} \ {None})
  /\ proc' = [proc EXCEPT ![p] = [Down EXCEPT
       !.pc = "ladder", !.op = "start", !.host = host, !.env = env,
       !.seen = record]]
  /\ UNCHANGED <<Slots, record, Vault, sealed, overwritten>>

Found(p, source, k) == proc' = [proc EXCEPT ![p].pc = "compare", ![p].source = source, ![p].key = k]

\* retire_matching_legacy_key.
RetireLegacy(k) == legacy' = IF legacy = k THEN None ELSE legacy

LadderEnv(p) ==
  /\ proc[p].pc = "ladder"
  /\ proc[p].env # None
  /\ Found(p, "env", proc[p].env)
  /\ UNCHANGED <<Slots, record, Vault, sealed, known, overwritten, ops>>

LadderKeychain(p) ==
  /\ proc[p].pc = "ladder"
  /\ proc[p].env = None
  /\ Reads(proc[p].host.keychain)
  /\ chain # None
  /\ RetireLegacy(chain)
  /\ Found(p, "keychain", chain)
  /\ UNCHANGED <<chain, file, record, Vault, sealed, known, overwritten, ops>>

\* What speaks against generating a key, and the GenerationGuard that asks.
Evidence(p) ==
  proc[p].seen # None \/ DOMAIN index # {} \/ (proc[p].host.records /\ sealed # {})
MayGenerate(p) == ~Evidence(p)

\* A key this folder already uses, before a fresh one.
LadderChoose(p, k) ==
  LET h == proc[p].host
      empty == Reads(proc[p].host.keychain)
      existing == IF file # None /\ h.allowFile THEN file ELSE legacy
  IN /\ proc[p].pc = "ladder"
     /\ proc[p].env = None
     /\ empty => chain = None
     /\ empty \/ h.allowFile
     /\ IF existing # None THEN k = existing ELSE k \in Keys \ known /\ MayGenerate(p)
     /\ known' = known \cup {k}
     /\ proc' = [proc EXCEPT ![p].pc = IF proc[p].host.keychain = "on" THEN "store" ELSE "publish",
                             ![p].key = k]
     /\ UNCHANGED <<Slots, record, Vault, sealed, overwritten, ops>>

\* The ladder failed: a candidate that matches the record still serves.
Refuse(p) ==
  LET me == proc[p]
  IN IF me.seen # None /\ me.seen \in Candidates(None, me.host.keychain)
     THEN Serve(p, me.seen, Loadable(me.host.keychain) \ {me.seen})
     ELSE proc' = [proc EXCEPT ![p] = Down]

\* No key file wanted, or no key to use and none may be generated.
LadderRefuses(p) ==
  LET me == proc[p]
      empty == Reads(me.host.keychain)
      existing == IF file # None /\ me.host.allowFile THEN file ELSE legacy
  IN /\ me.pc = "ladder"
     /\ me.env = None
     /\ empty => chain = None
     /\ (~empty /\ ~me.host.allowFile) \/ (existing = None /\ ~MayGenerate(p))
     /\ Refuse(p)
     /\ UNCHANGED <<Slots, record, Vault, sealed, known, overwritten, ops>>

Store(p) ==
  /\ proc[p].pc = "store"
  /\ chain' = proc[p].key
  /\ overwritten' = overwritten \cup ({chain} \ {None, proc[p].key})
  /\ Go(p, "verify")
  /\ UNCHANGED <<file, legacy, record, Vault, sealed, known, ops>>

\* The keychain is read back; what another process stored meanwhile is an error.
Verify(p) ==
  /\ proc[p].pc = "verify"
  /\ IF chain = proc[p].key
     THEN RetireLegacy(chain) /\ Found(p, "keychain", chain)
     ELSE Refuse(p) /\ UNCHANGED legacy
  /\ UNCHANGED <<chain, file, record, Vault, sealed, known, overwritten, ops>>

\* Mutant: the last writer wins.
PublishOver(p) ==
  /\ proc[p].pc = "publish"
  /\ IF proc[p].host.allowFile
     THEN file' = proc[p].key /\ Found(p, "file", file')
     ELSE Refuse(p) /\ UNCHANGED file
  /\ UNCHANGED <<chain, legacy, record, Vault, sealed, known, overwritten, ops>>

\* write_key_file: the first writer wins.
Publish(p) ==
  /\ proc[p].pc = "publish"
  /\ IF proc[p].host.allowFile
     THEN file' = (IF file = None THEN proc[p].key ELSE file) /\ Found(p, "file", file')
     ELSE Refuse(p) /\ UNCHANGED file
  /\ UNCHANGED <<chain, legacy, record, Vault, sealed, known, overwritten, ops>>

-----------------------------------------------------------------------------
(* Resolution: the checks against the record, or against the sealed data. *)

Opens(p, k) == Loadable(proc[p].host.keychain) \ {k}

CompareMatches(p) ==
  /\ proc[p].pc = "compare"
  /\ proc[p].seen = proc[p].key \/ (proc[p].seen = None /\ ~proc[p].host.records)
  /\ Serve(p, proc[p].key, Opens(p, proc[p].key))
  /\ UNCHANGED <<Slots, record, Vault, sealed, known, overwritten, ops>>

\* Another candidate serves, and the mismatched key still opens; it is retired
\* first, unless it is env's, and recorded if there was no record.
Recovered(p, k) ==
  LET me == proc[p]
      opens == Opens(p, k) \cup {me.key}
  IN IF me.source = "env" /\ me.seen # None
     THEN Serve(p, k, opens)
     ELSE proc' = [proc EXCEPT
            ![p].pc = IF me.source = "env" THEN "record" ELSE "copy",
            ![p].key = k,
            ![p].todo = IF me.source = "env" THEN <<>> ELSE <<me.key>>,
            ![p].opens = opens]

CompareMismatch(p) ==
  LET me == proc[p]
  IN /\ me.pc = "compare"
     /\ me.seen \notin {None, me.key}
     /\ IF /\ me.source = "env" => me.key \in Loadable(me.host.keychain)
           /\ me.seen \in Candidates(me.env, me.host.keychain)
        THEN Recovered(p, me.seen)
        ELSE proc' = [proc EXCEPT ![p] = Down]
     /\ UNCHANGED <<Slots, record, Vault, sealed, known, overwritten, ops>>

ProbePasses(p) ==
  LET me == proc[p]
  IN /\ me.pc = "compare"
     /\ me.seen = None /\ me.host.records
     /\ sealed = {} \/ Passes(me.key)
     /\ proc' = [proc EXCEPT ![p].pc = "record", ![p].opens = Opens(p, me.key)]
     /\ UNCHANGED <<Slots, record, Vault, sealed, known, overwritten, ops>>

ProbeFails(p) ==
  LET me == proc[p]
      others == {k \in Candidates(me.env, me.host.keychain) \ {me.key} : Passes(k)}
  IN /\ me.pc = "compare"
     /\ me.seen = None /\ me.host.records
     /\ MayFail(me.key)
     /\ \/ \E k \in others : Recovered(p, k)
        \/ ~(sealed \ {me.key} \subseteq others) /\ proc' = [proc EXCEPT ![p] = Down]
     /\ UNCHANGED <<Slots, record, Vault, sealed, known, overwritten, ops>>

-----------------------------------------------------------------------------
(* RetiredVault::retire, for each key of todo; then what the caller does. *)

RetireNext(p) ==
  LET me == proc[p]
      rest == Tail(me.todo)
      After(pc) == proc' = [proc EXCEPT ![p].todo = rest, ![p].index = <<>>, ![p].pc = pc]
  IN CASE rest # <<>> -> After("copy")
       [] rest = <<>> /\ me.op = "start" /\ me.seen = None -> After("record")
       [] rest = <<>> /\ me.op = "start" /\ me.seen # None -> Serve(p, me.key, me.opens)
       [] rest = <<>> /\ me.op = "install" -> After("install")
       [] rest = <<>> /\ me.op = "retire" -> After("remove")
       [] rest = <<>> /\ me.op = "carry" -> proc' = [proc EXCEPT ![p] = Down]

\* Idempotent by key check value.
AlreadyRetired(p) ==
  /\ proc[p].pc = "copy"
  /\ Head(proc[p].todo) \in DOMAIN index
  /\ RetireNext(p)
  /\ UNCHANGED <<Slots, record, Vault, sealed, known, overwritten, ops>>

\* A full vault fails a command; a start only logs it.
VaultFull(p) ==
  /\ proc[p].pc = "copy"
  /\ Head(proc[p].todo) \notin DOMAIN index
  /\ Cardinality(DOMAIN index) >= Full
  /\ IF proc[p].op = "start" THEN RetireNext(p) ELSE proc' = [proc EXCEPT ![p] = Down]
  /\ UNCHANGED <<Slots, record, Vault, sealed, known, overwritten, ops>>

\* In the keychain when it can be written, else in a file.
CopyCustody(p) == IF proc[p].host.keychain = "on" THEN "keychain" ELSE "file"

\* Mutant: the limit is not checked for a key that is not from a command.
RetireCopyUnlimited(p) ==
  LET k == Head(proc[p].todo)
  IN /\ proc[p].pc = "copy"
     /\ k \notin DOMAIN index
     /\ copies' = [copies EXCEPT ![CopyCustody(p)] = @ \cup {k}]
     /\ proc' = [proc EXCEPT ![p].pc = "index", ![p].index = index]
     /\ UNCHANGED <<Slots, record, index, sealed, known, overwritten, ops>>

\* The copy first, once the index is read and has room.
RetireCopy(p) ==
  LET k == Head(proc[p].todo)
  IN /\ proc[p].pc = "copy"
     /\ k \notin DOMAIN index
     /\ Cardinality(DOMAIN index) < Full
     /\ copies' = [copies EXCEPT ![CopyCustody(p)] = @ \cup {k}]
     /\ proc' = [proc EXCEPT ![p].pc = "index", ![p].index = index]
     /\ UNCHANGED <<Slots, record, index, sealed, known, overwritten, ops>>

\* Mutant: the index is begun anew.
IndexOnly(read, k, custody) == [j \in {k} |-> custody]

IndexWith(read, k, custody) == [j \in DOMAIN read \cup {k} |-> IF j = k THEN custody ELSE read[j]]

\* write_retired_index, of the index as it was read before the copy.
RetireIndex(p) ==
  /\ proc[p].pc = "index"
  /\ index' = IndexWith(proc[p].index, Head(proc[p].todo), CopyCustody(p))
  /\ RetireNext(p)
  /\ UNCHANGED <<Slots, record, copies, sealed, known, overwritten, ops>>

WriteRecord(p) ==
  /\ proc[p].pc = "record"
  /\ record' = proc[p].key
  /\ IF proc[p].op = "start"
     THEN Serve(p, proc[p].key, proc[p].opens)
     ELSE proc' = [proc EXCEPT ![p] = Down]
  /\ UNCHANGED <<Slots, Vault, sealed, known, overwritten, ops>>

-----------------------------------------------------------------------------
(* keys adopt, keys retire and the import of a bundle. *)

Command(host, env) ==
  /\ \A q \in Procs : ~Running(q)
  /\ host.records
  /\ ops < MaxOps
  /\ ops' = ops + 1
  /\ known' = known \cup ({env} \ {None})
  /\ UNCHANGED <<Slots, record, Vault, sealed, overwritten>>

\* persistent_key: the keychain's, else the file's.
PersistentKeys(keychain) ==
  IF Reads(keychain) /\ chain # None THEN {chain} ELSE {file} \ {None}

\* Mutant: the recorded key is not retired when it is elsewhere.
PreviousKeysPersistentOnly(env, keychain) == PersistentKeys(keychain)

\* Mutant: the recorded key is not looked for in the legacy slot.
PreviousKeysNotLegacy(env, keychain) ==
  PersistentKeys(keychain) \cup ({record} \cap ({env, file, chain} \ {None}))

\* And the recorded key, where persistent_key does not look.
PreviousKeys(env, keychain) ==
  PersistentKeys(keychain) \cup ({record} \cap Live(env, keychain))

\* install_current, from its check of the room in the vault.
Install(p, host, k, previous, extra) ==
  LET retiring == (previous \cup extra) \ {k}
  IN /\ Cardinality(DOMAIN index \cup retiring) <= Full
     /\ \E todo \in SetToSeqs(retiring) :
          proc' = [proc EXCEPT ![p] = [Down EXCEPT
            !.pc = IF todo = <<>> THEN "install" ELSE "copy", !.op = "install",
            !.host = host, !.key = k, !.todo = todo]]

\* AdoptFrom: env, the keychain, the file or the vault, not the legacy slot.
Adoptable(env, keychain) ==
  ({env, file} \cup (IF Reads(keychain) THEN {chain} ELSE {}) \cup Loadable(keychain)) \ {None}

\* With accept_unreadable, whatever the probe says.
Adopt(p, host, env, k) ==
  /\ Command(host, env)
  /\ k \in Adoptable(env, host.keychain)
  /\ Install(p, host, k, PreviousKeys(env, host.keychain), {})

\* A KeyBundle carries the current key of another folder and its retired keys.
Bundles == {b \in [current: Keys, retired: SUBSET Keys] : b.current \notin b.retired}

Import(p, host, env, bundle) ==
  LET k == bundle.current
  IN /\ Command(host, env)
     /\ env # None => env \in {k} \cup bundle.retired
     /\ IF record = k /\ k \in {env, file} \cup (IF Reads(host.keychain) THEN {chain} ELSE {})
        THEN \E todo \in SetToSeqs(bundle.retired) :
               proc' = [proc EXCEPT ![p] = IF todo = <<>> THEN Down ELSE [Down EXCEPT
                 !.pc = "copy", !.op = "carry", !.host = host, !.key = k, !.todo = todo]]
        ELSE Install(p, host, k, PreviousKeys(env, host.keychain), bundle.retired)

Retire(p, host, env, k) ==
  LET slot == FirstSlot(k, env, host.keychain)
  IN /\ Command(host, env)
     /\ k \in Live(env, host.keychain) \ {record}
     /\ slot # "keychain"
     /\ proc' = [proc EXCEPT ![p] = [Down EXCEPT
          !.pc = "copy", !.op = "retire", !.host = host, !.key = k,
          !.source = slot, !.todo = <<k>>]]

\* install_current: the new key is stored, in the keychain if that can be written.
InstallKey(p) ==
  /\ proc[p].pc = "install"
  /\ \/ /\ proc[p].host.keychain = "on"
        /\ chain' = proc[p].key
        /\ Go(p, "record")
        /\ UNCHANGED file
     \/ /\ proc[p].host.keychain # "on"
        /\ IF proc[p].host.allowFile
           THEN file' = proc[p].key /\ Go(p, "record")
           ELSE proc' = [proc EXCEPT ![p] = Down] /\ UNCHANGED file
        /\ UNCHANGED chain
  /\ UNCHANGED <<legacy, record, Vault, sealed, known, overwritten, ops>>

\* retire_with: the slot is emptied once the vault gives the key back.
RemoveRetired(p) ==
  LET k == proc[p].key
      loads == k \in Loadable(proc[p].host.keychain)
  IN /\ proc[p].pc = "remove"
     /\ file' = IF loads /\ proc[p].source = "file" THEN None ELSE file
     /\ legacy' = IF loads /\ proc[p].source = "legacy" THEN None ELSE legacy
     /\ proc' = [proc EXCEPT ![p] = Down]
     /\ UNCHANGED <<chain, record, Vault, sealed, known, overwritten, ops>>

-----------------------------------------------------------------------------

Seal(p) ==
  /\ proc[p].pc = "up"
  /\ sealed' = sealed \cup {proc[p].key}
  /\ UNCHANGED <<Slots, record, Vault, known, overwritten, proc, ops>>

Stop(p) ==
  /\ Running(p)
  /\ proc' = [proc EXCEPT ![p] = Down]
  /\ UNCHANGED <<Slots, record, Vault, sealed, known, overwritten, ops>>

Next ==
  \E p \in Procs :
    \/ \E host \in Setups, env \in Keys \cup {None} :
         \/ Start(p, host, env)
         \/ \E k \in Keys : Adopt(p, host, env, k) \/ Retire(p, host, env, k)
         \/ \E bundle \in Bundles : Import(p, host, env, bundle)
    \/ LadderEnv(p) \/ LadderKeychain(p) \/ LadderRefuses(p)
    \/ \E k \in Keys : LadderChoose(p, k)
    \/ Store(p) \/ Verify(p) \/ Publish(p)
    \/ CompareMatches(p) \/ CompareMismatch(p) \/ ProbePasses(p) \/ ProbeFails(p)
    \/ AlreadyRetired(p) \/ VaultFull(p) \/ RetireCopy(p) \/ RetireIndex(p)
    \/ WriteRecord(p) \/ InstallKey(p) \/ RemoveRetired(p)
    \/ Seal(p) \/ Stop(p)

Spec == Init /\ [][Next]_vars

-----------------------------------------------------------------------------
(* Properties. *)

\* The shape of the folder and of what each process is doing; the vault stays
\* within MAX_RETIRED_KEYS.
TypeOK ==
  /\ {chain, file, legacy, record} \subseteq Keys \cup {None}
  /\ DOMAIN index \subseteq Keys /\ index \in [DOMAIN index -> Custodies]
  /\ Cardinality(DOMAIN index) <= Full
  /\ copies \in [Custodies -> SUBSET Keys]
  /\ sealed \cup known \cup overwritten \subseteq Keys
  /\ \A p \in Procs :
       /\ proc[p].op \in {None, "start", "install", "carry", "retire"}
       /\ proc[p].host \in Setups \cup {None}
       /\ {proc[p].env, proc[p].seen, proc[p].key} \cup proc[p].opens \subseteq Keys \cup {None}
       /\ proc[p].todo \in Seq(Keys)
       /\ proc[p].pc \in {"copy", "index"} => proc[p].todo # <<>>
  /\ ops \in 0..MaxOps

Kept == Candidates(None, "on")

\* A key file the ladder passes over for the keychain, and no record names.
Shadowed == IF chain # None THEN {file} \ {record, None} ELSE {}

\* Custody loses no key that sealed data: whatever starts, commands and kills do,
\* it stays a candidate of recovery, unless two starting processes met in the
\* keychain, or a command could not write the keychain and replaced a shadowed file.
KeptStaysKept == [][\A k \in sealed \cap Kept : k \in Kept' \cup overwritten' \cup Shadowed]_vars

\* "No process ever seals data under a key that is not on disk", nor in the
\* keychain: what it serves with is in custody, but for an override of the operator.
ServingKeyIsKept ==
  /\ TypeOK
  /\ \A p \in Procs :
       proc[p].pc = "up" /\ proc[p].source # "env" => proc[p].key \in Kept \cup overwritten

\* What a start opens under the record, if it finds the keychain like this.
Opened(keychain) == ({record} \cap Candidates(None, keychain)) \cup Loadable(keychain)

\* A start that began before there was a record writes its own.
LateRecord == record # None /\ \E p \in Procs : proc[p].op = "start" /\ proc[p].pc = "record"

\* The step is one of a process, of these operations, that finds it like this.
StepOf(kinds, keychain) ==
  \E p \in Procs :
    proc[p].op \in kinds /\ proc[p].host.keychain = keychain /\ proc'[p] # proc[p]

\* What another process entered since the index was read that is written back.
Superseded ==
  {k \in DOMAIN index :
     \E p \in Procs :
       /\ proc[p].pc = "index" /\ proc'[p] # proc[p]
       /\ k \in DOMAIN proc[p].index => proc[p].index[k] # index[k]}

\* Once a key is recorded, no step of a start or a command, and no kill after it,
\* leaves data unreadable that a process finding the keychain the same way could
\* open before: the previous key is retired, or recorded, at every moment. But for
\* two starts that retire keys at once: no lock keeps them from one another's index.
OpenedStaysOpened ==
  [][\A m \in Finds :
       StepOf({"start", "install", "carry", "retire"}, m) /\ ~LateRecord =>
         LET unreachable == IF m = "away" THEN {k \in DOMAIN index : index[k] = "keychain"} ELSE {}
         IN sealed \cap Opened(m) \subseteq
              Opened(m)' \cup overwritten' \cup unreachable \cup Superseded]_vars
=============================================================================
