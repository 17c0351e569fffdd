--------------------------- MODULE Custody_proofs ---------------------------
(***************************************************************************)
(* Proofs about the custody of the master key (Custody): no key that       *)
(* sealed data drops out of it, a process seals only with a key that is in *)
(* it, and what a start could open it can open after every step. For any   *)
(* keys, processes, hosts, size of the vault and number of commands.       *)
(***************************************************************************)
EXTENDS Custody, FiniteSetTheorems, TLAPS

-----------------------------------------------------------------------------
(* The inductive invariant. *)

Ladder == {"ladder", "store", "verify", "publish", "compare"}
Points == Ladder \cup {"down", "up", "copy", "index", "record", "install", "remove"}

KeyOrNone == Keys \cup {None}
Indexes == UNION {[D -> Custodies] : D \in SUBSET Keys}

Process ==
  [pc: Points, op: {None, "start"} \cup Commands, host: Setups \cup {None},
   env: KeyOrNone, seen: KeyOrNone, key: KeyOrNone,
   source: {None, "env", "keychain", "file", "legacy"},
   todo: Seq(Keys), index: Indexes, opens: SUBSET KeyOrNone]

Shape ==
  /\ {chain, file, legacy, record} \subseteq KeyOrNone
  /\ index \in Indexes /\ Cardinality(DOMAIN index) <= Full
  /\ copies \in [Custodies -> SUBSET Keys]
  /\ sealed \cup known \cup overwritten \subseteq Keys
  /\ proc \in [Procs -> Process]
  /\ ops \in 0..MaxOps

\* What a process carries at each of its steps.
StepOK(me) ==
  /\ me.op = None <=> me.pc \in {"down", "up"}
  /\ me.op # None => me.host \in Setups
  /\ me.pc \in Ladder => me.op = "start"
  /\ me.pc = "install" => me.op = "install"
  /\ me.pc = "remove" => me.op = "retire"
  /\ me.pc = "record" => me.op \in {"start", "install"}
  /\ me.pc \notin {"down", "ladder"} => me.key \in Keys
  /\ me.pc \in {"store", "verify"} => me.host.keychain = "on"
  /\ me.pc \in {"store", "verify", "publish"} => me.env = None
  /\ me.pc = "compare" /\ me.source # "env" => me.env = None
  /\ me.pc \in {"copy", "index"} => me.todo # <<>>
  /\ me.pc = "index" => Cardinality(DOMAIN me.index) < Full
  /\ me.pc \in {"copy", "index"} /\ me.op = "start" => me.source # "env" /\ Tail(me.todo) = <<>>
  /\ me.pc \in {"install", "record"} /\ me.op = "install" => me.todo = <<>>

\* The keys of the slots, those included that a start replaced in the keychain.
InSlots == ({chain, file, legacy} \ {None}) \cup overwritten
Safe == InSlots \cup DOMAIN index

\* What a starting process decided is still so: starts take nothing from the slots,
\* and differ on the index only in keys that are in the slots too.
StartOK(me) ==
  /\ me.pc = "compare" /\ me.source # "env" => me.key \in InSlots
  /\ me.pc \in {"copy", "index"} /\ me.op = "start" => Head(me.todo) \in InSlots /\ me.key \in Safe
  /\ me.pc = "up" /\ me.source # "env" => me.key \in Safe
  /\ me.pc = "record" /\ me.op = "start" /\ me.source # "env" => me.key \in Safe
  /\ me.pc = "index" /\ me.op = "start" =>
       DOMAIN index \ InSlots \subseteq DOMAIN me.index /\ DOMAIN me.index \subseteq Safe

\* The keys a command must not lose are retired, or on its list.
CommandOK(me) ==
  /\ me.op = "install" =>
       (PersistentKeys(me.host.keychain) \cup ({record} \cap Live(None, me.host.keychain))) \ {me.key}
         \subseteq DOMAIN index \cup ToSet(me.todo)
  /\ me.op \in Commands /\ me.pc = "index" => me.index = index
  /\ me.op = "retire" =>
       /\ me.key # record
       /\ me.source = "file" => file = me.key
       /\ me.source = "legacy" => legacy = me.key

\* What the index of a process or of the folder names has been copied.
HasCopies(ix) == \A k \in DOMAIN ix : k \in copies[ix[k]]

CopiesOK(me) ==
  me.pc = "index" =>
    /\ HasCopies(me.index)
    /\ Head(me.todo) \in copies[IF me.host.keychain = "on" THEN "keychain" ELSE "file"]

\* A command runs with the other processes stopped.
Alone == \A p, q \in Procs : p # q /\ proc[p].op \in Commands => proc[q].pc = "down"

CustodyInv ==
  /\ Shape
  /\ Alone
  /\ HasCopies(index)
  /\ \A p \in Procs : StepOK(proc[p]) /\ StartOK(proc[p]) /\ CommandOK(proc[p]) /\ CopiesOK(proc[p])

-----------------------------------------------------------------------------
(* Types. *)

\* What a process may be after a step of p.
Moves(p) ==
  /\ proc' \in [Procs -> Process]
  /\ \A q \in Procs \ {p} : proc'[q] = proc[q]
  /\ StepOK(proc'[p])

LEMMA MovesTo ==
  ASSUME Shape, NEW p \in Procs, NEW new \in Process, StepOK(new),
         proc' = [proc EXCEPT ![p] = new]
  PROVE  Moves(p) /\ proc'[p] = new
BY DEF Shape, Moves

LEMMA DownOK == Down \in Process /\ StepOK(Down)
<1>1. <<>> \in Indexes
  <2>1. <<>> \in [{} -> Custodies]
    OBVIOUS
  <2> QED
    BY <2>1 DEF Indexes
<1>2. <<>> \in Seq(Keys)
  OBVIOUS
<1>3. Down \in Process
  BY <1>1, <1>2 DEF Down, Process, Points, KeyOrNone
<1>4. Down.pc = "down" /\ Down.op = None
  BY DEF Down
<1>5. None \notin Commands \cup {"start"}
  BY CustodyAssumption
<1> QED
  BY <1>3, <1>4, <1>5 DEF StepOK, Ladder, Commands

LEMMA Stopped ==
  ASSUME Shape, NEW p \in Procs, proc' = [proc EXCEPT ![p] = Down]
  PROVE  Moves(p) /\ proc'[p].pc = "down"
<1>1. Down.pc = "down"
  BY DEF Down
<1> QED
  BY <1>1, DownOK, MovesTo

LEMMA Serves ==
  ASSUME Shape, NEW p \in Procs, NEW k \in Keys, NEW opens \in SUBSET KeyOrNone,
         Serve(p, k, opens)
  PROVE  /\ Moves(p)
         /\ proc'[p].pc = "up" /\ proc'[p].key = k /\ proc'[p].source = proc[p].source
<1> DEFINE new == [Down EXCEPT !.pc = "up", !.key = k, !.opens = opens, !.source = proc[p].source]
<1>1. proc[p] \in Process
  BY DEF Shape
<1>2. new \in Process
  BY <1>1, DownOK DEF Process, Points, KeyOrNone
<1>3. /\ new.pc = "up" /\ new.op = None
      /\ new.key = k /\ new.source = proc[p].source
  BY DownOK DEF Down
<1>4. None \notin Commands \cup {"start"}
  BY CustodyAssumption
<1>5. StepOK(new)
  BY <1>3, <1>4 DEF StepOK, Ladder, Commands
<1>6. proc' = [proc EXCEPT ![p] = new]
  BY DEF Serve
<1> HIDE DEF new
<1> QED
  BY <1>2, <1>3, <1>5, <1>6, MovesTo

LEMMA LoadableKeys ==
  ASSUME Shape, NEW keychain
  PROVE  Loadable(keychain) \subseteq DOMAIN index /\ Loadable(keychain) \subseteq Keys
BY DEF Shape, Loadable, Indexes

LEMMA CandidateKeys ==
  ASSUME Shape, NEW env \in KeyOrNone, NEW keychain
  PROVE  /\ Live(env, keychain) \subseteq Keys
         /\ Candidates(env, keychain) \subseteq Keys
         /\ env = None => Candidates(env, keychain) \subseteq Safe
<1>1. Live(env, keychain) \subseteq Keys
  BY DEF Shape, Live, KeyOrNone
<1>2. env = None => Live(env, keychain) \subseteq InSlots
  BY DEF Live, InSlots
<1> QED
  BY <1>1, <1>2, LoadableKeys DEF Candidates, Safe

LEMMA Refuses ==
  ASSUME Shape, NEW p \in Procs, Refuse(p)
  PROVE  /\ Moves(p)
         /\ \/ proc'[p].pc = "down"
            \/ proc'[p].pc = "up" /\ proc'[p].key \in Safe
<1> DEFINE me == proc[p]
           all == Candidates(None, me.host.keychain)
<1>1. all \subseteq Keys /\ all \subseteq Safe
  BY CandidateKeys DEF KeyOrNone
<1>2. Loadable(me.host.keychain) \ {me.seen} \in SUBSET KeyOrNone
  BY LoadableKeys DEF KeyOrNone
<1>3. CASE me.seen # None /\ me.seen \in all
  <2>1. Serve(p, me.seen, Loadable(me.host.keychain) \ {me.seen})
    BY <1>3 DEF Refuse
  <2> QED
    BY <1>1, <1>2, <1>3, <2>1, Serves
<1>4. CASE ~(me.seen # None /\ me.seen \in all)
  BY <1>4, Stopped DEF Refuse
<1> QED
  BY <1>3, <1>4

\* The steps of the ladder.
LadderStep(p) ==
  \/ LadderEnv(p) \/ LadderKeychain(p) \/ LadderRefuses(p)
  \/ \E k \in Keys : LadderChoose(p, k)
  \/ Store(p) \/ Verify(p) \/ Publish(p)

\* The steps that check a key.
CheckStep(p) ==
  \/ CompareMatches(p) \/ CompareMismatch(p) \/ ProbePasses(p) \/ ProbeFails(p)

\* The steps that retire a key.
VaultStep(p) == AlreadyRetired(p) \/ VaultFull(p) \/ RetireCopy(p) \/ RetireIndex(p)

LEMMA StartMoves ==
  ASSUME Shape, NEW p \in Procs, NEW host \in Setups, NEW env \in KeyOrNone,
         Start(p, host, env)
  PROVE  Moves(p) /\ proc'[p].pc = "ladder" /\ proc'[p].op = "start"
<1> DEFINE new == [Down EXCEPT !.pc = "ladder", !.op = "start", !.host = host, !.env = env,
                     !.seen = record]
<1>1. new \in Process
  <2>1. record \in KeyOrNone
    BY DEF Shape
  <2> QED
    BY <2>1, DownOK DEF Process, Points, Ladder, KeyOrNone
<1>2. new.pc = "ladder" /\ new.op = "start" /\ new.host = host
  BY DownOK DEF Down
<1>3. StepOK(new)
  BY <1>2, CustodyAssumption DEF StepOK, Ladder
<1>4. proc' = [proc EXCEPT ![p] = new]
  BY DEF Start
<1> HIDE DEF new
<1> QED
  BY <1>1, <1>2, <1>3, <1>4, MovesTo

\* A key is found: it goes to the check with its source.
LEMMA Finding ==
  ASSUME Shape, NEW p \in Procs, StepOK(proc[p]),
         proc[p].pc \in Ladder, proc[p].pc # "compare",
         NEW k \in Keys, NEW source \in {"env", "keychain", "file"},
         source = "env" \/ proc[p].env = None,
         Found(p, source, k)
  PROVE  /\ Moves(p)
         /\ proc'[p].pc = "compare" /\ proc'[p].source = source /\ proc'[p].key = k
         /\ proc'[p].op = "start"
<1> DEFINE new == [proc[p] EXCEPT !.pc = "compare", !.source = source, !.key = k]
<1>1. proc[p] \in Process
  BY DEF Shape
<1>2. new \in Process
  BY <1>1 DEF Process, Points, Ladder, KeyOrNone
<1>3. /\ new.pc = "compare" /\ new.key = k /\ new.source = source
      /\ new.op = proc[p].op /\ new.host = proc[p].host /\ new.env = proc[p].env
  BY <1>1 DEF Process
<1>4. proc[p].op = "start" /\ proc[p].host \in Setups
  BY CustodyAssumption DEF StepOK
<1>5. StepOK(new)
  BY <1>3, <1>4, CustodyAssumption DEF StepOK, Ladder
<1>6. proc' = [proc EXCEPT ![p] = new]
  BY <1>1 DEF Found, Shape, Process
<1> HIDE DEF new
<1> QED
  BY <1>2, <1>3, <1>4, <1>5, <1>6, MovesTo

LEMMA LadderMoves ==
  ASSUME Shape, NEW p \in Procs, StepOK(proc[p]), LadderStep(p)
  PROVE  Moves(p) /\ Shape'
<1> DEFINE me == proc[p]
           kc == me.host.keychain
<1>1. me \in Process
  BY DEF Shape
<1>2. /\ chain \in KeyOrNone /\ file \in KeyOrNone /\ legacy \in KeyOrNone
      /\ sealed \subseteq Keys /\ known \subseteq Keys /\ overwritten \subseteq Keys
  BY DEF Shape
<1>3. CASE LadderEnv(p)
  <2>1. me.env \in Keys
    BY <1>1, <1>3 DEF LadderEnv, Process, KeyOrNone
  <2>2. Moves(p)
    BY <1>3, <2>1, Finding DEF LadderEnv, Ladder
  <2> QED
    BY <1>3, <2>2 DEF LadderEnv, Shape, Moves, Slots, Vault
<1>4. CASE LadderKeychain(p)
  <2>1. chain \in Keys
    BY <1>2, <1>4 DEF LadderKeychain, KeyOrNone
  <2>2. Moves(p)
    BY <1>4, <2>1, Finding DEF LadderKeychain, Ladder
  <2>3. legacy' \in KeyOrNone
    BY <1>2, <1>4 DEF LadderKeychain, RetireLegacy, KeyOrNone
  <2> QED
    BY <1>4, <2>2, <2>3 DEF LadderKeychain, Shape, Moves, Vault
<1>5. CASE LadderRefuses(p)
  <2>1. Moves(p)
    BY <1>5, Refuses DEF LadderRefuses
  <2> QED
    BY <1>5, <2>1 DEF LadderRefuses, Shape, Moves, Slots, Vault
<1>6. CASE \E k \in Keys : LadderChoose(p, k)
  <2>1. PICK k \in Keys : LadderChoose(p, k)
    BY <1>6
  <2> DEFINE to == IF kc = "on" THEN "store" ELSE "publish"
             new == [me EXCEPT !.pc = to, !.key = k]
  <2>2. proc' = [proc EXCEPT ![p] = new] /\ me.pc = "ladder" /\ me.env = None
    BY <2>1, <1>1 DEF LadderChoose, Shape, Process
  <2>3. to \in {"store", "publish"} /\ (to = "store" => kc = "on")
    OBVIOUS
  <2>4. me.op = "start" /\ me.host \in Setups
    BY <2>2, CustodyAssumption DEF StepOK, Ladder
  <2> HIDE DEF to
  <2>5. new \in Process
    BY <1>1, <2>3 DEF Process, Points, Ladder, KeyOrNone
  <2>6. /\ new.pc = to /\ new.key = k /\ new.op = me.op /\ new.host = me.host
        /\ new.env = me.env
    BY <1>1 DEF Process
  <2>7. StepOK(new)
    BY <2>2, <2>3, <2>4, <2>6, CustodyAssumption DEF StepOK, Ladder
  <2> HIDE DEF new
  <2>8. Moves(p)
    BY <2>2, <2>5, <2>7, MovesTo
  <2>9. known' \subseteq Keys
    BY <2>1, <1>2 DEF LadderChoose
  <2> QED
    BY <2>1, <2>8, <2>9 DEF LadderChoose, Shape, Moves, Slots, Vault
<1>7. CASE Store(p)
  <2> DEFINE new == [me EXCEPT !.pc = "verify"]
  <2>1. proc' = [proc EXCEPT ![p] = new] /\ me.pc = "store"
    BY <1>7, <1>1 DEF Store, Go, Shape
  <2>2. new \in Process
    BY <1>1 DEF Process, Points, Ladder
  <2>3. /\ new.pc = "verify" /\ new.key = me.key /\ new.op = me.op /\ new.host = me.host
        /\ new.env = me.env
    BY <1>1 DEF Process
  <2>4. StepOK(new) /\ me.key \in Keys
    BY <2>1, <2>3, CustodyAssumption DEF StepOK, Ladder
  <2> HIDE DEF new
  <2>5. Moves(p)
    BY <2>1, <2>2, <2>4, MovesTo
  <2>6. chain' \in KeyOrNone /\ overwritten' \subseteq Keys
    BY <1>7, <1>2, <2>4 DEF Store, KeyOrNone
  <2> QED
    BY <1>7, <2>5, <2>6 DEF Store, Shape, Moves, Vault
<1>8. CASE Verify(p)
  <2>1. me.key \in Keys /\ me.env = None /\ me.pc = "verify"
    BY <1>8 DEF Verify, StepOK
  <2>2. CASE chain = me.key
    <3>1. RetireLegacy(chain) /\ Found(p, "keychain", chain)
      BY <1>8, <2>2 DEF Verify
    <3>2. Moves(p)
      BY <2>1, <2>2, <3>1, Finding DEF Ladder
    <3>3. legacy' \in KeyOrNone
      BY <1>2, <3>1 DEF RetireLegacy, KeyOrNone
    <3> QED
      BY <1>8, <3>2, <3>3 DEF Verify, Shape, Moves, Vault
  <2>3. CASE chain # me.key
    <3>1. Refuse(p) /\ legacy' = legacy
      BY <1>8, <2>3 DEF Verify
    <3>2. Moves(p)
      BY <3>1, Refuses
    <3> QED
      BY <1>8, <3>1, <3>2 DEF Verify, Shape, Moves, Vault
  <2> QED
    BY <2>2, <2>3
<1>9. CASE Publish(p)
  <2>1. me.key \in Keys /\ me.env = None /\ me.pc = "publish"
    BY <1>9 DEF Publish, StepOK
  <2>2. \/ file' = file /\ Refuse(p)
        \/ file' \in Keys /\ file' = (IF file = None THEN me.key ELSE file) /\ Found(p, "file", file')
    BY <1>2, <1>9, <2>1 DEF Publish, KeyOrNone
  <2>3. CASE file' = file /\ Refuse(p)
    <3>1. Moves(p)
      BY <2>3, Refuses
    <3> QED
      BY <1>9, <2>3, <3>1 DEF Publish, Shape, Moves, Vault
  <2>4. CASE file' \in Keys /\ Found(p, "file", file')
    <3>1. PICK k \in Keys : k = file' /\ Found(p, "file", k)
      BY <2>4
    <3>2. Moves(p)
      BY <2>1, <3>1, Finding DEF Ladder
    <3>3. file' \in KeyOrNone
      BY <2>4 DEF KeyOrNone
    <3> QED
      BY <1>9, <3>2, <3>3 DEF Publish, Shape, Moves, Vault
  <2> QED
    BY <2>2, <2>3, <2>4
<1> QED
  BY <1>3, <1>4, <1>5, <1>6, <1>7, <1>8, <1>9 DEF LadderStep

\* The key found is retired, or recorded, before another serves.
LEMMA Recovers ==
  ASSUME Shape, NEW p \in Procs, StepOK(proc[p]), proc[p].pc = "compare",
         NEW k \in Keys, Recovered(p, k)
  PROVE  /\ Moves(p)
         /\ \/ /\ proc'[p].pc = "up" /\ proc[p].source = "env"
               /\ proc'[p].key = k /\ proc'[p].source = proc[p].source
            \/ /\ proc'[p].pc = "record" /\ proc[p].source = "env"
               /\ proc'[p].op = "start" /\ proc'[p].source = proc[p].source
            \/ /\ proc'[p].pc = "copy" /\ proc[p].source # "env" /\ proc'[p].op = "start"
               /\ proc'[p].key = k /\ proc'[p].todo = <<proc[p].key>>
               /\ proc'[p].source = proc[p].source
<1> DEFINE me == proc[p]
           opens == Opens(p, k) \cup {me.key}
           env == me.source = "env"
           to == IF env THEN "record" ELSE "copy"
           todo == IF env THEN <<>> ELSE <<me.key>>
           new == [me EXCEPT !.pc = to, !.key = k, !.todo = todo, !.opens = opens]
<1>1. me \in Process /\ me.key \in Keys /\ me.op = "start" /\ me.host \in Setups
  BY CustodyAssumption DEF Shape, StepOK, Ladder
<1>2. opens \in SUBSET KeyOrNone
  BY <1>1, LoadableKeys DEF Opens, KeyOrNone
<1>3. CASE env /\ me.seen # None
  BY <1>2, <1>3, Serves DEF Recovered
<1>4. CASE ~(env /\ me.seen # None)
  <2>1. proc' = [proc EXCEPT ![p] = new]
    BY <1>1, <1>4 DEF Recovered, Shape, Process
  <2>2. todo \in Seq(Keys) /\ (~env => todo = <<me.key>> /\ Tail(todo) = <<>> /\ todo # <<>>)
    BY <1>1
  <2>3. to \in {"record", "copy"} /\ (env <=> to = "record")
    OBVIOUS
  <2> HIDE DEF opens, to, todo
  <2>4. new \in Process
    BY <1>1, <1>2, <2>2, <2>3 DEF Process, Points, KeyOrNone
  <2>5. /\ new.pc = to /\ new.key = k /\ new.todo = todo /\ new.op = "start"
        /\ new.host = me.host /\ new.source = me.source
    BY <1>1 DEF Process
  <2>6. StepOK(new)
    BY <1>1, <2>2, <2>3, <2>5, CustodyAssumption DEF StepOK, Ladder
  <2> HIDE DEF new
  <2>7. Moves(p) /\ proc'[p] = new
    BY <2>1, <2>4, <2>6, MovesTo
  <2> QED
    BY <2>2, <2>3, <2>5, <2>7
<1> QED
  BY <1>3, <1>4

LEMMA CheckMoves ==
  ASSUME Shape, NEW p \in Procs, StepOK(proc[p]), CheckStep(p)
  PROVE  Moves(p) /\ Shape'
<1> DEFINE me == proc[p]
           kc == me.host.keychain
<1>1. me \in Process /\ me.pc = "compare"
  BY DEF Shape, CheckStep, CompareMatches, CompareMismatch, ProbePasses, ProbeFails
<1>2. me.key \in Keys /\ me.op = "start" /\ me.host \in Setups
  BY <1>1, CustodyAssumption DEF StepOK, Ladder
<1>3. Opens(p, me.key) \in SUBSET KeyOrNone
  BY LoadableKeys DEF Opens, KeyOrNone
<1>4. UNCHANGED <<Slots, record, Vault, sealed, known, overwritten, ops>>
  BY DEF CheckStep, CompareMatches, CompareMismatch, ProbePasses, ProbeFails
<1>5. Moves(p)
  <2>1. CASE CompareMatches(p)
    BY <1>2, <1>3, <2>1, Serves DEF CompareMatches
  <2>2. CASE CompareMismatch(p)
    <3>1. me.seen \in Keys
      BY <1>1, <2>2 DEF CompareMismatch, Process, KeyOrNone
    <3>2. Recovered(p, me.seen) \/ proc' = [proc EXCEPT ![p] = Down]
      BY <2>2 DEF CompareMismatch
    <3> QED
      BY <1>1, <3>1, <3>2, Recovers, Stopped
  <2>3. CASE ProbePasses(p)
    <3> DEFINE new == [me EXCEPT !.pc = "record", !.opens = Opens(p, me.key)]
    <3>1. proc' = [proc EXCEPT ![p] = new]
      BY <2>3, <1>1 DEF ProbePasses, Shape
    <3>2. new \in Process
      BY <1>1, <1>3 DEF Process, Points
    <3>3. /\ new.pc = "record" /\ new.key = me.key /\ new.op = "start"
          /\ new.host = me.host
      BY <1>1, <1>2 DEF Process
    <3>4. StepOK(new)
      BY <1>2, <3>3, CustodyAssumption DEF StepOK, Ladder
    <3> HIDE DEF new
    <3> QED
      BY <3>1, <3>2, <3>4, MovesTo
  <2>4. CASE ProbeFails(p)
    <3>1. CASE proc' = [proc EXCEPT ![p] = Down]
      BY <3>1, Stopped
    <3>2. CASE \E k \in Candidates(me.env, kc) \ {me.key} : Recovered(p, k)
      <4>1. PICK k \in Candidates(me.env, kc) \ {me.key} : Recovered(p, k)
        BY <3>2
      <4>2. k \in Keys
        BY <1>1, <4>1, CandidateKeys DEF Process
      <4> QED
        BY <1>1, <4>1, <4>2, Recovers
    <3> QED
      BY <2>4, <3>1, <3>2 DEF ProbeFails
  <2> QED
    BY <2>1, <2>2, <2>3, <2>4 DEF CheckStep
<1> QED
  BY <1>4, <1>5 DEF Shape, Moves, Slots, Vault

\* Where a process goes with a key retired, or found to be.
LEMMA Retires ==
  ASSUME Shape, NEW p \in Procs, StepOK(proc[p]), proc[p].pc \in {"copy", "index"},
         RetireNext(p)
  PROVE  /\ Moves(p)
         /\ \/ proc'[p].pc = "down"
            \/ /\ proc'[p].pc = "up" /\ proc[p].op = "start"
               /\ proc'[p].key = proc[p].key /\ proc'[p].source = proc[p].source
            \/ /\ proc'[p].pc \in {"copy", "record", "install", "remove"}
               /\ proc'[p].pc = "copy" <=> Tail(proc[p].todo) # <<>>
               /\ proc'[p].todo = Tail(proc[p].todo)
               /\ \A x \in {"op", "host", "key", "source"} : proc'[p][x] = proc[p][x]
<1> DEFINE me == proc[p]
           rest == Tail(me.todo)
           After(pc) == [me EXCEPT !.todo = rest, !.index = <<>>, !.pc = pc]
<1>1. me \in Process /\ me.key \in Keys /\ me.op \in {"start"} \cup Commands /\ me.host \in Setups
  BY CustodyAssumption DEF Shape, StepOK, Ladder, Process
<1>2. me.todo \in Seq(Keys) /\ me.todo # <<>> /\ me.opens \in SUBSET KeyOrNone
  BY <1>1 DEF StepOK, Process
<1>3. rest \in Seq(Keys)
  BY <1>2
<1>4. <<>> \in Indexes
  BY DownOK DEF Down, Process
<1>5. ASSUME NEW pc \in {"copy", "record", "install", "remove"},
             proc' = [proc EXCEPT ![p].todo = rest, ![p].index = <<>>, ![p].pc = pc],
             pc = "copy" <=> rest # <<>>,
             pc = "record" => me.op = "start",
             pc = "install" => me.op = "install",
             pc = "remove" => me.op = "retire"
      PROVE  /\ Moves(p)
             /\ proc'[p].pc = pc /\ proc'[p].todo = rest
             /\ \A x \in {"op", "host", "key", "source"} : proc'[p][x] = me[x]
  <2>1. proc' = [proc EXCEPT ![p] = After(pc)]
    BY <1>1, <1>5 DEF Shape
  <2> HIDE DEF rest
  <2>2. After(pc) \in Process
    BY <1>1, <1>3, <1>4 DEF Process, Points
  <2>3. /\ After(pc).pc = pc /\ After(pc).todo = rest
        /\ After(pc).op = me.op /\ After(pc).host = me.host /\ After(pc).key = me.key
        /\ After(pc).source = me.source
    BY <1>1 DEF Process
  <2>4. pc = "copy" => me.op # "start"
    BY <1>5 DEF StepOK, rest
  <2>5. StepOK(After(pc))
    BY <1>1, <1>5, <2>3, <2>4, CustodyAssumption DEF StepOK, Ladder, Commands
  <2> HIDE DEF After
  <2>6. Moves(p) /\ proc'[p] = After(pc)
    BY <2>1, <2>2, <2>5, MovesTo
  <2> QED
    BY <2>3, <2>6
<1>6. CASE rest # <<>>
  BY <1>5, <1>6 DEF RetireNext
<1>7. CASE rest = <<>> /\ me.op = "start" /\ me.seen = None
  BY <1>5, <1>7 DEF RetireNext
<1>8. CASE rest = <<>> /\ me.op = "start" /\ me.seen # None
  <2>1. Serve(p, me.key, me.opens)
    BY <1>8 DEF RetireNext
  <2> QED
    BY <1>1, <1>2, <1>8, <2>1, Serves
<1>9. CASE rest = <<>> /\ me.op = "install"
  BY <1>5, <1>9 DEF RetireNext
<1>10. CASE rest = <<>> /\ me.op = "retire"
  BY <1>5, <1>10 DEF RetireNext
<1>11. CASE rest = <<>> /\ me.op = "carry"
  BY <1>11, Stopped DEF RetireNext
<1> QED
  BY <1>1, <1>6, <1>7, <1>8, <1>9, <1>10, <1>11 DEF Commands

LEMMA IndexGrows ==
  ASSUME NEW ix \in Indexes, NEW k \in Keys, NEW custody \in Custodies
  PROVE  /\ IndexWith(ix, k, custody) \in Indexes
         /\ DOMAIN IndexWith(ix, k, custody) = DOMAIN ix \cup {k}
         /\ IndexWith(ix, k, custody)[k] = custody
         /\ \A j \in DOMAIN ix \ {k} : IndexWith(ix, k, custody)[j] = ix[j]
         /\ Cardinality(DOMAIN ix) < Full => Cardinality(DOMAIN IndexWith(ix, k, custody)) <= Full
<1> DEFINE D == DOMAIN ix
           new == IndexWith(ix, k, custody)
<1>1. D \subseteq Keys /\ ix \in [D -> Custodies]
  BY DEF Indexes
<1>2. DOMAIN new = D \cup {k} /\ new[k] = custody /\ \A j \in D \ {k} : new[j] = ix[j]
  BY DEF IndexWith
<1>3. new \in [D \cup {k} -> Custodies]
  BY <1>1 DEF IndexWith
<1>4. new \in Indexes
  BY <1>1, <1>3 DEF Indexes
<1>5. IsFiniteSet(D)
  BY <1>1, CustodyAssumption, FS_Subset
<1>6. /\ Cardinality(D) \in Nat
      /\ Cardinality(D \cup {k}) = IF k \in D THEN Cardinality(D) ELSE Cardinality(D) + 1
  BY <1>5, FS_AddElement, FS_CardinalityType
<1>7. Full \in Nat
  BY CustodyAssumption
<1>8. Cardinality(D) < Full => Cardinality(D \cup {k}) <= Full
  BY <1>6, <1>7
<1> QED
  BY <1>2, <1>4, <1>8

LEMMA VaultMoves ==
  ASSUME Shape, NEW p \in Procs, StepOK(proc[p]), VaultStep(p)
  PROVE  Moves(p) /\ Shape'
<1> DEFINE me == proc[p]
           k == Head(me.todo)
<1>1. me \in Process /\ me.pc \in {"copy", "index"} /\ k \in Keys
  <2>1. me \in Process /\ me.pc \in {"copy", "index"}
    BY DEF Shape, VaultStep, AlreadyRetired, VaultFull, RetireCopy, RetireIndex
  <2>2. me.todo \in Seq(Keys) /\ me.todo # <<>>
    BY <2>1 DEF Process, StepOK
  <2> QED
    BY <2>1, <2>2
<1>2. CopyCustody(p) \in Custodies
  BY DEF CopyCustody, Custodies
<1>3. CASE AlreadyRetired(p)
  <2>1. Moves(p)
    BY <1>1, <1>3, Retires DEF AlreadyRetired
  <2> QED
    BY <1>3, <2>1 DEF AlreadyRetired, Shape, Moves, Slots, Vault
<1>4. CASE VaultFull(p)
  <2>1. Moves(p)
    BY <1>1, <1>4, Retires, Stopped DEF VaultFull
  <2> QED
    BY <1>4, <2>1 DEF VaultFull, Shape, Moves, Slots, Vault
<1>5. CASE RetireCopy(p)
  <2> DEFINE new == [me EXCEPT !.pc = "index", !.index = index]
  <2>1. proc' = [proc EXCEPT ![p] = new] /\ me.pc = "copy" /\ Cardinality(DOMAIN index) < Full
    BY <1>1, <1>5 DEF RetireCopy, Shape
  <2>2. new \in Process
    BY <1>1 DEF Process, Points, Shape
  <2>3. /\ new.pc = "index" /\ new.key = me.key /\ new.op = me.op /\ new.host = me.host
        /\ new.todo = me.todo /\ new.source = me.source /\ new.index = index
    BY <1>1 DEF Process
  <2>4. StepOK(new)
    BY <2>1, <2>3, CustodyAssumption DEF StepOK, Ladder
  <2> HIDE DEF new
  <2>5. Moves(p)
    BY <2>1, <2>2, <2>4, MovesTo
  <2>6. copies' \in [Custodies -> SUBSET Keys]
    BY <1>1, <1>2, <1>5 DEF RetireCopy, Shape
  <2> QED
    BY <1>5, <2>5, <2>6 DEF RetireCopy, Shape, Moves, Slots
<1>6. CASE RetireIndex(p)
  <2>1. Moves(p)
    BY <1>1, <1>6, Retires DEF RetireIndex
  <2>2. me.index \in Indexes /\ Cardinality(DOMAIN me.index) < Full
    BY <1>1, <1>6 DEF RetireIndex, StepOK, Process
  <2>3. index' = IndexWith(me.index, k, CopyCustody(p))
    BY <1>6 DEF RetireIndex
  <2>4. index' \in Indexes /\ Cardinality(DOMAIN index') <= Full
    BY <1>1, <1>2, <2>2, <2>3, IndexGrows
  <2> QED
    BY <1>6, <2>1, <2>4 DEF RetireIndex, Shape, Moves, Slots
<1> QED
  BY <1>3, <1>4, <1>5, <1>6 DEF VaultStep

\* A command's list has the keys to retire, each once.
LEMMA ListOf ==
  ASSUME NEW S, S \subseteq Keys, NEW list \in SetToSeqs(S)
  PROVE  list \in Seq(Keys) /\ ToSet(list) = S
<1> DEFINE n == Cardinality(S)
<1>1. IsFiniteSet(S)
  BY CustodyAssumption, FS_Subset
<1>2. n \in Nat
  BY <1>1, FS_CardinalityType
<1>3. list \in [1..n -> S] /\ \A i, j \in 1..n : i # j => list[i] # list[j]
  BY DEF SetToSeqs
<1>4. IsFiniteSet(1..n) /\ Cardinality(1..n) = n
  BY <1>2, FS_Interval
<1>5. list \in Injection(1..n, S)
  BY <1>3 DEF Injection, IsInjective
<1>6. list \in Surjection(1..n, S)
  BY <1>1, <1>4, <1>5, FS_Injection
<1>7. \A x \in S : \E i \in 1..n : list[i] = x
  BY <1>6 DEF Surjection
<1>8. list \in Seq(Keys) /\ DOMAIN list = 1..n
  BY <1>2, <1>3
<1> QED
  BY <1>3, <1>7, <1>8 DEF ToSet

\* A command sets out with the keys it has to retire.
LEMMA CommandMoves ==
  ASSUME Shape, NEW p \in Procs, NEW new \in Process,
         new.op \in Commands, new.host \in Setups, new.key \in Keys,
         new.pc = IF new.todo = <<>> THEN "install" ELSE "copy",
         new.todo = <<>> => new.op = "install",
         proc' = [proc EXCEPT ![p] = new]
  PROVE  Moves(p) /\ proc'[p] = new
<1>1. new.pc \in {"install", "copy"} /\ (new.pc = "copy" <=> new.todo # <<>>)
  OBVIOUS
<1>2. StepOK(new)
  BY <1>1, CustodyAssumption DEF StepOK, Ladder, Commands
<1> QED
  BY <1>2, MovesTo

\* The commands: what the one that sets out has on its list.
CommandStep(p, host, env) ==
  \/ \E k \in Keys : Adopt(p, host, env, k) \/ Retire(p, host, env, k)
  \/ \E bundle \in Bundles : Import(p, host, env, bundle)

LEMMA CommandEffect ==
  ASSUME Shape, NEW p \in Procs, NEW host \in Setups, NEW env \in KeyOrNone,
         NEW k \in Keys, NEW previous, NEW extra, previous \cup extra \subseteq Keys,
         Install(p, host, k, previous, extra)
  PROVE  /\ Moves(p)
         /\ proc'[p].pc \in {"copy", "install"} /\ proc'[p].op = "install"
         /\ proc'[p].host = host /\ proc'[p].key = k
         /\ ToSet(proc'[p].todo) = (previous \cup extra) \ {k}
<1> DEFINE S == (previous \cup extra) \ {k}
<1>1. PICK list \in SetToSeqs(S) :
        proc' = [proc EXCEPT ![p] = [Down EXCEPT
            !.pc = IF list = <<>> THEN "install" ELSE "copy", !.op = "install",
            !.host = host, !.key = k, !.todo = list]]
  BY DEF Install
<1>2. list \in Seq(Keys) /\ ToSet(list) = S
  BY ListOf
<1> HIDE DEF S
<1> DEFINE to == IF list = <<>> THEN "install" ELSE "copy"
           new == [Down EXCEPT !.pc = to, !.op = "install", !.host = host, !.key = k, !.todo = list]
<1>3. to \in {"install", "copy"} /\ to = (IF list = <<>> THEN "install" ELSE "copy")
  OBVIOUS
<1>4. proc' = [proc EXCEPT ![p] = new]
  BY <1>1
<1> HIDE DEF to
<1>5. new \in Process
  <2>1. list \in Seq(Keys) /\ to \in Points /\ k \in KeyOrNone
    BY <1>2, <1>3 DEF Points, KeyOrNone
  <2> QED
    BY <2>1, DownOK DEF Process, Commands
<1>6. /\ new.pc = to /\ new.op = "install" /\ new.host = host /\ new.key = k /\ new.todo = list
  BY DownOK DEF Process
<1> HIDE DEF new
<1>7. "install" \in Commands
  BY DEF Commands
<1>8. Moves(p) /\ proc'[p] = new
  BY <1>3, <1>4, <1>5, <1>6, <1>7, CommandMoves
<1> QED
  BY <1>2, <1>3, <1>6, <1>8 DEF S

LEMMA PreviousAreKeys ==
  ASSUME Shape, NEW env \in KeyOrNone, NEW keychain
  PROVE  /\ PersistentKeys(keychain) \subseteq Keys
         /\ PreviousKeys(env, keychain) \subseteq Keys
         /\ PersistentKeys(keychain) \cup ({record} \cap Live(None, keychain))
              \subseteq PreviousKeys(env, keychain)
<1>1. chain \in KeyOrNone /\ file \in KeyOrNone
  BY DEF Shape
<1>2. PersistentKeys(keychain) \subseteq Keys
  BY <1>1 DEF PersistentKeys, KeyOrNone
<1>3. Live(None, keychain) \subseteq Live(env, keychain)
  BY DEF Live
<1> QED
  BY <1>2, <1>3, CandidateKeys DEF PreviousKeys

\* What the commands set out with: of an install, the keys that its key replaces.
LEMMA CommandsBegin ==
  ASSUME Shape, NEW p \in Procs, NEW host \in Setups, NEW env \in KeyOrNone,
         CommandStep(p, host, env)
  PROVE  /\ Moves(p) /\ Shape'
         /\ UNCHANGED <<Slots, record, Vault, sealed, overwritten>>
         /\ \A q \in Procs : ~Running(q)
         /\ proc'[p].pc \in {"copy", "install", "down"}
         /\ proc'[p].op \in Commands \cup {None}
         /\ proc'[p].op = "install" =>
              PersistentKeys(proc'[p].host.keychain) \cup ({record} \cap Live(None, proc'[p].host.keychain))
                \subseteq ToSet(proc'[p].todo) \cup {proc'[p].key}
         /\ proc'[p].op = "retire" =>
              /\ proc'[p].key # record
              /\ proc'[p].source = "file" => file = proc'[p].key
              /\ proc'[p].source = "legacy" => legacy = proc'[p].key
<1> DEFINE kc == host.keychain
           previous == PreviousKeys(env, kc)
<1>1. Command(host, env)
  BY DEF CommandStep, Adopt, Retire, Import
<1>2. /\ UNCHANGED <<Slots, record, Vault, sealed, overwritten>>
      /\ \A q \in Procs : ~Running(q)
  BY <1>1 DEF Command
<1>3. None \notin Commands
  BY CustodyAssumption
<1>4. ASSUME NEW k \in Keys, NEW extra, extra \subseteq Keys, Install(p, host, k, previous, extra)
      PROVE  /\ Moves(p)
             /\ proc'[p].pc \in {"copy", "install"} /\ proc'[p].op = "install"
             /\ PersistentKeys(proc'[p].host.keychain) \cup ({record} \cap Live(None, proc'[p].host.keychain))
                  \subseteq ToSet(proc'[p].todo) \cup {proc'[p].key}
  <2>1. previous \cup extra \subseteq Keys
    BY <1>4, PreviousAreKeys
  <2> HIDE DEF previous
  <2>2. /\ Moves(p)
        /\ proc'[p].pc \in {"copy", "install"} /\ proc'[p].op = "install"
        /\ proc'[p].host = host /\ proc'[p].key = k
        /\ ToSet(proc'[p].todo) = (previous \cup extra) \ {k}
    BY <1>4, <2>1, CommandEffect
  <2>3. PersistentKeys(kc) \cup ({record} \cap Live(None, kc)) \subseteq previous
    BY PreviousAreKeys DEF previous
  <2> QED
    BY <2>2, <2>3
<1>5. ASSUME NEW k \in Keys, Retire(p, host, env, k)
      PROVE  /\ Moves(p)
             /\ proc'[p].pc = "copy" /\ proc'[p].op = "retire"
             /\ proc'[p].key # record
             /\ proc'[p].source = "file" => file = proc'[p].key
             /\ proc'[p].source = "legacy" => legacy = proc'[p].key
  <2> DEFINE slot == FirstSlot(k, env, kc)
  <2>1. k \in Live(env, kc) /\ k # record /\ slot # "keychain"
    BY <1>5 DEF Retire
  <2>2. /\ slot \in {"env", "file", "legacy"}
        /\ slot = "file" => file = k
        /\ slot = "legacy" => legacy = k
    BY <2>1 DEF FirstSlot, Live
  <2>3. proc' = [proc EXCEPT ![p] = [Down EXCEPT
          !.pc = "copy", !.op = "retire", !.host = host, !.key = k,
          !.source = slot, !.todo = <<k>>]]
    BY <1>5 DEF Retire
  <2> HIDE DEF slot
  <2> DEFINE list == <<k>>
             new == [Down EXCEPT !.pc = "copy", !.op = "retire", !.host = host, !.key = k,
                       !.source = slot, !.todo = list]
  <2>4. list \in Seq(Keys) /\ list # <<>> /\ "retire" \in Commands
    BY DEF Commands
  <2>5. proc' = [proc EXCEPT ![p] = new]
    BY <2>3
  <2> HIDE DEF list
  <2>6. new \in Process
    BY <2>2, <2>4, DownOK DEF Process, Points, KeyOrNone
  <2>7. /\ new.pc = "copy" /\ new.op = "retire" /\ new.host = host /\ new.key = k
        /\ new.source = slot /\ new.todo = list
    BY DownOK DEF Process
  <2> HIDE DEF new
  <2>8. Moves(p) /\ proc'[p] = new
    BY <2>4, <2>5, <2>6, <2>7, CommandMoves
  <2> QED
    BY <2>1, <2>2, <2>7, <2>8
<1>6. ASSUME NEW bundle \in Bundles, Import(p, host, env, bundle)
      PROVE  \/ \E k \in Keys : Install(p, host, k, previous, bundle.retired)
             \/ Moves(p) /\ proc'[p].pc \in {"copy", "down"} /\ proc'[p].op \in {"carry", None}
  <2> DEFINE k == bundle.current
  <2>1. k \in Keys /\ bundle.retired \subseteq Keys
    BY DEF Bundles
  <2>2. \/ Install(p, host, k, previous, bundle.retired)
        \/ \E list \in SetToSeqs(bundle.retired) :
             proc' = [proc EXCEPT ![p] = IF list = <<>> THEN Down ELSE [Down EXCEPT
                 !.pc = "copy", !.op = "carry", !.host = host, !.key = k, !.todo = list]]
    BY <1>6 DEF Import
  <2>3. ASSUME NEW list \in SetToSeqs(bundle.retired),
               proc' = [proc EXCEPT ![p] = IF list = <<>> THEN Down ELSE [Down EXCEPT
                 !.pc = "copy", !.op = "carry", !.host = host, !.key = k, !.todo = list]]
        PROVE  Moves(p) /\ proc'[p].pc \in {"copy", "down"} /\ proc'[p].op \in {"carry", None}
    <3>1. list \in Seq(Keys)
      BY <2>1, ListOf
    <3>2. CASE list = <<>>
      <4>1. proc' = [proc EXCEPT ![p] = Down]
        BY <2>3, <3>2
      <4>2. Moves(p) /\ proc'[p].pc = "down"
        BY <4>1, Stopped
      <4> QED
        BY <4>2 DEF Moves, StepOK
    <3>3. CASE list # <<>>
      <4> DEFINE new == [Down EXCEPT !.pc = "copy", !.op = "carry", !.host = host, !.key = k,
                           !.todo = list]
      <4>1. proc' = [proc EXCEPT ![p] = new]
        BY <2>3, <3>3
      <4> HIDE DEF k
      <4>2. new \in Process
        BY <2>1, <3>1, DownOK DEF Process, Points, Commands, KeyOrNone
      <4>3. /\ new.pc = "copy" /\ new.op = "carry" /\ new.host = host /\ new.key = k
            /\ new.todo = list
        BY DownOK DEF Process
      <4> HIDE DEF new
      <4>4. "carry" \in Commands
        BY DEF Commands
      <4>5. Moves(p) /\ proc'[p] = new
        BY <2>1, <3>3, <4>1, <4>2, <4>3, <4>4, CommandMoves
      <4> QED
        BY <4>3, <4>5
    <3> QED
      BY <3>2, <3>3
  <2> QED
    BY <2>1, <2>2, <2>3
<1>7. /\ Moves(p)
      /\ proc'[p].pc \in {"copy", "install", "down"}
      /\ proc'[p].op \in Commands \cup {None}
      /\ proc'[p].op = "install" =>
              PersistentKeys(proc'[p].host.keychain) \cup ({record} \cap Live(None, proc'[p].host.keychain))
                \subseteq ToSet(proc'[p].todo) \cup {proc'[p].key}
      /\ proc'[p].op = "retire" =>
              /\ proc'[p].key # record
              /\ proc'[p].source = "file" => file = proc'[p].key
              /\ proc'[p].source = "legacy" => legacy = proc'[p].key
  <2>1. CASE \E k \in Keys : Adopt(p, host, env, k)
    <3>1. PICK k \in Keys : Install(p, host, k, previous, {})
      BY <2>1 DEF Adopt
    <3> QED
      BY <1>3, <1>4, <3>1 DEF Commands
  <2>2. CASE \E k \in Keys : Retire(p, host, env, k)
    BY <1>3, <1>5, <2>2 DEF Commands
  <2>3. CASE \E bundle \in Bundles : Import(p, host, env, bundle)
    <3>1. PICK bundle \in Bundles : Import(p, host, env, bundle)
      BY <2>3
    <3>2. bundle.retired \subseteq Keys
      BY DEF Bundles
    <3> QED
      BY <1>3, <1>4, <1>6, <3>1, <3>2 DEF Commands
  <2> QED
    BY <2>1, <2>2, <2>3 DEF CommandStep
<1>8. known' \subseteq Keys /\ ops' \in 0..MaxOps
  <2>1. known' = known \cup ({env} \ {None}) /\ ops < MaxOps /\ ops' = ops + 1
    BY <1>1 DEF Command
  <2>2. MaxOps \in Nat /\ ops \in 0..MaxOps /\ known \subseteq Keys
    BY CustodyAssumption DEF Shape
  <2>3. ops' \in 0..MaxOps
    BY <2>1, <2>2
  <2> QED
    BY <2>1, <2>2, <2>3 DEF KeyOrNone
<1>9. Shape'
  BY <1>2, <1>7, <1>8 DEF Shape, Moves, Slots, Vault
<1> QED
  BY <1>2, <1>7, <1>9

\* The steps that end what a process is about, and those of one that serves.
EndStep(p) ==
  WriteRecord(p) \/ InstallKey(p) \/ RemoveRetired(p) \/ Seal(p) \/ Stop(p)

LEMMA EndMoves ==
  ASSUME Shape, NEW p \in Procs, StepOK(proc[p]), EndStep(p)
  PROVE  /\ Shape'
         /\ \A q \in Procs \ {p} : proc'[q] = proc[q]
         /\ StepOK(proc'[p])
         /\ \/ proc'[p].pc = "down"
            \/ Seal(p) /\ proc'[p] = proc[p]
            \/ /\ WriteRecord(p) /\ proc'[p].pc = "up"
               /\ proc[p].op = "start" /\ proc'[p].key = proc[p].key /\ proc'[p].source = proc[p].source
            \/ /\ InstallKey(p) /\ proc'[p].pc = "record"
               /\ \A x \in {"op", "host", "key", "todo"} : proc'[p][x] = proc[p][x]
<1> DEFINE me == proc[p]
<1>1. me \in Process
  BY DEF Shape
<1>2. CASE WriteRecord(p)
  <2>1. me.pc = "record" /\ me.key \in Keys /\ record' = me.key
    BY <1>2 DEF WriteRecord, StepOK
  <2>2. me.opens \in SUBSET KeyOrNone
    BY <1>1 DEF Process
  <2>3. \/ me.op = "start" /\ Serve(p, me.key, me.opens)
        \/ proc' = [proc EXCEPT ![p] = Down]
    BY <1>2 DEF WriteRecord
  <2>4. /\ Moves(p)
        /\ \/ proc'[p].pc = "down"
           \/ /\ proc'[p].pc = "up" /\ me.op = "start"
              /\ proc'[p].key = me.key /\ proc'[p].source = me.source
    BY <2>1, <2>2, <2>3, Serves, Stopped
  <2> QED
    BY <1>2, <2>1, <2>4 DEF WriteRecord, Shape, Moves, Slots, Vault, KeyOrNone
<1>3. CASE InstallKey(p)
  <2> DEFINE new == [me EXCEPT !.pc = "record"]
  <2>1. me.pc = "install" /\ me.key \in Keys /\ me.op = "install" /\ me.host \in Setups /\ me.todo = <<>>
    BY <1>3, CustodyAssumption DEF InstallKey, StepOK, Commands
  <2>2. CASE proc' = [proc EXCEPT ![p] = new]
    <3>1. new \in Process
      BY <1>1 DEF Process, Points
    <3>2. /\ new.pc = "record"
          /\ new.op = me.op /\ new.host = me.host /\ new.key = me.key /\ new.todo = me.todo
      BY <1>1 DEF Process
    <3>3. StepOK(new)
      BY <2>1, <3>2, CustodyAssumption DEF StepOK, Ladder, Commands
    <3> HIDE DEF new
    <3>4. Moves(p) /\ proc'[p] = new
      BY <2>2, <3>1, <3>3, MovesTo
    <3>5. chain' \in KeyOrNone /\ file' \in KeyOrNone
      BY <1>3, <2>1 DEF InstallKey, Shape, KeyOrNone
    <3>6. \A x \in {"op", "host", "key", "todo"} : proc'[p][x] = me[x]
      BY <3>2, <3>4
    <3> QED
      BY <1>3, <3>2, <3>4, <3>5, <3>6 DEF InstallKey, Shape, Moves, Vault
  <2>3. CASE proc' = [proc EXCEPT ![p] = Down] /\ UNCHANGED <<chain, file>>
    <3>1. Moves(p) /\ proc'[p].pc = "down"
      BY <2>3, Stopped
    <3> QED
      BY <1>3, <2>3, <3>1 DEF InstallKey, Shape, Moves, Vault
  <2>4. proc' = [proc EXCEPT ![p] = new] \/ (proc' = [proc EXCEPT ![p] = Down] /\ UNCHANGED <<chain, file>>)
    BY <1>1, <1>3 DEF InstallKey, Go, Shape
  <2> QED
    BY <2>2, <2>3, <2>4
<1>4. CASE RemoveRetired(p)
  <2>1. Moves(p) /\ proc'[p].pc = "down"
    BY <1>4, Stopped DEF RemoveRetired
  <2>2. file' \in KeyOrNone /\ legacy' \in KeyOrNone
    BY <1>4 DEF RemoveRetired, Shape, KeyOrNone
  <2> QED
    BY <1>4, <2>1, <2>2 DEF RemoveRetired, Shape, Moves, Vault
<1>5. CASE Seal(p)
  <2>1. me.key \in Keys
    BY <1>5 DEF Seal, StepOK
  <2> QED
    BY <1>5, <2>1 DEF Seal, Shape, Slots, Vault
<1>6. CASE Stop(p)
  <2>1. Moves(p) /\ proc'[p].pc = "down"
    BY <1>6, Stopped DEF Stop
  <2> QED
    BY <1>6, <2>1 DEF Stop, Shape, Moves, Slots, Vault
<1> QED
  BY <1>2, <1>3, <1>4, <1>5, <1>6 DEF EndStep

LEMMA Steps ==
  ASSUME Next
  PROVE  \E p \in Procs :
           \/ \E host \in Setups, env \in KeyOrNone :
                Start(p, host, env) \/ CommandStep(p, host, env)
           \/ LadderStep(p) \/ CheckStep(p) \/ VaultStep(p) \/ EndStep(p)
BY DEF Next, CommandStep, LadderStep, CheckStep, VaultStep, EndStep, KeyOrNone

-----------------------------------------------------------------------------
(* Starts: they take nothing from the slots, and nothing else from the index. *)

Grows ==
  /\ InSlots \subseteq InSlots'
  /\ Safe \subseteq Safe'
  /\ DOMAIN index' \subseteq DOMAIN index \cup InSlots'
  /\ \A c \in Custodies : copies[c] \subseteq copies'[c]

LEMMA OthersKept ==
  ASSUME Shape, Grows, NEW me \in Process, StartOK(me), CopiesOK(me)
  PROVE  StartOK(me)' /\ CopiesOK(me)'
<1>1. StartOK(me)'
  BY DEF Grows, StartOK, Safe
<1>2. ASSUME me.pc = "index"
      PROVE  /\ \A k \in DOMAIN me.index : k \in copies'[me.index[k]]
             /\ Head(me.todo) \in copies'[IF me.host.keychain = "on" THEN "keychain" ELSE "file"]
  <2>1. \A k \in DOMAIN me.index : me.index[k] \in Custodies
    BY DEF Process, Indexes
  <2>2. (IF me.host.keychain = "on" THEN "keychain" ELSE "file") \in Custodies
    BY DEF Custodies
  <2> QED
    BY <1>2, <2>1, <2>2 DEF CopiesOK, HasCopies, Grows
<1>3. CopiesOK(me)'
  BY <1>2 DEF CopiesOK, HasCopies
<1> QED
  BY <1>1, <1>3

\* Nothing is claimed of a process that is between these steps.
LEMMA NothingClaimed ==
  ASSUME NEW me, me.pc \notin {"compare", "copy", "index", "up", "record"}
  PROVE  StartOK(me)
BY DEF StartOK

LEMMA SameFolder ==
  ASSUME UNCHANGED <<Slots, overwritten, index, copies>>
  PROVE  Grows
BY DEF Grows, InSlots, Safe, Slots

LEMMA LadderKept ==
  ASSUME CustodyInv, NEW p \in Procs, LadderStep(p)
  PROVE  Grows /\ UNCHANGED <<record, Vault>> /\ StartOK(proc[p])'
<1> DEFINE me == proc[p]
<1>1. Shape /\ StepOK(me) /\ me \in Process
  BY DEF CustodyInv, Shape
<1>2. UNCHANGED <<record, Vault>>
  BY DEF LadderStep, LadderEnv, LadderKeychain, LadderRefuses, LadderChoose, Store, Verify, Publish
<1>3. PICK to : to = proc'[p]
  OBVIOUS
<1>4. /\ chain \in KeyOrNone /\ file \in KeyOrNone /\ legacy \in KeyOrNone
      /\ None \notin Keys
  BY <1>1, CustodyAssumption DEF Shape
<1>5. ASSUME InSlots \subseteq InSlots'
      PROVE  Grows
  BY <1>2, <1>5 DEF Grows, Safe, Vault
<1>6. ASSUME Slots' = Slots, overwritten' = overwritten
      PROVE  InSlots' = InSlots
  BY <1>6 DEF InSlots, Slots
<1>7. ASSUME NEW k \in Keys, NEW source, source = "env" \/ (k \in InSlots' /\ me.env = None),
             Found(p, source, k), source \in {"env", "keychain", "file"},
             me.pc \in Ladder, me.pc # "compare"
      PROVE  StartOK(to)'
  <2>1. to.pc = "compare" /\ to.source = source /\ to.key = k
    BY <1>1, <1>3, <1>7, Finding
  <2> QED
    BY <1>7, <2>1 DEF StartOK
<1>8. ASSUME Refuse(p), Grows
      PROVE  StartOK(to)'
  <2>1. to.pc = "down" \/ (to.pc = "up" /\ to.key \in Safe)
    BY <1>1, <1>3, <1>8, Refuses
  <2> QED
    BY <1>8, <2>1 DEF StartOK, Grows
<1>9. InSlots \subseteq InSlots' /\ StartOK(to)'
  <2>1. CASE LadderEnv(p)
    <3>1. me.env \in Keys
      BY <1>1, <2>1 DEF LadderEnv, Process, KeyOrNone
    <3> QED
      BY <1>6, <1>7, <2>1, <3>1 DEF LadderEnv, Ladder
  <2>2. CASE LadderKeychain(p)
    <3>1. chain \in Keys /\ chain \in InSlots' /\ InSlots \subseteq InSlots'
      BY <1>4, <2>2 DEF LadderKeychain, RetireLegacy, InSlots, KeyOrNone
    <3> QED
      BY <1>7, <2>2, <3>1 DEF LadderKeychain, Ladder
  <2>3. CASE LadderRefuses(p)
    BY <1>5, <1>6, <1>8, <2>3 DEF LadderRefuses
  <2>4. CASE \E k \in Keys : LadderChoose(p, k)
    <3>1. to.pc \in {"store", "publish"} /\ UNCHANGED <<Slots, overwritten>>
      BY <1>1, <1>3, <2>4 DEF LadderChoose, Shape, Process
    <3> QED
      BY <1>6, <3>1 DEF StartOK
  <2>5. CASE Store(p)
    <3>1. to.pc = "verify"
      BY <1>1, <1>3, <2>5 DEF Store, Go, Shape, Process
    <3>2. InSlots \subseteq InSlots'
      BY <2>5 DEF Store, InSlots
    <3> QED
      BY <3>1, <3>2 DEF StartOK
  <2>6. CASE Verify(p)
    <3>1. me.key \in Keys /\ me.env = None /\ me.pc = "verify"
      BY <1>1, <2>6 DEF Verify, StepOK
    <3>2. CASE chain = me.key
      <4>1. /\ RetireLegacy(chain) /\ Found(p, "keychain", chain)
            /\ UNCHANGED <<chain, file, overwritten>>
        BY <2>6, <3>2 DEF Verify
      <4>2. chain \in InSlots' /\ InSlots \subseteq InSlots'
        BY <1>4, <3>1, <3>2, <4>1 DEF RetireLegacy, InSlots
      <4> QED
        BY <1>7, <3>1, <3>2, <4>1, <4>2 DEF Ladder
    <3>3. CASE chain # me.key
      <4>1. Refuse(p) /\ UNCHANGED <<Slots, overwritten>>
        BY <2>6, <3>3 DEF Verify, Slots
      <4> QED
        BY <1>5, <1>6, <1>8, <4>1
    <3> QED
      BY <3>2, <3>3
  <2>7. CASE Publish(p)
    <3>1. me.key \in Keys /\ me.env = None /\ me.pc = "publish"
      BY <1>1, <2>7 DEF Publish, StepOK
    <3>2. UNCHANGED <<chain, legacy, overwritten>>
      BY <2>7 DEF Publish
    <3>3. \/ file' = file /\ Refuse(p)
          \/ /\ file' \in Keys /\ file' = (IF file = None THEN me.key ELSE file)
             /\ Found(p, "file", file')
      BY <1>4, <2>7, <3>1 DEF Publish, KeyOrNone
    <3>4. CASE file' = file /\ Refuse(p)
      BY <1>5, <1>6, <1>8, <3>2, <3>4 DEF Slots
    <3>5. CASE /\ file' \in Keys /\ file' = (IF file = None THEN me.key ELSE file)
               /\ Found(p, "file", file')
      <4>1. PICK k \in Keys : k = file' /\ Found(p, "file", k)
        BY <3>5
      <4>2. k \in InSlots' /\ InSlots \subseteq InSlots'
        BY <1>4, <3>2, <3>5, <4>1 DEF InSlots
      <4> QED
        BY <1>7, <3>1, <4>1, <4>2 DEF Ladder
    <3> QED
      BY <3>3, <3>4, <3>5
  <2> QED
    BY <2>1, <2>2, <2>3, <2>4, <2>5, <2>6, <2>7 DEF LadderStep
<1> QED
  BY <1>2, <1>3, <1>5, <1>9 DEF StartOK

LEMMA CheckKept ==
  ASSUME CustodyInv, NEW p \in Procs, CheckStep(p)
  PROVE  /\ Grows /\ UNCHANGED <<Slots, record, Vault, overwritten>>
         /\ StartOK(proc[p])'
         /\ proc'[p].pc \in {"down", "up", "copy", "record"}
         /\ proc'[p].pc \notin {"down", "up"} => proc'[p].op = "start"
<1> DEFINE me == proc[p]
<1>1. /\ Shape /\ StepOK(me) /\ StartOK(me) /\ me \in Process
  BY DEF CustodyInv, Shape
<1>2. UNCHANGED <<Slots, record, Vault, overwritten>> /\ me.pc = "compare"
  BY DEF CheckStep, CompareMatches, CompareMismatch, ProbePasses, ProbeFails
<1>3. Grows /\ Safe' = Safe /\ InSlots' = InSlots
  BY <1>2, SameFolder DEF Vault, Safe, InSlots, Slots
<1>4. /\ me.key \in Keys /\ me.op = "start"
      /\ me.source # "env" => me.key \in InSlots /\ me.key \in Safe /\ me.env = None
  BY <1>1, <1>2, CustodyAssumption DEF StepOK, StartOK, Ladder, Safe
<1>5. PICK to : to = proc'[p]
  OBVIOUS
<1> DEFINE Starts(x) == x.pc \notin {"down", "up"} => x.op = "start"
<1>6. ASSUME NEW k \in Keys, k \in Candidates(me.env, me.host.keychain), Recovered(p, k)
      PROVE  StartOK(to)' /\ to.pc \in {"up", "copy", "record"} /\ Starts(to)
  <2>1. me.source # "env" => k \in Safe
    BY <1>1, <1>4, <1>6, CandidateKeys DEF Process
  <2>2. \/ to.pc = "up" /\ to.source = "env"
        \/ to.pc = "record" /\ to.source = "env" /\ to.op = "start"
        \/ /\ to.pc = "copy" /\ me.source # "env" /\ to.op = "start"
           /\ to.key = k /\ to.todo = <<me.key>>
    BY <1>1, <1>2, <1>5, <1>6, Recovers
  <2>3. to.pc = "copy" => Head(to.todo) = me.key
    BY <2>2
  <2> QED
    BY <1>3, <1>4, <2>1, <2>2, <2>3 DEF StartOK
<1>7. ASSUME proc' = [proc EXCEPT ![p] = Down]
      PROVE  StartOK(to)' /\ to.pc = "down" /\ Starts(to)
  BY <1>1, <1>5, <1>7, Stopped DEF StartOK
<1>8. StartOK(to)' /\ to.pc \in {"down", "up", "copy", "record"} /\ Starts(to)
  <2>1. CASE CompareMatches(p)
    <3>1. Opens(p, me.key) \in SUBSET KeyOrNone
      BY <1>1, LoadableKeys DEF Opens, KeyOrNone
    <3>2. to.pc = "up" /\ to.key = me.key /\ to.source = me.source
      BY <1>1, <1>4, <1>5, <2>1, <3>1, Serves DEF CompareMatches
    <3> QED
      BY <1>3, <1>4, <3>2 DEF StartOK
  <2>2. CASE CompareMismatch(p)
    <3>1. me.seen \in Keys
      BY <1>1, <2>2 DEF CompareMismatch, Process, KeyOrNone
    <3>2. \/ Recovered(p, me.seen) /\ me.seen \in Candidates(me.env, me.host.keychain)
          \/ proc' = [proc EXCEPT ![p] = Down]
      BY <2>2 DEF CompareMismatch
    <3> QED
      BY <1>6, <1>7, <3>1, <3>2
  <2>3. CASE ProbePasses(p)
    <3>1. to.pc = "record" /\ to.key = me.key /\ to.source = me.source /\ to.op = me.op
      BY <1>1, <1>5, <2>3 DEF ProbePasses, Shape, Process
    <3> QED
      BY <1>3, <1>4, <3>1 DEF StartOK
  <2>4. CASE ProbeFails(p)
    <3>1. \/ \E k \in Candidates(me.env, me.host.keychain) : Recovered(p, k)
          \/ proc' = [proc EXCEPT ![p] = Down]
      BY <2>4 DEF ProbeFails
    <3>2. Candidates(me.env, me.host.keychain) \subseteq Keys
      BY <1>1, CandidateKeys DEF Process
    <3> QED
      BY <1>6, <1>7, <3>1, <3>2
  <2> QED
    BY <2>1, <2>2, <2>3, <2>4 DEF CheckStep
<1> QED
  BY <1>2, <1>3, <1>5, <1>8 DEF StartOK

-----------------------------------------------------------------------------
(* The vault. *)

LEMMA VaultCopies ==
  ASSUME CustodyInv, NEW p \in Procs, VaultStep(p)
  PROVE  /\ UNCHANGED <<Slots, record, sealed, overwritten>>
         /\ \A c \in Custodies : copies[c] \subseteq copies'[c]
         /\ HasCopies(index)' /\ CopiesOK(proc[p])'
<1> DEFINE me == proc[p]
           k == Head(me.todo)
           c == CopyCustody(p)
<1>1. /\ Shape /\ StepOK(me) /\ CopiesOK(me) /\ HasCopies(index) /\ me \in Process
  BY DEF CustodyInv, Shape
<1>2. /\ UNCHANGED <<Slots, record, sealed, overwritten>>
      /\ me.pc \in {"copy", "index"}
  BY DEF VaultStep, AlreadyRetired, VaultFull, RetireCopy, RetireIndex
<1>3. c \in Custodies /\ c = IF me.host.keychain = "on" THEN "keychain" ELSE "file"
  BY DEF CopyCustody, Custodies
<1>4. k \in Keys /\ \A j \in DOMAIN index : index[j] \in Custodies
  <2>1. me.todo \in Seq(Keys) /\ me.todo # <<>>
    BY <1>1, <1>2 DEF StepOK, Process
  <2> QED
    BY <1>1, <2>1 DEF Shape, Indexes
<1>5. PICK to : to = proc'[p]
  OBVIOUS
<1>6. CASE AlreadyRetired(p) \/ VaultFull(p)
  <2>1. UNCHANGED Vault /\ to.pc # "index"
    BY <1>1, <1>2, <1>5, <1>6, Retires, Stopped DEF AlreadyRetired, VaultFull
  <2>2. HasCopies(index)'
    BY <1>1, <2>1 DEF HasCopies, Vault
  <2> QED
    BY <1>2, <1>5, <2>1, <2>2 DEF Vault, CopiesOK
<1>7. CASE RetireCopy(p)
  <2>1. /\ to.index = index /\ to.todo = me.todo /\ to.host = me.host /\ index' = index
    BY <1>1, <1>5, <1>7 DEF RetireCopy, Shape, Process
  <2>2. copies' = [copies EXCEPT ![c] = @ \cup {k}]
    BY <1>7 DEF RetireCopy
  <2>3. copies \in [Custodies -> SUBSET Keys]
    BY <1>1 DEF Shape
  <2> HIDE DEF c, k
  <2>4. (\A d \in Custodies : copies[d] \subseteq copies'[d]) /\ k \in copies'[c]
    BY <1>3, <2>2, <2>3
  <2>5. \A j \in DOMAIN index : j \in copies'[index[j]]
    BY <1>1, <1>4, <2>4 DEF HasCopies
  <2>6. HasCopies(index)'
    BY <2>1, <2>5 DEF HasCopies
  <2>7. Head(to.todo) \in copies'[IF to.host.keychain = "on" THEN "keychain" ELSE "file"]
    BY <1>3, <2>1, <2>4 DEF k
  <2>8. \A j \in DOMAIN to.index : j \in copies'[to.index[j]]
    BY <2>1, <2>5
  <2>9. CopiesOK(to)'
    BY <2>7, <2>8 DEF CopiesOK, HasCopies
  <2>10. CopiesOK(proc[p])'
    BY <1>5, <2>9 DEF CopiesOK
  <2> QED
    BY <1>2, <2>4, <2>6, <2>10
<1>8. CASE RetireIndex(p)
  <2>1. index' = IndexWith(me.index, k, c) /\ copies' = copies /\ me.pc = "index" /\ to.pc # "index"
    BY <1>1, <1>2, <1>5, <1>8, Retires DEF RetireIndex
  <2>2. me.index \in Indexes
    BY <1>1 DEF Process
  <2>3. HasCopies(me.index) /\ k \in copies[c]
    BY <1>1, <1>3, <2>1 DEF CopiesOK
  <2> HIDE DEF c, k
  <2>4. /\ DOMAIN index' = DOMAIN me.index \cup {k} /\ index'[k] = c
        /\ \A j \in DOMAIN me.index \ {k} : index'[j] = me.index[j]
    BY <2>1 DEF IndexWith
  <2>5. \A j \in DOMAIN index' : j \in copies'[index'[j]]
    BY <2>1, <2>3, <2>4 DEF HasCopies
  <2>6. HasCopies(index)'
    BY <2>5 DEF HasCopies
  <2> QED
    BY <1>2, <1>5, <2>1, <2>6 DEF CopiesOK
<1> QED
  BY <1>6, <1>7, <1>8 DEF VaultStep

LEMMA VaultByStart ==
  ASSUME CustodyInv, NEW p \in Procs, VaultStep(p), proc[p].op = "start"
  PROVE  /\ Grows /\ StartOK(proc[p])'
         /\ proc'[p].pc \notin {"down", "up"} => proc'[p].op = "start"
<1> DEFINE me == proc[p]
           k == Head(me.todo)
<1>1. /\ Shape /\ StepOK(me) /\ StartOK(me) /\ me \in Process
  BY DEF CustodyInv, Shape
<1>2. me.pc \in {"copy", "index"}
  BY DEF VaultStep, AlreadyRetired, VaultFull, RetireCopy, RetireIndex
<1>3. /\ k \in InSlots /\ me.key \in Safe /\ me.source # "env" /\ Tail(me.todo) = <<>>
  BY <1>1, <1>2 DEF StartOK, StepOK
<1>4. /\ UNCHANGED <<Slots, record, sealed, overwritten>> /\ InSlots' = InSlots
      /\ \A c \in Custodies : copies[c] \subseteq copies'[c]
  BY VaultCopies DEF InSlots, Slots
<1>5. PICK to : to = proc'[p]
  OBVIOUS
<1>6. ASSUME Grows, RetireNext(p)
      PROVE  StartOK(to)' /\ (to.pc \notin {"down", "up"} => to.op = "start")
  <2>1. me.key \in Safe'
    BY <1>3, <1>6 DEF Grows
  <2>2. \/ to.pc = "down"
        \/ to.pc = "up" /\ to.key = me.key /\ to.source = me.source
        \/ /\ to.pc \in {"record", "install", "remove"} /\ to.key = me.key /\ to.op = "start"
    <3>1. \/ to.pc = "down"
          \/ to.pc = "up" /\ to.key = me.key /\ to.source = me.source
          \/ /\ to.pc \in {"copy", "record", "install", "remove"}
             /\ to.pc = "copy" <=> Tail(me.todo) # <<>>
             /\ \A x \in {"op", "host", "key", "source"} : to[x] = me[x]
      BY <1>1, <1>2, <1>5, <1>6, Retires
    <3> QED
      BY <1>3, <3>1
  <2> QED
    BY <2>1, <2>2 DEF StartOK
<1>7. CASE AlreadyRetired(p) \/ VaultFull(p)
  <2>1. UNCHANGED <<index, copies>> /\ RetireNext(p)
    BY <1>7 DEF AlreadyRetired, VaultFull, Vault
  <2>2. Grows
    BY <1>4, <2>1, SameFolder
  <2> QED
    BY <1>5, <1>6, <2>1, <2>2 DEF StartOK
<1>8. CASE RetireCopy(p)
  <2>1. /\ to.pc = "index" /\ to.index = index /\ to.todo = me.todo /\ to.op = me.op
        /\ to.key = me.key /\ index' = index
    BY <1>1, <1>5, <1>8 DEF RetireCopy, Shape, Process
  <2>2. Safe' = Safe
    BY <1>4, <2>1 DEF Safe
  <2>3. Grows
    BY <1>4, <2>1, <2>2 DEF Grows
  <2>4. StartOK(to)'
    BY <1>3, <1>4, <2>1, <2>2 DEF StartOK, Safe
  <2> QED
    BY <1>5, <2>1, <2>3, <2>4 DEF StartOK
<1>9. CASE RetireIndex(p)
  <2>1. /\ index' = IndexWith(me.index, k, CopyCustody(p)) /\ me.pc = "index"
        /\ RetireNext(p)
    BY <1>9 DEF RetireIndex
  <2>2. DOMAIN index' = DOMAIN me.index \cup {k}
    BY <2>1 DEF IndexWith
  <2>3. DOMAIN index \ InSlots \subseteq DOMAIN me.index /\ DOMAIN me.index \subseteq Safe
    BY <1>1, <2>1 DEF StartOK
  <2>4. Grows
    BY <1>3, <1>4, <2>2, <2>3 DEF Grows, Safe
  <2> QED
    BY <1>5, <1>6, <2>1, <2>4 DEF StartOK
<1> QED
  BY <1>7, <1>8, <1>9 DEF VaultStep

LEMMA VaultByCommand ==
  ASSUME CustodyInv, NEW p \in Procs, VaultStep(p), proc[p].op \in Commands
  PROVE  /\ DOMAIN index \subseteq DOMAIN index'
         /\ StartOK(proc[p])' /\ CommandOK(proc[p])'
<1> DEFINE me == proc[p]
           k == Head(me.todo)
<1>1. /\ Shape /\ StepOK(me) /\ CommandOK(me) /\ me \in Process
  BY DEF CustodyInv, Shape
<1>2. me.pc \in {"copy", "index"} /\ me.op # "start" /\ me.todo \in Seq(Keys) /\ me.todo # <<>>
  <2>1. me.pc \in {"copy", "index"}
    BY DEF VaultStep, AlreadyRetired, VaultFull, RetireCopy, RetireIndex
  <2> QED
    BY <1>1, <2>1 DEF StepOK, Process, Commands
<1>3. ToSet(me.todo) = {k} \cup ToSet(Tail(me.todo))
  <2>1. DOMAIN me.todo = 1..Len(me.todo) /\ Len(me.todo) \in Nat \ {0}
    BY <1>2
  <2>2. DOMAIN Tail(me.todo) = 1..(Len(me.todo) - 1)
    BY <1>2
  <2>3. k = me.todo[1] /\ \A i \in 1..(Len(me.todo) - 1) : Tail(me.todo)[i] = me.todo[i + 1]
    BY <1>2
  <2>4. ASSUME NEW x \in ToSet(me.todo), x # k PROVE x \in ToSet(Tail(me.todo))
    <3>1. PICK i \in 1..Len(me.todo) : me.todo[i] = x
      BY <2>1, <2>4 DEF ToSet
    <3>2. i - 1 \in 1..(Len(me.todo) - 1) /\ (i - 1) + 1 = i
      BY <2>1, <2>3, <2>4, <3>1
    <3>3. Tail(me.todo)[i - 1] = x
      BY <2>3, <3>1, <3>2
    <3> QED
      BY <2>2, <3>2, <3>3 DEF ToSet
  <2>5. ASSUME NEW x \in ToSet(Tail(me.todo)) PROVE x \in ToSet(me.todo)
    <3>1. PICK i \in 1..(Len(me.todo) - 1) : Tail(me.todo)[i] = x
      BY <2>2, <2>5 DEF ToSet
    <3>2. i + 1 \in 1..Len(me.todo)
      BY <2>1, <3>1
    <3> QED
      BY <2>1, <2>3, <3>1, <3>2 DEF ToSet
  <2>6. k \in ToSet(me.todo)
    BY <2>1, <2>3 DEF ToSet
  <2> QED
    BY <2>4, <2>5, <2>6
<1>4. UNCHANGED <<Slots, record, sealed, overwritten>>
  BY VaultCopies
<1>5. PICK to : to = proc'[p]
  OBVIOUS
<1>6. ASSUME DOMAIN index \subseteq DOMAIN index', k \in DOMAIN index', RetireNext(p)
      PROVE  StartOK(to)' /\ CommandOK(to)'
  <2>1. \/ to.pc = "down"
        \/ /\ to.pc \in {"copy", "record", "install", "remove"}
           /\ to.todo = Tail(me.todo)
           /\ \A x \in {"op", "host", "key", "source"} : to[x] = me[x]
    BY <1>1, <1>2, <1>5, <1>6, Retires
  <2>2. to.op = me.op \/ to.op = None
    <3>1. StepOK(to)
      BY <1>1, <1>2, <1>5, <1>6, Retires DEF Moves
    <3> QED
      BY <2>1, <3>1 DEF StepOK
  <2>3. None \notin Commands
    BY CustodyAssumption
  <2>4. StartOK(to)'
    <3>1. CASE to.pc = "down"
      BY <3>1 DEF StartOK
    <3>2. CASE to.pc # "down"
      BY <1>2, <2>1, <3>2 DEF StartOK
    <3> QED
      BY <3>1, <3>2
  <2>5. CASE to.op = None
    BY <2>3, <2>4, <2>5 DEF CommandOK, Commands
  <2>6. CASE to.op # None
    <3>1. to.pc # "down" /\ to.op = me.op /\ to.host = me.host /\ to.key = me.key
          /\ to.source = me.source /\ to.todo = Tail(me.todo) /\ to.pc # "index"
      <4>1. to.pc # "down"
        <5>1. StepOK(to)
          BY <1>1, <1>2, <1>5, <1>6, Retires DEF Moves
        <5> QED
          BY <2>6, <5>1 DEF StepOK
      <4> QED
        BY <2>1, <4>1
    <3>2. PICK kc : kc = me.host.keychain
      OBVIOUS
    <3>3. PersistentKeys(kc)' = PersistentKeys(kc) /\ Live(None, kc)' = Live(None, kc)
      BY <1>4 DEF PersistentKeys, Live, Slots
    <3>4. to.op = "retire" =>
            /\ to.key # record'
            /\ to.source = "file" => file' = to.key
            /\ to.source = "legacy" => legacy' = to.key
      BY <1>1, <1>4, <3>1 DEF CommandOK, Slots
    <3>5. me.op = "install" =>
            (PersistentKeys(kc) \cup ({record} \cap Live(None, kc))) \ {me.key}
              \subseteq DOMAIN index' \cup ToSet(to.todo)
      BY <1>1, <1>3, <1>6, <3>1, <3>2 DEF CommandOK
    <3>6. to.op = "install" =>
            (PersistentKeys(kc)' \cup ({record'} \cap Live(None, kc)')) \ {to.key}
              \subseteq DOMAIN index' \cup ToSet(to.todo)
      BY <1>4, <3>1, <3>3, <3>5
    <3> QED
      BY <2>4, <3>1, <3>2, <3>4, <3>6 DEF CommandOK
  <2> QED
    BY <2>4, <2>5, <2>6
<1>7. CASE AlreadyRetired(p)
  BY <1>5, <1>6, <1>7 DEF AlreadyRetired, Vault, StartOK, CommandOK
<1>8. CASE VaultFull(p)
  <2>1. UNCHANGED index /\ to.pc = "down"
    BY <1>1, <1>2, <1>5, <1>8, Stopped DEF VaultFull, Vault
  <2>2. to.op = None
    <3>1. StepOK(to)
      BY <1>1, <1>5, <1>8, VaultMoves DEF VaultStep, Moves
    <3> QED
      BY <2>1, <3>1 DEF StepOK
  <2> QED
    BY <1>5, <2>1, <2>2, CustodyAssumption DEF StartOK, CommandOK, Commands
<1>9. CASE RetireCopy(p)
  <2>1. /\ to.pc = "index" /\ to.index = index /\ to.todo = me.todo /\ to.op = me.op
        /\ to.key = me.key /\ to.host = me.host /\ to.source = me.source /\ index' = index
    BY <1>1, <1>5, <1>9 DEF RetireCopy, Shape, Process
  <2>2. CommandOK(to)'
    BY <1>1, <1>4, <2>1 DEF CommandOK, PersistentKeys, Live, Slots
  <2> QED
    BY <1>2, <1>5, <2>1, <2>2 DEF StartOK, CommandOK
<1>10. CASE RetireIndex(p)
  <2>1. /\ index' = IndexWith(me.index, k, CopyCustody(p)) /\ me.index = index /\ RetireNext(p)
    BY <1>1, <1>10 DEF RetireIndex, CommandOK
  <2>2. DOMAIN index' = DOMAIN index \cup {k}
    BY <2>1 DEF IndexWith
  <2> QED
    BY <1>5, <1>6, <2>1, <2>2 DEF StartOK, CommandOK
<1> QED
  BY <1>7, <1>8, <1>9, <1>10 DEF VaultStep

-----------------------------------------------------------------------------
(* The inductive step. *)

\* A start, or a process that serves, leaves what the others know as it is.
LEMMA ByStart ==
  ASSUME CustodyInv, Shape', NEW p \in Procs, \A q \in Procs \ {p} : proc'[q] = proc[q],
         \A q \in Procs \ {p} : proc[q].op \notin Commands,
         proc'[p].op \notin Commands,
         Grows, HasCopies(index)',
         StepOK(proc[p])', StartOK(proc[p])', CopiesOK(proc[p])'
  PROVE  CustodyInv'
<1>1. \A q \in Procs : proc'[q].op \notin Commands
  OBVIOUS
<1>2. Alone'
  BY <1>1 DEF Alone
<1>3. ASSUME NEW q \in Procs
      PROVE  StepOK(proc[q])' /\ StartOK(proc[q])' /\ CommandOK(proc[q])' /\ CopiesOK(proc[q])'
  <2>1. CommandOK(proc[q])'
    BY <1>1 DEF CommandOK, Commands
  <2>2. CASE q = p
    BY <2>1, <2>2
  <2>3. CASE q # p
    <3>1. PICK me : me = proc[q]
      OBVIOUS
    <3>2. proc'[q] = me /\ me \in Process /\ StepOK(me) /\ StartOK(me) /\ CopiesOK(me) /\ Shape
      BY <2>3, <3>1 DEF CustodyInv, Shape
    <3>3. StartOK(me)' /\ CopiesOK(me)'
      BY <3>2, OthersKept
    <3>4. StartOK(proc[q])'
      BY <3>2, <3>3 DEF StartOK
    <3>5. CopiesOK(proc[q])'
      BY <3>2, <3>3 DEF CopiesOK, HasCopies
    <3>6. StepOK(proc[q])'
      BY <3>2
    <3> QED
      BY <2>1, <3>4, <3>5, <3>6
  <2> QED
    BY <2>2, <2>3
<1> QED
  BY <1>2, <1>3 DEF CustodyInv

\* While a command runs there is nobody else.
LEMMA ByCommand ==
  ASSUME Shape', NEW p \in Procs, \A q \in Procs \ {p} : proc'[q].pc = "down",
         \A q \in Procs \ {p} : StepOK(proc[q])',
         HasCopies(index)',
         StepOK(proc[p])', StartOK(proc[p])', CommandOK(proc[p])', CopiesOK(proc[p])'
  PROVE  CustodyInv'
<1>1. None \notin Commands
  BY CustodyAssumption
<1>2. \A q \in Procs \ {p} : proc'[q].op = None
  BY DEF StepOK
<1>3. Alone'
  BY <1>1, <1>2 DEF Alone
<1>4. ASSUME NEW q \in Procs
      PROVE  StepOK(proc[q])' /\ StartOK(proc[q])' /\ CommandOK(proc[q])' /\ CopiesOK(proc[q])'
  <2>1. CASE q = p
    BY <2>1
  <2>2. CASE q # p
    <3>1. proc'[q].pc = "down" /\ proc'[q].op = None
      BY <1>2, <2>2
    <3>2. CommandOK(proc[q])'
      BY <1>1, <3>1 DEF CommandOK, Commands
    <3>3. StartOK(proc[q])' /\ CopiesOK(proc[q])'
      BY <3>1 DEF StartOK, CopiesOK
    <3> QED
      BY <2>2, <3>2, <3>3
  <2> QED
    BY <2>1, <2>2
<1> QED
  BY <1>3, <1>4 DEF CustodyInv

LEMMA CopiesStay ==
  ASSUME HasCopies(index), UNCHANGED Vault
  PROVE  HasCopies(index)'
BY DEF HasCopies, Vault

LEMMA CustodyInit == Init => CustodyInv
<1> SUFFICES ASSUME Init PROVE CustodyInv
  OBVIOUS
<1>1. index = [k \in {} |-> "file"] /\ copies = [c \in Custodies |-> {}] /\ proc = [p \in Procs |-> Down]
  BY DEF Init
<1>2. DOMAIN index = {} /\ index \in [{} -> Custodies]
  BY <1>1
<1>3. index \in Indexes
  BY <1>2 DEF Indexes
<1>4. Cardinality(DOMAIN index) <= Full
  BY <1>2, FS_EmptySet, CustodyAssumption
<1>5. /\ chain \in KeyOrNone /\ legacy \in KeyOrNone /\ sealed \subseteq Keys /\ known \subseteq Keys
      /\ file = None /\ record = None /\ overwritten = {} /\ ops \in 0..MaxOps
  <2>1. chain \in KeyOrNone /\ legacy \in KeyOrNone
    BY DEF Init, KeyOrNone
  <2>2. ops \in 0..MaxOps
    BY CustodyAssumption DEF Init
  <2> QED
    BY <2>1, <2>2 DEF Init, KeyOrNone
<1>6. Shape
  BY <1>1, <1>3, <1>4, <1>5, DownOK DEF Shape, KeyOrNone
<1>7. Down.pc = "down" /\ Down.op = None /\ None \notin Commands
  BY CustodyAssumption DEF Down
<1>8. StartOK(Down) /\ CommandOK(Down) /\ CopiesOK(Down)
  BY <1>7 DEF StartOK, CommandOK, CopiesOK, Commands
<1>9. HasCopies(index)
  BY <1>2 DEF HasCopies
<1> QED
  BY <1>1, <1>6, <1>7, <1>8, <1>9, DownOK DEF CustodyInv, Alone

\* Nobody runs a command beside a process that is running.
LEMMA NoCommandBeside ==
  ASSUME CustodyInv, NEW p \in Procs, proc[p].pc # "down"
  PROVE  \A q \in Procs \ {p} : proc[q].op \notin Commands
BY DEF CustodyInv, Alone

LEMMA StartKept ==
  ASSUME CustodyInv, NEW p \in Procs, NEW host \in Setups, NEW env \in KeyOrNone,
         Start(p, host, env)
  PROVE  CustodyInv' /\ Grows /\ UNCHANGED <<Slots, record, Vault, sealed, overwritten>>
<1>1. Shape /\ HasCopies(index)
  BY DEF CustodyInv
<1>2. Moves(p) /\ proc'[p].pc = "ladder" /\ proc'[p].op = "start"
  BY <1>1, StartMoves
<1>3. /\ UNCHANGED <<Slots, record, Vault, sealed, overwritten>>
      /\ \A q \in Procs : proc[q].op \in {None, "start"}
      /\ known' = known \cup ({env} \ {None}) /\ ops < MaxOps /\ ops' = ops + 1
  BY DEF Start
<1>4. ops' \in 0..MaxOps /\ known' \subseteq Keys
  <2>1. MaxOps \in Nat /\ ops \in 0..MaxOps /\ known \subseteq Keys
    BY <1>1, CustodyAssumption DEF Shape
  <2>2. ops' \in 0..MaxOps
    BY <1>3, <2>1
  <2> QED
    BY <1>3, <2>1, <2>2 DEF KeyOrNone
<1>5. Shape'
  BY <1>1, <1>2, <1>3, <1>4 DEF Shape, Moves, Slots, Vault
<1>6. None \notin Commands /\ "start" \notin Commands
  BY CustodyAssumption DEF Commands
<1>7. Grows
  BY <1>3, SameFolder DEF Vault
<1>8. StartOK(proc[p])' /\ CopiesOK(proc[p])' /\ StepOK(proc[p])'
  BY <1>2 DEF StartOK, CopiesOK, Moves
<1>9. HasCopies(index)'
  BY <1>1, <1>3, CopiesStay
<1> QED
  BY <1>2, <1>3, <1>5, <1>6, <1>7, <1>8, <1>9, ByStart DEF Moves

LEMMA CommandKept ==
  ASSUME CustodyInv, NEW p \in Procs, NEW host \in Setups, NEW env \in KeyOrNone,
         CommandStep(p, host, env)
  PROVE  CustodyInv'
<1>1. Shape /\ HasCopies(index) /\ \A q \in Procs : StepOK(proc[q])
  BY DEF CustodyInv
<1>2. PICK to : to = proc'[p]
  OBVIOUS
<1>3. PICK kc : kc = to.host.keychain
  OBVIOUS
<1>4. /\ Moves(p) /\ Shape'
      /\ UNCHANGED <<Slots, record, Vault, sealed, overwritten>>
      /\ \A q \in Procs : ~Running(q)
      /\ to.pc \in {"copy", "install", "down"}
      /\ to.op \in Commands \cup {None}
      /\ to.op = "install" =>
           PersistentKeys(kc) \cup ({record} \cap Live(None, kc)) \subseteq ToSet(to.todo) \cup {to.key}
      /\ to.op = "retire" =>
           /\ to.key # record
           /\ to.source = "file" => file = to.key
           /\ to.source = "legacy" => legacy = to.key
  BY <1>1, <1>2, <1>3, CommandsBegin
<1>5. PersistentKeys(kc)' = PersistentKeys(kc) /\ Live(None, kc)' = Live(None, kc)
  BY <1>4 DEF PersistentKeys, Live, Slots
<1>6. to.op = "install" =>
        (PersistentKeys(kc)' \cup ({record'} \cap Live(None, kc)')) \ {to.key}
          \subseteq DOMAIN index' \cup ToSet(to.todo)
  BY <1>4, <1>5
<1>7. to.op = "retire" =>
        /\ to.key # record'
        /\ to.source = "file" => file' = to.key
        /\ to.source = "legacy" => legacy' = to.key
  BY <1>4 DEF Slots
<1>8. CommandOK(proc[p])'
  BY <1>2, <1>3, <1>4, <1>6, <1>7 DEF CommandOK
<1>9. to.op # "start"
  BY <1>4, CustodyAssumption DEF Commands
<1>10. StartOK(proc[p])' /\ CopiesOK(proc[p])'
  BY <1>2, <1>4, <1>9 DEF StartOK, CopiesOK
<1>11. HasCopies(index)'
  BY <1>1, <1>4, CopiesStay
<1>12. \A q \in Procs \ {p} : proc'[q].pc = "down" /\ StepOK(proc[q])'
  BY <1>1, <1>4 DEF Moves, Running
<1> QED
  BY <1>4, <1>8, <1>10, <1>11, <1>12, ByCommand DEF Moves

\* What the end of an install leaves in its slots: the new key, and what was there
\* is retired.
LEMMA InstallKept ==
  ASSUME CustodyInv, NEW p \in Procs, InstallKey(p)
  PROVE  CommandOK(proc[p])'
<1> DEFINE me == proc[p]
<1>1. /\ Shape /\ StepOK(me) /\ CommandOK(me) /\ me \in Process
  BY DEF CustodyInv, Shape
<1>2. me.pc = "install" /\ me.op = "install" /\ me.todo = <<>> /\ me.key \in Keys
  BY <1>1 DEF InstallKey, StepOK
<1>3. PICK to : to = proc'[p]
  OBVIOUS
<1>4. PICK kc : kc = me.host.keychain
  OBVIOUS
<1>5. StepOK(to) /\ (\/ to.pc = "down"
                     \/ /\ to.pc = "record"
                        /\ to.op = me.op /\ to.host = me.host /\ to.key = me.key /\ to.todo = me.todo)
  <2>1. CASE to.pc = "down"
    BY <1>1, <1>3, <2>1, EndMoves DEF EndStep
  <2>2. CASE to.pc # "down"
    <3>1. StepOK(to) /\ (InstallKey(p) => \/ Seal(p) \/ WriteRecord(p)
                         \/ (to.pc = "record" /\ \A x \in {"op", "host", "key", "todo"} : to[x] = me[x]))
      BY <1>1, <1>3, <2>2, EndMoves DEF EndStep
    <3>2. ~Seal(p) /\ ~WriteRecord(p)
      BY <1>2 DEF Seal, WriteRecord
    <3> QED
      BY <3>1, <3>2
  <2> QED
    BY <2>1, <2>2
<1>6. CASE to.pc = "down"
  BY <1>3, <1>5, <1>6, CustodyAssumption DEF StepOK, CommandOK, Commands
<1>7. CASE to.pc = "record" /\ to.op = me.op /\ to.host = me.host /\ to.key = me.key /\ to.todo = me.todo
  <2>1. /\ UNCHANGED <<legacy, record, index>>
        /\ \/ kc = "on" /\ chain' = me.key /\ file' = file
           \/ /\ kc # "on" /\ chain' = chain
              /\ file' = me.key \/ file' = file
    BY <1>2, <1>4 DEF InstallKey, Vault
  <2>2. PersistentKeys(kc)' \subseteq PersistentKeys(kc) \cup {me.key}
    BY <1>1, <1>2, <2>1, CustodyAssumption DEF PersistentKeys, Shape, KeyOrNone, Reads
  <2>3. Live(None, kc)' \subseteq Live(None, kc) \cup {me.key}
    BY <2>1 DEF Live, Reads
  <2>4. ToSet(<<>>) = {}
    BY DEF ToSet
  <2>5. (PersistentKeys(kc) \cup ({record} \cap Live(None, kc))) \ {me.key} \subseteq DOMAIN index
    BY <1>1, <1>2, <1>4, <2>4 DEF CommandOK
  <2>6. (PersistentKeys(kc)' \cup ({record'} \cap Live(None, kc)')) \ {me.key} \subseteq DOMAIN index'
    BY <2>1, <2>2, <2>3, <2>5
  <2>7. to.op # "retire" /\ to.pc # "index"
    BY <1>2, <1>7
  <2> QED
    BY <1>3, <1>4, <1>7, <2>6, <2>7 DEF CommandOK
<1> QED
  BY <1>5, <1>6, <1>7

LEMMA EndKept ==
  ASSUME CustodyInv, NEW p \in Procs, EndStep(p)
  PROVE  /\ CustodyInv'
         /\ proc[p].op \notin Commands => Grows
<1> DEFINE me == proc[p]
<1>1. /\ Shape /\ StepOK(me) /\ StartOK(me) /\ CommandOK(me) /\ me \in Process /\ HasCopies(index)
  BY DEF CustodyInv, Shape
<1>2. PICK to : to = proc'[p]
  OBVIOUS
<1>3. /\ Shape' /\ \A q \in Procs \ {p} : proc'[q] = proc[q]
      /\ StepOK(to)
      /\ \/ to.pc = "down"
         \/ Seal(p) /\ to = me
         \/ /\ WriteRecord(p) /\ to.pc = "up"
            /\ me.op = "start" /\ to.key = me.key /\ to.source = me.source
         \/ /\ InstallKey(p) /\ to.pc = "record"
            /\ \A x \in {"op", "host", "key", "todo"} : to[x] = me[x]
  BY <1>1, <1>2, EndMoves
<1>4. me.pc # "down" /\ UNCHANGED <<index, copies, overwritten>>
  BY DEF EndStep, WriteRecord, InstallKey, RemoveRetired, Seal, Stop, Running, Vault
<1>5. \A q \in Procs \ {p} : proc[q].op \notin Commands
  BY <1>4, NoCommandBeside
<1>6. HasCopies(index)'
  BY <1>1, <1>4, CopiesStay DEF Vault
<1>7. None \notin Commands /\ "start" \notin Commands /\ None # "start"
  BY CustodyAssumption DEF Commands
<1>8. ASSUME me.op \notin Commands
      PROVE  UNCHANGED <<Slots, overwritten, index, copies>>
  <2>1. ~InstallKey(p) /\ ~RemoveRetired(p)
    BY <1>1, <1>8 DEF InstallKey, RemoveRetired, StepOK, Commands
  <2> QED
    BY <1>4, <2>1 DEF EndStep, WriteRecord, Seal, Stop
<1>9. CASE me.op \notin Commands
  <2>1. Grows /\ Safe' = Safe
    BY <1>8, <1>9, SameFolder DEF Safe, InSlots, Slots
  <2>2. StartOK(to)' /\ CopiesOK(to)' /\ to.op \notin Commands
    <3>1. CASE to.pc = "down"
      BY <1>3, <1>7, <3>1 DEF StepOK, StartOK, CopiesOK
    <3>2. CASE Seal(p) /\ to = me
      <4>1. me.pc = "up" /\ me.op = None
        BY <1>1, <3>2 DEF Seal, StepOK
      <4> QED
        BY <1>1, <1>7, <2>1, <3>2, <4>1 DEF StartOK, CopiesOK
    <3>3. CASE /\ WriteRecord(p) /\ to.pc = "up"
               /\ me.op = "start" /\ to.key = me.key /\ to.source = me.source
      <4>1. me.pc = "record"
        BY <3>3 DEF WriteRecord
      <4>2. to.op = None
        BY <1>3, <3>3 DEF StepOK
      <4> QED
        BY <1>1, <1>7, <2>1, <3>3, <4>1, <4>2 DEF StartOK, CopiesOK
    <3>4. ~(InstallKey(p) /\ to.pc = "record")
      BY <1>1, <1>9 DEF InstallKey, StepOK, Commands
    <3> QED
      BY <1>3, <3>1, <3>2, <3>3, <3>4
  <2>3. StepOK(proc[p])' /\ StartOK(proc[p])' /\ CopiesOK(proc[p])'
    BY <1>2, <1>3, <2>2 DEF StartOK, CopiesOK, HasCopies
  <2> QED
    BY <1>2, <1>3, <1>5, <1>6, <2>1, <2>2, <2>3, ByStart
<1>10. CASE me.op \in Commands
  <2>1. \A q \in Procs \ {p} : proc'[q].pc = "down" /\ StepOK(proc[q])'
    BY <1>3, <1>10 DEF CustodyInv, Alone
  <2>2. ~Seal(p) /\ me.op # "start"
    BY <1>1, <1>7, <1>10 DEF Seal, StepOK
  <2>3. \/ to.pc = "down" /\ to.op = None
        \/ InstallKey(p) /\ to.pc = "record" /\ to.op = me.op
    BY <1>3, <2>2 DEF StepOK
  <2>4. StartOK(to)' /\ CopiesOK(to)'
    BY <1>7, <2>2, <2>3 DEF StartOK, CopiesOK
  <2>5. CommandOK(proc[p])'
    <3>1. CASE to.pc = "down" /\ to.op = None
      BY <1>2, <1>7, <3>1 DEF CommandOK, Commands
    <3>2. CASE InstallKey(p)
      BY <3>2, InstallKept
    <3> QED
      BY <2>3, <3>1, <3>2
  <2>6. StepOK(proc[p])' /\ StartOK(proc[p])' /\ CopiesOK(proc[p])'
    BY <1>2, <1>3, <2>4 DEF StartOK, CopiesOK, HasCopies
  <2> QED
    BY <1>3, <1>6, <1>10, <2>1, <2>5, <2>6, ByCommand
<1> QED
  BY <1>9, <1>10

\* A step of a start, or of a process that serves, takes no key out of custody.
LEMMA StartsGrow ==
  ASSUME CustodyInv, NEW p \in Procs, proc[p].op \notin Commands,
         LadderStep(p) \/ CheckStep(p) \/ VaultStep(p) \/ EndStep(p)
  PROVE  Grows
<1>1. VaultStep(p) => proc[p].op = "start"
  <2>1. VaultStep(p) => proc[p].pc \in {"copy", "index"}
    BY DEF VaultStep, AlreadyRetired, VaultFull, RetireCopy, RetireIndex
  <2>2. StepOK(proc[p]) /\ proc[p] \in Process
    BY DEF CustodyInv, Shape
  <2> QED
    BY <2>1, <2>2 DEF StepOK, Process
<1> QED
  BY <1>1, LadderKept, CheckKept, VaultByStart, EndKept

LEMMA CustodyNext ==
  ASSUME CustodyInv, Next
  PROVE  CustodyInv'
<1>1. PICK p \in Procs :
        \/ \E host \in Setups, env \in KeyOrNone :
             Start(p, host, env) \/ CommandStep(p, host, env)
        \/ LadderStep(p) \/ CheckStep(p) \/ VaultStep(p) \/ EndStep(p)
  BY Steps
<1> DEFINE me == proc[p]
<1>2. /\ Shape /\ StepOK(me) /\ me \in Process /\ HasCopies(index)
  BY DEF CustodyInv, Shape
<1>3. None \notin Commands /\ "start" \notin Commands /\ None # "start"
  BY CustodyAssumption DEF Commands
<1>4. PICK to : to = proc'[p]
  OBVIOUS
<1>5. CASE \E host \in Setups, env \in KeyOrNone :
             Start(p, host, env) \/ CommandStep(p, host, env)
  BY <1>5, StartKept, CommandKept
<1>6. CASE LadderStep(p)
  <2>1. Moves(p) /\ Shape'
    BY <1>2, <1>6, LadderMoves
  <2>2. Grows /\ UNCHANGED <<record, Vault>> /\ StartOK(proc[p])'
    BY <1>6, LadderKept
  <2>3. me.pc \in Ladder /\ me.op = "start"
    <3>1. me.pc \in Ladder
      BY <1>6 DEF LadderStep, LadderEnv, LadderKeychain, LadderRefuses, LadderChoose, Store,
                  Verify, Publish, Ladder
    <3> QED
      BY <1>2, <3>1 DEF StepOK
  <2>4. to.pc # "index" /\ to.op \notin Commands
    <3>1. ASSUME Refuse(p) PROVE to.pc \in {"down", "up"}
      BY <1>2, <1>4, <3>1, Refuses
    <3>2. ASSUME NEW k, NEW source, Found(p, source, k) PROVE to.pc = "compare"
      BY <1>2, <1>4, <3>2 DEF Found, Shape, Process
    <3>3. ASSUME NEW k \in Keys, LadderChoose(p, k) PROVE to.pc \in {"store", "publish"}
      BY <1>2, <1>4, <3>3 DEF LadderChoose, Shape, Process
    <3>4. Store(p) => to.pc = "verify"
      BY <1>2, <1>4 DEF Store, Go, Shape, Process
    <3>5. to.pc \in Ladder \cup {"down", "up"}
      BY <1>6, <3>1, <3>2, <3>3, <3>4 DEF LadderStep, LadderEnv, LadderKeychain, LadderRefuses,
                  Verify, Publish, Ladder
    <3> QED
      BY <1>3, <1>4, <2>1, <3>5 DEF Moves, StepOK, Ladder
  <2>5. me.pc # "down"
    BY <2>3 DEF Ladder
  <2>6. \A q \in Procs \ {p} : proc[q].op \notin Commands
    BY <2>5, NoCommandBeside
  <2>7. HasCopies(index)' /\ CopiesOK(proc[p])' /\ StepOK(proc[p])'
    BY <1>2, <1>4, <2>1, <2>2, <2>4, CopiesStay DEF CopiesOK, Moves
  <2> QED
    BY <1>4, <2>1, <2>2, <2>4, <2>6, <2>7, ByStart DEF Moves
<1>7. CASE CheckStep(p)
  <2>1. Moves(p) /\ Shape'
    BY <1>2, <1>7, CheckMoves
  <2>2. /\ Grows /\ UNCHANGED <<Slots, record, Vault, overwritten>>
        /\ StartOK(proc[p])'
        /\ to.pc \in {"down", "up", "copy", "record"}
        /\ to.pc \notin {"down", "up"} => to.op = "start"
    BY <1>4, <1>7, CheckKept
  <2>3. me.pc # "down"
    BY <1>7 DEF CheckStep, CompareMatches, CompareMismatch, ProbePasses, ProbeFails
  <2>4. to.op \notin Commands
    BY <1>3, <1>4, <2>1, <2>2 DEF Moves, StepOK
  <2>5. \A q \in Procs \ {p} : proc[q].op \notin Commands
    BY <2>3, NoCommandBeside
  <2>6. HasCopies(index)' /\ CopiesOK(proc[p])' /\ StepOK(proc[p])'
    BY <1>2, <1>4, <2>1, <2>2, CopiesStay DEF CopiesOK, Moves
  <2> QED
    BY <1>4, <2>1, <2>2, <2>4, <2>5, <2>6, ByStart DEF Moves
<1>8. CASE VaultStep(p)
  <2>1. Moves(p) /\ Shape'
    BY <1>2, <1>8, VaultMoves
  <2>2. HasCopies(index)' /\ CopiesOK(proc[p])' /\ StepOK(proc[p])'
    BY <1>8, <2>1, VaultCopies DEF Moves
  <2>3. me.pc \in {"copy", "index"}
    BY <1>8 DEF VaultStep, AlreadyRetired, VaultFull, RetireCopy, RetireIndex
  <2>4. me.op = "start" \/ me.op \in Commands
    BY <1>2, <2>3 DEF StepOK, Process
  <2>5. CASE me.op = "start"
    <3>1. /\ Grows /\ StartOK(proc[p])'
          /\ to.pc \notin {"down", "up"} => to.op = "start"
      BY <1>4, <1>8, <2>5, VaultByStart
    <3>2. to.op \notin Commands
      BY <1>3, <1>4, <2>1, <3>1 DEF Moves, StepOK
    <3>3. \A q \in Procs \ {p} : proc[q].op \notin Commands
      BY <2>3, NoCommandBeside
    <3> QED
      BY <1>4, <2>1, <2>2, <3>1, <3>2, <3>3, ByStart DEF Moves
  <2>6. CASE me.op \in Commands
    <3>1. StartOK(proc[p])' /\ CommandOK(proc[p])'
      BY <1>8, <2>6, VaultByCommand
    <3>2. \A q \in Procs \ {p} : proc'[q].pc = "down" /\ StepOK(proc[q])'
      BY <2>1, <2>6 DEF CustodyInv, Alone, Moves
    <3> QED
      BY <2>1, <2>2, <3>1, <3>2, ByCommand
  <2> QED
    BY <2>4, <2>5, <2>6
<1>9. CASE EndStep(p)
  BY <1>9, EndKept
<1> QED
  BY <1>1, <1>5, <1>6, <1>7, <1>8, <1>9

LEMMA CustodyStutters ==
  ASSUME CustodyInv, UNCHANGED vars
  PROVE  CustodyInv'
<1>1. /\ UNCHANGED <<chain, file, legacy, record, index, copies, sealed, known, overwritten, proc, ops>>
  BY DEF vars
<1> QED
  BY <1>1 DEF CustodyInv, Shape, Alone, HasCopies, StartOK, CommandOK, CopiesOK, InSlots, Safe,
              PersistentKeys, Live

\* The inductive invariant.
THEOREM CustodyInvariant == Spec => []CustodyInv
<1>1. CustodyInv /\ [Next]_vars => CustodyInv'
  BY CustodyNext, CustodyStutters
<1> QED
  BY <1>1, CustodyInit, PTL DEF Spec

-----------------------------------------------------------------------------
(* What a process seals with is in custody. *)

LEMMA VaultLoads ==
  ASSUME CustodyInv, NEW keychain
  PROVE  /\ Reads(keychain) => Loadable(keychain) = DOMAIN index
         /\ \A k \in DOMAIN index :
              index[k] = "file" \/ (index[k] = "keychain" /\ Reads(keychain)) => k \in Loadable(keychain)
         /\ \A k \in DOMAIN index : index[k] \in Custodies
BY DEF CustodyInv, Shape, Indexes, HasCopies, Loadable, Loads, Custodies

LEMMA KeptIs ==
  ASSUME CustodyInv
  PROVE  Kept = ({chain, file, legacy} \ {None}) \cup DOMAIN index
<1>1. Reads("on")
  BY DEF Reads
<1>2. Loadable("on") = DOMAIN index
  BY <1>1, VaultLoads
<1> QED
  BY <1>1, <1>2 DEF Kept, Candidates, Live

LEMMA CustodyTypes ==
  ASSUME CustodyInv
  PROVE  TypeOK
<1>1. Shape /\ \A p \in Procs : StepOK(proc[p])
  BY DEF CustodyInv
<1>2. DOMAIN index \subseteq Keys /\ index \in [DOMAIN index -> Custodies]
  BY <1>1 DEF Shape, Indexes
<1>3. ASSUME NEW p \in Procs
      PROVE  /\ proc[p].op \in {None, "start", "install", "carry", "retire"}
             /\ proc[p].host \in Setups \cup {None}
             /\ {proc[p].env, proc[p].seen, proc[p].key} \cup proc[p].opens \subseteq Keys \cup {None}
             /\ proc[p].todo \in Seq(Keys)
             /\ proc[p].pc \in {"copy", "index"} => proc[p].todo # <<>>
  <2>1. proc[p] \in Process /\ StepOK(proc[p])
    BY <1>1 DEF Shape
  <2>2. proc[p].pc \in {"copy", "index"} => proc[p].todo # <<>>
    BY <2>1 DEF StepOK
  <2> QED
    BY <2>1, <2>2 DEF Process, Commands, KeyOrNone
<1> QED
  BY <1>1, <1>2, <1>3 DEF TypeOK, Shape, KeyOrNone

\* The shape of the folder, the limit of the vault, and that what a process serves
\* with is in custody, overrides aside (global_cipher, MAX_RETIRED_KEYS).
THEOREM ServingKeyAlwaysKept == Spec => []ServingKeyIsKept
<1>1. CustodyInv => ServingKeyIsKept
  <2> SUFFICES ASSUME CustodyInv, NEW p \in Procs, proc[p].pc = "up", proc[p].source # "env"
               PROVE  proc[p].key \in Kept \cup overwritten
    BY CustodyTypes DEF ServingKeyIsKept
  <2>1. proc[p].key \in Safe
    BY DEF CustodyInv, StartOK
  <2> QED
    BY <2>1, KeptIs DEF Safe, InSlots
<1> QED
  BY <1>1, CustodyInvariant, PTL

-----------------------------------------------------------------------------
(* No key drops out of custody. *)

\* What the end of a command takes from the slots is retired, or was shadowed.
LEMMA CommandsRetireFirst ==
  ASSUME CustodyInv, NEW p \in Procs, proc[p].op \in Commands, EndStep(p)
  PROVE  /\ UNCHANGED <<index, copies, sealed, overwritten>>
         /\ {chain, file, legacy} \ {None}
              \subseteq {chain', file', legacy'} \cup DOMAIN index \cup Shadowed
<1> DEFINE me == proc[p]
<1>1. /\ Shape /\ StepOK(me) /\ CommandOK(me) /\ me \in Process
  BY DEF CustodyInv, Shape
<1>2. ~Seal(p)
  BY <1>1, CustodyAssumption DEF Seal, StepOK
<1>3. UNCHANGED <<index, copies, sealed, overwritten>>
  BY <1>2 DEF EndStep, WriteRecord, InstallKey, RemoveRetired, Stop, Vault
<1>4. CASE WriteRecord(p) \/ Stop(p)
  BY <1>3, <1>4 DEF WriteRecord, Stop, Slots
<1>5. CASE InstallKey(p)
  <2>1. me.pc = "install" /\ me.op = "install" /\ me.todo = <<>>
    BY <1>1, <1>5 DEF InstallKey, StepOK
  <2>2. PICK kc : kc = me.host.keychain
    OBVIOUS
  <2>3. ToSet(<<>>) = {}
    BY DEF ToSet
  <2>4. (PersistentKeys(kc) \cup ({record} \cap Live(None, kc))) \ {me.key} \subseteq DOMAIN index
    BY <1>1, <2>1, <2>2, <2>3 DEF CommandOK
  <2>5. legacy' = legacy /\ (\/ kc = "on" /\ chain' = me.key /\ file' = file
                             \/ chain' = chain /\ file' = me.key
                             \/ chain' = chain /\ file' = file)
    BY <1>5, <2>2 DEF InstallKey
  <2>6. kc = "on" /\ chain # None => chain \in PersistentKeys(kc)
    BY DEF PersistentKeys, Reads
  <2>7. file # None => file \in PersistentKeys(kc) \/ (file = record /\ file \in Live(None, kc)) \/ file \in Shadowed
    BY DEF PersistentKeys, Live, Shadowed
  <2> QED
    BY <1>3, <2>4, <2>5, <2>6, <2>7
<1>6. CASE RemoveRetired(p)
  <2>1. me.pc = "remove" /\ me.op = "retire"
    BY <1>1, <1>6 DEF RemoveRetired, StepOK
  <2>2. /\ me.source = "file" => file = me.key
        /\ me.source = "legacy" => legacy = me.key
    BY <1>1, <2>1 DEF CommandOK
  <2>3. Loadable(me.host.keychain) \subseteq DOMAIN index
    BY <1>1, LoadableKeys
  <2> QED
    BY <1>3, <1>6, <2>2, <2>3 DEF RemoveRetired
<1> QED
  BY <1>2, <1>4, <1>5, <1>6, <1>3 DEF EndStep

LEMMA KeptStep ==
  ASSUME CustodyInv, Next, NEW k \in Kept
  PROVE  k \in Kept' \cup overwritten' \cup Shadowed
<1>1. CustodyInv'
  BY CustodyNext
<1>2. Kept' = ({chain', file', legacy'} \ {None}) \cup DOMAIN index'
  BY <1>1 DEF CustodyInv, HasCopies, Kept, Candidates, Live, Loadable, Loads, Reads
<1>3. k \in ({chain, file, legacy} \ {None}) \cup DOMAIN index
  BY KeptIs
<1>4. ASSUME Grows PROVE k \in Kept' \cup overwritten'
  BY <1>2, <1>3, <1>4 DEF Grows, Safe, InSlots
<1>5. PICK p \in Procs :
        \/ \E host \in Setups, env \in KeyOrNone :
             Start(p, host, env) \/ CommandStep(p, host, env)
        \/ LadderStep(p) \/ CheckStep(p) \/ VaultStep(p) \/ EndStep(p)
  BY Steps
<1>6. CASE \E host \in Setups, env \in KeyOrNone : Start(p, host, env)
  BY <1>4, <1>6, StartKept
<1>7. CASE \E host \in Setups, env \in KeyOrNone : CommandStep(p, host, env)
  <2>1. Shape
    BY DEF CustodyInv
  <2>2. UNCHANGED <<Slots, Vault>>
    BY <1>7, <2>1, CommandsBegin
  <2> QED
    BY <1>2, <1>3, <2>2 DEF Slots, Vault
<1>8. CASE /\ LadderStep(p) \/ CheckStep(p) \/ VaultStep(p) \/ EndStep(p)
           /\ proc[p].op \notin Commands
  BY <1>4, <1>8, StartsGrow
<1>9. CASE (LadderStep(p) \/ CheckStep(p)) /\ proc[p].op \in Commands
  <2>1. Grows
    BY <1>9, LadderKept, CheckKept
  <2> QED
    BY <1>4, <2>1
<1>10. CASE VaultStep(p) /\ proc[p].op \in Commands
  <2>1. UNCHANGED Slots /\ DOMAIN index \subseteq DOMAIN index'
    BY <1>10, VaultCopies, VaultByCommand
  <2> QED
    BY <1>2, <1>3, <2>1 DEF Slots
<1>11. CASE EndStep(p) /\ proc[p].op \in Commands
  <2>1. None \notin Kept /\ {chain, file, legacy} \ {None} \subseteq {chain', file', legacy'} \cup DOMAIN index \cup Shadowed
        /\ index' = index
    <3>1. DOMAIN index \subseteq Keys
      BY DEF CustodyInv, Shape, Indexes
    <3>2. None \notin Kept
      BY <3>1, KeptIs, CustodyAssumption
    <3> QED
      BY <1>11, <3>2, CommandsRetireFirst
  <2> QED
    BY <1>2, <1>3, <2>1
<1> QED
  BY <1>5, <1>6, <1>7, <1>8, <1>9, <1>10, <1>11

\* Whatever starts, commands and kills do, a key that sealed data stays a candidate
\* of recovery (resolve, install_current, retire_with), but for the two cases the
\* property names.
THEOREM KeptAlwaysStays == Spec => KeptStaysKept
<1>1. CustodyInv /\ [Next]_vars =>
        [\A k \in sealed \cap Kept : k \in Kept' \cup overwritten' \cup Shadowed]_vars
  BY KeptStep
<1> QED
  BY <1>1, CustodyInvariant, PTL DEF Spec, KeptStaysKept

-----------------------------------------------------------------------------
(* What a start could open stays open. *)

\* Only the process of a step moves.
LEMMA OneMoves ==
  ASSUME CustodyInv, NEW p \in Procs,
         LadderStep(p) \/ CheckStep(p) \/ VaultStep(p) \/ EndStep(p)
  PROVE  \A q \in Procs \ {p} : proc'[q] = proc[q]
<1>1. Shape /\ StepOK(proc[p])
  BY DEF CustodyInv
<1> QED
  BY <1>1, LadderMoves, CheckMoves, VaultMoves, EndMoves DEF Moves

\* A retired key that loads does so after the step of a process that finds the
\* keychain the same way, unless that process writes back an index without it.
LEMMA LoadableStays ==
  ASSUME CustodyInv, CustodyInv', NEW p \in Procs, NEW m \in Finds,
         proc[p].host.keychain = m,
         LadderStep(p) \/ CheckStep(p) \/ VaultStep(p) \/ EndStep(p),
         NEW k \in Loadable(m)
  PROVE  k \in Loadable(m)' \cup Superseded
<1> DEFINE me == proc[p]
           head == Head(me.todo)
<1>1. /\ Shape /\ StepOK(me) /\ me \in Process
  BY DEF CustodyInv, Shape
<1>2. k \in DOMAIN index /\ k \in copies[index[k]] /\ (index[k] = "file" \/ Reads(m))
  BY DEF Loadable, Loads
<1>3. \A j \in DOMAIN index' : j \in copies'[index'[j]]
  BY DEF CustodyInv, HasCopies
<1>4. CASE RetireIndex(p)
  <2>1. index' = IndexWith(me.index, head, CopyCustody(p)) /\ me.pc = "index" /\ RetireNext(p)
    BY <1>4 DEF RetireIndex
  <2>2. proc'[p].pc # "index"
    BY <1>1, <2>1, Retires
  <2>3. proc'[p] # proc[p]
    BY <2>1, <2>2
  <2>4. k \in Superseded \/ (k \in DOMAIN me.index /\ me.index[k] = index[k])
    BY <1>2, <2>1, <2>3 DEF Superseded
  <2>5. CASE k \in DOMAIN me.index /\ me.index[k] = index[k]
    <3>1. k \in DOMAIN index'
      BY <2>1, <2>5 DEF IndexWith
    <3>2. index'[k] = index[k] \/ index'[k] = CopyCustody(p)
      BY <2>1, <2>5 DEF IndexWith
    <3>3. CopyCustody(p) = "file" \/ Reads(m)
      BY DEF CopyCustody, Reads
    <3>4. index'[k] = "file" \/ Reads(m)
      BY <1>2, <3>2, <3>3
    <3> QED
      BY <1>3, <3>1, <3>4 DEF Loadable, Loads
  <2> QED
    BY <2>4, <2>5
<1>5. CASE ~RetireIndex(p)
  <2>1. index' = index
    BY <1>5 DEF LadderStep, LadderEnv, LadderKeychain, LadderRefuses, LadderChoose, Store, Verify,
                Publish, CheckStep, CompareMatches, CompareMismatch, ProbePasses, ProbeFails,
                VaultStep, AlreadyRetired, VaultFull, RetireCopy, EndStep, WriteRecord, InstallKey,
                RemoveRetired, Seal, Stop, Vault
  <2> QED
    BY <1>2, <1>3, <2>1 DEF Loadable, Loads
<1> QED
  BY <1>4, <1>5

\* The ladder of a start leaves the recorded key where a start that finds the
\* keychain the same way looks for it.
LEMMA RecordedByStart ==
  ASSUME CustodyInv, NEW p \in Procs, NEW m \in Finds,
         proc[p].host.keychain = m, LadderStep(p),
         NEW k \in Live(None, m)
  PROVE  k \in Live(None, m)' \cup overwritten'
<1> DEFINE me == proc[p]
<1>1. Shape /\ StepOK(me) /\ me \in Process
  BY DEF CustodyInv, Shape
<1>2. k # None /\ (k \in {file, legacy} \/ (Reads(m) /\ k = chain))
  BY DEF Live
<1>3. Reads("on")
  BY DEF Reads
<1>4. CASE LadderKeychain(p)
  BY <1>2, <1>4 DEF LadderKeychain, RetireLegacy, Live
<1>5. CASE Store(p)
  BY <1>2, <1>5 DEF Store, Live
<1>6. CASE Verify(p)
  <2>1. Reads(m)
    BY <1>1, <1>3, <1>6 DEF Verify, StepOK
  <2> QED
    BY <1>2, <1>6, <2>1 DEF Verify, RetireLegacy, Live
<1>7. CASE Publish(p)
  BY <1>2, <1>7 DEF Publish, Live
<1>8. CASE LadderEnv(p) \/ LadderRefuses(p) \/ \E j \in Keys : LadderChoose(p, j)
  BY <1>2, <1>8 DEF LadderEnv, LadderRefuses, LadderChoose, Slots, Live
<1> QED
  BY <1>4, <1>5, <1>6, <1>7, <1>8 DEF LadderStep

\* What records another key, or empties a slot, retired the recorded one first.
LEMMA RecordedByEnd ==
  ASSUME CustodyInv, NEW p \in Procs, NEW m \in Finds,
         proc[p].host.keychain = m, proc[p].op \in {"start"} \cup Commands, EndStep(p),
         ~LateRecord, record \in Live(None, m)
  PROVE  record \in DOMAIN index \/ (record' = record /\ record \in Live(None, m)')
<1> DEFINE me == proc[p]
<1>1. Shape /\ StepOK(me) /\ CommandOK(me) /\ me \in Process
  BY DEF CustodyInv, Shape
<1>2. record # None
  BY DEF Live
<1>3. ToSet(<<>>) = {}
  BY DEF ToSet
<1>4. CASE WriteRecord(p)
  <2>1. me.pc = "record" /\ record' = me.key /\ UNCHANGED Slots
    BY <1>4 DEF WriteRecord
  <2>2. me.op # "start"
    BY <1>2, <2>1 DEF LateRecord
  <2>3. me.op = "install" /\ me.todo = <<>>
    BY <1>1, <2>1, <2>2 DEF StepOK
  <2>4. record = me.key \/ record \in DOMAIN index
    BY <1>1, <1>3, <2>3 DEF CommandOK
  <2> QED
    BY <2>1, <2>4 DEF Live, Slots
<1>5. CASE InstallKey(p)
  <2>1. me.op = "install" /\ me.todo = <<>>
    BY <1>1, <1>5 DEF InstallKey, StepOK
  <2>2. record = me.key \/ record \in DOMAIN index
    BY <1>1, <1>3, <2>1 DEF CommandOK
  <2>3. /\ record' = record /\ legacy' = legacy
        /\ \/ m = "on" /\ chain' = me.key /\ file' = file
           \/ chain' = chain /\ file' = me.key
           \/ chain' = chain /\ file' = file
    BY <1>5 DEF InstallKey
  <2>4. record = me.key => record \in Live(None, m)'
    BY <1>2, <2>3 DEF Live, Reads
  <2> QED
    BY <2>2, <2>3, <2>4
<1>6. CASE RemoveRetired(p)
  <2>1. me.op = "retire"
    BY <1>1, <1>6 DEF RemoveRetired, StepOK
  <2>2. /\ me.key # record
        /\ me.source = "file" => file = me.key
        /\ me.source = "legacy" => legacy = me.key
    BY <1>1, <2>1 DEF CommandOK
  <2> QED
    BY <1>6, <2>2 DEF RemoveRetired, Live
<1>7. CASE Seal(p)
  BY <1>1, <1>7, CustodyAssumption DEF Seal, StepOK
<1>8. CASE Stop(p)
  BY <1>8 DEF Stop, Live, Slots
<1> QED
  BY <1>4, <1>5, <1>6, <1>7, <1>8 DEF EndStep

LEMMA OpenedStep ==
  ASSUME CustodyInv, CustodyInv', NEW p \in Procs, NEW m \in Finds,
         proc[p].host.keychain = m, proc[p].op \in {"start"} \cup Commands,
         LadderStep(p) \/ CheckStep(p) \/ VaultStep(p) \/ EndStep(p),
         ~LateRecord, NEW k \in Opened(m)
  PROVE  \/ k \in Opened(m)' \cup overwritten' \cup Superseded
         \/ m = "away" /\ k \in DOMAIN index /\ index[k] = "keychain"
<1>1. CASE k \in Loadable(m)
  <2>1. k \in Loadable(m)' \cup Superseded
    BY <1>1, LoadableStays
  <2> QED
    BY <2>1 DEF Opened
<1>2. CASE k \notin Loadable(m)
  <2>1. k = record /\ k \in Live(None, m)
    BY <1>2 DEF Opened, Candidates
  <2>2. ASSUME record' = record, record \in Live(None, m)' \cup overwritten'
        PROVE  k \in Opened(m)' \cup overwritten'
    BY <2>1, <2>2 DEF Opened, Candidates
  <2>3. CASE LadderStep(p)
    BY <2>1, <2>2, <2>3, LadderKept, RecordedByStart
  <2>4. CASE CheckStep(p) \/ VaultStep(p)
    <3>1. UNCHANGED <<Slots, record>>
      BY <2>4, CheckKept, VaultCopies
    <3>2. Live(None, m)' = Live(None, m)
      BY <3>1 DEF Live, Slots
    <3> QED
      BY <2>1, <2>2, <3>1, <3>2
  <2>5. CASE EndStep(p)
    <3>1. CASE record \in DOMAIN index
      <4>1. ~(index[k] = "file" \/ (index[k] = "keychain" /\ Reads(m))) /\ index[k] \in Custodies
        BY <1>2, <2>1, <3>1, VaultLoads
      <4>2. index[k] = "keychain" /\ m = "away"
        BY <4>1 DEF Custodies, Reads, Finds
      <4> QED
        BY <2>1, <3>1, <4>2
    <3>2. CASE record \notin DOMAIN index
      BY <2>1, <2>2, <2>5, <3>2, RecordedByEnd
    <3> QED
      BY <3>1, <3>2
  <2> QED
    BY <2>3, <2>4, <2>5
<1> QED
  BY <1>1, <1>2

\* Adopting, importing and retiring keys, and every start, keep readable what was
\* readable, at each of their steps (install_current, RetiredVault::retire).
THEOREM OpenedAlwaysStays == Spec => OpenedStaysOpened
<1> DEFINE unreachable(m) ==
             IF m = "away" THEN {k \in DOMAIN index : index[k] = "keychain"} ELSE {}
           Kept1(m) == sealed \cap Opened(m) \subseteq
                         Opened(m)' \cup overwritten' \cup unreachable(m) \cup Superseded
           Kinds == {"start", "install", "carry", "retire"}
<1>1. ASSUME CustodyInv, CustodyInv', Next, NEW m \in Finds, StepOf(Kinds, m), ~LateRecord
      PROVE  Kept1(m)
  <2>1. PICK p \in Procs :
          \/ \E host \in Setups, env \in KeyOrNone :
               Start(p, host, env) \/ CommandStep(p, host, env)
          \/ LadderStep(p) \/ CheckStep(p) \/ VaultStep(p) \/ EndStep(p)
    BY <1>1, Steps
  <2>2. PICK r \in Procs :
          proc[r].op \in Kinds /\ proc[r].host.keychain = m /\ proc'[r] # proc[r]
    BY <1>1 DEF StepOf
  <2>3. Shape /\ (\A q \in Procs : StepOK(proc[q])) /\ None \notin Kinds
    BY <1>1, CustodyAssumption DEF CustodyInv, Commands
  <2>4. ~(\E host \in Setups, env \in KeyOrNone :
             Start(p, host, env) \/ CommandStep(p, host, env))
    <3> SUFFICES ASSUME NEW host \in Setups, NEW env \in KeyOrNone,
                        Start(p, host, env) \/ CommandStep(p, host, env)
                 PROVE  FALSE
      OBVIOUS
    <3>1. Moves(p) /\ ~Running(p)
      BY <2>3, StartMoves, CommandsBegin DEF Start
    <3>2. r = p
      BY <2>2, <3>1 DEF Moves
    <3> QED
      BY <2>2, <2>3, <3>1, <3>2 DEF Running, StepOK
  <2>5. r = p
    BY <1>1, <2>1, <2>2, <2>4, OneMoves
  <2>6. proc[p].op \in {"start"} \cup Commands
    BY <2>2, <2>5 DEF Commands
  <2>7. ASSUME NEW k \in Opened(m)
        PROVE  k \in Opened(m)' \cup overwritten' \cup unreachable(m) \cup Superseded
    BY <1>1, <2>1, <2>2, <2>4, <2>5, <2>6, OpenedStep
  <2> QED
    BY <2>7
<1>2. CustodyInv /\ [Next]_vars =>
        [\A m \in Finds : StepOf(Kinds, m) /\ ~LateRecord => Kept1(m)]_vars
  BY <1>1, CustodyNext
<1> QED
  BY <1>2, CustodyInvariant, PTL DEF Spec, OpenedStaysOpened
=============================================================================
