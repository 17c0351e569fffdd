---------------------------- MODULE SealedValues ----------------------------
(***************************************************************************)
(* The records of one store over the life of its keys. What sort of values *)
(* it holds is chosen at the start: content TEXT (looked up by its blind   *)
(* index) or BLOB columns of a plugin's store, fields under the master     *)
(* key, config secrets of the Gateway, secret files of a plugin, or values *)
(* bound to a tenant. Processes start with a key, an old key, or none;     *)
(* write, read, and seal again what a read found legacy or under a retired *)
(* key; the master key is replaced; a record's stored form lands in        *)
(* another record or comes from another scheme or a newer build.           *)
(***************************************************************************)
EXTENDS Envelopes

CONSTANTS
  Procs,       \* processes that open the store
  Ids,         \* its records
  Kinds,       \* the sorts of values to look at
  Inputs,      \* [Kinds -> the texts callers write]
  Null,
  MaxKey,      \* bound: master keys
  MaxWrites    \* bound: writes by callers

\* A blank stands for all the white space a text begins with.
Blanks(v) == Begins(v, " ") => ~Begins(Strip(v), " ")

ASSUME ValuesAssumption ==
  /\ Kinds \subseteq {"text", "blob", "field", "config", "secret", "tenant"}
  /\ \A k \in Kinds : \A v \in Inputs[k] : IsText(v) /\ Blanks(v)
  /\ MaxKey \in Nat \ {0}
  /\ MaxWrites \in Nat

VARIABLES
  kind,      \* the sort of values of this store
  master,    \* the number of the master key; 0 before there is one
  record,    \* the key check value the content store recorded, or <<>>
  stored,    \* [Ids -> the stored form]
  token,     \* [Ids -> what a TEXT record is found by]
  written,   \* ghost: what was last written to each record
  origin,    \* ghost: how each stored form came where it is
  proc,      \* the processes
  writes

vars == <<kind, master, record, stored, token, written, origin, proc, writes>>

Root(n) == <<n>>
Retired(n) == {Root(i) : i \in 1..(n - 1)}

IsStore == kind \in {"text", "blob"}
Scope == CASE kind \in {"text", "blob", "secret"} -> PluginScope("p")
           [] kind = "config" -> ComponentScope("gateway")
           [] OTHER -> <<>>

Modes == {"down", "sealing", "compat", "unhealthy", "keyless"}
Down == [mode |-> "down", key |-> <<>>, retired |-> {}, read |-> Null, saw |-> <<>>]

Old == Text(<<>>, "old")

\* Legacy plaintext, or nothing yet; a tenant's legacy is under the master key.
Init ==
  /\ kind \in Kinds
  /\ master \in IF kind = "tenant" THEN {1} ELSE 0..1
  /\ record = <<>>
  /\ stored = [i \in Ids |->
       IF kind = "tenant" THEN Seal(FieldCipher([key |-> Root(1), retired |-> {}]), Old) ELSE Old]
  /\ token = [i \in Ids |-> NoToken]
  /\ written = [i \in Ids |-> Old]
  /\ origin = [i \in Ids |-> "written"]
  /\ proc = [p \in Procs |-> Down]
  /\ writes = 0

-----------------------------------------------------------------------------
(* Keys and processes. *)

\* The first master key, or one that replaces it.
Adopt ==
  /\ master < MaxKey
  /\ master' = master + 1
  /\ UNCHANGED <<kind, record, stored, token, written, origin, proc, writes>>

Host == [key |-> Root(master), retired |-> Retired(master)]

\* What the process holds of the key: with a host; as a child of Core, with its
\* own, another's or a broken delivery; by RYU_MASTER_KEY alone; or nothing.
Keys(how) ==
  CASE how = "host" -> SubkeyFrom(NoEnv, {Host}, Scope)
    [] how = "child" -> SubkeyFrom(ChildEnv(Host, Scope), {}, Scope)
    [] how = "stray" -> SubkeyFrom(ChildEnv(Host, PluginScope("q")), {Host}, Scope)
    [] how = "broken" -> SubkeyFrom(BrokenEnv, {Host}, Scope)
    [] how = "env" -> SubkeyFrom(NoEnv, {[Host EXCEPT !.retired = {}]}, Scope)
    [] how = "none" -> SubkeyFrom(NoEnv, {}, Scope)

\* Mutant: a store that records a key nobody delivered counts as never sealed.
StoreModeUnrecorded(keys) ==
  IF keys = {} THEN "compat"
  ELSE LET k == CHOOSE k \in keys : TRUE
       IN IF record = <<>> \/ Matches(k, record) THEN "sealing" ELSE "unhealthy"

\* store_state.
StoreMode(keys) ==
  IF keys = {}
  THEN IF record = <<>> THEN "compat" ELSE "unhealthy"
  ELSE LET k == CHOOSE k \in keys : TRUE
       IN IF record = <<>> \/ Matches(k, record) THEN "sealing" ELSE "unhealthy"

\* A key for something else ends the start of a store's process; the other
\* sealers fail when they are used.
Start(p, how) ==
  /\ proc[p].mode = "down"
  /\ master = 0 => how = "none"
  /\ how \in {"child", "stray", "broken"} => Scope # <<>>
  /\ LET keys == Keys(how)
         mode == IF IsStore THEN StoreMode(keys) ELSE IF keys = {} THEN "keyless" ELSE "sealing"
         k == IF keys = {} THEN [key |-> <<>>, retired |-> {}] ELSE CHOOSE k \in keys : TRUE
     IN /\ ~(IsStore /\ keys = {} /\ how # "none")
        /\ proc' = [proc EXCEPT ![p] = [Down EXCEPT
             !.mode = mode, !.key = k.key, !.retired = k.retired,
             !.saw = IF mode = "compat" THEN record ELSE <<>>]]
        /\ record' = IF IsStore /\ keys # {} /\ record = <<>> THEN k.key ELSE record
  /\ UNCHANGED <<kind, master, stored, token, written, origin, writes>>

Stop(p) ==
  /\ proc[p].mode # "down"
  /\ proc' = [proc EXCEPT ![p] = Down]
  /\ UNCHANGED <<kind, master, record, stored, token, written, origin, writes>>

-----------------------------------------------------------------------------
(* What a process reads and writes. *)

Context(i) == <<kind, i>>
Cipher(p) ==
  LET c == ContentCipher(proc[p].key, proc[p].retired, "store")
  IN IF kind = "blob" THEN Subcipher(c, "hour") ELSE c
Sealers(p) ==
  IF proc[p].mode # "sealing" THEN {}
  ELSE {CASE kind = "field" -> FieldCipher(proc[p])
          [] kind = "config" -> ComponentCipher(proc[p])
          [] OTHER -> PluginCipher(proc[p])}
Tenant(p) == TenantCipher(proc[p].key, "t")

ReadOf(p, i) ==
  CASE kind = "text" -> StoreOpenText(proc[p].mode, Cipher(p), stored[i], Context(i))
    [] kind = "blob" -> StoreOpenBytes(proc[p].mode, Cipher(p), stored[i], Context(i))
    [] kind = "field" -> OpenStr(Sealers(p), stored[i])
    [] kind = "config" -> Deserialize(Sealers(p), stored[i])
    [] kind = "secret" -> ReadSecret(Sealers(p), stored[i])
    [] kind = "tenant" -> IF proc[p].mode = "sealing"
                          THEN TenantOpen(Tenant(p), stored[i], Context(i))
                          ELSE Refused("no key")

SealedBy(p, i, v) ==
  CASE kind = "text" -> StoreSealText(proc[p].mode, Cipher(p), v, Context(i))
    [] kind = "blob" -> StoreSealBytes(proc[p].mode, Cipher(p), v, Context(i))
    [] kind = "config" -> Serialize(Sealers(p), v)
    [] kind = "field" -> SealStr(Sealers(p), v)
    [] kind = "secret" -> WriteSecret(Sealers(p), v)
    [] kind = "tenant" -> IF proc[p].mode = "sealing"
                          THEN Ok(TenantSeal(Tenant(p), v, Context(i)), FALSE)
                          ELSE Refused("no key")

Up(p) == proc[p].mode # "down"

\* A store without a key has no index.
Index(p) == BlindIndex(proc[p], "store", "word")
TokenOf(p, v) ==
  IF kind = "text" /\ proc[p].mode = "sealing" THEN Token(Index(p), v) ELSE NoToken
Lookup(p, v) == {i \in Ids : token[i] = TokenOf(p, v)}

Write(p, i, v) ==
  /\ Up(p)
  /\ writes < MaxWrites
  /\ SealedBy(p, i, v).ok
  /\ stored' = [stored EXCEPT ![i] = SealedBy(p, i, v).value]
  /\ token' = [token EXCEPT ![i] = TokenOf(p, v)]
  /\ written' = [written EXCEPT ![i] = v]
  /\ origin' = [origin EXCEPT ![i] = "written"]
  /\ writes' = writes + 1
  /\ UNCHANGED <<kind, master, record, proc>>

\* A read that a writing back follows: what a read finds legacy or retired, a
\* whole config for its next save, a legacy value in a tenant's migration.
ReadToWrite(p, i) ==
  /\ Up(p)
  /\ proc[p].read = Null
  /\ kind # "blob"
  /\ LET opened == IF kind = "tenant" /\ proc[p].mode = "sealing"
                   THEN TenantOpenLegacy(Tenant(p), stored[i], Context(i))
                   ELSE ReadOf(p, i)
     IN /\ opened.ok
        /\ kind = "config" \/ opened.again
        /\ SealedBy(p, i, opened.value).ok
        /\ proc' = [proc EXCEPT ![p].read = [id |-> i, value |-> opened.value, from |-> stored[i]]]
  /\ UNCHANGED <<kind, master, record, stored, token, written, origin, writes>>

\* reseal_secret_file and its like: the two halves share no lock with writers.
WriteBack(p) ==
  /\ proc[p].read # Null
  /\ LET i == proc[p].read.id
     IN /\ stored' = [stored EXCEPT ![i] = SealedBy(p, i, proc[p].read.value).value]
        /\ origin' = [origin EXCEPT ![i] = IF stored[i] = proc[p].read.from THEN @ ELSE "stale"]
  /\ proc' = [proc EXCEPT ![p].read = Null]
  /\ UNCHANGED <<kind, master, record, token, written, writes>>

\* What the migration can read.
Migrates(p, i) ==
  IF kind = "text" THEN OpenText(Cipher(p), stored[i], Context(i)).ok
  ELSE OpenBytes(Cipher(p), stored[i], Context(i)).ok

\* The migration of the columns (SqliteSeal has its steps), refused when the store
\* has moved to a key this process does not know. A store under a retired key
\* moves its record once everything opens.
Migrate(p) ==
  /\ IsStore
  /\ proc[p].mode = "sealing"
  /\ Matches(proc[p], record)
  /\ stored' = [i \in Ids |-> IF kind = "text"
                              THEN ResealedText(Cipher(p), stored[i], Context(i))
                              ELSE ResealedBytes(Cipher(p), stored[i], Context(i))]
  /\ record' = IF \A i \in Ids : Migrates(p, i) THEN proc[p].key ELSE record
  /\ UNCHANGED <<kind, master, token, written, origin, proc, writes>>

-----------------------------------------------------------------------------
(* What brings a stored form where it does not belong. *)

InPlace == \A i \in Ids : origin[i] = "written"

IsSealed(s) == "key" \in DOMAIN s.body

\* A record restored or imported under another id. (A tenant's legacy value is
\* bound to nothing: a migration binds it where it finds it.)
Misplace(i, j) ==
  /\ i # j
  /\ InPlace
  /\ IsSealed(stored[i])
  /\ kind = "tenant" => Begins(stored[i], BoundMark)
  /\ stored' = [stored EXCEPT ![j] = stored[i]]
  /\ token' = [token EXCEPT ![j] = token[i]]
  /\ origin' = [origin EXCEPT ![j] = "moved"]
  /\ UNCHANGED <<kind, master, record, written, proc, writes>>

\* A value of another scheme.
Confuse(i, mark) ==
  /\ master > 0
  /\ InPlace
  /\ kind \in {"field", "config", "secret", "tenant"}
  /\ mark \notin CASE kind = "tenant" -> {BoundMark, FieldMark}
                   [] kind = "config" -> {ComponentMark}
                   [] kind = "field" -> {FieldMark}
                   [] kind = "secret" -> {PluginMark}
  /\ stored' = [stored EXCEPT ![i] = Envelope(mark, Root(master), <<>>, Old)]
  /\ origin' = [origin EXCEPT ![i] = "foreign"]
  /\ UNCHANGED <<kind, master, record, token, written, proc, writes>>

\* A value in the next version of its envelope.
Upgrade(i) ==
  /\ IsStore
  /\ record # <<>>
  /\ InPlace
  /\ stored' = [stored EXCEPT ![i] =
       Text(<<IF kind = "text" THEN "encb:v2:" ELSE "RYU-CB02">>, "v2")]
  /\ origin' = [origin EXCEPT ![i] = "newer"]
  /\ UNCHANGED <<kind, master, record, token, written, proc, writes>>

Next ==
  \/ Adopt
  \/ \E p \in Procs :
       \/ \E how \in {"host", "child", "stray", "broken", "env", "none"} : Start(p, how)
       \/ Stop(p) \/ WriteBack(p) \/ Migrate(p)
       \/ \E i \in Ids : ReadToWrite(p, i) \/ \E v \in Inputs[kind] : Write(p, i, v)
  \/ \E i \in Ids :
       \/ \E j \in Ids : Misplace(i, j)
       \/ \E mark \in Schemes : Confuse(i, mark)
       \/ Upgrade(i)

Spec == Init /\ [][Next]_vars

-----------------------------------------------------------------------------
(* Properties. *)

Origins == {"written", "moved", "foreign", "newer", "stale"}

\* Types; a process that seals holds a key, and its own store's cipher.
TypeOK ==
  /\ kind \in Kinds
  /\ master \in 0..MaxKey
  /\ record \in {<<>>} \cup {Subkey(Root(n), PluginScope("p")) : n \in 1..master}
  /\ \A i \in Ids : origin[i] \in Origins
  /\ \A p \in Procs :
       /\ proc[p].mode \in Modes
       /\ (proc[p].mode = "sealing") => proc[p].key \in {Subkey(Root(n), Scope) : n \in 1..master}
       /\ proc[p].read = Null \/ proc[p].read.id \in Ids

Expected(i) == IF kind = "secret" THEN Trim(written[i]) ELSE written[i]

\* A record that was written reads as it was written.
ReadsWritten ==
  \A p \in Procs, i \in Ids :
    Up(p) /\ origin[i] = "written" /\ ReadOf(p, i).ok => ReadOf(p, i).value = Expected(i)

\* A process that holds the current key and all before it reads every record
\* that was written there: through the arrival of a first key, its replacement,
\* and sealing again. Not so for a tenant's values under a replaced key
\* (TenantCipher takes no retired keys), its values still to be migrated, and
\* bytes a keyless store took though they begin like an envelope of Ryu's: a
\* sealed file's magic, a log's, or one that no build has.
StaysReadable ==
  \A p \in Procs, i \in Ids :
    /\ proc[p].mode = "sealing"
    /\ proc[p].key = Subkey(Root(master), Scope)
    /\ proc[p].retired = {Subkey(r, Scope) : r \in Retired(master)}
    /\ origin[i] = "written"
    /\ ~ReadOf(p, i).ok
    => \/ kind = "tenant" /\ (stored[i].body.key # Tenant(p).key \/ Begins(stored[i], FieldMark))
       \/ kind = "blob" /\ \E m \in LooksLikeMagic \ {ContentMagic} : Begins(stored[i], m)

\* One that was not written there, or by another scheme or version, does not read.
RefusesOthers ==
  \A p \in Procs, i \in Ids :
    proc[p].mode = "sealing" /\ ReadOf(p, i).ok =>
      /\ origin[i] = "moved" => kind \notin {"text", "blob", "tenant"}
      /\ origin[i] # "foreign"
      /\ origin[i] # "newer"

\* What is read of a record is what was last written to it or an error, never
\* another text: neither an escape or an envelope in place of the value, nor a
\* lookalike taken for an envelope (store_seal.rs:75-170, sealed.rs:76-130). And a
\* value opens only where it was sealed, by the scheme and the version that
\* sealed it: content and tenant values of another record, other schemes'
\* envelopes, and content of a newer build are refused by whoever holds a key.
ReadsOnlyItsOwn == TypeOK /\ ReadsWritten /\ RefusesOthers

\* A lookup finds the records whose value, as it is read, is the one sought, and
\* no others, whatever was migrated, sealed again or moved meanwhile: among those
\* written with the process's own key, for the tokens of a key that was replaced
\* are not made again (blind_index.rs:63-80), and but for a write that a stale
\* writing back undid.
LookupsAgree ==
  kind = "text" =>
    \A p \in Procs, i \in Ids, v \in Inputs["text"] :
      /\ proc[p].mode = "sealing"
      /\ token[i] # NoToken /\ token[i][1] = Index(p).key
      /\ origin[i] \in {"written", "moved"}
      /\ ReadOf(p, i).ok
      => (i \in Lookup(p, v) <=> Casefold(ReadOf(p, i).value) = Casefold(v))

\* Content and fields under the master key: a read asks to seal again exactly
\* what is not sealed under the current key, so sealing again comes to an end and
\* leaves nothing behind, but for the empty text a keyless store took
\* (content.rs:470-505, store_seal.rs:104-127, sealed.rs:148-160).
AgainUntilCurrent ==
  \A p \in Procs, i \in Ids :
    kind \in {"text", "field"} /\ proc[p].mode = "sealing" /\ ReadOf(p, i).ok =>
      LET key == IF kind = "text" THEN Cipher(p).key ELSE proc[p].key
      IN ReadOf(p, i).again <=>
           stored[i] # Empty /\ ~(IsSealed(stored[i]) /\ stored[i].body.key = key)

\* A sealed record never becomes plaintext again, but for one that is emptied,
\* and by a keyless process that opened the store before it was ever sealed: one
\* that starts later refuses to write (store_seal.rs:69-90, mod.rs:237-250).
SealedStaysSealed ==
  [][\A i \in Ids :
       IsSealed(stored[i]) /\ ~IsSealed(stored'[i]) =>
         \/ origin'[i] = "newer"
         \/ stored'[i] = Empty
         \/ \E p \in Procs : proc[p].mode = "compat" /\ proc[p].saw = <<>>]_vars
=============================================================================
