------------------------------ MODULE Envelopes ------------------------------
(***************************************************************************)
(* The sealed forms of the crypto crate and the ciphers that make and open *)
(* them: content values (ContentCipher, StoreSeal), fields under the       *)
(* master key or a subkey (FieldCipher, PluginCipher, ComponentCipher),    *)
(* values bound to a tenant (TenantCipher), config secrets (SealedString), *)
(* and single-secret files.                                                *)
(*                                                                         *)
(* A string is the marks it starts with and what follows them, a word or   *)
(* the body of an envelope: the key, the associated data and the plaintext *)
(* it was made from. A body opens under exactly that key and data, and     *)
(* different inputs of HKDF give different keys. A key is the path of its  *)
(* derivation; its key check value identifies it, so it stands for itself. *)
(***************************************************************************)
EXTENDS Naturals, Sequences

Text(marks, word) == [marks |-> marks, body |-> [word |-> word]]
Empty == Text(<<>>, "")
Begins(s, mark) == s.marks # <<>> /\ Head(s.marks) = mark
Strip(s) == [marks |-> Tail(s.marks), body |-> s.body]
Trim(s) == IF Begins(s, " ") THEN Strip(s) ELSE s

Envelope(mark, key, aad, plain) ==
  [marks |-> <<mark>>, body |-> [key |-> key, aad |-> aad, plain |-> plain]]

\* The body of an envelope, its mark stripped. Any other text is malformed.
IsBody(s) == s.marks = <<>> /\ "key" \in DOMAIN s.body

Ok(value, again) == [ok |-> TRUE, value |-> value, again |-> again]
Refused(why) == [ok |-> FALSE, why |-> why]

\* hkdf32: derive_content_key, derive_sub_key, the tenant's subkey.
Derive(key, kind, id) == key \o <<kind, id>>

\* hkdf_subkey: derive_plugin_key, derive_component_key. A scope is its kind and id.
Subkey(master, scope) == master \o scope
PluginScope(id) == <<"plugin", id>>
ComponentScope(name) == <<"component", name>>

\* ContentKey: a body opens under one key and one associated data.
OpensUnder(key, s, aad) == s.body.key = key /\ s.body.aad = aad

\* Mutant: only the current key is tried.
CandidatesCurrent(cipher) == {cipher.key}

\* candidate_keys: the current key, then each retired one.
Candidates(cipher) == {cipher.key} \cup cipher.retired

\* decrypt_tracking, open_blob. `again` says that a retired key opened it.
Decrypt(cipher, s, aad) ==
  IF ~IsBody(s) THEN Refused("malformed")
  ELSE IF \E key \in Candidates(cipher) : OpensUnder(key, s, aad)
  THEN Ok(s.body.plain, ~OpensUnder(cipher.key, s, aad))
  ELSE Refused("does not open")

\* match_kcv: the key recorded is the current one or a retired one.
Matches(keys, kcv) == kcv \in {keys.key} \cup keys.retired

-----------------------------------------------------------------------------
(* blind_index.rs: tokens by which a store finds rows by a sealed value. *)

NoToken == <<>>
Casefold(v) == Trim(v)

\* Of the current key alone: there are no retired ones.
BlindIndex(cipher, store, field) == [key |-> cipher.key \o <<"blind", store, field>>]

\* Mutant: the value as it is written.
TokenVerbatim(index, v) == <<index.key, v>>

\* token_casefold.
Token(index, v) == <<index.key, Casefold(v)>>

-----------------------------------------------------------------------------
(* content.rs: the content cipher of a store. *)

ContentPrefix == "encb:v1:"
CompatEscape == "encb:raw:"
ContentMagic == "RYU-CB01"
ContentFamily == {"encb:v1:", "encb:v2:", CompatEscape}
RyuMagics == {ContentMagic, "RYU-SF01", "RYU-SL01"}
LooksLikeMagic == RyuMagics \cup {"RYU-CB02"}

\* from_root, with_retired_roots.
ContentCipher(root, retiredRoots, store) ==
  [store |-> store,
   key |-> Derive(root, "content", store),
   retired |-> {Derive(r, "content", store) : r \in retiredRoots \ {root}}]

\* subcipher: the same store, each key one level further down.
Subcipher(cipher, label) ==
  [cipher EXCEPT
     !.key = Derive(cipher.key, "sub", label),
     !.retired = {Derive(k, "sub", label) : k \in cipher.retired}]

\* associated_data: every part by its length, so that no two contexts agree.
Aad(cipher, context) == <<cipher.store>> \o context

SealText(cipher, v, context) == Envelope(ContentPrefix, cipher.key, Aad(cipher, context), v)

OpenText(cipher, s, context) ==
  IF Begins(s, ContentPrefix) THEN Decrypt(cipher, Strip(s), Aad(cipher, context))
  ELSE IF Begins(s, "encb:v2:") THEN Refused("unknown version")
  ELSE Ok(s, s # Empty)

SealBytes(cipher, v, context) ==
  IF \E m \in RyuMagics : Begins(v, m) THEN Refused("already an envelope")
  ELSE Ok(Envelope(ContentMagic, cipher.key, Aad(cipher, context), v), FALSE)

OpenBytes(cipher, s, context) ==
  IF Begins(s, ContentMagic) THEN Decrypt(cipher, Strip(s), Aad(cipher, context))
  ELSE IF \E m \in LooksLikeMagic : Begins(s, m) THEN Refused("unknown version")
  ELSE Ok(s, s # Empty)

\* Mutant: the compat escape is sealed with the value.
ResealedEscape(cipher, s, context) ==
  LET opened == OpenText(cipher, s, context)
  IN IF opened.ok /\ opened.again THEN SealText(cipher, opened.value, context) ELSE s

\* reseal_value of a TEXT column: an unreadable value stays as it is.
ResealedText(cipher, s, context) ==
  LET opened == OpenText(cipher, s, context)
      plain == IF ~Begins(s, ContentPrefix) /\ Begins(opened.value, CompatEscape)
               THEN Strip(opened.value)
               ELSE opened.value
  IN IF opened.ok /\ opened.again THEN SealText(cipher, plain, context) ELSE s

\* reseal_value of a BLOB column.
ResealedBytes(cipher, s, context) ==
  LET opened == OpenBytes(cipher, s, context)
      sealed == SealBytes(cipher, opened.value, context)
  IN IF opened.ok /\ opened.again /\ sealed.ok THEN sealed.value ELSE s

-----------------------------------------------------------------------------
(* store_seal.rs: how a store seals, by the mode it was opened in. *)

Escaped(v) == [marks |-> <<CompatEscape>> \o v.marks, body |-> v.body]

StoreSealText(mode, cipher, v, context) ==
  CASE mode = "sealing" -> Ok(SealText(cipher, v, context), FALSE)
    [] mode = "compat" -> Ok(IF \E m \in ContentFamily : Begins(v, m)
                             THEN Escaped(v) ELSE v, FALSE)
    [] mode = "unhealthy" -> Refused("unhealthy")

\* Mutant: a keyless store's escaped text is not sealed once there is a key.
StoreOpenTextOnce(mode, cipher, s, context) ==
  IF Begins(s, CompatEscape) THEN Ok(Strip(s), FALSE)
  ELSE IF mode = "sealing" THEN OpenText(cipher, s, context)
  ELSE IF Begins(s, ContentPrefix) THEN Refused("no key")
  ELSE Ok(s, FALSE)

\* open_text_detailed.
StoreOpenText(mode, cipher, s, context) ==
  IF Begins(s, CompatEscape) THEN Ok(Strip(s), mode = "sealing")
  ELSE IF mode = "sealing" THEN OpenText(cipher, s, context)
  ELSE IF Begins(s, ContentPrefix) THEN Refused("no key")
  ELSE Ok(s, FALSE)

StoreSealBytes(mode, cipher, v, context) ==
  CASE mode = "sealing" -> SealBytes(cipher, v, context)
    [] mode = "compat" -> IF Begins(v, ContentMagic) THEN Refused("no key") ELSE Ok(v, FALSE)
    [] mode = "unhealthy" -> Refused("unhealthy")

StoreOpenBytes(mode, cipher, s, context) ==
  IF mode = "sealing" THEN OpenBytes(cipher, s, context)
  ELSE IF Begins(s, ContentMagic) THEN Refused("no key")
  ELSE Ok(s, FALSE)

-----------------------------------------------------------------------------
(* lib.rs, process_keys.rs, sealed.rs: fields under the master key (enc:v1:) *)
(* or a plugin's or component's subkey (encp:v1:, encc:v1:).                 *)

FieldMark == "enc:v1:"
PluginMark == "encp:v1:"
ComponentMark == "encc:v1:"
BoundMark == "enc:v2:"
Schemes == {FieldMark, PluginMark, ComponentMark, BoundMark, ContentPrefix}

\* The strings a caller may write, by what a test of a prefix tells apart.
Marks == {" "} \cup ContentFamily \cup LooksLikeMagic \cup Schemes
IsText(v) == v.marks \in Seq(Marks) /\ v = Text(v.marks, v.body.word)

LooksSealed(s) == \E m \in Schemes : Begins(s, m)

\* FieldCipher, PluginCipher, ComponentCipher over the keys of a process.
FieldCipher(keys) == [mark |-> FieldMark, key |-> keys.key, retired |-> keys.retired]
PluginCipher(keys) == [FieldCipher(keys) EXCEPT !.mark = PluginMark]
ComponentCipher(keys) == [FieldCipher(keys) EXCEPT !.mark = ComponentMark]

\* seal_with_prefix, open_body: fields are bound to nothing but their key.
Seal(sealer, v) == Envelope(sealer.mark, sealer.key, <<>>, v)
OpenBody(sealer, s) == Decrypt(sealer, s, <<>>)

\* Mutant: what another scheme sealed is taken for legacy plaintext.
OpenPassing(sealer, s) ==
  IF Begins(s, sealer.mark) THEN OpenBody(sealer, Strip(s)) ELSE Ok(s, s # Empty)

\* SecretSealer::open of the three ciphers.
Open(sealer, s) ==
  IF Begins(s, sealer.mark) THEN OpenBody(sealer, Strip(s))
  ELSE IF LooksSealed(s) THEN Refused("another scheme")
  ELSE Ok(s, s # Empty)

\* seal_str.
SealStr(sealers, v) ==
  IF sealers = {} THEN Refused("no key") ELSE Ok(Seal(CHOOSE c \in sealers : TRUE, v), FALSE)

\* open_str_tracking: plaintext needs no key.
OpenStr(sealers, s) ==
  IF ~LooksSealed(s) THEN Ok(s, s # Empty)
  ELSE IF sealers = {} THEN Refused("no key")
  ELSE Open(CHOOSE c \in sealers : TRUE, s)

\* What the default open_tracking leaves of it: a subkey's retired
\* predecessors open silently.
Silently(opened) == IF opened.ok THEN Ok(opened.value, FALSE) ELSE opened

\* SealedString: "unset" stays empty.
Serialize(sealers, v) == IF v = Empty THEN Ok(Empty, FALSE) ELSE SealStr(sealers, v)

Deserialize(sealers, s) ==
  IF LooksSealed(s) THEN Silently(OpenStr(sealers, s)) ELSE OpenStr(sealers, s)

\* write_secret_file: sealed before a byte is written, then put in place by a rename.
WriteSecret(sealers, v) == SealStr(sealers, v)

\* read_secret_file: the trimmed body; an empty file is no secret.
ReadSecret(sealers, s) ==
  LET opened == Deserialize(sealers, Trim(s))
  IN IF opened.ok THEN Ok(Trim(opened.value), opened.again) ELSE opened

-----------------------------------------------------------------------------
(* TenantCipher: enc:v2:, under the tenant's subkey and bound to the record. *)

\* new: of the current master key alone.
TenantCipher(master, tenant) ==
  [tenant |-> tenant, master |-> master, key |-> Derive(master, "tenant", tenant), retired |-> {}]

\* SealContext::associated_data.
BoundAad(cipher, context) == <<cipher.tenant>> \o context

Unbound == Refused("not a bound envelope")

TenantSeal(cipher, v, context) ==
  Envelope(BoundMark, cipher.key, BoundAad(cipher, context), v)

TenantOpen(cipher, s, context) ==
  IF Begins(s, BoundMark) THEN Decrypt(cipher, Strip(s), BoundAad(cipher, context))
  ELSE Unbound

\* open_allowing_legacy, for a migration.
TenantOpenLegacy(cipher, s, context) ==
  IF Begins(s, FieldMark)
  THEN LET opened == Open(FieldCipher([key |-> cipher.master, retired |-> {}]), s)
       IN IF opened.ok THEN Ok(opened.value, TRUE) ELSE opened
  ELSE TenantOpen(cipher, s, context)

-----------------------------------------------------------------------------
(* process_keys.rs: the key of a process. *)

NoEnv == [key |-> <<>>]
BrokenEnv == [key |-> <<"not base64 of 32 bytes">>]

\* plugin_child_env, component_child_env: what Core sets for a child.
ChildEnv(keys, scope) ==
  [key |-> Subkey(keys.key, scope), scope |-> scope,
   retired |-> {Subkey(r, scope) : r \in keys.retired}]

\* read_delivered, the first time: nothing, keys with their scope, or an error.
Delivered(env) == env # NoEnv
Refuses(env, scope) == env = BrokenEnv \/ env.scope # scope

Subkeys(masters, scope) ==
  {[key |-> Subkey(m.key, scope), retired |-> {Subkey(r, scope) : r \in m.retired}] : m \in masters}

\* subkey_from: the delivered key, which must be for this scope and is never
\* passed over, else the subkey of the master key this process holds.
SubkeyFrom(env, masters, scope) ==
  IF ~Delivered(env) THEN Subkeys(masters, scope)
  ELSE IF Refuses(env, scope) THEN {}
  ELSE {[key |-> env.key, retired |-> env.retired]}
=============================================================================
