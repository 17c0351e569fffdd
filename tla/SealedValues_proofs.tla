------------------------- MODULE SealedValues_proofs -------------------------
(***************************************************************************)
(* The properties of SealedValues, for any records, processes, inputs and  *)
(* bounds that satisfy ValuesAssumption.                                   *)
(***************************************************************************)
EXTENDS SealedValues, TLAPS

-----------------------------------------------------------------------------
(* Envelopes. *)

\* A choice from one thing is that thing.
LEMMA OnlyChoice ==
  ASSUME NEW a PROVE (CHOOSE x \in {a} : TRUE) = a
OBVIOUS

\* An envelope begins with its mark and with nothing else; without it, its body is left.
LEMMA EnvelopeMark ==
  ASSUME NEW mark, NEW key, NEW aad, NEW plain, NEW e, e = Envelope(mark, key, aad, plain)
  PROVE /\ \A m : Begins(e, m) <=> m = mark
        /\ e # Empty
        /\ IsSealed(e)
        /\ IsBody(Strip(e))
        /\ mark # " " => Trim(e) = e
<1>1. e = [marks |-> <<mark>>, body |-> [key |-> key, aad |-> aad, plain |-> plain]]
  BY DEF Envelope
<1>2. <<mark>> # <<>> /\ Head(<<mark>>) = mark /\ Tail(<<mark>>) = <<>>
  OBVIOUS
<1>3. e.marks = <<mark>> /\ e.body = [key |-> key, aad |-> aad, plain |-> plain]
  BY <1>1
<1>4. \A m : Begins(e, m) <=> m = mark
  BY <1>2, <1>3 DEF Begins
<1>5. e # Empty
  <2>1. Empty.marks = <<>>
    BY DEF Empty, Text
  <2> QED
    BY <2>1, <1>2, <1>3, Zenon
<1>6. DOMAIN e.body = {"key", "aad", "plain"}
  BY <1>3
<1>7. Strip(e) = [marks |-> <<>>, body |-> e.body]
  BY <1>1, <1>2, <1>3 DEF Strip
<1>8. Strip(e).marks = <<>> /\ Strip(e).body = e.body
  BY <1>7
<1>9. IsBody(Strip(e))
  BY <1>6, <1>8 DEF IsBody
<1>10. mark # " " => Trim(e) = e
  BY <1>4 DEF Trim
<1> QED
  BY <1>4, <1>5, <1>6, <1>8, <1>9, <1>10, Zenon DEF IsSealed

\* What an envelope holds.
LEMMA EnvelopeBody ==
  ASSUME NEW mark, NEW key, NEW aad, NEW plain, NEW e, e = Envelope(mark, key, aad, plain)
  PROVE /\ e.body.key = key /\ e.body.aad = aad /\ e.body.plain = plain
        /\ Strip(e).body.key = key /\ Strip(e).body.aad = aad /\ Strip(e).body.plain = plain
BY DEF Envelope, Strip

\* A text a caller writes is no envelope, and stays a text without its first mark.
LEMMA TextShape ==
  ASSUME NEW s, IsText(s)
  PROVE /\ "key" \notin DOMAIN s.body
        /\ \A m : Begins(s, m) => IsText(Strip(s)) /\ m \in Marks
        /\ IsText(Trim(s))
<1>1. /\ s.marks \in Seq(Marks)
      /\ s = [marks |-> s.marks, body |-> [word |-> s.body.word]]
  BY DEF IsText, Text
<1>2. s.body = [word |-> s.body.word]
  BY <1>1
<1>3. "key" \notin DOMAIN s.body
  <2>1. DOMAIN s.body = {"word"}
    BY <1>2
  <2> QED
    BY <2>1
<1>4. ASSUME NEW m, Begins(s, m) PROVE IsText(Strip(s)) /\ m \in Marks
  <2>1. s.marks # <<>> /\ m = Head(s.marks)
    BY <1>4 DEF Begins
  <2>2. Tail(s.marks) \in Seq(Marks) /\ m \in Marks
    BY <1>1, <2>1
  <2>3. Strip(s) = [marks |-> Tail(s.marks), body |-> [word |-> s.body.word]]
    BY <1>1, <1>2 DEF Strip
  <2> QED
    BY <2>2, <2>3 DEF IsText, Text
<1> QED
  BY <1>3, <1>4 DEF Trim

\* The empty value and the value of an older release are texts without a mark.
LEMMA EmptyIsText ==
  /\ IsText(Empty) /\ IsText(Old)
  /\ Empty.marks = <<>> /\ Old.marks = <<>>
  /\ Old # Empty
<1>1. Old # Empty
  BY "old" # "" DEF Empty, Old, Text
<1>2. /\ Empty.marks = <<>> /\ Empty.body.word = ""
      /\ Old.marks = <<>> /\ Old.body.word = "old"
  BY DEF Empty, Old, Text
<1>3. <<>> \in Seq(Marks)
  OBVIOUS
<1> QED
  BY <1>1, <1>2, <1>3, Zenon DEF IsText, Empty, Old

\* An escape is taken off as it was put on.
LEMMA EscapeShape ==
  ASSUME NEW v, IsText(v)
  PROVE IsText(Escaped(v)) /\ Begins(Escaped(v), CompatEscape) /\ Strip(Escaped(v)) = v
<1>1. /\ v.marks \in Seq(Marks) /\ CompatEscape \in Marks
      /\ v = [marks |-> v.marks, body |-> [word |-> v.body.word]]
  BY DEF IsText, Text, Marks, ContentFamily
<1>2. v.body = [word |-> v.body.word]
  BY <1>1
<1>3. /\ <<CompatEscape>> \o v.marks \in Seq(Marks)
      /\ <<CompatEscape>> \o v.marks # <<>>
      /\ Head(<<CompatEscape>> \o v.marks) = CompatEscape
      /\ Tail(<<CompatEscape>> \o v.marks) = v.marks
  BY <1>1
<1>4. Escaped(v).marks = <<CompatEscape>> \o v.marks /\ Escaped(v).body = v.body
  BY DEF Escaped
<1>5. Begins(Escaped(v), CompatEscape)
  BY <1>3, <1>4 DEF Begins
<1>6. IsText(Escaped(v))
  BY <1>2, <1>3 DEF IsText, Text, Escaped
<1>7. Strip(Escaped(v)) = v
  BY <1>1, <1>2, <1>3, <1>4 DEF Strip, Escaped
<1> QED
  BY <1>5, <1>6, <1>7

\* Associated data tells records apart.
LEMMA AadInjective ==
  ASSUME NEW tag, NEW k, NEW i, NEW j, <<tag>> \o <<k, i>> = <<tag>> \o <<k, j>>
  PROVE i = j
<1>1. (<<tag>> \o <<k, i>>)[3] = i /\ (<<tag>> \o <<k, j>>)[3] = j
  OBVIOUS
<1> QED
  BY <1>1
-----------------------------------------------------------------------------
(* The inductive invariant: what each stored form is, by how it came there, and *)
(* what its value is.                                                            *)

\* What each sort of values is sealed with, and bound to.
OwnMark ==
  CASE kind = "text" -> ContentPrefix
    [] kind = "blob" -> ContentMagic
    [] kind = "config" -> ComponentMark
    [] kind = "secret" -> PluginMark
    [] kind = "tenant" -> BoundMark
    [] OTHER -> FieldMark

SealKey(k) ==
  CASE kind = "text" -> Derive(k, "content", "store")
    [] kind = "blob" -> Derive(Derive(k, "content", "store"), "sub", "hour")
    [] kind = "tenant" -> Derive(k, "tenant", "t")
    [] OTHER -> k

AadOf(i) ==
  CASE kind \in {"text", "blob"} -> <<"store">> \o Context(i)
    [] kind = "tenant" -> <<"t">> \o Context(i)
    [] OTHER -> <<>>

KeyOf(n) == Subkey(Root(n), Scope)

\* Trimming a secret once is enough.
Value(v) == IsText(v) /\ (kind = "secret" => Trim(Trim(v)) = Trim(v))

SealedAt(i, s) ==
  /\ IsSealed(s)
  /\ Value(s.body.plain)
  /\ \E n \in 1..master : s = Envelope(OwnMark, SealKey(KeyOf(n)), AadOf(i), s.body.plain)

\* A tenant's value from before it was bound.
Legacy(s) == kind = "tenant" /\ s = Envelope(FieldMark, Root(1), <<>>, Old)

\* What is no envelope: only a store without a key takes more than one word.
Unsealed(s) ==
  /\ Value(s)
  /\ CASE kind = "text" -> Begins(s, CompatEscape) \/ \A m \in ContentFamily : ~Begins(s, m)
       [] kind = "blob" -> ~Begins(s, ContentMagic)
       [] kind = "tenant" -> FALSE
       [] OTHER -> s \in {Old, Empty}

Form(i, s) == SealedAt(i, s) \/ Legacy(s) \/ Unsealed(s)

\* The value that a stored form stands for, and what a read makes of it.
ValueOf(s) ==
  IF IsSealed(s) THEN s.body.plain
  ELSE IF kind = "text" /\ Begins(s, CompatEscape) THEN Strip(s) ELSE s
Norm(v) == IF kind = "secret" THEN Trim(v) ELSE v

\* The kinds whose envelopes open where they were made only.
Bound == kind \in {"text", "blob", "tenant"}

MovedForm(i, s) ==
  \E j \in Ids \ {i} : IF Bound THEN SealedAt(j, s) ELSE Form(j, s)

ForeignForm(s) ==
  /\ ~IsStore
  /\ IsSealed(s)
  /\ \E mark \in Schemes \ {OwnMark} :
       /\ kind = "tenant" => mark # FieldMark
       /\ s = Envelope(mark, s.body.key, <<>>, Old)

NewerForm(s) ==
  \/ kind = "text" /\ s = Text(<<"encb:v2:">>, "v2")
  \/ kind = "blob" /\ s = Text(<<"RYU-CB02">>, "v2")

\* What is stored for a record, by its origin.
StoredOK(i) ==
  /\ origin[i] \in {"written", "stale"} => Form(i, stored[i])
  /\ origin[i] = "written" => Norm(ValueOf(stored[i])) = Norm(written[i])
  /\ origin[i] = "moved" => MovedForm(i, stored[i])
  /\ origin[i] = "foreign" => ForeignForm(stored[i])
  /\ origin[i] = "newer" => NewerForm(stored[i])

TokenOK(i) ==
  kind = "text" /\ token[i] # NoToken /\ origin[i] \in {"written", "moved"} =>
    token[i] = <<token[i][1], Casefold(ValueOf(stored[i]))>>

ProcOK(p) ==
  /\ DOMAIN proc[p] = {"mode", "key", "retired", "read", "saw"}
  /\ proc[p].mode \in IF IsStore THEN Modes \ {"keyless"} ELSE Modes \ {"compat", "unhealthy"}
  /\ proc[p].mode = "compat" => proc[p].saw = <<>>
  /\ proc[p].mode = "down" => proc[p].read = Null

\* What was read is still good to write back.
ReadOK(p) ==
  LET r == proc[p].read
  IN r # Null =>
       /\ kind # "blob"
       /\ proc[p].mode = "sealing" \/ (kind = "config" /\ r.value = Empty)
       /\ Form(r.id, r.from)
       /\ Value(r.value)
       /\ r.value = Norm(ValueOf(r.from))

Functions ==
  /\ stored = [i \in Ids |-> stored[i]]
  /\ token = [i \in Ids |-> token[i]]
  /\ written = [i \in Ids |-> written[i]]
  /\ origin = [i \in Ids |-> origin[i]]
  /\ proc = [p \in Procs |-> proc[p]]

IInv ==
  /\ TypeOK
  /\ Functions
  /\ \A i \in Ids : StoredOK(i) /\ TokenOK(i)
  /\ \A p \in Procs : ProcOK(p) /\ ReadOK(p)

-----------------------------------------------------------------------------
(* Opening and sealing. *)

\* What succeeds holds a value; what is refused does not succeed.
LEMMA Results ==
  ASSUME NEW v, NEW again, NEW why
  PROVE /\ Ok(v, again).ok /\ Ok(v, again).value = v /\ Ok(v, again).again = again
        /\ ~Refused(why).ok
BY DEF Ok, Refused

\* A body opens under the keys of the cipher, where it was bound.
LEMMA Opening ==
  ASSUME NEW cipher, NEW aad, NEW mark, NEW key, NEW bound, NEW v,
         NEW e, e = Envelope(mark, key, bound, v)
  PROVE /\ Decrypt(cipher, Strip(e), aad).ok <=> bound = aad /\ key \in Candidates(cipher)
        /\ Decrypt(cipher, Strip(e), aad).ok =>
             /\ Decrypt(cipher, Strip(e), aad).value = v
             /\ Decrypt(cipher, Strip(e), aad).again <=> key # cipher.key
<1> DEFINE s == Strip(e)
<1>1. /\ IsBody(s)
      /\ s.body.key = key /\ s.body.aad = bound /\ s.body.plain = v
  <2>1. IsBody(s)
    BY EnvelopeMark
  <2>2. s.body.key = key /\ s.body.aad = bound /\ s.body.plain = v
    BY EnvelopeBody
  <2> QED
    BY <2>1, <2>2
<1> HIDE DEF s
<1>2. Decrypt(cipher, s, aad) =
        IF bound = aad /\ key \in Candidates(cipher) THEN Ok(v, key # cipher.key)
        ELSE Refused("does not open")
  <2>1. CASE bound = aad /\ key \in Candidates(cipher)
    <3>1. \E k \in Candidates(cipher) : OpensUnder(k, s, aad)
      BY <1>1, <2>1 DEF OpensUnder
    <3>2. OpensUnder(cipher.key, s, aad) <=> key = cipher.key
      BY <1>1, <2>1 DEF OpensUnder
    <3>3. Decrypt(cipher, s, aad) = Ok(v, ~OpensUnder(cipher.key, s, aad))
      BY <1>1, <3>1, Zenon DEF Decrypt
    <3> QED
      BY <2>1, <3>2, <3>3, Zenon
  <2>2. CASE ~(bound = aad /\ key \in Candidates(cipher))
    <3>1. ~\E k \in Candidates(cipher) : OpensUnder(k, s, aad)
      BY <1>1, <2>2 DEF OpensUnder
    <3>2. Decrypt(cipher, s, aad) = Refused("does not open")
      BY <1>1, <3>1, Zenon DEF Decrypt
    <3> QED
      BY <2>2, <3>2, Zenon
  <2> QED
    BY <2>1, <2>2, Zenon
<1>3. CASE bound = aad /\ key \in Candidates(cipher)
  <2>1. Decrypt(cipher, s, aad) = Ok(v, key # cipher.key)
    BY <1>2, <1>3, Zenon
  <2>2. Decrypt(cipher, s, aad).ok /\ Decrypt(cipher, s, aad).value = v
    BY <2>1, Results
  <2>3. Decrypt(cipher, s, aad).again <=> key # cipher.key
    <3>1. CASE key = cipher.key
      BY <2>1, <3>1, Ok(v, FALSE).again = FALSE, (key # cipher.key) = FALSE DEF Ok
    <3>2. CASE key # cipher.key
      BY <2>1, <3>2, Ok(v, TRUE).again = TRUE, (key # cipher.key) = TRUE DEF Ok
    <3> QED
      BY <3>1, <3>2
  <2> QED
    BY <2>2, <2>3, <1>3, Zenon DEF s
<1>4. CASE ~(bound = aad /\ key \in Candidates(cipher))
  <2>1. ~Decrypt(cipher, s, aad).ok
    BY <1>2, <1>4, Results, Zenon
  <2> QED
    BY <2>1, <1>4, Zenon DEF s
<1> QED
  BY <1>3, <1>4, Zenon

-----------------------------------------------------------------------------
(* Reading. *)

SixKinds == {"text", "blob", "field", "config", "secret", "tenant"}

\* The master or subkeys a process tries: a tenant's cipher takes no retired ones.
Held(p) == IF kind = "tenant" THEN {proc[p].key} ELSE {proc[p].key} \cup proc[p].retired

\* The ciphers of a process seal under its key, try what it holds, and bind alike.
LEMMA StoreCipher ==
  ASSUME NEW p, NEW i, kind \in {"text", "blob"}
  PROVE /\ Cipher(p).key = SealKey(proc[p].key)
        /\ Candidates(Cipher(p)) = {SealKey(k) : k \in Held(p)}
        /\ Aad(Cipher(p), Context(i)) = AadOf(i)
<1> DEFINE c == ContentCipher(proc[p].key, proc[p].retired, "store")
           s == Subcipher(c, "hour")
           Down1(k) == Derive(k, "content", "store")
           Down2(k) == Derive(k, "sub", "hour")
<1>1. /\ c.key = Down1(proc[p].key) /\ c.store = "store"
      /\ c.retired = {Down1(r) : r \in proc[p].retired \ {proc[p].key}}
  BY DEF ContentCipher
<1>2. s.key = Down2(c.key) /\ s.store = "store" /\ s.retired = {Down2(k) : k \in c.retired}
  BY DEF Subcipher, ContentCipher
<1>3. Held(p) = {proc[p].key} \cup proc[p].retired
  BY DEF Held
<1>4. CASE kind = "text"
  <2>1. Cipher(p) = c /\ \A k : SealKey(k) = Down1(k)
    BY <1>4 DEF Cipher, SealKey
  <2>2. Candidates(Cipher(p)) = {SealKey(k) : k \in Held(p)}
    <3> HIDE DEF c, Down1
    <3> QED
      BY <1>1, <1>3, <2>1 DEF Candidates
  <2>3. Aad(Cipher(p), Context(i)) = AadOf(i)
    BY <1>1, <1>4, <2>1, Zenon DEF Aad, AadOf
  <2> QED
    BY <1>1, <2>1, <2>2, <2>3, Zenon
<1>5. CASE kind = "blob"
  <2>1. Cipher(p) = s /\ \A k : SealKey(k) = Down2(Down1(k))
    BY <1>5 DEF Cipher, SealKey
  <2>2. Candidates(Cipher(p)) = {SealKey(k) : k \in Held(p)}
    <3> HIDE DEF c, s, Down1, Down2
    <3> QED
      BY <1>1, <1>2, <1>3, <2>1 DEF Candidates
  <2>3. Aad(Cipher(p), Context(i)) = AadOf(i)
    BY <1>2, <1>5, <2>1, Zenon DEF Aad, AadOf
  <2>4. Cipher(p).key = SealKey(proc[p].key)
    <3> HIDE DEF c, s, Down1, Down2
    <3> QED
      BY <1>1, <1>2, <2>1, Zenon
  <2> QED
    BY <2>2, <2>3, <2>4, Zenon
<1> QED
  BY <1>4, <1>5

\* A process has one cipher of fields, of configuration or of secrets.
LEMMA SealersOf ==
  ASSUME NEW p, proc[p].mode = "sealing", kind \in {"field", "config", "secret"}
  PROVE \E c : /\ Sealers(p) = {c}
               /\ c.mark = OwnMark
               /\ c.key = SealKey(proc[p].key)
               /\ Candidates(c) = {SealKey(k) : k \in Held(p)}
<1> DEFINE c == [mark |-> OwnMark, key |-> proc[p].key, retired |-> proc[p].retired]
<1>1. Sealers(p) = {c}
  BY DEF Sealers, OwnMark, FieldCipher, ComponentCipher, PluginCipher
<1>2. c.mark = OwnMark /\ c.key = proc[p].key /\ c.retired = proc[p].retired
  OBVIOUS
<1>3. \A k : SealKey(k) = k
  BY DEF SealKey
<1>4. Held(p) = {proc[p].key} \cup proc[p].retired
  BY DEF Held
<1> HIDE DEF c
<1>5. Candidates(c) = {SealKey(k) : k \in Held(p)}
  BY <1>2, <1>3, <1>4 DEF Candidates
<1> QED
  BY <1>1, <1>2, <1>3, <1>5, Zenon

\* A tenant's fields are sealed under the process's key, bound to the record.
LEMMA TenantKeys ==
  ASSUME NEW p, NEW i, kind = "tenant"
  PROVE /\ Tenant(p).key = SealKey(proc[p].key)
        /\ Tenant(p).master = proc[p].key
        /\ Candidates(Tenant(p)) = {SealKey(k) : k \in Held(p)}
        /\ BoundAad(Tenant(p), Context(i)) = AadOf(i)
<1>1. /\ Tenant(p).key = Derive(proc[p].key, "tenant", "t") /\ Tenant(p).retired = {}
      /\ Tenant(p).tenant = "t" /\ Tenant(p).master = proc[p].key
  BY DEF Tenant, TenantCipher
<1>2. \A k : SealKey(k) = Derive(k, "tenant", "t")
  BY DEF SealKey
<1>3. Held(p) = {proc[p].key}
  BY DEF Held
<1>4. Candidates(Tenant(p)) = {SealKey(k) : k \in Held(p)}
  BY <1>1, <1>2, <1>3 DEF Candidates
<1>5. BoundAad(Tenant(p), Context(i)) = AadOf(i)
  BY <1>1, Zenon DEF BoundAad, AadOf
<1> QED
  BY <1>1, <1>2, <1>4, <1>5, Zenon

\* The marks of the forms, no two alike, and none of them blank.
LEMMA MarksDiffer ==
  ASSUME kind \in SixKinds
  PROVE /\ OwnMark \in Schemes \cup {ContentMagic}
        /\ OwnMark # CompatEscape /\ OwnMark # " " /\ OwnMark # "encb:v2:"
        /\ \A m \in Schemes : m # " " /\ m # CompatEscape
BY DEF SixKinds, OwnMark, Schemes, ContentPrefix, ContentMagic, FieldMark, PluginMark,
       ComponentMark, BoundMark, CompatEscape

\* Who opens an envelope of the store's own scheme.
OpensHere(p, i, key, aad) ==
  /\ proc[p].mode = "sealing"
  /\ aad = AadOf(i)
  /\ \E k \in Held(p) : key = SealKey(k)

\* An envelope of the store's own scheme opens to the value it holds, for those
\* that hold its key and where it was bound.
ReadsSealed(p, i, key, aad, v) ==
  /\ ReadOf(p, i).ok <=> OpensHere(p, i, key, aad)
  /\ ReadOf(p, i).ok => ReadOf(p, i).value = Norm(v)
  /\ ReadOf(p, i).ok /\ kind \in {"text", "field"} =>
       (ReadOf(p, i).again <=> key # SealKey(proc[p].key))

\* A store's text or blob under an envelope opens where it was sealed.
LEMMA ReadSealedStore ==
  ASSUME NEW p, NEW i, NEW key, NEW aad, NEW v, kind \in {"text", "blob"},
         stored[i] = Envelope(OwnMark, key, aad, v)
  PROVE ReadsSealed(p, i, key, aad, v)
<1> DEFINE s == stored[i]
           d == Decrypt(Cipher(p), Strip(s), Aad(Cipher(p), Context(i)))
<1>1. Begins(s, OwnMark) /\ ~Begins(s, CompatEscape)
  <2>1. \A m : Begins(s, m) <=> m = OwnMark
    BY EnvelopeMark
  <2>2. OwnMark # CompatEscape
    BY MarksDiffer DEF SixKinds
  <2> QED
    BY <2>1, <2>2, Zenon
<1>2. CASE proc[p].mode = "sealing"
  <2>1. ReadOf(p, i) = d
    <3>1. CASE kind = "text"
      <4>1. OwnMark = ContentPrefix
        BY <3>1 DEF OwnMark
      <4> QED
        BY <1>1, <1>2, <3>1, <4>1, Zenon DEF ReadOf, StoreOpenText, OpenText
    <3>2. CASE kind = "blob"
      <4>1. OwnMark = ContentMagic
        BY <3>2 DEF OwnMark
      <4>2. kind # "text"
        BY <3>2
      <4> QED
        BY <1>1, <1>2, <3>2, <4>1, <4>2, Zenon DEF ReadOf, StoreOpenBytes, OpenBytes
    <3> QED
      BY <3>1, <3>2
  <2>2. /\ d.ok <=> aad = Aad(Cipher(p), Context(i)) /\ key \in Candidates(Cipher(p))
        /\ d.ok => d.value = v /\ (d.again <=> key # Cipher(p).key)
    BY Opening
  <2>3. /\ Cipher(p).key = SealKey(proc[p].key)
        /\ Candidates(Cipher(p)) = {SealKey(k) : k \in Held(p)}
        /\ Aad(Cipher(p), Context(i)) = AadOf(i)
    BY StoreCipher
  <2>4. Norm(v) = v
    BY DEF Norm
  <2> HIDE DEF d
  <2> QED
    BY <1>2, <2>1, <2>2, <2>3, <2>4 DEF ReadsSealed, OpensHere
<1>3. CASE proc[p].mode # "sealing"
  <2>1. ReadOf(p, i) = Refused("no key")
    <3>1. CASE kind = "text"
      <4>1. OwnMark = ContentPrefix
        BY <3>1 DEF OwnMark
      <4> QED
        BY <1>1, <1>3, <3>1, <4>1, Zenon DEF ReadOf, StoreOpenText
    <3>2. CASE kind = "blob"
      <4>1. OwnMark = ContentMagic
        BY <3>2 DEF OwnMark
      <4>2. kind # "text"
        BY <3>2
      <4> QED
        BY <1>1, <1>3, <3>2, <4>1, <4>2, Zenon DEF ReadOf, StoreOpenBytes
    <3> QED
      BY <3>1, <3>2
  <2>2. ~Refused("no key").ok
    BY Results
  <2> QED
    BY <1>3, <2>1, <2>2, Zenon DEF ReadsSealed, OpensHere
<1> QED
  BY <1>2, <1>3

\* What OpenStr makes of an envelope, by its mark.
OpensAs(p, mark, key, aad, v, o) ==
  /\ o.ok <=> /\ mark = OwnMark
              /\ proc[p].mode = "sealing"
              /\ aad = <<>>
              /\ \E k \in Held(p) : key = SealKey(k)
  /\ o.ok => o.value = v /\ (o.again <=> key # SealKey(proc[p].key))

\* How a cipher of fields opens an envelope.
LEMMA OpensSealer ==
  ASSUME NEW p, NEW mark \in Schemes, NEW key, NEW aad, NEW v, NEW s,
         kind \in {"field", "config", "secret"},
         s = Envelope(mark, key, aad, v), NEW o, o = OpenStr(Sealers(p), s)
  PROVE OpensAs(p, mark, key, aad, v, o)
<1>1. \A m : Begins(s, m) <=> m = mark
  BY EnvelopeMark
<1>2. LooksSealed(s)
  BY <1>1 DEF LooksSealed
<1>3. CASE proc[p].mode # "sealing"
  <2>1. Sealers(p) = {}
    BY <1>3 DEF Sealers
  <2>2. ~OpenStr(Sealers(p), s).ok
    BY <1>2, <2>1, ~Refused("no key").ok, Zenon DEF OpenStr, Refused
  <2> QED
    BY <1>2, <1>3, <2>2, Zenon DEF OpensAs
<1>4. CASE proc[p].mode = "sealing"
  <2>1. PICK c : /\ Sealers(p) = {c}
                 /\ c.mark = OwnMark
                 /\ c.key = SealKey(proc[p].key)
                 /\ Candidates(c) = {SealKey(k) : k \in Held(p)}
    BY <1>4, SealersOf
  <2>2. Sealers(p) # {}
    BY <2>1
  <2>3. OpenStr(Sealers(p), s) = Open(c, s)
    BY <1>2, <2>1, <2>2, OnlyChoice, Zenon DEF OpenStr
  <2>4. CASE mark = OwnMark
    <3>1. Begins(s, c.mark)
      BY <1>1, <2>1, <2>4, Zenon
    <3>2. o = Decrypt(c, Strip(s), <<>>)
      BY <2>3, <3>1, Zenon DEF Open, OpenBody
    <3>3. /\ Decrypt(c, Strip(s), <<>>).ok <=> aad = <<>> /\ key \in Candidates(c)
          /\ Decrypt(c, Strip(s), <<>>).ok =>
               /\ Decrypt(c, Strip(s), <<>>).value = v
               /\ Decrypt(c, Strip(s), <<>>).again <=> key # c.key
      BY Opening
    <3>4. key \in Candidates(c) <=> \E k \in Held(p) : key = SealKey(k)
      BY <2>1
    <3> QED
      BY <1>4, <2>1, <2>4, <3>2, <3>3, <3>4, Zenon DEF OpensAs
  <2>5. CASE mark # OwnMark
    <3>1. ~Begins(s, c.mark)
      BY <1>1, <2>1, <2>5, Zenon
    <3>2. OpenStr(Sealers(p), s) = Refused("another scheme")
      BY <1>2, <2>3, <3>1, Zenon DEF Open
    <3>3. ~Refused("another scheme").ok
      BY Results
    <3> QED
      BY <1>2, <2>5, <3>2, <3>3, Zenon DEF OpensAs
  <2> QED
    BY <2>4, <2>5
<1> QED
  BY <1>3, <1>4

\* What a read makes of what OpenStr found, for the sealers that wrap it.
LEMMA ReadsOpenStr ==
  ASSUME NEW p, NEW i, kind \in {"field", "config", "secret"},
         kind = "secret" => Trim(stored[i]) = stored[i],
         NEW o, o = OpenStr(Sealers(p), stored[i])
  PROVE /\ ReadOf(p, i).ok <=> o.ok
        /\ o.ok => ReadOf(p, i).value = Norm(o.value)
        /\ kind = "field" => ReadOf(p, i) = o
<1> DEFINE s == stored[i]
           d == Deserialize(Sealers(p), s)
<1>1. /\ d.ok <=> o.ok
      /\ o.ok => d.value = o.value
  <2>1. d = o \/ d = IF o.ok THEN Ok(o.value, FALSE) ELSE o
    BY Zenon DEF Deserialize, Silently
  <2>2. Ok(o.value, FALSE).ok /\ Ok(o.value, FALSE).value = o.value
    BY Results
  <2> HIDE DEF d
  <2> QED
    BY <2>1, <2>2
<1>2. CASE kind = "field"
  <2>1. ReadOf(p, i) = o /\ \A v : Norm(v) = v
    BY <1>2 DEF ReadOf, Norm
  <2> QED
    BY <2>1
<1>3. CASE kind = "config"
  <2>1. ReadOf(p, i) = d /\ \A v : Norm(v) = v
    BY <1>3 DEF ReadOf, Norm
  <2> HIDE DEF d
  <2> QED
    BY <1>1, <1>3, <2>1
<1>4. CASE kind = "secret"
  <2>1. /\ ReadOf(p, i) = IF d.ok THEN Ok(Trim(d.value), d.again) ELSE d
        /\ \A v : Norm(v) = Trim(v)
    BY <1>4 DEF ReadOf, ReadSecret, Norm
  <2>2. Ok(Trim(d.value), d.again).ok /\ Ok(Trim(d.value), d.again).value = Trim(d.value)
    BY Results
  <2> HIDE DEF d
  <2> QED
    BY <1>1, <1>4, <2>1, <2>2
<1> QED
  BY <1>2, <1>3, <1>4

\* The same of a field, of configuration and of a secret,
LEMMA ReadSealedField ==
  ASSUME NEW p, NEW i, NEW key, NEW aad, NEW v, kind \in {"field", "config", "secret"},
         stored[i] = Envelope(OwnMark, key, aad, v)
  PROVE ReadsSealed(p, i, key, aad, v)
<1> DEFINE s == stored[i]
<1>0. PICK o : o = OpenStr(Sealers(p), s)
  OBVIOUS
<1>9. s = Envelope(OwnMark, key, aad, v)
  OBVIOUS
<1> HIDE DEF s
<1>1. OwnMark \in Schemes /\ OwnMark # " "
  BY DEF OwnMark, Schemes, FieldMark, ComponentMark, PluginMark
<1>2. AadOf(i) = <<>>
  BY DEF AadOf
<1>3. Trim(s) = s
  BY <1>1, <1>9, EnvelopeMark
<1>4. /\ o.ok <=> OpensHere(p, i, key, aad)
      /\ o.ok => o.value = v /\ (o.again <=> key # SealKey(proc[p].key))
  <2>1. OpensAs(p, OwnMark, key, aad, v, o)
    <3>1. PICK m : m = OwnMark
      OBVIOUS
    <3>2. m \in Schemes
      BY <1>1, <3>1
    <3>3. s = Envelope(m, key, aad, v)
      BY <1>9, <3>1
    <3>4. OpensAs(p, m, key, aad, v, o)
      BY <1>0, <3>2, <3>3, OpensSealer
    <3> QED
      BY <3>1, <3>4
  <2> QED
    BY <1>2, <2>1, Zenon DEF OpensHere, OpensAs
<1>5. /\ ReadOf(p, i).ok <=> o.ok
      /\ o.ok => ReadOf(p, i).value = Norm(o.value)
      /\ kind = "field" => ReadOf(p, i) = o
  BY <1>0, <1>3, ReadsOpenStr DEF s
<1>6. CASE kind = "field"
  BY <1>4, <1>5, <1>6, Zenon DEF ReadsSealed
<1>7. CASE kind # "field"
  <2>1. kind \notin {"text", "field"}
    BY <1>7
  <2> QED
    BY <1>4, <1>5, <2>1, Zenon DEF ReadsSealed
<1> QED
  BY <1>6, <1>7

\* of a tenant's field,
LEMMA ReadSealedTenant ==
  ASSUME NEW p, NEW i, NEW key, NEW aad, NEW v, kind = "tenant",
         stored[i] = Envelope(OwnMark, key, aad, v)
  PROVE /\ ReadsSealed(p, i, key, aad, v)
        /\ proc[p].mode = "sealing" =>
             TenantOpenLegacy(Tenant(p), stored[i], Context(i)) = ReadOf(p, i)
<1> DEFINE s == stored[i]
           d == Decrypt(Tenant(p), Strip(s), BoundAad(Tenant(p), Context(i)))
<1>1. \A m : Begins(s, m) <=> m = OwnMark
  BY EnvelopeMark
<1>2. OwnMark = BoundMark /\ BoundMark # FieldMark
  BY DEF OwnMark, BoundMark, FieldMark
<1>3. /\ ReadOf(p, i) = IF proc[p].mode = "sealing" THEN TenantOpen(Tenant(p), s, Context(i))
                        ELSE Refused("no key")
      /\ kind \notin {"text", "field"} /\ Norm(v) = v
  BY DEF ReadOf, Norm
<1>4. TenantOpen(Tenant(p), s, Context(i)) = d
  BY <1>1, <1>2, Zenon DEF TenantOpen
<1>5. TenantOpenLegacy(Tenant(p), s, Context(i)) = TenantOpen(Tenant(p), s, Context(i))
  BY <1>1, <1>2, Zenon DEF TenantOpenLegacy
<1>6. /\ d.ok <=> aad = BoundAad(Tenant(p), Context(i)) /\ key \in Candidates(Tenant(p))
      /\ d.ok => d.value = v
  BY Opening
<1>7. /\ Candidates(Tenant(p)) = {SealKey(k) : k \in Held(p)}
      /\ BoundAad(Tenant(p), Context(i)) = AadOf(i)
  BY TenantKeys
<1>8. ~Refused("no key").ok
  BY Results
<1> HIDE DEF d
<1>9. key \in Candidates(Tenant(p)) <=> \E k \in Held(p) : key = SealKey(k)
  BY <1>7
<1>10. CASE proc[p].mode = "sealing"
  BY <1>3, <1>4, <1>5, <1>6, <1>7, <1>9, <1>10, Zenon DEF ReadsSealed, OpensHere
<1>11. CASE proc[p].mode # "sealing"
  BY <1>3, <1>8, <1>11, Zenon DEF ReadsSealed, OpensHere
<1> QED
  BY <1>10, <1>11

\* and of all six kinds.
LEMMA ReadSealed ==
  ASSUME NEW p, NEW i, NEW key, NEW aad, NEW v, kind \in SixKinds,
         stored[i] = Envelope(OwnMark, key, aad, v)
  PROVE ReadsSealed(p, i, key, aad, v)
<1>1. CASE kind \in {"text", "blob"}
  BY <1>1, ReadSealedStore
<1>2. CASE kind \in {"field", "config", "secret"}
  BY <1>2, ReadSealedField
<1>3. CASE kind = "tenant"
  BY <1>3, ReadSealedTenant
<1> QED
  BY <1>1, <1>2, <1>3 DEF SixKinds

\* A record bound elsewhere does not open here.
LEMMA BoundElsewhere ==
  ASSUME NEW i, NEW j, i # j, Bound, kind \in SixKinds
  PROVE AadOf(i) # AadOf(j)
<1>1. CASE kind \in {"text", "blob"}
  BY <1>1, AadInjective DEF AadOf, Context
<1>2. CASE kind = "tenant"
  BY <1>2, AadInjective DEF AadOf, Context
<1> QED
  BY <1>1, <1>2 DEF Bound

\* An envelope that was moved to another record does not open where contexts bind.
LEMMA MovedRefused ==
  ASSUME NEW p, NEW i, Bound, kind \in SixKinds, MovedForm(i, stored[i])
  PROVE /\ ~ReadOf(p, i).ok
        /\ kind = "tenant" /\ proc[p].mode = "sealing" =>
             ~TenantOpenLegacy(Tenant(p), stored[i], Context(i)).ok
<1>1. PICK j \in Ids \ {i} : SealedAt(j, stored[i])
  BY DEF MovedForm
<1>2. PICK key, v : stored[i] = Envelope(OwnMark, key, AadOf(j), v)
  BY <1>1, Zenon DEF SealedAt
<1>3. ReadsSealed(p, i, key, AadOf(j), v)
  BY <1>2, ReadSealed, Zenon
<1>4. AadOf(j) # AadOf(i)
  BY <1>1, BoundElsewhere
<1>5. ~ReadOf(p, i).ok
  BY <1>3, <1>4, Zenon DEF ReadsSealed, OpensHere
<1> QED
  BY <1>2, <1>5, ReadSealedTenant, Zenon

\* Other schemes' envelopes are refused, those of a newer build where there is a key.
LEMMA ForeignRefused ==
  ASSUME NEW p, NEW i, kind \in SixKinds, ForeignForm(stored[i])
  PROVE /\ ~ReadOf(p, i).ok
        /\ kind = "tenant" => ~TenantOpenLegacy(Tenant(p), stored[i], Context(i)).ok
<1> DEFINE s == stored[i]
<1>1. PICK mark, key : /\ mark \in Schemes \ {OwnMark}
                       /\ kind = "tenant" => mark # FieldMark
                       /\ s = Envelope(mark, key, <<>>, Old)
  BY Zenon DEF ForeignForm
<1> HIDE DEF s
<1>2. \A m : Begins(s, m) <=> m = mark
  BY <1>1, EnvelopeMark
<1>3. CASE kind = "tenant"
  <2>1. mark # BoundMark /\ mark # FieldMark
    BY <1>1, <1>3 DEF OwnMark
  <2>2. /\ TenantOpen(Tenant(p), s, Context(i)) = Unbound
        /\ TenantOpenLegacy(Tenant(p), s, Context(i)) = Unbound
    BY <1>2, <2>1, Zenon DEF TenantOpen, TenantOpenLegacy
  <2>3. ReadOf(p, i) = IF proc[p].mode = "sealing" THEN TenantOpen(Tenant(p), s, Context(i))
                       ELSE Refused("no key")
    BY <1>3 DEF ReadOf, s
  <2>4. ~Unbound.ok /\ ~Refused("no key").ok
    BY Results DEF Unbound
  <2> QED
    BY <2>2, <2>3, <2>4, Zenon DEF s
<1>4. CASE kind \in {"field", "config", "secret"}
  <2>1. ~OpenStr(Sealers(p), s).ok
    <3>1. OpensAs(p, mark, key, <<>>, Old, OpenStr(Sealers(p), s))
      BY <1>1, <1>4, OpensSealer
    <3> QED
      BY <1>1, <3>1, Zenon DEF OpensAs
  <2>2. mark # " "
    BY <1>1, <1>4, MarksDiffer, Zenon
  <2>3. Trim(s) = s
    BY <1>1, <2>2, EnvelopeMark
  <2>4. ReadOf(p, i).ok <=> OpenStr(Sealers(p), s).ok
    BY <1>4, <2>3, ReadsOpenStr DEF s
  <2>5. kind # "tenant"
    BY <1>4
  <2> QED
    BY <2>1, <2>4, <2>5, Zenon
<1> QED
  BY <1>3, <1>4 DEF SixKinds, ForeignForm, IsStore

\* An envelope of a newer release is refused, never read as plaintext.
LEMMA NewerRefused ==
  ASSUME NEW p, NEW i, NewerForm(stored[i]), proc[p].mode = "sealing"
  PROVE ~ReadOf(p, i).ok
<1> DEFINE s == stored[i]
<1>1. ~Refused("unknown version").ok
  BY Results
<1>2. CASE kind = "text" /\ s = Text(<<"encb:v2:">>, "v2")
  <2>1. s.marks = <<"encb:v2:">>
    BY <1>2 DEF Text
  <2>2. Begins(s, "encb:v2:") /\ ~Begins(s, CompatEscape) /\ ~Begins(s, ContentPrefix)
    BY <2>1 DEF Begins, CompatEscape, ContentPrefix
  <2>3. ReadOf(p, i) = Refused("unknown version")
    BY <1>2, <2>2, Zenon DEF ReadOf, StoreOpenText, OpenText
  <2> QED
    BY <1>1, <2>3, Zenon
<1>3. CASE kind = "blob" /\ s = Text(<<"RYU-CB02">>, "v2")
  <2>1. s.marks = <<"RYU-CB02">>
    BY <1>3 DEF Text
  <2>2. ~Begins(s, ContentMagic) /\ \E m \in LooksLikeMagic : Begins(s, m)
    BY <2>1 DEF Begins, ContentMagic, LooksLikeMagic
  <2>3. kind # "text"
    BY <1>3
  <2>4. ReadOf(p, i) = Refused("unknown version")
    BY <1>3, <2>2, <2>3, Zenon DEF ReadOf, StoreOpenBytes, OpenBytes
  <2> QED
    BY <1>1, <2>4, Zenon
<1> QED
  BY <1>2, <1>3 DEF NewerForm

\* What is no envelope reads as it is, where there is a key and where there is
\* none; bytes that begin like one of Ryu's envelopes are refused by who has a key.
ReadsUnsealed(p, i) ==
  /\ proc[p].mode = "sealing" =>
       \/ ReadOf(p, i).ok
       \/ kind = "tenant"
       \/ kind = "blob" /\ \E m \in LooksLikeMagic \ {ContentMagic} : Begins(stored[i], m)
  /\ ReadOf(p, i).ok => ReadOf(p, i).value = Norm(ValueOf(stored[i]))
  /\ ReadOf(p, i).ok /\ kind \in {"text", "field"} =>
       (ReadOf(p, i).again => proc[p].mode = "sealing" \/ kind = "field")
  /\ ReadOf(p, i).ok /\ kind \in {"text", "field"} /\ proc[p].mode = "sealing" =>
       (ReadOf(p, i).again <=> stored[i] # Empty)

\* A stored text that is not sealed is no envelope.
LEMMA UnsealedIsNot ==
  ASSUME NEW s, Unsealed(s) PROVE ~IsSealed(s)
BY TextShape, Zenon DEF Unsealed, Value, IsSealed

\* An unsealed text is read as it was meant, its escape taken off,
LEMMA ReadUnsealedText ==
  ASSUME NEW p, NEW i, kind = "text", Unsealed(stored[i])
  PROVE ReadsUnsealed(p, i)
<1> DEFINE s == stored[i]
<1>1. ReadOf(p, i) = StoreOpenText(proc[p].mode, Cipher(p), s, Context(i))
  BY DEF ReadOf
<1>2. ~IsSealed(s)
  BY UnsealedIsNot
<1>3. \A v : Norm(v) = v
  BY DEF Norm
<1>4. CASE Begins(s, CompatEscape)
  <2>1. ReadOf(p, i) = Ok(Strip(s), proc[p].mode = "sealing")
    BY <1>1, <1>4, Zenon DEF StoreOpenText
  <2>2. /\ ReadOf(p, i).ok /\ ReadOf(p, i).value = Strip(s)
        /\ ReadOf(p, i).again = (proc[p].mode = "sealing")
    BY <2>1, Results
  <2>3. s # Empty
    BY <1>4, EmptyIsText DEF Begins
  <2>4. ValueOf(s) = Strip(s)
    BY <1>2, <1>4 DEF ValueOf
  <2> QED
    BY <1>3, <2>2, <2>3, <2>4 DEF ReadsUnsealed
<1>5. CASE ~Begins(s, CompatEscape)
  <2>1. \A m \in ContentFamily : ~Begins(s, m)
    BY <1>5 DEF Unsealed
  <2>2. ~Begins(s, ContentPrefix) /\ ~Begins(s, "encb:v2:")
    BY <2>1 DEF ContentFamily, ContentPrefix
  <2>3. ReadOf(p, i) = IF proc[p].mode = "sealing" THEN Ok(s, s # Empty) ELSE Ok(s, FALSE)
    BY <1>1, <1>5, <2>2, Zenon DEF StoreOpenText, OpenText
  <2>4. ReadOf(p, i).ok /\ ReadOf(p, i).value = s
    BY <2>3 DEF Ok
  <2>5. ReadOf(p, i).again = IF proc[p].mode = "sealing" THEN s # Empty ELSE FALSE
    BY <2>3 DEF Ok
  <2>6. ValueOf(s) = s
    BY <1>2, <1>5 DEF ValueOf
  <2> QED
    BY <1>3, <2>4, <2>5, <2>6 DEF ReadsUnsealed
<1> QED
  BY <1>4, <1>5

\* a blob as it is,
LEMMA ReadUnsealedBlob ==
  ASSUME NEW p, NEW i, kind = "blob", Unsealed(stored[i])
  PROVE ReadsUnsealed(p, i)
<1> DEFINE s == stored[i]
<1>1. ReadOf(p, i) = StoreOpenBytes(proc[p].mode, Cipher(p), s, Context(i))
  BY DEF ReadOf
<1>2. ValueOf(s) = s /\ Norm(s) = s
  BY UnsealedIsNot DEF ValueOf, Norm
<1>3. ~Begins(s, ContentMagic)
  BY DEF Unsealed
<1>4. kind \notin {"text", "field"}
  OBVIOUS
<1>5. CASE proc[p].mode = "sealing" /\ \E m \in LooksLikeMagic : Begins(s, m)
  <2>1. \E m \in LooksLikeMagic \ {ContentMagic} : Begins(s, m)
    BY <1>3, <1>5
  <2>2. ReadOf(p, i) = Refused("unknown version")
    BY <1>1, <1>3, <1>5, Zenon DEF StoreOpenBytes, OpenBytes
  <2>3. ~ReadOf(p, i).ok
    BY <2>2, Results
  <2> QED
    BY <2>1, <2>3, Zenon DEF ReadsUnsealed
<1>6. CASE ~(proc[p].mode = "sealing" /\ \E m \in LooksLikeMagic : Begins(s, m))
  <2>1. ReadOf(p, i) = IF proc[p].mode = "sealing" THEN Ok(s, s # Empty) ELSE Ok(s, FALSE)
    BY <1>1, <1>3, <1>6, Zenon DEF StoreOpenBytes, OpenBytes
  <2>2. ReadOf(p, i).ok /\ ReadOf(p, i).value = s
    BY <2>1 DEF Ok
  <2> QED
    BY <1>2, <1>4, <2>2, Zenon DEF ReadsUnsealed
<1> QED
  BY <1>5, <1>6

\* a field, configuration or secret as its cipher passes it,
LEMMA ReadUnsealedField ==
  ASSUME NEW p, NEW i, kind \in {"field", "config", "secret"}, Unsealed(stored[i])
  PROVE ReadsUnsealed(p, i)
<1> DEFINE s == stored[i]
           o == OpenStr(Sealers(p), s)
<1>1. s \in {Old, Empty}
  BY DEF Unsealed
<1>2. s.marks = <<>>
  BY <1>1, EmptyIsText
<1>3. ~LooksSealed(s) /\ Trim(s) = s
  BY <1>2 DEF LooksSealed, Begins, Trim
<1>4. o = Ok(s, s # Empty)
  BY <1>3, Zenon DEF OpenStr
<1>5. /\ ReadOf(p, i).ok <=> o.ok
      /\ o.ok => ReadOf(p, i).value = Norm(o.value)
      /\ kind = "field" => ReadOf(p, i) = o
  BY <1>3, ReadsOpenStr
<1> HIDE DEF o
<1>6. o.ok /\ o.value = s /\ o.again = (s # Empty)
  BY <1>4, Results
<1>7. ValueOf(s) = s
  BY UnsealedIsNot DEF ValueOf
<1>8. kind # "text"
  OBVIOUS
<1> QED
  BY <1>5, <1>6, <1>7, <1>8 DEF ReadsUnsealed

\* and so of all six kinds.
LEMMA ReadUnsealed ==
  ASSUME NEW p, NEW i, kind \in SixKinds, Unsealed(stored[i])
  PROVE ReadsUnsealed(p, i)
<1>1. CASE kind \in {"field", "config", "secret"}
  BY <1>1, ReadUnsealedField
<1>2. CASE kind = "tenant"
  BY <1>2 DEF Unsealed
<1> QED
  BY <1>1, <1>2, ReadUnsealedText, ReadUnsealedBlob DEF SixKinds

\* A tenant's field of before the binding opens for its migration alone.
LEMMA LegacyRefused ==
  ASSUME NEW p, NEW i, Legacy(stored[i])
  PROVE /\ ~ReadOf(p, i).ok
        /\ Begins(stored[i], FieldMark)
        /\ LET o == TenantOpenLegacy(Tenant(p), stored[i], Context(i))
           IN o.ok => o.value = Old
<1> DEFINE s == stored[i]
           c == FieldCipher([key |-> Tenant(p).master, retired |-> {}])
           d == Decrypt(c, Strip(s), <<>>)
<1>1. kind = "tenant" /\ s = Envelope(FieldMark, Root(1), <<>>, Old)
  BY DEF Legacy
<1>2. \A m : Begins(s, m) <=> m = FieldMark
  BY <1>1, EnvelopeMark
<1>3. BoundMark # FieldMark
  BY DEF BoundMark, FieldMark
<1>4. TenantOpen(Tenant(p), s, Context(i)) = Unbound
  BY <1>2, <1>3, Zenon DEF TenantOpen
<1>5. ReadOf(p, i) = IF proc[p].mode = "sealing" THEN TenantOpen(Tenant(p), s, Context(i))
                     ELSE Refused("no key")
  BY <1>1 DEF ReadOf
<1>6. ~Unbound.ok /\ ~Refused("no key").ok
  BY Results DEF Unbound
<1>7. ~ReadOf(p, i).ok
  BY <1>4, <1>5, <1>6, Zenon
<1>8. c.mark = FieldMark
  BY DEF FieldCipher
<1>9. Open(c, s) = d
  BY <1>2, <1>8, Zenon DEF Open, OpenBody
<1>10. d.ok => d.value = Old
  BY <1>1, Opening
<1>11. TenantOpenLegacy(Tenant(p), s, Context(i)) = IF d.ok THEN Ok(d.value, TRUE) ELSE d
  BY <1>2, <1>9, Zenon DEF TenantOpenLegacy
<1>12. Ok(d.value, TRUE).value = d.value
  BY Results
<1> HIDE DEF d
<1>13. LET o == TenantOpenLegacy(Tenant(p), s, Context(i)) IN o.ok => o.value = Old
  BY <1>10, <1>11, <1>12
<1> QED
  BY <1>2, <1>7, <1>13

\* What a read of a stored form gives.
LEMMA ReadForm ==
  ASSUME NEW p, NEW i, kind \in SixKinds, Form(i, stored[i]), ReadOf(p, i).ok
  PROVE ReadOf(p, i).value = Norm(ValueOf(stored[i]))
<1>1. CASE SealedAt(i, stored[i])
  <2> DEFINE s == stored[i]
  <2>1. PICK n \in 1..master : s = Envelope(OwnMark, SealKey(KeyOf(n)), AadOf(i), s.body.plain)
    BY <1>1 DEF SealedAt
  <2>2. ReadsSealed(p, i, SealKey(KeyOf(n)), AadOf(i), s.body.plain)
    BY <2>1, ReadSealed
  <2>3. ValueOf(s) = s.body.plain
    BY <1>1 DEF SealedAt, ValueOf
  <2> QED
    BY <2>2, <2>3, Zenon DEF ReadsSealed
<1>2. CASE Legacy(stored[i])
  BY <1>2, LegacyRefused
<1>3. CASE Unsealed(stored[i])
  BY <1>3, ReadUnsealed DEF ReadsUnsealed
<1> QED
  BY <1>1, <1>2, <1>3 DEF Form

\* What the migration of a tenant reads as well.
LEMMA ReadLegacyForm ==
  ASSUME NEW p, NEW i, kind = "tenant", proc[p].mode = "sealing", Form(i, stored[i]),
         NEW o, o = TenantOpenLegacy(Tenant(p), stored[i], Context(i)), o.ok
  PROVE o.value = Norm(ValueOf(stored[i]))
<1> DEFINE s == stored[i]
<1>1. CASE SealedAt(i, s)
  <2>1. PICK n \in 1..master : s = Envelope(OwnMark, SealKey(KeyOf(n)), AadOf(i), s.body.plain)
    BY <1>1 DEF SealedAt
  <2>2. o = ReadOf(p, i)
    BY <2>1, ReadSealedTenant
  <2> QED
    BY <2>2, ReadForm DEF SixKinds
<1>2. CASE Legacy(s)
  <2>1. o.value = Old
    BY <1>2, LegacyRefused
  <2>2. s = Envelope(FieldMark, Root(1), <<>>, Old)
    BY <1>2 DEF Legacy
  <2>3. IsSealed(s)
    BY <2>2 DEF Envelope, IsSealed
  <2>4. s.body.plain = Old
    BY <2>2 DEF Envelope
  <2> QED
    BY <2>1, <2>3, <2>4 DEF ValueOf, Norm
<1>3. CASE Unsealed(s)
  BY <1>3 DEF Unsealed
<1> QED
  BY <1>1, <1>2, <1>3 DEF Form

-----------------------------------------------------------------------------
(* The invariant implies the properties. *)

\* The kinds an instance picks are among the code's.
LEMMA KindsAreSix == ASSUME TypeOK PROVE kind \in SixKinds
BY ValuesAssumption DEF TypeOK, SixKinds

\* What opens was last written to the record itself, where contexts bind.
LEMMA NoneMovedReads ==
  ASSUME IInv, NEW p \in Procs, NEW i \in Ids, ReadOf(p, i).ok
  PROVE /\ origin[i] \in {"written", "stale"} => Form(i, stored[i])
        /\ origin[i] = "moved" => ~Bound
        /\ origin[i] # "foreign"
        /\ origin[i] = "newer" => proc[p].mode # "sealing"
<1>1. kind \in SixKinds /\ StoredOK(i)
  BY KindsAreSix DEF IInv
<1>2. origin[i] = "moved" => ~Bound
  BY <1>1, MovedRefused, Zenon DEF StoredOK
<1>3. origin[i] # "foreign"
  BY <1>1, ForeignRefused, Zenon DEF StoredOK
<1>4. origin[i] = "newer" => proc[p].mode # "sealing"
  BY <1>1, NewerRefused, Zenon DEF StoredOK
<1> QED
  BY <1>1, <1>2, <1>3, <1>4 DEF StoredOK

\* ReadsOnlyItsOwn.
LEMMA OwnReads == ASSUME IInv PROVE ReadsOnlyItsOwn
<1>1. ReadsWritten
  <2> SUFFICES ASSUME NEW p \in Procs, NEW i \in Ids, origin[i] = "written", ReadOf(p, i).ok
               PROVE ReadOf(p, i).value = Expected(i)
    BY DEF ReadsWritten
  <2>1. StoredOK(i) /\ kind \in SixKinds
    BY KindsAreSix DEF IInv
  <2>2. ReadOf(p, i).value = Norm(ValueOf(stored[i]))
    BY <2>1, ReadForm DEF StoredOK
  <2>3. Norm(written[i]) = Expected(i)
    BY Zenon DEF Norm, Expected
  <2> QED
    BY <2>1, <2>2, <2>3, Zenon DEF StoredOK
<1>2. RefusesOthers
  BY NoneMovedReads DEF RefusesOthers, Bound
<1> QED
  BY <1>1, <1>2 DEF ReadsOnlyItsOwn, IInv

\* Who holds the current key and all before it holds what any of them sealed with.
LEMMA HoldsAll ==
  ASSUME IInv, NEW p \in Procs, NEW n \in 1..master,
         proc[p].key = Subkey(Root(master), Scope),
         proc[p].retired = {Subkey(r, Scope) : r \in Retired(master)}
  PROVE kind # "tenant" => KeyOf(n) \in Held(p)
<1>1. master \in Nat
  BY ValuesAssumption DEF IInv, TypeOK
<1>2. CASE n = master
  BY <1>2, Zenon DEF KeyOf, Held
<1>3. CASE n # master
  <2>1. Root(n) \in Retired(master)
    BY <1>1, <1>3 DEF Retired
  <2>2. KeyOf(n) \in proc[p].retired
    BY <2>1 DEF KeyOf
  <2> QED
    BY <2>2, Zenon DEF Held
<1> QED
  BY <1>2, <1>3

\* StaysReadable.
LEMMA Readable == ASSUME IInv PROVE StaysReadable
<1> SUFFICES ASSUME NEW p \in Procs, NEW i \in Ids,
                    proc[p].mode = "sealing",
                    proc[p].key = Subkey(Root(master), Scope),
                    proc[p].retired = {Subkey(r, Scope) : r \in Retired(master)},
                    origin[i] = "written",
                    ~ReadOf(p, i).ok
             PROVE \/ /\ kind = "tenant"
                      /\ stored[i].body.key # Tenant(p).key \/ Begins(stored[i], FieldMark)
                   \/ kind = "blob" /\ \E m \in LooksLikeMagic \ {ContentMagic} : Begins(stored[i], m)
  BY Zenon DEF StaysReadable
<1> DEFINE s == stored[i]
<1>1. Form(i, s) /\ kind \in SixKinds
  BY KindsAreSix DEF IInv, StoredOK
<1>2. CASE SealedAt(i, s)
  <2>1. PICK n \in 1..master : s = Envelope(OwnMark, SealKey(KeyOf(n)), AadOf(i), s.body.plain)
    BY <1>2 DEF SealedAt
  <2>2. ReadsSealed(p, i, SealKey(KeyOf(n)), AadOf(i), s.body.plain)
    BY <1>1, <2>1, ReadSealed
  <2>3. ~\E k \in Held(p) : SealKey(KeyOf(n)) = SealKey(k)
    BY <2>2, Zenon DEF ReadsSealed, OpensHere
  <2>4. kind = "tenant"
    BY <2>3, HoldsAll, Zenon
  <2>5. SealKey(KeyOf(n)) # SealKey(proc[p].key)
    BY <2>3, <2>4 DEF Held
  <2>6. Tenant(p).key = SealKey(proc[p].key)
    BY <2>4, TenantKeys
  <2>7. s.body.key = SealKey(KeyOf(n))
    BY <2>1, EnvelopeBody
  <2> QED
    BY <2>4, <2>5, <2>6, <2>7
<1>3. CASE Legacy(s)
  BY <1>3, LegacyRefused DEF Legacy
<1>4. CASE Unsealed(s)
  BY <1>1, <1>4, ReadUnsealed DEF ReadsUnsealed, Unsealed
<1> QED
  BY <1>1, <1>2, <1>3, <1>4 DEF Form

\* A lookup compares the keys and the values of the tokens.
LEMMA LookupMeans ==
  ASSUME IInv, kind = "text", NEW p \in Procs, NEW i \in Ids, NEW v,
         proc[p].mode = "sealing", token[i] # NoToken, token[i][1] = Index(p).key,
         origin[i] \in {"written", "moved"}
  PROVE i \in Lookup(p, v) <=> Casefold(ValueOf(stored[i])) = Casefold(v)
<1>1. token[i] = <<token[i][1], Casefold(ValueOf(stored[i]))>>
  BY DEF IInv, TokenOK
<1>2. TokenOf(p, v) = <<Index(p).key, Casefold(v)>>
  BY Zenon DEF TokenOf, Token
<1>3. i \in Lookup(p, v) <=> token[i] = <<Index(p).key, Casefold(v)>>
  BY <1>2 DEF Lookup
<1> QED
  BY <1>1, <1>3

\* LookupsAgree: a token tells its value, under one key.
LEMMA LookupsAreRight == ASSUME IInv PROVE LookupsAgree
<1> SUFFICES ASSUME kind = "text", NEW p \in Procs, NEW i \in Ids, NEW v \in Inputs["text"],
                    proc[p].mode = "sealing",
                    token[i] # NoToken, token[i][1] = Index(p).key,
                    origin[i] \in {"written", "moved"},
                    ReadOf(p, i).ok
             PROVE i \in Lookup(p, v) <=> Casefold(ReadOf(p, i).value) = Casefold(v)
  BY Zenon DEF LookupsAgree
<1>1. origin[i] = "written"
  BY NoneMovedReads DEF Bound
<1>2. Form(i, stored[i]) /\ kind \in SixKinds
  BY <1>1, KindsAreSix DEF IInv, StoredOK
<1>3. ReadOf(p, i).value = ValueOf(stored[i])
  BY <1>2, ReadForm DEF Norm
<1> QED
  BY <1>3, LookupMeans

\* A form of any record, not only of its own: its key decides.
LEMMA AgainOfForm ==
  ASSUME NEW p, NEW i, NEW j, kind \in {"text", "field"}, proc[p].mode = "sealing",
         ReadOf(p, i).ok, Form(j, stored[i])
  PROVE ReadOf(p, i).again <=>
          stored[i] # Empty /\ ~(IsSealed(stored[i]) /\ stored[i].body.key = SealKey(proc[p].key))
<1> DEFINE s == stored[i]
<1>0. kind \in SixKinds
  BY DEF SixKinds
<1>1. CASE SealedAt(j, s)
  <2>1. PICK n \in 1..master : s = Envelope(OwnMark, SealKey(KeyOf(n)), AadOf(j), s.body.plain)
    BY <1>1 DEF SealedAt
  <2>2. ReadsSealed(p, i, SealKey(KeyOf(n)), AadOf(j), s.body.plain)
    BY <1>0, <2>1, ReadSealed
  <2>3. ReadOf(p, i).again <=> SealKey(KeyOf(n)) # SealKey(proc[p].key)
    BY <2>2, Zenon DEF ReadsSealed
  <2>4. IsSealed(s)
    BY <1>1 DEF SealedAt
  <2>5. s.body.key = SealKey(KeyOf(n))
    BY <2>1, EnvelopeBody
  <2>6. s # Empty
    BY <2>4, EmptyIsText, TextShape DEF IsSealed
  <2> QED
    BY <2>3, <2>4, <2>5, <2>6
<1>2. CASE Legacy(s)
  BY <1>2 DEF Legacy
<1>3. CASE Unsealed(s)
  BY <1>0, <1>3, ReadUnsealed, UnsealedIsNot DEF ReadsUnsealed
<1> QED
  BY <1>1, <1>2, <1>3 DEF Form

\* AgainUntilCurrent.
LEMMA AgainIsRight == ASSUME IInv PROVE AgainUntilCurrent
<1> SUFFICES ASSUME NEW p \in Procs, NEW i \in Ids,
                    kind \in {"text", "field"}, proc[p].mode = "sealing", ReadOf(p, i).ok
             PROVE LET key == IF kind = "text" THEN Cipher(p).key ELSE proc[p].key
                   IN ReadOf(p, i).again <=>
                        stored[i] # Empty /\ ~(IsSealed(stored[i]) /\ stored[i].body.key = key)
  BY Zenon DEF AgainUntilCurrent
<1>1. \E j : Form(j, stored[i])
  <2>1. /\ origin[i] \in {"written", "stale"} => Form(i, stored[i])
        /\ origin[i] = "moved" => ~Bound
        /\ origin[i] # "foreign"
        /\ origin[i] # "newer"
    BY NoneMovedReads
  <2>2. origin[i] \in Origins /\ StoredOK(i)
    BY DEF IInv, TypeOK
  <2>3. origin[i] = "moved" => \E j : Form(j, stored[i])
    BY <2>1, <2>2, Zenon DEF StoredOK, MovedForm
  <2> QED
    BY <2>1, <2>2, <2>3 DEF Origins
<1>2. SealKey(proc[p].key) = IF kind = "text" THEN Cipher(p).key ELSE proc[p].key
  <2>1. CASE kind = "text"
    BY <2>1, StoreCipher
  <2>2. CASE kind = "field"
    BY <2>2 DEF SealKey
  <2> QED
    BY <2>1, <2>2
<1>3. ReadOf(p, i).again <=>
        stored[i] # Empty /\ ~(IsSealed(stored[i]) /\ stored[i].body.key = SealKey(proc[p].key))
  <2>1. PICK j : Form(j, stored[i])
    BY <1>1
  <2> QED
    BY <2>1, AgainOfForm
<1> QED
  BY <1>2, <1>3

-----------------------------------------------------------------------------
(* Writing. *)

\* What a write stores: a form of the record that stands for the value, and no
\* plaintext but an emptied value or what a store without a key takes.
SealsTo(p, i, v, s) ==
  /\ Form(i, s)
  /\ ValueOf(s) = v
  /\ IsSealed(s) \/ s = Empty \/ proc[p].mode = "compat"

\* An envelope under the key a process holds is a sealed form of the record.
LEMMA OwnEnvelope ==
  ASSUME TypeOK, NEW p \in Procs, NEW i, NEW v, Value(v), proc[p].mode = "sealing",
         NEW e, e = Envelope(OwnMark, SealKey(proc[p].key), AadOf(i), v)
  PROVE SealsTo(p, i, v, e) /\ SealedAt(i, e)
<1>1. PICK n \in 1..master : proc[p].key = KeyOf(n)
  BY DEF TypeOK, KeyOf
<1>2. IsSealed(e)
  BY DEF Envelope, IsSealed
<1>3. e.body.plain = v
  BY EnvelopeBody
<1>4. SealedAt(i, e)
  BY <1>1, <1>2, <1>3 DEF SealedAt
<1>5. ValueOf(e) = v
  BY <1>2, <1>3 DEF ValueOf
<1> QED
  BY <1>2, <1>4, <1>5 DEF SealsTo, Form

\* What a store's text is sealed to,
LEMMA SealingText ==
  ASSUME TypeOK, NEW p \in Procs, NEW i, NEW v, Value(v), kind = "text", ProcOK(p), Up(p),
         SealedBy(p, i, v).ok
  PROVE /\ SealsTo(p, i, v, SealedBy(p, i, v).value)
        /\ proc[p].mode \in {"sealing", "compat"}
<1> DEFINE o == SealedBy(p, i, v)
<1>1. o = StoreSealText(proc[p].mode, Cipher(p), v, Context(i))
  BY DEF SealedBy
<1>2. proc[p].mode \in {"sealing", "compat", "unhealthy"}
  BY DEF ProcOK, Up, Modes, IsStore
<1>3. CASE proc[p].mode = "sealing"
  <2>1. o = Ok(SealText(Cipher(p), v, Context(i)), FALSE)
    BY <1>1, <1>3 DEF StoreSealText
  <2>2. OwnMark = ContentPrefix
    BY DEF OwnMark
  <2>3. o.value = Envelope(OwnMark, SealKey(proc[p].key), AadOf(i), v)
    BY <2>1, <2>2, StoreCipher DEF SealText, Ok
  <2> QED
    BY <1>3, <2>3, OwnEnvelope
<1>4. CASE proc[p].mode = "compat"
  <2>1. o = Ok(IF \E m \in ContentFamily : Begins(v, m) THEN Escaped(v) ELSE v, FALSE)
    BY <1>1, <1>4 DEF StoreSealText
  <2>2. IsText(v)
    BY DEF Value
  <2>3. CASE \E m \in ContentFamily : Begins(v, m)
    <3>1. o.value = Escaped(v)
      BY <2>1, <2>3 DEF Ok
    <3>2. IsText(Escaped(v)) /\ Begins(Escaped(v), CompatEscape) /\ Strip(Escaped(v)) = v
      BY <2>2, EscapeShape
    <3>3. Unsealed(Escaped(v))
      BY <3>2 DEF Unsealed, Value
    <3>4. ValueOf(Escaped(v)) = v
      BY <3>2, <3>3, UnsealedIsNot DEF ValueOf
    <3> QED
      BY <1>4, <3>1, <3>3, <3>4 DEF SealsTo, Form
  <2>4. CASE ~\E m \in ContentFamily : Begins(v, m)
    <3>1. o.value = v
      BY <2>1, <2>4 DEF Ok
    <3>2. Unsealed(v)
      BY <2>2, <2>4 DEF Unsealed, Value
    <3>3. ~Begins(v, CompatEscape)
      BY <2>4 DEF ContentFamily
    <3>4. ValueOf(v) = v
      BY <3>2, <3>3, UnsealedIsNot DEF ValueOf
    <3> QED
      BY <1>4, <3>1, <3>2, <3>4 DEF SealsTo, Form
  <2> QED
    BY <2>3, <2>4
<1>5. CASE proc[p].mode = "unhealthy"
  <2>1. o = Refused("unhealthy")
    BY <1>1, <1>5 DEF StoreSealText
  <2> QED
    BY <2>1, Results
<1> QED
  BY <1>2, <1>3, <1>4, <1>5

\* a blob,
LEMMA SealingBlob ==
  ASSUME TypeOK, NEW p \in Procs, NEW i, NEW v, Value(v), kind = "blob", ProcOK(p), Up(p),
         SealedBy(p, i, v).ok
  PROVE SealsTo(p, i, v, SealedBy(p, i, v).value)
<1> DEFINE o == SealedBy(p, i, v)
<1>1. o = StoreSealBytes(proc[p].mode, Cipher(p), v, Context(i))
  BY DEF SealedBy
<1>2. proc[p].mode \in {"sealing", "compat", "unhealthy"}
  BY DEF ProcOK, Up, Modes, IsStore
<1>3. CASE proc[p].mode = "sealing"
  <2>1. o = SealBytes(Cipher(p), v, Context(i))
    BY <1>1, <1>3 DEF StoreSealBytes
  <2>2. ~\E m \in RyuMagics : Begins(v, m)
    BY <2>1, Results, Zenon DEF SealBytes
  <2>3. o = Ok(Envelope(ContentMagic, Cipher(p).key, Aad(Cipher(p), Context(i)), v), FALSE)
    BY <2>1, <2>2, Zenon DEF SealBytes
  <2>4. OwnMark = ContentMagic
    BY DEF OwnMark
  <2>5. o.value = Envelope(OwnMark, SealKey(proc[p].key), AadOf(i), v)
    BY <2>3, <2>4, StoreCipher DEF Ok
  <2> QED
    BY <1>3, <2>5, OwnEnvelope
<1>4. CASE proc[p].mode = "compat"
  <2>1. o = IF Begins(v, ContentMagic) THEN Refused("no key") ELSE Ok(v, FALSE)
    BY <1>1, <1>4 DEF StoreSealBytes
  <2>2. ~Begins(v, ContentMagic) /\ o.value = v
    <3>1. ~Refused("no key").ok
      BY Results
    <3>2. ~Begins(v, ContentMagic)
      BY <2>1, <3>1, Zenon
    <3> QED
      BY <2>1, <3>2 DEF Ok
  <2>3. Unsealed(v)
    BY <2>2 DEF Unsealed
  <2>4. ValueOf(v) = v
    BY <2>3, UnsealedIsNot DEF ValueOf
  <2> QED
    BY <1>4, <2>2, <2>3, <2>4 DEF SealsTo, Form
<1>5. CASE proc[p].mode = "unhealthy"
  <2>1. o = Refused("unhealthy")
    BY <1>1, <1>5 DEF StoreSealBytes
  <2> QED
    BY <2>1, Results
<1> QED
  BY <1>2, <1>3, <1>4, <1>5

\* a field, configuration or a secret,
LEMMA SealingField ==
  ASSUME TypeOK, NEW p \in Procs, NEW i, NEW v, Value(v), kind \in {"field", "config", "secret"},
         SealedBy(p, i, v).ok
  PROVE /\ SealsTo(p, i, v, SealedBy(p, i, v).value)
        /\ proc[p].mode = "sealing" \/ (kind = "config" /\ v = Empty)
<1> DEFINE o == SealedBy(p, i, v)
<1>1. o = IF kind = "config" /\ v = Empty THEN Ok(Empty, FALSE) ELSE SealStr(Sealers(p), v)
  BY DEF SealedBy, Serialize, WriteSecret
<1>2. CASE kind = "config" /\ v = Empty
  <2>1. o.value = Empty
    BY <1>1, <1>2 DEF Ok
  <2>2. Unsealed(Empty)
    BY <1>2 DEF Unsealed
  <2>3. ValueOf(Empty) = Empty
    BY <1>2, <2>2, UnsealedIsNot DEF ValueOf
  <2> QED
    BY <1>2, <2>1, <2>2, <2>3 DEF SealsTo, Form
<1>3. CASE ~(kind = "config" /\ v = Empty)
  <2>1. o = SealStr(Sealers(p), v)
    BY <1>1, <1>3
  <2>2. proc[p].mode = "sealing"
    <3> SUFFICES ASSUME proc[p].mode # "sealing" PROVE FALSE
      OBVIOUS
    <3>1. Sealers(p) = {}
      BY DEF Sealers
    <3>2. o = Refused("no key")
      BY <2>1, <3>1 DEF SealStr
    <3> QED
      <4>1. ~Refused("no key").ok
        BY Results
      <4> QED
        BY <3>2, <4>1, Zenon
  <2>3. PICK c : Sealers(p) = {c} /\ c.mark = OwnMark /\ c.key = SealKey(proc[p].key)
    BY <2>2, SealersOf
  <2>4. Sealers(p) # {}
    BY <2>3
  <2>5. o = Ok(Seal(c, v), FALSE)
    BY <2>1, <2>3, <2>4, OnlyChoice, Zenon DEF SealStr
  <2>6. AadOf(i) = <<>>
    BY DEF AadOf
  <2>7. o.value = Envelope(OwnMark, SealKey(proc[p].key), AadOf(i), v)
    BY <2>3, <2>5, <2>6 DEF Seal, Ok
  <2> QED
    BY <2>2, <2>7, OwnEnvelope
<1> QED
  BY <1>2, <1>3

\* a tenant's field,
LEMMA SealingTenant ==
  ASSUME TypeOK, NEW p \in Procs, NEW i, NEW v, Value(v), kind = "tenant", SealedBy(p, i, v).ok
  PROVE SealsTo(p, i, v, SealedBy(p, i, v).value) /\ proc[p].mode = "sealing"
<1> DEFINE o == SealedBy(p, i, v)
<1>1. o = IF proc[p].mode = "sealing" THEN Ok(TenantSeal(Tenant(p), v, Context(i)), FALSE)
          ELSE Refused("no key")
  BY DEF SealedBy
<1>2. proc[p].mode = "sealing"
  <2>1. ~Refused("no key").ok
    BY Results
  <2> QED
    BY <1>1, <2>1, Zenon
<1>3. OwnMark = BoundMark
  BY DEF OwnMark
<1>4. o.value = Envelope(OwnMark, SealKey(proc[p].key), AadOf(i), v)
  BY <1>1, <1>2, <1>3, TenantKeys DEF TenantSeal, Ok
<1> QED
  BY <1>2, <1>4, OwnEnvelope

\* and each of the six kinds.
LEMMA Sealing ==
  ASSUME TypeOK, NEW p \in Procs, NEW i, NEW v, Value(v), ProcOK(p), Up(p), SealedBy(p, i, v).ok
  PROVE /\ SealsTo(p, i, v, SealedBy(p, i, v).value)
        /\ kind # "blob" =>
             \/ proc[p].mode = "sealing"
             \/ kind = "text" /\ proc[p].mode = "compat"
             \/ kind = "config" /\ v = Empty
<1>1. kind \in SixKinds
  BY KindsAreSix
<1>2. CASE kind \in {"field", "config", "secret"}
  BY <1>2, SealingField
<1> QED
  BY <1>1, <1>2, SealingText, SealingBlob, SealingTenant DEF SixKinds

\* A form's value is one that may be written, trimmed or not.
LEMMA NormIsValue ==
  ASSUME NEW v, Value(v) PROVE Value(Norm(v)) /\ Norm(Norm(v)) = Norm(v)
<1>1. IsText(Trim(v))
  BY TextShape DEF Value
<1>2. CASE kind = "secret"
  <2>1. Trim(Trim(v)) = Trim(v) /\ Norm(v) = Trim(v) /\ Norm(Trim(v)) = Trim(Trim(v))
    BY <1>2 DEF Value, Norm
  <2> QED
    BY <1>1, <2>1, Zenon DEF Value
<1>3. CASE kind # "secret"
  BY <1>3, Zenon DEF Norm
<1> QED
  BY <1>2, <1>3

\* Every stored form stands for a value a caller could have written.
LEMMA FormHasValue ==
  ASSUME NEW i, NEW s, Form(i, s) PROVE Value(ValueOf(s))
<1>1. CASE SealedAt(i, s)
  BY <1>1 DEF SealedAt, ValueOf
<1>2. CASE Legacy(s)
  <2>1. s = Envelope(FieldMark, Root(1), <<>>, Old) /\ kind # "secret"
    BY <1>2 DEF Legacy
  <2>2. IsSealed(s)
    BY <2>1 DEF Envelope, IsSealed
  <2>3. s.body.plain = Old
    BY <2>1 DEF Envelope
  <2> QED
    BY <2>1, <2>2, <2>3, EmptyIsText DEF ValueOf, Value
<1>3. CASE Unsealed(s)
  <2>1. ~IsSealed(s) /\ Value(s)
    BY <1>3, UnsealedIsNot DEF Unsealed
  <2>2. CASE kind = "text" /\ Begins(s, CompatEscape)
    <3>1. IsText(Strip(s))
      BY <2>1, <2>2, TextShape DEF Value
    <3>2. ValueOf(s) = Strip(s)
      BY <2>1, <2>2 DEF ValueOf
    <3> QED
      BY <2>2, <3>1, <3>2 DEF Value
  <2>3. CASE ~(kind = "text" /\ Begins(s, CompatEscape))
    <3>1. ValueOf(s) = s
      BY <2>1, <2>3 DEF ValueOf
    <3> QED
      BY <2>1, <3>1
  <2> QED
    BY <2>2, <2>3
<1> QED
  BY <1>1, <1>2, <1>3 DEF Form

-----------------------------------------------------------------------------
(* Sealing again. *)

Resealed(p, i) ==
  IF kind = "text" THEN ResealedText(Cipher(p), stored[i], Context(i))
  ELSE ResealedBytes(Cipher(p), stored[i], Context(i))

\* What a store's migration opens is what a read opens, but for an escape.
LEMMA OpensAsRead ==
  ASSUME NEW p, NEW i, proc[p].mode = "sealing"
  PROVE /\ kind = "text" /\ ~Begins(stored[i], CompatEscape) =>
             OpenText(Cipher(p), stored[i], Context(i)) = ReadOf(p, i)
        /\ kind = "blob" => OpenBytes(Cipher(p), stored[i], Context(i)) = ReadOf(p, i)
<1>1. ASSUME kind = "text", ~Begins(stored[i], CompatEscape)
      PROVE OpenText(Cipher(p), stored[i], Context(i)) = ReadOf(p, i)
  BY <1>1, Zenon DEF ReadOf, StoreOpenText
<1>2. ASSUME kind = "blob"
      PROVE OpenBytes(Cipher(p), stored[i], Context(i)) = ReadOf(p, i)
  <2>1. kind # "text"
    BY <1>2
  <2> QED
    BY <1>2, <2>1, Zenon DEF ReadOf, StoreOpenBytes
<1> QED
  BY <1>1, <1>2

\* The migration leaves what does not open.
LEMMA ResealNothing ==
  ASSUME NEW p, NEW i, proc[p].mode = "sealing", kind \in {"text", "blob"},
         ~ReadOf(p, i).ok, kind = "text" => ~Begins(stored[i], CompatEscape)
  PROVE Resealed(p, i) = stored[i]
<1>1. CASE kind = "text"
  BY <1>1, OpensAsRead, Zenon DEF Resealed, ResealedText
<1>2. CASE kind = "blob"
  <2>1. kind # "text"
    BY <1>2
  <2> QED
    BY <1>2, <2>1, OpensAsRead, Zenon DEF Resealed, ResealedBytes
<1> QED
  BY <1>1, <1>2

\* Sealing again leaves a record of its form and of its value.
Reseals(i, s, r) ==
  /\ Form(i, r)
  /\ ValueOf(r) = ValueOf(s)
  /\ IsSealed(s) => IsSealed(r)

\* A sealed text does not begin with the escape.
LEMMA SealedNoEscape ==
  ASSUME NEW i, NEW s, kind = "text", SealedAt(i, s)
  PROVE ~Begins(s, CompatEscape)
<1>1. PICK mark, key, aad, v : mark = OwnMark /\ s = Envelope(mark, key, aad, v)
  BY Zenon DEF SealedAt
<1>2. OwnMark # CompatEscape
  BY DEF OwnMark, ContentPrefix, CompatEscape
<1>3. \A m : Begins(s, m) <=> m = mark
  BY <1>1, EnvelopeMark
<1> QED
  BY <1>1, <1>2, <1>3, Zenon

\* The migration of a text keeps its value and leaves it under the current key,
LEMMA ResealText ==
  ASSUME TypeOK, NEW p \in Procs, NEW i, proc[p].mode = "sealing", kind = "text",
         Form(i, stored[i])
  PROVE Reseals(i, stored[i], Resealed(p, i))
<1> DEFINE s == stored[i]
           o == OpenText(Cipher(p), s, Context(i))
           plain == IF ~Begins(s, ContentPrefix) /\ Begins(o.value, CompatEscape)
                    THEN Strip(o.value) ELSE o.value
<1>1. Resealed(p, i) = IF o.ok /\ o.again THEN SealText(Cipher(p), plain, Context(i)) ELSE s
  BY DEF Resealed, ResealedText
<1>2. ASSUME o.ok PROVE plain = ValueOf(s)
  <2>1. CASE Begins(s, CompatEscape)
    <3>1. ~Begins(s, ContentPrefix) /\ ~Begins(s, "encb:v2:")
      BY <2>1 DEF Begins, CompatEscape, ContentPrefix
    <3>2. o = Ok(s, s # Empty)
      BY <3>1, Zenon DEF OpenText
    <3>3. o.value = s
      BY <3>2, Results
    <3>4. ~IsSealed(s)
      <4>1. ~SealedAt(i, s)
        BY <2>1, SealedNoEscape, Zenon
      <4>2. Unsealed(s)
        BY <4>1 DEF Form, Legacy
      <4> QED
        BY <4>2, UnsealedIsNot
    <3>5. ValueOf(s) = Strip(s)
      BY <2>1, <3>4 DEF ValueOf
    <3> HIDE DEF o
    <3> QED
      BY <2>1, <3>1, <3>3, <3>5
  <2>2. CASE ~Begins(s, CompatEscape)
    <3>1. o = ReadOf(p, i)
      BY <2>2, OpensAsRead
    <3>2. Norm(ValueOf(s)) = ValueOf(s)
      BY DEF Norm
    <3>3. o.value = ValueOf(s)
      BY <1>2, <3>1, <3>2, ReadForm DEF SixKinds
    <3>4. ASSUME ~Begins(s, ContentPrefix) PROVE o.value = s
      <4>1. o = IF Begins(s, "encb:v2:") THEN Refused("unknown version") ELSE Ok(s, s # Empty)
        BY <3>4, Zenon DEF OpenText
      <4>2. ~Refused("unknown version").ok
        BY Results
      <4>3. o = Ok(s, s # Empty)
        BY <1>2, <4>1, <4>2, Zenon
      <4> QED
        BY <4>3, Results
    <3> HIDE DEF o, s
    <3> QED
      BY <2>2, <3>3, <3>4
  <2> QED
    BY <2>1, <2>2
<1>3. CASE o.ok /\ o.again
  <2>1. OwnMark = ContentPrefix
    BY DEF OwnMark
  <2>2. Resealed(p, i) = SealText(Cipher(p), ValueOf(s), Context(i))
    <3> HIDE DEF plain, o
    <3> QED
      BY <1>1, <1>2, <1>3, Zenon
  <2>3. Resealed(p, i) = Envelope(OwnMark, SealKey(proc[p].key), AadOf(i), ValueOf(s))
    BY <2>1, <2>2, StoreCipher DEF SealText
  <2>4. SealsTo(p, i, ValueOf(s), Resealed(p, i)) /\ SealedAt(i, Resealed(p, i))
    BY <2>3, OwnEnvelope, FormHasValue
  <2> QED
    BY <2>4 DEF SealsTo, Reseals, SealedAt
<1>4. CASE ~(o.ok /\ o.again)
  BY <1>1, <1>4, Zenon DEF Reseals
<1> QED
  BY <1>3, <1>4

\* and that of a blob.
LEMMA ResealBlob ==
  ASSUME TypeOK, NEW p \in Procs, NEW i, proc[p].mode = "sealing", kind = "blob",
         Form(i, stored[i])
  PROVE Reseals(i, stored[i], Resealed(p, i))
<1> DEFINE s == stored[i]
           o == OpenBytes(Cipher(p), s, Context(i))
           sealed == SealBytes(Cipher(p), o.value, Context(i))
<1>1. Resealed(p, i) = IF o.ok /\ o.again /\ sealed.ok THEN sealed.value ELSE s
  BY DEF Resealed, ResealedBytes
<1>2. CASE o.ok /\ o.again /\ sealed.ok
  <2>1. o = ReadOf(p, i)
    BY OpensAsRead
  <2>2. Norm(ValueOf(s)) = ValueOf(s)
    BY DEF Norm
  <2>3. o.value = ValueOf(s)
    BY <1>2, <2>1, <2>2, ReadForm DEF SixKinds
  <2>4. sealed = IF \E m \in RyuMagics : Begins(o.value, m) THEN Refused("already an envelope")
                 ELSE Ok(Envelope(ContentMagic, Cipher(p).key, Aad(Cipher(p), Context(i)), o.value), FALSE)
    BY DEF SealBytes
  <2>5. ~Refused("already an envelope").ok
    BY Results
  <2> HIDE DEF o
  <2>6. sealed = Ok(Envelope(ContentMagic, Cipher(p).key, Aad(Cipher(p), Context(i)), o.value), FALSE)
    BY <1>2, <2>4, <2>5, Zenon
  <2>7. OwnMark = ContentMagic
    BY DEF OwnMark
  <2> HIDE DEF sealed, s
  <2>8. Resealed(p, i) = Envelope(OwnMark, SealKey(proc[p].key), AadOf(i), ValueOf(s))
    BY <1>1, <1>2, <2>3, <2>6, <2>7, StoreCipher DEF Ok
  <2>9. SealsTo(p, i, ValueOf(s), Resealed(p, i)) /\ SealedAt(i, Resealed(p, i))
    BY <2>8, OwnEnvelope, FormHasValue DEF s
  <2> QED
    BY <2>9 DEF SealsTo, Reseals, SealedAt, s
<1>3. CASE ~(o.ok /\ o.again /\ sealed.ok)
  BY <1>1, <1>3, Zenon DEF Reseals
<1> QED
  BY <1>2, <1>3

-----------------------------------------------------------------------------
(* What a step that leaves a record or a process alone keeps. *)

\* The kind stays, and no master key is ever forgotten.
Grows == kind' = kind /\ master \in Nat /\ master' \in Nat /\ master <= master'

\* The formats depend on the kind alone.
LEMMA SameSeal ==
  ASSUME kind' = kind
  PROVE /\ OwnMark' = OwnMark
        /\ \A k : SealKey(k)' = SealKey(k)
        /\ \A i : AadOf(i)' = AadOf(i)
        /\ \A n : KeyOf(n)' = KeyOf(n)
        /\ \A v : Norm(v)' = Norm(v)
        /\ \A v : Value(v)' = Value(v)
        /\ \A s : ValueOf(s)' = ValueOf(s)
        /\ \A s : Unsealed(s)' <=> Unsealed(s)
        /\ Bound' = Bound /\ IsStore' = IsStore
<1>1. OwnMark' = OwnMark
  BY Zenon DEF OwnMark
<1>2. \A k : SealKey(k)' = SealKey(k)
  BY Zenon DEF SealKey
<1>3. \A i : AadOf(i)' = AadOf(i)
  BY Zenon DEF AadOf, Context
<1>4. \A n : KeyOf(n)' = KeyOf(n)
  BY Zenon DEF KeyOf, Scope
<1>5. \A v : Norm(v)' = Norm(v)
  BY Zenon DEF Norm
<1>6. \A v : Value(v)' = Value(v)
  BY Zenon DEF Value
<1>7. \A s : ValueOf(s)' = ValueOf(s)
  BY Zenon DEF ValueOf, IsSealed
<1>8. \A s : Unsealed(s)' <=> Unsealed(s)
  BY <1>6, Zenon DEF Unsealed
<1>9. Bound' = Bound /\ IsStore' = IsStore
  BY Zenon DEF Bound, IsStore
<1> QED
  BY <1>1, <1>2, <1>3, <1>4, <1>5, <1>6, <1>7, <1>8, <1>9, Zenon

\* A replaced master key leaves a sealed form one,
LEMMA SealedKept ==
  ASSUME Grows, NEW i, NEW s, SealedAt(i, s) PROVE SealedAt(i, s)'
<1>1. PICK n \in 1..master : s = Envelope(OwnMark, SealKey(KeyOf(n)), AadOf(i), s.body.plain)
  BY DEF SealedAt
<1>2. n \in 1..master'
  BY DEF Grows
<1>3. /\ IsSealed(s) /\ Value(s.body.plain)'
      /\ s = Envelope(OwnMark', SealKey(KeyOf(n))', AadOf(i)', s.body.plain)
  BY <1>1, SameSeal, Zenon DEF SealedAt, Grows
<1> QED
  BY <1>2, <1>3, Zenon DEF SealedAt, IsSealed

\* and every other form.
LEMMA FormsKept ==
  ASSUME Grows, NEW i, NEW s
  PROVE /\ Form(i, s) => Form(i, s)'
        /\ MovedForm(i, s) => MovedForm(i, s)'
        /\ ForeignForm(s) => ForeignForm(s)'
        /\ NewerForm(s) => NewerForm(s)'
<1>0. kind' = kind
  BY DEF Grows
<1>1. Legacy(s)' <=> Legacy(s)
  BY <1>0, Zenon DEF Legacy
<1>2. \A j : Form(j, s) => Form(j, s)'
  BY <1>0, <1>1, SealedKept, SameSeal, Zenon DEF Form
<1>3. MovedForm(i, s) => MovedForm(i, s)'
  <2> SUFFICES ASSUME MovedForm(i, s) PROVE MovedForm(i, s)'
    OBVIOUS
  <2>1. PICK j \in Ids \ {i} : IF Bound THEN SealedAt(j, s) ELSE Form(j, s)
    BY Zenon DEF MovedForm
  <2>2. IF Bound' THEN SealedAt(j, s)' ELSE Form(j, s)'
    <3>1. Bound' = Bound
      BY <1>0, SameSeal
    <3>2. SealedAt(j, s) => SealedAt(j, s)'
      BY SealedKept
    <3> QED
      BY <1>2, <2>1, <3>1, <3>2, Zenon
  <2> QED
    BY <2>1, <2>2, Zenon DEF MovedForm
<1>4. ForeignForm(s) => ForeignForm(s)'
  BY <1>0, SameSeal, Zenon DEF ForeignForm, IsSealed
<1>5. NewerForm(s) => NewerForm(s)'
  BY <1>0, Zenon DEF NewerForm
<1> QED
  BY <1>2, <1>3, <1>4, <1>5, Zenon

\* A record that a step leaves as it is.
LEMMA RecordKept ==
  ASSUME Grows, NEW i \in Ids, StoredOK(i), TokenOK(i),
         stored'[i] = stored[i], origin'[i] = origin[i], written'[i] = written[i],
         token'[i] = token[i]
  PROVE StoredOK(i)' /\ TokenOK(i)'
<1>0. kind' = kind
  BY DEF Grows
<1>1. PICK s : s = stored[i]
  OBVIOUS
<1>2. /\ Form(i, s) => Form(i, s)'
      /\ MovedForm(i, s) => MovedForm(i, s)'
      /\ ForeignForm(s) => ForeignForm(s)'
      /\ NewerForm(s) => NewerForm(s)'
  BY FormsKept
<1>3. ValueOf(s)' = ValueOf(s)
  BY <1>0, SameSeal, Zenon
<1>4. Norm(ValueOf(s))' = Norm(ValueOf(s)) /\ Norm(written[i])' = Norm(written[i])
  <2>1. \A v : Norm(v)' = Norm(v)
    BY <1>0, SameSeal, Zenon
  <2>2. PICK v, w : v = ValueOf(s) /\ w = written[i]
    OBVIOUS
  <2>3. v = ValueOf(s)' /\ w = written'[i]
    BY <1>3, <2>2
  <2> QED
    BY <2>1, <2>2, <2>3
<1>5. StoredOK(i)'
  BY <1>1, <1>2, <1>4 DEF StoredOK
<1>6. TokenOK(i)'
  BY <1>0, <1>1, <1>3 DEF TokenOK
<1> QED
  BY <1>5, <1>6

\* A process that a step leaves as it is.
LEMMA ProcKept ==
  ASSUME Grows, NEW p \in Procs, ProcOK(p), ReadOK(p), proc'[p] = proc[p]
  PROVE ProcOK(p)' /\ ReadOK(p)'
<1>0. kind' = kind
  BY DEF Grows
<1>1. ProcOK(p)'
  BY <1>0, SameSeal DEF ProcOK
<1>2. ReadOK(p)'
  <2>1. PICK r : r = proc[p].read
    OBVIOUS
  <2>2. CASE r = Null
    BY <2>1, <2>2, Zenon DEF ReadOK
  <2>3. CASE r # Null
    <3>1. /\ kind # "blob"
          /\ proc[p].mode = "sealing" \/ (kind = "config" /\ r.value = Empty)
          /\ Form(r.id, r.from)
          /\ Value(r.value)
          /\ r.value = Norm(ValueOf(r.from))
      BY <2>1, <2>3, Zenon DEF ReadOK
    <3>2. PICK i, s, v : i = r.id /\ s = r.from /\ v = r.value
      OBVIOUS
    <3>3. Form(i, s)'
      BY <3>1, <3>2, FormsKept
    <3>4. Value(v)'
      BY <1>0, <3>1, <3>2, SameSeal
    <3>5. v = Norm(ValueOf(s))'
      <4>1. PICK w : w = ValueOf(s)
        OBVIOUS
      <4>2. w = ValueOf(s)' /\ Norm(w)' = Norm(w)
        BY <1>0, <4>1, SameSeal, Zenon
      <4> QED
        BY <3>1, <3>2, <4>1, <4>2
    <3> QED
      BY <1>0, <2>1, <3>1, <3>2, <3>3, <3>4, <3>5 DEF ReadOK
  <2> QED
    BY <2>2, <2>3
<1> QED
  BY <1>1, <1>2

\* The types of what a step changes little.
LEMMA TypesKept ==
  ASSUME TypeOK, Grows, master' \in 0..MaxKey, record' = record,
         \A i \in Ids : origin'[i] \in Origins,
         \A p \in Procs :
           /\ proc'[p].mode \in Modes
           /\ proc'[p].mode = "sealing" => proc'[p].key \in {KeyOf(n) : n \in 1..master'}
           /\ proc'[p].read = Null \/ proc'[p].read.id \in Ids
  PROVE TypeOK'
<1>0. kind' = kind /\ master \in Nat /\ master' \in Nat /\ master <= master'
  BY DEF Grows
<1>1. record' \in {<<>>} \cup {Subkey(Root(n), PluginScope("p")) : n \in 1..master'}
  BY <1>0 DEF TypeOK
<1>2. \A n : KeyOf(n) = Subkey(Root(n), Scope) /\ Scope' = Scope
  BY <1>0, Zenon DEF KeyOf, Scope
<1>3. kind' \in Kinds
  BY <1>0 DEF TypeOK
<1> QED
  BY <1>1, <1>2, <1>3 DEF TypeOK

-----------------------------------------------------------------------------
(* The invariant holds initially and is preserved, one lemma for an action. *)

\* What an older release left is a stored form.
LEMMA OldForm ==
  ASSUME kind \in SixKinds, NEW i, NEW s,
         s = IF kind = "tenant" THEN Seal(FieldCipher([key |-> Root(1), retired |-> {}]), Old) ELSE Old
  PROVE Form(i, s) /\ ValueOf(s) = Old
<1>1. CASE kind = "tenant"
  <2>1. s = Envelope(FieldMark, Root(1), <<>>, Old)
    BY <1>1 DEF Seal, FieldCipher
  <2>2. IsSealed(s)
    BY <2>1 DEF Envelope, IsSealed
  <2>3. s.body.plain = Old
    BY <2>1 DEF Envelope
  <2> QED
    BY <1>1, <2>1, <2>2, <2>3 DEF Form, Legacy, ValueOf
<1>2. CASE kind # "tenant"
  <2>1. s = Old /\ \A m : ~Begins(Old, m)
    BY <1>2, EmptyIsText DEF Begins
  <2>2. Trim(Old) = Old
    BY <2>1, Zenon DEF Trim
  <2>3. Value(Old)
    BY <2>2, EmptyIsText DEF Value
  <2>4. Unsealed(Old)
    BY <1>2, <2>1, <2>3 DEF Unsealed, SixKinds
  <2>5. ValueOf(Old) = Old
    BY <2>1, <2>4, UnsealedIsNot, Zenon DEF ValueOf
  <2> QED
    BY <2>1, <2>4, <2>5, Zenon DEF Form
<1> QED
  BY <1>1, <1>2

\* The invariant holds at first.
LEMMA InitIInv == Init => IInv
<1> SUFFICES ASSUME Init PROVE IInv
  OBVIOUS
<1>1. kind \in SixKinds
  BY ValuesAssumption DEF Init, SixKinds
<1>2. TypeOK
  <2>1. master \in 0..MaxKey
    BY ValuesAssumption DEF Init
  <2>2. \A p \in Procs : proc[p] = Down
    BY DEF Init
  <2>3. Down.mode = "down" /\ Down.read = Null
    BY DEF Down
  <2> QED
    BY <2>1, <2>2, <2>3 DEF Init, TypeOK, Origins, Modes
<1>3. Functions
  BY DEF Init, Functions
<1>4. ASSUME NEW i \in Ids PROVE StoredOK(i) /\ TokenOK(i)
  <2>1. Form(i, stored[i]) /\ ValueOf(stored[i]) = Old
    BY <1>1, OldForm DEF Init
  <2>2. written[i] = Old /\ origin[i] = "written" /\ token[i] = NoToken
    BY DEF Init
  <2> QED
    BY <2>1, <2>2 DEF StoredOK, TokenOK
<1>5. ASSUME NEW p \in Procs PROVE ProcOK(p) /\ ReadOK(p)
  <2>1. proc[p] = Down
    BY DEF Init
  <2>2. /\ DOMAIN Down = {"mode", "key", "retired", "read", "saw"}
        /\ Down.mode = "down" /\ Down.read = Null
    BY DEF Down
  <2> QED
    BY <2>1, <2>2 DEF ProcOK, ReadOK, Modes
<1> QED
  BY <1>2, <1>3, <1>4, <1>5 DEF IInv

\* The newest key is a number.
LEMMA MasterIsNat == ASSUME TypeOK PROVE master \in Nat /\ MaxKey \in Nat
BY ValuesAssumption DEF TypeOK

\* Every action keeps it: a new master key,
LEMMA AdoptIInv == IInv /\ Adopt => IInv'
<1> SUFFICES ASSUME IInv, Adopt PROVE IInv'
  OBVIOUS
<1>1. TypeOK /\ master \in Nat /\ MaxKey \in Nat
  BY MasterIsNat DEF IInv
<1>2. Grows /\ master' \in 0..MaxKey
  BY <1>1 DEF Adopt, Grows
<1>3. TypeOK'
  <2>1. \A p \in Procs : proc[p].mode = "sealing" => proc[p].key \in {KeyOf(n) : n \in 1..master'}
    BY <1>1 DEF TypeOK, KeyOf, Adopt
  <2> QED
    BY <1>1, <1>2, <2>1, TypesKept DEF Adopt, TypeOK
<1>4. Functions'
  BY DEF IInv, Functions, Adopt
<1>5. ASSUME NEW i \in Ids PROVE StoredOK(i)' /\ TokenOK(i)'
  BY <1>2, RecordKept DEF IInv, Adopt
<1>6. ASSUME NEW p \in Procs PROVE ProcOK(p)' /\ ReadOK(p)'
  BY <1>2, ProcKept DEF IInv, Adopt
<1> QED
  BY <1>3, <1>4, <1>5, <1>6 DEF IInv

\* Whatever a process starts with is the current key for its scope, or none.
LEMMA KeysShape ==
  ASSUME NEW how \in {"host", "child", "stray", "broken", "env", "none"},
         NEW k \in Keys(how)
  PROVE k.key = KeyOf(master) /\ k = CHOOSE x \in Keys(how) : TRUE
<1>1. \E R : Keys(how) \subseteq {[key |-> KeyOf(master), retired |-> R]}
  <2> DEFINE K(R) == {[key |-> KeyOf(master), retired |-> R]}
             All == {Subkey(r, Scope) : r \in Retired(master)}
  <2>1. Subkeys({Host}, Scope) = K(All)
    BY DEF Subkeys, Host, KeyOf
  <2>2. Subkeys({[Host EXCEPT !.retired = {}]}, Scope) = K({})
    BY DEF Subkeys, Host, KeyOf
  <2>3. Subkeys({}, Scope) = {}
    BY DEF Subkeys
  <2>4. \A env, masters :
          \/ SubkeyFrom(env, masters, Scope) = Subkeys(masters, Scope)
          \/ SubkeyFrom(env, masters, Scope) = {}
          \/ ~Refuses(env, Scope) /\ SubkeyFrom(env, masters, Scope) = {[key |-> env.key, retired |-> env.retired]}
    BY DEF SubkeyFrom
  <2>5. CASE how = "host"
    <3>1. SubkeyFrom(NoEnv, {Host}, Scope) = Subkeys({Host}, Scope)
      BY DEF SubkeyFrom, Delivered
    <3> QED
      BY <2>1, <2>5, <3>1 DEF Keys
  <2>6. CASE how = "env"
    <3>1. SubkeyFrom(NoEnv, {[Host EXCEPT !.retired = {}]}, Scope) = Subkeys({[Host EXCEPT !.retired = {}]}, Scope)
      BY DEF SubkeyFrom, Delivered
    <3> QED
      BY <2>2, <2>6, <3>1 DEF Keys
  <2>7. CASE how = "none"
    <3>1. SubkeyFrom(NoEnv, {}, Scope) = {}
      BY <2>3 DEF SubkeyFrom, Delivered
    <3> QED
      BY <2>7, <3>1 DEF Keys
  <2>8. CASE how = "child"
    <3>1. ChildEnv(Host, Scope).key = KeyOf(master) /\ ChildEnv(Host, Scope).retired = All
      BY DEF ChildEnv, Host, KeyOf
    <3>2. Keys(how) = SubkeyFrom(ChildEnv(Host, Scope), {}, Scope)
      BY <2>8 DEF Keys
    <3>3. Keys(how) = {} \/ Keys(how) = {[key |-> KeyOf(master), retired |-> All]}
      <4>1. PICK env : env = ChildEnv(Host, Scope)
        OBVIOUS
      <4>2. Keys(how) = {} \/ Keys(how) = {[key |-> env.key, retired |-> env.retired]}
        BY <2>3, <2>4, <3>2, <4>1
      <4> QED
        BY <3>1, <4>1, <4>2
    <3> QED
      BY <3>3
  <2>9. CASE how = "stray"
    <3>1. ChildEnv(Host, PluginScope("q")).scope = PluginScope("q")
      BY DEF ChildEnv
    <3>2. PluginScope("q") # Scope
      BY DEF Scope, PluginScope, ComponentScope
    <3>3. Refuses(ChildEnv(Host, PluginScope("q")), Scope)
      BY <3>1, <3>2 DEF Refuses
    <3>4. Keys(how) = SubkeyFrom(ChildEnv(Host, PluginScope("q")), {Host}, Scope)
      BY <2>9 DEF Keys
    <3> QED
      BY <2>1, <2>4, <3>3, <3>4
  <2>10. CASE how = "broken"
    <3>1. Refuses(BrokenEnv, Scope)
      BY DEF Refuses
    <3>2. Keys(how) = SubkeyFrom(BrokenEnv, {Host}, Scope)
      BY <2>10 DEF Keys
    <3>3. Keys(how) = {} \/ Keys(how) = Subkeys({Host}, Scope)
      <4>1. PICK env : env = BrokenEnv
        OBVIOUS
      <4> QED
        BY <2>4, <3>1, <3>2, <4>1
    <3> QED
      BY <2>1, <3>3
  <2> QED
    BY <2>5, <2>6, <2>7, <2>8, <2>9, <2>10
<1>2. PICK R : Keys(how) \subseteq {[key |-> KeyOf(master), retired |-> R]}
  BY <1>1
<1>3. k = [key |-> KeyOf(master), retired |-> R] /\ Keys(how) = {k}
  BY <1>2
<1> QED
  BY <1>3, OnlyChoice

\* A stopped process holds no key.
LEMMA NoKeys == Keys("none") = {}
<1>1. Subkeys({}, Scope) = {}
  BY DEF Subkeys
<1>2. SubkeyFrom(NoEnv, {}, Scope) = Subkeys({}, Scope)
  BY DEF SubkeyFrom, Delivered
<1> QED
  BY <1>1, <1>2 DEF Keys

\* What a start makes of a process.
LEMMA Starts ==
  ASSUME TypeOK, NEW p \in Procs, NEW how \in {"host", "child", "stray", "broken", "env", "none"},
         Start(p, how), proc = [q \in Procs |-> proc[q]]
  PROVE /\ proc' = [q \in Procs |-> proc'[q]]
        /\ \A q \in Procs : q # p => proc'[q] = proc[q]
        /\ DOMAIN proc'[p] = {"mode", "key", "retired", "read", "saw"}
        /\ proc'[p].read = Null
        /\ proc'[p].mode \in IF IsStore THEN {"sealing", "compat", "unhealthy"} ELSE {"keyless", "sealing"}
        /\ proc'[p].mode = "compat" => proc'[p].saw = <<>>
        /\ proc'[p].mode = "sealing" => proc'[p].key = KeyOf(master) /\ master # 0
        /\ record' = record \/ (IsStore /\ record' = KeyOf(master) /\ master # 0)
<1> DEFINE keys == Keys(how)
           mode == IF IsStore THEN StoreMode(keys) ELSE IF keys = {} THEN "keyless" ELSE "sealing"
           k == IF keys = {} THEN [key |-> <<>>, retired |-> {}] ELSE CHOOSE k \in keys : TRUE
           saw == IF mode = "compat" THEN record ELSE <<>>
           new == [Down EXCEPT !.mode = mode, !.key = k.key, !.retired = k.retired, !.saw = saw]
<1>1. /\ proc' = [proc EXCEPT ![p] = new]
      /\ record' = IF IsStore /\ keys # {} /\ record = <<>> THEN k.key ELSE record
      /\ master = 0 => how = "none"
  BY DEF Start
<1>2. keys # {} => k.key = KeyOf(master) /\ master # 0
  <2> SUFFICES ASSUME keys # {} PROVE k.key = KeyOf(master) /\ master # 0
    OBVIOUS
  <2>1. master # 0
    BY <1>1, NoKeys
  <2>2. PICK x : x \in keys
    OBVIOUS
  <2>3. x.key = KeyOf(master) /\ x = CHOOSE y \in keys : TRUE
    BY <2>2, KeysShape
  <2> QED
    BY <2>1, <2>3
<1>3. /\ StoreMode(keys) \in {"sealing", "compat", "unhealthy"}
      /\ StoreMode(keys) = "compat" => record = <<>>
      /\ StoreMode(keys) = "sealing" => keys # {}
  BY DEF StoreMode
<1>4. /\ mode \in IF IsStore THEN {"sealing", "compat", "unhealthy"} ELSE {"keyless", "sealing"}
      /\ mode = "compat" => record = <<>>
      /\ mode = "sealing" => keys # {}
  <2> HIDE DEF keys
  <2> QED
    BY <1>3
<1>5. saw = IF mode = "compat" THEN record ELSE <<>>
  OBVIOUS
<1> HIDE DEF keys, mode, k, saw
<1>6. new = [mode |-> mode, key |-> k.key, retired |-> k.retired, read |-> Null, saw |-> saw]
  <2>1. PICK q : q = new
    OBVIOUS
  <2>2. q = [mode |-> mode, key |-> k.key, retired |-> k.retired, read |-> Null, saw |-> saw]
    BY <2>1 DEF Down
  <2> QED
    BY <2>1, <2>2, Zenon
<1>7. /\ proc' = [q \in Procs |-> proc'[q]]
      /\ \A q \in Procs : q # p => proc'[q] = proc[q]
      /\ proc'[p] = new
  BY <1>1
<1> HIDE DEF new
<1>8. /\ DOMAIN new = {"mode", "key", "retired", "read", "saw"}
      /\ new.mode = mode /\ new.key = k.key /\ new.read = Null /\ new.saw = saw
  BY <1>6
<1> QED
  BY <1>1, <1>2, <1>4, <1>5, <1>7, <1>8

\* a start,
LEMMA StartIInv ==
  ASSUME IInv, NEW p \in Procs, NEW how \in {"host", "child", "stray", "broken", "env", "none"},
         Start(p, how)
  PROVE IInv'
<1>1. TypeOK /\ master \in Nat
  BY MasterIsNat DEF IInv
<1>2. /\ UNCHANGED <<kind, master, stored, token, written, origin>>
      /\ Grows
  BY <1>1 DEF Start, Grows
<1>3. /\ proc' = [q \in Procs |-> proc'[q]]
      /\ \A q \in Procs : q # p => proc'[q] = proc[q]
      /\ DOMAIN proc'[p] = {"mode", "key", "retired", "read", "saw"}
      /\ proc'[p].read = Null
      /\ proc'[p].mode \in IF IsStore THEN {"sealing", "compat", "unhealthy"} ELSE {"keyless", "sealing"}
      /\ proc'[p].mode = "compat" => proc'[p].saw = <<>>
      /\ proc'[p].mode = "sealing" => proc'[p].key = KeyOf(master) /\ master # 0
      /\ record' = record \/ (IsStore /\ record' = KeyOf(master) /\ master # 0)
  BY <1>1, Starts DEF IInv, Functions
<1>4. TypeOK'
  <2>1. record' \in {<<>>} \cup {Subkey(Root(n), PluginScope("p")) : n \in 1..master'}
    <3>1. IsStore => Scope = PluginScope("p")
      BY DEF IsStore, Scope
    <3>2. master # 0 => master \in 1..master'
      BY <1>1, <1>2
    <3> QED
      BY <1>2, <1>3, <3>1, <3>2 DEF TypeOK, IInv, KeyOf
  <2>2. ASSUME NEW q \in Procs
        PROVE /\ proc'[q].mode \in Modes
              /\ proc'[q].mode = "sealing" => proc'[q].key \in {Subkey(Root(n), Scope)' : n \in 1..master'}
              /\ proc'[q].read = Null \/ proc'[q].read.id \in Ids
    <3>1. Scope' = Scope
      BY <1>2 DEF Scope
    <3>2. CASE q = p
      <4>1. proc'[p].mode = "sealing" => proc'[p].key \in {Subkey(Root(n), Scope) : n \in 1..master}
        BY <1>1, <1>3 DEF KeyOf
      <4>2. proc'[p].mode \in Modes
        BY <1>3 DEF Modes
      <4> QED
        BY <1>2, <1>3, <3>1, <3>2, <4>1, <4>2
    <3>3. CASE q # p
      BY <1>1, <1>2, <1>3, <3>1, <3>3 DEF TypeOK
    <3> QED
      BY <3>2, <3>3
  <2> QED
    BY <1>1, <1>2, <2>1, <2>2 DEF TypeOK
<1>5. Functions'
  BY <1>2, <1>3 DEF IInv, Functions
<1>6. ASSUME NEW i \in Ids PROVE StoredOK(i)' /\ TokenOK(i)'
  BY <1>2, RecordKept DEF IInv
<1>7. ASSUME NEW q \in Procs PROVE ProcOK(q)' /\ ReadOK(q)'
  <2>1. CASE q = p
    <3>1. IsStore' = IsStore
      BY <1>2 DEF IsStore
    <3>2. ProcOK(p)'
      BY <1>3, <3>1 DEF ProcOK, Modes
    <3>3. ReadOK(p)'
      BY <1>3, Zenon DEF ReadOK
    <3> QED
      BY <2>1, <3>2, <3>3
  <2>2. CASE q # p
    BY <1>2, <1>3, <2>2, ProcKept DEF IInv
  <2> QED
    BY <2>1, <2>2
<1> QED
  BY <1>4, <1>5, <1>6, <1>7 DEF IInv

\* a stop,
LEMMA StopIInv == ASSUME IInv, NEW p \in Procs, Stop(p) PROVE IInv'
<1>1. TypeOK /\ master \in Nat
  BY MasterIsNat DEF IInv
<1>2. /\ UNCHANGED <<kind, master, record, stored, token, written, origin>>
      /\ Grows
  BY <1>1 DEF Stop, Grows
<1>3. /\ proc' = [q \in Procs |-> proc'[q]]
      /\ \A q \in Procs : q # p => proc'[q] = proc[q]
      /\ proc'[p] = Down
  BY DEF IInv, Functions, Stop
<1>4. /\ DOMAIN Down = {"mode", "key", "retired", "read", "saw"}
      /\ Down.mode = "down" /\ Down.read = Null
  BY DEF Down
<1>5. TypeOK'
  <2>1. ASSUME NEW q \in Procs
        PROVE /\ proc'[q].mode \in Modes
              /\ proc'[q].mode = "sealing" => proc'[q].key \in {KeyOf(n) : n \in 1..master'}
              /\ proc'[q].read = Null \/ proc'[q].read.id \in Ids
    <3>1. CASE q = p
      BY <1>3, <1>4, <3>1 DEF Modes
    <3>2. CASE q # p
      BY <1>1, <1>2, <1>3, <3>2 DEF TypeOK, KeyOf
    <3> QED
      BY <3>1, <3>2
  <2> QED
    BY <1>1, <1>2, <2>1, TypesKept DEF TypeOK
<1>6. Functions'
  BY <1>2, <1>3 DEF IInv, Functions
<1>7. ASSUME NEW i \in Ids PROVE StoredOK(i)' /\ TokenOK(i)'
  BY <1>2, RecordKept DEF IInv
<1>8. ASSUME NEW q \in Procs PROVE ProcOK(q)' /\ ReadOK(q)'
  <2>1. CASE q = p
    <3>1. ProcOK(p)'
      BY <1>3, <1>4 DEF ProcOK, Modes
    <3>2. ReadOK(p)'
      BY <1>3, <1>4, Zenon DEF ReadOK
    <3> QED
      BY <2>1, <3>1, <3>2
  <2>2. CASE q # p
    BY <1>2, <1>3, <2>2, ProcKept DEF IInv
  <2> QED
    BY <2>1, <2>2
<1> QED
  BY <1>5, <1>6, <1>7, <1>8 DEF IInv

\* What callers write are values.
LEMMA InputIsValue ==
  ASSUME TypeOK, NEW v \in Inputs[kind] PROVE Value(v)
<1>1. IsText(v) /\ Blanks(v)
  BY ValuesAssumption DEF TypeOK
<1>2. Trim(Trim(v)) = Trim(v)
  <2>1. CASE Begins(v, " ")
    <3>1. Trim(v) = Strip(v) /\ ~Begins(Strip(v), " ")
      BY <1>1, <2>1 DEF Trim, Blanks
    <3>2. Trim(Strip(v)) = Strip(v)
      BY <3>1, Zenon DEF Trim
    <3> QED
      BY <3>1, <3>2, Zenon
  <2>2. CASE ~Begins(v, " ")
    BY <2>2, Zenon DEF Trim
  <2> QED
    BY <2>1, <2>2
<1> QED
  BY <1>1, <1>2 DEF Value

\* The types after a step that changes no process.
LEMMA TypesOfRecords ==
  ASSUME TypeOK, UNCHANGED <<kind, master, record, proc>>, \A i \in Ids : origin'[i] \in Origins
  PROVE TypeOK' /\ Grows
<1>1. master \in Nat
  BY MasterIsNat
<1>2. Grows
  BY <1>1 DEF Grows
<1>3. \A p \in Procs :
        /\ proc'[p].mode \in Modes
        /\ proc'[p].mode = "sealing" => proc'[p].key \in {KeyOf(n) : n \in 1..master'}
        /\ proc'[p].read = Null \/ proc'[p].read.id \in Ids
  BY DEF TypeOK, KeyOf
<1>4. master' \in 0..MaxKey
  BY DEF TypeOK
<1> QED
  BY <1>2, <1>3, <1>4, TypesKept

\* a write,
LEMMA WriteIInv ==
  ASSUME IInv, NEW p \in Procs, NEW i \in Ids, NEW v \in Inputs[kind], Write(p, i, v)
  PROVE IInv'
<1>0. UNCHANGED <<kind, master, record, proc>>
  BY DEF Write
<1>1. TypeOK /\ Value(v) /\ ProcOK(p)
  BY InputIsValue DEF IInv
<1>2. PICK s : s = SealedBy(p, i, v).value
  OBVIOUS
<1>3. SealsTo(p, i, v, s)
  BY <1>1, <1>2, Sealing DEF Write
<1>4. /\ Functions'
      /\ stored'[i] = s /\ token'[i] = TokenOf(p, v) /\ written'[i] = v /\ origin'[i] = "written"
      /\ \A j \in Ids \ {i} : /\ stored'[j] = stored[j] /\ token'[j] = token[j]
                              /\ written'[j] = written[j] /\ origin'[j] = origin[j]
  BY <1>0, <1>2 DEF Write, IInv, Functions
<1>5. TypeOK' /\ Grows
  BY <1>0, <1>1, <1>4, TypesOfRecords DEF TypeOK, Origins
<1>6. ASSUME NEW j \in Ids PROVE StoredOK(j)' /\ TokenOK(j)'
  <2>1. CASE j = i
    <3>1. Form(i, s)' /\ ValueOf(s)' = v
      BY <1>0, <1>3, <1>5, FormsKept, SameSeal DEF SealsTo
    <3>2. StoredOK(i)'
      BY <1>4, <3>1 DEF StoredOK
    <3>3. TokenOf(p, v) # NoToken => TokenOf(p, v) = <<Index(p).key, Casefold(v)>>
      BY Zenon DEF TokenOf, Token
    <3>4. TokenOK(i)'
      BY <1>4, <3>1, <3>3 DEF TokenOK
    <3> QED
      BY <2>1, <3>2, <3>4
  <2>2. CASE j # i
    BY <1>4, <1>5, <2>2, RecordKept DEF IInv
  <2> QED
    BY <2>1, <2>2
<1>7. ASSUME NEW q \in Procs PROVE ProcOK(q)' /\ ReadOK(q)'
  BY <1>0, <1>5, ProcKept DEF IInv
<1> QED
  BY <1>4, <1>5, <1>6, <1>7 DEF IInv

\* A form of the record itself is none of what does not belong there.
LEMMA FormExcludes ==
  ASSUME kind \in SixKinds, NEW i, NEW s, Form(i, s)
  PROVE /\ ~(Bound /\ MovedForm(i, s))
        /\ ~ForeignForm(s)
        /\ kind # "blob" => ~NewerForm(s)
<1>1. ASSUME Bound, MovedForm(i, s) PROVE FALSE
  <2>1. PICK j \in Ids \ {i} : SealedAt(j, s)
    BY <1>1 DEF MovedForm
  <2>2. PICK mark, key, aad, v : mark = OwnMark /\ aad = AadOf(j) /\ s = Envelope(mark, key, aad, v)
    BY <2>1, Zenon DEF SealedAt
  <2>3. IsSealed(s) /\ s.body.aad = aad /\ \A m : Begins(s, m) <=> m = mark
    <3>1. IsSealed(s)
      BY <2>1 DEF SealedAt
    <3>2. s.body.aad = aad
      BY <2>2 DEF Envelope
    <3>3. \A m : Begins(s, m) <=> m = mark
      BY <2>2, EnvelopeMark
    <3> QED
      BY <3>1, <3>2, <3>3
  <2>4. CASE SealedAt(i, s)
    <3>1. PICK key2, aad2, mark2, v2 : aad2 = AadOf(i) /\ s = Envelope(mark2, key2, aad2, v2)
      BY <2>4, Zenon DEF SealedAt
    <3>2. s.body.aad = aad2
      BY <3>1 DEF Envelope
    <3>3. AadOf(i) # AadOf(j)
      BY <1>1, <2>1, BoundElsewhere
    <3> QED
      BY <2>2, <2>3, <3>1, <3>2, <3>3
  <2>5. CASE Legacy(s)
    <3>1. kind = "tenant" /\ Begins(s, FieldMark)
      <4>1. PICK key2, aad2, mark2, v2 : mark2 = FieldMark /\ s = Envelope(mark2, key2, aad2, v2)
        BY <2>5, Zenon DEF Legacy
      <4>2. \A m : Begins(s, m) <=> m = mark2
        BY <4>1, EnvelopeMark
      <4> QED
        BY <2>5, <4>1, <4>2 DEF Legacy
    <3> QED
      BY <2>2, <2>3, <3>1 DEF OwnMark, BoundMark, FieldMark
  <2>6. CASE Unsealed(s)
    BY <2>3, <2>6, UnsealedIsNot
  <2> QED
    BY <2>4, <2>5, <2>6 DEF Form
<1>2. ASSUME ForeignForm(s) PROVE FALSE
  <2>1. PICK mark, key : /\ mark \in Schemes \ {OwnMark}
                         /\ kind = "tenant" => mark # FieldMark
                         /\ s = Envelope(mark, key, <<>>, Old)
    BY <1>2, Zenon DEF ForeignForm
  <2>2. \A m : Begins(s, m) <=> m = mark
    BY <2>1, EnvelopeMark
  <2>3. CASE SealedAt(i, s)
    <3>1. PICK key2, aad2, mark2, v2 : mark2 = OwnMark /\ s = Envelope(mark2, key2, aad2, v2)
      BY <2>3, Zenon DEF SealedAt
    <3>2. \A m : Begins(s, m) <=> m = mark2
      BY <3>1, EnvelopeMark
    <3> QED
      BY <2>1, <2>2, <3>1, <3>2
  <2>4. CASE Legacy(s)
    <3>1. PICK key2, aad2, mark2, v2 : mark2 = FieldMark /\ s = Envelope(mark2, key2, aad2, v2)
      BY <2>4, Zenon DEF Legacy
    <3>2. \A m : Begins(s, m) <=> m = mark2
      BY <3>1, EnvelopeMark
    <3> QED
      BY <2>1, <2>2, <2>4, <3>1, <3>2 DEF Legacy
  <2>5. CASE Unsealed(s)
    BY <1>2, <2>5, UnsealedIsNot DEF ForeignForm
  <2> QED
    BY <2>3, <2>4, <2>5 DEF Form
<1>3. ASSUME kind # "blob", NewerForm(s) PROVE FALSE
  <2>1. kind = "text" /\ s = Text(<<"encb:v2:">>, "v2")
    BY <1>3 DEF NewerForm
  <2>2. s.marks = <<"encb:v2:">> /\ DOMAIN s.body = {"word"}
    BY <2>1 DEF Text
  <2>3. ~IsSealed(s) /\ Begins(s, "encb:v2:") /\ ~Begins(s, CompatEscape)
    BY <2>2 DEF IsSealed, Begins, CompatEscape
  <2>4. ~SealedAt(i, s) /\ ~Legacy(s)
    BY <2>1, <2>3 DEF SealedAt, Legacy
  <2>5. ~Unsealed(s)
    BY <2>1, <2>3 DEF Unsealed, ContentFamily
  <2> QED
    BY <2>4, <2>5 DEF Form
<1> QED
  BY <1>1, <1>2, <1>3

\* Without a key, a text never asks to be sealed again.
LEMMA NoAgain ==
  ASSUME NEW p, NEW i, kind = "text", proc[p].mode # "sealing", ReadOf(p, i).ok
  PROVE ~ReadOf(p, i).again
<1> DEFINE s == stored[i]
<1>1. ReadOf(p, i) = StoreOpenText(proc[p].mode, Cipher(p), s, Context(i))
  BY DEF ReadOf
<1>2. ~Refused("no key").ok
  BY Results
<1>3. CASE Begins(s, CompatEscape)
  <2>1. ReadOf(p, i) = Ok(Strip(s), proc[p].mode = "sealing")
    BY <1>1, <1>3, Zenon DEF StoreOpenText
  <2>2. (proc[p].mode = "sealing") = FALSE
    OBVIOUS
  <2>3. ReadOf(p, i) = Ok(Strip(s), FALSE)
    BY <2>1, <2>2
  <2> QED
    BY <2>3 DEF Ok
<1>4. CASE ~Begins(s, CompatEscape)
  <2>1. ReadOf(p, i) = Ok(s, FALSE)
    BY <1>1, <1>2, <1>4, Zenon DEF StoreOpenText
  <2> QED
    BY <2>1 DEF Ok
<1> QED
  BY <1>3, <1>4

\* An envelope bound to nothing is a form of any record.
LEMMA FormAnywhere ==
  ASSUME kind \in SixKinds, ~Bound, NEW i, NEW j, NEW s, Form(j, s)
  PROVE Form(i, s)
<1>1. AadOf(i) = AadOf(j)
  BY DEF AadOf, Bound, SixKinds
<1> QED
  BY <1>1, Zenon DEF Form, SealedAt

\* What a read that is to be written back finds is a form of the record.
LEMMA ReadsForm ==
  ASSUME IInv, NEW p \in Procs, NEW i \in Ids, ReadToWrite(p, i)
  PROVE LET o == IF kind = "tenant" /\ proc[p].mode = "sealing"
                 THEN TenantOpenLegacy(Tenant(p), stored[i], Context(i))
                 ELSE ReadOf(p, i)
        IN Form(i, stored[i]) /\ o.value = Norm(ValueOf(stored[i]))
<1> DEFINE o == IF kind = "tenant" /\ proc[p].mode = "sealing"
                THEN TenantOpenLegacy(Tenant(p), stored[i], Context(i))
                ELSE ReadOf(p, i)
<1>1. /\ kind \in SixKinds /\ StoredOK(i) /\ origin[i] \in Origins
      /\ kind # "blob"
      /\ o.ok
      /\ kind = "config" \/ o.again
  BY KindsAreSix DEF IInv, TypeOK, ReadToWrite
<1>2. CASE kind = "tenant" /\ proc[p].mode = "sealing"
  <2>1. o = TenantOpenLegacy(Tenant(p), stored[i], Context(i))
    BY <1>2
  <2>2. origin[i] # "moved"
    <3>1. Bound
      BY <1>2 DEF Bound
    <3>2. ASSUME MovedForm(i, stored[i]) PROVE FALSE
      BY <1>1, <1>2, <2>1, <3>1, <3>2, MovedRefused, Zenon
    <3> QED
      BY <1>1, <3>2, Zenon DEF StoredOK
  <2>3. origin[i] # "foreign"
    BY <1>1, <1>2, <2>1, ForeignRefused, Zenon DEF StoredOK
  <2>4. origin[i] # "newer"
    BY <1>1, <1>2 DEF StoredOK, NewerForm
  <2>5. Form(i, stored[i])
    BY <1>1, <2>2, <2>3, <2>4 DEF StoredOK, Origins
  <2>6. o.value = Norm(ValueOf(stored[i]))
    BY <1>1, <1>2, <2>1, <2>5, ReadLegacyForm
  <2> HIDE DEF o
  <2>7. Form(i, stored[i]) /\ o.value = Norm(ValueOf(stored[i]))
    BY <2>5, <2>6
  <2> QED
    BY <2>7 DEF o
<1>3. CASE ~(kind = "tenant" /\ proc[p].mode = "sealing")
  <2>1. o = ReadOf(p, i)
    BY <1>3
  <2>2. /\ origin[i] \in {"written", "stale"} => Form(i, stored[i])
        /\ origin[i] = "moved" => ~Bound
        /\ origin[i] # "foreign"
        /\ origin[i] = "newer" => proc[p].mode # "sealing"
    BY <1>1, <2>1, NoneMovedReads
  <2>3. origin[i] # "newer"
    <3> SUFFICES ASSUME origin[i] = "newer" PROVE FALSE
      OBVIOUS
    <3>1. kind = "text"
      BY <1>1 DEF StoredOK, NewerForm
    <3>2. ~ReadOf(p, i).again
      BY <1>1, <2>1, <2>2, <3>1, NoAgain
    <3>3. ReadOf(p, i).again
      BY <1>1, <2>1, <3>1
    <3> QED
      BY <3>2, <3>3, Zenon
  <2>4. ASSUME origin[i] = "moved" PROVE Form(i, stored[i])
    <3>1. ~Bound /\ MovedForm(i, stored[i])
      BY <1>1, <2>2, <2>4 DEF StoredOK
    <3>2. PICK j : Form(j, stored[i])
      BY <3>1, Zenon DEF MovedForm
    <3> QED
      BY <1>1, <3>1, <3>2, FormAnywhere
  <2>5. Form(i, stored[i])
    BY <1>1, <2>2, <2>3, <2>4 DEF Origins
  <2>6. ReadOf(p, i).value = Norm(ValueOf(stored[i]))
    BY <1>1, <2>1, <2>5, ReadForm
  <2> HIDE DEF o
  <2>7. Form(i, stored[i]) /\ o.value = Norm(ValueOf(stored[i]))
    BY <2>1, <2>5, <2>6
  <2> QED
    BY <2>7 DEF o
<1> QED
  BY <1>2, <1>3

\* the read of a value to be written back,
LEMMA ReadToWriteIInv ==
  ASSUME IInv, NEW p \in Procs, NEW i \in Ids, ReadToWrite(p, i)
  PROVE IInv'
<1> DEFINE o == IF kind = "tenant" /\ proc[p].mode = "sealing"
                THEN TenantOpenLegacy(Tenant(p), stored[i], Context(i))
                ELSE ReadOf(p, i)
<1>1. /\ Up(p) /\ kind # "blob" /\ o.ok
      /\ kind = "config" \/ o.again
      /\ SealedBy(p, i, o.value).ok
      /\ proc' = [proc EXCEPT ![p].read = [id |-> i, value |-> o.value, from |-> stored[i]]]
      /\ UNCHANGED <<kind, master, record, stored, token, written, origin>>
  BY DEF ReadToWrite
<1>2. Form(i, stored[i]) /\ o.value = Norm(ValueOf(stored[i]))
  BY ReadsForm
<1>3. kind = "text" => o = ReadOf(p, i)
  BY Zenon
<1> HIDE DEF o
<1>4. TypeOK /\ ProcOK(p) /\ master \in Nat
  BY MasterIsNat DEF IInv
<1>5. Value(o.value)
  BY <1>2, FormHasValue, NormIsValue
<1>6. proc[p].mode = "sealing" \/ (kind = "config" /\ o.value = Empty)
  <2>1. \/ proc[p].mode = "sealing"
        \/ kind = "text" /\ proc[p].mode = "compat"
        \/ kind = "config" /\ o.value = Empty
    BY <1>1, <1>4, <1>5, Sealing
  <2>2. ASSUME kind = "text", proc[p].mode = "compat" PROVE FALSE
    <3>1. ReadOf(p, i).ok /\ ReadOf(p, i).again
      BY <1>1, <1>3, <2>2
    <3> QED
      BY <2>2, <3>1, NoAgain
  <2> QED
    BY <2>1, <2>2
<1>7. PICK r : r = [id |-> i, value |-> o.value, from |-> stored[i]]
  OBVIOUS
<1>8. r.id = i /\ r.value = o.value /\ r.from = stored[i]
  BY <1>7
<1>9. /\ proc' = [q \in Procs |-> proc'[q]]
      /\ \A q \in Procs : q # p => proc'[q] = proc[q]
      /\ DOMAIN proc'[p] = DOMAIN proc[p]
      /\ proc'[p].mode = proc[p].mode /\ proc'[p].key = proc[p].key /\ proc'[p].saw = proc[p].saw
      /\ proc'[p].read = r
  <2>1. DOMAIN proc[p] = {"mode", "key", "retired", "read", "saw"} /\ proc = [q \in Procs |-> proc[q]]
    BY <1>4 DEF ProcOK, IInv, Functions
  <2>2. proc' = [proc EXCEPT ![p].read = r]
    BY <1>1, <1>7
  <2> QED
    BY <2>1, <2>2
<1>10. Grows
  BY <1>1, <1>4 DEF Grows
<1>11. TypeOK'
  <2>1. ASSUME NEW q \in Procs
        PROVE /\ proc'[q].mode \in Modes
              /\ proc'[q].mode = "sealing" => proc'[q].key \in {KeyOf(n) : n \in 1..master'}
              /\ proc'[q].read = Null \/ proc'[q].read.id \in Ids
    <3>1. CASE q = p
      BY <1>1, <1>4, <1>8, <1>9, <3>1 DEF TypeOK, KeyOf
    <3>2. CASE q # p
      BY <1>1, <1>4, <1>9, <3>2 DEF TypeOK, KeyOf
    <3> QED
      BY <3>1, <3>2
  <2> QED
    BY <1>1, <1>4, <1>10, <2>1, TypesKept DEF TypeOK
<1>12. Functions'
  BY <1>1, <1>9 DEF IInv, Functions
<1>13. ASSUME NEW j \in Ids PROVE StoredOK(j)' /\ TokenOK(j)'
  BY <1>1, <1>10, RecordKept DEF IInv
<1>14. ASSUME NEW q \in Procs PROVE ProcOK(q)' /\ ReadOK(q)'
  <2>1. CASE q = p
    <3>1. IsStore' = IsStore
      BY <1>1 DEF IsStore
    <3>2. ProcOK(p)'
      <4>1. proc[p].mode # "down"
        BY <1>1 DEF Up
      <4> QED
        BY <1>4, <1>9, <3>1, <4>1 DEF ProcOK
    <3>3. ReadOK(p)'
      <4>1. PICK s : s = stored[i]
        OBVIOUS
      <4>2. PICK v : v = o.value
        OBVIOUS
      <4>3. Form(i, s)' /\ Value(v)'
        BY <1>1, <1>2, <1>5, <1>10, <4>1, <4>2, FormsKept, SameSeal
      <4>4. v = Norm(ValueOf(s))'
        <5>1. PICK w : w = ValueOf(s)
          OBVIOUS
        <5>2. w = ValueOf(s)' /\ Norm(w)' = Norm(w)
          BY <1>1, <5>1, SameSeal, Zenon
        <5> QED
          BY <1>2, <4>1, <4>2, <5>1, <5>2
      <4> QED
        BY <1>1, <1>6, <1>8, <1>9, <4>1, <4>2, <4>3, <4>4 DEF ReadOK
    <3> QED
      BY <2>1, <3>2, <3>3
  <2>2. CASE q # p
    BY <1>9, <1>10, <2>2, ProcKept DEF IInv
  <2> QED
    BY <2>1, <2>2
<1> QED
  BY <1>11, <1>12, <1>13, <1>14 DEF IInv

\* What was read to be written back can be written back.
LEMMA WritesBack ==
  ASSUME IInv, NEW p \in Procs, proc[p].read # Null
  PROVE SealedBy(p, proc[p].read.id, proc[p].read.value).ok /\ Up(p)
<1>1. PICK i, v : i = proc[p].read.id /\ v = proc[p].read.value
  OBVIOUS
<1>2. /\ kind \in SixKinds /\ kind # "blob"
      /\ proc[p].mode = "sealing" \/ (kind = "config" /\ v = Empty)
      /\ proc[p].mode # "down"
  BY <1>1, KindsAreSix DEF IInv, ReadOK, ProcOK
<1>3. \A x : Ok(x, FALSE).ok
  BY Results
<1>4. CASE kind = "config" /\ v = Empty
  <2>1. SealedBy(p, i, v) = Ok(Empty, FALSE)
    BY <1>4 DEF SealedBy, Serialize
  <2> QED
    BY <1>1, <1>2, <1>3, <2>1, Zenon DEF Up
<1>5. CASE proc[p].mode = "sealing" /\ ~(kind = "config" /\ v = Empty)
  <2>1. CASE kind = "text"
    <3>1. SealedBy(p, i, v) = Ok(SealText(Cipher(p), v, Context(i)), FALSE)
      BY <1>5, <2>1 DEF SealedBy, StoreSealText
    <3> QED
      BY <1>1, <1>2, <1>3, <3>1, Zenon DEF Up
  <2>2. CASE kind = "tenant"
    <3>1. SealedBy(p, i, v) = Ok(TenantSeal(Tenant(p), v, Context(i)), FALSE)
      BY <1>5, <2>2 DEF SealedBy
    <3> QED
      BY <1>1, <1>2, <1>3, <3>1, Zenon DEF Up
  <2>3. CASE kind \in {"field", "config", "secret"}
    <3>1. Sealers(p) # {}
      BY <1>5 DEF Sealers
    <3>2. SealedBy(p, i, v) = SealStr(Sealers(p), v)
      BY <1>5, <2>3 DEF SealedBy, Serialize, WriteSecret
    <3> QED
      BY <1>1, <1>2, <1>3, <3>1, <3>2, Zenon DEF SealStr, Up
  <2> QED
    BY <1>1, <1>2, <2>1, <2>2, <2>3 DEF SixKinds, Up
<1> QED
  BY <1>1, <1>2, <1>4, <1>5 DEF Up

\* its write,
LEMMA WriteBackIInv == ASSUME IInv, NEW p \in Procs, WriteBack(p) PROVE IInv'
<1>1. PICK i, v, from : /\ i = proc[p].read.id /\ v = proc[p].read.value
                        /\ from = proc[p].read.from
  OBVIOUS
<1>2. PICK s : s = SealedBy(p, i, v).value
  OBVIOUS
<1>3. /\ stored' = [stored EXCEPT ![i] = s]
      /\ origin' = [origin EXCEPT ![i] = IF stored[i] = from THEN @ ELSE "stale"]
      /\ proc' = [proc EXCEPT ![p].read = Null]
      /\ UNCHANGED <<kind, master, record, token, written>>
      /\ proc[p].read # Null
  BY <1>1, <1>2 DEF WriteBack
<1>4. /\ TypeOK /\ ProcOK(p) /\ master \in Nat /\ kind \in SixKinds
      /\ i \in Ids
      /\ kind # "blob" /\ Form(i, from) /\ Value(v) /\ v = Norm(ValueOf(from))
  BY <1>1, <1>3, MasterIsNat, KindsAreSix DEF IInv, TypeOK, ReadOK
<1>5. SealsTo(p, i, v, s)
  BY <1>1, <1>2, <1>3, <1>4, WritesBack, Sealing
<1>6. /\ proc' = [q \in Procs |-> proc'[q]]
      /\ \A q \in Procs : q # p => proc'[q] = proc[q]
      /\ DOMAIN proc'[p] = DOMAIN proc[p]
      /\ proc'[p].mode = proc[p].mode /\ proc'[p].key = proc[p].key /\ proc'[p].saw = proc[p].saw
      /\ proc'[p].read = Null
  <2>1. DOMAIN proc[p] = {"mode", "key", "retired", "read", "saw"} /\ proc = [q \in Procs |-> proc[q]]
    BY <1>4 DEF ProcOK, IInv, Functions
  <2> QED
    BY <1>3, <2>1
<1>7. /\ stored' = [j \in Ids |-> stored'[j]] /\ stored'[i] = s
      /\ origin' = [j \in Ids |-> origin'[j]]
      /\ origin'[i] = IF stored[i] = from THEN origin[i] ELSE "stale"
      /\ \A j \in Ids \ {i} : stored'[j] = stored[j] /\ origin'[j] = origin[j]
  BY <1>3, <1>4 DEF IInv, Functions
<1>8. Grows
  BY <1>3, <1>4 DEF Grows
<1>9. TypeOK'
  <2>1. ASSUME NEW q \in Procs
        PROVE /\ proc'[q].mode \in Modes
              /\ proc'[q].mode = "sealing" => proc'[q].key \in {KeyOf(n) : n \in 1..master'}
              /\ proc'[q].read = Null \/ proc'[q].read.id \in Ids
    <3>1. CASE q = p
      BY <1>3, <1>4, <1>6, <3>1 DEF TypeOK, KeyOf
    <3>2. CASE q # p
      BY <1>3, <1>4, <1>6, <3>2 DEF TypeOK, KeyOf
    <3> QED
      BY <3>1, <3>2
  <2>2. \A j \in Ids : origin'[j] \in Origins
    BY <1>4, <1>7 DEF TypeOK, Origins
  <2> QED
    BY <1>3, <1>4, <1>8, <2>1, <2>2, TypesKept DEF TypeOK
<1>10. Functions'
  BY <1>3, <1>6, <1>7 DEF IInv, Functions
<1>11. StoredOK(i)' /\ TokenOK(i)'
  <2>1. Form(i, s) /\ ValueOf(s) = v
    BY <1>5 DEF SealsTo
  <2>2. Form(i, s)' /\ ValueOf(s)' = v
    BY <1>3, <1>8, <2>1, FormsKept, SameSeal
  <2>3. CASE stored[i] # from
    <3>1. origin'[i] = "stale"
      BY <1>7, <2>3
    <3> QED
      BY <1>7, <2>2, <3>1 DEF StoredOK, TokenOK
  <2>4. CASE stored[i] = from
    <3>1. origin'[i] = origin[i] /\ StoredOK(i) /\ TokenOK(i)
      BY <1>4, <1>7, <2>4 DEF IInv
    <3>2. /\ ~(Bound /\ MovedForm(i, from))
          /\ ~ForeignForm(from)
          /\ ~NewerForm(from)
      BY <1>4, FormExcludes
    <3>3. origin[i] # "foreign" /\ origin[i] # "newer"
      BY <2>4, <3>1, <3>2 DEF StoredOK
    <3>4. origin[i] = "written" => Norm(v) = Norm(written[i])
      <4>1. PICK w : w = ValueOf(from)
        OBVIOUS
      <4>2. Value(w)
        BY <1>4, <4>1, FormHasValue
      <4>3. Norm(v) = Norm(w)
        BY <1>4, <4>1, <4>2, NormIsValue
      <4> QED
        BY <2>4, <3>1, <4>1, <4>3 DEF StoredOK
    <3>5. origin[i] = "written" => Norm(v)' = Norm(written[i])'
      <4>1. PICK w : w = written[i]
        OBVIOUS
      <4>2. w = written'[i] /\ Norm(w)' = Norm(w) /\ Norm(v)' = Norm(v)
        BY <1>3, <4>1, SameSeal, Zenon
      <4> QED
        BY <3>4, <4>1, <4>2
    <3>6. origin[i] = "moved" => ~Bound /\ MovedForm(i, s)'
      <4> SUFFICES ASSUME origin[i] = "moved" PROVE ~Bound /\ MovedForm(i, s)'
        OBVIOUS
      <4>1. ~Bound /\ MovedForm(i, from)
        BY <2>4, <3>1, <3>2 DEF StoredOK
      <4>2. PICK j \in Ids \ {i} : Form(j, from)
        BY <4>1, Zenon DEF MovedForm
      <4>3. Form(j, s)
        BY <1>4, <2>1, <4>1, FormAnywhere
      <4>4. MovedForm(i, s)
        BY <4>1, <4>2, <4>3, Zenon DEF MovedForm
      <4> QED
        BY <1>8, <4>1, <4>4, FormsKept
    <3>7. StoredOK(i)'
      BY <1>7, <2>2, <3>1, <3>3, <3>5, <3>6 DEF StoredOK
    <3>8. kind = "text" /\ origin[i] = "written" => v = ValueOf(stored[i])
      BY <1>4, <2>4 DEF Norm
    <3>9. kind = "text" => Bound
      BY DEF Bound
    <3>10. TokenOK(i)'
      BY <1>3, <1>7, <2>2, <3>1, <3>6, <3>8, <3>9 DEF TokenOK
    <3> QED
      BY <3>7, <3>10
  <2> QED
    BY <2>3, <2>4
<1>12. ASSUME NEW j \in Ids PROVE StoredOK(j)' /\ TokenOK(j)'
  <2>1. CASE j = i
    BY <1>11, <2>1
  <2>2. CASE j # i
    BY <1>3, <1>7, <1>8, <2>2, RecordKept DEF IInv
  <2> QED
    BY <2>1, <2>2
<1>13. ASSUME NEW q \in Procs PROVE ProcOK(q)' /\ ReadOK(q)'
  <2>1. CASE q = p
    <3>1. IsStore' = IsStore
      BY <1>3 DEF IsStore
    <3>2. ProcOK(p)'
      BY <1>4, <1>6, <3>1 DEF ProcOK
    <3>3. ReadOK(p)'
      BY <1>6, Zenon DEF ReadOK
    <3> QED
      BY <2>1, <3>2, <3>3
  <2>2. CASE q # p
    BY <1>6, <1>8, <2>2, ProcKept DEF IInv
  <2> QED
    BY <2>1, <2>2
<1> QED
  BY <1>9, <1>10, <1>12, <1>13 DEF IInv

\* a migration,
LEMMA MigrateIInv == ASSUME IInv, NEW p \in Procs, Migrate(p) PROVE IInv'
<1>1. /\ IsStore /\ proc[p].mode = "sealing"
      /\ stored' = [i \in Ids |-> Resealed(p, i)]
      /\ record' = record \/ record' = proc[p].key
      /\ UNCHANGED <<kind, master, token, written, origin, proc>>
  BY DEF Migrate, Resealed
<1>2. TypeOK /\ master \in Nat /\ kind \in {"text", "blob"} /\ kind \in SixKinds
  BY <1>1, MasterIsNat, KindsAreSix DEF IInv, IsStore
<1>3. Grows
  BY <1>1, <1>2 DEF Grows
<1>4. TypeOK'
  <2>1. record' \in {<<>>} \cup {Subkey(Root(n), PluginScope("p")) : n \in 1..master'}
    <3>1. Scope = PluginScope("p")
      BY <1>2 DEF Scope
    <3> QED
      BY <1>1, <1>2, <3>1 DEF TypeOK
  <2>2. Scope' = Scope
    BY <1>1 DEF Scope
  <2> QED
    BY <1>1, <1>2, <2>1, <2>2 DEF TypeOK
<1>5. Functions'
  BY <1>1 DEF IInv, Functions
<1>6. ASSUME NEW i \in Ids PROVE StoredOK(i)' /\ TokenOK(i)'
  <2>1. stored'[i] = Resealed(p, i) /\ StoredOK(i) /\ TokenOK(i) /\ origin[i] \in Origins
    BY <1>1, <1>2 DEF IInv, TypeOK
  <2>2. CASE origin[i] \in {"written", "stale"}
    <3>1. Reseals(i, stored[i], Resealed(p, i))
      BY <1>1, <1>2, <2>1, <2>2, ResealText, ResealBlob DEF StoredOK
    <3>2. PICK s : s = Resealed(p, i)
      OBVIOUS
    <3>3. Form(i, s) /\ ValueOf(s) = ValueOf(stored[i])
      BY <3>1, <3>2 DEF Reseals
    <3>4. Form(i, s)' /\ ValueOf(s)' = ValueOf(stored[i])
      BY <1>1, <1>3, <3>3, FormsKept, SameSeal
    <3>5. origin[i] = "written" => Norm(ValueOf(s))' = Norm(written[i])'
      <4>1. PICK w, v : w = written[i] /\ v = ValueOf(stored[i])
        OBVIOUS
      <4>2. w = written'[i] /\ v = ValueOf(s)' /\ Norm(w)' = Norm(w) /\ Norm(v)' = Norm(v)
        BY <1>1, <3>4, <4>1, SameSeal, Zenon
      <4> QED
        BY <2>1, <4>1, <4>2 DEF StoredOK
    <3>6. StoredOK(i)'
      BY <1>1, <2>1, <2>2, <3>2, <3>4, <3>5 DEF StoredOK
    <3>7. TokenOK(i)'
      BY <1>1, <2>1, <3>2, <3>4 DEF TokenOK
    <3> QED
      BY <3>6, <3>7
  <2>3. CASE origin[i] \in {"moved", "newer"}
    <3>1. ~ReadOf(p, i).ok
      BY <1>1, <1>2, <2>1, <2>3, MovedRefused, NewerRefused DEF StoredOK, Bound
    <3>2. kind = "text" => ~Begins(stored[i], CompatEscape)
      <4> SUFFICES ASSUME kind = "text" PROVE ~Begins(stored[i], CompatEscape)
        OBVIOUS
      <4>1. CASE origin[i] = "moved"
        <5>1. Bound /\ MovedForm(i, stored[i])
          BY <2>1, <4>1 DEF StoredOK, Bound
        <5>2. PICK j : SealedAt(j, stored[i])
          BY <5>1, Zenon DEF MovedForm
        <5> QED
          BY <5>2, SealedNoEscape
      <4>2. CASE origin[i] = "newer"
        <5>1. stored[i] = Text(<<"encb:v2:">>, "v2")
          BY <2>1, <4>2 DEF StoredOK, NewerForm
        <5>2. stored[i].marks = <<"encb:v2:">>
          BY <5>1 DEF Text
        <5> QED
          BY <5>2 DEF Begins, CompatEscape
      <4> QED
        BY <2>3, <4>1, <4>2
    <3>3. stored'[i] = stored[i]
      BY <1>1, <1>2, <2>1, <3>1, <3>2, ResealNothing
    <3> QED
      BY <1>1, <1>3, <2>1, <3>3, RecordKept
  <2>4. CASE origin[i] = "foreign"
    BY <1>1, <2>1, <2>4 DEF StoredOK, ForeignForm
  <2> QED
    BY <2>1, <2>2, <2>3, <2>4 DEF Origins
<1>7. ASSUME NEW q \in Procs PROVE ProcOK(q)' /\ ReadOK(q)'
  BY <1>1, <1>3, ProcKept DEF IInv
<1> QED
  BY <1>4, <1>5, <1>6, <1>7 DEF IInv

\* What the three steps that displace a record have in common.
LEMMA DisplaceIInv ==
  ASSUME IInv, NEW i \in Ids, NEW s, NEW t, NEW o \in Origins,
         stored' = [stored EXCEPT ![i] = s], token' = [token EXCEPT ![i] = t],
         origin' = [origin EXCEPT ![i] = o],
         UNCHANGED <<kind, master, record, written, proc>>,
         o \notin {"written", "stale"},
         o = "moved" => MovedForm(i, s),
         o = "foreign" => ForeignForm(s),
         o = "newer" => NewerForm(s),
         kind = "text" /\ t # NoToken /\ o = "moved" => t = <<t[1], Casefold(ValueOf(s))>>
  PROVE IInv'
<1>1. TypeOK /\ kind \in SixKinds
  BY KindsAreSix DEF IInv
<1>2. /\ Functions'
      /\ stored'[i] = s /\ token'[i] = t /\ origin'[i] = o /\ written'[i] = written[i]
      /\ \A j \in Ids \ {i} : /\ stored'[j] = stored[j] /\ token'[j] = token[j]
                              /\ written'[j] = written[j] /\ origin'[j] = origin[j]
  BY DEF IInv, Functions
<1>3. TypeOK' /\ Grows
  BY <1>1, <1>2, TypesOfRecords DEF TypeOK
<1>4. ASSUME NEW j \in Ids PROVE StoredOK(j)' /\ TokenOK(j)'
  <2>1. CASE j = i
    <3>1. /\ o = "moved" => MovedForm(i, s)'
          /\ o = "foreign" => ForeignForm(s)'
          /\ o = "newer" => NewerForm(s)'
          /\ ValueOf(s)' = ValueOf(s)
      BY <1>3, FormsKept, SameSeal
    <3>2. StoredOK(i)'
      BY <1>2, <3>1 DEF StoredOK
    <3>3. TokenOK(i)'
      BY <1>2, <3>1 DEF TokenOK
    <3> QED
      BY <2>1, <3>2, <3>3
  <2>2. CASE j # i
    BY <1>2, <1>3, <2>2, RecordKept DEF IInv
  <2> QED
    BY <2>1, <2>2
<1>5. ASSUME NEW q \in Procs PROVE ProcOK(q)' /\ ReadOK(q)'
  BY <1>3, ProcKept DEF IInv
<1> QED
  BY <1>2, <1>3, <1>4, <1>5 DEF IInv

\* a record put in another's place,
LEMMA MisplaceIInv == ASSUME IInv, NEW i \in Ids, NEW j \in Ids, Misplace(i, j) PROVE IInv'
<1>1. /\ i # j /\ IsSealed(stored[i]) /\ origin[i] = "written"
      /\ kind = "tenant" => Begins(stored[i], BoundMark)
  BY DEF Misplace, InPlace
<1>2. PICK s, t : s = stored[i] /\ t = token[i]
  OBVIOUS
<1>3. /\ stored' = [stored EXCEPT ![j] = s] /\ token' = [token EXCEPT ![j] = t]
      /\ origin' = [origin EXCEPT ![j] = "moved"]
      /\ UNCHANGED <<kind, master, record, written, proc>>
  BY <1>2 DEF Misplace
<1>4. Form(i, s) /\ TokenOK(i)
  BY <1>1, <1>2 DEF IInv, StoredOK
<1>5. Bound => SealedAt(i, s)
  <2>1. ~Unsealed(s)
    BY <1>1, <1>2, UnsealedIsNot
  <2>2. ~Legacy(s)
    <3> SUFFICES ASSUME Legacy(s) PROVE FALSE
      OBVIOUS
    <3>1. PICK mark, key, aad, v : mark = FieldMark /\ s = Envelope(mark, key, aad, v)
      BY Zenon DEF Legacy
    <3>2. \A m : Begins(s, m) <=> m = mark
      BY <3>1, EnvelopeMark
    <3> QED
      BY <1>1, <1>2, <3>1, <3>2 DEF Legacy, BoundMark, FieldMark
  <2> QED
    BY <1>4, <2>1, <2>2 DEF Form
<1>6. MovedForm(j, s)
  <2>1. i \in Ids \ {j}
    BY <1>1
  <2> QED
    BY <1>4, <1>5, <2>1, Zenon DEF MovedForm
<1>7. kind = "text" /\ t # NoToken => t = <<t[1], Casefold(ValueOf(s))>>
  BY <1>1, <1>2, <1>4 DEF TokenOK
<1> QED
  BY <1>3, <1>6, <1>7, DisplaceIInv DEF Origins

\* one under another scheme,
LEMMA ConfuseIInv ==
  ASSUME IInv, NEW i \in Ids, NEW mark \in Schemes, Confuse(i, mark) PROVE IInv'
<1>1. PICK s, t : s = Envelope(mark, Root(master), <<>>, Old) /\ t = token[i]
  OBVIOUS
<1>2. /\ stored' = [stored EXCEPT ![i] = s]
      /\ token' = [token EXCEPT ![i] = t]
      /\ origin' = [origin EXCEPT ![i] = "foreign"]
      /\ UNCHANGED <<kind, master, record, written, proc>>
  BY <1>1 DEF Confuse, IInv, Functions
<1>3. ForeignForm(s)
  <2>1. /\ kind \in {"field", "config", "secret", "tenant"}
        /\ mark # OwnMark
        /\ kind = "tenant" => mark # FieldMark
    BY DEF Confuse, OwnMark
  <2>2. IsSealed(s)
    BY <1>1 DEF Envelope, IsSealed
  <2>3. s.body.key = Root(master)
    BY <1>1 DEF Envelope
  <2>4. s = Envelope(mark, s.body.key, <<>>, Old)
    BY <1>1, <2>3
  <2>5. ~IsStore
    BY <2>1 DEF IsStore
  <2>6. mark \in Schemes \ {OwnMark}
    BY <2>1
  <2> QED
    BY <2>1, <2>2, <2>4, <2>5, <2>6, Zenon DEF ForeignForm
<1> QED
  BY <1>2, <1>3, DisplaceIInv DEF Origins

\* and one of a newer release.
LEMMA UpgradeIInv == ASSUME IInv, NEW i \in Ids, Upgrade(i) PROVE IInv'
<1>1. PICK s, t : s = Text(<<IF kind = "text" THEN "encb:v2:" ELSE "RYU-CB02">>, "v2") /\ t = token[i]
  OBVIOUS
<1>2. /\ stored' = [stored EXCEPT ![i] = s]
      /\ token' = [token EXCEPT ![i] = t]
      /\ origin' = [origin EXCEPT ![i] = "newer"]
      /\ UNCHANGED <<kind, master, record, written, proc>>
  BY <1>1 DEF Upgrade, IInv, Functions
<1>3. NewerForm(s)
  BY <1>1 DEF NewerForm, Upgrade, IsStore
<1> QED
  BY <1>2, <1>3, DisplaceIInv DEF Origins

-----------------------------------------------------------------------------
(* The theorems. *)

\* The invariant is inductive.
LEMMA NextIInv == IInv /\ [Next]_vars => IInv'
<1> SUFFICES ASSUME IInv, [Next]_vars PROVE IInv'
  OBVIOUS
<1>1. CASE Adopt
  BY <1>1, AdoptIInv
<1>2. ASSUME NEW p \in Procs, NEW how \in {"host", "child", "stray", "broken", "env", "none"},
             Start(p, how)
      PROVE IInv'
  BY <1>2, StartIInv
<1>3. ASSUME NEW p \in Procs, Stop(p) PROVE IInv'
  BY <1>3, StopIInv
<1>4. ASSUME NEW p \in Procs, WriteBack(p) PROVE IInv'
  BY <1>4, WriteBackIInv
<1>5. ASSUME NEW p \in Procs, Migrate(p) PROVE IInv'
  BY <1>5, MigrateIInv
<1>6. ASSUME NEW p \in Procs, NEW i \in Ids, ReadToWrite(p, i) PROVE IInv'
  BY <1>6, ReadToWriteIInv
<1>7. ASSUME NEW p \in Procs, NEW i \in Ids, NEW v \in Inputs[kind], Write(p, i, v) PROVE IInv'
  BY <1>7, WriteIInv
<1>8. ASSUME NEW i \in Ids, NEW j \in Ids, Misplace(i, j) PROVE IInv'
  BY <1>8, MisplaceIInv
<1>9. ASSUME NEW i \in Ids, NEW mark \in Schemes, Confuse(i, mark) PROVE IInv'
  BY <1>9, ConfuseIInv
<1>10. ASSUME NEW i \in Ids, Upgrade(i) PROVE IInv'
  BY <1>10, UpgradeIInv
<1>11. CASE UNCHANGED vars
  <2>1. UNCHANGED <<kind, master, record, stored, token, written, origin, proc>>
    BY <1>11 DEF vars
  <2>2. TypeOK' /\ Grows
    BY <2>1, TypesOfRecords DEF IInv, TypeOK
  <2>3. Functions'
    BY <2>1 DEF IInv, Functions
  <2>4. ASSUME NEW i \in Ids PROVE StoredOK(i)' /\ TokenOK(i)'
    BY <2>1, <2>2, RecordKept DEF IInv
  <2>5. ASSUME NEW q \in Procs PROVE ProcOK(q)' /\ ReadOK(q)'
    BY <2>1, <2>2, ProcKept DEF IInv
  <2> QED
    BY <2>2, <2>3, <2>4, <2>5 DEF IInv
<1> QED
  BY <1>1, <1>2, <1>3, <1>4, <1>5, <1>6, <1>7, <1>8, <1>9, <1>10, <1>11 DEF Next

\* The invariant holds, for every instance that satisfies ValuesAssumption: every
\* stored record has a form its origin allows, every token its value, and what a
\* process read to write back is a value (content.rs, sealed.rs, blind_index.rs).
THEOREM InvariantHolds == Spec => []IInv
<1> QED
  BY InitIInv, NextIInv, PTL DEF Spec

\* What is read of a record is what was last written to it or an error: the
\* compat escape, the prefixes and the bindings of the ciphers tell every other
\* text apart (store_seal.rs:75-170, sealed.rs:76-130).
THEOREM OwnIsRead == Spec => []ReadsOnlyItsOwn
<1> QED
  BY InvariantHolds, OwnReads, PTL

\* Who holds the current key and all before it reads every record, but for the
\* exceptions it names (content.rs:420-470, sealed.rs:100-160).
THEOREM AllStaysReadable == Spec => []StaysReadable
<1> QED
  BY InvariantHolds, Readable, PTL

\* The blind index finds exactly the records whose value is the one sought, among
\* those of the process's own key (blind_index.rs:63-80).
THEOREM LookupsAlwaysAgree == Spec => []LookupsAgree
<1> QED
  BY InvariantHolds, LookupsAreRight, PTL

\* Sealing again stops where everything is under the current key (content.rs:470-505).
THEOREM AgainIsExact == Spec => []AgainUntilCurrent
<1> QED
  BY InvariantHolds, AgainIsRight, PTL

\* What a step leaves sealed, by the invariant: a write back by a process that
\* seals, a migration that keeps or seals, a write without a key only by a store
\* that was opened before it was sealed.
LEMMA StepKeepsSealed ==
  ASSUME IInv, [Next]_vars, NEW i \in Ids, IsSealed(stored[i]), ~IsSealed(stored'[i])
  PROVE \/ origin'[i] = "newer"
        \/ stored'[i] = Empty
        \/ \E p \in Procs : proc[p].mode = "compat" /\ proc[p].saw = <<>>
<1>0. TypeOK /\ stored = [j \in Ids |-> stored[j]] /\ origin = [j \in Ids |-> origin[j]]
  BY DEF IInv, Functions
<1>1. ASSUME stored' = stored PROVE FALSE
  BY <1>1
<1>2. ASSUME NEW p \in Procs, WriteBack(p)
      PROVE stored'[i] = Empty \/ \E q \in Procs : proc[q].mode = "compat" /\ proc[q].saw = <<>>
  <2>1. PICK j, v, s : /\ j = proc[p].read.id /\ v = proc[p].read.value
                       /\ s = SealedBy(p, j, v).value
    OBVIOUS
  <2>2. stored' = [stored EXCEPT ![j] = s] /\ proc[p].read # Null
    BY <1>2, <2>1 DEF WriteBack
  <2>3. SealsTo(p, j, v, s)
    BY <2>1, <2>2, WritesBack, Sealing DEF IInv, ReadOK
  <2>4. j = i /\ stored'[i] = s
    BY <1>0, <2>2
  <2>5. proc[p].mode = "compat" => proc[p].saw = <<>>
    BY DEF IInv, ProcOK
  <2> QED
    BY <2>3, <2>4, <2>5 DEF SealsTo
<1>3. ASSUME NEW p \in Procs, Migrate(p) PROVE FALSE
  <2>1. /\ IsStore /\ proc[p].mode = "sealing" /\ stored'[i] = Resealed(p, i)
        /\ kind \in {"text", "blob"}
    BY <1>3 DEF Migrate, Resealed, IsStore
  <2>2. PICK s : s = Resealed(p, i)
    OBVIOUS
  <2>3. s = stored[i] \/ \E key, aad, v, mark : s = Envelope(mark, key, aad, v)
    <3>1. CASE kind = "text"
      BY <2>2, <3>1 DEF Resealed, ResealedText, SealText
    <3>2. CASE kind = "blob"
      <4>1. PICK o : o = OpenBytes(Cipher(p), stored[i], Context(i))
        OBVIOUS
      <4>2. PICK z : z = SealBytes(Cipher(p), o.value, Context(i))
        OBVIOUS
      <4>3. s = IF o.ok /\ o.again /\ z.ok THEN z.value ELSE stored[i]
        BY <2>2, <3>2, <4>1, <4>2 DEF Resealed, ResealedBytes
      <4>4. z.ok => z = Ok(Envelope(ContentMagic, Cipher(p).key, Aad(Cipher(p), Context(i)), o.value), FALSE)
        BY <4>2, Results, Zenon DEF SealBytes
      <4>5. z.ok => z.value = Envelope(ContentMagic, Cipher(p).key, Aad(Cipher(p), Context(i)), o.value)
        BY <4>4 DEF Ok
      <4> QED
        BY <4>3, <4>5
    <3> QED
      BY <2>1, <3>1, <3>2
  <2>4. IsSealed(s)
    BY <2>3 DEF Envelope, IsSealed
  <2> QED
    BY <2>1, <2>2, <2>4
<1>4. ASSUME NEW p \in Procs, NEW j \in Ids, NEW v \in Inputs[kind], Write(p, j, v)
      PROVE stored'[i] = Empty \/ \E q \in Procs : proc[q].mode = "compat" /\ proc[q].saw = <<>>
  <2>1. PICK s : s = SealedBy(p, j, v).value
    OBVIOUS
  <2>2. stored' = [stored EXCEPT ![j] = s]
    BY <1>4, <2>1 DEF Write
  <2>3. SealsTo(p, j, v, s)
    BY <1>0, <1>4, <2>1, Sealing, InputIsValue DEF IInv, Write
  <2>4. j = i /\ stored'[i] = s
    BY <1>0, <2>2
  <2>5. proc[p].mode = "compat" => proc[p].saw = <<>>
    BY DEF IInv, ProcOK
  <2> QED
    BY <2>3, <2>4, <2>5 DEF SealsTo
<1>5. ASSUME NEW j \in Ids, NEW k \in Ids, Misplace(j, k) PROVE FALSE
  BY <1>0, <1>5 DEF Misplace
<1>6. ASSUME NEW j \in Ids, NEW mark \in Schemes, Confuse(j, mark) PROVE FALSE
  <2>1. PICK s : s = Envelope(mark, Root(master), <<>>, Old)
    OBVIOUS
  <2>2. IsSealed(s)
    BY <2>1 DEF Envelope, IsSealed
  <2>3. stored' = [stored EXCEPT ![j] = s]
    BY <1>6, <2>1 DEF Confuse
  <2> QED
    BY <1>0, <2>2, <2>3
<1>7. ASSUME NEW j \in Ids, Upgrade(j) PROVE origin'[i] = "newer"
  BY <1>0, <1>7 DEF Upgrade
<1>8. ASSUME NEW p \in Procs, NEW how, Start(p, how) PROVE FALSE
  BY <1>1, <1>8 DEF Start
<1>9. ASSUME NEW p \in Procs, Stop(p) PROVE FALSE
  BY <1>1, <1>9 DEF Stop
<1>10. ASSUME NEW p \in Procs, NEW j \in Ids, ReadToWrite(p, j) PROVE FALSE
  BY <1>1, <1>10 DEF ReadToWrite
<1>11. CASE Adopt
  BY <1>1, <1>11 DEF Adopt
<1>12. CASE UNCHANGED vars
  BY <1>1, <1>12 DEF vars
<1> QED
  BY <1>2, <1>3, <1>4, <1>5, <1>6, <1>7, <1>8, <1>9, <1>10, <1>11, <1>12 DEF Next

\* A sealed record never becomes plaintext again, but for one that is emptied, and
\* by a store that was opened before it was ever sealed (store_seal.rs:69-90).
THEOREM SealingIsKept == Spec => SealedStaysSealed
<1>1. IInv /\ [Next]_vars =>
        [\A i \in Ids :
           IsSealed(stored[i]) /\ ~IsSealed(stored'[i]) =>
             \/ origin'[i] = "newer"
             \/ stored'[i] = Empty
             \/ \E p \in Procs : proc[p].mode = "compat" /\ proc[p].saw = <<>>]_vars
  BY StepKeepsSealed
<1> QED
  BY <1>1, InvariantHolds, PTL DEF Spec, SealedStaysSealed
=============================================================================
