--------------------------- MODULE MCSealedValues ---------------------------
EXTENDS SealedValues, TLC

\* Words, and texts that begin like an envelope, an escape or a magic.
MCInputs == [
  text |-> {Text(<<"encb:v1:">>, "a"), Text(<<"encb:raw:">>, "a"), Text(<<" ", "encb:raw:">>, "a")},
  blob |-> {Text(<<>>, "a"), Text(<<"RYU-CB01">>, "a"), Text(<<"RYU-SF01">>, "a"),
            Text(<<"RYU-CB02">>, "a")},
  field |-> {Text(<<"enc:v1:">>, "a")},
  config |-> {Empty, Text(<<"encc:v1:">>, "a")},
  secret |-> {Text(<<" ">>, "a"), Text(<<"encp:v1:">>, "a")},
  tenant |-> {Text(<<>>, "a")}]

MCKinds == {"text", "blob", "field", "config", "secret", "tenant"}
Symmetry == Permutations(Procs) \cup Permutations(Ids)
=============================================================================
