--------------------------- MODULE MCFieldMapping ---------------------------
(***************************************************************************)
(* Instances of BatchStages, and in it FieldMapping, for TLC, and what the *)
(* README says of them.                                                    *)
(***************************************************************************)
EXTENDS BatchStages

CONSTANTS v, w, json

Sources == <<"id", "src", "Name", "mail", "Id">>
Targets == <<"ID", "name", "mail">>
Lowered == [f \in {"id", "src", "Name", "mail", "Id", "ID", "name"} |->
              CASE f \in {"Id", "ID"} -> "id" [] f = "Name" -> "name" [] OTHER -> f]

Entry(s, t, d, q, x) ==
  [source |-> s, target |-> t, default |-> d, required |-> q, transform |-> x]

\* Up to two explicit mappings.
ExplicitMappings == {Entry("src", "name", Nil, FALSE, x) : x \in {"none", "works", "fails"}}
           \cup {Entry("mail", "mail", d, q, "none") : d \in {Nil, w}, q \in BOOLEAN}
           \cup {Entry("src", "mail", Nil, TRUE, "none"), Entry("ID", "mail", Nil, FALSE, "none")}
Explicits == {<<>>} \cup {<<m>> : m \in ExplicitMappings} \cup {<<m, n>> : m, n \in ExplicitMappings}

DefaultSets == {<<>>, [f \in {"mail"} |-> w]}

\* Fields may be absent, and values may be nil.
Records == {[f \in {"id", "src"} |-> v],
            [f \in {"id", "src", "mail"} |-> IF f = "mail" THEN Nil ELSE v],
            [f \in {"src", "name", "mail"} |-> IF f = "name" THEN w ELSE v],
            [f \in {"id", "src", "Name", "payload"} |->
               CASE f = "payload" -> json [] f = "src" -> v [] OTHER -> w]}

\* Two fields that are renamed to one, and what the payload holds.
Renaming == [f \in {"src", "Name"} |-> "name"]
Payloads == [p \in {json} |-> [f \in {"mail", "id"} |-> v]]

BatchesOfTwo == {<<r, s>> : r, s \in Records}

\* The README: explicit mappings have priority, fields they do not map are
\* mapped to the field of the same name.
ExplicitFirst ==
  outcome = "mapped" =>
    \A n \in DOMAIN result : \A i \in DOMAIN mappings :
      ~Missing(mappings[i], batch[Kept[n]]) /\ Distinct(mappings)
        => result[n][mappings[i].target]
             \in {batch[Kept[n]][mappings[i].source],
                  Transformed(batch[Kept[n]][mappings[i].source])}

\* The README: that a single record cannot be mapped does not affect the batch.
\* A record that needs no other is written as it is mapped by itself.
ErrorsIsolated ==
  stage = "written" /\ transformer = "default" =>
    \A i \in DOMAIN batch :
      LET e == Explicit(batch[i]) IN
        ~e.fatal /\ ~e.errors
          => \E n \in DOMAIN Output : Output[n] = CopyRest(e.data, batch[i])
=============================================================================
