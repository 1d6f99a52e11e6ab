------------------------------ MODULE Extract -------------------------------
(***************************************************************************)
(* From a message to facts (extract/base.py).  A language model is asked   *)
(* for a RawFactSet, in which every field is there and may be null; what   *)
(* it answers is a record of values, Missing for null, that may not fit    *)
(* the schema.                                                             *)
(***************************************************************************)
EXTENDS Facts

CONSTANT Schema    \* for each field, the values RawFactSet takes beside null

Parses(raw) ==
    /\ DOMAIN raw \subseteq DOMAIN Schema
    /\ \A name \in DOMAIN raw : raw[name] \in Schema[name] \cup {Missing}

\* Mutant of BuildFacts: what the model left out becomes None, a fact.
BuildFactsAll(raw) == raw

\* A field that was left out stays absent.
BuildFacts(raw) == [name \in {n \in DOMAIN raw : raw[n] # Missing} |-> raw[name]]

\* An answer that does not parse establishes nothing: extract() says that it
\* failed, or lets the ValidationError of the call through (anthropic.py:60).
Extracted(raw) == IF Parses(raw) THEN BuildFacts(raw) ELSE [name \in {} |-> Missing]
=============================================================================
