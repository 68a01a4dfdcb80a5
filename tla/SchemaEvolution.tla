-------------------------- MODULE SchemaEvolution --------------------------
(***************************************************************************)
(* What the migration runtime promises about the database schema, whoever  *)
(* migrates it and from whichever release: a migration takes effect once,  *)
(* as a whole, never after a later one, and is never undone or replaced.   *)
(***************************************************************************)
EXTENDS Naturals

CONSTANTS Migration, \* migrations by number: the order is that of the ids
          Text,      \* contents a migration file can have
          None

VARIABLE schema      \* the text each migration was applied with, or None

Init == schema \in [Migration -> Text \cup {None}]

Apply(m, text) ==
    /\ schema[m] = None
    /\ \A later \in Migration : later > m => schema[later] = None
    /\ schema' = [schema EXCEPT ![m] = text]

Next == \E m \in Migration, text \in Text : Apply(m, text)

Spec == Init /\ [][Next]_schema

=============================================================================
