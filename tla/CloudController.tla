-------------------------- MODULE CloudController --------------------------
(***************************************************************************)
(* The target of a restore: the tables of the Cloud Controller, which is   *)
(* not part of this repository.  A table is a function from the GUIDs of   *)
(* the live entities to their records; GUIDs are handed out once and never *)
(* reused.  Only what cmd/restore.go observes of the v2 API is modelled: a *)
(* POST creates or is refused because the name is taken, a query filters   *)
(* by name (and by organisation), a DELETE removes, a PUT overwrites.      *)
(*                                                                         *)
(* Every request goes through `cf curl`, which gives the plugin one of     *)
(* four outcomes.  The Cloud Controller may answer with the entity, or     *)
(* with an error document (which `cf curl` returns with a nil error), or   *)
(* the command itself may fail with no output - before the request took    *)
(* effect, or after.                                                       *)
(***************************************************************************)
EXTENDS Naturals, Functions

Guids == Nat \ {0}

\* The GUID the plugin holds when it has none: Go's empty string.
NoGuid == 0

Replies == {"ok", "error", "failed", "lost"}

\* The request took effect, whether or not the plugin learns of it.
Applied(reply) == reply \in {"ok", "lost"}

NoCliFailure(reply) == reply \in {"ok", "error"}   \* mutant: the test is inverted

\* The CLI command returned an error to the plugin instead of a document.
CliFailed(reply) == reply \in {"failed", "lost"}

\* t is a table of records in S.
IsTable(t, S) ==
    /\ t = [g \in DOMAIN t |-> t[g]]
    /\ DOMAIN t \subseteq Guids
    /\ \A g \in DOMAIN t : t[g] \in S

Named(table, name) == {g \in DOMAIN table : table[g].name = name}

NamedIn(table, name, org) == {g \in Named(table, name) : table[g].org = org}

\* The table with record r stored under GUID g.
Store(table, g, r) == [h \in DOMAIN table \cup {g} |-> IF h = g THEN r ELSE table[h]]

Drop(table, g) == Restrict(table, DOMAIN table \ {g})

=============================================================================
