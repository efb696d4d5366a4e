---------------------- MODULE MCRestoreSecurityGroups ----------------------
(***************************************************************************)
(* Small instances of RestoreSecurityGroups: a default group, one that is  *)
(* bound to two spaces, one that is both, and targets that are empty or    *)
(* hold them in another form, with a stranger's.                           *)
(***************************************************************************)
EXTENDS RestoreSecurityGroups

CONSTANTS public, dns, mail, stranger, dev, prod

MCNames == {public, dns, mail, stranger}
MCSpaces == {dev, prod}
MCSpaceGuid == [s \in MCSpaces |-> IF s = dev THEN 1 ELSE 2]

MCGroups == {[name |-> public, spaces |-> {}, running |-> TRUE, staging |-> TRUE],
             [name |-> dns, spaces |-> {dev, prod}, running |-> FALSE, staging |-> TRUE],
             [name |-> mail, spaces |-> {prod}, running |-> FALSE, staging |-> FALSE]}

Empty == [groups |-> [x \in {} |-> x], running |-> {}, staging |-> {}, next |-> 3]

Used == [groups |-> [x \in {3, 4, 5} |->
            [name |-> IF x = 3 THEN public ELSE IF x = 4 THEN dns ELSE stranger,
             spaces |-> IF x = 4 THEN {1} ELSE {2}]],
         running |-> {3, 4, 5}, staging |-> {5}, next |-> 6]

Targets == {Empty, Used}

=============================================================================
