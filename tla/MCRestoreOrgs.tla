--------------------------- MODULE MCRestoreOrgs ---------------------------
(***************************************************************************)
(* Small instances of RestoreOrgs: two organisations whose spaces have the *)
(* same name, each with its own quota, and targets that are fresh or       *)
(* already hold some of it and a stranger's organisation.                  *)
(***************************************************************************)
EXTENDS RestoreOrgs

CONSTANTS default, big, red, blue, green, dev, small, other

MCNames == {default, big, red, blue, green, dev, small, other}
MCQuotas == {default, big}
MCOrgs == {[name |-> red, quota |-> default], [name |-> blue, quota |-> big]}
MCSpaces == {[name |-> dev, org |-> red, quota |-> small],
             [name |-> dev, org |-> blue, quota |-> NoName]}
MCSpaceQuotas == {[name |-> small, org |-> red], [name |-> other, org |-> blue]}

\* The organisations have a space quota of the same name.
TwinSpaceQuotas == {[name |-> small, org |-> red], [name |-> small, org |-> blue]}
TwinSpaces == {[name |-> dev, org |-> red, quota |-> small],
               [name |-> dev, org |-> blue, quota |-> small]}

NoRecords == [g \in {} |-> g]

\* An empty Cloud Controller has its default quota.
Fresh == [quotas |-> [g \in {1} |-> [name |-> default]], orgs |-> NoRecords,
          spaceQuotas |-> NoRecords, spaces |-> NoRecords, next |-> 2]

\* One organisation of the backup is there, on a quota of its own, with its
\* space; so is a stranger's with a space of the same name, on a space quota
\* whose name is in the backup.
Used == [quotas |-> [g \in {1, 2, 3} |->
            [name |-> IF g = 1 THEN default ELSE IF g = 2 THEN big ELSE other]],
         orgs |-> [g \in {4, 5} |-> [name |-> IF g = 4 THEN red ELSE green, quota |-> 3]],
         spaceQuotas |-> [g \in {6} |-> [name |-> small, org |-> 5]],
         spaces |-> [g \in {7, 8} |->
            [name |-> dev, org |-> g - 3, quota |-> IF g = 8 THEN 6 ELSE NoGuid]],
         next |-> 9]

FreshTarget == {Fresh}
Targets == {Fresh, Used}

=============================================================================
