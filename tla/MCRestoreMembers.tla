-------------------------- MODULE MCRestoreMembers --------------------------
(***************************************************************************)
(* Small instances of RestoreMembers: an organisation with a space and one *)
(* without, users with a role in one of them or in several places, one     *)
(* without an account and one with two; targets that know nobody's role.   *)
(***************************************************************************)
EXTENDS RestoreMembers

CONSTANTS ann, bob, eve, red, blue, dev, com, int, ssh, tasks

MCNames == {ann, bob, eve}
MCAccounts == <<Nameless, bob, ann, bob>>
MCOrgs == {red, blue}
MCSpaces == {dev}
MCOrgOf == [s \in MCSpaces |-> red]
Nobody == [r \in Roles |-> {}]
MCHolders == [p \in MCOrgs \cup MCSpaces |->
    IF p = red THEN [Nobody EXCEPT !["audited_organizations"] = {ann},
                                   !["managed_organizations"] = {ann, eve}]
    ELSE IF p = blue THEN [Nobody EXCEPT !["billing_managed_organizations"] = {ann, Nameless}]
    ELSE [Nobody EXCEPT !["audited_spaces"] = {ann}, !["spaces"] = {ann, bob}]]
MCOwnerOf == [d \in {int} |-> red]
MCFlags == {ssh, tasks}
MCEnabled == [f \in MCFlags |-> f = ssh]

Nothing == [granted |-> {}, owner |-> [d \in {} |-> NoPlace],
            enabled |-> [f \in MCFlags |-> FALSE], strict |-> TRUE]

\* Bob is a member, and the private domain belongs to another organisation.
Used == [Nothing EXCEPT !.granted = {<<orgDev, 2, red>>}, !.owner = [d \in {int} |-> blue],
                        !.enabled = [f \in MCFlags |-> TRUE]]
Targets == {Nothing, [Nothing EXCEPT !.strict = FALSE], Used}

=============================================================================
