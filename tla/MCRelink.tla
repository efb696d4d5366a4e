------------------------------ MODULE MCRelink ------------------------------
(***************************************************************************)
(* A small Cloud Controller: an organisation with two spaces that link     *)
(* back to it, an application in one, two organisations on one quota, and   *)
(* a shared domain, which is on the lists of an organisation and a space,   *)
(* and linked by the application (that is, by its route).                   *)
(***************************************************************************)
EXTENDS Relink

CONSTANTS orgs, red, blue, green, redSpaces, blueSpaces, greenDomains, prodDomains,
          dev, devApps, prod, web, com, quota

MCObjects == {red, blue, green, dev, prod, web, com, quota}
MCCollections == {orgs, redSpaces, blueSpaces, greenDomains, prodDomains, devApps}
MCMembers == [c \in MCCollections |->
    IF c = orgs THEN <<red, blue, green>> ELSE IF c = redSpaces THEN <<dev, prod>>
    ELSE IF c = devApps THEN <<web>> ELSE IF c = blueSpaces THEN <<>> ELSE <<com>>]
MCOwner == [c \in MCCollections \ {orgs} |->
    IF c = redSpaces THEN red ELSE IF c = devApps THEN dev ELSE IF c = blueSpaces THEN blue
    ELSE IF c = greenDomains THEN green ELSE prod]
MCLinks == [o \in MCObjects |->
    IF o = red THEN {redSpaces} ELSE IF o = blue THEN {blueSpaces, quota}
    ELSE IF o = green THEN {quota, greenDomains} ELSE IF o = dev THEN {devApps, red}
    ELSE IF o = prod THEN {red, prodDomains}
    ELSE IF o = web THEN {com} ELSE {}]
MCModified == {com}

\* The spaces of an organisation, the applications of a space, the domain of an
\* application.
MCReads == [o \in MCObjects |->
    IF o = red THEN {redSpaces} ELSE IF o = blue THEN {blueSpaces}
    ELSE IF o = dev THEN {devApps} ELSE IF o = web THEN {com} ELSE {}]

=============================================================================
