# TLA+ models of cf-plugin-backup

`cf-plugin-backup` is a plugin of the Cloud Foundry CLI. `cf backup-snapshot`
reads the objects of a Cloud Controller through `cf curl` and writes them to
`cf-backup.json`, with one zip file per application under `app-bits/`;
`cf backup-restore` re-creates them on another (or the same, emptied) Cloud
Controller; `cf backup-info` prints what a snapshot holds. This directory holds
TLA+ models of the plugin, the TLC configurations that check them and proofs
checked by TLAPS. Line numbers refer to the sources this directory accompanies.

## Inventory

| Component | Source | State | Operations | Interacts with |
|---|---|---|---|---|
| Restore: quotas, organisations, space quotas, spaces | `cmd/restore.go` | `quotaGuids`, `spaceQuotaGuids`, `spaceGuids` (old GUID to new), `orgGUID`, position in the nested loops | `restoreQuota`, `restoreOrg`, `restoreSpaceQuota`, `restoreSpace`, `getGUIDByQuery`, `getResult` | Cloud Controller through `cf curl`; the backup file |
| Restore: applications, bits, routes | `cmd/restore.go`, `util/app_package.go` | `appGUID`, `boundRoute`, position in the loops | `restoreApp`, `UploadDroplet`, `updateApp`, `createRoute`, `bindRoute`, domain and stack lookups | Cloud Controller through `cf curl` and, for bits, HTTP; `app-bits/` |
| Restore: roles | `cmd/restore.go`, `util/cc_helpers.go` | position in the lists of a place | `restoreUserRole`, `getUserID`, `CreateOrgUserMap` | Cloud Controller |
| Restore: domains, feature flags | `cmd/restore.go` | none | `restoreSharedDomain`, `restorePrivateDomain`, `restoreFlag` | Cloud Controller |
| Restore: security groups | `cmd/restore.go` | reads `spaceGuids` | `restoreSecurityGroup`, `deleteSecurityGroup`, `createSecurityGroup` | Cloud Controller |
| Snapshot | `cmd/snapshot.go`, `util/app_package.go` | the file and the directory | fetch, write, download per application | crawl, file system |
| Crawl | `util/cc_helpers.go` | `jsonRetriveCache`, the queue | `retriveJSONGenericResource`, `getGenericResource` | Cloud Controller |
| Re-linking | `util/cc_helpers.go` | `transformCache` | `transformToResourceModel`, `recreateLinkForEntity` | the backup file |
| Info | `cmd/info.go` | none | prints | backup file |
| Plugin entry | `main.go`, `cmd/root.go`, `util/util.go`, `commands/` | none | scope check, dispatch, `FreakOut` | CLI |

The whole plugin is one sequential process. What is hard in it does not come
from threads but from the length of a restore and from its partner: a restore
is thousands of requests, of which any may be refused, fail, or take effect
with its answer lost; nothing is transactional and nothing is journalled, so
that the only recovery from an interruption is to run the command again over
whatever is there; and the references between the re-created objects go through
maps that one loop fills and a later one reads.

What makes each part correct:

- *quotas to spaces*: a translated GUID is that of a live object of the right
  name in the right place; what the backup does not name is left alone; a
  clean run over anything an earlier run left behind is complete; the delete in
  delete-then-create loses no more than it must;
- *applications and routes*: bits and settings reach the application they were
  saved for and no other; a new application is started after its bits and is
  reachable; nobody else's routes are taken away;
- *roles, domains, flags*: a role is granted to the user of the backup, in the
  place of the backup, and not before the association it depends on; nothing is
  taken away; what a run without a failure is past is there;
- *security groups*: a group is bound to the counterparts of its old spaces;
- *snapshot and crawl*: every object up to the depth of the crawl is there,
  whatever the page size; when others change the Cloud Controller meanwhile, what
  is read does not contradict itself and does not go back in time; a snapshot that
  ends without a failure can be restored, and has the bits or reports them missing;
- *re-linking*: a link that was cut leads to the object it led to, if the file
  has it, in whatever order the keys of the JSON objects are met; the readers
  find what they rely on, and the walk ends.

## Modules

    Restoration                what a restore promises (abstract)
      ^ implemented by
    RestoreOrgs, RestoreApps   the two halves of the loop of restoreFromJSON
    RestoreMembers             domains, flags and roles of the same loops
    RestoreSecurityGroups      its last loop
      extend
    CloudController            the tables of the target (external)

    Snapshot                   the snapshot command, its files, reading them

    Relink                     writing, re-linking and using the file
      extends
    Crawl                      how the snapshot reads a collection of objects

- `CloudController` has no behaviour of its own: tables (functions from GUIDs
  to records), the filters of a query, and the four outcomes of `cf curl`:
  `ok`, `error` (an error document, returned with a nil `err`), `failed` (no
  output, no effect) and `lost` (no output, but the request took effect).
- `RestoreOrgs`: one action per write request of `restoreQuota`, `restoreOrg`,
  `restoreSpaceQuota` and `restoreSpace`, with the lookup that leads to it, and
  one per loop exit. `pc` is the position in `restoreFromJSON`, `todo` the items
  that the loops have not reached (their order in the file is open), `org` and
  `orgGUID` the variables of the outer loop, `quotaGuids`, `spaceQuotaGuids` and
  `spaceGuids` the maps of the code, `NoGuid` its empty string. `Stop` may
  happen at every request: a kill, `FreakOut`, a failing type assertion;
  `Rerun` starts the command again, with the quota option chosen anew.
- `RestoreApps`: the loop over the applications of a space (lines 661-773):
  create, upload, update, then for each route create and bind, then the generated
  route. A route is told from others by host, domain and path. When the host of
  one without a path is taken, the route to update is looked up; a taken route with
  a path is refused with another error code, and is not. Which spaces have a GUID
  is open (`restored`), which is all that the outer loops contribute.
- `RestoreSecurityGroups`: lines 780-806; delete, create with the translated
  spaces, make a default again. Again, which spaces have a GUID is open.
- `RestoreMembers`: shared domains, feature flags, then by organisation the
  three lists of its users, its private domains, and by space the three lists of
  its users (lines 543-557 and 579-643). `place` is the organisation or space
  whose lists are walked, `list` and `left` the position in them, `cur` the user
  between the association with the organisation and the role. Whether the target
  refuses a role to who is not associated (`strict`) is open, because nothing
  under `src/` settles it. A user without a name fails a type assertion (`Panic`).
- `Crawl`: `getGenericResource` with the page loop and the cache below it. Each
  GET is a step, and between two of them others may delete objects (children
  first, as the Cloud Controller demands) and modify them: the document of an
  object is its `edition` when it is read. An answer has the documents of the
  objects in it, and with the last page of a collection they replace what is
  cached for these objects (`CacheListed`). `tree` is the result: the answers by
  the path of URLs and objects that leads to them; `queue`, `cache` and
  `allResources` are the variables of the code. `Listed` gives the objects of a
  collection that exist in their order, `Page` those on one of its pages, each
  with its document.
- `Relink` composes the crawl with the way back: `transformToResourceModel` and
  `recreateLinkForEntity` over the tree the crawl has written, with the recursion
  as a stack (`agenda`), `transformCache` (`known`), the cut links that got an
  object (`linked`), and error documents that were given the entity of a later
  answer (`mended`). The keys of an object are taken in any order, as Go ranges
  over a map. `Use` is the walk that the rest of the snapshot, `backup-info` and
  `backup-restore` have in common, with their type assertions.
- `Snapshot`: the six requests, the file that is truncated and then written (a
  snapshot cut off in between leaves a torn one, and the old backup is lost), one
  zip file per application, and as much of a restore as reads the file. A section
  of the file is there or null.
- `Restoration`: objects of the backup only ever appear, a space after its
  organisation, and a run that ends without a failure leaves all of them there.
- `MC...` modules give the constants of the runs their values; `...Proofs`
  modules hold the theorems.

### Abstractions

A name is a model value; an object of the backup stands for its old GUID.
Limits, rules, memory sizes and other payload that is copied from the file to
the request is left out, except where a property tells it apart (`settings`,
`bits`, `started` of an application; the number of the document of an object
that the crawl reads). A path of a route stands for a path or a port: both make
it another route, and both change the error code when it is taken. A lookup is
one step with the write it leads to: the models assume that nobody else changes
the target during a restore. What the Cloud Controller refuses is modelled as
far as the code depends on it: taken names, a quota in use, unknown GUIDs, a
start without bits, a binding across spaces, a second route at one place. That a
target may also keep a host on a shared domain to the space that uses it is left
out.

## Runs

| Run | Module / cfg | Shows |
|---|---|---|
| `orgs_runs` | `MCRestoreOrgs`, `RestoreOrgs_runs.cfg` | Two runs, two failing requests, interruption: the translation is sound, quota losses are bounded, nothing else is changed; a clean run is complete and assigns the quotas; `Restoration` is implemented; runs end |
| `orgs_twins` | `MCRestoreOrgs`, `RestoreOrgs_twins.cfg` | *Violation*: space quotas of one name in two organisations delete each other |
| `apps_runs` | `MCRestoreApps`, `RestoreApps_runs.cfg` | Two failing requests, or an interruption or failure and a rerun: bits, states, mappings and generated routes are right, new applications are reachable, others' are untouched; `Restoration` is implemented; runs end |
| `apps_mappings` | `MCRestoreApps`, `RestoreApps_mappings.cfg` | *Violation*: one host on two domains loses a mapping |
| `apps_existing` | `MCRestoreApps`, `RestoreApps_existing.cfg` | *Violation*: existing applications are not updated |
| `groups_runs` | `MCRestoreSecurityGroups`, `RestoreSecurityGroups_runs.cfg` | Two runs with two failures: clean runs restore groups and defaults, losses are bounded, strangers' groups stay, runs end |
| `members_runs` | `MCRestoreMembers`, `RestoreMembers_runs.cfg` | Two runs with two failures, on targets that do or do not demand an association: only what the backup says is granted, nothing is taken away, what a clean run is past is there; runs end |
| `relink_file` | `MCRelink`, `Relink_file.cfg` | Three deletions and a modification by others and one failure during the crawl, then every order of the keys while re-linking: the file is complete when undisturbed, its collections agree down to the documents, it never goes back in time, misses no more than was deleted; re-linking never panics, finds every ancestor, and ends in spite of cycles |
| `relink_deleted` | `MCRelink`, `Relink_deleted.cfg` | *Violation*: an organisation deleted during the crawl makes every reader of the file panic |
| `snapshot_runs` | `MCSnapshot`, `Snapshot_runs.cfg` | Two snapshots and restores with two failures: bits are of this snapshot or reported, a clean snapshot can be restored |
| `snapshot_stale` | `MCSnapshot`, `Snapshot_stale.cfg` | *Violation*: bits of an older snapshot beside a newer file |
| `snapshot_empty` | `MCSnapshot`, `Snapshot_empty.cfg` | *Violation*: a list without objects makes the snapshot or the restore panic |

Each interacting component is checked in the composition where its states come
from: the properties of the crawl are invariants of `relink_file`, where the file
it leaves is read, and `Snapshot` reads what it writes. The parts of
`restoreFromJSON` are checked one by one, each with every outcome of the parts
before it (`restored`, any subset of the places or spaces); together their runs
would multiply, and they share nothing else.

What `MissedBounded` bounds does happen: an organisation that nobody touched can
be missing from a snapshot when another is deleted between two pages.

Deadlock is not checked where the command ends and after the last run nothing
is left to do; `Terminates` says that this is the only way to stop. It is checked
in `Snapshot`, where a restore is always possible.

### Bounds

`MaxFaults` bounds the requests that do not succeed, `MaxRuns` the runs
(`RestoreApps` has one budget, `MaxTrouble`, for failing requests and reruns
together). Two faults allow a failure and a failure of what follows from it (a
DELETE refused and a POST lost); two runs with an interruption anywhere allow
every state a first run can leave behind. Two organisations with a space of the
same name each, and a stranger's organisation with a third, are enough to
mistake one for another. Two quotas and two space quotas give the restore one
that is in the target and one that is not. The applications cover a plain one,
one of the same name and route in another space with a second route, which has a
path and a private domain, a docker image and one whose stack is gone, both
without routes (for `apps_mappings`, two that share two routes); the targets
hold one of them and its route, or unused routes only: the host of the plain one
in the other space, and the route with the path, so that its POST is refused. In
`members_runs` two organisations, one with a space, and three users, of whom one
has two accounts and one has none, give every kind of list with one member,
several or none, and a user without a name. Three security groups cover a
default without spaces, a group with two spaces and one with one; all subsets of
the spaces may be missing. The crawl has three organisations in pages of one
object, so that a deletion shifts others across two borders, two of them on one
quota, and two spaces that link back to their organisation, to a depth of three
links, which unfolds that cycle once and leaves cut links to objects that the
reader has met and to ones that it has not. Three deletions are enough to shift
each of the collections that have more than one object, and to delete an
organisation between its listing and the request for its collections: `blue`, which
has none, alone, and `green` after its domain and the application that links to
it. (`red` has spaces; they and what is in them would be more.) The object that
is modified, once, is the domain that two collections list and the application
links to, so that it is read three times, with the modification before, between
or after. Two snapshots are enough for a file and bits of different age.

### Fairness

`FairSpec` adds `WF_vars(Program)`: the process, as long as nobody stops it,
takes its next step. It is one thread without waiting other than for `cf curl`,
which returns. `Stop` and `Rerun` are not fair: nobody has to interrupt a run or
to start another. In `Relink` the fair steps are those of the crawl in which no
request fails, and those of the reading; deletions and modifications are not fair, so that a crawl
does not end merely because something had to fail or to be deleted.

## Findings

- *Space quotas of one name* (`SpaceQuotasRestored`, `cmd/restore.go:296`): the
  lookup asks for the name alone, so that the restore of the second
  organisation's quota deletes the first organisation's, which the same run has
  created. README: "Space Quotas | Optional", "Existing quotas are overwritten
  from the backup (deleted, re-created)".
- *Hosts on two domains* (`RoutesMapped`, `cmd/restore.go:931`): the lookup of a
  taken route asks for the host alone and may find the route on the other
  domain; the update is refused and the mapping is missing. README: "Route
  mappings | Yes". A route with a path or a port that two applications share loses
  a mapping as well, because line 929 looks nothing up unless the host is taken;
  this was read in the code, and is not in the trace of the run.
  `SoleHostRoutesMapped` is what does hold.
- *Existing applications* (`ExistingAppsUpdated`, `cmd/restore.go:221`):
  `restoreApp`, other than `restoreOrg` and `restoreSpace`, does not look up the
  application whose name is taken; there is no GUID to update. README: "Attempts
  to update existing apps from the backup". It also means that a rerun does not
  complete an application whose first answer was lost, which is why
  `NewAppsReachable` and `StateRestored` speak of the applications a run creates.
- *Stale bits* (`NoStaleBits`, `cmd/snapshot.go:111`): zip files are never
  removed, so that a failing download leaves those of an older snapshot.
- *Deleted during the snapshot* (`Readable`, `util/cc_helpers.go:217`): `cf curl`
  succeeds with an error document; of an organisation deleted after it was listed
  it takes the place of the list of spaces, on which `snapshot.go:83` panics after
  the backup has been overwritten, and so does every later reader.
  `ReadableWhenUndisturbed` is what does hold.
- *Null for an empty list* (`NoPanic`, `util/cc_helpers.go:345`): an empty
  collection is written as null, on which the snapshot and the restore panic when
  it is a whole section of the file, although `restore.go:565` tests for it.
  (`backup-info` tests before it reads, and null for a list inside an object is
  skipped.)

## Proofs

The theorems hold for every backup, every admissible target, and every number of
failures, interruptions and runs; those about the crawl for collections, pages
and depths of every size, and any deletions and modifications by others. They
assume what the `ASSUME`s of the modules say: names are unique where the Cloud
Controller demands so, references in the backup lead to objects of the backup,
the old GUIDs of two kinds of objects differ, the target is consistent before
the first run (it has a name once where the Cloud Controller demands so, and one
route at a host, domain and path), the backup has finitely many security groups,
a collection lists an object once, and the single objects on which the readers
rely are less than `relationsDepth` links below the organisations
(`DepthAssumption`: the code asks for five, and the domain of a route is the
fourth). `CloudControllerProofs` has the lemmas on tables and on counting. In
every module `IInv` is the inductive invariant, with one lemma per action and
`NextIInv` to put them together.

| Module | Theorems |
|---|---|
| `RestoreOrgsProofs` | `TypeCorrect`, `TranslationCorrect` (`[]TranslationSound`), `BackupOnlyChanges` (`OnlyTheBackupChanges`), `CleanRunCompletes` (`[]CompleteWhenClean`), `PromiseKept` (`KeepsPromise`), `QuotaLoss` (`[]QuotaLossBounded`), `QuotasAsSaved` (`[]QuotasAssigned`) |
| `RestoreAppsProofs` | `TypeCorrect`, `BitsNeverMixed` (`[]BitsBelong`), `OthersStay` (`OthersUntouched`), `PromiseKept` (`KeepsPromise`), `StateAsSaved` (`[]StateRestored`), `AppsReachable` (`[]NewAppsReachable`), `GeneratedIsLastResort` (`[]GeneratedRouteAlone`), `RoutesRestored` (`[]SoleHostRoutesMapped`) |
| `RestoreSecurityGroupsProofs` | `TypeCorrect`, `CleanRunRestores` (`[]GroupsRestored`), `OthersStay` (`OthersUntouched`), `GroupLoss` (`[]GroupLossBounded`) |
| `RestoreMembersProofs` | `TypeCorrect`, `CleanRunRestores` (`[]RestoredSoFar`), `OnlyTheBackupGrants` (`OnlyTheBackupGranted`) |
| `CrawlProofs` | `TypeCorrect`, `TwinsAlwaysAgree` (`[]TwinsAgree`), `NeverGoesBack` (`NeverBehind`), `FewMissed` (`[]MissedBounded`), `FindsEverything` (`[]Complete`) |
| `RelinkProofs` | `CrawlImplemented` (`RelinkSpec => Spec`), `RelinkTypeCorrect` (`[]RelinkTypeOK`), `NeverConfused` (`[]Unconfused`), `AncestorsAlwaysLinked` (`[]AncestorsLinked`), `UndisturbedIsReadable` (`[]ReadableWhenUndisturbed`) |
| `SnapshotProofs` | `TypeCorrect`, `BitsSavedOrReported` (`[]BitsOrReported`), `CleanSnapshotRestores` (`[]RestorableWhenClean`) |

*`RestoreOrgs`.* `TranslationSound` alone is not inductive. A new GUID must differ
from every live one, or a POST would overwrite a record that a map points to
(`GuidsBelowNext`). A space found by name in `orgGUID` is only in the right
organisation if organisations stay and the space's is alive (`Nested`).
`DeleteOldSpaceQuota` may hit the GUID in `spaceQuotaGuids` only of a quota of
the same name, and the only one of that name that is not excluded is the one
being restored, which has no translation yet because no loop has reached it
(`Untranslated`). What a loop stores under `cur` is of the organisation `org`, and
spaces are only restored when `orgGUID` is set (`Placed`).

*A clean run completes.* `CInv` adds what a run without a failure has achieved:
the default quota is only missing in the step before it is re-created
(`DefaultThere`), so that an organisation can always be created; the space quotas
of the current organisation outlive the loop over its spaces, because a lookup by
name does not find them again (`QuotasOfOrg`), so that no space is refused;
nothing in an organisation is reached before it (`Ahead`); and what the loops are
past is there (`OrgsDone`, `SpacesDone`).

*The refinement.* `present` is the set of the backup's objects whose counterpart
the target has. A POST adds at most the one it is for, because names are unique
in the backup and a new organisation has no spaces (`OneOrgAtATime`,
`OneSpaceAtATime`); nothing else adds, removes, renames or moves one
(`NoneInBetween`); `Finish` needs `CInv`; the rest stutters. The proof for
applications is the same with one kind of object.

*`RestoreApps`.* The bits of an application are its own because `appGUID`, when it
is set, is that of the application the loop has created in this run
(`AppPlaced`). What was there before the run stays, because what changes has a GUID
handed out in this run, and `OthersUntouched` would also allow the application of
the backup's name and space to be updated while it is restored; because a route
that is updated was looked up by a host of the backup (`RoutePlaced`), has to be at
a place of the backup already or be refused, and is refused when another space
uses it; and because nobody has the host of a generated route before it is created
(`GeneratedHostFree`).

*What a clean run gives an application* (`DInv`). The applications the loop is past
have their state, a route, and the routes they can have (`StateDone`, `BoundDone`,
`MappedDone`); the current one has what its requests so far must have achieved
(`StateNow`, `BoundNow`, `MappedNow`). What is done stays done because a step
removes no route and no mapping, and makes no route available that was not
(`ClearShrinks`): a route of the application that is free to it now was free when
the loop tried it. The lookup by host alone finds the right route because a place
has one route (`RoutesUnique`) and the property asks for no other domain or path at
that host. A route with a path is never looked up, so that it can only be had by
creating it: the property asks that it is new in this run, and as no other
application asks for it, it was this one that created it (`PathRoutesAsked`).

*The quotas a clean run assigns* (`AInv`). A quota the target did not have is free
to be created until the loop reaches it, and has a translation after
(`NewQuotas`). Organisations and spaces keep the quota they were put on, because
the quotas a loop deletes later have another name, or another organisation that the
property excludes (`OrgsAssigned`, `SpacesAssigned`); a space the loops never reach
is in an organisation the target does not have (`NotReached`).

*`RestoreSecurityGroups`.* The invariant is that the target uses a name once, that
the defaults are groups that exist, and, as long as nothing failed, that the groups
the loop is past are there with their spaces and defaults and that the current one
is a default only where it has been made one (`CurrentDone`).

*`RestoreMembers`.* The lists the loops are past must not be undone by later ones:
an association made late would oblige the run to a role it was refused. Nobody is
associated with an organisation once one of its spaces has been restored, because
the spaces come after the lists of the organisation (`SpacesAhead`).

*What a cut off run loses* (`LossInv` in both modules). Take what the run found and
the target no longer has, without the one being replaced. The number of these is at
most that of the requests that failed, and one more once the run was stopped: a
DELETE that succeeds makes its quota the one being replaced, the POST ends that
whatever it answers, and only a failed one leaves a loss behind. A group with a
space that was not restored can never be created again, so these are counted apart.

*`Snapshot`.* Without a failure every section fetched so far that has objects is
saved, the file is that of this snapshot before bits are saved, and of the
applications the loop is past the bits are there or reported.

*`Crawl`, disturbed* (`IInv`). A node of the tree that is a collection has the
answer of the cache and keeps it, because no answer for a collection is ever
replaced; that of an object is replaced whenever the object is listed, and the node
keeps the document it was read with (`Coherent`). That a node is an error document
and the cache is not can only come of a failing request, for an object that is
listed later was not deleted. What
deletions make the crawl miss is counted page by page (`MissedSoFar`): of the
objects that were on the pages read so far, were they listed now, no more are
missing than have been deleted from the collection. A page is an interval of the
positions that `UpTo` counts, and a deletion moves at most one object across its
border (`OnPagesWithout`), while it makes the count of the deleted grow by one.

*`Crawl`, how old it is* (`Dated`). A document of the cache is at least as new as
every document of that object in the tree, because each list that is read replaces
the cached document with the one on its page (`CacheListed`), and nothing is newer
than the object itself. It takes the documents of the pages read so far into
account as well: the cache has nothing newer for their objects, since no other list
is read meanwhile, and the edition of an object only grows. A link is answered from
the cache or by the object itself, so that what it leads to is at least as new.

*`Crawl`, undisturbed* (`CInv`). The depth of an item of the queue is the number of
links on its path (`Levelled`); what is in the tree is in the unfolding at that
level (`Within`). For the other inclusion each node of the tree above the depth
has its turn (`Underway`): it, or the element of it, waits in the queue, or it is
being visited, and its links are answered or among those left. When the crawl is
done nobody waits, so the unfolding is in the tree, level by level
(`CompleteAtEnd`).

*`Relink`.* Reading never looks at what it has linked, so the proof follows the tree.
The crawl leaves one (`Grown`): with every path the whole way to it, each step from
a list to an element or along a link of an object (`GoesOn`). `RInv` then has the
stack in order: the objects above an item have been remembered when their links are
walked (`MetUpTo`), and every cut link back to an object above it is linked, or is
covered by an item of the stack: the one for its object, for an object above, or
for keys of which one leads there (`BackLinks`, `Covers`). The panic of
`recreateLinkForEntity` needs a list and an error document for one URL, which
`Coherent` excludes. `UndisturbedIsReadable` goes down the levels: what the readers
visit on level `d` are nodes of the file on that level, their links are answered
as long as `d` is less than the depth, and on the last they look for collections
only. It is stated for a Cloud Controller with an organisation; without one the
reading panics (`NoPanic`).

What holds for every level is proved by the least level for which it would not
(`Least`), and that `Unfolding`, `Wanted` and `Visited` satisfy their equations
from `Iteration`.

Only model-checked: liveness (`Terminates`, `ReadingEnds`), which is out of the
prover's reach. Every other property of the passing runs has its theorem. The
properties of the violation runs are refuted there.

## Not modelled

- The plugin's entry (`main.go`, `cmd/root.go`, `commands/`, `util/util.go`): it
  checks the scope of the token, sets the connection and dispatches, once, with no
  state that outlives a call. `FreakOut` is the action `Stop` of the models; the
  panic that `main.go:36` recovers is the end `panicked` of `Relink` and
  `RestoreMembers`.
- Terminal output, logging, and what `backup-info` prints. Its walk over the file,
  with its type assertions, is in `Relink`.
- Payload that is copied unread: limits, rules, environment, sizes, and the message
  of a feature flag, which is saved and never sent.
- Whether the exit status tells a run that broke off from one that ended: no code
  of the repository reads it.
- Changes that others make to the target during a restore: the code looks up and
  writes in two requests, but nothing in it, or in its documentation, is meant to
  cope with them.
- Objects that others add during a snapshot: they come last in a collection, so
  that they are in it or not.
- What a modification by others does to the links of an object during a snapshot: its
  document changes, the URLs in it stay (those of its collections cannot change; that
  an application is moved to another stack, or an organisation to another quota, is
  left out). An object that is modified between two requests may be in the file with
  different contents at different places: no property forbids it, because the reader
  links by URL and compares no contents; `TwinsAgree` and `NeverBehind` say what does
  hold.
- Hazards without a property. Some of the hazards listed in `PROJECT.json` are in the
  models, but no property forbids what they lead to, because the code promises
  nothing to the contrary: a quota in use that is not replaced (`QuotasAssigned`
  leaves it out), an error document instead of a whole section, the backup that is
  lost when a snapshot is cut off while it writes the file, a space role refused to
  who is not associated with the organisation, and two accounts of one name.
- Security groups as a tree: `Relink` carries the organisations. That a group's
  list of spaces may be an error document is listed as a hazard without a property.
- Vendored libraries. Of the CLI connection only the outcomes of `cf curl` are
  modelled, as external.
