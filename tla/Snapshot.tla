------------------------------ MODULE Snapshot ------------------------------
(***************************************************************************)
(* `cf backup-snapshot` (cmd/snapshot.go) and what it leaves on disk for a *)
(* later `cf backup-restore`: the file cf-backup.json with six sections,   *)
(* and one zip file with the bits of each application.  A snapshot may be  *)
(* taken again in the same directory, by a process that may end anywhere.  *)
(*                                                                         *)
(* A section is null in the file when the Cloud Controller answers its     *)
(* request with an error document, which is not told from success, and     *)
(* when it has no object of that kind.                                     *)
(***************************************************************************)
EXTENDS Naturals, Sequences

CONSTANTS
    Apps,           \* the applications of the Cloud Controller
    Dockers,        \* those among them that are docker images
    NoFile, Torn,   \* no file; a file whose writing was cut off
    MaxRuns,        \* bound: snapshots
    MaxFaults       \* bound: requests and writes that fail

\* The requests, in their order.
Sections == <<"orgQuotas", "spaceQuotas", "organizations", "sharedDomains",
              "securityGroups", "featureFlags">>
SectionNames == {Sections[i] : i \in DOMAIN Sections}

\* A Cloud Controller always has its default quota and its feature flags.
Populations == {p \in SUBSET SectionNames : {"orgQuotas", "featureFlags"} \subseteq p}

ASSUME AppsAssumption ==
    /\ Dockers \subseteq Apps
    /\ NoFile # Torn
    /\ {NoFile, Torn} \cap [taken : Nat, sections : SUBSET SectionNames] = {}
ASSUME BoundsAssumption == MaxRuns \in Nat /\ MaxFaults \in Nat

VARIABLES
    populated,      \* the kinds of objects the Cloud Controller has in this run
    pc, fetched,    \* sections requested so far
    saved,          \* those of them that are not null
    appsToBackup,   \* applications whose bits are still to be saved
    cur,            \* the one being saved
    file,           \* cf-backup.json: the snapshot it is of, its sections
    zips,           \* app-bits: the snapshot each zip file is of
    outcome,        \* of the last restore
    runs, faults,
    missing         \* the applications whose bits this run could not save

vars == <<populated, pc, fetched, saved, appsToBackup, cur, file, zips, outcome,
          runs, faults, missing>>

Ended == {"done", "stopped", "panicked"}

Fails == faults < MaxFaults /\ faults' = faults + 1

Init ==
    /\ populated \in Populations
    /\ pc = "fetch" /\ fetched = 0 /\ saved = {}
    /\ appsToBackup = {} /\ cur = NoFile
    /\ file = NoFile /\ zips = [a \in Apps |-> NoFile]
    /\ outcome = "none"
    /\ runs = 1 /\ faults = 0 /\ missing = {}

----------------------------------------------------------------------------
(* The snapshot command *)

\* A failing command ends the program.  So does an error document in place of
\* the feature flags, which are not read by GetResources; in place of anything
\* else it is a null section.
Fetch ==
    LET section == Sections[fetched + 1]
    IN  /\ pc = "fetch" /\ fetched < Len(Sections)
        /\ \/ /\ saved' = saved \cup ({section} \cap populated)
              /\ UNCHANGED <<pc, faults>>
           \/ section # "featureFlags" /\ Fails /\ UNCHANGED <<pc, saved>>
           \/ Fails /\ pc' = "stopped" /\ UNCHANGED saved
        /\ fetched' = fetched + 1
        /\ UNCHANGED <<populated, appsToBackup, cur, file, zips, outcome, runs, missing>>

FlagsPending == fetched = Len(Sections) - 1   \* mutant: written before the flags
AllFetched == fetched = Len(Sections)

\* ioutil.WriteFile truncates the old file before it writes.
BeginWrite ==
    /\ pc = "fetch" /\ AllFetched
    /\ file' = Torn /\ pc' = "write"
    /\ UNCHANGED <<populated, fetched, saved, appsToBackup, cur, zips, outcome, runs,
                   faults, missing>>

EndWrite ==
    /\ pc = "write"
    /\ \/ /\ file' = [taken |-> runs, sections |-> saved] /\ pc' = "collect"
          /\ UNCHANGED faults
       \/ Fails /\ pc' = "stopped" /\ UNCHANGED file
    /\ UNCHANGED <<populated, fetched, saved, appsToBackup, cur, zips, outcome, runs, missing>>

DockersOnly == Dockers   \* mutant: the test for docker images is inverted
Droplets == Apps \ Dockers

\* The applications are collected from the file that was written: null
\* organisations fail the type assertion of TransformToResourceModels.
CollectApps ==
    /\ pc = "collect"
    /\ \/ /\ "organizations" \in saved
          /\ appsToBackup' = Droplets /\ pc' = "bits"
       \/ /\ "organizations" \notin saved
          /\ pc' = "panicked" /\ UNCHANGED appsToBackup
    /\ UNCHANGED <<populated, fetched, saved, cur, file, zips, outcome, runs, faults, missing>>

\* SaveDroplet: a download that fails leaves the zip file that is there.
Download(a) ==
    /\ pc = "bits" /\ a \in appsToBackup
    /\ appsToBackup' = appsToBackup \ {a}
    /\ \/ /\ pc' = "zip" /\ cur' = a /\ zips' = [zips EXCEPT ![a] = Torn]
          /\ UNCHANGED <<faults, missing>>
       \/ Fails /\ missing' = missing \cup {a} /\ UNCHANGED <<pc, cur, zips>>
    /\ UNCHANGED <<populated, fetched, saved, file, outcome, runs>>

SaveZip ==
    /\ pc = "zip"
    /\ \/ zips' = [zips EXCEPT ![cur] = runs] /\ UNCHANGED <<faults, missing>>
       \/ Fails /\ missing' = missing \cup {cur} /\ UNCHANGED zips
    /\ pc' = "bits" /\ cur' = NoFile
    /\ UNCHANGED <<populated, fetched, saved, appsToBackup, file, outcome, runs>>

Finish ==
    /\ pc = "bits" /\ appsToBackup = {}
    /\ pc' = "done"
    /\ UNCHANGED <<populated, fetched, saved, appsToBackup, cur, file, zips, outcome, runs,
                   faults, missing>>

----------------------------------------------------------------------------
(* The environment *)

Stop ==
    /\ pc \notin Ended
    /\ pc' = "stopped"
    /\ UNCHANGED <<populated, fetched, saved, appsToBackup, cur, file, zips, outcome, runs,
                   faults, missing>>

\* Another snapshot, of a Cloud Controller that may have changed.
Again ==
    /\ pc \in Ended /\ runs < MaxRuns
    /\ runs' = runs + 1 /\ populated' \in Populations
    /\ pc' = "fetch" /\ fetched' = 0 /\ saved' = {} /\ missing' = {}
    /\ appsToBackup' = {} /\ cur' = NoFile /\ outcome' = "none"
    /\ UNCHANGED <<file, zips, faults>>

\* The sections restoreFromJSON reads without asking whether they are null.
\* (Null space quotas are skipped.)
RequiredSections(groups, quotas) ==
    {"sharedDomains", "organizations", "featureFlags"}
        \cup (IF quotas THEN {"orgQuotas"} ELSE {})
        \cup (IF groups THEN {"securityGroups"} ELSE {})

\* A restore, as far as reading the file is concerned.
Restore(groups, quotas) ==
    /\ pc \in Ended
    /\ outcome' = IF file \in {NoFile, Torn} THEN "refused"
                  ELSE IF RequiredSections(groups, quotas) \subseteq file.sections
                  THEN "restored" ELSE "panicked"
    /\ UNCHANGED <<populated, pc, fetched, saved, appsToBackup, cur, file, zips, runs,
                   faults, missing>>

Program ==
    \/ Fetch \/ BeginWrite \/ EndWrite \/ CollectApps
    \/ \E a \in Apps : Download(a)
    \/ SaveZip \/ Finish

Next ==
    \/ Program \/ Stop \/ Again
    \/ \E groups, quotas \in BOOLEAN : Restore(groups, quotas)

Spec == Init /\ [][Next]_vars

\* One sequential process; every request returns.
FairSpec == Spec /\ WF_vars(Program)

----------------------------------------------------------------------------
(* Properties *)

\* Type correctness.
TypeOK ==
    /\ populated \in Populations
    /\ pc \in {"fetch", "write", "collect", "bits", "zip"} \cup Ended
    /\ fetched \in 0..Len(Sections) /\ saved \subseteq SectionNames
    /\ appsToBackup \subseteq Apps \ Dockers /\ missing \subseteq Apps \ Dockers
    /\ cur \in Apps \cup {NoFile} /\ (pc = "zip" => cur \in Apps)
    /\ file \in [taken : 1..runs, sections : SUBSET SectionNames] \cup {NoFile, Torn}
    /\ zips \in [Apps -> 1..runs \cup {NoFile, Torn}]
    /\ outcome \in {"none", "refused", "panicked", "restored"}
    /\ runs \in Nat /\ faults \in 0..MaxFaults

\* A snapshot that ends has the bits of every application that needs them, of
\* this snapshot and not of an earlier one, except those that could not be
\* downloaded or written - whatever earlier snapshots left, and wherever they
\* were cut off.
BitsOrReported ==
    pc = "done" => \A a \in Apps \ Dockers : zips[a] = runs \/ a \in missing

\* A snapshot that ends without a failure, of a Cloud Controller with objects
\* of every kind, can be restored with any options, although the file of an
\* earlier one may have been incomplete or torn.
RestorableWhenClean ==
    pc = "done" /\ faults = 0 /\ populated = SectionNames =>
        outcome \in {"none", "restored"}

\* snapshot.go ends with "App bits saved".  After a snapshot every zip file of
\* an application is of that snapshot.  It is not: when the download fails,
\* the bits of an older snapshot stay, and a restore uploads them.
NoStaleBits ==
    pc = "done" => \A a \in Apps \ Dockers : zips[a] \in {NoFile, Torn, runs}

\* info.go: "No organizations backed up.", restore.go: `if orgs != nil`.  When
\* nothing fails, neither a snapshot nor a restore of it panics, though there
\* be no object of some kind.  They do: the list is written as null, and
\* TransformToResourceModels asserts that it is a list.
NoPanic == faults = 0 => pc # "panicked" /\ outcome # "panicked"

=============================================================================
