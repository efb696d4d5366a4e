--------------------------- MODULE SnapshotProofs ---------------------------
(***************************************************************************)
(* Proofs about Snapshot for every set of applications and any number of   *)
(* snapshots and failures: it is type correct, a snapshot that ends has    *)
(* the bits it does not report, and one without a failure can be restored. *)
(***************************************************************************)
EXTENDS Snapshot, TLAPS

----------------------------------------------------------------------------
(* The inductive invariant *)

\* Without a failure the sections fetched so far are saved if they are not
\* empty, and the file is only written when all have been fetched.
SectionsSaved ==
    /\ faults = 0 => \A i \in 1..fetched : Sections[i] \in populated => Sections[i] \in saved
    /\ pc \in {"write", "collect", "bits", "zip", "done"} => fetched = Len(Sections)

\* The file is that of this snapshot before the bits are saved.
FileWritten ==
    pc \in {"collect", "bits", "zip", "done"} => file = [taken |-> runs, sections |-> saved]

\* The bits of the applications the loop is past are saved, or reported, but
\* for the one it is saving.
BitsSoFar ==
    /\ pc \in {"bits", "zip", "done"} =>
        \A a \in Droplets \ appsToBackup :
            zips[a] = runs \/ a \in missing \/ (pc = "zip" /\ a = cur)
    /\ pc = "zip" => cur \in Droplets
    /\ pc = "done" => appsToBackup = {}

\* Nothing is restored while a snapshot is taken.
RestoredAfter == pc \notin Ended => outcome = "none"

IInv ==
    /\ TypeOK /\ runs >= 1
    /\ SectionsSaved
    /\ FileWritten
    /\ BitsSoFar
    /\ RestoredAfter
    /\ RestorableWhenClean

----------------------------------------------------------------------------
(* Lemmas about the helpers *)

\* There are six requests.
LEMMA SectionFacts ==
    /\ Len(Sections) = 6
    /\ SectionNames = {Sections[i] : i \in 1..6}
    /\ SectionNames = {"orgQuotas", "spaceQuotas", "organizations", "sharedDomains",
                       "securityGroups", "featureFlags"}
<1>1. Len(Sections) = 6 /\ DOMAIN Sections = 1..6
  BY DEF Sections
<1>2. /\ Sections[1] = "orgQuotas" /\ Sections[2] = "spaceQuotas"
      /\ Sections[3] = "organizations" /\ Sections[4] = "sharedDomains"
      /\ Sections[5] = "securityGroups" /\ Sections[6] = "featureFlags"
  BY DEF Sections
<1>3. SectionNames = {Sections[i] : i \in 1..6}
  BY <1>1 DEF SectionNames
<1>4. 1..6 = {1, 2, 3, 4, 5, 6}
  OBVIOUS
<1>5. \A x : x \in SectionNames <=>
        x \in {"orgQuotas", "spaceQuotas", "organizations", "sharedDomains",
               "securityGroups", "featureFlags"}
  BY <1>2, <1>3, <1>4
<1> QED BY <1>1, <1>3, <1>5

\* A failure is counted, and there are not more than the bound.
LEMMA FailsFacts ==
    ASSUME faults \in 0..MaxFaults, Fails
    PROVE  faults' \in 0..MaxFaults /\ faults' # 0
BY BoundsAssumption DEF Fails

----------------------------------------------------------------------------
(* The invariant holds initially, and after every step *)

LEMMA InitIInv == Init => IInv
<1> SUFFICES ASSUME Init PROVE IInv
  OBVIOUS
<1>1. TypeOK
  BY SectionFacts, BoundsAssumption DEF Init, TypeOK, Ended
<1>2. SectionsSaved /\ FileWritten /\ BitsSoFar /\ RestoredAfter /\ RestorableWhenClean
  BY DEF Init, SectionsSaved, FileWritten, BitsSoFar, RestoredAfter, RestorableWhenClean
<1> QED BY <1>1, <1>2 DEF Init, IInv

\* A section is saved unless its request fails.
LEMMA FetchKeeps ==
    ASSUME IInv, Fetch
    PROVE  IInv'
<1> USE DEF IInv
<1> DEFINE section == Sections[fetched + 1]
<1>1. /\ pc = "fetch" /\ fetched < 6 /\ fetched' = fetched + 1
      /\ pc' \in {"fetch", "stopped"}
      /\ populated' = populated /\ appsToBackup' = appsToBackup /\ cur' = cur
      /\ file' = file /\ zips' = zips /\ outcome' = outcome /\ runs' = runs
      /\ missing' = missing
  BY SectionFacts DEF Fetch
<1>2. /\ saved \subseteq saved' /\ saved' \subseteq saved \cup {section}
      /\ faults' \in 0..MaxFaults
      /\ faults' = 0 => faults = 0 /\ (section \in populated => section \in saved')
  BY FailsFacts DEF Fetch, TypeOK
<1>3. fetched \in 0..6 /\ section \in SectionNames
  BY <1>1, SectionFacts DEF TypeOK
<1>4. TypeOK'
  BY <1>1, <1>2, <1>3, SectionFacts DEF TypeOK, Ended
<1>5. SectionsSaved'
  <2>1. \A i \in 1..fetched' : i \in 1..fetched \/ i = fetched + 1
    BY <1>1, <1>3
  <2>2. faults' = 0 => \A i \in 1..fetched' : Sections[i] \in populated' => Sections[i] \in saved'
    BY <1>1, <1>2, <2>1 DEF SectionsSaved
  <2> QED BY <1>1, <2>2 DEF SectionsSaved
<1>6. FileWritten' /\ BitsSoFar' /\ RestoredAfter' /\ RestorableWhenClean'
  BY <1>1 DEF FileWritten, BitsSoFar, RestoredAfter, RestorableWhenClean, Ended
<1> QED BY <1>1, <1>4, <1>5, <1>6

\* The file is torn, then complete.
LEMMA WriteKeeps ==
    ASSUME IInv, BeginWrite \/ EndWrite
    PROVE  IInv'
<1> USE DEF IInv
<1>1. CASE BeginWrite
  BY <1>1 DEF BeginWrite, AllFetched, TypeOK, SectionsSaved, FileWritten, BitsSoFar,
     RestoredAfter, RestorableWhenClean, Ended
<1>2. CASE EndWrite
  <2>1. /\ pc = "write" /\ pc' \in {"collect", "stopped"}
        /\ pc' = "collect" => file' = [taken |-> runs, sections |-> saved]
        /\ file' \in {file, [taken |-> runs, sections |-> saved]}
        /\ faults' \in 0..MaxFaults /\ (faults' = 0 => faults = 0)
        /\ populated' = populated /\ fetched' = fetched /\ saved' = saved
        /\ appsToBackup' = appsToBackup /\ cur' = cur /\ zips' = zips
        /\ outcome' = outcome /\ runs' = runs /\ missing' = missing
    BY <1>2, FailsFacts DEF EndWrite, TypeOK
  <2>2. TypeOK'
    BY <2>1 DEF TypeOK, Ended
  <2>3. /\ SectionsSaved' /\ FileWritten' /\ BitsSoFar' /\ RestoredAfter'
        /\ RestorableWhenClean'
    BY <2>1 DEF SectionsSaved, FileWritten, BitsSoFar, RestoredAfter, RestorableWhenClean, Ended
  <2> QED BY <2>1, <2>2, <2>3
<1> QED BY <1>1, <1>2

\* The loop starts with every application that is not a docker image.
LEMMA CollectKeeps ==
    ASSUME IInv, CollectApps
    PROVE  IInv'
<1> USE DEF IInv
<1>1. /\ pc = "collect" /\ pc' \in {"bits", "panicked"}
      /\ pc' = "bits" => appsToBackup' = Droplets
      /\ appsToBackup' \in {appsToBackup, Droplets}
      /\ populated' = populated /\ fetched' = fetched /\ saved' = saved /\ cur' = cur
      /\ file' = file /\ zips' = zips /\ outcome' = outcome /\ runs' = runs
      /\ faults' = faults /\ missing' = missing
  BY DEF CollectApps
<1>2. TypeOK'
  BY <1>1 DEF TypeOK, Ended, Droplets
<1>3. /\ SectionsSaved' /\ FileWritten' /\ BitsSoFar' /\ RestoredAfter' /\ RestorableWhenClean'
  BY <1>1 DEF SectionsSaved, FileWritten, BitsSoFar, RestoredAfter, RestorableWhenClean, Ended
<1> QED BY <1>1, <1>2, <1>3

\* A download tears the zip file, or fails and is reported.
LEMMA DownloadKeeps ==
    ASSUME IInv, NEW a \in Apps, Download(a)
    PROVE  IInv'
<1> USE DEF IInv
<1>1. /\ pc = "bits" /\ a \in appsToBackup /\ appsToBackup' = appsToBackup \ {a}
      /\ populated' = populated /\ fetched' = fetched /\ saved' = saved /\ file' = file
      /\ outcome' = outcome /\ runs' = runs /\ a \in Droplets
      /\ faults' \in 0..MaxFaults /\ (faults' = 0 => faults = 0)
      /\ \/ pc' = "zip" /\ cur' = a /\ zips' = [zips EXCEPT ![a] = Torn] /\ missing' = missing
         \/ pc' = pc /\ cur' = cur /\ zips' = zips /\ missing' = missing \cup {a}
  BY FailsFacts DEF Download, TypeOK, Droplets
<1>2. /\ zips' \in [Apps -> 1..runs \cup {NoFile, Torn}]
      /\ \A b \in Apps : b # a => zips'[b] = zips[b]
  BY <1>1 DEF TypeOK
<1>3. TypeOK'
  BY <1>1, <1>2 DEF TypeOK, Ended, Droplets
<1>4. BitsSoFar'
  <2> SUFFICES ASSUME NEW b \in Droplets \ appsToBackup'
               PROVE  zips'[b] = runs \/ b \in missing' \/ (pc' = "zip" /\ b = cur')
    BY <1>1 DEF BitsSoFar
  <2>1. CASE b = a
    BY <1>1, <2>1
  <2>2. CASE b # a
    BY <1>1, <1>2, <2>2 DEF BitsSoFar, Droplets
  <2> QED BY <2>1, <2>2
<1>5. SectionsSaved' /\ FileWritten' /\ RestoredAfter' /\ RestorableWhenClean'
  BY <1>1 DEF SectionsSaved, FileWritten, RestoredAfter, RestorableWhenClean, Ended
<1> QED BY <1>1, <1>3, <1>4, <1>5

\* The zip file is complete, or the failure is reported.
LEMMA SaveZipKeeps ==
    ASSUME IInv, SaveZip
    PROVE  IInv'
<1> USE DEF IInv
<1>1. /\ pc = "zip" /\ pc' = "bits" /\ cur' = NoFile /\ cur \in Droplets
      /\ populated' = populated /\ fetched' = fetched /\ saved' = saved /\ file' = file
      /\ outcome' = outcome /\ runs' = runs /\ appsToBackup' = appsToBackup
      /\ faults' \in 0..MaxFaults /\ (faults' = 0 => faults = 0)
      /\ \/ zips' = [zips EXCEPT ![cur] = runs] /\ missing' = missing
         \/ zips' = zips /\ missing' = missing \cup {cur}
  BY FailsFacts DEF SaveZip, TypeOK, BitsSoFar
<1>2. /\ zips' \in [Apps -> 1..runs \cup {NoFile, Torn}]
      /\ \A b \in Apps : b # cur => zips'[b] = zips[b]
      /\ zips'[cur] = runs \/ cur \in missing'
  BY <1>1 DEF TypeOK, Droplets
<1>3. TypeOK'
  BY <1>1, <1>2 DEF TypeOK, Ended, Droplets
<1>4. BitsSoFar'
  BY <1>1, <1>2 DEF BitsSoFar, Droplets
<1>5. SectionsSaved' /\ FileWritten' /\ RestoredAfter' /\ RestorableWhenClean'
  BY <1>1 DEF SectionsSaved, FileWritten, RestoredAfter, RestorableWhenClean, Ended
<1> QED BY <1>1, <1>3, <1>4, <1>5

\* The end of a snapshot, and the next one.
LEMMA ControlKeeps ==
    ASSUME IInv, Finish \/ Stop \/ Again
    PROVE  IInv'
<1> USE DEF IInv
<1>1. CASE Finish \/ Stop
  <2>1. /\ \/ pc' = "stopped"
           \/ pc' = "done" /\ pc = "bits" /\ appsToBackup = {}
        /\ pc \notin Ended
        /\ populated' = populated /\ fetched' = fetched /\ saved' = saved /\ cur' = cur
        /\ appsToBackup' = appsToBackup /\ file' = file /\ zips' = zips
        /\ outcome' = outcome /\ runs' = runs /\ faults' = faults /\ missing' = missing
    BY <1>1 DEF Finish, Stop, Ended
  <2>2. TypeOK'
    BY <2>1 DEF TypeOK, Ended
  <2>3. SectionsSaved' /\ FileWritten' /\ BitsSoFar' /\ RestoredAfter'
    BY <2>1 DEF SectionsSaved, FileWritten, BitsSoFar, RestoredAfter, Ended
  <2>4. RestorableWhenClean'
    BY <2>1 DEF RestoredAfter, RestorableWhenClean
  <2> QED BY <2>1, <2>2, <2>3, <2>4
<1>2. CASE Again
  <2>1. /\ runs' = runs + 1 /\ populated' \in Populations
        /\ pc' = "fetch" /\ fetched' = 0 /\ saved' = {} /\ missing' = {}
        /\ appsToBackup' = {} /\ cur' = NoFile /\ outcome' = "none"
        /\ file' = file /\ zips' = zips /\ faults' = faults
    BY <1>2 DEF Again
  <2>2. runs \in Nat /\ 1..runs \subseteq 1..runs' /\ runs' >= 1 /\ runs' \in Nat
    BY <2>1 DEF TypeOK
  <2>3. file' \in [taken : 1..runs', sections : SUBSET SectionNames] \cup {NoFile, Torn}
    BY <2>1, <2>2 DEF TypeOK
  <2>4. zips' \in [Apps -> 1..runs' \cup {NoFile, Torn}]
    BY <2>1, <2>2 DEF TypeOK
  <2>5. TypeOK'
    BY <2>1, <2>2, <2>3, <2>4, SectionFacts DEF TypeOK, Ended
  <2>6. /\ SectionsSaved' /\ FileWritten' /\ BitsSoFar' /\ RestoredAfter'
        /\ RestorableWhenClean'
    BY <2>1 DEF SectionsSaved, FileWritten, BitsSoFar, RestoredAfter, RestorableWhenClean
  <2> QED BY <2>2, <2>5, <2>6
<1> QED BY <1>1, <1>2

\* A restore reads a file that is complete when nothing has failed.
LEMMA RestoreKeeps ==
    ASSUME IInv, NEW groups \in BOOLEAN, NEW quotas \in BOOLEAN, Restore(groups, quotas)
    PROVE  IInv'
<1> USE DEF IInv
<1>1. /\ pc \in Ended /\ outcome' \in {"refused", "restored", "panicked"}
      /\ populated' = populated /\ pc' = pc /\ fetched' = fetched /\ saved' = saved
      /\ appsToBackup' = appsToBackup /\ cur' = cur /\ file' = file /\ zips' = zips
      /\ runs' = runs /\ faults' = faults /\ missing' = missing
  BY DEF Restore
<1>2. TypeOK'
  BY <1>1 DEF TypeOK
<1>3. SectionsSaved' /\ FileWritten' /\ BitsSoFar' /\ RestoredAfter'
  BY <1>1 DEF SectionsSaved, FileWritten, BitsSoFar, RestoredAfter
<1>4. RestorableWhenClean'
  <2> SUFFICES ASSUME pc = "done", faults = 0, populated = SectionNames
               PROVE  outcome' = "restored"
    BY <1>1 DEF RestorableWhenClean
  <2>1. SectionNames \subseteq saved
    BY SectionFacts DEF SectionsSaved
  <2>2. file = [taken |-> runs, sections |-> saved]
    BY DEF FileWritten
  <2>3. file \notin {NoFile, Torn}
    <3>1. file \in [taken : Nat, sections : SUBSET SectionNames]
      BY <2>2 DEF TypeOK
    <3> QED BY <3>1, AppsAssumption
  <2>4. RequiredSections(groups, quotas) \subseteq SectionNames
    BY SectionFacts DEF RequiredSections
  <2>5. file.sections = saved
    BY <2>2
  <2> QED BY <2>1, <2>3, <2>4, <2>5 DEF Restore
<1> QED BY <1>1, <1>2, <1>3, <1>4

LEMMA NextIInv == IInv /\ [Next]_vars => IInv'
<1> SUFFICES ASSUME IInv, [Next]_vars PROVE IInv'
  OBVIOUS
<1>1. CASE Program
  BY <1>1, FetchKeeps, WriteKeeps, CollectKeeps, DownloadKeeps, SaveZipKeeps, ControlKeeps
     DEF Program
<1>2. CASE Stop \/ Again
  BY <1>2, ControlKeeps
<1>3. CASE \E groups, quotas \in BOOLEAN : Restore(groups, quotas)
  BY <1>3, RestoreKeeps
<1>4. CASE UNCHANGED vars
  BY <1>4 DEF vars, IInv, TypeOK, SectionsSaved, FileWritten, BitsSoFar, RestoredAfter,
     RestorableWhenClean
<1> QED BY <1>1, <1>2, <1>3, <1>4 DEF Next

\* The inductive invariant holds in every state.
THEOREM Invariance == Spec => []IInv
BY InitIInv, NextIInv, PTL DEF Spec

\* Every variable of the snapshot keeps its type, wherever it is cut off.
THEOREM TypeCorrect == Spec => []TypeOK
BY Invariance, PTL DEF IInv

\* A snapshot that ends has the bits of every application it does not report
\* as missing (snapshot.go, the loop over appsToBackup).
THEOREM BitsSavedOrReported == Spec => []BitsOrReported
<1>1. IInv => BitsOrReported
  BY DEF IInv, BitsSoFar, BitsOrReported, Droplets
<1> QED BY <1>1, Invariance, PTL

\* Whatever earlier snapshots have left, the file of one without a failure is
\* accepted by a restore with any options.
THEOREM CleanSnapshotRestores == Spec => []RestorableWhenClean
BY Invariance, PTL DEF IInv

=============================================================================
