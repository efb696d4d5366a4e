----------------------------- MODULE MCSnapshot -----------------------------
(***************************************************************************)
(* Small instances of Snapshot: three applications, one a docker image.    *)
(***************************************************************************)
EXTENDS Snapshot

CONSTANTS web, api, job

MCApps == {web, api, job}

=============================================================================
