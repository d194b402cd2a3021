-------------------------- MODULE MCPreflightCleanup --------------------------
(***************************************************************************)
(* Small clusters for PreflightCleanup.  Every object is a record of its   *)
(* own labels, so that Meta is the identity on Object.                     *)
(***************************************************************************)
EXTENDS PreflightCleanup

MCNamespaces == {"default", "other", "preflight-backup-ns-u1"}
MCUid == {"u1", "u2"}

Thing(kind, ns, trilio, run, backup) ==
  [kind |-> kind, ns |-> ns, trilio |-> trilio, run |-> run, backup |-> backup]

Snapshot    == Thing("VolumeSnapshot", "default", TRUE, "u1", FALSE)
Claim       == Thing("PersistentVolumeClaim", "default", TRUE, "u1", FALSE)
SourcePod   == Thing("Pod", "default", TRUE, "u1", FALSE)
BackupNs    == Thing("Namespace", "preflight-backup-ns-u1", TRUE, "u1", TRUE)
RestorePod  == Thing("Pod", "preflight-backup-ns-u1", TRUE, "u1", FALSE)
OtherRunPod == Thing("Pod", "default", TRUE, "u2", FALSE)
UserClaim   == Thing("PersistentVolumeClaim", "default", FALSE, "none", FALSE)

\* MCMeta is the identity on these sets.
RetrySet  == {Snapshot, Claim, SourcePod}
JustBackupNs == {BackupNs}
\* The run's pod, which may appear at any time, and its backup namespace, and what the
\* command must leave alone: a pod in that namespace, one of another run, a user's claim.
Workloads == {SourcePod, BackupNs, RestorePod, OtherRunPod, UserClaim}
OldWorkloads == {BackupNs, RestorePod, UserClaim}
MCMeta == [o \in Object |-> o]
=============================================================================
