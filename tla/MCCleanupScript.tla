---------------------------- MODULE MCCleanupScript ----------------------------
(* A small cluster for CleanupScript: instances with and without finalizers, a    *)
(* manager and the CRD of managers, a second installation, a cronjob and a CRD    *)
(* with an instance that are somebody else's, and two CSVs that the script names  *)
(* in one argument.                                                               *)
EXTENDS CleanupScript

Thing(kind, ns, name, isHeld, isOurs) ==
  [kind |-> kind, ns |-> ns, name |-> name, held |-> isHeld, ours |-> isOurs]
Later == Thing("Backup", "app", "later", TRUE, TRUE)
MCObject ==
  {Thing("Backup", "app", "daily", TRUE, TRUE), Later, Thing("ClusterBackup", NoNs, "all", FALSE, TRUE),
   Thing("crd", NoNs, "Backup", TRUE, TRUE), Thing("crd", NoNs, "ClusterBackup", TRUE, TRUE),
   Thing("crd", NoNs, "triliovaultmanager", TRUE, TRUE),
   Thing("triliovaultmanager", "tvk", "tvm", TRUE, FALSE),
   Thing("crd", NoNs, "stranger", TRUE, FALSE), Thing("stranger", "app", "other", FALSE, FALSE),
   Thing("manager release", "tvk", "tvk", FALSE, TRUE),
   Thing("operator release", "tvk", "tvo", FALSE, TRUE),
   Thing("cronjob", "tvk", "cleaner", FALSE, TRUE),
   Thing("manager release", "old", "tvk", FALSE, TRUE), Thing("cronjob", "old", "report", FALSE, FALSE),
   Thing("subscription", OpenshiftNs, "k8s-triliovault", FALSE, TRUE),
   Thing("clusterserviceversion", OpenshiftNs, "v1", FALSE, TRUE),
   Thing("clusterserviceversion", OpenshiftNs, "v2", FALSE, TRUE)}
MCLate == {Later}
MCArguments ==
  {<<"-n", "-r", "-t", "-c">>, <<"-r", "Backup", "-c", "-n">>, <<"-t">>, <<"-c", "-t", "-r">>,
   <<"-r", "">>, <<"-c", "-h">>, <<"-r", "Backup", "--other">>, <<"-n", "-c">>}
=============================================================================
