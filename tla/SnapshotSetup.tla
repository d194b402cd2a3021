----------------------------- MODULE SnapshotSetup -----------------------------
(***************************************************************************)
(* How runs of preflight prepare the cluster for volume snapshots          *)
(* (tools/preflight/preflight.go:160-231, 541-715): missing CRDs are       *)
(* installed, then a VolumeSnapshotClass whose driver is the provisioner   *)
(* of the StorageClass is found, or created.  CRDs and classes belong to   *)
(* the whole cluster, and no cleanup deletes them, so that several runs,   *)
(* each repeated any number of times, meet what the others have left.      *)
(*                                                                         *)
(* Each API call is a step.  A CRD that is stored is not yet served.       *)
(***************************************************************************)
EXTENDS Naturals

CONSTANTS
  Slot,          \* runs that can be under way at the same time
  ClassCount,    \* how many names VolumeSnapshotClasses have
  Driver,        \* CSI drivers
  NoDriver,      \* the class does not exist
  Provisioner,   \* of the StorageClass that the runs of a slot are given
  OwnVersions,   \* served by the CRDs this program installs
  CrdStates,     \* what the CRDs may serve at the start
  Asks,          \* values of --volume-snapshot-class, NoClass if absent
  MaxFaults      \* bound: calls that fail and runs that are killed

Version == {"v1", "v1beta1"}

\* Names of classes, numbered in the order in which LIST returns them.
Class == 1 .. ClassCount
NoClass == 0

\* VolumeSnapshotCRDs, in the order of the loop.
CrdCount == 3
Crds == 1 .. CrdCount
ClassCrd == 1

ASSUME SetupAssumption ==
  /\ ClassCount \in Nat
  /\ NoDriver \notin Driver
  /\ Provisioner \in [Slot -> Driver]
  /\ OwnVersions \in (SUBSET Version) \ {{}}
  /\ CrdStates \subseteq [Crds -> SUBSET Version]
  /\ Asks \subseteq Class \cup {NoClass}
  /\ MaxFaults \in Nat

VARIABLES
  versions,     \* what each CRD is to serve; {} if there is no such CRD
  established,  \* CRDs that are served
  driverOf,     \* the driver of each class that exists
  marked,       \* classes annotated as default
  \* Of each run:
  pc,           \* the call it makes next
  ci,           \* position in VolumeSnapshotCRDs
  errs,         \* CRDs it could not install
  wanted,       \* o.SnapshotClass
  pref,         \* prefVersion
  chosen,       \* storageVolSnapClass
  crdCheck,     \* verdicts of the two checks
  classCheck,
  faults,       \* things that have gone wrong
  \* History, read by properties only:
  asked,        \* what the user passed
  installed,    \* CRDs this run has installed
  maker,        \* the slot whose run created a class
  sound,        \* at the start all CRDs were there and agreed on v1
  troubled      \* a call of this run has failed in transit

cluster == <<versions, established, driverOf, marked, maker>>
crdVars == <<versions, established>>
classVars == <<driverOf, marked, maker>>
verdicts == <<crdCheck, classCheck>>
history == <<asked, installed, sound, troubled>>
vars == <<versions, established, driverOf, marked, pc, ci, errs, wanted, pref, chosen,
          crdCheck, classCheck, faults, asked, installed, maker, sound, troubled>>

Exists(c) == driverOf[c] # NoDriver
Serves(crd, v) == crd \in established /\ v \in versions[crd]

\* The versions of the group snapshot.storage.k8s.io that discovery reports.
GroupVersions == UNION {versions[crd] : crd \in established}

\* Mutant of Preferred: the oldest version that is served.
PreferredOldest == IF "v1beta1" \in GroupVersions THEN "v1beta1" ELSE "v1"

\* GetServerPreferredVersionForGroup.
Preferred == IF "v1" \in GroupVersions THEN "v1" ELSE "v1beta1"

CrdsAgree == \A crd \in Crds : Serves(crd, "v1")

Init ==
  /\ versions \in CrdStates
  /\ established = {crd \in Crds : versions[crd] # {}}
  /\ driverOf \in [Class -> Driver \cup {NoDriver}]
  /\ versions[ClassCrd] = {} => \A c \in Class : ~Exists(c)
  /\ marked \in SUBSET {c \in Class : Exists(c)}
  /\ pc = [p \in Slot |-> "idle"]
  /\ ci = [p \in Slot |-> 1]
  /\ errs = [p \in Slot |-> FALSE]
  /\ wanted = [p \in Slot |-> NoClass]
  /\ pref = [p \in Slot |-> "v1"]
  /\ chosen = [p \in Slot |-> NoClass]
  /\ crdCheck = [p \in Slot |-> "none"]
  /\ classCheck = [p \in Slot |-> "none"]
  /\ faults = 0
  /\ asked = [p \in Slot |-> NoClass]
  /\ installed = [p \in Slot |-> {}]
  /\ maker = [c \in Class |-> {}]
  /\ sound = [p \in Slot |-> FALSE]
  /\ troubled = [p \in Slot |-> FALSE]

NoFault == UNCHANGED <<faults, troubled>>
Fault(p) ==
  /\ faults < MaxFaults
  /\ faults' = faults + 1
  /\ troubled' = [troubled EXCEPT ![p] = TRUE]

Goto(p, label) == pc' = [pc EXCEPT ![p] = label]

-----------------------------------------------------------------------------
(* The CRDs.                                                               *)

\* A run starts: o.SnapshotClass is what the user passed.
Start(p, ask) ==
  /\ pc[p] \in {"idle", "done"}
  /\ Goto(p, "getCrd")
  /\ ci' = [ci EXCEPT ![p] = 1]
  /\ errs' = [errs EXCEPT ![p] = FALSE]
  /\ wanted' = [wanted EXCEPT ![p] = ask]
  /\ pref' = [pref EXCEPT ![p] = "v1"]
  /\ chosen' = [chosen EXCEPT ![p] = NoClass]
  /\ crdCheck' = [crdCheck EXCEPT ![p] = "none"]
  /\ classCheck' = [classCheck EXCEPT ![p] = "none"]
  /\ asked' = [asked EXCEPT ![p] = ask]
  /\ installed' = [installed EXCEPT ![p] = {}]
  /\ sound' = [sound EXCEPT ![p] = CrdsAgree]
  /\ troubled' = [troubled EXCEPT ![p] = FALSE]
  /\ UNCHANGED <<cluster, faults>>

\* Whatever the verdict on the CRDs, the StorageClass is looked at next.
CrdVerdict(p, ok) ==
  /\ crdCheck' = [crdCheck EXCEPT ![p] = IF ok THEN "ok" ELSE "failed"]
  /\ Goto(p, "storageClass")

\* Mutant of NextCrd: the loop goes round once more.
NextCrdOnceMore(p, ok) ==
  /\ errs' = [errs EXCEPT ![p] = @ \/ ~ok]
  /\ IF ci[p] <= CrdCount
     THEN ci' = [ci EXCEPT ![p] = @ + 1] /\ Goto(p, "getCrd") /\ UNCHANGED crdCheck
     ELSE CrdVerdict(p, ~errs'[p]) /\ UNCHANGED ci

\* `continue', or the end of the loop and the aggregate of its errors.
NextCrd(p, ok) ==
  /\ errs' = [errs EXCEPT ![p] = @ \/ ~ok]
  /\ IF ci[p] < CrdCount
     THEN ci' = [ci EXCEPT ![p] = @ + 1] /\ Goto(p, "getCrd") /\ UNCHANGED crdCheck
     ELSE CrdVerdict(p, ~errs'[p]) /\ UNCHANGED ci

\* The server's version, needed to choose the CRD files, cannot be had.
NoServerVersion(p) ==
  /\ pc[p] = "getCrd"
  /\ ci[p] = 1
  /\ Fault(p)
  /\ CrdVerdict(p, FALSE)
  /\ UNCHANGED <<cluster, ci, errs, wanted, pref, chosen, classCheck, asked, installed, sound>>

GetCrd(p) ==
  /\ pc[p] = "getCrd"
  /\ IF versions[ci[p]] # {}
     THEN NextCrd(p, TRUE)
     ELSE Goto(p, "createCrd") /\ UNCHANGED <<ci, errs, crdCheck>>
  /\ NoFault
  /\ UNCHANGED <<cluster, wanted, pref, chosen, classCheck, asked, installed, sound>>

\* Any error other than NotFound ends the check at once.
GetCrdFails(p) ==
  /\ pc[p] = "getCrd"
  /\ Fault(p)
  /\ CrdVerdict(p, FALSE)
  /\ UNCHANGED <<cluster, ci, errs, wanted, pref, chosen, classCheck, asked, installed, sound>>

\* Mutant of InstallCrd: the user's class is forgotten with any CRD.
InstallCrdForgets(p) ==
  /\ pc[p] = "createCrd"
  /\ versions[ci[p]] = {}
  /\ versions' = [versions EXCEPT ![ci[p]] = OwnVersions]
  /\ installed' = [installed EXCEPT ![p] = @ \cup {ci[p]}]
  /\ wanted' = [wanted EXCEPT ![p] = NoClass]
  /\ NextCrd(p, TRUE)
  /\ NoFault
  /\ UNCHANGED <<established, classVars, pref, chosen, classCheck, asked, sound>>

\* With the CRD of the classes, no class the user may have named can exist.
InstallCrd(p) ==
  /\ pc[p] = "createCrd"
  /\ versions[ci[p]] = {}
  /\ versions' = [versions EXCEPT ![ci[p]] = OwnVersions]
  /\ installed' = [installed EXCEPT ![p] = @ \cup {ci[p]}]
  /\ wanted' = [wanted EXCEPT ![p] = IF ci[p] = ClassCrd THEN NoClass ELSE @]
  /\ NextCrd(p, TRUE)
  /\ NoFault
  /\ UNCHANGED <<established, classVars, pref, chosen, classCheck, asked, sound>>

\* Mutant of InstallCrdFails: the error is logged and not collected.
InstallCrdFailsUnnoticed(p) ==
  /\ pc[p] = "createCrd"
  /\ IF versions[ci[p]] # {}
     THEN NoFault /\ UNCHANGED versions
     ELSE /\ Fault(p)
          /\ versions' \in {versions, [versions EXCEPT ![ci[p]] = OwnVersions]}
  /\ NextCrd(p, TRUE)
  /\ UNCHANGED <<established, classVars, wanted, pref, chosen, classCheck, asked, installed, sound>>

\* Somebody else was faster (AlreadyExists), or the call failed, and perhaps
\* was carried out all the same.  The loop goes on.
InstallCrdFails(p) ==
  /\ pc[p] = "createCrd"
  /\ IF versions[ci[p]] # {}
     THEN NoFault /\ UNCHANGED versions
     ELSE /\ Fault(p)
          /\ versions' \in {versions, [versions EXCEPT ![ci[p]] = OwnVersions]}
  /\ NextCrd(p, FALSE)
  /\ UNCHANGED <<established, classVars, wanted, pref, chosen, classCheck, asked, installed, sound>>

-----------------------------------------------------------------------------
(* The class.                                                              *)

ClassVerdict(p, ok) ==
  /\ classCheck' = [classCheck EXCEPT ![p] = IF ok THEN "ok" ELSE "failed"]
  /\ Goto(p, "done")

\* The StorageClass is there: its provisioner is known from here on.
GetStorageClass(p) ==
  /\ pc[p] = "storageClass"
  /\ Goto(p, "prefer")
  /\ NoFault
  /\ UNCHANGED <<cluster, ci, errs, wanted, pref, chosen, verdicts, asked, installed, sound>>

\* A call on the way to the class fails; what has been chosen stays.
ClassCallFails(p) ==
  /\ pc[p] \in {"storageClass", "prefer", "list", "lookup", "get"}
  /\ Fault(p)
  /\ ClassVerdict(p, FALSE)
  /\ UNCHANGED <<cluster, ci, errs, wanted, pref, chosen, crdCheck, asked, installed, sound>>

\* GetServerPreferredVersionForGroup, then validateStorageSnapshotClass: with
\* a class given, storageVolSnapClass is set before anything is known of it.
Prefer(p) ==
  /\ pc[p] = "prefer"
  /\ IF GroupVersions = {}
     THEN ClassVerdict(p, FALSE) /\ UNCHANGED <<pref, chosen>>
     ELSE /\ pref' = [pref EXCEPT ![p] = Preferred]
          /\ chosen' = [chosen EXCEPT ![p] = wanted[p]]
          /\ Goto(p, IF wanted[p] = NoClass THEN "list" ELSE "lookup")
          /\ UNCHANGED classCheck
  /\ NoFault
  /\ UNCHANGED <<cluster, ci, errs, wanted, crdCheck, asked, installed, sound>>

\* Mutant of Matching: only a default class counts.
MatchingDefaultOnly(p) == {c \in Class : driverOf[c] = Provisioner[p] /\ c \in marked}

\* Classes of the provisioner's driver, and those marked as default.
Matching(p) == {c \in Class : driverOf[c] = Provisioner[p]}
MatchingDefaults(p) == Matching(p) \cap marked

\* Mutant of Pick: the last class of the list, whatever its driver.
PickAnyLast(p) ==
  IF MatchingDefaults(p) # {}
  THEN {c \in MatchingDefaults(p) : \A d \in MatchingDefaults(p) : c <= d}
  ELSE {c \in Class : Exists(c) /\ \A d \in Class : Exists(d) => c >= d}

\* The loop over the list ends at the first default class, or else goes on to
\* the end and takes the last class that fits.
Pick(p) ==
  IF MatchingDefaults(p) # {}
  THEN {c \in MatchingDefaults(p) : \A d \in MatchingDefaults(p) : c <= d}
  ELSE {c \in Matching(p) : \A d \in Matching(p) : c >= d}

\* checkAndCreateSnapshotClassForProvisioner; a kind that is not served at the
\* preferred version of the group cannot be listed.
ListClasses(p) ==
  /\ pc[p] = "list"
  /\ IF ~Serves(ClassCrd, pref[p])
     THEN ClassVerdict(p, FALSE) /\ UNCHANGED chosen
     ELSE IF Matching(p) # {}
     THEN (\E c \in Pick(p) : chosen' = [chosen EXCEPT ![p] = c]) /\ ClassVerdict(p, TRUE)
     ELSE Goto(p, "make") /\ UNCHANGED <<chosen, classCheck>>
  /\ NoFault
  /\ UNCHANGED <<cluster, ci, errs, wanted, pref, crdCheck, asked, installed, sound>>

\* createVolumeSnapshotClass: the name is new, the default annotation not set.
MakeClass(p) ==
  /\ pc[p] = "make"
  /\ \E c \in Class :
       /\ ~Exists(c)
       /\ driverOf' = [driverOf EXCEPT ![c] = Provisioner[p]]
       /\ maker' = [maker EXCEPT ![c] = {p}]
       /\ chosen' = [chosen EXCEPT ![p] = c]
  /\ ClassVerdict(p, TRUE)
  /\ NoFault
  /\ UNCHANGED <<crdVars, marked, ci, errs, wanted, pref, crdCheck, asked, installed, sound>>

\* The class may have been created; the check has failed, its name is lost.
MakeClassFails(p) ==
  /\ pc[p] = "make"
  /\ Fault(p)
  /\ \/ UNCHANGED <<driverOf, maker>>
     \/ \E c \in Class :
          /\ ~Exists(c)
          /\ driverOf' = [driverOf EXCEPT ![c] = Provisioner[p]]
          /\ maker' = [maker EXCEPT ![c] = {p}]
  /\ chosen' = [chosen EXCEPT ![p] = NoClass]
  /\ ClassVerdict(p, FALSE)
  /\ UNCHANGED <<crdVars, marked, ci, errs, wanted, pref, crdCheck, asked, installed, sound>>

\* clusterHasVolumeSnapshotClass asks for the preferred version again ...
LookUp(p) ==
  /\ pc[p] = "lookup"
  /\ pref' = [pref EXCEPT ![p] = Preferred]
  /\ Goto(p, "get")
  /\ NoFault
  /\ UNCHANGED <<cluster, ci, errs, wanted, chosen, verdicts, asked, installed, sound>>

\* ... and then for the class the user has named.
GetClass(p) ==
  /\ pc[p] = "get"
  /\ ClassVerdict(p, Serves(ClassCrd, pref[p]) /\ driverOf[wanted[p]] = Provisioner[p])
  /\ NoFault
  /\ UNCHANGED <<cluster, ci, errs, wanted, pref, chosen, crdCheck, asked, installed, sound>>

\* The process is killed.
Killed(p) ==
  /\ pc[p] \notin {"idle", "done"}
  /\ Fault(p)
  /\ Goto(p, "done")
  /\ UNCHANGED <<cluster, ci, errs, wanted, pref, chosen, verdicts, asked, installed, sound>>

-----------------------------------------------------------------------------
(* Everybody else.  Nobody removes a CRD while runs are under way.         *)

Establish(crd) ==
  /\ versions[crd] # {}
  /\ crd \notin established
  /\ established' = established \cup {crd}
  /\ UNCHANGED <<versions, classVars, pc, ci, errs, wanted, pref, chosen, verdicts, faults, history>>

AdminAdds(c, d) ==
  /\ Serves(ClassCrd, "v1") \/ Serves(ClassCrd, "v1beta1")
  /\ ~Exists(c)
  /\ driverOf' = [driverOf EXCEPT ![c] = d]
  /\ maker' = [maker EXCEPT ![c] = {}]
  /\ UNCHANGED <<crdVars, marked, pc, ci, errs, wanted, pref, chosen, verdicts, faults, history>>

AdminMarks(c) ==
  /\ Exists(c)
  /\ marked' = IF c \in marked THEN marked \ {c} ELSE marked \cup {c}
  /\ UNCHANGED <<crdVars, driverOf, maker, pc, ci, errs, wanted, pref, chosen, verdicts, faults,
                 history>>

AdminDeletes(c) ==
  /\ Exists(c)
  /\ driverOf' = [driverOf EXCEPT ![c] = NoDriver]
  /\ marked' = marked \ {c}
  /\ maker' = [maker EXCEPT ![c] = {}]
  /\ UNCHANGED <<crdVars, pc, ci, errs, wanted, pref, chosen, verdicts, faults, history>>

Setup(p) ==
  \/ \E ask \in Asks : Start(p, ask)
  \/ NoServerVersion(p) \/ GetCrd(p) \/ GetCrdFails(p) \/ InstallCrd(p) \/ InstallCrdFails(p)
  \/ GetStorageClass(p) \/ ClassCallFails(p) \/ Prefer(p)
  \/ ListClasses(p) \/ MakeClass(p) \/ MakeClassFails(p)
  \/ LookUp(p) \/ GetClass(p)
  \/ Killed(p)

Others ==
  \/ \E crd \in Crds : Establish(crd)
  \/ \E c \in Class : \/ \E d \in Driver : AdminAdds(c, d)
                      \/ AdminMarks(c)
                      \/ AdminDeletes(c)

Next == (\E p \in Slot : Setup(p)) \/ Others

Spec == Init /\ [][Next]_vars

-----------------------------------------------------------------------------
(* Properties.                                                             *)

TypeOK ==
  /\ versions \in [Crds -> SUBSET Version]
  /\ established \subseteq {crd \in Crds : versions[crd] # {}}
  /\ driverOf \in [Class -> Driver \cup {NoDriver}]
  /\ marked \subseteq Class
  /\ pc \in [Slot -> {"idle", "getCrd", "createCrd", "storageClass", "prefer", "list", "make",
                      "lookup", "get", "done"}]
  /\ ci \in [Slot -> Crds]
  /\ errs \in [Slot -> BOOLEAN]
  /\ wanted \in [Slot -> Class \cup {NoClass}]
  /\ pref \in [Slot -> Version]
  /\ chosen \in [Slot -> Class \cup {NoClass}]
  /\ crdCheck \in [Slot -> {"none", "ok", "failed"}]
  /\ classCheck \in [Slot -> {"none", "ok", "failed"}]
  /\ faults \in 0 .. MaxFaults
  /\ asked \in [Slot -> Class \cup {NoClass}]
  /\ installed \in [Slot -> SUBSET Crds]
  /\ maker \in [Class -> SUBSET Slot]
  /\ sound \in [Slot -> BOOLEAN]
  /\ troubled \in [Slot -> BOOLEAN]

\* "Preflight check for VolumeSnapshot CRDs is successful" means that all three
\* CRDs are there, though some were installed by others between the look and
\* the CREATE, and though the loop goes on after an error.
CrdCheckMeansInstalled ==
  \A p \in Slot : crdCheck[p] = "ok" => \A crd \in Crds : versions[crd] # {}

\* A run that passes uses the class its user has named, unless the run itself
\* had to install the CRD of the classes.
UserClassKept ==
  \A p \in Slot :
    classCheck[p] = "ok" /\ asked[p] # NoClass => chosen[p] = asked[p] \/ ClassCrd \in installed[p]

\* No pile-up: however often runs are repeated, killed or unsure of the outcome
\* of a CREATE, the generated classes that exist have different slots; one
\* per run that was under way at the same time.
OneClassPerSlot ==
  \A c, d \in Class : Exists(c) /\ Exists(d) /\ maker[c] \cap maker[d] # {} => c = d

\* On a cluster whose three CRDs are served and agree on v1, a run whose calls
\* are answered passes both checks, unless the user named a class; whatever
\* other runs and the administrator do meanwhile.
SoundClusterPasses ==
  \A p \in Slot :
    sound[p] /\ ~troubled[p] =>
      crdCheck[p] # "failed" /\ (classCheck[p] = "failed" => asked[p] # NoClass)

Passes(p) == classCheck[p] # "ok" /\ classCheck'[p] = "ok"

\* When a run settles on a class, the class exists and has the driver of the
\* StorageClass; and if the run could choose, a default class is preferred.
ChosenFits ==
  [][\A p \in Slot :
       Passes(p) =>
         LET c == chosen'[p] IN
           /\ c \in Class /\ driverOf'[c] = Provisioner[p]
           /\ wanted[p] # NoClass \/ p \in maker'[c] \/ c \in marked
                \/ Matching(p) \cap marked = {}]_vars

-----------------------------------------------------------------------------
(* The inductive invariant behind them.                                    *)

\* Where a run is, and what it knows of its class.
PlaceInv ==
  \A p \in Slot :
    /\ classCheck[p] # "none" => pc[p] = "done"
    /\ pc[p] \in {"getCrd", "createCrd"} => crdCheck[p] = "none"
    /\ wanted[p] = asked[p] \/ (wanted[p] = NoClass /\ ClassCrd \in installed[p])
    /\ pc[p] \in {"list", "make"} => wanted[p] = NoClass
    /\ pc[p] \in {"lookup", "get"} => wanted[p] # NoClass /\ chosen[p] = wanted[p]

\* CRDs the loop has passed without error are there.
LoopInv ==
  \A p \in Slot :
    pc[p] \in {"getCrd", "createCrd"} /\ ~errs[p] =>
      \A crd \in Crds : crd < ci[p] => versions[crd] # {}

\* A run about to create a class has none of its slot's beside it.
MakerInv ==
  /\ \A c \in Class : \A p \in maker[c] : driverOf[c] = Provisioner[p]
  /\ \A p \in Slot : pc[p] = "make" => \A c \in Class : p \notin maker[c]

SoundInv ==
  \A p \in Slot :
    sound[p] =>
      /\ CrdsAgree
      /\ pref[p] = "v1"
      /\ ~troubled[p] => pc[p] # "createCrd" /\ ~errs[p]

SetupInv ==
  /\ TypeOK /\ PlaceInv /\ LoopInv /\ MakerInv /\ SoundInv
  /\ CrdCheckMeansInstalled /\ UserClassKept /\ OneClassPerSlot /\ SoundClusterPasses
=============================================================================
