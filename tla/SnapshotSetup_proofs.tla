------------------------- MODULE SnapshotSetup_proofs -------------------------
(***************************************************************************)
(* Proofs about the preparation of a cluster for snapshots, for any number *)
(* of concurrent runs, of repetitions, of classes and of faults.           *)
(***************************************************************************)
EXTENDS SnapshotSetup, TLAPS

USE SetupAssumption

LEMMA Numbers ==
  /\ ClassCrd \in Crds /\ 1 \in Crds
  /\ \A i \in Crds : i < CrdCount => i + 1 \in Crds
  /\ NoClass \notin Class
BY DEF Crds, CrdCount, ClassCrd, Class, NoClass

Labels == {"idle", "getCrd", "createCrd", "storageClass", "prefer", "list", "make",
           "lookup", "get", "done"}

(***************************************************************************)
(* Types.                                                                  *)
(***************************************************************************)

LEMMA InitTypeOK == Init => TypeOK
BY Numbers DEF Init, TypeOK, Version, Exists

LEMMA NextCrdType ==
  ASSUME TypeOK, NEW p \in Slot, NEW ok \in BOOLEAN, NextCrd(p, ok)
  PROVE  /\ errs' \in [Slot -> BOOLEAN]
         /\ ci' \in [Slot -> Crds]
         /\ pc' \in [Slot -> Labels]
         /\ crdCheck' \in [Slot -> {"none", "ok", "failed"}]
         /\ errs' = [errs EXCEPT ![p] = @ \/ ~ok]
<1>1. errs' \in [Slot -> BOOLEAN] /\ errs' = [errs EXCEPT ![p] = @ \/ ~ok]
  BY DEF NextCrd, TypeOK
<1>2. ci[p] \in Crds /\ pc \in [Slot -> Labels]
  BY DEF TypeOK, Labels
<1>3. ci' \in [Slot -> Crds]
  BY <1>2, Numbers DEF NextCrd, TypeOK
<1>4. pc' \in [Slot -> Labels] /\ crdCheck' \in [Slot -> {"none", "ok", "failed"}]
  BY <1>2 DEF NextCrd, CrdVerdict, Goto, TypeOK, Labels
<1>5. QED
  BY <1>1, <1>3, <1>4

LEMMA FaultType ==
  ASSUME TypeOK, NEW p \in Slot, Fault(p) \/ NoFault
  PROVE  faults' \in 0 .. MaxFaults /\ troubled' \in [Slot -> BOOLEAN]
<1>1. CASE Fault(p)
  <2>1. faults \in 0 .. MaxFaults /\ faults < MaxFaults /\ faults' = faults + 1
    BY <1>1 DEF Fault, TypeOK
  <2>2. troubled' \in [Slot -> BOOLEAN]
    BY <1>1 DEF Fault, TypeOK
  <2>3. QED
    BY <2>1, <2>2
<1>2. CASE NoFault
  BY <1>2 DEF TypeOK, NoFault
<1>3. QED
  BY <1>1, <1>2

LEMMA PreferredType == ASSUME TypeOK PROVE Preferred \in Version
BY DEF Preferred, Version

LEMMA PickType ==
  ASSUME NEW p, NEW c \in Pick(p)
  PROVE  c \in Class /\ c \in Matching(p)
BY DEF Pick, Matching, MatchingDefaults

LEMMA SetupTypeOK ==
  ASSUME TypeOK, NEW p \in Slot, Setup(p)
  PROVE  TypeOK'
<1>1. CASE \E ask \in Asks : Start(p, ask)
  <2>1. PICK ask \in Asks : Start(p, ask)
    BY <1>1
  <2>2. /\ pc' \in [Slot -> Labels] /\ ci' \in [Slot -> Crds] /\ errs' \in [Slot -> BOOLEAN]
        /\ wanted' \in [Slot -> Class \cup {NoClass}] /\ pref' \in [Slot -> Version]
    BY <2>1, Numbers DEF Start, Goto, TypeOK, Labels, Version
  <2>3. /\ chosen' \in [Slot -> Class \cup {NoClass}] /\ crdCheck' \in [Slot -> {"none", "ok", "failed"}]
        /\ classCheck' \in [Slot -> {"none", "ok", "failed"}] /\ asked' \in [Slot -> Class \cup {NoClass}]
    BY <2>1 DEF Start, TypeOK
  <2>4. /\ installed' \in [Slot -> SUBSET Crds] /\ sound' \in [Slot -> BOOLEAN]
        /\ troubled' \in [Slot -> BOOLEAN]
    BY <2>1 DEF Start, TypeOK, CrdsAgree
  <2>5. QED
    BY <2>1, <2>2, <2>3, <2>4 DEF Start, TypeOK, Labels, cluster
<1>2. CASE NoServerVersion(p)
  <2>1. Fault(p) \/ NoFault
    BY <1>2 DEF NoServerVersion
  <2>2. faults' \in 0 .. MaxFaults /\ troubled' \in [Slot -> BOOLEAN]
    BY <2>1, FaultType
  <2>3. pc' \in [Slot -> Labels] /\ crdCheck' \in [Slot -> {"none", "ok", "failed"}]
    BY <1>2 DEF NoServerVersion, CrdVerdict, Goto, TypeOK, Labels
  <2>4. UNCHANGED <<cluster, ci, errs, wanted, pref, chosen, classCheck, asked, installed, sound>>
    BY <1>2 DEF NoServerVersion
  <2>5. QED
    BY <2>2, <2>3, <2>4 DEF TypeOK, Labels, cluster
<1>3. CASE GetCrd(p)
  <2>1. NextCrd(p, TRUE) \/ NextCrd(p, FALSE) \/ (Goto(p, "createCrd") /\ UNCHANGED <<ci, errs, crdCheck>>)
    BY <1>3 DEF GetCrd
  <2>2. errs' \in [Slot -> BOOLEAN] /\ ci' \in [Slot -> Crds] /\ pc' \in [Slot -> Labels]
         /\ crdCheck' \in [Slot -> {"none", "ok", "failed"}]
    BY <2>1, NextCrdType DEF Goto, TypeOK, Labels
  <2>3. versions' \in [Crds -> SUBSET Version] /\ established' \subseteq {crd \in Crds : versions'[crd] # {}}
    <3>1. UNCHANGED <<versions, established>>
      BY <1>3 DEF GetCrd, cluster
    <3>2. QED
      BY <3>1 DEF TypeOK
  <2>4. (Fault(p) \/ NoFault) /\ UNCHANGED <<driverOf, marked, maker, pref, chosen, classCheck, asked, sound>>
    BY <1>3 DEF GetCrd, cluster, classVars
  <2>5. wanted' \in [Slot -> Class \cup {NoClass}] /\ installed' \in [Slot -> SUBSET Crds]
    BY <1>3, Numbers DEF GetCrd, TypeOK
  <2>6. faults' \in 0 .. MaxFaults /\ troubled' \in [Slot -> BOOLEAN]
    BY <2>4, FaultType
  <2>7. QED
    BY <2>2, <2>3, <2>4, <2>5, <2>6 DEF TypeOK, Labels
<1>4. CASE GetCrdFails(p)
  <2>1. Fault(p) \/ NoFault
    BY <1>4 DEF GetCrdFails
  <2>2. faults' \in 0 .. MaxFaults /\ troubled' \in [Slot -> BOOLEAN]
    BY <2>1, FaultType
  <2>3. pc' \in [Slot -> Labels] /\ crdCheck' \in [Slot -> {"none", "ok", "failed"}]
    BY <1>4 DEF GetCrdFails, CrdVerdict, Goto, TypeOK, Labels
  <2>4. UNCHANGED <<cluster, ci, errs, wanted, pref, chosen, classCheck, asked, installed, sound>>
    BY <1>4 DEF GetCrdFails
  <2>5. QED
    BY <2>2, <2>3, <2>4 DEF TypeOK, Labels, cluster
<1>5. CASE InstallCrd(p)
  <2>1. NextCrd(p, TRUE) \/ NextCrd(p, FALSE) \/ (Goto(p, "createCrd") /\ UNCHANGED <<ci, errs, crdCheck>>)
    BY <1>5 DEF InstallCrd
  <2>2. errs' \in [Slot -> BOOLEAN] /\ ci' \in [Slot -> Crds] /\ pc' \in [Slot -> Labels]
         /\ crdCheck' \in [Slot -> {"none", "ok", "failed"}]
    BY <2>1, NextCrdType DEF Goto, TypeOK, Labels
  <2>3. versions' \in [Crds -> SUBSET Version] /\ established' \subseteq {crd \in Crds : versions'[crd] # {}}
    <3>1. versions \in [Crds -> SUBSET Version] /\ established \subseteq {crd \in Crds : versions[crd] # {}}
      BY DEF TypeOK
    <3>2. OwnVersions \subseteq Version /\ OwnVersions # {}
      BY SetupAssumption DEF SetupAssumption, Version
    <3>3. established' = established /\ versions' \in {versions, [versions EXCEPT ![ci[p]] = OwnVersions]}
      BY <1>5 DEF InstallCrd
    <3>4. QED
      BY <3>1, <3>2, <3>3
  <2>4. (Fault(p) \/ NoFault) /\ UNCHANGED <<driverOf, marked, maker, pref, chosen, classCheck, asked, sound>>
    BY <1>5 DEF InstallCrd, cluster, classVars
  <2>5. wanted' \in [Slot -> Class \cup {NoClass}] /\ installed' \in [Slot -> SUBSET Crds]
    BY <1>5, Numbers DEF InstallCrd, TypeOK
  <2>6. faults' \in 0 .. MaxFaults /\ troubled' \in [Slot -> BOOLEAN]
    BY <2>4, FaultType
  <2>7. QED
    BY <2>2, <2>3, <2>4, <2>5, <2>6 DEF TypeOK, Labels
<1>6. CASE InstallCrdFails(p)
  <2>1. NextCrd(p, TRUE) \/ NextCrd(p, FALSE) \/ (Goto(p, "createCrd") /\ UNCHANGED <<ci, errs, crdCheck>>)
    BY <1>6 DEF InstallCrdFails
  <2>2. errs' \in [Slot -> BOOLEAN] /\ ci' \in [Slot -> Crds] /\ pc' \in [Slot -> Labels]
         /\ crdCheck' \in [Slot -> {"none", "ok", "failed"}]
    BY <2>1, NextCrdType DEF Goto, TypeOK, Labels
  <2>3. versions' \in [Crds -> SUBSET Version] /\ established' \subseteq {crd \in Crds : versions'[crd] # {}}
    <3>1. versions \in [Crds -> SUBSET Version] /\ established \subseteq {crd \in Crds : versions[crd] # {}}
      BY DEF TypeOK
    <3>2. OwnVersions \subseteq Version /\ OwnVersions # {}
      BY SetupAssumption DEF SetupAssumption, Version
    <3>3. established' = established /\ versions' \in {versions, [versions EXCEPT ![ci[p]] = OwnVersions]}
      BY <1>6 DEF InstallCrdFails
    <3>4. QED
      BY <3>1, <3>2, <3>3
  <2>4. (Fault(p) \/ NoFault) /\ UNCHANGED <<driverOf, marked, maker, pref, chosen, classCheck, asked, sound>>
    BY <1>6 DEF InstallCrdFails, cluster, classVars
  <2>5. wanted' \in [Slot -> Class \cup {NoClass}] /\ installed' \in [Slot -> SUBSET Crds]
    BY <1>6, Numbers DEF InstallCrdFails, TypeOK
  <2>6. faults' \in 0 .. MaxFaults /\ troubled' \in [Slot -> BOOLEAN]
    BY <2>4, FaultType
  <2>7. QED
    BY <2>2, <2>3, <2>4, <2>5, <2>6 DEF TypeOK, Labels
<1>7. CASE GetStorageClass(p)
  <2>1. Fault(p) \/ NoFault
    BY <1>7 DEF GetStorageClass
  <2>2. faults' \in 0 .. MaxFaults /\ troubled' \in [Slot -> BOOLEAN]
    BY <2>1, FaultType
  <2>3. QED
    BY <1>7, <2>2, PreferredType DEF GetStorageClass, TypeOK, cluster, verdicts, CrdVerdict,
       ClassVerdict, Goto
<1>8. CASE ClassCallFails(p)
  <2>1. Fault(p) \/ NoFault
    BY <1>8 DEF ClassCallFails
  <2>2. faults' \in 0 .. MaxFaults /\ troubled' \in [Slot -> BOOLEAN]
    BY <2>1, FaultType
  <2>3. QED
    BY <1>8, <2>2, PreferredType DEF ClassCallFails, TypeOK, cluster, verdicts, CrdVerdict,
       ClassVerdict, Goto
<1>9. CASE Prefer(p)
  <2>1. chosen' \in [Slot -> Class \cup {NoClass}]
    <3>1. CASE \E c \in Pick(p) : chosen' = [chosen EXCEPT ![p] = c]
      BY <3>1, PickType DEF TypeOK
    <3>2. CASE chosen' = chosen \/ chosen' = [chosen EXCEPT ![p] = wanted[p]]
      BY <3>2 DEF TypeOK
    <3>3. QED
      BY <1>9, <3>1, <3>2 DEF Prefer
  <2>2. pref' \in [Slot -> Version]
    <3>1. pref' = pref \/ pref' = [pref EXCEPT ![p] = Preferred]
      BY <1>9 DEF Prefer
    <3>2. QED
      BY <3>1, PreferredType DEF TypeOK
  <2>3. pc' \in [Slot -> Labels] /\ classCheck' \in [Slot -> {"none", "ok", "failed"}]
    BY <1>9 DEF Prefer, ClassVerdict, Goto, TypeOK, Labels, verdicts
  <2>4. NoFault /\ UNCHANGED <<cluster, ci, errs, wanted, crdCheck, asked, installed, sound>>
    BY <1>9 DEF Prefer, verdicts
  <2>5. QED
    BY <2>1, <2>2, <2>3, <2>4, FaultType DEF TypeOK, Labels, cluster
<1>10. CASE ListClasses(p)
  <2>1. chosen' \in [Slot -> Class \cup {NoClass}]
    <3>1. CASE \E c \in Pick(p) : chosen' = [chosen EXCEPT ![p] = c]
      BY <3>1, PickType DEF TypeOK
    <3>2. CASE chosen' = chosen \/ chosen' = [chosen EXCEPT ![p] = wanted[p]]
      BY <3>2 DEF TypeOK
    <3>3. QED
      BY <1>10, <3>1, <3>2 DEF ListClasses
  <2>2. pref' \in [Slot -> Version]
    <3>1. pref' = pref \/ pref' = [pref EXCEPT ![p] = Preferred]
      BY <1>10 DEF ListClasses
    <3>2. QED
      BY <3>1, PreferredType DEF TypeOK
  <2>3. pc' \in [Slot -> Labels] /\ classCheck' \in [Slot -> {"none", "ok", "failed"}]
    BY <1>10 DEF ListClasses, ClassVerdict, Goto, TypeOK, Labels, verdicts
  <2>4. NoFault /\ UNCHANGED <<cluster, ci, errs, wanted, crdCheck, asked, installed, sound>>
    BY <1>10 DEF ListClasses, verdicts
  <2>5. QED
    BY <2>1, <2>2, <2>3, <2>4, FaultType DEF TypeOK, Labels, cluster
<1>11. CASE MakeClass(p)
  <2>1. driverOf' \in [Class -> Driver \cup {NoDriver}] /\ maker' \in [Class -> SUBSET Slot]
    BY <1>11 DEF MakeClass, TypeOK
  <2>2. chosen' \in [Slot -> Class \cup {NoClass}]
    BY <1>11 DEF MakeClass, TypeOK
  <2>3. ClassVerdict(p, TRUE) \/ ClassVerdict(p, FALSE)
    BY <1>11 DEF MakeClass
  <2>4. pc' \in [Slot -> Labels] /\ classCheck' \in [Slot -> {"none", "ok", "failed"}]
    BY <2>3 DEF ClassVerdict, Goto, TypeOK, Labels
  <2>5. (Fault(p) \/ NoFault) /\ UNCHANGED <<versions, established, marked, ci, errs, wanted, pref, crdCheck, asked, installed, sound>>
    BY <1>11 DEF MakeClass, crdVars
  <2>6. QED
    BY <2>1, <2>2, <2>4, <2>5, FaultType DEF TypeOK, Labels
<1>12. CASE MakeClassFails(p)
  <2>1. driverOf' \in [Class -> Driver \cup {NoDriver}] /\ maker' \in [Class -> SUBSET Slot]
    BY <1>12 DEF MakeClassFails, TypeOK
  <2>2. chosen' \in [Slot -> Class \cup {NoClass}]
    BY <1>12 DEF MakeClassFails, TypeOK
  <2>3. ClassVerdict(p, TRUE) \/ ClassVerdict(p, FALSE)
    BY <1>12 DEF MakeClassFails
  <2>4. pc' \in [Slot -> Labels] /\ classCheck' \in [Slot -> {"none", "ok", "failed"}]
    BY <2>3 DEF ClassVerdict, Goto, TypeOK, Labels
  <2>5. (Fault(p) \/ NoFault) /\ UNCHANGED <<versions, established, marked, ci, errs, wanted, pref, crdCheck, asked, installed, sound>>
    BY <1>12 DEF MakeClassFails, crdVars
  <2>6. QED
    BY <2>1, <2>2, <2>4, <2>5, FaultType DEF TypeOK, Labels
<1>13. CASE LookUp(p)
  <2>1. chosen' \in [Slot -> Class \cup {NoClass}]
    <3>1. CASE \E c \in Pick(p) : chosen' = [chosen EXCEPT ![p] = c]
      BY <3>1, PickType DEF TypeOK
    <3>2. CASE chosen' = chosen \/ chosen' = [chosen EXCEPT ![p] = wanted[p]]
      BY <3>2 DEF TypeOK
    <3>3. QED
      BY <1>13, <3>1, <3>2 DEF LookUp
  <2>2. pref' \in [Slot -> Version]
    <3>1. pref' = pref \/ pref' = [pref EXCEPT ![p] = Preferred]
      BY <1>13 DEF LookUp
    <3>2. QED
      BY <3>1, PreferredType DEF TypeOK
  <2>3. pc' \in [Slot -> Labels] /\ classCheck' \in [Slot -> {"none", "ok", "failed"}]
    BY <1>13 DEF LookUp, ClassVerdict, Goto, TypeOK, Labels, verdicts
  <2>4. NoFault /\ UNCHANGED <<cluster, ci, errs, wanted, crdCheck, asked, installed, sound>>
    BY <1>13 DEF LookUp, verdicts
  <2>5. QED
    BY <2>1, <2>2, <2>3, <2>4, FaultType DEF TypeOK, Labels, cluster
<1>14. CASE GetClass(p)
  <2>1. Fault(p) \/ NoFault
    BY <1>14 DEF GetClass
  <2>2. faults' \in 0 .. MaxFaults /\ troubled' \in [Slot -> BOOLEAN]
    BY <2>1, FaultType
  <2>3. QED
    BY <1>14, <2>2, PreferredType DEF GetClass, TypeOK, cluster, verdicts, CrdVerdict,
       ClassVerdict, Goto
<1>15. CASE Killed(p)
  <2>1. Fault(p) \/ NoFault
    BY <1>15 DEF Killed
  <2>2. faults' \in 0 .. MaxFaults /\ troubled' \in [Slot -> BOOLEAN]
    BY <2>1, FaultType
  <2>3. QED
    BY <1>15, <2>2, PreferredType DEF Killed, TypeOK, cluster, verdicts, CrdVerdict,
       ClassVerdict, Goto
<1>16. QED
  BY <1>1, <1>2, <1>3, <1>4, <1>5, <1>6, <1>7, <1>8, <1>9, <1>10, <1>11, <1>12, <1>13, <1>14,
     <1>15 DEF Setup

LEMMA OthersTypeOK ==
  ASSUME TypeOK, Others
  PROVE  TypeOK'
<1>1. CASE \E crd \in Crds : Establish(crd)
  BY <1>1 DEF TypeOK, Establish, classVars, verdicts, history
<1>2. CASE \E c \in Class, d \in Driver : AdminAdds(c, d)
  BY <1>2 DEF TypeOK, AdminAdds, crdVars, verdicts, history
<1>3. CASE \E c \in Class : AdminMarks(c)
  BY <1>3 DEF TypeOK, AdminMarks, crdVars, verdicts, history
<1>4. CASE \E c \in Class : AdminDeletes(c)
  BY <1>4 DEF TypeOK, AdminDeletes, crdVars, verdicts, history
<1>5. QED
  BY <1>1, <1>2, <1>3, <1>4 DEF Others

THEOREM SetupTypeCorrect == Spec => []TypeOK
<1>1. TypeOK /\ [Next]_vars => TypeOK'
  <2> SUFFICES ASSUME TypeOK, [Next]_vars PROVE TypeOK'
    OBVIOUS
  <2>1. CASE \E p \in Slot : Setup(p)
    BY <2>1, SetupTypeOK
  <2>2. CASE Others
    BY <2>2, OthersTypeOK
  <2>3. CASE UNCHANGED vars
    BY <2>3 DEF vars, TypeOK
  <2>4. QED
    BY <2>1, <2>2, <2>3 DEF Next
<1>2. QED
  BY <1>1, InitTypeOK, PTL DEF Spec

(***************************************************************************)
(* What a step leaves alone.                                               *)
(***************************************************************************)

\* CRDs come and stay.
CrdsGrow ==
  /\ \A crd \in Crds : versions[crd] # {} => versions'[crd] = versions[crd]
  /\ established \subseteq established'

\* q's own variables.
Untouched(q) ==
  /\ pc'[q] = pc[q] /\ ci'[q] = ci[q] /\ errs'[q] = errs[q] /\ wanted'[q] = wanted[q]
  /\ pref'[q] = pref[q] /\ chosen'[q] = chosen[q] /\ crdCheck'[q] = crdCheck[q]
  /\ classCheck'[q] = classCheck[q] /\ asked'[q] = asked[q] /\ installed'[q] = installed[q]
  /\ sound'[q] = sound[q] /\ troubled'[q] = troubled[q]

LEMMA FrameSetup ==
  ASSUME TypeOK, NEW p \in Slot, Setup(p)
  PROVE  CrdsGrow /\ \A q \in Slot \ {p} : Untouched(q)
<1>1. CASE \E ask \in Asks : Start(p, ask)
  BY <1>1 DEF Start, TypeOK, CrdsGrow, Untouched, NextCrd, CrdVerdict, ClassVerdict, Goto, Fault,
     NoFault, cluster, crdVars, verdicts
<1>2. CASE NoServerVersion(p)
  BY <1>2 DEF NoServerVersion, TypeOK, CrdsGrow, Untouched, CrdVerdict, Goto, Fault, cluster
<1>3. CASE GetCrd(p)
  BY <1>3 DEF GetCrd, TypeOK, CrdsGrow, Untouched, NextCrd, CrdVerdict, Goto, NoFault, cluster
<1>4. CASE GetCrdFails(p)
  BY <1>4 DEF GetCrdFails, TypeOK, CrdsGrow, Untouched, CrdVerdict, Goto, Fault, cluster
<1>5. CASE InstallCrd(p)
  BY <1>5 DEF InstallCrd, TypeOK, CrdsGrow, Untouched, NextCrd, CrdVerdict, Goto, NoFault
<1>6. CASE InstallCrdFails(p)
  BY <1>6 DEF InstallCrdFails, TypeOK, CrdsGrow, Untouched, NextCrd, CrdVerdict, Goto, Fault,
     NoFault
<1>7. CASE GetStorageClass(p)
  BY <1>7 DEF GetStorageClass, TypeOK, CrdsGrow, Untouched, Goto, NoFault, cluster, verdicts
<1>8. CASE ClassCallFails(p)
  BY <1>8 DEF ClassCallFails, TypeOK, CrdsGrow, Untouched, ClassVerdict, Goto, Fault, cluster
<1>9. CASE Prefer(p)
  BY <1>9 DEF Prefer, TypeOK, CrdsGrow, Untouched, ClassVerdict, Goto, NoFault, cluster
<1>10. CASE ListClasses(p)
  BY <1>10 DEF ListClasses, TypeOK, CrdsGrow, Untouched, ClassVerdict, Goto, NoFault, cluster
<1>11. CASE MakeClass(p)
  BY <1>11 DEF MakeClass, TypeOK, CrdsGrow, Untouched, ClassVerdict, Goto, NoFault, crdVars
<1>12. CASE MakeClassFails(p)
  BY <1>12 DEF MakeClassFails, TypeOK, CrdsGrow, Untouched, ClassVerdict, Goto, Fault, crdVars
<1>13. CASE LookUp(p)
  BY <1>13 DEF LookUp, TypeOK, CrdsGrow, Untouched, Goto, NoFault, cluster, verdicts
<1>14. CASE GetClass(p)
  BY <1>14 DEF GetClass, TypeOK, CrdsGrow, Untouched, ClassVerdict, Goto, NoFault, cluster
<1>15. CASE Killed(p)
  BY <1>15 DEF Killed, TypeOK, CrdsGrow, Untouched, Goto, Fault, cluster, verdicts
<1>16. QED
  BY <1>1, <1>2, <1>3, <1>4, <1>5, <1>6, <1>7, <1>8, <1>9, <1>10, <1>11, <1>12, <1>13, <1>14,
     <1>15 DEF Setup

LEMMA FrameOthers ==
  ASSUME TypeOK, Others
  PROVE  CrdsGrow /\ \A q \in Slot : Untouched(q)
BY DEF TypeOK, Others, Establish, AdminAdds, AdminMarks, AdminDeletes, crdVars, verdicts,
       history, CrdsGrow, Untouched

(***************************************************************************)
(* The invariant, run by run.                                              *)
(***************************************************************************)

PlaceAt(p) ==
  /\ classCheck[p] # "none" => pc[p] = "done"
  /\ pc[p] \in {"getCrd", "createCrd"} => crdCheck[p] = "none"
  /\ wanted[p] = asked[p] \/ (wanted[p] = NoClass /\ ClassCrd \in installed[p])
  /\ pc[p] \in {"list", "make"} => wanted[p] = NoClass
  /\ pc[p] \in {"lookup", "get"} => wanted[p] # NoClass /\ chosen[p] = wanted[p]
  /\ classCheck[p] = "ok" /\ asked[p] # NoClass => chosen[p] = asked[p] \/ ClassCrd \in installed[p]

CrdsAt(p) ==
  /\ pc[p] \in {"getCrd", "createCrd"} /\ ~errs[p] =>
       \A crd \in Crds : crd < ci[p] => versions[crd] # {}
  /\ crdCheck[p] = "ok" => \A crd \in Crds : versions[crd] # {}

SoundAt(p) ==
  sound[p] =>
    /\ CrdsAgree
    /\ pref[p] = "v1"
    /\ ~troubled[p] =>
         /\ pc[p] # "createCrd" /\ ~errs[p]
         /\ crdCheck[p] # "failed" /\ (classCheck[p] = "failed" => asked[p] # NoClass)

SlotInv(p) == PlaceAt(p) /\ CrdsAt(p) /\ SoundAt(p)

LEMMA SlotInvs ==
  (\A p \in Slot : SlotInv(p))
    <=> PlaceInv /\ LoopInv /\ SoundInv /\ CrdCheckMeansInstalled /\ UserClassKept /\ SoundClusterPasses
BY DEF SlotInv, PlaceAt, CrdsAt, SoundAt, PlaceInv, LoopInv, SoundInv, CrdCheckMeansInstalled,
   UserClassKept, SoundClusterPasses

LEMMA SlotInvFrame ==
  ASSUME TypeOK, NEW q \in Slot, SlotInv(q), CrdsGrow, Untouched(q)
  PROVE  SlotInv(q)'
<1>1. CrdsAgree => CrdsAgree'
  BY DEF TypeOK, CrdsGrow, CrdsAgree, Serves
<1>2. PlaceAt(q)' /\ CrdsAt(q)' /\ SoundAt(q)'
  BY <1>1 DEF SlotInv, PlaceAt, CrdsAt, SoundAt, CrdsGrow, Untouched, TypeOK
<1>3. QED
  BY <1>2 DEF SlotInv

\* With all CRDs serving v1, discovery prefers it.
LEMMA AgreedVersion ==
  ASSUME CrdsAgree
  PROVE  /\ Preferred = "v1" /\ GroupVersions # {} /\ Serves(ClassCrd, "v1")
         /\ \A crd \in Crds : versions[crd] # {}
BY Numbers DEF CrdsAgree, Preferred, GroupVersions, Serves

\* One more CRD of the loop is done.
LEMMA NextCrdCrds ==
  ASSUME TypeOK, NEW p \in Slot, NEW ok \in BOOLEAN, NextCrd(p, ok), CrdsGrow, SlotInv(p),
         pc[p] \in {"getCrd", "createCrd"}, ok => versions'[ci[p]] # {}
  PROVE  CrdsAt(p)'
<1>1. /\ ci[p] \in 1 .. 3 /\ CrdCount = 3 /\ Crds = 1 .. 3 /\ crdCheck[p] = "none"
      /\ errs[p] \in BOOLEAN /\ errs'[p] = (errs[p] \/ ~ok)
  BY NextCrdType DEF TypeOK, SlotInv, PlaceAt, Crds, CrdCount
<1>2. ~errs'[p] => \A crd \in 1 .. 3 : crd <= ci[p] => versions'[crd] # {}
  <2> SUFFICES ASSUME ~errs'[p], NEW crd \in 1 .. 3, crd <= ci[p] PROVE versions'[crd] # {}
    OBVIOUS
  <2>1. CASE crd = ci[p]
    BY <1>1, <2>1
  <2>2. CASE crd < ci[p]
    BY <1>1, <2>2 DEF SlotInv, CrdsAt, CrdsGrow
  <2>3. QED
    BY <1>1, <2>1, <2>2
<1>3. CASE ci[p] < 3
  <2>1. ci'[p] = ci[p] + 1 /\ crdCheck'[p] = "none"
    BY <1>1, <1>3 DEF NextCrd, TypeOK
  <2>2. QED
    BY <1>1, <1>2, <2>1 DEF CrdsAt
<1>4. CASE ci[p] = 3
  <2>1. pc'[p] = "storageClass" /\ crdCheck'[p] = IF ~errs'[p] THEN "ok" ELSE "failed"
    BY <1>1, <1>4 DEF NextCrd, CrdVerdict, Goto, TypeOK
  <2>2. QED
    BY <1>1, <1>2, <1>4, <2>1 DEF CrdsAt
<1>5. QED
  BY <1>1, <1>3, <1>4

LEMMA SlotInvStep ==
  ASSUME TypeOK, NEW p \in Slot, SlotInv(p), Setup(p)
  PROVE  SlotInv(p)'
<1> USE DEF SlotInv
<1>a. CrdsGrow /\ (CrdsAgree => CrdsAgree')
  BY FrameSetup DEF TypeOK, CrdsGrow, CrdsAgree, Serves
<1>1. CASE \E ask \in Asks : Start(p, ask)
  <2>0. PICK ask \in Asks : Start(p, ask)
    BY <1>1
  <2>1. PlaceAt(p)'
    BY <2>0, Numbers DEF Start, PlaceAt, Goto, TypeOK
  <2>2. CrdsAt(p)'
    BY <2>0, <1>a, Numbers DEF Start, CrdsAt, Goto, TypeOK, Crds
  <2>3. SoundAt(p)'
    BY <2>0, <1>a DEF Start, SoundAt, Goto, TypeOK
  <2>4. QED
    BY <2>1, <2>2, <2>3
<1>2. CASE NoServerVersion(p)
  <2>1. PlaceAt(p)'
    BY <1>2, Numbers DEF NoServerVersion, PlaceAt, CrdVerdict, Goto, TypeOK
  <2>2. CrdsAt(p)'
    BY <1>2, <1>a, Numbers DEF NoServerVersion, CrdsAt, PlaceAt, CrdsGrow, CrdVerdict, Goto,
       TypeOK
  <2>3. SoundAt(p)'
    BY <1>2, <1>a, AgreedVersion DEF NoServerVersion, SoundAt, PlaceAt, Fault, NoFault,
       CrdVerdict, Goto, TypeOK
  <2>4. QED
    BY <2>1, <2>2, <2>3
<1>3. CASE GetCrd(p)
  <2>1. PlaceAt(p)'
    BY <1>3, Numbers DEF GetCrd, PlaceAt, NextCrd, CrdVerdict, Goto, TypeOK
  <2>2. CrdsAt(p)'
    <3>1. CASE versions[ci[p]] # {}
      <4>1. NextCrd(p, TRUE) /\ pc[p] = "getCrd" /\ versions' = versions
        BY <1>3, <3>1 DEF GetCrd, cluster
      <4>2. QED
        BY <4>1, <3>1, <1>a, NextCrdCrds
    <3>2. CASE versions[ci[p]] = {}
      BY <1>3, <1>a, <3>2 DEF GetCrd, CrdsAt, PlaceAt, CrdsGrow, Goto, TypeOK
    <3>3. QED
      BY <3>1, <3>2
  <2>3. SoundAt(p)'
    BY <1>3, <1>a, AgreedVersion DEF GetCrd, SoundAt, PlaceAt, Fault, NoFault, NextCrd,
       CrdVerdict, Goto, TypeOK
  <2>4. QED
    BY <2>1, <2>2, <2>3
<1>4. CASE GetCrdFails(p)
  <2>1. PlaceAt(p)'
    BY <1>4, Numbers DEF GetCrdFails, PlaceAt, CrdVerdict, Goto, TypeOK
  <2>2. CrdsAt(p)'
    BY <1>4, <1>a, Numbers DEF GetCrdFails, CrdsAt, PlaceAt, CrdsGrow, CrdVerdict, Goto, TypeOK
  <2>3. SoundAt(p)'
    BY <1>4, <1>a, AgreedVersion DEF GetCrdFails, SoundAt, PlaceAt, Fault, NoFault, CrdVerdict,
       Goto, TypeOK
  <2>4. QED
    BY <2>1, <2>2, <2>3
<1>5. CASE InstallCrd(p)
  <2>1. PlaceAt(p)'
    BY <1>5, Numbers DEF InstallCrd, PlaceAt, NextCrd, CrdVerdict, Goto, TypeOK
  <2>2. CrdsAt(p)'
    <3>1. NextCrd(p, TRUE) /\ pc[p] = "createCrd" /\ versions'[ci[p]] = OwnVersions
      BY <1>5 DEF InstallCrd, TypeOK
    <3>2. QED
      BY <3>1, <1>a, NextCrdCrds
  <2>3. SoundAt(p)'
    BY <1>5, <1>a, AgreedVersion DEF InstallCrd, SoundAt, PlaceAt, Fault, NoFault, NextCrd,
       CrdVerdict, Goto, TypeOK
  <2>4. QED
    BY <2>1, <2>2, <2>3
<1>6. CASE InstallCrdFails(p)
  <2>1. PlaceAt(p)'
    BY <1>6, Numbers DEF InstallCrdFails, PlaceAt, NextCrd, CrdVerdict, Goto, TypeOK
  <2>2. CrdsAt(p)'
    <3>1. NextCrd(p, FALSE) /\ pc[p] = "createCrd"
      BY <1>6 DEF InstallCrdFails
    <3>2. QED
      BY <3>1, <1>a, NextCrdCrds
  <2>3. SoundAt(p)'
    BY <1>6, <1>a, AgreedVersion DEF InstallCrdFails, SoundAt, PlaceAt, Fault, NoFault, NextCrd,
       CrdVerdict, Goto, TypeOK
  <2>4. QED
    BY <2>1, <2>2, <2>3
<1>7. CASE GetStorageClass(p)
  <2>1. PlaceAt(p)'
    BY <1>7, Numbers DEF GetStorageClass, PlaceAt, Goto, verdicts, TypeOK
  <2>2. CrdsAt(p)'
    BY <1>7, <1>a, Numbers DEF GetStorageClass, CrdsAt, PlaceAt, CrdsGrow, Goto, verdicts, TypeOK
  <2>3. SoundAt(p)'
    BY <1>7, <1>a, AgreedVersion DEF GetStorageClass, SoundAt, PlaceAt, Fault, NoFault, Goto,
       verdicts, TypeOK
  <2>4. QED
    BY <2>1, <2>2, <2>3
<1>8. CASE ClassCallFails(p)
  <2>1. PlaceAt(p)'
    BY <1>8, Numbers DEF ClassCallFails, PlaceAt, ClassVerdict, Goto, TypeOK
  <2>2. CrdsAt(p)'
    BY <1>8, <1>a, Numbers DEF ClassCallFails, CrdsAt, PlaceAt, CrdsGrow, ClassVerdict, Goto,
       TypeOK
  <2>3. SoundAt(p)'
    BY <1>8, <1>a, AgreedVersion DEF ClassCallFails, SoundAt, PlaceAt, Fault, NoFault,
       ClassVerdict, Goto, TypeOK
  <2>4. QED
    BY <2>1, <2>2, <2>3
<1>9. CASE Prefer(p)
  <2>1. PlaceAt(p)'
    BY <1>9, Numbers DEF Prefer, PlaceAt, ClassVerdict, Goto, TypeOK
  <2>2. CrdsAt(p)'
    BY <1>9, <1>a, Numbers DEF Prefer, CrdsAt, PlaceAt, CrdsGrow, ClassVerdict, Goto, TypeOK
  <2>3. SoundAt(p)'
    BY <1>9, <1>a, AgreedVersion DEF Prefer, SoundAt, PlaceAt, Fault, NoFault, ClassVerdict,
       Goto, TypeOK
  <2>4. QED
    BY <2>1, <2>2, <2>3
<1>10. CASE ListClasses(p)
  <2>1. PlaceAt(p)'
    BY <1>10, Numbers DEF ListClasses, PlaceAt, ClassVerdict, Goto, TypeOK
  <2>2. CrdsAt(p)'
    BY <1>10, <1>a, Numbers DEF ListClasses, CrdsAt, PlaceAt, CrdsGrow, ClassVerdict, Goto, TypeOK
  <2>3. SoundAt(p)'
    BY <1>10, <1>a, AgreedVersion DEF ListClasses, SoundAt, PlaceAt, Fault, NoFault,
       ClassVerdict, Goto, TypeOK
  <2>4. QED
    BY <2>1, <2>2, <2>3
<1>11. CASE MakeClass(p)
  <2>1. PlaceAt(p)'
    BY <1>11, Numbers DEF MakeClass, PlaceAt, ClassVerdict, Goto, TypeOK
  <2>2. CrdsAt(p)'
    BY <1>11, <1>a, Numbers DEF MakeClass, CrdsAt, PlaceAt, CrdsGrow, ClassVerdict, Goto, TypeOK
  <2>3. SoundAt(p)'
    BY <1>11, <1>a, AgreedVersion DEF MakeClass, SoundAt, PlaceAt, Fault, NoFault, ClassVerdict,
       Goto, TypeOK
  <2>4. QED
    BY <2>1, <2>2, <2>3
<1>12. CASE MakeClassFails(p)
  <2>1. PlaceAt(p)'
    BY <1>12, Numbers DEF MakeClassFails, PlaceAt, ClassVerdict, Goto, TypeOK
  <2>2. CrdsAt(p)'
    BY <1>12, <1>a, Numbers DEF MakeClassFails, CrdsAt, PlaceAt, CrdsGrow, ClassVerdict, Goto,
       TypeOK
  <2>3. SoundAt(p)'
    BY <1>12, <1>a, AgreedVersion DEF MakeClassFails, SoundAt, PlaceAt, Fault, NoFault,
       ClassVerdict, Goto, TypeOK
  <2>4. QED
    BY <2>1, <2>2, <2>3
<1>13. CASE LookUp(p)
  <2>1. PlaceAt(p)'
    BY <1>13, Numbers DEF LookUp, PlaceAt, Goto, verdicts, TypeOK
  <2>2. CrdsAt(p)'
    BY <1>13, <1>a, Numbers DEF LookUp, CrdsAt, PlaceAt, CrdsGrow, Goto, verdicts, TypeOK
  <2>3. SoundAt(p)'
    BY <1>13, <1>a, AgreedVersion DEF LookUp, SoundAt, PlaceAt, Fault, NoFault, Goto, verdicts,
       TypeOK
  <2>4. QED
    BY <2>1, <2>2, <2>3
<1>14. CASE GetClass(p)
  <2>1. PlaceAt(p)'
    BY <1>14, Numbers DEF GetClass, PlaceAt, ClassVerdict, Goto, TypeOK
  <2>2. CrdsAt(p)'
    BY <1>14, <1>a, Numbers DEF GetClass, CrdsAt, PlaceAt, CrdsGrow, ClassVerdict, Goto, TypeOK
  <2>3. SoundAt(p)'
    BY <1>14, <1>a, AgreedVersion DEF GetClass, SoundAt, PlaceAt, Fault, NoFault, ClassVerdict,
       Goto, TypeOK
  <2>4. QED
    BY <2>1, <2>2, <2>3
<1>15. CASE Killed(p)
  <2>1. PlaceAt(p)'
    BY <1>15, Numbers DEF Killed, PlaceAt, Goto, verdicts, TypeOK
  <2>2. CrdsAt(p)'
    BY <1>15, <1>a, Numbers DEF Killed, CrdsAt, PlaceAt, CrdsGrow, Goto, verdicts, TypeOK
  <2>3. SoundAt(p)'
    BY <1>15, <1>a, AgreedVersion DEF Killed, SoundAt, PlaceAt, Fault, NoFault, Goto, verdicts,
       TypeOK
  <2>4. QED
    BY <2>1, <2>2, <2>3
<1>16. QED
  BY <1>1, <1>2, <1>3, <1>4, <1>5, <1>6, <1>7, <1>8, <1>9, <1>10, <1>11, <1>12, <1>13, <1>14,
     <1>15 DEF Setup

(***************************************************************************)
(* Generated classes.                                                      *)
(***************************************************************************)

\* A class keeps its maker until it is deleted; only a run about to create
\* one becomes the maker of a new class.
LEMMA SetupClasses ==
  ASSUME TypeOK, NEW p \in Slot, Setup(p)
  PROVE  \/ UNCHANGED <<driverOf, maker>>
         \/ /\ pc[p] = "make" /\ pc'[p] = "done"
            /\ \E c \in Class : /\ ~Exists(c)
                                /\ driverOf' = [driverOf EXCEPT ![c] = Provisioner[p]]
                                /\ maker' = [maker EXCEPT ![c] = {p}]
<1>1. CASE \E ask \in Asks : Start(p, ask)
  BY <1>1 DEF Start, TypeOK, ClassVerdict, Goto, cluster, classVars
<1>2. CASE NoServerVersion(p)
  BY <1>2 DEF NoServerVersion, TypeOK, Goto, cluster
<1>3. CASE GetCrd(p)
  BY <1>3 DEF GetCrd, TypeOK, Goto, cluster
<1>4. CASE GetCrdFails(p)
  BY <1>4 DEF GetCrdFails, TypeOK, Goto, cluster
<1>5. CASE InstallCrd(p)
  BY <1>5 DEF InstallCrd, TypeOK, Goto, classVars
<1>6. CASE InstallCrdFails(p)
  BY <1>6 DEF InstallCrdFails, TypeOK, Goto, classVars
<1>7. CASE GetStorageClass(p)
  BY <1>7 DEF GetStorageClass, TypeOK, Goto, cluster
<1>8. CASE ClassCallFails(p)
  BY <1>8 DEF ClassCallFails, TypeOK, ClassVerdict, Goto, cluster
<1>9. CASE Prefer(p)
  BY <1>9 DEF Prefer, TypeOK, ClassVerdict, Goto, cluster
<1>10. CASE ListClasses(p)
  BY <1>10 DEF ListClasses, TypeOK, ClassVerdict, Goto, cluster
<1>11. CASE MakeClass(p)
  BY <1>11 DEF MakeClass, TypeOK, ClassVerdict, Goto
<1>12. CASE MakeClassFails(p)
  BY <1>12 DEF MakeClassFails, TypeOK, ClassVerdict, Goto
<1>13. CASE LookUp(p)
  BY <1>13 DEF LookUp, TypeOK, Goto, cluster
<1>14. CASE GetClass(p)
  BY <1>14 DEF GetClass, TypeOK, ClassVerdict, Goto, cluster
<1>15. CASE Killed(p)
  BY <1>15 DEF Killed, TypeOK, Goto, cluster
<1>16. QED
  BY <1>1, <1>2, <1>3, <1>4, <1>5, <1>6, <1>7, <1>8, <1>9, <1>10, <1>11, <1>12, <1>13, <1>14,
     <1>15 DEF Setup

\* A run gets to creating a class only if none of the provisioner exists.
LEMMA GetsToMake ==
  ASSUME TypeOK, NEW p \in Slot, Setup(p), pc'[p] = "make"
  PROVE  Matching(p) = {} /\ UNCHANGED <<driverOf, maker>>
<1>1. CASE \E ask \in Asks : Start(p, ask)
  BY <1>1 DEF Start, TypeOK, NextCrd, CrdVerdict, ClassVerdict, Goto, cluster, classVars
<1>2. CASE NoServerVersion(p)
  BY <1>2 DEF NoServerVersion, TypeOK, CrdVerdict, Goto, cluster
<1>3. CASE GetCrd(p)
  BY <1>3 DEF GetCrd, TypeOK, NextCrd, CrdVerdict, Goto, cluster
<1>4. CASE GetCrdFails(p)
  BY <1>4 DEF GetCrdFails, TypeOK, CrdVerdict, Goto, cluster
<1>5. CASE InstallCrd(p)
  BY <1>5 DEF InstallCrd, TypeOK, NextCrd, CrdVerdict, Goto, classVars
<1>6. CASE InstallCrdFails(p)
  BY <1>6 DEF InstallCrdFails, TypeOK, NextCrd, CrdVerdict, Goto, classVars
<1>7. CASE GetStorageClass(p)
  BY <1>7 DEF GetStorageClass, TypeOK, Goto, cluster
<1>8. CASE ClassCallFails(p)
  BY <1>8 DEF ClassCallFails, TypeOK, ClassVerdict, Goto, cluster
<1>9. CASE Prefer(p)
  BY <1>9 DEF Prefer, TypeOK, ClassVerdict, Goto, cluster
<1>10. CASE ListClasses(p)
  BY <1>10 DEF ListClasses, TypeOK, ClassVerdict, Goto, cluster
<1>11. CASE MakeClass(p)
  BY <1>11 DEF MakeClass, TypeOK, ClassVerdict, Goto
<1>12. CASE MakeClassFails(p)
  BY <1>12 DEF MakeClassFails, TypeOK, ClassVerdict, Goto
<1>13. CASE LookUp(p)
  BY <1>13 DEF LookUp, TypeOK, Goto, cluster
<1>14. CASE GetClass(p)
  BY <1>14 DEF GetClass, TypeOK, ClassVerdict, Goto, cluster
<1>15. CASE Killed(p)
  BY <1>15 DEF Killed, TypeOK, Goto, cluster
<1>16. QED
  BY <1>1, <1>2, <1>3, <1>4, <1>5, <1>6, <1>7, <1>8, <1>9, <1>10, <1>11, <1>12, <1>13, <1>14,
     <1>15 DEF Setup

ClassInv == MakerInv /\ OneClassPerSlot

LEMMA ClassInvStep ==
  ASSUME TypeOK, ClassInv, NEW p \in Slot, Setup(p)
  PROVE  ClassInv'
<1>1. \A q \in Slot \ {p} : pc'[q] = pc[q]
  BY FrameSetup DEF Untouched
<1>2. CASE UNCHANGED <<driverOf, maker>>
  <2>1. \A c \in Class : \A q \in maker'[c] : driverOf'[c] = Provisioner[q]
    BY <1>2 DEF ClassInv, MakerInv
  <2>2. OneClassPerSlot'
    BY <1>2 DEF ClassInv, OneClassPerSlot, Exists
  <2>3. ASSUME NEW q \in Slot, pc'[q] = "make", NEW c \in Class PROVE q \notin maker'[c]
    <3>1. CASE q = p
      BY <1>2, <2>3, <3>1, GetsToMake DEF ClassInv, MakerInv, Matching
    <3>2. CASE q # p
      BY <1>1, <1>2, <2>3, <3>2 DEF ClassInv, MakerInv
    <3>3. QED
      BY <3>1, <3>2
  <2>4. QED
    BY <2>1, <2>2, <2>3 DEF ClassInv, MakerInv
<1>3. CASE ~UNCHANGED <<driverOf, maker>>
  <2>1. pc[p] = "make" /\ pc'[p] = "done"
    BY <1>3, SetupClasses
  <2>2. PICK c \in Class : /\ ~Exists(c)
                           /\ driverOf' = [driverOf EXCEPT ![c] = Provisioner[p]]
                           /\ maker' = [maker EXCEPT ![c] = {p}]
    BY <1>3, SetupClasses
  <2>3. \A d \in Class : p \notin maker[d]
    BY <2>1 DEF ClassInv, MakerInv
  <2>4. maker'[c] = {p} /\ driverOf'[c] = Provisioner[p]
    BY <2>2 DEF TypeOK
  <2>5. \A d \in Class \ {c} : maker'[d] = maker[d] /\ driverOf'[d] = driverOf[d]
    BY <2>2 DEF TypeOK
  <2>6. \A d \in Class : \A q \in maker'[d] : driverOf'[d] = Provisioner[q]
    BY <2>4, <2>5 DEF ClassInv, MakerInv
  <2>7. OneClassPerSlot'
    BY <2>3, <2>4, <2>5 DEF ClassInv, OneClassPerSlot, Exists
  <2>8. ASSUME NEW q \in Slot, pc'[q] = "make", NEW d \in Class PROVE q \notin maker'[d]
    BY <1>1, <2>1, <2>4, <2>5, <2>8 DEF ClassInv, MakerInv
  <2>9. QED
    BY <2>6, <2>7, <2>8 DEF ClassInv, MakerInv
<1>4. QED
  BY <1>2, <1>3

LEMMA ClassInvOthers ==
  ASSUME TypeOK, ClassInv, Others
  PROVE  ClassInv'
<1>1. \A q \in Slot : pc'[q] = pc[q]
  BY FrameOthers DEF Untouched
<1>2. \/ UNCHANGED <<driverOf, maker>>
      \/ \E c \in Class : /\ maker' = [maker EXCEPT ![c] = {}]
                          /\ \A d \in Class \ {c} : driverOf'[d] = driverOf[d]
  <2>1. CASE \E crd \in Crds : Establish(crd)
    BY <2>1 DEF Establish, classVars
  <2>2. CASE \E c \in Class, d \in Driver : AdminAdds(c, d)
    BY <2>2 DEF AdminAdds, TypeOK
  <2>3. CASE \E c \in Class : AdminMarks(c)
    BY <2>3 DEF AdminMarks
  <2>4. CASE \E c \in Class : AdminDeletes(c)
    BY <2>4 DEF AdminDeletes, TypeOK
  <2>5. QED
    BY <2>1, <2>2, <2>3, <2>4 DEF Others
<1>3. \A c \in Class : maker'[c] = {} \/ (maker'[c] = maker[c] /\ driverOf'[c] = driverOf[c])
  BY <1>2 DEF TypeOK
<1>4. QED
  BY <1>1, <1>3 DEF ClassInv, MakerInv, OneClassPerSlot, Exists

(***************************************************************************)
(* The theorems.                                                           *)
(***************************************************************************)

LEMMA SetupInvParts ==
  SetupInv <=> TypeOK /\ ClassInv /\ \A p \in Slot : SlotInv(p)
BY SlotInvs DEF SetupInv, ClassInv

LEMMA SetupInvInit == Init => SetupInv
<1> SUFFICES ASSUME Init PROVE SetupInv
  OBVIOUS
<1>1. TypeOK
  BY InitTypeOK
<1>2. ClassInv
  BY DEF Init, ClassInv, MakerInv, OneClassPerSlot
<1>3. \A p \in Slot : SlotInv(p)
  BY DEF Init, SlotInv, PlaceAt, CrdsAt, SoundAt
<1>4. QED
  BY <1>1, <1>2, <1>3, SetupInvParts

LEMMA SetupInvNext == SetupInv /\ [Next]_vars => SetupInv'
<1> SUFFICES ASSUME SetupInv, [Next]_vars PROVE SetupInv'
  OBVIOUS
<1>0. TypeOK /\ ClassInv /\ \A p \in Slot : SlotInv(p)
  BY SetupInvParts
<1>1. ASSUME NEW p \in Slot, Setup(p)
      PROVE  TypeOK' /\ ClassInv' /\ \A q \in Slot : SlotInv(q)'
  <2>1. TypeOK' /\ ClassInv'
    BY <1>0, <1>1, SetupTypeOK, ClassInvStep
  <2>2. SlotInv(p)'
    BY <1>0, <1>1, SlotInvStep
  <2>3. \A q \in Slot \ {p} : SlotInv(q)'
    BY <1>0, <1>1, FrameSetup, SlotInvFrame
  <2>4. QED
    BY <2>1, <2>2, <2>3
<1>2. ASSUME Others
      PROVE  TypeOK' /\ ClassInv' /\ \A q \in Slot : SlotInv(q)'
  BY <1>0, <1>2, OthersTypeOK, ClassInvOthers, FrameOthers, SlotInvFrame
<1>3. ASSUME UNCHANGED vars
      PROVE  TypeOK' /\ ClassInv' /\ \A q \in Slot : SlotInv(q)'
  <2>1. TypeOK' /\ ClassInv'
    BY <1>0, <1>3 DEF vars, TypeOK, ClassInv, MakerInv, OneClassPerSlot, Exists
  <2>2. \A q \in Slot : SlotInv(q)'
    BY <1>0, <1>3 DEF vars, SlotInv, PlaceAt, CrdsAt, SoundAt, CrdsAgree, Serves
  <2>3. QED
    BY <2>1, <2>2
<1>4. QED
  BY <1>1, <1>2, <1>3, SetupInvParts DEF Next, SetupInv, TypeOK, PlaceInv, LoopInv, MakerInv,
     SoundInv, CrdCheckMeansInstalled, UserClassKept, OneClassPerSlot, SoundClusterPasses,
     ClassInv, SlotInv, PlaceAt, CrdsAt, SoundAt

THEOREM SetupInvariant == Spec => []SetupInv
BY SetupInvInit, SetupInvNext, PTL DEF Spec

\* A successful CRD check: all three are there.
THEOREM CrdsInstalled == Spec => []CrdCheckMeansInstalled
BY SetupInvariant, PTL DEF SetupInv

\* The user's class is the one that is used.
THEOREM UserClassUsed == Spec => []UserClassKept
BY SetupInvariant, PTL DEF SetupInv

\* Generated classes do not pile up.
THEOREM NoPileUp == Spec => []OneClassPerSlot
BY SetupInvariant, PTL DEF SetupInv

\* A cluster that is all right passes.
THEOREM SoundPasses == Spec => []SoundClusterPasses
BY SetupInvariant, PTL DEF SetupInv

LEMMA FitsStep ==
  ASSUME SetupInv, NEW p \in Slot, Setup(p), Passes(p)
  PROVE  LET c == chosen'[p] IN
           /\ c \in Class /\ driverOf'[c] = Provisioner[p]
           /\ wanted[p] # NoClass \/ p \in maker'[c] \/ c \in marked \/ Matching(p) \cap marked = {}
<1>0. TypeOK /\ SlotInv(p)
  BY SetupInvParts
<1>1. ListClasses(p) \/ MakeClass(p) \/ GetClass(p)
  <2>1. CASE \E ask \in Asks : Start(p, ask)
    BY <2>1, <1>0 DEF Start, Passes, TypeOK
  <2>2. CASE NoServerVersion(p)
    BY <2>2, <1>0 DEF NoServerVersion, Passes, CrdVerdict, Goto, TypeOK
  <2>3. CASE GetCrd(p)
    BY <2>3, <1>0 DEF GetCrd, Passes, NextCrd, CrdVerdict, Goto, TypeOK
  <2>4. CASE GetCrdFails(p)
    BY <2>4, <1>0 DEF GetCrdFails, Passes, CrdVerdict, Goto, TypeOK
  <2>5. CASE InstallCrd(p)
    BY <2>5, <1>0 DEF InstallCrd, Passes, NextCrd, CrdVerdict, Goto, TypeOK
  <2>6. CASE InstallCrdFails(p)
    BY <2>6, <1>0 DEF InstallCrdFails, Passes, NextCrd, CrdVerdict, Goto, TypeOK
  <2>7. CASE GetStorageClass(p)
    BY <2>7, <1>0 DEF GetStorageClass, Passes, Goto, verdicts, TypeOK
  <2>8. CASE ClassCallFails(p)
    BY <2>8, <1>0 DEF ClassCallFails, Passes, ClassVerdict, Goto, TypeOK
  <2>9. CASE Prefer(p)
    BY <2>9, <1>0 DEF Prefer, Passes, ClassVerdict, Goto, TypeOK
  <2>10. CASE ListClasses(p)
    BY <2>10
  <2>11. CASE MakeClass(p)
    BY <2>11
  <2>12. CASE MakeClassFails(p)
    BY <2>12, <1>0 DEF MakeClassFails, Passes, ClassVerdict, Goto, TypeOK
  <2>13. CASE LookUp(p)
    BY <2>13, <1>0 DEF LookUp, Passes, Goto, verdicts, TypeOK
  <2>14. CASE GetClass(p)
    BY <2>14
  <2>15. CASE Killed(p)
    BY <2>15, <1>0 DEF Killed, Passes, Goto, verdicts, TypeOK
  <2>16. QED
    BY <2>1, <2>2, <2>3, <2>4, <2>5, <2>6, <2>7, <2>8, <2>9, <2>10, <2>11, <2>12, <2>13, <2>14,
       <2>15 DEF Setup
<1>2. CASE ListClasses(p)
  <2>1. PICK c \in Pick(p) : chosen' = [chosen EXCEPT ![p] = c] /\ driverOf' = driverOf
    BY <1>0, <1>2 DEF ListClasses, Passes, ClassVerdict, TypeOK, cluster
  <2>2. c \in Matching(p) /\ chosen'[p] = c
    BY <1>0, <2>1, PickType DEF TypeOK
  <2>3. c \in marked \/ Matching(p) \cap marked = {}
    BY <2>1 DEF Pick, MatchingDefaults
  <2>4. QED
    BY <2>1, <2>2, <2>3 DEF Matching
<1>3. CASE MakeClass(p)
  BY <1>0, <1>3 DEF MakeClass, TypeOK
<1>4. CASE GetClass(p)
  <2>1. chosen'[p] = wanted[p] /\ wanted[p] # NoClass /\ wanted[p] \in Class
    BY <1>0, <1>4 DEF GetClass, SlotInv, PlaceAt, TypeOK
  <2>2. driverOf[wanted[p]] = Provisioner[p] /\ driverOf' = driverOf
    BY <1>0, <1>4 DEF GetClass, Passes, ClassVerdict, TypeOK, cluster
  <2>3. QED
    BY <2>1, <2>2
<1>5. QED
  BY <1>1, <1>2, <1>3, <1>4

\* The class a run settles on fits its StorageClass.
THEOREM ClassFits == Spec => ChosenFits
<1>1. SetupInv /\ [Next]_vars =>
        [\A p \in Slot :
           Passes(p) =>
             LET c == chosen'[p] IN
               /\ c \in Class /\ driverOf'[c] = Provisioner[p]
               /\ wanted[p] # NoClass \/ p \in maker'[c] \/ c \in marked
                    \/ Matching(p) \cap marked = {}]_vars
  <2> SUFFICES ASSUME SetupInv, Next, NEW q \in Slot, Passes(q)
               PROVE  LET c == chosen'[q] IN
                        /\ c \in Class /\ driverOf'[c] = Provisioner[q]
                        /\ wanted[q] # NoClass \/ q \in maker'[c] \/ c \in marked
                             \/ Matching(q) \cap marked = {}
    OBVIOUS
  <2>1. TypeOK
    BY DEF SetupInv
  <2>2. CASE Setup(q)
    BY <2>2, FitsStep
  <2>3. CASE \E p \in Slot \ {q} : Setup(p)
    <3>1. Untouched(q)
      BY <2>1, <2>3, FrameSetup
    <3>2. QED
      BY <3>1 DEF Untouched, Passes
  <2>4. CASE Others
    <3>1. Untouched(q)
      BY <2>1, <2>4, FrameOthers
    <3>2. QED
      BY <3>1 DEF Untouched, Passes
  <2>5. QED
    BY <2>2, <2>3, <2>4 DEF Next
<1>2. QED
  BY <1>1, SetupInvariant, PTL DEF Spec, ChosenFits

(***************************************************************************)
(* A run does not go on for ever here, whatever other runs and the         *)
(* administrator do to the CRDs and classes it is looking at: each of its  *)
(* steps leaves it with fewer calls to make.                               *)
(***************************************************************************)

\* How many calls the run of slot p makes at most before its two checks are over.
CallsLeft(p) ==
  CASE pc[p] = "getCrd" -> 2 * (CrdCount - ci[p]) + 6
    [] pc[p] = "createCrd" -> 2 * (CrdCount - ci[p]) + 5
    [] pc[p] = "storageClass" -> 4 [] pc[p] = "prefer" -> 3
    [] pc[p] \in {"list", "lookup"} -> 2 [] pc[p] \in {"make", "get"} -> 1
    [] OTHER -> 0
UnderWay(p) == pc[p] \notin {"idle", "done"}

LEMMA CallsTyped == ASSUME TypeOK, NEW p \in Slot PROVE CallsLeft(p) \in 0 .. 10
BY DEF TypeOK, CallsLeft, Crds, CrdCount

\* The loop goes on to the next CRD, or ends.
LEMMA NextCrdFewer ==
  ASSUME TypeOK, NEW p \in Slot, pc[p] \in {"getCrd", "createCrd"}, NEW ok, NextCrd(p, ok)
  PROVE  CallsLeft(p)' < CallsLeft(p)
<1>1. /\ ci[p] \in 1 .. 3 /\ CallsLeft(p) \in 0 .. 10
      /\ CallsLeft(p) >= 2 * (3 - ci[p]) + 5
  BY CallsTyped DEF TypeOK, CallsLeft, Crds, CrdCount
<1>2. CASE ci[p] < 3
  <2>1. ci'[p] = ci[p] + 1 /\ pc'[p] = "getCrd"
    BY <1>2 DEF NextCrd, Goto, TypeOK, CrdCount
  <2>2. CallsLeft(p)' = 2 * (3 - (ci[p] + 1)) + 6
    BY <2>1 DEF CallsLeft, CrdCount
  <2>3. QED
    BY <1>1, <2>2
<1>3. CASE ~(ci[p] < 3)
  <2>1. pc'[p] = "storageClass"
    BY <1>3 DEF NextCrd, CrdVerdict, Goto, TypeOK, CrdCount
  <2>2. CallsLeft(p)' = 4
    BY <2>1 DEF CallsLeft
  <2>3. QED
    BY <1>1, <2>2
<1>4. QED
  BY <1>2, <1>3

LEMMA SetupFewer ==
  ASSUME TypeOK, NEW p \in Slot, Setup(p), UnderWay(p)
  PROVE  CallsLeft(p)' < CallsLeft(p)
<1>1. pc \in [Slot -> Labels] /\ ci[p] \in 1 .. 3
  BY DEF TypeOK, Labels, Crds, CrdCount
<1>2. CASE NoServerVersion(p) \/ GetCrdFails(p)
  <2>1. pc[p] = "getCrd" /\ pc'[p] = "storageClass"
    BY <1>1, <1>2 DEF NoServerVersion, GetCrdFails, CrdVerdict, Goto
  <2>2. QED
    BY <1>1, <2>1 DEF CallsLeft, CrdCount
<1>3. CASE GetCrd(p)
  <2>1. CASE versions[ci[p]] # {}
    BY <1>3, <2>1, NextCrdFewer DEF GetCrd
  <2>2. CASE versions[ci[p]] = {}
    <3>1. pc[p] = "getCrd" /\ pc'[p] = "createCrd" /\ ci' = ci
      BY <1>1, <1>3, <2>2 DEF GetCrd, Goto
    <3>2. QED
      BY <1>1, <3>1 DEF CallsLeft, CrdCount
  <2>3. QED
    BY <2>1, <2>2
<1>4. CASE InstallCrd(p) \/ InstallCrdFails(p)
  BY <1>4, NextCrdFewer DEF InstallCrd, InstallCrdFails
<1>5. CASE GetStorageClass(p) \/ Prefer(p) \/ LookUp(p) \/ ListClasses(p)
  <2>1. \/ pc[p] = "storageClass" /\ pc'[p] = "prefer"
        \/ pc[p] = "prefer" /\ pc'[p] \in {"list", "lookup", "done"}
        \/ pc[p] = "lookup" /\ pc'[p] = "get"
        \/ pc[p] = "list" /\ pc'[p] \in {"make", "done"}
    BY <1>1, <1>5 DEF GetStorageClass, Prefer, LookUp, ListClasses, ClassVerdict, Goto
  <2>2. QED
    BY <2>1 DEF CallsLeft
<1>6. CASE ClassCallFails(p) \/ MakeClass(p) \/ MakeClassFails(p) \/ GetClass(p) \/ Killed(p)
  <2>1. pc'[p] = "done"
    BY <1>1, <1>6 DEF ClassCallFails, MakeClass, MakeClassFails, GetClass, Killed, ClassVerdict,
                      Goto
  <2>2. CallsLeft(p)' = 0
    BY <2>1 DEF CallsLeft
  <2>3. CallsLeft(p) > 0
    BY <1>1 DEF CallsLeft, CrdCount, UnderWay, Labels
  <2>4. QED
    BY <2>2, <2>3
<1>7. QED
  BY <1>2, <1>3, <1>4, <1>5, <1>6 DEF Setup, Start, UnderWay

\* However many runs there are and whatever they install, create, mark or delete under
\* one another: once started a run makes at most ten calls for its two checks, each of
\* its steps leaves it with fewer, and nobody else's step changes how many are left.
THEOREM AtMostTenCalls ==
  Spec => /\ [](\A p \in Slot : CallsLeft(p) \in 0 .. 10)
          /\ [][\A p \in Slot : UnderWay(p) => IF Setup(p) THEN CallsLeft(p)' < CallsLeft(p)
                                               ELSE UNCHANGED CallsLeft(p)]_vars
<1>1. TypeOK => \A p \in Slot : CallsLeft(p) \in 0 .. 10
  BY CallsTyped
<1>2. TypeOK /\ [Next]_vars =>
        [\A p \in Slot : UnderWay(p) => IF Setup(p) THEN CallsLeft(p)' < CallsLeft(p)
                                        ELSE UNCHANGED CallsLeft(p)]_vars
  <2> SUFFICES ASSUME TypeOK, Next, NEW q \in Slot, UnderWay(q)
               PROVE  IF Setup(q) THEN CallsLeft(q)' < CallsLeft(q) ELSE UNCHANGED CallsLeft(q)
    OBVIOUS
  <2>1. CASE Setup(q)
    BY <2>1, SetupFewer
  <2>2. CASE ~Setup(q)
    <3>1. Untouched(q)
      BY <2>2, FrameSetup, FrameOthers DEF Next
    <3>2. QED
      BY <2>2, <3>1 DEF Untouched, CallsLeft
  <2>3. QED
    BY <2>1, <2>2
<1>3. QED
  BY <1>1, <1>2, SetupTypeCorrect, PTL DEF Spec
=============================================================================
