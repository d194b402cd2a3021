--------------------------- MODULE MCSnapshotSetup ---------------------------
(* Small clusters for SnapshotSetup. *)
EXTENDS SnapshotSetup, TLC

\* All runs are given the same StorageClass: slots are interchangeable.
Alike == Permutations(Slot)

SameProvisioner == [p \in Slot |-> "csi"]
\* Everything installed; the newest version of the class CRD only; no CRD of
\* contents; only the last CRD.
All == [crd \in Crds |-> Version]
NewClasses == [crd \in Crds |-> IF crd = 1 THEN {"v1"} ELSE Version]
NoContents == [crd \in Crds |-> IF crd = 2 THEN {} ELSE {"v1"}]
OnlyLast == [crd \in Crds |-> IF crd = 3 THEN {"v1"} ELSE {}]
Sound == {All, NewClasses}
Various == {NewClasses, NoContents, OnlyLast}
Unnamed == {NoClass}
Perhaps == {NoClass, 1}
=============================================================================
