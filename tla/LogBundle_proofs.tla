--------------------------- MODULE LogBundle_proofs ---------------------------
(***************************************************************************)
(* Proofs about the log collector's files, for any number of pods and of   *)
(* logs, whatever their log directories hold, and any number of faults.    *)
(***************************************************************************)
EXTENDS LogBundle, FiniteSetTheorems, WellFoundedInduction, TLAPS

USE BundleAssumption, AbsentAssumption

LEMMA Names ==
  /\ \A b \in Base : /\ LogName(b) \in Name /\ GzName(b) \in Name
                     /\ LogName(b)[1] = b /\ GzName(b)[1] = b
                     /\ LogName(b)[2] = "log" /\ GzName(b)[2] = "gz"
  /\ \A p \in Pod : StreamName(p) \in Name /\ StreamName(p)[2] = "stream"
  /\ \A b, c \in Base : /\ LogName(b) # GzName(c)
                        /\ LogName(b) = LogName(c) \/ GzName(b) = GzName(c) => b = c
  /\ \A b \in Base, p \in Pod : StreamName(p) # LogName(b) /\ StreamName(p) # GzName(b)
  /\ \A n \in Name : n[2] = "gz" => n[1] \in Base /\ n = GzName(n[1])
BY DEF Name, LogName, GzName, StreamName

LEMMA Contents ==
  /\ \A p \in Pod : \A e \in Entry :
       /\ <<e.base, e.form>> = (IF e.form = "log" THEN LogName(e.base) ELSE GzName(e.base))
       /\ <<e.base, e.form>> \in Name
       /\ e.shape # "huge" => Holding(e, p) \in Content
  /\ \A c \in Content : [c EXCEPT !.shape = "unpacked"] \in Content
  /\ \A p \in Pod : [pod |-> p, form |-> "stream", shape |-> "text"] \in Content
BY DEF Entry, Content, Holding, Name, LogName, GzName, Gzip

LEMMA Partials ==
  ASSUME pod \in Pod, NEW form \in {"log", "gz", "stream"}, NEW shape
  PROVE  Partial(form, shape) \in Content
BY DEF Partial, Content

LEMMA OnlyType ==
  ASSUME disk \in [Name -> Content \cup {Absent}], NEW some \in SUBSET Files
  PROVE  Only(some) \in [Name -> Content \cup {Absent}]
BY DEF Only, Files

(***************************************************************************)
(* Types.                                                                  *)
(***************************************************************************)

LEMMA InitTypeOK == Init => TypeOK
<1>1. 1 \in Pod /\ 0 \in 0 .. MaxFaults
  BY DEF Pod
<1>2. Empty \in [Name -> Content \cup {Absent}]
  BY DEF Empty
<1>3. QED
  BY <1>1, <1>2 DEF Init, TypeOK

LEMMA FaultType == ASSUME TypeOK, Fault PROVE faults' \in 0 .. MaxFaults
BY DEF TypeOK, Fault

LEMMA NextPodType ==
  ASSUME TypeOK, NextPod
  PROVE  pod' \in Pod /\ pc' \in {"pod", "zip"}
BY DEF TypeOK, NextPod, Pod

LEMMA StepTypeOK ==
  ASSUME TypeOK, PlaceInv, TarInv, [Next]_vars
  PROVE  TypeOK'
<1>1. CASE GetPod
  BY <1>1, FaultType, NextPodType, Contents, Partials, OnlyType, Names DEF GetPod, tars,
     archive, history, TypeOK, PlaceInv, Files
<1>2. CASE PodGone
  BY <1>2, FaultType, NextPodType, Contents, Partials, OnlyType, Names DEF PodGone, tars,
     archive, history, TypeOK, PlaceInv, Files
<1>3. CASE GetPodFails
  BY <1>3, FaultType, NextPodType, Contents, Partials, OnlyType, Names DEF GetPodFails, tars,
     Fail, archive, history, TypeOK, PlaceInv, Files
<1>4. CASE Look
  BY <1>4, FaultType, NextPodType, Contents, Partials, OnlyType, Names DEF Look, tars, archive,
     history, Walk, TypeOK, PlaceInv, Files
<1>5. CASE LookFails
  BY <1>5, FaultType, NextPodType, Contents, Partials, OnlyType, Names DEF LookFails, tars,
     archive, history, TypeOK, PlaceInv, Files
<1>6. CASE TarArrives
  BY <1>6, FaultType, NextPodType, Contents, Partials, OnlyType, Names DEF TarArrives, tars,
     history, archive, TypeOK, PlaceInv, Files
<1>7. CASE TarFails
  BY <1>7, FaultType, NextPodType, Contents, Partials, OnlyType, Names DEF TarFails, RemoveTar,
     tars, archive, history, TypeOK, PlaceInv, Files
<1>8. CASE Extract
  <2>1. PICK e \in todo :
           /\ e.shape # "huge" /\ todo' = todo \ {e}
           /\ disk' = [disk EXCEPT ![<<e.base, e.form>>] = Holding(e, pod)]
           /\ copied' = copied \cup {<<e, pod>>}
    BY <1>8 DEF Extract, Put
  <2>2. e \in Entry /\ pod \in Pod /\ <<e, pod>> \in offered
    BY <2>1 DEF TypeOK, TarInv
  <2>3. Holding(e, pod) \in Content /\ <<e.base, e.form>> \in Name
    BY <2>1, <2>2, Contents
  <2>4. disk' \in [Name -> Content \cup {Absent}] /\ copied' \subseteq offered /\ todo' \subseteq Entry
    BY <2>1, <2>2, <2>3 DEF TypeOK
  <2>5. /\ walk' = {}
        /\ UNCHANGED <<pc, pod, tars, archive, keep, exit, faults, offered, spoiled>>
    BY <1>8 DEF Extract, tars, history, PlaceInv, archive
  <2>6. QED
    BY <2>4, <2>5 DEF TypeOK, Files, tars, archive
<1>9. CASE ExtractFails
  <2>1. PICK e \in todo : disk' \in {disk, [disk EXCEPT ![<<e.base, e.form>>] = Partial(e.form, e.shape)]}
    BY <1>9 DEF ExtractFails, Put
  <2>2. e \in Entry /\ pod \in Pod /\ e.form \in {"log", "gz", "stream"}
    BY <2>1 DEF TypeOK, Entry
  <2>3. Partial(e.form, e.shape) \in Content /\ <<e.base, e.form>> \in Name
    BY <2>2, Partials, Contents
  <2>4. disk' \in [Name -> Content \cup {Absent}]
    BY <2>1, <2>3 DEF TypeOK
  <2>5. /\ walk' = {} /\ todo' = {} /\ pc' = "stream"
        /\ temp' \subseteq Pod /\ stuck' \subseteq Pod
    BY <1>9 DEF ExtractFails, RemoveTar, StopExtracting, PlaceInv, TypeOK
  <2>6. faults' \in 0 .. MaxFaults
    BY <1>9, FaultType DEF ExtractFails, RemoveTar, tars, archive, history, TypeOK
  <2>7. UNCHANGED <<pod, archive, keep, exit, history>>
    BY <1>9 DEF ExtractFails
  <2>8. QED
    BY <2>4, <2>5, <2>6, <2>7 DEF TypeOK, Files, archive, history
<1>10. CASE Extracted
  BY <1>10, FaultType, NextPodType, Contents, Partials, OnlyType, Names DEF Extracted,
     RemoveTar, tars, archive, history, Walk, TypeOK, PlaceInv, Files
<1>11. CASE Gunzip
  BY <1>11, FaultType, NextPodType, Contents, Partials, OnlyType, Names DEF Gunzip, tars,
     Unpacked, FirstOf, archive, history, TypeOK, PlaceInv, Files
<1>12. CASE GunzipFails
  <2>1. PICK n \in walk :
           /\ disk' = [disk EXCEPT ![n] = Absent, ![LogName(n[1])] = Absent]
           /\ \/ UNCHANGED <<faults, spoiled>>
              \/ disk[n].shape = "packed" /\ Fault /\ Spoils(n)
    BY <1>12 DEF GunzipFails, FirstOf
  <2>2. n \in Name /\ disk[n] \in Content /\ n[1] \in Base
    BY <2>1, Names DEF TypeOK, PlaceInv, Files
  <2>3. disk' \in [Name -> Content \cup {Absent}]
    BY <2>1 DEF TypeOK
  <2>4. <<[base |-> n[1], form |-> "gz", shape |-> "packed"], disk[n].pod>> \in Entry \X Pod
    BY <2>2 DEF Entry, Gzip, Content
  <2>5. spoiled' \subseteq Entry \X Pod /\ faults' \in 0 .. MaxFaults
    BY <2>1, <2>4, FaultType DEF TypeOK, Spoils
  <2>6. walk' = {} /\ pc' = "stream" /\ UNCHANGED <<pod, todo, tars, archive, keep, exit, offered, copied>>
    BY <1>12 DEF GunzipFails
  <2>7. QED
    BY <2>3, <2>5, <2>6 DEF TypeOK, Files, tars, archive
<1>13. CASE GunzipRefused
  BY <1>13, FaultType, NextPodType, Contents, Partials, OnlyType, Names DEF GunzipRefused, tars,
     archive, history, TypeOK, PlaceInv, Files
<1>14. CASE Gunzipped
  BY <1>14, FaultType, NextPodType, Contents, Partials, OnlyType, Names DEF Gunzipped, tars,
     archive, history, TypeOK, PlaceInv, Files
<1>15. CASE Stream
  BY <1>15, FaultType, NextPodType, Contents, Partials, OnlyType, Names DEF Stream, tars, Put,
     archive, history, TypeOK, PlaceInv, Files
<1>16. CASE StreamFails
  BY <1>16, FaultType, NextPodType, Contents, Partials, OnlyType, Names DEF StreamFails, tars,
     Fail, Put, archive, history, TypeOK, PlaceInv, Files
<1>17. CASE Archive
  BY <1>17, FaultType, NextPodType, Contents, Partials, OnlyType, Names DEF Archive, Add, tars,
     archive, history, TypeOK, PlaceInv, Files
<1>18. CASE ArchiveFails
  BY <1>18, FaultType, NextPodType, Contents, Partials, OnlyType, Names DEF ArchiveFails, Add,
     tars, archive, history, TypeOK, PlaceInv, Files
<1>19. CASE Remove
  BY <1>19, FaultType, NextPodType, Contents, Partials, OnlyType, Names DEF Remove, tars,
     archive, history, Empty, TypeOK, PlaceInv, Files
<1>20. CASE RemoveFails
  BY <1>20, FaultType, NextPodType, Contents, Partials, OnlyType, Names DEF RemoveFails, tars,
     archive, RemoveSome, history, TypeOK, PlaceInv, Files
<1>21. CASE Close
  BY <1>21, FaultType, NextPodType, Contents, Partials, OnlyType, Names DEF Close, Report, tars,
     archive, history, TypeOK, PlaceInv, Files
<1>22. CASE CloseFails
  BY <1>22, FaultType, NextPodType, Contents, Partials, OnlyType, Names DEF CloseFails, Report,
     Tear, tars, archive, history, TypeOK, PlaceInv, Files
<1>23. CASE Killed
  BY <1>23, FaultType, NextPodType, Contents, Partials, OnlyType, Names DEF Killed, Add, Tear,
     tars, RemoveSome, archive, history, TypeOK, PlaceInv, Files
<1>24. CASE UNCHANGED vars
  BY <1>24, FaultType, NextPodType, Contents, Partials, OnlyType, Names DEF vars, TypeOK,
     PlaceInv, Files
<1>25. QED
  BY <1>1, <1>2, <1>3, <1>4, <1>5, <1>6, <1>7, <1>8, <1>9, <1>10, <1>11, <1>12, <1>13, <1>14,
     <1>15, <1>16, <1>17, <1>18, <1>19, <1>20, <1>21, <1>22, <1>23, <1>24 DEF Next, WriteLogs,
     ZipDir

(***************************************************************************)
(* Where the command is.                                                   *)
(***************************************************************************)

LEMMA StepPlace ==
  ASSUME TypeOK, PlaceInv, [Next]_vars
  PROVE  PlaceInv'
<1>1. CASE GetPod
  BY <1>1 DEF GetPod, tars, archive, history, PlaceInv
<1>2. CASE PodGone
  BY <1>2 DEF PodGone, tars, NextPod, archive, history, PlaceInv
<1>3. CASE GetPodFails
  BY <1>3 DEF GetPodFails, tars, Fail, archive, history, PlaceInv
<1>4. CASE Look
  BY <1>4 DEF Look, tars, archive, history, Walk, PlaceInv
<1>5. CASE LookFails
  BY <1>5 DEF LookFails, tars, archive, history, PlaceInv
<1>6. CASE TarArrives
  BY <1>6 DEF TarArrives, tars, history, archive, PlaceInv
<1>7. CASE TarFails
  BY <1>7 DEF TarFails, RemoveTar, tars, archive, history, PlaceInv
<1>8. CASE Extract
  BY <1>8 DEF Extract, tars, history, archive, PlaceInv
<1>9. CASE ExtractFails
  BY <1>9 DEF ExtractFails, RemoveTar, tars, StopExtracting, archive, history, PlaceInv
<1>10. CASE Extracted
  BY <1>10 DEF Extracted, RemoveTar, tars, archive, history, Walk, PlaceInv
<1>11. CASE Gunzip
  BY <1>11 DEF Gunzip, tars, FirstOf, archive, history, PlaceInv
<1>12. CASE GunzipFails
  BY <1>12 DEF GunzipFails, Spoils, tars, FirstOf, archive, history, PlaceInv
<1>13. CASE GunzipRefused
  BY <1>13 DEF GunzipRefused, tars, archive, history, PlaceInv
<1>14. CASE Gunzipped
  BY <1>14 DEF Gunzipped, tars, archive, history, PlaceInv
<1>15. CASE Stream
  BY <1>15 DEF Stream, tars, NextPod, archive, history, PlaceInv
<1>16. CASE StreamFails
  BY <1>16 DEF StreamFails, tars, Fail, archive, history, PlaceInv
<1>17. CASE Archive
  BY <1>17 DEF Archive, Add, tars, archive, history, PlaceInv, Whole, Kept,
     Only, Files, TypeOK
<1>18. CASE ArchiveFails
  BY <1>18 DEF ArchiveFails, Add, tars, archive, history, PlaceInv, Whole, Kept,
     Only, Files, TypeOK
<1>19. CASE Remove
  BY <1>19 DEF Remove, tars, archive, history, Empty, PlaceInv, Whole, Kept,
     Only, Files, TypeOK
<1>20. CASE RemoveFails
  BY <1>20 DEF RemoveFails, tars, archive, RemoveSome, history, PlaceInv, Whole, Kept,
     Only, Files, TypeOK
<1>21. CASE Close
  BY <1>21 DEF Close, Report, tars, archive, history, PlaceInv, Whole, Kept,
     Only, Files, TypeOK
<1>22. CASE CloseFails
  BY <1>22 DEF CloseFails, Report, Tear, tars, archive, history, PlaceInv, Whole, Kept,
     Only, Files, TypeOK
<1>23. CASE Killed
  BY <1>23 DEF Killed, Add, Tear, tars, RemoveSome, archive, history, PlaceInv, Whole, Kept,
     Only, Files, TypeOK
<1>24. CASE UNCHANGED vars
  BY <1>24 DEF vars, PlaceInv, Whole, Kept
<1>25. QED
  BY <1>1, <1>2, <1>3, <1>4, <1>5, <1>6, <1>7, <1>8, <1>9, <1>10, <1>11, <1>12, <1>13, <1>14,
     <1>15, <1>16, <1>17, <1>18, <1>19, <1>20, <1>21, <1>22, <1>23, <1>24 DEF Next, WriteLogs,
     ZipDir

LEMMA StepTar ==
  ASSUME TypeOK, PlaceInv, TarInv, [Next]_vars
  PROVE  TarInv'
<1>1. CASE GetPod
  BY <1>1 DEF GetPod, tars, archive, history, TypeOK, PlaceInv, TarInv, Pod
<1>2. CASE PodGone
  BY <1>2 DEF PodGone, tars, NextPod, archive, history, TypeOK, PlaceInv, TarInv, Pod
<1>3. CASE GetPodFails
  BY <1>3 DEF GetPodFails, tars, Fail, archive, history, TypeOK, PlaceInv, TarInv, Pod
<1>4. CASE Look
  BY <1>4 DEF Look, tars, archive, history, Walk, TypeOK, PlaceInv, TarInv, Pod
<1>5. CASE LookFails
  BY <1>5 DEF LookFails, tars, archive, history, TypeOK, PlaceInv, TarInv, Pod
<1>6. CASE TarArrives
  BY <1>6 DEF TarArrives, tars, history, archive, TypeOK, PlaceInv, TarInv, Pod
<1>7. CASE TarFails
  BY <1>7 DEF TarFails, RemoveTar, tars, archive, history, TypeOK, PlaceInv, TarInv, Pod
<1>8. CASE Extract
  BY <1>8 DEF Extract, tars, history, archive, TypeOK, PlaceInv, TarInv, Pod
<1>9. CASE ExtractFails
  BY <1>9 DEF ExtractFails, RemoveTar, tars, StopExtracting, archive, history, TypeOK, PlaceInv,
     TarInv, Pod
<1>10. CASE Extracted
  BY <1>10 DEF Extracted, RemoveTar, tars, archive, history, Walk, TypeOK, PlaceInv, TarInv, Pod
<1>11. CASE Gunzip
  BY <1>11 DEF Gunzip, tars, FirstOf, archive, history, TypeOK, PlaceInv, TarInv, Pod
<1>12. CASE GunzipFails
  BY <1>12 DEF GunzipFails, Spoils, tars, FirstOf, archive, history, TypeOK, PlaceInv, TarInv, Pod
<1>13. CASE GunzipRefused
  BY <1>13 DEF GunzipRefused, tars, archive, history, TypeOK, PlaceInv, TarInv, Pod
<1>14. CASE Gunzipped
  BY <1>14 DEF Gunzipped, tars, archive, history, TypeOK, PlaceInv, TarInv, Pod
<1>15. CASE Stream
  BY <1>15 DEF Stream, tars, NextPod, archive, history, TypeOK, PlaceInv, TarInv, Pod
<1>16. CASE StreamFails
  BY <1>16 DEF StreamFails, tars, Fail, archive, history, TypeOK, PlaceInv, TarInv, Pod
<1>17. CASE Archive
  BY <1>17 DEF Archive, Add, tars, archive, history, TypeOK, PlaceInv, TarInv, Pod
<1>18. CASE ArchiveFails
  BY <1>18 DEF ArchiveFails, Add, tars, archive, history, TypeOK, PlaceInv, TarInv, Pod
<1>19. CASE Remove
  BY <1>19 DEF Remove, tars, archive, history, Empty, TypeOK, PlaceInv, TarInv, Pod
<1>20. CASE RemoveFails
  BY <1>20 DEF RemoveFails, tars, archive, RemoveSome, history, TypeOK, PlaceInv, TarInv, Pod
<1>21. CASE Close
  BY <1>21 DEF Close, Report, tars, archive, history, TypeOK, PlaceInv, TarInv, Pod
<1>22. CASE CloseFails
  BY <1>22 DEF CloseFails, Report, Tear, tars, archive, history, TypeOK, PlaceInv, TarInv, Pod
<1>23. CASE Killed
  BY <1>23 DEF Killed, Add, Tear, tars, RemoveSome, archive, history, TypeOK, PlaceInv, TarInv,
     Pod
<1>24. CASE UNCHANGED vars
  BY <1>24 DEF vars, TypeOK, PlaceInv, TarInv, Pod
<1>25. QED
  BY <1>1, <1>2, <1>3, <1>4, <1>5, <1>6, <1>7, <1>8, <1>9, <1>10, <1>11, <1>12, <1>13, <1>14,
     <1>15, <1>16, <1>17, <1>18, <1>19, <1>20, <1>21, <1>22, <1>23, <1>24 DEF Next, WriteLogs,
     ZipDir

(***************************************************************************)
(* The files.                                                              *)
(***************************************************************************)

Early == {"pod", "look", "tar", "extract"}

\* The files of a log that stay as they are, or vanish, remain in order.
LEMMA FileKept ==
  ASSUME TypeOK, NEW b \in Base, FileOk(b),
         disk'[LogName(b)] \in {disk[LogName(b)], Absent},
         disk'[GzName(b)] \in {disk[GzName(b)], Absent},
         offered \subseteq offered', pod' \in Pod, pod <= pod',
         pc' \in Early => pc \in Early \/ pod < pod'
  PROVE  FileOk(b)'
<1>1. CASE disk'[LogName(b)] = Absent
  BY <1>1 DEF FileOk
<1>2. CASE disk'[LogName(b)] = disk[LogName(b)] /\ disk[LogName(b)] # Absent
  <2>1. disk[LogName(b)].pod \in Nat /\ pod \in Nat /\ pod' \in Nat
    BY <1>2, Names DEF TypeOK, Content, Pod
  <2>2. QED
    BY <1>2, <2>1 DEF FileOk, Early
<1>3. QED
  BY <1>1, <1>2

LEMMA StepFile ==
  ASSUME TypeOK, PlaceInv, TarInv, FileInv, [Next]_vars
  PROVE  FileInv'
<1> SUFFICES ASSUME NEW b \in Base PROVE FileOk(b)'
  BY DEF FileInv
<1> USE FileInv
<1> DEFINE log == LogName(b)  gz == GzName(b)
<1>a. /\ FileOk(b) /\ pod \in Nat /\ pod <= pod
      /\ log \in Name /\ gz \in Name /\ log # gz
  BY Names DEF FileInv, TypeOK, Pod
<1>b. ASSUME NextPod PROVE pod' \in Pod /\ pod <= pod' /\ (pc' \in Early => pod < pod')
  BY <1>b, NextPodType, <1>a DEF NextPod, Early
<1>1. CASE GetPod
  BY <1>1, <1>a, <1>b, FileKept DEF GetPod, tars, archive, history, TypeOK, Early
<1>2. CASE PodGone
  BY <1>2, <1>a, <1>b, FileKept DEF PodGone, tars, archive, history, TypeOK, Early
<1>3. CASE GetPodFails
  BY <1>3, <1>a, <1>b, FileKept DEF GetPodFails, tars, Fail, archive, history, TypeOK, Early
<1>4. CASE Look
  BY <1>4, <1>a, <1>b, FileKept DEF Look, tars, archive, history, Walk, TypeOK, Early
<1>5. CASE LookFails
  BY <1>5, <1>a, <1>b, FileKept DEF LookFails, tars, archive, history, TypeOK, Early
<1>6. CASE TarArrives
  BY <1>6, <1>a, <1>b, FileKept DEF TarArrives, tars, history, archive, TypeOK, Early
<1>7. CASE TarFails
  BY <1>7, <1>a, <1>b, FileKept DEF TarFails, RemoveTar, tars, archive, history, TypeOK, Early
<1>8. CASE Extract
  <2>1. PICK e \in todo : disk' = [disk EXCEPT ![<<e.base, e.form>>] = Holding(e, pod)]
    BY <1>8 DEF Extract, Put
  <2>2. e \in Entry /\ <<e, pod>> \in offered
    BY <2>1 DEF TypeOK, TarInv
  <2>3. pc = "extract" /\ UNCHANGED <<pc, pod, offered>>
    BY <1>8 DEF Extract
  <2>4. CASE e.base # b
    BY <2>1, <2>2, <2>3, <2>4, <1>a, Names, Contents, FileKept DEF TypeOK, Entry
  <2>5. CASE e.base = b /\ e.form = "log"
    <3>a. disk' = [disk EXCEPT ![log] = Holding(e, pod)]
      BY <2>1, <2>5 DEF LogName, GzName
    <3>b. disk \in [Name -> Content \cup {Absent}] /\ log \in Name /\ gz # log /\ gz \in Name
      BY <1>a DEF TypeOK
    <3>1. disk'[log] = Holding(e, pod) /\ disk'[gz] = disk[gz]
      BY <3>a, <3>b
    <3>2. QED
      BY <2>3, <2>5, <3>1, <1>a DEF FileOk, Holding
  <2>6. CASE e.base = b /\ e.form = "gz"
    <3>a. disk' = [disk EXCEPT ![gz] = Holding(e, pod)]
      BY <2>1, <2>6 DEF LogName, GzName
    <3>b. disk \in [Name -> Content \cup {Absent}] /\ gz \in Name /\ log # gz /\ log \in Name
      BY <1>a DEF TypeOK
    <3>1. disk'[gz] = Holding(e, pod) /\ disk'[log] = disk[log]
      BY <3>a, <3>b
    <3>2. disk[log] # Absent /\ disk[log].form = "gz" => disk[log].pod \in Nat /\ disk[log].pod < pod
      BY <2>3, <1>a DEF FileOk, TypeOK, Content, Pod
    <3>3. QED
      BY <2>2, <2>3, <2>6, <3>1, <3>2, <1>a DEF FileOk, Holding
  <2>7. QED
    BY <2>2, <2>4, <2>5, <2>6 DEF Entry
<1>9. CASE ExtractFails
  <2>1. PICK e \in todo : disk' \in {disk, [disk EXCEPT ![<<e.base, e.form>>] = Partial(e.form, e.shape)]}
    BY <1>9 DEF ExtractFails, Put
  <2>2. e \in Entry /\ <<e, pod>> \in offered
    BY <2>1 DEF TypeOK, TarInv
  <2>3. pc = "extract" /\ pc' = "stream" /\ UNCHANGED <<pod, offered>>
    BY <1>9 DEF ExtractFails, RemoveTar, tars, archive, StopExtracting, history
  <2>4. CASE disk' = disk \/ e.base # b
    BY <2>1, <2>2, <2>3, <2>4, <1>a, Names, Contents, FileKept DEF TypeOK, Entry, Early
  <2>5. CASE disk' # disk /\ e.base = b /\ e.form = "log"
    <3>a. disk' = [disk EXCEPT ![log] = Partial(e.form, e.shape)]
      BY <2>1, <2>5 DEF LogName, GzName
    <3>b. disk \in [Name -> Content \cup {Absent}] /\ log \in Name /\ gz # log /\ gz \in Name
      BY <1>a DEF TypeOK
    <3>1. disk'[log] = Partial(e.form, e.shape) /\ disk'[gz] = disk[gz]
      BY <3>a, <3>b
    <3>2. QED
      BY <2>3, <2>5, <3>1, <1>a DEF FileOk, Partial
  <2>6. CASE disk' # disk /\ e.base = b /\ e.form = "gz"
    <3>a. disk' = [disk EXCEPT ![gz] = Partial(e.form, e.shape)]
      BY <2>1, <2>6 DEF LogName, GzName
    <3>b. disk \in [Name -> Content \cup {Absent}] /\ gz \in Name /\ log # gz /\ log \in Name
      BY <1>a DEF TypeOK
    <3>1. disk'[gz] = Partial(e.form, e.shape) /\ disk'[log] = disk[log]
      BY <3>a, <3>b
    <3>2. disk[log] # Absent /\ disk[log].form = "gz" => disk[log].pod \in Nat /\ disk[log].pod < pod
      BY <2>3, <1>a DEF FileOk, TypeOK, Content, Pod
    <3>3. QED
      BY <2>2, <2>3, <2>6, <3>1, <3>2, <1>a DEF FileOk, Partial
  <2>7. QED
    BY <2>2, <2>4, <2>5, <2>6 DEF Entry
<1>10. CASE Extracted
  BY <1>10, <1>a, <1>b, FileKept DEF Extracted, RemoveTar, tars, archive, history, Walk, TypeOK,
     Early
<1>11. CASE Gunzip
  <2>1. PICK n \in walk : disk' = disk \/ (disk[n].shape = "packed" /\ disk' = Unpacked(n))
    BY <1>11 DEF Gunzip, FirstOf
  <2>2. n \in Name /\ disk[n] \in Content /\ n[1] \in Base /\ n = GzName(n[1])
    BY <2>1, Names DEF TypeOK, PlaceInv, Files
  <2>3. pc = "gunzip" /\ UNCHANGED <<pc, pod, offered>>
    BY <1>11 DEF Gunzip, tars, archive, history
  <2>4. CASE disk' = disk \/ n[1] # b
    BY <2>1, <2>2, <2>3, <2>4, <1>a, Names, FileKept DEF TypeOK, Unpacked
  <2>5. CASE disk' = Unpacked(n) /\ n[1] = b
    <3>1. disk'[gz] = Absent /\ disk'[log] = [disk[gz] EXCEPT !.shape = "unpacked"]
      BY <2>2, <2>5, <1>a DEF TypeOK, Unpacked
    <3>2. disk[gz].pod <= pod
      BY <2>2, <2>5, <1>a DEF FileOk, TarInv
    <3>3. disk'[log].pod = disk[gz].pod
      BY <2>2, <2>5, <3>1 DEF Content
    <3>4. QED
      BY <2>3, <3>1, <3>2, <3>3 DEF FileOk
  <2>6. QED
    BY <2>1, <2>4, <2>5
<1>12. CASE GunzipFails
  <2>1. PICK n \in walk : disk' = [disk EXCEPT ![n] = Absent, ![LogName(n[1])] = Absent]
    BY <1>12 DEF GunzipFails, FirstOf
  <2>2. disk'[log] \in {disk[log], Absent} /\ disk'[gz] \in {disk[gz], Absent}
    BY <2>1, <1>a DEF TypeOK
  <2>3. QED
    BY <1>12, <2>2, <1>a, FileKept DEF GunzipFails, Spoils, tars, archive, history, TypeOK, Early
<1>13. CASE GunzipRefused
  BY <1>13, <1>a, <1>b, FileKept DEF GunzipRefused, tars, archive, history, TypeOK, Early
<1>14. CASE Gunzipped
  BY <1>14, <1>a, <1>b, FileKept DEF Gunzipped, tars, archive, history, TypeOK, Early
<1>15. CASE Stream
  <2>1. disk'[log] = disk[log] /\ disk'[gz] = disk[gz]
    BY <1>15, <1>a, Names DEF Stream, tars, archive, history, Put, TypeOK
  <2>2. QED
    BY <1>15, <2>1, <1>a, <1>b, FileKept DEF Stream, tars, archive, history
<1>16. CASE StreamFails
  <2>1. disk'[log] = disk[log] /\ disk'[gz] = disk[gz]
    BY <1>16, <1>a, Names DEF StreamFails, tars, archive, history, Put, TypeOK
  <2>2. QED
    BY <1>16, <2>1, <1>a, FileKept DEF StreamFails, tars, archive, Fail, history, TypeOK, Early
<1>17. CASE Archive
  BY <1>17, <1>a, <1>b, FileKept DEF Archive, Add, tars, archive, history, TypeOK, Early
<1>18. CASE ArchiveFails
  BY <1>18, <1>a, <1>b, FileKept DEF ArchiveFails, Add, tars, archive, history, TypeOK, Early
<1>19. CASE Remove
  BY <1>19, <1>a, <1>b, FileKept DEF Remove, tars, archive, history, Empty, TypeOK, Early
<1>20. CASE RemoveFails
  <2>1. disk'[log] \in {disk[log], Absent} /\ disk'[gz] \in {disk[gz], Absent}
    BY <1>20, <1>a DEF RemoveFails, RemoveSome, Only
  <2>2. QED
    BY <1>20, <2>1, <1>a, FileKept DEF RemoveFails, tars, archive, history, TypeOK, Early
<1>21. CASE Close
  BY <1>21, <1>a, <1>b, FileKept DEF Close, Report, tars, archive, history, TypeOK, Early
<1>22. CASE CloseFails
  BY <1>22, <1>a, <1>b, FileKept DEF CloseFails, Report, Tear, tars, archive, history, TypeOK,
     Early
<1>23. CASE Killed
  <2>1. disk'[log] \in {disk[log], Absent} /\ disk'[gz] \in {disk[gz], Absent}
    BY <1>23, <1>a DEF Killed, RemoveSome, Only
  <2>2. QED
    BY <1>23, <2>1, <1>a, FileKept DEF Killed, Add, Tear, tars, archive, history, TypeOK, Early
<1>24. CASE UNCHANGED vars
  BY <1>24, <1>a, <1>b, FileKept DEF vars, TypeOK, Early
<1>25. QED
  BY <1>1, <1>2, <1>3, <1>4, <1>5, <1>6, <1>7, <1>8, <1>9, <1>10, <1>11, <1>12, <1>13, <1>14,
     <1>15, <1>16, <1>17, <1>18, <1>19, <1>20, <1>21, <1>22, <1>23, <1>24 DEF Next, WriteLogs,
     ZipDir

(***************************************************************************)
(* Nothing gets lost without a reason.                                     *)
(***************************************************************************)

\* The two names an entry can be found under.
LEMMA Places ==
  ASSUME BundleInv, NEW s \in copied
  PROVE  /\ s[1] \in Entry /\ s[1].base \in Base /\ s[1].form \in {"log", "gz"} /\ s[2] \in Pod
         /\ LogName(s[1].base) \in Name /\ GzName(s[1].base) \in Name
         /\ s \in offered
<1>1. s[1] \in Entry /\ s[2] \in Pod /\ s \in offered
  BY DEF BundleInv, TypeOK
<1>2. QED
  BY <1>1, Names DEF Entry

\* Before there is an archive only the directory holds anything.
LEMMA NothingArchived ==
  ASSUME BundleInv, zip = "none", NEW s \in copied
  PROVE  ~Holds(Archived, s[1], s[2]) /\ ~Unwritten(s[1], s[2])
<1>1. added = {} /\ unwritten = {}
  BY DEF BundleInv, PlaceInv
<1>2. QED
  BY <1>1, Places DEF Holds, Archived, Unwritten, Collected

\* Reasons persist until the archive is closed or torn.
LEMMA StillExplained ==
  ASSUME BundleInv, NEW s \in copied, zip = "none",
         offered \subseteq offered', spoiled \subseteq spoiled',
         Holds(disk, s[1], s[2]) => Holds(disk', s[1], s[2]),
         Lost(s[1], s[2])'
  PROVE  (Replaceable(s[1], s[2]) \/ Undecodable(s[1], s[2]) \/ Unwritten(s[1], s[2]))'
<1>1. Lost(s[1], s[2])
  BY NothingArchived DEF Lost, Holds
<1>2. Replaceable(s[1], s[2]) \/ Undecodable(s[1], s[2])
  BY <1>1, NothingArchived DEF BundleInv, LossExplained
<1>3. QED
  BY <1>2 DEF Replaceable, Undecodable

\* What is lost while the archive is made or closed was lost before it, or the
\* writer still had it in memory.
LEMMA ExplainedAfter ==
  ASSUME BundleInv, TypeOK', PlaceInv', NEW s \in copied, zip' # "none",
         UNCHANGED <<offered, spoiled, keep>>,
         zip = "none" => UNCHANGED disk /\ collected' = disk,
         zip # "none" => zip = "open" /\ UNCHANGED <<added, collected>>,
         Lost(s[1], s[2])'
  PROVE  (Replaceable(s[1], s[2]) \/ Undecodable(s[1], s[2]) \/ Unwritten(s[1], s[2]))'
<1> DEFINE e == s[1]  p == s[2]
           Reason == Replaceable(e, p) \/ Undecodable(e, p)
<1>a. LogName(e.base) \in Name /\ GzName(e.base) \in Name
  BY Places
<1>1. ASSUME Lost(e, p) PROVE Reason
  <2>1. ~Unwritten(e, p)
    BY <1>a DEF BundleInv, PlaceInv, Unwritten, Holds, Collected
  <2>2. QED
    BY <1>1, <2>1 DEF BundleInv, LossExplained
<1>2. Reason => Reason'
  BY DEF Replaceable, Undecodable
<1>3. Holds(collected', e, p) \/ Reason
  <2>1. CASE zip = "none"
    BY <1>1, <2>1, NothingArchived DEF Lost
  <2>2. CASE zip # "none"
    <3>1. Holds(disk, e, p) \/ Holds(Archived, e, p) \/ Reason
      BY <1>1 DEF Lost
    <3>2. \A n \in Name : disk[n] \in {collected[n], Absent} /\ Archived[n] \in {collected[n], Absent}
      BY <2>2 DEF BundleInv, PlaceInv, Kept, Archived, Collected
    <3>3. QED
      BY <2>2, <3>1, <3>2, <1>a DEF Holds
  <2>3. QED
    BY <2>1, <2>2
<1>4. CASE disk' = collected'
  <2>1. ~Holds(collected', e, p)
    BY <1>4 DEF Lost, Holds
  <2>2. QED
    BY <1>2, <1>3, <2>1
<1>5. CASE Whole' /\ ~keep'
  <2>1. ASSUME Holds(collected', e, p) PROVE Unwritten(e, p)'
    <3>1. PICK n \in {LogName(e.base), GzName(e.base)} :
              /\ collected'[n] # Absent
              /\ collected'[n].pod = p /\ collected'[n].form = e.form
              /\ collected'[n].shape \in {e.shape, "unpacked"}
      BY <2>1 DEF Holds
    <3>2. n \in added' /\ n \in Name
      BY <1>5, <1>a, <3>1 DEF Whole
    <3>3. n \in unwritten'
      BY <3>1, <3>2 DEF Lost, Holds, Archived, Collected
    <3>4. QED
      BY <1>5, <3>1, <3>2, <3>3 DEF Unwritten, Holds, Collected
  <2>2. QED
    BY <1>2, <1>3, <2>1
<1>6. QED
  BY <1>4, <1>5 DEF PlaceInv

\* Extraction writes over files of other pods only.
LEMMA Overwritten ==
  ASSUME BundleInv, pc = "extract", NEW e \in todo, NEW s \in copied, NEW content,
         disk' = [disk EXCEPT ![<<e.base, e.form>>] = content],
         Holds(disk, s[1], s[2]), ~Holds(disk', s[1], s[2])
  PROVE  s[1].base = e.base /\ s[2] # pod /\ <<e, pod>> \in offered
<1>1. e \in Entry /\ e.base \in Base /\ e.form \in {"log", "gz"} /\ <<e, pod>> \in offered
  BY DEF BundleInv, TypeOK, TarInv, Entry
<1>2. PICK n \in {LogName(s[1].base), GzName(s[1].base)} :
           /\ disk[n] # Absent
           /\ disk[n].pod = s[2] /\ disk[n].form = s[1].form
           /\ disk[n].shape \in {s[1].shape, "unpacked"}
  BY DEF Holds
<1>3. n \in Name /\ <<e.base, e.form>> \in Name
  BY <1>1, <1>2, Places, Contents
<1>4. disk'[n] # disk[n]
  BY <1>2 DEF Holds
<1>5. n = <<e.base, e.form>>
  BY <1>3, <1>4 DEF BundleInv, TypeOK
<1>6. s[1].base = e.base /\ n = (IF e.form = "log" THEN LogName(e.base) ELSE GzName(e.base))
  BY <1>1, <1>2, <1>5, Places, Contents, Names
<1>7. ASSUME s[2] = pod PROVE FALSE
  <2>1. s[1].form # e.form
    BY <1>6, <1>7 DEF BundleInv, TarInv
  <2>2. FileOk(e.base) /\ pod \in Nat
    BY <1>1 DEF BundleInv, FileInv, TypeOK, Pod
  <2>3. CASE e.form = "log"
    <3>1. disk[LogName(e.base)].form = "gz" /\ disk[LogName(e.base)] # Absent
      BY <1>2, <1>6, <2>1, <2>3, Places
    <3>2. QED
      BY <1>2, <1>6, <1>7, <2>2, <2>3, <3>1 DEF FileOk
  <2>4. CASE e.form = "gz"
    BY <1>2, <1>6, <2>1, <2>2, <2>4 DEF FileOk
  <2>5. QED
    BY <1>1, <2>3, <2>4
<1>8. QED
  BY <1>1, <1>6, <1>7

\* Decompression writes over files that the .gz may replace.
LEMMA Unpacking ==
  ASSUME BundleInv, NEW b \in Base, disk[GzName(b)] # Absent, disk[GzName(b)].shape # "junk",
         NEW s \in copied, s[1].base = b, disk[LogName(b)] # Absent,
         disk[LogName(b)].pod = s[2], disk[LogName(b)].form = s[1].form
  PROVE  Replaceable(s[1], s[2])
<1>1. FileOk(b)
  BY DEF BundleInv, FileInv
<1>2. PICK t \in offered : /\ t[1].base = b /\ t[1].form = "gz" /\ t[2] = disk[GzName(b)].pod
                           /\ t[1].shape # "junk"
  BY <1>1 DEF FileOk
<1>3. s[1].form = "log" \/ t[2] # s[2]
  BY <1>1, <1>2, Places DEF FileOk
<1>4. QED
  BY <1>2, <1>3 DEF Replaceable

LEMMA StepLoss ==
  ASSUME BundleInv, [Next]_vars, TypeOK', PlaceInv'
  PROVE  LossExplained'
<1> SUFFICES ASSUME NEW s \in copied', Lost(s[1], s[2])'
             PROVE  (Replaceable(s[1], s[2]) \/ Undecodable(s[1], s[2]) \/ Unwritten(s[1], s[2]))'
  BY DEF LossExplained
<1>a. pc \notin {"remove", "close", "done"} => zip = "none"
  BY DEF BundleInv, PlaceInv
<1>1. CASE GetPod
  BY <1>1, <1>a, StillExplained DEF GetPod, tars, archive, history, BundleInv, PlaceInv
<1>2. CASE PodGone
  BY <1>2, <1>a, StillExplained DEF PodGone, tars, archive, history, BundleInv, PlaceInv
<1>3. CASE GetPodFails
  BY <1>3, <1>a, StillExplained DEF GetPodFails, tars, Fail, archive, history, BundleInv,
     PlaceInv
<1>4. CASE Look
  BY <1>4, <1>a, StillExplained DEF Look, tars, archive, history, BundleInv, PlaceInv
<1>5. CASE LookFails
  BY <1>5, <1>a, StillExplained DEF LookFails, tars, archive, history, BundleInv, PlaceInv
<1>6. CASE TarArrives
  BY <1>6, <1>a, StillExplained DEF TarArrives, tars, history, archive, BundleInv, PlaceInv
<1>7. CASE TarFails
  BY <1>7, <1>a, StillExplained DEF TarFails, RemoveTar, tars, archive, history,
     BundleInv, PlaceInv
<1>8. CASE Extract
  <2>1. PICK e \in todo :
           /\ disk' = [disk EXCEPT ![<<e.base, e.form>>] = Holding(e, pod)]
           /\ copied' = copied \cup {<<e, pod>>} /\ e.shape # "huge"
    BY <1>8 DEF Extract, Put
  <2>2. pc = "extract" /\ UNCHANGED <<offered, spoiled>>
    BY <1>8 DEF Extract, tars, history, archive
  <2>3. CASE s = <<e, pod>>
    <3>1. /\ e \in Entry /\ pod \in Pod /\ <<e.base, e.form>> \in Name
        /\ <<e.base, e.form>> \in {LogName(e.base), GzName(e.base)}
      BY Contents DEF BundleInv, TypeOK
    <3>2. disk'[<<e.base, e.form>>] = Holding(e, pod) /\ Holding(e, pod) # Absent
      BY <2>1, <3>1, Contents DEF BundleInv, TypeOK
    <3>3. Holds(disk', e, pod)
      BY <3>1, <3>2 DEF Holds, Holding
    <3>4. QED
      BY <2>3, <3>3 DEF Lost, Holds
  <2>4. CASE s \in copied /\ Holds(disk, s[1], s[2]) /\ ~Holds(disk', s[1], s[2])
    BY <2>1, <2>2, <2>4, Overwritten DEF Replaceable
  <2>5. CASE s \in copied /\ ~(Holds(disk, s[1], s[2]) /\ ~Holds(disk', s[1], s[2]))
    BY <2>2, <2>5, <1>a, StillExplained
  <2>6. QED
    BY <2>1, <2>3, <2>4, <2>5
<1>9. CASE ExtractFails
  <2>1. PICK e \in todo : disk' \in {disk, [disk EXCEPT ![<<e.base, e.form>>] = Partial(e.form, e.shape)]}
    BY <1>9 DEF ExtractFails, Put
  <2>2. pc = "extract" /\ UNCHANGED <<offered, copied, spoiled>>
    BY <1>9, <1>a DEF ExtractFails, RemoveTar, tars, archive, history
  <2>3. CASE Holds(disk, s[1], s[2]) /\ ~Holds(disk', s[1], s[2])
    <3>1. disk' = [disk EXCEPT ![<<e.base, e.form>>] = Partial(e.form, e.shape)]
      BY <2>1, <2>3
    <3>2. s[1].base = e.base /\ s[2] # pod /\ <<e, pod>> \in offered
      BY <2>2, <2>3, <3>1, Overwritten
    <3>3. QED
      BY <2>2, <3>2 DEF Replaceable
  <2>4. CASE ~(Holds(disk, s[1], s[2]) /\ ~Holds(disk', s[1], s[2]))
    BY <2>2, <2>4, <1>a, StillExplained
  <2>5. QED
    BY <2>3, <2>4
<1>10. CASE Extracted
  BY <1>10, <1>a, StillExplained DEF Extracted, RemoveTar, tars, archive, history,
     BundleInv, PlaceInv
<1>11. CASE Gunzip
  <2>1. PICK n \in walk : disk' = disk \/ (disk[n].shape = "packed" /\ disk' = Unpacked(n))
    BY <1>11 DEF Gunzip, FirstOf
  <2>2. pc = "gunzip" /\ UNCHANGED <<offered, copied, spoiled>>
    BY <1>11 DEF Gunzip, tars, archive, history
  <2>3. CASE Holds(disk, s[1], s[2]) => Holds(disk', s[1], s[2])
    BY <2>2, <2>3, <1>a, StillExplained
  <2>4. CASE Holds(disk, s[1], s[2]) /\ ~Holds(disk', s[1], s[2])
    <3>1. disk[n].shape = "packed" /\ disk' = Unpacked(n)
      BY <2>1, <2>4
    <3>2. PICK b \in Base : n = GzName(b) /\ disk[n] # Absent /\ disk[n] \in Content /\ n[1] = b
      BY <2>1, Names DEF BundleInv, TypeOK, PlaceInv, Files
    <3>3. disk' = [disk EXCEPT ![GzName(b)] = Absent,
                             ![LogName(b)] = [disk[GzName(b)] EXCEPT !.shape = "unpacked"]]
      BY <3>1, <3>2 DEF Unpacked
    <3>4. PICK m \in {LogName(s[1].base), GzName(s[1].base)} :
              /\ disk[m] # Absent
              /\ disk[m].pod = s[2] /\ disk[m].form = s[1].form
              /\ disk[m].shape \in {s[1].shape, "unpacked"}
      BY <2>4 DEF Holds
    <3>5. m \in Name /\ (m \in {GzName(b), LogName(b)} => s[1].base = b) /\ disk'[m] # disk[m]
      BY <2>2, <2>4, <3>2, <3>4, Places, Names DEF Holds
    <3>6. CASE m = GzName(b)
      <4>1. disk'[LogName(b)] = [disk[m] EXCEPT !.shape = "unpacked"]
        BY <3>2, <3>3, <3>6, Names DEF BundleInv, TypeOK
      <4>2. /\ disk'[LogName(b)] # Absent /\ disk'[LogName(b)].pod = s[2]
            /\ disk'[LogName(b)].form = s[1].form /\ disk'[LogName(b)].shape = "unpacked"
        BY <3>2, <3>4, <3>6, <4>1, Contents DEF Content
      <4>3. QED
        BY <2>4, <3>5, <3>6, <4>2 DEF Holds
    <3>7. CASE m = LogName(b)
      BY <2>2, <3>1, <3>2, <3>4, <3>5, <3>7, Unpacking DEF Replaceable
    <3>8. CASE m \notin {GzName(b), LogName(b)}
      BY <3>2, <3>3, <3>5, <3>8 DEF BundleInv, TypeOK
    <3>9. QED
      BY <3>6, <3>7, <3>8
  <2>5. QED
    BY <2>3, <2>4
<1>12. CASE GunzipFails
  <2>1. PICK n \in walk :
           /\ disk' = [disk EXCEPT ![n] = Absent, ![LogName(n[1])] = Absent]
           /\ \/ disk[n].shape \in {"short", "big", "part"} /\ UNCHANGED spoiled
              \/ disk[n].shape = "packed" /\ Spoils(n)
    BY <1>12 DEF GunzipFails, FirstOf
  <2>2. UNCHANGED <<offered, copied>> /\ spoiled \subseteq spoiled' /\ pc = "gunzip"
    BY <1>12, <1>a DEF GunzipFails, Spoils, tars, archive, history
  <2>3. CASE Holds(disk, s[1], s[2]) => Holds(disk', s[1], s[2])
    BY <2>2, <2>3, <1>a, StillExplained
  <2>4. CASE Holds(disk, s[1], s[2]) /\ ~Holds(disk', s[1], s[2])
    <3>1. PICK b \in Base : n = GzName(b) /\ disk[n] # Absent /\ n[1] = b
      BY <2>1, Names DEF BundleInv, TypeOK, PlaceInv, Files
    <3>2. PICK m \in {LogName(s[1].base), GzName(s[1].base)} :
              /\ disk[m] # Absent
              /\ disk[m].pod = s[2] /\ disk[m].form = s[1].form
              /\ disk[m].shape \in {s[1].shape, "unpacked"}
      BY <2>4 DEF Holds
    <3>3. m \in Name /\ (m \in {GzName(b), LogName(b)} => s[1].base = b) /\ disk'[m] # disk[m]
      BY <2>2, <2>4, <3>1, <3>2, Places, Names DEF Holds
    <3>4. CASE m = GzName(b)
      <4>1. s[1].form = "gz" /\ disk[n].shape = s[1].shape
        BY <2>1, <3>1, <3>2, <3>4 DEF BundleInv, FileInv, FileOk
      <4>2. s[1].shape # "part"
        BY <2>2, Places DEF Entry, Gzip
      <4>3. CASE disk[n].shape \in {"short", "big", "part"}
        BY <4>1, <4>2, <4>3 DEF Undecodable
      <4>4. CASE disk[n].shape = "packed" /\ Spoils(n)
        <5>1. s[1] = [base |-> b, form |-> "gz", shape |-> "packed"] /\ s[1] \in Entry
          BY <2>2, <3>3, <3>4, <4>1, <4>4, Places DEF Entry
        <5>2. s = <<s[1], s[2]>> /\ disk[n].pod = s[2]
          BY <2>2, <3>1, <3>2, <3>4 DEF BundleInv, TypeOK
        <5>3. QED
          BY <3>1, <4>1, <4>4, <5>1, <5>2 DEF Undecodable, Spoils
      <4>5. QED
        BY <2>1, <4>3, <4>4
    <3>5. CASE m = LogName(b)
      BY <2>1, <2>2, <3>1, <3>2, <3>3, <3>5, Unpacking DEF Replaceable
    <3>6. CASE m \notin {GzName(b), LogName(b)}
      BY <2>1, <3>1, <3>3, <3>6 DEF BundleInv, TypeOK
    <3>7. QED
      BY <3>4, <3>5, <3>6
  <2>5. QED
    BY <2>3, <2>4
<1>13. CASE GunzipRefused
  BY <1>13, <1>a, StillExplained DEF GunzipRefused, tars, archive, history, BundleInv,
     PlaceInv
<1>14. CASE Gunzipped
  BY <1>14, <1>a, StillExplained DEF Gunzipped, tars, archive, history, BundleInv, PlaceInv
<1>15. CASE Stream
  <2>1. /\ \A b \in Base : disk'[LogName(b)] = disk[LogName(b)] /\ disk'[GzName(b)] = disk[GzName(b)]
        /\ pc = "stream" /\ UNCHANGED <<offered, copied, spoiled>>
    BY <1>15, Names DEF Stream, tars, Put, archive, history, BundleInv, TypeOK
  <2>2. Holds(disk, s[1], s[2]) => Holds(disk', s[1], s[2])
    BY <2>1, Places DEF Holds
  <2>3. QED
    BY <2>1, <2>2, <1>a, StillExplained
<1>16. CASE StreamFails
  <2>1. /\ \A b \in Base : disk'[LogName(b)] = disk[LogName(b)] /\ disk'[GzName(b)] = disk[GzName(b)]
        /\ pc = "stream" /\ UNCHANGED <<offered, copied, spoiled>>
    BY <1>16, <1>a, Names DEF StreamFails, tars, Put, archive, history, BundleInv, TypeOK
  <2>2. Holds(disk, s[1], s[2]) => Holds(disk', s[1], s[2])
    BY <2>1, Places DEF Holds
  <2>3. QED
    BY <2>1, <2>2, <1>a, StillExplained
<1>17. CASE ZipDir \/ Killed
  <2>1. UNCHANGED <<offered, copied, spoiled, keep>>
    BY <1>17 DEF ZipDir, Archive, ArchiveFails, Remove, RemoveFails, Close, CloseFails, Killed, history
  <2>2. CASE zip' # "none"
    <3>1. /\ zip = "none" => UNCHANGED disk /\ collected' = disk
          /\ zip # "none" => zip = "open" /\ UNCHANGED <<added, collected>>
      BY <1>17, <2>2 DEF ZipDir, Archive, ArchiveFails, Remove, RemoveFails, Close, CloseFails,
         Killed, Add, Tear, archive, BundleInv, PlaceInv
    <3>2. QED
      BY <2>1, <2>2, <3>1, ExplainedAfter
  <2>3. CASE zip' = "none"
    <3>1. zip = "none" /\ UNCHANGED disk
      BY <1>17, <2>3 DEF ZipDir, Archive, ArchiveFails, Remove, RemoveFails, Close, CloseFails,
         Killed, Add, Tear, archive, BundleInv, PlaceInv
    <3>2. QED
      BY <2>1, <3>1, StillExplained
  <2>4. QED
    BY <2>2, <2>3
<1>18. CASE UNCHANGED vars
  <2>1. Archived' = Archived /\ Collected(unwritten)' = Collected(unwritten)
    BY <1>18 DEF vars, Archived, Collected
  <2>2. s \in copied /\ Lost(s[1], s[2])
    BY <1>18, <2>1 DEF vars, Lost, Holds
  <2>3. Replaceable(s[1], s[2]) \/ Undecodable(s[1], s[2]) \/ Unwritten(s[1], s[2])
    BY <2>2 DEF BundleInv, LossExplained
  <2>4. QED
    BY <1>18, <2>1, <2>3 DEF vars, Replaceable, Undecodable, Unwritten, Holds
<1>19. QED
  BY <1>1, <1>2, <1>3, <1>4, <1>5, <1>6, <1>7, <1>8, <1>9, <1>10, <1>11, <1>12, <1>13, <1>14,
     <1>15, <1>16, <1>17, <1>18 DEF Next, WriteLogs

LEMMA StepNoTar ==
  ASSUME BundleInv, [Next]_vars
  PROVE  NoTarInArchive'
<1>1. CASE GetPod
  BY <1>1 DEF GetPod, tars, archive, history, BundleInv, TypeOK, PlaceInv, NoTarInArchive
<1>2. CASE PodGone
  BY <1>2 DEF PodGone, tars, archive, history, BundleInv, TypeOK, PlaceInv, NoTarInArchive
<1>3. CASE GetPodFails
  BY <1>3 DEF GetPodFails, tars, Fail, archive, history, BundleInv, TypeOK, PlaceInv,
     NoTarInArchive
<1>4. CASE Look
  BY <1>4 DEF Look, tars, archive, history, BundleInv, TypeOK, PlaceInv, NoTarInArchive
<1>5. CASE LookFails
  BY <1>5 DEF LookFails, tars, archive, history, BundleInv, TypeOK, PlaceInv, NoTarInArchive
<1>6. CASE TarArrives
  BY <1>6 DEF TarArrives, tars, history, archive, BundleInv, TypeOK, PlaceInv, NoTarInArchive
<1>7. CASE TarFails
  BY <1>7 DEF TarFails, RemoveTar, tars, archive, history, BundleInv, TypeOK, PlaceInv,
     NoTarInArchive
<1>8. CASE Extract
  BY <1>8 DEF Extract, tars, history, archive, BundleInv, TypeOK, PlaceInv, NoTarInArchive
<1>9. CASE ExtractFails
  BY <1>9 DEF ExtractFails, RemoveTar, tars, StopExtracting, archive, history, BundleInv,
     TypeOK, PlaceInv, NoTarInArchive
<1>10. CASE Extracted
  BY <1>10 DEF Extracted, RemoveTar, tars, archive, history, BundleInv, TypeOK, PlaceInv,
     NoTarInArchive
<1>11. CASE Gunzip
  BY <1>11 DEF Gunzip, tars, Unpacked, archive, history, BundleInv, TypeOK, PlaceInv,
     NoTarInArchive
<1>12. CASE GunzipFails
  BY <1>12 DEF GunzipFails, Spoils, tars, archive, history, BundleInv, TypeOK, PlaceInv,
     NoTarInArchive
<1>13. CASE GunzipRefused
  BY <1>13 DEF GunzipRefused, tars, archive, history, BundleInv, TypeOK, PlaceInv, NoTarInArchive
<1>14. CASE Gunzipped
  BY <1>14 DEF Gunzipped, tars, archive, history, BundleInv, TypeOK, PlaceInv, NoTarInArchive
<1>15. CASE Stream
  BY <1>15 DEF Stream, tars, archive, history, BundleInv, TypeOK, PlaceInv, NoTarInArchive
<1>16. CASE StreamFails
  BY <1>16 DEF StreamFails, tars, Fail, archive, history, BundleInv, TypeOK, PlaceInv,
     NoTarInArchive
<1>17. CASE Archive
  BY <1>17 DEF Archive, Add, tars, archive, history, BundleInv, TypeOK, PlaceInv, NoTarInArchive
<1>18. CASE ArchiveFails
  BY <1>18 DEF ArchiveFails, Add, tars, archive, history, BundleInv, TypeOK, PlaceInv,
     NoTarInArchive
<1>19. CASE Remove
  BY <1>19 DEF Remove, tars, archive, history, Empty, BundleInv, TypeOK, PlaceInv, NoTarInArchive
<1>20. CASE RemoveFails
  BY <1>20 DEF RemoveFails, RemoveSome, archive, BundleInv, TypeOK, PlaceInv, NoTarInArchive
<1>21. CASE Close
  BY <1>21 DEF Close, Report, tars, archive, history, BundleInv, TypeOK, PlaceInv, NoTarInArchive
<1>22. CASE CloseFails
  BY <1>22 DEF CloseFails, Report, Tear, tars, archive, history, BundleInv, TypeOK, PlaceInv,
     NoTarInArchive
<1>23. CASE Killed
  BY <1>23 DEF Killed, RemoveSome, Add, Tear, archive, BundleInv, TypeOK, PlaceInv,
     NoTarInArchive
<1>24. CASE UNCHANGED vars
  BY <1>24 DEF vars, BundleInv, TypeOK, PlaceInv, NoTarInArchive
<1>25. QED
  BY <1>1, <1>2, <1>3, <1>4, <1>5, <1>6, <1>7, <1>8, <1>9, <1>10, <1>11, <1>12, <1>13, <1>14,
     <1>15, <1>16, <1>17, <1>18, <1>19, <1>20, <1>21, <1>22, <1>23, <1>24 DEF Next, WriteLogs,
     ZipDir

(***************************************************************************)
(* Theorems.                                                               *)
(***************************************************************************)

LEMMA InitBundle == Init => BundleInv
<1> SUFFICES ASSUME Init PROVE BundleInv
  OBVIOUS
<1>1. TypeOK
  BY InitTypeOK
<1>2. PlaceInv /\ TarInv /\ NoTarInArchive /\ LossExplained
  BY DEF Init, PlaceInv, TarInv, NoTarInArchive, LossExplained
<1>3. FileInv
  BY Names DEF Init, FileInv, FileOk, Empty
<1>4. QED
  BY <1>1, <1>2, <1>3 DEF BundleInv

LEMMA StepBundle == BundleInv /\ [Next]_vars => BundleInv'
BY StepTypeOK, StepPlace, StepTar, StepFile, StepLoss, StepNoTar DEF BundleInv

\* What the command keeps track of, and why its guarantees hold: at every step
\* of the collector, for any pods, logs and faults.
THEOREM BundleInvariant == Spec => []BundleInv
BY InitBundle, StepBundle, PTL DEF Spec

\* Every variable keeps to its type (the collector's whole state).
THEOREM BundleTypeCorrect == Spec => []TypeOK
<1>1. BundleInv => TypeOK
  BY DEF BundleInv
<1>2. QED
  BY <1>1, BundleInvariant, PTL

\* A file copied from a control-plane pod (CopyDirFromPod) is lost only because
\* another replaced it, because it could not be decompressed, or because its end was
\* in memory when the archive of a directory that was being removed broke off.
THEOREM LossesExplained == Spec => []LossExplained
<1>1. BundleInv => LossExplained
  BY DEF BundleInv
<1>2. QED
  BY <1>1, BundleInvariant, PTL

\* The temporary tar of CopyDirFromPod never gets into the archive, unless the
\* os.Remove whose error is ignored has failed.
THEOREM TarNeverArchived == Spec => []NoTarInArchive
<1>1. BundleInv => NoTarInArchive
  BY DEF BundleInv
<1>2. QED
  BY <1>1, BundleInvariant, PTL

\* zipDir removes the directory only when all of it has been given to the archive;
\* only a kill, or a failing w.Close, after that can lose a file.
THEOREM ArchivedFirst == Spec => []ArchivedBeforeRemoved
<1>1. BundleInv => ArchivedBeforeRemoved
  <2> SUFFICES ASSUME BundleInv, NEW n \in Name, collected[n] # Absent, disk[n] # collected[n]
               PROVE  \/ n \in added /\ zip \in {"open", "closed"}
                      \/ zip = "torn" /\ Whole /\ ~keep
    BY DEF ArchivedBeforeRemoved
  <2>1. zip # "none"
    BY DEF BundleInv, PlaceInv, Empty
  <2>2. Whole /\ ~keep
    BY <2>1 DEF BundleInv, PlaceInv
  <2>3. QED
    BY <2>1, <2>2 DEF BundleInv, TypeOK, Whole
<1>2. QED
  BY <1>1, BundleInvariant, PTL

(***************************************************************************)
(* The collector comes to the end of its files.  No fairness is needed to  *)
(* say so: every step of the program lowers Rank in a well-founded order,  *)
(* so that there is no endless sequence of them, whatever the pods hold.   *)
(***************************************************************************)

\* What is left to do: pods, calls for the pod or the archive, entries, .gz files.
PodsLeft ==
  IF pc \in {"pod", "look", "tar", "extract", "gunzip", "stream"} THEN PodCount + 1 - pod ELSE 0
CallsLeft ==
  CASE pc = "pod" -> 6 [] pc = "look" -> 5 [] pc = "tar" -> 4 [] pc = "extract" -> 3
    [] pc = "gunzip" -> 2 [] pc = "stream" -> 1
    [] pc = "zip" -> 3 [] pc = "remove" -> 2 [] pc = "close" -> 1 [] OTHER -> 0
Rank == <<PodsLeft, CallsLeft, Cardinality(todo), Cardinality(walk)>>

Ranks == [1 .. 4 -> Nat]
Order == LexProductOrdering(OpToRel(<, Nat), Nat, 4)
Nearer == <<Rank', Rank>> \in Order

LEMMA OrderEnds == IsWellFoundedOn(Order, Ranks)
BY NatLessThanWellFounded, WFLexProductOrdering, 4 \in Nat DEF Order, Ranks

\* Of two ranks, that one is lower which is lower where they first differ.
LEMMA Lower ==
  ASSUME NEW r \in Ranks, NEW s \in Ranks,
         NEW n \in 1 .. 4, r[n] < s[n], \A m \in 1 .. 4 : m < n => r[m] = s[m]
  PROVE  <<r, s>> \in Order
<1>1. <<r[n], s[n]>> \in OpToRel(<, Nat)
  BY DEF OpToRel, Ranks
<1>2. \A m \in 1 .. n - 1 : r[m] = s[m]
  OBVIOUS
<1>3. QED
  BY <1>1, <1>2 DEF Order, LexProductOrdering, Ranks

LEMMA OneOrMore ==
  /\ \A x : IsFiniteSet({x})
  /\ \A x, y : IsFiniteSet({x, y})
  /\ \A x, y, z : IsFiniteSet({x, y, z})
<1>1. \A x : IsFiniteSet({x})
  BY FS_Singleton, Zenon
<1>2. \A x, y : IsFiniteSet({x, y})
  <2> TAKE x, y
  <2>1. IsFiniteSet({x} \cup {y})
    BY <1>1, FS_AddElement
  <2>2. {x, y} = {x} \cup {y}
    OBVIOUS
  <2>3. QED
    BY <2>1, <2>2
<1>3. \A x, y, z : IsFiniteSet({x, y, z})
  <2> TAKE x, y, z
  <2>1. IsFiniteSet({x, y} \cup {z})
    BY <1>2, FS_AddElement
  <2>2. {x, y, z} = {x, y} \cup {z}
    OBVIOUS
  <2>3. QED
    BY <2>1, <2>2
<1>4. QED
  BY <1>1, <1>2, <1>3

\* A tar holds finitely many entries, and so does the directory of files.
LEMMA FiniteNames == IsFiniteSet(Name)
<1>1. IsFiniteSet(Base) /\ IsFiniteSet(Pod)
  BY FS_Interval DEF Base, Pod
<1>2. IsFiniteSet({"log", "gz"}) /\ IsFiniteSet({"stream"})
  BY OneOrMore, Zenon
<1>3. IsFiniteSet(Base \X {"log", "gz"}) /\ IsFiniteSet(Pod \X {"stream"})
  BY <1>1, <1>2, FS_Product
<1>4. QED
  BY <1>3, FS_Union DEF Name

LEMMA FiniteEntries == IsFiniteSet(Entry)
<1> DEFINE Form == {"log", "gz"}
           Shape == {"text", "huge", "packed", "short", "big", "junk"}
           Parts == Base \X (Form \X Shape)
           parts == [e \in Entry |-> <<e.base, <<e.form, e.shape>>>>]
<1>1. IsFiniteSet(Base) /\ IsFiniteSet(Form) /\ IsFiniteSet(Shape)
  <2>1. IsFiniteSet(Base)
    BY FS_Interval DEF Base
  <2>2. IsFiniteSet(Form) /\ IsFiniteSet({"text", "huge", "packed"})
        /\ IsFiniteSet({"short", "big", "junk"})
    BY OneOrMore, Zenon
  <2>3. IsFiniteSet({"text", "huge", "packed"} \cup {"short", "big", "junk"})
    BY <2>2, FS_Union
  <2>4. Shape = {"text", "huge", "packed"} \cup {"short", "big", "junk"}
    OBVIOUS
  <2>5. IsFiniteSet(Shape)
    BY <2>3, <2>4
  <2>6. QED
    BY <2>1, <2>2, <2>5
<1>2. IsFiniteSet(Parts)
  BY <1>1, FS_Product
<1>3. parts \in Injection(Entry, Parts)
  <2>1. \A e \in Entry : /\ e = [base |-> e.base, form |-> e.form, shape |-> e.shape]
                         /\ e.base \in Base /\ e.form \in Form /\ e.shape \in Shape
    BY DEF Entry, Gzip
  <2>2. \A e \in Entry : parts[e] = <<e.base, <<e.form, e.shape>>>> /\ parts[e] \in Parts
    BY <2>1
  <2>3. parts \in [Entry -> Parts]
    BY <2>2
  <2>4. \A e, f \in Entry : parts[e] = parts[f] => e = f
    BY <2>1, <2>2
  <2>5. QED
    BY <2>3, <2>4 DEF Injection, IsInjective
<1>4. QED
  BY <1>2, <1>3, FS_Injection

FilesFinite == IsFiniteSet(todo) /\ IsFiniteSet(walk)

LEMMA FinitelyLeft == TypeOK => FilesFinite
BY FiniteEntries, FiniteNames, FS_Subset DEF TypeOK, Files, FilesFinite

LEMMA FinitelyLeftNext == TypeOK' => FilesFinite'
BY FinitelyLeft, PTL

Ranked ==
  /\ Rank \in Ranks
  /\ Rank[1] = PodsLeft /\ Rank[2] = CallsLeft
  /\ Rank[3] = Cardinality(todo) /\ Rank[4] = Cardinality(walk)

LEMMA RankTyped == TypeOK => Ranked
<1> SUFFICES ASSUME TypeOK PROVE Ranked
  OBVIOUS
<1>1. PodsLeft \in Nat /\ CallsLeft \in Nat
  BY DEF PodsLeft, CallsLeft, TypeOK, Pod
<1>2. Cardinality(todo) \in Nat /\ Cardinality(walk) \in Nat
  BY FinitelyLeft, FS_CardinalityType DEF FilesFinite
<1>3. QED
  BY <1>1, <1>2 DEF Ranked, Rank, Ranks

LEMMA RankTypedNext == TypeOK' => Ranked'
BY RankTyped, PTL

\* The four ways to come nearer.
LEMMA PodNearer == ASSUME TypeOK, TypeOK', PodsLeft' < PodsLeft PROVE Nearer
<1>1. Rank \in Ranks /\ Rank' \in Ranks /\ Rank'[1] < Rank[1]
  BY RankTyped, RankTypedNext DEF Ranked
<1>2. QED
  BY <1>1, Lower, 1 \in 1 .. 4 DEF Nearer

LEMMA CallNearer ==
  ASSUME TypeOK, TypeOK', PodsLeft' = PodsLeft, CallsLeft' < CallsLeft
  PROVE  Nearer
<1>1. Rank \in Ranks /\ Rank' \in Ranks /\ Rank'[1] = Rank[1] /\ Rank'[2] < Rank[2]
  BY RankTyped, RankTypedNext DEF Ranked
<1>2. QED
  BY <1>1, Lower, 2 \in 1 .. 4 DEF Nearer

LEMMA EntryNearer ==
  ASSUME TypeOK, TypeOK', UNCHANGED <<pc, pod>>, NEW e \in todo, todo' = todo \ {e}
  PROVE  Nearer
<1>1. PodsLeft' = PodsLeft /\ CallsLeft' = CallsLeft
  BY DEF PodsLeft, CallsLeft
<1>2. Cardinality(todo') = Cardinality(todo) - 1
  BY FinitelyLeft, FS_RemoveElement DEF FilesFinite
<1>3. Rank \in Ranks /\ Rank' \in Ranks
  BY RankTyped, RankTypedNext DEF Ranked
<1>4. Rank'[1] = Rank[1] /\ Rank'[2] = Rank[2] /\ Rank'[3] < Rank[3]
  BY <1>1, <1>2, <1>3, RankTyped, RankTypedNext DEF Ranked, Ranks
<1>5. QED
  BY <1>3, <1>4, Lower, 3 \in 1 .. 4 DEF Nearer

LEMMA GzNearer ==
  ASSUME TypeOK, TypeOK', UNCHANGED <<pc, pod, todo>>, NEW n \in walk, walk' = walk \ {n}
  PROVE  Nearer
<1>1. PodsLeft' = PodsLeft /\ CallsLeft' = CallsLeft
  BY DEF PodsLeft, CallsLeft
<1>2. Cardinality(walk') = Cardinality(walk) - 1
  BY FinitelyLeft, FS_RemoveElement DEF FilesFinite
<1>3. Rank \in Ranks /\ Rank' \in Ranks
  BY RankTyped, RankTypedNext DEF Ranked
<1>4. Rank'[1] = Rank[1] /\ Rank'[2] = Rank[2] /\ Rank'[3] = Rank[3] /\ Rank'[4] < Rank[4]
  BY <1>1, <1>2, <1>3, RankTyped, RankTypedNext DEF Ranked, Ranks
<1>5. QED
  BY <1>3, <1>4, Lower, 4 \in 1 .. 4 DEF Nearer

\* The command ends, however it does.
LEMMA EndNearer == ASSUME TypeOK, TypeOK', pc # "done", pc' = "done" PROVE Nearer
<1>1. PodsLeft' = 0 /\ CallsLeft' = 0
  BY DEF PodsLeft, CallsLeft
<1>2. PodsLeft > 0 \/ (PodsLeft = 0 /\ CallsLeft > 0)
  BY DEF PodsLeft, CallsLeft, TypeOK, Pod
<1>3. QED
  BY <1>1, <1>2, PodNearer, CallNearer

LEMMA NextPodNearer ==
  ASSUME TypeOK, TypeOK', pc \in {"pod", "stream"}, NextPod
  PROVE  Nearer
<1>1. PodsLeft = PodCount + 1 - pod /\ pod \in 1 .. PodCount
  BY DEF PodsLeft, TypeOK, Pod
<1>2. PodsLeft' < PodsLeft
  BY <1>1 DEF NextPod, PodsLeft
<1>3. QED
  BY <1>2, PodNearer

\* From one call for a pod to another.
LEMMA WithinPod ==
  ASSUME TypeOK, TypeOK', UNCHANGED pod,
         \/ pc = "pod" /\ pc' \in {"look", "stream"}
         \/ pc = "look" /\ pc' \in {"tar", "gunzip", "stream"}
         \/ pc = "tar" /\ pc' \in {"extract", "stream"}
         \/ pc = "extract" /\ pc' \in {"gunzip", "stream"}
         \/ pc = "gunzip" /\ pc' = "stream"
         \/ pc = "zip" /\ pc' \in {"remove", "close"}
         \/ pc = "remove" /\ pc' = "close"
  PROVE  Nearer
<1>1. PodsLeft' = PodsLeft
  BY DEF PodsLeft
<1>2. CallsLeft' < CallsLeft
  BY DEF CallsLeft
<1>3. QED
  BY <1>1, <1>2, CallNearer

LEMMA StepNearer == ASSUME TypeOK, TypeOK', Next PROVE Nearer
<1>1. CASE GetPod \/ Look \/ LookFails \/ TarArrives \/ TarFails \/ Extracted \/ ExtractFails
  BY <1>1, WithinPod
     DEF GetPod, Look, LookFails, TarArrives, TarFails, Extracted, ExtractFails, StopExtracting
<1>2. CASE GunzipFails \/ GunzipRefused \/ Gunzipped \/ Archive \/ Remove \/ RemoveFails
  BY <1>2, WithinPod DEF GunzipFails, GunzipRefused, Gunzipped, Archive, Remove, RemoveFails
<1>3. CASE PodGone \/ Stream
  BY <1>3, NextPodNearer DEF PodGone, Stream
<1>4. CASE Extract
  BY <1>4, EntryNearer DEF Extract
<1>5. CASE Gunzip
  BY <1>5, GzNearer DEF Gunzip, FirstOf
<1>6. CASE GetPodFails \/ StreamFails \/ Close \/ CloseFails \/ Killed
  BY <1>6, EndNearer DEF GetPodFails, StreamFails, Close, CloseFails, Report, Killed, Fail
<1>7. CASE ArchiveFails
  BY <1>7, EndNearer, WithinPod DEF ArchiveFails
<1>8. QED
  BY <1>1, <1>2, <1>3, <1>4, <1>5, <1>6, <1>7 DEF Next, WriteLogs, ZipDir

\* For any pods, tars and faults: every step of the collector on its files lowers its
\* rank, also where the extraction or the walk over .gz files breaks off, and ranks
\* cannot be lowered endlessly.
THEOREM BundleComesNearer ==
  /\ IsWellFoundedOn(Order, Ranks)
  /\ Spec => [](Rank \in Ranks) /\ [][Nearer]_vars
<1>1. TypeOK => Rank \in Ranks
  BY RankTyped DEF Ranked
<1>2. TypeOK /\ TypeOK' /\ [Next]_vars => [Nearer]_vars
  BY StepNearer
<1>3. Spec => [](Rank \in Ranks) /\ [][Nearer]_vars
  BY <1>1, <1>2, BundleTypeCorrect, PTL DEF Spec
<1>4. QED
  BY <1>3, OrderEnds
=============================================================================
