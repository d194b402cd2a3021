------------------------------ MODULE LogBundle ------------------------------
(***************************************************************************)
(* The log collector's files (tools/log-collector/log_collector.go:125-139 *)
(* 286-468, 1063-1286): the logs of the pods of one namespace are written  *)
(* to one directory, the directory is archived and then removed.  From a   *)
(* control-plane pod the files of its log directory are copied as well: as *)
(* a tar into a temporary file, unpacked, and every .gz decompressed.      *)
(*                                                                         *)
(* The collector is alone on its disk: the steps are the places where a    *)
(* call can fail or the process be killed.  What a pod's directory holds   *)
(* when tar reads it is up to the pod.                                     *)
(***************************************************************************)
EXTENDS Naturals

CONSTANTS
  PodCount,    \* pods of the namespace, numbered in the order of the list
  Plane,       \* those that are control-plane pods
  BaseCount,   \* log names, numbered in lexical order
  Captures,    \* what tar may find in a pod: sets of entries
  Absent,      \* there is no such file
  MaxFaults    \* bound: calls that fail, and kills

Pod == 1 .. PodCount
Base == 1 .. BaseCount

\* short: cut off; big: over maxGzipFileBytes when decompressed; junk: has no
\* gzip header; huge: over maxTarFileBytes.
Gzip == {"packed", "short", "big"}
Entry == [base : Base, form : {"log"}, shape : {"text", "huge"}]
           \cup [base : Base, form : {"gz"}, shape : Gzip \cup {"junk"}]

ASSUME BundleAssumption ==
  /\ PodCount \in Nat \ {0} /\ BaseCount \in Nat /\ MaxFaults \in Nat
  /\ Plane \subseteq Pod
  /\ Captures \subseteq SUBSET Entry
  /\ \A capture \in Captures : \A e, f \in capture :
       e.base = f.base /\ e.form = f.form => e = f

\* b.log, b.log.gz and the log that the API server streams of pod p.
LogName(b) == <<b, "log">>
GzName(b) == <<b, "gz">>
StreamName(p) == <<p, "stream">>
Name == (Base \X {"log", "gz"}) \cup (Pod \X {"stream"})

\* What a file holds, and whose it is.  part: not written to the end.
Content == [pod : Pod, form : {"log", "gz", "stream"},
            shape : Gzip \cup {"text", "huge", "junk", "unpacked", "part"}]
ASSUME AbsentAssumption == Absent \notin Content

VARIABLES
  pc,        \* what comes next
  pod,       \* the pod in hand
  todo,      \* entries of the tar not yet extracted
  walk,      \* .gz files the walk has still to visit
  disk,      \* the files of the directory
  temp,      \* pods whose temporary tar is in the directory
  added,     \* files that have been given to the writer of the archive
  zip,       \* none, open, closed, or torn: not written to its end
  unwritten, \* of a torn archive: files whose end the writer still had in memory
  keep,      \* l.CleanOutput, --keep-source-folder
  exit,      \* what the command reports
  faults,    \* calls that failed, and kills
  \* History, read by properties only:
  offered,   \* entries of tars that arrived
  copied,    \* entries extracted to their end
  spoiled,   \* complete .gz whose decompression failed
  stuck,     \* pods whose temporary tar could not be removed
  collected  \* what the directory held when it was archived

vars == <<pc, pod, todo, walk, disk, temp, added, zip, unwritten, keep, exit, faults,
          offered, copied, spoiled, stuck, collected>>
archive == <<added, zip, unwritten, collected>>
history == <<offered, copied, spoiled>>
tars == <<temp, stuck>>

Files == {n \in Name : disk[n] # Absent}
Empty == [n \in Name |-> Absent]
Holding(e, p) == [pod |-> p, form |-> e.form, shape |-> e.shape]
Partial(form, shape) ==
  [pod |-> pod, form |-> form, shape |-> IF shape = "junk" THEN "junk" ELSE "part"]
Put(n, content) == disk' = [disk EXCEPT ![n] = content]

Init ==
  /\ pc = "pod" /\ pod = 1
  /\ todo = {} /\ walk = {}
  /\ disk = Empty /\ temp = {} /\ stuck = {}
  /\ added = {} /\ zip = "none" /\ unwritten = {} /\ collected = Empty
  /\ keep \in BOOLEAN
  /\ exit = "none"
  /\ faults = 0
  /\ offered = {} /\ copied = {} /\ spoiled = {}

Fault == faults < MaxFaults /\ faults' = faults + 1

\* An error that ends the command: log.Fatalf, and no deferred call is left.
Fail == pc' = "done" /\ exit' = "failed"

NextPod ==
  IF pod < PodCount THEN pod' = pod + 1 /\ pc' = "pod" ELSE pc' = "zip" /\ UNCHANGED pod

-----------------------------------------------------------------------------
(* writeLogs.                                                              *)

GetPod ==
  /\ pc = "pod"
  /\ pc' = IF pod \in Plane THEN "look" ELSE "stream"
  /\ UNCHANGED <<pod, todo, walk, disk, tars, archive, keep, exit, faults, history>>

\* The pod has gone since it was listed.
PodGone ==
  /\ pc = "pod"
  /\ NextPod
  /\ UNCHANGED <<todo, walk, disk, tars, archive, keep, exit, faults, history>>

GetPodFails ==
  /\ pc = "pod"
  /\ Fault
  /\ Fail
  /\ UNCHANGED <<pod, todo, walk, disk, tars, archive, keep, history>>

\* DecompressGzInDir sees the whole directory, earlier pods' files included.
Walk == {n \in Files : n[2] = "gz"}

\* checkDirectoryHasFiles; without files there is nothing to copy.
Look ==
  /\ pc = "look"
  /\ \/ pc' = "tar" /\ temp' = temp \cup {pod} /\ UNCHANGED walk
     \/ pc' = "gunzip" /\ walk' = Walk /\ UNCHANGED temp
  /\ UNCHANGED <<pod, todo, disk, stuck, archive, keep, exit, faults, history>>

\* ls or CreateTemp fails: a warning, and no decompression.
LookFails ==
  /\ pc = "look"
  /\ Fault
  /\ pc' = "stream"
  /\ UNCHANGED <<pod, todo, walk, disk, tars, archive, keep, exit, history>>

\* The tar has arrived in the temporary file.
TarArrives ==
  /\ pc = "tar"
  /\ \E capture \in Captures :
       /\ todo' = capture
       /\ offered' = offered \cup (capture \X {pod})
  /\ pc' = "extract"
  /\ UNCHANGED <<pod, walk, disk, tars, archive, keep, exit, faults, copied, spoiled>>

\* The deferred os.Remove of the temporary tar; its error is ignored.
RemoveTar ==
  \/ temp' = temp \ {pod} /\ UNCHANGED stuck
  \/ stuck' = stuck \cup {pod} /\ UNCHANGED temp

\* Mutant of TarFails: the temporary file stays.
TarFailsKeepsTemp ==
  /\ pc = "tar"
  /\ Fault
  /\ pc' = "stream"
  /\ UNCHANGED <<pod, todo, walk, disk, tars, archive, keep, exit, history>>

\* The stream breaks off, or tar exits with an error (a log was being written
\* to): nothing is extracted.
TarFails ==
  /\ pc = "tar"
  /\ Fault
  /\ pc' = "stream"
  /\ RemoveTar
  /\ UNCHANGED <<pod, todo, walk, disk, archive, keep, exit, history>>

\* Entries come in the order of the pod's directory; O_TRUNC: what is there
\* under the same name is replaced.
Extract ==
  /\ pc = "extract"
  /\ \E e \in todo :
       /\ e.shape # "huge"
       /\ todo' = todo \ {e}
       /\ Put(<<e.base, e.form>>, Holding(e, pod))
       /\ copied' = copied \cup {<<e, pod>>}
  /\ UNCHANGED <<pc, pod, walk, tars, archive, keep, exit, faults, offered, spoiled>>

\* An error ends the extraction: a warning, and no decompression.
StopExtracting == pc' = "stream" /\ todo' = {} /\ RemoveTar

ExtractFails ==
  /\ pc = "extract"
  /\ StopExtracting
  /\ \E e \in todo :
       \/ e.shape = "huge" /\ UNCHANGED <<disk, faults>>
       \/ /\ e.shape # "huge"
          /\ Fault
          /\ UNCHANGED disk \/ Put(<<e.base, e.form>>, Partial(e.form, e.shape))
  /\ UNCHANGED <<pod, walk, archive, keep, exit, history>>

Extracted ==
  /\ pc = "extract"
  /\ todo = {}
  /\ RemoveTar
  /\ pc' = "gunzip"
  /\ walk' = Walk
  /\ UNCHANGED <<pod, todo, disk, archive, keep, exit, faults, history>>

Unpacked(n) ==
  [disk EXCEPT ![n] = Absent, ![LogName(n[1])] = [disk[n] EXCEPT !.shape = "unpacked"]]

FirstOf(names) == {n \in names : \A m \in names : n[1] <= m[1]}

\* Mutant of Gunzip: the .gz is removed first, whatever it is.
GunzipRemovesJunk ==
  /\ pc = "gunzip"
  /\ \E n \in FirstOf(walk) :
       /\ \/ disk[n].shape \in {"junk", "part"} /\ Put(n, Absent)
          \/ disk[n].shape = "packed" /\ disk' = Unpacked(n)
       /\ walk' = walk \ {n}
  /\ UNCHANGED <<pc, pod, todo, tars, archive, keep, exit, faults, history>>

\* decompressGzFile.  Without a gzip header (junk, or cut off before its end)
\* the file is skipped; otherwise it is unpacked next to itself and removed.
Gunzip ==
  /\ pc = "gunzip"
  /\ \E n \in FirstOf(walk) :
       /\ \/ disk[n].shape \in {"junk", "part"} /\ UNCHANGED disk
          \/ disk[n].shape = "packed" /\ disk' = Unpacked(n)
       /\ walk' = walk \ {n}
  /\ UNCHANGED <<pc, pod, todo, tars, archive, keep, exit, faults, history>>

Spoils(n) ==
  spoiled' = spoiled \cup {<<[base |-> n[1], form |-> "gz", shape |-> "packed"], disk[n].pod>>}

\* Mutant of GunzipFails: the walk goes on with the same file.
GunzipFailsAgain ==
  /\ pc = "gunzip"
  /\ \E n \in FirstOf(walk) :
       /\ \/ disk[n].shape \in {"short", "big", "part"} /\ UNCHANGED <<faults, spoiled>>
          \/ disk[n].shape = "packed" /\ Fault /\ Spoils(n)
       /\ disk' = [disk EXCEPT ![n] = Absent, ![LogName(n[1])] = Absent]
  /\ UNCHANGED <<pc, pod, todo, walk, tars, archive, keep, exit, offered, copied>>

\* The content cannot be unpacked, or its output not be written: both files
\* are removed, the walk ends with a warning.
GunzipFails ==
  /\ pc = "gunzip"
  /\ \E n \in FirstOf(walk) :
       /\ \/ disk[n].shape \in {"short", "big", "part"} /\ UNCHANGED <<faults, spoiled>>
          \/ disk[n].shape = "packed" /\ Fault /\ Spoils(n)
       /\ disk' = [disk EXCEPT ![n] = Absent, ![LogName(n[1])] = Absent]
  /\ walk' = {}
  /\ pc' = "stream"
  /\ UNCHANGED <<pod, todo, tars, archive, keep, exit, offered, copied>>

\* A .gz that cannot be opened, or whose output cannot be created, is kept.
GunzipRefused ==
  /\ pc = "gunzip"
  /\ walk # {}
  /\ Fault
  /\ walk' = {}
  /\ pc' = "stream"
  /\ UNCHANGED <<pod, todo, disk, tars, archive, keep, exit, history>>

Gunzipped ==
  /\ pc = "gunzip"
  /\ walk = {}
  /\ pc' = "stream"
  /\ UNCHANGED <<pod, todo, walk, disk, tars, archive, keep, exit, faults, history>>

\* writeLog for each container; a stream that cannot be opened is skipped.
Stream ==
  /\ pc = "stream"
  /\ \/ Put(StreamName(pod), [pod |-> pod, form |-> "stream", shape |-> "text"])
     \/ UNCHANGED disk
  /\ NextPod
  /\ UNCHANGED <<todo, walk, tars, archive, keep, exit, faults, history>>

\* A stream that breaks off, or a file that cannot be written, ends it all.
StreamFails ==
  /\ pc = "stream"
  /\ Fault
  /\ \/ Put(StreamName(pod), Partial("stream", "text"))
     \/ UNCHANGED disk
  /\ Fail
  /\ UNCHANGED <<pod, todo, walk, tars, archive, keep, history>>

-----------------------------------------------------------------------------
(* zipDir.                                                                 *)

\* The writer keeps back the end of what it is given, which is first seen when
\* it cannot write it any more.
Add(some) ==
  /\ collected' = disk
  /\ added' = some

\* The archive ends without its central directory and without what the writer
\* had in memory: the last file's end at least, and which files of pods are among
\* that depends on sizes and on the other files.
Tear(given) == zip' = "torn" /\ unwritten' \in SUBSET given

\* Nobody else touches the directory, so that it can be archived in one step.
Archive ==
  /\ pc = "zip"
  /\ Add(Files) /\ zip' = "open"
  /\ pc' = IF keep THEN "close" ELSE "remove"
  /\ UNCHANGED <<pod, todo, walk, disk, tars, unwritten, keep, exit, faults, history>>

Only(some) == [n \in Name |-> IF n \in some THEN disk[n] ELSE Absent]
RemoveSome ==
  /\ \E some \in SUBSET Files : disk' = Only(some)
  /\ temp' \in SUBSET temp

\* Mutant of ArchiveFails: the error is only logged.
ArchiveFailsGoesOn ==
  /\ pc = "zip"
  /\ Fault
  /\ zip' = "open" /\ \E some \in SUBSET Files : Add(some)
  /\ pc' = IF keep THEN "close" ELSE "remove"
  /\ UNCHANGED <<pod, todo, walk, disk, tars, unwritten, keep, exit, history>>

\* The archive cannot be created; or a file not be read or added, and then the
\* deferred calls close the archive of the others.
ArchiveFails ==
  /\ pc = "zip"
  /\ Fault
  /\ exit' = "failed"
  /\ \/ pc' = "done" /\ UNCHANGED <<added, zip, collected>>
     \/ pc' = "close" /\ zip' = "open" /\ \E some \in SUBSET Files : Add(some)
  /\ UNCHANGED <<pod, todo, walk, disk, tars, unwritten, keep, history>>

\* os.RemoveAll, before the deferred calls close the archive.
Remove ==
  /\ pc = "remove"
  /\ disk' = Empty /\ temp' = {}
  /\ pc' = "close"
  /\ UNCHANGED <<pod, todo, walk, stuck, archive, keep, exit, faults, history>>

RemoveFails ==
  /\ pc = "remove"
  /\ Fault
  /\ RemoveSome
  /\ pc' = "close" /\ exit' = "failed"
  /\ UNCHANGED <<pod, todo, walk, stuck, archive, keep, history>>

Report == pc' = "done" /\ exit' = IF exit = "failed" THEN "failed" ELSE "ok"

\* The deferred w.Close writes the rest and the central directory.
Close ==
  /\ pc = "close"
  /\ zip' = "closed"
  /\ Report
  /\ UNCHANGED <<pod, todo, walk, disk, tars, added, unwritten, collected, keep, faults, history>>

\* It breaks off somewhere, and its error goes unseen.
CloseFails ==
  /\ pc = "close"
  /\ Fault
  /\ Tear(added)
  /\ Report
  /\ UNCHANGED <<pod, todo, walk, disk, tars, added, collected, keep, history>>

\* The process is killed, perhaps in the middle of a step.
Killed ==
  /\ pc # "done"
  /\ Fault
  /\ pc' = "done" /\ exit' = "killed"
  /\ \/ /\ pc = "zip"
        /\ \E some \in SUBSET Files : Add(some) /\ Tear(some)
        /\ UNCHANGED <<disk, temp>>
     \/ /\ pc = "remove" /\ RemoveSome
        /\ Tear(added)
        /\ UNCHANGED <<added, collected>>
     \/ /\ pc = "close"
        /\ Tear(added)
        /\ UNCHANGED <<disk, temp, added, collected>>
     \/ pc \notin {"remove", "close"} /\ UNCHANGED <<disk, temp, archive>>
  /\ UNCHANGED <<pod, todo, walk, stuck, keep, history>>

WriteLogs ==
  \/ GetPod \/ PodGone \/ GetPodFails
  \/ Look \/ LookFails \/ TarArrives \/ TarFails
  \/ Extract \/ ExtractFails \/ Extracted
  \/ Gunzip \/ GunzipFails \/ GunzipRefused \/ Gunzipped
  \/ Stream \/ StreamFails

ZipDir == Archive \/ ArchiveFails \/ Remove \/ RemoveFails \/ Close \/ CloseFails

Next == WriteLogs \/ ZipDir \/ Killed

Spec == Init /\ [][Next]_vars

-----------------------------------------------------------------------------
(* Properties.                                                             *)

TypeOK ==
  /\ pc \in {"pod", "look", "tar", "extract", "gunzip", "stream", "zip", "remove", "close", "done"}
  /\ pod \in Pod
  /\ todo \subseteq Entry
  /\ walk \subseteq Files
  /\ disk \in [Name -> Content \cup {Absent}]
  /\ temp \subseteq Pod
  /\ added \subseteq Name /\ unwritten \subseteq added
  /\ zip \in {"none", "open", "closed", "torn"}
  /\ keep \in BOOLEAN
  /\ exit \in {"none", "ok", "failed", "killed"}
  /\ faults \in 0 .. MaxFaults
  /\ offered \subseteq Entry \X Pod
  /\ copied \subseteq offered
  /\ spoiled \subseteq Entry \X Pod
  /\ stuck \subseteq Pod
  /\ collected \in [Name -> Content \cup {Absent}]

Collected(names) == [n \in Name |-> IF n \in names THEN collected[n] ELSE Absent]

\* What the archive holds, or will when it is closed.
Archived == Collected(added \ unwritten)

\* Entry e of pod p is among files, as it came or unpacked.
Holds(files, e, p) ==
  \E n \in {LogName(e.base), GzName(e.base)} :
    /\ files[n] # Absent
    /\ files[n].pod = p /\ files[n].form = e.form /\ files[n].shape \in {e.shape, "unpacked"}

Lost(e, p) == ~Holds(disk, e, p) /\ ~Holds(Archived, e, p)

\* Another pod has a log of that name, or the pod has the log both plain and
\* compressed (it is being rotated), so that one replaces the other.
Replaceable(e, p) ==
  \E other \in offered :
    LET f == other[1] IN
      /\ f.base = e.base
      /\ other[2] # p \/ (e.form = "log" /\ f.form = "gz" /\ f.shape # "junk")

\* Its decompression failed, which removes it.
Undecodable(e, p) == e.form = "gz" /\ (e.shape \in {"short", "big"} \/ <<e, p>> \in spoiled)

\* The directory was being removed, or had been, with the end of that file still
\* in the memory of a process that was killed or could not close the archive.
Unwritten(e, p) == ~keep /\ Holds(Collected(unwritten), e, p)

\* Nothing that was copied from a pod gets lost, from the directory and from the
\* bytes of the archive, but for these three reasons.
LossExplained ==
  \A s \in copied : Lost(s[1], s[2]) =>
    Replaceable(s[1], s[2]) \/ Undecodable(s[1], s[2]) \/ Unwritten(s[1], s[2])

\* Once there is an archive, a temporary tar that is left to get into it is one
\* whose removal failed, however the copy from a control-plane pod has ended.
NoTarInArchive == zip # "none" => temp \subseteq stuck

\* The whole directory had been added when its removal began.
Whole == added = {n \in Name : collected[n] # Absent}

\* A file of the directory that is archived is still there, or it is in an
\* archive that gets closed: also if archiving breaks off.  The exception is the
\* time between the first os.Remove and the end of the deferred w.Close: a kill
\* or a failing w.Close there leaves an archive without its central directory.
ArchivedBeforeRemoved ==
  \A n \in Name : collected[n] # Absent =>
    \/ disk[n] = collected[n]
    \/ n \in added /\ zip \in {"open", "closed"}
    \/ zip = "torn" /\ Whole /\ ~keep

-----------------------------------------------------------------------------
(* The inductive invariant behind them.                                    *)

\* The directory has at most lost files since.
Kept == \A n \in Name : disk[n] \in {collected[n], Absent}

\* Where the command is, and what is left over from the steps before.
PlaceInv ==
  /\ zip = "none" => added = {} /\ collected = Empty
  /\ pc \notin {"remove", "close", "done"} => zip = "none"
  /\ pc \in {"remove", "close"} => zip = "open"
  /\ zip # "torn" => unwritten = {}
  /\ pc = "remove" => disk = collected /\ Whole /\ ~keep
  /\ zip # "none" => Kept /\ (disk = collected \/ (Whole /\ ~keep))
  /\ pc # "done" => temp \ stuck \subseteq (IF pc \in {"tar", "extract"} THEN {pod} ELSE {})
  /\ todo # {} => pc \in {"extract", "done"}
  /\ walk # {} => pc \in {"gunzip", "done"}
  /\ \A n \in walk : n[2] = "gz"

\* Every entry is extracted once at most, and under a name of its own.
TarInv ==
  /\ \A e \in todo : <<e, pod>> \in offered
  /\ \A e, f \in todo : e.base = f.base /\ e.form = f.form => e = f
  /\ \A s \in offered : s[2] <= pod /\ (pc \in {"pod", "look", "tar"} => s[2] < pod)
  /\ \A e \in todo : \A s \in copied :
       s[2] = pod => s[1].base # e.base \/ s[1].form # e.form

\* A .gz came in a tar; an unpacked one lies next to no other of the same pod.
FileOk(b) ==
  LET log == disk[LogName(b)]
      gz == disk[GzName(b)]
  IN /\ gz # Absent => gz.form = "gz"
     /\ gz # Absent =>
          \E s \in offered : /\ s[1].base = b /\ s[1].form = "gz" /\ s[2] = gz.pod
                             /\ s[1].shape = "junk" => gz.shape = "junk"
     /\ log # Absent /\ log.form = "gz" =>
          /\ log.pod <= pod
          /\ pc \in {"pod", "look", "tar", "extract"} => log.pod < pod
          /\ gz # Absent => gz.pod # log.pod
FileInv == \A b \in Base : FileOk(b)

BundleInv == TypeOK /\ PlaceInv /\ TarInv /\ FileInv /\ LossExplained /\ NoTarInArchive
=============================================================================
