----------------------------- MODULE PreflightRun -----------------------------
(***************************************************************************)
(* `preflight run` (tools/preflight/preflight.go): the checks in their     *)
(* order, the pods, claims and snapshots that three of them create, what   *)
(* is left of these when a check fails, the cleanup the run starts itself  *)
(* and the cleanups its user may start afterwards.                         *)
(*                                                                         *)
(* A cleanup is one step here: all it is for, or, if it fails, any part of *)
(* it.  PreflightCleanup models it call by call, and is proved there to    *)
(* keep this promise.  CRD installation, the choice of a snapshot class    *)
(* and the local checks are reduced to their outcome.                      *)
(***************************************************************************)
EXTENDS FiniteSets, Naturals, Sequences

CONSTANTS
  RetrySteps,   \* defaultRetrySteps: how often a wait looks at its object
  MaxFaults     \* bound: things that go wrong in one behaviour

ASSUME RunAssumption ==
  /\ RetrySteps \in Nat \ {0}
  /\ MaxFaults \in Nat

VARIABLES
  opts,       \* the options that change control flow
  pc,         \* what the run does next
  si,         \* position in Stages
  ii,         \* position in Plan(Stages[si])
  polls,      \* how often the current wait has looked
  status,     \* preflightStatus
  storageOk,  \* storageSnapshotSuccess
  present,    \* the run's objects that are stored and not being deleted
  streams,    \* the goroutine of each command in a pod
  inflight,   \* CREATEs reported as failed that the server may still carry out
  exit,       \* how the process ended
  faults,     \* things that have gone wrong
  \* History, read by properties only:
  passed,     \* checks that ran and succeeded
  undeleted,  \* pods whose own DELETE failed (logged as a warning)
  swept,      \* cleanups of the run's namespace that have reported success
  late        \* objects stored only after such a cleanup

world == <<present, inflight, late>>
place == <<si, ii>>
history == <<passed, undeleted, swept>>
vars == <<opts, pc, si, ii, polls, status, storageOk, streams, present, inflight, exit, faults,
          passed, undeleted, swept, late>>

-----------------------------------------------------------------------------
(* The plan of a run.                                                      *)

Stages == <<"kubectl", "access", "helm", "k8sversion", "rbac", "crds", "storageclass",
            "capability", "snapclass", "dns", "nspermissions", "volume">>

StageNames == {Stages[i] : i \in DOMAIN Stages}

Caps == {"cap0", "cap1", "cap2"}

Resource == Caps \cup {"dns", "ns", "srcPvc", "writer", "srcSnap", "cloneContent",
                       "cloneSnap", "backupPvc", "reader"}

\* What a check creates, in this order.
Plan(stage) ==
  IF stage = "capability" THEN <<"cap0", "cap1", "cap2">>
  ELSE IF stage = "dns" THEN <<"dns">>
  ELSE IF stage # "volume" THEN <<>>
  ELSE IF opts.scope = "cluster"
    THEN <<"ns", "srcPvc", "writer", "srcSnap", "cloneContent", "cloneSnap",
           "backupPvc", "reader">>
    ELSE <<"srcPvc", "writer", "srcSnap", "backupPvc", "reader">>

KindOf(r) ==
  IF r \in Caps \cup {"dns", "writer", "reader"} THEN "Pod"
  ELSE IF r \in {"srcPvc", "backupPvc"} THEN "PersistentVolumeClaim"
  ELSE IF r \in {"srcSnap", "cloneSnap"} THEN "VolumeSnapshot"
  ELSE IF r = "ns" THEN "Namespace"
  ELSE "VolumeSnapshotContent"

\* With cluster scope the source objects live in the backup namespace.
NsOf(r) ==
  IF r \in {"ns", "cloneContent"} THEN "none"
  ELSE IF opts.scope = "cluster" /\ r \in {"srcPvc", "writer", "srcSnap"} THEN "backup"
  ELSE "install"

\* Mutant of RunLabel: the DNS pod is labelled with its name's suffix as well.
RunLabelFromName(r) == IF r \in Caps \cup {"dns"} THEN "index-uid" ELSE "uid"

\* The value of the label preflight-run: capability pods get the suffix of
\* their name, which has the index of the case in front of the UID.
RunLabel(r) == IF r \in Caps THEN "index-uid" ELSE "uid"

Waited(r) == KindOf(r) = "Pod" \/ r = "srcSnap"
Commanded == {"dns", "reader"}
Executed(r) == r \in Commanded
DeletedWhenDone(r) == r \in Caps \cup {"dns"}

\* Without it the pod does not start and the snapshot does not get ready.
Volume(r) ==
  IF r \in {"writer", "srcSnap"} THEN {"srcPvc"}
  ELSE IF r = "reader" THEN {"backupPvc"}
  ELSE {}

\* Without it CREATE is refused, or is not reached.
Required(r) ==
  IF NsOf(r) = "backup" THEN {"ns"} ELSE IF r = "cloneContent" THEN {"srcSnap"} ELSE {}

\* A check that is skipped counts neither way.
Skipped(stage) ==
  \/ stage \in {"kubectl", "helm"} /\ opts.inCluster
  \/ stage \in {"snapclass", "nspermissions", "volume"} /\ ~storageOk

\* What a cleanup of namespace ns deletes, with or without the run's UID; the
\* backup namespace takes its contents along.
Reach(ns, byUid) ==
  LET hit == {r \in Resource :
                /\ \/ /\ KindOf(r) \in {"VolumeSnapshot", "PersistentVolumeClaim", "Pod"}
                      /\ NsOf(r) = ns
                   \/ KindOf(r) = "Namespace"
                /\ byUid => RunLabel(r) = "uid"}
  IN hit \cup {r \in Resource : NsOf(r) = "backup" /\ "ns" \in hit}

Stage == Stages[si]
Item == Plan(Stage)[ii]

Init ==
  /\ opts \in [inCluster : BOOLEAN, cleanupOnFail : BOOLEAN, scope : {"cluster", "namespace"}]
  /\ pc = "check"
  /\ si = 1
  /\ ii = 1
  /\ polls = 0
  /\ status = TRUE
  /\ storageOk = TRUE
  /\ streams = [r \in Commanded |-> "none"]
  /\ present = {}
  /\ inflight = {}
  /\ exit = "none"
  /\ faults = 0
  /\ passed = {}
  /\ undeleted = {}
  /\ swept = {}
  /\ late = {}

Fault == faults < MaxFaults /\ faults' = faults + 1
NoFault == UNCHANGED faults

-----------------------------------------------------------------------------
(* From check to check.                                                    *)

\* The stage ends; what follows the last one depends on the verdict.
NextStage(verdict) ==
  /\ ii' = 1
  /\ polls' = 0
  /\ IF si < Len(Stages)
     THEN si' = si + 1 /\ pc' = "check" /\ UNCHANGED exit
     ELSE /\ UNCHANGED si
          /\ IF verdict \/ opts.cleanupOnFail
             THEN pc' = "cleanup" /\ UNCHANGED exit
             ELSE pc' = "done" /\ exit' = "failed"

Succeeds ==
  /\ passed' = passed \cup {Stage}
  /\ NextStage(status)
  /\ UNCHANGED <<status, storageOk>>

\* Mutant of Fails: only the storage flag is cleared when the class is missing.
FailsStorageOnly ==
  /\ storageOk' = (storageOk /\ Stage \notin {"storageclass", "snapclass"})
  /\ status' = (status /\ Stage \in {"storageclass", "snapclass"})
  /\ NextStage(status')
  /\ UNCHANGED passed

Fails ==
  /\ storageOk' = (storageOk /\ Stage \notin {"storageclass", "snapclass"})
  /\ status' = FALSE
  /\ NextStage(FALSE)
  /\ UNCHANGED passed

SkipStage ==
  /\ pc = "check"
  /\ Skipped(Stage)
  /\ NextStage(status)
  /\ NoFault
  /\ UNCHANGED <<opts, streams, status, storageOk, world, history>>

\* A check that creates nothing: its validator finds everything in order, or
\* does not, or cannot tell; it changes nothing.
Check ==
  /\ pc = "check"
  /\ ~Skipped(Stage)
  /\ Plan(Stage) = <<>>
  /\ (Succeeds /\ NoFault) \/ (Fails /\ Fault)
  /\ UNCHANGED <<opts, streams, world, undeleted, swept>>

StartPlan ==
  /\ pc = "check"
  /\ ~Skipped(Stage)
  /\ Plan(Stage) # <<>>
  /\ pc' = "create"
  /\ ii' = 1
  /\ NoFault
  /\ UNCHANGED <<opts, streams, si, polls, status, storageOk, exit, world, history>>

-----------------------------------------------------------------------------
(* Inside a check that creates objects.                                    *)

\* Where the run goes when the current item's last call has succeeded.
NextItem ==
  IF ii < Len(Plan(Stage))
  THEN /\ ii' = ii + 1
       /\ pc' = "create"
       /\ polls' = 0
       /\ UNCHANGED <<si, status, storageOk, exit, passed>>
  ELSE Succeeds

AfterReady(r) ==
  IF Executed(r) \/ DeletedWhenDone(r)
  THEN /\ pc' = IF Executed(r) THEN "exec" ELSE "delete"
       /\ UNCHANGED <<place, polls, status, storageOk, exit, passed>>
  ELSE NextItem

Store(r) == present' = present \cup {r}

Create ==
  /\ pc = "create"
  /\ Required(Item) \subseteq present
  /\ Store(Item)
  /\ IF Waited(Item)
     THEN pc' = "poll" /\ UNCHANGED <<place, polls, status, storageOk, exit, passed>>
     ELSE NextItem
  /\ NoFault
  /\ UNCHANGED <<opts, streams, inflight, late, undeleted, swept>>

\* CREATE is refused (or what it needs cannot be read), or its answer is lost:
\* then the object may turn up at any later time.
CreateFails ==
  /\ pc = "create"
  /\ IF Required(Item) \subseteq present
     THEN Fault /\ (UNCHANGED inflight \/ inflight' = inflight \cup {Item})
     ELSE NoFault /\ UNCHANGED inflight
  /\ Fails
  /\ UNCHANGED <<opts, streams, present, late, undeleted, swept>>

\* Mutant of Poll: a wait that is over time is not given up.
PollForever ==
  /\ pc = "poll"
  /\ Item \in present
  /\ \/ /\ Volume(Item) \subseteq present
        /\ AfterReady(Item)
     \/ /\ polls' = IF polls + 1 < RetrySteps THEN polls + 1 ELSE polls
        /\ UNCHANGED <<pc, place, status, storageOk, exit, passed>>
  /\ NoFault
  /\ UNCHANGED <<opts, streams, world, undeleted, swept>>

\* Mutant of Poll: one look too many.
PollOnceMore ==
  /\ pc = "poll"
  /\ Item \in present
  /\ \/ /\ Volume(Item) \subseteq present
        /\ AfterReady(Item)
        /\ NoFault
     \/ /\ polls < RetrySteps
        /\ polls' = polls + 1
        /\ NoFault
        /\ UNCHANGED <<pc, place, status, storageOk, exit, passed>>
     \/ /\ polls = RetrySteps
        /\ IF Volume(Item) \subseteq present THEN Fault ELSE NoFault
        /\ Fails
  /\ UNCHANGED <<opts, streams, world, undeleted, swept>>

\* One look at the pod or snapshot.  A pod may take arbitrarily long, or never
\* get ready; after RetrySteps looks the wait is over.
Poll ==
  /\ pc = "poll"
  /\ Item \in present
  /\ \/ /\ Volume(Item) \subseteq present
        /\ AfterReady(Item)
        /\ NoFault
     \/ /\ polls + 1 < RetrySteps
        /\ polls' = polls + 1
        /\ NoFault
        /\ UNCHANGED <<pc, place, status, storageOk, exit, passed>>
     \/ /\ polls + 1 = RetrySteps
        /\ IF Volume(Item) \subseteq present THEN Fault ELSE NoFault
        /\ Fails
  /\ UNCHANGED <<opts, streams, world, undeleted, swept>>

\* Mutant of PollFails: the loop over the cases goes on after a failed one.
PollFailsGoesOn ==
  /\ pc = "poll"
  /\ IF Item \in present THEN Fault ELSE NoFault
  /\ IF ii < Len(Plan(Stage))
     THEN /\ NextItem
          /\ UNCHANGED <<opts, streams, world, undeleted, swept>>
     ELSE Fails /\ UNCHANGED <<opts, streams, world, undeleted, swept>>

\* GET fails, or finds nothing: any error ends the wait at once, and one of the
\* GET that follows the wait for a pod fails the check as well.
PollFails ==
  /\ pc = "poll"
  /\ IF Item \in present THEN Fault ELSE NoFault
  /\ Fails
  /\ UNCHANGED <<opts, streams, world, undeleted, swept>>

\* execInPod starts a goroutine that streams the command's output, and waits.
Exec ==
  /\ pc = "exec"
  /\ streams' = [streams EXCEPT ![Item] = "running"]
  /\ pc' = "await"
  /\ NoFault
  /\ UNCHANGED <<opts, place, polls, status, storageOk, exit, passed, world, undeleted, swept>>

\* The command ends, or its stream breaks.  The goroutine then sends the outcome
\* over a channel of its own, without a buffer: it blocks until that is received,
\* for good if nobody waits any more.
Stream(r) ==
  /\ streams[r] = "running"
  /\ \/ r \in present /\ streams' = [streams EXCEPT ![r] = "ok"] /\ NoFault
     \/ streams' = [streams EXCEPT ![r] = "error"] /\ IF r \in present THEN Fault ELSE NoFault
  /\ UNCHANGED <<opts, pc, place, polls, status, storageOk, exit, world, history>>

\* The outcome is received; after an error the pod is left.
Answer ==
  /\ pc = "await"
  /\ \/ /\ streams[Item] = "ok"
        /\ streams' = [streams EXCEPT ![Item] = "heard"]
        /\ IF DeletedWhenDone(Item)
           THEN pc' = "delete" /\ UNCHANGED <<place, polls, status, storageOk, exit, passed>>
           ELSE NextItem
     \/ /\ streams[Item] = "error"
        /\ streams' = [streams EXCEPT ![Item] = "failed"]
        /\ Fails
  /\ NoFault
  /\ UNCHANGED <<opts, world, undeleted, swept>>

\* Mutant of ExecTimeout: silence is taken for success.
ExecTimeoutPasses ==
  /\ pc = "await"
  /\ IF DeletedWhenDone(Item)
     THEN pc' = "delete" /\ UNCHANGED <<place, polls, status, storageOk, exit, passed>>
     ELSE NextItem
  /\ NoFault
  /\ UNCHANGED <<opts, streams, world, undeleted, swept>>

\* execTimeoutDuration is over, even if the outcome came in the same moment: the
\* goroutine is left to itself, and the pod is left.
ExecTimeout ==
  /\ pc = "await"
  /\ Fails
  /\ NoFault
  /\ UNCHANGED <<opts, streams, world, undeleted, swept>>

\* deleteK8sResource on a pod that has done its work.
DeletePod ==
  /\ pc = "delete"
  /\ Item \in present
  /\ present' = present \ {Item}
  /\ NextItem
  /\ NoFault
  /\ UNCHANGED <<opts, streams, inflight, late, undeleted, swept>>

\* An error of the DELETE, or of the patch that follows it, is a warning: the
\* check goes on.
DeletePodFails ==
  /\ pc = "delete"
  /\ IF Item \in present THEN Fault ELSE NoFault
  /\ present' \in {present, present \ {Item}}
  /\ undeleted' = undeleted \cup {Item}
  /\ NextItem
  /\ UNCHANGED <<opts, streams, inflight, late, swept>>

-----------------------------------------------------------------------------
(* The end of the run, and what comes after it.                            *)

SomeOf(S) == {present \ gone : gone \in SUBSET (S \cap present)}

\* The run cleans up after itself; an error is only logged.
Cleanup ==
  /\ pc = "cleanup"
  /\ \/ /\ present' = present \ Reach("install", TRUE)
        /\ swept' = swept \cup {"uid"}
        /\ NoFault
     \/ /\ present' \in SomeOf(Reach("install", TRUE))
        /\ Fault
        /\ UNCHANGED swept
  /\ pc' = "done"
  /\ exit' = IF status THEN "ok" ELSE "failed"
  /\ UNCHANGED <<opts, streams, place, polls, status, storageOk, inflight, late, passed,
                 undeleted>>

\* The process dies; a CREATE it is waiting for may still be carried out.
Killed ==
  /\ pc # "done"
  /\ Fault
  /\ pc' = "done"
  /\ exit' = "killed"
  /\ \/ UNCHANGED inflight
     \/ /\ pc = "create"
        /\ Required(Item) \subseteq present
        /\ inflight' = inflight \cup {Item}
  /\ UNCHANGED <<opts, streams, place, polls, status, storageOk, present, late, history>>

\* `preflight cleanup`, in the run's namespace or in another one.
UserCleanup(ns, byUid) ==
  /\ pc = "done"
  /\ \/ /\ present' = present \ Reach(ns, byUid)
        /\ swept' = IF ns = "install" THEN swept \cup {IF byUid THEN "uid" ELSE "all"}
                    ELSE swept
        /\ NoFault
     \/ /\ present' \in SomeOf(Reach(ns, byUid))
        /\ Fault
        /\ UNCHANGED swept
  /\ UNCHANGED <<opts, streams, pc, place, polls, status, storageOk, inflight, exit, late,
                 passed, undeleted>>

\* A CREATE whose answer was lost is carried out after all.
Lands(r) ==
  /\ r \in inflight
  /\ Required(r) \cap {"ns"} \subseteq present
  /\ inflight' = inflight \ {r}
  /\ Store(r)
  /\ late' = IF swept # {} THEN late \cup {r} ELSE late
  /\ UNCHANGED <<opts, streams, pc, place, polls, status, storageOk, exit, faults, history>>

\* Someone runs `preflight cleanup` without a UID while this run is under way.
Intrusion ==
  /\ pc # "done"
  /\ Fault
  /\ \E r \in present \cap Reach("install", FALSE) :
       present' = present \ IF r = "ns" THEN {q \in Resource : q = "ns" \/ NsOf(q) = "backup"}
                            ELSE {r}
  /\ UNCHANGED <<opts, streams, pc, place, polls, status, storageOk, inflight, exit, late,
                 history>>

Run ==
  \/ SkipStage \/ Check \/ StartPlan
  \/ Create \/ CreateFails \/ Poll \/ PollFails
  \/ Exec \/ Answer \/ ExecTimeout \/ DeletePod \/ DeletePodFails
  \/ Cleanup

Next ==
  \/ Run
  \/ \E r \in Commanded : Stream(r)
  \/ Killed
  \/ \E ns \in {"install", "elsewhere"}, byUid \in BOOLEAN : UserCleanup(ns, byUid)
  \/ \E r \in Resource : Lands(r)
  \/ Intrusion

Spec == Init /\ [][Next]_vars

\* The run is a running program whose calls return; nothing is assumed of the
\* cluster, or of its user.
FairSpec == Spec /\ WF_vars(Run)

-----------------------------------------------------------------------------
(* Properties.                                                             *)

TypeOK ==
  /\ opts \in [inCluster : BOOLEAN, cleanupOnFail : BOOLEAN, scope : {"cluster", "namespace"}]
  /\ pc \in {"check", "create", "poll", "exec", "await", "delete", "cleanup", "done"}
  /\ si \in DOMAIN Stages
  /\ ii \in 1 .. 8
  /\ pc \in {"create", "poll", "exec", "await", "delete"} => ii \in DOMAIN Plan(Stage)
  /\ polls \in 0 .. RetrySteps - 1
  /\ status \in BOOLEAN
  /\ storageOk \in BOOLEAN
  /\ present \subseteq Resource
  /\ late \subseteq Resource
  /\ streams \in [Commanded -> {"none", "running", "ok", "error", "heard", "failed"}]
  /\ inflight \subseteq Resource
  /\ undeleted \subseteq Resource
  /\ exit \in {"none", "ok", "failed", "killed"}
  /\ faults \in 0 .. MaxFaults
  /\ passed \subseteq StageNames
  /\ swept \subseteq {"uid", "all"}

\* The checks this run has to make.
Demanded == {s \in StageNames : ~(s \in {"kubectl", "helm"} /\ opts.inCluster)}

\* The exit status tells the truth: "all checks succeeded" exactly when every
\* check that applies has run to its end and succeeded, so that a check skipped
\* because another one failed, or abandoned half-way, never counts as passed,
\* and neither a pod that could not be deleted nor a failed cleanup turns a
\* good run into a bad one.
VerdictIsEarned ==
  exit \in {"ok", "failed"} => (exit = "ok" <=> Demanded \subseteq passed)

\* What a successful cleanup of the run's namespace leaves of the run, however
\* the run ended: the snapshot content of the clone, capability pods if the
\* cleanup went by UID, and whatever the server stored only afterwards.
LeftBehind ==
  swept # {} =>
    \A r \in present : \/ r \in late
                       \/ r = "cloneContent"
                       \/ r \in Caps /\ "all" \notin swept

\* Capability pods that are there, or may still turn up, and whose deletion
\* was not tried in vain.
Standing == (Caps \cap (present \cup inflight)) \ undeleted

\* Capability cases follow one another: there is never more than one such pod,
\* and none after a successful run.
OneCapabilityPod ==
  /\ Cardinality(Standing) <= 1
  /\ exit = "ok" => Standing = {}

\* A check that runs a command passes only if the command has succeeded and its
\* outcome was received by the call that asked for it: after a timeout, or a CREATE
\* that came late, nothing that its goroutine still does can count, and a run that
\* ends well leaves no goroutine behind.
StageOf(r) == IF r = "dns" THEN "dns" ELSE "volume"
CommandsAnswered ==
  /\ \A r \in Commanded : StageOf(r) \in passed => streams[r] = "heard"
  /\ exit = "ok" => \A r \in Commanded : streams[r] = "heard"

\* However long pods and snapshots take, the run ends: waits and commands in
\* pods are limited.
RunEnds == <>(pc = "done")

\* docs/preflight/README.md:290: with --cleanup-on-failure all resources created
\* for a failed run are deleted (the clone's content is left to the snapshot
\* controller).
FailedRunCleaned ==
  opts.cleanupOnFail /\ exit = "failed" /\ swept # {} =>
    present \subseteq late \cup {"cloneContent"}

-----------------------------------------------------------------------------
(* The inductive invariant behind them.                                    *)

InPlan == pc \in {"create", "poll", "exec", "await", "delete"}

\* Where the process is agrees with how it ended.
ExitInv ==
  /\ exit = "none" <=> pc # "done"
  /\ pc = "cleanup" => si = Len(Stages)
  /\ InPlan => ~Skipped(Stage) /\ ii \in DOMAIN Plan(Stage)
  /\ exit = "ok" => status

\* The stages that are over, and the verdict on them.
Over == {Stages[i] : i \in {j \in DOMAIN Stages : j < si \/ pc = "cleanup"}}

StatusInv ==
  /\ ~storageOk => ~status
  /\ pc # "done" => passed \subseteq Over /\ (status <=> Demanded \cap Over \subseteq passed)
  /\ VerdictIsEarned

SweepInv ==
  /\ swept # {} => pc = "done"
  /\ LeftBehind

\* Until the capability check is over, only the pod of its current case is
\* standing; a check that has succeeded leaves none.
CapsInv ==
  /\ \E r \in Resource : Standing \subseteq {r}
  /\ pc # "done" /\ "capability" \notin Over =>
       /\ Standing \subseteq IF pc \in {"poll", "delete"} THEN {Item} ELSE {}
       /\ inflight \cap Caps = {}
  /\ "capability" \in passed => Standing = {}

RunInv == TypeOK /\ ExitInv /\ StatusInv /\ SweepInv /\ CapsInv
=============================================================================
