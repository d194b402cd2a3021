--------------------------- MODULE PreflightCleanup ---------------------------
(***************************************************************************)
(* `preflight cleanup` (tools/preflight/cleanup.go) with the delete helper *)
(* of tools/preflight/helper.go.  For each resource kind, then for the     *)
(* backup namespaces, it lists what carries the preflight labels and, item *)
(* by item, sends DELETE, and, if the LISTED copy had finalizers, GETs the *)
(* object and PATCHes all finalizers away.  Errors are counted, never      *)
(* retried; the user runs the command again.                               *)
(*                                                                         *)
(* Each API call is a step of its own, so that other runs, users and the   *)
(* controllers owning the finalizers interleave with the command.          *)
(***************************************************************************)
EXTENDS ApiStore, Naturals, Sequences

CONSTANTS
  SnapVersions,  \* how many versions of snapshot.storage.k8s.io are served
  CleanupNs,     \* co.Namespace, or the default namespace
  CleanupUid,    \* co.UID; NoUid when none is given
  MaxFaults      \* bound: failed calls and crashes in a behaviour

ASSUME CleanupAssumption ==
  /\ SnapVersions \in Nat
  /\ MaxFaults \in Nat
  /\ CleanupNs \in Namespaces
  /\ Object # {}
  /\ CleanupUid \in Uid \cup {NoUid}

VARIABLES
  pc,          \* the call the command makes next
  gi,          \* position in Rounds
  pending,     \* items of the current list that are not handled yet
  withFins,    \* those whose listed copy has finalizers
  cur,         \* the item whose finalizers are being removed
  allSuccess,  \* as in the code
  result,      \* how the invocation ended
  faults,      \* calls that have failed so far, in all invocations
  \* History, read by properties only:
  due,         \* in scope and not yet deleted when this invocation started
  seenFins,    \* listed with finalizers during this invocation
  faulted      \* a call of this invocation failed

procVars == <<pc, gi, pending, withFins, cur, allSuccess, result>>
histVars == <<due, seenFins, faulted>>
vars == <<phase, fins, pc, gi, pending, withFins, cur, allSuccess, result, faults,
          due, seenFins, faulted>>

\* getCleanupResourceGVKList, followed by the loop over namespaces.  A
\* VolumeSnapshot is listed once for every served version of its group.
Rounds == [i \in 1 .. SnapVersions |-> "VolumeSnapshot"]
            \o <<"PersistentVolumeClaim", "Pod", "Namespace">>

MatchingLabels(o) ==
  /\ Meta[o].trilio
  /\ CleanupUid # NoUid => Meta[o].run = CleanupUid

InScope(o) ==
  /\ MatchingLabels(o)
  /\ IF Meta[o].kind = "Namespace" THEN Meta[o].backup ELSE Meta[o].ns = CleanupNs
  /\ \E i \in DOMAIN Rounds : Rounds[i] = Meta[o].kind

\* Mutant of Listing: the namespace is not passed to List.
ListingEverywhere(kind) == {o \in Object : Stored(o) /\ Meta[o].kind = kind /\ MatchingLabels(o)}

Listing(kind) == {o \in Object : Stored(o) /\ Meta[o].kind = kind /\ InScope(o)}

Init ==
  /\ StoreInit
  /\ pc = "start"
  /\ gi = 1
  /\ pending = {}
  /\ withFins = {}
  /\ cur = CHOOSE o \in Object : TRUE
  /\ allSuccess = TRUE
  /\ result = "none"
  /\ faults = 0
  /\ due = {}
  /\ seenFins = {}
  /\ faulted = FALSE

\* A call fails in transit, or the API server refuses it.
Fault ==
  /\ faults < MaxFaults
  /\ faults' = faults + 1
  /\ faulted' = TRUE

NoFault == UNCHANGED <<faults, faulted>>

End(outcome) ==
  /\ pc' = "done"
  /\ result' = outcome

-----------------------------------------------------------------------------
(* One action per call.                                                    *)

\* getVersionsOfGroup: the only error that ends the command at once.
GetGVKList ==
  /\ pc = "start"
  /\ due' = {o \in Object : phase[o] = "live" /\ InScope(o)}
  /\ \/ /\ pc' = "list"
        /\ NoFault
        /\ UNCHANGED result
     \/ /\ End("failure")
        /\ Fault
  /\ UNCHANGED <<storeVars, gi, pending, withFins, cur, allSuccess, seenFins>>

List ==
  /\ pc = "list"
  /\ gi <= Len(Rounds)
  /\ pending' = Listing(Rounds[gi])
  /\ withFins' = {o \in pending' : fins[o] # {}}
  /\ seenFins' = seenFins \cup withFins'
  /\ pc' = "delete"
  /\ NoFault
  /\ UNCHANGED <<storeVars, gi, cur, allSuccess, result, due>>

\* Mutant of ListFails: the loop goes on without recording the error.
ListFailsUnnoticed ==
  /\ pc = "list"
  /\ gi <= Len(Rounds)
  /\ Fault
  /\ gi' = gi + 1
  /\ UNCHANGED <<storeVars, pc, pending, withFins, cur, allSuccess, result, due, seenFins>>

\* Mutant of ListFails: both the continue and the loop advance.
ListFailsSkipsOne ==
  /\ pc = "list"
  /\ gi <= Len(Rounds)
  /\ Fault
  /\ allSuccess' = FALSE
  /\ gi' = gi + 2
  /\ UNCHANGED <<storeVars, pc, pending, withFins, cur, result, due, seenFins>>

ListFails ==
  /\ pc = "list"
  /\ gi <= Len(Rounds)
  /\ Fault
  /\ allSuccess' = FALSE
  /\ gi' = gi + 1
  /\ UNCHANGED <<storeVars, pc, pending, withFins, cur, result, due, seenFins>>

NextRound ==
  /\ pc = "delete"
  /\ pending = {}
  /\ pc' = "list"
  /\ gi' = gi + 1
  /\ UNCHANGED <<storeVars, pending, withFins, cur, allSuccess, result, faults, histVars>>

\* The item is finished with, whatever became of it.
ItemDone(o, ok) ==
  /\ pending' = pending \ {o}
  /\ allSuccess' = (allSuccess /\ ok)
  /\ pc' = "delete"
  /\ UNCHANGED <<gi, withFins, cur, result, due, seenFins>>

\* removeFinalizer returns at once when the listed copy has no finalizers.
AfterDelete(o) ==
  IF o \in withFins
  THEN /\ pc' = "get"
       /\ cur' = o
       /\ UNCHANGED <<gi, pending, withFins, allSuccess, result, due, seenFins>>
  ELSE ItemDone(o, TRUE)

\* Mutant of Delete: NotFound counts as an error.
DeleteNotFoundIsError(o) ==
  /\ pc = "delete"
  /\ o \in pending
  /\ IF Stored(o) THEN ApiDelete(o) /\ AfterDelete(o)
     ELSE ItemDone(o, FALSE) /\ UNCHANGED storeVars
  /\ NoFault

Delete(o) ==
  /\ pc = "delete"
  /\ o \in pending
  /\ \/ /\ Stored(o)
        /\ ApiDelete(o)
        /\ AfterDelete(o)
     \/ /\ ~Stored(o)                    \* NotFound is not an error
        /\ ItemDone(o, TRUE)
        /\ UNCHANGED storeVars
  /\ NoFault

\* Mutant of DeleteFails: the finalizers are removed after a failed DELETE too.
DeleteFailsFallsThrough(o) ==
  /\ pc = "delete"
  /\ o \in pending
  /\ Fault
  /\ allSuccess' = FALSE
  /\ pc' = "get"
  /\ cur' = o
  /\ UNCHANGED <<storeVars, gi, pending, withFins, result, due, seenFins>>

\* Mutant of DeleteFails: the error is logged and forgotten.
DeleteFailsSwallowed(o) ==
  /\ pc = "delete"
  /\ o \in pending
  /\ Fault
  /\ ItemDone(o, TRUE)
  /\ UNCHANGED storeVars

\* The DELETE is refused, or it is carried out and its answer lost.
DeleteFails(o) ==
  /\ pc = "delete"
  /\ o \in pending
  /\ Fault
  /\ ItemDone(o, FALSE)
  /\ UNCHANGED storeVars \/ (Stored(o) /\ ApiDelete(o))

\* Items of a typed NamespaceList have no GVK, and GetObjGVKFromStructuredType
\* knows pods and claims only: the GET of a Namespace is refused by the client.
GetLatest ==
  /\ pc = "get"
  /\ \/ /\ Meta[cur].kind = "Namespace"
        /\ ItemDone(cur, FALSE)
     \/ /\ Meta[cur].kind # "Namespace"
        /\ Stored(cur)
        /\ pc' = "patch"
        /\ UNCHANGED <<gi, pending, withFins, cur, allSuccess, result, due, seenFins>>
     \/ /\ Meta[cur].kind # "Namespace"
        /\ ~Stored(cur)
        /\ ItemDone(cur, TRUE)
  /\ NoFault
  /\ UNCHANGED storeVars

\* Mutant of GetFails: an unreadable object is taken for a deleted one.
GetFailsSwallowed ==
  /\ pc = "get"
  /\ Fault
  /\ ItemDone(cur, TRUE)
  /\ UNCHANGED storeVars

GetFails ==
  /\ pc = "get"
  /\ Fault
  /\ ItemDone(cur, FALSE)
  /\ UNCHANGED storeVars

\* Mutant of Patch: only one finalizer is removed (path /metadata/finalizers/0).
PatchFirstOnly ==
  /\ pc = "patch"
  /\ IF Stored(cur) /\ fins[cur] # {}
     THEN DropFinalizers(cur, {CHOOSE f \in fins[cur] : TRUE}) /\ ItemDone(cur, TRUE)
     ELSE ItemDone(cur, ~Stored(cur)) /\ UNCHANGED storeVars
  /\ NoFault

\* JSON patch "remove /metadata/finalizers": an error when the path is gone.
Patch ==
  /\ pc = "patch"
  /\ \/ /\ Stored(cur)
        /\ fins[cur] # {}
        /\ DropFinalizers(cur, Finalizer)
        /\ ItemDone(cur, TRUE)
     \/ /\ Stored(cur)
        /\ fins[cur] = {}
        /\ ItemDone(cur, FALSE)
        /\ UNCHANGED storeVars
     \/ /\ ~Stored(cur)
        /\ ItemDone(cur, TRUE)
        /\ UNCHANGED storeVars
  /\ NoFault

PatchFails ==
  /\ pc = "patch"
  /\ Fault
  /\ ItemDone(cur, FALSE)
  /\ UNCHANGED storeVars \/ (Stored(cur) /\ DropFinalizers(cur, Finalizer))

Return ==
  /\ pc = "list"
  /\ gi > Len(Rounds)
  /\ End(IF allSuccess THEN "success" ELSE "failure")
  /\ UNCHANGED <<storeVars, gi, pending, withFins, cur, allSuccess, faults, histVars>>

\* The command is killed between two calls.
Crash ==
  /\ pc \notin {"start", "done"}
  /\ Fault
  /\ End("crashed")
  /\ UNCHANGED <<storeVars, gi, pending, withFins, cur, allSuccess, due, seenFins>>

\* The user runs the same command again after a failure.
Rerun ==
  /\ pc = "done"
  /\ result # "success"
  /\ pc' = "start"
  /\ gi' = 1
  /\ pending' = {}
  /\ withFins' = {}
  /\ allSuccess' = TRUE
  /\ result' = "none"
  /\ seenFins' = {}
  /\ faulted' = FALSE
  /\ UNCHANGED <<storeVars, cur, faults, due>>

Command ==
  \/ GetGVKList \/ List \/ ListFails \/ NextRound
  \/ \E o \in Object : Delete(o) \/ DeleteFails(o)
  \/ GetLatest \/ GetFails \/ Patch \/ PatchFails \/ Return

OthersStep == Others /\ UNCHANGED <<procVars, faults, histVars>>

Next == Command \/ Crash \/ Rerun \/ OthersStep

Spec == Init /\ [][Next]_vars

\* The command is a running program, and kubelet and namespace controller do
\* their part.  Nothing is assumed of the owners of finalizers, of other
\* runs, or of the API server answering without error.
Fairness ==
  /\ WF_vars(Command)
  /\ \A o \in Object :
       /\ WF_vars(Drained(o) /\ OthersStep)
       /\ \A n \in Object : WF_vars(EmptyNamespace(n, o) /\ OthersStep)

FairSpec == Spec /\ Fairness

\* The user repeats the command until it succeeds.
RetrySpec == FairSpec /\ WF_vars(Rerun)

-----------------------------------------------------------------------------
(* Properties.                                                             *)

TypeOK ==
  /\ StoreTypeOK
  /\ pc \in {"start", "list", "delete", "get", "patch", "done"}
  /\ gi \in 1 .. Len(Rounds) + 1
  /\ pending \subseteq Object
  /\ withFins \subseteq Object
  /\ cur \in Object
  /\ allSuccess \in BOOLEAN
  /\ result \in {"none", "success", "failure", "crashed"}
  /\ faults \in 0 .. MaxFaults
  /\ due \subseteq Object
  /\ seenFins \subseteq Object
  /\ faulted \in BOOLEAN

\* No finalizer holds o now, and none can come back.
Released(o) == fins[o] = {} /\ phase[o] \in {"draining", "gone"}

\* "All preflight resources cleaned": when the command reports success, each
\* object in scope that was stored when it started has been deleted, whatever
\* failed, vanished or was listed twice on the way.
SuccessMeansCondemned ==
  result = "success" => \A o \in due : Terminating(o) \/ phase[o] = "gone"

\* When the command reports success, no object it listed with finalizers is
\* held by one any more, even if the finalizer was added after the listing:
\* the DELETE that precedes the patch shuts the door to new ones.
SuccessMeansStripped ==
  result = "success" => \A o \in seenFins : Released(o)

\* What makes an invocation fail though every call is answered.
Cause(o) ==
  \/ Meta[o].kind = "Namespace"
  \/ Meta[o].kind = "Pod" /\ Released(o)

\* A failure that no API call caused has one of two causes: the finalizers of
\* a pod went away by themselves between GET and PATCH, or a namespace has
\* finalizers (whose GVK deleteK8sResource cannot tell).
FailureHasCause ==
  result = "failure" /\ ~faulted =>
    \E o \in seenFins : Cause(o)

\* The command's own steps delete and strip only objects that carry its
\* labels, of its kinds, in its namespace.
OnlyInScopeTouched ==
  [][\A o \in Object :
       procVars' # procVars /\ <<phase[o], fins[o]>>' # <<phase[o], fins[o]>> => InScope(o)]_vars

\* The command removes finalizers, which protect data still in use, only from
\* objects whose deletion has been accepted.
LiveKeepFinalizers ==
  [][\A o \in Object : phase[o] = "live" /\ procVars' # procVars => fins'[o] = fins[o]]_vars

\* Repeating the command until it succeeds ends, with nothing in scope left
\* undeleted (checked where nothing new is created in scope and no backup
\* namespace has finalizers of its own).
RetryConverges ==
  <>[](result = "success" /\ \A o \in Object : InScope(o) => phase[o] # "live")

\* After a success every object listed with finalizers disappears, though
\* their owners never remove them.
StrippedVanish ==
  \A o \in Object : (result = "success" /\ o \in seenFins) ~> phase[o] = "gone"

\* "Delete the backup namespace and all the resources in it"
\* (cleanup.go:79): repeated until it succeeds, the command gets rid of every
\* backup namespace it is responsible for.
BackupNamespaceDeleted ==
  <>(\A o \in Object : Meta[o].kind = "Namespace" /\ InScope(o) => phase[o] = "gone")

\* The refinement mapping.
Scope == {o \in Object : InScope(o)}
There == {o \in Object : phase[o] = "live"}
Condemned == {o \in Object : Terminating(o) \/ phase[o] = "gone"}
Answer ==
  IF pc = "start" THEN "idle"
  ELSE IF pc # "done" THEN "running"
  ELSE IF result = "success" THEN "success"
  ELSE "failure"

Promise == INSTANCE CleanupPromise WITH
  Initially <- Preexisting,
  there <- There,
  condemned <- Condemned,
  owed <- due,
  answer <- Answer

\* The command implements the promise, call by call.
PromiseKept == Promise!Spec

-----------------------------------------------------------------------------
(* The inductive invariant behind the three guarantees about `result`.     *)

Running == pc \in {"list", "delete", "get", "patch"}
InRound == pc \in {"delete", "get", "patch"}

\* What the store's phases say about finalizers and kinds.
StoreInv ==
  \A o \in Object :
    /\ phase[o] \in {"unborn", "gone"} => fins[o] = {}
    /\ phase[o] = "finalizing" => fins[o] # {}
    /\ phase[o] = "draining" => Meta[o].kind \in {"Pod", "Namespace"}

\* The bookkeeping of the loop.
LoopInv ==
  /\ InRound => gi <= Len(Rounds)
  /\ pc \in {"start", "list"} => pending = {}
  /\ \A o \in pending \cup due \cup seenFins : phase[o] # "unborn" /\ InScope(o)
  /\ pc \in {"get", "patch"} => cur \in pending /\ cur \in withFins /\ phase[cur] # "live"
  /\ InRound => withFins \subseteq seenFins
  /\ pc = "patch" => Meta[cur].kind # "Namespace"
  /\ pc = "start" => gi = 1 /\ seenFins = {} /\ allSuccess /\ ~faulted
  /\ result = "none" <=> pc # "done"
  /\ result = "success" => allSuccess

\* The round that deletes o's kind is still to come.
RoundAhead(o) ==
  \E i \in DOMAIN Rounds :
    Rounds[i] = Meta[o].kind /\ (i > gi \/ (i = gi /\ pc = "list"))

\* While nothing has failed, whatever is due and live is still going to be handled.
DueInv ==
  /\ Running /\ allSuccess =>
       \A o \in due : phase[o] # "live" \/ (InRound /\ o \in pending) \/ RoundAhead(o)
  /\ result = "success" => \A o \in due : phase[o] # "live"

StripInv ==
  /\ Running /\ allSuccess =>
       \A o \in seenFins : Released(o) \/ (InRound /\ o \in pending \cap withFins)
  /\ result = "success" => \A o \in seenFins : Released(o)

CauseInv ==
  ~faulted =>
    /\ Running /\ ~allSuccess => \E o \in seenFins : Cause(o)
    /\ result = "failure" => \E o \in seenFins : Cause(o)
    /\ result # "crashed"

IInv == StoreInv /\ LoopInv /\ DueInv /\ StripInv /\ CauseInv
=============================================================================
