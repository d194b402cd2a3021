# TLA+ specifications of tvk-plugins

Specifications of the programs in this repository, the `preflight` and
`log-collector` kubectl plugins and the script that removes TrilioVault,
model-checked with TLC and, where it pays, proved with TLAPS. Everything is
translated from the sources; line numbers below refer to them. Paths are
relative to `src/`.

## 1. The system

| component | source | keeps | operations | talks to |
|---|---|---|---|---|
| preflight run | `tools/preflight/preflight.go:92-318`, helpers in `helper.go` | `preflightStatus`, `storageSnapshotSuccess`, the UID, the options; in the cluster: pods, claims, snapshots, a backup namespace | twelve checks in a fixed order; three of them create objects, wait for them, run commands in them and delete some | API server; starts a cleanup at its end |
| snapshot CRDs and class | `preflight.go:541-715` | `o.SnapshotClass`, `storageVolSnapClass`; CRDs and a VolumeSnapshotClass in the cluster | install missing CRDs, choose a class or create one | API server; its result is what the volume check uses |
| commands in pods, waits | `wait/pod_wait.go`, `exec/exec_to_pod.go`, `helper.go:594-663` | number of looks; a channel, a goroutine, a timer | WaitOnPod, ExecInContainer, execInPod | API server, kubelet |
| preflight cleanup | `cleanup.go`, `helper.go:283-303, 665-731` | `allSuccess`, the list being worked on | list, delete, strip finalizers | API server; shares all objects with runs, other cleanups and controllers |
| log collector: collection | `tools/log-collector/log_collector.go:108-280, 429-1000`, `helper.go` | the sets of resources, claims, volumes, names per kind; a directory tree | discovery, list per kind, label filter, write files, events per object | API server, local file system |
| log collector: archive | `log_collector.go:287-468, 1097-1286` | the bundle directory, the zip file, temporary tars and `.gz` files | stream logs, copy and unpack tars, decompress, zip, remove | kubelet, local file system |
| log collector: labels | `helper.go:231-317` | nothing | which objects match the given selectors | - |
| command line and configuration | `cmd/*/cmd/*.go`, `internal/kube_helper.go` | option structures, the clients | merge of file, flags and defaults; connection; validation | API server; hands its options to the three programs |
| TrilioVault removal script | `tools/cleanup/cleanup.sh` | the options in the environment, lists in the loops, `CLEANUP_RUN_SUCCESS` | delete, patch and get of whatever is to go, in loops over listings | API server, helm; shares the cluster with the operator it removes |

The interaction that matters is through the API server: a run, its own cleanup,
other users' cleanups, the kubelet, the snapshot controller and the namespace
controller all create, change and delete the same objects, and no call of these
programs is atomic with the next one. There is no retry inside the programs: an
error is counted or ends a check, and the user repeats the command.

### What is hard here

- *Interleaving and stale copies.* Cleanup decides on the finalizers of a listed
  copy; by the time it deletes or patches the object, others have changed it.
- *Failure half-way.* Every call can fail or lose its answer, and each failure is
  treated differently (ends the command, is counted, ends a check, is a warning).
- *Objects left behind.* Which of the run's objects are still there, and which
  cleanup finds them, depends on where the run stopped and on the labels.
- *Verdict.* Checks are skipped, abandoned and followed by others; the exit
  status has to sum them up.
- *Waits.* A pod need never become ready, a command in a pod need never answer.
- *Precedence.* Each option is merged by a helper of its own, in an order that
  differs between the commands.
- *Failures taken for answers.* In the script a listing that fails reads as an
  empty one, and a get that fails reads as "deleted".
- *Files.* The log collector truncates, removes and renames files that other
  steps of it still read.

`PROJECT.json` lists each of these at the line where it bites ("hazards"), with
the properties that would show it going wrong, or why no property covers it yet.

### What makes each component correct

- cleanup: success means every object that was due is deleted and no listed
  finalizer holds one; failures have a cause; nothing out of scope is touched;
  finalizers are only taken from what is being deleted; repetition converges.
- run: the exit status is earned; what a cleanup can leave is known exactly;
  capability pods come one at a time; the run ends.
- snapshot class: the class used has the provisioner's driver, whatever CRDs were
  there before and whatever was installed half-way; the user's own choice is kept;
  repetition does not pile up classes; a sound cluster passes.
- commands in pods: an answer, an error or a timeout, never two of them; what is
  left running when the caller has given up.
- log collector: what the options select is in the bundle, with its events, and
  nothing else is, nor what its code is to take out of specs; nothing is lost
  but for named reasons when steps overwrite or remove one another's files; all has
  been given to the archive before its source is removed.
- command line: flag before file before default, for every option; the scope and
  the cluster are the ones asked for.
- removal script: nothing goes that was not asked for; reported success is true
  but for named exceptions; CRDs come after their instances; the script ends.

## 2. Modules

    CleanupPromise          what a cleanup promises (abstract)
        ^ implements
    PreflightCleanup        `preflight cleanup`, one action per API call
        EXTENDS ApiStore    the API server and everybody else (external)
      MCPreflightCleanup    small clusters for TLC
      PreflightCleanup_proofs

    PreflightRun            `preflight run`; a cleanup is one step of it
      PreflightRun_proofs

    SnapshotSetup           CRDs and snapshot class, call by call, concurrent runs
      MCSnapshotSetup       small clusters for TLC
      SnapshotSetup_proofs

    CollectionPromise       what a collection promises (abstract)
        ^ implements
    ResourceCollection      which objects get into a bundle, and which events
      MCResourceCollection  a small cluster for TLC
      ResourceCollection_proofs
      CollectionComplete_proofs

    LogBundle               the log collector's files of one namespace
      MCLogBundle           what pods may hold, for TLC
      LogBundle_proofs

    CommandInputs           file, flags and kubeconfig of the three commands
      MCCommandInputs       what they may be given, for TLC
      CommandInputs_proofs

    CleanupScript           the removal script, call by call, and the operator
      MCCleanupScript       a small installation for TLC
      CleanupScript_proofs

The two levels fit together: `PreflightRun` takes a cleanup as one step that
deletes all it is for when it succeeds and any part of it when it does not; that
this is what the call-by-call command does is what `PreflightCleanup` shows
(`SuccessMeansCondemned`, and the refinement of `CleanupPromise`). In the same
way it takes the stages `crds` and `snapclass` as one step with two outcomes;
`SnapshotSetup` is what happens inside them. `CommandInputs` ends where these
begin: the settings in `ResourceCollection`'s instance include the one that only
`CommandInputs` explains (no namespaces and no scope of the cluster, after a file
that names namespaces). `ResourceCollection` writes objects, `LogBundle` the logs
of the pods among them.

### ApiStore (external)

The API server as the programs use it. `phase` is where an object is in its life
(unborn, live, draining, finalizing, gone), `fins` its finalizers. Requests:
`ApiDelete`, `DropFinalizers`; others' steps: `Create`, `OtherDelete`,
`AddFinalizer`, `OwnerRemoves`, `Drained`, `EmptyNamespace`. Labels and namespace
never change, so they are a constant (`Meta`). A pod that is scheduled has a grace
period; a namespace waits for its controller; a terminating object accepts no
new finalizers.

### PreflightCleanup

State of the code: `allSuccess`, the position in the list of kinds (`gi`), the
items of the current list not yet handled (`pending`), those whose listed copy
had finalizers (`withFins`), the item being stripped (`cur`). `pc` names the next
call. Actions and code:

| action | code |
|---|---|
| `GetGVKList` | getCleanupResourceGVKList, the only error that ends the command |
| `List`, `ListFails` | `cleanup.go:59-66`, `:79-85`: a failed list of a kind is recorded and the loop goes on |
| `NextRound` | all items of the list are handled |
| `Delete`, `DeleteFails` | DELETE of one item (`helper.go:706-713`); NotFound counts as done |
| `GetLatest`, `GetFails` | GET before the patch (`helper.go:685-697`); refused for namespaces, whose GVK is unknown |
| `Patch`, `PatchFails` | JSON patch that removes metadata.finalizers (`helper.go:676-704`); fails when there are none any more |
| `Return` | the summary (`cleanup.go:101-106`) |
| `Crash`, `Rerun` | the process is killed; the user repeats the command |

A failed DELETE, GET or PATCH may or may not have been carried out by the server.
`due`, `seenFins`, `faulted` are history that only properties read.

### PreflightRun

`Stages` are the checks in code order. `Plan(stage)` lists what a check creates,
and `Waited`, `Executed`, `DeletedWhenDone` say what happens to each object
after CREATE. `status` and `storageOk` are `preflightStatus` and
`storageSnapshotSuccess`. `present` is what the cluster holds of the run,
`inflight` the CREATEs whose answer was lost. Checks that create nothing are one
step with either outcome (`Check`). Each call of the others is an action:
`Create/CreateFails`, `Poll/PollFails` (one look of a wait),
`DeletePod/DeletePodFails` (a warning only), `Cleanup`. A command in a pod is four
of them (`helper.go:641-663`, `exec/exec_to_pod.go:69-113`): `Exec` starts the
goroutine, `Stream` ends its streaming at any later time, `Answer` is its result
taken from the channel, `ExecTimeout` the three minutes after which nobody
listens and a goroutine that finishes blocks for ever; when both are ready, either
happens. Around them: `Killed`,
`UserCleanup` after the run, `Lands` (a lost CREATE is carried out late), and
`Intrusion` (another cleanup deletes objects under the run).
`RunLabel` is the value of the `preflight-run` label as the code sets it, and
`Reach` what a cleanup selects by it.

### SnapshotSetup

The stages `crds`, `storageclass` and `snapclass` of several runs at a time, each
repeated any number of times (a `Slot` is a place for a run). Shared by all:
which versions each of the three CRDs is to serve, which CRDs are established,
which classes exist with which driver, which are marked as default. Of each run:
the position in the loop over the CRDs, whether one could not be installed, the
class asked for, the preferred version, the class chosen, the two verdicts.

| action | code |
|---|---|
| `Start` | a run begins (`preflight.go:160`) |
| `NoServerVersion`, `GetCrd`, `GetCrdFails` | `:164-174`, `:673-679`: only NotFound leads to a CREATE, any other error ends the check |
| `InstallCrd`, `InstallCrdFails` | `:681-704`: an error (AlreadyExists too) is collected and the loop goes on; the CRD of the classes makes the run forget the user's class |
| `NextCrd`, `CrdVerdict` | end of the loop, aggregate of its errors |
| `GetStorageClass`, `ClassCallFails` | `:183-219` |
| `Prefer` | preferred version of the group (`:210-223`); with a class given, the choice is stored before it is verified (`:554`) |
| `ListClasses`, `Pick` | `:574-627`: the first default class of the driver, or the last one of the driver |
| `MakeClass`, `MakeClassFails` | `:629-662` |
| `LookUp`, `GetClass` | `:554-570`, `helper.go:337-347` |
| `Establish`, `AdminAdds/Marks/Deletes` | everybody else |

Assumed: nobody removes CRDs while runs are under way; a class has the driver it
was created with; a CREATE of a class whose answer is lost is carried out at once
or never. A kill while a CREATE is under way is a kill before it, or a CREATE
followed by a kill or a failure.

### LogBundle

The directory of one namespace on the local disk, its archive and its removal.
`pod` counts through the listed pods; `todo` is the rest of the tar being
extracted, `walk` the `.gz` files still to visit, `disk` the files of the directory,
`temp` the pods whose temporary tar is in it. A file is known by its name, by the
pod it comes from and by the shape of its content (plain, compressed, cut off, too
large, not gzip at all, not written to its end).

`zip.Writer` keeps back the end of what it is given: the last file's compressed
stream and descriptor, the tail of a buffer, and the central directory reach the file
only with the deferred `w.Close` (`:426-427`), which runs after `os.RemoveAll`
(`:461`). So the archive is `added`, the files given to the writer, and `zip`, which is
`open` from then on, `closed` when the deferred close has written the rest, and `torn`
when a kill or a failing close came first; any of the files added may then be among
`unwritten`, those whose end the writer still had. `collected` (history) is what the
directory held when it was archived; `copied`, `offered`, `spoiled` (complete `.gz`
files whose decompression failed) and `stuck` (tars that could not be removed) are
history too.

| action | code (`log_collector.go`) |
|---|---|
| `GetPod`, `PodGone`, `GetPodFails` | `:300-318`: a pod that has gone is skipped, any other error ends the command |
| `Look`, `LookFails` | `:1063-1120` |
| `TarArrives`, `TarFails` | `:1123-1154`; the temporary tar is removed by a deferred `os.Remove` whose error is ignored (`:1121`, `RemoveTar`) |
| `Extract`, `ExtractFails`, `Extracted` | `:1158-1213`: files over the limit end the extraction, files of one name replace one another |
| `Gunzip`, `GunzipFails`, `GunzipRefused`, `Gunzipped` | `:1229-1286`: the walk in lexical order; the deferred removals |
| `Stream`, `StreamFails` | `:349-410` |
| `Archive`, `ArchiveFails`, `Remove`, `RemoveFails` | `:412-467`; a failure leaves any part added or removed, and goes through the deferred closes as well |
| `Close`, `CloseFails` | the deferred closes (`:422-427`), whose errors are ignored: the command may report success with a torn archive |
| `Killed` | the process is killed, in the middle of any of these |

Abstractions: one namespace, one log stream per pod (they have names of their
own), a flat directory. Adding all files and removing all files are one step each when
they succeed, because nobody else works in the directory; a kill or a failure in the
middle of one is a step of its own.

### ResourceCollection

One collection, from the namespaces to the events. State of the code:
`l.Namespaces` (`spaces`, which grows on OpenShift), `l.InstallNamespace` (`home`),
`isOpenShift` (`shift`), the groups and resources not yet visited, the resource
in hand and what was found of it, `resourceMapList` (`names`), `collectedPods`,
`collectedPVCs`, `pvNames`, and the YAML and event files by their paths. `missed`
and `unheard` are history: what failed calls would have told.

| action | code (`log_collector.go`) |
|---|---|
| `CheckNamespaces`, `NamespaceUnknown` | checkIfNamespacesExist |
| `Discover`, `DiscoverFails` | getAPIResourceList: a group whose discovery fails is left out with a warning |
| `AskOpenShift` | CheckIsOpenshift: any error but "not found" means yes |
| `NextGroup`, `RememberEvents`, `GroupDone` | the loop over a Go map, and over a group's resources |
| `Filter`, `FilterPanics`, `ListGvk`, `ListOcp`, `ListPolicies` | filteringResources: by kind and labels, by the kinds asked for, OpenShift's, network policies |
| `Write`, `WriteFails` | writeObjectsAndLogs, and what is remembered; files of one kind, namespace and name replace one another |
| `CollectTrilio`, `CollectTrilioFails`, `TrilioDone` | getTrilioGroupResources |
| `GetVolumes`, `GetVolumesFails` | collectAndWritePVs, after the claims of a group or of the pods |
| `GetPodClaims`, `PodClaimsFail` | collectApplicationPVCsFromPods |
| `GetEvents`, `WriteEventsFails` | getResourceEvents: one file for an object |
| `Vanish` | everybody else |

The label selection (`helper.go:231-317`) is a set of operators: `HasTvkLabel`,
`Satisfies`, `MatchLabelSelectors`, and `Panics` for a requirement that
NewRequirement refuses and whose nil is then asked. An object is a record of what
the filters look at, and `holds` says where it keeps an NFS server or a licence key, in its
spec or in an annotation that repeats the spec (as `kubectl apply` leaves it). A file is
an object with what can be read of that (`shows`): `Yaml` does to an object what
writeYaml does, which is to take server and path out of a volume's spec and to leave
the annotations of volumes and every other kind alone (`helper.go:388-415`);
`TrilioYaml` takes the key and the annotations out of a licence
(`log_collector.go:818-822`). Whatever the group in hand, the policies that
`ListPolicies` adds are those of networking.k8s.io (`:717`). Directories can be created
and files of different paths do not collide. `filed` (history) are the objects that
have had a file, whether or not another replaced it.

`CollectionPromise` is what is left when groups, lists, filters and calls are taken
away: a directory in which files appear, of what is in scope or comes along with
something already there; which may be replaced, by objects of the same file name,
but never disappear; and a success that is only reported when nothing owed is
missing. The collector maps to it (`DirectoryFills`) with the objects promised in the
namespaces given as `wanted`, what fits a promise at all as `scope` (it grows once,
on OpenShift, before anything is written), the objects with files as `bundle`, and
what vanished or was hidden by failed calls as `lost`.

### CommandInputs

Each command as the sequence of helpers it runs through. A value is a token that
says where it came from (`file`, `flag`, `default`, empty, or `odd`: refused by its
parser); quantities are numbers.

| action | code |
|---|---|
| `ReadFile` | the file is unmarshalled strictly over the default quantities; null leaves a nil map |
| `CommonFromFlags`, `OwnFromFlags`, `NodeSelector`, `ResourceLists` | `cmd/preflight/cmd/helper.go:75-200`, option by option |
| `Connect` | InitKubeEnv and InitializeKubeClients: which kubeconfig is read, and when another configuration is found |
| `Validate` | validateRunOptions, validateCleanupFields |
| `ScopeAndConfig`, `CollectionFromFlags`, `Kinds`, `Versions`, `Labels`, `CheckCollection` | `cmd/log-collector/cmd/helper.go` in its order, `root.go:58-85` |

`Input` is the set of everything one command may be given, so that a theorem about
the module is about every file and command line.

### CleanupScript

The script (`tools/cleanup/cleanup.sh`) and, beside it, the operator's controllers
and the API server. Whatever goes is removed in the same four steps, `Delete`
(kubectl delete, at most five seconds), `Wait`, `Patch` (finalizers) and `Look`
(kubectl get); `target` is what the calls name and `back` where the script goes on.

| action | code |
|---|---|
| `ReadOption`, `Start` | `:214-289` |
| `Delete`, `Wait`, `Patch`, `Look` | `:31-43`, and the same calls in the other parts |
| `NextResource`, `NextPlace`, `NextName` | delete_tvk_res (`:19-52`): resources, namespaces of their objects, names |
| `CheckOcp`, `Subscription`, `Csv` | `:54-94`, on OpenShift |
| `HelmList`, `NextNamespace`, `Manager`, `UninstallManager`, `UninstallOperator`, `Cron` | `:96-164`, in each namespace that helm lists |
| `ListCrds`, `NextCrd`, `Report` | delete_tvk_crd (`:167-191`), `:325-331` |
| `Finalize`, `Create` | controllers finish what is terminating while one of them runs; objects appear |

The three resources in `AllResources` stand for the script's ten: one without
namespaces, two with. CRDs are of these, of managers, of a kind of Trilio's that the
script does not list, or somebody else's (`Trilio`, `Foreign`): `ListCrds` takes what
the grep of `:173` takes, which is every CRD of Trilio's, and a CRD takes its instances
along (`AfterDelete`). Managers are listed without a grep (`Matched`, `:105`). Several
names in one quoted argument name no object (`Named`, `bunched`); a listing or a get
that fails says nothing (`unheard`).

## 3. Runs

| run | question | bounds |
|---|---|---|
| `cleanup_workloads` | why an invocation fails; what is touched; whose finalizers are taken | a pod that may appear, a backup namespace, a pod in it, another run's pod, an unlabelled claim, one finalizer, one fault, any number of reruns |
| `cleanup_retry` | what success guarantees; does the command implement the promise; does repetition get there | snapshot, claim and pod, all due, two served versions (so that the snapshot is listed twice), two finalizers; one failed call, lost answer or kill; liveness |
| `cleanup_namespace` | (violation) is a backup namespace always deleted | one namespace, liveness |
| `run_safety` | verdict, leftovers, capability pods, does every run end | every option combination, waits of two looks, two faults; liveness |
| `run_cleanup_on_failure` | (violation) does --cleanup-on-failure clean | one fault |
| `setup` | what the two checks guarantee, which class is used, do classes pile up | two runs, two class names, two drivers; all CRDs with one of them newer, one missing, two missing; one fault; slots are symmetric |
| `bundle_safety` | what can get lost, and why | two control-plane pods, two log names, every shape of content, two faults |
| `collect` | is everything promised there, and nothing else; which events are missing; does the collector implement the promise | sixteen objects of eleven resources in six groups, OpenShift or not, six settings, every order of groups, one step whose calls fail or one object that vanishes |
| `inputs` | which value prevails, which cluster, which kinds | any two options with every origin, quantities of one resource, pairs of kinds, every kubeconfig |
| `inputs_incluster` | (violation) is the file's inCluster used | as `inputs` |
| `inputs_namespaces` | (violation) are the file's namespaces used | as `inputs` |
| `script` | what success means, what is left, does the script end | eight command lines; two installations, two CSVs, CRDs with held and late instances, the managers' CRD and somebody else's; one failing call |

Why these bounds suffice. The command handles one item at a time and items
influence each other only through `allSuccess`, through membership of a
namespace and through being listed twice; `cleanup_retry` has several items and two
served versions, `cleanup_workloads` a namespace with contents. Two finalizers tell
"stripped" from "one stripped". One fault lets a failure be masked by the successes
that follow it.
For waits, only the first, a middle and the last look differ; two looks have a
first and a last. Runs of `setup` meet only through CRDs and classes: two of them
can be at the same call, or one of them ahead; of classes it matters whether one
fits, whether another one fits too, and which is marked. In `bundle_safety` two
control-plane pods are the fewest that share a directory (other pods only add log
streams, which have names of their own); two names are the fewest with a "behind the one
that fails". In `collect`
one kind exists in two groups, one object can be reached in each of the four ways
that write files, and one namespace is only listed on OpenShift; one fault is
enough because failures are passed over one at a time and `missed` collects them.
In `inputs` options meet only in pairs (a secret needs a registry, namespaces need
a scope). In `script` `-n -c` without `-t` meets a manager and its CRD, two objects in
one argument are the fewest that go wrong, a
second installation shows that names are matched, and one failing call can be any.
The theorems of section 5 hold for every value of these.
All runs disable the deadlock check because the programs terminate.

In `cleanup_retry` nothing new is created in scope (a program creating objects
for ever could keep the user busy for ever) and there is no backup namespace
(`cleanup_namespace` shows what happens with one).

## 4. Fairness

- The command is a running program whose calls return: weak fairness of `Command`
  and of `Run`. Pods and snapshots may stay unready for ever.
- The kubelet stops pods and the namespace controller empties namespaces: weak
  fairness of `Drained` and `EmptyNamespace`, used by `cleanup_retry` and
  `cleanup_namespace`. Nothing is assumed of the owners of finalizers.
- The removal script is a running program whose calls return, because kubectl is
  given five seconds: weak fairness of `Script`. Nothing is assumed of the
  controllers; objects may stay terminating for ever, or appear.
- `RetrySpec` adds a user who repeats a failed command. Faults are bounded, so
  that from some point on every call is answered.

## 5. Proofs

The theorems hold for every set of objects, finalizers and versions, every limit
on waits, any number of concurrent runs, classes and drivers, any pods and log
names, every cluster of objects, groups and settings, every file and command
line, every installation, and every number of faults. The assumptions are
`StoreAssumption`, `CleanupAssumption`, `RunAssumption`, `SetupAssumption`,
`BundleAssumption`, `AbsentAssumption`, `CollectionAssumption`,
`CommandAssumption` and `ScriptAssumption`, which say that the constants have the
shapes the code gives them; TLC evaluates each on the runs' instances. None of them
says what a volume, a pod or a licence may hold, which groups have policies, or that
the CRDs are those of the script's list.

*Cleanup.* None of the guarantees about `result` is inductive: they speak of the
end, and what makes them true is the bookkeeping of the loop. `IInv` adds it:
`StoreInv` (phases and finalizers agree), `LoopInv` (what pc says about the
current list and item), `DueInv` (as long as nothing has failed, whatever is due
and live is in the current list or in a kind still to come), `StripInv` (whatever
was listed with finalizers is released or still to be stripped), `CauseInv` (as
long as no call has failed, a recorded failure has one of the two causes). From
`TypeOK /\ IInv` follow `CondemnedOnSuccess`, `StrippedOnSuccess` and
`FailuresExplained`; `OnlyScope` and `LiveKeep` are action properties that need
the same invariant; `Implements` proves that every step maps to a step of
`CleanupPromise` or to none, for which `DueInv` gives the one interesting case
(`Succeed` is allowed).

*Run.* `RunInv` adds to the properties: `ExitInv` (where the process is agrees
with how it ended), `StatusInv` (the verdict so far says exactly whether all
demanded checks that are over have passed; a cleared storage flag implies a
failed verdict, so skipped checks never count), `SweepInv` (sweeps of the run's
namespace happen only after its last CREATE was sent), `CapsInv` (during the
capability check only the current pod stands; after a success none does). For
the commands in pods there is `StreamInv` on top of it (`HeardInv`: a check with
a command that has passed, or whose pod is being deleted, has heard of the
command's success), from which `NoUnheardCommand` follows.

*Snapshot set-up.* `SetupInv` adds `PlaceInv` (where a run is and what it knows of
its class: the class asked for is kept or the run installed the CRD), `LoopInv`
(CRDs behind the loop's position are there as long as no error was collected:
what `CrdCheckMeansInstalled` needs, because another run may install the missing
ones), `MakerInv` (a run about to create a class has none of its own beside it,
because the list it has just seen showed no class of the driver) and `SoundInv`
(while the CRDs agree on v1, a run whose calls are answered never installs
anything and prefers v1).

*Log bundle.* `BundleInv` adds `PlaceInv` (what is left over at each place of the
program: the whole directory has been given to the archive when its removal starts, and
has at most lost files since), `TarInv` (each entry of
a tar is extracted once at most, under a name of its own) and `FileInv` (a `.gz`
on the disk came in a tar, and an unpacked log never lies next to the `.gz` of
the same pod, so that decompressing can only replace another pod's log or one
that was plain and compressed at the same time).

*Resource collection.* `GroupInv` says what kind of resource can be in hand where
(Trilio's own group never reaches the filters; the keys of its licences are removed where
it is collected) and that the namespaces searched are the ones set plus OpenShift's.
`FileInv` says of everything found and written that it fits a promise
by itself or was reached from a pod or a claim that was written. `OnlyPromised`
and `SpecsBare` follow.

That nothing is left out is a module of its own. `OrderInv` keeps the loops' books:
a resource in hand is neither left nor in a group still to come, each resource is
visited once, and after the last group nothing is left. With it `DueInv` is
inductive: as long as the run has not failed, an object that is promised has been
filed, or is found, or lies ahead, in a call still to be made for the resource in
hand, in a resource left, or in a group not yet visited. `WayInv` says the same of
what is only reached from elsewhere: the claims of collected pods until
`GetPodClaims`, the volumes of collected claims until `GetVolumes`. At the end
nothing lies ahead. What was filed has its file still, or an object of another group took
its path (`FiledInv`), and that is `CollectedComplete`. For the events, `EventInv` says of
each collected object that its name is remembered, unless it is Trilio's, came by
way of a pod or a claim, or another group's resource of its kind replaced the
names (`Known`); that its own resource does not come again and erase them
(`Fresh`); and that every name remembered is that of a file (`NamesInv`).

`CollectionImplements` maps every step of the collector to a step of
`CollectionPromise` or to none. From `FileInv` follows that a step writes only what
is in scope or was reached from an object with a file; from `DueInv` and `WayInv`,
that `Succeed` is allowed when the collector returns without an error. That files
stay is neither's consequence: it is shown for each action that writes.

`EventsExplained` is about single events, because the code names a file after the
object: of two events of one object, or of two objects of one kind, namespace and name,
one is written over the other (`Outwritten`). `SpecsBare` is as narrow as the code:
it holds because `Yaml` is applied wherever a volume is written and `TrilioYaml`
wherever a licence is, whichever way they came, and says nothing of what these leave in.

*Command line.* Each helper settles some options and leaves the rest, so
`OptionInv` says of each option where in the sequence it changes from what the
file says to what is promised, but for inCluster and namespaces, which `Precedence`
leaves out; `QuantityInv` does so for the quantities,
`ScopeInv` for the namespaces and the scope, which are decided one after the other
from the same flag, and `TargetInv` says why the cluster asked is the one.
`KindInv` follows the kinds from the file over the flag to the versions that the
cluster fills in. That duplicates are collected once, in the order in which they
were first named, rests on lemmas about `Unique`, which numbers the first
occurrences by how many there are up to each place: the numbering is onto, because
each place has a least one not behind it (by the well-foundedness of `<` on the
naturals, not by an induction over the list).

*Removal script.* `FlowInv`: a removal in hand is of what its part of the script is
about; with it, `TouchInv` gives `OnlyWhatWasAskedFor`. `CallsInv` says what the
calls of a removal have done so far (after the delete an object is no longer live,
after the patch it is gone, unless a call was refused or the argument named
several). `DueInv` is the argument for the loops: what is to go and still there
lies ahead, in a list, in the hand or in a later part, unless an answer was
missing or a refusal is on record; `GoneInv` is what is left of that at the end.
`OrphanInv` carries it across the deletion of the CRDs, which happens when nothing
of the kind lies ahead any more. What `-c` selects in `OnlyWhatWasAskedFor` includes
every instance of Trilio's CRDs, because the API server deletes them with their CRD; and
`CrdsComeLast` excepts what the script does not remove before (`Followed`), which is
how a manager can be left behind by `-c` without `-t`.

*Do they end.* That an enabled step is taken at last is fairness, which only TLC
can use; that there are only so many steps to take is proved. Each theorem gives a
rank, a tuple of naturals in lexicographic order, which by the library's theorems is
well-founded, and shows that every step of the program lowers it and that nobody else
raises it. The first three are the core of a liveness property that TLC checks.

- `RunComesNearer`: stages left, items of the stage, calls for the item, looks of
  the wait. Skipped stages, the cleanup at the end, intruders, lost CREATEs and
  commands in pods that never answer are covered, for any number of looks.
- `ScriptComesNearer`: parts of the script left, arguments, resources, namespaces,
  names, steps and calls. It needs that a listing is finite (`FiniteInv`). Objects
  that appear, or stay terminating, do not touch the rank: the script never waits
  for any of them.
- `RepetitionsRunOut`: here the user starts over, so the first component is a
  budget: the faults left, the pods not yet released, and whether the invocation
  under way has already been paid for, should it fail. By `CauseInv` an invocation
  that fails has had a failed call, or met a pod that others released between its
  calls, or listed a namespace with finalizers. The first two take from the budget
  and cannot happen for ever; the third takes nothing, and `cleanup_namespace`
  shows the repetitions that never end. The theorem assumes that finitely many
  objects ever exist (`IsFiniteSet(Object)`): with an unlimited supply of new ones
  the user can be kept busy for ever. Objects that appear and finalizers that are
  added meanwhile are within it.
- `AtMostTenCalls`: in the set-up a single number is enough, the calls a run still
  has to make. Others install the CRDs it is about to install and delete the classes
  it has listed, and never give it more to do.
- `BundleComesNearer`: pods, calls for the pod, entries of the tar, `.gz` files of the
  walk. That these are finitely many follows from the names (`FiniteEntries`,
  `FiniteNames`).
- `CollectionComesNearer`: parts of the command, groups, resources of the group, calls
  for the resource, things that may still go wrong. It assumes that discovery lists
  finitely many resources; objects need no counting, because a list is one step.

These are theorems about calls that return: a call that never does (the log streams
have no deadline, `log_collector.go:1141`) is outside of what the models say.

The inductive invariants of the cleanup, the run, the snapshot set-up and the
bundle were also checked with TLC on the runs' instances.

Only model-checked: the four liveness properties, because fairness and ENABLED are
out of the prover's reach. `RunEnds`, `ScriptEnds` and `RetryConverges` have their
ranks proved as above; what TLC adds is that each program always has a step to take
until it is done. `StrippedVanish` speaks of others' steps only. Every other
property of a passing run is stated by a theorem. `TypeOK` of `CommandInputs` is
proved (`InputsTypeCorrect`) and not part of a run.

## 6. Findings

1. `cleanup_namespace`: a backup namespace with finalizers in its metadata is
   never deleted. deleteK8sResource wants to strip it, but the items of a typed
   NamespaceList have no GVK and the helper that fills it in knows pods and claims
   only, so the GET before the patch is refused on every repetition.
2. `run_cleanup_on_failure`: capability pods are labelled
   `preflight-run=<index>-<uid>`; the run's own cleanup selects
   `preflight-run=<uid>`. A capability pod that did not become ready survives it,
   against `docs/preflight/README.md:290` and `:44`. A cleanup without a UID does
   delete it.
3. `inputs_namespaces`: the documented configuration file names namespaces
   (`docs/log-collector/README.md:122`, `:126-128`). Because they are there the
   collection is not of the whole cluster, and because it is not,
   `cmd/log-collector/cmd/helper.go:57` takes the flag, which is empty: nothing of
   the file's namespaces is collected.
4. `inputs_incluster`: `docs/preflight/README.md:189` lists `inCluster` in the
   configuration file, and `:210` says that flags override what the file gives. The
   flag's variable is taken when the flag was given, and also when the file says true
   (`cmd/preflight/cmd/helper.go:131`): it is then the flag's default, false, so that
   the option has no effect in a file.

Seen on the way. The properties of the passing runs name these as exceptions, or
the model's actions show them; none has a run of its own.

- Run: when the CREATE of the clone's VolumeSnapshot fails, the
  VolumeSnapshotContent created just before (`preflight.go:1059`) has nobody to
  delete it (`LeftBehind`). `docs/preflight/README.md:80` promises a
  volumeSnapshotClass marked as default; the code settles for one that is not.
  `helper.go:728` speaks of about 300 s; 120 looks five seconds apart take twice that.
- Bundle: a `.gz` that was copied while the pod was writing it is removed, a plain
  log of the same name with it, and the walk ends there, so that the `.gz` files
  behind it stay compressed (`log_collector.go:1229`, `cmd_test.go:197` expect
  otherwise). The end of the last file
  and the central directory are written by a deferred close (`:427`), after the source
  has been removed (`:461`): a kill in between loses what was collected, and when the
  close fails nobody notices and the command reports success. The temporary tar is
  archived when its removal fails, which is ignored (`:1121`). All control-plane pods of a
  namespace are copied to one directory (`:318`), where logs of the same name
  replace one another (`:1201`).
- Collection: an NFS volume keeps its annotations, of which `kubectl apply`'s repeats
  server and path (`helper.go:388-415`; for licences the annotations are dropped,
  `log_collector.go:820`), and pods with NFS volumes of their own and Trilio's Targets
  are written as they are. The policies listed are those of networking.k8s.io for every
  group that has the kind (`:717`), under the plural of the resource in hand.
  Events of one object are written to one file, of which the last one survives
  (`:205-216`). The comment at `log_collector.go:513-518` promises claims by
  namespace and by label; with labels, claims of the given namespaces without a
  matching label are left out. A requirement with an unknown operator makes the
  program panic instead of matching nothing (`helper.go:308-312`). Labels do not
  select CRDs and CSVs, which are chosen by their names alone
  (`log_collector.go:480`, `:494`).
- Command line: the tables of `docs/log-collector/README.md:93-94` call the flags
  `--gvk` and `--label-selector`, the code `--gvks` and `--labels`.
  A GVK with fewer than three parts, `null` for a list of quantities, and a
  quantity that does not parse end in a panic rather than in an error
  (`cmd/log-collector/cmd/helper.go:103`, `cmd/preflight/cmd/helper.go:154`, `:109`).
- Script: `-c` without `-t` removes the managers' CRD as well (`:173`), and with it every
  manager in the cluster; `docs/cleanup/README.md:39-41` lets the user select "any or all"
  of the application and the CRDs. Managers are listed without the grep that other names
  go through (`:105`). Several names in one quoted argument name no object, so that the delete
  fails and the get that follows reports success (`:78-93`, `:105-118`, `:144-158`).
  A listing that fails reads as "does not exist" (`:24`). Finalizers are taken also
  when the delete was refused, and CRDs are deleted after resources that failed.

## 7. Plan

Done: the cleanup and the collection with the promises they implement, the run with
the commands in its pods, the snapshot set-up, the log bundle, the command line, the
removal script; type correctness, the safety properties named in section 5, and the
ranks by which every program with a loop comes to its end.

Left, in this order:

1. The run with its stages `crds` and `snapclass` expanded: each slot of
   `SnapshotSetup` as a refinement of two stages of `PreflightRun`.
2. Larger reference instances of the label selection: three requirements on two
   labels.
3. The composition of `CommandInputs` with `ResourceCollection`, so that the
   settings of the second are outcomes of the first.

A module's questions are asked in one run wherever one instance can show them, and
of the counterexample runs only the ones that say most are kept.

## 8. Not modelled

- Helm and Kubernetes version strings: regular expressions over the output of
  external commands, without state. `internal/utils/shell/cmd.go`, which runs
  those commands, and the loading of REST mappings and discovery caches.
- Kubernetes clients beyond which kubeconfig they are built from.
- In the run: the checks that create nothing are one step with either outcome,
  because what they compute (RBAC review, DNS answer, version comparison) is
  outside.
- In the collection: OpenShift's cluster-wide Ingress configuration is an action's case
  (`OcpRelated`) without an object in the instance; what pods, Targets and annotations of
  volumes say of NFS servers is recorded (`shows`), and no property is about it.
- In the script: variables that it inherits from the environment before it sets
  them (`TVK_resources`, `Delete_CRD`), and the wording of what it prints.
- A finalizer added after the LIST to an object listed without any, and a log
  stream that never ends: both can happen and nothing in the code or its
  documentation promises anything about them.
- Logging, the content of pod specifications and of CRD files, build, packaging
  and test scripts, and TrilioVault itself.
