# Formal model of proxmox-actions-runners

The repository runs GitHub Actions jobs on disposable Proxmox VMs. A controller (`internal/controller`) keeps as many
worker VMs as GitHub wants; each runs one job and is destroyed. An installer (`internal/installer`) sets the host up,
imports the VM template the workers are cloned from, and updates all of it.

This directory holds TLA+ modules that model the system, TLC configurations that check them on small instances, and
TLAPS proofs for instances of every size. `PROJECT.json` maps every definition to the code it stands for.

## The system

| Component | State | Operations | Hard because |
|---|---|---|---|
| Reconcile loop (`reconcile.go`) | one pass's list of VMs | retire, prune, scale | the list is old by the time it is used; the pass waits for GitHub in the middle |
| Worker operations (`worker.go`) | `busy`, `slots`, `foreign` | create, retire | run in the background, several calls each, any of which may fail, answer late or not at all; the process may die between any two |
| Scale sets (`scaleset.go`) | `desired`, `known`, `busy`, `retryAfter` | the listener's reports | written by another goroutine; empty after a restart |
| Template pruning (`templates.go`) | none | destroy old templates | races creations, imports and the smoke test |
| Process (`controller.go`) | all of the above, in memory | run, shutdown, restart | what is in flight at shutdown; adopting workers afterwards |
| Proxmox (external) | VMs, their tags, sampled status | clone, configure, start, stop, destroy | status lags by 10 s; a VM outside the pool is invisible |
| GitHub (external) | runner registrations | register, look up, remove, assign jobs | assigns jobs at any time; refuses to remove a runner in a job |
| Guests (external) | the runner service | run one job, power off | may hang or die |
| Installer: update and config (`update.go`, `config.go`, `systemvm.go`) | host binary, settings file, gateway and controller VM, release tags | update, config set, config apply | stopped anywhere and run again; plans before it has the lock; the controller VM may reboot meanwhile |
| Installer: host tuning (`asyncpf.go`, `offloads.go`) | boot loader settings, udev rule | tune, take back | settings and what makes them effective are separate commands |
| Installer: install, uninstall (`install.go`, `steps.go`, `systemvm.go`, `controller.go`, `uninstall.go`) | pools, user, token, network, VMs, GitHub App | install, uninstall | stops half-way and is run again; works next to a running controller |
| Listener (`github/scaleset.go`, `github/listen.go`) | GitHub's scale sets and message sessions | register, listen, reopen with backoff, close | answers lost, messages deleted but not handled, sessions nobody holds; wakes a loop that is in the middle of a pass |
| Status (`controller/status.go`) | the status file | written after every pass | tells what was so at the last pass |
| Settings and configuration (`internal/settings`, `internal/config`) | the settings file | flags, config keys, render, parse | two validations and two sets of defaults that must agree; sizes and counts at their bounds |
| Releases (`internal/release`) | none | compare, find the newest | numbers and text, pre-releases; releases of several branches listed in any order |

The controller has no database: the VMs' tags are its only persistent state. A worker's name is its VMID and its
creation time; its tags record scale set, creation time, template and, once it is complete, that it is ready.

What makes the parts correct:

- an operation works on the VM it was started for, whatever happened to the VMID since;
- a job isn't cut short, except by `maxLifetime`;
- nothing is left behind: no VM without an owner, no registration without a VM;
- a restart disturbs no worker;
- a template lives as long as somebody needs it;
- demand is met, finished and half-built workers go, in the end;
- every worker is used once: one VM, one boot, one runner, one job at most;
- GitHub's demand reaches the loop whatever is lost on the way, and a stop always ends;
- what the host saves and shows is what the controller accepts and runs with;
- a node never goes back to an older release;
- a command that stopped is completed by running it again, and a command that reports success has done what it says;
- commands that run at the same time don't undo each other's work.

## Modules

| Module | Content |
|---|---|
| `Pool` | What the controller's calls act on: the VMs of the worker range (`vm`, `shown`), those of the reserved range (`reserved`), GitHub's registrations (`runner`), and the steps of Proxmox, guests, GitHub and the installer |
| `Controller` | extends `Pool` with the process, the pass, the operations and the scale sets; one action per call of `create` and `retire`, one per step of a pass between two calls |
| `Worker` | what the controller promises of every worker: the abstract specification that `Controller` implements |
| `ControllerProps` | safety properties, the refinement of `Worker`, the inductive invariant, fairness, liveness, and what the repository's text says that doesn't hold |
| `ControllerProofs` | the inductive invariant of `Controller` proved, and what follows from it at once |
| `PoolProofs` | extends it: templates, adopted workers, registrations without a VM, and that `Controller` implements `Worker` |
| `MCController` | constant values for TLC |
| `Update` | `parcon update`, `install` of a newer release, `config set` and `config apply` on an installed node, and what they promise |
| `HostTuning` | the NIC offloads and `no-kvm-apf`: tuning, taking it back, reboots |
| `Plans` | lemmas about a plan as the steps that are left of it, in their order |
| `UpdateProofs`, `HostTuningProofs` | the proofs about `Update` and `HostTuning`, which use `Plans` |
| `MCUpdate` | constant values for TLC |
| `Listener` | registering the scale sets, their sessions, the state they report into, the loop they wake, the status it writes, and the way out |
| `ListenerProofs` | the proofs about it |
| `Settings` | the settings file: install's flags, the config keys, and the controller's config rendered from them |
| `Releases` | the order of versions, and the commands that go by it |
| `HostProofs` | the proofs about `Settings` and `Releases` |
| `MCHost` | `Settings`, `Releases` and `HostTuning` for TLC, one of them in each behaviour |
| `Install` | `parcon install` and `parcon uninstall` step by step, run any number of times, and what they promise |
| `InstallProofs` | the proofs about it |

`Update`, `HostTuning` and `Install` stand on their own: they share no state with the controller's modules except the
templates, which each sees only as far as its commands do. `Install` ends where `Update` begins, with the release tag,
and sees the host's tuning as one step of which `HostTuning` has the details. `Listener` and `Controller` overlap in
the scale set's state: `Listener` shows how reports get there and that a pass follows, `Controller` what passes do with
any reports in any order. `Settings` and `Releases` are what `Update` has only as keys and numbers.

### State and actions

`vm[v]` is the VM on worker VMID `v`: `none`, a `clone` that still carries the template's tags, or a `worker`. `shown[v]`
is the status Proxmox's list shows, which `Sample` brings up to date. `reserved[t]` is a template, an import that isn't
listed as a template yet, or the smoke-test clone. `runner[r]` is GitHub's registration of worker `r`, which is
identified by its creation time. `op[id]` is `Controller.busy[id]` together with the position of the goroutine behind
it: `at` is the call it is about to make. `seen`, `used`, `newest`, `todo`, `asking` and `sets` are the local variables
of a pass.

`create` is `GetSlot`, `Clone`, `Configure`, `Register`, `StartVM`, `Signal`, `Mark`; each has the outcomes of its call:
done, failed without effect, and failed although it took effect (a lost answer, or a task that ran on after the
controller stopped waiting). A failure after the clone continues with the calls of a forced `retire`, as the deferred
function does. `retire` is `RemoveRunner`, `Stop`, `Destroy` or, forced, `Stop`, `Destroy`, `RemoveRunnerAfter`.
A pass is `BeginPass` (`ListVMs`, `observe`, pruning, strays), `LookAt` for each worker (`Ask` and `Answer` around the
lookup of its runner), `Scale` for each scale set. A pass whose `ListVMs` fails does nothing, and is no step.

`Worker` has, of each worker, its VM's life (absent, in its setup, live, gone), its registration and whether the VM runs;
`SingleUse` in `ControllerProps` gives these in terms of `vm`, `op` and `runner`. A VM is in its setup as long as the
creation that made it is before the start of the VM; everything that ends that creation, a crash included, makes it
live: somebody else has to destroy it. The template's import may destroy a clone that still has the template's tags
(`ImportTemplate`, as importTemplate takes it for its own failed import); the refinement shows that the creation
fails over it and its name isn't used again.

In `Listener`, `remote`, `session`, `assigned` and `mail` are GitHub: scale sets by name, each one's session, its jobs
and the messages not fetched yet. `pc`, `todo` and `call` are `Run`, `registerScaleSets` and `EnsureScaleSet`, `at[s]`
is the goroutine of `Listen`, `known`, `desired`, `sess` and `wake` are `scaleSetState` and the wake channel. `acted` is
what the last pass read, `status` what the status file says. A call works, fails, or fails although GitHub did what it
was asked for; the end of `ctx` makes every call fail except `session.Close`, which has a context of its own. Recording
a new target and waking the loop are two steps, as the lock is released in between.

In `Settings`, `s` is the settings: install's flags, then every `--set` (`SetFlag`), then `Save`; later the GitHub target
that the App's installation tells (`LearnTarget`) and `SetConfig`. Parsers give the set of their results, empty for what
they refuse, and printing gives written values again. `Releases` has what GitHub lists, the host's parcon and the
installed release; `Precedence` and `Older` define semantic versioning's order independently of `Compare`.

In `Update`, `host`, `images`, `gw` and `ctl` are the node: what is on the host's disk, the runner templates, the
gateway VM and the controller VM (`bin` and `config` are files, `service` is what `parcon.service` was started with,
`tag` is the release tag). `cmd[c]` is a `parcon` process: `Update`, `Install`, `SetConfig` and `ApplyConfig` start
one, `Plan` is everything up to the question, `Lock` is the answer and the lock, and then every element of `plan` is
one action, in the order of `upgradeSteps`, `createSystemVM` and `apply`. `ReplaceSelf` and `Exec` are `updateSelf`.
`Fail` ends a command anywhere; `Refused` ends one whose next step can't be done.

In `Install`, `objs` is the set of objects the host and Proxmox have (files, pools, role, user, ACLs, SDN zone and
VNet, tuning), `up` whether the VNet is in the applied SDN config. `sys` is how far the gateway and the controller VM
are in `createSystemVM`, `ctl` what is in the controller VM: its config, the token's secret, the App's key, whether the
latter two belong to the token and the App of the settings (`token`, `app`), the service, its session and the release
tag. `cmd.plan` is what is left of the command's steps, `InstallPlan` or `UninstallPlan`; every step is one action that
finds out itself, as the code does, whether there is something to do. `Fail` ends a command before any step, `GiveUp`
is a wait or a check that can't succeed, `OnlyWarns` a failure that uninstall goes on after. The controller, once it
can work, opens sessions and creates workers meanwhile.

In `HostTuning`, `dropIn`, `grubCfg`, `cmdline` and `esp` are the places the kernel command line passes through, `rule`
and `off` the udev rule and the NIC. `Tune` and `Remove` work out their steps from what they find, as the code does.

### Abstractions

- **Time.** Creation times are unique and increasing, and double as the worker's name; the code's name also has the
  VMID, so equal seconds on different VMIDs are no conflict there. `maxLifetime` and `retryAfter` pass at any time
  outside a pass, because a pass reads the clock once (`now`). `runnerCheckDue`, the lookup budget and the age after
  which lookups begin are a free choice. Call timeouts are failures.
- **Interleaving.** Other processes may act between any two actions of a pass, which includes places where the code
  makes no call. For properties that hold this is the stronger statement. `shutdown`, which shows a violation, uses the
  action constraint `OnlyWhileWaiting`, which lets others act only while the pass waits for GitHub, so that
  its counterexample needs no unlikely preemption.
- **Failures.** `MaxFaults` bounds failed calls, crashes, shutdowns, guests that die and runners deleted by hand
  together. Calls that fail because the context ended are free. `retire`'s calls outlive the context.
- **Proxmox.** It refuses to destroy a running VM and a template with linked clones. `ForeignIDs` are VMIDs of VMs
  the token can't see. Configure's two calls (tags, disk) are one action: tags without a grown disk is its
  lost-answer outcome.
- **Reports.** The listener's reports may come late, repeatedly or never. Reports about a worker whose VM is gone are
  left out: names are never reused, so nobody reads what they record.
- **Releases and settings.** A release is a number, and `Format` says which releases share a config format: equal
  formats render equal files. Settings are a function from keys to values. The node's own part of a config (address,
  certificate) doesn't change. A dry run changes nothing and is left out, as are local assets.
- **Gateway.** Stages of one VM: created (tagged), with its disk, booted, up. Setting cloud-init's drive is part of the
  start. Nobody deletes it while a command runs; the controller VM may stop and start at any time.
- **Service.** `parcon.service` is enabled and restarts with the VM, as on every finished install.
- **Install.** Commands don't overlap (the lock is in `Update`), and the question is answered at once. A deadline passes
  only when waiting is in vain. Whether a system VM without its cloud-init drive has a network is left open. Clones are
  linked or full, which decides whether Proxmox destroys a template under them. Workers are one Boolean, smoke-test
  clones are told apart by how far they got: `leaked` ones never got their own tags and belong to an earlier run.
- **Listener.** A pass only counts which target it read. Polls without a message change nothing and are no steps.
  Which of several scale sets of one name GitHub finds doesn't matter, as there is never a second (`RegisteredOnce`).
  A session without a poller expires. A name's labels and runner settings are one value. The status of a process that is
  gone is gone: the unit's RuntimeDirectory.
- **Settings.** Ints end at `MaxInt`, sizes at `MaxSize`: 2^20 - 1 and 2^15 - 1 in the run for the code's 2^63 - 1 and
  2^31 - 1, which keeps the proportions that decide whether a size times 1024 wraps around. Lifetimes are in minutes,
  with a flag for seconds. Text without a number is left out, as it is refused at once. Names, URLs, paths and the
  network's settings are left out, as is the free disk, which has no key.
- **Versions.** An identifier is a number, or none, and its rank as text. Leading zeros and numbers too large for an int
  are left out, see the weaknesses below.
- **Boot.** `update-grub` and `proxmox-boot-tool refresh` are external: the former makes grub.cfg follow the drop-in,
  the latter copies what the boot loader reads to the ESPs.
- **Installer in `Pool`.** Only what shares the runner pool: imports and the smoke test, each atomic with the clean-up it begins
  with, and possibly failing half-way (an import that is never listed, a clone that stays).

## Runs

| Run | Instance | Checks |
|---|---|---|
| `workers` | 1 VMID, 2 workers after each other, 2 failures, lifetime | `TypeOK`, `RunnersTraceable`, `NoOrphanRunners`, `AdoptedUndisturbed`, `LiveRunnersNotCut`, `SingleUse` |
| `templates` | 2 reserved VMIDs, 1 foreign worker VMID, 3 versions, 1 failure | `TemplatesKept`, `SingleUse` |
| `scale_sets` | 2 scale sets, 1 VMID, reconfiguration, 1 failure | `OperationsOwnTheirVM`, `IndInv`, `LiveRunnersNotCut` |
| `liveness` | 1 VMID, 2 workers, 1 failure, fair | `FinishedWorkersGo`, `HalfBuiltGo`, `DemandMet` |
| `listener` | 1 scale set, 2 messages, 2 failures or stops, 1 outage, fair | `NoLostWakeup`, `RegisteredOnce`, `StopClosesSessions`, `StopsInTheEnd`, `DemandReaches`, `StatusFollows` |
| `update` | 1 command at a time, 3 releases, 2 config formats, 2 failures, 1 outage | `TypeOK`, `TagIsHonest`, `ConfigReadable`, `UpdateInstalls`, `ForceRepairs`, `AppliedConfigRuns` |
| `host`, settings | 14 sets of flags, 35 values around every bound, nodes with known and unknown limits | `SavedIsAccepted`, `ShownIsRun`, `StoredAsMeant`, `AllowedIsAccepted` |
| `host`, releases | 8 versions of two branches, 5 of them pre-releases, any 3 published in any order | `FindsTheNewest`, `NeverOlder` |
| `host`, tuning | every boot loader, with and without ESPs, 3 failures, reboots | `AsyncPFTuned`, `AsyncPFRestored`, `OffloadsTuned`, `OffloadsRestored` |
| `install` | any sequence of installs and uninstalls, 3 failures, linked and full clones | `UninstallRemoves`, `TagMeansComplete`, `InstallContinues`, `UninstallContinues` |
| `shutdown`, `continued_update`, `set_overlap`, `continued_install` | small | each violates one statement of the repository |

The bounds are small but reach the cases that matter: a VMID is used twice, so old operations and listings can meet a
new VM; a second failure hits the clean-up after a first one; two operations compete for one slot; demand goes up,
down and up again; a restart happens with work in flight; a template is replaced while its clones live. What holds for
any number of VMIDs, workers and failures is proved, see below. The creation bound and the failure bound let the
controller's model stop, so deadlock isn't checked there, nor in `host`, where settings that were refused end; it is for
`Update`, `Install` and `Listener`.

In `Listener`, two failures let a stop or a crash follow a lost answer, in whichever order; with the outage, a stop meets
a GitHub that never comes back. One scale set is enough for the wakeups: what can be lost is lost between one listener
and the loop. Two messages let a target change and change back within one pass.

In `Update`, two failures let a command that repairs a stopped one be stopped too, and three releases with two formats
let a stopped update be followed by one to the next release, with and without a change of the config's format. Two
keys and two commands are what a lost setting takes.

In `Install` the number of commands isn't bounded. Three failures stop an install, then an uninstall of what it left,
then the next install, which is enough for each kind of leftover to meet each other command.

Every property has a mutant: a plausible mistake in the code with which the property fails.

### Fairness

`Fairness` assumes what the code provides: the loop's ticker starts passes again and again, started operations go on,
a goroutine waiting on `slots` gets its turn (Go's channels serve waiting senders in order), runner checks become due,
`retryAfter` passes, pvestatd samples, jobs end (guests that hang are covered by the runner check; whether the VM
powers off is not assumed), and systemd restarts the controller. It doesn't assume that any call
succeeds, only that failures are finite in number. It assumes nothing of GitHub's assignments and reports.

`Listener`'s `Fairness` assumes that goroutines and timers go on, that systemd restarts the service, and that GitHub
drops a session nobody polls. Leaving the loop is strongly fair: `select` chooses at random among the channels that are
ready, so a loop that is woken again and again still sees the end of `ctx`. That GitHub can be reached again is not
assumed: `DemandReaches` has it as its premise, `StopsInTheEnd` and `StatusFollows` hold without it.

### What the violations show

- **`shutdown`**: a shutdown between the JIT signal and the ready tag destroys a worker that may have a job.
- **`continued_update`**: an update stopped after the controller's files were replaced and before the restart is marked
  as finished by the next one, with the old release still running. `UpdateInstalls` holds, since it speaks of what is
  on disk; `ForceRepairs` shows that `--force` restarts.
- **`set_overlap`**: two `config set` at once, of different keys: one is lost.
- **`continued_install`**: an install that stopped between creating the SDN zone and VNet and applying them can't be
  continued; only an uninstall helps.

More weaknesses met while modelling have no run of their own:

- A second install also fails, though none of its calls do, after three other interruptions, the exceptions of
  `InstallContinues`. If the controller already runs when install gets to `startController` (the network check of an
  earlier run failed, say), `waitSession` looks for a log line younger than the one there is. If a run stopped between
  replacing the API token and writing its secret over an old one, or an uninstall between destroying the controller VM
  and removing the settings, a secret or an App ID stays that doesn't fit. A system VM without its cloud-init drive is
  started as it is. `TagMeansComplete` shows that none of these passes for a finished install.
- An uninstall stopped between deleting the SDN objects and applying that leaves the VNet up for good, unsaid;
  `UninstallRemoves` excludes it.
- `scale` doesn't count a worker that is being retired. If demand returns meanwhile and GitHub refuses the retirement
  because the worker just got a job, more than `maxRunners` workers run until one of them ends. `DemandMet` shows that
  this is temporary.
- An update whose question is answered after another update has finished takes the node back to its own release.
- A pass with an old list can hand out the VMID of a worker created during the pass. Proxmox refuses the clone, no
  worker is harmed (`OperationsOwnTheirVM`), but the controller doesn't use the VMID again until it restarts.
  `DemandMet` excludes this. In the same way a pass can take a worker that was just completed for a half-created one:
  an idle one is retired for nothing, GitHub protects one in a job (`LiveRunnersNotCut`).
- A `config set` stopped between saving and restarting can't be repeated; `config apply` helps.
- If install.sh of an older release runs on a node where an update to a newer one had stopped, a later update can keep
  the older template. The same sequence makes `ConfigReadable` fail for a moment: the older parcon replaces the newer
  one before the config. The constant `OldScripts` allows such runs; it is `FALSE` in the configurations.
- Labels that differ only in case pass the settings' validation and not the controller's: install saves them, and fails
  when it renders the config (`SavedIsAccepted` names the exception).
- `--set` is checked after each flag, against all settings so far: `--min-runners 3 --set worker.cores=2
  --set runners.max=5` is refused, with the two in the other order it isn't.
- `Compare` stops at the first parts whose texts differ: `01` and `1` are different texts and equal numbers, so what
  follows isn't compared; numbers that don't fit an int are compared as text.
- A scale set deleted in GitHub while the controller listens isn't registered again until the controller restarts, and
  the loop doesn't start before every scale set is registered. A stop while a session is being opened may leave one, and
  the next start waits for it to expire.
- A run stopped before `proxmox-boot-tool refresh`, or an uninstall stopped before `update-grub`, isn't completed by
  the next one: `AsyncPFTuned` and `AsyncPFRestored` say when it is.

## Proofs

Every theorem holds for every value of the constants: any VMIDs, scale sets, releases and bounds, which TLC has to fix.
The constants' assumptions are the only ones, and TLC evaluates them in the runs; where a theorem needs more, it says so.
Few of the properties are inductive. Each module defines the invariant it is proved with as a conjunction of named parts,
which TLC checked on small instances before it was proved; the proof has one lemma per action.

| Module | Theorem | Property |
|---|---|---|
| `ControllerProofs` | `IndInvHolds` | `IndInv`, the inductive invariant |
| | `TypeCorrect` | `TypeOK` |
| | `OwnVMs` | `OperationsOwnTheirVM` |
| | `Traceable` | `RunnersTraceable` |
| | `LiveRunnersSafe` | `LiveRunnersNotCut` |
| `PoolProofs` | `SingleUseHolds` | `SingleUse`: `Controller` implements `Worker`, for every worker |
| | `PruningIsSafe` | `TemplatesKept` |
| | `AdoptedLeftAlone` | `AdoptedUndisturbed` |
| | `RunnersGoWithVMs` | `NoOrphanRunners` |
| `ListenerProofs` | `ListenerTypes` | `TypeOK` |
| | `WakeupsKept` | `NoLostWakeup` |
| | `NoSecondScaleSet` | `RegisteredOnce` |
| | `SessionsClosed` | `StopClosesSessions` |
| `HostTuningProofs` | `HostTypes` | `TypeOK` |
| | `OffloadsStayOff`, `OffloadsGivenBack` | `OffloadsTuned`, `OffloadsRestored` |
| | `NextBootTuned`, `NextBootRestored` | `AsyncPFTuned`, `AsyncPFRestored` |
| `UpdateProofs` | `UpdateTypes` | `TypeOK` |
| | `ForceRepairsHolds`, `AppliedConfigRunsHolds` | `ForceRepairs`, `AppliedConfigRuns` |
| | `TagStaysHonest`, `ConfigStaysReadable`, `UpdateInstallsAll` | `TagIsHonest`, `ConfigReadable`, `UpdateInstalls`, for commands that don't overlap |
| `InstallProofs` | `InstallTypes` | `TypeOK` |
| | `UninstallLeavesNothing` | `UninstallRemoves` |
| | `TagComesLast` | `TagMeansComplete` |
| | `InstallGoesThrough`, `UninstallGoesThrough` | `InstallContinues`, `UninstallContinues` |
| `HostProofs` | `CompareIsPrecedence`, `LatestIsNewest` | what `Compare` and `Latest` compute, for every version and every list |
| | `NewestIsFound`, `NodeNeverGoesBack` | `FindsTheNewest`, `NeverOlder` |
| | `ControllerAcceptsSaved`, `ControllerRunsShown` | `SavedIsAccepted`, `ShownIsRun` |
| | `SetStoresMeaning`, `DescribeIsSet` | `StoredAsMeant`, `AllowedIsAccepted` |

**Controller.** The assumptions are `RangeAssumption`, `BoundAssumption` and `ConfigAssumption`: the worker and the
reserved part of the range are disjoint, no scale set has an empty name, `maxRunners` and the parallelism are positive.
That a retirement meets its own worker depends on the listing it came from, which depends on VMIDs not being given away
while a pass may still refer to them, which depends on operations in flight. `IndInv` says this one VMID at a time:
`OpShape`, `VMShape`, `CreateShape`, `SeenShape` and `RetireShape` relate the VM, the operation and the listing of a
VMID, and `TimesApart` says that the creation times connected with different VMIDs differ. That makes a step on one VMID
invisible to the others (`FrameWorker`), even where it changes GitHub's registrations, and each action's lemma deals
with its own VMID only. `RetireShape` carries the argument for `LiveRunnersNotCut`: without force the runner is out of
GitHub before the VM is touched and can't come back, because names are never reused; with force the VM is only stopped
if the list said it was running, which for a forced retirement means that it outlived `maxLifetime`.

**The refinement.** `SingleInv` adds to `IndInv` what each step of a creation can count on (`Stage`): the name it is about
to clone under isn't that of a VM it finds at its VMID, its runner is new until it registers it and isn't afterwards, and
its VM is off until it starts it. With it, every step of `Controller` is a step or a stutter of `Worker`, for each worker.

**The pool.** `TemplatesInv` says that no two templates have the same version, that what is being pruned is a template
without clones that nobody counts on, neither the pass nor a creation that waits to clone it, and that the newest one
is never being pruned. `AdoptInv` tells the workers from before a start from those of this process: creations start
only for scale sets that GitHub has reported on, so an adopted worker's scale set is still unknown, and a retirement
without force has one of the reasons that `AdoptedUndisturbed` allows. `OrphanInv` is about behaviours without a failure:
clean-ups are then forced and know their runner, and a lookup is only under way for a VMID without an operation.

**Listener.** `ListenerInv` has three parts. `WakeInv`: a target that the last pass hasn't read has a wakeup in the
channel, or a goroutine about to put it there, or a pass that has still to read it. `RegisterInv`: the call that
registration is about to make fits what GitHub has, as nobody else registers, and nobody listens before it is through.
`SessionInv`: a listener that is opening a session, or waits to, holds none, and if nothing but the stop failed, one that
has returned has closed its session.

**Tuning.** `NicInv` and `BootInv` say of each setting that it is as the command wants it, or the command has still to
change it, and that `update-grub` and the refresh come after what they must pick up. `FreshInv` says, of hosts on which
nothing stopped, that what is generated from the settings is up to date or about to be. `PlanInv` gives the order of the
steps; `Plans` has the lemmas, for which a plan is the set of its steps in an order.

**Update.** `UpdateInv` holds for any number of overlapping commands: which steps can be left in which order
(`PlanShape`), and what the command with the lock has done or still has to do (`RunShape`), as nobody else changes the
node. `OneInv` strengthens it for `OneCommand` without `OldScripts`, both hypotheses of the last three theorems: no
piece is newer than the host's parcon or older than the tag, and a planned update has brought each piece to its release
or still has the step that does (`Brings`). The hypotheses are needed: a command plans before it has the lock, so an
overlapping one can make the plan obsolete, and an old install.sh after a stopped update can leave the newest template
older than the tag. Both are described under the violations above.

**Install.** A command's plan is one of 36 suffixes of install's steps, those it inserts included, or one of 16 of
uninstall's for either order of the pools. `InstInv` gives a plan by its position, and says at each position what
earlier steps made (`Made`, `Built`) or removed (`Dropped`, `Gone`) that is still so, whatever the controller and other
people do meanwhile. `Removed` is what remains of that after the last step. `Flawless` covers runs without a failure: no
pool is left, the scale set can still be deleted as long as it exists, the VNet is up only if there is one or somebody
was told. That `InstallContinues` lists all interruptions that matter follows by going through the positions at which
install can give up.

**Releases.** `Older` is the order of sequences of pairs, so it is decided at the first place where two versions'
precedences differ (`OlderAt`); `CompareIsPrecedence` goes through the places where `Compare` can find its first
difference and shows that both look at the same one. `ReleasesAssumption` is used there: identifiers of one number are
the same, as semantic versioning forbids leading zeros, which the code's pattern doesn't. Two versions neither of
which is older are then the same version. `Latest` is a loop, and what it finds for every list takes induction over
its rounds: after each, it has the newest of the releases seen so far. The prover can't use the library's induction
theorems, as they take an operator; `LeastNat` gives the same from the well-foundedness of the naturals, as the first
round that is wrong can't be the first. That the node never goes back needs only that everything is a version
(`ReleasesTypeOK`), and that `Compare` is right.

**Settings.** `SettingsInv` says that what is saved is valid and that all values are in their types' ranges, also
before the flags are checked. The assumptions are in `SettingsAssumption`: the default memory fits a size, a size fits an
int, and values and flags are what can be written. A size that `ParseSize` accepts is in range before it is
multiplied, and there `Wrap` is the identity, so each parser returns what the value says or nothing (`StoredAsMeant`).
The host's defaults and the controller's fill in the same values; with that, the host's validation implies the
controller's, except for labels, and what `Get` prints is what is rendered. For `AllowedIsAccepted` the proof prints a
value and reads it again: `FormatMiB` and `FormatLifetime` divide only what is a multiple, and what a key can hold is
within the parsers' own bounds.

Model-checked only: liveness (`FinishedWorkersGo`, `HalfBuiltGo`, `DemandMet`, `StopsInTheEnd`, `DemandReaches`,
`StatusFollows`), which the prover doesn't handle. Every other property of the passing runs is proved.

## Not modelled

- The freshness check, which compares the template's runner with the latest one and only logs; the statistics and worker
  counts in the status file.
- Workers with broken tags: `observe` logs them and leaves them to the admin.
- HTTP, authentication, JSON and YAML, logging: I/O without a state of its own.
- The installer's checks and reports, which read only. Preflight's checks for our names and for others' SDN changes are
  in `Install`, what `status` makes of a session in `Listener`.
- Downloads and signatures: cryptography, and part of the step that needs them.
- The command line beyond the settings flags and signals.

## Plan

1. *(done)* `Pool`, `Controller`, their properties, runs and proofs.
2. *(done)* `Worker`, the abstract specification of a worker's life that `Controller` implements.
3. *(done)* `Update`: update and config, resumed after a stop anywhere. *(done)* `HostTuning`.
4. *(done)* `Install`: install and uninstall as sequences of steps that fail anywhere and are run again; what uninstall
   leaves, next to a controller that couldn't be stopped.
5. *(done)* `Listener`: registration, sessions, wakeups, stop, status.
6. *(done)* `Settings` and `Releases`.
7. *(done)* Proofs: the refinement of `Worker`, and the safety properties of `Controller`, `Listener`, `Update`,
   `HostTuning`, `Install`, `Settings` and `Releases`.
