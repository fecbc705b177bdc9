-------------------------------- MODULE Pool --------------------------------
(***************************************************************************)
(* What the controller works on, as its clients in internal/proxmox and    *)
(* internal/github show it: the VMs in Proxmox's runner pool, the runners  *)
(* registered with GitHub, the guests that run the jobs, and the installer *)
(* as far as it puts VMs into the same pool.                               *)
(***************************************************************************)
EXTENDS Integers, FiniteSets

CONSTANTS
    WorkerIDs,    \* the worker part of the VMID range
    TemplateIDs,  \* the reserved part of the VMID range
    ForeignIDs,   \* worker VMIDs taken by VMs the controller's token can't see
    ScaleSets,    \* names of scale sets
    MaxCreated,   \* bound: workers ever created
    MaxFaults,    \* bound: failed calls, crashes, restarts, guests dying, runners deleted by hand
    MaxVersion,   \* bound: template versions
    MayExpire     \* bound: the workers that may outlive maxLifetime

ASSUME RangeAssumption ==
    /\ WorkerIDs \subseteq Nat /\ TemplateIDs \subseteq Nat \ {0}
    /\ WorkerIDs \cap TemplateIDs = {}
    /\ ForeignIDs \subseteq WorkerIDs
    /\ "" \notin ScaleSets

ASSUME BoundAssumption ==
    /\ MaxCreated \in Nat /\ MaxFaults \in Nat /\ MaxVersion \in Nat \ {0}
    /\ MayExpire \subseteq 1..MaxCreated

VARIABLES
    vm,        \* the VMs of the worker range
    shown,     \* the status pvestatd last sampled for each
    reserved,  \* the VMs of the reserved range
    runner,    \* GitHub's registration of each worker's runner
    expired,   \* the workers older than maxLifetime
    faults     \* failures so far

poolVars == <<vm, shown, reserved, runner, expired>>

Stamps == 1..MaxCreated   \* a worker's creation time; with its VMID, its name (workerName)
Name   == Stamps \cup {0} \* 0: no runner name

\* A VM of the worker range. A clone carries the template's tags until it is configured; then its tags name its scale
\* set, its creation time and its template, and in the end say that it is ready. on: it runs. jit: its runner service
\* has the JIT config and was told to use it.
VM == [kind : {"none", "clone", "worker"}, ss : ScaleSets \cup {""}, stamp : Name,
       tpl : TemplateIDs \cup {0}, ready : BOOLEAN, on : BOOLEAN, jit : BOOLEAN]
NoVM == [kind |-> "none", ss |-> "", stamp |-> 0, tpl |-> 0, ready |-> FALSE, on |-> FALSE,
         jit |-> FALSE]

\* A VM of the reserved range: a template, an import whose template flag Proxmox doesn't report yet, or
\* the installer's smoke-test clone of the template base.
Reserved == [kind : {"none", "import", "template", "build"}, version : 0..MaxVersion,
             base : TemplateIDs \cup {0}]
NoReserved == [kind |-> "none", version |-> 0, base |-> 0]

Status == {"unknown", "running", "stopped"}

RunnerState == {"new", "idle", "job", "done", "removed"}

PoolTypeOK ==
    /\ vm \in [WorkerIDs -> VM]
    /\ shown \in [WorkerIDs -> Status]
    /\ reserved \in [TemplateIDs -> Reserved]
    /\ runner \in [Stamps -> RunnerState]
    /\ expired \subseteq Stamps
    /\ faults \in 0..MaxFaults

\* One more of the failures the run allows.
Fault == faults < MaxFaults /\ faults' = faults + 1

HasVM(r) == \E v \in WorkerIDs : vm[v].stamp = r

-----------------------------------------------------------------------------
(* What the controller's calls do to it *)

\* Clone: a VM with the template's tags, its status not sampled yet.
Cloned(v, stamp, tpl) ==
    vm' = [vm EXCEPT ![v] = [NoVM EXCEPT !.kind = "clone", !.stamp = stamp, !.tpl = tpl]]

\* Clone's VMID is taken, by whichever VM.
Taken(v) == vm[v].kind # "none" \/ v \in ForeignIDs

\* SetConfig with the tags of a worker of scale set s.
Tagged(v, s) == vm' = [vm EXCEPT ![v] = [@ EXCEPT !.kind = "worker", !.ss = s]]

\* Destroy, which Proxmox refuses for a VM that runs. Destroying a VM that is gone changes nothing.
Destroyed(v) ==
    /\ vm' = [vm EXCEPT ![v] = NoVM]
    /\ shown' = [shown EXCEPT ![v] = "unknown"]

\* A template that VMs were cloned from: Proxmox refuses to destroy it, since they are linked clones.
HasClones(t) == \/ \E v \in WorkerIDs : vm[v].tpl = t
                \/ \E u \in TemplateIDs : reserved[u].base = t

\* RemoveRunner takes a registered runner out of GitHub, unless it runs a job.
Removed(r) == runner' = [runner EXCEPT ![r] = IF @ = "idle" THEN "removed" ELSE @]

\* vmtags.NewestTemplate: the listed template with the highest version, 0 without one.
Templates == {t \in TemplateIDs : reserved[t].kind = "template"}
IsNewest(t) == t \in Templates /\ \A u \in Templates : reserved[u].version <= reserved[t].version
NewestTemplate == IF \E t \in TemplateIDs : IsNewest(t) THEN CHOOSE t \in TemplateIDs : IsNewest(t) ELSE 0

-----------------------------------------------------------------------------
(* Proxmox, the guests and GitHub act by themselves *)

\* pvestatd samples the status the list shows.
Sample(v) ==
    /\ vm[v].kind # "none"
    /\ shown' = [shown EXCEPT ![v] = IF vm[v].on THEN "running" ELSE "stopped"]
    /\ UNCHANGED <<vm, reserved, runner, expired, faults>>

\* GitHub hands a job to the runner of a VM that has its JIT config.
AssignJob(v) ==
    /\ vm[v].on /\ vm[v].jit /\ runner[vm[v].stamp] = "idle"
    /\ runner' = [runner EXCEPT ![vm[v].stamp] = "job"]
    /\ UNCHANGED <<vm, shown, reserved, expired, faults>>

\* The job ends, and with it the ephemeral runner's registration.
FinishJob(v) ==
    /\ vm[v].on /\ vm[v].jit /\ runner[vm[v].stamp] = "job"
    /\ runner' = [runner EXCEPT ![vm[v].stamp] = "done"]
    /\ UNCHANGED <<vm, shown, reserved, expired, faults>>

\* The runner service powers the VM off after its job, or when its runner is gone.
PowerOff(v) ==
    /\ vm[v].on /\ vm[v].jit /\ runner[vm[v].stamp] \in {"done", "removed"}
    /\ vm' = [vm EXCEPT ![v] = [@ EXCEPT !.on = FALSE]]
    /\ UNCHANGED <<shown, reserved, runner, expired, faults>>

\* The guest goes down by itself.
GuestDies(v) ==
    /\ vm[v].on /\ Fault
    /\ vm' = [vm EXCEPT ![v] = [@ EXCEPT !.on = FALSE]]
    /\ UNCHANGED <<shown, reserved, runner, expired>>

\* Someone deletes an idle runner in GitHub.
RunnerDeleted(r) ==
    /\ runner[r] = "idle" /\ Fault
    /\ runner' = [runner EXCEPT ![r] = "removed"]
    /\ UNCHANGED <<vm, shown, reserved, expired>>

\* GitHub gives up on a job whose runner went silent, and drops the runner.
JobAbandoned(r) ==
    /\ runner[r] = "job" /\ ~ \E v \in WorkerIDs : vm[v].on /\ vm[v].stamp = r
    /\ runner' = [runner EXCEPT ![r] = "done"]
    /\ UNCHANGED <<vm, shown, reserved, expired, faults>>

\* A worker outlives maxLifetime.
Expire(v) ==
    /\ vm[v].stamp \in MayExpire \ expired
    /\ expired' = expired \cup {vm[v].stamp}
    /\ UNCHANGED <<vm, shown, reserved, runner, faults>>

-----------------------------------------------------------------------------
(* The installer, as far as it shares the pool. It takes the lowest free reserved VMID. *)

Without(kind) == [t \in TemplateIDs |-> IF reserved[t].kind = kind THEN NoReserved ELSE reserved[t]]

FreeReserved(t, vms) == vms[t].kind = "none" /\ \A u \in TemplateIDs : u < t => vms[u].kind # "none"

\* importTemplate: it first destroys what it takes for imports that a failed run of the same release left. Those are
\* VMs tagged with the release that aren't listed as templates, which a clone is too until it is configured. Which
\* templates and imports are of the same release is left open. A new template's version is the highest.
ImportTemplate(t, version) ==
    /\ \A u \in TemplateIDs : reserved[u].version < version
    /\ version = 1 \/ \E u \in TemplateIDs : reserved[u].version = version - 1
    /\ \E same \in SUBSET TemplateIDs :
        LET left == [u \in TemplateIDs |->
                        IF u \in same /\ reserved[u].kind = "import" THEN NoReserved ELSE reserved[u]]
            gone == {v \in WorkerIDs : vm[v].kind = "clone" /\ vm[v].tpl \in same}
        IN /\ FreeReserved(t, left)
           /\ reserved' = [left EXCEPT ![t] = [kind |-> "import", version |-> version, base |-> 0]]
           /\ vm' = [v \in WorkerIDs |-> IF v \in gone THEN NoVM ELSE vm[v]]
           /\ shown' = [v \in WorkerIDs |-> IF v \in gone THEN "unknown" ELSE shown[v]]
    /\ UNCHANGED <<runner, expired, faults>>

\* Proxmox reports the template flag.
TemplateListed(t) ==
    /\ reserved[t].kind = "import"
    /\ reserved' = [reserved EXCEPT ![t] = [@ EXCEPT !.kind = "template"]]
    /\ UNCHANGED <<vm, shown, runner, expired, faults>>

\* CheckNetwork: it first destroys what a failed check left, clones the newest template, and destroys the clone again.
CloneSmokeTest(t) ==
    /\ FreeReserved(t, Without("build")) /\ NewestTemplate # 0
    /\ reserved' = [Without("build") EXCEPT ![t] = [kind |-> "build", version |-> 0, base |-> NewestTemplate]]
    /\ UNCHANGED <<vm, shown, runner, expired, faults>>

DestroySmokeTest(t) ==
    /\ reserved[t].kind = "build"
    /\ reserved' = Without("build")
    /\ UNCHANGED <<vm, shown, runner, expired, faults>>

-----------------------------------------------------------------------------
(* A fresh install: an empty range and one template. *)
PoolInit ==
    /\ vm = [v \in WorkerIDs |-> NoVM]
    /\ shown = [v \in WorkerIDs |-> "unknown"]
    /\ \E t \in TemplateIDs : reserved = [u \in TemplateIDs |->
            IF u = t THEN [kind |-> "template", version |-> 1, base |-> 0] ELSE NoReserved]
    /\ runner = [r \in Stamps |-> "new"] /\ expired = {}
    /\ faults = 0

Guests == \E v \in WorkerIDs : Sample(v) \/ AssignJob(v) \/ FinishJob(v) \/ PowerOff(v) \/ GuestDies(v)

GitHub == \E r \in Stamps : RunnerDeleted(r) \/ JobAbandoned(r)

Installer == \E t \in TemplateIDs :
    \/ \E version \in 1..MaxVersion : ImportTemplate(t, version)
    \/ TemplateListed(t) \/ CloneSmokeTest(t) \/ DestroySmokeTest(t)

=============================================================================
