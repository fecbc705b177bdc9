-------------------------- MODULE ControllerProps --------------------------
(***************************************************************************)
(* What the controller promises, and the inductive invariant that the      *)
(* proofs of it rest on.                                                   *)
(***************************************************************************)
EXTENDS Controller

-----------------------------------------------------------------------------
(* Safety *)

\* An operation only ever meets the VM it was started for, or none, however stale the list was that it came from
\* and however often VMIDs are reused: the retirement of a worker meets no later worker with the same VMID, the
\* retirement of a stray no worker at all, and a creation past its clone only its own VM.
OperationsOwnTheirVM ==
    \A v \in WorkerIDs : vm[v].kind # "none" =>
        /\ op[v].kind = "retire" => IF op[v].name = 0 THEN vm[v].kind = "clone"
                                    ELSE vm[v].kind = "worker" /\ vm[v].stamp = op[v].name
        /\ op[v].kind = "create" /\ op[v].at \notin {"wait", "clone"} => vm[v].stamp = op[v].stamp

\* A VM that runs while GitHub knows its runner: a job is running on it, or may be handed to it at any time.
Live(v) == vm[v].on /\ runner[vm[v].stamp] \in {"idle", "job"}

\* The step that stops the VM of v.
Stops(v) == op[v].at = "stop" /\ op'[v].at = "destroy" /\ vm[v].on /\ ~vm'[v].on

\* The controller stops a VM under a registered runner, and so perhaps a job, only when the worker outlived
\* maxLifetime or its own creation failed. A status list that lags behind, a pass that works from an old list and a
\* job that arrives during a retirement don't lead there (retireReason, retire, destroyVM).
LiveRunnersNotCut ==
    [][\A v \in WorkerIDs : Stops(v) /\ Live(v) => op[v].kind = "create" \/ vm[v].stamp \in expired]_vars

\* A crash at any point leaves the VM of a registered runner traceable to it: the VM's tags already name the worker
\* (create tags the clone before it registers the runner).
RunnersTraceable ==
    \A v \in WorkerIDs : vm[v].kind = "clone" => runner[vm[v].stamp] = "new" /\ ~vm[v].on

\* As long as no call fails and nothing dies, no idle registration outlives its VM, except while the operation that
\* removes it is on its way (retire removes the runner of every worker it destroys).
NoOrphanRunners ==
    faults = 0 => \A r \in Stamps : runner[r] = "idle" =>
        HasVM(r) \/ \E v \in WorkerIDs : op[v].at = "removeAfter" /\ op[v].name = r

\* Between a start and GitHub's first message for a scale set, its healthy workers are left alone. A stale "stopped"
\* may start a forced retirement, but one that never stops a VM, and Proxmox doesn't destroy one that runs.
AdoptedUndisturbed ==
    \A v \in WorkerIDs :
        /\ vm[v].kind = "worker" /\ vm[v].ready /\ Live(v) /\ vm[v].stamp \notin expired
        /\ vm[v].ss \in configured \ known
        => ~IsBusy(v) \/ (op[v].kind = "retire" /\ op[v].force /\ ~op[v].run)

\* Pruning never takes a template away from a creation that is about to clone it, and never asks Proxmox to destroy
\* one that has clones, which it would refuse on every pass (pruneTemplates).
TemplatesKept ==
    /\ \A v \in WorkerIDs : op[v].kind = "create" /\ op[v].at \in {"wait", "clone"} =>
            reserved[op[v].tpl].kind = "template"
    /\ \A t \in TemplateIDs : op[t].kind = "prune" => ~HasClones(t)

-----------------------------------------------------------------------------
(* The refinement: every name is the name of one single-use worker *)

\* The creation under the name r has its VM and hasn't started it yet.
SettingUp(r) ==
    \E v \in WorkerIDs : op[v].kind = "create" /\ op[v].stamp = r /\ op[v].at \in {"configure", "register", "start"}

AboutToClone(r) == \E v \in WorkerIDs : op[v].kind = "create" /\ op[v].stamp = r /\ op[v].at = "clone"

LifeOf(r) == IF HasVM(r) THEN IF SettingUp(r) THEN "setup" ELSE "live"
             ELSE IF r > created \/ AboutToClone(r) THEN "absent" ELSE "gone"

Single == INSTANCE Worker WITH
    Names <- Stamps,
    life  <- [r \in Stamps |-> LifeOf(r)],
    reg   <- runner,
    on    <- [r \in Stamps |-> \E v \in WorkerIDs : vm[v].stamp = r /\ vm[v].on]

\* Workers are single-use, whatever fails, crashes or is cleaned up by whom: a name is given to one VM, its runner is
\* registered before the VM boots, the VM boots once and runs one job at most, and only a VM that is down is destroyed.
\* Clones that the installer takes from under a creation are included.
SingleUse == Single!WorkerSpec

-----------------------------------------------------------------------------
(* The inductive invariant behind OperationsOwnTheirVM, RunnersTraceable and LiveRunnersNotCut, one VMID at a time *)

\* What the operation on worker VMID v can look like.
OpShape(v) ==
    LET o == op[v] IN
    \/ o.kind = "none" /\ o.at = "none" /\ o.stamp = 0 /\ o.name = 0
    \/ /\ o.kind = "create"
       /\ o.ss \in ScaleSets /\ o.tpl \in TemplateIDs
       /\ o.at \notin {"none", "remove"}
       /\ o.at = "wait" <=> o.stamp = 0
       /\ o.name \in {0, o.stamp}
       /\ o.at = "removeAfter" => o.name # 0
    \/ /\ o.kind = "retire"
       /\ o.at \in {"wait", "remove", "stop", "destroy", "removeAfter"}
       /\ o.stamp = 0
       /\ o.name = 0 => o.force /\ ~o.run
       /\ o.at = "remove" => ~o.force
       /\ o.at = "stop" => o.run
       /\ o.at = "removeAfter" => o.force /\ o.name # 0

\* A clone hasn't run, and no runner is registered under its name.
VMShape(v) ==
    /\ vm[v].kind = "none" => vm[v].stamp = 0 /\ ~vm[v].on /\ shown[v] = "unknown"
    /\ vm[v].kind # "none" => vm[v].stamp # 0
    /\ vm[v].kind = "clone" => runner[vm[v].stamp] = "new" /\ ~vm[v].on /\ shown[v] # "running"

\* What a creation has done so far.
CreateShape(v) ==
    op[v].kind = "create" =>
        /\ op[v].at = "clone" => runner[op[v].stamp] = "new"
        /\ op[v].at = "configure" => vm[v].kind \in {"none", "clone"}
        /\ op[v].at \in {"register", "start", "signal", "mark"} => vm[v].kind = "worker"
        /\ op[v].at \notin {"wait", "clone"} /\ vm[v].kind # "none" => vm[v].stamp = op[v].stamp

\* A worker the pass listed is still the one there, or gone; its VMID isn't given away before the pass ends.
SeenShape(v) ==
    /\ seen[v].kind # "none" => v \in used
    /\ seen[v].kind = "worker" =>
        /\ seen[v].stamp # 0
        /\ vm[v].kind # "none" => vm[v].kind = "worker" /\ vm[v].stamp = seen[v].stamp
        /\ op[v].kind = "create" /\ op[v].at \in {"wait", "clone"} => vm[v].kind # "none"

\* A retirement fits the VM it meets. One without force has taken the runner out of GitHub before it goes for the VM;
\* one with force stops the VM only of a worker that outlived maxLifetime.
RetireShape(v) ==
    op[v].kind = "retire" =>
        /\ vm[v].kind # "none" => IF op[v].name = 0 THEN vm[v].kind = "clone"
                                  ELSE vm[v].kind = "worker" /\ vm[v].stamp = op[v].name
        /\ op[v].at \in {"stop", "destroy"} /\ ~op[v].force => runner[op[v].name] \notin {"idle", "job"}
        /\ op[v].force /\ op[v].run => op[v].name \in expired

\* The creation times that VMID v is connected with. No two VMIDs share one, and all have been handed out.
Times(v) == {vm[v].stamp, op[v].stamp, op[v].name, seen[v].stamp} \ {0}
TimesApart ==
    /\ \A v \in WorkerIDs : Times(v) \subseteq 1..created
    /\ \A u, v \in WorkerIDs : u # v => Times(u) \cap Times(v) = {}
    /\ \A r \in Stamps : r > created => runner[r] = "new"

WorkerInv(v) == OpShape(v) /\ VMShape(v) /\ CreateShape(v) /\ SeenShape(v) /\ RetireShape(v)

TemplateInv(t) == \/ op[t].kind = "none" /\ op[t].at = "none"
                  \/ op[t].kind = "prune" /\ op[t].at \in {"wait", "destroy"}

\* The pass only looks at workers it listed, and at scale sets of its configuration.
PassShape ==
    /\ \A v \in todo \cup asking : seen[v].kind = "worker"
    /\ sets \subseteq configured
    /\ proc = "down" => sets = {}

IndInv ==
    /\ TypeOK
    /\ \A v \in WorkerIDs : WorkerInv(v)
    /\ \A t \in TemplateIDs : TemplateInv(t)
    /\ TimesApart
    /\ PassShape

-----------------------------------------------------------------------------
(* Liveness *)

\* The retirement of an unwanted worker that LookAt starts when its check is due.
RetireUnwanted(v) == LookAt(v) /\ Unwanted(seen[v]) /\ op' # op

\* Passes recur (ticker), operations run, slots are handed out in turn, checks become due, pvestatd samples, jobs end,
\* and systemd restarts the controller. Calls may fail, but not forever (MaxFaults).
Fairness ==
    /\ WF_vars(Pass)
    /\ \A v \in WorkerIDs :
        /\ WF_vars(WorkerOp(v)) /\ SF_vars(GetSlot(v))
        /\ SF_vars(RetireUnwanted(v)) /\ SF_vars(Ask(v))
        /\ WF_vars(Sample(v) /\ UNCHANGED ctlVars) /\ WF_vars(FinishJob(v) /\ UNCHANGED ctlVars)
    /\ \A t \in TemplateIDs : WF_vars(TemplateOp(t)) /\ SF_vars(GetSlot(t))
    /\ \A s \in ScaleSets : SF_vars(BackoffEnds(s))
    /\ WF_vars(Stopped) /\ WF_vars(\E cfg \in Configs : Restart(cfg))

FairSpec == Spec /\ Fairness

\* A worker whose job ended is destroyed in the end, whether or not its VM powers off, and whatever failed meanwhile.
FinishedWorkersGo == \A r \in Stamps : (runner[r] = "done" /\ HasVM(r)) ~> ~HasVM(r)

\* A clone doesn't stay half-built: it becomes a ready worker or is destroyed, also when the controller died over it.
HalfBuiltGo ==
    \A r \in Stamps : (\E v \in WorkerIDs : vm[v].stamp = r /\ ~vm[v].ready)
                         ~> (\A v \in WorkerIDs : vm[v].stamp = r => vm[v].ready)

\* The workers of s that serve GitHub.
Serving(s) == {v \in WorkerIDs : vm[v].kind = "worker" /\ vm[v].ss = s /\ vm[v].ready /\ Live(v)}

\* Once GitHub keeps asking for n workers of s, s gets to exactly n and stays there, unless it has fewer because the
\* run's bound on creations is used up. No VMID may have been given up by mistake, as one that
\* the controller itself used since the pass listed the VMs is.
DemandMet ==
    \A s \in ScaleSets, n \in 0..MaxAssigned :
        <>[](s \in known /\ desired[s] = n /\ foreign \subseteq ForeignIDs)
        => <>[](\/ Cardinality(Serving(s)) = n
                \/ Cardinality(Serving(s)) < n /\ created = MaxCreated)

-----------------------------------------------------------------------------
(* What the repository's text says and the code doesn't quite do *)

\* Run "leaves running workers alone: a restarted controller adopts them, so a controller upgrade doesn't cancel
\* jobs".
ShutdownKeepsJobs ==
    [][\A v \in WorkerIDs :
        Stops(v) /\ runner[vm[v].stamp] = "job" /\ proc = "stopping" => vm[v].stamp \in expired]_vars
=============================================================================
